-------------------------- MODULE RuntimeRequests ---------------------------
(***************************************************************************)
(* From a planned activity to the request a runtime interpreter gets:      *)
(* runtime_effects.py of the operations package, the request values of the *)
(* core's runtime_effects.py, and the dispatch of coordinator.py.          *)
(*                                                                         *)
(* A context ctx holds what the coordinator loaded: products (active       *)
(* registrations, as references), pulls (image pull authorities),          *)
(* authorities and deliveries (active runtime authorities and deliveries,  *)
(* by reference), resources (ingresses with an active owned resource).     *)
(***************************************************************************)
EXTENDS PlanCompiler, Products, Sequences

CONSTANTS
    Interpreters,  \* runtime kinds with a configured interpreter
    NoAuthority    \* no runtime authority, no pull authority

\* ActivityExecutionDispatcher.execute: ingress activities go to the ingress
\* adapter, connections are only recorded, the rest goes to a runtime.
EffectFamily(a) ==
    CASE a.kind = "ingress" -> "ingress"
      [] a.kind = "edge" -> "connection"
      [] OTHER -> "runtime"

\* _material_graph: what is stopped or removed is described by the base graph.
MaterialGraph(a, b, d) ==
    IF a.label \in {"stop-node", "remove-node-resource", "remove-connection",
                    "stop-runtime", "remove-runtime-resource"} THEN b ELSE d

\* _runtime_id_for_context, and the lookups that follow it.
TargetFound(a, g) ==
    IF a.kind = "node"
    THEN a.id \in DOMAIN g.nodes /\ g.nodes[a.id].runtime \in DOMAIN g.runtimes
    ELSE a.id \in DOMAIN g.runtimes

TargetRuntime(a, g) == IF a.kind = "node" THEN g.nodes[a.id].runtime ELSE a.id

\* _registered_product_for_node: the exact reference the node was authored
\* with, its identity and its descriptor digest.
ProductReference(node) == node.fields["node-metadata"]
Contract(node) == Descriptor[ProductReference(node).digest].contract
ProductRegistered(ctx, node) == ProductReference(node) \in ctx.products

\* ImagePullAuthority.permits: a repository scope covers the paths below it.
Permits(pull, image) ==
    /\ pull.registry = image.registry
    /\ Len(pull.repository) <= Len(image.repository)
    /\ SubSeq(image.repository, 1, Len(pull.repository)) = pull.repository

\* _pull_authority_for_product: the most specific scope; of two authorities of
\* one scope the greater credential reference.
PullAuthority(ctx, image) ==
    LET matches == {p \in ctx.pulls : Permits(p, image)}
    IN IF matches = {} THEN NoAuthority
       ELSE CHOOSE p \in matches : \A q \in matches :
              \/ Len(p.repository) > Len(q.repository)
              \/ Len(p.repository) = Len(q.repository) /\ p.credential >= q.credential

\* Those the descriptor names and those of the node, whose references the
\* instance chose: for one target there may be two.
OwnDeliveries(g, n) ==
    Contract(g.nodes[n]).deliveries \cup g.nodes[n].deliveries

HasTunnelToken(deliveries) == \E d \in deliveries : d.target = "TUNNEL_TOKEN"

\* _connector_ingress_for_node, _ingress_resource_for: a connector needs its
\* token, so the one ingress it serves must have an active owned resource.
Served(g, n) == {i \in DOMAIN g.ingresses : g.ingresses[i].connector = n}
TokenAvailable(ctx, g, n) ==
    \/ HasTunnelToken(OwnDeliveries(g, n))
    \/ Served(g, n) = {}
    \/ Cardinality(Served(g, n)) = 1 /\ Served(g, n) \subseteq ctx.resources

\* _secret_deliveries_for_node.
SecretDeliveries(g, n) ==
    OwnDeliveries(g, n) \cup
    IF HasTunnelToken(OwnDeliveries(g, n)) THEN {}
    ELSE {[target |-> "TUNNEL_TOKEN", intent |-> "tunnel-token", reference |-> i] :
            i \in Served(g, n)}

\* gateway_target_map_for_node: every provider socket some edge uses in the
\* gateway's own runtime, once, with the port its product declares.
GatewayTargets(g, n) ==
    {[node |-> g.edges[e].provider, socket |-> g.edges[e].socket,
      port |-> Contract(g.nodes[g.edges[e].provider]).ports[g.edges[e].socket]] :
       e \in {e \in DOMAIN g.edges :
                g.nodes[g.edges[e].provider].runtime = g.nodes[n].runtime}}

\* _public_environment_for_node: a node that asks for the targets gets them.
WantsTargets(node) == "CPK_GATEWAY_TARGETS_JSON" \in DOMAIN node.fields["public-environment"]

TargetsFound(ctx, g, n) ==
    \A e \in DOMAIN g.edges :
        g.nodes[g.edges[e].provider].runtime = g.nodes[n].runtime =>
            LET p == g.nodes[g.edges[e].provider] IN
            /\ ProductRegistered(ctx, p)
            /\ g.edges[e].socket \in DOMAIN Contract(p).ports
            /\ g.edges[e].protocol \in {"http", "postgres"}

\* RuntimeProductMaterial: the product of a node, with its checks those of the
\* node.
Material(ctx, g, n) ==
    [node |-> n, reference |-> ProductReference(g.nodes[n]),
     deliveries |-> SecretDeliveries(g, n),
     checks |-> g.nodes[n].fields["block-specification"].verification,
     targets |-> IF WantsTargets(g.nodes[n]) THEN GatewayTargets(g, n) ELSE {},
     environment |-> g.nodes[n].environment,
     pull |-> PullAuthority(ctx, Descriptor[ProductReference(g.nodes[n]).digest].image)]

\* _products_for_context: the material of a node's product, or none.
ProductMaterial(ctx, a, g) == IF a.kind = "node" THEN {Material(ctx, g, a.id)} ELSE {}

\* What keeps runtime_effect_request_for_context from making a request.
RequestProblem(ctx, a, b, d) ==
    LET g == MaterialGraph(a, b, d)
    IN CASE ~ TargetFound(a, g) -> "target-missing"
         [] a.kind = "node" /\ ~ ProductRegistered(ctx, g.nodes[a.id]) -> "product-missing"
         [] a.kind = "node" /\ WantsTargets(g.nodes[a.id]) /\ ~ TargetsFound(ctx, g, a.id) ->
              "gateway-target-missing"
         [] a.kind = "node" /\ ~ TokenAvailable(ctx, g, a.id) -> "token-missing"
         [] OTHER -> "none"

\* _runtime_effect_intent_for_context; the deliveries are those registered for
\* the very authority the runtime names.
EffectRequest(ctx, a, b, d) ==
    LET g == MaterialGraph(a, b, d)
        r == g.runtimes[TargetRuntime(a, g)]
    IN [activity |-> a, runtime |-> TargetRuntime(a, g), kind |-> r.kind,
        authority |-> r.authority,
        deliveries |-> ctx.deliveries \cap ({r.authority} \ {NoAuthority}),
        products |-> ProductMaterial(ctx, a, g)]

\* required_secret_uses_for_runtime_effect: every reference with its intent.
RequiredUses(request, tls) ==
    UNION {{<<d.intent, d.reference>> : d \in m.deliveries}
           \cup {<<"postgres-password", k.password>> :
                   k \in {k \in m.checks : k.password # "none"}}
           \cup (IF m.pull = NoAuthority THEN {}
                 ELSE {<<"oci-pull-credential", m.pull.credential>>}) :
           m \in request.products}
    \cup (IF request.authority \in tls
          THEN {<<"docker-remote-tls", request.authority>>} ELSE {})

\* execute_runtime up to the interpreter: what is refused before it is called.
\* Uses are authorized one by one, so authorized holds what the registry admits.
DispatchProblem(ctx, request, tls, authorized) ==
    CASE request.kind \notin Interpreters -> "runtime.interpreter-missing"
      [] request.authority # NoAuthority /\ request.authority \notin ctx.authorities ->
           "runtime.authority-missing"
      [] ~ (RequiredUses(request, tls) \subseteq authorized) -> "secret.use-not-authorized"
      [] OTHER -> "none"

\* RuntimeEffectRequest.__post_init__, the laws between its parts.
WellFormedRequest(request) ==
    /\ request.authority = NoAuthority => request.deliveries = {}
    /\ request.deliveries \subseteq {request.authority}
    /\ \A x, y \in request.products : x.node = y.node => x = y
    /\ request.activity.label # "review-change"

=============================================================================
