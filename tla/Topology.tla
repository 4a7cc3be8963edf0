------------------------------ MODULE Topology ------------------------------
(***************************************************************************)
(* Deployment topology as data: the authored topology and its compilation  *)
(* (topology/compiler.py over algebra.py), the compiled graph and its      *)
(* codec's reference laws (topology/graph.py, codec.py), validation        *)
(* (validation.py) and the structural difference of two graphs (diff.py,   *)
(* changes.py).                                                            *)
(*                                                                         *)
(* A topology is a set of runtime contexts, each with its blocks, a set of *)
(* connections and the ingresses and delegation bindings: the nesting of   *)
(* contexts leaves no trace in the graph.  A graph is a record of          *)
(* functions from identities.  Descriptive content (metadata, environment, *)
(* artifacts...) is one opaque value per field.                            *)
(***************************************************************************)
EXTENDS Naturals, FiniteSets, TLC

Ownerships == {"owned", "attached", "external"}
Persistences == {"ephemeral", "retained"}

\* ResourceLifecycle: what the kit does not own it may not remove.
Lifecycles == {l \in [ownership : Ownerships, compute : Persistences] :
                 l.ownership # "owned" => l.compute = "retained"}

Owned(x) == x.lifecycle.ownership = "owned"
Retained(x) == x.lifecycle.compute = "retained"

\* Node fields that hold descriptive content only.
OpaqueFields == {"block-specification", "public-environment", "node-metadata",
                 "configuration-artifacts", "delegation-verifier-projection"}

(***************************************************************************)
(* compile_topology.                                                       *)
(***************************************************************************)
Blocks(t) == UNION {c.blocks : c \in t.contexts}

\* add_node, add_runtime, add_edge: an identity is added once.
Constructible(t) ==
    /\ \A c1, c2 \in t.contexts : c1.id = c2.id => c1 = c2
    /\ \A c1, c2 \in t.contexts : \A x \in c1.blocks, y \in c2.blocks :
         x.id = y.id => c1 = c2 /\ x = y
    /\ \A x, y \in t.connections : x.id = y.id => x = y

BlockOf(t, n) == CHOOSE b \in Blocks(t) : b.id = n
ContextOf(t, n) == CHOOSE c \in t.contexts : \E b \in c.blocks : b.id = n

\* _apply_connection: both sockets exist, and speak one protocol.
Connectable(t, k) ==
    /\ \E b \in Blocks(t) : b.id = k.provider
    /\ \E b \in Blocks(t) : b.id = k.consumer
    /\ k.socket \in DOMAIN BlockOf(t, k.provider).providers
    /\ k.requirement \in DOMAIN BlockOf(t, k.consumer).requirements
    /\ k.socket \in DOMAIN BlockOf(t, k.provider).endpoints
    /\ BlockOf(t, k.provider).providers[k.socket]
         = BlockOf(t, k.consumer).requirements[k.requirement].protocol

Compiles(t) == Constructible(t) /\ \A k \in t.connections : Connectable(t, k)

Requirement(t, k) == BlockOf(t, k.consumer).requirements[k.requirement]
ProviderUrl(t, k) == BlockOf(t, k.provider).endpoints[k.socket].url

\* The edge assigns the provider's address to every variable of the socket.
EdgeOf(t, k) ==
    [provider |-> k.provider, socket |-> k.socket,
     consumer |-> k.consumer, requirement |-> k.requirement,
     protocol |-> Requirement(t, k).protocol, binding |-> Requirement(t, k).binding,
     assignments |-> [v \in Requirement(t, k).env |-> ProviderUrl(t, k)]]

\* with_connection_material: the variables a node's connections derive.
SocketEnvironment(t, n) ==
    UNION {{[name |-> v, value |-> ProviderUrl(t, k), edge |-> k.id] :
              v \in Requirement(t, k).env} :
           k \in {x \in t.connections : x.consumer = n}}

\* _materialize_block, and what its connections deliver to it.
NodeOf(t, b) ==
    [family |-> b.family, kind |-> b.kind, runtime |-> ContextOf(t, b.id).id,
     providers |-> b.providers, requirements |-> b.requirements,
     endpoints |-> b.endpoints, lifecycle |-> b.lifecycle,
     environment |-> SocketEnvironment(t, b.id),
     deliveries |-> b.deliveries \cup
         UNION {Requirement(t, k).deliveries :
                k \in {x \in t.connections : x.consumer = b.id}},
     fields |-> b.fields]

\* _compile_runtime.
RuntimeOf(c) ==
    [kind |-> c.kind, authority |-> c.authority, metadata |-> c.metadata,
     lifecycle |-> c.lifecycle, children |-> {b.id : b \in c.blocks}]

Compile(t) ==
    [name |-> t.name,
     nodes |-> [n \in {b.id : b \in Blocks(t)} |-> NodeOf(t, BlockOf(t, n))],
     runtimes |-> [r \in {c.id : c \in t.contexts} |->
                     RuntimeOf(CHOOSE c \in t.contexts : c.id = r)],
     edges |-> [e \in {k.id : k \in t.connections} |->
                  EdgeOf(t, CHOOSE k \in t.connections : k.id = e)],
     ingresses |-> t.ingresses,
     delegations |-> t.delegations]

EmptyGraph ==
    [name |-> "empty", nodes |-> << >>, runtimes |-> << >>, edges |-> << >>,
     ingresses |-> << >>, delegations |-> {}]

(***************************************************************************)
(* validate_graph.                                                         *)
(***************************************************************************)
HasProvider(g, n, s) == n \in DOMAIN g.nodes /\ s \in DOMAIN g.nodes[n].providers
HasRequirement(g, n, s) == n \in DOMAIN g.nodes /\ s \in DOMAIN g.nodes[n].requirements

OwnershipErrors(g) ==
    {<<"runtime-ownership", r>> : r \in {r \in DOMAIN g.runtimes :
        ~(g.runtimes[r].children \subseteq DOMAIN g.nodes)}}
    \cup {<<"missing-runtime", n>> : n \in {n \in DOMAIN g.nodes :
        g.nodes[n].runtime \notin DOMAIN g.runtimes}}
    \cup {<<"runtime-ownership", n>> : n \in {n \in DOMAIN g.nodes :
        {r \in DOMAIN g.runtimes : n \in g.runtimes[r].children} # {g.nodes[n].runtime}}}

\* The errors of an edge whose ends exist.
EdgeFindings(g, id) ==
    LET e == g.edges[id]
        p == g.nodes[e.provider]
        q == g.nodes[e.consumer].requirements[e.requirement]
        env == g.nodes[e.consumer].environment
    IN (IF e.provider = e.consumer THEN {"self-connection"} ELSE {})
       \cup (IF {p.providers[e.socket], q.protocol} # {e.protocol}
             THEN {"edge-protocol"} ELSE {})
       \cup (IF q.binding # e.binding THEN {"edge-binding"} ELSE {})
       \cup (IF \/ DOMAIN e.assignments # q.env
                \/ /\ e.socket \in DOMAIN p.endpoints
                   /\ \E v \in DOMAIN e.assignments :
                        e.assignments[v] # p.endpoints[e.socket].url
             THEN {"edge-env-bindings"} ELSE {})
       \cup (IF \E v \in DOMAIN e.assignments :
                  {x \in env : x.name = v}
                    # {[name |-> v, value |-> e.assignments[v], edge |-> id]}
             THEN {"consumer-environment"} ELSE {})

EdgeErrors(g) ==
    UNION {IF ~ HasProvider(g, g.edges[id].provider, g.edges[id].socket)
              \/ ~ HasRequirement(g, g.edges[id].consumer, g.edges[id].requirement)
           THEN {<<"edge-reference", id>>}
           ELSE {<<f, id>> : f \in EdgeFindings(g, id)} : id \in DOMAIN g.edges}

\* Every derived variable names the edge it comes from.
EnvironmentErrors(g) ==
    {<<"consumer-environment", n>> : n \in {n \in DOMAIN g.nodes :
        \E x \in g.nodes[n].environment :
          ~ /\ x.edge \in DOMAIN g.edges
            /\ g.edges[x.edge].consumer = n
            /\ x.name \in DOMAIN g.edges[x.edge].assignments
            /\ g.edges[x.edge].assignments[x.name] = x.value}}

EndpointErrors(g) ==
    UNION {LET n == g.nodes[id] IN
           (IF DOMAIN n.endpoints \ DOMAIN n.providers # {}
            THEN {<<"undeclared-provider-endpoint", id>>} ELSE {})
           \cup (IF DOMAIN n.providers \ DOMAIN n.endpoints # {}
                 THEN {<<"missing-provider-endpoint", id>>} ELSE {})
           \cup (IF \E s \in DOMAIN n.providers \cap DOMAIN n.endpoints :
                      n.endpoints[s].protocol # n.providers[s]
                 THEN {<<"endpoint-protocol", id>>} ELSE {}) : id \in DOMAIN g.nodes}

\* A required socket has one connection, an optional one at most one.
RequirementErrors(g) ==
    UNION {LET into(s) == {e \in DOMAIN g.edges :
                             g.edges[e].consumer = id /\ g.edges[e].requirement = s}
           IN {<<"multiple-requirement-connections", id>> :
                 s \in {s \in DOMAIN g.nodes[id].requirements : Cardinality(into(s)) > 1}}
              \cup {<<"missing-required-connection", id>> :
                 s \in {s \in DOMAIN g.nodes[id].requirements :
                          into(s) = {} /\ g.nodes[id].requirements[s].required}} :
           id \in DOMAIN g.nodes}

\* GraphDescriptorCodec._validate, the laws validate_graph has none for: an
\* ingress leads to a socket, and its connector runs beside the target.
IngressDescribable(g) ==
    \A i \in DOMAIN g.ingresses : LET x == g.ingresses[i] IN
        /\ HasProvider(g, x.target, x.socket)
        /\ x.connector \in DOMAIN g.nodes
        /\ g.nodes[x.connector].runtime = g.nodes[x.target].runtime

\* A projected verifier belongs to an authored delegation of its node.
DelegationsDescribable(g) ==
    /\ \A x \in g.delegations : x.node \in DOMAIN g.nodes
    /\ \A n \in DOMAIN g.nodes :
         LET v == g.nodes[n].fields["delegation-verifier-projection"]
             issuers == {x.issuer : x \in {y \in g.delegations : y.node = n}}
         IN v # "none" => v \in issuers

\* validate_graph.  Left out, because nothing here depends on them: duplicate
\* socket names (sockets are functions), the routes of capabilities, control
\* surfaces and verification checks.
Errors(g) ==
    OwnershipErrors(g) \cup EdgeErrors(g) \cup EnvironmentErrors(g)
    \cup EndpointErrors(g) \cup RequirementErrors(g)
    \cup (IF IngressDescribable(g) /\ DelegationsDescribable(g) THEN {}
          ELSE {<<"invalid-descriptor", g.name>>})

Valid(g) == Errors(g) = {}

(***************************************************************************)
(* diff_graphs, over two valid graphs.  A change says what became of which *)
(* subject; the values before and after are those of the two graphs.       *)
(***************************************************************************)
Change(form, kind, id, field) ==
    [form |-> form, kind |-> kind, id |-> id, field |-> field]

\* Identities that came, and that went.
Exchanged(kind, before, after) ==
    {Change("added", kind, id, "self") : id \in DOMAIN after \ DOMAIN before}
    \cup {Change("removed", kind, id, "self") : id \in DOMAIN before \ DOMAIN after}

Kept(before, after) == DOMAIN before \cap DOMAIN after

RuntimeChanges(b, d) ==
    Exchanged("runtime", b.runtimes, d.runtimes)
    \cup UNION {LET x == b.runtimes[r]  y == d.runtimes[r] IN
         (IF x.kind # y.kind
          THEN {Change("unsupported", "runtime", r, "runtime-kind")} ELSE {})
         \cup (IF x.children # y.children
               THEN {Change("modified", "runtime", r, "runtime-containment")} ELSE {})
         \cup (IF x.authority # y.authority
               THEN {Change("modified", "runtime", r, "runtime-authority")} ELSE {})
         \cup (IF x.metadata # y.metadata
               THEN {Change("modified", "runtime", r, "runtime-metadata")} ELSE {})
         \cup (IF x.lifecycle # y.lifecycle
               THEN {Change("modified", "runtime", r, "resource-lifecycle")} ELSE {}) :
         r \in Kept(b.runtimes, d.runtimes)}

\* Mutant of FieldsChanged: a provider that moved is not noticed by its consumer.
FieldsChangedButEnvironment(x, y) ==
    {f \in OpaqueFields : x.fields[f] # y.fields[f]}
    \cup (IF x.runtime # y.runtime THEN {"runtime-membership"} ELSE {})
    \cup (IF x.providers # y.providers \/ x.requirements # y.requirements
          THEN {"socket-contract"} ELSE {})
    \cup (IF x.endpoints # y.endpoints THEN {"endpoint"} ELSE {})
    \cup (IF x.deliveries # y.deliveries THEN {"secret-deliveries"} ELSE {})
    \cup (IF x.lifecycle # y.lifecycle THEN {"resource-lifecycle"} ELSE {})

\* The fields in which two nodes of one family differ.
FieldsChanged(x, y) ==
    {f \in OpaqueFields : x.fields[f] # y.fields[f]}
    \cup (IF x.runtime # y.runtime THEN {"runtime-membership"} ELSE {})
    \cup (IF x.providers # y.providers \/ x.requirements # y.requirements
          THEN {"socket-contract"} ELSE {})
    \cup (IF x.endpoints # y.endpoints THEN {"endpoint"} ELSE {})
    \cup (IF x.environment # y.environment THEN {"socket-environment"} ELSE {})
    \cup (IF x.deliveries # y.deliveries THEN {"secret-deliveries"} ELSE {})
    \cup (IF x.lifecycle # y.lifecycle THEN {"resource-lifecycle"} ELSE {})

NodeChanges(b, d) ==
    Exchanged("node", b.nodes, d.nodes)
    \cup UNION {LET x == b.nodes[n]  y == d.nodes[n] IN
         IF x.family # y.family THEN {Change("ambiguous", "node", n, "self")}
         ELSE {Change("modified", "node", n, f) : f \in FieldsChanged(x, y)}
              \cup (IF x.kind # y.kind
                    THEN {Change("unsupported", "node", n, "implementation-kind")}
                    ELSE {}) :
         n \in Kept(b.nodes, d.nodes)}

EdgeChanges(b, d) ==
    Exchanged("edge", b.edges, d.edges)
    \cup {Change("modified", "edge", e, "self") :
            e \in {e \in Kept(b.edges, d.edges) : b.edges[e] # d.edges[e]}}

IngressChanges(b, d) ==
    Exchanged("ingress", b.ingresses, d.ingresses)
    \cup {Change("modified", "ingress", i, "self") :
            i \in {i \in Kept(b.ingresses, d.ingresses) :
                     b.ingresses[i] # d.ingresses[i]}}

GraphChanges(b, d) ==
    (IF b.name # d.name
     THEN {Change("modified", "graph", "graph", "graph-name")} ELSE {})
    \cup (IF b.delegations # d.delegations
          THEN {Change("modified", "graph", "graph", "delegation-authorities")} ELSE {})

Diff(b, d) ==
    GraphChanges(b, d) \cup RuntimeChanges(b, d) \cup NodeChanges(b, d)
    \cup EdgeChanges(b, d) \cup IngressChanges(b, d)

=============================================================================
