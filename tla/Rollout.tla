------------------------------- MODULE Rollout ------------------------------
(***************************************************************************)
(* What an activity plan does to the world: the plan compiled from two     *)
(* valid graphs is executed activity by activity in any order its          *)
(* dependencies allow, and a failed run is undone in the reverse order.    *)
(* The world is external: it holds what the interpreters brought about,    *)
(* each effect as the request that asks for it describes it.               *)
(***************************************************************************)
EXTENDS RuntimeRequests

CONSTANTS
    Topologies    \* authored topologies

ASSUME TopologyAssumption == \A t \in Topologies : Compiles(t) /\ Valid(Compile(t))

\* What a block's constructor and its sockets' insist on: every descriptive
\* field is there, and what is bound at run time has no environment.
ASSUME AuthoredAssumption ==
    \A t \in Topologies :
        /\ t.ingresses = [i \in DOMAIN t.ingresses |-> t.ingresses[i]]
        /\ \A x \in Blocks(t) :
             /\ x.fields = [f \in OpaqueFields |-> x.fields[f]]
             /\ \A r \in DOMAIN x.requirements :
                  x.requirements[r].binding # "environment" => x.requirements[r].env = {}

\* The graphs the authored topologies compile to.
Graphs == {Compile(t) : t \in Topologies}

VARIABLES
    rollout,   \* the base and the desired graph, and what they compile to
    world,     \* running runtimes and nodes, made connections, ingresses
    done,      \* the activities that succeeded and are not undone
    direction  \* "forward", "backward"

rvars == <<rollout, world, done, direction>>

Only(f, S) == [x \in S |-> f[x]]
Without(f, x) == Only(f, DOMAIN f \ {x})
With(f, x, v) == [y \in DOMAIN f \cup {x} |-> IF y = x THEN v ELSE f[y]]

\* A runtime's children are placed by the nodes, not by the runtime's activities.
Placed(r) == [kind |-> r.kind, authority |-> r.authority, metadata |-> r.metadata]

\* The world in which a graph is realized.
Realized(g) ==
    [runtimes |-> [r \in DOMAIN g.runtimes |-> Placed(g.runtimes[r])],
     nodes |-> g.nodes,
     edges |-> Only(g.edges, {e \in DOMAIN g.edges : ~ EnvironmentBound(g.edges[e])}),
     ingresses |-> g.ingresses,
     stopped |-> {}]

\* The world after the operation label on a's subject, described by graph g.
\* Stopping keeps the resource; removing it does not.
Effect(w, label, a, g) ==
    CASE label = "start-runtime" \/ label = "reconcile-runtime" ->
           [w EXCEPT !.runtimes = With(@, a.id, Placed(g.runtimes[a.id])),
                     !.stopped = @ \ {<<"runtime", a.id>>}]
      [] label = "start-node" \/ label = "reconcile-node" ->
           [w EXCEPT !.nodes = With(@, a.id, g.nodes[a.id]),
                     !.stopped = @ \ {<<"node", a.id>>}]
      [] label = "stop-runtime" ->
           [w EXCEPT !.runtimes = Without(@, a.id), !.stopped = @ \cup {<<"runtime", a.id>>}]
      [] label = "stop-node" ->
           [w EXCEPT !.nodes = Without(@, a.id), !.stopped = @ \cup {<<"node", a.id>>}]
      [] Destructive(a) -> [w EXCEPT !.stopped = @ \ {<<a.kind, a.id>>}]
      [] label \in {"add-connection", "switch-connection"} ->
           [w EXCEPT !.edges = With(@, a.id, g.edges[a.id])]
      [] label = "remove-connection" -> [w EXCEPT !.edges = Without(@, a.id)]
      [] label = "allocate-public-ingress" ->
           [w EXCEPT !.ingresses = With(@, a.id, g.ingresses[a.id])]
      [] label = "remove-public-ingress" -> [w EXCEPT !.ingresses = Without(@, a.id)]
      [] OTHER -> w

\* What the coordinator loaded when it assembles a request: every product the
\* graphs were authored with is registered, and an ingress that is allocated
\* has its owned resource.
Context ==
    [products |-> {ProductReference(rollout.base.nodes[n]) : n \in DOMAIN rollout.base.nodes}
                  \cup {ProductReference(rollout.desired.nodes[n]) :
                          n \in DOMAIN rollout.desired.nodes},
     pulls |-> {}, authorities |-> {}, deliveries |-> {},
     resources |-> DOMAIN world.ingresses]

IsReady(a) == a \notin done /\ Before(rollout.plan, a) \subseteq done
Ready == {a \in rollout.plan.activities : IsReady(a)}

\* The run: an activity whose predecessors succeeded is realized.
Realize(a) ==
    /\ direction = "forward"
    /\ rollout.outcome = "executable"
    /\ IsReady(a)
    /\ world' = Effect(world, a.label, a, MaterialGraph(a, rollout.base, rollout.desired))
    /\ done' = done \cup {a}
    /\ UNCHANGED <<rollout, direction>>

\* request_failed_run_compensation: refused when a resource was removed, or
\* when nothing that succeeded has an inverse.
GiveUp ==
    /\ direction = "forward"
    /\ \A a \in done : ~ Destructive(a)
    /\ \E a \in done : CompensationFor(a)[1] # "none"
    /\ direction' = "backward"
    /\ UNCHANGED <<rollout, world, done>>

\* One inverse, after the inverses of whatever followed.  The material source
\* of the compensation names the graph that describes it.
Undo(a) ==
    /\ direction = "backward"
    /\ a \in done
    /\ \A p \in rollout.plan.order : p[1] = a => p[2] \notin done
    /\ world' = Effect(world, CompensationFor(a)[1], a,
                       IF CompensationFor(a)[2] = "base-graph" THEN rollout.base
                       ELSE rollout.desired)
    /\ done' = done \ {a}
    /\ UNCHANGED <<rollout, direction>>

RolloutInitOf(base, desired) ==
    /\ \E plan \in {PlanOf(base, desired)} :
         rollout = [base |-> base, desired |-> desired, plan |-> plan,
                    outcome |-> PlanOutcome(plan, base, desired),
                    approval |-> ApprovalRequirement(plan),
                    limits |-> Limitations(plan, base = EmptyGraph)]
    /\ world = Realized(base)
    /\ done = {}
    /\ direction = "forward"

\* A change of the current graph, a recovery transition, or a reconstruction.
RolloutInit ==
    \E base \in Graphs \cup {EmptyGraph}, desired \in Graphs : RolloutInitOf(base, desired)

RolloutNext ==
    \/ \E a \in rollout.plan.activities : Realize(a)
    \/ GiveUp
    \/ \E a \in rollout.plan.activities : Undo(a)

RolloutSpec == RolloutInit /\ [][RolloutNext]_rvars

(***************************************************************************)
(* Properties.                                                             *)
(***************************************************************************)
RolloutTypeOK ==
    /\ done \subseteq rollout.plan.activities
    /\ direction \in {"forward", "backward"}
    /\ rollout.outcome \in {"failed", "invalid", "review", "executable"}
    /\ DOMAIN world.nodes \subseteq DOMAIN rollout.base.nodes \cup DOMAIN rollout.desired.nodes

\* A node of the world is up: it runs, or it is not the kit's to start.
Up(n) ==
    \/ n \in DOMAIN world.nodes
    \/ n \in DOMAIN rollout.desired.nodes /\ ~ Owned(rollout.desired.nodes[n])

\* A connection that keeps its identity but passes to or from the environment
\* of its consumer: the compiler has no activity for it.
Rebound(e) ==
    LET b == rollout.base.edges  d == rollout.desired.edges IN
    e \in Kept(b, d) /\ (EnvironmentBound(b[e]) <=> ~ EnvironmentBound(d[e]))

\* A connection that, if it keeps its identity, keeps its consumer and its
\* binding, and another provider has another address.  Identities derived from
\* the ends are steady unless they are rebound; authored ones need not be, and
\* the compiler orders only the consumer it has in the desired graph.
Steady(e) ==
    LET b == rollout.base.edges  d == rollout.desired.edges IN
    e \in Kept(b, d) =>
        /\ ~ Rebound(e)
        /\ b[e].consumer = d[e].consumer
        /\ b[e].provider = d[e].provider \/ b[e].assignments # d[e].assignments

\* At every moment of a rollout and of its undoing: an owned node runs in a
\* running runtime; a node that stays has every provider its environment points
\* to; a connection made at run time has both its ends; an ingress has its
\* target, unless that is its own connector, which stops first; and neither a
\* retained nor an attached resource is ever lost.
RolloutIsSafe ==
    LET b == rollout.base  d == rollout.desired IN
    /\ \A n \in DOMAIN world.nodes :
         \/ ~ Owned(world.nodes[n])
         \/ world.nodes[n].runtime \in DOMAIN world.runtimes
         \/ /\ world.nodes[n].runtime \in DOMAIN d.runtimes
            /\ ~ Owned(d.runtimes[world.nodes[n].runtime])
    /\ \A n \in DOMAIN world.nodes \cap DOMAIN d.nodes : \A g \in {b, d} :
         (n \in DOMAIN g.nodes /\ world.nodes[n] = g.nodes[n]) =>
             \A x \in g.nodes[n].environment :
                 Steady(x.edge) => Up(g.edges[x.edge].provider)
    /\ \A e \in DOMAIN world.edges : ~ Rebound(e) =>
         Up(world.edges[e].provider) /\ Up(world.edges[e].consumer)
    /\ \A i \in DOMAIN world.ingresses :
         world.ingresses[i].target # world.ingresses[i].connector =>
             Up(world.ingresses[i].target)
    /\ \A n \in DOMAIN b.nodes :
         Retained(b.nodes[n]) => n \in DOMAIN world.nodes \/ <<"node", n>> \in world.stopped

\* When every activity has succeeded the world is the desired graph, as far as
\* the kit owns it: no change of a node, runtime, ingress or connection was left
\* without an activity, except of a connection that is rebound.  A run that is
\* undone leaves the world it found, whatever succeeded before it failed: each
\* inverse is described by the right graph.
RolloutEndsInAGraph ==
    LET b == Realized(rollout.base)
        d == Realized(rollout.desired) IN
    /\ rollout.outcome = "executable" /\ done = rollout.plan.activities =>
         /\ \A n \in DOMAIN d.nodes : Owned(d.nodes[n]) =>
              n \in DOMAIN world.nodes /\ world.nodes[n] = d.nodes[n]
         /\ \A n \in DOMAIN world.nodes : Owned(world.nodes[n]) => n \in DOMAIN d.nodes
         /\ \A r \in DOMAIN d.runtimes : Owned(rollout.desired.runtimes[r]) =>
              r \in DOMAIN world.runtimes /\ world.runtimes[r] = d.runtimes[r]
         /\ \A e \in DOMAIN world.edges \cup DOMAIN d.edges : ~ Rebound(e) =>
              e \in Kept(world.edges, d.edges) /\ world.edges[e] = d.edges[e]
         /\ world.ingresses = d.ingresses
    /\ direction = "backward" /\ done = {} =>
         /\ world.nodes = b.nodes /\ world.runtimes = b.runtimes
         /\ world.edges = b.edges /\ world.ingresses = b.ingresses

\* The gateway's runtime has a connection that cannot be a target: its socket
\* has no port, or its protocol is none a gateway speaks.
Unmapped(g, n) ==
    \E e \in DOMAIN g.edges : LET p == g.nodes[g.edges[e].provider] IN
        /\ p.runtime = g.nodes[n].runtime
        /\ \/ g.edges[e].socket \notin DOMAIN Contract(p).ports
           \/ g.edges[e].protocol \notin {"http", "postgres"}

\* Whenever an activity may run its request can be made from the graph that
\* describes it, its products and its owned ingress.  Not for a gateway beside a
\* connection that is unmapped, nor for a connector of two ingresses; and a
\* connector may miss its token if it stays, or when its resource is removed,
\* but never when it is started, awaited or stopped.
RequestsMaterialize ==
    rollout.outcome = "executable" /\ direction = "forward" =>
        \A a \in {x \in Ready : EffectFamily(x) = "runtime"} :
            LET b == rollout.base  d == rollout.desired
                g == MaterialGraph(a, b, d)
                problem == RequestProblem(Context, a, b, d)
            IN \/ problem = "none"
               \/ problem = "gateway-target-missing" /\ Unmapped(g, a.id)
               \/ /\ problem = "token-missing"
                  /\ \/ \E i, j \in Served(g, a.id) : i # j
                     \/ a.label = "remove-node-resource"
                     \/ a.id \in Kept(b.nodes, d.nodes)

=============================================================================
