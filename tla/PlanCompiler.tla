---------------------------- MODULE PlanCompiler ----------------------------
(***************************************************************************)
(* From the difference of two graphs to an activity plan:                  *)
(* planning/compiler.py, activity_plan.py, recovery.py and the approval    *)
(* requirement of policies.py.                                             *)
(*                                                                         *)
(* An activity id is its label and a hash of the change it realizes; here  *)
(* it is the label and the subject of the change.  A plan is a set of      *)
(* activities and a set of pairs <<first, then>>.                          *)
(***************************************************************************)
EXTENDS Topology

Activity(label, kind, id) ==
    [label |-> label, kind |-> kind, id |-> id, field |-> "self"]

\* ReviewChange, one per change, so its id holds the field as well.
Review(c) ==
    [label |-> "review-change", kind |-> c.kind, id |-> c.id, field |-> c.field]

\* _reconciliation_owner: the changed fields of a node or a runtime are
\* reconciled together.  A change of ownership or retention is not.
Reconciled(c) ==
    /\ c.form = "modified" /\ c.kind \in {"node", "runtime"}
    /\ c.field # "resource-lifecycle"

EnvironmentBound(e) == e.binding = "environment"

\* The connections realized by the environment of a node that starts or is
\* reconciled: no activity of their own.
Implicit(c, b, d) ==
    /\ c.kind = "edge"
    /\ \/ c.form # "added" /\ EnvironmentBound(b.edges[c.id])
       \/ c.form # "removed" /\ EnvironmentBound(d.edges[c.id])

Started(kind, x) ==
    IF ~ Owned(x) THEN {}
    ELSE IF kind = "node" THEN {"start-node", "wait-healthy"} ELSE {"start-runtime"}

Stopped(kind, x) ==
    IF ~ Owned(x) THEN {}
    ELSE IF kind = "node"
         THEN {"stop-node"} \cup (IF Retained(x) THEN {} ELSE {"remove-node-resource"})
         ELSE {"stop-runtime"} \cup (IF Retained(x) THEN {} ELSE {"remove-runtime-resource"})

Resources(g, kind) == IF kind = "node" THEN g.nodes ELSE g.runtimes

\* _compile_change and the reconciliations: the activities of one change.
ActivitiesOf(c, b, d) ==
    LET labelled(labels) == {Activity(l, c.kind, c.id) : l \in labels}
    IN CASE c.kind = "graph" -> {}
         [] Reconciled(c) ->
              labelled(IF c.kind = "node" THEN {"reconcile-node", "wait-healthy"}
                       ELSE {"reconcile-runtime"})
         [] c.kind \in {"node", "runtime"} /\ c.form = "added" ->
              labelled(Started(c.kind, Resources(d, c.kind)[c.id]))
         [] c.kind \in {"node", "runtime"} /\ c.form = "removed" ->
              labelled(Stopped(c.kind, Resources(b, c.kind)[c.id]))
         [] Implicit(c, b, d) -> {}
         [] c.kind = "edge" /\ ~ Implicit(c, b, d) ->
              labelled({CASE c.form = "added" -> "add-connection"
                          [] c.form = "modified" -> "switch-connection"
                          [] OTHER -> "remove-connection"})
         [] c.kind = "ingress" /\ c.form = "added" -> labelled({"allocate-public-ingress"})
         [] c.kind = "ingress" /\ c.form = "removed" -> labelled({"remove-public-ingress"})
         [] OTHER -> {Review(c)}

Activities(b, d) == UNION {ActivitiesOf(c, b, d) : c \in Diff(b, d)}

(***************************************************************************)
(* _add_dependencies, as pairs of ids; a pair counts when the plan has     *)
(* both activities.                                                        *)
(***************************************************************************)
N(label, n) == Activity(label, "node", n)
R(label, r) == Activity(label, "runtime", r)

\* The order within the activities of one subject.
SubjectOrder(acts) ==
    LET follows == {<<"start-node", "wait-healthy">>, <<"reconcile-node", "wait-healthy">>,
                    <<"stop-node", "remove-node-resource">>,
                    <<"stop-runtime", "remove-runtime-resource">>}
        labelled(l) == {a \in acts : a.label = l}
    IN {p \in UNION {labelled(f[1]) \X labelled(f[2]) : f \in follows} :
          p[1].kind = p[2].kind /\ p[1].id = p[2].id}

\* A node starts in a started runtime, and moves into one.
RuntimeOrder(b, d) ==
    {<<R("start-runtime", d.nodes[n].runtime), N(l, n)>> :
       l \in {"start-node", "reconcile-node"},
       n \in {n \in DOMAIN d.nodes :
                n \in DOMAIN b.nodes => b.nodes[n].runtime # d.nodes[n].runtime}}

\* Mutant of EvacuationOrder: a runtime waits for removed nodes only.
EvacuationOrderOfRemoved(b, d) ==
    {<<N(IF Retained(b.nodes[n]) THEN "stop-node" ELSE "remove-node-resource", n),
       R("stop-runtime", b.nodes[n].runtime)>> : n \in DOMAIN b.nodes \ DOMAIN d.nodes}

\* A runtime stops once its nodes are gone, or have moved away.
EvacuationOrder(b, d) ==
    {<<N(IF Retained(b.nodes[n]) THEN "stop-node" ELSE "remove-node-resource", n),
       R("stop-runtime", b.nodes[n].runtime)>> : n \in DOMAIN b.nodes \ DOMAIN d.nodes}
    \cup {<<N("reconcile-node", n), R("stop-runtime", b.nodes[n].runtime)>> :
            n \in {n \in Kept(b.nodes, d.nodes) : b.nodes[n].runtime # d.nodes[n].runtime}}

\* A new connection follows the health of its provider, and, when it is made at
\* run time, of its consumer.  An edge that kept its identity waits for the
\* consumer's reconciliation only.
ConnectionOrder(c, b, d) ==
    LET e == d.edges[c.id]
        made == Activity(IF c.form = "added" THEN "add-connection" ELSE "switch-connection",
                         "edge", c.id)
    IN IF Implicit(c, b, d)
       THEN {<<N("wait-healthy", e.provider), N(l, e.consumer)>> :
               l \in {"reconcile-node"} \cup
                     (IF c.form = "added" THEN {"start-node"} ELSE {})}
       ELSE {<<N("wait-healthy", e.provider), made>>, <<N("wait-healthy", e.consumer), made>>}

\* A node stops once the connections it was part of are gone.
DisconnectionOrder(c, b, d) ==
    LET e == b.edges[c.id]
        last == IF c.form = "removed" THEN {}
                ELSE {d.edges[c.id].provider, d.edges[c.id].consumer}
        undone == Activity(IF c.form = "removed" THEN "remove-connection"
                           ELSE "switch-connection",
                           "edge", c.id)
        user == IF c.form = "removed" THEN e.consumer ELSE d.edges[c.id].consumer
    IN IF Implicit(c, b, d)
       THEN {<<N("reconcile-node", user), N("stop-node", n)>> : n \in {e.provider} \ last}
       ELSE {<<undone, N("stop-node", n)>> : n \in {e.provider, e.consumer} \ last}

\* Mutant of IngressOrder: a connector does not wait for the allocation.
IngressOrderUnheld(c, b, d) ==
    IF c.form = "added"
    THEN LET i == d.ingresses[c.id]  a == Activity("allocate-public-ingress", "ingress", c.id)
         IN {<<N("wait-healthy", i.target), a>>, <<N("reconcile-node", i.target), a>>}
    ELSE LET i == b.ingresses[c.id]  a == Activity("remove-public-ingress", "ingress", c.id)
         IN {<<N("stop-node", i.connector), a>>}
            \cup {<<a, N("stop-node", n)>> : n \in {i.target} \ {i.connector}}

\* Target, ingress, connector; and back.
IngressOrder(c, b, d) ==
    IF c.form = "added"
    THEN LET i == d.ingresses[c.id]  a == Activity("allocate-public-ingress", "ingress", c.id)
         IN {<<N("wait-healthy", i.target), a>>, <<N("reconcile-node", i.target), a>>,
             <<a, N("start-node", i.connector)>>}
    ELSE LET i == b.ingresses[c.id]  a == Activity("remove-public-ingress", "ingress", c.id)
         IN {<<N("stop-node", i.connector), a>>}
            \cup {<<a, N("stop-node", n)>> : n \in {i.target} \ {i.connector}}

\* The orders of every change of a connection or an ingress.
MadeOrder(b, d) ==
    UNION {ConnectionOrder(c, b, d) :
             c \in {c \in Diff(b, d) : c.kind = "edge" /\ c.form # "removed"}}
UnmadeOrder(b, d) ==
    UNION {DisconnectionOrder(c, b, d) :
             c \in {c \in Diff(b, d) : c.kind = "edge" /\ c.form # "added"}}
PublicOrder(b, d) ==
    UNION {IngressOrder(c, b, d) :
             c \in {c \in Diff(b, d) : c.kind = "ingress" /\ c.form # "modified"}}

Order(acts, b, d) ==
    SubjectOrder(acts) \cup
    {p \in RuntimeOrder(b, d) \cup EvacuationOrder(b, d) \cup MadeOrder(b, d)
             \cup UnmadeOrder(b, d) \cup PublicOrder(b, d) :
       p[1] \in acts /\ p[2] \in acts}

\* start_node[node_id] is looked up without a default: a new node that is not
\* owned, in a runtime that is started or as the connector of a new ingress,
\* has no start activity and the compiler fails with KeyError.
CompilerFails(plan, b, d) ==
    \E n \in DOMAIN d.nodes \ DOMAIN b.nodes :
        /\ ~ Owned(d.nodes[n])
        /\ \/ R("start-runtime", d.nodes[n].runtime) \in plan.activities
           \/ \E i \in DOMAIN d.ingresses \ DOMAIN b.ingresses : d.ingresses[i].connector = n

(***************************************************************************)
(* ActivityPlan: _validate_composition and ready_for_execution.            *)
(***************************************************************************)
Before(plan, a) == {p[1] : p \in {q \in plan.order : q[2] = a}}

\* _has_cycle: some activities all wait for one another.
Cyclic(plan) ==
    LET peel[k \in Nat] ==
            IF k = 0 THEN plan.activities
            ELSE LET left == peel[k - 1] IN {a \in left : Before(plan, a) \cap left # {}}
    IN peel[Cardinality(plan.activities)] # {}

\* DISRUPTIVE, DESTRUCTIVE and the risk of each operation.
Destructive(a) == a.label \in {"remove-node-resource", "remove-runtime-resource"}

Risk(a) ==
    CASE a.label \in {"start-runtime", "start-node"} -> 1
      [] a.label \in {"wait-healthy", "add-connection", "allocate-public-ingress",
                      "reconcile-node", "reconcile-runtime"} -> 2
      [] OTHER -> 3

Composed(plan) ==
    /\ \A a \in plan.activities : Destructive(a) \/ a.label = "review-change" => Risk(a) >= 3
    /\ \A p \in plan.order : p[1] # p[2]
    /\ ~ Cyclic(plan)

NeedsReview(plan) == \E a \in plan.activities : a.label = "review-change"

PlanOf(b, d) ==
    LET acts == Activities(b, d) IN [activities |-> acts, order |-> Order(acts, b, d)]

\* compile_activity_plan: what becomes of it.
PlanOutcome(plan, b, d) ==
    CASE CompilerFails(plan, b, d) -> "failed"
      [] ~ Composed(plan) -> "invalid"
      [] NeedsReview(plan) -> "review"
      [] OTHER -> "executable"

\* ApprovalPolicy.requirement_for.
ApprovalRequirement(plan) ==
    [scope |-> IF \E a \in plan.activities : Destructive(a)
               THEN "plan:approve-destructive" ELSE "plan:approve",
     risk |-> IF plan.activities = {} THEN 0
              ELSE CHOOSE r \in {Risk(a) : a \in plan.activities} :
                     \A a \in plan.activities : Risk(a) <= r]

\* plan_reconstruction: the plan from nothing.  plan_recovery_transition is
\* PlanOf with the current graph as its base.
Reconstruction(d) == PlanOf(EmptyGraph, d)

\* _assess.
Disposition(a) ==
    CASE a.label = "review-change" -> "manual-review-required"
      [] a.label \in {"start-node", "start-runtime", "reconcile-node", "reconcile-runtime",
                      "stop-node", "stop-runtime", "remove-node-resource",
                      "remove-runtime-resource"} -> "compensation-required"
      [] OTHER -> "topology-candidate"

\* _candidate: what a recovery plan cannot promise.
Limitations(plan, reconstructs) ==
    {"graph-state-only"}
    \cup (IF reconstructs THEN {"source-state-unknown"} ELSE {})
    \cup (IF \E a \in plan.activities : Disposition(a) = "compensation-required"
          THEN {"adapter-compensation-required"} ELSE {})
    \cup (IF \E a \in plan.activities : Destructive(a) THEN {"destructive-activity"} ELSE {})
    \cup (IF NeedsReview(plan) THEN {"review-blocker"} ELSE {})

\* compensation_for_operation: the inverse operation and the graph that
\* describes it; "none" for what needs no inverse or has none.
CompensationFor(a) ==
    LET inverse == [label \in {"start-node", "stop-node", "start-runtime", "stop-runtime",
                               "add-connection", "remove-connection", "switch-connection",
                               "allocate-public-ingress", "remove-public-ingress",
                               "reconcile-node", "reconcile-runtime"} |->
                      CASE label = "start-node" -> <<"stop-node", "desired-graph">>
                        [] label = "stop-node" -> <<"start-node", "base-graph">>
                        [] label = "start-runtime" -> <<"stop-runtime", "desired-graph">>
                        [] label = "stop-runtime" -> <<"start-runtime", "base-graph">>
                        [] label = "add-connection" -> <<"remove-connection", "desired-graph">>
                        [] label = "remove-connection" -> <<"add-connection", "base-graph">>
                        [] label = "allocate-public-ingress" ->
                             <<"remove-public-ingress", "desired-graph">>
                        [] label = "remove-public-ingress" ->
                             <<"allocate-public-ingress", "base-graph">>
                        [] OTHER -> <<label, "base-graph">>]
    IN IF a.label \in DOMAIN inverse THEN inverse[a.label] ELSE <<"none", "none">>

=============================================================================
