---------------------------- MODULE RolloutSafety ---------------------------
(***************************************************************************)
(* Safety theorems of Rollout, for every set of authored topologies: what  *)
(* holds at every moment of a rollout and of its undoing, where both end,  *)
(* and that the request of whatever may run can be made.                   *)
(*                                                                         *)
(* The argument has three parts.  Authored graphs are well formed, so a    *)
(* reference leads somewhere.  The plan compiler leaves nothing out: every *)
(* difference of two graphs has its activity, is realized by another one,  *)
(* or is reviewed, and every activity is about a subject that came, went   *)
(* or stayed.  Therefore the world is a function of what is done: each of  *)
(* its parts is a blend of the base and the desired graph (WorldFollows).  *)
(* The order of the plan then says which blends can occur.                 *)
(***************************************************************************)
EXTENDS Rollout, FiniteSetTheorems, TLAPS

-----------------------------------------------------------------------------
(* What an authored graph is.                                              *)

\* A node is the record of its fields, a field of its descriptive content.
NodeShape(x) ==
    x = [family |-> x.family, kind |-> x.kind, runtime |-> x.runtime,
         providers |-> x.providers, requirements |-> x.requirements,
         endpoints |-> x.endpoints, lifecycle |-> x.lifecycle,
         environment |-> x.environment, deliveries |-> x.deliveries,
         fields |-> [f \in OpaqueFields |-> x.fields[f]]]

\* A graph of functions whose references lead somewhere: what compile_topology
\* and validate_graph leave of one.
SoundGraph(g) ==
    /\ g.nodes = Only(g.nodes, DOMAIN g.nodes)
    /\ g.runtimes = Only(g.runtimes, DOMAIN g.runtimes)
    /\ g.edges = Only(g.edges, DOMAIN g.edges)
    /\ g.ingresses = Only(g.ingresses, DOMAIN g.ingresses)
    /\ \A n \in DOMAIN g.nodes :
         /\ NodeShape(g.nodes[n])
         /\ g.nodes[n].runtime \in DOMAIN g.runtimes
         /\ \A x \in g.nodes[n].environment :
              /\ x.edge \in DOMAIN g.edges
              /\ g.edges[x.edge].consumer = n
              /\ x.name \in DOMAIN g.edges[x.edge].assignments
              /\ x.value = g.edges[x.edge].assignments[x.name]
              /\ EnvironmentBound(g.edges[x.edge])
    /\ \A e \in DOMAIN g.edges : LET k == g.edges[e] IN
         /\ k.provider \in DOMAIN g.nodes /\ k.consumer \in DOMAIN g.nodes
         /\ k.assignments = Only(k.assignments, DOMAIN k.assignments)
         /\ \A v \in DOMAIN k.assignments :
              [name |-> v, value |-> k.assignments[v], edge |-> e]
                \in g.nodes[k.consumer].environment
    /\ \A i \in DOMAIN g.ingresses :
         g.ingresses[i].target \in DOMAIN g.nodes /\ g.ingresses[i].connector \in DOMAIN g.nodes

\* Nothing has no references.
LEMMA EmptySound == SoundGraph(EmptyGraph)
BY DEF SoundGraph, EmptyGraph, Only

\* The shape of what a topology compiles to.
LEMMA CompiledShape ==
  ASSUME NEW t \in Topologies
  PROVE  LET g == Compile(t) IN
         /\ g.nodes = Only(g.nodes, DOMAIN g.nodes)
         /\ g.runtimes = Only(g.runtimes, DOMAIN g.runtimes)
         /\ g.edges = Only(g.edges, DOMAIN g.edges)
         /\ g.ingresses = Only(g.ingresses, DOMAIN g.ingresses)
         /\ \A n \in DOMAIN g.nodes : NodeShape(g.nodes[n])
         /\ \A e \in DOMAIN g.edges : LET k == g.edges[e] IN
              /\ k.assignments = Only(k.assignments, DOMAIN k.assignments)
              /\ DOMAIN k.assignments # {} => EnvironmentBound(k)
<1> DEFINE g == Compile(t)
<1>1. /\ g.nodes = Only(g.nodes, DOMAIN g.nodes)
      /\ g.runtimes = Only(g.runtimes, DOMAIN g.runtimes)
      /\ g.edges = Only(g.edges, DOMAIN g.edges)
  BY DEF Compile, Only
<1>2. g.ingresses = Only(g.ingresses, DOMAIN g.ingresses)
  BY AuthoredAssumption DEF Compile, Only
<1>3. ASSUME NEW n \in DOMAIN g.nodes PROVE NodeShape(g.nodes[n])
  <2>1. g.nodes[n] = NodeOf(t, BlockOf(t, n)) /\ \E x \in Blocks(t) : x.id = n
    BY DEF Compile
  <2>2. BlockOf(t, n) \in Blocks(t)
    BY <2>1 DEF BlockOf
  <2>3. BlockOf(t, n).fields = [f \in OpaqueFields |-> BlockOf(t, n).fields[f]]
    BY <2>2, AuthoredAssumption
  <2> DEFINE x == BlockOf(t, n)
  <2> HIDE DEF x
  <2>4. NodeShape(NodeOf(t, x))
    BY <2>3 DEF NodeShape, NodeOf, x
  <2> QED
    BY <2>1, <2>4 DEF x
<1>4. ASSUME NEW e \in DOMAIN g.edges
      PROVE  /\ g.edges[e].assignments = Only(g.edges[e].assignments, DOMAIN g.edges[e].assignments)
             /\ DOMAIN g.edges[e].assignments # {} => EnvironmentBound(g.edges[e])
  <2> DEFINE k == CHOOSE k \in t.connections : k.id = e
  <2>1. g.edges[e] = EdgeOf(t, k) /\ \E x \in t.connections : x.id = e
    BY DEF Compile
  <2>2. k \in t.connections
    BY <2>1
  <2>3. \E b \in Blocks(t) : b.id = k.consumer
    BY <2>2, TopologyAssumption DEF Compiles, Connectable
  <2>4. BlockOf(t, k.consumer) \in Blocks(t)
    BY <2>3 DEF BlockOf
  <2>5. k.requirement \in DOMAIN BlockOf(t, k.consumer).requirements
    BY <2>2, TopologyAssumption DEF Compiles, Connectable
  <2> HIDE DEF k
  <2>6. Requirement(t, k).binding # "environment" => Requirement(t, k).env = {}
    BY <2>4, <2>5, AuthoredAssumption DEF Requirement
  <2> QED
    BY <2>1, <2>6 DEF EdgeOf, Only, EnvironmentBound
<1> QED
  BY <1>1, <1>2, <1>3, <1>4

\* What a valid graph's references lead to.
LEMMA ValidReferences ==
  ASSUME NEW g, Valid(g)
  PROVE  /\ \A n \in DOMAIN g.nodes :
              /\ g.nodes[n].runtime \in DOMAIN g.runtimes
              /\ \A x \in g.nodes[n].environment :
                   /\ x.edge \in DOMAIN g.edges
                   /\ g.edges[x.edge].consumer = n
                   /\ x.name \in DOMAIN g.edges[x.edge].assignments
                   /\ g.edges[x.edge].assignments[x.name] = x.value
         /\ \A e \in DOMAIN g.edges : LET k == g.edges[e] IN
              /\ k.provider \in DOMAIN g.nodes /\ k.consumer \in DOMAIN g.nodes
              /\ \A v \in DOMAIN k.assignments :
                   [name |-> v, value |-> k.assignments[v], edge |-> e]
                     \in g.nodes[k.consumer].environment
         /\ \A i \in DOMAIN g.ingresses :
              /\ g.ingresses[i].target \in DOMAIN g.nodes
              /\ g.ingresses[i].connector \in DOMAIN g.nodes
<1>1. OwnershipErrors(g) = {} /\ EdgeErrors(g) = {} /\ EnvironmentErrors(g) = {}
      /\ IngressDescribable(g)
  BY DEF Valid, Errors
<1>2. \A n \in DOMAIN g.nodes : g.nodes[n].runtime \in DOMAIN g.runtimes
  BY <1>1 DEF OwnershipErrors
<1>3. ASSUME NEW n \in DOMAIN g.nodes, NEW x \in g.nodes[n].environment
      PROVE  /\ x.edge \in DOMAIN g.edges
             /\ g.edges[x.edge].consumer = n
             /\ x.name \in DOMAIN g.edges[x.edge].assignments
             /\ g.edges[x.edge].assignments[x.name] = x.value
  BY <1>1 DEF EnvironmentErrors
<1>4. ASSUME NEW e \in DOMAIN g.edges
      PROVE  /\ HasProvider(g, g.edges[e].provider, g.edges[e].socket)
             /\ HasRequirement(g, g.edges[e].consumer, g.edges[e].requirement)
             /\ EdgeFindings(g, e) = {}
  <2> DEFINE errs(id) ==
        IF ~ HasProvider(g, g.edges[id].provider, g.edges[id].socket)
           \/ ~ HasRequirement(g, g.edges[id].consumer, g.edges[id].requirement)
        THEN {<<"edge-reference", id>>}
        ELSE {<<f, id>> : f \in EdgeFindings(g, id)}
  <2>1. EdgeErrors(g) = UNION {errs(id) : id \in DOMAIN g.edges}
    BY DEF EdgeErrors
  <2> HIDE DEF errs
  <2>2. errs(e) = {}
    BY <1>1, <2>1
  <2> QED
    BY <2>2 DEF errs
<1>5. ASSUME NEW e \in DOMAIN g.edges, NEW v \in DOMAIN g.edges[e].assignments
      PROVE  [name |-> v, value |-> g.edges[e].assignments[v], edge |-> e]
               \in g.nodes[g.edges[e].consumer].environment
  <2> DEFINE k == g.edges[e]
             new == [name |-> v, value |-> k.assignments[v], edge |-> e]
  <2>1. {x \in g.nodes[k.consumer].environment : x.name = v} = {new}
    BY <1>4 DEF EdgeFindings
  <2> QED
    BY <2>1
<1> QED
  BY <1>1, <1>2, <1>3, <1>4, <1>5 DEF IngressDescribable, HasProvider, HasRequirement

\* Every graph a rollout starts from or leads to is well formed.
LEMMA GraphsSound == \A g \in Graphs \cup {EmptyGraph} : SoundGraph(g)
<1>1. ASSUME NEW t \in Topologies PROVE SoundGraph(Compile(t))
  <2> DEFINE g == Compile(t)
  <2>1. Valid(g)
    BY TopologyAssumption
  <2> HIDE DEF g
  <2> QED
    BY <2>1, ValidReferences, CompiledShape DEF SoundGraph, g
<1> QED
  BY <1>1, EmptySound DEF Graphs

-----------------------------------------------------------------------------
(* The activities of a plan.                                               *)

\* The connections a graph makes at run time.
AtRunTime(g) == Only(g.edges, {e \in DOMAIN g.edges : ~ EnvironmentBound(g.edges[e])})

\* Whether an activity of a plan from b to d is about a subject that came, that
\* went or that stayed.
SubjectFits(a, b, d) ==
    /\ a.label \in {"start-node", "wait-healthy", "stop-node", "remove-node-resource",
                    "reconcile-node"} => a = N(a.label, a.id)
    /\ a.label \in {"start-runtime", "stop-runtime", "remove-runtime-resource",
                    "reconcile-runtime"} => a = R(a.label, a.id)
    /\ a.label \in {"add-connection", "remove-connection", "switch-connection"} =>
         a = Activity(a.label, "edge", a.id)
    /\ a.label \in {"allocate-public-ingress", "remove-public-ingress"} =>
         a = Activity(a.label, "ingress", a.id)
    /\ a.label = "start-node" => a.id \in DOMAIN d.nodes \ DOMAIN b.nodes
    /\ a.label = "wait-healthy" =>
         a.id \in DOMAIN d.nodes /\ (a.id \in DOMAIN b.nodes \/ Owned(d.nodes[a.id]))
    /\ a.label = "stop-node" => a.id \in DOMAIN b.nodes \ DOMAIN d.nodes
    /\ a.label = "remove-node-resource" =>
         a.id \in DOMAIN b.nodes \ DOMAIN d.nodes /\ ~ Retained(b.nodes[a.id])
    /\ a.label = "reconcile-node" => a.id \in Kept(b.nodes, d.nodes)
    /\ a.label = "start-runtime" => a.id \in DOMAIN d.runtimes \ DOMAIN b.runtimes
    /\ a.label \in {"stop-runtime", "remove-runtime-resource"} =>
         a.id \in DOMAIN b.runtimes \ DOMAIN d.runtimes
    /\ a.label = "reconcile-runtime" => a.id \in Kept(b.runtimes, d.runtimes)
    /\ a.label = "add-connection" => a.id \in DOMAIN AtRunTime(d) \ DOMAIN b.edges
    /\ a.label = "remove-connection" => a.id \in DOMAIN AtRunTime(b) \ DOMAIN d.edges
    /\ a.label = "switch-connection" => a.id \in Kept(AtRunTime(b), AtRunTime(d))
    /\ a.label = "allocate-public-ingress" =>
         a.id \in DOMAIN d.ingresses \ DOMAIN b.ingresses
    /\ a.label = "remove-public-ingress" => a.id \in DOMAIN b.ingresses \ DOMAIN d.ingresses

Labels == {"start-node", "wait-healthy", "stop-node", "remove-node-resource", "reconcile-node",
           "start-runtime", "stop-runtime", "remove-runtime-resource", "reconcile-runtime",
           "add-connection", "remove-connection", "switch-connection",
           "allocate-public-ingress", "remove-public-ingress", "review-change"}

\* The shapes of a change.
LEMMA ChangeShape ==
  ASSUME NEW b, NEW d, NEW c \in Diff(b, d)
  PROVE  \/ c.kind = "graph"
         \/ /\ c.kind = "runtime"
            /\ \/ c.form = "added" /\ c.id \in DOMAIN d.runtimes \ DOMAIN b.runtimes
               \/ c.form = "removed" /\ c.id \in DOMAIN b.runtimes \ DOMAIN d.runtimes
               \/ /\ c.form \in {"modified", "unsupported"}
                  /\ c.id \in Kept(b.runtimes, d.runtimes)
         \/ /\ c.kind = "node"
            /\ \/ c.form = "added" /\ c.id \in DOMAIN d.nodes \ DOMAIN b.nodes
               \/ c.form = "removed" /\ c.id \in DOMAIN b.nodes \ DOMAIN d.nodes
               \/ /\ c.form \in {"modified", "unsupported", "ambiguous"}
                  /\ c.id \in Kept(b.nodes, d.nodes)
         \/ /\ c.kind = "edge"
            /\ \/ c.form = "added" /\ c.id \in DOMAIN d.edges \ DOMAIN b.edges
               \/ c.form = "removed" /\ c.id \in DOMAIN b.edges \ DOMAIN d.edges
               \/ c.form = "modified" /\ c.id \in Kept(b.edges, d.edges)
         \/ /\ c.kind = "ingress"
            /\ \/ c.form = "added" /\ c.id \in DOMAIN d.ingresses \ DOMAIN b.ingresses
               \/ c.form = "removed" /\ c.id \in DOMAIN b.ingresses \ DOMAIN d.ingresses
               \/ c.form = "modified" /\ c.id \in Kept(b.ingresses, d.ingresses)
<1>1. CASE c \in GraphChanges(b, d)
  BY <1>1 DEF GraphChanges, Change
<1>2. CASE c \in RuntimeChanges(b, d)
  BY <1>2 DEF RuntimeChanges, Exchanged, Change
<1>3. CASE c \in NodeChanges(b, d)
  BY <1>3 DEF NodeChanges, Exchanged, Change
<1>4. CASE c \in EdgeChanges(b, d)
  BY <1>4 DEF EdgeChanges, Exchanged, Change
<1>5. CASE c \in IngressChanges(b, d)
  BY <1>5 DEF IngressChanges, Exchanged, Change
<1> QED
  BY <1>1, <1>2, <1>3, <1>4, <1>5 DEF Diff

\* The activities of one change.
LEMMA ActivitiesFit ==
  ASSUME NEW b, NEW d, NEW c \in Diff(b, d), NEW a \in ActivitiesOf(c, b, d)
  PROVE  a.label \in Labels /\ SubjectFits(a, b, d)
<1>1. CASE c.kind = "graph"
  BY <1>1 DEF ActivitiesOf, Reconciled, Implicit
<1>2. CASE a = Review(c)
  <2>1. a.label = "review-change"
    BY <1>2 DEF Review
  <2> QED
    BY <2>1 DEF SubjectFits, Labels
<1>3. CASE Reconciled(c) /\ c.kind = "node"
  <2>1. c.id \in Kept(b.nodes, d.nodes)
    BY <1>3, ChangeShape DEF Reconciled
  <2>2. \E l \in {"reconcile-node", "wait-healthy"} : a = N(l, c.id)
    BY <1>3 DEF ActivitiesOf, N, Reconciled
  <2> QED
    BY <2>1, <2>2 DEF SubjectFits, Labels, N, Activity, Kept
<1>4. CASE Reconciled(c) /\ c.kind = "runtime"
  <2>1. c.id \in Kept(b.runtimes, d.runtimes)
    BY <1>4, ChangeShape DEF Reconciled
  <2>2. a = R("reconcile-runtime", c.id)
    BY <1>4 DEF ActivitiesOf, R, Reconciled
  <2> QED
    BY <2>1, <2>2 DEF SubjectFits, Labels, R, Activity
<1>5. CASE c.kind = "node" /\ c.form = "added"
  <2>1. c.id \in DOMAIN d.nodes \ DOMAIN b.nodes
    BY <1>5, ChangeShape
  <2>2. Owned(d.nodes[c.id]) /\ \E l \in {"start-node", "wait-healthy"} : a = N(l, c.id)
    BY <1>5 DEF ActivitiesOf, N, Started, Reconciled, Resources
  <2> QED
    BY <2>1, <2>2 DEF SubjectFits, Labels, N, Activity
<1>6. CASE c.kind = "node" /\ c.form = "removed"
  <2>1. c.id \in DOMAIN b.nodes \ DOMAIN d.nodes
    BY <1>6, ChangeShape
  <2>2. \/ a = N("stop-node", c.id)
        \/ a = N("remove-node-resource", c.id) /\ ~ Retained(b.nodes[c.id])
    BY <1>6 DEF ActivitiesOf, N, Stopped, Reconciled, Resources
  <2> QED
    BY <2>1, <2>2 DEF SubjectFits, Labels, N, Activity
<1>7. CASE c.kind = "runtime" /\ c.form = "added"
  <2>1. c.id \in DOMAIN d.runtimes \ DOMAIN b.runtimes
    BY <1>7, ChangeShape
  <2>2. a = R("start-runtime", c.id)
    BY <1>7 DEF ActivitiesOf, R, Started, Reconciled
  <2> QED
    BY <2>1, <2>2 DEF SubjectFits, Labels, R, Activity
<1>8. CASE c.kind = "runtime" /\ c.form = "removed"
  <2>1. c.id \in DOMAIN b.runtimes \ DOMAIN d.runtimes
    BY <1>8, ChangeShape
  <2>2. \E l \in {"stop-runtime", "remove-runtime-resource"} : a = R(l, c.id)
    BY <1>8 DEF ActivitiesOf, R, Stopped, Reconciled
  <2> QED
    BY <2>1, <2>2 DEF SubjectFits, Labels, R, Activity
<1>9. CASE c.kind = "edge"
  <2>1. ~ Implicit(c, b, d)
        /\ a = Activity(CASE c.form = "added" -> "add-connection"
                          [] c.form = "modified" -> "switch-connection"
                          [] OTHER -> "remove-connection", "edge", c.id)
    BY <1>9 DEF ActivitiesOf, Reconciled
  <2>2. CASE c.form = "added"
    <3>1. a = Activity("add-connection", "edge", c.id)
      BY <2>1, <2>2
    <3>2. c.id \in DOMAIN AtRunTime(d) \ DOMAIN b.edges
      BY <1>9, <2>1, <2>2, ChangeShape DEF Implicit, AtRunTime, Only
    <3> QED
      BY <3>1, <3>2 DEF SubjectFits, Labels, Activity
  <2>3. CASE c.form = "modified"
    <3>1. a = Activity("switch-connection", "edge", c.id)
      BY <2>1, <2>3
    <3>2. c.id \in Kept(AtRunTime(b), AtRunTime(d))
      BY <1>9, <2>1, <2>3, ChangeShape DEF Implicit, AtRunTime, Only, Kept
    <3> QED
      BY <3>1, <3>2 DEF SubjectFits, Labels, Activity
  <2>4. CASE c.form = "removed"
    <3>1. a = Activity("remove-connection", "edge", c.id)
      BY <2>1, <2>4
    <3>2. c.id \in DOMAIN AtRunTime(b) \ DOMAIN d.edges
      BY <1>9, <2>1, <2>4, ChangeShape DEF Implicit, AtRunTime, Only
    <3> QED
      BY <3>1, <3>2 DEF SubjectFits, Labels, Activity
  <2> QED
    BY <1>9, <2>2, <2>3, <2>4, ChangeShape
<1>10. CASE c.kind = "ingress" /\ c.form = "added"
  <2>1. c.id \in DOMAIN d.ingresses \ DOMAIN b.ingresses
    BY <1>10, ChangeShape
  <2>2. a = Activity("allocate-public-ingress", "ingress", c.id)
    BY <1>10 DEF ActivitiesOf, Reconciled, Implicit
  <2> QED
    BY <2>1, <2>2 DEF SubjectFits, Labels, Activity
<1>11. CASE c.kind = "ingress" /\ c.form = "removed"
  <2>1. c.id \in DOMAIN b.ingresses \ DOMAIN d.ingresses
    BY <1>11, ChangeShape
  <2>2. a = Activity("remove-public-ingress", "ingress", c.id)
    BY <1>11 DEF ActivitiesOf, Reconciled, Implicit
  <2> QED
    BY <2>1, <2>2 DEF SubjectFits, Labels, Activity
<1>12. CASE ~ Reconciled(c) /\ c.form \notin {"added", "removed"} /\ c.kind # "edge"
            /\ c.kind # "graph"
  BY <1>2, <1>12 DEF ActivitiesOf, Implicit
<1> QED
  BY <1>1, <1>3, <1>4, <1>5, <1>6, <1>7, <1>8, <1>9, <1>10, <1>11, <1>12, ChangeShape
     DEF Reconciled

LEMMA PlannedFit ==
  ASSUME NEW b, NEW d, NEW a \in Activities(b, d)
  PROVE  a.label \in Labels /\ SubjectFits(a, b, d)
BY ActivitiesFit DEF Activities

-----------------------------------------------------------------------------
(* A plan leaves nothing out.                                              *)

\* What came is started and what went is stopped, if it is the kit's.
LEMMA ResourcesPlanned ==
  ASSUME NEW b, NEW d
  PROVE  LET acts == Activities(b, d) IN
         /\ \A n \in DOMAIN d.nodes \ DOMAIN b.nodes : Owned(d.nodes[n]) =>
              N("start-node", n) \in acts /\ N("wait-healthy", n) \in acts
         /\ \A n \in DOMAIN b.nodes \ DOMAIN d.nodes : Owned(b.nodes[n]) =>
              /\ N("stop-node", n) \in acts
              /\ ~ Retained(b.nodes[n]) => N("remove-node-resource", n) \in acts
         /\ \A r \in DOMAIN d.runtimes \ DOMAIN b.runtimes : Owned(d.runtimes[r]) =>
              R("start-runtime", r) \in acts
<1>1. ASSUME NEW n \in DOMAIN d.nodes \ DOMAIN b.nodes, Owned(d.nodes[n])
      PROVE  N("start-node", n) \in Activities(b, d) /\ N("wait-healthy", n) \in Activities(b, d)
  <2> DEFINE c == Change("added", "node", n, "self")
  <2>1. c \in Diff(b, d)
    BY DEF Diff, NodeChanges, Exchanged
  <2>2. ActivitiesOf(c, b, d) = {N("start-node", n), N("wait-healthy", n)}
    BY <1>1 DEF ActivitiesOf, Change, Reconciled, Implicit, Started, Resources, N
  <2> HIDE DEF c
  <2> QED
    BY <2>1, <2>2 DEF Activities
<1>2. ASSUME NEW n \in DOMAIN b.nodes \ DOMAIN d.nodes, Owned(b.nodes[n])
      PROVE  /\ N("stop-node", n) \in Activities(b, d)
             /\ ~ Retained(b.nodes[n]) => N("remove-node-resource", n) \in Activities(b, d)
  <2> DEFINE c == Change("removed", "node", n, "self")
  <2>1. c \in Diff(b, d)
    BY DEF Diff, NodeChanges, Exchanged
  <2>2. /\ N("stop-node", n) \in ActivitiesOf(c, b, d)
        /\ ~ Retained(b.nodes[n]) => N("remove-node-resource", n) \in ActivitiesOf(c, b, d)
    BY <1>2 DEF ActivitiesOf, Change, Reconciled, Implicit, Stopped, Resources, N
  <2> HIDE DEF c
  <2> QED
    BY <2>1, <2>2 DEF Activities
<1>3. ASSUME NEW r \in DOMAIN d.runtimes \ DOMAIN b.runtimes, Owned(d.runtimes[r])
      PROVE  R("start-runtime", r) \in Activities(b, d)
  <2> DEFINE c == Change("added", "runtime", r, "self")
  <2>1. c \in Diff(b, d)
    BY DEF Diff, RuntimeChanges, Exchanged
  <2>2. ActivitiesOf(c, b, d) = {R("start-runtime", r)}
    BY <1>3 DEF ActivitiesOf, Change, Reconciled, Implicit, Started, Resources, R
  <2> HIDE DEF c
  <2> QED
    BY <2>1, <2>2 DEF Activities
<1> QED
  BY <1>1, <1>2, <1>3

Unreviewed(b, d) == \A a \in Activities(b, d) : a.label # "review-change"

\* A change of a node or a runtime that no activity realizes is reviewed.
LEMMA OtherChangesReviewed ==
  ASSUME NEW b, NEW d, Unreviewed(b, d), NEW c \in Diff(b, d),
         c.kind \in {"node", "runtime"}, c.form \notin {"added", "removed"}
  PROVE  Reconciled(c)
<1>1. SUFFICES ASSUME ~ Reconciled(c) PROVE FALSE
  OBVIOUS
<1>2. ActivitiesOf(c, b, d) = {Review(c)}
  BY <1>1 DEF ActivitiesOf, Implicit
<1>3. Review(c) \in Activities(b, d)
  BY <1>2 DEF Activities
<1> QED
  BY <1>3 DEF Unreviewed, Review

\* A node that stays is what it was or is reconciled.
LEMMA KeptNodes ==
  ASSUME NEW b, NEW d, SoundGraph(b), SoundGraph(d), Unreviewed(b, d),
         NEW n \in Kept(b.nodes, d.nodes), b.nodes[n] # d.nodes[n]
  PROVE  /\ N("reconcile-node", n) \in Activities(b, d)
         /\ N("wait-healthy", n) \in Activities(b, d)
<1> DEFINE x == b.nodes[n]
           y == d.nodes[n]
           of(f) == Change("modified", "node", n, f)
           own == IF x.family # y.family THEN {Change("ambiguous", "node", n, "self")}
                  ELSE {of(f) : f \in FieldsChanged(x, y)}
                       \cup (IF x.kind # y.kind
                             THEN {Change("unsupported", "node", n, "implementation-kind")}
                             ELSE {})
<1>1. own \subseteq Diff(b, d)
  <2>1. own \subseteq NodeChanges(b, d)
    BY DEF NodeChanges
  <2> QED
    BY <2>1 DEF Diff
<1>2. x.family = y.family
  <2>1. SUFFICES ASSUME x.family # y.family PROVE FALSE
    OBVIOUS
  <2>2. Change("ambiguous", "node", n, "self") \in Diff(b, d)
    BY <1>1, <2>1
  <2> QED
    BY <2>2, OtherChangesReviewed DEF Change, Reconciled
<1>3. x.kind = y.kind
  <2>1. SUFFICES ASSUME x.kind # y.kind PROVE FALSE
    OBVIOUS
  <2>2. Change("unsupported", "node", n, "implementation-kind") \in Diff(b, d)
    BY <1>1, <1>2, <2>1
  <2> QED
    BY <2>2, OtherChangesReviewed DEF Change, Reconciled
<1>4. \A f \in FieldsChanged(x, y) : of(f) \in Diff(b, d)
  BY <1>1, <1>2
<1>5. x.lifecycle = y.lifecycle
  <2>1. SUFFICES ASSUME x.lifecycle # y.lifecycle PROVE FALSE
    OBVIOUS
  <2>2. of("resource-lifecycle") \in Diff(b, d)
    BY <1>4, <2>1 DEF FieldsChanged
  <2> QED
    BY <2>2, OtherChangesReviewed DEF Change, Reconciled
<1>6. NodeShape(x) /\ NodeShape(y)
  BY DEF SoundGraph, Kept
<1>7. PICK f \in FieldsChanged(x, y) : TRUE
  <2>1. SUFFICES ASSUME FieldsChanged(x, y) = {} PROVE FALSE
    OBVIOUS
  <2>2. /\ x.runtime = y.runtime /\ x.providers = y.providers
        /\ x.requirements = y.requirements /\ x.endpoints = y.endpoints
        /\ x.environment = y.environment /\ x.deliveries = y.deliveries
        /\ \A f \in OpaqueFields : x.fields[f] = y.fields[f]
    BY <2>1 DEF FieldsChanged
  <2>3. [f \in OpaqueFields |-> x.fields[f]] = [f \in OpaqueFields |-> y.fields[f]]
    BY <2>2
  <2> HIDE DEF x, y
  <2>4. x = y
    BY <1>2, <1>3, <1>5, <1>6, <2>2, <2>3 DEF NodeShape
  <2> QED
    BY <2>4 DEF x, y
<1>8. of(f) \in Diff(b, d) /\ Reconciled(of(f))
  BY <1>4, OtherChangesReviewed DEF Change
<1>9. ActivitiesOf(of(f), b, d) = {N("reconcile-node", n), N("wait-healthy", n)}
  BY <1>8 DEF ActivitiesOf, Change, N, Reconciled, Implicit
<1> HIDE DEF of
<1> QED
  BY <1>8, <1>9 DEF Activities

\* A runtime that stays is what it was, but for its children, or is reconciled.
LEMMA KeptRuntimes ==
  ASSUME NEW b, NEW d, Unreviewed(b, d),
         NEW r \in Kept(b.runtimes, d.runtimes), Placed(b.runtimes[r]) # Placed(d.runtimes[r])
  PROVE  R("reconcile-runtime", r) \in Activities(b, d)
<1> DEFINE x == b.runtimes[r]
           y == d.runtimes[r]
<1>1. x.kind = y.kind
  <2>1. SUFFICES ASSUME x.kind # y.kind PROVE FALSE
    OBVIOUS
  <2>2. Change("unsupported", "runtime", r, "runtime-kind") \in Diff(b, d)
    BY <2>1 DEF Diff, RuntimeChanges
  <2> QED
    BY <2>2, OtherChangesReviewed DEF Change, Reconciled
<1>2. x.authority # y.authority \/ x.metadata # y.metadata
  BY <1>1 DEF Placed
<1>3. PICK f \in {"runtime-authority", "runtime-metadata"} :
         Change("modified", "runtime", r, f) \in Diff(b, d)
  BY <1>2 DEF Diff, RuntimeChanges
<1> DEFINE c == Change("modified", "runtime", r, f)
<1>4. ActivitiesOf(c, b, d) = {R("reconcile-runtime", r)}
  BY DEF ActivitiesOf, Change, R, Reconciled, Implicit
<1> HIDE DEF c
<1>5. c \in Diff(b, d)
  BY <1>3 DEF c
<1> QED
  BY <1>4, <1>5 DEF Activities

\* A connection made at run time that came, went or changed has its activity.
LEMMA ConnectionsPlanned ==
  ASSUME NEW b, NEW d
  PROVE  LET acts == Activities(b, d)
             E(l, e) == Activity(l, "edge", e) IN
         /\ \A e \in DOMAIN AtRunTime(d) \ DOMAIN b.edges : E("add-connection", e) \in acts
         /\ \A e \in DOMAIN AtRunTime(b) \ DOMAIN d.edges : E("remove-connection", e) \in acts
         /\ \A e \in Kept(AtRunTime(b), AtRunTime(d)) : b.edges[e] # d.edges[e] =>
              E("switch-connection", e) \in acts
<1>1. ASSUME NEW e \in DOMAIN AtRunTime(d) \ DOMAIN b.edges
      PROVE  Activity("add-connection", "edge", e) \in Activities(b, d)
  <2> DEFINE c == Change("added", "edge", e, "self")
  <2>1. c \in Diff(b, d)
    BY DEF Diff, EdgeChanges, Exchanged, AtRunTime, Only
  <2>2. ActivitiesOf(c, b, d) = {Activity("add-connection", "edge", e)}
    BY DEF ActivitiesOf, Change, Reconciled, Implicit, AtRunTime, Only
  <2> HIDE DEF c
  <2> QED
    BY <2>1, <2>2 DEF Activities
<1>2. ASSUME NEW e \in DOMAIN AtRunTime(b) \ DOMAIN d.edges
      PROVE  Activity("remove-connection", "edge", e) \in Activities(b, d)
  <2> DEFINE c == Change("removed", "edge", e, "self")
  <2>1. c \in Diff(b, d)
    BY DEF Diff, EdgeChanges, Exchanged, AtRunTime, Only
  <2>2. ActivitiesOf(c, b, d) = {Activity("remove-connection", "edge", e)}
    BY DEF ActivitiesOf, Change, Reconciled, Implicit, AtRunTime, Only
  <2> HIDE DEF c
  <2> QED
    BY <2>1, <2>2 DEF Activities
<1>3. ASSUME NEW e \in Kept(AtRunTime(b), AtRunTime(d)), b.edges[e] # d.edges[e]
      PROVE  Activity("switch-connection", "edge", e) \in Activities(b, d)
  <2> DEFINE c == Change("modified", "edge", e, "self")
  <2>1. c \in Diff(b, d)
    BY <1>3 DEF Diff, EdgeChanges, AtRunTime, Only, Kept
  <2>2. ActivitiesOf(c, b, d) = {Activity("switch-connection", "edge", e)}
    BY DEF ActivitiesOf, Change, Reconciled, Implicit, AtRunTime, Only, Kept
  <2> HIDE DEF c
  <2> QED
    BY <2>1, <2>2 DEF Activities
<1> QED
  BY <1>1, <1>2, <1>3

\* An ingress that came or went has its activity; one that changed is reviewed.
LEMMA IngressesPlanned ==
  ASSUME NEW b, NEW d
  PROVE  LET acts == Activities(b, d)
             I(l, i) == Activity(l, "ingress", i) IN
         /\ \A i \in DOMAIN d.ingresses \ DOMAIN b.ingresses :
              I("allocate-public-ingress", i) \in acts
         /\ \A i \in DOMAIN b.ingresses \ DOMAIN d.ingresses :
              I("remove-public-ingress", i) \in acts
         /\ Unreviewed(b, d) =>
              \A i \in Kept(b.ingresses, d.ingresses) : b.ingresses[i] = d.ingresses[i]
<1>1. ASSUME NEW i \in DOMAIN d.ingresses \ DOMAIN b.ingresses
      PROVE  Activity("allocate-public-ingress", "ingress", i) \in Activities(b, d)
  <2> DEFINE c == Change("added", "ingress", i, "self")
  <2>1. c \in Diff(b, d)
    BY DEF Diff, IngressChanges, Exchanged
  <2>2. ActivitiesOf(c, b, d) = {Activity("allocate-public-ingress", "ingress", i)}
    BY DEF ActivitiesOf, Change, Reconciled, Implicit
  <2> HIDE DEF c
  <2> QED
    BY <2>1, <2>2 DEF Activities
<1>2. ASSUME NEW i \in DOMAIN b.ingresses \ DOMAIN d.ingresses
      PROVE  Activity("remove-public-ingress", "ingress", i) \in Activities(b, d)
  <2> DEFINE c == Change("removed", "ingress", i, "self")
  <2>1. c \in Diff(b, d)
    BY DEF Diff, IngressChanges, Exchanged
  <2>2. ActivitiesOf(c, b, d) = {Activity("remove-public-ingress", "ingress", i)}
    BY DEF ActivitiesOf, Change, Reconciled, Implicit
  <2> HIDE DEF c
  <2> QED
    BY <2>1, <2>2 DEF Activities
<1>3. ASSUME Unreviewed(b, d), NEW i \in Kept(b.ingresses, d.ingresses),
             b.ingresses[i] # d.ingresses[i]
      PROVE  FALSE
  <2> DEFINE c == Change("modified", "ingress", i, "self")
  <2>1. c \in Diff(b, d)
    BY <1>3 DEF Diff, IngressChanges
  <2>2. ActivitiesOf(c, b, d) = {Review(c)}
    BY DEF ActivitiesOf, Change, Reconciled, Implicit
  <2>3. Review(c) \in Activities(b, d)
    BY <2>1, <2>2 DEF Activities
  <2> QED
    BY <1>3, <2>3 DEF Unreviewed, Review
<1> QED
  BY <1>1, <1>2, <1>3

-----------------------------------------------------------------------------
(* The world as a function of what was done.                               *)

\* The subjects of the activities of D with a label.
Having(l, D) == {a.id : a \in {x \in D : x.label = l}}

\* What was there, without what went and with what came; what came or changed
\* is as desired.
Blend(base, desired, gone, came, changed) ==
    [x \in (DOMAIN base \ gone) \cup came |->
        IF x \in came \cup changed THEN desired[x] ELSE base[x]]

LEMMA BlendComes ==
  ASSUME NEW f, NEW g, NEW gone, NEW came, NEW changed, NEW x
  PROVE  With(Blend(f, g, gone, came, changed), x, g[x])
            = Blend(f, g, gone, came \cup {x}, changed)
BY DEF Blend, With

LEMMA BlendChanges ==
  ASSUME NEW f, NEW g, NEW gone, NEW came, NEW changed, NEW x,
         x \in DOMAIN f \ gone
  PROVE  With(Blend(f, g, gone, came, changed), x, g[x])
            = Blend(f, g, gone, came, changed \cup {x})
BY DEF Blend, With

LEMMA BlendGoes ==
  ASSUME NEW f, NEW g, NEW gone, NEW came, NEW changed, NEW x, x \notin came
  PROVE  Without(Blend(f, g, gone, came, changed), x)
            = Blend(f, g, gone \cup {x}, came, changed)
BY DEF Blend, Without, Only

LEMMA BlendComesBack ==
  ASSUME NEW f, NEW g, NEW gone, NEW came, NEW changed, NEW x, x \notin DOMAIN f
  PROVE  Without(Blend(f, g, gone, came, changed), x)
            = Blend(f, g, gone, came \ {x}, changed)
BY DEF Blend, Without, Only

LEMMA BlendGoesBack ==
  ASSUME NEW f, NEW g, NEW gone, NEW came, NEW changed, NEW x,
         x \in DOMAIN f, x \notin came \cup changed
  PROVE  With(Blend(f, g, gone, came, changed), x, f[x])
            = Blend(f, g, gone \ {x}, came, changed)
BY DEF Blend, With

LEMMA BlendChangesBack ==
  ASSUME NEW f, NEW g, NEW gone, NEW came, NEW changed, NEW x,
         x \in DOMAIN f \ gone, x \notin came
  PROVE  With(Blend(f, g, gone, came, changed), x, f[x])
            = Blend(f, g, gone, came, changed \ {x})
BY DEF Blend, With

LEMMA BlendNothing ==
  ASSUME NEW f, NEW g, f = Only(f, DOMAIN f)
  PROVE  Blend(f, g, {}, {}, {}) = f
<1>1. Blend(f, g, {}, {}, {}) = [x \in DOMAIN f |-> f[x]]
  BY DEF Blend
<1> QED
  BY <1>1 DEF Only

PlacedAll(runtimes) == [r \in DOMAIN runtimes |-> Placed(runtimes[r])]

\* The four parts of the world when D is done.
NodesAfter(D) ==
    Blend(rollout.base.nodes, rollout.desired.nodes,
          Having("stop-node", D), Having("start-node", D), Having("reconcile-node", D))
RuntimesAfter(D) ==
    Blend(PlacedAll(rollout.base.runtimes), PlacedAll(rollout.desired.runtimes),
          Having("stop-runtime", D), Having("start-runtime", D), Having("reconcile-runtime", D))
EdgesAfter(D) ==
    Blend(AtRunTime(rollout.base), rollout.desired.edges,
          Having("remove-connection", D), Having("add-connection", D),
          Having("switch-connection", D))
IngressesAfter(D) ==
    Blend(rollout.base.ingresses, rollout.desired.ingresses,
          Having("remove-public-ingress", D), Having("allocate-public-ingress", D), {})

\* A world is the record of its parts.
WorldShape(w) ==
    w = [runtimes |-> w.runtimes, nodes |-> w.nodes, edges |-> w.edges,
         ingresses |-> w.ingresses, stopped |-> w.stopped]

EffectLabels ==
    {"start-node", "stop-node", "reconcile-node", "start-runtime", "stop-runtime",
     "reconcile-runtime", "add-connection", "switch-connection", "remove-connection",
     "allocate-public-ingress", "remove-public-ingress"}

\* v is w after the effect l of activity a, described by graph g.
Moved(v, w, l, a, g) ==
    /\ WorldShape(v)
    /\ v.nodes = IF l \in {"start-node", "reconcile-node"}
                 THEN With(w.nodes, a.id, g.nodes[a.id])
                 ELSE IF l = "stop-node" THEN Without(w.nodes, a.id) ELSE w.nodes
    /\ v.runtimes = IF l \in {"start-runtime", "reconcile-runtime"}
                    THEN With(w.runtimes, a.id, Placed(g.runtimes[a.id]))
                    ELSE IF l = "stop-runtime" THEN Without(w.runtimes, a.id) ELSE w.runtimes
    /\ v.edges = IF l \in {"add-connection", "switch-connection"}
                 THEN With(w.edges, a.id, g.edges[a.id])
                 ELSE IF l = "remove-connection" THEN Without(w.edges, a.id) ELSE w.edges
    /\ v.ingresses = IF l = "allocate-public-ingress"
                     THEN With(w.ingresses, a.id, g.ingresses[a.id])
                     ELSE IF l = "remove-public-ingress" THEN Without(w.ingresses, a.id)
                     ELSE w.ingresses
    /\ v.stopped = IF l \in {"start-node", "reconcile-node"} THEN w.stopped \ {<<"node", a.id>>}
                   ELSE IF l = "stop-node" THEN w.stopped \cup {<<"node", a.id>>}
                   ELSE IF l \in {"start-runtime", "reconcile-runtime"}
                        THEN w.stopped \ {<<"runtime", a.id>>}
                   ELSE IF l = "stop-runtime" THEN w.stopped \cup {<<"runtime", a.id>>}
                   ELSE IF l \notin EffectLabels /\ Destructive(a)
                        THEN w.stopped \ {<<a.kind, a.id>>} ELSE w.stopped

\* What an effect does to each part.
LEMMA EffectParts ==
  ASSUME NEW w, WorldShape(w), NEW l, NEW a, NEW g,
         Destructive(a) => l \notin EffectLabels
  PROVE  Moved(Effect(w, l, a, g), w, l, a, g)
<1>1. CASE l = "start-node" \/ l = "reconcile-node"
  <2>1. Effect(w, l, a, g) = [w EXCEPT !.nodes = With(w.nodes, a.id, g.nodes[a.id]),
                                       !.stopped = w.stopped \ {<<"node", a.id>>}]
    BY <1>1 DEF Effect, EffectLabels
  <2> QED
    BY <1>1, <2>1 DEF Moved, WorldShape, EffectLabels
<1>2. CASE l = "stop-node"
  <2>1. Effect(w, l, a, g) = [w EXCEPT !.nodes = Without(w.nodes, a.id),
                                       !.stopped = w.stopped \cup {<<"node", a.id>>}]
    BY <1>2 DEF Effect, EffectLabels
  <2> QED
    BY <1>2, <2>1 DEF Moved, WorldShape, EffectLabels
<1>3. CASE l = "start-runtime" \/ l = "reconcile-runtime"
  <2>1. Effect(w, l, a, g) = [w EXCEPT !.runtimes = With(w.runtimes, a.id, Placed(g.runtimes[a.id])),
                                       !.stopped = w.stopped \ {<<"runtime", a.id>>}]
    BY <1>3 DEF Effect, EffectLabels
  <2> QED
    BY <1>3, <2>1 DEF Moved, WorldShape, EffectLabels
<1>4. CASE l = "stop-runtime"
  <2>1. Effect(w, l, a, g) = [w EXCEPT !.runtimes = Without(w.runtimes, a.id),
                                       !.stopped = w.stopped \cup {<<"runtime", a.id>>}]
    BY <1>4 DEF Effect, EffectLabels
  <2> QED
    BY <1>4, <2>1 DEF Moved, WorldShape, EffectLabels
<1>5. CASE l = "add-connection" \/ l = "switch-connection"
  <2>1. Effect(w, l, a, g) = [w EXCEPT !.edges = With(w.edges, a.id, g.edges[a.id])]
    BY <1>5 DEF Effect, EffectLabels
  <2> QED
    BY <1>5, <2>1 DEF Moved, WorldShape, EffectLabels
<1>6. CASE l = "remove-connection"
  <2>1. Effect(w, l, a, g) = [w EXCEPT !.edges = Without(w.edges, a.id)]
    BY <1>6 DEF Effect, EffectLabels
  <2> QED
    BY <1>6, <2>1 DEF Moved, WorldShape, EffectLabels
<1>7. CASE l = "allocate-public-ingress"
  <2>1. Effect(w, l, a, g) = [w EXCEPT !.ingresses = With(w.ingresses, a.id, g.ingresses[a.id])]
    BY <1>7 DEF Effect, EffectLabels
  <2> QED
    BY <1>7, <2>1 DEF Moved, WorldShape, EffectLabels
<1>8. CASE l = "remove-public-ingress"
  <2>1. Effect(w, l, a, g) = [w EXCEPT !.ingresses = Without(w.ingresses, a.id)]
    BY <1>8 DEF Effect, EffectLabels
  <2> QED
    BY <1>8, <2>1 DEF Moved, WorldShape, EffectLabels
<1>9. CASE l \notin EffectLabels
  <2>1. Effect(w, l, a, g) = IF Destructive(a)
                             THEN [w EXCEPT !.stopped = w.stopped \ {<<a.kind, a.id>>}] ELSE w
    BY <1>9 DEF Effect, EffectLabels
  <2> QED
    BY <1>9, <2>1 DEF Moved, WorldShape, EffectLabels
<1> QED
  BY <1>1, <1>2, <1>3, <1>4, <1>5, <1>6, <1>7, <1>8, <1>9 DEF EffectLabels

-----------------------------------------------------------------------------
(* The invariant.                                                          *)

\* The plan is the one of the two graphs; nothing of it is done that it does not
\* let be done.
PlanFollowed ==
    LET b == rollout.base  d == rollout.desired IN
    /\ SoundGraph(b) /\ SoundGraph(d)
    /\ rollout.plan = PlanOf(b, d)
    /\ rollout.outcome = PlanOutcome(rollout.plan, b, d)
    /\ done \subseteq rollout.plan.activities
    /\ done # {} => rollout.outcome = "executable"
    /\ \A p \in rollout.plan.order : p[2] \in done => p[1] \in done
    /\ direction \in {"forward", "backward"}
    /\ direction = "backward" => \A a \in done : ~ Destructive(a)

\* What is done determines the world.
WorldFollows ==
    /\ WorldShape(world)
    /\ world.nodes = NodesAfter(done)
    /\ world.runtimes = RuntimesAfter(done)
    /\ world.edges = EdgesAfter(done)
    /\ world.ingresses = IngressesAfter(done)

\* A node that was stopped and not removed is kept.
StoppedKept ==
    \A n : N("stop-node", n) \in done /\ N("remove-node-resource", n) \notin done =>
             <<"node", n>> \in world.stopped

RolloutInvariant == PlanFollowed /\ WorldFollows /\ StoppedKept

-----------------------------------------------------------------------------
(* One activity more, one activity less.                                   *)

LEMMA HavingMore ==
  ASSUME NEW D, NEW a, NEW l
  PROVE  Having(l, D \cup {a}) = IF a.label = l THEN Having(l, D) \cup {a.id} ELSE Having(l, D)
BY DEF Having

LEMMA HavingLess ==
  ASSUME NEW D, NEW a \in D, NEW l,
         \A x \in D : x.label = a.label /\ x.id = a.id => x = a
  PROVE  Having(l, D \ {a}) = IF a.label = l THEN Having(l, D) \ {a.id} ELSE Having(l, D)
<1>1. CASE a.label = l
  BY <1>1 DEF Having
<1>2. CASE a.label # l
  BY <1>2 DEF Having
<1> QED
  BY <1>1, <1>2

\* An executable plan reviews nothing.
LEMMA ExecutableUnreviewed ==
  ASSUME PlanFollowed, rollout.outcome = "executable"
  PROVE  Unreviewed(rollout.base, rollout.desired)
<1>1. PlanOutcome(rollout.plan, rollout.base, rollout.desired) = "executable"
  BY DEF PlanFollowed
<1>2. ~ NeedsReview(rollout.plan)
  BY <1>1 DEF PlanOutcome
<1> QED
  BY <1>2 DEF NeedsReview, Unreviewed, PlanFollowed, PlanOf

\* What is done fits its subject, and its label and subject say what it is.
LEMMA DoneFits ==
  ASSUME PlanFollowed
  PROVE  LET b == rollout.base  d == rollout.desired IN
         /\ \A a \in rollout.plan.activities : a.label \in Labels /\ SubjectFits(a, b, d)
         /\ \A a \in done : a.label # "review-change"
         /\ \A a, x \in done : x.label = a.label /\ x.id = a.id => x = a
         /\ done # {} => Unreviewed(b, d)
<1> DEFINE b == rollout.base
           d == rollout.desired
<1>1. rollout.plan.activities = Activities(b, d)
  BY DEF PlanFollowed, PlanOf
<1>2. \A a \in rollout.plan.activities : a.label \in Labels /\ SubjectFits(a, b, d)
  BY <1>1, PlannedFit
<1>3. done # {} => Unreviewed(b, d)
  BY ExecutableUnreviewed DEF PlanFollowed
<1>4. \A a \in done : a.label # "review-change"
  BY <1>1, <1>3 DEF PlanFollowed, Unreviewed
<1>5. ASSUME NEW a \in done, NEW x \in done, x.label = a.label, x.id = a.id
      PROVE  x = a
  <2>1. /\ a.label \in Labels \ {"review-change"}
        /\ SubjectFits(a, b, d) /\ SubjectFits(x, b, d)
    BY <1>2, <1>4 DEF PlanFollowed
  <2>2. CASE a.label \in {"start-node", "wait-healthy", "stop-node", "remove-node-resource",
                          "reconcile-node"}
    BY <1>5, <2>1, <2>2 DEF SubjectFits
  <2>3. CASE a.label \in {"start-runtime", "stop-runtime", "remove-runtime-resource",
                          "reconcile-runtime"}
    BY <1>5, <2>1, <2>3 DEF SubjectFits
  <2>4. CASE a.label \in {"add-connection", "remove-connection", "switch-connection"}
    BY <1>5, <2>1, <2>4 DEF SubjectFits
  <2>5. CASE a.label \in {"allocate-public-ingress", "remove-public-ingress"}
    BY <1>5, <2>1, <2>5 DEF SubjectFits
  <2> QED
    BY <2>1, <2>2, <2>3, <2>4, <2>5 DEF Labels
<1> QED
  BY <1>2, <1>3, <1>4, <1>5

\* The subjects of what is done are in the graphs the activities are about.
LEMMA SubjectsOfDone ==
  ASSUME PlanFollowed
  PROVE  LET b == rollout.base  d == rollout.desired IN
         /\ Having("start-node", done) \subseteq DOMAIN d.nodes \ DOMAIN b.nodes
         /\ Having("stop-node", done) \subseteq DOMAIN b.nodes \ DOMAIN d.nodes
         /\ Having("reconcile-node", done) \subseteq Kept(b.nodes, d.nodes)
         /\ Having("start-runtime", done) \subseteq DOMAIN d.runtimes \ DOMAIN b.runtimes
         /\ Having("stop-runtime", done) \subseteq DOMAIN b.runtimes \ DOMAIN d.runtimes
         /\ Having("reconcile-runtime", done) \subseteq Kept(b.runtimes, d.runtimes)
         /\ Having("add-connection", done) \subseteq DOMAIN AtRunTime(d) \ DOMAIN b.edges
         /\ Having("remove-connection", done) \subseteq DOMAIN AtRunTime(b) \ DOMAIN d.edges
         /\ Having("switch-connection", done) \subseteq Kept(AtRunTime(b), AtRunTime(d))
         /\ Having("allocate-public-ingress", done)
              \subseteq DOMAIN d.ingresses \ DOMAIN b.ingresses
         /\ Having("remove-public-ingress", done)
              \subseteq DOMAIN b.ingresses \ DOMAIN d.ingresses
<1>1. \A a \in done : SubjectFits(a, rollout.base, rollout.desired)
  BY DoneFits DEF PlanFollowed
<1>2. ASSUME NEW l, NEW x \in Having(l, done)
      PROVE  \E a \in done : a.label = l /\ a.id = x
  BY DEF Having
<1> QED
  BY <1>1, <1>2 DEF SubjectFits

\* An id is among those of a label when the activity is done.
LEMMA HavingNode ==
  ASSUME PlanFollowed, NEW n,
         NEW l \in {"start-node", "wait-healthy", "stop-node", "remove-node-resource",
                    "reconcile-node"}
  PROVE  n \in Having(l, done) <=> N(l, n) \in done
<1>1. ASSUME n \in Having(l, done) PROVE N(l, n) \in done
  <2>1. PICK a \in done : a.label = l /\ a.id = n
    BY <1>1 DEF Having
  <2>2. a = N(l, n)
    BY <2>1, DoneFits DEF PlanFollowed, SubjectFits
  <2> QED
    BY <2>2
<1>2. ASSUME N(l, n) \in done PROVE n \in Having(l, done)
  BY <1>2 DEF Having, N, Activity
<1> QED
  BY <1>1, <1>2

LEMMA Inverses ==
  ASSUME NEW a
  PROVE  /\ a.label = "start-node" => CompensationFor(a) = <<"stop-node", "desired-graph">>
         /\ a.label = "stop-node" => CompensationFor(a) = <<"start-node", "base-graph">>
         /\ a.label = "start-runtime" => CompensationFor(a) = <<"stop-runtime", "desired-graph">>
         /\ a.label = "stop-runtime" => CompensationFor(a) = <<"start-runtime", "base-graph">>
         /\ a.label = "add-connection" =>
              CompensationFor(a) = <<"remove-connection", "desired-graph">>
         /\ a.label = "remove-connection" =>
              CompensationFor(a) = <<"add-connection", "base-graph">>
         /\ a.label = "allocate-public-ingress" =>
              CompensationFor(a) = <<"remove-public-ingress", "desired-graph">>
         /\ a.label = "remove-public-ingress" =>
              CompensationFor(a) = <<"allocate-public-ingress", "base-graph">>
         /\ a.label \in {"switch-connection", "reconcile-node", "reconcile-runtime"} =>
              CompensationFor(a) = <<a.label, "base-graph">>
         /\ a.label \notin EffectLabels => CompensationFor(a) = <<"none", "none">>
BY DEF CompensationFor, EffectLabels

\* One part of the world: what came, changed or went, or came back from it.
LEMMA PartFollows ==
  ASSUME NEW f, NEW h, NEW x, NEW old, NEW new,
         NEW gone, NEW came, NEW changed, NEW gone2, NEW came2, NEW changed2,
         old = Blend(f, h, gone, came, changed),
         \/ new = old /\ gone2 = gone /\ came2 = came /\ changed2 = changed
         \/ /\ new = With(old, x, h[x])
            /\ gone2 = gone /\ came2 = came \cup {x} /\ changed2 = changed
         \/ /\ new = With(old, x, h[x]) /\ x \in DOMAIN f \ gone
            /\ gone2 = gone /\ came2 = came /\ changed2 = changed \cup {x}
         \/ /\ new = Without(old, x) /\ x \notin came
            /\ gone2 = gone \cup {x} /\ came2 = came /\ changed2 = changed
         \/ /\ new = Without(old, x) /\ x \notin DOMAIN f
            /\ gone2 = gone /\ came2 = came \ {x} /\ changed2 = changed
         \/ /\ new = With(old, x, f[x]) /\ x \in DOMAIN f \ (came \cup changed)
            /\ gone2 = gone \ {x} /\ came2 = came /\ changed2 = changed
         \/ /\ new = With(old, x, f[x]) /\ x \in DOMAIN f \ (gone \cup came)
            /\ gone2 = gone /\ came2 = came /\ changed2 = changed \ {x}
  PROVE  new = Blend(f, h, gone2, came2, changed2)
BY BlendComes, BlendChanges, BlendGoes, BlendComesBack, BlendGoesBack, BlendChangesBack

\* An activity moves the part of the world it is about.
LEMMA RealizeFollows ==
  ASSUME RolloutInvariant, NEW a \in rollout.plan.activities, Realize(a)
  PROVE  WorldFollows'
<1> DEFINE b == rollout.base
           d == rollout.desired
           g == MaterialGraph(a, b, d)
           l == a.label
           k == l
           x == a.id
<1>1. /\ WorldShape(world) /\ PlanFollowed
      /\ world' = Effect(world, k, a, g) /\ done' = done \cup {a} /\ rollout' = rollout
  BY DEF RolloutInvariant, WorldFollows, Realize
<1>2. /\ world.nodes = NodesAfter(done) /\ world.runtimes = RuntimesAfter(done)
      /\ world.edges = EdgesAfter(done) /\ world.ingresses = IngressesAfter(done)
  BY DEF RolloutInvariant, WorldFollows
<1>3. Destructive(a) => k \notin EffectLabels
  BY DEF Destructive, EffectLabels
<1>4. SubjectFits(a, b, d) /\ x = a.id
  BY <1>1, DoneFits
<1>5. \A m : Having(m, done') = IF l = m THEN Having(m, done) \cup {x} ELSE Having(m, done)
  BY <1>1, HavingMore
<1>6. /\ Having("start-node", done) \subseteq DOMAIN d.nodes \ DOMAIN b.nodes
      /\ Having("stop-node", done) \subseteq DOMAIN b.nodes \ DOMAIN d.nodes
      /\ Having("reconcile-node", done) \subseteq Kept(b.nodes, d.nodes)
      /\ Having("start-runtime", done) \subseteq DOMAIN d.runtimes \ DOMAIN b.runtimes
      /\ Having("stop-runtime", done) \subseteq DOMAIN b.runtimes \ DOMAIN d.runtimes
      /\ Having("reconcile-runtime", done) \subseteq Kept(b.runtimes, d.runtimes)
      /\ Having("add-connection", done) \subseteq DOMAIN AtRunTime(d) \ DOMAIN b.edges
      /\ Having("remove-connection", done) \subseteq DOMAIN AtRunTime(b) \ DOMAIN d.edges
      /\ Having("switch-connection", done) \subseteq Kept(AtRunTime(b), AtRunTime(d))
      /\ Having("allocate-public-ingress", done) \subseteq DOMAIN d.ingresses \ DOMAIN b.ingresses
      /\ Having("remove-public-ingress", done) \subseteq DOMAIN b.ingresses \ DOMAIN d.ingresses
  BY <1>1, SubjectsOfDone
<1>7. l \notin {"stop-node", "remove-node-resource", "remove-connection",
             "stop-runtime", "remove-runtime-resource"} => g = d
  BY DEF MaterialGraph
<1> HIDE DEF g, x
<1>8. Moved(world', world, k, a, g)
  BY <1>1, <1>3, EffectParts
<1>9. world'.nodes = NodesAfter(done)'
  <2> DEFINE f == b.nodes
             h == d.nodes
             old == world.nodes
             new == world'.nodes
             gone == Having("stop-node", done)
             came == Having("start-node", done)
             changed == Having("reconcile-node", done)
             gone2 == Having("stop-node", done')
             came2 == Having("start-node", done')
             changed2 == Having("reconcile-node", done')
  <2>1. old = Blend(f, h, gone, came, changed)
    BY <1>2 DEF NodesAfter
  <2>2. NodesAfter(done)' = Blend(f, h, gone2, came2, changed2)
    BY <1>1 DEF NodesAfter
  <2> SUFFICES new = Blend(f, h, gone2, came2, changed2)
    BY <2>2
  <2>3. CASE l = "start-node"
    <3>1. new = With(old, x, h[x])
      BY <1>4, <1>6, <1>7, <1>8, <2>3 DEF SubjectFits, Kept, MaterialGraph, Moved, x
    <3>2. gone2 = gone /\ came2 = came \cup {x} /\ changed2 = changed
      BY <1>5, <2>3
    <3>3. x \notin DOMAIN f
      BY <1>4, <1>6, <2>3 DEF SubjectFits, Kept
    <3> HIDE DEF f, h, old, new, gone, came, changed, gone2, came2, changed2
    <3> QED
      BY <2>1, <3>1, <3>2, <3>3, BlendComes
  <2>4. CASE l = "reconcile-node"
    <3>1. new = With(old, x, h[x])
      BY <1>4, <1>6, <1>7, <1>8, <2>4 DEF SubjectFits, Kept, MaterialGraph, Moved, x
    <3>2. gone2 = gone /\ came2 = came /\ changed2 = changed \cup {x}
      BY <1>5, <2>4
    <3>3. x \in DOMAIN f \ gone
      BY <1>4, <1>6, <2>4 DEF SubjectFits, Kept
    <3> HIDE DEF f, h, old, new, gone, came, changed, gone2, came2, changed2
    <3> QED
      BY <2>1, <3>1, <3>2, <3>3, BlendChanges
  <2>5. CASE l = "stop-node"
    <3>1. new = Without(old, x)
      BY <1>8, <2>5 DEF Moved, x
    <3>2. gone2 = gone \cup {x} /\ came2 = came /\ changed2 = changed
      BY <1>5, <2>5
    <3>3. x \notin came
      BY <1>4, <1>6, <2>5 DEF SubjectFits, Kept
    <3> HIDE DEF f, h, old, new, gone, came, changed, gone2, came2, changed2
    <3> QED
      BY <2>1, <3>1, <3>2, <3>3, BlendGoes
  <2>6. CASE l \notin {"start-node", "reconcile-node", "stop-node"}
    <3>1. new = old /\ gone2 = gone /\ came2 = came /\ changed2 = changed
      BY <1>5, <1>8, <2>6 DEF Moved, x
    <3> HIDE DEF f, h, old, new, gone, came, changed, gone2, came2, changed2
    <3> QED
      BY <2>1, <3>1
  <2> QED
    BY <2>3, <2>4, <2>5, <2>6
<1>10. world'.runtimes = RuntimesAfter(done)'
  <2> DEFINE f == PlacedAll(b.runtimes)
             h == PlacedAll(d.runtimes)
             old == world.runtimes
             new == world'.runtimes
             gone == Having("stop-runtime", done)
             came == Having("start-runtime", done)
             changed == Having("reconcile-runtime", done)
             gone2 == Having("stop-runtime", done')
             came2 == Having("start-runtime", done')
             changed2 == Having("reconcile-runtime", done')
  <2>1. old = Blend(f, h, gone, came, changed)
    BY <1>2 DEF RuntimesAfter
  <2>2. RuntimesAfter(done)' = Blend(f, h, gone2, came2, changed2)
    BY <1>1 DEF RuntimesAfter
  <2> SUFFICES new = Blend(f, h, gone2, came2, changed2)
    BY <2>2
  <2>0. /\ DOMAIN f = DOMAIN b.runtimes
        /\ \A r \in DOMAIN b.runtimes : f[r] = Placed(b.runtimes[r])
        /\ \A r \in DOMAIN d.runtimes : h[r] = Placed(d.runtimes[r])
    BY DEF PlacedAll
  <2>3. CASE l = "start-runtime"
    <3>1. new = With(old, x, h[x])
      BY <1>4, <1>6, <1>7, <1>8, <2>0, <2>3 DEF SubjectFits, Kept, MaterialGraph, Moved, x
    <3>2. gone2 = gone /\ came2 = came \cup {x} /\ changed2 = changed
      BY <1>5, <2>3
    <3>3. x \notin DOMAIN f
      BY <1>4, <1>6, <2>0, <2>3 DEF SubjectFits, Kept
    <3> HIDE DEF f, h, old, new, gone, came, changed, gone2, came2, changed2
    <3> QED
      BY <2>1, <3>1, <3>2, <3>3, BlendComes
  <2>4. CASE l = "reconcile-runtime"
    <3>1. new = With(old, x, h[x])
      BY <1>4, <1>6, <1>7, <1>8, <2>0, <2>4 DEF SubjectFits, Kept, MaterialGraph, Moved, x
    <3>2. gone2 = gone /\ came2 = came /\ changed2 = changed \cup {x}
      BY <1>5, <2>4
    <3>3. x \in DOMAIN f \ gone
      BY <1>4, <1>6, <2>0, <2>4 DEF SubjectFits, Kept
    <3> HIDE DEF f, h, old, new, gone, came, changed, gone2, came2, changed2
    <3> QED
      BY <2>1, <3>1, <3>2, <3>3, BlendChanges
  <2>5. CASE l = "stop-runtime"
    <3>1. new = Without(old, x)
      BY <1>8, <2>5 DEF Moved, x
    <3>2. gone2 = gone \cup {x} /\ came2 = came /\ changed2 = changed
      BY <1>5, <2>5
    <3>3. x \notin came
      BY <1>4, <1>6, <2>0, <2>5 DEF SubjectFits, Kept
    <3> HIDE DEF f, h, old, new, gone, came, changed, gone2, came2, changed2
    <3> QED
      BY <2>1, <3>1, <3>2, <3>3, BlendGoes
  <2>6. CASE l \notin {"start-runtime", "reconcile-runtime", "stop-runtime"}
    <3>1. new = old /\ gone2 = gone /\ came2 = came /\ changed2 = changed
      BY <1>5, <1>8, <2>6 DEF Moved, x
    <3> HIDE DEF f, h, old, new, gone, came, changed, gone2, came2, changed2
    <3> QED
      BY <2>1, <3>1
  <2> QED
    BY <2>3, <2>4, <2>5, <2>6
<1>11. world'.edges = EdgesAfter(done)'
  <2> DEFINE f == AtRunTime(b)
             h == d.edges
             old == world.edges
             new == world'.edges
             gone == Having("remove-connection", done)
             came == Having("add-connection", done)
             changed == Having("switch-connection", done)
             gone2 == Having("remove-connection", done')
             came2 == Having("add-connection", done')
             changed2 == Having("switch-connection", done')
  <2>1. old = Blend(f, h, gone, came, changed)
    BY <1>2 DEF EdgesAfter
  <2>2. EdgesAfter(done)' = Blend(f, h, gone2, came2, changed2)
    BY <1>1 DEF EdgesAfter
  <2> SUFFICES new = Blend(f, h, gone2, came2, changed2)
    BY <2>2
  <2>0. /\ DOMAIN f \subseteq DOMAIN b.edges
        /\ \A e \in DOMAIN f : f[e] = b.edges[e]
        /\ DOMAIN AtRunTime(d) \subseteq DOMAIN d.edges
    BY DEF AtRunTime, Only
  <2>3. CASE l = "add-connection"
    <3>1. new = With(old, x, h[x])
      BY <1>4, <1>6, <1>7, <1>8, <2>0, <2>3 DEF SubjectFits, Kept, MaterialGraph, Moved, x
    <3>2. gone2 = gone /\ came2 = came \cup {x} /\ changed2 = changed
      BY <1>5, <2>3
    <3>3. x \notin DOMAIN f
      BY <1>4, <1>6, <2>0, <2>3 DEF SubjectFits, Kept
    <3> HIDE DEF f, h, old, new, gone, came, changed, gone2, came2, changed2
    <3> QED
      BY <2>1, <3>1, <3>2, <3>3, BlendComes
  <2>4. CASE l = "switch-connection"
    <3>1. new = With(old, x, h[x])
      BY <1>4, <1>6, <1>7, <1>8, <2>0, <2>4 DEF SubjectFits, Kept, MaterialGraph, Moved, x
    <3>2. gone2 = gone /\ came2 = came /\ changed2 = changed \cup {x}
      BY <1>5, <2>4
    <3>3. x \in DOMAIN f \ gone
      BY <1>4, <1>6, <2>0, <2>4 DEF SubjectFits, Kept
    <3> HIDE DEF f, h, old, new, gone, came, changed, gone2, came2, changed2
    <3> QED
      BY <2>1, <3>1, <3>2, <3>3, BlendChanges
  <2>5. CASE l = "remove-connection"
    <3>1. new = Without(old, x)
      BY <1>8, <2>5 DEF Moved, x
    <3>2. gone2 = gone \cup {x} /\ came2 = came /\ changed2 = changed
      BY <1>5, <2>5
    <3>3. x \notin came
      BY <1>4, <1>6, <2>0, <2>5 DEF SubjectFits, Kept
    <3> HIDE DEF f, h, old, new, gone, came, changed, gone2, came2, changed2
    <3> QED
      BY <2>1, <3>1, <3>2, <3>3, BlendGoes
  <2>6. CASE l \notin {"add-connection", "switch-connection", "remove-connection"}
    <3>1. new = old /\ gone2 = gone /\ came2 = came /\ changed2 = changed
      BY <1>5, <1>8, <2>6 DEF Moved, x
    <3> HIDE DEF f, h, old, new, gone, came, changed, gone2, came2, changed2
    <3> QED
      BY <2>1, <3>1
  <2> QED
    BY <2>3, <2>4, <2>5, <2>6
<1>12. world'.ingresses = IngressesAfter(done)'
  <2> DEFINE f == b.ingresses
             h == d.ingresses
             old == world.ingresses
             new == world'.ingresses
             gone == Having("remove-public-ingress", done)
             came == Having("allocate-public-ingress", done)
             changed == {}
             gone2 == Having("remove-public-ingress", done')
             came2 == Having("allocate-public-ingress", done')
             changed2 == {}
  <2>1. old = Blend(f, h, gone, came, changed)
    BY <1>2 DEF IngressesAfter
  <2>2. IngressesAfter(done)' = Blend(f, h, gone2, came2, changed2)
    BY <1>1 DEF IngressesAfter
  <2> SUFFICES new = Blend(f, h, gone2, came2, changed2)
    BY <2>2
  <2>3. CASE l = "allocate-public-ingress"
    <3>1. new = With(old, x, h[x])
      BY <1>4, <1>6, <1>7, <1>8, <2>3 DEF SubjectFits, Kept, MaterialGraph, Moved, x
    <3>2. gone2 = gone /\ came2 = came \cup {x} /\ changed2 = changed
      BY <1>5, <2>3
    <3>3. x \notin DOMAIN f
      BY <1>4, <1>6, <2>3 DEF SubjectFits, Kept
    <3> HIDE DEF f, h, old, new, gone, came, changed, gone2, came2, changed2
    <3> QED
      BY <2>1, <3>1, <3>2, <3>3, BlendComes
  <2>4. CASE l = "remove-public-ingress"
    <3>1. new = Without(old, x)
      BY <1>8, <2>4 DEF Moved, x
    <3>2. gone2 = gone \cup {x} /\ came2 = came /\ changed2 = changed
      BY <1>5, <2>4
    <3>3. x \notin came
      BY <1>4, <1>6, <2>4 DEF SubjectFits, Kept
    <3> HIDE DEF f, h, old, new, gone, came, changed, gone2, came2, changed2
    <3> QED
      BY <2>1, <3>1, <3>2, <3>3, BlendGoes
  <2>5. CASE l \notin {"allocate-public-ingress", "remove-public-ingress"}
    <3>1. new = old /\ gone2 = gone /\ came2 = came /\ changed2 = changed
      BY <1>5, <1>8, <2>5 DEF Moved, x
    <3> HIDE DEF f, h, old, new, gone, came, changed, gone2, came2, changed2
    <3> QED
      BY <2>1, <3>1
  <2> QED
    BY <2>3, <2>4, <2>5
<1> QED
  BY <1>8, <1>9, <1>10, <1>11, <1>12 DEF WorldFollows, Moved

\* An inverse moves it back.
LEMMA UndoFollows ==
  ASSUME RolloutInvariant, NEW a \in rollout.plan.activities, Undo(a)
  PROVE  WorldFollows'
<1> DEFINE b == rollout.base
           d == rollout.desired
           g == IF CompensationFor(a)[2] = "base-graph" THEN b ELSE d
           l == a.label
           k == CompensationFor(a)[1]
           x == a.id
<1>1. /\ WorldShape(world) /\ PlanFollowed /\ a \in done
      /\ world' = Effect(world, k, a, g) /\ done' = done \ {a} /\ rollout' = rollout
  BY DEF RolloutInvariant, WorldFollows, Undo
<1>2. /\ world.nodes = NodesAfter(done) /\ world.runtimes = RuntimesAfter(done)
      /\ world.edges = EdgesAfter(done) /\ world.ingresses = IngressesAfter(done)
  BY DEF RolloutInvariant, WorldFollows
<1>3. Destructive(a) => k \notin EffectLabels
  BY Inverses DEF Destructive, EffectLabels
<1>4. SubjectFits(a, b, d) /\ x = a.id
  BY <1>1, DoneFits
<1>5. \A m : Having(m, done') = IF l = m THEN Having(m, done) \ {x} ELSE Having(m, done)
  BY <1>1, HavingLess, DoneFits
<1>6. /\ Having("start-node", done) \subseteq DOMAIN d.nodes \ DOMAIN b.nodes
      /\ Having("stop-node", done) \subseteq DOMAIN b.nodes \ DOMAIN d.nodes
      /\ Having("reconcile-node", done) \subseteq Kept(b.nodes, d.nodes)
      /\ Having("start-runtime", done) \subseteq DOMAIN d.runtimes \ DOMAIN b.runtimes
      /\ Having("stop-runtime", done) \subseteq DOMAIN b.runtimes \ DOMAIN d.runtimes
      /\ Having("reconcile-runtime", done) \subseteq Kept(b.runtimes, d.runtimes)
      /\ Having("add-connection", done) \subseteq DOMAIN AtRunTime(d) \ DOMAIN b.edges
      /\ Having("remove-connection", done) \subseteq DOMAIN AtRunTime(b) \ DOMAIN d.edges
      /\ Having("switch-connection", done) \subseteq Kept(AtRunTime(b), AtRunTime(d))
      /\ Having("allocate-public-ingress", done) \subseteq DOMAIN d.ingresses \ DOMAIN b.ingresses
      /\ Having("remove-public-ingress", done) \subseteq DOMAIN b.ingresses \ DOMAIN d.ingresses
  BY <1>1, SubjectsOfDone
<1>7. /\ l = "start-node" => k = "stop-node"
      /\ l = "stop-node" => k = "start-node" /\ g = b
      /\ l = "start-runtime" => k = "stop-runtime"
      /\ l = "stop-runtime" => k = "start-runtime" /\ g = b
      /\ l = "add-connection" => k = "remove-connection"
      /\ l = "remove-connection" => k = "add-connection" /\ g = b
      /\ l = "allocate-public-ingress" => k = "remove-public-ingress"
      /\ l = "remove-public-ingress" => k = "allocate-public-ingress" /\ g = b
      /\ l \in {"switch-connection", "reconcile-node", "reconcile-runtime"} => k = l /\ g = b
      /\ l \notin EffectLabels => k = "none"
  BY Inverses
<1> HIDE DEF g, x, k
<1>8. Moved(world', world, k, a, g)
  BY <1>1, <1>3, EffectParts
<1>9. world'.nodes = NodesAfter(done)'
  <2> DEFINE f == b.nodes
             h == d.nodes
             old == world.nodes
             new == world'.nodes
             gone == Having("stop-node", done)
             came == Having("start-node", done)
             changed == Having("reconcile-node", done)
             gone2 == Having("stop-node", done')
             came2 == Having("start-node", done')
             changed2 == Having("reconcile-node", done')
  <2>1. old = Blend(f, h, gone, came, changed)
    BY <1>2 DEF NodesAfter
  <2>2. NodesAfter(done)' = Blend(f, h, gone2, came2, changed2)
    BY <1>1 DEF NodesAfter
  <2> SUFFICES new = Blend(f, h, gone2, came2, changed2)
    BY <2>2
  <2>3. CASE l = "start-node"
    <3>1. new = Without(old, x)
      BY <1>4, <1>6, <1>7, <1>8, <2>3 DEF SubjectFits, Kept, Moved, x
    <3>2. gone2 = gone /\ came2 = came \ {x} /\ changed2 = changed
      BY <1>5, <2>3
    <3>3. x \notin DOMAIN f
      BY <1>4, <1>6, <2>3 DEF SubjectFits, Kept
    <3> HIDE DEF f, h, old, new, gone, came, changed, gone2, came2, changed2
    <3> QED
      BY <2>1, <3>1, <3>2, <3>3, BlendComesBack
  <2>4. CASE l = "reconcile-node"
    <3>1. new = With(old, x, f[x])
      BY <1>4, <1>6, <1>7, <1>8, <2>4 DEF SubjectFits, Kept, Moved, x
    <3>2. gone2 = gone /\ came2 = came /\ changed2 = changed \ {x}
      BY <1>5, <2>4
    <3>3. x \in DOMAIN f \ (gone \cup came)
      BY <1>4, <1>6, <2>4 DEF SubjectFits, Kept
    <3> HIDE DEF f, h, old, new, gone, came, changed, gone2, came2, changed2
    <3> QED
      BY <2>1, <3>1, <3>2, <3>3, BlendChangesBack
  <2>5. CASE l = "stop-node"
    <3>1. new = With(old, x, f[x])
      BY <1>4, <1>6, <1>7, <1>8, <2>5 DEF SubjectFits, Kept, Moved, x
    <3>2. gone2 = gone \ {x} /\ came2 = came /\ changed2 = changed
      BY <1>5, <2>5
    <3>3. x \in DOMAIN f \ (came \cup changed)
      BY <1>4, <1>6, <2>5 DEF SubjectFits, Kept
    <3> HIDE DEF f, h, old, new, gone, came, changed, gone2, came2, changed2
    <3> QED
      BY <2>1, <3>1, <3>2, <3>3, BlendGoesBack
  <2>6. CASE l \notin {"start-node", "reconcile-node", "stop-node"}
    <3>1. new = old /\ gone2 = gone /\ came2 = came /\ changed2 = changed
      BY <1>5, <1>7, <1>8, <2>6 DEF EffectLabels, Moved, x
    <3> HIDE DEF f, h, old, new, gone, came, changed, gone2, came2, changed2
    <3> QED
      BY <2>1, <3>1
  <2> QED
    BY <2>3, <2>4, <2>5, <2>6
<1>10. world'.runtimes = RuntimesAfter(done)'
  <2> DEFINE f == PlacedAll(b.runtimes)
             h == PlacedAll(d.runtimes)
             old == world.runtimes
             new == world'.runtimes
             gone == Having("stop-runtime", done)
             came == Having("start-runtime", done)
             changed == Having("reconcile-runtime", done)
             gone2 == Having("stop-runtime", done')
             came2 == Having("start-runtime", done')
             changed2 == Having("reconcile-runtime", done')
  <2>1. old = Blend(f, h, gone, came, changed)
    BY <1>2 DEF RuntimesAfter
  <2>2. RuntimesAfter(done)' = Blend(f, h, gone2, came2, changed2)
    BY <1>1 DEF RuntimesAfter
  <2> SUFFICES new = Blend(f, h, gone2, came2, changed2)
    BY <2>2
  <2>0. /\ DOMAIN f = DOMAIN b.runtimes
        /\ \A r \in DOMAIN b.runtimes : f[r] = Placed(b.runtimes[r])
        /\ \A r \in DOMAIN d.runtimes : h[r] = Placed(d.runtimes[r])
    BY DEF PlacedAll
  <2>3. CASE l = "start-runtime"
    <3>1. new = Without(old, x)
      BY <1>4, <1>6, <1>7, <1>8, <2>0, <2>3 DEF SubjectFits, Kept, Moved, x
    <3>2. gone2 = gone /\ came2 = came \ {x} /\ changed2 = changed
      BY <1>5, <2>3
    <3>3. x \notin DOMAIN f
      BY <1>4, <1>6, <2>0, <2>3 DEF SubjectFits, Kept
    <3> HIDE DEF f, h, old, new, gone, came, changed, gone2, came2, changed2
    <3> QED
      BY <2>1, <3>1, <3>2, <3>3, BlendComesBack
  <2>4. CASE l = "reconcile-runtime"
    <3>1. new = With(old, x, f[x])
      BY <1>4, <1>6, <1>7, <1>8, <2>0, <2>4 DEF SubjectFits, Kept, Moved, x
    <3>2. gone2 = gone /\ came2 = came /\ changed2 = changed \ {x}
      BY <1>5, <2>4
    <3>3. x \in DOMAIN f \ (gone \cup came)
      BY <1>4, <1>6, <2>0, <2>4 DEF SubjectFits, Kept
    <3> HIDE DEF f, h, old, new, gone, came, changed, gone2, came2, changed2
    <3> QED
      BY <2>1, <3>1, <3>2, <3>3, BlendChangesBack
  <2>5. CASE l = "stop-runtime"
    <3>1. new = With(old, x, f[x])
      BY <1>4, <1>6, <1>7, <1>8, <2>0, <2>5 DEF SubjectFits, Kept, Moved, x
    <3>2. gone2 = gone \ {x} /\ came2 = came /\ changed2 = changed
      BY <1>5, <2>5
    <3>3. x \in DOMAIN f \ (came \cup changed)
      BY <1>4, <1>6, <2>0, <2>5 DEF SubjectFits, Kept
    <3> HIDE DEF f, h, old, new, gone, came, changed, gone2, came2, changed2
    <3> QED
      BY <2>1, <3>1, <3>2, <3>3, BlendGoesBack
  <2>6. CASE l \notin {"start-runtime", "reconcile-runtime", "stop-runtime"}
    <3>1. new = old /\ gone2 = gone /\ came2 = came /\ changed2 = changed
      BY <1>5, <1>7, <1>8, <2>6 DEF EffectLabels, Moved, x
    <3> HIDE DEF f, h, old, new, gone, came, changed, gone2, came2, changed2
    <3> QED
      BY <2>1, <3>1
  <2> QED
    BY <2>3, <2>4, <2>5, <2>6
<1>11. world'.edges = EdgesAfter(done)'
  <2> DEFINE f == AtRunTime(b)
             h == d.edges
             old == world.edges
             new == world'.edges
             gone == Having("remove-connection", done)
             came == Having("add-connection", done)
             changed == Having("switch-connection", done)
             gone2 == Having("remove-connection", done')
             came2 == Having("add-connection", done')
             changed2 == Having("switch-connection", done')
  <2>1. old = Blend(f, h, gone, came, changed)
    BY <1>2 DEF EdgesAfter
  <2>2. EdgesAfter(done)' = Blend(f, h, gone2, came2, changed2)
    BY <1>1 DEF EdgesAfter
  <2> SUFFICES new = Blend(f, h, gone2, came2, changed2)
    BY <2>2
  <2>0. /\ DOMAIN f \subseteq DOMAIN b.edges
        /\ \A e \in DOMAIN f : f[e] = b.edges[e]
        /\ DOMAIN AtRunTime(d) \subseteq DOMAIN d.edges
    BY DEF AtRunTime, Only
  <2>3. CASE l = "add-connection"
    <3>1. new = Without(old, x)
      BY <1>4, <1>6, <1>7, <1>8, <2>0, <2>3 DEF SubjectFits, Kept, Moved, x
    <3>2. gone2 = gone /\ came2 = came \ {x} /\ changed2 = changed
      BY <1>5, <2>3
    <3>3. x \notin DOMAIN f
      BY <1>4, <1>6, <2>0, <2>3 DEF SubjectFits, Kept
    <3> HIDE DEF f, h, old, new, gone, came, changed, gone2, came2, changed2
    <3> QED
      BY <2>1, <3>1, <3>2, <3>3, BlendComesBack
  <2>4. CASE l = "switch-connection"
    <3>1. new = With(old, x, f[x])
      BY <1>4, <1>6, <1>7, <1>8, <2>0, <2>4 DEF SubjectFits, Kept, Moved, x
    <3>2. gone2 = gone /\ came2 = came /\ changed2 = changed \ {x}
      BY <1>5, <2>4
    <3>3. x \in DOMAIN f \ (gone \cup came)
      BY <1>4, <1>6, <2>0, <2>4 DEF SubjectFits, Kept
    <3> HIDE DEF f, h, old, new, gone, came, changed, gone2, came2, changed2
    <3> QED
      BY <2>1, <3>1, <3>2, <3>3, BlendChangesBack
  <2>5. CASE l = "remove-connection"
    <3>1. new = With(old, x, f[x])
      BY <1>4, <1>6, <1>7, <1>8, <2>0, <2>5 DEF SubjectFits, Kept, Moved, x
    <3>2. gone2 = gone \ {x} /\ came2 = came /\ changed2 = changed
      BY <1>5, <2>5
    <3>3. x \in DOMAIN f \ (came \cup changed)
      BY <1>4, <1>6, <2>0, <2>5 DEF SubjectFits, Kept
    <3> HIDE DEF f, h, old, new, gone, came, changed, gone2, came2, changed2
    <3> QED
      BY <2>1, <3>1, <3>2, <3>3, BlendGoesBack
  <2>6. CASE l \notin {"add-connection", "switch-connection", "remove-connection"}
    <3>1. new = old /\ gone2 = gone /\ came2 = came /\ changed2 = changed
      BY <1>5, <1>7, <1>8, <2>6 DEF EffectLabels, Moved, x
    <3> HIDE DEF f, h, old, new, gone, came, changed, gone2, came2, changed2
    <3> QED
      BY <2>1, <3>1
  <2> QED
    BY <2>3, <2>4, <2>5, <2>6
<1>12. world'.ingresses = IngressesAfter(done)'
  <2> DEFINE f == b.ingresses
             h == d.ingresses
             old == world.ingresses
             new == world'.ingresses
             gone == Having("remove-public-ingress", done)
             came == Having("allocate-public-ingress", done)
             changed == {}
             gone2 == Having("remove-public-ingress", done')
             came2 == Having("allocate-public-ingress", done')
             changed2 == {}
  <2>1. old = Blend(f, h, gone, came, changed)
    BY <1>2 DEF IngressesAfter
  <2>2. IngressesAfter(done)' = Blend(f, h, gone2, came2, changed2)
    BY <1>1 DEF IngressesAfter
  <2> SUFFICES new = Blend(f, h, gone2, came2, changed2)
    BY <2>2
  <2>3. CASE l = "allocate-public-ingress"
    <3>1. new = Without(old, x)
      BY <1>4, <1>6, <1>7, <1>8, <2>3 DEF SubjectFits, Kept, Moved, x
    <3>2. gone2 = gone /\ came2 = came \ {x} /\ changed2 = changed
      BY <1>5, <2>3
    <3>3. x \notin DOMAIN f
      BY <1>4, <1>6, <2>3 DEF SubjectFits, Kept
    <3> HIDE DEF f, h, old, new, gone, came, changed, gone2, came2, changed2
    <3> QED
      BY <2>1, <3>1, <3>2, <3>3, BlendComesBack
  <2>4. CASE l = "remove-public-ingress"
    <3>1. new = With(old, x, f[x])
      BY <1>4, <1>6, <1>7, <1>8, <2>4 DEF SubjectFits, Kept, Moved, x
    <3>2. gone2 = gone \ {x} /\ came2 = came /\ changed2 = changed
      BY <1>5, <2>4
    <3>3. x \in DOMAIN f \ (came \cup changed)
      BY <1>4, <1>6, <2>4 DEF SubjectFits, Kept
    <3> HIDE DEF f, h, old, new, gone, came, changed, gone2, came2, changed2
    <3> QED
      BY <2>1, <3>1, <3>2, <3>3, BlendGoesBack
  <2>5. CASE l \notin {"allocate-public-ingress", "remove-public-ingress"}
    <3>1. new = old /\ gone2 = gone /\ came2 = came /\ changed2 = changed
      BY <1>5, <1>7, <1>8, <2>5 DEF EffectLabels, Moved, x
    <3> HIDE DEF f, h, old, new, gone, came, changed, gone2, came2, changed2
    <3> QED
      BY <2>1, <3>1
  <2> QED
    BY <2>3, <2>4, <2>5
<1> QED
  BY <1>8, <1>9, <1>10, <1>11, <1>12 DEF WorldFollows, Moved

-----------------------------------------------------------------------------
(* The invariant is inductive.                                             *)

\* A plan orders its own activities only.
LEMMA OrderWithin ==
  ASSUME NEW acts, NEW b, NEW d, NEW p \in Order(acts, b, d)
  PROVE  p[1] \in acts /\ p[2] \in acts
BY DEF Order, SubjectOrder

LEMMA RealizeKeeps ==
  ASSUME RolloutInvariant, NEW a \in rollout.plan.activities, Realize(a)
  PROVE  RolloutInvariant'
<1>1. WorldFollows'
  BY RealizeFollows
<1>2. /\ rollout' = rollout /\ direction' = direction /\ direction = "forward"
      /\ done' = done \cup {a} /\ rollout.outcome = "executable"
      /\ Before(rollout.plan, a) \subseteq done
  BY DEF Realize, IsReady
<1>3. PlanFollowed'
  <2>1. ASSUME NEW p \in rollout.plan.order, p[2] \in done' PROVE p[1] \in done'
    <3>1. CASE p[2] = a
      BY <1>2, <3>1 DEF Before
    <3>2. CASE p[2] \in done
      BY <1>2, <3>2 DEF RolloutInvariant, PlanFollowed
    <3> QED
      BY <1>2, <2>1, <3>1, <3>2
  <2> QED
    BY <1>2, <2>1 DEF RolloutInvariant, PlanFollowed
<1>4. StoppedKept'
  <2>1. SUFFICES ASSUME NEW n, N("stop-node", n) \in done',
                        N("remove-node-resource", n) \notin done'
                 PROVE  <<"node", n>> \in world'.stopped
    BY DEF StoppedKept
  <2>2. /\ SubjectFits(a, rollout.base, rollout.desired)
        /\ Moved(world', world, a.label, a, MaterialGraph(a, rollout.base, rollout.desired))
    BY DoneFits, EffectParts
       DEF RolloutInvariant, WorldFollows, Realize, Destructive, EffectLabels
  <2>3. CASE a = N("stop-node", n)
    <3>1. a.label = "stop-node" /\ a.id = n
      BY <2>3 DEF N, Activity
    <3> QED
      BY <2>2, <3>1 DEF Moved
  <2>4. CASE a # N("stop-node", n)
    <3>1. <<"node", n>> \in world.stopped /\ N("stop-node", n) \in done
      BY <1>2, <2>1, <2>4 DEF RolloutInvariant, StoppedKept
    <3>2. n \in DOMAIN rollout.base.nodes \ DOMAIN rollout.desired.nodes
      BY <3>1, HavingNode, SubjectsOfDone DEF RolloutInvariant
    <3>3. ~ (a.id = n /\ a.label \in {"start-node", "reconcile-node"})
      BY <2>2, <3>2 DEF SubjectFits, Kept
    <3>4. ~ (Destructive(a) /\ a.kind = "node" /\ a.id = n)
      <4>1. SUFFICES ASSUME Destructive(a), a.kind = "node", a.id = n PROVE FALSE
        OBVIOUS
      <4>2. CASE a.label = "remove-node-resource"
        <5>1. a = N("remove-node-resource", n)
          BY <2>2, <4>1, <4>2 DEF SubjectFits
        <5> QED
          BY <1>2, <2>1, <5>1
      <4>3. CASE a.label = "remove-runtime-resource"
        <5>1. a.kind = "runtime"
          BY <2>2, <4>3 DEF SubjectFits, R, Activity
        <5> QED
          BY <4>1, <5>1
      <4> QED
        BY <4>1, <4>2, <4>3 DEF Destructive
    <3> QED
      BY <2>2, <3>1, <3>3, <3>4 DEF Moved
  <2> QED
    BY <2>3, <2>4
<1> QED
  BY <1>1, <1>3, <1>4 DEF RolloutInvariant

LEMMA UndoKeeps ==
  ASSUME RolloutInvariant, NEW a \in rollout.plan.activities, Undo(a)
  PROVE  RolloutInvariant'
<1>1. WorldFollows'
  BY UndoFollows
<1>2. /\ rollout' = rollout /\ direction' = direction /\ direction = "backward"
      /\ done' = done \ {a} /\ a \in done
      /\ \A p \in rollout.plan.order : p[1] = a => p[2] \notin done
  BY DEF Undo
<1>3. PlanFollowed'
  BY <1>2 DEF RolloutInvariant, PlanFollowed
<1>4. StoppedKept'
  <2>1. SUFFICES ASSUME NEW n, N("stop-node", n) \in done'
                 PROVE  <<"node", n>> \in world'.stopped
    BY DEF StoppedKept
  <2> DEFINE k == CompensationFor(a)[1]
             g == IF CompensationFor(a)[2] = "base-graph" THEN rollout.base
                  ELSE rollout.desired
  <2>2. ~ Destructive(a) /\ SubjectFits(a, rollout.base, rollout.desired)
    BY <1>2, DoneFits DEF RolloutInvariant, PlanFollowed
  <2>3. Moved(world', world, k, a, g)
    BY <2>2, EffectParts DEF RolloutInvariant, WorldFollows, Undo
  <2>4. N("stop-node", n) \in done /\ a # N("stop-node", n)
    BY <1>2, <2>1
  <2>5. <<"node", n>> \in world.stopped
    <3>1. N("remove-node-resource", n) \notin done
      BY <1>2 DEF RolloutInvariant, PlanFollowed, Destructive, N, Activity
    <3> QED
      BY <2>4, <3>1 DEF RolloutInvariant, StoppedKept
  <2>6. n \in DOMAIN rollout.base.nodes \ DOMAIN rollout.desired.nodes
    BY <2>4, HavingNode, SubjectsOfDone DEF RolloutInvariant
  <2>7. k \in {"start-node", "reconcile-node"} => a.label \in {"stop-node", "reconcile-node"}
    BY Inverses DEF EffectLabels
  <2>8. ~ (k \in {"start-node", "reconcile-node"} /\ a.id = n)
    BY <2>2, <2>4, <2>6, <2>7 DEF SubjectFits, Kept
  <2> HIDE DEF k, g
  <2> QED
    BY <2>2, <2>3, <2>5, <2>8 DEF Moved
<1> QED
  BY <1>1, <1>3, <1>4 DEF RolloutInvariant

\* Before anything is done, and after everything is undone, the world is the
\* base graph's.
LEMMA AfterNothing ==
  ASSUME SoundGraph(rollout.base)
  PROVE  LET r == Realized(rollout.base) IN
         /\ NodesAfter({}) = r.nodes /\ RuntimesAfter({}) = r.runtimes
         /\ EdgesAfter({}) = r.edges /\ IngressesAfter({}) = r.ingresses
<1> DEFINE b == rollout.base
           d == rollout.desired
<1>1. \A l : Having(l, {}) = {}
  BY DEF Having
<1>2. NodesAfter({}) = Realized(b).nodes
  <2> DEFINE f == b.nodes
             h == d.nodes
  <2>1. Realized(b).nodes = f /\ f = Only(f, DOMAIN f) /\ NodesAfter({}) = Blend(f, h, {}, {}, {})
    BY <1>1 DEF Realized, SoundGraph, NodesAfter
  <2> SUFFICES Blend(f, h, {}, {}, {}) = f
    BY <2>1
  <2> HIDE DEF f, h
  <2> QED
    BY <2>1, BlendNothing
<1>3. RuntimesAfter({}) = Realized(b).runtimes
  <2> DEFINE f == PlacedAll(b.runtimes)
             h == PlacedAll(d.runtimes)
  <2>1. Realized(b).runtimes = f /\ f = Only(f, DOMAIN f)
        /\ RuntimesAfter({}) = Blend(f, h, {}, {}, {})
    BY <1>1 DEF Realized, PlacedAll, Only, RuntimesAfter
  <2> SUFFICES Blend(f, h, {}, {}, {}) = f
    BY <2>1
  <2> HIDE DEF f, h
  <2> QED
    BY <2>1, BlendNothing
<1>4. EdgesAfter({}) = Realized(b).edges
  <2> DEFINE f == AtRunTime(b)
             h == d.edges
  <2>1. Realized(b).edges = f /\ f = Only(f, DOMAIN f) /\ EdgesAfter({}) = Blend(f, h, {}, {}, {})
    BY <1>1 DEF Realized, AtRunTime, Only, EdgesAfter
  <2> SUFFICES Blend(f, h, {}, {}, {}) = f
    BY <2>1
  <2> HIDE DEF f, h
  <2> QED
    BY <2>1, BlendNothing
<1>5. IngressesAfter({}) = Realized(b).ingresses
  <2> DEFINE f == b.ingresses
             h == d.ingresses
  <2>1. Realized(b).ingresses = f /\ f = Only(f, DOMAIN f)
        /\ IngressesAfter({}) = Blend(f, h, {}, {}, {})
    BY <1>1 DEF Realized, SoundGraph, IngressesAfter
  <2> SUFFICES Blend(f, h, {}, {}, {}) = f
    BY <2>1
  <2> HIDE DEF f, h
  <2> QED
    BY <2>1, BlendNothing
<1> QED
  BY <1>2, <1>3, <1>4, <1>5

LEMMA FirstRollout ==
  ASSUME NEW b, NEW d, SoundGraph(b), SoundGraph(d), RolloutInitOf(b, d)
  PROVE  RolloutInvariant
<1>1. /\ rollout.base = b /\ rollout.desired = d /\ rollout.plan = PlanOf(b, d)
      /\ rollout.outcome = PlanOutcome(rollout.plan, b, d)
      /\ world = Realized(b) /\ done = {} /\ direction = "forward"
  BY DEF RolloutInitOf
<1>2. PlanFollowed
  BY <1>1 DEF PlanFollowed
<1>3. WorldShape(world)
  BY <1>1 DEF WorldShape, Realized
<1>4. /\ world.nodes = NodesAfter(done) /\ world.runtimes = RuntimesAfter(done)
      /\ world.edges = EdgesAfter(done) /\ world.ingresses = IngressesAfter(done)
  BY <1>1, AfterNothing
<1>5. StoppedKept
  BY <1>1 DEF StoppedKept
<1> QED
  BY <1>2, <1>3, <1>4, <1>5 DEF RolloutInvariant, WorldFollows

LEMMA StepKeepsRollout == RolloutInvariant /\ [RolloutNext]_rvars => RolloutInvariant'
<1> SUFFICES ASSUME RolloutInvariant, [RolloutNext]_rvars PROVE RolloutInvariant'
  OBVIOUS
<1>1. ASSUME NEW a \in rollout.plan.activities, Realize(a) PROVE RolloutInvariant'
  BY <1>1, RealizeKeeps
<1>2. ASSUME NEW a \in rollout.plan.activities, Undo(a) PROVE RolloutInvariant'
  BY <1>2, UndoKeeps
<1>3. CASE GiveUp \/ UNCHANGED rvars
  <2>1. /\ rollout' = rollout /\ world' = world /\ done' = done
        /\ \/ direction' = direction
           \/ direction' = "backward" /\ \A a \in done : ~ Destructive(a)
    BY <1>3 DEF GiveUp, rvars
  <2>2. PlanFollowed'
    BY <2>1 DEF RolloutInvariant, PlanFollowed
  <2>3. WorldFollows' /\ StoppedKept'
    BY <2>1 DEF RolloutInvariant, WorldFollows, StoppedKept, NodesAfter, RuntimesAfter,
       EdgesAfter, IngressesAfter
  <2> QED
    BY <2>2, <2>3 DEF RolloutInvariant
<1> QED
  BY <1>1, <1>2, <1>3 DEF RolloutNext

-----------------------------------------------------------------------------
(* Where a rollout ends.                                                   *)

LEMMA HavingActivity ==
  ASSUME NEW l, NEW k, NEW i, NEW D, Activity(l, k, i) \in D
  PROVE  i \in Having(l, D)
BY DEF Having, Activity

\* When all is done the nodes are the desired ones.
LEMMA NodesArrive ==
  ASSUME RolloutInvariant, rollout.outcome = "executable", done = rollout.plan.activities
  PROVE  LET d == rollout.desired IN
         /\ \A n \in DOMAIN d.nodes : Owned(d.nodes[n]) =>
              n \in DOMAIN world.nodes /\ world.nodes[n] = d.nodes[n]
         /\ \A n \in DOMAIN world.nodes : Owned(world.nodes[n]) => n \in DOMAIN d.nodes
<1> DEFINE b == rollout.base
           d == rollout.desired
           gone == Having("stop-node", done)
           came == Having("start-node", done)
           changed == Having("reconcile-node", done)
<1>1. /\ SoundGraph(b) /\ SoundGraph(d) /\ done = Activities(b, d) /\ Unreviewed(b, d)
      /\ PlanFollowed
  BY ExecutableUnreviewed DEF RolloutInvariant, PlanFollowed, PlanOf
<1>2. /\ came \subseteq DOMAIN d.nodes \ DOMAIN b.nodes
      /\ gone \subseteq DOMAIN b.nodes \ DOMAIN d.nodes
      /\ changed \subseteq Kept(b.nodes, d.nodes)
  BY <1>1, SubjectsOfDone
<1>3. /\ DOMAIN world.nodes = (DOMAIN b.nodes \ gone) \cup came
      /\ \A n \in DOMAIN world.nodes :
           world.nodes[n] = IF n \in came \cup changed THEN d.nodes[n] ELSE b.nodes[n]
  BY DEF RolloutInvariant, WorldFollows, NodesAfter, Blend
<1>4. \A n \in DOMAIN d.nodes \ DOMAIN b.nodes : Owned(d.nodes[n]) => n \in came
  BY <1>1, ResourcesPlanned, HavingActivity DEF N
<1>5. \A n \in DOMAIN b.nodes \ DOMAIN d.nodes : Owned(b.nodes[n]) => n \in gone
  BY <1>1, ResourcesPlanned, HavingActivity DEF N
<1>6. \A n \in Kept(b.nodes, d.nodes) : b.nodes[n] # d.nodes[n] => n \in changed
  BY <1>1, KeptNodes, HavingActivity DEF N
<1> HIDE DEF gone, came, changed
<1>7. ASSUME NEW n \in DOMAIN d.nodes, Owned(d.nodes[n])
      PROVE  n \in DOMAIN world.nodes /\ world.nodes[n] = d.nodes[n]
  BY <1>2, <1>3, <1>4, <1>6, <1>7 DEF Kept
<1>8. ASSUME NEW n \in DOMAIN world.nodes, Owned(world.nodes[n]) PROVE n \in DOMAIN d.nodes
  BY <1>2, <1>3, <1>5, <1>8 DEF Kept
<1> QED
  BY <1>7, <1>8

\* So are the runtimes.
LEMMA RuntimesArrive ==
  ASSUME RolloutInvariant, rollout.outcome = "executable", done = rollout.plan.activities,
         NEW r \in DOMAIN rollout.desired.runtimes, Owned(rollout.desired.runtimes[r])
  PROVE  r \in DOMAIN world.runtimes /\ world.runtimes[r] = Placed(rollout.desired.runtimes[r])
<1> DEFINE b == rollout.base
           d == rollout.desired
           f == PlacedAll(b.runtimes)
           h == PlacedAll(d.runtimes)
           gone == Having("stop-runtime", done)
           came == Having("start-runtime", done)
           changed == Having("reconcile-runtime", done)
<1>1. /\ done = Activities(b, d) /\ Unreviewed(b, d) /\ PlanFollowed
  BY ExecutableUnreviewed DEF RolloutInvariant, PlanFollowed, PlanOf
<1>2. /\ gone \subseteq DOMAIN b.runtimes \ DOMAIN d.runtimes
      /\ came \subseteq DOMAIN d.runtimes
  BY <1>1, SubjectsOfDone
<1>3. /\ DOMAIN world.runtimes = (DOMAIN f \ gone) \cup came
      /\ \A x \in DOMAIN world.runtimes :
           world.runtimes[x] = IF x \in came \cup changed THEN h[x] ELSE f[x]
  BY DEF RolloutInvariant, WorldFollows, RuntimesAfter, Blend
<1>4. /\ DOMAIN f = DOMAIN b.runtimes
      /\ \A x \in DOMAIN b.runtimes : f[x] = Placed(b.runtimes[x])
      /\ h[r] = Placed(d.runtimes[r])
  BY DEF PlacedAll
<1>5. r \notin DOMAIN b.runtimes => r \in came
  BY <1>1, ResourcesPlanned, HavingActivity DEF R
<1>6. r \in DOMAIN b.runtimes /\ Placed(b.runtimes[r]) # Placed(d.runtimes[r]) => r \in changed
  BY <1>1, KeptRuntimes, HavingActivity DEF R, Kept
<1> HIDE DEF gone, came, changed, f, h
<1> QED
  BY <1>2, <1>3, <1>4, <1>5, <1>6

\* So are the connections that are not rebound.
LEMMA ConnectionsArrive ==
  ASSUME RolloutInvariant, rollout.outcome = "executable", done = rollout.plan.activities,
         NEW e \in DOMAIN world.edges \cup DOMAIN AtRunTime(rollout.desired), ~ Rebound(e)
  PROVE  /\ e \in Kept(world.edges, AtRunTime(rollout.desired))
         /\ world.edges[e] = AtRunTime(rollout.desired)[e]
<1> DEFINE b == rollout.base
           d == rollout.desired
           f == AtRunTime(b)
           gone == Having("remove-connection", done)
           came == Having("add-connection", done)
           changed == Having("switch-connection", done)
<1>1. done = Activities(b, d) /\ PlanFollowed
  BY DEF RolloutInvariant, PlanFollowed, PlanOf
<1>2. /\ came \subseteq DOMAIN AtRunTime(d) \ DOMAIN b.edges
      /\ gone \subseteq DOMAIN f \ DOMAIN d.edges
      /\ changed \subseteq Kept(f, AtRunTime(d))
  BY <1>1, SubjectsOfDone
<1>3. /\ DOMAIN world.edges = (DOMAIN f \ gone) \cup came
      /\ \A x \in DOMAIN world.edges :
           world.edges[x] = IF x \in came \cup changed THEN d.edges[x] ELSE f[x]
  BY DEF RolloutInvariant, WorldFollows, EdgesAfter, Blend
<1>4. /\ \A x : x \in DOMAIN f <=> x \in DOMAIN b.edges /\ ~ EnvironmentBound(b.edges[x])
      /\ \A x : x \in DOMAIN AtRunTime(d) <=>
                  x \in DOMAIN d.edges /\ ~ EnvironmentBound(d.edges[x])
      /\ \A x \in DOMAIN f : f[x] = b.edges[x]
      /\ \A x \in DOMAIN AtRunTime(d) : AtRunTime(d)[x] = d.edges[x]
  BY DEF AtRunTime, Only
<1>5. e \in DOMAIN AtRunTime(d) \ DOMAIN b.edges => e \in came
  BY <1>1, ConnectionsPlanned, HavingActivity
<1>6. e \in DOMAIN f \ DOMAIN d.edges => e \in gone
  BY <1>1, ConnectionsPlanned, HavingActivity
<1>7. e \in Kept(f, AtRunTime(d)) /\ b.edges[e] # d.edges[e] => e \in changed
  BY <1>1, ConnectionsPlanned, HavingActivity
<1> HIDE DEF gone, came, changed, f
<1>8. e \in DOMAIN AtRunTime(d)
  BY <1>2, <1>3, <1>4, <1>6 DEF Rebound, Kept
<1>9. e \in DOMAIN b.edges => e \in DOMAIN f
  BY <1>4, <1>8 DEF Rebound, Kept
<1>10. e \in DOMAIN world.edges
  BY <1>2, <1>3, <1>4, <1>5, <1>8, <1>9
<1> QED
  BY <1>2, <1>3, <1>4, <1>5, <1>7, <1>8, <1>9, <1>10 DEF Kept

\* So are the ingresses.
LEMMA IngressesArrive ==
  ASSUME RolloutInvariant, rollout.outcome = "executable", done = rollout.plan.activities
  PROVE  world.ingresses = rollout.desired.ingresses
<1> DEFINE b == rollout.base
           d == rollout.desired
           gone == Having("remove-public-ingress", done)
           came == Having("allocate-public-ingress", done)
           f == b.ingresses
           h == d.ingresses
<1>1. /\ done = Activities(b, d) /\ Unreviewed(b, d) /\ PlanFollowed
      /\ SoundGraph(d)
  BY ExecutableUnreviewed DEF RolloutInvariant, PlanFollowed, PlanOf
<1>0. h = Only(h, DOMAIN h)
  BY <1>1 DEF SoundGraph
<1>2. /\ gone \subseteq DOMAIN f \ DOMAIN h
      /\ came \subseteq DOMAIN h \ DOMAIN f
  BY <1>1, SubjectsOfDone
<1>3. world.ingresses = Blend(f, h, gone, came, {})
  BY DEF RolloutInvariant, WorldFollows, IngressesAfter
<1>4. DOMAIN h \ DOMAIN f \subseteq came
  BY <1>1, IngressesPlanned, HavingActivity
<1>5. DOMAIN f \ DOMAIN h \subseteq gone
  BY <1>1, IngressesPlanned, HavingActivity
<1>6. \A i \in DOMAIN f \cap DOMAIN h : f[i] = h[i]
  BY <1>1, IngressesPlanned DEF Kept
<1> SUFFICES Blend(f, h, gone, came, {}) = h
  BY <1>3
<1> HIDE DEF gone, came, f, h
<1>7. (DOMAIN f \ gone) \cup came = DOMAIN h
  BY <1>2, <1>4, <1>5
<1>8. Blend(f, h, gone, came, {}) = [i \in DOMAIN h |-> h[i]]
  BY <1>2, <1>4, <1>6, <1>7 DEF Blend
<1> QED
  BY <1>0, <1>8 DEF Only

LEMMA InvariantEnds == RolloutInvariant => RolloutEndsInAGraph
<1> SUFFICES ASSUME RolloutInvariant PROVE RolloutEndsInAGraph
  OBVIOUS
<1> DEFINE b == Realized(rollout.base)
           d == Realized(rollout.desired)
<1>1. ASSUME rollout.outcome = "executable", done = rollout.plan.activities
      PROVE  /\ \A n \in DOMAIN d.nodes : Owned(d.nodes[n]) =>
                  n \in DOMAIN world.nodes /\ world.nodes[n] = d.nodes[n]
             /\ \A n \in DOMAIN world.nodes : Owned(world.nodes[n]) => n \in DOMAIN d.nodes
             /\ \A r \in DOMAIN d.runtimes : Owned(rollout.desired.runtimes[r]) =>
                  r \in DOMAIN world.runtimes /\ world.runtimes[r] = d.runtimes[r]
             /\ \A e \in DOMAIN world.edges \cup DOMAIN d.edges : ~ Rebound(e) =>
                  e \in Kept(world.edges, d.edges) /\ world.edges[e] = d.edges[e]
             /\ world.ingresses = d.ingresses
  <2>1. /\ d.nodes = rollout.desired.nodes /\ d.ingresses = rollout.desired.ingresses
        /\ d.edges = AtRunTime(rollout.desired)
        /\ DOMAIN d.runtimes = DOMAIN rollout.desired.runtimes
        /\ \A r \in DOMAIN d.runtimes : d.runtimes[r] = Placed(rollout.desired.runtimes[r])
    BY DEF Realized, AtRunTime
  <2> HIDE DEF d
  <2> QED
    BY <1>1, <2>1, NodesArrive, RuntimesArrive, ConnectionsArrive, IngressesArrive
<1>2. ASSUME done = {}
      PROVE  /\ world.nodes = b.nodes /\ world.runtimes = b.runtimes
             /\ world.edges = b.edges /\ world.ingresses = b.ingresses
  BY <1>2, AfterNothing DEF RolloutInvariant, PlanFollowed, WorldFollows
<1> QED
  BY <1>1, <1>2 DEF RolloutEndsInAGraph

LEMMA FirstRolloutOf == RolloutInit => RolloutInvariant
BY FirstRollout, GraphsSound DEF RolloutInit

\* A rollout that ran to its end left the desired graph, but for connections that
\* are rebound, which get no activity; one that was undone left the world it found.
THEOREM RolloutEnds == RolloutSpec => []RolloutEndsInAGraph
<1>1. RolloutInit => RolloutInvariant
  BY FirstRolloutOf
<1>2. RolloutInvariant /\ [RolloutNext]_rvars => RolloutInvariant'
  BY StepKeepsRollout
<1>3. RolloutInvariant => RolloutEndsInAGraph
  BY InvariantEnds
<1> QED
  BY <1>1, <1>2, <1>3, PTL DEF RolloutSpec

-----------------------------------------------------------------------------
(* What a rollout never loses on its way.                                  *)

\* What precedes something that is done, or may be, is done.
LEMMA Earlier ==
  ASSUME PlanFollowed, NEW x \in Activities(rollout.base, rollout.desired),
         NEW y \in done \cup Ready,
         LET b == rollout.base  d == rollout.desired IN
         \/ <<x, y>> \in RuntimeOrder(b, d) \cup EvacuationOrder(b, d)
         \/ \E c \in Diff(b, d) :
              \/ c.kind = "edge" /\ c.form # "removed" /\ <<x, y>> \in ConnectionOrder(c, b, d)
              \/ c.kind = "edge" /\ c.form # "added" /\ <<x, y>> \in DisconnectionOrder(c, b, d)
              \/ /\ c.kind = "ingress" /\ c.form # "modified"
                 /\ <<x, y>> \in IngressOrder(c, b, d)
  PROVE  x \in done
<1> DEFINE b == rollout.base
           d == rollout.desired
           acts == Activities(b, d)
           p == <<x, y>>
<1>1. p[1] \in acts /\ p[2] \in acts
  BY DEF PlanFollowed, PlanOf, Ready
<1>2. ASSUME NEW q \in RuntimeOrder(b, d) \cup EvacuationOrder(b, d), q[1] \in acts, q[2] \in acts
      PROVE  q \in Order(acts, b, d)
  BY <1>2 DEF Order
<1>3. ASSUME NEW c \in Diff(b, d), c.kind = "edge", c.form # "removed",
             p \in ConnectionOrder(c, b, d)
      PROVE  p \in Order(acts, b, d)
  <2>1. p \in MadeOrder(b, d)
    BY <1>3 DEF MadeOrder
  <2> QED
    BY <1>1, <2>1 DEF Order
<1>4. ASSUME NEW c \in Diff(b, d), c.kind = "edge", c.form # "added",
             p \in DisconnectionOrder(c, b, d)
      PROVE  p \in Order(acts, b, d)
  <2>1. p \in UnmadeOrder(b, d)
    BY <1>4 DEF UnmadeOrder
  <2> QED
    BY <1>1, <2>1 DEF Order
<1>5. ASSUME NEW c \in Diff(b, d), c.kind = "ingress", c.form # "modified",
             p \in IngressOrder(c, b, d)
      PROVE  p \in Order(acts, b, d)
  <2>1. p \in PublicOrder(b, d)
    BY <1>5 DEF PublicOrder
  <2> QED
    BY <1>1, <2>1 DEF Order
<1>6. p \in Order(acts, b, d)
  BY <1>1, <1>2, <1>3, <1>4, <1>5
<1>7. p \in rollout.plan.order
  BY <1>6 DEF PlanFollowed, PlanOf
<1> QED
  BY <1>7 DEF PlanFollowed, Ready, IsReady, Before

\* So is what comes first on its own node.
LEMMA EarlierOnNode ==
  ASSUME PlanFollowed, NEW n, NEW l, NEW m,
         <<l, m>> \in {<<"start-node", "wait-healthy">>, <<"stop-node", "remove-node-resource">>},
         N(l, n) \in Activities(rollout.base, rollout.desired), N(m, n) \in done \cup Ready
  PROVE  N(l, n) \in done
<1> DEFINE acts == Activities(rollout.base, rollout.desired)
           p == <<N(l, n), N(m, n)>>
<1>1. N(l, n) \in acts /\ N(m, n) \in acts
  BY DEF PlanFollowed, PlanOf, Ready
<1>2. /\ N(l, n).label = l /\ N(m, n).label = m
      /\ N(l, n).kind = N(m, n).kind /\ N(l, n).id = N(m, n).id
  BY DEF N, Activity
<1>3. p \in SubjectOrder(acts)
  BY <1>1, <1>2 DEF SubjectOrder
<1>4. p \in rollout.plan.order
  BY <1>3 DEF PlanFollowed, PlanOf, Order
<1> QED
  BY <1>4 DEF PlanFollowed, Ready, IsReady, Before

\* Which nodes run, and from which of the two graphs.
LEMMA NodesOfTheWorld ==
  ASSUME RolloutInvariant
  PROVE  LET b == rollout.base  d == rollout.desired IN
         /\ \A n \in DOMAIN b.nodes : n \in DOMAIN world.nodes \/ N("stop-node", n) \in done
         /\ \A n : N("start-node", n) \in done => n \in DOMAIN world.nodes
         /\ \A n \in DOMAIN world.nodes :
              \/ /\ n \in DOMAIN d.nodes /\ world.nodes[n] = d.nodes[n]
                 /\ N("start-node", n) \in done \/ N("reconcile-node", n) \in done
              \/ /\ n \in DOMAIN b.nodes /\ world.nodes[n] = b.nodes[n]
                 /\ \A l \in {"start-node", "stop-node", "reconcile-node"} : N(l, n) \notin done
         /\ \A n : N("start-node", n) \in done => n \in DOMAIN d.nodes \ DOMAIN b.nodes
         /\ \A n : N("stop-node", n) \in done => n \in DOMAIN b.nodes \ DOMAIN d.nodes
         /\ \A n : N("reconcile-node", n) \in done => n \in DOMAIN b.nodes \cap DOMAIN d.nodes
<1> DEFINE b == rollout.base
           d == rollout.desired
           gone == Having("stop-node", done)
           came == Having("start-node", done)
           changed == Having("reconcile-node", done)
<1>1. /\ came \subseteq DOMAIN d.nodes \ DOMAIN b.nodes
      /\ gone \subseteq DOMAIN b.nodes \ DOMAIN d.nodes
      /\ changed \subseteq DOMAIN b.nodes \cap DOMAIN d.nodes
  BY SubjectsOfDone DEF RolloutInvariant, Kept
<1>2. /\ DOMAIN world.nodes = (DOMAIN b.nodes \ gone) \cup came
      /\ \A n \in DOMAIN world.nodes :
           world.nodes[n] = IF n \in came \cup changed THEN d.nodes[n] ELSE b.nodes[n]
  BY DEF RolloutInvariant, WorldFollows, NodesAfter, Blend
<1>3. \A n : /\ n \in gone <=> N("stop-node", n) \in done
             /\ n \in came <=> N("start-node", n) \in done
             /\ n \in changed <=> N("reconcile-node", n) \in done
  BY HavingNode DEF RolloutInvariant
<1> HIDE DEF gone, came, changed
<1> QED
  BY <1>1, <1>2, <1>3

\* A node that is not up has been stopped, or its health has not been waited for.
LEMMA DownNodes ==
  ASSUME RolloutInvariant, NEW n, ~ Up(n)
  PROVE  LET b == rollout.base  d == rollout.desired IN
         /\ n \in DOMAIN b.nodes => N("stop-node", n) \in done /\ n \notin DOMAIN d.nodes
         /\ n \in DOMAIN d.nodes =>
              /\ n \notin DOMAIN b.nodes
              /\ N("wait-healthy", n) \in Activities(b, d) \ done
<1> DEFINE b == rollout.base
           d == rollout.desired
<1>1. n \notin DOMAIN world.nodes /\ (n \in DOMAIN d.nodes => Owned(d.nodes[n]))
  BY DEF Up
<1>2. n \in DOMAIN b.nodes => N("stop-node", n) \in done /\ n \notin DOMAIN d.nodes
  BY <1>1, NodesOfTheWorld
<1>3. ASSUME n \in DOMAIN d.nodes
      PROVE  N("wait-healthy", n) \in Activities(b, d) \ done
  <2>1. N("start-node", n) \in Activities(b, d) /\ N("wait-healthy", n) \in Activities(b, d)
    BY <1>1, <1>2, <1>3, ResourcesPlanned
  <2>2. N("start-node", n) \notin done
    BY <1>1, NodesOfTheWorld
  <2> QED
    BY <2>1, <2>2, EarlierOnNode DEF RolloutInvariant
<1> QED
  BY <1>2, <1>3

\* Something is done only of a plan that leaves nothing to review.
LEMMA DoneUnreviewed ==
  ASSUME RolloutInvariant, done # {}
  PROVE  Unreviewed(rollout.base, rollout.desired)
BY ExecutableUnreviewed DEF RolloutInvariant, PlanFollowed

\* An owned node runs in a runtime that runs, or that is not the kit's.
LEMMA NodesHaveRuntimes ==
  ASSUME RolloutInvariant, NEW n \in DOMAIN world.nodes, Owned(world.nodes[n])
  PROVE  \/ world.nodes[n].runtime \in DOMAIN world.runtimes
         \/ /\ world.nodes[n].runtime \in DOMAIN rollout.desired.runtimes
            /\ ~ Owned(rollout.desired.runtimes[world.nodes[n].runtime])
<1> DEFINE b == rollout.base
           d == rollout.desired
           r == world.nodes[n].runtime
           gone == Having("stop-runtime", done)
           came == Having("start-runtime", done)
<1>1. /\ PlanFollowed /\ SoundGraph(b) /\ SoundGraph(d)
  BY DEF RolloutInvariant, PlanFollowed
<1>2. DOMAIN world.runtimes = (DOMAIN b.runtimes \ gone) \cup came
  BY DEF RolloutInvariant, WorldFollows, RuntimesAfter, Blend, PlacedAll
<1>3. /\ gone \subseteq DOMAIN b.runtimes \ DOMAIN d.runtimes
      /\ came \subseteq DOMAIN d.runtimes \ DOMAIN b.runtimes
  BY <1>1, SubjectsOfDone
<1>4. \A x : x \in gone => R("stop-runtime", x) \in done
  <2> SUFFICES ASSUME NEW x \in gone PROVE R("stop-runtime", x) \in done
    OBVIOUS
  <2>1. PICK a \in done : a.label = "stop-runtime" /\ a.id = x
    BY DEF Having
  <2>2. a = R("stop-runtime", x)
    BY <1>1, <2>1, DoneFits DEF PlanFollowed, SubjectFits
  <2> QED
    BY <2>2
<1>5. \A x : R("start-runtime", x) \in done => x \in came
  BY HavingActivity DEF R
<1>6. (\A m \in DOMAIN b.nodes : b.nodes[m].runtime \in DOMAIN b.runtimes)
      /\ (\A m \in DOMAIN d.nodes : d.nodes[m].runtime \in DOMAIN d.runtimes)
  BY <1>1 DEF SoundGraph
<1> HIDE DEF gone, came
<1>7. CASE /\ n \in DOMAIN d.nodes /\ world.nodes[n] = d.nodes[n]
           /\ N("start-node", n) \in done \/ N("reconcile-node", n) \in done
  <2>1. r \in DOMAIN d.runtimes
    BY <1>6, <1>7
  <2>2. ASSUME Owned(d.runtimes[r]), r \notin DOMAIN b.runtimes
        PROVE  r \in came
    <3>1. R("start-runtime", r) \in Activities(b, d)
      BY <2>1, <2>2, ResourcesPlanned
    <3>2. n \in DOMAIN b.nodes => b.nodes[n].runtime # d.nodes[n].runtime
      BY <1>6, <1>7, <2>2
    <3>3. \A l \in {"start-node", "reconcile-node"} :
            <<R("start-runtime", r), N(l, n)>> \in RuntimeOrder(b, d)
      BY <1>7, <3>2 DEF RuntimeOrder
    <3>4. R("start-runtime", r) \in done
      BY <1>1, <1>7, <3>1, <3>3, Earlier
    <3> QED
      BY <1>5, <3>4
  <2> QED
    BY <1>2, <1>3, <2>1, <2>2
<1>8. CASE /\ n \in DOMAIN b.nodes /\ world.nodes[n] = b.nodes[n]
           /\ \A l \in {"start-node", "stop-node", "reconcile-node"} : N(l, n) \notin done
  <2>1. r \in DOMAIN b.runtimes
    BY <1>6, <1>8
  <2>2. ASSUME r \in gone PROVE FALSE
    <3>1. R("stop-runtime", r) \in done /\ r \notin DOMAIN d.runtimes
      BY <1>3, <1>4, <2>2
    <3>2. CASE n \notin DOMAIN d.nodes
      <4> DEFINE l == IF Retained(b.nodes[n]) THEN "stop-node" ELSE "remove-node-resource"
      <4>1. N("stop-node", n) \in Activities(b, d) /\ N(l, n) \in Activities(b, d)
        BY <1>8, <3>2, ResourcesPlanned
      <4>2. <<N(l, n), R("stop-runtime", r)>> \in EvacuationOrder(b, d)
        BY <1>8, <3>2 DEF EvacuationOrder
      <4>3. N(l, n) \in done
        BY <1>1, <3>1, <4>1, <4>2, Earlier
      <4> QED
        BY <1>1, <1>8, <4>1, <4>3, EarlierOnNode
    <3>3. CASE n \in DOMAIN d.nodes
      <4>1. n \in Kept(b.nodes, d.nodes) /\ b.nodes[n].runtime # d.nodes[n].runtime
        BY <1>6, <1>8, <3>1, <3>3 DEF Kept
      <4>2. Unreviewed(b, d)
        BY <3>1, DoneUnreviewed
      <4>3. N("reconcile-node", n) \in Activities(b, d)
        BY <1>1, <4>1, <4>2, KeptNodes
      <4>4. <<N("reconcile-node", n), R("stop-runtime", r)>> \in EvacuationOrder(b, d)
        BY <1>8, <4>1 DEF EvacuationOrder
      <4>5. N("reconcile-node", n) \in done
        BY <1>1, <3>1, <4>3, <4>4, Earlier
      <4> QED
        BY <1>8, <4>5
    <3> QED
      BY <3>2, <3>3
  <2> QED
    BY <1>2, <2>1, <2>2
<1> QED
  BY <1>7, <1>8, NodesOfTheWorld

\* A consumer whose connection comes, goes or changes is reconciled, if it stays.
LEMMA ConsumersChange ==
  ASSUME RolloutInvariant, done # {},
         NEW n \in DOMAIN rollout.base.nodes \cap DOMAIN rollout.desired.nodes,
         rollout.base.nodes[n] # rollout.desired.nodes[n]
  PROVE  N("reconcile-node", n) \in Activities(rollout.base, rollout.desired)
<1>1. Unreviewed(rollout.base, rollout.desired)
  BY DoneUnreviewed
<1> QED
  BY <1>1, KeptNodes DEF RolloutInvariant, PlanFollowed, Kept

\* Two graphs that agree on a consumer agree on what its connections assign.
LEMMA SameAssignments ==
  ASSUME NEW b, NEW d, SoundGraph(b), SoundGraph(d),
         NEW e \in DOMAIN b.edges \cap DOMAIN d.edges, b.edges[e].consumer = d.edges[e].consumer,
         b.nodes[b.edges[e].consumer] = d.nodes[b.edges[e].consumer]
  PROVE  b.edges[e].assignments = d.edges[e].assignments
<1> DEFINE n == b.edges[e].consumer
           f == b.edges[e].assignments
           h == d.edges[e].assignments
           env == b.nodes[n].environment
           env2 == d.nodes[n].environment
<1>1. /\ n \in DOMAIN b.nodes /\ n \in DOMAIN d.nodes
      /\ f = Only(f, DOMAIN f) /\ h = Only(h, DOMAIN h)
      /\ \A v \in DOMAIN f : [name |-> v, value |-> f[v], edge |-> e] \in env
      /\ \A v \in DOMAIN h : [name |-> v, value |-> h[v], edge |-> e] \in env2
  BY DEF SoundGraph
<1>2. /\ \A x \in env : x.edge = e => x.name \in DOMAIN f /\ x.value = f[x.name]
      /\ \A x \in env2 : x.edge = e => x.name \in DOMAIN h /\ x.value = h[x.name]
  BY <1>1 DEF SoundGraph
<1>3. env = env2
  OBVIOUS
<1> SUFFICES f = h
  OBVIOUS
<1> HIDE DEF f, h, env, env2
<1>4. DOMAIN f \subseteq DOMAIN h /\ \A v \in DOMAIN f : f[v] = h[v]
  <2> SUFFICES ASSUME NEW v \in DOMAIN f PROVE v \in DOMAIN h /\ f[v] = h[v]
    OBVIOUS
  <2> DEFINE x == [name |-> v, value |-> f[v], edge |-> e]
  <2>1. x \in env /\ x.edge = e /\ x.name = v /\ x.value = f[v]
    BY <1>1
  <2> HIDE DEF x
  <2> QED
    BY <1>2, <1>3, <2>1
<1>5. DOMAIN h \subseteq DOMAIN f
  <2> SUFFICES ASSUME NEW v \in DOMAIN h PROVE v \in DOMAIN f
    OBVIOUS
  <2> DEFINE x == [name |-> v, value |-> h[v], edge |-> e]
  <2>1. x \in env2 /\ x.edge = e /\ x.name = v
    BY <1>1
  <2> HIDE DEF x
  <2> QED
    BY <1>2, <1>3, <2>1
<1>6. [v \in DOMAIN f |-> f[v]] = [v \in DOMAIN h |-> h[v]]
  BY <1>4, <1>5
<1> QED
  BY <1>1, <1>6 DEF Only

\* The change of a connection.
LEMMA ConnectionChange ==
  ASSUME NEW b, NEW d, NEW e
  PROVE  /\ e \in DOMAIN d.edges \ DOMAIN b.edges => Change("added", "edge", e, "self") \in Diff(b, d)
         /\ e \in DOMAIN b.edges \ DOMAIN d.edges =>
              Change("removed", "edge", e, "self") \in Diff(b, d)
         /\ e \in DOMAIN b.edges \cap DOMAIN d.edges /\ b.edges[e] # d.edges[e] =>
              Change("modified", "edge", e, "self") \in Diff(b, d)
BY DEF Diff, EdgeChanges, Exchanged, Kept

\* Before the provider of an environment stops, its consumer is reconciled.
LEMMA ConsumerBeforeStop ==
  ASSUME PlanFollowed, NEW e \in DOMAIN rollout.base.edges,
         LET b == rollout.base  d == rollout.desired IN
         /\ EnvironmentBound(b.edges[e])
         /\ e \in DOMAIN d.edges => d.edges[e].consumer = b.edges[e].consumer /\ b.edges[e] # d.edges[e]
         /\ b.edges[e].provider \notin DOMAIN d.nodes
         /\ N("stop-node", b.edges[e].provider) \in done
         /\ N("reconcile-node", b.edges[e].consumer) \in Activities(b, d)
  PROVE  N("reconcile-node", rollout.base.edges[e].consumer) \in done
<1> DEFINE b == rollout.base
           d == rollout.desired
           p == b.edges[e].provider
           n == b.edges[e].consumer
           pair == <<N("reconcile-node", n), N("stop-node", p)>>
<1>1. CASE e \notin DOMAIN d.edges
  <2> DEFINE c == Change("removed", "edge", e, "self")
  <2>1. c \in Diff(b, d)
    BY <1>1, ConnectionChange
  <2>2. c.kind = "edge" /\ c.form = "removed" /\ c.id = e
    BY DEF Change
  <2> HIDE DEF c
  <2>3. pair \in DisconnectionOrder(c, b, d)
    BY <2>2 DEF DisconnectionOrder, Implicit
  <2> QED
    BY <2>1, <2>2, <2>3, Earlier
<1>2. CASE e \in DOMAIN d.edges
  <2> DEFINE c == Change("modified", "edge", e, "self")
  <2>1. c \in Diff(b, d)
    BY <1>2, ConnectionChange
  <2>2. c.kind = "edge" /\ c.form = "modified" /\ c.id = e
    BY DEF Change
  <2>3. d.edges[e].provider \in DOMAIN d.nodes /\ d.edges[e].consumer \in DOMAIN d.nodes
    BY <1>2 DEF PlanFollowed, SoundGraph
  <2> HIDE DEF c
  <2>4. pair \in DisconnectionOrder(c, b, d)
    BY <1>2, <2>2, <2>3 DEF DisconnectionOrder, Implicit
  <2> QED
    BY <2>1, <2>2, <2>4, Earlier
<1> QED
  BY <1>1, <1>2

\* Before the consumer of an environment starts, or is reconciled, its new
\* provider is healthy.
LEMMA HealthBeforeConsumer ==
  ASSUME PlanFollowed, NEW e \in DOMAIN rollout.desired.edges,
         LET b == rollout.base  d == rollout.desired IN
         /\ EnvironmentBound(d.edges[e])
         /\ e \in DOMAIN b.edges => b.edges[e] # d.edges[e]
         /\ N("wait-healthy", d.edges[e].provider) \in Activities(b, d)
         /\ \/ e \notin DOMAIN b.edges /\ N("start-node", d.edges[e].consumer) \in done
            \/ N("reconcile-node", d.edges[e].consumer) \in done
  PROVE  N("wait-healthy", rollout.desired.edges[e].provider) \in done
<1> DEFINE b == rollout.base
           d == rollout.desired
           p == d.edges[e].provider
           n == d.edges[e].consumer
           pair(l) == <<N("wait-healthy", p), N(l, n)>>
<1>1. CASE e \notin DOMAIN b.edges
  <2> DEFINE c == Change("added", "edge", e, "self")
  <2>1. c \in Diff(b, d)
    BY <1>1, ConnectionChange
  <2>2. c.kind = "edge" /\ c.form = "added" /\ c.id = e
    BY DEF Change
  <2> HIDE DEF c
  <2>3. pair("reconcile-node") \in ConnectionOrder(c, b, d)
        /\ pair("start-node") \in ConnectionOrder(c, b, d)
    BY <2>2 DEF ConnectionOrder, Implicit
  <2> QED
    BY <1>1, <2>1, <2>2, <2>3, Earlier
<1>2. CASE e \in DOMAIN b.edges
  <2> DEFINE c == Change("modified", "edge", e, "self")
  <2>1. c \in Diff(b, d)
    BY <1>2, ConnectionChange
  <2>2. c.kind = "edge" /\ c.form = "modified" /\ c.id = e
    BY DEF Change
  <2> HIDE DEF c
  <2>3. pair("reconcile-node") \in ConnectionOrder(c, b, d)
    BY <2>2 DEF ConnectionOrder, Implicit
  <2> QED
    BY <1>2, <2>1, <2>2, <2>3, Earlier
<1> QED
  BY <1>1, <1>2

\* A node of the base that stays runs with providers that have not stopped.
LEMMA OldEnvironmentsHold ==
  ASSUME RolloutInvariant,
         NEW n \in DOMAIN world.nodes \cap DOMAIN rollout.desired.nodes,
         n \in DOMAIN rollout.base.nodes, world.nodes[n] = rollout.base.nodes[n],
         NEW x \in rollout.base.nodes[n].environment, Steady(x.edge)
  PROVE  Up(rollout.base.edges[x.edge].provider)
<1> DEFINE b == rollout.base
           d == rollout.desired
           e == x.edge
           p == b.edges[e].provider
<1>1. SUFFICES ASSUME ~ Up(p) PROVE FALSE
  OBVIOUS
<1>2. /\ PlanFollowed /\ SoundGraph(b) /\ SoundGraph(d)
  BY DEF RolloutInvariant, PlanFollowed
<1>3. /\ e \in DOMAIN b.edges /\ b.edges[e].consumer = n /\ EnvironmentBound(b.edges[e])
      /\ p \in DOMAIN b.nodes
  BY <1>2 DEF SoundGraph
<1>4. N("stop-node", p) \in done /\ p \notin DOMAIN d.nodes
  BY <1>1, <1>3, DownNodes
<1>5. e \in DOMAIN d.edges =>
        /\ d.edges[e].consumer = n /\ EnvironmentBound(d.edges[e])
        /\ b.edges[e].assignments # d.edges[e].assignments
  <2>1. e \in DOMAIN d.edges => d.edges[e].provider \in DOMAIN d.nodes
    BY <1>2 DEF SoundGraph
  <2> QED
    BY <1>3, <1>4, <2>1 DEF Steady, Rebound, Kept
<1>6. b.nodes[n] # d.nodes[n]
  <2>1. CASE e \in DOMAIN d.edges
    BY <1>2, <1>3, <1>5, <2>1, SameAssignments
  <2>2. CASE e \notin DOMAIN d.edges
    <3>1. \A y \in d.nodes[n].environment : y.edge \in DOMAIN d.edges
      BY <1>2 DEF SoundGraph
    <3> QED
      BY <2>2, <3>1
  <2> QED
    BY <2>1, <2>2
<1>7. N("reconcile-node", n) \in Activities(b, d)
  BY <1>4, <1>6, ConsumersChange
<1>8. N("reconcile-node", n) \in done
  <2>1. e \in DOMAIN d.edges => b.edges[e] # d.edges[e]
    BY <1>5
  <2> QED
    BY <1>2, <1>3, <1>4, <1>5, <1>7, <2>1, ConsumerBeforeStop
<1> QED
  BY <1>6, <1>8, NodesOfTheWorld

\* A node as it is desired runs with providers that are healthy.
LEMMA NewEnvironmentsHold ==
  ASSUME RolloutInvariant,
         NEW n \in DOMAIN world.nodes \cap DOMAIN rollout.desired.nodes,
         world.nodes[n] = rollout.desired.nodes[n],
         NEW x \in rollout.desired.nodes[n].environment, Steady(x.edge)
  PROVE  Up(rollout.desired.edges[x.edge].provider)
<1> DEFINE b == rollout.base
           d == rollout.desired
           e == x.edge
           p == d.edges[e].provider
<1>1. SUFFICES ASSUME ~ Up(p) PROVE FALSE
  OBVIOUS
<1>2. /\ PlanFollowed /\ SoundGraph(b) /\ SoundGraph(d)
  BY DEF RolloutInvariant, PlanFollowed
<1>3. /\ e \in DOMAIN d.edges /\ d.edges[e].consumer = n /\ EnvironmentBound(d.edges[e])
      /\ p \in DOMAIN d.nodes
  BY <1>2 DEF SoundGraph
<1>4. p \notin DOMAIN b.nodes /\ N("wait-healthy", p) \in Activities(b, d) \ done
  BY <1>1, <1>3, DownNodes
<1>5. e \in DOMAIN b.edges =>
        /\ b.edges[e].consumer = n /\ EnvironmentBound(b.edges[e])
        /\ b.edges[e].assignments # d.edges[e].assignments
        /\ n \in DOMAIN b.nodes
  <2>1. e \in DOMAIN b.edges =>
          b.edges[e].provider \in DOMAIN b.nodes /\ b.edges[e].consumer \in DOMAIN b.nodes
    BY <1>2 DEF SoundGraph
  <2> QED
    BY <1>3, <1>4, <2>1 DEF Steady, Rebound, Kept
<1>6. n \in DOMAIN b.nodes => b.nodes[n] # d.nodes[n]
  <2>1. CASE e \in DOMAIN b.edges
    BY <1>2, <1>3, <1>5, <2>1, SameAssignments
  <2>2. CASE e \notin DOMAIN b.edges /\ n \in DOMAIN b.nodes
    <3>1. \A y \in b.nodes[n].environment : y.edge \in DOMAIN b.edges
      BY <1>2, <2>2 DEF SoundGraph
    <3> QED
      BY <2>2, <3>1
  <2> QED
    BY <2>1, <2>2
<1>7. N("start-node", n) \in done \/ N("reconcile-node", n) \in done
  BY <1>6, NodesOfTheWorld
<1>8. N("start-node", n) \in done => e \notin DOMAIN b.edges
  BY <1>5, NodesOfTheWorld
<1>9. e \in DOMAIN b.edges => b.edges[e] # d.edges[e]
  BY <1>5
<1>10. N("wait-healthy", p) \in done
  BY <1>2, <1>3, <1>4, <1>7, <1>8, <1>9, HealthBeforeConsumer
<1> QED
  BY <1>4, <1>10

\* A connection made at run time joins two nodes that are up.
LEMMA ConnectionsHold ==
  ASSUME RolloutInvariant, NEW e \in DOMAIN world.edges, ~ Rebound(e),
         NEW q \in {world.edges[e].provider, world.edges[e].consumer}
  PROVE  Up(q)
<1> DEFINE b == rollout.base
           d == rollout.desired
           f == AtRunTime(b)
           h == AtRunTime(d)
           gone == Having("remove-connection", done)
           came == Having("add-connection", done)
           changed == Having("switch-connection", done)
           E(l) == Activity(l, "edge", e)
<1>1. SUFFICES ASSUME ~ Up(q) PROVE FALSE
  OBVIOUS
<1>2. /\ PlanFollowed /\ SoundGraph(b) /\ SoundGraph(d)
  BY DEF RolloutInvariant, PlanFollowed
<1>3. /\ came \subseteq DOMAIN h \ DOMAIN b.edges
      /\ gone \subseteq DOMAIN f \ DOMAIN d.edges
      /\ changed \subseteq DOMAIN f \cap DOMAIN h
  BY <1>2, SubjectsOfDone DEF Kept
<1>4. /\ DOMAIN world.edges = (DOMAIN f \ gone) \cup came
      /\ world.edges[e] = IF e \in came \cup changed THEN d.edges[e] ELSE f[e]
  BY DEF RolloutInvariant, WorldFollows, EdgesAfter, Blend
<1>5. /\ e \in DOMAIN f <=> e \in DOMAIN b.edges /\ ~ EnvironmentBound(b.edges[e])
      /\ e \in DOMAIN h <=> e \in DOMAIN d.edges /\ ~ EnvironmentBound(d.edges[e])
      /\ e \in DOMAIN f => f[e] = b.edges[e]
  BY DEF AtRunTime, Only
<1>6. \A l \in {"add-connection", "switch-connection", "remove-connection"} :
        e \in Having(l, done) <=> E(l) \in done
  <2> SUFFICES ASSUME NEW l \in {"add-connection", "switch-connection", "remove-connection"}
               PROVE  e \in Having(l, done) <=> E(l) \in done
    OBVIOUS
  <2>1. ASSUME e \in Having(l, done) PROVE E(l) \in done
    <3>1. PICK a \in done : a.label = l /\ a.id = e
      BY <2>1 DEF Having
    <3>2. a = E(l)
      BY <1>2, <3>1, DoneFits DEF PlanFollowed, SubjectFits
    <3> QED
      BY <3>2
  <2> QED
    BY <2>1, HavingActivity
<1>7. /\ e \in DOMAIN b.edges =>
           b.edges[e].provider \in DOMAIN b.nodes /\ b.edges[e].consumer \in DOMAIN b.nodes
      /\ e \in DOMAIN d.edges =>
           d.edges[e].provider \in DOMAIN d.nodes /\ d.edges[e].consumer \in DOMAIN d.nodes
  BY <1>2 DEF SoundGraph
<1>8. /\ e \in DOMAIN h \ DOMAIN b.edges => E("add-connection") \in Activities(b, d)
      /\ e \in DOMAIN f \ DOMAIN d.edges => E("remove-connection") \in Activities(b, d)
      /\ e \in DOMAIN f \cap DOMAIN h /\ b.edges[e] # d.edges[e] =>
           E("switch-connection") \in Activities(b, d)
  BY ConnectionsPlanned DEF Kept
<1> HIDE DEF f, h, gone, came, changed
<1>9. CASE e \in came \cup changed
  <2>1. /\ q \in {d.edges[e].provider, d.edges[e].consumer}
        /\ e \in DOMAIN d.edges /\ ~ EnvironmentBound(d.edges[e]) /\ q \in DOMAIN d.nodes
    BY <1>3, <1>4, <1>5, <1>7, <1>9
  <2>2. q \notin DOMAIN b.nodes /\ N("wait-healthy", q) \in Activities(b, d) \ done
    BY <1>1, <2>1, DownNodes
  <2>3. CASE e \notin DOMAIN b.edges
    <3> DEFINE c == Change("added", "edge", e, "self")
    <3>1. c \in Diff(b, d)
      BY <2>1, <2>3, ConnectionChange
    <3>2. c.kind = "edge" /\ c.form = "added" /\ c.id = e
      BY DEF Change
    <3> HIDE DEF c
    <3>3. <<N("wait-healthy", q), E("add-connection")>> \in ConnectionOrder(c, b, d)
      BY <2>1, <3>2 DEF ConnectionOrder, Implicit
    <3>4. E("add-connection") \in done
      BY <1>3, <1>5, <1>6, <1>9, <2>3 DEF came, changed
    <3> QED
      BY <1>2, <2>2, <3>1, <3>2, <3>3, <3>4, Earlier
  <2>4. CASE e \in DOMAIN b.edges
    <3> DEFINE c == Change("modified", "edge", e, "self")
    <3>1. c \in Diff(b, d)
      BY <1>7, <2>1, <2>2, <2>4, ConnectionChange
    <3>2. c.kind = "edge" /\ c.form = "modified" /\ c.id = e
      BY DEF Change
    <3> HIDE DEF c
    <3>3. ~ EnvironmentBound(b.edges[e])
      BY <1>3, <1>5, <1>9, <2>4
    <3>4. <<N("wait-healthy", q), E("switch-connection")>> \in ConnectionOrder(c, b, d)
      BY <2>1, <3>2, <3>3 DEF ConnectionOrder, Implicit
    <3>5. E("switch-connection") \in done
      BY <1>3, <1>6, <1>9, <2>4 DEF came, changed
    <3> QED
      BY <1>2, <2>2, <3>1, <3>2, <3>4, <3>5, Earlier
  <2> QED
    BY <2>3, <2>4
<1>10. CASE e \notin came \cup changed
  <2>1. /\ q \in {b.edges[e].provider, b.edges[e].consumer}
        /\ e \in DOMAIN f /\ e \notin gone
        /\ e \in DOMAIN b.edges /\ ~ EnvironmentBound(b.edges[e]) /\ q \in DOMAIN b.nodes
    BY <1>4, <1>5, <1>7, <1>10
  <2>2. N("stop-node", q) \in done /\ q \notin DOMAIN d.nodes
    BY <1>1, <2>1, DownNodes
  <2>3. CASE e \notin DOMAIN d.edges
    <3> DEFINE c == Change("removed", "edge", e, "self")
    <3>1. c \in Diff(b, d)
      BY <2>1, <2>3, ConnectionChange
    <3>2. c.kind = "edge" /\ c.form = "removed" /\ c.id = e
      BY DEF Change
    <3> HIDE DEF c
    <3>3. <<E("remove-connection"), N("stop-node", q)>> \in DisconnectionOrder(c, b, d)
      BY <2>1, <3>2 DEF DisconnectionOrder, Implicit
    <3>4. E("remove-connection") \in Activities(b, d)
      BY <1>8, <2>1, <2>3
    <3>5. E("remove-connection") \in done
      BY <1>2, <2>2, <3>1, <3>2, <3>3, <3>4, Earlier
    <3> QED
      BY <1>6, <2>1, <3>5 DEF gone
  <2>4. CASE e \in DOMAIN d.edges
    <3> DEFINE c == Change("modified", "edge", e, "self")
    <3>1. /\ ~ EnvironmentBound(d.edges[e]) /\ e \in DOMAIN h
          /\ q \notin {d.edges[e].provider, d.edges[e].consumer}
      BY <1>5, <1>7, <2>1, <2>2, <2>4 DEF Rebound, Kept
    <3>2. b.edges[e] # d.edges[e]
      BY <2>1, <3>1
    <3>3. c \in Diff(b, d)
      BY <2>1, <2>4, <3>2, ConnectionChange
    <3>4. c.kind = "edge" /\ c.form = "modified" /\ c.id = e
      BY DEF Change
    <3> HIDE DEF c
    <3>5. <<E("switch-connection"), N("stop-node", q)>> \in DisconnectionOrder(c, b, d)
      BY <2>1, <3>1, <3>4 DEF DisconnectionOrder, Implicit
    <3>6. E("switch-connection") \in Activities(b, d)
      BY <1>8, <2>1, <3>1, <3>2
    <3>7. E("switch-connection") \in done
      BY <1>2, <2>2, <3>3, <3>4, <3>5, <3>6, Earlier
    <3> QED
      BY <1>6, <1>10, <3>7 DEF changed
  <2> QED
    BY <2>3, <2>4
<1> QED
  BY <1>9, <1>10

\* An ingress has its target, unless it is its own connector.
LEMMA IngressesHold ==
  ASSUME RolloutInvariant, NEW i \in DOMAIN world.ingresses,
         world.ingresses[i].target # world.ingresses[i].connector
  PROVE  Up(world.ingresses[i].target)
<1> DEFINE b == rollout.base
           d == rollout.desired
           gone == Having("remove-public-ingress", done)
           came == Having("allocate-public-ingress", done)
           q == world.ingresses[i].target
           I(l) == Activity(l, "ingress", i)
<1>1. SUFFICES ASSUME ~ Up(q) PROVE FALSE
  OBVIOUS
<1>2. /\ PlanFollowed /\ SoundGraph(b) /\ SoundGraph(d)
  BY DEF RolloutInvariant, PlanFollowed
<1>3. /\ came \subseteq DOMAIN d.ingresses \ DOMAIN b.ingresses
      /\ gone \subseteq DOMAIN b.ingresses \ DOMAIN d.ingresses
  BY <1>2, SubjectsOfDone
<1>4. /\ DOMAIN world.ingresses = (DOMAIN b.ingresses \ gone) \cup came
      /\ world.ingresses[i] = IF i \in came THEN d.ingresses[i] ELSE b.ingresses[i]
  BY DEF RolloutInvariant, WorldFollows, IngressesAfter, Blend
<1>5. \A l \in {"allocate-public-ingress", "remove-public-ingress"} :
        i \in Having(l, done) <=> I(l) \in done
  <2> SUFFICES ASSUME NEW l \in {"allocate-public-ingress", "remove-public-ingress"}
               PROVE  i \in Having(l, done) <=> I(l) \in done
    OBVIOUS
  <2>1. ASSUME i \in Having(l, done) PROVE I(l) \in done
    <3>1. PICK a \in done : a.label = l /\ a.id = i
      BY <2>1 DEF Having
    <3>2. a = I(l)
      BY <1>2, <3>1, DoneFits DEF PlanFollowed, SubjectFits
    <3> QED
      BY <3>2
  <2> QED
    BY <2>1, HavingActivity
<1>6. /\ \A j \in DOMAIN b.ingresses : b.ingresses[j].target \in DOMAIN b.nodes
      /\ \A j \in DOMAIN d.ingresses : d.ingresses[j].target \in DOMAIN d.nodes
  BY <1>2 DEF SoundGraph
<1> HIDE DEF gone, came
<1>7. CASE i \in came
  <2> DEFINE c == Change("added", "ingress", i, "self")
  <2>1. /\ i \in DOMAIN d.ingresses \ DOMAIN b.ingresses
        /\ q = d.ingresses[i].target /\ q \in DOMAIN d.nodes
    BY <1>3, <1>4, <1>6, <1>7
  <2>2. N("wait-healthy", q) \in Activities(b, d) \ done
    BY <1>1, <2>1, DownNodes
  <2>3. c \in Diff(b, d)
    BY <2>1 DEF Diff, IngressChanges, Exchanged
  <2>4. c.kind = "ingress" /\ c.form = "added" /\ c.id = i
    BY DEF Change
  <2> HIDE DEF c
  <2>5. <<N("wait-healthy", q), I("allocate-public-ingress")>> \in IngressOrder(c, b, d)
    BY <2>1, <2>4 DEF IngressOrder
  <2>6. I("allocate-public-ingress") \in done
    BY <1>5, <1>7 DEF came
  <2> QED
    BY <1>2, <2>2, <2>3, <2>4, <2>5, <2>6, Earlier
<1>8. CASE i \notin came
  <2> DEFINE c == Change("removed", "ingress", i, "self")
  <2>1. /\ i \in DOMAIN b.ingresses \ gone
        /\ world.ingresses[i] = b.ingresses[i]
        /\ q = b.ingresses[i].target /\ q \in DOMAIN b.nodes
        /\ q # b.ingresses[i].connector
    BY <1>4, <1>6, <1>8
  <2>2. N("stop-node", q) \in done /\ q \notin DOMAIN d.nodes
    BY <1>1, <2>1, DownNodes
  <2>3. i \notin DOMAIN d.ingresses
    <3>1. Unreviewed(b, d)
      BY <2>2, DoneUnreviewed
    <3>2. i \in DOMAIN d.ingresses => b.ingresses[i] = d.ingresses[i]
      BY <2>1, <3>1, IngressesPlanned DEF Kept
    <3> QED
      BY <1>6, <2>1, <2>2, <3>2
  <2>4. I("remove-public-ingress") \in Activities(b, d)
    BY <2>1, <2>3, IngressesPlanned
  <2>5. c \in Diff(b, d)
    BY <2>1, <2>3 DEF Diff, IngressChanges, Exchanged
  <2>6. c.kind = "ingress" /\ c.form = "removed" /\ c.id = i
    BY DEF Change
  <2> HIDE DEF c
  <2>7. <<I("remove-public-ingress"), N("stop-node", q)>> \in IngressOrder(c, b, d)
    BY <2>1, <2>6 DEF IngressOrder
  <2>8. I("remove-public-ingress") \in done
    BY <1>2, <2>2, <2>4, <2>5, <2>6, <2>7, Earlier
  <2> QED
    BY <1>5, <2>1, <2>8 DEF gone
<1> QED
  BY <1>7, <1>8

\* What is retained runs or is kept stopped.
LEMMA RetainedHold ==
  ASSUME RolloutInvariant, NEW n \in DOMAIN rollout.base.nodes, Retained(rollout.base.nodes[n])
  PROVE  n \in DOMAIN world.nodes \/ <<"node", n>> \in world.stopped
<1>1. SUFFICES ASSUME N("stop-node", n) \in done PROVE <<"node", n>> \in world.stopped
  BY NodesOfTheWorld
<1>2. N("remove-node-resource", n) \notin done
  <2>1. SUFFICES ASSUME N("remove-node-resource", n) \in done PROVE FALSE
    OBVIOUS
  <2>2. SubjectFits(N("remove-node-resource", n), rollout.base, rollout.desired)
    BY <2>1, DoneFits DEF RolloutInvariant, PlanFollowed
  <2> QED
    BY <2>2 DEF SubjectFits, N, Activity
<1> QED
  BY <1>1, <1>2 DEF RolloutInvariant, StoppedKept

LEMMA InvariantIsSafe == RolloutInvariant => RolloutIsSafe
<1> SUFFICES ASSUME RolloutInvariant PROVE RolloutIsSafe
  OBVIOUS
<1> QED
  BY NodesHaveRuntimes, OldEnvironmentsHold, NewEnvironmentsHold, ConnectionsHold,
     IngressesHold, RetainedHold DEF RolloutIsSafe

\* At every moment of a rollout and of its undoing nothing runs without what it
\* needs, and nothing retained is lost.  The providers in an environment are needed
\* by steady connections, the ends of one made at run time by those not rebound.
THEOREM RolloutStaysSafe == RolloutSpec => []RolloutIsSafe
<1>1. RolloutInit => RolloutInvariant
  BY FirstRolloutOf
<1>2. RolloutInvariant /\ [RolloutNext]_rvars => RolloutInvariant'
  BY StepKeepsRollout
<1>3. RolloutInvariant => RolloutIsSafe
  BY InvariantIsSafe
<1> QED
  BY <1>1, <1>2, <1>3, PTL DEF RolloutSpec

-----------------------------------------------------------------------------
(* Every request can be made.                                              *)

\* A connector that is or may be started finds its ingresses allocated: a new
\* one comes first, and one that stays has the connector it had.
LEMMA ConnectorServed ==
  ASSUME RolloutInvariant, rollout.outcome = "executable",
         NEW n \in DOMAIN rollout.desired.nodes \ DOMAIN rollout.base.nodes,
         N("start-node", n) \in done \cup Ready, NEW i \in Served(rollout.desired, n)
  PROVE  i \in DOMAIN world.ingresses
<1> DEFINE b == rollout.base
           d == rollout.desired
           a == Activity("allocate-public-ingress", "ingress", i)
           c == Change("added", "ingress", i, "self")
<1>1. /\ PlanFollowed /\ SoundGraph(b) /\ Unreviewed(b, d)
      /\ i \in DOMAIN d.ingresses /\ d.ingresses[i].connector = n
  BY ExecutableUnreviewed DEF RolloutInvariant, PlanFollowed, Served
<1>2. i \notin DOMAIN b.ingresses
  <2>1. SUFFICES ASSUME i \in DOMAIN b.ingresses PROVE FALSE
    OBVIOUS
  <2>2. b.ingresses[i] = d.ingresses[i]
    BY <1>1, <2>1, IngressesPlanned DEF Kept
  <2> QED
    BY <1>1, <2>1, <2>2 DEF SoundGraph
<1>3. a \in Activities(b, d)
  BY <1>1, <1>2, IngressesPlanned
<1>4. c \in Diff(b, d)
  BY <1>1, <1>2 DEF Diff, IngressChanges, Exchanged
<1>5. c.kind = "ingress" /\ c.form = "added" /\ c.id = i
  BY DEF Change
<1> HIDE DEF c
<1>6. <<a, N("start-node", n)>> \in IngressOrder(c, b, d)
  BY <1>1, <1>5 DEF IngressOrder
<1>7. a \in done
  BY <1>1, <1>3, <1>4, <1>5, <1>6, Earlier
<1> QED
  BY <1>7, HavingActivity DEF RolloutInvariant, WorldFollows, IngressesAfter, Blend

\* A connector that may be stopped still has its ingresses: it goes first.
LEMMA ConnectorStillServed ==
  ASSUME RolloutInvariant, NEW n, N("stop-node", n) \in Ready, NEW i \in Served(rollout.base, n)
  PROVE  i \in DOMAIN world.ingresses
<1> DEFINE b == rollout.base
           d == rollout.desired
           a == Activity("remove-public-ingress", "ingress", i)
           c == Change("removed", "ingress", i, "self")
<1>1. /\ PlanFollowed /\ N("stop-node", n) \in Activities(b, d) \ done
      /\ i \in DOMAIN b.ingresses /\ b.ingresses[i].connector = n
  BY DEF RolloutInvariant, PlanFollowed, PlanOf, Served, Ready, IsReady
<1>2. i \in DOMAIN world.ingresses <=>
        i \notin Having("remove-public-ingress", done) \/ i \in Having("allocate-public-ingress", done)
  BY <1>1 DEF RolloutInvariant, WorldFollows, IngressesAfter, Blend
<1>3. SUFFICES ASSUME i \in Having("remove-public-ingress", done) PROVE FALSE
  BY <1>2
<1>4. a \in done /\ i \notin DOMAIN d.ingresses
  <2>1. PICK x \in done : x.label = "remove-public-ingress" /\ x.id = i
    BY <1>3 DEF Having
  <2> QED
    BY <1>1, <2>1, DoneFits DEF PlanFollowed, SubjectFits
<1>5. c \in Diff(b, d)
  BY <1>1, <1>4 DEF Diff, IngressChanges, Exchanged
<1>6. c.kind = "ingress" /\ c.form = "removed" /\ c.id = i
  BY DEF Change
<1> HIDE DEF c
<1>7. <<N("stop-node", n), a>> \in IngressOrder(c, b, d)
  BY <1>1, <1>6 DEF IngressOrder
<1> QED
  BY <1>1, <1>4, <1>5, <1>6, <1>7, Earlier

\* A connector's one ingress, with its resource, gives it its token.
LEMMA TokenFound ==
  ASSUME NEW ctx, NEW g, NEW n, Served(g, n) \subseteq ctx.resources,
         ~ \E i, j \in Served(g, n) : i # j
  PROVE  TokenAvailable(ctx, g, n)
<1>1. CASE Served(g, n) = {}
  BY <1>1 DEF TokenAvailable
<1>2. CASE Served(g, n) # {}
  <2>1. PICK i : i \in Served(g, n)
    BY <1>2
  <2>2. Served(g, n) = {i}
    BY <2>1
  <2>3. Cardinality(Served(g, n)) = 1
    BY <2>2, FS_Singleton
  <2> QED
    BY <2>3 DEF TokenAvailable
<1> QED
  BY <1>1, <1>2

\* What is started, awaited, reconciled, stopped or removed is in the graph
\* that describes it.
LEMMA TargetsAreFound ==
  ASSUME PlanFollowed, rollout.outcome = "executable",
         NEW a \in rollout.plan.activities, EffectFamily(a) = "runtime"
  PROVE  TargetFound(a, MaterialGraph(a, rollout.base, rollout.desired))
<1> DEFINE b == rollout.base
           d == rollout.desired
<1>1. /\ SoundGraph(b) /\ SoundGraph(d)
      /\ a.label \in Labels \ {"review-change"} /\ SubjectFits(a, b, d)
  BY DoneFits, ExecutableUnreviewed DEF PlanFollowed, PlanOf, Unreviewed
<1>2. CASE a.label \in {"start-node", "wait-healthy", "reconcile-node"}
  <2>1. a.kind = "node" /\ a.id \in DOMAIN d.nodes
    BY <1>1, <1>2 DEF SubjectFits, N, Activity, Kept
  <2> QED
    BY <1>1, <1>2, <2>1 DEF TargetFound, MaterialGraph, SoundGraph
<1>3. CASE a.label \in {"stop-node", "remove-node-resource"}
  <2>1. a.kind = "node" /\ a.id \in DOMAIN b.nodes
    BY <1>1, <1>3 DEF SubjectFits, N, Activity
  <2> QED
    BY <1>1, <1>3, <2>1 DEF TargetFound, MaterialGraph, SoundGraph
<1>4. CASE a.label \in {"start-runtime", "reconcile-runtime"}
  <2>1. a.kind = "runtime" /\ a.id \in DOMAIN d.runtimes
    BY <1>1, <1>4 DEF SubjectFits, R, Activity, Kept
  <2> QED
    BY <1>4, <2>1 DEF TargetFound, MaterialGraph
<1>5. CASE a.label \in {"stop-runtime", "remove-runtime-resource"}
  <2>1. a.kind = "runtime" /\ a.id \in DOMAIN b.runtimes
    BY <1>1, <1>5 DEF SubjectFits, R, Activity
  <2> QED
    BY <1>5, <2>1 DEF TargetFound, MaterialGraph
<1>6. CASE a.label \in {"add-connection", "remove-connection", "switch-connection"}
  <2>1. a.kind = "edge"
    BY <1>1, <1>6 DEF SubjectFits, Activity
  <2> QED
    BY <2>1 DEF EffectFamily
<1>7. CASE a.label \in {"allocate-public-ingress", "remove-public-ingress"}
  <2>1. a.kind = "ingress"
    BY <1>1, <1>7 DEF SubjectFits, Activity
  <2> QED
    BY <2>1 DEF EffectFamily
<1> QED
  BY <1>1, <1>2, <1>3, <1>4, <1>5, <1>6, <1>7 DEF Labels

\* The product of every node of both graphs is registered.
LEMMA ProductsRegistered ==
  ASSUME NEW g \in {rollout.base, rollout.desired}, NEW n \in DOMAIN g.nodes
  PROVE  ProductRegistered(Context, g.nodes[n])
BY DEF ProductRegistered, Context

\* A gateway lacks a target only if one of its connections is unmapped.
LEMMA OnlyUnmappedMissing ==
  ASSUME NEW g \in {rollout.base, rollout.desired}, SoundGraph(g), NEW n,
         ~ TargetsFound(Context, g, n)
  PROVE  Unmapped(g, n)
<1>1. PICK e \in DOMAIN g.edges :
        LET p == g.nodes[g.edges[e].provider] IN
        /\ p.runtime = g.nodes[n].runtime
        /\ ~ /\ ProductRegistered(Context, p)
             /\ g.edges[e].socket \in DOMAIN Contract(p).ports
             /\ g.edges[e].protocol \in {"http", "postgres"}
  BY DEF TargetsFound
<1>2. g.edges[e].provider \in DOMAIN g.nodes
  BY DEF SoundGraph
<1> QED
  BY <1>1, <1>2, ProductsRegistered DEF Unmapped

\* A connector lacks its token only if it serves two ingresses, or stays, or
\* its resource is removed.
LEMMA TokenSeldomMissing ==
  ASSUME RolloutInvariant, rollout.outcome = "executable", NEW a \in Ready, a.kind = "node",
         LET g == MaterialGraph(a, rollout.base, rollout.desired) IN
         /\ a.id \in DOMAIN g.nodes
         /\ ~ TokenAvailable(Context, g, a.id)
         /\ ~ \E i, j \in Served(g, a.id) : i # j
  PROVE  \/ a.label = "remove-node-resource"
         \/ a.id \in Kept(rollout.base.nodes, rollout.desired.nodes)
<1> DEFINE b == rollout.base
           d == rollout.desired
           g == MaterialGraph(a, b, d)
<1>1. SUFFICES ASSUME a.label # "remove-node-resource", a.id \notin Kept(b.nodes, d.nodes)
               PROVE  Served(g, a.id) \subseteq DOMAIN world.ingresses
  BY TokenFound DEF Context
<1>2. /\ PlanFollowed /\ a.label \in Labels \ {"review-change"} /\ SubjectFits(a, b, d)
      /\ a \in Activities(b, d)
  BY DoneFits, ExecutableUnreviewed
     DEF RolloutInvariant, PlanFollowed, PlanOf, Unreviewed, Ready
<1>3. CASE a.label = "stop-node"
  <2>1. a = N("stop-node", a.id) /\ g = b
    BY <1>2, <1>3 DEF SubjectFits, MaterialGraph
  <2> QED
    BY <2>1, ConnectorStillServed
<1>4. CASE a.label \in {"start-node", "wait-healthy"}
  <2>1. g = d /\ a.id \in DOMAIN d.nodes \ DOMAIN b.nodes
    BY <1>1, <1>4 DEF MaterialGraph, Kept
  <2>2. N("start-node", a.id) \in done \cup Ready
    <3>1. CASE a.label = "start-node"
      BY <1>2, <3>1 DEF SubjectFits
    <3>2. CASE a.label = "wait-healthy"
      <4>1. a = N("wait-healthy", a.id) /\ Owned(d.nodes[a.id])
        BY <1>2, <2>1, <3>2 DEF SubjectFits
      <4>2. N("start-node", a.id) \in Activities(b, d)
        BY <2>1, <4>1, ResourcesPlanned
      <4> QED
        BY <1>2, <4>1, <4>2, EarlierOnNode
    <3> QED
      BY <1>4, <3>1, <3>2
  <2> QED
    BY <2>1, <2>2, ConnectorServed
<1>5. CASE a.label = "reconcile-node"
  BY <1>1, <1>2, <1>5 DEF SubjectFits
<1>6. a.label \in {"stop-node", "start-node", "wait-healthy", "reconcile-node"}
  BY <1>1, <1>2 DEF SubjectFits, Labels, R, Activity
<1> QED
  BY <1>3, <1>4, <1>5, <1>6

LEMMA InvariantMaterializes == RolloutInvariant => RequestsMaterialize
<1> DEFINE b == rollout.base
           d == rollout.desired
<1>1. SUFFICES ASSUME RolloutInvariant, rollout.outcome = "executable",
                      NEW a \in Ready, EffectFamily(a) = "runtime"
               PROVE  LET g == MaterialGraph(a, b, d)
                          problem == RequestProblem(Context, a, b, d)
                      IN \/ problem = "none"
                         \/ problem = "gateway-target-missing" /\ Unmapped(g, a.id)
                         \/ /\ problem = "token-missing"
                            /\ \/ \E i, j \in Served(g, a.id) : i # j
                               \/ a.label = "remove-node-resource"
                               \/ a.id \in Kept(b.nodes, d.nodes)
  BY DEF RequestsMaterialize
<1> DEFINE g == MaterialGraph(a, b, d)
           problem == RequestProblem(Context, a, b, d)
<1>2. /\ PlanFollowed /\ a \in rollout.plan.activities
      /\ g \in {b, d} /\ SoundGraph(g) /\ TargetFound(a, g)
  BY <1>1, TargetsAreFound DEF RolloutInvariant, PlanFollowed, Ready, MaterialGraph
<1>3. a.kind = "node" => a.id \in DOMAIN g.nodes /\ ProductRegistered(Context, g.nodes[a.id])
  BY <1>2, ProductsRegistered DEF TargetFound
<1>4. \/ problem = "none"
      \/ problem = "gateway-target-missing" /\ ~ TargetsFound(Context, g, a.id)
      \/ problem = "token-missing" /\ a.kind = "node" /\ ~ TokenAvailable(Context, g, a.id)
  BY <1>2, <1>3 DEF RequestProblem
<1> HIDE DEF g, problem
<1>5. ~ TargetsFound(Context, g, a.id) => Unmapped(g, a.id)
  BY <1>2, OnlyUnmappedMissing
<1>6. a.kind = "node" /\ ~ TokenAvailable(Context, g, a.id) =>
        \/ \E i, j \in Served(g, a.id) : i # j
        \/ a.label = "remove-node-resource"
        \/ a.id \in Kept(b.nodes, d.nodes)
  BY <1>1, <1>3, TokenSeldomMissing DEF g
<1> QED
  BY <1>4, <1>5, <1>6 DEF g, problem

\* Whenever an activity may run its request can be made: what it is about is in
\* the graph that describes it, its products are registered, and a connector
\* is started after its ingress and stopped before it.  Excepted are a gateway
\* beside an unmapped connection, a connector of two ingresses, and one that stays
\* or of which only the resource is removed.
THEOREM RequestsCanBeMade == RolloutSpec => []RequestsMaterialize
<1>1. RolloutInit => RolloutInvariant
  BY FirstRolloutOf
<1>2. RolloutInvariant /\ [RolloutNext]_rvars => RolloutInvariant'
  BY StepKeepsRollout
<1>3. RolloutInvariant => RequestsMaterialize
  BY InvariantMaterializes
<1> QED
  BY <1>1, <1>2, <1>3, PTL DEF RolloutSpec

=============================================================================
