-------------------------- MODULE DeploymentSafety --------------------------
(***************************************************************************)
(* Theorems about Deployment for any number of sessions, processes,        *)
(* principals, topologies and projections, and for every bound: its type   *)
(* invariant, one history of the current graph, reviewed advancements, no  *)
(* move of an outdated plan.                                               *)
(*                                                                         *)
(* The steps are first sorted by what they do to the tables (StepShapes);  *)
(* everything after that is about the seven shapes, not about who sent the *)
(* command.                                                                *)
(***************************************************************************)
EXTENDS Deployment, TLAPS

----------------------------------------------------------------------------
(* Tables. *)

\* Appending a row leaves the earlier rows alone.
LEMMA AppendRow ==
    ASSUME NEW S, NEW table \in Seq(S), NEW row \in S
    PROVE  /\ Append(table, row) \in Seq(S)
           /\ Len(Append(table, row)) = Len(table) + 1
           /\ DOMAIN Append(table, row) = DOMAIN table \cup {Len(table) + 1}
           /\ \A i \in DOMAIN table : Append(table, row)[i] = table[i]
           /\ Append(table, row)[Len(table) + 1] = row
           /\ Len(table) \in Nat
           /\ DOMAIN table = 1..Len(table)
<1>1. Len(table) \in Nat /\ DOMAIN table = 1..Len(table)
  OBVIOUS
<1>2. QED
  BY <1>1

\* Replacing a row leaves the domain and the other rows alone.
LEMMA ReplaceRow ==
    ASSUME NEW S, NEW table \in Seq(S), NEW i \in DOMAIN table, NEW row \in S
    PROVE  /\ [table EXCEPT ![i] = row] \in Seq(S)
           /\ DOMAIN [table EXCEPT ![i] = row] = DOMAIN table
           /\ \A j \in DOMAIN table \ {i} : [table EXCEPT ![i] = row][j] = table[j]
           /\ [table EXCEPT ![i] = row][i] = row
OBVIOUS

----------------------------------------------------------------------------
(* What a step does to the tables. *)

\* SetDesiredGraph, whoever sends it.
NewGraph ==
    /\ \E row \in GraphRows : graphs' = Append(graphs, row)
    /\ Desire(Identity(Len(graphs) + 1))
    /\ UNCHANGED <<plans, approvals, requests, advanced>>

\* PublishDesiredRealizedProjection.
NewProjection ==
    /\ workspace.desired # NoLineage
    /\ \E q \in Projections \cup {"identity"} :
         Desire([workspace.desired EXCEPT !.projection = q])
    /\ UNCHANGED <<graphs, plans, approvals, requests, advanced>>

\* RequestActivityPlan, whoever sends it.
NewPlan ==
    /\ \E row \in PlanRows :
         /\ workspace = [current |-> row.base, desired |-> row.desired,
                         revision |-> row.revision]
         /\ plans' = Append(plans, row)
    /\ UNCHANGED <<workspace, graphs, approvals, requests, advanced, outdated>>

\* RequestApproval, whoever sends it.
NewApproval ==
    /\ \E row \in ApprovalRows :
         /\ row.plan \in DOMAIN plans
         /\ row.decision = "none"
         /\ approvals' = Append(approvals, row)
    /\ UNCHANGED <<workspace, graphs, plans, requests, advanced, outdated>>

\* A row of requests is changed by its run.
RunMoved ==
    /\ \E i \in DOMAIN requests, status \in {"queued", "claimed", "abandoned"},
          run \in {"none", "active", "succeeded", "failed"} :
         /\ requests[i].run # "succeeded"
         /\ requests' = [requests EXCEPT ![i] = [@ EXCEPT !.status = status,
                                                         !.run = run]]
    /\ UNCHANGED <<workspace, graphs, plans, approvals, advanced, outdated>>

Decided == \E a \in DOMAIN approvals, actor \in Actors, d \in {"approved", "rejected"} :
              DecideApproval(a, actor, d)

Admitted == \E p \in DOMAIN plans, a \in DOMAIN approvals : AdmitPlan(p, a)

CurrentAdvanced == \E i \in DOMAIN requests : AdvanceCurrentGraph(i)

Quiet == UNCHANGED <<workspace, graphs, plans, approvals, requests, advanced, outdated>>

Shape ==
    \/ NewGraph \/ NewProjection \/ NewPlan \/ NewApproval \/ RunMoved
    \/ Decided \/ Admitted \/ CurrentAdvanced \/ Quiet

\* A call that has begun has a session and a command, and knows the graph it
\* plans for.
CallOK(c) ==
    /\ c.at # "idle" => c.session \in Sessions /\ command[c.session] \in Commands
    /\ c.at = "plan" => c.graph # 0

CallsInv == \A p \in Processes : CallOK(process[p])

\* What does not depend on the tables.
ControlType ==
    /\ session \in [Sessions -> {"none", "open", "terminal"}]
    /\ command \in [Sessions -> Commands \cup {NoCommand}]
    /\ process \in [Processes -> Calls]

\* The part of the type invariant that is about the tables.
TableType ==
    /\ workspace \in [current : Lineages, desired : Lineages \cup {NoLineage},
                      revision : 0..MaxRevision]
    /\ graphs \in Seq(GraphRows)
    /\ plans \in Seq(PlanRows)
    /\ approvals \in Seq(ApprovalRows)
    /\ requests \in Seq(RequestRows)
    /\ advanced \in Seq(Advancements)
    /\ outdated \subseteq DOMAIN plans
    /\ ReferencesExist

DInv == TableType /\ ControlType /\ CallsInv

\* Every step of the specification has one of the shapes.
LEMMA StepShapes ==
    ASSUME DInv, [DNext]_dvars
    PROVE  Shape
<1> USE DeploymentAssumption
<1>1. ASSUME NEW s \in Sessions, NEW by \in Origins, NEW t \in Topologies,
             NEW e, NEW r, SetDesiredGraph(s, by, t, e, r)
      PROVE  NewGraph
  <2> DEFINE row == [session |-> s, by |-> by, topology |-> t, revision |-> r + 1]
  <2>1. r \in Nat
    BY <1>1 DEF SetDesiredGraph, DInv, TableType
  <2>2. row \in GraphRows
    BY <2>1 DEF GraphRows
  <2>3. graphs' = Append(graphs, row)
    BY <1>1 DEF SetDesiredGraph
  <2>4. QED
    BY <1>1, <2>2, <2>3 DEF SetDesiredGraph, NewGraph
<1>2. ASSUME NEW s \in Sessions, NEW by \in Origins, NEW b \in Lineages,
             NEW d \in Lineages, NEW r, RequestPlan(s, by, b, d, r)
      PROVE  NewPlan
  <2> DEFINE row == [session |-> s, by |-> by, base |-> b, desired |-> d, revision |-> r]
  <2>1. workspace = [current |-> b, desired |-> d, revision |-> r]
    BY <1>2 DEF RequestPlan
  <2>2. r \in Nat
    BY <2>1 DEF DInv, TableType
  <2>3. row \in PlanRows
    BY <2>2 DEF PlanRows
  <2>4. plans' = Append(plans, row)
    BY <1>2 DEF RequestPlan
  <2>5. QED
    BY <1>2, <2>1, <2>3, <2>4 DEF RequestPlan, NewPlan
<1>3. ASSUME NEW s \in Sessions, NEW by \in Origins, NEW p, NEW actor \in Actors,
             RequestApproval(s, by, p, actor)
      PROVE  NewApproval
  <2> DEFINE row == [session |-> s, by |-> by, plan |-> p, requester |-> actor,
                     destructive |-> IsDestructive(p), decision |-> "none",
                     decider |-> "none"]
  <2>1. p \in DOMAIN plans /\ p \in Nat
    BY <1>3 DEF RequestApproval, DInv, TableType
  <2>2. IsDestructive(p) \in BOOLEAN
    BY DEF IsDestructive
  <2>3. row \in ApprovalRows
    BY <2>1, <2>2 DEF ApprovalRows
  <2>4. approvals' = Append(approvals, row)
    BY <1>3 DEF RequestApproval
  <2>5. QED
    BY <1>3, <2>1, <2>3, <2>4 DEF RequestApproval, NewApproval
<1>4. ASSUME NEW i \in DOMAIN requests, NEW status \in {"queued", "claimed", "abandoned"},
             NEW run \in {"none", "active", "succeeded", "failed"},
             NEW s0, NEW r0, r0 # "succeeded",
             RunStep(i, Row(s0, r0), Row(status, run))
      PROVE  RunMoved
  BY <1>4 DEF RunStep, Row, RunMoved
<1>5. CASE OperatorStep
  <2>1. PICK s \in Sessions :
         \/ command[s] = NoCommand /\ StartSession(s)
         \/ \E t \in Topologies :
              SetDesiredGraph(s, "operator", t, workspace.desired, workspace.revision)
         \/ /\ workspace.desired # NoLineage
            /\ RequestPlan(s, "operator", workspace.current, workspace.desired,
                           workspace.revision)
         \/ \E p \in DOMAIN plans, actor \in Actors :
              RequestApproval(s, "operator", p, actor)
    BY <1>5 DEF OperatorStep
  <2>2. "operator" \in Origins
    BY DEF Origins
  <2>3. workspace.current \in Lineages /\ workspace.desired \in Lineages \cup {NoLineage}
    BY DEF DInv, TableType
  <2>4. CASE StartSession(s)
    BY <2>4 DEF StartSession, Shape, Quiet
  <2>5. QED
    BY <1>1, <1>2, <1>3, <2>1, <2>2, <2>3, <2>4 DEF Shape
<1>6. CASE \E s \in Sessions, q \in Projections \cup {"identity"} : PublishProjection(s, q)
  BY <1>6 DEF PublishProjection, NewProjection, Shape
<1>7. CASE \E s \in Sessions : EndSession(s)
  BY <1>7 DEF EndSession, Shape, Quiet
<1>8. CASE ReviewStep
  BY <1>8 DEF ReviewStep, Decided, Admitted, Shape
<1>9. CASE ExecutionStep
  <2>1. PICK i \in DOMAIN requests :
         \/ ClaimRequest(i) \/ SucceedRun(i) \/ FailRun(i) \/ RetryRun(i)
         \/ AbandonClaim(i) \/ AdvanceCurrentGraph(i)
    BY <1>9 DEF ExecutionStep
  <2>2. CASE AdvanceCurrentGraph(i)
    BY <2>2 DEF CurrentAdvanced, Shape
  <2>3. ClaimRequest(i) => RunMoved
    BY <1>4 DEF ClaimRequest
  <2>4. SucceedRun(i) => RunMoved
    BY <1>4 DEF SucceedRun
  <2>5. FailRun(i) => RunMoved
    BY <1>4 DEF FailRun
  <2>6. RetryRun(i) => RunMoved
    BY <1>4 DEF RetryRun
  <2>7. AbandonClaim(i) => RunMoved
    BY <1>4 DEF AbandonClaim
  <2>8. QED
    BY <2>1, <2>2, <2>3, <2>4, <2>5, <2>6, <2>7 DEF Shape
<1>10. ASSUME NEW p \in Processes, PrepareStep(p)
       PROVE  Shape
  <2> DEFINE c == process[p]
  <2>1. "prepare" \in Origins
    BY DEF Origins
  <2>2. Unchanged => Shape
    BY DEF Unchanged, Shape, Quiet
  <2>3. c.at # "idle" => /\ c.session \in Sessions
                         /\ command[c.session].actor \in Actors
                         /\ command[c.session].topology \in Topologies
                         /\ command[c.session].current \in Lineages
    BY DEF DInv, CallsInv, CallOK, Commands
  <2>4. CASE PrepareSession(p)
    BY <2>2, <2>4 DEF PrepareSession, StartSession, Shape, Quiet
  <2>5. CASE PrepareDesired(p)
    <3>1. c.at = "desired"
      BY <2>5 DEF PrepareDesired
    <3>2. \/ Unchanged
          \/ SetDesiredGraph(c.session, "prepare", command[c.session].topology,
                             command[c.session].desired, command[c.session].revision)
      BY <2>5 DEF PrepareDesired
    <3>3. QED
      BY <1>1, <2>1, <2>2, <2>3, <3>1, <3>2 DEF Shape
  <2>6. CASE PreparePlan(p)
    <3>1. c.at = "plan"
      BY <2>6 DEF PreparePlan
    <3>2. \/ Unchanged
          \/ RequestPlan(c.session, "prepare", command[c.session].current,
                         Identity(c.graph), graphs[c.graph].revision)
      BY <2>6 DEF PreparePlan
    <3>3. c.graph \in Nat \ {0}
      BY <3>1 DEF DInv, ControlType, CallsInv, CallOK, Calls
    <3>4. Identity(c.graph) \in Lineages
      BY <3>3 DEF Identity, Lineages
    <3>5. QED
      BY <1>2, <2>1, <2>2, <2>3, <3>1, <3>2, <3>4 DEF Shape
  <2>7. CASE PrepareApproval(p)
    <3>1. c.at = "approval"
      BY <2>7 DEF PrepareApproval
    <3>2. \/ Unchanged
          \/ RequestApproval(c.session, "prepare", c.plan, command[c.session].actor)
      BY <2>7 DEF PrepareApproval
    <3>3. QED
      BY <1>3, <2>1, <2>2, <2>3, <3>1, <3>2 DEF Shape
  <2>8. CASE AbortPrepare(p)
    BY <2>2, <2>8 DEF AbortPrepare
  <2>9. QED
    BY <1>10, <2>4, <2>5, <2>6, <2>7, <2>8 DEF PrepareStep
<1>11. ASSUME NEW p \in Processes, NEW s \in Sessions, CallAgain(p, s)
       PROVE  Shape
  BY <1>11 DEF CallAgain, Shape, Quiet
<1>12. ASSUME NEW p \in Processes, NEW s \in Sessions, NEW actor \in Actors,
              NEW t \in Topologies, CallPrepare(p, s, actor, t)
       PROVE  Shape
  BY <1>12 DEF CallPrepare, Shape, Quiet
<1>13. CASE UNCHANGED dvars
  BY <1>13 DEF dvars, Shape, Quiet
<1>14. QED
  BY <1>5, <1>6, <1>7, <1>8, <1>9, <1>10, <1>11, <1>12, <1>13 DEF DNext

----------------------------------------------------------------------------
(* Types. *)

\* A lineage only names graph rows that exist after the step.
LEMMA DesireType ==
    ASSUME TableType, NEW lineage \in Lineages, Desire(lineage)
    PROVE  /\ workspace' \in [current : Lineages, desired : Lineages \cup {NoLineage},
                              revision : 0..MaxRevision]
           /\ workspace'.current = workspace.current
           /\ workspace'.desired = lineage
           /\ workspace'.revision = workspace.revision + 1
           /\ outdated' = DOMAIN plans
<1>1. workspace' = [current |-> workspace.current, desired |-> lineage,
                    revision |-> workspace.revision + 1]
  BY DEF Desire, TableType
<1>2. workspace.revision + 1 \in 0..MaxRevision
  BY DeploymentAssumption DEF Desire, TableType
<1>3. QED
  BY <1>1, <1>2 DEF Desire, TableType

\* The tables keep their types and their foreign keys.
LEMMA TablesStep ==
    ASSUME TableType, Shape
    PROVE  TableType'
<1> USE DEF TableType
<1>1. CASE NewGraph
  <2>1. PICK row \in GraphRows : graphs' = Append(graphs, row)
    BY <1>1 DEF NewGraph
  <2>2. /\ graphs' \in Seq(GraphRows)
        /\ Len(graphs) \in Nat
        /\ DOMAIN graphs' = DOMAIN graphs \cup {Len(graphs) + 1}
    BY <2>1, AppendRow
  <2>3. Identity(Len(graphs) + 1) \in Lineages
    BY <2>2 DEF Identity, Lineages
  <2>4. /\ workspace' \in [current : Lineages, desired : Lineages \cup {NoLineage},
                           revision : 0..MaxRevision]
        /\ workspace'.current = workspace.current
        /\ workspace'.desired = Identity(Len(graphs) + 1)
        /\ outdated' = DOMAIN plans
    BY <1>1, <2>3, DesireType DEF NewGraph
  <2>5. workspace'.desired.graph \in DOMAIN graphs'
    BY <2>2, <2>4 DEF Identity
  <2>6. ReferencesExist'
    BY <1>1, <2>2, <2>4, <2>5 DEF ReferencesExist, NewGraph
  <2>7. QED
    BY <1>1, <2>2, <2>4, <2>6 DEF NewGraph
<1>2. CASE NewProjection
  <2>1. PICK q \in Projections \cup {"identity"} :
             Desire([workspace.desired EXCEPT !.projection = q])
    BY <1>2 DEF NewProjection
  <2> DEFINE l == [workspace.desired EXCEPT !.projection = q]
  <2>2. workspace.desired \in Lineages
    BY <1>2 DEF NewProjection
  <2>3. l \in Lineages /\ l.graph = workspace.desired.graph
    BY <2>2 DEF Lineages
  <2>4. /\ workspace' \in [current : Lineages, desired : Lineages \cup {NoLineage},
                           revision : 0..MaxRevision]
        /\ workspace'.current = workspace.current
        /\ workspace'.desired = l
        /\ outdated' = DOMAIN plans
    BY <2>1, <2>3, DesireType
  <2>5. workspace'.desired.graph \in DOMAIN graphs
    BY <1>2, <2>3, <2>4 DEF ReferencesExist, NewProjection
  <2>6. ReferencesExist'
    BY <1>2, <2>4, <2>5 DEF ReferencesExist, NewProjection
  <2>7. QED
    BY <1>2, <2>4, <2>6 DEF NewProjection
<1>3. CASE NewPlan
  <2>1. PICK row \in PlanRows :
             /\ workspace = [current |-> row.base, desired |-> row.desired,
                             revision |-> row.revision]
             /\ plans' = Append(plans, row)
    BY <1>3 DEF NewPlan
  <2>2. /\ plans' \in Seq(PlanRows)
        /\ DOMAIN plans' = DOMAIN plans \cup {Len(plans) + 1}
        /\ \A p \in DOMAIN plans : plans'[p] = plans[p]
        /\ plans'[Len(plans) + 1] = row
    BY <2>1, AppendRow
  <2>3. row.base.graph \in DOMAIN graphs /\ row.desired.graph \in DOMAIN graphs
    <3>1. row.desired \in Lineages
      BY DEF PlanRows
    <3>2. row.base = workspace.current /\ row.desired = workspace.desired
      BY <2>1
    <3>3. row.desired # NoLineage
      BY <3>1, DeploymentAssumption
    <3>4. QED
      BY <3>2, <3>3 DEF ReferencesExist
  <2>4. \A p \in DOMAIN plans' : /\ plans'[p].base.graph \in DOMAIN graphs
                                 /\ plans'[p].desired.graph \in DOMAIN graphs
    BY <2>2, <2>3 DEF ReferencesExist
  <2>5. ReferencesExist'
    BY <1>3, <2>2, <2>4 DEF ReferencesExist, NewPlan
  <2>6. QED
    BY <1>3, <2>2, <2>5 DEF NewPlan
<1>4. CASE NewApproval
  <2>1. PICK row \in ApprovalRows : /\ row.plan \in DOMAIN plans
                                    /\ approvals' = Append(approvals, row)
    BY <1>4 DEF NewApproval
  <2>2. /\ approvals' \in Seq(ApprovalRows)
        /\ DOMAIN approvals' = DOMAIN approvals \cup {Len(approvals) + 1}
        /\ \A a \in DOMAIN approvals : approvals'[a] = approvals[a]
        /\ approvals'[Len(approvals) + 1] = row
    BY <2>1, AppendRow
  <2>3. ReferencesExist'
    BY <1>4, <2>1, <2>2 DEF ReferencesExist, NewApproval
  <2>4. QED
    BY <1>4, <2>2, <2>3 DEF NewApproval
<1>5. CASE RunMoved
  <2>1. PICK i \in DOMAIN requests, status \in {"queued", "claimed", "abandoned"},
             run \in {"none", "active", "succeeded", "failed"} :
             requests' = [requests EXCEPT ![i] = [@ EXCEPT !.status = status,
                                                           !.run = run]]
    BY <1>5 DEF RunMoved
  <2> DEFINE row == [requests[i] EXCEPT !.status = status, !.run = run]
  <2>2. row \in RequestRows /\ row.plan = requests[i].plan
                            /\ row.approval = requests[i].approval
    <3>1. requests[i] \in RequestRows
      OBVIOUS
    <3>2. QED
      BY <3>1 DEF RequestRows
  <2>3. /\ requests' \in Seq(RequestRows)
        /\ DOMAIN requests' = DOMAIN requests
        /\ \A j \in DOMAIN requests \ {i} : requests'[j] = requests[j]
        /\ requests'[i] = row
    BY <2>1, <2>2, ReplaceRow
  <2>4. ReferencesExist'
    <3> HIDE DEF row
    <3>1. \A j \in DOMAIN requests : /\ requests'[j].plan = requests[j].plan
                                     /\ requests'[j].approval = requests[j].approval
      BY <2>2, <2>3
    <3>2. UNCHANGED <<workspace, graphs, plans, approvals, advanced>>
      BY <1>5 DEF RunMoved
    <3>3. QED
      BY <2>3, <3>1, <3>2 DEF ReferencesExist
  <2>5. QED
    BY <1>5, <2>3, <2>4 DEF RunMoved
<1>6. CASE Decided
  <2>1. PICK a \in DOMAIN approvals, actor \in Actors, d \in {"approved", "rejected"} :
             DecideApproval(a, actor, d)
    BY <1>6 DEF Decided
  <2> DEFINE row == [approvals[a] EXCEPT !.decision = d, !.decider = actor]
  <2>2. row \in ApprovalRows /\ row.plan = approvals[a].plan
    <3>1. approvals[a] \in ApprovalRows
      OBVIOUS
    <3>2. QED
      BY <3>1 DEF ApprovalRows
  <2>3. approvals' = [approvals EXCEPT ![a] = row]
    BY <2>1 DEF DecideApproval
  <2>4. /\ approvals' \in Seq(ApprovalRows)
        /\ DOMAIN approvals' = DOMAIN approvals
        /\ \A b \in DOMAIN approvals \ {a} : approvals'[b] = approvals[b]
        /\ approvals'[a] = row
    BY <2>2, <2>3, ReplaceRow
  <2>5. ReferencesExist'
    BY <2>1, <2>2, <2>4 DEF ReferencesExist, DecideApproval
  <2>6. QED
    BY <2>1, <2>4, <2>5 DEF DecideApproval
<1>7. CASE Admitted
  <2>1. PICK p \in DOMAIN plans, a \in DOMAIN approvals : AdmitPlan(p, a)
    BY <1>7 DEF Admitted
  <2> DEFINE row == [plan |-> p, approval |-> a, status |-> "queued", run |-> "none"]
  <2>2. row \in RequestRows
    BY DEF RequestRows
  <2>3. requests' = Append(requests, row)
    BY <2>1 DEF AdmitPlan
  <2>4. /\ requests' \in Seq(RequestRows)
        /\ DOMAIN requests' = DOMAIN requests \cup {Len(requests) + 1}
        /\ \A i \in DOMAIN requests : requests'[i] = requests[i]
        /\ requests'[Len(requests) + 1] = row
    BY <2>2, <2>3, AppendRow
  <2>5. ReferencesExist'
    <3>1. \A i \in DOMAIN requests' : /\ requests'[i].plan \in DOMAIN plans
                                      /\ requests'[i].approval \in DOMAIN approvals
      <4>1. row.plan = p /\ row.approval = a
        OBVIOUS
      <4>2. \A i \in DOMAIN requests : /\ requests[i].plan \in DOMAIN plans
                                       /\ requests[i].approval \in DOMAIN approvals
        BY DEF ReferencesExist
      <4> HIDE DEF row, TableType
      <4>3. QED
        BY <2>4, <4>1, <4>2
    <3>2. UNCHANGED <<workspace, graphs, plans, approvals, advanced>>
      BY <2>1 DEF AdmitPlan
    <3>3. QED
      BY <2>4, <3>1, <3>2 DEF ReferencesExist
  <2>6. QED
    BY <2>1, <2>4, <2>5 DEF AdmitPlan
<1>8. CASE CurrentAdvanced
  <2>1. PICK i \in DOMAIN requests : AdvanceCurrentGraph(i)
    BY <1>8 DEF CurrentAdvanced
  <2> DEFINE p == requests[i].plan
             row == [request |-> i, from |-> plans[p].base, to |-> plans[p].desired]
  <2>2. p \in DOMAIN plans
    BY DEF ReferencesExist
  <2>3. plans[p].base \in Lineages /\ plans[p].desired \in Lineages
    <3>1. plans[p] \in PlanRows
      BY <2>2
    <3>2. QED
      BY <3>1 DEF PlanRows
  <2>4. row \in Advancements
    BY <2>3 DEF Advancements
  <2>5. advanced' = Append(advanced, row)
    BY <2>1 DEF AdvanceCurrentGraph
  <2>6. /\ advanced' \in Seq(Advancements)
        /\ DOMAIN advanced' = DOMAIN advanced \cup {Len(advanced) + 1}
        /\ \A j \in DOMAIN advanced : advanced'[j] = advanced[j]
        /\ advanced'[Len(advanced) + 1] = row
    BY <2>4, <2>5, AppendRow
  <2>7. workspace' = [workspace EXCEPT !.current = plans[p].desired]
    BY <2>1 DEF AdvanceCurrentGraph
  <2>8. /\ workspace' \in [current : Lineages, desired : Lineages \cup {NoLineage},
                           revision : 0..MaxRevision]
        /\ workspace'.current = plans[p].desired
        /\ workspace'.desired = workspace.desired
    BY <2>3, <2>7
  <2>9. ReferencesExist'
    <3>1. plans[p].desired.graph \in DOMAIN graphs
      BY <2>2 DEF ReferencesExist
    <3>2. \A j \in DOMAIN advanced' : advanced'[j].request \in DOMAIN requests
      <4>1. row.request = i
        OBVIOUS
      <4>2. \A j \in DOMAIN advanced : advanced[j].request \in DOMAIN requests
        BY DEF ReferencesExist
      <4> HIDE DEF row, TableType
      <4>3. QED
        BY <2>6, <4>1, <4>2
    <3>3. UNCHANGED <<graphs, plans, approvals, requests>>
      BY <2>1 DEF AdvanceCurrentGraph
    <3>4. QED
      BY <2>8, <3>1, <3>2, <3>3 DEF ReferencesExist
  <2>10. QED
    BY <2>1, <2>6, <2>8, <2>9 DEF AdvanceCurrentGraph
<1>9. CASE Quiet
  BY <1>9 DEF Quiet, ReferencesExist
<1>10. QED
  BY <1>1, <1>2, <1>3, <1>4, <1>5, <1>6, <1>7, <1>8, <1>9 DEF Shape

\* A call goes on.
LEMMA ContinueType ==
    ASSUME ControlType, CallsInv, NEW p \in Processes, NEW call \in Calls,
           CallOK(call), Continue(p, call), UNCHANGED command,
           session' \in [Sessions -> {"none", "open", "terminal"}]
    PROVE  ControlType' /\ CallsInv'
<1>1. /\ process' \in [Processes -> Calls]
      /\ process'[p] = call
      /\ \A q \in Processes \ {p} : process'[q] = process[q]
  BY DEF Continue, ControlType
<1>2. ControlType'
  BY <1>1 DEF ControlType
<1>3. CallsInv'
  BY <1>1 DEF CallsInv, CallOK
<1>4. QED
  BY <1>2, <1>3

\* The rows that prepare finds are rows of the table.
LEMMA PreparedRows ==
    ASSUME NEW S, NEW table \in Seq(S), NEW s, NEW i \in Prepared(table, s)
    PROVE  i \in Nat /\ i # 0 /\ i \in DOMAIN table
BY DEF Prepared

\* The calls, the sessions and the commands keep their types.
LEMMA ControlStep ==
    ASSUME DInv, [DNext]_dvars
    PROVE  ControlType' /\ CallsInv'
<1> USE DEF DInv
<1>1. ASSUME UNCHANGED process, UNCHANGED command,
             session' \in [Sessions -> {"none", "open", "terminal"}]
      PROVE  ControlType' /\ CallsInv'
  BY <1>1 DEF ControlType, CallsInv, CallOK
<1>2. ASSUME NEW s \in Sessions, StartSession(s)
      PROVE  session' \in [Sessions -> {"none", "open", "terminal"}] /\ UNCHANGED command
  BY <1>2 DEF StartSession, ControlType
<1>3. UNCHANGED session => session' \in [Sessions -> {"none", "open", "terminal"}]
  BY DEF ControlType
<1>4. CASE OperatorStep
  <2>1. UNCHANGED process
    BY <1>4 DEF OperatorStep
  <2>2. \/ \E s \in Sessions : StartSession(s)
        \/ UNCHANGED <<session, command>>
    BY <1>4 DEF OperatorStep, SetDesiredGraph, RequestPlan, RequestApproval
  <2>3. QED
    BY <1>1, <1>2, <1>3, <2>1, <2>2
<1>5. CASE \E s \in Sessions, q \in Projections \cup {"identity"} : PublishProjection(s, q)
  BY <1>1, <1>3, <1>5 DEF PublishProjection
<1>6. CASE \E s \in Sessions : EndSession(s)
  <2>1. session' \in [Sessions -> {"none", "open", "terminal"}]
    BY <1>6 DEF EndSession, ControlType
  <2>2. QED
    BY <1>1, <1>6, <2>1 DEF EndSession
<1>7. CASE ReviewStep
  BY <1>1, <1>3, <1>7 DEF ReviewStep, DecideApproval, AdmitPlan
<1>8. CASE ExecutionStep
  BY <1>1, <1>3, <1>8 DEF ExecutionStep, ClaimRequest, SucceedRun, FailRun, RetryRun,
                          AbandonClaim, RunStep, AdvanceCurrentGraph
<1>9. ASSUME NEW p \in Processes, PrepareStep(p)
      PROVE  ControlType' /\ CallsInv'
  <2> DEFINE c == process[p]
  <2>1. c \in Calls
    BY DEF ControlType
  <2>2. c.at # "idle" => c.session \in Sessions /\ command[c.session] \in Commands
    BY DEF CallsInv, CallOK
  <2>3. Unchanged => UNCHANGED command /\ session' \in [Sessions -> {"none", "open", "terminal"}]
    BY <1>3 DEF Unchanged
  <2>4. /\ graphs \in Seq(GraphRows) /\ Len(graphs) + 1 \in Nat \ {0}
        /\ plans \in Seq(PlanRows) /\ Len(plans) + 1 \in Nat
        /\ approvals \in Seq(ApprovalRows) /\ Len(approvals) + 1 \in Nat
    BY DEF TableType
  <2>5. \A noop, ready : AfterPlan(noop, ready) \in Stages \ {"idle", "plan"}
    BY DEF AfterPlan, Stages
  <2>6. CASE PrepareSession(p)
    <3>1. c.at = "session" /\ Continue(p, [c EXCEPT !.at = "desired"])
      BY <2>6 DEF PrepareSession
    <3>2. UNCHANGED command /\ session' \in [Sessions -> {"none", "open", "terminal"}]
      BY <1>2, <2>2, <2>3, <2>6, <3>1 DEF PrepareSession
    <3>3. "desired" \in Stages
      BY DEF Stages
    <3> DEFINE d == [c EXCEPT !.at = "desired"]
    <3>4. d \in Calls /\ d.at = "desired" /\ d.session = c.session
      BY <2>1, <3>3 DEF Calls
    <3>5. CallOK(d)
      BY <2>2, <3>1, <3>4 DEF CallOK
    <3>6. QED
      BY <3>1, <3>2, <3>4, <3>5, ContinueType
  <2>7. CASE PrepareDesired(p)
    <3>1. c.at = "desired"
      BY <2>7 DEF PrepareDesired
    <3>2. PICK n \in Nat \ {0} : Continue(p, [c EXCEPT !.at = "plan", !.graph = n])
      BY <2>4, <2>7, PreparedRows DEF PrepareDesired
    <3>3. UNCHANGED command /\ session' \in [Sessions -> {"none", "open", "terminal"}]
      BY <1>3, <2>3, <2>7 DEF PrepareDesired, SetDesiredGraph
    <3>4. "plan" \in Stages
      BY DEF Stages
    <3> DEFINE d == [c EXCEPT !.at = "plan", !.graph = n]
    <3>5. d \in Calls /\ d.at = "plan" /\ d.session = c.session /\ d.graph = n
      BY <2>1, <3>4 DEF Calls
    <3>6. CallOK(d)
      BY <2>2, <3>1, <3>5 DEF CallOK
    <3>7. QED
      BY <3>2, <3>3, <3>5, <3>6, ContinueType
  <2>8. CASE PreparePlan(p)
    <3>1. c.at = "plan"
      BY <2>8 DEF PreparePlan
    <3>2. PICK at \in Stages \ {"idle", "plan"}, n \in Nat :
               Continue(p, [c EXCEPT !.at = at, !.plan = n])
      <4>1. ASSUME NEW q \in Prepared(plans, c.session)
            PROVE  q \in Nat
        BY <2>4, PreparedRows
      <4>2. QED
        BY <2>4, <2>5, <2>8, <4>1 DEF PreparePlan
    <3>3. UNCHANGED command /\ session' \in [Sessions -> {"none", "open", "terminal"}]
      BY <1>3, <2>3, <2>8 DEF PreparePlan, RequestPlan
    <3> DEFINE d == [c EXCEPT !.at = at, !.plan = n]
    <3>4. d \in Calls /\ d.at = at /\ d.session = c.session
      BY <2>1 DEF Calls
    <3>5. CallOK(d)
      BY <2>2, <3>1, <3>4 DEF CallOK
    <3>6. QED
      BY <3>2, <3>3, <3>4, <3>5, ContinueType
  <2>9. CASE PrepareApproval(p)
    <3>1. c.at = "approval"
      BY <2>9 DEF PrepareApproval
    <3>2. PICK n \in Nat : Continue(p, [c EXCEPT !.at = "approval_required", !.approval = n])
      BY <2>4, <2>9, PreparedRows DEF PrepareApproval
    <3>3. UNCHANGED command /\ session' \in [Sessions -> {"none", "open", "terminal"}]
      BY <1>3, <2>3, <2>9 DEF PrepareApproval, RequestApproval
    <3>4. "approval_required" \in Stages
      BY DEF Stages
    <3> DEFINE d == [c EXCEPT !.at = "approval_required", !.approval = n]
    <3>5. d \in Calls /\ d.at = "approval_required" /\ d.session = c.session
      BY <2>1, <3>4 DEF Calls
    <3>6. CallOK(d)
      BY <2>2, <3>1, <3>5 DEF CallOK
    <3>7. QED
      BY <3>2, <3>3, <3>5, <3>6, ContinueType
  <2>10. CASE AbortPrepare(p)
    <3>1. NotCalled \in Calls /\ CallOK(NotCalled)
      BY DEF NotCalled, Calls, Stages, CallOK
    <3>2. QED
      BY <2>3, <2>10, <3>1, ContinueType DEF AbortPrepare
  <2>11. QED
    BY <1>9, <2>6, <2>7, <2>8, <2>9, <2>10 DEF PrepareStep
<1>10. ASSUME NEW s \in Sessions
       PROVE  Begun(s) \in Calls /\ Begun(s).at = "session" /\ Begun(s).session = s
  BY DEF Begun, NotCalled, Calls, Stages
<1>11. ASSUME NEW p \in Processes, NEW s \in Sessions, CallAgain(p, s)
       PROVE  ControlType' /\ CallsInv'
  <2>1. command[s] \in Commands
    BY <1>11 DEF CallAgain, ControlType
  <2>2. CallOK(Begun(s))
    BY <1>10, <2>1 DEF CallOK
  <2>3. Continue(p, Begun(s)) /\ UNCHANGED <<command, session>>
    BY <1>11 DEF CallAgain, Continue
  <2>4. QED
    BY <1>3, <1>10, <2>2, <2>3, ContinueType
<1>12. ASSUME NEW p \in Processes, NEW s \in Sessions, NEW actor \in Actors,
              NEW t \in Topologies, CallPrepare(p, s, actor, t)
       PROVE  ControlType' /\ CallsInv'
  <2> DEFINE m == [actor |-> actor, topology |-> t, current |-> workspace.current,
                   desired |-> workspace.desired, revision |-> workspace.revision]
  <2>1. m \in Commands
    BY DeploymentAssumption DEF TableType, Commands
  <2>2. command' = [command EXCEPT ![s] = m] /\ UNCHANGED session
    BY <1>12 DEF CallPrepare
  <2>3. /\ command' \in [Sessions -> Commands \cup {NoCommand}]
        /\ command'[s] \in Commands
        /\ \A r \in Sessions : command[r] \in Commands => command'[r] \in Commands
    <3> HIDE DEF m
    <3>1. QED
      BY <2>1, <2>2 DEF ControlType
  <2>4. process' = [process EXCEPT ![p] = Begun(s)]
    BY <1>12 DEF CallPrepare
  <2>5. /\ process' \in [Processes -> Calls]
        /\ process'[p] = Begun(s)
        /\ \A q \in Processes \ {p} : process'[q] = process[q]
    BY <1>10, <2>4 DEF ControlType
  <2>6. CallsInv'
    BY <1>10, <2>3, <2>5 DEF CallsInv, CallOK
  <2>7. QED
    BY <2>2, <2>3, <2>5, <2>6 DEF ControlType
<1>13. CASE UNCHANGED dvars
  BY <1>1, <1>3, <1>13 DEF dvars
<1>14. QED
  BY <1>4, <1>5, <1>6, <1>7, <1>8, <1>9, <1>11, <1>12, <1>13 DEF DNext

\* The workspace starts in a well-typed state.
LEMMA DInitType == DInit => DInv
<1> SUFFICES ASSUME DInit PROVE DInv
  OBVIOUS
<1> USE DeploymentAssumption
<1>1. Identity(1) \in Lineages /\ Identity(1).graph = 1
  BY DEF Identity, Lineages
<1> DEFINE row == [session |-> "bootstrap", by |-> "operator",
                   topology |-> Empty, revision |-> 0]
<1>2. row \in GraphRows
  BY DEF GraphRows, Origins
<1>3. graphs \in Seq(GraphRows) /\ DOMAIN graphs = {1}
  <2> HIDE DEF row
  <2>1. graphs = <<row>>
    BY DEF DInit, row
  <2>2. QED
    BY <1>2, <2>1
<1>4. /\ plans \in Seq(PlanRows) /\ DOMAIN plans = {}
      /\ approvals \in Seq(ApprovalRows) /\ DOMAIN approvals = {}
      /\ requests \in Seq(RequestRows) /\ DOMAIN requests = {}
      /\ advanced \in Seq(Advancements) /\ DOMAIN advanced = {}
  BY DEF DInit
<1>5. /\ workspace.current = Identity(1) /\ workspace.desired = NoLineage
      /\ workspace \in [current : Lineages, desired : Lineages \cup {NoLineage},
                        revision : 0..MaxRevision]
  BY <1>1 DEF DInit
<1>6. ReferencesExist
  BY <1>1, <1>3, <1>4, <1>5 DEF ReferencesExist
<1>7. TableType
  BY <1>3, <1>4, <1>5, <1>6 DEF TableType, DInit
<1>8. NotCalled \in Calls /\ CallOK(NotCalled)
  BY DEF NotCalled, Calls, Stages, CallOK
<1>9. ControlType /\ CallsInv
  BY <1>8 DEF ControlType, CallsInv, DInit
<1>10. QED
  BY <1>7, <1>9 DEF DInv

\* The type invariant with what the calls know: foreign keys hold in every
\* reachable state.
THEOREM DInvariant == DSpec => []DInv
<1>1. DInv /\ [DNext]_dvars => DInv'
  BY StepShapes, TablesStep, ControlStep DEF DInv
<1>2. QED
  BY <1>1, DInitType, PTL DEF DSpec

\* Every row keeps its type and every foreign key of the tables names a row, for
\* any number of operators and of processes that prepare.
THEOREM DTypeCorrect == DSpec => []DTypeOK
<1>1. DInv => DTypeOK
  BY DEF DInv, TableType, ControlType, DTypeOK
<1>2. QED
  BY <1>1, DInvariant, PTL

----------------------------------------------------------------------------
(* The inductive invariant. *)

\* The desired revision orders the plans: it grows with every change of the
\* desired graph, so an outdated plan has an older one for ever.
PlansInv ==
    /\ \A p \in DOMAIN plans :
         /\ plans[p].revision <= workspace.revision
         /\ plans[p].revision = workspace.revision => plans[p].desired = workspace.desired
    /\ \A p \in outdated : plans[p].revision < workspace.revision

\* A decision was made with the authority that the plan's risk asks for.
ApprovalsInv ==
    \A a \in DOMAIN approvals : approvals[a].decision # "none" =>
        CanApprove(approvals[a].decider, approvals[a].requester, approvals[a].destructive)

\* An admitted request keeps an approval of its own plan, and its plan changes
\* something.
RequestsInv ==
    \A i \in DOMAIN requests :
        LET r == requests[i]
            a == approvals[r.approval]
        IN  /\ a.plan = r.plan
            /\ a.decision = "approved"
            /\ a.destructive = IsDestructive(r.plan)
            /\ IsReady(r.plan)
            /\ plans[r.plan].base # plans[r.plan].desired

\* An advancement belongs to a succeeded run, and as long as the desired graph
\* is the one of its plan, it is current.
AdvancedInv ==
    \A i \in DOMAIN advanced :
        LET r == requests[advanced[i].request]
            p == plans[r.plan]
        IN  /\ r.run = "succeeded"
            /\ p.base = advanced[i].from
            /\ p.desired = advanced[i].to
            /\ p.revision < workspace.revision \/ workspace.current = workspace.desired

ReviewInv ==
    /\ PlansInv /\ ApprovalsInv /\ RequestsInv /\ AdvancedInv
    /\ PlanAdvancesOnce /\ AdvancementsFormChain

----------------------------------------------------------------------------
(* What stays. *)

\* Rows of graphs and plans are never changed, so a plan keeps its difference.
LEMMA PlansKept ==
    ASSUME TableType, Shape, NEW p \in DOMAIN plans
    PROVE  /\ p \in DOMAIN plans'
           /\ plans'[p] = plans[p]
           /\ Change(p)' = Change(p)
<1> USE DEF TableType
<1>1. \A g \in DOMAIN graphs : graphs'[g] = graphs[g]
  <2>1. CASE NewGraph
    <3>1. PICK row \in GraphRows : graphs' = Append(graphs, row)
      BY <2>1 DEF NewGraph
    <3>2. QED
      BY <3>1, AppendRow
  <2>2. CASE ~NewGraph
    <3>1. UNCHANGED graphs
      BY <2>2 DEF Shape, NewProjection, NewPlan, NewApproval, RunMoved, Decided, Admitted,
                  CurrentAdvanced, Quiet, DecideApproval, AdmitPlan, AdvanceCurrentGraph
    <3>2. QED
      BY <3>1
  <2>3. QED
    BY <2>1, <2>2
<1>2. p \in DOMAIN plans' /\ plans'[p] = plans[p]
  <2>1. CASE NewPlan
    <3>1. PICK row \in PlanRows : plans' = Append(plans, row)
      BY <2>1 DEF NewPlan
    <3>2. QED
      BY <3>1, AppendRow
  <2>2. CASE ~NewPlan
    <3>1. UNCHANGED plans
      BY <2>2 DEF Shape, NewGraph, NewProjection, NewApproval, RunMoved, Decided, Admitted,
                  CurrentAdvanced, Quiet, DecideApproval, AdmitPlan, AdvanceCurrentGraph
    <3>2. QED
      BY <3>1
  <2>3. QED
    BY <2>1, <2>2
<1>3. plans[p].base.graph \in DOMAIN graphs /\ plans[p].desired.graph \in DOMAIN graphs
  BY DEF ReferencesExist
<1>4. Change(p)' = Change(p)
  BY <1>1, <1>2, <1>3 DEF Change
<1>5. QED
  BY <1>2, <1>4

\* An approved approval stays as it is.
LEMMA ApprovalsKept ==
    ASSUME TableType, Shape, NEW a \in DOMAIN approvals, approvals[a].decision # "none"
    PROVE  a \in DOMAIN approvals' /\ approvals'[a] = approvals[a]
<1> USE DEF TableType
<1>1. CASE NewApproval
  <2>1. PICK row \in ApprovalRows : approvals' = Append(approvals, row)
    BY <1>1 DEF NewApproval
  <2>2. QED
    BY <2>1, AppendRow
<1>2. CASE Decided
  <2>1. PICK b \in DOMAIN approvals, actor \in Actors, d \in {"approved", "rejected"} :
             DecideApproval(b, actor, d)
    BY <1>2 DEF Decided
  <2>2. b # a
    BY <2>1 DEF DecideApproval
  <2>3. QED
    BY <2>1, <2>2 DEF DecideApproval
<1>3. CASE ~NewApproval /\ ~Decided
  <2>1. UNCHANGED approvals
    BY <1>3 DEF Shape, NewGraph, NewProjection, NewPlan, RunMoved, Admitted,
                CurrentAdvanced, Quiet, AdmitPlan, AdvanceCurrentGraph
  <2>2. QED
    BY <2>1
<1>4. QED
  BY <1>1, <1>2, <1>3

\* A request keeps its plan and its approval, and a succeeded run stays one.
LEMMA RequestsKept ==
    ASSUME TableType, Shape, NEW i \in DOMAIN requests
    PROVE  /\ i \in DOMAIN requests'
           /\ requests'[i].plan = requests[i].plan
           /\ requests'[i].approval = requests[i].approval
           /\ requests[i].run = "succeeded" => requests'[i].run = "succeeded"
<1> USE DEF TableType
<1>1. CASE Admitted
  <2>1. PICK p \in DOMAIN plans, a \in DOMAIN approvals : AdmitPlan(p, a)
    BY <1>1 DEF Admitted
  <2> DEFINE row == [plan |-> p, approval |-> a, status |-> "queued", run |-> "none"]
  <2>2. row \in RequestRows
    BY DEF RequestRows
  <2>3. requests' = Append(requests, row)
    BY <2>1 DEF AdmitPlan
  <2>4. QED
    BY <2>2, <2>3, AppendRow
<1>2. CASE RunMoved
  <2>1. PICK j \in DOMAIN requests, status \in {"queued", "claimed", "abandoned"},
             run \in {"none", "active", "succeeded", "failed"} :
             /\ requests[j].run # "succeeded"
             /\ requests' = [requests EXCEPT ![j] = [@ EXCEPT !.status = status,
                                                              !.run = run]]
    BY <1>2 DEF RunMoved
  <2>2. CASE i = j
    <3>1. requests[i] \in RequestRows
      OBVIOUS
    <3> DEFINE row == [requests[i] EXCEPT !.status = status, !.run = run]
    <3>2. row.plan = requests[i].plan /\ row.approval = requests[i].approval
      BY <3>1 DEF RequestRows
    <3>3. i \in DOMAIN requests' /\ requests'[i] = row
      BY <2>1, <2>2
    <3>4. QED
      BY <2>1, <2>2, <3>2, <3>3
  <2>3. CASE i # j
    BY <2>1, <2>3
  <2>4. QED
    BY <2>2, <2>3
<1>3. CASE ~Admitted /\ ~RunMoved
  <2>1. UNCHANGED requests
    BY <1>3 DEF Shape, NewGraph, NewProjection, NewPlan, NewApproval, Decided,
                CurrentAdvanced, Quiet, DecideApproval, AdvanceCurrentGraph
  <2>2. QED
    BY <2>1
<1>4. QED
  BY <1>1, <1>2, <1>3

\* The workspace changes in two ways: a new desired revision that outdates every
\* plan, or an advancement to the desired lineage of a current plan.
LEMMA WorkspaceStep ==
    ASSUME TableType, Shape
    PROVE  \/ /\ workspace'.revision = workspace.revision + 1
              /\ workspace'.current = workspace.current
              /\ outdated' = DOMAIN plans
              /\ UNCHANGED <<plans, advanced, requests>>
           \/ UNCHANGED <<workspace, outdated, advanced>>
           \/ CurrentAdvanced
<1> USE DEF TableType
<1>1. CASE NewGraph
  <2>1. Len(graphs) + 1 \in Nat \ {0}
    OBVIOUS
  <2>2. Identity(Len(graphs) + 1) \in Lineages
    BY <2>1 DEF Identity, Lineages
  <2>3. QED
    BY <1>1, <2>2, DesireType DEF NewGraph
<1>2. CASE NewProjection
  <2>1. PICK q \in Projections \cup {"identity"} :
             Desire([workspace.desired EXCEPT !.projection = q])
    BY <1>2 DEF NewProjection
  <2>2. workspace.desired \in Lineages
    BY <1>2 DEF NewProjection
  <2>3. [workspace.desired EXCEPT !.projection = q] \in Lineages
    BY <2>2 DEF Lineages
  <2>4. QED
    BY <1>2, <2>1, <2>3, DesireType DEF NewProjection
<1>3. CASE ~NewGraph /\ ~NewProjection /\ ~CurrentAdvanced
  BY <1>3 DEF Shape, NewPlan, NewApproval, RunMoved, Decided, Admitted, Quiet,
              DecideApproval, AdmitPlan
<1>4. QED
  BY <1>1, <1>2, <1>3

\* What AdvanceCurrentGraph compares and sets.
LEMMA AdvanceFacts ==
    ASSUME TableType, NEW i \in DOMAIN requests, AdvanceCurrentGraph(i)
    PROVE  /\ requests[i].plan \in DOMAIN plans
           /\ requests[i].run = "succeeded"
           /\ workspace.current = plans[requests[i].plan].base
           /\ workspace.desired = plans[requests[i].plan].desired
           /\ workspace.revision = plans[requests[i].plan].revision
           /\ workspace'.current = plans[requests[i].plan].desired
           /\ workspace'.desired = workspace.desired
           /\ workspace'.revision = workspace.revision
           /\ Len(advanced) \in Nat
           /\ DOMAIN advanced = 1..Len(advanced)
           /\ Len(advanced') = Len(advanced) + 1
           /\ DOMAIN advanced' = DOMAIN advanced \cup {Len(advanced) + 1}
           /\ \A j \in DOMAIN advanced : advanced'[j] = advanced[j]
           /\ advanced'[Len(advanced) + 1].request = i
           /\ advanced'[Len(advanced) + 1].from = plans[requests[i].plan].base
           /\ advanced'[Len(advanced) + 1].to = plans[requests[i].plan].desired
           /\ UNCHANGED <<graphs, plans, approvals, requests, outdated>>
<1> USE DEF TableType
<1> DEFINE p == requests[i].plan
           row == [request |-> i, from |-> plans[p].base, to |-> plans[p].desired]
<1>1. p \in DOMAIN plans
  BY DEF ReferencesExist
<1>2. plans[p] \in PlanRows
  BY <1>1
<1>3. row \in Advancements
  BY <1>2 DEF PlanRows, Advancements
<1>4. advanced' = Append(advanced, row)
  BY DEF AdvanceCurrentGraph
<1>5. /\ Len(advanced) \in Nat
      /\ DOMAIN advanced = 1..Len(advanced)
      /\ Len(advanced') = Len(advanced) + 1
      /\ DOMAIN advanced' = DOMAIN advanced \cup {Len(advanced) + 1}
      /\ \A j \in DOMAIN advanced : advanced'[j] = advanced[j]
      /\ advanced'[Len(advanced) + 1] = row
  <2> HIDE DEF row
  <2>1. QED
    BY <1>3, <1>4, AppendRow
<1>6. /\ workspace.current = plans[p].base
      /\ workspace.desired = plans[p].desired
      /\ workspace.revision = plans[p].revision
  BY DEF AdvanceCurrentGraph, PlanCurrent
<1>7. /\ workspace'.current = plans[p].desired
      /\ workspace'.desired = workspace.desired
      /\ workspace'.revision = workspace.revision
  BY DEF AdvanceCurrentGraph
<1>8. requests[i].run = "succeeded" /\ UNCHANGED <<graphs, plans, approvals, requests, outdated>>
  BY DEF AdvanceCurrentGraph
<1>9. QED
  BY <1>1, <1>5, <1>6, <1>7, <1>8

----------------------------------------------------------------------------
(* Preservation. *)

\* Revisions order the plans.
LEMMA PlansStep ==
    ASSUME TableType, TableType', Shape, PlansInv
    PROVE  PlansInv'
<1>1. /\ workspace.revision \in Nat
      /\ \A p \in DOMAIN plans : plans[p].revision \in Nat
      /\ outdated \subseteq DOMAIN plans
  <2>1. \A p \in DOMAIN plans : plans[p] \in PlanRows
    BY DEF TableType
  <2>2. QED
    BY <2>1 DEF TableType, PlanRows
<1>2. CASE /\ workspace'.revision = workspace.revision + 1
           /\ outdated' = DOMAIN plans
           /\ UNCHANGED plans
  BY <1>1, <1>2 DEF PlansInv
<1>3. CASE CurrentAdvanced
  BY <1>3, AdvanceFacts DEF CurrentAdvanced, PlansInv
<1>4. CASE UNCHANGED <<workspace, outdated>> /\ NewPlan
  <2>1. PICK row \in PlanRows :
             /\ workspace = [current |-> row.base, desired |-> row.desired,
                             revision |-> row.revision]
             /\ plans' = Append(plans, row)
    BY <1>4 DEF NewPlan
  <2>2. plans \in Seq(PlanRows)
    BY DEF TableType
  <2>3. /\ DOMAIN plans' = DOMAIN plans \cup {Len(plans) + 1}
        /\ \A p \in DOMAIN plans : plans'[p] = plans[p]
        /\ plans'[Len(plans) + 1] = row
    BY <2>1, <2>2, AppendRow
  <2>4. row.desired = workspace.desired /\ row.revision = workspace.revision
    BY <2>1
  <2>5. QED
    BY <1>1, <1>4, <2>3, <2>4 DEF PlansInv
<1>5. CASE UNCHANGED <<workspace, outdated>> /\ ~NewPlan
  <2>1. UNCHANGED plans
    BY <1>5 DEF Shape, NewGraph, NewProjection, NewApproval, RunMoved, Decided, Admitted,
                CurrentAdvanced, Quiet, DecideApproval, AdmitPlan, AdvanceCurrentGraph
  <2>2. QED
    BY <1>5, <2>1 DEF PlansInv
<1>6. QED
  BY <1>2, <1>3, <1>4, <1>5, WorkspaceStep

\* Only DecideApproval makes a decision.
LEMMA ApprovalsStep ==
    ASSUME TableType, Shape, ApprovalsInv
    PROVE  ApprovalsInv'
<1>1. approvals \in Seq(ApprovalRows)
  BY DEF TableType
<1>2. CASE NewApproval
  <2>1. PICK row \in ApprovalRows : /\ row.decision = "none"
                                    /\ approvals' = Append(approvals, row)
    BY <1>2 DEF NewApproval
  <2>2. /\ DOMAIN approvals' = DOMAIN approvals \cup {Len(approvals) + 1}
        /\ \A a \in DOMAIN approvals : approvals'[a] = approvals[a]
        /\ approvals'[Len(approvals) + 1] = row
    BY <1>1, <2>1, AppendRow
  <2>3. QED
    BY <2>1, <2>2 DEF ApprovalsInv, CanApprove
<1>3. CASE Decided
  <2>1. PICK a \in DOMAIN approvals, actor \in Actors, d \in {"approved", "rejected"} :
             DecideApproval(a, actor, d)
    BY <1>3 DEF Decided
  <2> DEFINE row == [approvals[a] EXCEPT !.decision = d, !.decider = actor]
  <2>2. approvals[a] \in ApprovalRows
    BY <1>1
  <2>3. /\ row.decider = actor
        /\ row.requester = approvals[a].requester
        /\ row.destructive = approvals[a].destructive
    BY <2>2 DEF ApprovalRows
  <2>4. approvals' = [approvals EXCEPT ![a] = row]
    BY <2>1 DEF DecideApproval
  <2>5. /\ DOMAIN approvals' = DOMAIN approvals
        /\ \A b \in DOMAIN approvals \ {a} : approvals'[b] = approvals[b]
        /\ approvals'[a] = row
    <3> HIDE DEF row
    <3>1. QED
      BY <1>1, <2>4
  <2>6. CanApprove(actor, approvals[a].requester, approvals[a].destructive)
    BY <2>1 DEF DecideApproval
  <2>7. QED
    <3> HIDE DEF row
    <3>1. QED
      BY <2>3, <2>5, <2>6 DEF ApprovalsInv, CanApprove
<1>4. CASE ~NewApproval /\ ~Decided
  <2>1. UNCHANGED approvals
    BY <1>4 DEF Shape, NewGraph, NewProjection, NewPlan, RunMoved, Admitted,
                CurrentAdvanced, Quiet, AdmitPlan, AdvanceCurrentGraph
  <2>2. QED
    BY <2>1 DEF ApprovalsInv, CanApprove
<1>5. QED
  BY <1>2, <1>3, <1>4

\* A request is admitted with what RequestsInv says, and keeps it.
LEMMA RequestsStep ==
    ASSUME TableType, Shape, RequestsInv
    PROVE  RequestsInv'
<1> DEFINE Good(i) == LET r == requests[i]
                          a == approvals[r.approval]
                      IN  /\ a.plan = r.plan
                          /\ a.decision = "approved"
                          /\ a.destructive = IsDestructive(r.plan)
                          /\ IsReady(r.plan)
                          /\ plans[r.plan].base # plans[r.plan].desired
<1>1. ASSUME NEW i \in DOMAIN requests
      PROVE  Good(i)'
  <2>1. Good(i) /\ requests[i].plan \in DOMAIN plans /\ requests[i].approval \in DOMAIN approvals
    BY DEF RequestsInv, TableType, ReferencesExist
  <2> PICK p : p = requests[i].plan
    OBVIOUS
  <2>2. plans'[p] = plans[p] /\ Change(p)' = Change(p)
    BY <2>1, PlansKept
  <2>3. approvals'[requests[i].approval] = approvals[requests[i].approval]
    BY <2>1, ApprovalsKept
  <2>4. /\ requests'[i].plan = requests[i].plan
        /\ requests'[i].approval = requests[i].approval
    BY RequestsKept
  <2>5. QED
    BY <2>1, <2>2, <2>3, <2>4 DEF IsDestructive, IsReady
<1>2. CASE Admitted
  <2>1. PICK p \in DOMAIN plans, a \in DOMAIN approvals : AdmitPlan(p, a)
    BY <1>2 DEF Admitted
  <2> DEFINE row == [plan |-> p, approval |-> a, status |-> "queued", run |-> "none"]
  <2>2. row \in RequestRows
    BY DEF RequestRows, TableType
  <2>3. requests' = Append(requests, row) /\ UNCHANGED <<approvals, plans, graphs>>
    BY <2>1 DEF AdmitPlan
  <2>4. /\ DOMAIN requests' = DOMAIN requests \cup {Len(requests) + 1}
        /\ requests'[Len(requests) + 1] = row
    <3> HIDE DEF row
    <3>1. requests \in Seq(RequestRows)
      BY DEF TableType
    <3>2. QED
      BY <2>2, <2>3, <3>1, AppendRow
  <2>5. plans[p].base # plans[p].desired
    BY <2>1 DEF AdmitPlan, IsNoOp
  <2> PICK n : n = Len(requests) + 1
    OBVIOUS
  <2>6. Good(n)'
    <3>1. /\ approvals[a].plan = p
          /\ approvals[a].decision = "approved"
          /\ approvals[a].destructive = IsDestructive(p)
          /\ IsReady(p)
      BY <2>1 DEF AdmitPlan, Authorizes
    <3>2. Change(p)' = Change(p)
      BY <2>3 DEF Change
    <3>3. IsDestructive(p)' = IsDestructive(p) /\ IsReady(p)' = IsReady(p)
      BY <3>2 DEF IsDestructive, IsReady
    <3>4. requests'[n].plan = p /\ requests'[n].approval = a
      BY <2>4
    <3>5. /\ IsDestructive(requests[n].plan)' = IsDestructive(p)'
          /\ IsReady(requests[n].plan)' = IsReady(p)'
      BY <3>4 DEF IsDestructive, IsReady, Change
    <3>6. QED
      BY <2>3, <2>5, <3>1, <3>3, <3>4, <3>5
  <2>7. QED
    <3>1. \A i \in DOMAIN requests' : Good(i)'
      <4> HIDE DEF Good
      <4>1. QED
        BY <1>1, <2>4, <2>6
    <3>2. QED
      BY <3>1 DEF RequestsInv
<1>3. CASE ~Admitted
  <2>1. DOMAIN requests' = DOMAIN requests
    <3>1. CASE RunMoved
      BY <3>1 DEF RunMoved, TableType
    <3>2. CASE ~RunMoved
      <4>1. UNCHANGED requests
        BY <1>3, <3>2 DEF Shape, NewGraph, NewProjection, NewPlan, NewApproval, Decided,
                          CurrentAdvanced, Quiet, DecideApproval, AdvanceCurrentGraph
      <4>2. QED
        BY <4>1
    <3>3. QED
      BY <3>1, <3>2
  <2>2. QED
    BY <1>1, <2>1 DEF RequestsInv
<1>4. QED
  BY <1>2, <1>3

\* The current graph is only moved to the desired one.
LEMMA AdvancedStep ==
    ASSUME TableType, TableType', Shape, PlansInv, AdvancedInv
    PROVE  AdvancedInv'
<1> DEFINE Fits(i) == LET r == requests[advanced[i].request]
                          p == plans[r.plan]
                      IN  /\ r.run = "succeeded"
                          /\ p.base = advanced[i].from
                          /\ p.desired = advanced[i].to
           Past(i) == \/ plans[requests[advanced[i].request].plan].revision < workspace.revision
                      \/ workspace.current = workspace.desired
<1>1. ASSUME NEW i \in DOMAIN advanced, advanced'[i] = advanced[i]
      PROVE  /\ Fits(i)'
             /\ plans'[requests'[advanced'[i].request].plan]
                  = plans[requests[advanced[i].request].plan]
             /\ plans[requests[advanced[i].request].plan].revision \in Nat
  <2> DEFINE k == advanced[i].request
             p == requests[k].plan
  <2>1. k \in DOMAIN requests /\ p \in DOMAIN plans
    BY DEF TableType, ReferencesExist
  <2>2. Fits(i)
    BY DEF AdvancedInv
  <2>3. requests'[k].plan = p /\ requests'[k].run = "succeeded"
    BY <2>1, <2>2, RequestsKept
  <2>4. plans'[p] = plans[p]
    BY <2>1, PlansKept
  <2>5. plans[p] \in PlanRows
    BY <2>1 DEF TableType
  <2>6. plans[p].revision \in Nat
    BY <2>5 DEF PlanRows
  <2>7. QED
    BY <1>1, <2>2, <2>3, <2>4, <2>6
<1>2. workspace.revision \in Nat
  BY DEF TableType
<1>3. CASE UNCHANGED advanced /\ ~CurrentAdvanced
  <2>1. \/ workspace'.revision = workspace.revision + 1 /\ UNCHANGED plans
        \/ UNCHANGED workspace
    BY <1>3, WorkspaceStep
  <2>2. ASSUME NEW i \in DOMAIN advanced
        PROVE  Past(i)'
    <3>1. Past(i) /\ plans[requests[advanced[i].request].plan].revision <= workspace.revision
      BY DEF AdvancedInv, PlansInv, TableType, ReferencesExist
    <3>2. /\ plans'[requests'[advanced'[i].request].plan]
                  = plans[requests[advanced[i].request].plan]
          /\ plans[requests[advanced[i].request].plan].revision \in Nat
      BY <1>1, <1>3
    <3>3. CASE workspace'.revision = workspace.revision + 1
      BY <1>2, <3>1, <3>2, <3>3
    <3>4. CASE UNCHANGED workspace
      BY <3>1, <3>2, <3>4
    <3>5. QED
      BY <2>1, <3>3, <3>4
  <2>3. \A i \in DOMAIN advanced' : Fits(i)' /\ Past(i)'
    BY <1>1, <1>3, <2>2
  <2>4. QED
    BY <2>3 DEF AdvancedInv
<1>4. CASE CurrentAdvanced
  <2>1. PICK k \in DOMAIN requests : AdvanceCurrentGraph(k)
    BY <1>4 DEF CurrentAdvanced
  <2>2. workspace'.current = workspace'.desired
    BY <2>1, AdvanceFacts
  <2>3. \A i \in DOMAIN advanced : Fits(i)'
    BY <1>1, <2>1, AdvanceFacts
  <2> PICK n : n = Len(advanced) + 1
    OBVIOUS
  <2>4. Fits(n)'
    BY <2>1, AdvanceFacts
  <2>5. DOMAIN advanced' = DOMAIN advanced \cup {Len(advanced) + 1}
    BY <2>1, AdvanceFacts
  <2>6. \A i \in DOMAIN advanced' : Fits(i)'
    <3> HIDE DEF Fits
    <3>1. QED
      BY <2>3, <2>4, <2>5
  <2>7. QED
    BY <2>2, <2>6 DEF AdvancedInv
<1>5. QED
  <2>1. UNCHANGED advanced \/ CurrentAdvanced
    BY WorkspaceStep
  <2>2. QED
    BY <1>3, <1>4, <2>1

\* The desired graph of a plan is not its base, so a plan that advanced is not
\* current again until the desired graph changes, and then it is outdated.
LEMMA OnceStep ==
    ASSUME TableType, Shape, PlansInv, RequestsInv, AdvancedInv, PlanAdvancesOnce
    PROVE  PlanAdvancesOnce'
<1>1. ASSUME NEW i \in DOMAIN advanced
      PROVE  /\ advanced[i].request \in DOMAIN requests
             /\ requests'[advanced[i].request].plan = requests[advanced[i].request].plan
  <2>1. advanced[i].request \in DOMAIN requests
    BY DEF TableType, ReferencesExist
  <2>2. QED
    BY <2>1, RequestsKept
<1>2. CASE UNCHANGED advanced
  BY <1>1, <1>2 DEF PlanAdvancesOnce
<1>3. CASE CurrentAdvanced
  <2>1. PICK k \in DOMAIN requests : AdvanceCurrentGraph(k)
    BY <1>3 DEF CurrentAdvanced
  <2> DEFINE p == requests[k].plan
  <2>2. /\ DOMAIN advanced' = DOMAIN advanced \cup {Len(advanced) + 1}
        /\ \A j \in DOMAIN advanced : advanced'[j] = advanced[j]
        /\ advanced'[Len(advanced) + 1].request = k
        /\ UNCHANGED requests
    BY <2>1, AdvanceFacts
  <2>3. ASSUME NEW i \in DOMAIN advanced
        PROVE  requests[advanced[i].request].plan # p
    <3>1. SUFFICES ASSUME requests[advanced[i].request].plan = p
                   PROVE  FALSE
      OBVIOUS
    <3>2. /\ workspace.current = plans[p].base
          /\ workspace.desired = plans[p].desired
          /\ workspace.revision = plans[p].revision
      BY <2>1, AdvanceFacts
    <3>3. plans[p].base # plans[p].desired
      BY DEF RequestsInv
    <3>4. plans[p].revision < workspace.revision \/ workspace.current = workspace.desired
      BY <3>1 DEF AdvancedInv
    <3>5. workspace.revision \in Nat
      BY DEF TableType
    <3>6. QED
      BY <3>2, <3>3, <3>4, <3>5
  <2>4. QED
    BY <2>2, <2>3 DEF PlanAdvancesOnce
<1>4. QED
  BY <1>2, <1>3, WorkspaceStep

\* Every advancement starts at the current graph.
LEMMA ChainStep ==
    ASSUME TableType, Shape, AdvancementsFormChain
    PROVE  AdvancementsFormChain'
<1>1. CASE UNCHANGED advanced /\ ~CurrentAdvanced
  <2>1. workspace'.current = workspace.current
    BY <1>1, WorkspaceStep
  <2>2. QED
    BY <1>1, <2>1 DEF AdvancementsFormChain
<1>2. CASE CurrentAdvanced
  <2>1. PICK k \in DOMAIN requests : AdvanceCurrentGraph(k)
    BY <1>2 DEF CurrentAdvanced
  <2> DEFINE n == Len(advanced)
             p == requests[k].plan
  <2>2. /\ n \in Nat
        /\ DOMAIN advanced = 1..n
        /\ Len(advanced') = n + 1
        /\ DOMAIN advanced' = DOMAIN advanced \cup {n + 1}
        /\ \A j \in DOMAIN advanced : advanced'[j] = advanced[j]
        /\ advanced'[n + 1].from = plans[p].base
        /\ advanced'[n + 1].to = plans[p].desired
        /\ workspace.current = plans[p].base
        /\ workspace'.current = plans[p].desired
    BY <2>1, AdvanceFacts
  <2>3. advanced = << >> <=> n = 0
    BY DEF TableType
  <2>4. advanced' # << >>
    BY <2>2
  <2>5. advanced'[n + 1].from = IF n + 1 = 1 THEN Identity(1) ELSE advanced'[n].to
    <3>1. CASE n = 0
      BY <2>2, <2>3, <3>1 DEF AdvancementsFormChain
    <3>2. CASE n # 0
      <4>1. n \in DOMAIN advanced
        BY <2>2, <3>2
      <4>2. QED
        BY <2>2, <2>3, <3>2, <4>1 DEF AdvancementsFormChain
    <3>3. QED
      BY <3>1, <3>2
  <2>6. ASSUME NEW i \in DOMAIN advanced
        PROVE  advanced'[i].from = IF i = 1 THEN Identity(1) ELSE advanced'[i - 1].to
    <3>1. i \in 1..n
      BY <2>2
    <3>2. i # 1 => i - 1 \in DOMAIN advanced
      BY <2>2, <3>1
    <3>3. QED
      BY <2>2, <3>2 DEF AdvancementsFormChain
  <2>7. \A i \in DOMAIN advanced' :
           advanced'[i].from = IF i = 1 THEN Identity(1) ELSE advanced'[i - 1].to
    <3>1. (n + 1) - 1 = n
      BY <2>2
    <3>2. QED
      BY <2>2, <2>5, <2>6, <3>1
  <2>8. QED
    BY <2>2, <2>4, <2>7 DEF AdvancementsFormChain, Identity
<1>3. QED
  <2>1. UNCHANGED advanced \/ CurrentAdvanced
    BY WorkspaceStep
  <2>2. QED
    BY <1>1, <1>2, <2>1

----------------------------------------------------------------------------
(* Theorems. *)

\* The inductive invariant holds in every reachable state.
THEOREM ReviewInvariant == DSpec => []ReviewInv
<1>1. DInit => ReviewInv
  <2> SUFFICES ASSUME DInit PROVE ReviewInv
    OBVIOUS
  <2>1. /\ DOMAIN plans = {} /\ DOMAIN approvals = {} /\ DOMAIN requests = {}
        /\ DOMAIN advanced = {} /\ advanced = << >> /\ outdated = {}
        /\ workspace.current = Identity(1)
    BY DEF DInit
  <2>2. PlansInv /\ ApprovalsInv /\ RequestsInv
    BY <2>1 DEF PlansInv, ApprovalsInv, RequestsInv
  <2>3. AdvancedInv /\ PlanAdvancesOnce /\ AdvancementsFormChain
    BY <2>1 DEF AdvancedInv, PlanAdvancesOnce, AdvancementsFormChain
  <2>4. QED
    BY <2>2, <2>3 DEF ReviewInv
<1>2. DInv /\ DInv' /\ ReviewInv /\ [DNext]_dvars => ReviewInv'
  BY StepShapes, PlansStep, ApprovalsStep, RequestsStep, AdvancedStep, OnceStep, ChainStep
     DEF DInv, ReviewInv
<1>3. QED
  BY <1>1, <1>2, DInvariant, PTL DEF DSpec

\* The current graph of a workspace has one history, however many plans made
\* from the same current graph are executed at the same time.
THEOREM OneHistory == DSpec => []AdvancementsFormChain
<1>1. ReviewInv => AdvancementsFormChain
  BY DEF ReviewInv
<1>2. QED
  BY <1>1, ReviewInvariant, PTL

\* No plan becomes current twice.
THEOREM AdvancesOnce == DSpec => []PlanAdvancesOnce
<1>1. ReviewInv => PlanAdvancesOnce
  BY DEF ReviewInv
<1>2. QED
  BY <1>1, ReviewInvariant, PTL

\* Whatever became current was approved with the authority its risk needs, and
\* by a second principal if it is destructive.
THEOREM ReviewedBeforeCurrent == DSpec => []AdvancedWasReviewed
<1>1. DInv /\ ReviewInv => AdvancedWasReviewed
  <2> SUFFICES ASSUME DInv, ReviewInv, NEW i \in DOMAIN advanced
               PROVE  LET r == requests[advanced[i].request]
                          a == approvals[r.approval]
                      IN  /\ r.run = "succeeded"
                          /\ a.plan = r.plan
                          /\ a.decision = "approved"
                          /\ plans[r.plan].base = advanced[i].from
                          /\ plans[r.plan].desired = advanced[i].to
                          /\ IsReady(r.plan)
                          /\ IsDestructive(r.plan) => a.decider \in Destroyers \ {a.requester}
    BY DEF AdvancedWasReviewed
  <2> DEFINE k == advanced[i].request
             a == requests[k].approval
  <2>1. k \in DOMAIN requests /\ a \in DOMAIN approvals
    BY DEF DInv, TableType, ReferencesExist
  <2>2. /\ requests[k].run = "succeeded"
        /\ plans[requests[k].plan].base = advanced[i].from
        /\ plans[requests[k].plan].desired = advanced[i].to
    BY DEF ReviewInv, AdvancedInv
  <2>3. /\ approvals[a].plan = requests[k].plan
        /\ approvals[a].decision = "approved"
        /\ approvals[a].destructive = IsDestructive(requests[k].plan)
        /\ IsReady(requests[k].plan)
    BY <2>1 DEF ReviewInv, RequestsInv
  <2>4. CanApprove(approvals[a].decider, approvals[a].requester, approvals[a].destructive)
    BY <2>1, <2>3 DEF ReviewInv, ApprovalsInv
  <2>5. IsDestructive(requests[k].plan) =>
          approvals[a].decider \in Destroyers \ {approvals[a].requester}
    BY <2>3, <2>4 DEF CanApprove
  <2>6. QED
    BY <2>2, <2>3, <2>5
<1>2. QED
  BY <1>1, DInvariant, ReviewInvariant, PTL

\* A plan that was made before the desired graph changed is never admitted and
\* never becomes current, even if its lineage is desired again.
THEOREM OutdatedNeverMoves == DSpec => NothingOutdatedMoves
<1>1. ASSUME DInv, ReviewInv, DNext
      PROVE  /\ \A i \in DOMAIN requests' \ DOMAIN requests :
                  requests'[i].plan \notin outdated
             /\ \A i \in DOMAIN advanced' \ DOMAIN advanced :
                  requests[advanced'[i].request].plan \notin outdated
  <2>1. TableType /\ Shape
    BY <1>1, StepShapes DEF DInv
  <2>2. ASSUME NEW p \in DOMAIN plans, workspace.revision = plans[p].revision
        PROVE  p \notin outdated
    <3>1. workspace.revision \in Nat
      BY <2>1 DEF TableType
    <3>2. QED
      BY <1>1, <2>2, <3>1 DEF ReviewInv, PlansInv
  <2>3. CASE Admitted
    <3>1. PICK p \in DOMAIN plans, a \in DOMAIN approvals : AdmitPlan(p, a)
      BY <2>3 DEF Admitted
    <3> DEFINE row == [plan |-> p, approval |-> a, status |-> "queued", run |-> "none"]
    <3>2. requests' = Append(requests, row) /\ UNCHANGED advanced
      BY <3>1 DEF AdmitPlan
    <3>3. row \in RequestRows /\ requests \in Seq(RequestRows) /\ row.plan = p
      BY <2>1 DEF RequestRows, TableType
    <3>4. /\ DOMAIN requests' = DOMAIN requests \cup {Len(requests) + 1}
          /\ requests'[Len(requests) + 1] = row
      <4> HIDE DEF row
      <4>1. QED
        BY <3>2, <3>3, AppendRow
    <3>5. workspace.revision = plans[p].revision
      BY <3>1 DEF AdmitPlan, PlanCurrent
    <3>6. p \notin outdated
      BY <2>2, <3>5
    <3>7. QED
      <4> HIDE DEF row
      <4>1. QED
        BY <3>2, <3>3, <3>4, <3>6
  <2>4. CASE CurrentAdvanced
    <3>1. PICK k \in DOMAIN requests : AdvanceCurrentGraph(k)
      BY <2>4 DEF CurrentAdvanced
    <3>2. /\ requests[k].plan \in DOMAIN plans
          /\ workspace.revision = plans[requests[k].plan].revision
          /\ DOMAIN advanced' = DOMAIN advanced \cup {Len(advanced) + 1}
          /\ advanced'[Len(advanced) + 1].request = k
          /\ UNCHANGED requests
      BY <2>1, <3>1, AdvanceFacts
    <3>3. requests[k].plan \notin outdated
      BY <2>2, <3>2
    <3>4. QED
      BY <3>2, <3>3
  <2>5. CASE ~Admitted /\ ~CurrentAdvanced
    <3>1. UNCHANGED advanced
      BY <2>1, <2>5, WorkspaceStep
    <3>2. DOMAIN requests' = DOMAIN requests
      <4>1. CASE RunMoved
        BY <2>1, <4>1 DEF RunMoved, TableType
      <4>2. CASE ~RunMoved
        <5>1. UNCHANGED requests
          BY <2>1, <2>5, <4>2 DEF Shape, NewGraph, NewProjection, NewPlan, NewApproval,
                                  Decided, Quiet, DecideApproval
        <5>2. QED
          BY <5>1
      <4>3. QED
        BY <4>1, <4>2
    <3>3. QED
      BY <3>1, <3>2
  <2>6. QED
    BY <2>3, <2>4, <2>5
<1>2. DInv /\ ReviewInv /\ [DNext]_dvars =>
        [/\ \A i \in DOMAIN requests' \ DOMAIN requests :
              requests'[i].plan \notin outdated
         /\ \A i \in DOMAIN advanced' \ DOMAIN advanced :
              requests[advanced'[i].request].plan \notin outdated]_dvars
  BY <1>1
<1>3. QED
  BY <1>2, DInvariant, ReviewInvariant, PTL DEF DSpec, NothingOutdatedMoves


----------------------------------------------------------------------------
(* What prepare made. *)

\* The rows prepare finds by the key of its command are those it made: one of
\* each kind, for the command, whichever process made them.
GraphsPrepared(s) ==
    /\ \A g, h \in Prepared(graphs, s) : g = h
    /\ \A g \in Prepared(graphs, s) :
         /\ command[s] # NoCommand
         /\ graphs[g].topology = command[s].topology

PlansPrepared(s) ==
    /\ \A q, t \in Prepared(plans, s) : q = t
    /\ \A q \in Prepared(plans, s) :
         /\ command[s] # NoCommand
         /\ plans[q].base = command[s].current
         /\ \E g \in Prepared(graphs, s) : plans[q].desired = Identity(g)

ApprovalsPrepared(s) ==
    /\ \A a, b \in Prepared(approvals, s) : a = b
    /\ \A a \in Prepared(approvals, s) :
         /\ command[s] # NoCommand
         /\ approvals[a].requester = command[s].actor
         /\ approvals[a].plan \in Prepared(plans, s)

\* A call knows rows that prepare made in its session, and the plan it knows
\* sent it where it is.
CallPrepared(c) ==
    /\ c.at \in {"session", "desired"} => c.graph = 0
    /\ c.at \in {"session", "desired", "plan"} => c.plan = 0
    /\ c.at # "approval_required" => c.approval = 0
    /\ c.at \in {"plan", "approval"} \cup Answers => c.graph \in Prepared(graphs, c.session)
    /\ c.at \in {"approval"} \cup Answers => c.plan \in Prepared(plans, c.session)
    /\ c.at \in {"approval", "approval_required"} => ~IsNoOp(c.plan) /\ IsReady(c.plan)
    /\ c.at = "no_changes" => IsNoOp(c.plan)
    /\ c.at = "review_blocked" => ~IsNoOp(c.plan) /\ ~IsReady(c.plan)
    /\ c.at = "approval_required" => c.approval \in Prepared(approvals, c.session)

RowsPrepared == \A s \in Sessions : GraphsPrepared(s) /\ PlansPrepared(s) /\ ApprovalsPrepared(s)

CallsPrepared == \A p \in Processes : CallPrepared(process[p])

\* A row that is appended is prepared if prepare made it.
LEMMA AppendPrepared ==
    ASSUME NEW S, NEW table \in Seq(S), NEW row, NEW s
    PROVE  /\ row.by # "prepare" \/ row.session # s =>
                Prepared(Append(table, row), s) = Prepared(table, s)
           /\ row.by = "prepare" /\ row.session = s =>
                Prepared(Append(table, row), s) = Prepared(table, s) \cup {Len(table) + 1}
           /\ Append(table, row)[Len(table) + 1] = row
<1>1. table \in Seq(S \cup {row})
  OBVIOUS
<1>2. QED
  BY <1>1, AppendRow DEF Prepared

\* What prepare made of the tables stays as it is.
RowsKept ==
    /\ \A g \in DOMAIN graphs : g \in DOMAIN graphs' /\ graphs'[g] = graphs[g]
    /\ \A q \in DOMAIN plans : /\ q \in DOMAIN plans' /\ plans'[q] = plans[q]
                               /\ IsNoOp(q)' = IsNoOp(q) /\ IsReady(q)' = IsReady(q)
    /\ \A a \in DOMAIN approvals : /\ a \in DOMAIN approvals'
                                   /\ approvals'[a].session = approvals[a].session
                                   /\ approvals'[a].by = approvals[a].by
                                   /\ approvals'[a].requester = approvals[a].requester
                                   /\ approvals'[a].plan = approvals[a].plan

LEMMA RowsStep ==
    ASSUME TableType, Shape
    PROVE  RowsKept
<1> USE DEF TableType
<1>1. \A g \in DOMAIN graphs : g \in DOMAIN graphs' /\ graphs'[g] = graphs[g]
  <2>1. CASE NewGraph
    <3>1. PICK row \in GraphRows : graphs' = Append(graphs, row)
      BY <2>1 DEF NewGraph
    <3>2. QED
      BY <3>1, AppendRow
  <2>2. CASE ~NewGraph
    <3>1. UNCHANGED graphs
      BY <2>2 DEF Shape, NewProjection, NewPlan, NewApproval, RunMoved, Decided, Admitted,
                  CurrentAdvanced, Quiet, DecideApproval, AdmitPlan, AdvanceCurrentGraph
    <3>2. QED
      BY <3>1
  <2>3. QED
    BY <2>1, <2>2
<1>2. ASSUME NEW q \in DOMAIN plans
      PROVE  /\ q \in DOMAIN plans' /\ plans'[q] = plans[q]
             /\ IsNoOp(q)' = IsNoOp(q) /\ IsReady(q)' = IsReady(q)
  <2>1. q \in DOMAIN plans' /\ plans'[q] = plans[q] /\ Change(q)' = Change(q)
    BY PlansKept
  <2>2. plans[q].base.graph \in DOMAIN graphs /\ plans[q].desired.graph \in DOMAIN graphs
    BY DEF ReferencesExist
  <2>3. QED
    BY <1>1, <2>1, <2>2 DEF IsNoOp, IsReady, Realizes
<1>3. ASSUME NEW a \in DOMAIN approvals
      PROVE  /\ a \in DOMAIN approvals'
             /\ approvals'[a].session = approvals[a].session
             /\ approvals'[a].by = approvals[a].by
             /\ approvals'[a].requester = approvals[a].requester
             /\ approvals'[a].plan = approvals[a].plan
  <2>1. approvals[a] \in ApprovalRows
    OBVIOUS
  <2>2. CASE NewApproval
    <3>1. PICK row \in ApprovalRows : approvals' = Append(approvals, row)
      BY <2>2 DEF NewApproval
    <3>2. QED
      BY <3>1, AppendRow
  <2>3. CASE Decided
    <3>1. PICK b \in DOMAIN approvals, actor \in Actors, d \in {"approved", "rejected"} :
            approvals' = [approvals EXCEPT ![b] =
                            [approvals[b] EXCEPT !.decision = d, !.decider = actor]]
      BY <2>3 DEF Decided, DecideApproval
    <3>2. CASE a = b
      BY <2>1, <3>1, <3>2 DEF ApprovalRows
    <3>3. CASE a # b
      BY <3>1, <3>3
    <3>4. QED
      BY <3>2, <3>3
  <2>4. CASE ~NewApproval /\ ~Decided
    <3>1. UNCHANGED approvals
      BY <2>4 DEF Shape, NewGraph, NewProjection, NewPlan, RunMoved, Admitted,
                  CurrentAdvanced, Quiet, AdmitPlan, AdvanceCurrentGraph
    <3>2. QED
      BY <3>1
  <2>5. QED
    BY <2>2, <2>3, <2>4
<1>4. QED
  BY <1>1, <1>2, <1>3 DEF RowsKept


\* A key stands for one command for ever.
LEMMA CommandsKept ==
    ASSUME DInv, [DNext]_dvars, NEW s \in Sessions, command[s] # NoCommand
    PROVE  command'[s] = command[s]
<1>1. CASE UNCHANGED command
  BY <1>1
<1>2. ASSUME NEW p \in Processes, NEW r \in Sessions, NEW actor \in Actors, NEW t \in Topologies,
             CallPrepare(p, r, actor, t)
      PROVE  command'[s] = command[s]
  <2>1. r # s
    BY <1>2 DEF CallPrepare
  <2>2. PICK m : command' = [command EXCEPT ![r] = m]
    BY <1>2 DEF CallPrepare
  <2>3. QED
    BY <2>1, <2>2 DEF DInv, ControlType
<1>3. QED
  BY <1>1, <1>2 DEF DNext, OperatorStep, StartSession, SetDesiredGraph, RequestPlan,
     RequestApproval, PublishProjection, EndSession, ReviewStep, DecideApproval, AdmitPlan,
     ExecutionStep, ClaimRequest, SucceedRun, FailRun, RetryRun, AbandonClaim, RunStep,
     AdvanceCurrentGraph, PrepareStep, PrepareSession, PrepareDesired, PreparePlan,
     PrepareApproval, AbortPrepare, Unchanged, CallAgain, dvars

\* A prepared row stays prepared.
LEMMA PreparedStay ==
    ASSUME TableType, RowsKept, NEW s
    PROVE  /\ Prepared(graphs, s) \subseteq Prepared(graphs, s)'
           /\ Prepared(plans, s) \subseteq Prepared(plans, s)'
           /\ Prepared(approvals, s) \subseteq Prepared(approvals, s)'
BY DEF RowsKept, Prepared

\* What a call knows stays true.
LEMMA CallStays ==
    ASSUME TableType, RowsKept, NEW c, CallPrepared(c)
    PROVE  CallPrepared(c)'
<1>1. /\ Prepared(graphs, c.session) \subseteq Prepared(graphs, c.session)'
      /\ Prepared(plans, c.session) \subseteq Prepared(plans, c.session)'
      /\ Prepared(approvals, c.session) \subseteq Prepared(approvals, c.session)'
  BY PreparedStay
<1>2. c.at \in {"approval"} \cup Answers =>
        IsNoOp(c.plan)' = IsNoOp(c.plan) /\ IsReady(c.plan)' = IsReady(c.plan)
  BY DEF CallPrepared, RowsKept, Prepared
<1>3. QED
  BY <1>1, <1>2 DEF CallPrepared, Answers

\* A session in which prepare makes no row of a kind keeps what is known of it.
LEMMA RowsStay ==
    ASSUME TableType, RowsKept, NEW s \in Sessions,
           command[s] # NoCommand => command'[s] = command[s],
           GraphsPrepared(s), PlansPrepared(s), ApprovalsPrepared(s)
    PROVE  /\ Prepared(graphs, s)' = Prepared(graphs, s) => GraphsPrepared(s)'
           /\ Prepared(plans, s)' = Prepared(plans, s) => PlansPrepared(s)'
           /\ Prepared(approvals, s)' = Prepared(approvals, s) => ApprovalsPrepared(s)'
<1>1. /\ Prepared(graphs, s) \subseteq Prepared(graphs, s)'
      /\ Prepared(plans, s) \subseteq Prepared(plans, s)'
  BY PreparedStay
<1>2. ASSUME Prepared(graphs, s)' = Prepared(graphs, s)
      PROVE  GraphsPrepared(s)'
  <2>1. \A g \in Prepared(graphs, s) : graphs'[g] = graphs[g]
    BY DEF RowsKept, Prepared
  <2>2. QED
    BY <1>2, <2>1 DEF GraphsPrepared
<1>3. ASSUME Prepared(plans, s)' = Prepared(plans, s)
      PROVE  PlansPrepared(s)'
  <2>1. \A q \in Prepared(plans, s) : plans'[q] = plans[q]
    BY DEF RowsKept, Prepared
  <2>2. QED
    BY <1>1, <1>3, <2>1 DEF PlansPrepared
<1>4. ASSUME Prepared(approvals, s)' = Prepared(approvals, s)
      PROVE  ApprovalsPrepared(s)'
  <2>1. \A a \in Prepared(approvals, s) : /\ approvals'[a].requester = approvals[a].requester
                                          /\ approvals'[a].plan = approvals[a].plan
    BY DEF RowsKept, Prepared
  <2>2. QED
    BY <1>1, <1>4, <2>1 DEF ApprovalsPrepared
<1>5. QED
  BY <1>2, <1>3, <1>4

\* Only the child commands of prepare make prepared rows.
LEMMA OthersPrepareNothing ==
    ASSUME DInv, [DNext]_dvars, NEW s,
           ~\E p \in Processes : PrepareDesired(p) \/ PreparePlan(p) \/ PrepareApproval(p)
    PROVE  /\ Prepared(graphs, s)' = Prepared(graphs, s)
           /\ Prepared(plans, s)' = Prepared(plans, s)
           /\ Prepared(approvals, s)' = Prepared(approvals, s)
<1>1. CASE UNCHANGED <<graphs, plans, approvals>>
  BY <1>1
<1>2. ASSUME NEW r \in Sessions, NEW t \in Topologies,
             SetDesiredGraph(r, "operator", t, workspace.desired, workspace.revision)
      PROVE  Prepared(graphs, s)' = Prepared(graphs, s) /\ UNCHANGED <<plans, approvals>>
  <2>1. PICK row : graphs' = Append(graphs, row) /\ row.by = "operator"
    BY <1>2 DEF SetDesiredGraph
  <2>2. QED
    BY <1>2, <2>1, AppendPrepared DEF SetDesiredGraph, DInv, TableType
<1>3. ASSUME NEW r \in Sessions,
             RequestPlan(r, "operator", workspace.current, workspace.desired, workspace.revision)
      PROVE  Prepared(plans, s)' = Prepared(plans, s) /\ UNCHANGED <<graphs, approvals>>
  <2>1. PICK row : plans' = Append(plans, row) /\ row.by = "operator"
    BY <1>3 DEF RequestPlan
  <2>2. QED
    BY <1>3, <2>1, AppendPrepared DEF RequestPlan, DInv, TableType
<1>4. ASSUME NEW r \in Sessions, NEW q, NEW actor, RequestApproval(r, "operator", q, actor)
      PROVE  Prepared(approvals, s)' = Prepared(approvals, s) /\ UNCHANGED <<graphs, plans>>
  <2>1. PICK row : approvals' = Append(approvals, row) /\ row.by = "operator"
    BY <1>4 DEF RequestApproval
  <2>2. QED
    BY <1>4, <2>1, AppendPrepared DEF RequestApproval, DInv, TableType
<1>5. ASSUME NEW a, NEW actor, NEW d, DecideApproval(a, actor, d)
      PROVE  Prepared(approvals, s)' = Prepared(approvals, s) /\ UNCHANGED <<graphs, plans>>
  <2>1. /\ DOMAIN approvals' = DOMAIN approvals
        /\ \A b \in DOMAIN approvals : /\ approvals'[b].session = approvals[b].session
                                       /\ approvals'[b].by = approvals[b].by
    <3>1. approvals' = [approvals EXCEPT ![a] =
                          [approvals[a] EXCEPT !.decision = d, !.decider = actor]]
      BY <1>5 DEF DecideApproval
    <3>2. \A b \in DOMAIN approvals : approvals[b] \in ApprovalRows
      BY DEF DInv, TableType
    <3>3. QED
      BY <3>1, <3>2 DEF ApprovalRows
  <2>2. QED
    BY <1>5, <2>1 DEF DecideApproval, Prepared
<1>6. CASE OperatorStep
  BY <1>1, <1>2, <1>3, <1>4, <1>6 DEF OperatorStep, StartSession
<1>7. CASE ReviewStep
  BY <1>1, <1>5, <1>7 DEF ReviewStep, AdmitPlan
<1>8. CASE ExecutionStep
  BY <1>1, <1>8 DEF ExecutionStep, ClaimRequest, SucceedRun, FailRun, RetryRun, AbandonClaim,
     RunStep, AdvanceCurrentGraph
<1>9. QED
  BY <1>1, <1>6, <1>7, <1>8 DEF DNext, PublishProjection, EndSession, PrepareStep,
     PrepareSession, StartSession, AbortPrepare, Unchanged, CallAgain, CallPrepare, dvars


\* One call moves; what the others know stays true.
LEMMA CallsStay ==
    ASSUME DInv, RowsKept, CallsPrepared, NEW p \in Processes, NEW c, Continue(p, c),
           CallPrepared(c)'
    PROVE  CallsPrepared'
<1>1. ASSUME NEW q \in Processes
      PROVE  CallPrepared(process[q])'
  <2>1. CASE q = p
    <3>1. process'[q] = c
      BY <2>1 DEF Continue, DInv, ControlType
    <3>2. QED
      BY <3>1 DEF CallPrepared
  <2>2. CASE q # p
    <3>1. PICK d : d = process[q]
      OBVIOUS
    <3>2. process'[q] = d
      BY <2>2, <3>1 DEF Continue, DInv, ControlType
    <3>3. CallPrepared(d)'
      BY <3>1, CallStays DEF CallsPrepared, DInv
    <3>4. QED
      BY <3>2, <3>3 DEF CallPrepared
  <2>3. QED
    BY <2>1, <2>2
<1>2. QED
  BY <1>1 DEF CallsPrepared

\* The graph is authored, or found by its key.
LEMMA DesiredPrepared ==
    ASSUME DInv, RowsKept, RowsPrepared, CallsPrepared, NEW p \in Processes, PrepareDesired(p)
    PROVE  RowsPrepared' /\ CallsPrepared'
<1>1. PICK c, s : c = process[p] /\ s = c.session
  OBVIOUS
<1>2. /\ c \in Calls /\ c.at = "desired" /\ CallPrepared(c)
      /\ s \in Sessions /\ command[s] # NoCommand /\ UNCHANGED <<command, plans, approvals>>
  BY <1>1, DeploymentAssumption
  DEF PrepareDesired, SetDesiredGraph, Unchanged, DInv, ControlType, CallsInv, CallOK, CallsPrepared
<1>3. PICK g : /\ Continue(p, [c EXCEPT !.at = "plan", !.graph = g])
               /\ \/ /\ Prepared(graphs, s) = {} /\ g = Len(graphs) + 1
                     /\ \E row : /\ graphs' = Append(graphs, row)
                                 /\ row.by = "prepare" /\ row.session = s
                                 /\ row.topology = command[s].topology
                  \/ g \in Prepared(graphs, s) /\ UNCHANGED graphs
  <2>1. CASE /\ Prepared(graphs, s) = {}
             /\ SetDesiredGraph(s, "prepare", command[s].topology, command[s].desired,
                                command[s].revision)
             /\ Continue(p, [c EXCEPT !.at = "plan", !.graph = Len(graphs) + 1])
    <3>1. PICK row : /\ row = [session |-> s, by |-> "prepare", topology |-> command[s].topology,
                               revision |-> command[s].revision + 1]
                     /\ graphs' = Append(graphs, row)
      BY <2>1 DEF SetDesiredGraph
    <3>2. PICK g : g = Len(graphs) + 1
      OBVIOUS
    <3>3. Continue(p, [c EXCEPT !.at = "plan", !.graph = g])
      BY <2>1, <3>2
    <3>4. /\ row.by = "prepare" /\ row.session = s
          /\ row.topology = command[s].topology
      BY <3>1
    <3>5. QED
      BY <2>1, <3>1, <3>2, <3>3, <3>4
  <2>2. CASE \E g \in Prepared(graphs, s) :
               Continue(p, [c EXCEPT !.at = "plan", !.graph = g]) /\ Unchanged
    BY <2>2 DEF Unchanged
  <2>3. QED
    BY <1>1, <2>1, <2>2 DEF PrepareDesired
<1>4. /\ GraphsPrepared(s)' /\ g \in Prepared(graphs, s)'
      /\ \A t \in Sessions \ {s} : Prepared(graphs, t)' = Prepared(graphs, t)
  <2>1. CASE UNCHANGED graphs
    BY <1>2, <1>3, <2>1 DEF RowsPrepared, GraphsPrepared, Prepared, DInv, TableType
  <2>2. CASE graphs' # graphs
    <3>1. PICK row : /\ graphs' = Append(graphs, row)
                     /\ row.by = "prepare" /\ row.session = s
                     /\ row.topology = command[s].topology
      BY <1>3, <2>2
    <3>2. /\ Prepared(graphs, s)' = {g} /\ graphs'[g] = row
          /\ \A t \in Sessions \ {s} : Prepared(graphs, t)' = Prepared(graphs, t)
      <4>1. graphs \in Seq(GraphRows)
        BY DEF DInv, TableType
      <4>2. Prepared(graphs, s) = {} /\ g = Len(graphs) + 1
        BY <1>3, <2>2
      <4>3. /\ Prepared(Append(graphs, row), s) = Prepared(graphs, s) \cup {Len(graphs) + 1}
            /\ Append(graphs, row)[Len(graphs) + 1] = row
        BY <3>1, <4>1, AppendPrepared
      <4>4. ASSUME NEW t \in Sessions \ {s}
            PROVE  Prepared(graphs, t)' = Prepared(graphs, t)
        BY <3>1, <4>1, AppendPrepared
      <4>5. QED
        BY <3>1, <4>2, <4>3, <4>4
    <3>3. QED
      BY <1>2, <3>1, <3>2 DEF GraphsPrepared
  <2>3. QED
    BY <2>1, <2>2
<1>5. RowsPrepared'
  BY <1>2, <1>4, RowsStay DEF RowsPrepared, DInv
<1>6. PICK d : d = [c EXCEPT !.at = "plan", !.graph = g]
  OBVIOUS
<1>7. /\ d.at = "plan" /\ d.graph = g /\ d.session = s /\ d.plan = c.plan
      /\ d.approval = c.approval
  BY <1>1, <1>2, <1>6 DEF Calls
<1>8. CallPrepared(d)'
  BY <1>2, <1>4, <1>7 DEF CallPrepared, Answers
<1>9. QED
  BY <1>3, <1>5, <1>6, <1>8, CallsStay

\* The plan is made for the graph that the call knows, or found by its key.
LEMMA PlanPrepared ==
    ASSUME DInv, RowsKept, RowsPrepared, CallsPrepared, NEW p \in Processes, PreparePlan(p)
    PROVE  RowsPrepared' /\ CallsPrepared'
<1>1. PICK c, s : c = process[p] /\ s = c.session
  OBVIOUS
<1>2. /\ c \in Calls /\ c.at = "plan" /\ CallPrepared(c)
      /\ s \in Sessions /\ command[s] # NoCommand /\ UNCHANGED <<command, graphs, approvals>>
  BY <1>1, DeploymentAssumption
  DEF PreparePlan, RequestPlan, Unchanged, DInv, ControlType, CallsInv, CallOK, CallsPrepared
<1>3. c.graph \in Prepared(graphs, s)
  BY <1>1, <1>2 DEF CallPrepared
<1>4. PICK q, at :
        /\ Continue(p, [c EXCEPT !.at = at, !.plan = q])
        /\ PlansPrepared(s)' /\ q \in Prepared(plans, s)'
        /\ \A t \in Sessions \ {s} : Prepared(plans, t)' = Prepared(plans, t)
        /\ at = AfterPlan(IsNoOp(q), IsReady(q))'
  <2>1. CASE Prepared(plans, s) # {}
    <3>1. UNCHANGED plans
      BY <1>1, <2>1 DEF PreparePlan, Unchanged
    <3>2. PICK q \in Prepared(plans, s) :
            Continue(p, [c EXCEPT !.at = AfterPlan(IsNoOp(q), IsReady(q)), !.plan = q])
      BY <1>1, <2>1 DEF PreparePlan
    <3>3. IsNoOp(q)' = IsNoOp(q) /\ IsReady(q)' = IsReady(q)
      BY DEF RowsKept, Prepared
    <3>4. PICK at : at = AfterPlan(IsNoOp(q), IsReady(q))
      OBVIOUS
    <3>5. at = AfterPlan(IsNoOp(q), IsReady(q))'
      BY <3>3, <3>4 DEF AfterPlan
    <3>6. PlansPrepared(s)' /\ q \in Prepared(plans, s)'
      BY <1>2, <3>1 DEF RowsPrepared, PlansPrepared, Prepared
    <3>7. QED
      BY <3>1, <3>2, <3>4, <3>5, <3>6
  <2>2. CASE Prepared(plans, s) = {}
    <3>1. PICK row, q, at :
            /\ row = [session |-> s, by |-> "prepare", base |-> command[s].current,
                      desired |-> Identity(c.graph), revision |-> graphs[c.graph].revision]
            /\ q = Len(plans) + 1
            /\ at = AfterPlan(Realizes(command[s].current) = Realizes(Identity(c.graph)),
                              <<graphs[command[s].current.graph].topology,
                                graphs[c.graph].topology>> \notin Blocked)
      OBVIOUS
    <3>2. /\ plans' = Append(plans, row)
          /\ Continue(p, [c EXCEPT !.at = at, !.plan = q])
      BY <1>1, <2>2, <3>1 DEF PreparePlan, RequestPlan
    <3>3. /\ Prepared(plans, s)' = {q} /\ plans'[q] = row
          /\ \A t \in Sessions \ {s} : Prepared(plans, t)' = Prepared(plans, t)
      <4>1. plans \in Seq(PlanRows) /\ row.by = "prepare" /\ row.session = s
        BY <3>1 DEF DInv, TableType
      <4>2. /\ Prepared(Append(plans, row), s) = Prepared(plans, s) \cup {Len(plans) + 1}
            /\ Append(plans, row)[Len(plans) + 1] = row
        BY <4>1, AppendPrepared
      <4>3. ASSUME NEW t \in Sessions \ {s}
            PROVE  Prepared(plans, t)' = Prepared(plans, t)
        BY <3>2, <4>1, AppendPrepared
      <4>4. QED
        BY <2>2, <3>1, <3>2, <4>2, <4>3
    <3>4. PlansPrepared(s)'
      BY <1>2, <1>3, <3>1, <3>3 DEF PlansPrepared, Prepared
    <3>5. /\ IsNoOp(q)' <=> Realizes(command[s].current) = Realizes(Identity(c.graph))
          /\ IsReady(q)' <=> <<graphs[command[s].current.graph].topology,
                               graphs[c.graph].topology>> \notin Blocked
      BY <1>2, <3>1, <3>3 DEF IsNoOp, IsReady, Change, Realizes, Identity
    <3>6. at = AfterPlan(IsNoOp(q), IsReady(q))'
      BY <3>1, <3>5 DEF AfterPlan
    <3>7. QED
      BY <3>2, <3>3, <3>4, <3>6
  <2>3. QED
    BY <2>1, <2>2
<1>5. RowsPrepared'
  BY <1>2, <1>4, RowsStay DEF RowsPrepared, DInv
<1>6. PICK d : d = [c EXCEPT !.at = at, !.plan = q]
  OBVIOUS
<1>7. /\ d.at = at /\ d.graph = c.graph /\ d.session = s /\ d.plan = q
      /\ d.approval = c.approval
  BY <1>1, <1>2, <1>6 DEF Calls
<1>8. /\ c.graph \in Prepared(graphs, s)' /\ c.approval = 0
  BY <1>2, <1>3 DEF CallPrepared, Prepared
<1>9. CallPrepared(d)'
  BY <1>4, <1>7, <1>8 DEF CallPrepared, Answers, AfterPlan
<1>10. QED
  BY <1>4, <1>5, <1>6, <1>9, CallsStay


\* The approval is requested for the plan that the call knows, or found by its
\* key.
LEMMA ApprovalPrepared ==
    ASSUME DInv, RowsKept, RowsPrepared, CallsPrepared, NEW p \in Processes, PrepareApproval(p)
    PROVE  RowsPrepared' /\ CallsPrepared'
<1>1. PICK c, s : c = process[p] /\ s = c.session
  OBVIOUS
<1>2. /\ c \in Calls /\ c.at = "approval" /\ CallPrepared(c)
      /\ s \in Sessions /\ command[s] # NoCommand /\ UNCHANGED <<command, graphs, plans>>
  BY <1>1, DeploymentAssumption
  DEF PrepareApproval, RequestApproval, Unchanged, DInv, ControlType, CallsInv, CallOK,
      CallsPrepared
<1>3. c.plan \in Prepared(plans, s)
  BY <1>1, <1>2 DEF CallPrepared
<1>4. PICK a :
        /\ Continue(p, [c EXCEPT !.at = "approval_required", !.approval = a])
        /\ ApprovalsPrepared(s)' /\ a \in Prepared(approvals, s)'
        /\ \A t \in Sessions \ {s} : Prepared(approvals, t)' = Prepared(approvals, t)
  <2>1. CASE Prepared(approvals, s) # {}
    <3>1. UNCHANGED approvals
      BY <1>1, <2>1 DEF PrepareApproval, Unchanged
    <3>2. PICK a \in Prepared(approvals, s) :
            Continue(p, [c EXCEPT !.at = "approval_required", !.approval = a])
      BY <1>1, <2>1 DEF PrepareApproval
    <3>3. ApprovalsPrepared(s)' /\ a \in Prepared(approvals, s)'
      BY <1>2, <3>1 DEF RowsPrepared, ApprovalsPrepared, Prepared
    <3>4. QED
      BY <3>1, <3>2, <3>3
  <2>2. CASE Prepared(approvals, s) = {}
    <3>1. PICK row, a :
            /\ row = [session |-> s, by |-> "prepare", plan |-> c.plan,
                      requester |-> command[s].actor, destructive |-> IsDestructive(c.plan),
                      decision |-> "none", decider |-> "none"]
            /\ a = Len(approvals) + 1
      OBVIOUS
    <3>2. /\ approvals' = Append(approvals, row)
          /\ Continue(p, [c EXCEPT !.at = "approval_required", !.approval = a])
      BY <1>1, <2>2, <3>1 DEF PrepareApproval, RequestApproval
    <3>3. approvals \in Seq(ApprovalRows) /\ row.by = "prepare" /\ row.session = s
      BY <3>1 DEF DInv, TableType
    <3>4. /\ Prepared(Append(approvals, row), s) = Prepared(approvals, s) \cup {Len(approvals) + 1}
          /\ Append(approvals, row)[Len(approvals) + 1] = row
      BY <3>3, AppendPrepared
    <3>5. ASSUME NEW t \in Sessions \ {s}
          PROVE  Prepared(approvals, t)' = Prepared(approvals, t)
      BY <3>2, <3>3, AppendPrepared
    <3>6. Prepared(approvals, s)' = {a} /\ approvals'[a] = row
      BY <2>2, <3>1, <3>2, <3>4
    <3>7. ApprovalsPrepared(s)'
      BY <1>2, <1>3, <3>1, <3>6 DEF ApprovalsPrepared, Prepared
    <3>8. QED
      BY <3>2, <3>5, <3>6, <3>7
  <2>3. QED
    BY <2>1, <2>2
<1>5. RowsPrepared'
  BY <1>2, <1>4, RowsStay DEF RowsPrepared, DInv
<1>6. PICK d : d = [c EXCEPT !.at = "approval_required", !.approval = a]
  OBVIOUS
<1>7. /\ d.at = "approval_required" /\ d.graph = c.graph /\ d.session = s
      /\ d.plan = c.plan /\ d.approval = a
  BY <1>1, <1>2, <1>6 DEF Calls
<1>8. CallPrepared(c)'
  BY <1>2, CallStays DEF DInv
<1>9. CallPrepared(d)'
  BY <1>1, <1>2, <1>4, <1>7, <1>8 DEF CallPrepared, Answers
<1>10. QED
  BY <1>4, <1>5, <1>6, <1>9, CallsStay


LEMMA PreparedStep ==
    DInv /\ RowsPrepared /\ CallsPrepared /\ [DNext]_dvars => RowsPrepared' /\ CallsPrepared'
<1> SUFFICES ASSUME DInv, RowsPrepared, CallsPrepared, [DNext]_dvars
             PROVE  RowsPrepared' /\ CallsPrepared'
  OBVIOUS
<1>1. RowsKept
  BY StepShapes, RowsStep DEF DInv
<1>2. CASE \E p \in Processes : PrepareDesired(p) \/ PreparePlan(p) \/ PrepareApproval(p)
  BY <1>1, <1>2, DesiredPrepared, PlanPrepared, ApprovalPrepared
<1>3. CASE ~\E p \in Processes : PrepareDesired(p) \/ PreparePlan(p) \/ PrepareApproval(p)
  <2>1. ASSUME NEW s \in Sessions
        PROVE  GraphsPrepared(s)' /\ PlansPrepared(s)' /\ ApprovalsPrepared(s)'
    <3>1. command[s] # NoCommand => command'[s] = command[s]
      BY CommandsKept
    <3>2. /\ Prepared(graphs, s)' = Prepared(graphs, s)
          /\ Prepared(plans, s)' = Prepared(plans, s)
          /\ Prepared(approvals, s)' = Prepared(approvals, s)
      BY <1>3, OthersPrepareNothing
    <3>3. QED
      BY <1>1, <3>1, <3>2, RowsStay DEF RowsPrepared, DInv
  <2>2. CASE UNCHANGED process
    <3>1. ASSUME NEW p \in Processes
          PROVE  CallPrepared(process[p])'
      <4>1. PICK c : c = process[p]
        OBVIOUS
      <4>2. CallPrepared(c)'
        BY <1>1, <4>1, CallStays DEF CallsPrepared, DInv
      <4>3. QED
        BY <2>2, <4>1, <4>2 DEF CallPrepared
    <3>2. QED
      BY <2>1, <3>1 DEF RowsPrepared, CallsPrepared
  <2>3. CASE process' # process
    <3>1. PICK p \in Processes :
            \/ PrepareSession(p) \/ AbortPrepare(p)
            \/ \E s \in Sessions :
                 \/ CallAgain(p, s)
                 \/ \E actor \in Actors, t \in Topologies : CallPrepare(p, s, actor, t)
      BY <1>3, <2>3 DEF DNext, OperatorStep, PublishProjection, EndSession, ReviewStep,
         DecideApproval, AdmitPlan, ExecutionStep, ClaimRequest, SucceedRun, FailRun, RetryRun,
         AbandonClaim, RunStep, AdvanceCurrentGraph, PrepareStep, dvars
    <3>2. PICK c : Continue(p, c) /\ CallPrepared(c)'
      <4>1. CASE PrepareSession(p)
        <5>1. PICK c, d : c = process[p] /\ d = [c EXCEPT !.at = "desired"]
          OBVIOUS
        <5>2. /\ c.at = "session" /\ c \in Calls /\ CallPrepared(c) /\ Continue(p, d)
          BY <4>1, <5>1 DEF PrepareSession, DInv, ControlType, CallsPrepared
        <5>3. d.at = "desired" /\ d.graph = c.graph /\ d.plan = c.plan /\ d.approval = c.approval
          BY <5>1, <5>2 DEF Calls
        <5>4. CallPrepared(d)'
          BY <5>2, <5>3 DEF CallPrepared, Answers
        <5>5. QED
          BY <5>2, <5>4
      <4>2. CASE AbortPrepare(p)
        <5>1. CallPrepared(NotCalled)'
          BY DEF CallPrepared, NotCalled, Answers
        <5>2. QED
          BY <4>2, <5>1 DEF AbortPrepare
      <4>3. ASSUME NEW s \in Sessions,
                   \/ CallAgain(p, s)
                   \/ \E actor \in Actors, t \in Topologies : CallPrepare(p, s, actor, t)
            PROVE  Continue(p, Begun(s)) /\ CallPrepared(Begun(s))'
        BY <4>3 DEF CallAgain, CallPrepare, Continue, CallPrepared, Begun, NotCalled, Answers
      <4>4. QED
        BY <3>1, <4>1, <4>2, <4>3
    <3>3. QED
      BY <1>1, <2>1, <3>2, CallsStay DEF RowsPrepared
  <2>4. QED
    BY <2>2, <2>3
<1>4. QED
  BY <1>2, <1>3

LEMMA PreparedInit == DInit => RowsPrepared /\ CallsPrepared
<1> SUFFICES ASSUME DInit PROVE RowsPrepared /\ CallsPrepared
  OBVIOUS
<1>1. ASSUME NEW s
      PROVE  Prepared(graphs, s) = {} /\ Prepared(plans, s) = {} /\ Prepared(approvals, s) = {}
  <2>1. \A g \in DOMAIN graphs : graphs[g].by = "operator"
    BY DEF DInit
  <2>2. QED
    BY <2>1 DEF DInit, Prepared
<1>2. QED
  BY <1>1 DEF DInit, RowsPrepared, GraphsPrepared, PlansPrepared, ApprovalsPrepared,
     CallsPrepared, CallPrepared, NotCalled, Answers

\* The rows that prepare made are those of its command, one of each kind.
THEOREM PreparedInvariant == DSpec => [](RowsPrepared /\ CallsPrepared)
BY DInvariant, PreparedInit, PreparedStep, PTL DEF DSpec

\* Running prepare again, in any process and after any crash, gives the same
\* answer about the same rows: its child keys are derived from the command's.
THEOREM RetriesAnswerAlike == DSpec => []RetriesAgree
<1>1. DInv /\ RowsPrepared /\ CallsPrepared => RetriesAgree
  <2> SUFFICES ASSUME DInv, RowsPrepared, CallsPrepared, NEW p \in Processes, NEW q \in Processes,
                      process[p].at \in Answers, process[q].at \in Answers,
                      process[p].session = process[q].session
               PROVE  process[p] = process[q]
    BY DEF RetriesAgree
  <2>1. PICK c, d, s : c = process[p] /\ d = process[q] /\ s = c.session
    OBVIOUS
  <2>2. /\ c \in Calls /\ d \in Calls /\ CallPrepared(c) /\ CallPrepared(d) /\ d.session = s
        /\ c.at \in Answers /\ d.at \in Answers
    BY <2>1 DEF DInv, ControlType, CallsPrepared
  <2>3. s \in Sessions
    BY <2>1, <2>2 DEF DInv, CallsInv, CallOK, Answers
  <2>4. c.graph = d.graph /\ c.plan = d.plan
    BY <2>1, <2>2, <2>3 DEF CallPrepared, RowsPrepared, GraphsPrepared, PlansPrepared
  <2>5. c.at = d.at
    BY <2>2, <2>4 DEF CallPrepared, Answers
  <2>6. c.approval = d.approval
    BY <2>1, <2>2, <2>3, <2>5 DEF CallPrepared, RowsPrepared, ApprovalsPrepared
  <2>7. QED
    BY <2>1, <2>2, <2>4, <2>5, <2>6 DEF Calls
<1>2. QED
  BY <1>1, DInvariant, PreparedInvariant, PTL

\* The approval that prepare asks for is about its own command, although every
\* child command is a transaction of its own and others change the desired graph
\* between them.
THEOREM PreparedAsIntended == DSpec => []PreparedIsIntended
<1>1. DInv /\ RowsPrepared /\ CallsPrepared => PreparedIsIntended
  <2> SUFFICES ASSUME DInv, RowsPrepared, CallsPrepared, NEW p \in Processes,
                      process[p].at = "approval_required"
               PROVE  LET m == command[process[p].session]
                          a == approvals[process[p].approval]
                          q == plans[a.plan]
                      IN  /\ a.plan = process[p].plan
                          /\ a.requester = m.actor
                          /\ q.base = m.current
                          /\ q.desired = Identity(process[p].graph)
                          /\ graphs[process[p].graph].topology = m.topology
                          /\ ~IsNoOp(a.plan)
    BY DEF PreparedIsIntended
  <2>1. PICK c, s : c = process[p] /\ s = c.session
    OBVIOUS
  <2>2. s \in Sessions /\ CallPrepared(c) /\ c.at = "approval_required"
    BY <2>1 DEF DInv, CallsInv, CallOK, CallsPrepared
  <2>3. /\ c.graph \in Prepared(graphs, s) /\ c.plan \in Prepared(plans, s)
        /\ c.approval \in Prepared(approvals, s) /\ ~IsNoOp(c.plan)
    BY <2>1, <2>2 DEF CallPrepared, Answers
  <2>4. /\ approvals[c.approval].plan = c.plan
        /\ approvals[c.approval].requester = command[s].actor
    BY <2>2, <2>3 DEF RowsPrepared, PlansPrepared, ApprovalsPrepared
  <2>5. /\ plans[c.plan].base = command[s].current
        /\ plans[c.plan].desired = Identity(c.graph)
        /\ graphs[c.graph].topology = command[s].topology
    BY <2>2, <2>3 DEF RowsPrepared, GraphsPrepared, PlansPrepared
  <2>6. QED
    BY <2>1, <2>3, <2>4, <2>5
<1>2. QED
  BY <1>1, DInvariant, PreparedInvariant, PTL

=============================================================================
