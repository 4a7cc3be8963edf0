-------------------------- MODULE CoordinatorSafety --------------------------
(***************************************************************************)
(* Safety theorems of Coordinator: commands are dispatched once, runtime   *)
(* effects are invoked once and a completed receipt tells the truth,       *)
(* whatever invocations interleave, raise, crash and are called again.     *)
(***************************************************************************)
EXTENDS Coordinator, ExecutionRunSafety, WellFoundedInduction

----------------------------------------------------------------------------
(* What an invocation can be working on. *)

\* A schedule that lists an activity has a first one.
LEMMA FirstSelected ==
    ASSUME NEW S \in SUBSET Activities, S # {}
    PROVE  First(S) \in S
<1> DEFINE places == {Position[a] : a \in S}
<1>1. places \subseteq Nat
  BY CoordinatorAssumption
<1>2. PICK b \in S : TRUE
  OBVIOUS
<1>3. places # {}
  BY <1>2
<1>4. PICK n \in places : \A m \in places : n <= m
  <2> HIDE DEF places
  <2> DEFINE less == {mn \in Nat \X Nat : mn[1] < mn[2]}
  <2>1. \A m, n \in Nat : m < n => <<m, n>> \in less
    OBVIOUS
  <2>2. IsWellFoundedOn(less, Nat)
    BY NatLessThanWellFounded DEF OpToRel
  <2> HIDE DEF less
  <2>3. PICK n \in places : \A m \in places : <<m, n>> \notin less
    BY <1>1, <1>3, <2>2, WFMin
  <2>4. ASSUME NEW m \in places
        PROVE  n <= m
    <3>1. m \in Nat /\ n \in Nat /\ ~(m < n)
      BY <1>1, <2>1, <2>3
    <3>2. QED
      BY <3>1
  <2>5. QED
    BY <2>4
<1>5. PICK a \in S : Position[a] = n
  BY <1>4
<1>6. \A c \in S : Position[a] <= Position[c]
  BY <1>4, <1>5
<1>7. QED
  BY <1>6 DEF First

\* The strengthening: what the place of an invocation tells of its own fields,
\* its receipt and its run.  A runtime effect is only ever worked on in the
\* places of the services, a legacy one only in those of the direct events.
CallInv(c) ==
    /\ c.pc # "idle" => /\ c.key \in Keys /\ c.fence \in Fences /\ c.bound # 0
                        /\ Used(c.run, c.key)
    /\ c.pc \in {"start", "execute", "fold", "reconcile", "observed"} =>
         c.activity \in Activities \ Legacy /\ c.left # 0
    /\ c.pc \in {"intend", "adapter", "record"} =>
         c.activity \in Activities \cap Legacy /\ c.left # 0
    /\ c.pc \in {"observed", "record"} => c.outcome \in Outcomes
    /\ c.pc = "finish" => c.status # "none"
    /\ c.status = "completed" => run[c.run].status = "succeeded"

CallsInv == \A i \in Invocations : CallInv(coord[i])

\* A call's effect is a forward attempt of its run.
LEMMA SelectedEffect ==
    ASSUME NEW i \in Invocations, coord[i] \in Calls, coord[i].activity \in Activities
    PROVE  /\ Selected(i) \in Effects
           /\ Selected(i).run = coord[i].run /\ Selected(i).activity = coord[i].activity
BY EffectIdentity DEF Selected, Calls, Forward

----------------------------------------------------------------------------
(* Every step, seen from the tables of ExecutionRun. *)

\* The events that the coordinator writes without a service of ExecutionRun.
DirectEvent(i) ==
    FoldObserved(i) \/ RecordStarted(i) \/ RecordOutcome(i) \/ ExecuteLegacy(i)

\* Everything else an invocation does to the tables, a service does.
LEMMA BaseStep ==
    ASSUME CTypeOK, CallsInv, [CNext]_cvars
    PROVE  [Next]_vars \/ \E i \in Invocations : DirectEvent(i)
<1>1. CASE RunCommand
  BY <1>1 DEF RunCommand, Next, EffectStep
<1>2. CASE UNCHANGED cvars
  BY <1>2 DEF cvars
<1>3. ASSUME NEW i \in Invocations
      PROVE  /\ coord[i] \in Calls /\ coord[i].run \in Runs
             /\ coord[i].pc # "idle" => coord[i].fence \in Fences
             /\ At(i, "start") => coord[i].activity \in Activities
             /\ At(i, "execute") \/ At(i, "fold") => Selected(i) \in Effects
  <2>1. coord[i] \in Calls /\ CallInv(coord[i])
    BY DEF CTypeOK, CallsInv
  <2>2. QED
    BY <2>1, SelectedEffect DEF Calls, CallInv, At
<1>4. ASSUME NEW i \in Invocations, FailRunStep(i) \/ CompleteRunStep(i)
      PROVE  [Next]_vars
  BY <1>3, <1>4 DEF FailRunStep, CompleteRunStep, At, Next, LifecycleStep
<1>5. ASSUME NEW i \in Invocations, StartNew(i)
      PROVE  [Next]_vars
  BY <1>3, <1>5 DEF StartNew, At, Next, EffectStep
<1>6. ASSUME NEW i \in Invocations, Execute(i) \/ FoldResult(i)
      PROVE  [Next]_vars
  BY <1>3, <1>6 DEF Execute, FoldResult, Next, EffectStep
<1>7. ASSUME NEW i \in Invocations, Raise(i) \/ Crash(i)
      PROVE  [Next]_vars
  <2>1. CASE caller' = caller
    BY <1>7, <2>1 DEF Raise, Crash, Abandon, vars
  <2>2. CASE caller' # caller
    <3>1. /\ Selected(i) \in Effects
          /\ caller' = [caller EXCEPT ![Selected(i)] = "none"]
      BY <1>3, <1>7, <2>2 DEF Raise, Crash, Abandon
    <3>2. caller[Selected(i)] # "none"
      BY <2>2, <3>1 DEF CTypeOK, TypeOK
    <3>3. LoseCaller(Selected(i))
      BY <1>7, <3>1, <3>2 DEF Raise, Crash, Abandon, LoseCaller
    <3>4. QED
      BY <3>1, <3>3 DEF Next, EffectStep
  <2>3. QED
    BY <2>1, <2>2
<1>8. ASSUME NEW i \in Invocations,
             \/ Load(i) \/ Complete(i) \/ StartExisting(i) \/ ReconcileExisting(i)
             \/ Observe(i) \/ FoldObservedAgain(i) \/ Submit(i) \/ Again(i)
      PROVE  [Next]_vars
  BY <1>8 DEF Load, Complete, StartExisting, ReconcileExisting, Observe,
     FoldObservedAgain, Submit, Admit, Again
<1>9. QED
  BY <1>1, <1>2, <1>4, <1>5, <1>6, <1>7, <1>8 DEF CNext, InvocationStep, DirectEvent

\* A direct event leaves the claim and every status alone, and every attempt,
\* caller and effect but that of the invocation's own activity.
LEMMA DirectStep ==
    ASSUME CTypeOK, TypeInv, CallsInv, NEW i \in Invocations, DirectEvent(i)
    PROVE  /\ TypeInv'
           /\ UNCHANGED <<session, workspace, request, latest, caller, observers>>
           /\ \/ UNCHANGED run
              \/ \E r \in Runs : run' = [run EXCEPT ![r] = Recorded(r, "other")]
           /\ \/ UNCHANGED effect
              \/ /\ coord[i].activity \in Legacy
                 /\ \E e \in Effects : /\ e.activity = coord[i].activity
                                       /\ \A d \in Effects \ {e} : effect'[d] = effect[d]
           /\ \A e \in Effects :
                attempt'[e].status = "none" => attempt[e].status = "none"
<1>1. /\ TypeOK /\ coord[i] \in Calls /\ coord[i].run \in Runs /\ CallInv(coord[i])
  BY DEF CTypeOK, CallsInv, Calls
<1>2. CASE FoldObserved(i)
  <2>1. /\ coord[i].activity \in Activities /\ coord[i].outcome \in Outcomes
        /\ Fold(Selected(i), coord[i].outcome, FALSE)
        /\ attempt[Selected(i)].status = "started"
    BY <1>1, <1>2 DEF FoldObserved, At, CallInv, MayReconcile, TakesDirect
  <2>2. Selected(i) \in Effects /\ Selected(i).run \in Runs
    BY <1>1, <2>1, SelectedEffect
  <2>3. TypeInv'
    BY <1>1, <1>2, <2>1, <2>2, FoldType DEF FoldObserved, TypeInv, TypeOK, HasRun
  <2>4. \A e \in Effects :
           attempt'[e].status = "none" => attempt[e].status = "none"
    BY <1>1, <2>1, <2>2 DEF Fold, TypeOK, Attempts, Outcomes
  <2>5. QED
    BY <1>1, <1>2, <2>1, <2>2, <2>3, <2>4 DEF FoldObserved, Fold, TypeOK
<1>3. CASE RecordStarted(i) \/ RecordOutcome(i)
  <2>1. coord[i].activity \in Activities /\ coord[i].run \in Runs
    BY <1>1, <1>3 DEF RecordStarted, RecordOutcome, At, CallInv
  <2>2. PICK kind \in StepEvents : RecordEvent(i, kind)
    BY <1>1, <1>3 DEF RecordStarted, RecordOutcome, At, CallInv, Outcomes, StepEvents,
       ForwardEvents
  <2>3. /\ run' = [run EXCEPT ![coord[i].run] = Recorded(coord[i].run, "other")]
        /\ journal' = Journalled(coord[i].run, kind, coord[i].activity)
        /\ UNCHANGED <<session, workspace, request, latest, attempt, caller, observers, effect>>
    BY <1>3, <2>2 DEF RecordStarted, RecordOutcome, RecordEvent
  <2>4. TypeInv'
    BY <1>1, <2>1, <2>3, RecordType DEF TypeInv, TypeOK, HasRun
  <2>5. QED
    BY <2>1, <2>3, <2>4
<1>4. CASE ExecuteLegacy(i)
  <2>1. coord[i].activity \in Activities \cap Legacy
    BY <1>1, <1>4 DEF ExecuteLegacy, At, CallInv
  <2>2. /\ Selected(i) \in Effects /\ Selected(i).activity = coord[i].activity
    BY <1>1, <2>1, SelectedEffect
  <2>3. PICK result \in {"succeeded", "failed"} :
          effect' = [effect EXCEPT ![Selected(i)] =
                       [calls |-> effect[Selected(i)].calls + 1, result |-> result]]
    BY <1>4 DEF ExecuteLegacy
  <2>4. effect' \in [Effects -> [calls : Nat, result : Results]]
    BY <1>1, <2>2, <2>3 DEF TypeOK, Results
  <2>5. TypeInv'
    BY <1>1, <1>4, <2>4 DEF ExecuteLegacy, TypeInv, TypeOK, HasRun
  <2>6. QED
    BY <1>1, <1>4, <2>1, <2>2, <2>3, <2>5 DEF ExecuteLegacy, TypeOK
<1>5. QED
  BY <1>2, <1>3, <1>4 DEF DirectEvent

\* The invariants of the tables are those of ExecutionRun.
TablesInv == TypeInv /\ RunsInv /\ RecoveryChainIntact

\* Every step keeps them, and no run is taken back from success.
LEMMA TablesStep ==
    ASSUME TablesInv, CTypeOK, CallsInv, [CNext]_cvars
    PROVE  /\ TablesInv'
           /\ \A q \in Runs : run[q].status = "succeeded" => run'[q].status = "succeeded"
<1>1. CASE [Next]_vars
  BY <1>1, TypeInvStep, RunsInvStep, StepJournalView DEF TablesInv
<1>2. ASSUME NEW i \in Invocations, DirectEvent(i)
      PROVE  /\ TablesInv'
             /\ \A q \in Runs : run[q].status = "succeeded" => run'[q].status = "succeeded"
  <2>1. /\ TypeInv' /\ UNCHANGED <<request, latest>>
        /\ \/ UNCHANGED run
           \/ \E r \in Runs : run' = [run EXCEPT ![r] = Recorded(r, "other")]
    BY <1>2, DirectStep DEF TablesInv
  <2>2. \A q \in Runs : run[q] \in RunRecords
    BY DEF TablesInv, TypeInv, TypeOK
  <2>3. \A q \in Runs : /\ run'[q].status = run[q].status
                        /\ run'[q].fenced = run[q].fenced
                        /\ run'[q].last \in {run[q].last, "other"}
    BY <2>1, <2>2 DEF TablesInv, TypeInv, TypeOK, Recorded, RunRecords
  <2>4. request.status = "claimed" => latest \in Runs
    BY RunAssumption DEF TablesInv, TypeInv, TypeOK, HasRun, Runs
  <2>5. QED
    BY <2>1, <2>3, <2>4
    DEF TablesInv, RunsInv, RecoveryChainIntact, ChainEndsIn
<1>3. QED
  BY <1>1, <1>2, BaseStep

----------------------------------------------------------------------------
(* The moves of an invocation. *)

\* What a step leaves of the runs and of the receipts: success stays, and so
\* does a used key, unless its caller starts over.
Kept == /\ \A q \in Runs : run[q].status = "succeeded" => run'[q].status = "succeeded"
        /\ \A rk \in Runs \X Keys : receipt[rk].state # "absent" => receipt'[rk].state # "absent"

\* An invocation that has a command, and what it knows stays true.
LEMMA CallKept ==
    ASSUME CTypeOK, CallsInv, Kept, NEW i \in Invocations
    PROVE  /\ coord[i] \in Calls /\ CallInv(coord[i])
           /\ coord[i].pc # "idle" =>
                receipt'[<<coord[i].run, coord[i].key>>].state # "absent"
           /\ coord[i].status = "completed" => run'[coord[i].run].status = "succeeded"
<1>1. coord[i] \in Calls /\ CallInv(coord[i])
  BY DEF CTypeOK, CallsInv
<1>2. coord[i].run \in Runs /\ (coord[i].pc # "idle" => coord[i].key \in Keys)
  BY <1>1 DEF Calls, CallInv
<1>3. QED
  BY <1>1, <1>2 DEF Kept, CallInv, Used, ReceiptOf

\* One invocation moves; what the others know stays true.
LEMMA CallWritten ==
    ASSUME CTypeOK, CallsInv, Kept, NEW i \in Invocations, NEW c \in Calls,
           coord' = [coord EXCEPT ![i] = c], CallInv(c)'
    PROVE  coord' \in [Invocations -> Calls] /\ CallsInv'
<1>1. coord' \in [Invocations -> Calls]
  BY DEF CTypeOK
<1>2. ASSUME NEW j \in Invocations
      PROVE  CallInv(coord[j])'
  <2>1. CASE j = i
    <3>1. coord'[j] = c
      BY <2>1 DEF CTypeOK
    <3>2. QED
      BY <3>1 DEF CallInv, Used, ReceiptOf
  <2>2. CASE j # i
    <3>1. coord'[j] = coord[j]
      BY <2>2 DEF CTypeOK
    <3>2. QED
      BY <3>1, CallKept DEF CallInv, Used, ReceiptOf
  <2>3. QED
    BY <2>1, <2>2
<1>3. QED
  BY <1>1, <1>2 DEF CallsInv

\* Nothing moves.
LEMMA CallsUntouched ==
    ASSUME CTypeOK, CallsInv, Kept, coord' = coord
    PROVE  coord' \in [Invocations -> Calls] /\ CallsInv'
<1>1. ASSUME NEW j \in Invocations
      PROVE  CallInv(coord[j])'
  BY CallKept DEF CallInv, Used, ReceiptOf
<1>2. QED
  BY <1>1 DEF CallsInv, CTypeOK

\* An invocation goes on in the place that its own fields allow.
LEMMA GotoKept ==
    ASSUME CTypeOK, CallsInv, Kept, NEW i \in Invocations, coord[i].pc # "idle",
           NEW place \in Places \ {"idle", "observed", "record", "finish"},
           place \in {"start", "execute", "fold", "reconcile"} =>
             coord[i].activity \in Activities \ Legacy /\ coord[i].left # 0,
           place \in {"intend", "adapter"} =>
             coord[i].activity \in Activities \cap Legacy /\ coord[i].left # 0,
           Goto(i, place)
    PROVE  coord' \in [Invocations -> Calls] /\ CallsInv'
<1>1. PICK c : c = [coord[i] EXCEPT !.pc = place]
  OBVIOUS
<1>2. coord[i] \in Calls /\ CallInv(coord[i])
  BY CallKept
<1>3. c \in Calls
  BY <1>1, <1>2 DEF Calls
<1>4. CallInv(c)'
  BY <1>1, <1>2, CallKept DEF CallInv, Calls, Used, ReceiptOf
<1>5. QED
  BY <1>1, <1>3, <1>4, CallWritten DEF Goto

\* The next iteration.
LEMMA NextIterationKept ==
    ASSUME CTypeOK, CallsInv, Kept, NEW i \in Invocations, coord[i].pc # "idle",
           coord[i].left # 0, NextIteration(i)
    PROVE  coord' \in [Invocations -> Calls] /\ CallsInv'
<1>1. PICK c : c = [coord[i] EXCEPT !.pc = "load", !.left = coord[i].left - 1,
                                    !.activity = NoActivity, !.outcome = "none"]
  OBVIOUS
<1>2. coord[i] \in Calls /\ CallInv(coord[i])
  BY CallKept
<1>3. c \in Calls
  <2>1. coord[i].left - 1 \in 0..MaxEffects
    BY <1>2, CoordinatorAssumption DEF Calls
  <2>2. QED
    BY <1>1, <1>2, <2>1 DEF Calls, Places
<1>4. CallInv(c)'
  BY <1>1, <1>2, CallKept DEF CallInv, Calls, Used, ReceiptOf
<1>5. coord' = [coord EXCEPT ![i] = c]
  BY <1>1 DEF NextIteration
<1>6. QED
  BY <1>3, <1>4, <1>5, CallWritten

\* execute is about to return.
LEMMA FinishKept ==
    ASSUME CTypeOK, CallsInv, Kept, NEW i \in Invocations, coord[i].pc # "idle",
           NEW status \in CoordinatorStatus,
           status = "completed" => run'[coord[i].run].status = "succeeded",
           Finish(i, status)
    PROVE  coord' \in [Invocations -> Calls] /\ CallsInv'
<1> DEFINE result == IF coord[i].verdict = "none" THEN status ELSE coord[i].verdict
<1>1. PICK c : c = [coord[i] EXCEPT !.pc = "finish", !.activity = NoActivity,
                                    !.outcome = "none", !.status = result]
  OBVIOUS
<1>2. coord[i] \in Calls /\ CallInv(coord[i])
  BY CallKept
<1>3. result \in CoordinatorStatus /\ (result = "completed" => status = "completed")
  BY <1>2 DEF Calls, CoordinatorStatus
<1> HIDE DEF result
<1>4. c \in Calls
  BY <1>1, <1>2, <1>3 DEF Calls, Places
<1>5. CallInv(c)'
  BY <1>1, <1>2, <1>3, CallKept DEF CallInv, Calls, CoordinatorStatus, Used, ReceiptOf
<1>6. QED
  BY <1>1, <1>4, <1>5, CallWritten DEF Finish, result

----------------------------------------------------------------------------
(* Every step, seen from the invocations. *)

\* The classification sends an invocation only where its activity belongs.
LEMMA LoadKept ==
    ASSUME CTypeOK, CallsInv, Kept, NEW i \in Invocations, Load(i)
    PROVE  coord' \in [Invocations -> Calls] /\ CallsInv'
<1> DEFINE r == coord[i].run
           j == journal[r]
<1>1. coord[i] \in Calls /\ r \in Runs /\ coord[i].pc # "idle"
  BY DEF Load, At, CTypeOK, Calls
<1>2. Classify(i, r)
  BY DEF Load
<1>3. ASSUME NEW status \in CoordinatorStatus, Finish(i, status),
             status = "completed" => run[r].status = "succeeded"
      PROVE  coord' \in [Invocations -> Calls] /\ CallsInv'
  BY <1>1, <1>3, FinishKept DEF Kept
<1>4. ASSUME NEW place \in {"fail", "complete"}, Goto(i, place)
      PROVE  coord' \in [Invocations -> Calls] /\ CallsInv'
  BY <1>1, <1>4, GotoKept DEF Places
<1>5. ASSUME NEW a \in Activities, NEW status \in {"in_flight", "progressed"},
             Select(i, a, status)
      PROVE  coord' \in [Invocations -> Calls] /\ CallsInv'
  <2>1. CASE Finish(i, status)
    BY <1>3, <2>1 DEF CoordinatorStatus
  <2>2. CASE ~Finish(i, status)
    <3>1. PICK c : c = [coord[i] EXCEPT !.activity = a,
                                        !.pc = IF a \in Legacy THEN "intend" ELSE "start"]
      OBVIOUS
    <3>2. coord' = [coord EXCEPT ![i] = c] /\ coord[i].left # 0
      BY <1>5, <2>2, <3>1 DEF Select
    <3>3. c \in Calls
      BY <1>1, <3>1 DEF Calls, Places
    <3>4. CallInv(c)'
      BY <1>1, <3>1, <3>2, CallKept DEF CallInv, Calls, Used, ReceiptOf
    <3>5. QED
      BY <3>2, <3>3, <3>4, CallWritten
  <2>3. QED
    BY <2>1, <2>2
<1>6. StepsIn(j, "running") \subseteq Activities /\ Ready(j) \subseteq Activities
  BY DEF StepsIn, Ready
<1>7. \A S \in SUBSET Activities : S # {} => First(S) \in Activities
  BY FirstSelected
<1>8. Settled(run[r].status) \in CoordinatorStatus
        /\ (Settled(run[r].status) = "completed" => run[r].status = "succeeded")
  BY DEF Settled, CoordinatorStatus
<1>9. CASE run[r].status # "running"
  BY <1>2, <1>3, <1>8, <1>9 DEF Classify
<1>10. CASE run[r].status = "running" /\ \E place \in {"fail", "complete"} : Goto(i, place)
  BY <1>4, <1>10
<1>11. CASE run[r].status = "running" /\ \E status \in {"uncertain", "blocked"} : Finish(i, status)
  BY <1>3, <1>11 DEF CoordinatorStatus
<1>12. CASE /\ StepsIn(j, "running") # {}
            /\ Select(i, First(StepsIn(j, "running")), "in_flight")
  BY <1>5, <1>6, <1>7, <1>12
<1>13. CASE Ready(j) # {} /\ Select(i, First(Ready(j)), "progressed")
  BY <1>5, <1>6, <1>7, <1>13
<1>14. QED
  BY <1>2, <1>9, <1>10, <1>11, <1>12, <1>13 DEF Classify

\* The other moves of an invocation, each where its place puts it.
LEMMA MoveKept ==
    ASSUME CTypeOK, CallsInv, Kept, NEW i \in Invocations,
           \/ FailRunStep(i) \/ CompleteRunStep(i) \/ Complete(i)
           \/ StartNew(i) \/ StartExisting(i) \/ Execute(i) \/ FoldResult(i)
           \/ ReconcileExisting(i) \/ FoldObserved(i) \/ FoldObservedAgain(i)
           \/ RecordStarted(i)
    PROVE  coord' \in [Invocations -> Calls] /\ CallsInv'
<1>1. coord[i] \in Calls /\ CallInv(coord[i]) /\ coord[i].run \in Runs
  BY CallKept DEF Calls
<1>2. CASE FailRunStep(i)
  BY <1>2, FinishKept DEF FailRunStep, At, CoordinatorStatus
<1>3. CASE CompleteRunStep(i)
  <2>1. run'[coord[i].run].status = "succeeded"
    <3>1. CASE CompleteRun(coord[i].fence, coord[i].run)
      BY <1>1, <3>1 DEF CompleteRun, Transition, Transitioned, CTypeOK, TypeOK, RunRecords
    <3>2. QED
      BY <1>3, <3>1 DEF CompleteRunStep, vars
  <2>2. QED
    BY <1>3, <2>1, FinishKept DEF CompleteRunStep, At, CoordinatorStatus
<1>4. CASE Complete(i)
  BY <1>4, GotoKept DEF Complete, At, Places
<1>5. CASE StartNew(i) \/ StartExisting(i) \/ Execute(i)
  BY <1>1, <1>5, GotoKept DEF StartNew, StartExisting, Execute, At, Places, CallInv
<1>6. CASE RecordStarted(i)
  BY <1>1, <1>6, GotoKept DEF RecordStarted, At, Places, CallInv
<1>7. CASE \/ FoldResult(i) \/ ReconcileExisting(i) \/ FoldObserved(i)
           \/ FoldObservedAgain(i)
  BY <1>1, <1>7, NextIterationKept
  DEF FoldResult, ReconcileExisting, FoldObserved, FoldObservedAgain, At, CallInv
<1>8. QED
  BY <1>2, <1>3, <1>4, <1>5, <1>6, <1>7

\* What the adapter or the observer returned, and what a crash forgets.
LEMMA ResultKept ==
    ASSUME CTypeOK, CallsInv, Kept, TypeOK, NEW i \in Invocations,
           \/ Observe(i) \/ ExecuteLegacy(i) \/ RecordOutcome(i) \/ Raise(i) \/ Crash(i)
    PROVE  coord' \in [Invocations -> Calls] /\ CallsInv'
<1>1. coord[i] \in Calls /\ CallInv(coord[i]) /\ coord[i].run \in Runs
  BY CallKept DEF Calls
<1>2. ASSUME NEW place \in {"observed", "record"}, NEW v \in Outcomes,
             coord[i].pc = (IF place = "observed" THEN "reconcile" ELSE "adapter"),
             coord' = [coord EXCEPT ![i] = [coord[i] EXCEPT !.pc = place, !.outcome = v]]
      PROVE  coord' \in [Invocations -> Calls] /\ CallsInv'
  <2>1. PICK c : c = [coord[i] EXCEPT !.pc = place, !.outcome = v]
    OBVIOUS
  <2>2. c \in Calls
    BY <1>1, <1>2, <2>1 DEF Calls, Places
  <2>3. CallInv(c)'
    BY <1>1, <1>2, <2>1, CallKept DEF CallInv, Calls, Used, ReceiptOf
  <2>4. QED
    BY <1>2, <2>1, <2>2, <2>3, CallWritten
<1>3. CASE Observe(i)
  <2>1. Selected(i) \in Effects
    BY <1>1, <1>3, SelectedEffect DEF Observe, At, CallInv
  <2>2. Observable(Selected(i)) \subseteq Outcomes
    BY <2>1 DEF Observable, Outcomes, TypeOK, Results
  <2>3. PICK v \in Outcomes :
          coord' = [coord EXCEPT ![i] = [coord[i] EXCEPT !.pc = "observed", !.outcome = v]]
    BY <1>3, <2>2 DEF Observe
  <2>4. coord[i].pc = "reconcile"
    BY <1>3 DEF Observe, At
  <2>5. QED
    BY <1>2, <2>3, <2>4
<1>4. CASE ExecuteLegacy(i)
  <2>1. PICK v \in Outcomes :
          coord' = [coord EXCEPT ![i] = [coord[i] EXCEPT !.pc = "record", !.outcome = v]]
    BY <1>4, RunAssumption DEF ExecuteLegacy, Outcomes
  <2>2. coord[i].pc = "adapter"
    BY <1>4 DEF ExecuteLegacy, At
  <2>3. QED
    BY <1>2, <2>1, <2>2
<1>5. CASE RecordOutcome(i)
  <2>1. /\ coord[i].outcome \in Outcomes /\ coord[i].left # 0 /\ coord[i].pc = "record"
    BY <1>1, <1>5 DEF RecordOutcome, At, CallInv
  <2>2. CASE NextIteration(i)
    BY <2>1, <2>2, NextIterationKept
  <2>3. CASE coord[i].outcome # "succeeded"
    <3>1. PICK o : o = coord[i].outcome
      OBVIOUS
    <3>2. PICK c : c = [coord[i] EXCEPT !.pc = "load", !.left = 0, !.verdict = o,
                                        !.activity = NoActivity, !.outcome = "none"]
      OBVIOUS
    <3>3. coord' = [coord EXCEPT ![i] = [coord[i] EXCEPT
                       !.pc = "load", !.left = 0, !.verdict = o,
                       !.activity = NoActivity, !.outcome = "none"]]
      BY <1>5, <2>3, <3>1 DEF RecordOutcome
    <3>4. c \in Calls
      <4>1. o \in {"failed", "unsupported", "uncertain"} /\ 0 \in 0..MaxEffects
        BY <2>1, <2>3, <3>1, CoordinatorAssumption DEF Outcomes
      <4>2. QED
        BY <1>1, <3>2, <4>1 DEF Calls, Places
    <3>5. CallInv(c)'
      BY <1>1, <2>1, <3>2, CallKept DEF CallInv, Calls, Used, ReceiptOf
    <3>6. QED
      BY <3>2, <3>3, <3>4, <3>5, CallWritten
  <2>4. QED
    BY <1>5, <2>2, <2>3 DEF RecordOutcome
<1>6. CASE Raise(i) \/ Crash(i)
  <2>1. PICK place \in {"raised", "crashed"} : Abandon(i, place)
    BY <1>6 DEF Raise, Crash
  <2>2. coord[i].pc # "idle"
    BY <1>6 DEF Raise, Crash, Refused, At
  <2>3. PICK c : c = [coord[i] EXCEPT !.pc = place, !.activity = NoActivity, !.outcome = "none"]
    OBVIOUS
  <2>4. coord' = [coord EXCEPT ![i] = c]
    BY <2>1, <2>3 DEF Abandon
  <2>5. c \in Calls
    BY <1>1, <2>3 DEF Calls, Places
  <2>6. CallInv(c)'
    BY <1>1, <2>2, <2>3, CallKept DEF CallInv, Calls, Used, ReceiptOf
  <2>7. QED
    BY <2>4, <2>5, <2>6, CallWritten
<1>7. QED
  BY <1>3, <1>4, <1>5, <1>6


----------------------------------------------------------------------------
(* Commands and their receipts. *)

\* What is known of the invocations and of the receipts together.
CoordInv ==
    /\ TablesInv
    /\ CTypeOK
    /\ CallsInv
    /\ CommandDispatchedOnce
    /\ CompletedMeansSucceeded

LEMMA CoordInvInit == CInit => CoordInv
<1> SUFFICES ASSUME CInit PROVE CoordInv
  OBVIOUS
<1>1. TablesInv
  BY TypeInvInit, RunsInvInit DEF CInit, TablesInv
<1>2. NoReceipt \in Receipts
  BY DEF NoReceipt, Receipts, Intents, CommandResults
<1>3. Idle \in Calls
  BY RunAssumption, CoordinatorAssumption DEF Idle, Calls, Places, Runs
<1>4. CTypeOK
  BY <1>1, <1>2, <1>3 DEF CInit, CTypeOK, TablesInv, TypeInv
<1>5. CallsInv
  BY DEF CInit, CallsInv, CallInv, Idle
<1>6. CommandDispatchedOnce
  BY DEF CInit, CommandDispatchedOnce, At, Idle
<1>7. CompletedMeansSucceeded
  BY DEF CInit, CompletedMeansSucceeded, NoReceipt
<1>8. QED
  BY <1>1, <1>4, <1>5, <1>6, <1>7 DEF CoordInv

\* The intent of a command is none of NoReceipt's.
LEMMA CommandIntent ==
    ASSUME NEW f \in Fences, NEW n \in 1..MaxEffects
    PROVE  Intent(f, n) \in Intents /\ Intent(f, n) # NoIntent
BY RunAssumption DEF Intents, Intent, NoIntent

\* The receipts change by admission, by completion and by a caller that starts
\* over, and by nothing else.
LEMMA ReceiptChange ==
    ASSUME [CNext]_cvars, receipt' # receipt
    PROVE  \E i \in Invocations : Submit(i) \/ Complete(i) \/ Again(i)
BY DEF CNext, cvars, RunCommand, InvocationStep, Load, FailRunStep, CompleteRunStep,
   StartNew, StartExisting, Execute, FoldResult, ReconcileExisting, Observe,
   FoldObserved, FoldObservedAgain, RecordStarted, ExecuteLegacy, RecordOutcome,
   Raise, Crash, Abandon

\* A step that is nobody's new start moves no invocation to another command,
\* and admits none.
LEMMA SameCommands ==
    ASSUME CTypeOK, [CNext]_cvars, NEW i \in Invocations,
           ~\E j \in Invocations : Submit(j) \/ Again(j)
    PROVE  /\ coord'[i].run = coord[i].run /\ coord'[i].key = coord[i].key
           /\ coord[i].pc = "idle" => coord'[i].pc = "idle"
<1>1. coord[i] \in Calls
  BY DEF CTypeOK
<1>2. CASE coord' = coord
  BY <1>2
<1>3. CASE coord' # coord
  <2>1. PICK j \in Invocations : InvocationStep(j) \/ Crash(j)
    BY <1>3 DEF CNext, cvars, RunCommand
  <2>2. CASE j # i
    <3>1. coord'[i] = coord[i]
      BY <2>1, <2>2 DEF CTypeOK, InvocationStep, Load, Classify, Select, Finish, Goto,
         NextIteration, FailRunStep, CompleteRunStep, Complete, StartNew, StartExisting,
         Execute, FoldResult, ReconcileExisting, Observe, FoldObserved,
         FoldObservedAgain, RecordStarted, ExecuteLegacy, RecordOutcome, Raise, Crash, Abandon
    <3>2. QED
      BY <3>1
  <2>3. CASE j = i
    <3>1. coord[i].pc # "idle"
      BY <2>1, <2>3 DEF At, InvocationStep, Load, FailRunStep, CompleteRunStep, Complete,
         StartNew, StartExisting, Execute, FoldResult, ReconcileExisting, Observe,
         FoldObserved, FoldObservedAgain, RecordStarted, ExecuteLegacy, RecordOutcome,
         Raise, Refused, Crash
    <3> DEFINE same == coord'[i].run = coord[i].run /\ coord'[i].key = coord[i].key
    <3>2. coord \in [Invocations -> Calls]
      BY DEF CTypeOK
    <3>3. ASSUME \/ \E place \in Places : Goto(i, place) \/ Abandon(i, place)
                 \/ NextIteration(i) \/ \E status : Finish(i, status)
          PROVE  same
      <4>1. ASSUME NEW place, Goto(i, place) \/ Abandon(i, place)
            PROVE  same
        BY <1>1, <3>2, <4>1 DEF Calls, Goto, Abandon
      <4>2. ASSUME NextIteration(i)
            PROVE  same
        BY <1>1, <3>2, <4>2 DEF Calls, NextIteration
      <4>3. ASSUME NEW status, Finish(i, status)
            PROVE  same
        <5>1. PICK result :
                coord' = [coord EXCEPT ![i] = [coord[i] EXCEPT
                  !.pc = "finish", !.activity = NoActivity, !.outcome = "none",
                  !.status = result]]
          BY <4>3 DEF Finish
        <5>2. QED
          BY <1>1, <3>2, <5>1 DEF Calls
      <4>4. QED
        BY <3>3, <4>1, <4>2, <4>3
    <3>4. ASSUME Load(i) PROVE same
      <4>1. Classify(i, coord[i].run)
        BY <3>4 DEF Load
      <4>2. ASSUME NEW a, NEW status, Select(i, a, status)
            PROVE  same
        <5>1. CASE Finish(i, status)
          BY <3>3, <5>1
        <5>2. CASE ~Finish(i, status)
          <6>1. PICK place :
                  coord' = [coord EXCEPT ![i] = [coord[i] EXCEPT
                    !.activity = a, !.pc = place]]
            BY <4>2, <5>2 DEF Select
          <6>2. QED
            BY <1>1, <3>2, <6>1 DEF Calls
        <5>3. QED
          BY <5>1, <5>2
      <4>3. QED
        <5> HIDE DEF same
        <5>1. QED
          BY <3>3, <4>1, <4>2 DEF Classify, Places
    <3>5. ASSUME \/ FailRunStep(i) \/ CompleteRunStep(i) \/ Complete(i) \/ StartNew(i)
                 \/ StartExisting(i) \/ Execute(i) \/ FoldResult(i) \/ ReconcileExisting(i)
                 \/ FoldObserved(i) \/ FoldObservedAgain(i) \/ RecordStarted(i)
                 \/ Raise(i) \/ Crash(i)
          PROVE  same
      <4> HIDE DEF same
      <4>1. QED
        BY <3>3, <3>5 DEF FailRunStep, CompleteRunStep, Complete, StartNew,
           StartExisting, Execute, FoldResult, ReconcileExisting, FoldObserved,
           FoldObservedAgain, RecordStarted, Raise, Crash, Places
    <3>6. ASSUME Observe(i) \/ ExecuteLegacy(i) PROVE same
      <4>1. PICK place, v : coord' = [coord EXCEPT ![i] =
                                        [coord[i] EXCEPT !.pc = place, !.outcome = v]]
        BY <3>6 DEF Observe, ExecuteLegacy
      <4>2. QED
        BY <1>1, <3>2, <4>1 DEF Calls
    <3>7. ASSUME RecordOutcome(i) PROVE same
      <4>1. CASE NextIteration(i)
        BY <3>3, <4>1
      <4>2. CASE ~NextIteration(i)
        <5>1. PICK o :
                coord' = [coord EXCEPT ![i] = [coord[i] EXCEPT
                           !.pc = "load", !.left = 0, !.verdict = o,
                           !.activity = NoActivity, !.outcome = "none"]]
          BY <3>7, <4>2 DEF RecordOutcome
        <5>2. QED
          BY <1>1, <3>2, <5>1 DEF Calls
      <4>3. QED
        BY <4>1, <4>2
    <3>8. same
      BY <2>1, <2>3, <3>4, <3>5, <3>6, <3>7 DEF InvocationStep
    <3>9. QED
      BY <3>1, <3>8 DEF same
  <2>4. QED
    BY <2>2, <2>3
<1>4. QED
  BY <1>2, <1>3


\* The row that Insert or SetResult writes.
LEMMA ReceiptWritten ==
    ASSUME CTypeOK, NEW r \in Runs, NEW k \in Keys, NEW c \in Receipts,
           receipt' = [receipt EXCEPT ![<<r, k>>] = c]
    PROVE  /\ receipt' \in [Runs \X Keys -> Receipts]
           /\ receipt'[<<r, k>>] = c
           /\ \A rk \in Runs \X Keys : rk # <<r, k>> => receipt'[rk] = receipt[rk]
BY DEF CTypeOK

\* Admission takes a key that is free; whoever is on its way has another one.
LEMMA AdmitStep ==
    ASSUME CoordInv, TablesInv', NEW i \in Invocations, Submit(i)
    PROVE  CoordInv'
<1>1. PICK r \in Runs, f \in Fences, k \in Keys, n \in 1..MaxEffects : Admit(i, r, f, k, n)
  BY DEF Submit
<1>2. PICK c : c = [Idle EXCEPT !.pc = "load", !.run = r, !.fence = f, !.key = k,
                                !.bound = n, !.left = n]
  OBVIOUS
<1>3. PICK row : row = [state |-> "incomplete", intent |-> Intent(f, n), result |-> "none"]
  OBVIOUS
<1>4. /\ coord[i].pc = "idle" /\ receipt[<<r, k>>].state = "absent"
      /\ coord' = [coord EXCEPT ![i] = c]
      /\ receipt' = [receipt EXCEPT ![<<r, k>>] = row]
      /\ UNCHANGED vars
  BY <1>1, <1>2, <1>3 DEF Admit, At, Used, ReceiptOf, Insert
<1>5. row \in Receipts
  BY <1>3, CommandIntent DEF Receipts, CommandResults
<1>6. /\ receipt' \in [Runs \X Keys -> Receipts]
      /\ receipt'[<<r, k>>] = row
      /\ \A rk \in Runs \X Keys : rk # <<r, k>> => receipt'[rk] = receipt[rk]
  BY <1>4, <1>5, ReceiptWritten DEF CoordInv
<1>7. Kept
  BY <1>3, <1>4, <1>6 DEF Kept, vars
<1>8. /\ c \in Calls /\ c.pc = "load" /\ c.run = r /\ c.key = k /\ c.fence = f
      /\ c.bound = n /\ c.status = "none"
  <2>1. n \in 0..MaxEffects /\ n # 0
    BY CoordinatorAssumption
  <2>2. c = [pc |-> "load", run |-> r, fence |-> f, key |-> k, bound |-> n, left |-> n,
             activity |-> NoActivity, outcome |-> "none", verdict |-> "none",
             status |-> "none"]
    BY <1>2 DEF Idle
  <2>3. QED
    BY <2>1, <2>2 DEF Calls, Places
<1>9. CallInv(c)'
  BY <1>3, <1>6, <1>8, CoordinatorAssumption DEF CallInv, Used, ReceiptOf
<1>10. coord' \in [Invocations -> Calls] /\ CallsInv'
  BY <1>4, <1>7, <1>8, <1>9, CallWritten DEF CoordInv
<1>11. CTypeOK'
  BY <1>6, <1>10 DEF CTypeOK, TablesInv, TypeInv
<1>12. coord'[i] = c /\ \A j \in Invocations \ {i} : coord'[j] = coord[j]
  BY <1>4 DEF CoordInv, CTypeOK
<1>13. \A j \in Invocations : coord[j].pc # "idle" => <<coord[j].run, coord[j].key>> # <<r, k>>
  BY <1>4 DEF CoordInv, CallsInv, CallInv, Used, ReceiptOf
<1>14. CommandDispatchedOnce'
  BY <1>8, <1>12, <1>13 DEF CoordInv, CommandDispatchedOnce, At
<1>15. CompletedMeansSucceeded'
  BY <1>3, <1>4, <1>6 DEF CoordInv, CompletedMeansSucceeded, vars
<1>16. QED
  BY <1>10, <1>11, <1>14, <1>15 DEF CoordInv

\* Starting over forgets a receipt that only its caller knew.
LEMMA AgainStep ==
    ASSUME CoordInv, TablesInv', NEW i \in Invocations, Again(i)
    PROVE  CoordInv'
<1>1. PICK r, k : r = coord[i].run /\ k = coord[i].key
  OBVIOUS
<1>2. /\ coord[i].pc # "idle" /\ coord' = [coord EXCEPT ![i] = Idle]
      /\ receipt' = [receipt EXCEPT ![<<r, k>>] = NoReceipt] /\ UNCHANGED vars
  BY <1>1 DEF Again
<1>3. r \in Runs /\ k \in Keys
  BY <1>1, <1>2 DEF CoordInv, CTypeOK, CallsInv, CallInv, Calls
<1>4. NoReceipt \in Receipts
  BY DEF NoReceipt, Receipts, Intents, CommandResults
<1>5. /\ receipt' \in [Runs \X Keys -> Receipts]
      /\ receipt'[<<r, k>>] = NoReceipt
      /\ \A rk \in Runs \X Keys : rk # <<r, k>> => receipt'[rk] = receipt[rk]
  BY <1>2, <1>3, <1>4, ReceiptWritten DEF CoordInv
<1>6. Idle \in Calls
  BY RunAssumption, CoordinatorAssumption DEF Idle, Calls, Places, Runs
<1>7. /\ coord' \in [Invocations -> Calls] /\ coord'[i] = Idle
      /\ \A j \in Invocations \ {i} : coord'[j] = coord[j]
  BY <1>2, <1>6 DEF CoordInv, CTypeOK
<1>8. CTypeOK'
  BY <1>5, <1>7 DEF CTypeOK, TablesInv, TypeInv
<1>9. ASSUME NEW j \in Invocations
      PROVE  CallInv(coord[j])'
  <2>1. CASE j = i
    BY <1>7, <2>1 DEF CallInv, Idle
  <2>2. CASE j # i
    <3>1. coord[j] \in Calls /\ CallInv(coord[j])
      BY DEF CoordInv, CTypeOK, CallsInv
    <3>2. coord[j].pc # "idle" =>
            /\ <<coord[j].run, coord[j].key>> # <<r, k>>
            /\ <<coord[j].run, coord[j].key>> \in Runs \X Keys
      BY <1>1, <1>2, <2>2, <3>1 DEF CoordInv, CommandDispatchedOnce, At, CallInv, Calls
    <3>3. coord[j].pc # "idle" => Used(coord[j].run, coord[j].key)'
      BY <1>5, <1>7, <2>2, <3>1, <3>2 DEF CallInv, Used, ReceiptOf
    <3>4. coord'[j] = coord[j] /\ run' = run
      BY <1>2, <1>7, <2>2 DEF vars
    <3>5. QED
      BY <3>1, <3>3, <3>4 DEF CallInv, Used, ReceiptOf
  <2>3. QED
    BY <2>1, <2>2
<1>10. CommandDispatchedOnce'
  BY <1>7 DEF CoordInv, CommandDispatchedOnce, At, Idle
<1>11. CompletedMeansSucceeded'
  BY <1>2, <1>5 DEF CoordInv, CompletedMeansSucceeded, vars, NoReceipt
<1>12. QED
  BY <1>8, <1>9, <1>10, <1>11 DEF CoordInv, CallsInv


\* Completion writes the status that the invocation is about to return.
LEMMA CompleteStep ==
    ASSUME CoordInv, NEW i \in Invocations, Complete(i)
    PROVE  /\ receipt' \in [Runs \X Keys -> Receipts]
           /\ Kept
           /\ CompletedMeansSucceeded'
<1>1. PICK r, k, s : r = coord[i].run /\ k = coord[i].key /\ s = coord[i].status
  OBVIOUS
<1>2. PICK intent : intent = Intent(coord[i].fence, coord[i].bound)
  OBVIOUS
<1>3. coord[i] \in Calls /\ CallInv(coord[i]) /\ coord[i].pc = "finish"
  BY DEF CoordInv, CTypeOK, CallsInv, Complete, At
<1>4. /\ r \in Runs /\ k \in Keys /\ s \in CoordinatorStatus
      /\ s = "completed" => run[r].status = "succeeded"
  BY <1>1, <1>3 DEF Calls, CallInv
<1>5. /\ receipt[<<r, k>>] = [state |-> "incomplete", intent |-> intent, result |-> "none"]
      /\ receipt' = [receipt EXCEPT ![<<r, k>>] =
                       [receipt[<<r, k>>] EXCEPT !.state = "completed", !.result = s]]
      /\ UNCHANGED vars
  BY <1>1, <1>2 DEF Complete, SetResult, ReceiptOf
<1>6. receipt[<<r, k>>] \in Receipts
  BY <1>4 DEF CoordInv, CTypeOK
<1>7. PICK row : row = [receipt[<<r, k>>] EXCEPT !.state = "completed", !.result = s]
  OBVIOUS
<1>8. row = [state |-> "completed", intent |-> intent, result |-> s]
  <2>1. PICK old : old = receipt[<<r, k>>]
    OBVIOUS
  <2>2. /\ old = [state |-> "incomplete", intent |-> intent, result |-> "none"]
        /\ row = [old EXCEPT !.state = "completed", !.result = s]
    BY <1>5, <1>7, <2>1
  <2>3. QED
    BY <2>2
<1>9. row \in Receipts
  BY <1>4, <1>5, <1>6, <1>8 DEF Receipts, CommandResults, CoordinatorStatus
<1>10. receipt' = [receipt EXCEPT ![<<r, k>>] = row]
  BY <1>5, <1>7
<1>11. /\ receipt' \in [Runs \X Keys -> Receipts]
       /\ receipt'[<<r, k>>] = row
       /\ \A rk \in Runs \X Keys : rk # <<r, k>> => receipt'[rk] = receipt[rk]
  BY <1>4, <1>9, <1>10, ReceiptWritten DEF CoordInv
<1>12. Kept
  BY <1>5, <1>8, <1>11 DEF Kept, vars
<1>13. CompletedMeansSucceeded'
  <2>1. ASSUME NEW rk \in Runs \X Keys, receipt'[rk].result = "completed"
        PROVE  run[rk[1]].status = "succeeded"
    BY <1>4, <1>8, <1>11, <2>1 DEF CoordInv, CompletedMeansSucceeded
  <2>2. QED
    BY <1>5, <2>1 DEF CompletedMeansSucceeded, vars
<1>14. QED
  BY <1>11, <1>12, <1>13

\* Every step of an invocation, of another command or of nobody.
LEMMA CoordInvStep == CoordInv /\ [CNext]_cvars => CoordInv'
<1> SUFFICES ASSUME CoordInv, [CNext]_cvars PROVE CoordInv'
  OBVIOUS
<1>1. /\ TablesInv'
      /\ \A q \in Runs : run[q].status = "succeeded" => run'[q].status = "succeeded"
  BY TablesStep DEF CoordInv
<1>2. CASE \E i \in Invocations : Submit(i)
  BY <1>1, <1>2, AdmitStep
<1>3. CASE \E i \in Invocations : Again(i)
  BY <1>1, <1>3, AgainStep
<1>4. CASE ~\E i \in Invocations : Submit(i) \/ Again(i)
  <2>1. /\ receipt' \in [Runs \X Keys -> Receipts] /\ Kept /\ CompletedMeansSucceeded'
    <3>1. CASE \E i \in Invocations : Complete(i)
      BY <3>1, CompleteStep
    <3>2. CASE receipt' = receipt
      BY <1>1, <3>2 DEF CoordInv, CTypeOK, Kept, CompletedMeansSucceeded
    <3>3. QED
      BY <1>4, <3>1, <3>2, ReceiptChange
  <2>2. coord' \in [Invocations -> Calls] /\ CallsInv'
    <3>1. CASE coord' = coord
      BY <2>1, <3>1, CallsUntouched DEF CoordInv
    <3>2. CASE coord' # coord
      <4>1. PICK i \in Invocations : InvocationStep(i) \/ Crash(i)
        BY <1>4, <3>2 DEF CNext, cvars, RunCommand
      <4>2. CTypeOK /\ CallsInv /\ TypeOK
        BY DEF CoordInv, CTypeOK
      <4>3. QED
        BY <2>1, <4>1, <4>2, LoadKept, MoveKept, ResultKept DEF InvocationStep
    <3>3. QED
      BY <3>1, <3>2
  <2>3. CTypeOK'
    BY <1>1, <2>1, <2>2 DEF CTypeOK, TablesInv, TypeInv
  <2>4. CommandDispatchedOnce'
    <3>1. \A i \in Invocations :
            /\ coord'[i].run = coord[i].run /\ coord'[i].key = coord[i].key
            /\ coord[i].pc = "idle" => coord'[i].pc = "idle"
      BY <1>4, SameCommands DEF CoordInv
    <3>2. QED
      BY <3>1 DEF CoordInv, CommandDispatchedOnce, At
  <2>5. QED
    BY <1>1, <2>1, <2>2, <2>3, <2>4 DEF CoordInv
<1>5. QED
  BY <1>2, <1>3, <1>4

\* Whatever invocations interleave with commands and crashes, CoordInv holds.
THEOREM CoordInvariant == CSpec => []CoordInv
BY CoordInvInit, CoordInvStep, PTL DEF CSpec

\* The tables, the receipts and the local state of the invocations keep their
\* types.
THEOREM CoordTypeCorrect == CSpec => []CTypeOK
<1>1. CoordInv => CTypeOK
  BY DEF CoordInv
<1>2. QED
  BY <1>1, CoordInvariant, PTL

\* A command key dispatches once: _admit_command refuses a key that has a
\* receipt, and no receipt of a command on its way disappears.
THEOREM CommandsDispatchOnce == CSpec => []CommandDispatchedOnce
<1>1. CoordInv => CommandDispatchedOnce
  BY DEF CoordInv
<1>2. QED
  BY <1>1, CoordInvariant, PTL

\* A receipt that says completed is backed by a succeeded run: _complete_command
\* looks at neither claim nor run, and need not.
THEOREM CompletedIsSucceeded == CSpec => []CompletedMeansSucceeded
<1>1. CoordInv => CompletedMeansSucceeded
  BY DEF CoordInv
<1>2. QED
  BY <1>1, CoordInvariant, PTL


----------------------------------------------------------------------------
(* Runtime effects. *)

\* The strengthening: an effect is called by the one who inserted its attempt,
\* and who may still call it has not done so.  Nothing of the kind holds of the
\* legacy effects, which have no attempt.
RuntimeEffectInv(e) ==
    /\ effect[e].calls <= 1
    /\ attempt[e].status = "none" => caller[e] = "none" /\ effect[e].calls = 0
    /\ caller[e] = "holding" => effect[e].calls = 0

RuntimeEffectsInv ==
    \A e \in Effects : e.activity \notin Legacy => RuntimeEffectInv(e)

\* The services of ExecutionRun, whatever the legacy effects do.
LEMMA RuntimeServiceStep ==
    ASSUME TypeOK, RuntimeEffectsInv, EffectView
    PROVE  RuntimeEffectsInv'
<1> SUFFICES ASSUME NEW d \in Effects, RuntimeEffectInv(d) PROVE RuntimeEffectInv(d)'
  BY DEF RuntimeEffectsInv
<1>1. ASSUME NEW e \in Effects, Starts(e)
      PROVE  RuntimeEffectInv(d)'
  BY <1>1 DEF Starts, TypeOK, RuntimeEffectInv
<1>2. ASSUME NEW e \in Effects, ExecuteEffect(e)
      PROVE  RuntimeEffectInv(d)'
  <2>1. PICK outcome \in ResultKinds, result \in {"succeeded", "failed"} :
          /\ caller' = [caller EXCEPT ![e] = outcome]
          /\ effect' = [effect EXCEPT ![e] =
                          [calls |-> effect[e].calls + 1, result |-> result]]
    BY <1>2 DEF ExecuteEffect
  <2>2. outcome # "holding" /\ outcome # "none"
    BY RunAssumption
  <2>3. QED
    BY <1>2, <2>1, <2>2 DEF ExecuteEffect, TypeOK, RuntimeEffectInv
<1>3. ASSUME NEW e \in Effects, FoldExecution(e)
      PROVE  RuntimeEffectInv(d)'
  BY <1>3 DEF FoldExecution, TakesDirect, Fold, TypeOK, Attempts, Outcomes, RuntimeEffectInv
<1>4. ASSUME NEW e \in Effects, LoseCaller(e)
      PROVE  RuntimeEffectInv(d)'
  BY <1>4 DEF LoseCaller, TypeOK, RuntimeEffectInv
<1>5. ASSUME NEW f \in Fences, NEW e \in Effects, ObserveAttempt(f, e)
      PROVE  RuntimeEffectInv(d)'
  BY <1>5 DEF ObserveAttempt, RuntimeEffectInv
<1>6. ASSUME NEW o \in observers, FoldObservation(o) \/ LoseObserver(o)
      PROVE  RuntimeEffectInv(d)'
  <2>1. o.effect \in Effects /\ o.verdict \in Verdicts
    BY DEF TypeOK, Observers
  <2>2. CASE FoldObservation(o)
    BY <2>1, <2>2 DEF FoldObservation, MayReconcile, TakesDirect, Fold, TypeOK, Attempts,
       Verdicts, RuntimeEffectInv
  <2>3. CASE LoseObserver(o)
    BY <2>3 DEF LoseObserver, RuntimeEffectInv
  <2>4. QED
    BY <1>6, <2>2, <2>3
<1>7. ASSUME NEW f \in Fences, NEW e \in Effects, NEW s \in Resolutions,
             ResolveUncertainty(f, e, s)
      PROVE  RuntimeEffectInv(d)'
  BY <1>7, RunAssumption DEF ResolveUncertainty, Fold, TypeOK, Attempts, RuntimeEffectInv
<1>8. CASE NoEffect
  BY <1>8 DEF NoEffect, RuntimeEffectInv
<1>9. QED
  BY <1>1, <1>2, <1>3, <1>4, <1>5, <1>6, <1>7, <1>8 DEF EffectView

LEMMA RuntimeEffectsStep ==
    CoordInv /\ RuntimeEffectsInv /\ [CNext]_cvars => RuntimeEffectsInv'
<1> SUFFICES ASSUME CoordInv, RuntimeEffectsInv, [CNext]_cvars PROVE RuntimeEffectsInv'
  OBVIOUS
<1>1. CTypeOK /\ CallsInv /\ TypeOK /\ TypeInv
  BY DEF CoordInv, CTypeOK, TablesInv
<1>2. CASE [Next]_vars
  BY <1>1, <1>2, StepView, RuntimeServiceStep
<1>3. ASSUME NEW i \in Invocations, DirectEvent(i)
      PROVE  RuntimeEffectsInv'
  <2> SUFFICES ASSUME NEW e \in Effects, e.activity \notin Legacy, RuntimeEffectInv(e)
               PROVE  RuntimeEffectInv(e)'
    BY DEF RuntimeEffectsInv
  <2>1. effect'[e] = effect[e]
    BY <1>1, <1>3, DirectStep
  <2>2. caller' = caller /\ (attempt'[e].status = "none" => attempt[e].status = "none")
    BY <1>1, <1>3, DirectStep
  <2>3. QED
    BY <2>1, <2>2 DEF RuntimeEffectInv
<1>4. QED
  BY <1>1, <1>2, <1>3, BaseStep

\* Runtime effects are invoked once, however many invocations load the same
\* step, reconcile it, crash and are called again; the legacy events that go
\* around the attempt rows do not touch them.
THEOREM RuntimeEffectsInvokedOnce == CSpec => []RuntimeInvokedOnce
<1>1. CInit => RuntimeEffectsInv
  BY DEF CInit, Init, RuntimeEffectsInv, RuntimeEffectInv, NoAttempt
<1>2. RuntimeEffectsInv => RuntimeInvokedOnce
  BY DEF RuntimeEffectsInv, RuntimeEffectInv, RuntimeInvokedOnce
<1>3. QED
  BY <1>1, <1>2, CoordInvariant, RuntimeEffectsStep, PTL DEF CSpec

=============================================================================
