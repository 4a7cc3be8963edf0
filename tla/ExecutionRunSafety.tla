------------------------- MODULE ExecutionRunSafety -------------------------
(***************************************************************************)
(* Theorems about ExecutionRun for every plan, every set of workers and    *)
(* every bound: its type invariant, and on top of it at most one execution *)
(* per effect, truthful and final verdicts, fencing, and one active run    *)
(* per request.                                                            *)
(*                                                                         *)
(* The second part is the journal: the saga projection of every run and    *)
(* the attempt table never disagree, undoing never overlaps doing and goes *)
(* in reverse order, a retry leaves nothing open, and the current graph    *)
(* advances only on a realized plan.  Its inductive invariant is           *)
(* JournalInv.  It says of every run that its journal is coherent, agrees  *)
(* with the attempts, lists exactly the completed activities, and has      *)
(* requested compensation just when the run is compensating; the services  *)
(* read these facts from different tables.                                 *)
(***************************************************************************)
EXTENDS ContractedRun, TLAPS

----------------------------------------------------------------------------
(* The projection step keeps a journal a journal. *)

\* An event that the fold rejects leaves a journal behind.
LEMMA RejectType ==
    ASSUME NEW j \in Journals
    PROVE  Reject(j) \in Journals
BY DEF Journals, Reject

\* Replacing one step's status leaves a journal behind.
LEMMA MoveType ==
    ASSUME NEW j \in Journals, NEW a \in Activities,
           NEW from, NEW to \in StepStatus
    PROVE  /\ StepTo(j, a, to) \in Journals
           /\ Move(j, a, from, to) \in Journals
<1>1. StepTo(j, a, to) \in Journals
  BY DEF Journals, StepTo
<1>2. QED
  BY <1>1, RejectType DEF Move

\* Recording a success event in the completion order leaves a journal behind.
LEMMA OrderType ==
    ASSUME NEW j \in Journals, NEW a \in Activities
    PROVE  [j EXCEPT !.order = Append(@, a)] \in Journals
<1>1. Append(j.order, a) \in Seq(Activities)
  <2>1. j.order \in Seq(Activities)
    BY DEF Journals
  <2>2. QED
    BY <2>1
<1>2. ASSUME NEW s \in Seq(Activities)
      PROVE  [j EXCEPT !.order = s] \in Journals
  BY DEF Journals
<1>3. QED
  BY <1>1, <1>2

\* Each evolve case returns a journal.
LEMMA EvolveType ==
    ASSUME NEW j \in Journals, NEW a \in Activities
    PROVE  /\ EvolveStarted(j, a) \in Journals
           /\ EvolveSucceeded(j, a) \in Journals
           /\ EvolveFailed(j, a) \in Journals
           /\ EvolveCompensationRequested(j) \in Journals
           /\ EvolveCompensationStarted(j, a) \in Journals
<1>1. EvolveStarted(j, a) \in Journals
  BY MoveType, RejectType DEF EvolveStarted, StepStatus
<1>2. EvolveSucceeded(j, a) \in Journals
  <2>1. Move(j, a, "running", "succeeded") \in Journals
    BY MoveType DEF StepStatus
  <2>2. QED
    BY <2>1, OrderType DEF EvolveSucceeded
<1>3. EvolveFailed(j, a) \in Journals
  BY MoveType DEF EvolveFailed, StepStatus
<1>4. EvolveCompensationRequested(j) \in Journals
  <2>1. [j EXCEPT !.requested = TRUE] \in Journals
    BY DEF Journals
  <2>2. QED
    BY <2>1, RejectType DEF EvolveCompensationRequested
<1>5. EvolveCompensationStarted(j, a) \in Journals
  BY MoveType, RejectType DEF EvolveCompensationStarted, StepStatus
<1>6. QED
  BY <1>1, <1>2, <1>3, <1>4, <1>5

\* Recording or consuming uncertain evidence returns a journal.
LEMMA UncertainType ==
    ASSUME NEW j \in Journals, NEW a \in Activities
    PROVE  /\ [j EXCEPT !.uncertain = @ \cup {a}] \in Journals
           /\ [j EXCEPT !.uncertain = @ \ {a}] \in Journals
           /\ [j EXCEPT !.compUncertain = @ \cup {a}] \in Journals
           /\ [j EXCEPT !.compUncertain = @ \ {a}] \in Journals
BY DEF Journals

\* A forward event of the journal is projected to a journal.
LEMMA ProjectForwardType ==
    ASSUME NEW j \in Journals, NEW a \in Activities, NEW kind \in ForwardEvents
    PROVE  ProjectForward(j, kind, a) \in Journals
<1> DEFINE Started == IF j.step[a] = "pending" THEN EvolveStarted(j, a) ELSE j
<1>1. Started \in Journals
  BY EvolveType
<1>2. EvolveFailed(Started, a) \in Journals
  BY <1>1, EvolveType
<1>3. Resolve(j, a, EvolveSucceeded(j, a)) \in Journals
  BY EvolveType, RejectType, UncertainType DEF Resolve
<1>4. Resolve(j, a, EvolveFailed(j, a)) \in Journals
  BY EvolveType, RejectType, UncertainType DEF Resolve
<1>5. QED
  BY <1>2, <1>3, <1>4, EvolveType, UncertainType
  DEF ProjectForward, ForwardEvents

\* A compensation event of the journal is projected to a journal.
LEMMA ProjectCompensationType ==
    ASSUME NEW j \in Journals, NEW a \in Activities,
           NEW kind \in CompensationEvents
    PROVE  ProjectCompensation(j, kind, a) \in Journals
<1> DEFINE Started == IF j.step[a] = "compensating" THEN j
                      ELSE EvolveCompensationStarted(j, a)
<1>1. Started \in Journals
  BY EvolveType
<1>2. Move(Started, a, "compensating", "compensation_failed") \in Journals
  BY <1>1, MoveType DEF StepStatus
<1>3. ASSUME NEW to \in StepStatus
      PROVE  /\ Move(j, a, "compensating", to) \in Journals
             /\ ResolveCompensation(j, a, to) \in Journals
  BY MoveType, RejectType, UncertainType DEF ResolveCompensation
<1>4. QED
  BY <1>2, <1>3, EvolveType, UncertainType
  DEF ProjectCompensation, CompensationEvents, StepStatus

\* One durable event, whatever it is, is projected to a journal.
LEMMA ApplyType ==
    ASSUME NEW j \in Journals, NEW a \in Activities, NEW kind \in StepEvents
    PROVE  Apply(j, kind, a) \in Journals
BY OrderType, ProjectForwardType, ProjectCompensationType DEF Apply, StepEvents

\* So is the run-level request to compensate.
LEMMA ApplyRequestedType ==
    ASSUME NEW j \in Journals
    PROVE  ApplyCompensationRequested(j) \in Journals
<1>1. [j EXCEPT !.requested = TRUE] \in Journals
  BY DEF Journals
<1>2. QED
  BY <1>1, RejectType
  DEF ApplyCompensationRequested, EvolveCompensationRequested

----------------------------------------------------------------------------
(* Type correctness: one lemma per group of actions. *)

\* What a row carries of an effect identity.
LEMMA EffectIdentity ==
    ASSUME NEW r \in Runs, NEW a \in Activities
    PROVE  Forward(r, a) \in Effects /\ Inverse(r, a) \in Effects
BY DEF Forward, Inverse, Effects

\* _EVENT_KIND_BY_STATE is total on what the folds pass to it.
LEMMA EventKindType ==
    ASSUME NEW e \in Effects
    PROVE  /\ \A s \in Outcomes : EventKind(e, s, FALSE) \in StepEvents
           /\ \A s \in {"succeeded", "failed", "abandoned"} :
                EventKind(e, s, TRUE) \in StepEvents
<1>1. ASSUME NEW s \in Outcomes
      PROVE  EventKind(e, s, FALSE) \in StepEvents
  BY DEF Outcomes, EventKind, StepEvents, ForwardEvents, CompensationEvents
<1>2. ASSUME NEW s \in {"succeeded", "failed", "abandoned"}
      PROVE  EventKind(e, s, TRUE) \in StepEvents
  BY DEF EventKind, StepEvents, ForwardEvents, CompensationEvents
<1>3. QED
  BY <1>1, <1>2

\* Appending an event keeps the journals and the run records well typed.
LEMMA RecordType ==
    ASSUME TypeOK, NEW r \in Runs
    PROVE  /\ \A a \in Activities, kind \in StepEvents :
                Journalled(r, kind, a) \in [Runs -> Journals]
           /\ [journal EXCEPT ![r] = ApplyCompensationRequested(@)]
                \in [Runs -> Journals]
           /\ Recorded(r, "other") \in RunRecords
           /\ [run EXCEPT ![r] = Recorded(r, "other")] \in [Runs -> RunRecords]
<1>1. journal[r] \in Journals /\ run[r] \in RunRecords
  BY DEF TypeOK
<1>2. ASSUME NEW a \in Activities, NEW kind \in StepEvents
      PROVE  Journalled(r, kind, a) \in [Runs -> Journals]
  <2>1. Apply(journal[r], kind, a) \in Journals
    BY <1>1, ApplyType
  <2>2. QED
    BY <2>1 DEF Journalled, TypeOK
<1>3. [journal EXCEPT ![r] = ApplyCompensationRequested(@)] \in [Runs -> Journals]
  BY <1>1, ApplyRequestedType DEF TypeOK
<1>4. Recorded(r, "other") \in RunRecords
  BY <1>1 DEF Recorded, RunRecords
<1>5. QED
  BY <1>2, <1>3, <1>4 DEF TypeOK

\* The writes of a fold are well typed.
LEMMA FoldType ==
    ASSUME TypeOK, NEW e \in Effects, NEW s, NEW resolved \in BOOLEAN,
           IF resolved THEN s \in {"succeeded", "failed", "abandoned"}
                       ELSE s \in Outcomes,
           Fold(e, s, resolved)
    PROVE  /\ run' \in [Runs -> RunRecords]
           /\ journal' \in [Runs -> Journals]
           /\ attempt' \in [Effects -> Attempts]
<1>1. e.run \in Runs /\ e.activity \in Activities
  BY DEF Effects
<1>2. run' \in [Runs -> RunRecords]
  BY <1>1, RecordType DEF Fold
<1>3. EventKind(e, s, resolved) \in StepEvents
  BY EventKindType
<1>4. journal' \in [Runs -> Journals]
  BY <1>1, <1>3, RecordType DEF Fold
<1>5. attempt' \in [Effects -> Attempts]
  <2>1. attempt[e] \in Attempts
    BY DEF TypeOK
  <2>2. s \in AttemptStatus
    BY DEF Outcomes, AttemptStatus
  <2>3. [attempt[e] EXCEPT !.status = s, !.resolved = resolved] \in Attempts
    BY <2>1, <2>2 DEF Attempts
  <2>4. QED
    BY <2>3 DEF Fold, TypeOK
<1>6. QED
  BY <1>2, <1>4, <1>5

\* A lifecycle transition (_transition) writes a well-typed run record.
LEMMA TransitionType ==
    ASSUME TypeOK, NEW f \in Fences, NEW r \in Runs, NEW expected,
           NEW replacement \in RunStatus, Transition(f, r, expected, replacement)
    PROVE  TypeOK'
<1>1. run[r] \in RunRecords
  BY DEF TypeOK
<1>2. EventOf(replacement) \in {"run_failed", "run_succeeded", "other"}
  BY DEF EventOf
<1>3. Transitioned(run[r], replacement) \in RunRecords
  BY <1>1, <1>2 DEF Transitioned, RunRecords
<1>4. run' \in [Runs -> RunRecords]
  BY <1>3 DEF Transition, TypeOK
<1>5. QED
  BY <1>4 DEF Transition, TypeOK

\* The run lifecycle commands of lifecycle.py preserve the types.
LEMMA LifecycleType ==
    ASSUME TypeOK, LifecycleStep
    PROVE  TypeOK'
<1>1. ASSUME NEW w \in Workers, ClaimRun(w)
      PROVE  TypeOK'
  <2>1. request' \in Requests
    BY <1>1, RunAssumption DEF ClaimRun, Requests, Fences
  <2>2. latest' \in 0..MaxRuns
    BY <1>1, RunAssumption DEF ClaimRun
  <2>3. run' \in [Runs -> RunRecords]
    <3>1. OpenedRun \in RunRecords
      BY DEF OpenedRun, NoRun, RunRecords, RunStatus
    <3>2. QED
      BY <1>1, <3>1 DEF ClaimRun, TypeOK
  <2>4. QED
    BY <1>1, <2>1, <2>2, <2>3 DEF ClaimRun, TypeOK
<1>2. ASSUME NEW f \in Fences, NEW r \in Runs,
             \/ StartRun(f, r)
             \/ PauseRun(f, r)
             \/ ResumeRun(f, r)
             \/ CompleteRun(f, r)
             \/ FailRun(f, r)
             \/ CancelRun(f, r)
      PROVE  TypeOK'
  BY <1>2, TransitionType
  DEF StartRun, PauseRun, ResumeRun, CompleteRun, FailRun, CancelRun, RunStatus
<1>3. QED
  BY <1>1, <1>2 DEF LifecycleStep

\* Starting, executing, folding, observing and resolving attempts preserve
\* the types.
LEMMA EffectType ==
    ASSUME TypeOK, EffectStep
    PROVE  TypeOK'
<1>1. ASSUME NEW f \in Fences, NEW r \in Runs, NEW a \in Activities,
             StartEffectAttempt(f, r, a)
      PROVE  TypeOK'
  <2>1. /\ run' \in [Runs -> RunRecords]
        /\ journal' \in [Runs -> Journals]
    BY <1>1, RecordType DEF StartEffectAttempt, StepEvents, ForwardEvents
  <2>2. [status |-> "started", fence |-> f, resolved |-> FALSE] \in Attempts
    BY DEF Attempts, AttemptStatus
  <2>3. attempt' \in [Effects -> Attempts]
    BY <1>1, <2>2, EffectIdentity DEF StartEffectAttempt, TypeOK
  <2>4. QED
    BY <1>1, <2>1, <2>3, EffectIdentity DEF StartEffectAttempt, TypeOK
<1>2. ASSUME NEW e \in Effects, ExecuteEffect(e)
      PROVE  TypeOK'
  <2>1. PICK outcome \in ResultKinds, result \in {"succeeded", "failed"} :
          /\ caller' = [caller EXCEPT ![e] = outcome]
          /\ effect' = [effect EXCEPT ![e] =
                          [calls |-> effect[e].calls + 1, result |-> result]]
    BY <1>2 DEF ExecuteEffect
  <2>2. caller' \in [Effects -> {"none", "holding"} \cup Outcomes]
    BY <2>1, RunAssumption DEF TypeOK, Outcomes
  <2>3. [calls |-> effect[e].calls + 1, result |-> result]
           \in [calls : Nat, result : Results]
    BY DEF TypeOK, Results
  <2>4. effect' \in [Effects -> [calls : Nat, result : Results]]
    BY <2>1, <2>3 DEF TypeOK
  <2>5. QED
    BY <1>2, <2>2, <2>4 DEF ExecuteEffect, TypeOK
<1>3. ASSUME NEW e \in Effects, FoldExecution(e)
      PROVE  TypeOK'
  <2>1. /\ run' \in [Runs -> RunRecords]
        /\ journal' \in [Runs -> Journals]
        /\ attempt' \in [Effects -> Attempts]
    BY <1>3, FoldType DEF FoldExecution
  <2>2. QED
    BY <1>3, <2>1 DEF FoldExecution, TypeOK
<1>4. ASSUME NEW e \in Effects, LoseCaller(e)
      PROVE  TypeOK'
  BY <1>4 DEF LoseCaller, TypeOK
<1>5. ASSUME NEW f \in Fences, NEW e \in Effects, ObserveAttempt(f, e)
      PROVE  TypeOK'
  <2>1. PICK v \in Observable(e) :
          observers' = observers
                         \cup {[effect |-> e, fence |-> f, verdict |-> v]}
    BY <1>5 DEF ObserveAttempt
  <2>2. v \in Verdicts
    BY <2>1 DEF Observable, TypeOK, Results, Verdicts
  <2>3. [effect |-> e, fence |-> f, verdict |-> v] \in Observers
    BY <2>2 DEF Observers
  <2>4. QED
    BY <1>5, <2>1, <2>3 DEF ObserveAttempt, TypeOK
<1>6. ASSUME NEW o \in observers, FoldObservation(o)
      PROVE  TypeOK'
  <2>1. o \in Observers
    BY DEF TypeOK
  <2>2. o.effect \in Effects /\ o.verdict \in Outcomes
    BY <2>1 DEF Observers, Verdicts, Outcomes
  <2>3. /\ run' \in [Runs -> RunRecords]
        /\ journal' \in [Runs -> Journals]
        /\ attempt' \in [Effects -> Attempts]
    BY <1>6, <2>2, FoldType DEF FoldObservation
  <2>4. QED
    BY <1>6, <2>3 DEF FoldObservation, TypeOK
<1>7. ASSUME NEW o \in observers, LoseObserver(o)
      PROVE  TypeOK'
  BY <1>7 DEF LoseObserver, TypeOK
<1>8. ASSUME NEW f \in Fences, NEW e \in Effects, NEW s \in Resolutions,
             ResolveUncertainty(f, e, s)
      PROVE  TypeOK'
  <2>1. /\ run' \in [Runs -> RunRecords]
        /\ journal' \in [Runs -> Journals]
        /\ attempt' \in [Effects -> Attempts]
    <3>1. s \in {"succeeded", "failed", "abandoned"}
      BY RunAssumption
    <3>2. QED
      BY <1>8, <3>1, FoldType DEF ResolveUncertainty
  <2>2. QED
    BY <1>8, <2>1 DEF ResolveUncertainty, TypeOK
<1>9. QED
  BY <1>1, <1>2, <1>3, <1>4, <1>5, <1>6, <1>7, <1>8 DEF EffectStep

\* A row of cpk_activity_runs stays one when an event is recorded with it.
LEMMA RowType ==
    ASSUME NEW row \in RunRecords, NEW f \in Fences \cup {NoFence}, NEW s \in RunStatus
    PROVE  /\ [row EXCEPT !.fenced = f, !.last = "other"] \in RunRecords
           /\ [row EXCEPT !.status = s, !.last = "other"] \in RunRecords
<1>1. [row EXCEPT !.fenced = f, !.last = "other"] \in RunRecords
  BY DEF RunRecords
<1>2. [row EXCEPT !.status = s, !.last = "other"] \in RunRecords
  BY DEF RunRecords
<1>3. QED
  BY <1>1, <1>2

\* rotate_request_claim keeps the generation within its column.
LEMMA RotateType ==
    ASSUME TypeOK, latest \in Runs, NEW f \in Fences, NEW w \in Workers, Rotate(f, w)
    PROVE  request' \in Requests /\ run' \in [Runs -> RunRecords]
<1> DEFINE next == [worker |-> w, generation |-> f.generation + 1]
<1>1. next \in Fences
  BY RunAssumption DEF Rotate, Fences
<1>2. request' \in Requests
  BY <1>1 DEF Rotate, TypeOK, Requests
<1>3. [run[latest] EXCEPT !.fenced = next, !.last = "other"] \in RunRecords
  BY <1>1, RowType DEF TypeOK, RunStatus
<1>4. run' \in [Runs -> RunRecords]
  BY <1>3 DEF Rotate, TypeOK
<1>5. QED
  BY <1>2, <1>4

\* A request that left the queue has a run: what makes run[latest] meaningful
\* in every recovery command.
HasRun == request.status # "queued" => latest # 0

\* Lease recovery and retry preserve the types.
LEMMA RecoveryType ==
    ASSUME TypeOK, HasRun, RecoveryStep
    PROVE  TypeOK'
<1>1. ASSUME NEW f \in Fences, Owns(f)
      PROVE  latest \in Runs
  BY <1>1, RunAssumption DEF Owns, HasRun, TypeOK, Runs
<1>2. ASSUME NEW f \in Fences, RenewActiveClaim(f)
      PROVE  TypeOK'
  <2>1. f.worker \in Workers
    BY DEF Fences
  <2>2. request' \in Requests /\ run' \in [Runs -> RunRecords]
    BY <1>1, <1>2, <2>1, RotateType DEF RenewActiveClaim
  <2>3. QED
    BY <1>2, <2>2 DEF RenewActiveClaim, TypeOK
<1>3. ASSUME NEW f \in Fences, NEW w \in Workers, RecoverExpiredClaim(f, w)
      PROVE  TypeOK'
  <2>1. request' \in Requests /\ run' \in [Runs -> RunRecords]
    BY <1>1, <1>3, RotateType DEF RecoverExpiredClaim
  <2>2. QED
    BY <1>3, <2>1 DEF RecoverExpiredClaim, TypeOK
<1>4. ASSUME NEW f \in Fences, AbandonExpiredClaim(f)
      PROVE  TypeOK'
  <2>1. request' \in Requests
    BY <1>4 DEF AbandonExpiredClaim, Requests
  <2>2. latest \in Runs
    BY <1>1, <1>4 DEF AbandonExpiredClaim
  <2>3. [run[latest] EXCEPT !.fenced = NoFence, !.last = "other"] \in RunRecords
    BY <2>2, RowType DEF TypeOK, RunStatus
  <2>4. run' \in [Runs -> RunRecords]
    BY <1>4, <2>2, <2>3 DEF AbandonExpiredClaim, TypeOK
  <2>5. QED
    BY <1>4, <2>1, <2>4 DEF AbandonExpiredClaim, TypeOK
<1>5. ASSUME NEW f \in Fences, RetryRun(f)
      PROVE  TypeOK'
  <2>1. latest \in Runs
    BY <1>1, <1>5 DEF RetryRun
  <2>2. latest' \in 0..MaxRuns
    BY <1>5, RunAssumption DEF RetryRun, TypeOK
  <2>3. Recorded(latest, "other") \in RunRecords /\ OpenedRun \in RunRecords
    BY <2>1, RecordType DEF OpenedRun, NoRun, RunRecords, RunStatus
  <2>4. run' \in [Runs -> RunRecords]
    BY <1>5, <2>1, <2>3 DEF RetryRun, TypeOK
  <2>5. QED
    BY <1>5, <2>2, <2>4 DEF RetryRun, TypeOK
<1>6. QED
  BY <1>2, <1>3, <1>4, <1>5 DEF RecoveryStep

\* Compensation admission and inverse attempts preserve the types.
LEMMA CompensationType ==
    ASSUME TypeOK, CompensationStep
    PROVE  TypeOK'
<1>1. ASSUME NEW r \in Runs, BeginCompensation(r)
      PROVE  TypeOK'
  <2>1. [run[r] EXCEPT !.status = "compensating", !.last = "other"] \in RunRecords
    BY RowType DEF TypeOK, RunStatus
  <2>2. run' \in [Runs -> RunRecords]
    BY <1>1, <2>1 DEF BeginCompensation, TypeOK
  <2>3. journal' \in [Runs -> Journals]
    BY <1>1, RecordType DEF BeginCompensation
  <2>4. QED
    BY <1>1, <2>2, <2>3 DEF BeginCompensation, TypeOK
<1>2. ASSUME NEW f \in Fences, NEW r \in Runs, NEW a \in Activities,
             StartCompensationAttempt(f, r, a)
      PROVE  TypeOK'
  <2>1. /\ run' \in [Runs -> RunRecords]
        /\ journal' \in [Runs -> Journals]
    BY <1>2, RecordType
    DEF StartCompensationAttempt, StepEvents, CompensationEvents
  <2>2. [status |-> "started", fence |-> f, resolved |-> FALSE] \in Attempts
    BY DEF Attempts, AttemptStatus
  <2>3. attempt' \in [Effects -> Attempts]
    BY <1>2, <2>2, EffectIdentity DEF StartCompensationAttempt, TypeOK
  <2>4. QED
    BY <1>2, <2>1, <2>3, EffectIdentity DEF StartCompensationAttempt, TypeOK
<1>3. QED
  BY <1>1, <1>2 DEF CompensationStep

\* Advancement, lease expiry and the other commands preserve the types.
LEMMA SurroundingsType ==
    ASSUME TypeOK,
           \/ \E f \in Fences, r \in Runs : AdvanceCurrentGraph(f, r)
           \/ ExpireLease
           \/ EndSession
           \/ ReviseDesiredGraph
    PROVE  TypeOK'
<1>1. ASSUME NEW f \in Fences, NEW r \in Runs, AdvanceCurrentGraph(f, r)
      PROVE  TypeOK'
  BY <1>1, RecordType DEF AdvanceCurrentGraph, TypeOK, Workspaces
<1>2. CASE ExpireLease
  BY <1>2 DEF ExpireLease, TypeOK, Requests
<1>3. CASE EndSession
  BY <1>3 DEF EndSession, TypeOK
<1>4. CASE ReviseDesiredGraph
  BY <1>4 DEF ReviseDesiredGraph, TypeOK, Workspaces
<1>5. QED
  BY <1>1, <1>2, <1>3, <1>4

\* No command returns a request to the queue or removes a run.
LEMMA HasRunStep ==
    ASSUME TypeOK, HasRun, [Next]_vars
    PROVE  HasRun'
<1> USE RunAssumption DEF HasRun
<1>1. CASE LifecycleStep
  BY <1>1 DEF LifecycleStep, ClaimRun, StartRun, PauseRun, ResumeRun,
       CompleteRun, FailRun, CancelRun, Transition
<1>2. CASE EffectStep
  BY <1>2 DEF EffectStep, StartEffectAttempt, ExecuteEffect, FoldExecution,
       LoseCaller, ObserveAttempt, FoldObservation, LoseObserver,
       ResolveUncertainty
<1>3. CASE RecoveryStep
  BY <1>3 DEF RecoveryStep, RenewActiveClaim, RecoverExpiredClaim,
       AbandonExpiredClaim, RetryRun, Owns, TypeOK
<1>4. CASE CompensationStep
  BY <1>4 DEF CompensationStep, BeginCompensation, StartCompensationAttempt
<1>5. CASE \E f \in Fences, r \in Runs : AdvanceCurrentGraph(f, r)
  BY <1>5 DEF AdvanceCurrentGraph
<1>6. CASE ExpireLease \/ EndSession \/ ReviseDesiredGraph
  BY <1>6 DEF ExpireLease, EndSession, ReviseDesiredGraph
<1>7. CASE UNCHANGED vars
  BY <1>7 DEF vars
<1>8. QED
  BY <1>1, <1>2, <1>3, <1>4, <1>5, <1>6, <1>7 DEF Next

\* The inductive invariant of the type proof.
TypeInv == TypeOK /\ HasRun

\* An admitted, unclaimed request is well typed.
LEMMA TypeInvInit == Init => TypeInv
<1> SUFFICES ASSUME Init PROVE TypeInv
  OBVIOUS
<1> USE RunAssumption DEF Init
<1>1. EmptyJournal \in Journals
  BY DEF EmptyJournal, Journals, StepStatus
<1>2. NoRun \in RunRecords
  BY DEF NoRun, RunRecords, RunStatus
<1>3. NoAttempt \in Attempts
  BY DEF NoAttempt, Attempts, AttemptStatus
<1>4. request \in Requests
  BY DEF Requests
<1>5. TypeOK
  BY <1>1, <1>2, <1>3, <1>4 DEF TypeOK, Workspaces, Results
<1>6. QED
  BY <1>5 DEF TypeInv, HasRun

\* Every command preserves the types.
LEMMA TypeInvStep == TypeInv /\ [Next]_vars => TypeInv'
<1> SUFFICES ASSUME TypeOK, HasRun, [Next]_vars
             PROVE  TypeOK'
  BY HasRunStep DEF TypeInv
<1>1. CASE UNCHANGED vars
  BY <1>1 DEF vars, TypeOK
<1>2. QED
  BY <1>1, LifecycleType, EffectType, RecoveryType, CompensationType,
     SurroundingsType DEF Next

\* Every column keeps its type in every behaviour, and a request that left the
\* queue always has a run to recover.
THEOREM TypeInvariant == Spec => []TypeInv
BY TypeInvInit, TypeInvStep, PTL DEF Spec

\* TypeOK alone: no service ever writes a value that the columns of the store
\* do not hold, the bounded claim generation in particular.
THEOREM TypeCorrect == Spec => []TypeOK
<1>1. TypeInv => TypeOK
  BY DEF TypeInv
<1>2. QED
  BY <1>1, TypeInvariant, PTL

----------------------------------------------------------------------------
(* What changes the four tables of an effect. *)

\* Inserting the row of an attempt: what the two services that start an effect
\* have in common.
Starts(e) ==
    \E f \in Fences :
        /\ Owns(f)
        /\ attempt[e].status = "none"
        /\ attempt' = [attempt EXCEPT ![e] =
                         [status |-> "started", fence |-> f, resolved |-> FALSE]]
        /\ caller' = [caller EXCEPT ![e] = "holding"]
        /\ UNCHANGED <<observers, effect>>

\* Nothing about any effect changes.
NoEffect == UNCHANGED <<attempt, caller, observers, effect>>

\* Every step of a run, seen from its effects.
EffectView ==
    \/ \E e \in Effects : \/ Starts(e)
                          \/ ExecuteEffect(e)
                          \/ FoldExecution(e)
                          \/ LoseCaller(e)
    \/ \E f \in Fences, e \in Effects : ObserveAttempt(f, e)
    \/ \E o \in observers : FoldObservation(o) \/ LoseObserver(o)
    \/ \E f \in Fences, e \in Effects, s \in Resolutions :
         ResolveUncertainty(f, e, s)
    \/ NoEffect

\* The lifecycle, recovery, advancement and session commands touch no effect,
\* and both directions of an effect start the same way.
LEMMA StepView == [Next]_vars => EffectView
<1> SUFFICES ASSUME [Next]_vars PROVE EffectView
  OBVIOUS
<1>1. CASE LifecycleStep
  BY <1>1 DEF LifecycleStep, ClaimRun, StartRun, PauseRun, ResumeRun, CompleteRun,
       FailRun, CancelRun, Transition, EffectView, NoEffect
<1>2. CASE EffectStep
  <2>1. ASSUME NEW f \in Fences, NEW r \in Runs, NEW a \in Activities,
               StartEffectAttempt(f, r, a)
        PROVE  Starts(Forward(r, a))
    BY <2>1 DEF StartEffectAttempt, Starts
  <2>2. QED
    BY <1>2, <2>1, EffectIdentity DEF EffectStep, EffectView
<1>3. CASE RecoveryStep
  BY <1>3 DEF RecoveryStep, RenewActiveClaim, RecoverExpiredClaim,
       AbandonExpiredClaim, RetryRun, EffectView, NoEffect
<1>4. CASE CompensationStep
  <2>1. ASSUME NEW f \in Fences, NEW r \in Runs, NEW a \in Activities,
               StartCompensationAttempt(f, r, a)
        PROVE  Starts(Inverse(r, a))
    BY <2>1 DEF StartCompensationAttempt, NextProgramStep, Starts
  <2>2. ASSUME NEW r \in Runs, BeginCompensation(r)
        PROVE  NoEffect
    BY <2>2 DEF BeginCompensation, NoEffect
  <2>3. QED
    BY <1>4, <2>1, <2>2, EffectIdentity DEF CompensationStep, EffectView
<1>5. CASE \E f \in Fences, r \in Runs : AdvanceCurrentGraph(f, r)
  BY <1>5 DEF AdvanceCurrentGraph, EffectView, NoEffect
<1>6. CASE ExpireLease \/ EndSession \/ ReviseDesiredGraph
  BY <1>6 DEF ExpireLease, EndSession, ReviseDesiredGraph, EffectView, NoEffect
<1>7. CASE UNCHANGED vars
  BY <1>7 DEF vars, EffectView, NoEffect
<1>8. QED
  BY <1>1, <1>2, <1>3, <1>4, <1>5, <1>6, <1>7 DEF Next

----------------------------------------------------------------------------
(* At most one execution, and truthful verdicts. *)

\* The strengthening: who may still execute an effect has not done so yet, and
\* what the caller and the attempt row say of it is what happened.
EffectInv(e) ==
    /\ effect[e].calls <= 1
    /\ effect[e].calls = 0 <=> effect[e].result = "none"
    /\ attempt[e].status = "none" => caller[e] = "none" /\ effect[e].calls = 0
    /\ caller[e] = "holding" => effect[e].calls = 0
    /\ caller[e] = "succeeded" => effect[e].result = "succeeded"
    /\ caller[e] \in {"failed", "unsupported"} => effect[e].result = "failed"
    /\ ~attempt[e].resolved /\ attempt[e].status \in {"succeeded", "failed"}
         => effect[e].result = attempt[e].status

ObserverInv(o) ==
    o.verdict # "uncertain" => effect[o.effect].result = o.verdict

EffectsInv ==
    /\ \A e \in Effects : EffectInv(e)
    /\ \A o \in observers : ObserverInv(o)

\* Before anything is started, nothing has been executed.
LEMMA EffectsInvInit == Init => EffectsInv
BY DEF Init, EffectsInv, EffectInv, ObserverInv, NoAttempt

\* A step of one effect leaves what is known of the others alone.
LEMMA EffectsInvStep == TypeOK /\ EffectsInv /\ EffectView => EffectsInv'
<1> SUFFICES ASSUME TypeOK, EffectsInv, EffectView PROVE EffectsInv'
  OBVIOUS
<1> USE DEF EffectsInv
<1>1. ASSUME NEW e \in Effects, Starts(e)
      PROVE  EffectsInv'
  <2>1. ASSUME NEW d \in Effects
        PROVE  EffectInv(d)'
    BY <1>1 DEF Starts, TypeOK, EffectInv
  <2>2. ASSUME NEW o \in observers'
        PROVE  ObserverInv(o)'
    BY <1>1 DEF Starts, ObserverInv
  <2>3. QED
    BY <2>1, <2>2
<1>2. ASSUME NEW e \in Effects, ExecuteEffect(e)
      PROVE  EffectsInv'
  <2>1. PICK outcome \in ResultKinds, result \in {"succeeded", "failed"} :
          /\ outcome = "succeeded" => result = "succeeded"
          /\ outcome \in {"failed", "unsupported"} => result = "failed"
          /\ caller' = [caller EXCEPT ![e] = outcome]
          /\ effect' = [effect EXCEPT ![e] =
                          [calls |-> effect[e].calls + 1, result |-> result]]
    BY <1>2 DEF ExecuteEffect
  <2>2. outcome \in Outcomes
    BY RunAssumption DEF Outcomes
  <2>3. ASSUME NEW d \in Effects
        PROVE  EffectInv(d)'
    BY <1>2, <2>1, <2>2 DEF ExecuteEffect, TypeOK, EffectInv, Outcomes
  <2>4. ASSUME NEW o \in observers'
        PROVE  ObserverInv(o)'
    <3>1. o \in observers /\ o \in Observers
      BY <1>2 DEF ExecuteEffect, TypeOK
    <3>2. o.effect \in Effects /\ o.verdict # "none"
      BY <3>1 DEF Observers, Verdicts
    <3>3. CASE o.effect = e
      BY <1>2, <3>1, <3>2, <3>3 DEF ExecuteEffect, EffectInv, ObserverInv
    <3>4. CASE o.effect # e
      BY <2>1, <3>1, <3>2, <3>4 DEF ObserverInv, TypeOK
    <3>5. QED
      BY <3>3, <3>4
  <2>5. QED
    BY <2>3, <2>4
<1>3. ASSUME NEW e \in Effects, FoldExecution(e)
      PROVE  EffectsInv'
  <2>1. ASSUME NEW d \in Effects
        PROVE  EffectInv(d)'
    BY <1>3 DEF FoldExecution, TakesDirect, Fold, TypeOK, Attempts, EffectInv,
         Outcomes
  <2>2. ASSUME NEW o \in observers'
        PROVE  ObserverInv(o)'
    BY <1>3 DEF FoldExecution, ObserverInv
  <2>3. QED
    BY <2>1, <2>2
<1>4. ASSUME NEW e \in Effects, LoseCaller(e)
      PROVE  EffectsInv'
  BY <1>4 DEF LoseCaller, TypeOK, EffectInv, ObserverInv
<1>5. ASSUME NEW f \in Fences, NEW e \in Effects, ObserveAttempt(f, e)
      PROVE  EffectsInv'
  <2>1. PICK v \in Observable(e) :
          observers' = observers
                         \cup {[effect |-> e, fence |-> f, verdict |-> v]}
    BY <1>5 DEF ObserveAttempt
  <2>2. ASSUME NEW d \in Effects
        PROVE  EffectInv(d)'
    BY <1>5 DEF ObserveAttempt, EffectInv
  <2>3. ASSUME NEW o \in observers'
        PROVE  ObserverInv(o)'
    BY <1>5, <2>1 DEF ObserveAttempt, Observable, ObserverInv
  <2>4. QED
    BY <2>2, <2>3
<1>6. ASSUME NEW o \in observers, FoldObservation(o)
      PROVE  EffectsInv'
  <2>1. o.effect \in Effects /\ o.verdict \in Verdicts /\ ObserverInv(o)
    BY DEF TypeOK, Observers
  <2>2. ASSUME NEW d \in Effects
        PROVE  EffectInv(d)'
    BY <1>6, <2>1 DEF FoldObservation, MayReconcile, TakesDirect, Fold, TypeOK,
         Attempts, EffectInv, ObserverInv, Verdicts
  <2>3. ASSUME NEW p \in observers'
        PROVE  ObserverInv(p)'
    BY <1>6 DEF FoldObservation, ObserverInv
  <2>4. QED
    BY <2>2, <2>3
<1>7. ASSUME NEW o \in observers, LoseObserver(o)
      PROVE  EffectsInv'
  BY <1>7 DEF LoseObserver, EffectInv, ObserverInv
<1>8. ASSUME NEW f \in Fences, NEW e \in Effects, NEW s \in Resolutions,
             ResolveUncertainty(f, e, s)
      PROVE  EffectsInv'
  <2>1. s \in {"succeeded", "failed", "abandoned"}
    BY RunAssumption
  <2>2. ASSUME NEW d \in Effects
        PROVE  EffectInv(d)'
    BY <1>8, <2>1 DEF ResolveUncertainty, Fold, TypeOK, Attempts, EffectInv
  <2>3. ASSUME NEW o \in observers'
        PROVE  ObserverInv(o)'
    BY <1>8 DEF ResolveUncertainty, ObserverInv
  <2>4. QED
    BY <2>2, <2>3
<1>9. CASE NoEffect
  BY <1>9 DEF NoEffect, EffectInv, ObserverInv
<1>10. QED
  BY <1>1, <1>2, <1>3, <1>4, <1>5, <1>6, <1>7, <1>8, <1>9 DEF EffectView

\* The strengthening holds throughout.
THEOREM EffectsInvariant == Spec => []EffectsInv
<1>1. TypeInv /\ EffectsInv /\ [Next]_vars => EffectsInv'
  BY StepView, EffectsInvStep DEF TypeInv
<1>2. QED
  BY <1>1, EffectsInvInit, TypeInvariant, PTL DEF Spec

\* Whatever crashes, replays, takeovers and reconciliations happen, a provider
\* effect is executed at most once per attempt.
THEOREM EffectExecutedAtMostOnce == Spec => []EffectAtMostOnce
<1>1. EffectsInv => EffectAtMostOnce
  BY DEF EffectsInv, EffectInv, EffectAtMostOnce
<1>2. QED
  BY <1>1, EffectsInvariant, PTL

\* A success or failure recorded without a recovery decision is what happened
\* at the provider.
THEOREM VerdictsAreTruthful == Spec => []VerdictTruthful
<1>1. EffectsInv => VerdictTruthful
  BY DEF EffectsInv, EffectInv, VerdictTruthful
<1>2. QED
  BY <1>1, EffectsInvariant, PTL

----------------------------------------------------------------------------
(* Finality and fencing: what one step may do to an attempt. *)

\* The steps that change an attempt row, and what holds when they do: the
\* common ground of the two action properties.
LEMMA AttemptChange ==
    ASSUME TypeOK, EffectView, NEW e \in Effects, attempt'[e] # attempt[e]
    PROVE  \/ Starts(e)
           \/ FoldExecution(e)
           \/ \E o \in observers : o.effect = e /\ FoldObservation(o)
           \/ \E f \in Fences, s \in Resolutions : ResolveUncertainty(f, e, s)
<1>1. ASSUME NEW d \in Effects, Starts(d)
      PROVE  d = e
  BY <1>1 DEF Starts, TypeOK
<1>2. ASSUME NEW d \in Effects, FoldExecution(d)
      PROVE  d = e
  BY <1>2 DEF FoldExecution, Fold, TypeOK
<1>3. ASSUME NEW o \in observers, FoldObservation(o)
      PROVE  o.effect = e
  BY <1>3 DEF FoldObservation, Fold, TypeOK, Observers
<1>4. ASSUME NEW f \in Fences, NEW d \in Effects, NEW s \in Resolutions,
             ResolveUncertainty(f, d, s)
      PROVE  d = e
  BY <1>4 DEF ResolveUncertainty, Fold, TypeOK
<1>5. QED
  BY <1>1, <1>2, <1>3, <1>4
  DEF EffectView, NoEffect, ExecuteEffect, LoseCaller, ObserveAttempt, LoseObserver

\* A decided attempt never changes, and only an explicit recovery decision ends
\* an uncertain one.
THEOREM VerdictsAreFinal == Spec => VerdictFinal
<1> DEFINE Final ==
      \A e \in Effects : attempt'[e] # attempt[e] =>
           \/ attempt[e].status \in {"none", "started"}
           \/ attempt[e].status = "uncertain" /\ attempt'[e].resolved
<1>1. ASSUME TypeInv, [Next]_vars
      PROVE  Final
  <2> SUFFICES ASSUME NEW e \in Effects, attempt'[e] # attempt[e]
               PROVE  \/ attempt[e].status \in {"none", "started"}
                      \/ attempt[e].status = "uncertain" /\ attempt'[e].resolved
    OBVIOUS
  <2>1. EffectView /\ TypeOK
    BY <1>1, StepView DEF TypeInv
  <2>2. CASE Starts(e)
    BY <2>2 DEF Starts
  <2>3. CASE FoldExecution(e)
    BY <2>3 DEF FoldExecution, TakesDirect
  <2>4. CASE \E o \in observers : o.effect = e /\ FoldObservation(o)
    BY <2>4 DEF FoldObservation, MayReconcile, TakesDirect
  <2>5. ASSUME NEW f \in Fences, NEW s \in Resolutions, ResolveUncertainty(f, e, s)
        PROVE  attempt[e].status = "uncertain" /\ attempt'[e].resolved
    BY <2>1, <2>5 DEF ResolveUncertainty, Fold, TypeOK, Attempts
  <2>6. QED
    BY <2>1, <2>2, <2>3, <2>4, <2>5, AttemptChange
<1>2. TypeInv /\ [Next]_vars => [Final]_vars
  BY <1>1
<1>3. QED
  BY <1>2, TypeInvariant, PTL DEF Spec, VerdictFinal

\* No stale or foreign fence ever starts or folds an attempt.
THEOREM StaleFencesNeverFold == Spec => StaleFenceNeverFolds
<1> DEFINE Fenced ==
      \A e \in Effects : attempt'[e] # attempt[e] =>
           /\ request.status = "claimed"
           /\ Succeeds(request.claim, attempt'[e].fence)
           /\ caller'[e] # caller[e] => request.claim = attempt'[e].fence
           /\ \A o \in observers \ observers' : request.claim = o.fence
<1>1. ASSUME TypeInv, [Next]_vars
      PROVE  Fenced
  <2> SUFFICES ASSUME NEW e \in Effects, attempt'[e] # attempt[e]
               PROVE  /\ request.status = "claimed"
                      /\ Succeeds(request.claim, attempt'[e].fence)
                      /\ caller'[e] # caller[e] => request.claim = attempt'[e].fence
                      /\ \A o \in observers \ observers' : request.claim = o.fence
    OBVIOUS
  <2> USE DEF Owns, Succeeds
  <2>1. EffectView /\ TypeOK
    BY <1>1, StepView DEF TypeInv
  <2>2. CASE Starts(e)
    BY <2>1, <2>2 DEF Starts, TypeOK
  <2>3. CASE FoldExecution(e)
    BY <2>1, <2>3 DEF FoldExecution, Fold, TypeOK, Attempts
  <2>4. ASSUME NEW o \in observers, o.effect = e, FoldObservation(o)
        PROVE  /\ request.status = "claimed"
               /\ Succeeds(request.claim, attempt'[e].fence)
               /\ caller' = caller
               /\ \A p \in observers \ observers' : request.claim = p.fence
    BY <2>1, <2>4 DEF FoldObservation, MayReconcile, Fold, TypeOK, Attempts
  <2>5. ASSUME NEW f \in Fences, NEW s \in Resolutions, ResolveUncertainty(f, e, s)
        PROVE  /\ request.status = "claimed"
               /\ Succeeds(request.claim, attempt'[e].fence)
               /\ caller' = caller
               /\ observers' = observers
    BY <2>1, <2>5 DEF ResolveUncertainty, Fold, TypeOK, Attempts
  <2>6. QED
    BY <2>1, <2>2, <2>3, <2>4, <2>5, AttemptChange
<1>2. TypeInv /\ [Next]_vars => [Fenced]_vars
  BY <1>1
<1>3. QED
  BY <1>2, TypeInvariant, PTL DEF Spec, StaleFenceNeverFolds

----------------------------------------------------------------------------
(* One active run, and the chain of fences. *)

\* The strengthening: a superseded run failed and its failure is no longer its
\* last event, so neither a transition nor a compensation can touch it.
RunsInv ==
    \A r \in Runs : /\ r > latest => run[r].status = "none"
                    /\ r < latest => /\ run[r].status = "failed"
                                     /\ run[r].last # "run_failed"

\* Nothing has run yet.
LEMMA RunsInvInit == Init => RunsInv /\ RecoveryChainIntact
BY RunAssumption DEF Init, RunsInv, NoRun, RecoveryChainIntact, Runs

\* Every command keeps superseded runs closed and the claim on its chain.
LEMMA RunsInvStep ==
    TypeInv /\ RunsInv /\ RecoveryChainIntact /\ [Next]_vars
        => RunsInv' /\ RecoveryChainIntact'
<1> SUFFICES ASSUME TypeOK, HasRun, RunsInv, RecoveryChainIntact, [Next]_vars
             PROVE  RunsInv' /\ RecoveryChainIntact'
  BY DEF TypeInv
<1> USE RunAssumption DEF RunsInv, RecoveryChainIntact, ChainEndsIn
<1>1. ASSUME NEW r \in Runs, UNCHANGED <<request, latest>>,
             run' = [run EXCEPT ![r] = Recorded(r, "other")]
      PROVE  RunsInv' /\ RecoveryChainIntact'
  BY <1>1 DEF TypeOK, RunRecords, Recorded, HasRun, Requests, Runs
<1>2. ASSUME NEW f \in Fences, Owns(f)
      PROVE  latest \in Runs /\ request.claim = f
  BY <1>2 DEF Owns, HasRun, TypeOK, Runs
<1>3. CASE LifecycleStep
  <2>1. ASSUME NEW w \in Workers, ClaimRun(w)
        PROVE  RunsInv' /\ RecoveryChainIntact'
    BY <2>1 DEF ClaimRun, TypeOK, OpenedRun, NoRun, Runs
  <2>2. ASSUME NEW f \in Fences, NEW r \in Runs, NEW expected, NEW status \in RunStatus,
               expected \subseteq {"claimed", "running", "paused"},
               Transition(f, r, expected, status)
        PROVE  RunsInv' /\ RecoveryChainIntact'
    <3>1. r = latest
      <4>1. run[r].status \in {"claimed", "running", "paused"}
        BY <2>2 DEF Transition
      <4>2. run[r].status # "none" /\ run[r].status # "failed"
        BY <4>1
      <4>3. ~(r > latest) /\ ~(r < latest)
        BY <2>2, <4>2
      <4>4. QED
        BY <2>2, <4>3 DEF TypeOK, Runs
    <3>2. /\ run' \in [Runs -> RunRecords]
          /\ \A q \in Runs \ {r} : run'[q] = run[q]
          /\ run'[r].fenced = run[r].fenced
      BY <2>2, TransitionType DEF Transition, Transitioned, TypeOK, RunRecords
    <3>3. QED
      BY <2>2, <3>1, <3>2 DEF Transition, TypeOK, Runs
  <2>3. QED
    BY <1>3, <2>1, <2>2
    DEF LifecycleStep, StartRun, PauseRun, ResumeRun, CompleteRun, FailRun,
        CancelRun, RunStatus
<1>4. CASE EffectStep
  <2>1. ASSUME NEW f \in Fences, NEW r \in Runs, NEW a \in Activities,
               StartEffectAttempt(f, r, a)
        PROVE  RunsInv' /\ RecoveryChainIntact'
    BY <1>1, <2>1 DEF StartEffectAttempt
  <2>2. ASSUME NEW e \in Effects, NEW s, NEW b, Fold(e, s, b),
               UNCHANGED <<request, latest>>
        PROVE  RunsInv' /\ RecoveryChainIntact'
    BY <1>1, <2>2 DEF Fold, Effects
  <2>3. ASSUME NEW e \in Effects, FoldExecution(e)
        PROVE  RunsInv' /\ RecoveryChainIntact'
    BY <2>2, <2>3 DEF FoldExecution
  <2>4. ASSUME NEW o \in observers, FoldObservation(o)
        PROVE  RunsInv' /\ RecoveryChainIntact'
    BY <2>2, <2>4 DEF FoldObservation, TypeOK, Observers
  <2>5. ASSUME NEW f \in Fences, NEW e \in Effects, NEW s \in Resolutions,
               ResolveUncertainty(f, e, s)
        PROVE  RunsInv' /\ RecoveryChainIntact'
    BY <2>2, <2>5 DEF ResolveUncertainty
  <2>6. ASSUME UNCHANGED <<request, latest, run>>
        PROVE  RunsInv' /\ RecoveryChainIntact'
    BY <2>6
  <2>7. QED
    BY <1>4, <2>1, <2>3, <2>4, <2>5, <2>6
    DEF EffectStep, ExecuteEffect, LoseCaller, ObserveAttempt, LoseObserver
<1>5. CASE RecoveryStep
  <2>1. ASSUME NEW f \in Fences, NEW w \in Workers, Owns(f), Rotate(f, w),
               latest' = latest
        PROVE  RunsInv' /\ RecoveryChainIntact'
    BY <1>2, <2>1 DEF Rotate, TypeOK, RunRecords, Requests, Runs
  <2>2. ASSUME NEW f \in Fences, RenewActiveClaim(f)
        PROVE  RunsInv' /\ RecoveryChainIntact'
    BY <2>1, <2>2 DEF RenewActiveClaim, Fences
  <2>3. ASSUME NEW f \in Fences, NEW w \in Workers, RecoverExpiredClaim(f, w)
        PROVE  RunsInv' /\ RecoveryChainIntact'
    BY <2>1, <2>3 DEF RecoverExpiredClaim
  <2>4. ASSUME NEW f \in Fences, AbandonExpiredClaim(f)
        PROVE  RunsInv' /\ RecoveryChainIntact'
    BY <1>2, <2>4 DEF AbandonExpiredClaim, TypeOK, RunRecords, Runs
  <2>5. ASSUME NEW f \in Fences, RetryRun(f)
        PROVE  RunsInv' /\ RecoveryChainIntact'
    <3>1. latest \in Runs /\ latest + 1 \in Runs
      BY <1>2, <2>5 DEF RetryRun, TypeOK, Runs
    <3>2. /\ run'[latest].status = "failed" /\ run'[latest].last = "other"
          /\ run'[latest + 1].fenced = NoFence
          /\ \A q \in Runs \ {latest, latest + 1} : run'[q] = run[q]
      <4>1. /\ run'[latest] = Recorded(latest, "other")
            /\ run'[latest + 1] = OpenedRun
            /\ \A q \in Runs \ {latest, latest + 1} : run'[q] = run[q]
        BY <2>5, <3>1 DEF RetryRun, TypeOK, Runs
      <4>2. run[latest] \in RunRecords /\ run[latest].status = "failed"
        BY <2>5, <3>1 DEF RetryRun, TypeOK
      <4>3. QED
        BY <4>1, <4>2 DEF Recorded, OpenedRun, NoRun, RunRecords
    <3>3. latest' = latest + 1
      BY <2>5 DEF RetryRun
    <3>4. RecoveryChainIntact'
      BY <3>2, <3>3
    <3>5. RunsInv'
      <4> SUFFICES ASSUME NEW r \in Runs
                   PROVE  /\ r > latest + 1 => run'[r].status = "none"
                          /\ r < latest + 1 => /\ run'[r].status = "failed"
                                               /\ run'[r].last # "run_failed"
        BY <3>3
      <4>1. r \in Nat /\ latest \in Nat
        BY DEF TypeOK, Runs
      <4>2. CASE r = latest \/ r = latest + 1
        BY <3>2, <4>1, <4>2
      <4>3. CASE r < latest \/ r > latest + 1
        BY <3>2, <4>1, <4>3
      <4>4. QED
        BY <4>1, <4>2, <4>3
    <3>6. QED
      BY <3>4, <3>5
  <2>6. QED
    BY <1>5, <2>2, <2>3, <2>4, <2>5 DEF RecoveryStep
<1>6. CASE CompensationStep
  <2>1. ASSUME NEW r \in Runs, BeginCompensation(r)
        PROVE  RunsInv' /\ RecoveryChainIntact'
    <3>1. r = latest
      <4>1. run[r].status = "failed" /\ run[r].last = "run_failed"
        BY <2>1 DEF BeginCompensation, FailureIsTerminalEvidence
      <4>2. r \in Nat /\ latest \in Nat
        BY DEF TypeOK, Runs
      <4>3. QED
        BY <4>1, <4>2
    <3>2. /\ \A q \in Runs \ {r} : run'[q] = run[q]
          /\ run'[r].fenced = run[r].fenced
      BY <2>1 DEF BeginCompensation, TypeOK, RunRecords
    <3>3. QED
      BY <2>1, <3>1, <3>2 DEF BeginCompensation, TypeOK, Runs
  <2>2. ASSUME NEW f \in Fences, NEW r \in Runs, NEW a \in Activities,
               StartCompensationAttempt(f, r, a)
        PROVE  RunsInv' /\ RecoveryChainIntact'
    BY <1>1, <2>2 DEF StartCompensationAttempt
  <2>3. QED
    BY <1>6, <2>1, <2>2 DEF CompensationStep
<1>7. CASE \E f \in Fences, r \in Runs : AdvanceCurrentGraph(f, r)
  BY <1>1, <1>7 DEF AdvanceCurrentGraph
<1>8. CASE ExpireLease
  BY <1>8 DEF ExpireLease, TypeOK, Requests
<1>9. CASE EndSession \/ ReviseDesiredGraph \/ UNCHANGED vars
  BY <1>9 DEF EndSession, ReviseDesiredGraph, vars
<1>10. QED
  BY <1>3, <1>4, <1>5, <1>6, <1>7, <1>8, <1>9 DEF Next

\* Superseded runs stay closed and the claim stays on its chain throughout.
THEOREM RunsInvariant == Spec => [](RunsInv /\ RecoveryChainIntact)
BY RunsInvInit, RunsInvStep, TypeInvariant, PTL DEF Spec

\* Two runs of one request are never active at once: a retried run is never
\* resumed or compensated.
THEOREM LatestRunActive == Spec => []OnlyLatestRunActive
<1>1. TypeOK /\ RunsInv => OnlyLatestRunActive
  BY DEF TypeOK, RunsInv, OnlyLatestRunActive, ActiveStatus, Runs
<1>2. TypeInv => TypeOK
  BY DEF TypeInv
<1>3. QED
  BY <1>1, <1>2, RunsInvariant, TypeInvariant, PTL

\* The recovery events of the newest run always lead to the request's claim.
THEOREM RecoveryChain == Spec => []RecoveryChainIntact
BY RunsInvariant, PTL

----------------------------------------------------------------------------
(* The end of the session. *)

\* Once the session has ended no run is opened, no run changes status and no
\* claim is rotated: what is still folded only completes the record.
THEOREM EndedSessionsAreQuiet == Spec => EndedSessionIsQuiet
<1> DEFINE Quiet ==
      session = "terminal" =>
           /\ latest' = latest
           /\ request'.claim = request.claim
           /\ \A r \in Runs : run'[r].status = run[r].status
<1>1. ASSUME TypeOK, session = "terminal", [Next]_vars
      PROVE  /\ latest' = latest
             /\ request'.claim = request.claim
             /\ \A r \in Runs : run'[r].status = run[r].status
  <2>1. ASSUME NEW r \in Runs, run' = [run EXCEPT ![r] = Recorded(r, "other")]
        PROVE  \A q \in Runs : run'[q].status = run[q].status
    BY <1>1, <2>1 DEF TypeOK, RunRecords, Recorded
  <2>2. ~LifecycleStep
    BY <1>1 DEF LifecycleStep, ClaimRun, StartRun, PauseRun, ResumeRun,
         CompleteRun, FailRun, CancelRun, Transition
  <2>3. ~RecoveryStep
    BY <1>1 DEF RecoveryStep, RenewActiveClaim, RecoverExpiredClaim,
         AbandonExpiredClaim, RetryRun
  <2>4. ~CompensationStep
    BY <1>1 DEF CompensationStep, BeginCompensation, StartCompensationAttempt
  <2>5. CASE EffectStep
    <3>1. UNCHANGED <<request, latest>>
      BY <2>5 DEF EffectStep, StartEffectAttempt, ExecuteEffect, FoldExecution,
           LoseCaller, ObserveAttempt, FoldObservation, LoseObserver,
           ResolveUncertainty
    <3>2. \/ UNCHANGED run
          \/ \E r \in Runs : run' = [run EXCEPT ![r] = Recorded(r, "other")]
      <4>1. \A e \in Effects : e.run \in Runs
        BY DEF Effects
      <4>2. \A o \in observers : o.effect \in Effects
        BY <1>1 DEF TypeOK, Observers
      <4>3. QED
        BY <2>5, <4>1, <4>2 DEF EffectStep, StartEffectAttempt, ExecuteEffect,
             FoldExecution, LoseCaller, ObserveAttempt, FoldObservation,
             LoseObserver, ResolveUncertainty, Fold
    <3>3. QED
      BY <2>1, <3>1, <3>2
  <2>6. CASE \E f \in Fences, r \in Runs : AdvanceCurrentGraph(f, r)
    BY <1>1, <2>6 DEF AdvanceCurrentGraph
  <2>7. CASE ExpireLease
    BY <1>1, <2>7 DEF ExpireLease, TypeOK, Requests
  <2>8. CASE EndSession \/ ReviseDesiredGraph \/ UNCHANGED vars
    BY <2>8 DEF EndSession, ReviseDesiredGraph, vars
  <2>9. QED
    BY <1>1, <2>2, <2>3, <2>4, <2>5, <2>6, <2>7, <2>8 DEF Next
<1>2. TypeInv /\ [Next]_vars => [Quiet]_vars
  BY <1>1 DEF TypeInv
<1>3. QED
  BY <1>2, TypeInvariant, PTL DEF Spec, EndedSessionIsQuiet

----------------------------------------------------------------------------
(* The refinement of EffectLedger. *)

\* The ledger's view of a state.
Line == [e \in Effects |-> attempt[e].status]

\* A step that changes no row and nothing at the provider stutters.
LEMMA LedgerStutter ==
    ASSUME UNCHANGED <<attempt, effect>>
    PROVE  UNCHANGED <<Line, effect>>
BY DEF Line

\* A row that gets a new status gives the ledger's line that status.
LEMMA LineWritten ==
    ASSUME TypeOK, NEW e \in Effects, NEW row \in Attempts,
           attempt' = [attempt EXCEPT ![e] = row]
    PROVE  Line' = [Line EXCEPT ![e] = row.status]
BY DEF Line, TypeOK

\* What a fold does to the ledger.
LEMMA LineFolded ==
    ASSUME TypeOK, NEW e \in Effects, NEW s \in AttemptStatus, NEW b \in BOOLEAN,
           Fold(e, s, b)
    PROVE  Line' = [Line EXCEPT ![e] = s]
<1> DEFINE row == [attempt[e] EXCEPT !.status = s, !.resolved = b]
<1>1. row \in Attempts /\ row.status = s
  BY DEF TypeOK, Attempts
<1>2. attempt' = [attempt EXCEPT ![e] = row]
  BY DEF Fold
<1>3. QED
  BY <1>1, <1>2, LineWritten

\* Every step of a run is one step of the ledger or none.
LEMMA LedgerStep ==
    TypeOK /\ EffectsInv /\ EffectView => [Ledger!Next]_<<Line, effect>>
<1> SUFFICES ASSUME TypeOK, EffectsInv, EffectView
             PROVE  Ledger!Next \/ UNCHANGED <<Line, effect>>
  OBVIOUS
<1>0. /\ \A e \in Effects : Line[e] = attempt[e].status
      /\ \A e \in Effects : EffectInv(e)
  BY DEF Line, EffectsInv
<1>1. ASSUME NEW e \in Effects, Starts(e)
      PROVE  Ledger!Enter(e)
  <2>1. PICK f \in Fences :
          attempt' = [attempt EXCEPT ![e] =
                        [status |-> "started", fence |-> f, resolved |-> FALSE]]
    BY <1>1 DEF Starts
  <2>2. [status |-> "started", fence |-> f, resolved |-> FALSE] \in Attempts
    BY DEF Attempts, AttemptStatus
  <2>3. Line' = [Line EXCEPT ![e] = "started"]
    BY <2>1, <2>2, LineWritten
  <2>4. QED
    BY <1>0, <1>1, <2>3 DEF Starts, Ledger!Enter, Line
<1>2. ASSUME NEW e \in Effects, ExecuteEffect(e)
      PROVE  Ledger!Perform(e)
  <2>1. PICK result \in {"succeeded", "failed"} :
          effect' = [effect EXCEPT ![e] =
                       [calls |-> effect[e].calls + 1, result |-> result]]
    BY <1>2 DEF ExecuteEffect
  <2>2. effect[e].calls = 0 /\ attempt[e].status # "none"
    BY <1>0, <1>2 DEF ExecuteEffect, EffectInv
  <2>3. result \in Ledger!Results \ {"none"}
    BY DEF Ledger!Results
  <2>4. effect' = [effect EXCEPT ![e] = [calls |-> 1, result |-> result]]
    BY <2>1, <2>2
  <2>5. UNCHANGED Line
    BY <1>2 DEF ExecuteEffect, Line
  <2>6. QED
    BY <1>0, <2>2, <2>3, <2>4, <2>5 DEF Ledger!Perform, Line
<1>3. ASSUME NEW e \in Effects, NEW v \in Outcomes, Fold(e, v, FALSE),
             TakesDirect(e), UNCHANGED effect,
             v = "succeeded" => effect[e].result = "succeeded",
             v \in {"failed", "unsupported"} => effect[e].result = "failed"
      PROVE  Ledger!Decide(e)
  <2>1. v \in AttemptStatus /\ v \in Ledger!Status \ {"none", "started", "abandoned"}
    BY DEF Outcomes, AttemptStatus, Ledger!Status
  <2>2. Line' = [Line EXCEPT ![e] = v]
    BY <1>3, <2>1, LineFolded
  <2>3. Ledger!Supported(e, v)
    BY <1>3 DEF Ledger!Supported
  <2>4. QED
    BY <1>0, <1>3, <2>1, <2>2, <2>3 DEF TakesDirect, Ledger!Decide, Line
<1>4. ASSUME NEW e \in Effects, FoldExecution(e)
      PROVE  Ledger!Decide(e)
  BY <1>0, <1>3, <1>4 DEF FoldExecution, EffectInv
<1>5. ASSUME NEW o \in observers, FoldObservation(o)
      PROVE  Ledger!Decide(o.effect)
  <2>1. o.effect \in Effects /\ o.verdict \in Verdicts /\ ObserverInv(o)
    BY DEF TypeOK, Observers, EffectsInv
  <2>2. o.verdict \in Outcomes /\ o.verdict # "unsupported"
    BY <2>1 DEF Verdicts, Outcomes
  <2>3. QED
    BY <1>3, <1>5, <2>1, <2>2 DEF FoldObservation, MayReconcile, ObserverInv
<1>6. ASSUME NEW f \in Fences, NEW e \in Effects, NEW s \in Resolutions,
             ResolveUncertainty(f, e, s)
      PROVE  Ledger!Settle(e)
  <2>1. s \in {"succeeded", "failed", "abandoned"} /\ s \in AttemptStatus
    BY RunAssumption DEF AttemptStatus
  <2>2. Line' = [Line EXCEPT ![e] = s]
    BY <1>6, <2>1, LineFolded DEF ResolveUncertainty
  <2>3. QED
    BY <1>0, <1>6, <2>1, <2>2 DEF ResolveUncertainty, Ledger!Settle, Line
<1>7. ASSUME UNCHANGED <<attempt, effect>>
      PROVE  UNCHANGED <<Line, effect>>
  BY <1>7, LedgerStutter
<1>8. ASSUME NEW o \in observers
      PROVE  o.effect \in Effects
  BY DEF TypeOK, Observers
<1>9. QED
  BY <1>1, <1>2, <1>4, <1>5, <1>6, <1>7, <1>8
  DEF EffectView, NoEffect, LoseCaller, ObserveAttempt, LoseObserver, Ledger!Next

\* The services implement the ledger: every effect is entered before it is
\* performed, performed at most once and decided once.
THEOREM RunImplementsLedger == Spec => ImplementsLedger
<1>1. Init => Ledger!Init
  BY DEF Init, Ledger!Init, NoAttempt
<1>2. TypeInv /\ EffectsInv /\ [Next]_vars => [Ledger!Next]_<<Line, effect>>
  BY StepView, LedgerStep DEF TypeInv
<1>3. QED
  BY <1>1, <1>2, TypeInvariant, EffectsInvariant, PTL
  DEF Spec, ImplementsLedger, Ledger!Spec, Line

----------------------------------------------------------------------------
(* The projection of one event whose guard holds. *)

\* The statuses that a success event leads to.
DoneStatus == {"succeeded", "compensating", "compensated", "compensation_failed"}

InOrder(j, a) == \E p \in DOMAIN j.order : j.order[p] = a

\* The order lists every completed activity, once.
OrderExact(j) ==
    /\ \A a \in Activities : InOrder(j, a) <=> j.step[a] \in DoneStatus
    /\ \A p, q \in DOMAIN j.order : j.order[p] = j.order[q] => p = q

\* k is j with the step of a in status s and the completion order o.
Stepped(j, k, a, s, o) ==
    /\ k.step = [j.step EXCEPT ![a] = s]
    /\ k.order = o
    /\ k.requested = j.requested
    /\ k.coherent = j.coherent

\* What the fold of status s on a forward attempt of a leaves of journal j.
ForwardFolded(j, k, a, s) ==
    /\ IF s = "uncertain" THEN k.step = j.step /\ k.order = j.order
       ELSE IF s = "succeeded"
       THEN k.step = [j.step EXCEPT ![a] = "succeeded"] /\ k.order = Append(j.order, a)
       ELSE k.step = [j.step EXCEPT ![a] = "failed"] /\ k.order = j.order
    /\ k.uncertain = IF s = "uncertain" THEN j.uncertain \cup {a} ELSE j.uncertain \ {a}
    /\ k.compUncertain = j.compUncertain
    /\ k.requested = j.requested
    /\ k.coherent = j.coherent

\* And on an inverse attempt.
InverseFolded(j, k, a, s) ==
    /\ k.step = IF s = "uncertain" THEN j.step
                ELSE [j.step EXCEPT ![a] = IF s = "succeeded" THEN "compensated"
                                           ELSE "compensation_failed"]
    /\ k.order = j.order
    /\ k.uncertain = j.uncertain
    /\ k.compUncertain = IF s = "uncertain" THEN j.compUncertain \cup {a}
                         ELSE j.compUncertain \ {a}
    /\ k.requested = j.requested
    /\ k.coherent = j.coherent

\* STEP_STARTED is accepted for every ready activity.
LEMMA StartedAccepted ==
    ASSUME NEW j \in Journals, NEW a \in Ready(j), j.coherent, ~j.requested
    PROVE  Apply(j, "step_started", a) = [j EXCEPT !.step = [@ EXCEPT ![a] = "running"]]
BY DEF Ready, StepsIn, Apply, ForwardEvents, ProjectForward, EvolveStarted, Move, StepTo

\* RUN_COMPENSATION_STARTED is accepted when there is something to undo and
\* nothing was undone yet.
LEMMA RequestAccepted ==
    ASSUME NEW j \in Journals, j.coherent, ~j.requested, Candidates(j) # {},
           StepsIn(j, "compensating") = {}, StepsIn(j, "compensation_failed") = {}
    PROVE  ApplyCompensationRequested(j) = [j EXCEPT !.requested = TRUE]
BY DEF ApplyCompensationRequested, EvolveCompensationRequested, SagaStatus

\* STEP_COMPENSATION_STARTED is accepted for the head candidate.
LEMMA InverseStartAccepted ==
    ASSUME NEW j \in Journals, NEW a \in Activities, j.coherent, IsHeadCandidate(j, a)
    PROVE  Apply(j, "step_compensation_started", a)
             = [j EXCEPT !.step = [@ EXCEPT ![a] = "compensating"]]
BY DEF Apply, ForwardEvents, ProjectCompensation, EvolveCompensationStarted, StepTo

\* The event of a direct forward result is accepted while the step runs.
LEMMA ForwardDirectAccepted ==
    ASSUME NEW j \in Journals, NEW e \in Effects, NEW s \in Outcomes, j.coherent,
           e.attempt = 1, j.step[e.activity] = "running", e.activity \notin j.uncertain
    PROVE  ForwardFolded(j, Apply(j, EventKind(e, s, FALSE), e.activity), e.activity, s)
<1> DEFINE a == e.activity
<1>0. a \in Activities
  BY DEF Effects
<1>1. CASE s = "succeeded"
  BY <1>0, <1>1 DEF EventKind, Apply, ForwardEvents, ProjectForward, EvolveSucceeded, Move,
       StepTo, Journals, ForwardFolded
<1>2. CASE s = "failed"
  BY <1>0, <1>2 DEF EventKind, Apply, ForwardEvents, ProjectForward, EvolveFailed, Move,
       StepTo, Journals, ForwardFolded
<1>3. CASE s = "unsupported"
  BY <1>0, <1>3 DEF EventKind, Apply, ForwardEvents, ProjectForward, EvolveFailed, Move,
       StepTo, Journals, ForwardFolded
<1>4. CASE s = "uncertain"
  BY <1>0, <1>4 DEF EventKind, Apply, ForwardEvents, ProjectForward, Journals, ForwardFolded
<1>5. QED
  BY <1>1, <1>2, <1>3, <1>4 DEF Outcomes

\* The event of a recovery decision is accepted while the step is uncertain.
LEMMA ForwardResolvedAccepted ==
    ASSUME NEW j \in Journals, NEW e \in Effects,
           NEW s \in {"succeeded", "failed", "abandoned"}, j.coherent,
           e.attempt = 1, j.step[e.activity] = "running", e.activity \in j.uncertain
    PROVE  ForwardFolded(j, Apply(j, EventKind(e, s, TRUE), e.activity), e.activity, s)
<1> DEFINE a == e.activity
<1>0. a \in Activities
  BY DEF Effects
<1>1. CASE s = "succeeded"
  BY <1>0, <1>1 DEF EventKind, Apply, ForwardEvents, ProjectForward, Resolve,
       EvolveSucceeded, Move, StepTo, Journals, ForwardFolded
<1>2. CASE s = "failed"
  BY <1>0, <1>2 DEF EventKind, Apply, ForwardEvents, ProjectForward, Resolve,
       EvolveFailed, Move, StepTo, Journals, ForwardFolded
<1>3. CASE s = "abandoned"
  BY <1>0, <1>3 DEF EventKind, Apply, ForwardEvents, ProjectForward, Resolve,
       EvolveFailed, Move, StepTo, Journals, ForwardFolded
<1>4. QED
  BY <1>1, <1>2, <1>3

\* The events of an inverse effect, as the projection reads them.
LEMMA InverseEvents ==
    ASSUME NEW j \in Journals, NEW e \in Effects, j.coherent, e.attempt = 2
    PROVE  LET a == e.activity
               Read(s, resolved) == Apply(j, EventKind(e, s, resolved), a)
           IN  /\ Read("succeeded", FALSE) = Move(j, a, "compensating", "compensated")
               /\ Read("failed", FALSE) = Move(j, a, "compensating", "compensation_failed")
               /\ j.step[a] = "compensating" =>
                    Read("unsupported", FALSE)
                      = Move(j, a, "compensating", "compensation_failed")
               /\ Read("uncertain", FALSE)
                    = [j EXCEPT !.compUncertain = @ \cup {a}]
               /\ Read("succeeded", TRUE) = ResolveCompensation(j, a, "compensated")
               /\ Read("failed", TRUE) = ResolveCompensation(j, a, "compensation_failed")
               /\ Read("abandoned", TRUE) = ResolveCompensation(j, a, "compensation_failed")
<1>1. /\ EventKind(e, "succeeded", FALSE) = "step_compensation_succeeded"
      /\ EventKind(e, "failed", FALSE) = "step_compensation_failed"
      /\ EventKind(e, "unsupported", FALSE) = "step_compensation_unsupported"
      /\ EventKind(e, "uncertain", FALSE) = "step_compensation_uncertain"
  BY DEF EventKind
<1>2. /\ EventKind(e, "succeeded", TRUE)
           = "step_compensation_uncertainty_resolved_succeeded"
      /\ EventKind(e, "failed", TRUE) = "step_compensation_uncertainty_resolved_failed"
      /\ EventKind(e, "abandoned", TRUE) = "step_compensation_uncertainty_abandoned"
  BY DEF EventKind
<1>3. ASSUME NEW kind \in CompensationEvents
      PROVE  Apply(j, kind, e.activity) = ProjectCompensation(j, kind, e.activity)
  BY <1>3 DEF Apply, ForwardEvents, CompensationEvents
<1>4. QED
  BY <1>1, <1>2, <1>3 DEF CompensationEvents, ProjectCompensation

\* Settling a compensating step: the fields it leaves.
LEMMA InverseSettled ==
    ASSUME NEW j \in Journals, NEW a \in Activities, j.step[a] = "compensating",
           NEW to \in {"compensated", "compensation_failed"}
    PROVE  /\ Stepped(j, Move(j, a, "compensating", to), a, to, j.order)
           /\ Move(j, a, "compensating", to).uncertain = j.uncertain
           /\ Move(j, a, "compensating", to).compUncertain = j.compUncertain
           /\ a \in j.compUncertain =>
                LET k == ResolveCompensation(j, a, to)
                IN  /\ Stepped(j, k, a, to, j.order)
                    /\ k.uncertain = j.uncertain
                    /\ k.compUncertain = j.compUncertain \ {a}
<1>1. Move(j, a, "compensating", to) = [j EXCEPT !.step = [@ EXCEPT ![a] = to]]
  BY DEF Move, StepTo
<1>2. a \in j.compUncertain =>
        ResolveCompensation(j, a, to)
          = [[j EXCEPT !.step = [@ EXCEPT ![a] = to]] EXCEPT !.compUncertain = @ \ {a}]
  BY <1>1 DEF ResolveCompensation
<1>3. QED
  BY <1>1, <1>2 DEF Stepped, Journals

\* The event of a direct inverse result is accepted while the step compensates.
LEMMA InverseDirectAccepted ==
    ASSUME NEW j \in Journals, NEW e \in Effects, NEW s \in Outcomes, j.coherent,
           e.attempt = 2, j.step[e.activity] = "compensating",
           e.activity \notin j.compUncertain
    PROVE  InverseFolded(j, Apply(j, EventKind(e, s, FALSE), e.activity), e.activity, s)
<1>0. e.activity \in Activities
  BY DEF Effects
<1>1. CASE s = "uncertain"
  <2>1. Apply(j, EventKind(e, s, FALSE), e.activity)
          = [j EXCEPT !.compUncertain = @ \cup {e.activity}]
    BY <1>1, InverseEvents
  <2>2. QED
    BY <1>1, <2>1 DEF InverseFolded, Journals
<1>2. CASE s # "uncertain"
  <2> DEFINE to == IF s = "succeeded" THEN "compensated" ELSE "compensation_failed"
  <2>1. Apply(j, EventKind(e, s, FALSE), e.activity)
          = Move(j, e.activity, "compensating", to)
    BY <1>2, InverseEvents DEF Outcomes
  <2>2. to \in {"compensated", "compensation_failed"}
    OBVIOUS
  <2>3. /\ Stepped(j, Move(j, e.activity, "compensating", to), e.activity, to, j.order)
        /\ Move(j, e.activity, "compensating", to).uncertain = j.uncertain
        /\ Move(j, e.activity, "compensating", to).compUncertain = j.compUncertain
    BY <1>0, <2>2, InverseSettled
  <2>4. j.compUncertain \ {e.activity} = j.compUncertain
    OBVIOUS
  <2> HIDE DEF to
  <2>5. QED
    BY <1>2, <2>1, <2>3, <2>4 DEF InverseFolded, Stepped, to
<1>3. QED
  BY <1>1, <1>2

\* And so is that of a recovery decision while it is uncertain.
LEMMA InverseResolvedAccepted ==
    ASSUME NEW j \in Journals, NEW e \in Effects,
           NEW s \in {"succeeded", "failed", "abandoned"}, j.coherent,
           e.attempt = 2, j.step[e.activity] = "compensating",
           e.activity \in j.compUncertain
    PROVE  InverseFolded(j, Apply(j, EventKind(e, s, TRUE), e.activity), e.activity, s)
<1>0. e.activity \in Activities
  BY DEF Effects
<1> DEFINE to == IF s = "succeeded" THEN "compensated" ELSE "compensation_failed"
<1>1. Apply(j, EventKind(e, s, TRUE), e.activity) = ResolveCompensation(j, e.activity, to)
  BY InverseEvents
<1>2. to \in {"compensated", "compensation_failed"}
  OBVIOUS
<1>3. LET k == ResolveCompensation(j, e.activity, to)
      IN  /\ Stepped(j, k, e.activity, to, j.order)
          /\ k.uncertain = j.uncertain
          /\ k.compUncertain = j.compUncertain \ {e.activity}
  BY <1>0, <1>2, InverseSettled
<1>4. QED
  BY <1>1, <1>3 DEF InverseFolded, Stepped

----------------------------------------------------------------------------
(* The inductive invariant. *)

\* No inverse exists before compensation is requested, and from then on every
\* forward effect is settled, its successes by direct outcomes.
CompensationSettled(r) ==
    IF journal[r].requested
    THEN /\ AttemptsWith(r, 1, {"started", "uncertain"}) = {}
         /\ \A a \in Activities : attempt[Forward(r, a)].status = "succeeded"
                                    => ~attempt[Forward(r, a)].resolved
    ELSE \A a \in Activities : attempt[Inverse(r, a)].status = "none"

\* Only the inverse of a succeeded effect that has one is ever started.
InverseAfterSuccess(r) ==
    \A a \in Activities : attempt[Inverse(r, a)].status # "none"
                            => /\ a \in Compensable
                               /\ attempt[Forward(r, a)].status = "succeeded"

RunCoheres(r) ==
    /\ journal[r].coherent
    /\ \A a \in Activities : StepAgrees(r, a)
    /\ OrderExact(journal[r])
    /\ InverseAfterSuccess(r)
    /\ journal[r].requested <=> run[r].status = "compensating"
    /\ CompensationSettled(r)

JournalInv == \A r \in Runs : RunCoheres(r)

\* Runs that a step does not write to.
RunUntouched(r) ==
    /\ journal'[r] = journal[r]
    /\ \A a \in Activities : /\ attempt'[Forward(r, a)] = attempt[Forward(r, a)]
                             /\ attempt'[Inverse(r, a)] = attempt[Inverse(r, a)]
    /\ run'[r].status = "compensating" <=> run[r].status = "compensating"

\* What is known of a run survives a step that leaves it alone.
LEMMA UntouchedCoheres ==
    ASSUME NEW r \in Runs, RunCoheres(r), RunUntouched(r)
    PROVE  RunCoheres(r)'
<1>1. \A a \in Activities : StepAgrees(r, a)'
  BY DEF RunCoheres, RunUntouched, StepAgrees
<1>2. OrderExact(journal[r])'
  BY DEF RunCoheres, RunUntouched, OrderExact, InOrder
<1>3. InverseAfterSuccess(r)' /\ (journal[r].requested <=> run[r].status = "compensating")'
  BY DEF RunCoheres, RunUntouched, InverseAfterSuccess
<1>4. CompensationSettled(r)'
  BY DEF RunCoheres, RunUntouched, CompensationSettled, AttemptsWith, Forward
<1>5. journal[r].coherent'
  BY DEF RunCoheres, RunUntouched
<1>6. QED
  BY <1>1, <1>2, <1>3, <1>4, <1>5 DEF RunCoheres

\* The identities of different effects differ.
LEMMA IdentityInjective ==
    ASSUME NEW q, NEW r, NEW a, NEW b
    PROVE  /\ Forward(q, a) = Forward(r, b) <=> q = r /\ a = b
           /\ Inverse(q, a) = Inverse(r, b) <=> q = r /\ a = b
           /\ Forward(q, a) # Inverse(r, b)
BY DEF Forward, Inverse

\* An effect identity is a forward or an inverse one.
LEMMA IdentityCases ==
    ASSUME NEW e \in Effects
    PROVE  /\ e.run \in Runs /\ e.activity \in Activities
           /\ \/ e.attempt = 1 /\ e = Forward(e.run, e.activity)
              \/ e.attempt = 2 /\ e = Inverse(e.run, e.activity)
BY DEF Effects, Forward, Inverse

\* Appending a new activity to an exact order that now completes it.
LEMMA AppendExact ==
    ASSUME NEW j \in Journals, NEW k, NEW a \in Activities, OrderExact(j),
           j.step[a] \notin DoneStatus, k.order = Append(j.order, a),
           k.step = [j.step EXCEPT ![a] = "succeeded"]
    PROVE  OrderExact(k)
<1>1. j.order \in Seq(Activities) /\ j.step \in [Activities -> StepStatus]
  BY DEF Journals
<1>2. /\ DOMAIN k.order = 1..(Len(j.order) + 1)
      /\ DOMAIN j.order = 1..Len(j.order)
      /\ Len(j.order) \in Nat
      /\ \A p \in DOMAIN j.order : k.order[p] = j.order[p]
      /\ k.order[Len(j.order) + 1] = a
  BY <1>1
<1>3. ~InOrder(j, a)
  BY DEF OrderExact
<1>4. \A b \in Activities : InOrder(k, b) <=> InOrder(j, b) \/ b = a
  BY <1>2 DEF InOrder
<1>5. \A b \in Activities : InOrder(k, b) <=> k.step[b] \in DoneStatus
  BY <1>1, <1>4 DEF OrderExact, DoneStatus
<1>6. ASSUME NEW p \in DOMAIN k.order, NEW q \in DOMAIN k.order,
             k.order[p] = k.order[q]
      PROVE  p = q
  <2>1. CASE p \in DOMAIN j.order /\ q \in DOMAIN j.order
    BY <1>2, <1>6, <2>1 DEF OrderExact
  <2>2. CASE p \notin DOMAIN j.order /\ q \in DOMAIN j.order
    BY <1>2, <1>3, <1>6, <2>2 DEF InOrder
  <2>3. CASE p \in DOMAIN j.order /\ q \notin DOMAIN j.order
    BY <1>2, <1>3, <1>6, <2>3 DEF InOrder
  <2>4. CASE p \notin DOMAIN j.order /\ q \notin DOMAIN j.order
    BY <1>2, <2>4
  <2>5. QED
    BY <2>1, <2>2, <2>3, <2>4
<1>7. QED
  BY <1>5, <1>6 DEF OrderExact

\* Moving a step within or without the completed statuses keeps the order exact.
LEMMA StepExact ==
    ASSUME NEW j \in Journals, NEW k, NEW a \in Activities, NEW s,
           OrderExact(j), j.step[a] \in DoneStatus <=> s \in DoneStatus,
           k.order = j.order, k.step = [j.step EXCEPT ![a] = s]
    PROVE  OrderExact(k)
BY DEF Journals, OrderExact, InOrder

\* Before anything has happened.
LEMMA JournalInvInit == Init => JournalInv
<1> SUFFICES ASSUME Init, NEW r \in Runs PROVE RunCoheres(r)
  BY DEF JournalInv
<1>1. /\ journal[r] = EmptyJournal
      /\ run[r].status = "none"
      /\ \A a \in Activities : /\ attempt[Forward(r, a)].status = "none"
                               /\ attempt[Inverse(r, a)].status = "none"
  BY EffectIdentity DEF Init, NoRun, NoAttempt
<1>2. /\ EmptyJournal.coherent /\ ~EmptyJournal.requested
      /\ \A a \in Activities : EmptyJournal.step[a] = "pending"
      /\ EmptyJournal.order = << >>
      /\ EmptyJournal.uncertain = {} /\ EmptyJournal.compUncertain = {}
  BY DEF EmptyJournal
<1>3. \A a \in Activities : StepAgrees(r, a)
  BY <1>1, <1>2 DEF StepAgrees
<1>4. OrderExact(journal[r])
  BY <1>1, <1>2 DEF OrderExact, InOrder, DoneStatus
<1>5. QED
  BY <1>1, <1>2, <1>3, <1>4 DEF RunCoheres, InverseAfterSuccess, CompensationSettled

\* A command that writes to one run leaves the others as they were.
LEMMA OneRun ==
    ASSUME JournalInv, NEW r \in Runs, RunCoheres(r)',
           \A q \in Runs \ {r} : RunUntouched(q)
    PROVE  JournalInv'
BY UntouchedCoheres DEF JournalInv

\* What a write to one effect, journal and run record leaves of other runs.
LEMMA OthersUntouched ==
    ASSUME NEW e \in Effects,
           \A d \in Effects \ {e} : attempt'[d] = attempt[d],
           \A q \in Runs \ {e.run} : journal'[q] = journal[q] /\ run'[q] = run[q]
    PROVE  \A q \in Runs \ {e.run} : RunUntouched(q)
<1> SUFFICES ASSUME NEW q \in Runs \ {e.run}
             PROVE  RunUntouched(q)
  OBVIOUS
<1>1. \A a \in Activities : Forward(q, a) # e /\ Inverse(q, a) # e
  BY DEF Forward, Inverse
<1>2. QED
  BY <1>1, EffectIdentity DEF RunUntouched

\* The attempts of a run around a write to the forward attempt of b.
LEMMA ForwardWritten ==
    ASSUME NEW r \in Runs, NEW b \in Activities,
           \A d \in Effects \ {Forward(r, b)} : attempt'[d] = attempt[d]
    PROVE  /\ \A a \in Activities \ {b} : attempt'[Forward(r, a)] = attempt[Forward(r, a)]
           /\ \A a \in Activities : attempt'[Inverse(r, a)] = attempt[Inverse(r, a)]
BY EffectIdentity, IdentityInjective

\* And to its inverse attempt.
LEMMA InverseWritten ==
    ASSUME NEW r \in Runs, NEW b \in Activities,
           \A d \in Effects \ {Inverse(r, b)} : attempt'[d] = attempt[d]
    PROVE  /\ \A a \in Activities \ {b} : attempt'[Inverse(r, a)] = attempt[Inverse(r, a)]
           /\ \A a \in Activities : attempt'[Forward(r, a)] = attempt[Forward(r, a)]
BY EffectIdentity, IdentityInjective

\* EffectAttemptStartService: the row and STEP_STARTED appear together.
LEMMA StartCoheres ==
    ASSUME TypeOK, JournalInv, NEW f \in Fences, NEW r \in Runs, NEW b \in Activities,
           StartEffectAttempt(f, r, b)
    PROVE  JournalInv'
<1> DEFINE e == Forward(r, b)
           row == [status |-> "started", fence |-> f, resolved |-> FALSE]
           j == journal[r]
           k == [j EXCEPT !.step = [@ EXCEPT ![b] = "running"]]
<1>1. e \in Effects /\ e.run = r
  BY EffectIdentity DEF Forward
<1>2. RunCoheres(r) /\ j \in Journals /\ run[r] \in RunRecords
  BY DEF JournalInv, TypeOK
<1>3. run[r].status = "running" /\ b \in Ready(j) /\ attempt[e].status = "none"
  BY DEF StartEffectAttempt, MayStart
<1>4. j.coherent /\ ~j.requested
  BY <1>2, <1>3 DEF RunCoheres
<1>5. Apply(j, "step_started", b) = k
  BY <1>2, <1>3, <1>4, StartedAccepted
<1>6. /\ attempt' = [attempt EXCEPT ![e] = row]
      /\ journal' = [journal EXCEPT ![e.run] = k]
      /\ run' = [run EXCEPT ![e.run] = Recorded(r, "other")]
  BY <1>1, <1>5 DEF StartEffectAttempt, Journalled
<1>7. /\ \A q \in Runs \ {r} : RunUntouched(q)
      /\ \A d \in Effects : attempt'[d] = IF d = e THEN row ELSE attempt[d]
      /\ journal'[r] = k
      /\ run'[r] = Recorded(r, "other")
  <2> HIDE DEF k, row, e, j
  <2>1. /\ \A d \in Effects : attempt'[d] = IF d = e THEN row ELSE attempt[d]
        /\ journal'[r] = k /\ run'[r] = Recorded(r, "other")
        /\ \A q \in Runs \ {r} : journal'[q] = journal[q] /\ run'[q] = run[q]
    BY <1>1, <1>6 DEF TypeOK
  <2>2. QED
    BY <1>1, <2>1, OthersUntouched
<1>8. /\ \A a \in Activities \ {b} : attempt'[Forward(r, a)] = attempt[Forward(r, a)]
      /\ \A a \in Activities : attempt'[Inverse(r, a)] = attempt[Inverse(r, a)]
      /\ attempt'[Forward(r, b)] = row
  BY <1>1, <1>7, ForwardWritten
<1>9. /\ k.step = [j.step EXCEPT ![b] = "running"]
      /\ k.order = j.order /\ k.uncertain = j.uncertain
      /\ k.compUncertain = j.compUncertain
      /\ k.requested = j.requested /\ k.coherent = j.coherent
      /\ j.step \in [Activities -> StepStatus] /\ j.step[b] = "pending"
  BY <1>2, <1>3 DEF Journals, Ready, StepsIn
<1>10. run'[r].status = "running" /\ row.status = "started"
  BY <1>2, <1>3, <1>7 DEF Recorded, RunRecords
<1> HIDE DEF k, row
<1>11. \A a \in Activities : StepAgrees(r, a)'
  <2> SUFFICES ASSUME NEW a \in Activities PROVE StepAgrees(r, a)'
    OBVIOUS
  <2>1. StepAgrees(r, a)
    BY <1>2 DEF RunCoheres
  <2>2. attempt[Inverse(r, a)].status = "none"
    BY <1>2, <1>4 DEF RunCoheres, CompensationSettled
  <2>3. CASE a = b
    BY <1>3, <1>7, <1>8, <1>9, <1>10, <2>1, <2>2, <2>3 DEF StepAgrees
  <2>4. CASE a # b
    BY <1>7, <1>8, <1>9, <2>1, <2>4 DEF StepAgrees
  <2>5. QED
    BY <2>3, <2>4
<1>12. OrderExact(journal[r])'
  BY <1>2, <1>7, <1>9, StepExact DEF RunCoheres, DoneStatus
<1>13. InverseAfterSuccess(r)' /\ CompensationSettled(r)'
  BY <1>2, <1>4, <1>7, <1>8, <1>9 DEF RunCoheres, InverseAfterSuccess, CompensationSettled
<1>14. RunCoheres(r)'
  BY <1>4, <1>7, <1>9, <1>10, <1>11, <1>12, <1>13 DEF RunCoheres
<1>15. QED
  BY <1>7, <1>14, OneRun

\* A step of an activity without an inverse attempt has not been compensated.
LEMMA NotCompensated ==
    ASSUME NEW r \in Runs, NEW a \in Activities, StepAgrees(r, a),
           attempt[Inverse(r, a)].status = "none", journal[r] \in Journals
    PROVE  /\ journal[r].step[a] \notin
                {"compensating", "compensated", "compensation_failed"}
           /\ attempt[Forward(r, a)].status = "succeeded"
                => journal[r].step[a] = "succeeded"
BY DEF StepAgrees, Journals, StepStatus

\* A program step whose inverse has not started is a candidate of the journal.
LEMMA ProgramCandidate ==
    ASSUME TypeOK, NEW r \in Runs, RunCoheres(r), NEW a \in ProgramSteps(r),
           attempt[Inverse(r, a)].status = "none"
    PROVE  a \in Activities /\ a \in Candidates(journal[r])
<1>1. /\ a \in Activities /\ a \in Compensable
      /\ attempt[Forward(r, a)].status = "succeeded"
  BY DEF ProgramSteps, DirectSuccesses, AttemptsWith, Forward
<1>2. journal[r].step[a] = "succeeded"
  BY <1>1, NotCompensated DEF RunCoheres, TypeOK
<1>3. InOrder(journal[r], a)
  BY <1>1, <1>2 DEF RunCoheres, OrderExact, DoneStatus
<1>4. QED
  BY <1>1, <1>2, <1>3 DEF InOrder, Candidates, StepsIn

\* FailedRunCompensationService: the request is accepted by the projection.
LEMMA BeginCoheres ==
    ASSUME TypeOK, JournalInv, NEW r \in Runs, BeginCompensation(r)
    PROVE  JournalInv'
<1> DEFINE j == journal[r]
           k == [j EXCEPT !.requested = TRUE]
<1>1. RunCoheres(r) /\ j \in Journals /\ run[r] \in RunRecords
  BY DEF JournalInv, TypeOK
<1>2. run[r].status = "failed"
  BY DEF BeginCompensation, FailureIsTerminalEvidence
<1>3. j.coherent /\ ~j.requested
  BY <1>1, <1>2 DEF RunCoheres
<1>4. \A a \in Activities : attempt[Inverse(r, a)].status = "none"
  BY <1>1, <1>3 DEF RunCoheres, CompensationSettled
<1>5. StepsIn(j, "compensating") = {} /\ StepsIn(j, "compensation_failed") = {}
  BY <1>1, <1>4, NotCompensated DEF RunCoheres, StepsIn
<1>6. Candidates(j) # {}
  <2>1. PICK a \in ProgramSteps(r) : TRUE
    BY DEF BeginCompensation
  <2>2. a \in Activities
    BY DEF ProgramSteps, DirectSuccesses, AttemptsWith
  <2>3. QED
    BY <1>1, <1>4, <2>2, ProgramCandidate
<1>7. ApplyCompensationRequested(j) = k
  BY <1>1, <1>3, <1>5, <1>6, RequestAccepted
<1>8. /\ journal'[r] = k /\ run'[r].status = "compensating" /\ attempt' = attempt
      /\ \A q \in Runs \ {r} : journal'[q] = journal[q] /\ run'[q] = run[q]
  BY <1>1, <1>7 DEF BeginCompensation, TypeOK, RunRecords
<1>9. /\ k.step = j.step /\ k.order = j.order /\ k.uncertain = j.uncertain
      /\ k.compUncertain = j.compUncertain /\ k.requested /\ k.coherent = j.coherent
  BY <1>1 DEF Journals
<1> HIDE DEF k
<1>10. \A a \in Activities : StepAgrees(r, a)'
  BY <1>1, <1>8, <1>9 DEF RunCoheres, StepAgrees
<1>11. OrderExact(journal[r])' /\ InverseAfterSuccess(r)'
  BY <1>1, <1>8, <1>9 DEF RunCoheres, OrderExact, InOrder, InverseAfterSuccess
<1>12. CompensationSettled(r)'
  <2>1. AttemptsWith(r, 1, {"started", "uncertain"})' = {}
    BY <1>8 DEF BeginCompensation, NothingUnresolved, AttemptsWith
  <2>2. \A a \in Activities : attempt[Forward(r, a)].status = "succeeded"
                                => ~attempt[Forward(r, a)].resolved
    BY DEF BeginCompensation, DirectSuccesses, AttemptsWith, Forward
  <2>3. QED
    BY <1>8, <1>9, <2>1, <2>2 DEF CompensationSettled
<1>13. RunCoheres(r)'
  BY <1>3, <1>8, <1>9, <1>10, <1>11, <1>12 DEF RunCoheres
<1>14. QED
  BY <1>8, <1>13, OneRun DEF RunUntouched

\* FailedRunCompensationAttemptService: the activity whose inverse starts is
\* the head of the journal's candidates, though the service orders the steps by
\* its program and reads the attempt table.
LEMMA NextStepIsHead ==
    ASSUME TypeOK, NEW r \in Runs, RunCoheres(r), journal[r].requested,
           NEW a \in Activities, NextProgramStep(r, a)
    PROVE  IsHeadCandidate(journal[r], a)
<1>1. a \in Candidates(journal[r])
  BY ProgramCandidate DEF NextProgramStep
<1>2. ASSUME NEW b \in Candidates(journal[r]) \ {a}
      PROVE  ~CompletedAfter(journal[r], b, a)
  <2>1. b \in Activities /\ b \in Compensable /\ journal[r].step[b] = "succeeded"
    BY DEF Candidates, StepsIn
  <2>2. /\ attempt[Forward(r, b)].status = "succeeded"
        /\ attempt[Inverse(r, b)].status = "none"
    BY <2>1 DEF RunCoheres, StepAgrees
  <2>3. b \in ProgramSteps(r)
    BY <2>1, <2>2
    DEF RunCoheres, CompensationSettled, ProgramSteps, DirectSuccesses,
        AttemptsWith, Forward
  <2>4. QED
    BY <2>2, <2>3 DEF NextProgramStep
<1>3. QED
  BY <1>1, <1>2 DEF IsHeadCandidate

\* So its STEP_COMPENSATION_STARTED is accepted.
LEMMA InverseStartCoheres ==
    ASSUME TypeOK, JournalInv, NEW f \in Fences, NEW r \in Runs, NEW b \in Activities,
           StartCompensationAttempt(f, r, b)
    PROVE  JournalInv'
<1> DEFINE e == Inverse(r, b)
           row == [status |-> "started", fence |-> f, resolved |-> FALSE]
           j == journal[r]
           k == [j EXCEPT !.step = [@ EXCEPT ![b] = "compensating"]]
<1>1. e \in Effects /\ e.run = r
  BY EffectIdentity DEF Inverse
<1>2. RunCoheres(r) /\ j \in Journals /\ run[r] \in RunRecords
  BY DEF JournalInv, TypeOK
<1>3. /\ run[r].status = "compensating" /\ NextProgramStep(r, b)
      /\ attempt[e].status = "none"
  BY DEF StartCompensationAttempt, NextProgramStep
<1>4. j.coherent /\ j.requested
  BY <1>2, <1>3 DEF RunCoheres
<1>5. IsHeadCandidate(j, b)
  BY <1>2, <1>3, <1>4, NextStepIsHead
<1>6. Apply(j, "step_compensation_started", b) = k
  BY <1>2, <1>4, <1>5, InverseStartAccepted
<1>7. /\ attempt' = [attempt EXCEPT ![e] = row]
      /\ journal' = [journal EXCEPT ![r] = k]
      /\ run' = [run EXCEPT ![r] = Recorded(r, "other")]
  BY <1>6 DEF StartCompensationAttempt, Journalled
<1>8. /\ j.step[b] = "succeeded" /\ attempt[Forward(r, b)].status = "succeeded"
      /\ b \in Compensable
  BY <1>2, <1>5 DEF IsHeadCandidate, Candidates, StepsIn, RunCoheres, StepAgrees
<1>9. /\ k.step = [j.step EXCEPT ![b] = "compensating"]
      /\ k.order = j.order /\ k.uncertain = j.uncertain
      /\ k.compUncertain = j.compUncertain
      /\ k.requested = j.requested /\ k.coherent = j.coherent
      /\ j.step \in [Activities -> StepStatus]
  BY <1>2 DEF Journals
<1> HIDE DEF k, row
<1>10. /\ \A d \in Effects : attempt'[d] = IF d = e THEN row ELSE attempt[d]
       /\ journal'[r] = k /\ run'[r] = Recorded(r, "other")
       /\ \A q \in Runs \ {r} : journal'[q] = journal[q] /\ run'[q] = run[q]
  BY <1>1, <1>7 DEF TypeOK
<1>11. \A q \in Runs \ {r} : RunUntouched(q)
  BY <1>1, <1>10, OthersUntouched
<1>12. /\ \A a \in Activities \ {b} : attempt'[Inverse(r, a)] = attempt[Inverse(r, a)]
       /\ \A a \in Activities : attempt'[Forward(r, a)] = attempt[Forward(r, a)]
       /\ attempt'[Inverse(r, b)].status = "started"
  BY <1>1, <1>10, InverseWritten DEF row
<1>13. run'[r].status = "compensating"
  BY <1>2, <1>3, <1>10 DEF Recorded, RunRecords
<1>14. \A a \in Activities : StepAgrees(r, a)'
  <2> SUFFICES ASSUME NEW a \in Activities PROVE StepAgrees(r, a)'
    OBVIOUS
  <2>1. StepAgrees(r, a)
    BY <1>2 DEF RunCoheres
  <2>2. CASE a = b
    BY <1>3, <1>8, <1>9, <1>10, <1>12, <2>1, <2>2 DEF StepAgrees
  <2>3. CASE a # b
    BY <1>9, <1>10, <1>12, <2>1, <2>3 DEF StepAgrees
  <2>4. QED
    BY <2>2, <2>3
<1>15. OrderExact(journal[r])'
  BY <1>2, <1>8, <1>9, <1>10, StepExact DEF RunCoheres, DoneStatus
<1>16. InverseAfterSuccess(r)'
  BY <1>2, <1>8, <1>12 DEF RunCoheres, InverseAfterSuccess
<1>17. CompensationSettled(r)'
  BY <1>2, <1>4, <1>9, <1>10, <1>12
  DEF RunCoheres, CompensationSettled, AttemptsWith, Forward
<1>18. RunCoheres(r)'
  BY <1>4, <1>9, <1>10, <1>13, <1>14, <1>15, <1>16, <1>17 DEF RunCoheres
<1>19. QED
  BY <1>11, <1>18, OneRun

\* A fold as the attempt table permits it: a direct result of a started
\* attempt or a decision on an uncertain one.
Folds(e, s, resolved) ==
    /\ Fold(e, s, resolved)
    /\ IF resolved
       THEN s \in {"succeeded", "failed", "abandoned"} /\ attempt[e].status = "uncertain"
       ELSE s \in Outcomes /\ attempt[e].status = "started"

\* What a fold writes, without the detail of the event.
LEMMA FoldWrites ==
    ASSUME TypeOK, NEW e \in Effects, NEW s, NEW resolved \in BOOLEAN,
           Folds(e, s, resolved)
    PROVE  /\ \A d \in Effects \ {e} : attempt'[d] = attempt[d]
           /\ attempt'[e].status = s /\ attempt'[e].resolved = resolved
           /\ \A q \in Runs \ {e.run} : journal'[q] = journal[q] /\ run'[q] = run[q]
           /\ run'[e.run].status = run[e.run].status
           /\ journal'[e.run]
                = Apply(journal[e.run], EventKind(e, s, resolved), e.activity)
<1>1. e.run \in Runs /\ attempt[e] \in Attempts /\ run[e.run] \in RunRecords
  BY IdentityCases DEF TypeOK
<1>2. /\ \A d \in Effects \ {e} : attempt'[d] = attempt[d]
      /\ attempt'[e].status = s /\ attempt'[e].resolved = resolved
  BY <1>1 DEF Folds, Fold, TypeOK, Attempts
<1>3. /\ \A q \in Runs \ {e.run} : journal'[q] = journal[q] /\ run'[q] = run[q]
      /\ run'[e.run].status = run[e.run].status
      /\ journal'[e.run]
           = Apply(journal[e.run], EventKind(e, s, resolved), e.activity)
  BY <1>1 DEF Folds, Fold, Journalled, Recorded, TypeOK, RunRecords
<1>4. QED
  BY <1>2, <1>3

\* Folding a forward effect: the projection accepts the event, because the
\* step runs exactly while the attempt is open.
LEMMA ForwardFoldCoheres ==
    ASSUME TypeOK, JournalInv, NEW e \in Effects, e.attempt = 1, NEW s,
           NEW resolved \in BOOLEAN, Folds(e, s, resolved)
    PROVE  JournalInv'
<1> DEFINE r == e.run
           b == e.activity
           j == journal[r]
           k == journal'[r]
<1>1. r \in Runs /\ b \in Activities /\ e = Forward(r, b)
  BY IdentityCases
<1>2. RunCoheres(r) /\ j \in Journals /\ StepAgrees(r, b)
  BY <1>1 DEF JournalInv, TypeOK, RunCoheres
<1>3. attempt[Forward(r, b)].status = IF resolved THEN "uncertain" ELSE "started"
  BY <1>1 DEF Folds
<1>4. j.coherent /\ j.step[b] = "running" /\ (b \in j.uncertain <=> resolved)
  BY <1>2, <1>3 DEF RunCoheres, StepAgrees
<1>5. ~j.requested
  BY <1>1, <1>2, <1>3 DEF RunCoheres, CompensationSettled, AttemptsWith, Forward
<1>6. \A a \in Activities : attempt[Inverse(r, a)].status = "none"
  BY <1>2, <1>5 DEF RunCoheres, CompensationSettled
<1>7. ForwardFolded(j, k, b, s)
  <2>1. k = Apply(j, EventKind(e, s, resolved), b)
    BY FoldWrites
  <2>2. CASE resolved
    BY <1>2, <1>4, <2>1, <2>2, ForwardResolvedAccepted DEF Folds
  <2>3. CASE ~resolved
    BY <1>2, <1>4, <2>1, <2>3, ForwardDirectAccepted DEF Folds
  <2>4. QED
    BY <2>2, <2>3
<1>8. /\ \A a \in Activities \ {b} : attempt'[Forward(r, a)] = attempt[Forward(r, a)]
      /\ \A a \in Activities : attempt'[Inverse(r, a)] = attempt[Inverse(r, a)]
      /\ attempt'[Forward(r, b)].status = s
  BY <1>1, FoldWrites, ForwardWritten
<1>9. \A q \in Runs \ {r} : RunUntouched(q)
  BY FoldWrites, OthersUntouched
<1>10. s \in AttemptStatus \ {"none", "started"} /\ j.step \in [Activities -> StepStatus]
  BY <1>2 DEF Folds, Outcomes, AttemptStatus, Journals
<1>11. \A a \in Activities : StepAgrees(r, a)'
  <2> SUFFICES ASSUME NEW a \in Activities PROVE StepAgrees(r, a)'
    OBVIOUS
  <2>1. StepAgrees(r, a) /\ attempt[Inverse(r, a)].status = "none"
    BY <1>2, <1>6 DEF RunCoheres
  <2>2. CASE a = b
    <3>1. k.step[b] = CASE s = "uncertain" -> "running"
                        [] s = "succeeded" -> "succeeded"
                        [] OTHER -> "failed"
      BY <1>1, <1>4, <1>7, <1>10 DEF ForwardFolded
    <3>2. (b \in k.uncertain <=> s = "uncertain") /\ k.compUncertain = j.compUncertain
      BY <1>7 DEF ForwardFolded
    <3>3. QED
      BY <1>8, <1>10, <2>1, <2>2, <3>1, <3>2 DEF StepAgrees, AttemptStatus
  <2>3. CASE a # b
    <3>1. /\ k.step[a] = j.step[a] /\ k.compUncertain = j.compUncertain
          /\ a \in k.uncertain <=> a \in j.uncertain
      BY <1>7, <1>10, <2>3 DEF ForwardFolded
    <3>2. QED
      BY <1>8, <2>1, <2>3, <3>1 DEF StepAgrees
  <2>4. QED
    BY <2>2, <2>3
<1>12. OrderExact(k)
  <2>1. OrderExact(j)
    BY <1>2 DEF RunCoheres
  <2>2. CASE s = "uncertain"
    BY <1>7, <2>1, <2>2 DEF ForwardFolded, OrderExact, InOrder
  <2>3. CASE s = "succeeded"
    BY <1>1, <1>2, <1>4, <1>7, <2>1, <2>3, AppendExact DEF ForwardFolded, DoneStatus
  <2>4. CASE s \notin {"uncertain", "succeeded"}
    BY <1>1, <1>2, <1>4, <1>7, <2>1, <2>4, StepExact DEF ForwardFolded, DoneStatus
  <2>5. QED
    BY <2>2, <2>3, <2>4
<1>13. InverseAfterSuccess(r)' /\ CompensationSettled(r)'
  BY <1>5, <1>6, <1>7, <1>8 DEF InverseAfterSuccess, CompensationSettled, ForwardFolded
<1>14. journal'[r].requested <=> run'[r].status = "compensating"
  BY <1>2, <1>7, FoldWrites DEF ForwardFolded, RunCoheres
<1>15. RunCoheres(r)'
  BY <1>4, <1>7, <1>11, <1>12, <1>13, <1>14 DEF RunCoheres, ForwardFolded
<1>16. QED
  BY <1>1, <1>9, <1>15, OneRun

\* An inverse effect is open only on a compensating step of a run whose
\* compensation was requested, so its event is accepted.
LEMMA InverseFoldAccepted ==
    ASSUME TypeOK, NEW e \in Effects, e.attempt = 2, NEW s, NEW resolved \in BOOLEAN,
           Folds(e, s, resolved), RunCoheres(e.run)
    PROVE  /\ journal[e.run].step[e.activity] = "compensating"
           /\ journal[e.run].requested
           /\ attempt[Forward(e.run, e.activity)].status = "succeeded"
           /\ InverseFolded(journal[e.run], journal'[e.run], e.activity, s)
<1> DEFINE r == e.run
           b == e.activity
           j == journal[r]
           k == journal'[r]
<1>1. r \in Runs /\ b \in Activities /\ e = Inverse(r, b)
  BY IdentityCases
<1>2. j \in Journals /\ StepAgrees(r, b)
  BY <1>1 DEF TypeOK, RunCoheres
<1>3. attempt[Inverse(r, b)].status = IF resolved THEN "uncertain" ELSE "started"
  BY <1>1 DEF Folds
<1>4. attempt[Forward(r, b)].status = "succeeded"
  BY <1>1, <1>3 DEF RunCoheres, InverseAfterSuccess
<1>5. j.coherent /\ j.step[b] = "compensating" /\ (b \in j.compUncertain <=> resolved)
  BY <1>2, <1>3, <1>4 DEF RunCoheres, StepAgrees
<1>6. j.requested
  BY <1>1, <1>3 DEF RunCoheres, CompensationSettled
<1>7. InverseFolded(j, k, b, s)
  <2>1. k = Apply(j, EventKind(e, s, resolved), b)
    BY FoldWrites
  <2>2. CASE resolved
    BY <1>2, <1>5, <2>1, <2>2, InverseResolvedAccepted DEF Folds
  <2>3. CASE ~resolved
    BY <1>2, <1>5, <2>1, <2>3, InverseDirectAccepted DEF Folds
  <2>4. QED
    BY <2>2, <2>3
<1>8. QED
  BY <1>4, <1>5, <1>6, <1>7

\* Folding an inverse effect: the step compensates exactly while it is open.
LEMMA InverseFoldCoheres ==
    ASSUME TypeOK, JournalInv, NEW e \in Effects, e.attempt = 2, NEW s,
           NEW resolved \in BOOLEAN, Folds(e, s, resolved)
    PROVE  JournalInv'
<1> DEFINE r == e.run
           b == e.activity
           j == journal[r]
           k == journal'[r]
<1>1. r \in Runs /\ b \in Activities /\ e = Inverse(r, b)
  BY IdentityCases
<1>2. RunCoheres(r) /\ j \in Journals /\ StepAgrees(r, b)
  BY <1>1 DEF JournalInv, TypeOK, RunCoheres
<1>3. attempt[Forward(r, b)].status = "succeeded" /\ b \in Compensable
  <2>1. attempt[e].status \in {"started", "uncertain"}
    BY DEF Folds
  <2>2. QED
    BY <1>1, <1>2, <2>1 DEF RunCoheres, InverseAfterSuccess
<1>4. j.coherent /\ j.step[b] = "compensating"
  BY <1>2, InverseFoldAccepted DEF RunCoheres
<1>5. j.requested
  BY <1>2, InverseFoldAccepted
<1>6. InverseFolded(j, k, b, s)
  BY <1>2, InverseFoldAccepted
<1>7. /\ \A a \in Activities \ {b} : attempt'[Inverse(r, a)] = attempt[Inverse(r, a)]
      /\ \A a \in Activities : attempt'[Forward(r, a)] = attempt[Forward(r, a)]
      /\ attempt'[Inverse(r, b)].status = s
  BY <1>1, FoldWrites, InverseWritten
<1>8. \A q \in Runs \ {r} : RunUntouched(q)
  BY FoldWrites, OthersUntouched
<1>9. s \in AttemptStatus \ {"none", "started"} /\ j.step \in [Activities -> StepStatus]
  BY <1>2 DEF Folds, Outcomes, AttemptStatus, Journals
<1>10. \A a \in Activities : StepAgrees(r, a)'
  <2> SUFFICES ASSUME NEW a \in Activities PROVE StepAgrees(r, a)'
    OBVIOUS
  <2>1. StepAgrees(r, a)
    BY <1>2 DEF RunCoheres
  <2>2. CASE a = b
    <3>1. k.step[b] = CASE s = "uncertain" -> "compensating"
                        [] s = "succeeded" -> "compensated"
                        [] OTHER -> "compensation_failed"
      BY <1>1, <1>4, <1>6, <1>9 DEF InverseFolded
    <3>2. (b \in k.compUncertain <=> s = "uncertain") /\ k.uncertain = j.uncertain
      BY <1>6 DEF InverseFolded
    <3>3. QED
      BY <1>3, <1>7, <1>9, <2>1, <2>2, <3>1, <3>2 DEF StepAgrees, AttemptStatus
  <2>3. CASE a # b
    <3>1. /\ k.step[a] = j.step[a] /\ k.uncertain = j.uncertain
          /\ a \in k.compUncertain <=> a \in j.compUncertain
      BY <1>6, <1>9, <2>3 DEF InverseFolded
    <3>2. QED
      BY <1>7, <2>1, <2>3, <3>1 DEF StepAgrees
  <2>4. QED
    BY <2>2, <2>3
<1>11. OrderExact(k)
  <2>1. OrderExact(j)
    BY <1>2 DEF RunCoheres
  <2>2. CASE s = "uncertain"
    BY <1>6, <2>1, <2>2 DEF InverseFolded, OrderExact, InOrder
  <2>3. CASE s # "uncertain"
    BY <1>1, <1>2, <1>4, <1>6, <2>1, <2>3, StepExact DEF InverseFolded, DoneStatus
  <2>4. QED
    BY <2>2, <2>3
<1>12. InverseAfterSuccess(r)'
  BY <1>2, <1>3, <1>7 DEF RunCoheres, InverseAfterSuccess
<1>13. CompensationSettled(r)'
  BY <1>2, <1>5, <1>6, <1>7
  DEF RunCoheres, CompensationSettled, InverseFolded, AttemptsWith, Forward
<1>14. journal'[r].requested <=> run'[r].status = "compensating"
  BY <1>2, <1>6, FoldWrites DEF InverseFolded, RunCoheres
<1>15. RunCoheres(r)'
  BY <1>4, <1>6, <1>10, <1>11, <1>12, <1>13, <1>14 DEF RunCoheres, InverseFolded
<1>16. QED
  BY <1>1, <1>8, <1>15, OneRun

----------------------------------------------------------------------------
(* Every step, seen from the journals. *)

\* No journal and no attempt changes, and no run starts or stops compensating.
QuietStep ==
    /\ UNCHANGED <<journal, attempt>>
    /\ \A r \in Runs : run'[r].status = "compensating" <=> run[r].status = "compensating"

JournalView ==
    \/ \E f \in Fences, r \in Runs, a \in Activities : StartEffectAttempt(f, r, a)
    \/ \E r \in Runs : BeginCompensation(r)
    \/ \E f \in Fences, r \in Runs, a \in Activities : StartCompensationAttempt(f, r, a)
    \/ /\ \E e \in Effects, s \in AttemptStatus, resolved \in BOOLEAN : Folds(e, s, resolved)
       /\ UNCHANGED <<workspace, latest>>
    \/ QuietStep

\* Recording a lifecycle-neutral event changes no status.
LEMMA RecordedStatus ==
    ASSUME TypeOK, NEW r \in Runs, run' = [run EXCEPT ![r] = Recorded(r, "other")]
    PROVE  \A q \in Runs : run'[q].status = run[q].status
BY DEF TypeOK, RunRecords, Recorded

\* A lifecycle transition leaves succeeded and compensating runs alone.
LEMMA TransitionStatus ==
    ASSUME TypeOK, NEW f \in Fences, NEW r \in Runs,
           NEW expected \in SUBSET {"claimed", "running", "paused"},
           NEW s \in RunStatus \ {"compensating"}, Transition(f, r, expected, s)
    PROVE  /\ QuietStep
           /\ \A q \in Runs : run[q].status = "succeeded" => run'[q].status = "succeeded"
<1>1. run[r] \in RunRecords /\ run[r].status \in {"claimed", "running", "paused"}
  BY DEF Transition, TypeOK
<1>2. Transitioned(run[r], s).status = s
  BY <1>1 DEF Transitioned, RunRecords
<1>3. \A q \in Runs : run'[q] = IF q = r THEN Transitioned(run[r], s) ELSE run[q]
  BY DEF Transition, TypeOK
<1>4. QED
  BY <1>1, <1>2, <1>3 DEF QuietStep, Transition

\* Recovery and retry change no status but that of the run a retry opens.
LEMMA RecoveryStatus ==
    ASSUME TypeInv, RunsInv, RecoveryStep
    PROVE  /\ QuietStep
           /\ \A q \in Runs : run[q].status = "succeeded" => run'[q].status = "succeeded"
<1>1. ASSUME NEW f \in Fences, Owns(f)
      PROVE  latest \in Runs
  BY <1>1, RunAssumption DEF Owns, TypeInv, HasRun, TypeOK, Runs
<1>2. \A q \in Runs : run[q] \in RunRecords
  BY DEF TypeInv, TypeOK
<1>3. ASSUME NEW f \in Fences, NEW w \in Workers, Owns(f), Rotate(f, w)
      PROVE  \A q \in Runs : run'[q].status = run[q].status
  BY <1>1, <1>2, <1>3 DEF Rotate, RunRecords, TypeInv, TypeOK
<1>4. ASSUME NEW f \in Fences, RenewActiveClaim(f)
      PROVE  (\A q \in Runs : run'[q].status = run[q].status) /\ UNCHANGED <<journal, attempt>>
  BY <1>3, <1>4 DEF RenewActiveClaim, Fences
<1>5. ASSUME NEW f \in Fences, NEW w \in Workers, RecoverExpiredClaim(f, w)
      PROVE  (\A q \in Runs : run'[q].status = run[q].status) /\ UNCHANGED <<journal, attempt>>
  BY <1>3, <1>5 DEF RecoverExpiredClaim
<1>6. ASSUME NEW f \in Fences, AbandonExpiredClaim(f)
      PROVE  (\A q \in Runs : run'[q].status = run[q].status) /\ UNCHANGED <<journal, attempt>>
  BY <1>1, <1>2, <1>6 DEF AbandonExpiredClaim, RunRecords, TypeInv, TypeOK
<1>7. ASSUME NEW f \in Fences, RetryRun(f)
      PROVE  /\ UNCHANGED <<journal, attempt>>
             /\ \A q \in Runs : \/ run'[q].status = run[q].status
                                \/ run[q].status = "none" /\ run'[q].status = "claimed"
  <2>1. latest \in Runs /\ latest + 1 \in Runs /\ latest + 1 > latest
    BY <1>1, <1>7, RunAssumption DEF RetryRun, TypeInv, TypeOK, Runs
  <2>2. \A q \in Runs : run'[q] = IF q = latest + 1 THEN OpenedRun
                                  ELSE IF q = latest THEN Recorded(latest, "other")
                                  ELSE run[q]
    BY <1>7, <2>1 DEF RetryRun, TypeInv, TypeOK
  <2>3. Recorded(latest, "other").status = run[latest].status /\ OpenedRun.status = "claimed"
    BY <1>2, <2>1 DEF Recorded, RunRecords, OpenedRun, NoRun
  <2>4. run[latest + 1].status = "none"
    BY <2>1 DEF RunsInv
  <2>5. QED
    BY <1>7, <2>2, <2>3, <2>4 DEF RetryRun
<1>8. QED
  BY <1>4, <1>5, <1>6, <1>7 DEF RecoveryStep, QuietStep

\* The folds of the three services are folds that the attempt table permits.
LEMMA FoldsView ==
    ASSUME TypeOK,
           \/ \E e \in Effects : FoldExecution(e)
           \/ \E o \in observers : FoldObservation(o)
           \/ \E f \in Fences, e \in Effects, s \in Resolutions : ResolveUncertainty(f, e, s)
    PROVE  /\ \E e \in Effects, s \in AttemptStatus, resolved \in BOOLEAN :
                Folds(e, s, resolved)
           /\ UNCHANGED <<workspace, latest>>
<1>0. Outcomes \subseteq AttemptStatus /\ {"succeeded", "failed", "abandoned"} \subseteq AttemptStatus
  BY DEF Outcomes, AttemptStatus
<1>1. ASSUME NEW e \in Effects, FoldExecution(e)
      PROVE  Folds(e, caller[e], FALSE) /\ caller[e] \in AttemptStatus
  BY <1>0, <1>1 DEF FoldExecution, TakesDirect, Folds
<1>2. ASSUME NEW o \in observers, FoldObservation(o)
      PROVE  /\ Folds(o.effect, o.verdict, FALSE)
             /\ o.effect \in Effects /\ o.verdict \in AttemptStatus
  <2>1. o.effect \in Effects /\ o.verdict \in Outcomes
    BY DEF TypeOK, Observers, Verdicts, Outcomes
  <2>2. QED
    BY <1>0, <1>2, <2>1 DEF FoldObservation, MayReconcile, TakesDirect, Folds
<1>3. ASSUME NEW f \in Fences, NEW e \in Effects, NEW s \in Resolutions,
             ResolveUncertainty(f, e, s)
      PROVE  Folds(e, s, TRUE) /\ s \in AttemptStatus
  BY <1>0, <1>3, RunAssumption DEF ResolveUncertainty, Folds
<1>4. UNCHANGED <<workspace, latest>>
  BY DEF FoldExecution, FoldObservation, ResolveUncertainty
<1>5. QED
  BY <1>1, <1>2, <1>3, <1>4

\* No service ever takes a run back from success.
LEMMA StepJournalView ==
    ASSUME TypeInv, RunsInv, [Next]_vars
    PROVE  /\ JournalView
           /\ \A q \in Runs : run[q].status = "succeeded" => run'[q].status = "succeeded"
<1> DEFINE Kept == \A q \in Runs : run[q].status = "succeeded" => run'[q].status = "succeeded"
<1>0. TypeOK
  BY DEF TypeInv
<1>1. CASE LifecycleStep
  <2>1. ASSUME NEW w \in Workers, ClaimRun(w)
        PROVE  QuietStep /\ Kept
    <3>1. /\ 1 \in Runs /\ run[1].status = "none"
          /\ \A q \in Runs : run'[q] = IF q = 1 THEN OpenedRun ELSE run[q]
      BY <1>0, <2>1, RunAssumption DEF ClaimRun, RunsInv, TypeOK, Runs
    <3>2. QED
      BY <2>1, <3>1 DEF ClaimRun, QuietStep, OpenedRun, NoRun
  <2>2. QED
    BY <1>0, <1>1, <2>1, TransitionStatus
    DEF LifecycleStep, StartRun, PauseRun, ResumeRun, CompleteRun, FailRun, CancelRun,
        RunStatus, JournalView
<1>2. CASE EffectStep
  <2>1. ASSUME NEW f \in Fences, NEW r \in Runs, NEW a \in Activities,
               StartEffectAttempt(f, r, a)
        PROVE  Kept
    BY <1>0, <2>1, RecordedStatus DEF StartEffectAttempt
  <2>2. CASE \/ \E e \in Effects : FoldExecution(e)
             \/ \E o \in observers : FoldObservation(o)
             \/ \E f \in Fences, e \in Effects, s \in Resolutions : ResolveUncertainty(f, e, s)
    <3>1. PICK e \in Effects, s \in AttemptStatus, resolved \in BOOLEAN : Folds(e, s, resolved)
      BY <1>0, <2>2, FoldsView
    <3>2. Kept
      BY <1>0, <3>1, RecordedStatus, IdentityCases DEF Folds, Fold
    <3>3. QED
      BY <1>0, <2>2, <3>2, FoldsView DEF JournalView
  <2>3. CASE UNCHANGED <<journal, attempt, run>>
    BY <2>3 DEF QuietStep, JournalView
  <2>4. QED
    BY <1>2, <2>1, <2>2, <2>3
    DEF EffectStep, ExecuteEffect, LoseCaller, ObserveAttempt, LoseObserver, JournalView
<1>3. CASE RecoveryStep
  BY <1>3, RecoveryStatus DEF JournalView
<1>4. CASE CompensationStep
  <2>1. ASSUME NEW r \in Runs, BeginCompensation(r)
        PROVE  Kept
    BY <1>0, <2>1 DEF BeginCompensation, FailureIsTerminalEvidence, TypeOK
  <2>2. ASSUME NEW f \in Fences, NEW r \in Runs, NEW a \in Activities,
               StartCompensationAttempt(f, r, a)
        PROVE  Kept
    BY <1>0, <2>2, RecordedStatus DEF StartCompensationAttempt
  <2>3. QED
    BY <1>4, <2>1, <2>2 DEF CompensationStep, JournalView
<1>5. CASE \E f \in Fences, r \in Runs : AdvanceCurrentGraph(f, r)
  <2>1. \A q \in Runs : run'[q].status = run[q].status
    BY <1>0, <1>5, RecordedStatus DEF AdvanceCurrentGraph
  <2>2. QED
    BY <1>5, <2>1 DEF AdvanceCurrentGraph, QuietStep, JournalView
<1>6. CASE ExpireLease \/ EndSession \/ ReviseDesiredGraph \/ UNCHANGED vars
  BY <1>6 DEF ExpireLease, EndSession, ReviseDesiredGraph, vars, QuietStep, JournalView
<1>7. QED
  BY <1>1, <1>2, <1>3, <1>4, <1>5, <1>6 DEF Next

----------------------------------------------------------------------------
(* The journal and the attempts agree. *)

\* Every command keeps every run coherent.
LEMMA JournalInvStep == TypeInv /\ RunsInv /\ JournalInv /\ [Next]_vars => JournalInv'
<1> SUFFICES ASSUME TypeInv, RunsInv, JournalInv, [Next]_vars
             PROVE  JournalInv'
  OBVIOUS
<1>0. TypeOK
  BY DEF TypeInv
<1>1. ASSUME NEW e \in Effects, NEW s \in AttemptStatus, NEW resolved \in BOOLEAN,
             Folds(e, s, resolved)
      PROVE  JournalInv'
  BY <1>0, <1>1, IdentityCases, ForwardFoldCoheres, InverseFoldCoheres
<1>2. CASE QuietStep
  <2>1. \A r \in Runs : RunUntouched(r)
    BY <1>2 DEF QuietStep, RunUntouched
  <2>2. QED
    BY <2>1, UntouchedCoheres DEF JournalInv
<1>3. QED
  BY <1>0, <1>1, <1>2, StepJournalView, StartCoheres, BeginCoheres, InverseStartCoheres
  DEF JournalView

\* The journal of every run is coherent in every behaviour.
THEOREM JournalInvariant == Spec => []JournalInv
<1>1. Init => JournalInv
  BY JournalInvInit
<1>2. TypeInv /\ RunsInv /\ JournalInv /\ [Next]_vars => JournalInv'
  BY JournalInvStep
<1>3. QED
  BY <1>1, <1>2, TypeInvariant, RunsInvariant, PTL DEF Spec

\* JournalMatchesAttempts: the journal and the attempt table, written by
\* different services, never disagree, and no service ever appends an event
\* that the saga projection rejects.
THEOREM JournalAgrees == Spec => []JournalMatchesAttempts
<1>1. JournalInv => JournalMatchesAttempts
  BY DEF JournalInv, RunCoheres, JournalMatchesAttempts
<1>2. QED
  BY <1>1, JournalInvariant, PTL

----------------------------------------------------------------------------
(* A retry leaves nothing open. *)

\* An eligible run has no open attempt: what the recovery commands read of the
\* journal says the same of the attempt table.
LEMMA EligibleSettled ==
    ASSUME NEW r \in Runs, RunCoheres(r), NEW f, RecoveryEligible(r, f)
    PROVE  \A a \in Activities :
             /\ attempt[Forward(r, a)].status \notin {"started", "uncertain"}
             /\ attempt[Inverse(r, a)].status \notin {"started", "uncertain"}
<1> SUFFICES ASSUME NEW a \in Activities
             PROVE  /\ attempt[Forward(r, a)].status \notin {"started", "uncertain"}
                    /\ attempt[Inverse(r, a)].status \notin {"started", "uncertain"}
  OBVIOUS
<1>1. StepAgrees(r, a) /\ attempt[Inverse(r, a)].status = "none"
  BY DEF RunCoheres, CompensationSettled, RecoveryEligible
<1>2. journal[r].step[a] # "running"
  BY DEF RecoveryEligible, InFlight, StepsIn
<1>3. QED
  BY <1>1, <1>2 DEF StepAgrees

\* The attempts of superseded runs stay closed.
LEMMA RetryStep ==
    TypeInv /\ RunsInv /\ JournalInv /\ RetryLeavesNothingOpen /\ [Next]_vars
        => RetryLeavesNothingOpen'
<1> SUFFICES ASSUME TypeInv, RunsInv, JournalInv, RetryLeavesNothingOpen, [Next]_vars,
                    NEW d \in Effects, d.run < latest'
             PROVE  attempt'[d].status \notin {"started", "uncertain"}
  BY DEF RetryLeavesNothingOpen
<1>0. TypeOK /\ d.run \in Runs /\ d.run \in Nat /\ latest \in Nat
  BY IdentityCases DEF TypeInv, TypeOK, Runs
<1>1. CASE latest' = latest
  <2>1. d.run < latest /\ run[d.run].status = "failed"
    BY <1>0, <1>1 DEF RunsInv
  <2>2. attempt[d].status \notin {"started", "uncertain"}
    BY <2>1 DEF RetryLeavesNothingOpen
  <2>3. ASSUME NEW f \in Fences, NEW r \in Runs, NEW a \in Activities,
               StartEffectAttempt(f, r, a)
        PROVE  attempt'[d] = attempt[d]
    <3>1. run[r].status = "running"
      BY <2>3 DEF StartEffectAttempt, MayStart
    <3>2. d # Forward(r, a)
      BY <2>1, <3>1 DEF Forward
    <3>3. QED
      BY <2>3, <3>2 DEF StartEffectAttempt, TypeInv, TypeOK
  <2>4. ASSUME NEW f \in Fences, NEW r \in Runs, NEW a \in Activities,
               StartCompensationAttempt(f, r, a)
        PROVE  attempt'[d] = attempt[d]
    <3>1. run[r].status = "compensating"
      BY <2>4 DEF StartCompensationAttempt
    <3>2. d # Inverse(r, a)
      BY <2>1, <3>1 DEF Inverse
    <3>3. QED
      BY <2>4, <3>2 DEF StartCompensationAttempt, TypeInv, TypeOK
  <2>5. ASSUME NEW e \in Effects, NEW s \in AttemptStatus, NEW resolved \in BOOLEAN,
               Folds(e, s, resolved)
        PROVE  attempt'[d] = attempt[d]
    <3>1. e # d
      BY <2>2, <2>5 DEF Folds
    <3>2. QED
      BY <1>0, <2>5, <3>1, FoldWrites
  <2>6. attempt'[d] = attempt[d]
    BY <2>3, <2>4, <2>5, StepJournalView DEF JournalView, BeginCompensation, QuietStep
  <2>7. QED
    BY <2>2, <2>6
<1>2. CASE latest' # latest
  <2>1. \/ \E w \in Workers : ClaimRun(w)
        \/ \E f \in Fences : RetryRun(f)
    BY <1>2 DEF Next, LifecycleStep, StartRun, PauseRun, ResumeRun, CompleteRun, FailRun,
         CancelRun, Transition, EffectStep, StartEffectAttempt, ExecuteEffect, FoldExecution,
         LoseCaller, ObserveAttempt, FoldObservation, LoseObserver, ResolveUncertainty,
         RecoveryStep, RenewActiveClaim, RecoverExpiredClaim, AbandonExpiredClaim,
         CompensationStep, BeginCompensation, StartCompensationAttempt, AdvanceCurrentGraph,
         ExpireLease, EndSession, ReviseDesiredGraph, vars
  <2>2. CASE \E w \in Workers : ClaimRun(w)
    BY <1>0, <2>2 DEF ClaimRun, Runs
  <2>3. ASSUME NEW f \in Fences, RetryRun(f)
        PROVE  attempt'[d].status \notin {"started", "uncertain"}
    <3>1. attempt' = attempt /\ latest' = latest + 1 /\ RecoveryEligible(latest, f)
      BY <2>3 DEF RetryRun
    <3>2. CASE d.run < latest
      BY <3>1, <3>2 DEF RetryLeavesNothingOpen
    <3>3. CASE d.run = latest
      BY <1>0, <3>1, <3>3, EligibleSettled, IdentityCases DEF JournalInv
    <3>4. QED
      BY <1>0, <3>1, <3>2, <3>3
  <2>4. QED
    BY <2>1, <2>2, <2>3
<1>3. QED
  BY <1>1, <1>2

\* RetryLeavesNothingOpen: no effect of a superseded run is ever open, so a
\* retried activity is never performed while its earlier effect may still land.
THEOREM RetriesAreClean == Spec => []RetryLeavesNothingOpen
<1>1. Init => RetryLeavesNothingOpen
  BY DEF Init, RetryLeavesNothingOpen, NoAttempt
<1>2. QED
  BY <1>1, RetryStep, TypeInvariant, RunsInvariant, JournalInvariant, PTL DEF Spec

----------------------------------------------------------------------------
(* Inverse effects in reverse order. *)

\* Completion is a strict order: an exact order lists no activity twice.
LEMMA CompletedOnce ==
    ASSUME NEW j \in Journals, OrderExact(j), NEW a, NEW b, CompletedAfter(j, b, a)
    PROVE  a # b /\ ~CompletedAfter(j, a, b)
<1>1. DOMAIN j.order \subseteq Nat
  BY DEF Journals
<1>2. QED
  BY <1>1 DEF OrderExact, CompletedAfter

\* The program of a run is fixed once its compensation was requested.
LEMMA ProgramFixed ==
    ASSUME NEW r \in Runs,
           \A a \in Activities : attempt'[Forward(r, a)] = attempt[Forward(r, a)]
    PROVE  ProgramSteps(r)' = ProgramSteps(r)
BY DEF ProgramSteps, DirectSuccesses, AttemptsWith, Forward

\* InverseInReverseOrder, of one run.
ReversedIn(r) ==
    \A a, b \in ProgramSteps(r) :
        /\ attempt[Inverse(r, a)].status # "none"
        /\ CompletedAfter(journal[r], b, a)
        => attempt[Inverse(r, b)].status = "succeeded"

\* A run left without inverse attempts has none out of order.
LEMMA ReversedVacuous ==
    ASSUME NEW r \in Runs, \A a \in Activities : attempt'[Inverse(r, a)].status = "none"
    PROVE  ReversedIn(r)'
BY DEF ReversedIn, ProgramSteps, DirectSuccesses, AttemptsWith

\* What is left alone stays in order.
LEMMA ReversedUntouched ==
    ASSUME NEW r \in Runs, ReversedIn(r), journal'[r].order = journal[r].order,
           \A a \in Activities : /\ attempt'[Forward(r, a)] = attempt[Forward(r, a)]
                                 /\ attempt'[Inverse(r, a)] = attempt[Inverse(r, a)]
    PROVE  ReversedIn(r)'
<1>1. ProgramSteps(r)' = ProgramSteps(r) /\ ProgramSteps(r) \subseteq Activities
  BY ProgramFixed DEF ProgramSteps, DirectSuccesses, AttemptsWith
<1>2. \A a, b \in Activities :
        CompletedAfter(journal[r], b, a)' <=> CompletedAfter(journal[r], b, a)
  BY DEF CompletedAfter
<1>3. QED
  BY <1>1, <1>2 DEF ReversedIn

\* Starting the next inverse: all that completed after it has been undone, and
\* nothing that completed before it has been touched.
LEMMA ReversedStart ==
    ASSUME TypeOK, NEW r \in Runs, OrderExact(journal[r]), ReversedIn(r),
           NEW b \in Activities, NextProgramStep(r, b), journal'[r].order = journal[r].order,
           \A a \in Activities \ {b} : attempt'[Inverse(r, a)] = attempt[Inverse(r, a)],
           \A a \in Activities : attempt'[Forward(r, a)] = attempt[Forward(r, a)]
    PROVE  ReversedIn(r)'
<1>1. ProgramSteps(r)' = ProgramSteps(r) /\ ProgramSteps(r) \subseteq Activities
  BY ProgramFixed DEF ProgramSteps, DirectSuccesses, AttemptsWith
<1> SUFFICES ASSUME NEW a \in ProgramSteps(r), NEW c \in ProgramSteps(r),
                    attempt'[Inverse(r, a)].status # "none",
                    CompletedAfter(journal[r], c, a)'
             PROVE  attempt'[Inverse(r, c)].status = "succeeded"
  BY <1>1 DEF ReversedIn
<1>2. CompletedAfter(journal[r], c, a) /\ journal[r] \in Journals
  BY DEF CompletedAfter, TypeOK
<1>3. a # c /\ ~CompletedAfter(journal[r], a, c)
  BY <1>2, CompletedOnce
<1>4. CASE a = b
  BY <1>1, <1>2, <1>3, <1>4 DEF NextProgramStep
<1>5. CASE a # b /\ c = b
  <2>1. attempt[Inverse(r, a)].status # "none"
    BY <1>1, <1>5
  <2>2. CompletedAfter(journal[r], a, b)
    BY <1>5, <2>1 DEF NextProgramStep
  <2>3. QED
    BY <1>3, <1>5, <2>2
<1>6. CASE a # b /\ c # b
  BY <1>1, <1>2, <1>6 DEF ReversedIn
<1>7. QED
  BY <1>4, <1>5, <1>6

\* Folding an inverse: it was open, so nothing before it had been started.
LEMMA ReversedFold ==
    ASSUME TypeOK, NEW r \in Runs, OrderExact(journal[r]), ReversedIn(r),
           NEW b \in Activities, attempt[Inverse(r, b)].status \in {"started", "uncertain"},
           journal'[r].order = journal[r].order,
           \A a \in Activities \ {b} : attempt'[Inverse(r, a)] = attempt[Inverse(r, a)],
           \A a \in Activities : attempt'[Forward(r, a)] = attempt[Forward(r, a)]
    PROVE  ReversedIn(r)'
<1>1. ProgramSteps(r)' = ProgramSteps(r) /\ ProgramSteps(r) \subseteq Activities
  BY ProgramFixed DEF ProgramSteps, DirectSuccesses, AttemptsWith
<1> SUFFICES ASSUME NEW a \in ProgramSteps(r), NEW c \in ProgramSteps(r),
                    attempt'[Inverse(r, a)].status # "none",
                    CompletedAfter(journal[r], c, a)'
             PROVE  attempt'[Inverse(r, c)].status = "succeeded"
  BY <1>1 DEF ReversedIn
<1>2. CompletedAfter(journal[r], c, a)
  BY DEF CompletedAfter
<1>3. attempt[Inverse(r, a)].status # "none"
  BY <1>1
<1>4. attempt[Inverse(r, c)].status = "succeeded"
  BY <1>2, <1>3 DEF ReversedIn
<1>5. QED
  BY <1>1, <1>4

\* Every command keeps the inverse effects in reverse order.
LEMMA ReverseStep ==
    TypeInv /\ RunsInv /\ JournalInv /\ InverseInReverseOrder /\ [Next]_vars
        => InverseInReverseOrder'
<1> SUFFICES ASSUME TypeInv, RunsInv, JournalInv, InverseInReverseOrder, [Next]_vars,
                    NEW r \in Runs
             PROVE  ReversedIn(r)'
  BY DEF InverseInReverseOrder, ReversedIn
<1>0. TypeOK /\ RunCoheres(r) /\ ReversedIn(r) /\ OrderExact(journal[r])
  BY DEF TypeInv, JournalInv, InverseInReverseOrder, ReversedIn, RunCoheres
<1>1. RunCoheres(r)'
  BY JournalInvStep DEF JournalInv
<1>2. CASE ~journal'[r].requested
  BY <1>1, <1>2, ReversedVacuous DEF RunCoheres, CompensationSettled
<1>3. CASE UNCHANGED attempt /\ journal'[r].order = journal[r].order
  BY <1>0, <1>3, ReversedUntouched
<1>4. ASSUME NEW f \in Fences, NEW q \in Runs, NEW a \in Activities,
             StartEffectAttempt(f, q, a)
      PROVE  ReversedIn(r)'
  <2>1. CASE q # r
    <3>1. journal'[r] = journal[r]
      BY <1>0, <1>4, <2>1 DEF StartEffectAttempt, Journalled, TypeOK
    <3>2. \A c \in Activities : /\ attempt'[Forward(r, c)] = attempt[Forward(r, c)]
                                /\ attempt'[Inverse(r, c)] = attempt[Inverse(r, c)]
      BY <1>0, <1>4, <2>1, EffectIdentity, IdentityInjective DEF StartEffectAttempt, TypeOK
    <3>3. QED
      BY <1>0, <3>1, <3>2, ReversedUntouched
  <2>2. CASE q = r
    <3>1. run[r].status = "running" /\ run'[r].status = run[r].status
      BY <1>0, <1>4, <2>2, RecordedStatus DEF StartEffectAttempt, MayStart
    <3>2. QED
      BY <1>1, <1>2, <3>1 DEF RunCoheres
  <2>3. QED
    BY <2>1, <2>2
<1>5. ASSUME NEW q \in Runs, BeginCompensation(q)
      PROVE  ReversedIn(r)'
  <2>1. ApplyCompensationRequested(journal[q]).order = journal[q].order
    BY <1>0 DEF ApplyCompensationRequested, EvolveCompensationRequested, Reject, TypeOK, Journals
  <2>2. QED
    BY <1>0, <1>3, <1>5, <2>1 DEF BeginCompensation, TypeOK
<1>6. ASSUME NEW f \in Fences, NEW q \in Runs, NEW a \in Activities,
             StartCompensationAttempt(f, q, a)
      PROVE  ReversedIn(r)'
  <2>1. /\ \A d \in Effects \ {Inverse(q, a)} : attempt'[d] = attempt[d]
        /\ NextProgramStep(q, a)
    BY <1>0, <1>6, EffectIdentity DEF StartCompensationAttempt, TypeOK
  <2>2. CASE q # r
    <3>1. journal'[r] = journal[r]
      BY <1>0, <1>6, <2>2 DEF StartCompensationAttempt, Journalled, TypeOK
    <3>2. \A c \in Activities : /\ attempt'[Forward(r, c)] = attempt[Forward(r, c)]
                                /\ attempt'[Inverse(r, c)] = attempt[Inverse(r, c)]
      BY <2>1, <2>2, EffectIdentity, IdentityInjective
    <3>3. QED
      BY <1>0, <3>1, <3>2, ReversedUntouched
  <2>3. CASE q = r
    <3>1. journal'[r].order = journal[r].order
      <4>1. journal[r].requested /\ journal[r].coherent /\ journal[r] \in Journals
        BY <1>0, <1>6, <2>3 DEF StartCompensationAttempt, RunCoheres, TypeOK
      <4>2. Apply(journal[r], "step_compensation_started", a).order = journal[r].order
        BY <1>0, <2>1, <2>3, <4>1, NextStepIsHead, InverseStartAccepted DEF Journals
      <4>3. QED
        BY <1>0, <1>6, <2>3, <4>2 DEF StartCompensationAttempt, Journalled, TypeOK
    <3>2. /\ \A c \in Activities \ {a} : attempt'[Inverse(r, c)] = attempt[Inverse(r, c)]
          /\ \A c \in Activities : attempt'[Forward(r, c)] = attempt[Forward(r, c)]
      BY <2>1, <2>3, InverseWritten
    <3>3. QED
      BY <1>0, <2>1, <2>3, <3>1, <3>2, ReversedStart
  <2>4. QED
    BY <2>2, <2>3
<1>7. ASSUME NEW e \in Effects, NEW s \in AttemptStatus, NEW resolved \in BOOLEAN,
             Folds(e, s, resolved)
      PROVE  ReversedIn(r)'
  <2>1. attempt[e].status \in {"started", "uncertain"}
    BY <1>7 DEF Folds
  <2>2. CASE e.run # r
    <3>1. journal'[r] = journal[r]
      BY <1>0, <1>7, <2>2, FoldWrites
    <3>2. \A c \in Activities : /\ attempt'[Forward(r, c)] = attempt[Forward(r, c)]
                                /\ attempt'[Inverse(r, c)] = attempt[Inverse(r, c)]
      <4>1. \A c \in Activities : Forward(r, c) # e /\ Inverse(r, c) # e
        BY <2>2 DEF Forward, Inverse
      <4>2. QED
        BY <1>0, <1>7, <4>1, EffectIdentity, FoldWrites
    <3>3. QED
      BY <1>0, <3>1, <3>2, ReversedUntouched
  <2>3. CASE e.run = r /\ e.attempt = 1
    <3>1. e = Forward(r, e.activity) /\ e.activity \in Activities
      BY <2>3, IdentityCases
    <3>2. ~journal[r].requested
      BY <1>0, <2>1, <3>1 DEF RunCoheres, CompensationSettled, AttemptsWith, Forward
    <3>3. \A c \in Activities : attempt'[Inverse(r, c)].status = "none"
      <4>1. \A c \in Activities : attempt'[Inverse(r, c)] = attempt[Inverse(r, c)]
        BY <1>0, <1>7, <3>1, FoldWrites, ForwardWritten
      <4>2. QED
        BY <1>0, <3>2, <4>1 DEF RunCoheres, CompensationSettled
    <3>4. QED
      BY <3>3, ReversedVacuous
  <2>4. CASE e.run = r /\ e.attempt = 2
    <3>1. e = Inverse(r, e.activity) /\ e.activity \in Activities
      BY <2>4, IdentityCases
    <3>2. /\ \A c \in Activities \ {e.activity} :
                attempt'[Inverse(r, c)] = attempt[Inverse(r, c)]
          /\ \A c \in Activities : attempt'[Forward(r, c)] = attempt[Forward(r, c)]
      BY <1>0, <1>7, <3>1, FoldWrites, InverseWritten
    <3>3. journal'[r].order = journal[r].order
      BY <1>0, <1>7, <2>4, InverseFoldAccepted DEF InverseFolded
    <3>4. QED
      BY <1>0, <2>1, <3>1, <3>2, <3>3, ReversedFold
  <2>5. QED
    BY <2>2, <2>3, <2>4, IdentityCases
<1>8. CASE QuietStep
  BY <1>3, <1>8 DEF QuietStep
<1>9. QED
  BY <1>4, <1>5, <1>6, <1>7, <1>8, StepJournalView DEF JournalView

\* InverseInReverseOrder: inverse effects start one at a time, in reverse order
\* of completion, though the service takes the order from its own program and
\* the outcomes from the attempt table.
THEOREM InversesAreReversed == Spec => []InverseInReverseOrder
<1>1. Init => InverseInReverseOrder
  BY EffectIdentity DEF Init, InverseInReverseOrder, NoAttempt, ProgramSteps,
     DirectSuccesses, AttemptsWith
<1>2. QED
  BY <1>1, ReverseStep, TypeInvariant, RunsInvariant, JournalInvariant, PTL DEF Spec

\* Of two open inverses one would have started before the other succeeded.
LEMMA OneInverseOpen ==
    ASSUME TypeOK, NEW r \in Runs, RunCoheres(r), ReversedIn(r),
           NEW a \in AttemptsWith(r, 2, {"started", "uncertain"}),
           NEW b \in AttemptsWith(r, 2, {"started", "uncertain"})
    PROVE  a = b
<1>0. /\ a \in Activities /\ attempt[Inverse(r, a)].status \in {"started", "uncertain"}
      /\ b \in Activities /\ attempt[Inverse(r, b)].status \in {"started", "uncertain"}
  BY DEF AttemptsWith, Inverse
<1>1. journal[r].requested
  BY <1>0 DEF RunCoheres, CompensationSettled
<1>2. a \in ProgramSteps(r) /\ b \in ProgramSteps(r)
  BY <1>0, <1>1 DEF RunCoheres, CompensationSettled, InverseAfterSuccess, ProgramSteps,
     DirectSuccesses, AttemptsWith, Forward
<1>3. ~CompletedAfter(journal[r], a, b) /\ ~CompletedAfter(journal[r], b, a)
  BY <1>0, <1>2 DEF ReversedIn
<1>4. /\ attempt[Forward(r, a)].status = "succeeded"
      /\ attempt[Forward(r, b)].status = "succeeded"
  BY <1>0 DEF RunCoheres, InverseAfterSuccess
<1>5. /\ journal[r].step[a] \in DoneStatus
      /\ journal[r].step[b] \in DoneStatus
  BY <1>0, <1>4 DEF RunCoheres, StepAgrees, DoneStatus
<1>6. InOrder(journal[r], a) /\ InOrder(journal[r], b)
  BY <1>0, <1>5 DEF RunCoheres, OrderExact
<1>7. DOMAIN journal[r].order \subseteq Nat
  BY DEF TypeOK, Journals
<1>8. PICK p \in DOMAIN journal[r].order : journal[r].order[p] = a
  BY <1>6 DEF InOrder
<1>9. PICK q \in DOMAIN journal[r].order : journal[r].order[q] = b
  BY <1>6 DEF InOrder
<1>10. ~(p < q) /\ ~(q < p)
  BY <1>3, <1>8, <1>9 DEF CompletedAfter
<1>11. p = q
  BY <1>7, <1>10
<1>12. QED
  BY <1>8, <1>9, <1>11

\* CompensationNeverOverlaps: while a run is undone no forward effect of it is
\* still open, although starting an effect and beginning the compensation are
\* guarded by different services, and its inverses are open one at a time.
THEOREM UndoingNeverOverlaps == Spec => []CompensationNeverOverlaps
<1>1. TypeInv /\ JournalInv /\ InverseInReverseOrder => CompensationNeverOverlaps
  <2> SUFFICES ASSUME TypeInv, JournalInv, InverseInReverseOrder, NEW r \in Runs
               PROVE  /\ run[r].status = "compensating" =>
                           AttemptsWith(r, 1, {"started", "uncertain"}) = {}
                      /\ \A a, b \in AttemptsWith(r, 2, {"started", "uncertain"}) : a = b
    BY DEF CompensationNeverOverlaps
  <2>1. TypeOK /\ RunCoheres(r) /\ ReversedIn(r)
    BY DEF TypeInv, JournalInv, InverseInReverseOrder, ReversedIn
  <2>2. run[r].status = "compensating" =>
            AttemptsWith(r, 1, {"started", "uncertain"}) = {}
    BY <2>1 DEF RunCoheres, CompensationSettled
  <2>3. QED
    BY <2>1, <2>2, OneInverseOpen
<1>2. QED
  BY <1>1, TypeInvariant, JournalInvariant, InversesAreReversed, PTL

----------------------------------------------------------------------------
(* Advancement. *)

\* The run that realized a plan stays as it is.
LEMMA AdvancedStep ==
    TypeInv /\ RunsInv /\ JournalInv /\ AdvancedMeansRealized /\ [Next]_vars
        => AdvancedMeansRealized'
<1> DEFINE Realized(r) ==
      /\ run[r].status = "succeeded"
      /\ \A a \in Activities \ Legacy :
           /\ attempt[Forward(r, a)].status = "succeeded"
           /\ attempt[Inverse(r, a)].status = "none"
<1> SUFFICES ASSUME TypeInv, RunsInv, JournalInv, AdvancedMeansRealized, [Next]_vars,
                    workspace' = "advanced"
             PROVE  \E r \in Runs : Realized(r)'
  BY DEF AdvancedMeansRealized
<1>0. TypeOK
  BY DEF TypeInv
<1>1. PICK r \in Runs : Realized(r)
  <2>1. CASE workspace = "advanced"
    BY <2>1 DEF AdvancedMeansRealized
  <2>2. CASE workspace # "advanced"
    <3>1. PICK f \in Fences, r \in Runs : AdvanceCurrentGraph(f, r)
      BY <2>2 DEF Next, LifecycleStep, ClaimRun, StartRun, PauseRun, ResumeRun, CompleteRun,
         FailRun, CancelRun, Transition, EffectStep, StartEffectAttempt, ExecuteEffect,
         FoldExecution, LoseCaller, ObserveAttempt, FoldObservation, LoseObserver,
         ResolveUncertainty, RecoveryStep, RenewActiveClaim, RecoverExpiredClaim,
         AbandonExpiredClaim, RetryRun, CompensationStep, BeginCompensation,
         StartCompensationAttempt, ExpireLease, EndSession, ReviseDesiredGraph, vars
    <3>2. run[r].status = "succeeded" /\ \A a \in Activities : journal[r].step[a] = "succeeded"
      BY <3>1 DEF AdvanceCurrentGraph, CompleteSuccess, StepsIn
    <3>3. Realized(r)
      BY <3>2 DEF JournalInv, RunCoheres, StepAgrees
    <3>4. QED
      BY <3>3
  <2>3. QED
    BY <2>1, <2>2
<1>2. run'[r].status = "succeeded"
  BY <1>1, StepJournalView
<1>3. RunCoheres(r)' /\ RunCoheres(r)
  BY JournalInvStep DEF JournalInv
<1>4. \A a \in Activities : attempt'[Inverse(r, a)].status = "none"
  BY <1>2, <1>3 DEF RunCoheres, CompensationSettled
<1>5. ASSUME NEW a \in Activities \ Legacy
      PROVE  attempt'[Forward(r, a)].status = "succeeded"
  <2>1. attempt[Forward(r, a)].status = "succeeded" /\ Forward(r, a) \in Effects
    BY <1>1, EffectIdentity
  <2>2. ASSUME NEW f \in Fences, NEW q \in Runs, NEW b \in Activities,
               \/ StartEffectAttempt(f, q, b)
               \/ StartCompensationAttempt(f, q, b)
        PROVE  attempt'[Forward(r, a)] = attempt[Forward(r, a)]
    BY <1>0, <2>1, <2>2, IdentityInjective
    DEF StartEffectAttempt, StartCompensationAttempt, TypeOK
  <2>3. ASSUME NEW e \in Effects, NEW s \in AttemptStatus, NEW resolved \in BOOLEAN,
               Folds(e, s, resolved)
        PROVE  attempt'[Forward(r, a)] = attempt[Forward(r, a)]
    <3>1. e # Forward(r, a)
      BY <2>1, <2>3 DEF Folds
    <3>2. QED
      BY <1>0, <2>1, <2>3, <3>1, FoldWrites
  <2>4. QED
    BY <2>1, <2>2, <2>3, StepJournalView DEF JournalView, BeginCompensation, QuietStep
<1>6. QED
  BY <1>2, <1>4, <1>5

\* AdvancedMeansRealized: the current graph only ever advances on a run that
\* carried every activity of the plan to success, and that run is never undone.
THEOREM AdvancedIsRealized == Spec => []AdvancedMeansRealized
<1>1. Init => AdvancedMeansRealized
  BY DEF Init, AdvancedMeansRealized
<1>2. QED
  BY <1>1, AdvancedStep, TypeInvariant, RunsInvariant, JournalInvariant, PTL DEF Spec

----------------------------------------------------------------------------
(* The refinement of the published lifecycle contract. *)

\* The contract's view of a state.
StatusSeen == [r \in Runs |-> run[r].status]
ClaimSeen == [fence |-> request.claim, expired |-> request.expired]
Seen == <<StatusSeen, ClaimSeen, workspace, EffectsSeen>>

\* A claimed request has a claim.
ClaimHeld == request.status = "claimed" => request.claim \in Fences

\* Only claiming, recovery and abandonment write the claim.
LEMMA ClaimHeldStep == TypeInv /\ ClaimHeld /\ [Next]_vars => ClaimHeld'
<1> SUFFICES ASSUME TypeOK, ClaimHeld, [Next]_vars
             PROVE  ClaimHeld'
  BY DEF TypeInv
<1> USE DEF ClaimHeld
<1>1. CASE LifecycleStep
  BY <1>1, RunAssumption DEF LifecycleStep, ClaimRun, StartRun, PauseRun, ResumeRun,
     CompleteRun, FailRun, CancelRun, Transition, Fences
<1>2. CASE RecoveryStep
  <2>1. ASSUME NEW f \in Fences, NEW w \in Workers, Rotate(f, w)
        PROVE  ClaimHeld'
    <3>1. [worker |-> w, generation |-> f.generation + 1] \in Fences
      BY <2>1, RunAssumption DEF Rotate, Fences
    <3>2. request'.claim = [worker |-> w, generation |-> f.generation + 1]
      BY <2>1 DEF Rotate, TypeOK, Requests
    <3>3. QED
      BY <3>1, <3>2
  <2>2. \A f \in Fences : f.worker \in Workers
    BY DEF Fences
  <2>3. QED
    BY <1>2, <2>1, <2>2 DEF RecoveryStep, RenewActiveClaim, RecoverExpiredClaim,
       AbandonExpiredClaim, RetryRun
<1>3. CASE ExpireLease
  BY <1>3 DEF ExpireLease, TypeOK, Requests
<1>4. CASE UNCHANGED request
  BY <1>4
<1>5. QED
  BY <1>1, <1>2, <1>3, <1>4 DEF Next, EffectStep, StartEffectAttempt, ExecuteEffect,
     FoldExecution, LoseCaller, ObserveAttempt, FoldObservation, LoseObserver,
     ResolveUncertainty, CompensationStep, BeginCompensation, StartCompensationAttempt,
     AdvanceCurrentGraph, EndSession, ReviseDesiredGraph, vars

\* The claim is held in every behaviour.
LEMMA ClaimHeldInvariant == Spec => []ClaimHeld
<1>1. Init => ClaimHeld
  BY DEF Init, ClaimHeld
<1>2. QED
  BY <1>1, ClaimHeldStep, TypeInvariant, PTL DEF Spec

\* What the contract's tables say of the operations that the services perform.
LEMMA OperationTable ==
    /\ Contract!Operations["claim_run"].result = "claimed"
    /\ Contract!Operations["start_run"].accepts = {"claimed"}
    /\ Contract!Operations["start_run"].result = "running"
    /\ Contract!Operations["pause_run"].accepts = {"running"}
    /\ Contract!Operations["pause_run"].result = "paused"
    /\ Contract!Operations["resume_run"].accepts = {"paused"}
    /\ Contract!Operations["resume_run"].result = "running"
    /\ Contract!Operations["complete_run"].accepts = {"running"}
    /\ Contract!Operations["complete_run"].result = "succeeded"
    /\ Contract!Operations["fail_run"].accepts = {"running", "paused"}
    /\ Contract!Operations["fail_run"].result = "failed"
    /\ Contract!Operations["cancel_run"].accepts = {"claimed", "running", "paused"}
    /\ Contract!Operations["cancel_run"].result = "cancelled"
    /\ Contract!Operations["begin_compensation"].accepts = {"failed"}
    /\ Contract!Operations["begin_compensation"].result = "compensating"
    /\ Contract!Operations["begin_compensation"].needs = {"approval", "graph"}
    /\ Contract!Operations["advance_current_graph"].accepts = {"succeeded"}
    /\ Contract!Operations["advance_current_graph"].result = "succeeded"
    /\ \A op \in Contract!Transitions : "graph" \notin Contract!Operations[op].needs
BY DEF Contract!Operations, Contract!Operation, Contract!Transitions

\* And of the recovery decisions.
LEMMA DecisionTable ==
    /\ \A k \in {"retry_as_new_run", "begin_compensation"} :
         /\ Contract!Decisions[k].from = {"failed"}
         /\ Contract!Decisions[k].uncertainty = "none"
    /\ Contract!Decisions["retry_as_new_run"].undoable = FALSE
    /\ Contract!Decisions["retry_as_new_run"].lease = "unexpired"
    /\ Contract!Decisions["begin_compensation"].undoable = TRUE
    /\ Contract!Decisions["begin_compensation"].lease = "any"
    /\ Contract!Decisions["renew_active_claim"].from = {"claimed"}
    /\ Contract!Decisions["renew_active_claim"].lease = "unexpired"
    /\ \A k \in {"renew_active_claim", "renew_expired_claim", "take_over_expired_claim",
               "abandon_expired_claim"} :
         /\ Contract!Decisions[k].uncertainty = "any"
         /\ Contract!Decisions[k].undoable = FALSE
    /\ \A k \in {"renew_expired_claim", "take_over_expired_claim", "abandon_expired_claim"} :
         /\ Contract!Decisions[k].from = {"failed"}
         /\ Contract!Decisions[k].lease = "expired"
BY DEF Contract!Decisions, Contract!Decision

\* What makes each of the decisions admissible, in the contract's view.
LEMMA DecidableSeen ==
    ASSUME NEW r \in Runs, request.expired \in BOOLEAN
    PROVE  /\ run[r].status = "claimed" /\ ~ClaimSeen.expired
                => Contract!Decidable("renew_active_claim", r)
           /\ run[r].status = "failed" /\ ClaimSeen.expired
                => /\ Contract!Decidable("take_over_expired_claim", r)
                   /\ Contract!Decidable("abandon_expired_claim", r)
           /\ run[r].status = "failed" /\ ~ClaimSeen.expired /\ ~EffectsSeen[r].uncertain
                => Contract!Decidable("retry_as_new_run", r)
           /\ run[r].status = "failed" /\ ~EffectsSeen[r].uncertain /\ EffectsSeen[r].undoable
                => Contract!Decidable("begin_compensation", r)
<1>0. ClaimSeen.expired \in BOOLEAN /\ ClaimSeen = [fence |-> request.claim, expired |-> request.expired]
  BY DEF ClaimSeen
<1>1. StatusSeen[r] = run[r].status
  BY DEF StatusSeen
<1>2. run[r].status = "claimed" /\ ~ClaimSeen.expired
        => Contract!Decidable("renew_active_claim", r)
  BY <1>1, <1>0, DecisionTable DEF Contract!Decidable, StatusSeen
<1>3. run[r].status = "failed" /\ ClaimSeen.expired
        => /\ Contract!Decidable("take_over_expired_claim", r)
           /\ Contract!Decidable("abandon_expired_claim", r)
  BY <1>1, <1>0, DecisionTable DEF Contract!Decidable, StatusSeen
<1>4. run[r].status = "failed" /\ ~ClaimSeen.expired /\ ~EffectsSeen[r].uncertain
        => Contract!Decidable("retry_as_new_run", r)
  BY <1>1, <1>0, DecisionTable DEF Contract!Decidable, StatusSeen
<1>5. run[r].status = "failed" /\ ~EffectsSeen[r].uncertain /\ EffectsSeen[r].undoable
        => Contract!Decidable("begin_compensation", r)
  BY <1>1, <1>0, DecisionTable DEF Contract!Decidable, StatusSeen
<1>6. QED
  BY <1>2, <1>3, <1>4, <1>5

\* A step that leaves the run statuses, the claim and the graph alone is one of
\* the surroundings of the contract, whatever it does to effects.
LEMMA EffectsOnly ==
    ASSUME UNCHANGED <<StatusSeen, ClaimSeen, workspace>>
    PROVE  Contract!Next
<1>1. EffectsSeen' \in [Runs -> [uncertain : BOOLEAN, undoable : BOOLEAN]]
  BY DEF EffectsSeen
<1>2. Contract!Runs = Runs
  BY DEF Contract!Runs, Runs
<1>3. Contract!Surroundings
  BY <1>1, <1>2 DEF Contract!Surroundings, StatusSeen, ClaimSeen
<1>4. QED
  BY <1>3 DEF Contract!Next

\* A transition of lifecycle.py is the operation of that name.
LEMMA OperateSeen ==
    ASSUME TypeOK, NEW f \in Fences, NEW r \in Runs, NEW op \in Contract!Transitions,
           NEW expected \in SUBSET Contract!Operations[op].accepts,
           Transition(f, r, expected, Contract!Operations[op].result),
           Contract!Operations[op].result \in RunStatus
    PROVE  Contract!Next
<1> DEFINE s == Contract!Operations[op].result
<1>1. Contract!Runs = Runs
  BY DEF Contract!Runs, Runs
<1>2. request.claim # NoFence
  BY RunAssumption DEF Transition, Owns
<1>3. run[r] \in RunRecords
  BY DEF TypeOK
<1>4. Transitioned(run[r], s).status = s
  BY <1>3 DEF Transitioned, RunRecords
<1>5. run' = [run EXCEPT ![r] = Transitioned(run[r], s)]
  BY DEF Transition
<1>6. StatusSeen' = [StatusSeen EXCEPT ![r] = s]
  BY <1>4, <1>5 DEF StatusSeen, TypeOK
<1>7. Contract!Admissible(op, r)
  BY <1>2, OperationTable DEF Contract!Admissible, Transition
<1>8. Contract!Become(r, op)
  BY <1>6 DEF Contract!Become, StatusSeen
<1>9. UNCHANGED <<ClaimSeen, workspace, EffectsSeen>>
  BY DEF Transition, ClaimSeen, EffectsSeen, AttemptsWith, ProgramSteps, DirectSuccesses
<1>10. Contract!Operate(op, r)
  BY <1>7, <1>8, <1>9 DEF Contract!Operate, ClaimSeen
<1>11. QED
  BY <1>1, <1>10 DEF Contract!Next

\* The lifecycle commands are operations of the contract.
LEMMA LifecycleContracted ==
    ASSUME TypeOK, RunsInv, LifecycleStep
    PROVE  Contract!Next
<1>1. ASSUME NEW w \in Workers, ClaimRun(w)
      PROVE  Contract!Next
  <2>1. 1 \in Runs /\ \A r \in Runs : run[r].status = "none"
    BY <1>1, RunAssumption DEF ClaimRun, RunsInv, TypeOK, Runs
  <2>2. StatusSeen' = [StatusSeen EXCEPT ![1] = "claimed"]
    BY <1>1, <2>1 DEF ClaimRun, StatusSeen, TypeOK, OpenedRun, NoRun
  <2>3. ClaimSeen' = [fence |-> [worker |-> w, generation |-> 1], expired |-> FALSE]
    BY <1>1 DEF ClaimRun, ClaimSeen
  <2>4. UNCHANGED <<workspace, EffectsSeen>>
    BY <1>1 DEF ClaimRun, EffectsSeen, AttemptsWith, ProgramSteps, DirectSuccesses
  <2>5. Contract!ClaimAndOpen
    BY <2>1, <2>2, <2>3, <2>4, OperationTable
    DEF Contract!ClaimAndOpen, Contract!Become, Contract!Runs, Runs, StatusSeen, ClaimSeen
  <2>6. QED
    BY <2>5 DEF Contract!Next
<1>2. ASSUME NEW f \in Fences, NEW r \in Runs,
             StartRun(f, r) \/ PauseRun(f, r) \/ ResumeRun(f, r)
      PROVE  Contract!Next
  BY <1>2, OperateSeen, OperationTable
  DEF StartRun, PauseRun, ResumeRun, RunStatus, Contract!Transitions
<1>3. ASSUME NEW f \in Fences, NEW r \in Runs,
             CompleteRun(f, r) \/ FailRun(f, r) \/ CancelRun(f, r)
      PROVE  Contract!Next
  BY <1>3, OperateSeen, OperationTable
  DEF CompleteRun, FailRun, CancelRun, RunStatus, Contract!Transitions
<1>4. QED
  BY <1>1, <1>2, <1>3 DEF LifecycleStep

\* The recovery commands find what the contract's decisions require, above all
\* that nothing uncertain is left when a run is retried.
LEMMA RecoveryContracted ==
    ASSUME TypeInv, RunsInv, JournalInv, RecoveryStep
    PROVE  Contract!Next
<1>0. /\ TypeOK /\ request.expired \in BOOLEAN
      /\ Contract!Runs = Runs /\ \A f \in Fences : f.worker \in Workers
  BY DEF TypeInv, TypeOK, Requests, Contract!Runs, Runs, Fences
<1>q. PICK q : q = latest
  OBVIOUS
<1>1. ASSUME NEW f \in Fences, Owns(f)
      PROVE  /\ latest \in Runs /\ request.claim = f /\ f # NoFence
             /\ Contract!Newest(q)
             /\ StatusSeen[latest] = run[latest].status
  <2>1. latest \in Runs /\ request.claim = f /\ f # NoFence
    BY <1>0, <1>q, <1>1, RunAssumption DEF Owns, TypeInv, HasRun, TypeOK, Runs
  <2>2. Contract!Newest(q)
    BY <1>0, <1>q, <2>1 DEF Contract!Newest, RunsInv, Runs
  <2>3. QED
    BY <2>1, <2>2 DEF StatusSeen
<1>2. ASSUME NEW f \in Fences, NEW w \in Workers, Owns(f), Rotate(f, w),
             UNCHANGED <<workspace, attempt>>
      PROVE  /\ ClaimSeen' = [fence |-> [worker |-> w, generation |-> f.generation + 1],
                              expired |-> FALSE]
             /\ UNCHANGED <<StatusSeen, workspace, EffectsSeen>>
  <2>1. ClaimSeen' = [fence |-> [worker |-> w, generation |-> f.generation + 1],
                      expired |-> FALSE]
    BY <1>0, <1>q, <1>2 DEF Rotate, ClaimSeen, TypeOK, Requests
  <2>2. UNCHANGED StatusSeen
    BY <1>0, <1>q, <1>1, <1>2 DEF Rotate, StatusSeen, TypeOK, RunRecords
  <2>3. UNCHANGED EffectsSeen
    BY <1>2 DEF EffectsSeen, AttemptsWith, ProgramSteps, DirectSuccesses
  <2>4. QED
    BY <1>2, <2>1, <2>2, <2>3
<1>3. ASSUME NEW f \in Fences, RenewActiveClaim(f)
      PROVE  Contract!Reclaim(q)
  <2>1. Contract!Decidable("renew_active_claim", q)
    BY <1>0, <1>q, <1>1, <1>3, DecidableSeen DEF RenewActiveClaim, ClaimSeen
  <2>2. Contract!Succeed(f.worker) /\ UNCHANGED <<StatusSeen, workspace, EffectsSeen>>
    BY <1>0, <1>q, <1>1, <1>2, <1>3 DEF RenewActiveClaim, Contract!Succeed, ClaimSeen
  <2>3. QED
    BY <1>q, <1>1, <1>3, <2>1, <2>2 DEF RenewActiveClaim, Contract!Reclaim, StatusSeen
<1>4. ASSUME NEW f \in Fences, NEW w \in Workers, RecoverExpiredClaim(f, w)
      PROVE  Contract!Reclaim(q)
  <2>1. Contract!Decidable("take_over_expired_claim", q)
    BY <1>0, <1>q, <1>1, <1>4, DecidableSeen DEF RecoverExpiredClaim, ClaimSeen
  <2>2. Contract!Succeed(w) /\ UNCHANGED <<StatusSeen, workspace, EffectsSeen>>
    BY <1>0, <1>q, <1>1, <1>2, <1>4 DEF RecoverExpiredClaim, Contract!Succeed, ClaimSeen
  <2>3. QED
    BY <1>q, <1>1, <1>4, <2>1, <2>2 DEF RecoverExpiredClaim, Contract!Reclaim, StatusSeen
<1>5. ASSUME NEW f \in Fences, AbandonExpiredClaim(f)
      PROVE  Contract!Reclaim(q)
  <2>1. Contract!Decidable("abandon_expired_claim", q)
    BY <1>0, <1>q, <1>1, <1>5, DecidableSeen DEF AbandonExpiredClaim, ClaimSeen
  <2>2. ClaimSeen' = [fence |-> NoFence, expired |-> FALSE]
    BY <1>5 DEF AbandonExpiredClaim, ClaimSeen
  <2>3. UNCHANGED StatusSeen
    BY <1>0, <1>q, <1>1, <1>5 DEF AbandonExpiredClaim, StatusSeen, TypeOK, RunRecords
  <2>4. UNCHANGED EffectsSeen
    BY <1>5 DEF AbandonExpiredClaim, EffectsSeen, AttemptsWith, ProgramSteps, DirectSuccesses
  <2>5. QED
    BY <1>q, <1>1, <1>5, <2>1, <2>2, <2>3, <2>4
    DEF AbandonExpiredClaim, Contract!Reclaim, StatusSeen, ClaimSeen
<1>6. ASSUME NEW f \in Fences, RetryRun(f)
      PROVE  Contract!Retry(q)
  <2>1. /\ latest \in Runs /\ latest + 1 \in Runs /\ latest + 1 # latest
        /\ run[latest + 1].status = "none"
    BY <1>0, <1>q, <1>1, <1>6, RunAssumption DEF RetryRun, TypeOK, Runs, RunsInv
  <2>2. AttemptsWith(latest, 1, {"uncertain"}) = {}
    BY <2>1, <1>6, EligibleSettled DEF RetryRun, JournalInv, AttemptsWith, Forward
  <2>3. Contract!Decidable("retry_as_new_run", q)
    BY <1>0, <1>q, <1>6, <2>1, <2>2, DecidableSeen DEF RetryRun, ClaimSeen, EffectsSeen
  <2>4. StatusSeen' = [StatusSeen EXCEPT ![latest + 1] = "claimed"]
    <3>1. \A x \in Runs : run'[x] = IF x = latest + 1 THEN OpenedRun
                                    ELSE IF x = latest THEN Recorded(latest, "other")
                                    ELSE run[x]
      BY <1>0, <1>q, <1>6, <2>1 DEF RetryRun, TypeOK
    <3>2. Recorded(latest, "other").status = run[latest].status /\ OpenedRun.status = "claimed"
      BY <1>0, <1>q, <2>1 DEF Recorded, RunRecords, OpenedRun, NoRun, TypeOK
    <3>3. QED
      BY <2>1, <3>1, <3>2 DEF StatusSeen
  <2>5. UNCHANGED <<ClaimSeen, workspace, EffectsSeen>>
    BY <1>6 DEF RetryRun, ClaimSeen, EffectsSeen, AttemptsWith, ProgramSteps, DirectSuccesses
  <2>6. QED
    BY <1>0, <1>q, <2>1, <2>3, <2>4, <2>5, OperationTable
    DEF Contract!Retry, Contract!Become, StatusSeen, ClaimSeen
<1>7. QED
  <2>1. ASSUME NEW f \in Fences, Owns(f), Contract!Reclaim(q) \/ Contract!Retry(q)
        PROVE  Contract!Next
    <3>1. q \in Contract!Runs
      BY <1>0, <1>q, <1>1, <2>1
    <3>2. QED
      BY <2>1, <3>1 DEF Contract!Next
  <2>2. ASSUME NEW f \in Fences,
               \/ RenewActiveClaim(f)
               \/ \E w \in Workers : RecoverExpiredClaim(f, w)
               \/ AbandonExpiredClaim(f)
               \/ RetryRun(f)
        PROVE  Owns(f)
    BY <2>2 DEF RenewActiveClaim, RecoverExpiredClaim, AbandonExpiredClaim, RetryRun
  <2>3. QED
    BY <1>3, <1>4, <1>5, <1>6, <2>1, <2>2 DEF RecoveryStep

\* Compensation begins only where the contract begins it, with nothing uncertain
\* and something to undo; starting an inverse is an effect of its own.
LEMMA CompensationContracted ==
    ASSUME TypeOK, CompensationStep
    PROVE  Contract!Next
<1>1. ASSUME NEW r \in Runs, BeginCompensation(r)
      PROVE  Contract!Next
  <2>1. /\ run[r].status = "failed" /\ workspace = "pinned"
        /\ request.expired \in BOOLEAN /\ run[r] \in RunRecords
    BY <1>1 DEF BeginCompensation, FailureIsTerminalEvidence, TypeOK, Requests
  <2>2. ~EffectsSeen[r].uncertain /\ EffectsSeen[r].undoable
    BY <1>1 DEF BeginCompensation, EffectsSeen, NothingUnresolved, AttemptsWith
  <2>3. Contract!Decidable("begin_compensation", r)
    BY <2>1, <2>2, DecidableSeen
  <2>4. StatusSeen' = [StatusSeen EXCEPT ![r] = "compensating"]
    BY <1>1, <2>1 DEF BeginCompensation, StatusSeen, TypeOK, RunRecords
  <2>5. UNCHANGED <<ClaimSeen, workspace, EffectsSeen>>
    BY <1>1 DEF BeginCompensation, ClaimSeen, EffectsSeen, AttemptsWith, ProgramSteps,
       DirectSuccesses
  <2>6. StatusSeen[r] = "failed"
    BY <2>1 DEF StatusSeen
  <2>7. Contract!Compensate(r)
    BY <2>1, <2>3, <2>4, <2>5, <2>6, OperationTable
    DEF Contract!Compensate, Contract!Admissible, Contract!Become, StatusSeen, ClaimSeen
  <2>8. QED
    BY <2>7 DEF Contract!Next, Contract!Runs, Runs
<1>2. ASSUME NEW f \in Fences, NEW r \in Runs, NEW a \in Activities,
             StartCompensationAttempt(f, r, a)
      PROVE  Contract!Next
  BY <1>2, RecordedStatus, EffectsOnly DEF StartCompensationAttempt, StatusSeen, ClaimSeen
<1>3. QED
  BY <1>1, <1>2 DEF CompensationStep

\* Whatever is executed, observed, folded or resolved, no status, claim or graph
\* changes.
LEMMA EffectsContracted ==
    ASSUME TypeOK, EffectStep
    PROVE  Contract!Next
<1>1. CASE \E f \in Fences, r \in Runs, a \in Activities : StartEffectAttempt(f, r, a)
  BY <1>1, RecordedStatus, EffectsOnly DEF StartEffectAttempt, StatusSeen, ClaimSeen
<1>2. CASE \/ \E e \in Effects : FoldExecution(e)
           \/ \E o \in observers : FoldObservation(o)
           \/ \E f \in Fences, e \in Effects, s \in Resolutions : ResolveUncertainty(f, e, s)
  <2>1. PICK e \in Effects, s \in AttemptStatus, resolved \in BOOLEAN : Folds(e, s, resolved)
    BY <1>2, FoldsView
  <2>2. \A q \in Runs : run'[q].status = run[q].status
    BY <2>1, RecordedStatus, IdentityCases DEF Folds, Fold
  <2>3. UNCHANGED <<request, workspace>>
    BY <1>2 DEF FoldExecution, FoldObservation, ResolveUncertainty
  <2>4. QED
    BY <2>2, <2>3, EffectsOnly DEF StatusSeen, ClaimSeen
<1>3. CASE UNCHANGED <<run, request, workspace>>
  BY <1>3, EffectsOnly DEF StatusSeen, ClaimSeen
<1>4. QED
  BY <1>1, <1>2, <1>3
  DEF EffectStep, ExecuteEffect, LoseCaller, ObserveAttempt, LoseObserver

\* The current graph advances where the contract lets it.
LEMMA AdvanceContracted ==
    ASSUME TypeOK, NEW f \in Fences, NEW r \in Runs, AdvanceCurrentGraph(f, r)
    PROVE  Contract!Next
<1>1. /\ run[r].status = "succeeded" /\ workspace = "pinned"
      /\ request.claim # NoFence
  BY RunAssumption DEF AdvanceCurrentGraph, CompleteSuccess, Owns
<1>2. StatusSeen' = StatusSeen /\ StatusSeen[r] = "succeeded"
  BY <1>1, RecordedStatus DEF AdvanceCurrentGraph, StatusSeen
<1>3. StatusSeen' = [StatusSeen EXCEPT ![r] = "succeeded"]
  BY <1>2 DEF StatusSeen
<1>4. workspace' = "advanced" /\ UNCHANGED <<ClaimSeen, EffectsSeen>>
  BY DEF AdvanceCurrentGraph, ClaimSeen, EffectsSeen, AttemptsWith, ProgramSteps,
     DirectSuccesses
<1>5. Contract!Advance(r)
  BY <1>1, <1>2, <1>3, <1>4, OperationTable
  DEF Contract!Advance, Contract!Admissible, Contract!Become, StatusSeen, ClaimSeen
<1>6. QED
  BY <1>5 DEF Contract!Next, Contract!Runs, Runs

\* The claim whose lease has expired.
LEMMA ExpiredClaim ==
    ASSUME NEW fence, NEW expired
    PROVE  [[fence |-> fence, expired |-> expired] EXCEPT !.expired = TRUE]
             = [fence |-> fence, expired |-> TRUE]
<1> DEFINE fields == {"fence", "expired"}
           claim == [fence |-> fence, expired |-> expired]
           past == [claim EXCEPT !.expired = TRUE]
           result == [fence |-> fence, expired |-> TRUE]
<1>1. past.fence = result.fence /\ past.expired = result.expired
  OBVIOUS
<1>2. /\ past = [k \in fields |-> past[k]]
      /\ result = [k \in fields |-> result[k]]
  OBVIOUS
<1>3. QED
  BY <1>1, <1>2

\* Every step of the services is a step of the contract.
LEMMA ContractStep ==
    TypeInv /\ RunsInv /\ JournalInv /\ ClaimHeld /\ [Next]_vars => [Contract!Next]_Seen
<1> SUFFICES ASSUME TypeInv, RunsInv, JournalInv, ClaimHeld, [Next]_vars
             PROVE  [Contract!Next]_Seen
  OBVIOUS
<1>0. TypeOK
  BY DEF TypeInv
<1>1. CASE LifecycleStep \/ RecoveryStep \/ CompensationStep \/ EffectStep
  BY <1>0, <1>1, LifecycleContracted, RecoveryContracted, CompensationContracted,
     EffectsContracted
<1>2. CASE \E f \in Fences, r \in Runs : AdvanceCurrentGraph(f, r)
  BY <1>0, <1>2, AdvanceContracted
<1>3. CASE ExpireLease
  <2>1. request.claim # NoFence
    BY <1>3, RunAssumption DEF ExpireLease, ClaimHeld
  <2>2. ClaimSeen' = [ClaimSeen EXCEPT !.expired = TRUE]
    <3>1. request \in Requests
      BY <1>0 DEF TypeOK
    <3>2. request'.claim = request.claim /\ request'.expired = TRUE
      BY <1>3, <3>1 DEF ExpireLease, Requests
    <3>3. ClaimSeen' = [fence |-> request.claim, expired |-> TRUE]
      BY <3>2 DEF ClaimSeen
    <3>4. [ClaimSeen EXCEPT !.expired = TRUE] = [fence |-> request.claim, expired |-> TRUE]
      BY ExpiredClaim DEF ClaimSeen
    <3>5. QED
      BY <3>3, <3>4
  <2>3. UNCHANGED <<StatusSeen, workspace, EffectsSeen>>
    BY <1>3 DEF ExpireLease, StatusSeen, EffectsSeen, AttemptsWith, ProgramSteps,
       DirectSuccesses
  <2>4. QED
    BY <2>1, <2>2, <2>3
    DEF Contract!Next, Contract!Surroundings, StatusSeen, ClaimSeen
<1>4. CASE ReviseDesiredGraph
  <2>1. UNCHANGED <<StatusSeen, ClaimSeen, EffectsSeen>>
    BY <1>4 DEF ReviseDesiredGraph, StatusSeen, ClaimSeen, EffectsSeen, AttemptsWith,
       ProgramSteps, DirectSuccesses
  <2>2. QED
    BY <1>4, <2>1
    DEF ReviseDesiredGraph, Contract!Next, Contract!Surroundings, StatusSeen, ClaimSeen
<1>5. CASE EndSession \/ UNCHANGED vars
  BY <1>5 DEF EndSession, vars, Seen, StatusSeen, ClaimSeen, EffectsSeen, AttemptsWith,
     ProgramSteps, DirectSuccesses
<1>6. QED
  BY <1>1, <1>2, <1>3, <1>4, <1>5 DEF Next

\* ImplementsContract: the services change a run's status, the claim and the
\* current graph exactly as the published lifecycle contract lets them, each
\* change finding what the contract requires.
THEOREM RunImplementsContract == Spec => ImplementsContract
<1>1. Init => Contract!Init
  <2> SUFFICES ASSUME Init PROVE Contract!Init
    OBVIOUS
  <2>1. ASSUME NEW r \in Runs, NEW a \in Activities
        PROVE  attempt[Forward(r, a)].status = "none"
    BY EffectIdentity DEF Init, NoAttempt
  <2>2. EffectsSeen = [r \in Runs |-> [uncertain |-> FALSE, undoable |-> FALSE]]
    <3>1. \A r \in Runs : AttemptsWith(r, 1, {"uncertain"}) = {} /\ ProgramSteps(r) = {}
      BY <2>1 DEF AttemptsWith, ProgramSteps, DirectSuccesses, Forward
    <3>2. QED
      BY <3>1 DEF EffectsSeen
  <2>3. StatusSeen = [r \in Runs |-> "none"]
    BY DEF Init, StatusSeen, NoRun
  <2>4. ClaimSeen = [fence |-> NoFence, expired |-> FALSE] /\ workspace = "pinned"
    BY DEF Init, ClaimSeen
  <2>5. QED
    BY <2>2, <2>3, <2>4 DEF Contract!Init, Contract!Runs, Runs, StatusSeen, ClaimSeen
<1>2. QED
  BY <1>1, ContractStep, TypeInvariant, RunsInvariant, JournalInvariant,
     ClaimHeldInvariant, PTL
  DEF Spec, ImplementsContract, Contract!Spec, Seen, StatusSeen, ClaimSeen

============================================================================
