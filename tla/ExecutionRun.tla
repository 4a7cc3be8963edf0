---------------------------- MODULE ExecutionRun ----------------------------
(***************************************************************************)
(* One admitted execution request: its fenced claim lease, the runs opened *)
(* under it, their journals and the effect attempts of their activities.   *)
(*                                                                         *)
(* Every command service of control_plane_kit_operations does its work in  *)
(* one PostgreSQL unit of work that locks the request row first, so each   *)
(* committed transaction is one action here, and a refused command is a    *)
(* stuttering step.  What happens between two transactions is explicit: a  *)
(* process that has started an attempt holds it (caller) while it performs *)
(* the external effect, and a reconciler carries its observation           *)
(* (observers) into the transaction that folds it.                         *)
(*                                                                         *)
(* A command is submitted with any fence: nothing stops a worker that was  *)
(* superseded from sending one, only the guards do.                        *)
(***************************************************************************)
EXTENDS SagaJournal, FiniteSets

CONSTANTS
    Workers,          \* worker identities
    NonCompensatable, \* activities whose success cannot be undone
    Legacy,           \* activities that run without an effect attempt
    NoFence,          \* the NULL claim
    MaxGeneration,    \* the largest claim generation (2^63 - 1 in the schema)
    MaxRuns,          \* bound on the runs opened for the request
    ResultKinds,      \* the execution results considered, of Outcomes
    Resolutions,      \* the recovery decisions considered
    MaxObservers      \* bound on concurrent reconciliations

Fences == [worker : Workers, generation : 1..MaxGeneration]

ASSUME RunAssumption ==
    /\ MaxGeneration \in Nat \ {0}
    /\ MaxRuns \in Nat \ {0}
    /\ MaxObservers \in Nat
    /\ ResultKinds \subseteq {"succeeded", "failed", "unsupported", "uncertain"}
    /\ Resolutions \subseteq {"succeeded", "failed", "abandoned"}
    /\ NoFence \notin Fences
    /\ Legacy \subseteq Activities
    /\ NonCompensatable \subseteq Activities \ Compensable

Runs == 1..MaxRuns

\* EffectAttemptIdentity: attempt 1 is the forward effect, attempt 2 (whose
\* prior attempt is 1) the inverse effect of a compensation program.
Effects == [run : Runs, activity : Activities, attempt : {1, 2}]

Forward(r, a) == [run |-> r, activity |-> a, attempt |-> 1]
Inverse(r, a) == [run |-> r, activity |-> a, attempt |-> 2]

VARIABLES
    session,    \* the operation session: "open" or "terminal"
    workspace,  \* the workspace's graphs against the plan's: see Workspaces
    request,    \* cpk_execution_requests: status, claim fence, lease expiry
    latest,     \* number of runs; run r is the request's r-th attempt
    run,        \* cpk_activity_runs, with what guards read of lifecycle events
    journal,    \* the step events of each run, folded (SagaJournal)
    attempt,    \* cpk_effect_attempts
    caller,     \* the process between starting an attempt and folding it
    observers,  \* reconcilers between observing an attempt and folding it
    effect      \* the provider: how often an effect was executed, its result

vars == <<session, workspace, request, latest, run, journal, attempt,
          caller, observers, effect>>

----------------------------------------------------------------------------
(* Types. *)

\* "pinned": current graph, desired graph and desired revision are the plan's;
\* "advanced": the current graph is the plan's desired graph; "moved": the
\* desired graph was revised, or another plan advanced the current graph, after
\* the plan was made.
Workspaces == {"pinned", "advanced", "moved"}

Requests == [status : {"queued", "claimed", "abandoned"},
             claim : Fences \cup {NoFence},
             expired : BOOLEAN]

\* ActivityRunStatus; "none" is a run that does not exist yet.
RunStatus == {"none", "claimed", "running", "paused", "succeeded", "failed",
              "cancelled", "compensating"}

\* paused: a RUN_PAUSED event exists.  last: the last event of the run, as far
\* as a guard tells it apart.  fenced: the replacement fence of the last
\* recovery pair in the run's journal.
RunRecords == [status : RunStatus,
               paused : BOOLEAN,
               last : {"run_failed", "run_succeeded", "other"},
               fenced : Fences \cup {NoFence}]

\* EffectAttemptStatus; "none" is an attempt without a row.
AttemptStatus == {"none", "started", "succeeded", "failed", "unsupported",
                  "uncertain", "abandoned"}

\* fence: the fence that started it.  resolved: a recovery decision exists.
Attempts == [status : AttemptStatus, fence : Fences \cup {NoFence},
             resolved : BOOLEAN]

\* EffectResultKind, the outcome of an execution.
Outcomes == {"succeeded", "failed", "unsupported", "uncertain"}

\* What an observation folds to: absent, conflicting, indeterminate and
\* unsupported observations all become uncertain.
Verdicts == {"succeeded", "failed", "uncertain"}

Observers == [effect : Effects, fence : Fences, verdict : Verdicts]

\* What happened at the provider.
Results == {"none", "succeeded", "failed"}

NoRun == [status |-> "none", paused |-> FALSE, last |-> "other",
          fenced |-> NoFence]

OpenedRun == [NoRun EXCEPT !.status = "claimed"]

NoAttempt == [status |-> "none", fence |-> NoFence, resolved |-> FALSE]

TypeOK ==
    /\ session \in {"open", "terminal"}
    /\ workspace \in Workspaces
    /\ request \in Requests
    /\ latest \in 0..MaxRuns
    /\ run \in [Runs -> RunRecords]
    /\ journal \in [Runs -> Journals]
    /\ attempt \in [Effects -> Attempts]
    /\ caller \in [Effects -> {"none", "holding"} \cup Outcomes]
    /\ observers \subseteq Observers
    /\ effect \in [Effects -> [calls : Nat, result : Results]]

Init ==
    /\ session = "open"
    /\ workspace = "pinned"
    /\ request = [status |-> "queued", claim |-> NoFence, expired |-> FALSE]
    /\ latest = 0
    /\ run = [r \in Runs |-> NoRun]
    /\ journal = [r \in Runs |-> EmptyJournal]
    /\ attempt = [e \in Effects |-> NoAttempt]
    /\ caller = [e \in Effects |-> "none"]
    /\ observers = {}
    /\ effect = [e \in Effects |-> [calls |-> 0, result |-> "none"]]

----------------------------------------------------------------------------
(* Ownership. *)

\* Defect: the generation of the claim is not compared.
OwnsByWorker(f) == request.status = "claimed" /\ request.claim.worker = f.worker

\* _require_worker_owns / _require_current_authority: the claim's fence, with
\* no look at the lease's expiry.
Owns(f) == request.status = "claimed" /\ request.claim = f

\* A recovered fence may speak for an attempt that an earlier one started.
Succeeds(f, g) ==
    \/ f.generation > g.generation
    \/ f.generation = g.generation /\ f.worker = g.worker

\* add_event on run r: the last event is replaced.
Recorded(r, kind) == [run[r] EXCEPT !.last = kind]

\* add_event for a step of run r.
Journalled(r, kind, a) == [journal EXCEPT ![r] = Apply(@, kind, a)]

----------------------------------------------------------------------------
(* The run lifecycle: lifecycle.py, RunLifecycleCommandService. *)

\* ClaimAndOpenActivityRun: the first claim and the first run, together.
ClaimRun(w) ==
    /\ session = "open"
    /\ request.status = "queued"
    /\ latest = 0
    /\ request' = [status |-> "claimed",
                   claim |-> [worker |-> w, generation |-> 1],
                   expired |-> FALSE]
    /\ latest' = 1
    /\ run' = [run EXCEPT ![1] = OpenedRun]
    /\ UNCHANGED <<session, workspace, journal, attempt, caller, observers, effect>>

EventOf(status) == CASE status = "failed" -> "run_failed"
                     [] status = "succeeded" -> "run_succeeded"
                     [] OTHER -> "other"

\* compare_and_set_run_status and add_event on a row of cpk_activity_runs.
Transitioned(row, status) == [row EXCEPT !.status = status,
                                         !.paused = @ \/ status = "paused",
                                         !.last = EventOf(status)]

\* Defect: the session is not required to be open.
TransitionInAnySession(f, r, expected, replacement) ==
    /\ Owns(f)
    /\ run[r].status \in expected
    /\ run' = [run EXCEPT ![r] = Transitioned(@, replacement)]
    /\ UNCHANGED <<session, workspace, request, latest, journal, attempt,
                   caller, observers, effect>>

\* _transition: a status compare-and-set and its event, under the fence.  The
\* lease may have expired: only the fence is compared.
Transition(f, r, expected, replacement) ==
    /\ session = "open"
    /\ Owns(f)
    /\ run[r].status \in expected
    /\ run' = [run EXCEPT ![r] = Transitioned(@, replacement)]
    /\ UNCHANGED <<session, workspace, request, latest, journal, attempt,
                   caller, observers, effect>>

StartRun(f, r)    == Transition(f, r, {"claimed"}, "running")
PauseRun(f, r)    == Transition(f, r, {"running"}, "paused")
ResumeRun(f, r)   == Transition(f, r, {"paused"}, "running")
CompleteRun(f, r) == Transition(f, r, {"running"}, "succeeded")
FailRun(f, r)     == Transition(f, r, {"running", "paused"}, "failed")
CancelRun(f, r)   == Transition(f, r, {"claimed", "paused"}, "cancelled")

----------------------------------------------------------------------------
(* Effect attempts: effect_attempt_start_interpreter.py and              *)
(* effect_attempt_fold_interpreter.py.                                    *)

\* Defect: a pending activity is started without consulting the schedule.
MayStartPending(r, a) ==
    /\ r = latest
    /\ journal[r].coherent
    /\ a \in StepsIn(journal[r], "pending") \ Legacy
    /\ run[r].status = "running"

\* _require_first_start for the forward direction.  (The compensating
\* direction of this service needs a succeeded activity without an attempt
\* row and an intent for its inverse, which only the legacy operations could
\* meet, and those have no runtime intent.)
MayStart(r, a) ==
    /\ r = latest
    /\ journal[r].coherent
    /\ a \in Ready(journal[r]) \ Legacy
    /\ run[r].status = "running"

\* Defect: a started attempt is handed out again instead of being replayed.
StartOrReissueAttempt(f, r, a) ==
    LET e == Forward(r, a)
    IN  /\ Owns(f)
        /\ ~request.expired
        /\ attempt[e].status = "started" \/ MayStart(r, a)
        /\ attempt' = [attempt EXCEPT ![e] =
                         [status |-> "started", fence |-> f, resolved |-> FALSE]]
        /\ caller' = [caller EXCEPT ![e] = "holding"]
        /\ journal' = IF attempt[e].status = "none"
                      THEN Journalled(r, "step_started", a) ELSE journal
        /\ run' = [run EXCEPT ![r] = Recorded(r, "other")]
        /\ UNCHANGED <<session, workspace, request, latest, observers, effect>>

\* EffectAttemptStartService.execute returning NewlyStarted: the attempt, its
\* intent and its STEP_STARTED event are inserted together, and the caller now
\* holds the effect.  An existing attempt is a replay and changes nothing.
StartEffectAttempt(f, r, a) ==
    LET e == Forward(r, a)
    IN  /\ Owns(f)
        /\ attempt[e].status = "none"
        /\ MayStart(r, a)
        /\ ~request.expired
        /\ attempt' = [attempt EXCEPT ![e] =
                         [status |-> "started", fence |-> f, resolved |-> FALSE]]
        /\ caller' = [caller EXCEPT ![e] = "holding"]
        /\ journal' = Journalled(r, "step_started", a)
        /\ run' = [run EXCEPT ![r] = Recorded(r, "other")]
        /\ UNCHANGED <<session, workspace, request, latest, observers, effect>>

\* The adapter performs the effect outside every transaction.  A provider that
\* raises leaves the caller with an uncertain result, whatever happened.
ExecuteEffect(e) ==
    /\ caller[e] = "holding"
    /\ \E outcome \in ResultKinds, result \in {"succeeded", "failed"} :
         /\ outcome = "succeeded" => result = "succeeded"
         /\ outcome \in {"failed", "unsupported"} => result = "failed"
         /\ caller' = [caller EXCEPT ![e] = outcome]
         /\ effect' = [effect EXCEPT ![e] =
                         [calls |-> @.calls + 1, result |-> result]]
    /\ UNCHANGED <<session, workspace, request, latest, run, journal, attempt,
                   observers>>

\* _EVENT_KIND_BY_STATE.
EventKind(e, status, resolved) ==
    LET forward == [succeeded |-> "step_succeeded",
                    failed |-> "step_failed",
                    unsupported |-> "step_unsupported",
                    uncertain |-> "step_uncertain"]
        forwardResolved == [succeeded |-> "step_uncertainty_resolved_succeeded",
                            failed |-> "step_uncertainty_resolved_failed",
                            abandoned |-> "step_uncertainty_abandoned"]
        inverse == [succeeded |-> "step_compensation_succeeded",
                    failed |-> "step_compensation_failed",
                    unsupported |-> "step_compensation_unsupported",
                    uncertain |-> "step_compensation_uncertain"]
        inverseResolved ==
            [succeeded |-> "step_compensation_uncertainty_resolved_succeeded",
             failed |-> "step_compensation_uncertainty_resolved_failed",
             abandoned |-> "step_compensation_uncertainty_abandoned"]
    IN  IF e.attempt = 1
        THEN IF resolved THEN forwardResolved[status] ELSE forward[status]
        ELSE IF resolved THEN inverseResolved[status] ELSE inverse[status]

\* The writes of a new fold: event, outcome and attempt row.
Fold(e, status, resolved) ==
    /\ attempt' = [attempt EXCEPT ![e] =
                     [@ EXCEPT !.status = status, !.resolved = resolved]]
    /\ journal' = Journalled(e.run, EventKind(e, status, resolved), e.activity)
    /\ run' = [run EXCEPT ![e.run] = Recorded(e.run, "other")]

\* Defect: a late direct result also settles an uncertain attempt.
TakesLateDirect(e) == attempt[e].status \in {"started", "uncertain"}

\* fold_effect_attempt for a direct result: only a started attempt takes one.
TakesDirect(e) == attempt[e].status = "started"

\* The caller folds what its execution returned, under the fence it started
\* with: the claim must still carry it, but neither the lease's expiry nor the
\* run's status is looked at.
FoldExecution(e) ==
    /\ caller[e] \in Outcomes
    /\ Owns(attempt[e].fence)
    /\ TakesDirect(e)
    /\ Fold(e, caller[e], FALSE)
    /\ caller' = [caller EXCEPT ![e] = "none"]
    /\ UNCHANGED <<session, workspace, request, latest, observers, effect>>

\* The caller's process ends, or its fold is refused: what it knew is lost.
LoseCaller(e) ==
    /\ caller[e] # "none"
    /\ caller' = [caller EXCEPT ![e] = "none"]
    /\ UNCHANGED <<session, workspace, request, latest, run, journal, attempt,
                   observers, effect>>

----------------------------------------------------------------------------
(* Reconciliation: effect_attempt_reconciliation_interpreter.py. *)

\* The checks of the first transaction, which the fold repeats.
MayReconcile(f, e) ==
    /\ Owns(f)
    /\ TakesDirect(e)
    /\ Succeeds(f, attempt[e].fence)
    /\ ~request.expired

\* Defect: an absent effect is folded as a failed one.
ObservableAbsentFails(e) ==
    {"uncertain", IF effect[e].result = "none" THEN "failed" ELSE effect[e].result}

\* An observer reports what it can see at the provider, or nothing certain.
Observable(e) == {"uncertain"} \cup ({effect[e].result} \ {"none"})

\* First transaction and observation.
ObserveAttempt(f, e) ==
    /\ MayReconcile(f, e)
    /\ Cardinality(observers) < MaxObservers
    /\ \E v \in Observable(e) :
         observers' = observers \cup {[effect |-> e, fence |-> f, verdict |-> v]}
    /\ UNCHANGED <<session, workspace, request, latest, run, journal, attempt,
                   caller, effect>>

\* EffectAttemptFoldService.execute_observed: everything is checked again.
FoldObservation(o) ==
    /\ o \in observers
    /\ MayReconcile(o.fence, o.effect)
    /\ Fold(o.effect, o.verdict, FALSE)
    /\ observers' = observers \ {o}
    /\ UNCHANGED <<session, workspace, request, latest, caller, effect>>

\* The reconciler's process ends, or its fold is refused.
LoseObserver(o) ==
    /\ o \in observers
    /\ observers' = observers \ {o}
    /\ UNCHANGED <<session, workspace, request, latest, run, journal, attempt,
                   caller, effect>>

\* Defect: a recovery decision also settles an attempt that is still open.
ResolveOpenAttempt(f, e, resolution) ==
    /\ Owns(f)
    /\ attempt[e].status \in {"started", "uncertain"}
    /\ Succeeds(f, attempt[e].fence)
    /\ Fold(e, resolution, TRUE)
    /\ UNCHANGED <<session, workspace, request, latest, caller, observers, effect>>

\* A RECONCILED or ABANDONED transition: an explicit recovery decision on an
\* uncertain attempt, which may be of an earlier fence and an earlier run.
ResolveUncertainty(f, e, resolution) ==
    /\ Owns(f)
    /\ attempt[e].status = "uncertain"
    /\ Succeeds(f, attempt[e].fence)
    /\ Fold(e, resolution, TRUE)
    /\ UNCHANGED <<session, workspace, request, latest, caller, observers, effect>>

----------------------------------------------------------------------------
(* Lease recovery and retry: execution_lease_recovery_interpreter.py,      *)
(* activity_run_retry_interpreter.py, _execution_lease_recovery_support.py. *)

\* _journal_without_recovery_pairs: the recovery pairs form one chain of fences
\* that ends in the fence the command expects.
ChainEndsIn(r, f) == run[r].fenced \in {f, NoFence}

\* Defect: open and uncertain effects do not stand in the way of recovery.
RecoveryEligibleWithOpenEffects(r, f) ==
    /\ ChainEndsIn(r, f)
    /\ journal[r].coherent
    /\ ~run[r].paused
    /\ SagaStatus(journal[r]) = "failed"
    /\ ~journal[r].requested

\* require_recovery_eligible_journal, except for renewing an active claim.  The
\* lifecycle events must be exactly opened, started, failed: no pause.
RecoveryEligible(r, f) ==
    /\ ChainEndsIn(r, f)
    /\ journal[r].coherent
    /\ ~run[r].paused
    /\ SagaStatus(journal[r]) = "failed"
    /\ ~journal[r].requested
    /\ InFlight(journal[r]) = {}
    /\ journal[r].uncertain = {}
    /\ journal[r].compUncertain = {}

\* Defect: the generation may grow past its column.
RotateUnbounded(f, w) ==
    LET next == [worker |-> w, generation |-> f.generation + 1]
    IN  /\ request' = [request EXCEPT !.claim = next, !.expired = FALSE]
        /\ run' = [run EXCEPT ![latest] =
                     [@ EXCEPT !.fenced = next, !.last = "other"]]

\* Defect: the recovery event records the prior fence as the replacement.
RotateRecordingPrior(f, w) ==
    LET next == [worker |-> w, generation |-> f.generation + 1]
    IN  /\ f.generation < MaxGeneration
        /\ request' = [request EXCEPT !.claim = next, !.expired = FALSE]
        /\ run' = [run EXCEPT ![latest] =
                     [@ EXCEPT !.fenced = f, !.last = "other"]]

\* rotate_request_claim with the two recovery events.
Rotate(f, w) ==
    LET next == [worker |-> w, generation |-> f.generation + 1]
    IN  /\ f.generation < MaxGeneration
        /\ request' = [request EXCEPT !.claim = next, !.expired = FALSE]
        /\ run' = [run EXCEPT ![latest] =
                     [@ EXCEPT !.fenced = next, !.last = "other"]]

\* RenewActiveExecutionClaim: before the run has started.
RenewActiveClaim(f) ==
    /\ session = "open"
    /\ Owns(f)
    /\ run[latest].status = "claimed"
    /\ ChainEndsIn(latest, f)
    /\ journal[latest] = EmptyJournal
    /\ ~request.expired
    /\ Rotate(f, f.worker)
    /\ UNCHANGED <<session, workspace, latest, journal, attempt, caller,
                   observers, effect>>

\* RenewExpiredExecutionClaim (w = f.worker) and TakeOverExpiredExecutionClaim.
RecoverExpiredClaim(f, w) ==
    /\ session = "open"
    /\ Owns(f)
    /\ run[latest].status = "failed"
    /\ RecoveryEligible(latest, f)
    /\ request.expired
    /\ Rotate(f, w)
    /\ UNCHANGED <<session, workspace, latest, journal, attempt, caller,
                   observers, effect>>

\* AbandonExpiredExecutionClaim: no claim is left.
AbandonExpiredClaim(f) ==
    /\ session = "open"
    /\ Owns(f)
    /\ f.generation < MaxGeneration
    /\ run[latest].status = "failed"
    /\ RecoveryEligible(latest, f)
    /\ request.expired
    /\ request' = [status |-> "abandoned", claim |-> NoFence, expired |-> FALSE]
    /\ run' = [run EXCEPT ![latest] =
                 [@ EXCEPT !.fenced = NoFence, !.last = "other"]]
    /\ UNCHANGED <<session, workspace, latest, journal, attempt, caller,
                   observers, effect>>

\* RetryActivityRun: a new run under the same claim; the failed run stays.
RetryRun(f) ==
    /\ session = "open"
    /\ Owns(f)
    /\ latest < MaxRuns
    /\ run[latest].status = "failed"
    /\ RecoveryEligible(latest, f)
    /\ ~request.expired
    /\ latest' = latest + 1
    /\ run' = [run EXCEPT ![latest] = Recorded(latest, "other"),
                          ![latest + 1] = OpenedRun]
    /\ UNCHANGED <<session, workspace, request, journal, attempt, caller,
                   observers, effect>>

----------------------------------------------------------------------------
(* Compensation: failed_run_compensation.py and                             *)
(* failed_run_compensation_attempt.py.                                      *)

AttemptsWith(r, n, S) ==
    {a \in Activities :
        attempt[[run |-> r, activity |-> a, attempt |-> n]].status \in S}

\* successful_effects_for_run: forward attempts that succeeded with a direct
\* outcome.  A success that a recovery decision established has none.
DirectSuccesses(r) ==
    {a \in AttemptsWith(r, 1, {"succeeded"}) : ~attempt[Forward(r, a)].resolved}

\* The steps of the run's compensation program.
ProgramSteps(r) == DirectSuccesses(r) \cap Compensable

\* Defect: only uncertain attempts count as unresolved.
NothingUncertain(r) == AttemptsWith(r, 1, {"uncertain"}) = {}

\* unresolved_attempt_count(run) = 0.
NothingUnresolved(r) == AttemptsWith(r, 1, {"started", "uncertain"}) = {}

\* Defect: the run's failure need not be its last event.
FailedAtSomePoint(r) == run[r].status = "failed"

\* The run is failed and RUN_FAILED is its last event: no recovery decision,
\* retry or late result came after it.
FailureIsTerminalEvidence(r) ==
    run[r].status = "failed" /\ run[r].last = "run_failed"

\* FailedRunCompensationService._admit.  No claim, fence or lease is looked at.
BeginCompensation(r) ==
    /\ session = "open"
    /\ workspace = "pinned"
    /\ FailureIsTerminalEvidence(r)
    /\ NothingUnresolved(r)
    /\ AttemptsWith(r, 1, {"succeeded"}) = DirectSuccesses(r)
    /\ DirectSuccesses(r) \cap NonCompensatable = {}
    /\ ProgramSteps(r) # {}
    /\ run' = [run EXCEPT ![r] = [@ EXCEPT !.status = "compensating",
                                           !.last = "other"]]
    /\ journal' = [journal EXCEPT ![r] = ApplyCompensationRequested(@)]
    /\ UNCHANGED <<session, workspace, request, latest, attempt, caller,
                   observers, effect>>

\* Defect: any unbound step may start once the bound ones have succeeded.
AnyProgramStep(r, a) ==
    /\ a \in ProgramSteps(r)
    /\ attempt[Inverse(r, a)].status = "none"
    /\ \A b \in ProgramSteps(r) : attempt[Inverse(r, b)].status \in {"none", "succeeded"}

\* The program orders its steps by descending completion; the next step is the
\* first without a binding, and every bound inverse must have succeeded with a
\* direct outcome.
NextProgramStep(r, a) ==
    /\ a \in ProgramSteps(r)
    /\ attempt[Inverse(r, a)].status = "none"
    /\ \A b \in ProgramSteps(r) \ {a} :
         LET i == attempt[Inverse(r, b)]
         IN  IF CompletedAfter(journal[r], b, a)
             THEN i.status = "succeeded" /\ ~i.resolved
             ELSE i.status = "none"

\* FailedRunCompensationAttemptService._start, newly bound.
StartCompensationAttempt(f, r, a) ==
    LET e == Inverse(r, a)
    IN  /\ session = "open"
        /\ workspace = "pinned"
        /\ Owns(f)
        /\ ~request.expired
        /\ run[r].status = "compensating"
        /\ NextProgramStep(r, a)
        /\ attempt' = [attempt EXCEPT ![e] =
                         [status |-> "started", fence |-> f, resolved |-> FALSE]]
        /\ caller' = [caller EXCEPT ![e] = "holding"]
        /\ journal' = Journalled(r, "step_compensation_started", a)
        /\ run' = [run EXCEPT ![r] = Recorded(r, "other")]
        /\ UNCHANGED <<session, workspace, request, latest, observers, effect>>

----------------------------------------------------------------------------
(* Advancement of the current graph: advancement.py. *)

\* Defect: the run's own status is taken for the evidence of its steps.
SettledAsSucceeded(r) ==
    run[r].status = "succeeded" /\ run[r].last = "run_succeeded"

\* _require_complete_success.
CompleteSuccess(r) ==
    /\ run[r].status = "succeeded"
    /\ run[r].last = "run_succeeded"
    /\ journal[r].coherent
    /\ InFlight(journal[r]) = {}
    /\ journal[r].uncertain = {}
    /\ StepsIn(journal[r], "succeeded") = Activities

AdvanceCurrentGraph(f, r) ==
    /\ session = "open"
    /\ Owns(f)
    /\ workspace = "pinned"
    /\ CompleteSuccess(r)
    /\ workspace' = "advanced"
    /\ run' = [run EXCEPT ![r] = Recorded(r, "other")]
    /\ UNCHANGED <<session, request, latest, journal, attempt, caller,
                   observers, effect>>

----------------------------------------------------------------------------
(* The surroundings. *)

\* The database clock passes lease_expires_at.
ExpireLease ==
    /\ request.status = "claimed"
    /\ ~request.expired
    /\ request' = [request EXCEPT !.expired = TRUE]
    /\ UNCHANGED <<session, workspace, latest, run, journal, attempt, caller,
                   observers, effect>>

\* CloseOperationSession or CancelOperationSession; runs are not looked at.
EndSession ==
    /\ session = "open"
    /\ session' = "terminal"
    /\ UNCHANGED <<workspace, request, latest, run, journal, attempt, caller,
                   observers, effect>>

\* Another command revises the desired graph, or another plan's run advances the
\* current graph.
ReviseDesiredGraph ==
    /\ workspace = "pinned"
    /\ workspace' = "moved"
    /\ UNCHANGED <<session, request, latest, run, journal, attempt, caller,
                   observers, effect>>

LifecycleStep ==
    \/ \E w \in Workers : ClaimRun(w)
    \/ \E f \in Fences, r \in Runs :
         \/ StartRun(f, r)
         \/ PauseRun(f, r)
         \/ ResumeRun(f, r)
         \/ CompleteRun(f, r)
         \/ FailRun(f, r)
         \/ CancelRun(f, r)

EffectStep ==
    \/ \E f \in Fences, r \in Runs, a \in Activities : StartEffectAttempt(f, r, a)
    \/ \E e \in Effects :
         \/ ExecuteEffect(e)
         \/ FoldExecution(e)
         \/ LoseCaller(e)
    \/ \E f \in Fences, e \in Effects : ObserveAttempt(f, e)
    \/ \E o \in observers : FoldObservation(o) \/ LoseObserver(o)
    \/ \E f \in Fences, e \in Effects, s \in Resolutions :
         ResolveUncertainty(f, e, s)

RecoveryStep ==
    \E f \in Fences :
         \/ RenewActiveClaim(f)
         \/ \E w \in Workers : RecoverExpiredClaim(f, w)
         \/ AbandonExpiredClaim(f)
         \/ RetryRun(f)

CompensationStep ==
    \/ \E r \in Runs : BeginCompensation(r)
    \/ \E f \in Fences, r \in Runs, a \in Activities :
         StartCompensationAttempt(f, r, a)

Next ==
    \/ LifecycleStep
    \/ EffectStep
    \/ RecoveryStep
    \/ CompensationStep
    \/ \E f \in Fences, r \in Runs : AdvanceCurrentGraph(f, r)
    \/ ExpireLease
    \/ EndSession
    \/ ReviseDesiredGraph

Spec == Init /\ [][Next]_vars

----------------------------------------------------------------------------
(* Properties. *)

\* A provider effect is executed at most once per attempt, whatever crashes,
\* replays, reconciliations and takeovers happen around it: only the process
\* that inserted the attempt row ever calls the adapter.
EffectAtMostOnce == \A e \in Effects : effect[e].calls <= 1

\* The attempt table and the provider together implement the ledger of
\* EffectLedger: an effect is entered before it is performed, performed at most
\* once and decided once.
Ledger == INSTANCE EffectLedger WITH
              verdict <- [e \in Effects |-> attempt[e].status],
              done <- effect

ImplementsLedger == Ledger!Spec

\* The verdict that an execution or an observation put on an attempt is what
\* happened at the provider; a fold that lost its race never overwrites it.
VerdictTruthful ==
    \A e \in Effects :
        ~attempt[e].resolved /\ attempt[e].status \in {"succeeded", "failed"}
            => effect[e].result = attempt[e].status

\* How a journalled step and the attempts of its activity correspond.
StepAgrees(r, a) ==
    LET f == attempt[Forward(r, a)]
        i == attempt[Inverse(r, a)]
        s == journal[r].step[a]
    IN  /\ s = "pending" <=> f.status = "none"
        /\ s = "running" <=> f.status \in {"started", "uncertain"}
        /\ s = "failed" <=> f.status \in {"failed", "unsupported", "abandoned"}
        /\ s \in {"succeeded", "compensating", "compensated", "compensation_failed"}
              <=> f.status = "succeeded"
        /\ s = "succeeded" => i.status = "none"
        /\ s = "compensating" => i.status \in {"started", "uncertain"}
        /\ s = "compensated" => i.status = "succeeded"
        /\ s = "compensation_failed" => i.status \in {"failed", "unsupported", "abandoned"}
        /\ a \in journal[r].uncertain <=> f.status = "uncertain"
        /\ a \in journal[r].compUncertain <=> i.status = "uncertain"

\* The journal and the attempt table, two records of the same history written
\* by different services, never disagree, and no service ever appends an event
\* that the saga projection rejects (plans without legacy activities).
JournalMatchesAttempts ==
    Legacy = {} =>
        \A r \in Runs : /\ journal[r].coherent
                        /\ \A a \in Activities : StepAgrees(r, a)

ActiveStatus == {"claimed", "running", "paused", "compensating"}

\* Only the request's newest run is ever active: a retried run is never
\* compensated or resumed, and two runs never act at once
\* (the unique index cpk_activity_runs_active_request never refuses a command).
OnlyLatestRunActive ==
    \A r \in Runs : run[r].status \in ActiveStatus => r = latest

\* A retry leaves no effect of the earlier run open: no attempt of a
\* superseded run is still started or uncertain.
RetryLeavesNothingOpen ==
    \A e \in Effects :
        e.run < latest => attempt[e].status \notin {"started", "uncertain"}

\* Undoing never overlaps doing, nor itself: a compensating run has no forward
\* attempt whose outcome is still open, and no run has two inverses open.
CompensationNeverOverlaps ==
    \A r \in Runs :
        /\ run[r].status = "compensating" =>
             AttemptsWith(r, 1, {"started", "uncertain"}) = {}
        /\ \A a, b \in AttemptsWith(r, 2, {"started", "uncertain"}) : a = b

\* Inverse effects start in reverse order of completion, one at a time: when
\* the inverse of a has started, that of every program step that completed
\* after a has succeeded.
InverseInReverseOrder ==
    \A r \in Runs : \A a, b \in ProgramSteps(r) :
        /\ attempt[Inverse(r, a)].status # "none"
        /\ CompletedAfter(journal[r], b, a)
        => attempt[Inverse(r, b)].status = "succeeded"

\* The recovery events of the newest run and the claim of the request tell the
\* same story, so the fence-chain check never rejects a recovery on its own.
RecoveryChainIntact ==
    request.status = "claimed" => ChainEndsIn(latest, request.claim)

\* The current graph has only advanced when some run carried every activity of
\* the plan to success, and that run is never undone afterwards.
AdvancedMeansRealized ==
    workspace = "advanced" =>
        \E r \in Runs :
            /\ run[r].status = "succeeded"
            /\ \A a \in Activities \ Legacy :
                 /\ attempt[Forward(r, a)].status = "succeeded"
                 /\ attempt[Inverse(r, a)].status = "none"

\* A stale or foreign fence cannot start an attempt or fold a result: an
\* attempt changes only while the request is claimed by the fence of whoever
\* changes it, which started the attempt or superseded the one that did.
StaleFenceNeverFolds ==
    [][\A e \in Effects : attempt'[e] # attempt[e] =>
           /\ request.status = "claimed"
           /\ Succeeds(request.claim, attempt'[e].fence)
           /\ caller'[e] # caller[e] => request.claim = attempt'[e].fence
           /\ \A o \in observers \ observers' : request.claim = o.fence]_vars

\* A verdict is final: a decided attempt never changes again, and uncertainty
\* is only ever resolved by an explicit recovery decision.
VerdictFinal ==
    [][\A e \in Effects : attempt'[e] # attempt[e] =>
           \/ attempt[e].status \in {"none", "started"}
           \/ attempt[e].status = "uncertain" /\ attempt'[e].resolved]_vars

\* A terminal session publishes nothing: no run is opened or changes status
\* and no claim is rotated after the session has ended.
EndedSessionIsQuiet ==
    [][session = "terminal" =>
           /\ latest' = latest
           /\ request'.claim = request.claim
           /\ \A r \in Runs : run'[r].status = run[r].status]_vars

=============================================================================
