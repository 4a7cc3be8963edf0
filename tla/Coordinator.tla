---------------------------- MODULE Coordinator ----------------------------
(***************************************************************************)
(* ExecutionCoordinator.execute (coordinator.py) running over the services *)
(* of ExecutionRun.                                                        *)
(*                                                                         *)
(* An invocation is one call of execute.  It commits its command receipt,  *)
(* then loops: load and classify the run in one transaction, and act on    *)
(* that classification in later ones.  Between two transactions anything   *)
(* else may happen: another invocation, a lifecycle command, the end of    *)
(* the process.                                                            *)
(*                                                                         *)
(* Socket and ingress operations are Legacy: they have no attempt row, and *)
(* _record_step_event and _record_outcome write their events directly.     *)
(*                                                                         *)
(* A command whose key already has a receipt is answered from the receipt  *)
(* and changes nothing, so it is a stuttering step.                        *)
(***************************************************************************)
EXTENDS ExecutionRun

CONSTANTS
    Invocations,   \* calls of execute
    Keys,          \* idempotency keys of execution commands
    MaxEffects,    \* bound on a command's max_effects
    MaxCrashes,    \* bound on the invocations whose process ends early
    LeaseExpires,  \* whether the claim's lease may expire
    Resubmit,      \* whether commands keep coming, each with a fresh key
    Position,      \* the place of each activity in the plan
    NoActivity     \* the absent activity id

ASSUME CoordinatorAssumption ==
    /\ MaxEffects \in Nat \ {0}
    /\ MaxCrashes \in Nat
    /\ LeaseExpires \in BOOLEAN
    /\ Resubmit \in BOOLEAN
    /\ Position \in [Activities -> Nat]
    /\ \A a, b \in Activities : Position[a] = Position[b] => a = b
    /\ NoActivity \notin Activities

VARIABLES
    receipt,  \* cpk_execution_command_receipts, per run and key
    coord     \* the invocations' local state

cvars == <<vars, receipt, coord>>

CoordinatorStatus == {"completed", "progressed", "in_flight", "blocked",
                      "failed", "unsupported", "uncertain"}

\* What a command asks for: its key may be used again for the same only.
Intent(f, n) == [fence |-> f, bound |-> n]

NoIntent == Intent(NoFence, 0)

Intents == {Intent(f, n) : f \in Fences, n \in 1..MaxEffects} \cup {NoIntent}

\* The result of a command that was completed.
CommandResults == CoordinatorStatus \cup {"none"}

\* A row is incomplete or has a result; "absent" is no row.
Receipts ==
    {c \in [state : {"absent", "incomplete", "completed"}, intent : Intents,
             result : CommandResults] :
        /\ c.state = "absent" <=> c.intent = NoIntent
        /\ c.state = "completed" <=> c.result # "none"}

NoReceipt == [state |-> "absent", intent |-> NoIntent, result |-> "none"]

\* Where an invocation stands.  load: before _load_context.  start .. observed:
\* inside one iteration.  fail, complete: before a lifecycle command.  finish:
\* before _complete_command.  returned, raised, crashed: over.
Places == {"idle", "load", "start", "execute", "fold", "reconcile", "observed",
           "intend", "adapter", "record", "fail", "complete", "finish",
           "returned", "raised", "crashed"}

Over == {"returned", "raised", "crashed"}

\* bound: its max_effects.  left: iterations left.  outcome: what the adapter
\* returned or the observer saw.  verdict: the status a legacy failure makes
\* execute return.
Calls == [pc : Places, run : Runs, fence : Fences \cup {NoFence},
          key : Keys \cup {"none"}, bound : 0..MaxEffects, left : 0..MaxEffects,
          activity : Activities \cup {NoActivity},
          outcome : Outcomes \cup {"none"},
          verdict : {"none", "failed", "unsupported", "uncertain"},
          status : CoordinatorStatus \cup {"none"}]

Idle == [pc |-> "idle", run |-> 1, fence |-> NoFence, key |-> "none", bound |-> 0,
         left |-> 0, activity |-> NoActivity, outcome |-> "none",
         verdict |-> "none", status |-> "none"]

CTypeOK ==
    /\ TypeOK
    /\ receipt \in [Runs \X Keys -> Receipts]
    /\ coord \in [Invocations -> Calls]

CInit ==
    /\ Init
    /\ receipt = [rk \in Runs \X Keys |-> NoReceipt]
    /\ coord = [i \in Invocations |-> Idle]

----------------------------------------------------------------------------
(* Moves of an invocation. *)

At(i, place) == coord[i].pc = place

Goto(i, place) == coord' = [coord EXCEPT ![i] = [@ EXCEPT !.pc = place]]

\* The iteration is over; the next one, or the closing classification, loads.
NextIteration(i) ==
    coord' = [coord EXCEPT ![i] = [@ EXCEPT !.pc = "load",
                                            !.left = coord[i].left - 1,
                                            !.activity = NoActivity,
                                            !.outcome = "none"]]

\* execute is about to return: a legacy failure decides the status it returns.
Finish(i, status) ==
    coord' = [coord EXCEPT ![i] = [@ EXCEPT
                !.pc = "finish", !.activity = NoActivity, !.outcome = "none",
                !.status = IF coord[i].verdict = "none" THEN status ELSE coord[i].verdict]]

\* The effect an invocation works on.
Selected(i) == Forward(coord[i].run, coord[i].activity)

----------------------------------------------------------------------------
(* Admission and completion of the command. *)

\* command_receipt_for_idempotency.
ReceiptOf(r, k) == receipt[<<r, k>>]

\* add_command_receipt.
Insert(r, k, intent) ==
    receipt' = [receipt EXCEPT ![<<r, k>>] =
                  [state |-> "incomplete", intent |-> intent, result |-> "none"]]

\* complete_command_receipt: only the incomplete row of the same intent.
SetResult(r, k, intent, result) ==
    /\ ReceiptOf(r, k) = [state |-> "incomplete", intent |-> intent, result |-> "none"]
    /\ receipt' = [receipt EXCEPT ![<<r, k>>] =
                     [@ EXCEPT !.state = "completed", !.result = result]]

\* Defect: an incomplete receipt is taken for a command that never ran.
UsedOnlyIfCompleted(r, k) == ReceiptOf(r, k).state = "completed"

\* The key was used.  The command is refused, if its intent is another one,
\* answered with the result, or answered that its outcome is uncertain.
Used(r, k) == ReceiptOf(r, k).state # "absent"

\* _admit_command for a key without a receipt.
Admit(i, r, f, k, n) ==
    /\ At(i, "idle")
    /\ run[r].status # "none"
    /\ Owns(f)
    /\ ~Used(r, k)
    /\ Insert(r, k, Intent(f, n))
    /\ coord' = [coord EXCEPT ![i] = [Idle EXCEPT
                   !.pc = "load", !.run = r, !.fence = f, !.key = k, !.bound = n,
                   !.left = n]]
    /\ UNCHANGED vars

\* _complete_command.  Neither claim nor run is looked at.
Complete(i) ==
    LET c == coord[i]
    IN  /\ At(i, "finish")
        /\ SetResult(c.run, c.key, Intent(c.fence, c.bound), c.status)
        /\ Goto(i, "returned")
        /\ UNCHANGED vars

----------------------------------------------------------------------------
(* _load_context and _classify_current, on one locked read. *)

Loadable(i) == Owns(coord[i].fence) /\ journal[coord[i].run].coherent

\* What a run that is not running is classified as.
Settled(status) == CASE status = "succeeded" -> "completed"
                     [] status = "failed" -> "failed"
                     [] OTHER -> "blocked"

\* A schedule lists its activities in plan order, and the first is taken.
First(S) == CHOOSE a \in S : \A b \in S : Position[a] <= Position[b]

\* An activity was selected, as PROGRESSED (ready) or IN_FLIGHT (running).
Select(i, a, status) ==
    IF coord[i].left = 0 \/ (a \in Legacy /\ status = "in_flight")
    THEN Finish(i, status)
    ELSE coord' = [coord EXCEPT ![i] = [@ EXCEPT
                     !.activity = a,
                     !.pc = IF a \in Legacy THEN "intend" ELSE "start"]]

Classify(i, r) ==
    LET j == journal[r]
        running == StepsIn(j, "running")
    IN  IF run[r].status # "running" THEN Finish(i, Settled(run[r].status))
        ELSE IF j.uncertain # {} THEN Finish(i, "uncertain")
        ELSE IF StepsIn(j, "failed") # {} THEN Goto(i, "fail")
        ELSE IF running # {} THEN Select(i, First(running), "in_flight")
        ELSE IF StepsIn(j, "succeeded") = Activities THEN Goto(i, "complete")
        ELSE IF Ready(j) # {} THEN Select(i, First(Ready(j)), "progressed")
        ELSE Finish(i, "blocked")

Load(i) ==
    /\ At(i, "load")
    /\ Loadable(i)
    /\ run[coord[i].run].status # "claimed"
    /\ Classify(i, coord[i].run)
    /\ UNCHANGED <<vars, receipt>>

\* The classification fails the run; every conflict is taken for a run that
\* was settled meanwhile, whatever the conflict was.
FailRunStep(i) ==
    LET r == coord[i].run
    IN  /\ At(i, "fail")
        /\ Owns(coord[i].fence)
        /\ \/ FailRun(coord[i].fence, r)
           \/ /\ session # "open" \/ run[r].status \notin {"running", "paused"}
              /\ UNCHANGED vars
        /\ Finish(i, "failed")
        /\ UNCHANGED receipt

\* Defect: completion is reported without settling the run.
ReportComplete(i) ==
    /\ At(i, "complete")
    /\ Finish(i, "completed")
    /\ UNCHANGED <<vars, receipt>>

\* The classification completes the run, or replays another invocation's
\* completion (both use the key coordinator:<run>:complete).
CompleteRunStep(i) ==
    LET r == coord[i].run
    IN  /\ At(i, "complete")
        /\ Owns(coord[i].fence)
        /\ \/ CompleteRun(coord[i].fence, r)
           \/ run[r].status = "succeeded" /\ UNCHANGED vars
        /\ Finish(i, "completed")
        /\ UNCHANGED receipt

----------------------------------------------------------------------------
(* One runtime effect. *)

\* The start service inserts the attempt: this invocation holds the effect.
StartNew(i) ==
    /\ At(i, "start")
    /\ StartEffectAttempt(coord[i].fence, coord[i].run, coord[i].activity)
    /\ Goto(i, "execute")
    /\ UNCHANGED receipt

\* Defect: an attempt that exists is reported in flight and left alone.
LeaveExisting(i) ==
    LET s == attempt[Selected(i)]
    IN  /\ At(i, "start")
        /\ Owns(coord[i].fence)
        /\ s.status # "none" /\ s.fence = coord[i].fence /\ ~s.resolved
        /\ Finish(i, "in_flight")
        /\ UNCHANGED <<vars, receipt>>

\* An attempt of this fence exists: it is reconciled, never executed again.
StartExisting(i) ==
    LET s == attempt[Selected(i)]
    IN  /\ At(i, "start")
        /\ Owns(coord[i].fence)
        /\ s.status # "none" /\ s.fence = coord[i].fence /\ ~s.resolved
        /\ Goto(i, "reconcile")
        /\ UNCHANGED <<vars, receipt>>

Execute(i) ==
    /\ At(i, "execute")
    /\ ExecuteEffect(Selected(i))
    /\ Goto(i, "fold")
    /\ UNCHANGED receipt

FoldResult(i) ==
    /\ At(i, "fold")
    /\ FoldExecution(Selected(i))
    /\ NextIteration(i)
    /\ UNCHANGED receipt

\* Reconciliation of a decided attempt returns its stored fold.
ReconcileExisting(i) ==
    LET s == attempt[Selected(i)]
    IN  /\ At(i, "reconcile")
        /\ Owns(coord[i].fence)
        /\ s.status # "started" /\ ~s.resolved
        /\ NextIteration(i)
        /\ UNCHANGED <<vars, receipt>>

\* A started attempt is observed at its provider, whether or not the process
\* that started it is still at work.
Observe(i) ==
    /\ At(i, "reconcile")
    /\ MayReconcile(coord[i].fence, Selected(i))
    /\ \E v \in Observable(Selected(i)) :
         coord' = [coord EXCEPT ![i] = [@ EXCEPT !.pc = "observed", !.outcome = v]]
    /\ UNCHANGED <<vars, receipt>>

FoldObserved(i) ==
    /\ At(i, "observed")
    /\ MayReconcile(coord[i].fence, Selected(i))
    /\ Fold(Selected(i), coord[i].outcome, FALSE)
    /\ NextIteration(i)
    /\ UNCHANGED <<session, workspace, request, latest, caller, observers,
                   effect, receipt>>

\* Another invocation folded the very same observation first.
FoldObservedAgain(i) ==
    LET s == attempt[Selected(i)]
    IN  /\ At(i, "observed")
        /\ Owns(coord[i].fence)
        /\ s.status = coord[i].outcome /\ ~s.resolved
        /\ NextIteration(i)
        /\ UNCHANGED <<vars, receipt>>

----------------------------------------------------------------------------
(* One legacy effect. *)

MayRecord(i) == Owns(coord[i].fence) /\ run[coord[i].run].status = "running"

RecordEvent(i, kind) ==
    LET r == coord[i].run
    IN  /\ journal' = Journalled(r, kind, coord[i].activity)
        /\ run' = [run EXCEPT ![r] = Recorded(r, "other")]

\* _record_step_event: the schedule is not consulted again.
RecordStarted(i) ==
    /\ At(i, "intend")
    /\ MayRecord(i)
    /\ RecordEvent(i, "step_started")
    /\ Goto(i, "adapter")
    /\ UNCHANGED <<session, workspace, request, latest, attempt, caller,
                   observers, effect, receipt>>

ExecuteLegacy(i) ==
    /\ At(i, "adapter")
    /\ \E outcome \in ResultKinds, result \in {"succeeded", "failed"} :
         /\ outcome = "succeeded" => result = "succeeded"
         /\ outcome \in {"failed", "unsupported"} => result = "failed"
         /\ coord' = [coord EXCEPT ![i] =
                        [@ EXCEPT !.pc = "record", !.outcome = outcome]]
         /\ effect' = [effect EXCEPT ![Selected(i)] =
                         [calls |-> @.calls + 1, result |-> result]]
    /\ UNCHANGED <<session, workspace, request, latest, run, journal, attempt,
                   caller, observers, receipt>>

\* _record_outcome; anything but success ends the loop after one more load.
RecordOutcome(i) ==
    LET o == coord[i].outcome
    IN  /\ At(i, "record")
        /\ MayRecord(i)
        /\ RecordEvent(i, [succeeded |-> "step_succeeded", failed |-> "step_failed",
                       unsupported |-> "step_unsupported",
                       uncertain |-> "step_uncertain"][o])
        /\ IF o = "succeeded" THEN NextIteration(i)
           ELSE coord' = [coord EXCEPT ![i] = [@ EXCEPT
                            !.pc = "load", !.left = 0, !.verdict = o,
                            !.activity = NoActivity, !.outcome = "none"]]
        /\ UNCHANGED <<session, workspace, request, latest, attempt, caller,
                       observers, effect, receipt>>

----------------------------------------------------------------------------
(* Refusals and crashes. *)

\* The transaction an invocation is about to make refuses it.  (fail: another
\* invocation failed the run with other evidence under the shared key
\* coordinator:<run>:fail.)
Refused(i) ==
    LET c == coord[i]
        s == attempt[Selected(i)]
    IN  \/ At(i, "load") /\ (~Loadable(i) \/ run[c.run].status = "claimed")
        \/ At(i, "fail") /\ (~Owns(c.fence)
                               \/ run[c.run].status \in {"failed", "compensating"})
        \/ At(i, "complete") /\ (~Owns(c.fence) \/ session # "open"
                                   \/ run[c.run].status # "running")
        \/ /\ At(i, "start")
           /\ \/ ~Owns(c.fence)
              \/ s.status = "none" /\ (~MayStart(c.run, c.activity) \/ request.expired)
              \/ s.status # "none" /\ (s.fence # c.fence \/ s.resolved)
        \/ At(i, "fold") /\ ~(Owns(s.fence) /\ TakesDirect(Selected(i)))
        \/ /\ At(i, "reconcile")
           /\ \/ ~Owns(c.fence)
              \/ s.status = "started" /\ request.expired
              \/ s.resolved
        \/ At(i, "observed") /\ ~MayReconcile(c.fence, Selected(i))
        \/ (At(i, "intend") \/ At(i, "record")) /\ ~MayRecord(i)

\* What the process held is lost with it.
Abandon(i, place) ==
    /\ coord' = [coord EXCEPT ![i] = [@ EXCEPT !.pc = place,
                                               !.activity = NoActivity,
                                               !.outcome = "none"]]
    /\ caller' = IF At(i, "execute") \/ At(i, "fold")
                 THEN [caller EXCEPT ![Selected(i)] = "none"] ELSE caller
    /\ UNCHANGED <<session, workspace, request, latest, run, journal, attempt,
                   observers, effect, receipt>>

\* execute raises: the receipt stays incomplete.
Raise(i) == Refused(i) /\ Abandon(i, "raised")

\* The process ends between two transactions.
Crash(i) ==
    /\ coord[i].pc \notin {"idle"} \cup Over
    /\ Cardinality({c \in Invocations : At(c, "crashed")}) < MaxCrashes
    /\ Abandon(i, "crashed")

----------------------------------------------------------------------------

InvocationStep(i) ==
    \/ Load(i) \/ FailRunStep(i) \/ CompleteRunStep(i) \/ Complete(i)
    \/ StartNew(i) \/ StartExisting(i) \/ Execute(i) \/ FoldResult(i)
    \/ ReconcileExisting(i) \/ Observe(i)
    \/ FoldObserved(i) \/ FoldObservedAgain(i)
    \/ RecordStarted(i) \/ ExecuteLegacy(i) \/ RecordOutcome(i)
    \/ Raise(i)

Submit(i) ==
    \E r \in Runs, f \in Fences, k \in Keys, n \in 1..MaxEffects : Admit(i, r, f, k, n)

\* The caller of a finished invocation sends another command.  Its key is
\* fresh: the name of the old one is used for it, and the old receipt, which
\* no later command refers to, is forgotten.
Again(i) ==
    /\ Resubmit
    /\ coord[i].pc \in {"returned", "raised"}
    /\ coord' = [coord EXCEPT ![i] = Idle]
    /\ receipt' = [receipt EXCEPT ![<<coord[i].run, coord[i].key>>] = NoReceipt]
    /\ UNCHANGED vars

\* The commands that others send to the same request.
RunCommand ==
    /\ \/ LifecycleStep
       \/ RecoveryStep
       \/ \E f \in Fences, e \in Effects, s \in Resolutions : ResolveUncertainty(f, e, s)
       \/ LeaseExpires /\ ExpireLease
       \/ EndSession
    /\ UNCHANGED <<receipt, coord>>

CNext ==
    \/ RunCommand
    \/ \E i \in Invocations : Submit(i) \/ InvocationStep(i) \/ Crash(i) \/ Again(i)

CSpec == CInit /\ [][CNext]_cvars

\* An invocation that has begun takes its next step, and whoever drives the run
\* sends a new command when the last one is over.
Fairness ==
    \A i \in Invocations : /\ WF_cvars(InvocationStep(i))
                           /\ WF_cvars(Submit(i))
                           /\ WF_cvars(Again(i))

FairSpec == CSpec /\ Fairness

----------------------------------------------------------------------------
(* Properties. *)

\* A command key dispatches once: whatever crashes, an invocation that gets past
\* admission is the only one that ever did for its run and key.
CommandDispatchedOnce ==
    \A i, j \in Invocations :
        /\ i # j
        /\ ~At(i, "idle") /\ ~At(j, "idle")
        => <<coord[i].run, coord[i].key>> # <<coord[j].run, coord[j].key>>

\* A receipt that says completed is backed by a succeeded run, also when two
\* invocations settle the same run.
CompletedMeansSucceeded ==
    \A rk \in Runs \X Keys :
        receipt[rk].result = "completed" => run[rk[1]].status = "succeeded"

\* Runtime effects are invoked once, however many invocations meet on one step.
RuntimeInvokedOnce ==
    \A e \in Effects : e.activity \notin Legacy => effect[e].calls <= 1

\* "active leased intent + concurrent coordinator -> exactly one effect
\* invocation" (docs/learning/roadmap-0008/run-0001.md), for the operations
\* without an attempt row as well.
OneEffectInvocation == \A e \in Effects : effect[e].calls <= 1

\* "active leased intent + concurrent coordinator -> no manufactured
\* uncertainty" (same place): a step is not declared uncertain while the
\* invocation that holds its effect is still at work.
NoManufacturedUncertainty ==
    \A e \in Effects : attempt[e].status = "uncertain" => caller[e] = "none"

\* "crash after intent, before effect -> eventual explicit uncertainty" (same
\* place): while the run keeps running, an open attempt is eventually decided.
OpenAttemptSettles ==
    \A e \in Effects :
        attempt[e].status = "started"
            ~> \/ attempt[e].status # "started"
               \/ run[e.run].status # "running"

=============================================================================
