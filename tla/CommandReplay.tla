---------------------------- MODULE CommandReplay ---------------------------
(***************************************************************************)
(* What the command services answer when a command is sent again: after a  *)
(* lost reply, by two callers at once, or under a key that another command *)
(* has used.  Every service takes an advisory lock on the key, looks the   *)
(* key up and either replays the action found, refuses, or runs the        *)
(* command for the first time and adds its action to the session's log,    *)
(* all in one transaction.  A refusal leaves no trace, so it is no step.   *)
(*                                                                         *)
(* One workspace.  The guards of a first execution are those of Deployment *)
(* and ExecutionRun; the journal of a run is reduced to whether it permits *)
(* what comes after the run.                                               *)
(***************************************************************************)
EXTENDS CommandLog

VARIABLES
    opsessions,   \* cpk_operation_sessions, in the order they were started
    oplog,        \* per session its cpk_operation_actions, by ordinal
    pointers,     \* the workspace's current and desired graph, and the revision
    graphrows,    \* the authored graphs
    planrows,     \* cpk_activity_plans
    approvalrows, \* cpk_approval_requests, each with its decision
    requestrows,  \* cpk_execution_requests
    runrows,      \* cpk_activity_runs
    replied       \* which action each command was answered with

mvars == <<opsessions, oplog, pointers, graphrows, planrows, approvalrows, requestrows,
           runrows, replied>>

NoLease == [worker |-> "", generation |-> 0]
Undecided == [key |-> "", fingerprint |-> <<>>, decision |-> "none"]

-----------------------------------------------------------------------------
(* The log, and what a key finds. *)

\* Where a command's action is kept: its own session, or that of its request.
SessionOf(c) ==
    CASE "session" \in DOMAIN c -> c.session
      [] "request" \in DOMAIN c -> requestrows[c.request].session
      [] "run" \in DOMAIN c -> requestrows[runrows[c.run].request].session

\* What the command refers to exists; otherwise the service answers "not found".
Known(c) ==
    /\ "session" \in DOMAIN c => c.session \in DOMAIN opsessions
    /\ "request" \in DOMAIN c => c.request \in DOMAIN requestrows
    /\ "run" \in DOMAIN c =>
          /\ c.run \in DOMAIN runrows
          /\ "request" \in DOMAIN c => runrows[c.run].request = c.request
    /\ "plan" \in DOMAIN c => c.plan \in DOMAIN planrows
    /\ "approval" \in DOMAIN c => c.approval \in DOMAIN approvalrows

\* action_for_idempotency: (session, key) is unique.
ActionsFor(s, key) == {n \in DOMAIN oplog[s] : oplog[s][n].key = key}

Row(s, fingerprint) == [session |-> s, fingerprint |-> fingerprint]

\* A session is found by its key alone.
SessionRows(c) ==
    {Row(s, opsessions[s].fingerprint) : s \in {t \in DOMAIN opsessions :
                                                  opsessions[t].key = c.key}}

ApprovalRows(c) ==
    {Row(c.session, approvalrows[a].fingerprint) : a \in {b \in DOMAIN approvalrows :
        approvalrows[b].session = c.session /\ approvalrows[b].key = c.key}}

\* A decision is sought under its approval, not in the command's session.
DecisionRows(c) ==
    {Row(approvalrows[a].session, approvalrows[a].decided.fingerprint) :
        a \in {b \in {c.approval} : approvalrows[b].decided.key = c.key}}

\* An admission is sought in the whole workspace.
RequestRows(c) ==
    {Row(requestrows[q].session, requestrows[q].fingerprint) :
        q \in {i \in DOMAIN requestrows : requestrows[i].key = c.key}}

ActionRows(s, key) == {Row(s, oplog[s][n].fingerprint) : n \in ActionsFor(s, key)}

\* These four kinds look for the row a command made, the others for its action.
RowsFor(c) ==
    CASE c.kind \in CreatesSession -> SessionRows(c)
      [] c.kind = "request-approval" -> ApprovalRows(c)
      [] c.kind = "decide-approval" -> DecisionRows(c)
      [] c.kind = "admit-execution" -> RequestRows(c)
      [] OTHER -> ActionRows(SessionOf(c), c.key)

-----------------------------------------------------------------------------
(* Replay. *)

OwnedClaim(q, fence) == requestrows[q].status = "claimed" /\ requestrows[q].claim = fence

\* The status an accepted transition gave the run: _lifecycle_result_for_action.
ResultOf(kind) ==
    CASE kind \in {"start-run", "resume-run"} -> "running" [] kind = "pause-run" -> "paused"
      [] kind = "complete-run" -> "succeeded" [] kind = "fail-run" -> "failed"
      [] kind = "cancel-run" -> "cancelled" [] kind = "claim-run" -> "claimed"

\* Planning evidence still agrees with the plan's row.  The plan is recompiled and
\* compared too: the compiler is a function of the two graphs.
PlanEvidence(e) ==
    LET p == planrows[e.payload.plan]
    IN  e.payload = [plan |-> e.payload.plan, base |-> p.base, desired |-> p.desired,
                     revision |-> p.revision]

ClaimReplay(c, e) ==
    /\ requestrows[c.request].status = "claimed"
    /\ requestrows[c.request].claim.worker = e.actor
    /\ requestrows[c.request].claim.generation = e.payload.generation

\* The run may have moved on since: the answer is the transition's own result.
RunReplay(c, e) ==
    /\ OwnedClaim(runrows[c.run].request, c.fence)
    /\ e.payload = [run |-> c.run, status |-> ResultOf(c.kind),
                    generation |-> c.fence.generation]

AdvancementReplay(c, e) ==
    /\ OwnedClaim(runrows[c.run].request, c.fence)
    /\ e.payload = [run |-> c.run, plan |-> c.plan, from |-> c.from, to |-> c.to,
                    revision |-> c.revision, generation |-> c.fence.generation]

\* The result of a retry is congruent: the request still has the retry's fence, the
\* prior run stays failed and the new run follows it.
RetryEvidence(q, e) ==
    /\ requestrows[q].status = "claimed"
    /\ requestrows[q].claim = e.payload.replacement
    /\ runrows[e.payload.prior].status = "failed"
    /\ runrows[e.payload.run].prior = e.payload.prior

\* The retries of a session that lead on from a run.
RetriesOf(s, x) ==
    {n \in DOMAIN oplog[s] : /\ oplog[s][n].type = "record-recovery-decision"
                             /\ oplog[s][n].payload.decision = "retry-as-new-run"
                             /\ oplog[s][n].payload.prior = x}

\* require_replay_run_evolution: retry actions lead from the run to the latest.
RunEvolution(q, r) ==
    LET s == requestrows[q].session
    IN  \A x, y \in {z \in DOMAIN runrows : runrows[z].request = q /\ z >= r} :
           x < y => \E n \in RetriesOf(s, x) :
                       RetriesOf(s, x) = {n} /\ RetryEvidence(q, oplog[s][n])

\* A recovery's result is congruent with the request and the retained run.
RecoveryEvidence(c, e) ==
    /\ e.payload.decision = c.kind
    /\ e.payload.prior_fence = c.fence
    /\ IF c.kind = "abandon-expired-claim"
       THEN requestrows[c.request].status = "abandoned"
       ELSE OwnedClaim(c.request, e.payload.replacement)
    /\ c.kind # "renew-active-claim" => runrows[c.run].status = "failed"

RecoveryReplay(c, e) == RunEvolution(c.request, c.run) /\ RecoveryEvidence(c, e)

RetryReplay(c, e) ==
    /\ RunEvolution(c.request, e.payload.run)
    /\ OwnedClaim(c.request, c.fence)
    /\ RetryEvidence(c.request, e)

CompensationReplay(c) == runrows[c.run].status = "compensating"

\* What a service compares before it answers with the action it found.
CongruentResult(c, e) ==
    CASE c.kind \in Reserved -> TRUE
      [] c.kind = "set-desired-graph" -> e.payload.graph \in DOMAIN graphrows
      [] c.kind = "request-activity-plan" -> PlanEvidence(e)
      [] c.kind \in {"request-approval", "decide-approval", "admit-execution"} ->
            e.type = c.kind
      [] c.kind = "claim-run" -> ClaimReplay(c, e)
      [] c.kind \in RunKinds -> RunReplay(c, e)
      [] c.kind = "advance-current-graph" -> AdvancementReplay(c, e)
      [] c.kind \in Recoveries -> RecoveryReplay(c, e)
      [] c.kind = "retry-as-new-run" -> RetryReplay(c, e)
      [] c.kind = "begin-compensation" -> CompensationReplay(c)

\* The n-th action of session s answers the command, whether or not the session has
\* ended since.
Answers(c, s, n) ==
    /\ Known(c)
    /\ oplog[s][n].fingerprint = IntentOf(c)
    /\ n \in ActionsFor(s, c.key)
    /\ \E row \in RowsFor(c) : row.session = s /\ row.fingerprint = IntentOf(c)
    /\ CongruentResult(c, oplog[s][n])

AnswerWith(c, s, n) == replied' = replied \cup {[to |-> c, session |-> s, ordinal |-> n]}

ReplayCommand(c) ==
    /\ \E s \in DOMAIN opsessions : \E n \in ActionsFor(s, c.key) :
          Answers(c, s, n) /\ AnswerWith(c, s, n)
    /\ UNCHANGED <<opsessions, oplog, pointers, graphrows, planrows, approvalrows,
                   requestrows, runrows>>

-----------------------------------------------------------------------------
(* First execution. *)

Actor(c) == IF "fence" \in DOMAIN c /\ "actor" \notin DOMAIN c THEN c.fence.worker
            ELSE IF c.kind = "claim-run" THEN c.worker ELSE c.actor

\* by is the command itself: history the properties read.
Action(c, payload) ==
    [type |-> ActionType(c), key |-> c.key, fingerprint |-> IntentOf(c), actor |-> Actor(c),
     payload |-> payload, by |-> c]

\* The key is new: the row it would name, and the action, are missing.
New(c) == Known(c) /\ RowsFor(c) = {} /\ ActionsFor(SessionOf(c), c.key) = {}

\* In an open session, with the action at the next ordinal.
FirstExecution(c, payload) ==
    LET s == SessionOf(c)
    IN  /\ opsessions[s].status = "open"
        /\ oplog' = [oplog EXCEPT ![s] = Append(@, Action(c, payload))]
        /\ AnswerWith(c, s, Len(oplog[s]) + 1)

\* The session and its first action.
StartOperationSession(c) ==
    /\ c.kind \in CreatesSession
    /\ RowsFor(c) = {}
    /\ opsessions' = Append(opsessions, [status |-> "open", key |-> c.key,
                                         fingerprint |-> IntentOf(c)])
    /\ oplog' = Append(oplog, <<Action(c, <<>>)>>)
    /\ AnswerWith(c, Len(opsessions) + 1, 1)
    /\ UNCHANGED <<pointers, graphrows, planrows, approvalrows, requestrows, runrows>>

EndOperationSession(c) ==
    /\ c.kind \in EndsSession
    /\ New(c)
    /\ FirstExecution(c, <<>>)
    /\ opsessions' = [opsessions EXCEPT ![c.session].status =
                         IF c.kind = "close-operation-session" THEN "closed"
                         ELSE "cancelled"]
    /\ UNCHANGED <<pointers, graphrows, planrows, approvalrows, requestrows, runrows>>

RecordOperationAction(c) ==
    /\ c.kind = "record-operation-action"
    /\ New(c)
    /\ FirstExecution(c, <<>>)
    /\ UNCHANGED <<opsessions, pointers, graphrows, planrows, approvalrows, requestrows,
                   runrows>>

SetDesired(c) ==
    /\ c.kind = "set-desired-graph"
    /\ New(c)
    /\ pointers.desired = c.expected /\ pointers.revision = c.revision
    /\ graphrows' = Append(graphrows, c.graph)
    /\ pointers' = [pointers EXCEPT !.desired = Len(graphrows) + 1, !.revision = @ + 1]
    /\ FirstExecution(c, [graph |-> Len(graphrows) + 1, previous |-> c.expected,
                          revision |-> c.revision + 1])
    /\ UNCHANGED <<opsessions, planrows, approvalrows, requestrows, runrows>>

RequestActivityPlan(c) ==
    /\ c.kind = "request-activity-plan"
    /\ New(c)
    /\ pointers = [current |-> c.current, desired |-> c.desired, revision |-> c.revision]
    /\ planrows' = Append(planrows, [session |-> c.session, base |-> c.current,
                                     desired |-> c.desired, revision |-> c.revision])
    /\ FirstExecution(c, [plan |-> Len(planrows) + 1, base |-> c.current,
                          desired |-> c.desired, revision |-> c.revision])
    /\ UNCHANGED <<opsessions, pointers, graphrows, approvalrows, requestrows, runrows>>

\* Every actor here holds the scopes of what it asks for; a destructive plan needs
\* two principals (Deployment).
AskApproval(c) ==
    /\ c.kind = "request-approval"
    /\ New(c)
    /\ planrows[c.plan].session = c.session
    /\ approvalrows' = Append(approvalrows,
          [session |-> c.session, plan |-> c.plan, key |-> c.key,
           fingerprint |-> IntentOf(c), decided |-> Undecided])
    /\ FirstExecution(c, [approval |-> Len(approvalrows) + 1])
    /\ UNCHANGED <<opsessions, pointers, graphrows, planrows, requestrows, runrows>>

Decide(c) ==
    /\ c.kind = "decide-approval"
    /\ New(c)
    /\ approvalrows[c.approval].session = c.session
    /\ approvalrows[c.approval].decided = Undecided
    /\ approvalrows' = [approvalrows EXCEPT ![c.approval].decided =
          [key |-> c.key, fingerprint |-> IntentOf(c), decision |-> c.decision]]
    /\ FirstExecution(c, [approval |-> c.approval, decision |-> c.decision])
    /\ UNCHANGED <<opsessions, pointers, graphrows, planrows, requestrows, runrows>>

Admit(c) ==
    /\ c.kind = "admit-execution"
    /\ New(c)
    /\ LET p == planrows[c.plan]
       IN  /\ p.session = c.session
           /\ pointers = [current |-> p.base, desired |-> p.desired,
                          revision |-> p.revision]
    /\ approvalrows[c.approval].session = c.session
    /\ approvalrows[c.approval].plan = c.plan
    /\ approvalrows[c.approval].decided.decision = "approved"
    /\ \A q \in DOMAIN requestrows :
          requestrows[q].plan = c.plan => requestrows[q].status = "abandoned"
    /\ requestrows' = Append(requestrows,
          [session |-> c.session, plan |-> c.plan, key |-> c.key,
            fingerprint |-> IntentOf(c), status |-> "queued",
            claim |-> NoLease, expired |-> FALSE])
    /\ FirstExecution(c, [request |-> Len(requestrows) + 1])
    /\ UNCHANGED <<opsessions, pointers, graphrows, planrows, approvalrows, runrows>>

\* A run: its status, whether it was paused, whether RUN_FAILED or RUN_SUCCEEDED is
\* its last event, and whether its journal permits a recovery or an advancement.
OpenRun(q, prior) ==
    [request |-> q, prior |-> prior, status |-> "claimed", paused |-> FALSE, ends |-> FALSE,
     settled |-> FALSE]

Claim(c) ==
    /\ c.kind = "claim-run"
    /\ New(c)
    /\ requestrows[c.request].status = "queued"
    /\ \A r \in DOMAIN runrows : runrows[r].request # c.request
    /\ requestrows' = [requestrows EXCEPT
          ![c.request].status = "claimed",
          ![c.request].claim = [worker |-> c.worker, generation |-> 1]]
    /\ runrows' = Append(runrows, OpenRun(c.request, 0))
    /\ FirstExecution(c, [run |-> Len(runrows) + 1, status |-> "claimed", generation |-> 1])
    /\ UNCHANGED <<opsessions, pointers, graphrows, planrows, approvalrows>>

Expected(kind) ==
    CASE kind = "start-run" -> {"claimed"} [] kind = "pause-run" -> {"running"}
      [] kind = "resume-run" -> {"paused"} [] kind = "complete-run" -> {"running"}
      [] kind = "fail-run" -> {"running", "paused"}
      [] kind = "cancel-run" -> {"claimed", "paused"}

\* The run after a transition.
RunAfter(run, kind, settled) ==
    LET ended == kind \in {"complete-run", "fail-run"}
    IN  [run EXCEPT !.status = ResultOf(kind), !.paused = @ \/ kind = "pause-run",
                    !.ends = ended, !.settled = settled /\ ended]

\* _transition.  What the journal then permits is up to the steps that ran.
ChangeRun(c) ==
    /\ c.kind \in RunKinds
    /\ New(c)
    /\ OwnedClaim(runrows[c.run].request, c.fence)
    /\ runrows[c.run].status \in Expected(c.kind)
    /\ \E settled \in BOOLEAN :
          runrows' = [runrows EXCEPT ![c.run] = RunAfter(runrows[c.run], c.kind, settled)]
    /\ FirstExecution(c, [run |-> c.run, status |-> ResultOf(c.kind),
                          generation |-> c.fence.generation])
    /\ UNCHANGED <<opsessions, pointers, graphrows, planrows, approvalrows, requestrows>>

\* The workspace's pointers are still those the command, and its plan, state.
Pinned(c) ==
    /\ pointers = [current |-> c.from, desired |-> c.to, revision |-> c.revision]
    /\ LET p == planrows[c.plan]
       IN  <<p.base, p.desired, p.revision>> = <<c.from, c.to, c.revision>>
    /\ requestrows[runrows[c.run].request].plan = c.plan

Advance(c) ==
    /\ c.kind = "advance-current-graph"
    /\ New(c)
    /\ Pinned(c)
    /\ OwnedClaim(runrows[c.run].request, c.fence)
    /\ runrows[c.run].status = "succeeded" /\ runrows[c.run].ends /\ runrows[c.run].settled
    /\ pointers' = [pointers EXCEPT !.current = c.to]
    /\ runrows' = [runrows EXCEPT ![c.run].ends = FALSE]
    /\ FirstExecution(c, [run |-> c.run, plan |-> c.plan, from |-> c.from, to |-> c.to,
                          revision |-> c.revision, generation |-> c.fence.generation])
    /\ UNCHANGED <<opsessions, graphrows, planrows, approvalrows, requestrows>>

LatestRun(q) == CHOOSE r \in DOMAIN runrows :
                /\ runrows[r].request = q
                /\ \A x \in DOMAIN runrows : runrows[x].request = q => x <= r

\* The latest run failed, was never paused and left nothing open.
Eligible(r) == runrows[r].status = "failed" /\ ~runrows[r].paused /\ runrows[r].settled

NextFence(c) ==
    CASE c.kind = "abandon-expired-claim" -> NoLease
      [] OTHER -> [worker |-> IF c.kind = "take-over-expired-claim" THEN c.worker
                              ELSE c.fence.worker,
                   generation |-> c.fence.generation + 1]

\* The request after a recovery.
Recovered(request, c) ==
    [request EXCEPT
        !.status = IF c.kind = "abandon-expired-claim" THEN "abandoned" ELSE @,
        !.claim = NextFence(c), !.expired = FALSE]

Recover(c) ==
    /\ c.kind \in Recoveries
    /\ New(c)
    /\ OwnedClaim(c.request, c.fence)
    /\ LatestRun(c.request) = c.run
    /\ IF c.kind = "renew-active-claim"
       THEN runrows[c.run].status = "claimed" /\ ~requestrows[c.request].expired
       ELSE Eligible(c.run) /\ requestrows[c.request].expired
    /\ requestrows' = [requestrows EXCEPT ![c.request] =
                          Recovered(requestrows[c.request], c)]
    /\ runrows' = [runrows EXCEPT ![c.run].ends = FALSE]
    /\ FirstExecution(c, [decision |-> c.kind, run |-> c.run, prior_fence |-> c.fence,
                          replacement |-> NextFence(c)])
    /\ UNCHANGED <<opsessions, pointers, graphrows, planrows, approvalrows>>

Retry(c) ==
    /\ c.kind = "retry-as-new-run"
    /\ New(c)
    /\ OwnedClaim(c.request, c.fence)
    /\ LatestRun(c.request) = c.run
    /\ Eligible(c.run) /\ ~requestrows[c.request].expired
    /\ runrows' = Append([runrows EXCEPT ![c.run].ends = FALSE], OpenRun(c.request, c.run))
    /\ FirstExecution(c, [decision |-> c.kind, prior |-> c.run, run |-> Len(runrows) + 1,
                          prior_fence |-> c.fence, replacement |-> c.fence])
    /\ UNCHANGED <<opsessions, pointers, graphrows, planrows, approvalrows, requestrows>>

\* RUN_FAILED is the run's last event and nothing it did is unresolved.
MayCompensate(r) ==
    runrows[r].status = "failed" /\ runrows[r].ends /\ runrows[r].settled

BeginRunCompensation(c) ==
    /\ c.kind = "begin-compensation"
    /\ New(c)
    /\ Pinned(c)
    /\ MayCompensate(c.run)
    /\ runrows' = [runrows EXCEPT ![c.run] = [@ EXCEPT !.status = "compensating",
                                                       !.ends = FALSE]]
    /\ FirstExecution(c, [decision |-> "begin-compensation", run |-> c.run])
    /\ UNCHANGED <<opsessions, pointers, graphrows, planrows, approvalrows, requestrows>>

-----------------------------------------------------------------------------
(* The surroundings. *)

LeaseExpires(q) ==
    /\ requestrows[q].status = "claimed" /\ ~requestrows[q].expired
    /\ requestrows' = [requestrows EXCEPT ![q].expired = TRUE]
    /\ UNCHANGED <<opsessions, oplog, pointers, graphrows, planrows, approvalrows, runrows,
                   replied>>

\* The last inverse effect is folded; no action of the session records it.
CompensationSettles(r) ==
    /\ runrows[r].status = "compensating"
    /\ \E status \in {"compensated", "uncompensated_failure"} :
          runrows' = [runrows EXCEPT ![r].status = status]
    /\ UNCHANGED <<opsessions, oplog, pointers, graphrows, planrows, approvalrows,
                   requestrows, replied>>

ReplayInit ==
    /\ opsessions = <<>> /\ oplog = <<>>
    /\ pointers = [current |-> 0, desired |-> 0, revision |-> 0]
    /\ graphrows = <<>> /\ planrows = <<>> /\ approvalrows = <<>>
    /\ requestrows = <<>> /\ runrows = <<>>
    /\ replied = {}

ReplayNext ==
    \/ \E c \in ServiceCommands :
          \/ ReplayCommand(c)
          \/ StartOperationSession(c) \/ EndOperationSession(c) \/ RecordOperationAction(c)
          \/ SetDesired(c) \/ RequestActivityPlan(c) \/ AskApproval(c) \/ Decide(c)
          \/ Admit(c) \/ Claim(c) \/ ChangeRun(c) \/ Advance(c)
          \/ Recover(c) \/ Retry(c) \/ BeginRunCompensation(c)
    \/ \E q \in DOMAIN requestrows : LeaseExpires(q)
    \/ \E r \in DOMAIN runrows : CompensationSettles(r)

ReplaySpec == ReplayInit /\ [][ReplayNext]_mvars

-----------------------------------------------------------------------------
\* The worker or the operator has lost the authority that the command acted under:
\* the claim has another fence, or the compensation it began is over.
Superseded(c, e) ==
    CASE c.kind = "claim-run" ->
            ~OwnedClaim(c.request, [worker |-> c.worker, generation |-> 1])
      [] c.kind \in RunKinds \cup {"advance-current-graph"} ->
            ~OwnedClaim(runrows[c.run].request, c.fence)
      [] c.kind \in Recoveries \cup {"retry-as-new-run"} ->
            requestrows[c.request].claim # e.payload.replacement
      [] c.kind = "begin-compensation" -> runrows[c.run].status # "compensating"
      [] OTHER -> FALSE

\* A command is answered with one action however often it is sent, and the action is
\* its own; it is answered again, also after its session has ended, until what it acted
\* under is superseded.  A log starts with the session, has every key once, and the
\* session has ended exactly when the log's last action, and no earlier one, ends it.  The
\* command services' lookup, replay and congruence checks, with keys used again for
\* another command, replies lost and retries racing recovery and compensation.
RepliesAreTheCommandsOwn ==
    /\ \A x, y \in replied : x.to = y.to => x = y
    /\ \A x \in replied :
          LET e == oplog[x.session][x.ordinal]
          IN  e.by = x.to /\ (Answers(x.to, x.session, x.ordinal) \/ Superseded(x.to, e))
    /\ \A s \in DOMAIN oplog :
          /\ oplog[s][1].type \in CreatesSession
          /\ \A n \in 2..Len(oplog[s]) : oplog[s][n].type \notin CreatesSession
          /\ \A m, n \in DOMAIN oplog[s] : oplog[s][m].key = oplog[s][n].key => m = n
          /\ \A n \in DOMAIN oplog[s] :
                oplog[s][n].type \in EndsSession <=>
                   n = Len(oplog[s]) /\ opsessions[s].status # "open"
=============================================================================
