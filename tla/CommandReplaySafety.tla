------------------------ MODULE CommandReplaySafety -------------------------
(***************************************************************************)
(* RepliesAreTheCommandsOwn for any commands of the services.  A row and   *)
(* an action keep what they were made with, so what a command found once   *)
(* it finds again; a fingerprint tells two commands with the same key      *)
(* apart; and what a service compares before it answers with an old action *)
(* changes only when the fence or the compensation it names does.  For a   *)
(* recovery and a retry that takes the history of the request: fences only *)
(* move on, the runs of a request are chained by one retry each, and a     *)
(* retry that follows a recovery acts under the recovery's fence or a      *)
(* later one.                                                              *)
(***************************************************************************)
EXTENDS CommandReplay, TLAPS

Decisions == Recoveries \cup {"retry-as-new-run"}

Fingerprints == {IntentOf(c) : c \in ServiceCommands}
Leases == LeaseFences \cup {NoLease}

RunStatuses == {"claimed", "running", "paused", "succeeded", "failed", "cancelled",
                "compensating", "compensated", "uncompensated_failure"}
ActionTypes == OperatorKinds \cup RunKinds
    \cup {"claim-run", "admit-execution", "advance-current-graph", "begin-compensation",
          "record-recovery-decision"}

\* What the actions of the log carry, by the command that wrote them.
Payloads ==
    {<<>>} \cup [graph : Ids, previous : Nat, revision : Nat]
    \cup [plan : Ids, base : Nat, desired : Nat, revision : Nat]
    \cup [approval : Ids] \cup [approval : Ids, decision : {"approved", "rejected"}]
    \cup [request : Ids] \cup [run : Ids, status : RunStatuses, generation : Nat]
    \cup [run : Ids, plan : Ids, from : Nat, to : Nat, revision : Nat, generation : Nat]
    \cup [decision : Recoveries, run : Ids, prior_fence : LeaseFences, replacement : Leases]
    \cup [decision : {"retry-as-new-run"}, prior : Ids, run : Ids,
          prior_fence : LeaseFences, replacement : LeaseFences]
    \cup [decision : {"begin-compensation"}, run : Ids]

Entries ==
    [type : ActionTypes, key : STRING, fingerprint : Fingerprints, actor : STRING,
     payload : Payloads, by : ServiceCommands]

\* Every row has its record's type, and the rows it names exist.
TablesTypeOK ==
    /\ opsessions \in Seq([status : {"open", "closed", "cancelled"}, key : STRING,
                           fingerprint : Fingerprints])
    /\ pointers \in [current : Nat, desired : Nat, revision : Nat]
    /\ graphrows \in Seq(STRING)
    /\ planrows \in Seq([session : Ids, base : Nat, desired : Nat, revision : Nat])
    /\ approvalrows \in Seq([session : Ids, plan : Ids, key : STRING,
                             fingerprint : Fingerprints,
                             decided : {Undecided} \cup
                                 [key : STRING, fingerprint : Fingerprints,
                                  decision : {"approved", "rejected"}]])
    /\ requestrows \in Seq([session : Ids, plan : Ids, key : STRING,
                            fingerprint : Fingerprints,
                            status : {"queued", "claimed", "abandoned"},
                            claim : Leases, expired : BOOLEAN])
    /\ runrows \in Seq([request : Ids, prior : Nat, status : RunStatuses,
                        paused : BOOLEAN, ends : BOOLEAN, settled : BOOLEAN])
    /\ \A a \in DOMAIN approvalrows : approvalrows[a].session \in DOMAIN opsessions
    /\ \A q \in DOMAIN requestrows : requestrows[q].session \in DOMAIN opsessions
    /\ \A r \in DOMAIN runrows : runrows[r].request \in DOMAIN requestrows

ReplayTypeOK ==
    /\ TablesTypeOK
    /\ oplog \in Seq(Seq(Entries)) /\ Len(oplog) = Len(opsessions)
    /\ replied \subseteq [to : ServiceCommands, session : Ids, ordinal : Ids]

\* The run failed, and nothing begins a compensation of it any more.
SettledFailure(r) == runrows[r].status = "failed" /\ ~runrows[r].ends

\* The row that a command of the four kinds looks for, in the session it acted in.
RowMade(c, s) ==
    /\ c.kind \in CreatesSession =>
          opsessions[s].key = c.key /\ opsessions[s].fingerprint = IntentOf(c)
    /\ c.kind = "request-approval" =>
          \E a \in DOMAIN approvalrows :
             /\ approvalrows[a].session = s /\ approvalrows[a].key = c.key
             /\ approvalrows[a].fingerprint = IntentOf(c)
    /\ c.kind = "decide-approval" =>
          /\ approvalrows[c.approval].session = s
          /\ approvalrows[c.approval].decided # Undecided
          /\ approvalrows[c.approval].decided.key = c.key
          /\ approvalrows[c.approval].decided.fingerprint = IntentOf(c)
    /\ c.kind = "admit-execution" =>
          \E q \in DOMAIN requestrows :
             /\ requestrows[q].session = s /\ requestrows[q].key = c.key
             /\ requestrows[q].fingerprint = IntentOf(c)

\* What a recovery or a retry wrote still says how its request went on.
RecoveryHeld(c, p) ==
    /\ p = [decision |-> c.kind, run |-> c.run, prior_fence |-> c.fence,
            replacement |-> NextFence(c)]
    /\ c.kind # "renew-active-claim" => SettledFailure(c.run)
    /\ c.kind = "abandon-expired-claim" =>
          /\ requestrows[c.request].status = "abandoned"
          /\ \A y \in DOMAIN runrows : runrows[y].request = c.request => y <= c.run

RetryHeld(c, p) ==
    /\ p = [decision |-> c.kind, prior |-> c.run, run |-> p.run, prior_fence |-> c.fence,
            replacement |-> c.fence]
    /\ SettledFailure(c.run)
    /\ p.run \in DOMAIN runrows /\ c.run < p.run
    /\ runrows[p.run].request = c.request /\ runrows[p.run].prior = c.run

\* The payload is the one the command wrote, and what it names is there.
PayloadHeld(c, p) ==
    /\ c.kind = "set-desired-graph" => p.graph \in DOMAIN graphrows
    /\ c.kind = "request-activity-plan" => p.plan \in DOMAIN planrows
          /\ p = [plan |-> p.plan, base |-> planrows[p.plan].base,
                  desired |-> planrows[p.plan].desired,
                  revision |-> planrows[p.plan].revision]
    /\ c.kind = "claim-run" => p.generation = 1
    /\ c.kind \in RunKinds =>
          p = [run |-> c.run, status |-> ResultOf(c.kind), generation |-> c.fence.generation]
    /\ c.kind = "advance-current-graph" =>
          p = [run |-> c.run, plan |-> c.plan, from |-> c.from, to |-> c.to,
               revision |-> c.revision, generation |-> c.fence.generation]
    /\ c.kind \in Recoveries => RecoveryHeld(c, p)
    /\ c.kind = "retry-as-new-run" => RetryHeld(c, p)
    /\ c.kind \in Decisions => requestrows[c.request].status # "queued"

\* The n-th action of session s is that of its command.
Own(s, n) ==
    LET e == oplog[s][n]
    IN  /\ e = Action(e.by, e.payload)
        /\ Known(e.by)
        /\ e.by.kind \in CreatesSession <=> n = 1
        /\ e.by.kind \notin CreatesSession => s = SessionOf(e.by)
        /\ RowMade(e.by, s)
        /\ PayloadHeld(e.by, e.payload)

LogsOwn == \A s \in DOMAIN oplog : \A n \in DOMAIN oplog[s] : Own(s, n)

\* A log has every key once, and an end exactly where its session has one.
LogsKeyed ==
    \A s \in DOMAIN oplog :
       /\ Len(oplog[s]) >= 1
       /\ \A m, n \in DOMAIN oplog[s] : oplog[s][m].key = oplog[s][n].key => m = n
       /\ \A n \in DOMAIN oplog[s] :
             oplog[s][n].by.kind \in EndsSession <=>
                n = Len(oplog[s]) /\ opsessions[s].status # "open"

SessionsKeyed ==
    \A s, t \in DOMAIN opsessions : opsessions[s].key = opsessions[t].key => s = t

RepliedOwn ==
    \A x \in replied :
       /\ x.session \in DOMAIN oplog /\ x.ordinal \in DOMAIN oplog[x.session]
       /\ oplog[x.session][x.ordinal].by = x.to

\* A lease is held exactly while the request is claimed, and a claimed request has a
\* latest run.
LeasesHeld ==
    \A q \in DOMAIN requestrows :
       /\ requestrows[q].status = "claimed" <=> requestrows[q].claim # NoLease
       /\ requestrows[q].status = "claimed" =>
             \E r \in DOMAIN runrows :
                /\ runrows[r].request = q
                /\ \A x \in DOMAIN runrows : runrows[x].request = q => x <= r

Decided(s, n) == oplog[s][n].by.kind \in Decisions
Retried(s, n) == oplog[s][n].by.kind = "retry-as-new-run"
Replacement(s, n) == oplog[s][n].payload.replacement

\* No decision of a request replaced its fence by one beyond the present.
FencesReached ==
    \A s \in DOMAIN oplog : \A n \in DOMAIN oplog[s] :
       Decided(s, n) /\ requestrows[oplog[s][n].by.request].status = "claimed" =>
          LET claim == requestrows[oplog[s][n].by.request].claim
          IN  /\ Replacement(s, n).generation <= claim.generation
              /\ Replacement(s, n).generation = claim.generation =>
                    Replacement(s, n) = claim

\* A retry of a run that a decision left, or of a later one, is under its fence or a
\* later one.
FencesFollow ==
    \A s \in DOMAIN oplog : \A m, n \in DOMAIN oplog[s] :
       /\ Decided(s, m) /\ Retried(s, n)
       /\ oplog[s][m].by.request = oplog[s][n].by.request
       /\ oplog[s][m].payload.run <= oplog[s][n].payload.prior
       => Replacement(s, m).generation <= Replacement(s, n).generation

\* A run with a later one of its request was retried, and once.
RunsChained ==
    \A x, y \in DOMAIN runrows :
       runrows[x].request = runrows[y].request /\ x < y =>
          \E n \in DOMAIN oplog[requestrows[runrows[x].request].session] :
             LET s == requestrows[runrows[x].request].session
             IN  Retried(s, n) /\ oplog[s][n].payload.prior = x

RetriedOnce ==
    \A s \in DOMAIN oplog : \A m, n \in DOMAIN oplog[s] :
       /\ Retried(s, m) /\ Retried(s, n)
       /\ oplog[s][m].payload.prior = oplog[s][n].payload.prior
       => m = n

\* The inductive invariant.
ReplayInvariant ==
    /\ ReplayTypeOK
    /\ LogsOwn /\ LogsKeyed /\ SessionsKeyed /\ RepliedOwn
    /\ LeasesHeld /\ FencesReached /\ FencesFollow
    /\ RunsChained /\ RetriedOnce

-----------------------------------------------------------------------------
(* Commands: their forms, and what a fingerprint tells apart.              *)

\* The fields of a command, by its kind, and which its fingerprint covers.
LEMMA CommandForms ==
  ASSUME NEW c \in ServiceCommands
  PROVE  /\ c.kind \in CreatesSession =>
              c \in [kind : CreatesSession, key : STRING, actor : STRING, title : STRING]
         /\ c.kind \in EndsSession =>
              c \in [kind : EndsSession, key : STRING, session : Ids, actor : STRING]
         /\ c.kind = "record-operation-action" =>
              c \in [kind : {"record-operation-action"}, key : STRING, session : Ids,
                     actor : STRING, action : OperatorKinds \ Reserved]
         /\ c.kind = "set-desired-graph" => c \in DesiredGraphCommands
         /\ c.kind = "request-activity-plan" => c \in PlanningCommands
         /\ c.kind = "request-approval" =>
              c \in [kind : {"request-approval"}, key : STRING, session : Ids,
                     actor : STRING, plan : Ids]
         /\ c.kind = "decide-approval" =>
              c \in [kind : {"decide-approval"}, key : STRING, session : Ids,
                     actor : STRING, approval : Ids, decision : {"approved", "rejected"}]
         /\ c.kind = "admit-execution" => c \in AdmissionCommands
         /\ c.kind = "claim-run" => c \in ClaimCommands
         /\ c.kind \in RunKinds => c \in RunCommands
         /\ c.kind = "advance-current-graph" => c \in AdvancementCommands
         /\ c.kind \in Recoveries \ {"take-over-expired-claim"} =>
              c \in [kind : Recoveries \ {"take-over-expired-claim"}, key : STRING,
                     request : Ids, run : Ids, fence : LeaseFences, actor : STRING,
                     authority : STRING]
         /\ c.kind = "take-over-expired-claim" =>
              c \in [kind : {"take-over-expired-claim"}, key : STRING, request : Ids,
                     run : Ids, fence : LeaseFences, actor : STRING, authority : STRING,
                     worker : STRING]
         /\ c.kind = "retry-as-new-run" => c \in RetryCommands
         /\ c.kind = "begin-compensation" => c \in CompensationCommands
         /\ c.kind \in CreatesSession \cup EndsSession
              \cup {"record-operation-action", "set-desired-graph", "request-activity-plan",
                    "request-approval", "decide-approval", "admit-execution", "claim-run",
                    "advance-current-graph", "retry-as-new-run", "begin-compensation"}
              \cup RunKinds \cup Recoveries
         /\ c.key \in STRING
<1> USE DEF CreatesSession, EndsSession, RunKinds, Recoveries
<1>1. CASE c \in SessionCommands
  BY <1>1 DEF SessionCommands
<1>2. CASE c \in DesiredGraphCommands \cup PlanningCommands \cup AdmissionCommands
  BY <1>2 DEF DesiredGraphCommands, PlanningCommands, AdmissionCommands
<1>3. CASE c \in ApprovalCommands
  BY <1>3 DEF ApprovalCommands
<1>4. CASE c \in ClaimCommands \cup RunCommands \cup AdvancementCommands
  BY <1>4 DEF ClaimCommands, RunCommands, AdvancementCommands
<1>5. CASE c \in RecoveryCommands
  BY <1>5 DEF RecoveryCommands
<1>6. CASE c \in RetryCommands \cup CompensationCommands
  BY <1>6 DEF RetryCommands, CompensationCommands
<1> QED
  BY <1>1, <1>2, <1>3, <1>4, <1>5, <1>6, CommandAssumption

\* Commands with the same restriction agree on the fields it keeps.
LEMMA RestrictKeeps ==
  ASSUME NEW c, NEW d, NEW S, NEW x \in S, Restrict(c, S) = Restrict(d, S)
  PROVE  c[x] = d[x]
<1>1. Restrict(c, S)[x] = c[x] /\ Restrict(d, S)[x] = d[x]
  BY DEF Restrict
<1> QED
  BY <1>1

\* The fields a fingerprint covers.
Covered(kind) ==
    CASE kind \in CreatesSession -> {"kind", "actor", "title"}
      [] kind \in EndsSession -> {"kind", "session", "actor"}
      [] kind = "record-operation-action" -> {"kind", "session", "actor", "action"}
      [] kind = "set-desired-graph" ->
            {"kind", "session", "actor", "expected", "revision", "graph"}
      [] kind = "request-activity-plan" ->
            {"kind", "session", "actor", "current", "desired", "revision", "key"}
      [] kind = "request-approval" -> {"kind", "session", "plan", "actor"}
      [] kind = "decide-approval" -> {"kind", "session", "approval", "actor", "decision"}
      [] kind = "admit-execution" -> {"kind", "session", "plan", "approval", "actor"}
      [] kind = "claim-run" -> {"kind", "request", "worker"}
      [] kind \in RunKinds -> {"kind", "run", "fence"}
      [] kind = "advance-current-graph" ->
            {"kind", "run", "plan", "from", "to", "revision", "fence"}
      [] kind = "take-over-expired-claim" ->
            {"kind", "request", "run", "fence", "actor", "authority", "worker"}
      [] kind \in (Recoveries \ {"take-over-expired-claim"}) \cup {"retry-as-new-run"} ->
            {"kind", "request", "run", "fence", "actor", "authority"}
      [] kind = "begin-compensation" ->
            {"kind", "request", "run", "plan", "from", "to", "revision", "actor",
             "authority", "key"}

\* Every fingerprint is the restriction of the command to the fields of its kind.
LEMMA IntentCovers ==
  ASSUME NEW c \in ServiceCommands
  PROVE  IntentOf(c) = Restrict(c, Covered(c.kind)) /\ "kind" \in Covered(c.kind)
<1>1. c.kind \in CreatesSession \cup EndsSession
        \cup {"record-operation-action", "set-desired-graph", "request-activity-plan",
              "request-approval", "decide-approval", "admit-execution", "claim-run",
              "advance-current-graph", "retry-as-new-run", "begin-compensation"}
        \cup RunKinds \cup Recoveries
  BY CommandForms
<1> USE DEF Covered, IntentOf, CreatesSession, EndsSession, Reserved, RunKinds, Recoveries
<1>2. CASE c.kind \in Reserved
  BY <1>2 DEF SessionIntent
<1>3. CASE c.kind \in {"set-desired-graph", "request-activity-plan"}
  BY <1>3 DEF DesiredGraphIntent, PlanningIntent
<1>4. CASE c.kind \in {"request-approval", "decide-approval", "admit-execution"}
  BY <1>4 DEF ApprovalIntent, AdmissionIntent
<1>5. CASE c.kind \in {"claim-run"} \cup RunKinds
  BY <1>5 DEF LifecycleIntent
<1>6. CASE c.kind \in {"advance-current-graph", "retry-as-new-run", "begin-compensation"}
  BY <1>6 DEF AdvancementIntent, RetryIntent, CompensationIntent
<1>7. CASE c.kind = "take-over-expired-claim"
  BY <1>7 DEF RecoveryIntent
<1>8. CASE c.kind \in Recoveries \ {"take-over-expired-claim"}
  BY <1>8 DEF RecoveryIntent
<1> QED
  BY <1>1, <1>2, <1>3, <1>4, <1>5, <1>6, <1>7, <1>8

\* A fingerprint names the kind, and with it the fields it covers.
LEMMA IntentOfItsKind ==
  ASSUME NEW c \in ServiceCommands, NEW d \in ServiceCommands, IntentOf(c) = IntentOf(d)
  PROVE  c.kind = d.kind /\ Restrict(c, Covered(c.kind)) = Restrict(d, Covered(c.kind))
<1>1. IntentOf(c)["kind"] = c.kind
  BY IntentCovers DEF Restrict
<1>2. IntentOf(d)["kind"] = d.kind
  BY IntentCovers DEF Restrict
<1> QED
  BY <1>1, <1>2, IntentCovers

\* Of the commands with one key, a fingerprint has one.
LEMMA FingerprintsTellApart ==
  ASSUME NEW c \in ServiceCommands, NEW d \in ServiceCommands,
         IntentOf(c) = IntentOf(d), c.key = d.key
  PROVE  c = d
<1>1. c.kind = d.kind
  BY IntentOfItsKind
<1>2. \A x \in Covered(c.kind) : c[x] = d[x]
  BY IntentOfItsKind, RestrictKeeps
<1> USE DEF Covered, CreatesSession, EndsSession, RunKinds, Recoveries
<1>3. CASE c.kind \in CreatesSession \cup EndsSession \cup {"record-operation-action"}
  BY <1>1, <1>2, <1>3, CommandForms
<1>4. CASE c.kind = "set-desired-graph"
  BY <1>1, <1>2, <1>4, CommandForms DEF DesiredGraphCommands
<1>5. CASE c.kind = "request-activity-plan"
  BY <1>1, <1>2, <1>5, CommandForms DEF PlanningCommands
<1>6. CASE c.kind \in {"request-approval", "decide-approval", "admit-execution"}
  BY <1>1, <1>2, <1>6, CommandForms DEF AdmissionCommands
<1>7. CASE c.kind = "claim-run"
  BY <1>1, <1>2, <1>7, CommandForms DEF ClaimCommands
<1>8. CASE c.kind \in RunKinds
  BY <1>1, <1>2, <1>8, CommandForms DEF RunCommands
<1>9. CASE c.kind = "advance-current-graph"
  BY <1>1, <1>2, <1>9, CommandForms DEF AdvancementCommands
<1>10. CASE c.kind = "take-over-expired-claim"
  BY <1>1, <1>2, <1>10, CommandForms
<1>11. CASE c.kind \in Recoveries \ {"take-over-expired-claim"}
  BY <1>1, <1>2, <1>11, CommandForms
<1>12. CASE c.kind = "retry-as-new-run"
  BY <1>1, <1>2, <1>12, CommandForms DEF RetryCommands
<1>13. CASE c.kind = "begin-compensation"
  BY <1>1, <1>2, <1>13, CommandForms DEF CompensationCommands
<1>14. c.kind \in CreatesSession \cup EndsSession
        \cup {"record-operation-action", "set-desired-graph", "request-activity-plan",
              "request-approval", "decide-approval", "admit-execution", "claim-run",
              "advance-current-graph", "retry-as-new-run", "begin-compensation"}
        \cup RunKinds \cup Recoveries
  BY CommandForms
<1> QED
  BY <1>3, <1>4, <1>5, <1>6, <1>7, <1>8, <1>9, <1>10, <1>11, <1>12, <1>13, <1>14

-----------------------------------------------------------------------------
(* The log.                                                                *)

\* The action a command writes has the type of an entry.
LEMMA ActionIsEntry ==
  ASSUME NEW c \in ServiceCommands, NEW p \in Payloads
  PROVE  Action(c, p) \in Entries
<1>1. ActionType(c) \in ActionTypes
  <2>1. CASE c.kind = "record-operation-action"
    BY <2>1, CommandForms DEF ActionType, ActionTypes
  <2>2. CASE c.kind \in Decisions
    BY <2>2 DEF ActionType, ActionTypes, Decisions, Recoveries
  <2>3. CASE c.kind \notin Decisions \cup {"record-operation-action"}
    <3>1. ActionType(c) = c.kind
      BY <2>3 DEF ActionType, Decisions
    <3> QED
      BY <2>3, <3>1, CommandForms
         DEF ActionTypes, OperatorKinds, InSession, CreatesSession, EndsSession, Decisions
  <2> QED
    BY <2>1, <2>2, <2>3
<1>2. Actor(c) \in STRING
  <2>1. CASE c.kind \in CreatesSession \cup EndsSession
                \cup {"record-operation-action", "set-desired-graph",
                      "request-activity-plan", "request-approval", "decide-approval",
                      "admit-execution", "claim-run"}
    BY <2>1, CommandForms
       DEF Actor, CreatesSession, EndsSession, RunKinds,
           Recoveries, DesiredGraphCommands, PlanningCommands, AdmissionCommands, ClaimCommands
  <2>2. CASE c.kind \in RunKinds \cup {"advance-current-graph"}
    BY <2>2, CommandForms DEF Actor, CreatesSession, EndsSession, RunKinds,
           Recoveries, RunCommands, AdvancementCommands, LeaseFences
  <2>3. CASE c.kind \in Recoveries \cup {"retry-as-new-run", "begin-compensation"}
    BY <2>3, CommandForms DEF Actor, CreatesSession, EndsSession, RunKinds,
           Recoveries, RetryCommands, CompensationCommands
  <2> QED
    BY <2>1, <2>2, <2>3, CommandForms
<1>3. IntentOf(c) \in Fingerprints /\ c.key \in STRING
  BY CommandForms DEF Fingerprints
<1> QED
  BY <1>1, <1>2, <1>3 DEF Action, Entries

\* Which references a command has, by its kind.
InItsSession == EndsSession \cup {"record-operation-action", "set-desired-graph",
    "request-activity-plan", "request-approval", "decide-approval", "admit-execution"}
OfItsRequest == {"claim-run", "retry-as-new-run", "begin-compensation"} \cup Recoveries
OfItsRun == RunKinds \cup {"advance-current-graph"}

\* A command names its session, its request or its run, by its kind.
LEMMA CommandRefers ==
  ASSUME NEW c \in ServiceCommands, c.kind \notin CreatesSession
  PROVE  /\ c.kind \in InItsSession \cup OfItsRequest \cup OfItsRun
         /\ c.kind \in InItsSession =>
              "session" \in DOMAIN c /\ "request" \notin DOMAIN c /\ "run" \notin DOMAIN c
         /\ c.kind \in OfItsRequest => "session" \notin DOMAIN c /\ "request" \in DOMAIN c
         /\ c.kind \in OfItsRequest \ {"claim-run"} => "run" \in DOMAIN c
         /\ c.kind \in OfItsRun =>
              "session" \notin DOMAIN c /\ "request" \notin DOMAIN c /\ "run" \in DOMAIN c
<1> USE DEF CreatesSession, EndsSession, RunKinds, Recoveries
<1>1. c.kind \in InItsSession \cup OfItsRequest \cup OfItsRun
  BY CommandForms DEF InItsSession, OfItsRequest, OfItsRun
<1>2. CASE c.kind \in InItsSession
  BY <1>1, <1>2, CommandForms
     DEF InItsSession, OfItsRequest, OfItsRun, DesiredGraphCommands, PlanningCommands,
         AdmissionCommands
<1>3. CASE c.kind \in OfItsRequest
  BY <1>1, <1>3, CommandForms
     DEF InItsSession, OfItsRequest, OfItsRun, ClaimCommands, RetryCommands,
         CompensationCommands
<1>4. CASE c.kind \in OfItsRun
  BY <1>1, <1>4, CommandForms
     DEF InItsSession, OfItsRequest, OfItsRun, RunCommands, AdvancementCommands
<1> QED
  BY <1>1, <1>2, <1>3, <1>4

\* The session a command's action goes to is there.
LEMMA SessionFound ==
  ASSUME ReplayTypeOK, NEW c \in ServiceCommands, c.kind \notin CreatesSession, Known(c)
  PROVE  /\ SessionOf(c) \in DOMAIN opsessions
         /\ c.kind \in InItsSession => SessionOf(c) = c.session
         /\ c.kind \in OfItsRequest =>
              c.request \in DOMAIN requestrows
              /\ SessionOf(c) = requestrows[c.request].session
         /\ c.kind \in OfItsRun =>
              c.run \in DOMAIN runrows /\ runrows[c.run].request \in DOMAIN requestrows
              /\ SessionOf(c) = requestrows[runrows[c.run].request].session
         /\ c.kind \in OfItsRequest \ {"claim-run"} =>
              c.run \in DOMAIN runrows /\ runrows[c.run].request = c.request
<1>1. CASE c.kind \in InItsSession
  BY <1>1, CommandRefers DEF Known, SessionOf, InItsSession, OfItsRequest, OfItsRun,
     EndsSession, Recoveries, RunKinds
<1>2. CASE c.kind \in OfItsRequest
  <2>1. c.request \in DOMAIN requestrows
    BY <1>2, CommandRefers DEF Known
  <2>2. "run" \in DOMAIN c => c.run \in DOMAIN runrows /\ runrows[c.run].request = c.request
    BY <1>2, CommandRefers DEF Known
  <2>3. SessionOf(c) = requestrows[c.request].session
    BY <1>2, <2>2, CommandRefers DEF SessionOf
  <2> QED
    BY <1>2, <2>1, <2>2, <2>3, CommandRefers
       DEF ReplayTypeOK, TablesTypeOK, InItsSession, OfItsRequest, OfItsRun, EndsSession,
           Recoveries, RunKinds
<1>3. CASE c.kind \in OfItsRun
  <2>1. c.run \in DOMAIN runrows /\ runrows[c.run].request \in DOMAIN requestrows
    BY <1>3, CommandRefers DEF Known, ReplayTypeOK, TablesTypeOK
  <2>2. SessionOf(c) = requestrows[runrows[c.run].request].session
    BY <1>3, CommandRefers DEF SessionOf
  <2> QED
    BY <1>3, <2>1, <2>2 DEF ReplayTypeOK, TablesTypeOK, InItsSession, OfItsRequest, OfItsRun,
       EndsSession, Recoveries, RunKinds
<1> QED
  BY <1>1, <1>2, <1>3, CommandRefers

\* A first execution adds the command's action to the end of its session's log.
LEMMA FirstExecutionAppends ==
  ASSUME ReplayTypeOK, NEW c \in ServiceCommands, c.kind \notin CreatesSession, Known(c),
         NEW p \in Payloads, FirstExecution(c, p), NEW s, s = SessionOf(c)
  PROVE  /\ s \in DOMAIN oplog /\ opsessions[s].status = "open"
         /\ oplog' \in Seq(Seq(Entries)) /\ Len(oplog') = Len(oplog)
         /\ DOMAIN oplog' = DOMAIN oplog
         /\ \A t \in DOMAIN oplog : t # s => oplog'[t] = oplog[t]
         /\ Len(oplog'[s]) = Len(oplog[s]) + 1
         /\ \A n \in DOMAIN oplog[s] : n \in DOMAIN oplog'[s] /\ oplog'[s][n] = oplog[s][n]
         /\ \A n \in DOMAIN oplog'[s] : n \in DOMAIN oplog[s] \/ n = Len(oplog[s]) + 1
         /\ Len(oplog[s]) + 1 \in DOMAIN oplog'[s]
         /\ oplog'[s][Len(oplog[s]) + 1] = Action(c, p)
         /\ replied' = replied \cup {[to |-> c, session |-> s, ordinal |-> Len(oplog[s]) + 1]}
         /\ Len(oplog[s]) \in Nat
<1>1. s \in DOMAIN oplog /\ opsessions[s].status = "open"
  BY SessionFound DEF FirstExecution, ReplayTypeOK, TablesTypeOK
<1>2. oplog' = [oplog EXCEPT ![s] = Append(oplog[s], Action(c, p))]
  BY DEF FirstExecution
<1>3. Action(c, p) \in Entries
  BY ActionIsEntry
<1>4. oplog \in Seq(Seq(Entries)) /\ oplog[s] \in Seq(Entries)
  BY <1>1 DEF ReplayTypeOK, TablesTypeOK
<1>5. Append(oplog[s], Action(c, p)) \in Seq(Entries)
  BY <1>3, <1>4
<1>6. oplog' \in Seq(Seq(Entries)) /\ Len(oplog') = Len(oplog) /\ DOMAIN oplog' = DOMAIN oplog
  BY <1>1, <1>2, <1>4, <1>5
<1>7. oplog'[s] = Append(oplog[s], Action(c, p))
  BY <1>1, <1>2, <1>4
<1>8. replied' = replied \cup {[to |-> c, session |-> s, ordinal |-> Len(oplog[s]) + 1]}
  BY DEF FirstExecution, AnswerWith
<1> QED
  BY <1>1, <1>2, <1>3, <1>4, <1>6, <1>7, <1>8

-----------------------------------------------------------------------------
(* What every step keeps.                                                  *)

LogKept ==
    /\ \A s \in DOMAIN opsessions :
          /\ s \in DOMAIN opsessions'
          /\ opsessions'[s].key = opsessions[s].key
          /\ opsessions'[s].fingerprint = opsessions[s].fingerprint
    /\ \A s \in DOMAIN oplog :
          /\ s \in DOMAIN oplog'
          /\ \A n \in DOMAIN oplog[s] : n \in DOMAIN oplog'[s] /\ oplog'[s][n] = oplog[s][n]

RowsKept ==
    /\ \A g \in DOMAIN graphrows : g \in DOMAIN graphrows'
    /\ \A p \in DOMAIN planrows : p \in DOMAIN planrows' /\ planrows'[p] = planrows[p]
    /\ \A a \in DOMAIN approvalrows :
          /\ a \in DOMAIN approvalrows'
          /\ approvalrows'[a].session = approvalrows[a].session
          /\ approvalrows'[a].key = approvalrows[a].key
          /\ approvalrows'[a].fingerprint = approvalrows[a].fingerprint
          /\ approvalrows[a].decided # Undecided =>
                approvalrows'[a].decided = approvalrows[a].decided

RequestsKept ==
    \A q \in DOMAIN requestrows :
       /\ q \in DOMAIN requestrows'
       /\ requestrows'[q].session = requestrows[q].session
       /\ requestrows'[q].key = requestrows[q].key
       /\ requestrows'[q].fingerprint = requestrows[q].fingerprint
       /\ requestrows[q].status = "abandoned" => requestrows'[q].status = "abandoned"
       /\ requestrows[q].status # "queued" => requestrows'[q].status # "queued"

RunsKept ==
    /\ \A r \in DOMAIN runrows :
          /\ r \in DOMAIN runrows'
          /\ runrows'[r].request = runrows[r].request
          /\ runrows'[r].prior = runrows[r].prior
          /\ SettledFailure(r) => runrows'[r].status = "failed" /\ ~runrows'[r].ends
    /\ \A r \in DOMAIN runrows' :
          \/ r \in DOMAIN runrows
          \/ requestrows'[runrows'[r].request].status = "claimed"

PastKept == LogKept /\ RowsKept /\ RequestsKept /\ RunsKept

\* Every session has a log, of entries.
LEMMA LogTyped ==
  ASSUME ReplayTypeOK
  PROVE  /\ DOMAIN oplog = DOMAIN opsessions
         /\ \A s \in DOMAIN oplog :
               /\ oplog[s] \in Seq(Entries) /\ DOMAIN oplog[s] = 1 .. Len(oplog[s])
               /\ Len(oplog[s]) \in Nat
               /\ \A n \in DOMAIN oplog[s] :
                     oplog[s][n] \in Entries /\ oplog[s][n].by \in ServiceCommands
<1>1. DOMAIN oplog = DOMAIN opsessions /\ oplog \in Seq(Seq(Entries))
  BY DEF ReplayTypeOK, TablesTypeOK
<1>2. \A e \in Entries : e.by \in ServiceCommands
  BY DEF Entries
<1> QED
  BY <1>1, <1>2

\* An approval that is not decided has no decision.
LEMMA UndecidedHasNone == Undecided.decision = "none"
BY DEF Undecided

\* What a command refers to stays.
LEMMA KnownKept ==
  ASSUME PastKept, NEW c, Known(c)
  PROVE  Known(c)'
BY DEF PastKept, LogKept, RowsKept, RequestsKept, RunsKept, Known

\* A command's session stays the same: requests and runs keep theirs.
LEMMA SessionOfKept ==
  ASSUME ReplayTypeOK, PastKept, NEW c \in ServiceCommands, c.kind \notin CreatesSession, Known(c)
  PROVE  SessionOf(c)' = SessionOf(c)
<1>1. CASE c.kind \in InItsSession
  BY <1>1, CommandRefers DEF SessionOf
<1>2. CASE c.kind \in OfItsRequest
  <2>1. c.request \in DOMAIN requestrows
    BY <1>2, SessionFound
  <2>2. "run" \in DOMAIN c => c.run \in DOMAIN runrows /\ runrows[c.run].request = c.request
    BY <1>2, CommandRefers DEF Known
  <2>3. "run" \in DOMAIN c => runrows'[c.run].request = c.request
    BY <2>2 DEF PastKept, RunsKept
  <2> QED
    BY <1>2, <2>1, <2>2, <2>3, CommandRefers DEF SessionOf, PastKept, RequestsKept
<1>3. CASE c.kind \in OfItsRun
  BY <1>3, CommandRefers, SessionFound DEF SessionOf, PastKept, RequestsKept, RunsKept
<1> QED
  BY <1>1, <1>2, <1>3, CommandRefers

\* The row a command made stays its row.
LEMMA RowMadeKept ==
  ASSUME ReplayTypeOK, PastKept, NEW c \in ServiceCommands, Known(c),
         NEW s \in DOMAIN opsessions, RowMade(c, s)
  PROVE  RowMade(c, s)'
<1>1. CASE c.kind \in CreatesSession
  BY <1>1 DEF RowMade, PastKept, LogKept, CreatesSession
<1>2. CASE c.kind = "request-approval"
  BY <1>2 DEF RowMade, PastKept, RowsKept, CreatesSession
<1>3. CASE c.kind = "decide-approval"
  <2>1. c.approval \in DOMAIN approvalrows
    BY <1>3, CommandForms DEF Known
  <2>2. approvalrows[c.approval].decided # Undecided
    BY <1>3 DEF RowMade
  <2> QED
    BY <1>3, <2>1, <2>2 DEF RowMade, PastKept, RowsKept, CreatesSession
<1>4. CASE c.kind = "admit-execution"
  BY <1>4 DEF RowMade, PastKept, RequestsKept, CreatesSession
<1> QED
  BY <1>1, <1>2, <1>3, <1>4 DEF RowMade

\* What an action recorded stays true of the rows it names.
LEMMA PayloadHeldKept ==
  ASSUME ReplayTypeOK, PastKept, NEW c \in ServiceCommands, Known(c), NEW p, PayloadHeld(c, p)
  PROVE  PayloadHeld(c, p)'
<1>1. CASE c.kind \notin Decisions
  BY <1>1 DEF PayloadHeld, PastKept, RowsKept, Decisions
<1>2. CASE c.kind \in Decisions
  <2>1. c.request \in DOMAIN requestrows /\ c.run \in DOMAIN runrows
    BY <1>2, SessionFound DEF Decisions, OfItsRequest, Recoveries, CreatesSession
  <2>2. requestrows'[c.request].status # "queued"
    BY <1>2, <2>1 DEF PayloadHeld, PastKept, RequestsKept
  <2>3. SettledFailure(c.run) => SettledFailure(c.run)'
    BY <2>1 DEF PastKept, RunsKept, SettledFailure
  <2>4. ASSUME c.kind \in Recoveries PROVE RecoveryHeld(c, p)'
    <3>1. RecoveryHeld(c, p)
      BY <2>4 DEF PayloadHeld
    <3>2. NextFence(c)' = NextFence(c)
      BY DEF NextFence
    <3>3. ASSUME c.kind = "abandon-expired-claim", NEW y \in DOMAIN runrows',
                 runrows'[y].request = c.request
          PROVE  y <= c.run
      <4>1. requestrows'[c.request].status = "abandoned"
        BY <2>1, <3>1, <3>3 DEF RecoveryHeld, PastKept, RequestsKept
      <4>2. y \in DOMAIN runrows
        BY <3>3, <4>1 DEF PastKept, RunsKept
      <4> QED
        BY <3>1, <3>3, <4>2 DEF RecoveryHeld, PastKept, RunsKept
    <3> QED
      BY <2>1, <2>3, <3>1, <3>2, <3>3 DEF RecoveryHeld, PastKept, RequestsKept
  <2>5. ASSUME c.kind = "retry-as-new-run" PROVE RetryHeld(c, p)'
    BY <2>1, <2>3, <2>5 DEF PayloadHeld, RetryHeld, PastKept, RunsKept
  <2> QED
    BY <1>2, <2>2, <2>4, <2>5 DEF PayloadHeld, Decisions, Recoveries, RunKinds
<1> QED
  BY <1>1, <1>2

\* An action that was its command's stays it.
LEMMA OwnKept ==
  ASSUME ReplayTypeOK, PastKept, NEW s \in DOMAIN oplog, NEW n \in DOMAIN oplog[s], Own(s, n)
  PROVE  Own(s, n)'
<1>1. PICK e \in Entries : e = oplog[s][n] /\ e = oplog'[s][n]
  BY DEF ReplayTypeOK, TablesTypeOK, PastKept, LogKept
<1>2. e.by \in ServiceCommands
  BY DEF Entries
<1>3. PICK c \in ServiceCommands : c = e.by
  BY <1>2
<1>4. e = Action(c, e.payload) /\ Known(c) /\ RowMade(c, s) /\ PayloadHeld(c, e.payload)
      /\ (c.kind \in CreatesSession <=> n = 1)
      /\ (c.kind \notin CreatesSession => s = SessionOf(c))
  BY <1>1, <1>3 DEF Own
<1>5. Known(c)'
  BY <1>4, KnownKept
<1>6. c.kind \notin CreatesSession => s = SessionOf(c)'
  BY <1>4, SessionOfKept
<1>7. s \in DOMAIN opsessions
  BY DEF ReplayTypeOK, TablesTypeOK
<1>8. RowMade(c, s)'
  BY <1>4, <1>7, RowMadeKept
<1>9. PICK p : p = e.payload
  OBVIOUS
<1>10. PayloadHeld(c, p)'
  BY <1>4, <1>9, PayloadHeldKept
<1>11. Action(c, p)' = Action(c, p)
  BY DEF Action
<1> QED
  BY <1>1, <1>3, <1>4, <1>5, <1>6, <1>8, <1>9, <1>10, <1>11 DEF Own

-----------------------------------------------------------------------------
(* A first execution, whatever its command.                                *)

\* The sessions a step leaves: the same, under the same keys, ended where it says.
SessionsStay(ended) ==
    /\ DOMAIN opsessions' = DOMAIN opsessions
    /\ \A s \in DOMAIN opsessions :
          /\ opsessions'[s].key = opsessions[s].key
          /\ opsessions'[s].fingerprint = opsessions[s].fingerprint
          /\ s \notin ended => opsessions'[s].status = opsessions[s].status
          /\ s \in ended => opsessions'[s].status # "open"

\* A first execution takes nothing from any log.
LEMMA FirstExecutionKeepsLog ==
  ASSUME ReplayTypeOK, NEW c \in ServiceCommands, c.kind \notin CreatesSession, New(c),
         NEW p \in Payloads, FirstExecution(c, p), NEW ended, SessionsStay(ended)
  PROVE  LogKept
<1>1. PICK s : s = SessionOf(c)
  OBVIOUS
<1>2. \A t \in DOMAIN oplog : t # s => oplog'[t] = oplog[t]
  BY <1>1, FirstExecutionAppends DEF New
<1>3. \A n \in DOMAIN oplog[s] : n \in DOMAIN oplog'[s] /\ oplog'[s][n] = oplog[s][n]
  BY <1>1, FirstExecutionAppends DEF New
<1>4. DOMAIN oplog' = DOMAIN oplog
  BY <1>1, FirstExecutionAppends DEF New
<1> QED
  BY <1>2, <1>3, <1>4 DEF LogKept, SessionsStay

\* A first execution's action and reply are the command's own.
LEMMA FirstExecutionOwns ==
  ASSUME ReplayTypeOK, LogsOwn, LogsKeyed, RepliedOwn, PastKept,
         NEW c \in ServiceCommands, c.kind \notin CreatesSession, New(c),
         NEW p \in Payloads, FirstExecution(c, p), NEW s, s = SessionOf(c),
         RowMade(c, s)', PayloadHeld(c, p)'
  PROVE  LogsOwn' /\ RepliedOwn'
<1>1. PICK new : new = Len(oplog[s]) + 1
  OBVIOUS
<1>2. /\ s \in DOMAIN oplog /\ DOMAIN oplog' = DOMAIN oplog
      /\ \A t \in DOMAIN oplog : t # s => oplog'[t] = oplog[t]
      /\ \A n \in DOMAIN oplog[s] : n \in DOMAIN oplog'[s] /\ oplog'[s][n] = oplog[s][n]
      /\ \A n \in DOMAIN oplog'[s] : n \in DOMAIN oplog[s] \/ n = new
      /\ new \in DOMAIN oplog'[s] /\ oplog'[s][new] = Action(c, p)
      /\ replied' = replied \cup {[to |-> c, session |-> s, ordinal |-> new]}
      /\ Len(oplog[s]) \in Nat
  BY <1>1, FirstExecutionAppends DEF New
<1>3. SessionOf(c)' = s
  BY SessionOfKept DEF New
<1>4. Own(s, new)'
  <2>2. new # 1
    BY <1>1, <1>2 DEF LogsKeyed
  <2>3. Known(c)'
    BY KnownKept DEF New
  <2>4. Action(c, p)' = Action(c, p)
    BY DEF Action
  <2>5. Action(c, p).by = c /\ Action(c, p).payload = p
    BY DEF Action
  <2>6. PICK e \in {Action(c, p)} : oplog'[s][new] = e /\ e.by = c /\ e.payload = p
    BY <1>2, <2>5
  <2> QED
    BY <1>3, <2>2, <2>3, <2>4, <2>6 DEF Own
<1>5. ASSUME NEW t \in DOMAIN oplog', NEW n \in DOMAIN oplog'[t] PROVE Own(t, n)'
  <2>1. CASE t = s /\ n = new
    BY <1>4, <2>1
  <2>2. CASE t \in DOMAIN oplog /\ n \in DOMAIN oplog[t]
    BY <2>2, OwnKept DEF LogsOwn
  <2> QED
    BY <1>2, <2>1, <2>2
<1>6. LogsOwn'
  BY <1>5 DEF LogsOwn
<1>7. RepliedOwn'
  <2>1. ASSUME NEW x \in replied'
        PROVE  /\ x.session \in DOMAIN oplog' /\ x.ordinal \in DOMAIN oplog'[x.session]
               /\ oplog'[x.session][x.ordinal].by = x.to
    <3>1. CASE x \in replied
      BY <3>1 DEF RepliedOwn, PastKept, LogKept
    <3>2. CASE x = [to |-> c, session |-> s, ordinal |-> new]
      BY <1>2, <3>2 DEF Action
    <3> QED
      BY <1>2, <3>1, <3>2
  <2> QED
    BY <2>1 DEF RepliedOwn
<1> QED
  BY <1>6, <1>7

\* A first execution writes under a new key, in an open session.
LEMMA FirstExecutionKeys ==
  ASSUME ReplayTypeOK, LogsOwn, LogsKeyed, SessionsKeyed,
         NEW c \in ServiceCommands, c.kind \notin CreatesSession, New(c),
         NEW p \in Payloads, FirstExecution(c, p), NEW ended, SessionsStay(ended),
         ended = IF c.kind \in EndsSession THEN {SessionOf(c)} ELSE {}
  PROVE  LogsKeyed' /\ SessionsKeyed'
<1>1. PICK s : s = SessionOf(c)
  OBVIOUS
<1> DEFINE new == Len(oplog[s]) + 1
<1>2. /\ s \in DOMAIN oplog /\ DOMAIN oplog' = DOMAIN oplog /\ opsessions[s].status = "open"
      /\ \A t \in DOMAIN oplog : t # s => oplog'[t] = oplog[t]
      /\ \A n \in DOMAIN oplog[s] : n \in DOMAIN oplog'[s] /\ oplog'[s][n] = oplog[s][n]
      /\ \A n \in DOMAIN oplog'[s] : n \in DOMAIN oplog[s] \/ n = new
      /\ new \in DOMAIN oplog'[s] /\ oplog'[s][new] = Action(c, p)
      /\ Len(oplog'[s]) = new /\ Len(oplog[s]) \in Nat
  BY <1>1, FirstExecutionAppends DEF New
<1>3. DOMAIN oplog = DOMAIN opsessions /\ DOMAIN oplog[s] = 1 .. Len(oplog[s])
  BY <1>2 DEF ReplayTypeOK, TablesTypeOK
<1>4. \A n \in DOMAIN oplog[s] : oplog[s][n].key # c.key
  BY <1>1 DEF New, ActionsFor
<1>5. Action(c, p).key = c.key /\ Action(c, p).by = c
  BY DEF Action
<1>6. ASSUME NEW t \in DOMAIN oplog, t # s
      PROVE  /\ Len(oplog'[t]) >= 1
             /\ \A m, n \in DOMAIN oplog'[t] : oplog'[t][m].key = oplog'[t][n].key => m = n
             /\ \A n \in DOMAIN oplog'[t] :
                   oplog'[t][n].by.kind \in EndsSession <=>
                      n = Len(oplog'[t]) /\ opsessions'[t].status # "open"
  <2>1. oplog'[t] = oplog[t] /\ opsessions'[t].status = opsessions[t].status
    BY <1>1, <1>2, <1>3, <1>6 DEF SessionsStay
  <2> QED
    BY <2>1 DEF LogsKeyed
<1>7. /\ Len(oplog'[s]) >= 1
      /\ \A m, n \in DOMAIN oplog'[s] : oplog'[s][m].key = oplog'[s][n].key => m = n
  <2>1. \A m, n \in DOMAIN oplog[s] : oplog[s][m].key = oplog[s][n].key => m = n
    BY <1>2 DEF LogsKeyed
  <2> QED
    BY <1>2, <1>4, <1>5, <2>1
<1>8. ASSUME NEW n \in DOMAIN oplog'[s]
      PROVE  oplog'[s][n].by.kind \in EndsSession <=>
                n = Len(oplog'[s]) /\ opsessions'[s].status # "open"
  <2>1. CASE n = new
    <3>1. c.kind \in EndsSession <=> opsessions'[s].status # "open"
      BY <1>1, <1>2, <1>3 DEF SessionsStay
    <3> QED
      BY <1>2, <1>5, <2>1, <3>1
  <2>2. CASE n \in DOMAIN oplog[s]
    <3>1. oplog[s][n].by.kind \notin EndsSession
      BY <1>2, <2>2 DEF LogsKeyed
    <3> QED
      BY <1>2, <1>3, <2>2, <3>1
  <2> QED
    BY <1>2, <2>1, <2>2
<1>9. LogsKeyed'
  BY <1>2, <1>6, <1>7, <1>8 DEF LogsKeyed
<1>10. SessionsKeyed'
  BY DEF SessionsKeyed, SessionsStay
<1> QED
  BY <1>9, <1>10

\* A step that decides nothing and moves no fence keeps what holds of fences and runs.
FencesStay ==
    /\ \A q \in DOMAIN requestrows' :
          \/ /\ q \in DOMAIN requestrows
             /\ requestrows'[q].status = requestrows[q].status
             /\ requestrows'[q].claim = requestrows[q].claim
          \/ requestrows'[q].status = "queued" /\ requestrows'[q].claim = NoLease
    /\ DOMAIN runrows' = DOMAIN runrows
    /\ \A r \in DOMAIN runrows : runrows'[r].request = runrows[r].request

NoDecision ==
    \A s \in DOMAIN oplog' : \A n \in DOMAIN oplog'[s] :
       \/ s \in DOMAIN oplog /\ n \in DOMAIN oplog[s] /\ oplog'[s][n] = oplog[s][n]
       \/ oplog'[s][n].by.kind \notin Decisions

\* A step whose new actions decide nothing.
LEMMA DecisionsKept ==
  ASSUME NoDecision, FencesFollow, RetriedOnce
  PROVE  FencesFollow' /\ RetriedOnce'
<1>1. ASSUME NEW s \in DOMAIN oplog', NEW m \in DOMAIN oplog'[s], NEW n \in DOMAIN oplog'[s],
             Decided(s, m)', Retried(s, n)'
      PROVE  /\ s \in DOMAIN oplog /\ m \in DOMAIN oplog[s] /\ n \in DOMAIN oplog[s]
             /\ oplog'[s][m] = oplog[s][m] /\ oplog'[s][n] = oplog[s][n]
  BY <1>1 DEF NoDecision, Decided, Retried, Decisions
<1>2. FencesFollow'
  BY <1>1 DEF FencesFollow, Decided, Retried, Replacement
<1>3. RetriedOnce'
  BY <1>1 DEF RetriedOnce, Decided, Retried, Decisions
<1> QED
  BY <1>2, <1>3

\* What holds of fences and runs stays over a step that decides nothing.
LEMMA FencesKept ==
  ASSUME ReplayTypeOK, LogsOwn, PastKept, FencesStay, NoDecision,
         LeasesHeld, FencesReached, FencesFollow, RunsChained, RetriedOnce
  PROVE  LeasesHeld' /\ FencesReached' /\ FencesFollow' /\ RunsChained' /\ RetriedOnce'
<1>1. LeasesHeld'
  BY DEF LeasesHeld, FencesStay
<1>2. FencesReached'
  <2>1. ASSUME NEW s \in DOMAIN oplog', NEW n \in DOMAIN oplog'[s],
               oplog'[s][n].by.kind \in Decisions,
               requestrows'[oplog'[s][n].by.request].status = "claimed"
        PROVE  /\ oplog'[s][n].payload.replacement.generation
                     <= requestrows'[oplog'[s][n].by.request].claim.generation
               /\ oplog'[s][n].payload.replacement.generation
                     = requestrows'[oplog'[s][n].by.request].claim.generation =>
                  oplog'[s][n].payload.replacement
                     = requestrows'[oplog'[s][n].by.request].claim
    <3>1. s \in DOMAIN oplog /\ n \in DOMAIN oplog[s] /\ oplog'[s][n] = oplog[s][n]
      BY <2>1 DEF NoDecision
    <3>2. PICK q : q = oplog[s][n].by.request
      OBVIOUS
    <3>3. q \in DOMAIN requestrows
      <4>1. oplog[s][n].by \in ServiceCommands
        BY <3>1, LogTyped
      <4>2. Known(oplog[s][n].by)
        BY <3>1 DEF LogsOwn, Own
      <4>3. oplog[s][n].by.kind \in OfItsRequest
        BY <2>1, <3>1 DEF Decisions, OfItsRequest
      <4> QED
        BY <3>2, <4>1, <4>2, <4>3, SessionFound
           DEF OfItsRequest, Recoveries, CreatesSession
    <3>4. /\ requestrows'[q].status = requestrows[q].status
          /\ requestrows'[q].claim = requestrows[q].claim
      BY <2>1, <3>1, <3>2, <3>3 DEF FencesStay, PastKept, RequestsKept
    <3> QED
      BY <2>1, <3>1, <3>2, <3>4 DEF FencesReached, Decided, Replacement
  <2> QED
    BY <2>1 DEF FencesReached, Decided, Replacement
<1>3. FencesFollow' /\ RetriedOnce'
  BY DecisionsKept
<1>4. RunsChained'
  <2>1. ASSUME NEW x \in DOMAIN runrows', NEW y \in DOMAIN runrows',
               runrows'[x].request = runrows'[y].request, x < y
        PROVE  LET s == requestrows'[runrows'[x].request].session
               IN  \E n \in DOMAIN oplog'[s] :
                      /\ oplog'[s][n].by.kind = "retry-as-new-run"
                      /\ oplog'[s][n].payload.prior = x
    <3>1. PICK q : q = runrows[x].request
      OBVIOUS
    <3>2. q = runrows'[x].request /\ q \in DOMAIN requestrows /\ x \in DOMAIN runrows
          /\ y \in DOMAIN runrows /\ runrows[y].request = q
      BY <2>1, <3>1 DEF FencesStay, ReplayTypeOK, TablesTypeOK
    <3>3. PICK s : s = requestrows[q].session
      OBVIOUS
    <3>4. requestrows'[q].session = s /\ s \in DOMAIN oplog
      <4>1. s \in DOMAIN opsessions
        BY <3>2, <3>3 DEF ReplayTypeOK, TablesTypeOK
      <4> QED
        BY <3>2, <3>3, <4>1, LogTyped DEF PastKept, RequestsKept
    <3>5. PICK n \in DOMAIN oplog[s] : Retried(s, n) /\ oplog[s][n].payload.prior = x
      BY <2>1, <3>1, <3>2, <3>3 DEF RunsChained
    <3>6. n \in DOMAIN oplog'[s] /\ oplog'[s][n] = oplog[s][n]
      BY <3>4, <3>5 DEF PastKept, LogKept
    <3> QED
      BY <3>2, <3>4, <3>5, <3>6 DEF Retried
  <2> QED
    BY <2>1 DEF RunsChained, Retried
<1> QED
  BY <1>1, <1>2, <1>3, <1>4

\* A first execution keeps the logs, whatever it changes in the rows.
LEMMA FirstExecutionKeeps ==
  ASSUME ReplayInvariant, NEW c \in ServiceCommands, c.kind \notin CreatesSession, New(c),
         NEW p \in Payloads, FirstExecution(c, p), NEW s, s = SessionOf(c),
         NEW ended, ended = IF c.kind \in EndsSession THEN {s} ELSE {}, SessionsStay(ended),
         RowsKept, RequestsKept, RunsKept, TablesTypeOK', RowMade(c, s)', PayloadHeld(c, p)'
  PROVE  /\ PastKept /\ ReplayTypeOK' /\ LogsOwn' /\ LogsKeyed' /\ SessionsKeyed' /\ RepliedOwn'
         /\ c.kind \notin Decisions => NoDecision
<1>1. ReplayTypeOK /\ LogsOwn /\ LogsKeyed /\ SessionsKeyed /\ RepliedOwn
  BY DEF ReplayInvariant
<1>2. PastKept
  BY <1>1, FirstExecutionKeepsLog DEF PastKept
<1>3. LogsOwn' /\ RepliedOwn'
  BY <1>1, <1>2, FirstExecutionOwns
<1>4. LogsKeyed' /\ SessionsKeyed'
  BY <1>1, FirstExecutionKeys
<1>5. ReplayTypeOK'
  <2>1. oplog' \in Seq(Seq(Entries)) /\ Len(oplog') = Len(oplog)
    BY <1>1, FirstExecutionAppends DEF New
  <2>2. Len(opsessions') = Len(opsessions)
    BY <1>1 DEF SessionsStay, ReplayTypeOK, TablesTypeOK
  <2>3. replied' \subseteq [to : ServiceCommands, session : Ids, ordinal : Ids]
    <3>1. s \in Ids
      <4>1. s \in DOMAIN opsessions
        BY <1>1, SessionFound DEF New
      <4>2. DOMAIN opsessions = 1 .. Len(opsessions)
        BY <1>1 DEF ReplayTypeOK, TablesTypeOK
      <4> QED
        BY <4>1, <4>2 DEF Ids
    <3>2. Len(oplog[s]) + 1 \in Ids
      BY <1>1, FirstExecutionAppends DEF New, Ids
    <3>3. replied' = replied \cup {[to |-> c, session |-> s, ordinal |-> Len(oplog[s]) + 1]}
      BY <1>1, FirstExecutionAppends DEF New
    <3> QED
      BY <1>1, <3>1, <3>2, <3>3 DEF ReplayTypeOK
  <2> QED
    BY <1>1, <2>1, <2>2, <2>3 DEF ReplayTypeOK
<1>6. ASSUME c.kind \notin Decisions PROVE NoDecision
  <2>1. /\ \A t \in DOMAIN oplog : t # s => oplog'[t] = oplog[t]
        /\ DOMAIN oplog' = DOMAIN oplog
        /\ \A n \in DOMAIN oplog[s] : oplog'[s][n] = oplog[s][n]
        /\ \A n \in DOMAIN oplog'[s] : n \in DOMAIN oplog[s] \/ n = Len(oplog[s]) + 1
        /\ oplog'[s][Len(oplog[s]) + 1] = Action(c, p)
    BY <1>1, FirstExecutionAppends DEF New
  <2>2. Action(c, p).by = c
    BY DEF Action
  <2> QED
    BY <1>6, <2>1, <2>2 DEF NoDecision
<1> QED
  BY <1>2, <1>3, <1>4, <1>5, <1>6

\* A first execution that decides nothing and moves no fence.
LEMMA OrdinaryStep ==
  ASSUME ReplayInvariant, NEW c \in ServiceCommands,
         c.kind \notin CreatesSession \cup Decisions, New(c),
         NEW p \in Payloads, FirstExecution(c, p), NEW s, s = SessionOf(c),
         NEW ended, ended = IF c.kind \in EndsSession THEN {s} ELSE {}, SessionsStay(ended),
         RowsKept, RequestsKept, RunsKept, FencesStay,
         TablesTypeOK', RowMade(c, s)', PayloadHeld(c, p)'
  PROVE  ReplayInvariant'
<1>1. /\ PastKept /\ ReplayTypeOK' /\ LogsOwn' /\ LogsKeyed' /\ SessionsKeyed' /\ RepliedOwn'
      /\ NoDecision
  BY FirstExecutionKeeps
<1>2. LeasesHeld' /\ FencesReached' /\ FencesFollow' /\ RunsChained' /\ RetriedOnce'
  BY <1>1, FencesKept DEF ReplayInvariant
<1> QED
  BY <1>1, <1>2 DEF ReplayInvariant

-----------------------------------------------------------------------------
(* The steps.                                                              *)

\* A table that a step leaves alone is kept.
LEMMA TablesUnchanged ==
  /\ UNCHANGED opsessions => SessionsStay({})
  /\ UNCHANGED <<graphrows, planrows, approvalrows>> => RowsKept
  /\ UNCHANGED requestrows => RequestsKept
  /\ UNCHANGED runrows => RunsKept
  /\ UNCHANGED <<requestrows, runrows>> => FencesStay
<1>1. UNCHANGED opsessions => SessionsStay({})
  BY DEF SessionsStay
<1>2. UNCHANGED <<graphrows, planrows, approvalrows>> => RowsKept
  BY DEF RowsKept
<1>3. UNCHANGED requestrows => RequestsKept
  BY DEF RequestsKept
<1>4. UNCHANGED runrows => RunsKept
  BY DEF RunsKept, SettledFailure
<1>5. UNCHANGED <<requestrows, runrows>> => FencesStay
  BY DEF FencesStay
<1> QED
  BY <1>1, <1>2, <1>3, <1>4, <1>5

\* The close or the cancellation of a session.
LEMMA EndKeeps ==
  ASSUME ReplayInvariant, NEW c \in ServiceCommands, EndOperationSession(c)
  PROVE  ReplayInvariant'
<1> USE DEF EndOperationSession
<1>1. PICK p \in Payloads : p = <<>>
  BY DEF Payloads
<1>2. PICK s : s = SessionOf(c)
  OBVIOUS
<1>3. c.kind \in EndsSession /\ c.kind \notin CreatesSession \cup Decisions
  BY DEF EndsSession, CreatesSession, Decisions, Recoveries
<1>4. s = c.session /\ s \in DOMAIN opsessions
  BY <1>2, <1>3, SessionFound DEF ReplayInvariant, New, InItsSession
<1>5. SessionsStay({s}) /\ opsessions' \in Seq([status : {"open", "closed", "cancelled"},
                                key : STRING, fingerprint : Fingerprints])
  <2> DEFINE Sessions == [status : {"open", "closed", "cancelled"}, key : STRING,
                          fingerprint : Fingerprints]
  <2>1. PICK row : row = [opsessions[s] EXCEPT !.status =
                             IF c.kind = "close-operation-session" THEN "closed"
                             ELSE "cancelled"]
    OBVIOUS
  <2>2. opsessions \in Seq(Sessions) /\ opsessions[s] \in Sessions
    <3>1. opsessions \in Seq(Sessions)
      BY DEF ReplayInvariant, ReplayTypeOK, TablesTypeOK
    <3> HIDE DEF Sessions
    <3> QED
      BY <1>4, <3>1
  <2>3. /\ row \in Sessions /\ row.status # "open" /\ row.key = opsessions[s].key
        /\ row.fingerprint = opsessions[s].fingerprint
    BY <2>1, <2>2
  <2>4. opsessions' = [opsessions EXCEPT ![s] = row]
    BY <1>4, <2>1
  <2> HIDE DEF Sessions
  <2>5. opsessions' \in Seq(Sessions) /\ DOMAIN opsessions' = DOMAIN opsessions
    BY <1>4, <2>2, <2>3, <2>4
  <2>6. /\ opsessions'[s] = row
        /\ \A t \in DOMAIN opsessions : t # s => opsessions'[t] = opsessions[t]
    BY <1>4, <2>2, <2>4
  <2> QED
    BY <2>3, <2>5, <2>6 DEF SessionsStay, Sessions
<1>6. TablesTypeOK'
  BY <1>5 DEF ReplayInvariant, ReplayTypeOK, TablesTypeOK, SessionsStay
<1>7. RowMade(c, s)' /\ PayloadHeld(c, p)'
  BY <1>3 DEF RowMade, PayloadHeld, EndsSession, CreatesSession, Decisions, Recoveries,
     RunKinds
<1>8. FirstExecution(c, p)
  BY <1>1
<1> QED
  BY <1>2, <1>3, <1>5, <1>6, <1>7, <1>8, TablesUnchanged, OrdinaryStep

\* An action an operator records by hand.
LEMMA RecordKeeps ==
  ASSUME ReplayInvariant, NEW c \in ServiceCommands, RecordOperationAction(c)
  PROVE  ReplayInvariant'
<1> USE DEF RecordOperationAction
<1>1. PICK p \in Payloads : p = <<>>
  BY DEF Payloads
<1>2. PICK s : s = SessionOf(c)
  OBVIOUS
<1>3. c.kind \notin CreatesSession \cup Decisions \cup EndsSession
  BY DEF EndsSession, CreatesSession, Decisions, Recoveries
<1>6. TablesTypeOK'
  BY DEF ReplayInvariant, ReplayTypeOK, TablesTypeOK
<1>7. RowMade(c, s)' /\ PayloadHeld(c, p)'
  BY DEF RowMade, PayloadHeld, CreatesSession, Decisions, Recoveries, RunKinds
<1>8. FirstExecution(c, p)
  BY <1>1
<1> QED
  BY <1>2, <1>3, <1>6, <1>7, <1>8, TablesUnchanged, OrdinaryStep

\* A new desired graph.
LEMMA SetDesiredKeeps ==
  ASSUME ReplayInvariant, NEW c \in ServiceCommands, SetDesired(c)
  PROVE  ReplayInvariant'
<1> USE DEF SetDesired
<1>1. PICK g \in Ids : g = Len(graphrows) + 1
  BY DEF ReplayInvariant, ReplayTypeOK, TablesTypeOK, Ids
<1>2. c \in DesiredGraphCommands
  BY CommandForms
<1>3. PICK p \in Payloads : p = [graph |-> g, previous |-> c.expected,
                                 revision |-> c.revision + 1]
  <2>1. c.expected \in Nat /\ c.revision + 1 \in Nat
    BY <1>2 DEF DesiredGraphCommands
  <2> QED
    BY <2>1 DEF Payloads
<1>4. PICK s : s = SessionOf(c)
  OBVIOUS
<1>5. c.kind \notin CreatesSession \cup Decisions \cup EndsSession
  BY DEF EndsSession, CreatesSession, Decisions, Recoveries
<1>6. /\ graphrows' \in Seq(STRING) /\ g \in DOMAIN graphrows'
      /\ \A x \in DOMAIN graphrows : x \in DOMAIN graphrows'
  BY <1>1, <1>2 DEF ReplayInvariant, ReplayTypeOK, TablesTypeOK, DesiredGraphCommands
<1>7. pointers' \in [current : Nat, desired : Nat, revision : Nat]
  <2>1. pointers \in [current : Nat, desired : Nat, revision : Nat] /\ g \in Nat
    BY DEF ReplayInvariant, ReplayTypeOK, TablesTypeOK, Ids
  <2>2. PICK n \in Nat, m \in Nat : n = pointers.current /\ m = pointers.revision + 1
    BY <2>1
  <2>3. pointers' = [current |-> n, desired |-> g, revision |-> m]
    BY <1>1, <2>1, <2>2
  <2> QED
    BY <2>1, <2>3
<1>8. TablesTypeOK'
  BY <1>6, <1>7 DEF ReplayInvariant, ReplayTypeOK, TablesTypeOK
<1>9. RowsKept
  BY <1>6 DEF RowsKept
<1>10. RowMade(c, s)' /\ PayloadHeld(c, p)'
  BY <1>3, <1>6 DEF RowMade, PayloadHeld, CreatesSession, Decisions, Recoveries, RunKinds
<1>11. FirstExecution(c, p)
  BY <1>1, <1>3
<1> QED
  BY <1>4, <1>5, <1>8, <1>9, <1>10, <1>11, TablesUnchanged, OrdinaryStep

\* A new activity plan.
LEMMA RequestPlanKeeps ==
  ASSUME ReplayInvariant, NEW c \in ServiceCommands, RequestActivityPlan(c)
  PROVE  ReplayInvariant'
<1> USE DEF RequestActivityPlan
<1>1. PICK i \in Ids : i = Len(planrows) + 1
  BY DEF ReplayInvariant, ReplayTypeOK, TablesTypeOK, Ids
<1>2. c \in PlanningCommands
  BY CommandForms
<1>3. PICK p \in Payloads : p = [plan |-> i, base |-> c.current, desired |-> c.desired,
                                 revision |-> c.revision]
  BY <1>2 DEF Payloads, PlanningCommands, Ids
<1>4. PICK s : s = SessionOf(c)
  OBVIOUS
<1>5. c.kind \notin CreatesSession \cup Decisions \cup EndsSession
  BY DEF EndsSession, CreatesSession, Decisions, Recoveries
<1>6. /\ planrows' \in Seq([session : Ids, base : Nat, desired : Nat, revision : Nat])
      /\ i \in DOMAIN planrows'
      /\ planrows'[i] = [session |-> c.session, base |-> c.current,
                         desired |-> c.desired, revision |-> c.revision]
      /\ \A x \in DOMAIN planrows : x \in DOMAIN planrows' /\ planrows'[x] = planrows[x]
  <2> DEFINE Plans == [session : Ids, base : Nat, desired : Nat, revision : Nat]
  <2>1. PICK row : row = [session |-> c.session, base |-> c.current,
                          desired |-> c.desired, revision |-> c.revision]
    OBVIOUS
  <2>2. row \in Plans
    BY <1>2, <2>1 DEF PlanningCommands, Ids
  <2>3. planrows \in Seq(Plans) /\ planrows' = Append(planrows, row)
    BY <2>1 DEF ReplayInvariant, ReplayTypeOK, TablesTypeOK
  <2> HIDE DEF Plans
  <2>4. /\ planrows' \in Seq(Plans) /\ i \in DOMAIN planrows' /\ planrows'[i] = row
        /\ \A x \in DOMAIN planrows : x \in DOMAIN planrows' /\ planrows'[x] = planrows[x]
    BY <1>1, <2>2, <2>3
  <2> QED
    BY <2>1, <2>4 DEF Plans
<1>8. TablesTypeOK'
  BY <1>6 DEF ReplayInvariant, ReplayTypeOK, TablesTypeOK
<1>9. RowsKept
  BY <1>6 DEF RowsKept
<1>10. RowMade(c, s)' /\ PayloadHeld(c, p)'
  BY <1>3, <1>6 DEF RowMade, PayloadHeld, CreatesSession, Decisions, Recoveries, RunKinds
<1>11. FirstExecution(c, p)
  BY <1>1, <1>3
<1> QED
  BY <1>4, <1>5, <1>8, <1>9, <1>10, <1>11, TablesUnchanged, OrdinaryStep

\* A table gets a row, or another row in the place of one.
LEMMA Appending ==
  ASSUME NEW S, NEW rows \in Seq(S), NEW row \in S, NEW i, i = Len(rows) + 1
  PROVE  /\ Append(rows, row) \in Seq(S)
         /\ i \in Ids /\ i \notin DOMAIN rows
         /\ \A x \in DOMAIN rows : x < i
         /\ DOMAIN Append(rows, row) = DOMAIN rows \cup {i}
         /\ Append(rows, row)[i] = row
         /\ \A x \in DOMAIN rows : Append(rows, row)[x] = rows[x]
BY DEF Ids

\* A row in the place of another.
LEMMA Replacing ==
  ASSUME NEW S, NEW rows \in Seq(S), NEW i \in DOMAIN rows, NEW row \in S
  PROVE  /\ [rows EXCEPT ![i] = row] \in Seq(S)
         /\ DOMAIN [rows EXCEPT ![i] = row] = DOMAIN rows
         /\ [rows EXCEPT ![i] = row][i] = row
         /\ \A x \in DOMAIN rows : x # i => [rows EXCEPT ![i] = row][x] = rows[x]
OBVIOUS

ApprovalRecords ==
    [session : Ids, plan : Ids, key : STRING, fingerprint : Fingerprints,
     decided : {Undecided} \cup [key : STRING, fingerprint : Fingerprints,
                                 decision : {"approved", "rejected"}]]
RequestRecords ==
    [session : Ids, plan : Ids, key : STRING, fingerprint : Fingerprints,
     status : {"queued", "claimed", "abandoned"}, claim : Leases, expired : BOOLEAN]
RunRecords ==
    [request : Ids, prior : Nat, status : RunStatuses, paused : BOOLEAN, ends : BOOLEAN,
     settled : BOOLEAN]

\* The tables of approvals, requests and runs.
LEMMA TablesTyped ==
  ASSUME ReplayInvariant
  PROVE  /\ approvalrows \in Seq(ApprovalRecords)
         /\ requestrows \in Seq(RequestRecords)
         /\ runrows \in Seq(RunRecords)
         /\ \A a \in DOMAIN approvalrows : approvalrows[a].session \in DOMAIN opsessions
         /\ \A q \in DOMAIN requestrows : requestrows[q].session \in DOMAIN opsessions
         /\ \A r \in DOMAIN runrows : runrows[r].request \in DOMAIN requestrows
         /\ DOMAIN opsessions \subseteq Ids
         /\ DOMAIN requestrows \subseteq Ids
         /\ DOMAIN runrows \subseteq Ids
         /\ \A a \in DOMAIN approvalrows : approvalrows[a] \in ApprovalRecords
         /\ \A q \in DOMAIN requestrows : requestrows[q] \in RequestRecords
         /\ \A r \in DOMAIN runrows : runrows[r] \in RunRecords
<1>1. /\ approvalrows \in Seq(ApprovalRecords) /\ requestrows \in Seq(RequestRecords)
      /\ runrows \in Seq(RunRecords)
  BY DEF ReplayInvariant, ReplayTypeOK, TablesTypeOK, ApprovalRecords, RequestRecords,
     RunRecords
<1>2. DOMAIN opsessions \subseteq Ids
  BY DEF ReplayInvariant, ReplayTypeOK, TablesTypeOK, Ids
<1>3. DOMAIN requestrows \subseteq Ids /\ DOMAIN runrows \subseteq Ids
  BY <1>1 DEF Ids
<1>4. /\ \A a \in DOMAIN approvalrows : approvalrows[a].session \in DOMAIN opsessions
      /\ \A q \in DOMAIN requestrows : requestrows[q].session \in DOMAIN opsessions
      /\ \A r \in DOMAIN runrows : runrows[r].request \in DOMAIN requestrows
  BY DEF ReplayInvariant, ReplayTypeOK, TablesTypeOK
<1> QED
  BY <1>1, <1>2, <1>3, <1>4

\* A request for approval.
LEMMA AskApprovalKeeps ==
  ASSUME ReplayInvariant, NEW c \in ServiceCommands, AskApproval(c)
  PROVE  ReplayInvariant'
<1> USE DEF AskApproval
<1>1. PICK i : i = Len(approvalrows) + 1
  OBVIOUS
<1>2. c.session \in Ids /\ c.plan \in Ids /\ c.key \in STRING
  BY CommandForms
<1>3. PICK s : s = SessionOf(c)
  OBVIOUS
<1>4. c.kind \notin CreatesSession \cup Decisions \cup EndsSession
  BY DEF EndsSession, CreatesSession, Decisions, Recoveries
<1>5. s = c.session /\ s \in DOMAIN opsessions
  BY <1>3, <1>4, SessionFound DEF ReplayInvariant, New, InItsSession
<1>6. PICK row : row = [session |-> c.session, plan |-> c.plan, key |-> c.key,
                        fingerprint |-> IntentOf(c), decided |-> Undecided]
  OBVIOUS
<1>7. row \in ApprovalRecords
  BY <1>2, <1>6 DEF ApprovalRecords, Fingerprints
<1>8. approvalrows' = Append(approvalrows, row)
  BY <1>6
<1>9. /\ approvalrows' \in Seq(ApprovalRecords) /\ i \in Ids
      /\ DOMAIN approvalrows' = DOMAIN approvalrows \cup {i} /\ approvalrows'[i] = row
      /\ \A x \in DOMAIN approvalrows : approvalrows'[x] = approvalrows[x]
  BY <1>1, <1>7, <1>8, TablesTyped, Appending
<1>10. PICK p \in Payloads : p = [approval |-> i]
  BY <1>9 DEF Payloads
<1>11. TablesTypeOK'
  <2>1. \A a \in DOMAIN approvalrows' : approvalrows'[a].session \in DOMAIN opsessions'
    BY <1>5, <1>6, <1>9, TablesTyped
  <2> QED
    BY <1>9, <2>1 DEF ReplayInvariant, ReplayTypeOK, TablesTypeOK, ApprovalRecords
<1>12. RowsKept
  BY <1>9 DEF RowsKept
<1>13. RowMade(c, s)' /\ PayloadHeld(c, p)'
  BY <1>5, <1>6, <1>9
     DEF RowMade, PayloadHeld, CreatesSession, Decisions, Recoveries, RunKinds
<1>14. FirstExecution(c, p)
  BY <1>1, <1>10
<1> QED
  BY <1>3, <1>4, <1>11, <1>12, <1>13, <1>14, TablesUnchanged, OrdinaryStep

\* A decision on an approval, which is decided once.
LEMMA DecideKeeps ==
  ASSUME ReplayInvariant, NEW c \in ServiceCommands, Decide(c)
  PROVE  ReplayInvariant'
<1> USE DEF Decide
<1>1. PICK i : i = c.approval
  OBVIOUS
<1>2. c.key \in STRING /\ c.decision \in {"approved", "rejected"} /\ i \in Ids
  BY <1>1, CommandForms
<1>3. PICK s : s = SessionOf(c)
  OBVIOUS
<1>4. c.kind \notin CreatesSession \cup Decisions \cup EndsSession
  BY DEF EndsSession, CreatesSession, Decisions, Recoveries
<1>5. s = c.session /\ s \in DOMAIN opsessions
  BY <1>3, <1>4, SessionFound DEF ReplayInvariant, New, InItsSession
<1>6. i \in DOMAIN approvalrows
  BY <1>1, CommandForms DEF New, Known
<1>7. PICK d : d = [key |-> c.key, fingerprint |-> IntentOf(c), decision |-> c.decision]
  OBVIOUS
<1>8. d \in [key : STRING, fingerprint : Fingerprints, decision : {"approved", "rejected"}]
      /\ d # Undecided
  BY <1>2, <1>7, UndecidedHasNone DEF Fingerprints
<1>9. PICK row : row = [approvalrows[i] EXCEPT !.decided = d]
  OBVIOUS
<1>10. /\ row \in ApprovalRecords /\ row.session = approvalrows[i].session
       /\ row.key = approvalrows[i].key /\ row.fingerprint = approvalrows[i].fingerprint
       /\ row.decided = d
  <2>1. approvalrows[i] \in ApprovalRecords
    BY <1>6, TablesTyped
  <2> QED
    BY <1>8, <1>9, <2>1 DEF ApprovalRecords
<1>11. approvalrows' = [approvalrows EXCEPT ![i] = row]
  BY <1>1, <1>6, <1>7, <1>9
<1>12. /\ approvalrows' \in Seq(ApprovalRecords)
       /\ DOMAIN approvalrows' = DOMAIN approvalrows /\ approvalrows'[i] = row
       /\ \A x \in DOMAIN approvalrows : x # i => approvalrows'[x] = approvalrows[x]
  <2>1. approvalrows \in Seq(ApprovalRecords) /\ row \in ApprovalRecords
    BY <1>10, TablesTyped
  <2>2. /\ [approvalrows EXCEPT ![i] = row] \in Seq(ApprovalRecords)
        /\ DOMAIN [approvalrows EXCEPT ![i] = row] = DOMAIN approvalrows
        /\ [approvalrows EXCEPT ![i] = row][i] = row
        /\ \A x \in DOMAIN approvalrows :
              x # i => [approvalrows EXCEPT ![i] = row][x] = approvalrows[x]
    BY ONLY <1>6, <2>1, Replacing
  <2> QED
    BY <1>11, <2>2
<1>13. PICK p \in Payloads : p = [approval |-> i, decision |-> c.decision]
  <2>1. [approval |-> i, decision |-> c.decision]
           \in [approval : Ids, decision : {"approved", "rejected"}]
    BY <1>2
  <2> QED
    BY <2>1 DEF Payloads
<1>14. TablesTypeOK'
  <2>1. \A a \in DOMAIN approvalrows' : approvalrows'[a].session \in DOMAIN opsessions'
    BY <1>6, <1>10, <1>12, TablesTyped
  <2> QED
    BY <1>12, <2>1 DEF ReplayInvariant, ReplayTypeOK, TablesTypeOK, ApprovalRecords
<1>15. RowsKept
  BY <1>1, <1>10, <1>12 DEF RowsKept
<1>16. RowMade(c, s)' /\ PayloadHeld(c, p)'
  BY <1>1, <1>5, <1>7, <1>8, <1>10, <1>12
     DEF RowMade, PayloadHeld, CreatesSession, Decisions, Recoveries, RunKinds
<1>17. FirstExecution(c, p)
  BY <1>1, <1>13
<1> QED
  BY <1>3, <1>4, <1>14, <1>15, <1>16, <1>17, TablesUnchanged, OrdinaryStep

\* The admission of an approved plan.
LEMMA AdmitKeeps ==
  ASSUME ReplayInvariant, NEW c \in ServiceCommands, Admit(c)
  PROVE  ReplayInvariant'
<1> USE DEF Admit
<1>1. PICK i : i = Len(requestrows) + 1
  OBVIOUS
<1>2. c.session \in Ids /\ c.plan \in Ids /\ c.key \in STRING
  BY CommandForms DEF AdmissionCommands
<1>3. PICK s : s = SessionOf(c)
  OBVIOUS
<1>4. c.kind \notin CreatesSession \cup Decisions \cup EndsSession
  BY DEF EndsSession, CreatesSession, Decisions, Recoveries
<1>5. s = c.session /\ s \in DOMAIN opsessions
  BY <1>3, <1>4, SessionFound DEF ReplayInvariant, New, InItsSession
<1>6. PICK row : row = [session |-> c.session, plan |-> c.plan, key |-> c.key,
                        fingerprint |-> IntentOf(c), status |-> "queued",
                        claim |-> NoLease, expired |-> FALSE]
  OBVIOUS
<1>7. row \in RequestRecords
  BY <1>2, <1>6 DEF RequestRecords, Fingerprints, Leases
<1>8. requestrows' = Append(requestrows, row)
  BY <1>6
<1>9. /\ requestrows' \in Seq(RequestRecords) /\ i \in Ids
      /\ DOMAIN requestrows' = DOMAIN requestrows \cup {i} /\ requestrows'[i] = row
      /\ \A x \in DOMAIN requestrows : requestrows'[x] = requestrows[x]
  BY <1>1, <1>7, <1>8, TablesTyped, Appending
<1>10. PICK p \in Payloads : p = [request |-> i]
  BY <1>9 DEF Payloads
<1>11. TablesTypeOK'
  <2>1. \A q \in DOMAIN requestrows' : requestrows'[q].session \in DOMAIN opsessions'
    BY <1>5, <1>6, <1>9, TablesTyped
  <2>2. \A r \in DOMAIN runrows' : runrows'[r].request \in DOMAIN requestrows'
    BY <1>9, TablesTyped
  <2> QED
    BY <1>9, <2>1, <2>2 DEF ReplayInvariant, ReplayTypeOK, TablesTypeOK, RequestRecords
<1>12. RequestsKept /\ FencesStay
  BY <1>6, <1>9 DEF RequestsKept, FencesStay
<1>13. RowMade(c, s)' /\ PayloadHeld(c, p)'
  BY <1>5, <1>6, <1>9
     DEF RowMade, PayloadHeld, CreatesSession, Decisions, Recoveries, RunKinds
<1>14. FirstExecution(c, p)
  BY <1>1, <1>10
<1> QED
  BY <1>3, <1>4, <1>11, <1>12, <1>13, <1>14, TablesUnchanged, OrdinaryStep

\* The run of a command and its request, where both are stated.
LEMMA RunFound ==
  ASSUME ReplayInvariant, NEW c \in ServiceCommands, Known(c),
         c.kind \in OfItsRun \cup (OfItsRequest \ {"claim-run"})
  PROVE  c.run \in DOMAIN runrows /\ c.run \in Ids /\ runrows[c.run] \in RunRecords
<1>1. c.kind \notin CreatesSession
  BY DEF OfItsRun, OfItsRequest, CreatesSession, RunKinds, Recoveries
<1>2. c.run \in DOMAIN runrows
  BY <1>1, SessionFound DEF ReplayInvariant
<1> QED
  BY <1>2, TablesTyped

\* A step that changes the status of one run, and no settled failure.
LEMMA RunReplaced ==
  ASSUME ReplayInvariant, NEW r \in DOMAIN runrows, NEW row \in RunRecords,
         row.request = runrows[r].request, row.prior = runrows[r].prior,
         SettledFailure(r) => row.status = "failed" /\ ~row.ends,
         runrows' = [runrows EXCEPT ![r] = row]
  PROVE  /\ RunsKept /\ runrows' \in Seq(RunRecords)
         /\ DOMAIN runrows' = DOMAIN runrows
         /\ runrows'[r] = row
         /\ \A x \in DOMAIN runrows : x # r => runrows'[x] = runrows[x]
         /\ UNCHANGED requestrows => FencesStay
<1>1. /\ runrows' \in Seq(RunRecords) /\ DOMAIN runrows' = DOMAIN runrows
      /\ runrows'[r] = row /\ \A x \in DOMAIN runrows : x # r => runrows'[x] = runrows[x]
  BY TablesTyped, Replacing
<1>2. RunsKept
  BY <1>1 DEF RunsKept, SettledFailure
<1>3. UNCHANGED requestrows => FencesStay
  BY <1>1 DEF FencesStay
<1> QED
  BY <1>1, <1>2, <1>3

\* The tables, when only the runs change.
LEMMA RunTablesTyped ==
  ASSUME ReplayInvariant, runrows' \in Seq(RunRecords),
         \A r \in DOMAIN runrows' : runrows'[r].request \in DOMAIN requestrows,
         pointers' \in [current : Nat, desired : Nat, revision : Nat],
         UNCHANGED <<opsessions, graphrows, planrows, approvalrows, requestrows>>
  PROVE  TablesTypeOK'
BY DEF ReplayInvariant, ReplayTypeOK, TablesTypeOK, RunRecords

\* The status a transition leads to is one of a run.
LEMMA ResultTyped ==
  ASSUME NEW kind \in RunKinds
  PROVE  ResultOf(kind) \in RunStatuses
BY DEF ResultOf, RunKinds, RunStatuses

\* A run after a transition is a run of the same request.
LEMMA ChangedTyped ==
  ASSUME NEW run \in RunRecords, NEW kind \in RunKinds, NEW settled \in BOOLEAN
  PROVE  /\ RunAfter(run, kind, settled) \in RunRecords
         /\ RunAfter(run, kind, settled).request = run.request
         /\ RunAfter(run, kind, settled).prior = run.prior
<1>1. PICK st \in RunStatuses : st = ResultOf(kind)
  BY ResultTyped
<1>2. (run.paused \/ kind = "pause-run") \in BOOLEAN
  OBVIOUS
<1>6. (kind \in {"complete-run", "fail-run"}) \in BOOLEAN
  OBVIOUS
<1>7. (settled /\ kind \in {"complete-run", "fail-run"}) \in BOOLEAN
  OBVIOUS
<1>3. PICK pa, en, se :
         /\ pa = (run.paused \/ kind = "pause-run")
         /\ en = (kind \in {"complete-run", "fail-run"})
         /\ se = (settled /\ kind \in {"complete-run", "fail-run"})
  BY Zenon
<1>4. pa \in BOOLEAN /\ en \in BOOLEAN /\ se \in BOOLEAN
  BY <1>2, <1>3, <1>6, <1>7, Zenon
<1>5. RunAfter(run, kind, settled) =
         [run EXCEPT !.status = st, !.paused = pa, !.ends = en, !.settled = se]
  BY <1>1, <1>3, Zenon DEF RunAfter
<1> QED
  BY <1>4, <1>5 DEF RunRecords

\* A transition of a run under its fence.
LEMMA ChangeRunKeeps ==
  ASSUME ReplayInvariant, NEW c \in ServiceCommands, ChangeRun(c)
  PROVE  ReplayInvariant'
<1>1. /\ c.kind \in RunKinds /\ New(c)
      /\ runrows[c.run].status \in Expected(c.kind)
      /\ FirstExecution(c, [run |-> c.run, status |-> ResultOf(c.kind),
                            generation |-> c.fence.generation])
      /\ UNCHANGED <<opsessions, pointers, graphrows, planrows, approvalrows, requestrows>>
  BY DEF ChangeRun
<1>2. PICK settled \in BOOLEAN :
         runrows' = [runrows EXCEPT ![c.run] = RunAfter(runrows[c.run], c.kind, settled)]
  BY DEF ChangeRun
<1>3. c.kind \notin CreatesSession \cup Decisions \cup EndsSession
  BY <1>1 DEF EndsSession, CreatesSession, Decisions, Recoveries, RunKinds
<1>4. PICK s : s = SessionOf(c)
  OBVIOUS
<1>5. PICK r \in DOMAIN runrows : r = c.run /\ r \in Ids /\ runrows[r] \in RunRecords
  BY <1>1, RunFound DEF New, OfItsRun
<1>6. ResultOf(c.kind) \in RunStatuses
  BY <1>1, ResultTyped
<1>7. c.fence.generation \in Nat
  BY <1>1, CommandForms DEF RunCommands, LeaseFences
<1>8. PICK st \in RunStatuses : st = ResultOf(c.kind)
  BY <1>6
<1>9. PICK row : row = RunAfter(runrows[c.run], c.kind, settled)
  OBVIOUS
<1>11. row \in RunRecords /\ row.request = runrows[r].request /\ row.prior = runrows[r].prior
  BY <1>1, <1>5, <1>9, ChangedTyped
<1>12. runrows' = [runrows EXCEPT ![r] = row]
  BY <1>2, <1>5, <1>9
<1>13. ~SettledFailure(r)
  BY <1>1, <1>5 DEF SettledFailure, Expected, RunKinds
<1>14. /\ RunsKept /\ FencesStay /\ runrows' \in Seq(RunRecords)
       /\ DOMAIN runrows' = DOMAIN runrows
       /\ \A x \in DOMAIN runrows : runrows'[x].request = runrows[x].request
  BY <1>1, <1>11, <1>12, <1>13, RunReplaced
<1>15. TablesTypeOK'
  <2>1. \A x \in DOMAIN runrows' : runrows'[x].request \in DOMAIN requestrows
    BY <1>14, TablesTyped
  <2>2. pointers' \in [current : Nat, desired : Nat, revision : Nat]
    BY <1>1 DEF ReplayInvariant, ReplayTypeOK, TablesTypeOK
  <2> QED
    BY <1>1, <1>14, <2>1, <2>2, RunTablesTyped
<1>16. PICK p \in Payloads : p = [run |-> r, status |-> st, generation |-> c.fence.generation]
  <2>1. [run |-> r, status |-> st, generation |-> c.fence.generation]
           \in [run : Ids, status : RunStatuses, generation : Nat]
    BY <1>5, <1>7
  <2> QED
    BY <2>1 DEF Payloads
<1>17. RowMade(c, s)' /\ PayloadHeld(c, p)'
  BY <1>1, <1>5, <1>8, <1>16
     DEF RowMade, PayloadHeld, CreatesSession, Decisions, Recoveries, RunKinds
<1>18. FirstExecution(c, p)
  BY <1>1, <1>5, <1>8, <1>16
<1> QED
  BY <1>1, <1>3, <1>4, <1>14, <1>15, <1>17, <1>18, TablesUnchanged, OrdinaryStep

\* The advancement of the current graph by a succeeded run.
LEMMA AdvanceKeeps ==
  ASSUME ReplayInvariant, NEW c \in ServiceCommands, Advance(c)
  PROVE  ReplayInvariant'
<1> USE DEF Advance
<1>1. c.kind \notin CreatesSession \cup Decisions \cup EndsSession
  BY DEF EndsSession, CreatesSession, Decisions, Recoveries, RunKinds
<1>2. PICK s : s = SessionOf(c)
  OBVIOUS
<1>3. PICK r \in DOMAIN runrows : r = c.run /\ r \in Ids /\ runrows[r] \in RunRecords
  BY RunFound DEF New, OfItsRun
<1>4. c \in AdvancementCommands
  BY CommandForms
<1>5. c.fence.generation \in Nat /\ c.plan \in Ids /\ c.from \in Nat /\ c.to \in Nat
      /\ c.revision \in Nat
  BY <1>4 DEF AdvancementCommands, LeaseFences, Ids
<1>6. PICK row : row = [runrows[r] EXCEPT !.ends = FALSE]
  OBVIOUS
<1>7. row \in RunRecords /\ row.request = runrows[r].request /\ row.prior = runrows[r].prior
      /\ row.status = runrows[r].status /\ row.ends = FALSE
  BY <1>3, <1>6 DEF RunRecords
<1>8. runrows' = [runrows EXCEPT ![r] = row]
  BY <1>3, <1>6
<1>9. /\ RunsKept /\ FencesStay /\ runrows' \in Seq(RunRecords)
      /\ DOMAIN runrows' = DOMAIN runrows
      /\ \A x \in DOMAIN runrows : runrows'[x].request = runrows[x].request
  <2>1. SettledFailure(r) => row.status = "failed" /\ ~row.ends
    BY <1>7 DEF SettledFailure
  <2> QED
    BY <1>7, <1>8, <2>1, RunReplaced
<1>10. pointers' \in [current : Nat, desired : Nat, revision : Nat]
  <2>1. pointers \in [current : Nat, desired : Nat, revision : Nat]
    BY DEF ReplayInvariant, ReplayTypeOK, TablesTypeOK
  <2> QED
    BY <1>5, <2>1
<1>11. TablesTypeOK'
  <2>1. \A x \in DOMAIN runrows' : runrows'[x].request \in DOMAIN requestrows
    BY <1>9, TablesTyped
  <2> QED
    BY <1>9, <1>10, <2>1, RunTablesTyped
<1>12. PICK p \in Payloads : p = [run |-> r, plan |-> c.plan, from |-> c.from, to |-> c.to,
                        revision |-> c.revision, generation |-> c.fence.generation]
  <2>1. [run |-> r, plan |-> c.plan, from |-> c.from, to |-> c.to,
         revision |-> c.revision, generation |-> c.fence.generation]
           \in [run : Ids, plan : Ids, from : Nat, to : Nat, revision : Nat,
                generation : Nat]
    BY <1>3, <1>5
  <2> QED
    BY <2>1 DEF Payloads
<1>13. RowMade(c, s)' /\ PayloadHeld(c, p)'
  BY <1>3, <1>12 DEF RowMade, PayloadHeld, CreatesSession, Decisions, Recoveries, RunKinds
<1>14. FirstExecution(c, p)
  BY <1>3, <1>12
<1> QED
  BY <1>1, <1>2, <1>9, <1>11, <1>13, <1>14, TablesUnchanged, OrdinaryStep

\* The begin of a compensation: the failure was the run's last event.
LEMMA BeginCompensationKeeps ==
  ASSUME ReplayInvariant, NEW c \in ServiceCommands, BeginRunCompensation(c)
  PROVE  ReplayInvariant'
<1> USE DEF BeginRunCompensation
<1>1. c.kind \notin CreatesSession \cup Decisions \cup EndsSession
  BY DEF EndsSession, CreatesSession, Decisions, Recoveries, RunKinds
<1>2. PICK s : s = SessionOf(c)
  OBVIOUS
<1>3. PICK r \in DOMAIN runrows : r = c.run /\ r \in Ids /\ runrows[r] \in RunRecords
  BY RunFound DEF New, OfItsRequest
<1>4. PICK row : row = [runrows[r] EXCEPT !.status = "compensating", !.ends = FALSE]
  OBVIOUS
<1>5. row \in RunRecords /\ row.request = runrows[r].request /\ row.prior = runrows[r].prior
  BY <1>3, <1>4 DEF RunRecords, RunStatuses
<1>6. runrows' = [runrows EXCEPT ![r] = row]
  BY <1>3, <1>4
<1>7. ~SettledFailure(r)
  BY <1>3 DEF MayCompensate, SettledFailure
<1>8. /\ RunsKept /\ FencesStay /\ runrows' \in Seq(RunRecords)
      /\ DOMAIN runrows' = DOMAIN runrows
      /\ \A x \in DOMAIN runrows : runrows'[x].request = runrows[x].request
  BY <1>5, <1>6, <1>7, RunReplaced
<1>9. TablesTypeOK'
  <2>1. \A x \in DOMAIN runrows' : runrows'[x].request \in DOMAIN requestrows
    BY <1>8, TablesTyped
  <2>2. pointers' \in [current : Nat, desired : Nat, revision : Nat]
    BY DEF ReplayInvariant, ReplayTypeOK, TablesTypeOK
  <2> QED
    BY <1>8, <2>1, <2>2, RunTablesTyped
<1>10. PICK p \in Payloads : p = [decision |-> "begin-compensation", run |-> r]
  BY <1>3 DEF Payloads
<1>11. RowMade(c, s)' /\ PayloadHeld(c, p)'
  BY DEF RowMade, PayloadHeld, CreatesSession, Decisions, Recoveries, RunKinds
<1>12. FirstExecution(c, p)
  BY <1>3, <1>10
<1> QED
  BY <1>1, <1>2, <1>8, <1>9, <1>11, <1>12, TablesUnchanged, OrdinaryStep

-----------------------------------------------------------------------------
(* Claims, recoveries and retries.                                         *)

\* No fence of a lease has generation 0.
LEMMA NoLeaseHasNone == NoLease.generation = 0
BY DEF NoLease

\* A claimed request has a latest run.
LEMMA LatestRunIs ==
  ASSUME ReplayInvariant, NEW q \in DOMAIN requestrows, requestrows[q].status = "claimed"
  PROVE  /\ LatestRun(q) \in DOMAIN runrows /\ runrows[LatestRun(q)].request = q
         /\ \A x \in DOMAIN runrows : runrows[x].request = q => x <= LatestRun(q)
<1>1. \E r \in DOMAIN runrows :
         /\ runrows[r].request = q
         /\ \A x \in DOMAIN runrows : runrows[x].request = q => x <= r
  BY DEF ReplayInvariant, LeasesHeld
<1> QED
  BY <1>1 DEF LatestRun

\* What the log's decisions say of their request and runs.
LEMMA DecisionEntries ==
  ASSUME ReplayInvariant, NEW s \in DOMAIN oplog, NEW n \in DOMAIN oplog[s],
         oplog[s][n].by.kind \in Decisions, NEW b, b = oplog[s][n].by
  PROVE  /\ b \in ServiceCommands /\ b.request \in DOMAIN requestrows
         /\ requestrows[b.request].status # "queued"
         /\ b.run \in DOMAIN runrows /\ runrows[b.run].request = b.request
         /\ s = requestrows[b.request].session
         /\ oplog[s][n].payload.replacement.generation \in Nat
         /\ b.kind \in Recoveries =>
              /\ oplog[s][n].payload.run = b.run
              /\ oplog[s][n].payload.replacement = NextFence(b)
         /\ b.kind = "retry-as-new-run" =>
              /\ oplog[s][n].payload.prior = b.run
              /\ oplog[s][n].payload.run \in DOMAIN runrows
              /\ b.run < oplog[s][n].payload.run
              /\ runrows[oplog[s][n].payload.run].request = b.request
              /\ oplog[s][n].payload.replacement = b.fence
<1>1. b \in ServiceCommands /\ b.kind \in Decisions
  BY LogTyped DEF ReplayInvariant
<1>2. PICK p : p = oplog[s][n].payload
  OBVIOUS
<1>3. Known(b) /\ PayloadHeld(b, p) /\ (b.kind \notin CreatesSession => s = SessionOf(b))
  BY <1>2 DEF ReplayInvariant, LogsOwn, Own
<1>4. b.kind \in OfItsRequest \ {"claim-run"} /\ b.kind \notin CreatesSession
  BY <1>1 DEF Decisions, OfItsRequest, Recoveries, CreatesSession
<1>5. /\ b.request \in DOMAIN requestrows /\ b.run \in DOMAIN runrows
      /\ runrows[b.run].request = b.request /\ s = requestrows[b.request].session
  BY <1>1, <1>3, <1>4, SessionFound DEF ReplayInvariant
<1>6. requestrows[b.request].status # "queued"
  BY <1>1, <1>3 DEF PayloadHeld
<1>7. b.fence.generation \in Nat
  BY <1>1, CommandForms DEF Decisions, Recoveries, RetryCommands, LeaseFences
<1>10. b.kind \in Recoveries => b.kind # "retry-as-new-run"
  BY DEF Recoveries
<1>8. CASE b.kind \in Recoveries
  <2>1. RecoveryHeld(b, p)
    BY <1>3, <1>8 DEF PayloadHeld
  <2>2. p.run = b.run /\ p.replacement = NextFence(b)
    BY <2>1 DEF RecoveryHeld
  <2>3. NextFence(b).generation \in Nat
    BY <1>7 DEF NextFence, NoLease
  <2>4. p.replacement.generation \in Nat
    BY <2>2, <2>3
  <2> QED
    BY <1>1, <1>2, <1>5, <1>6, <1>8, <1>10, <2>2, <2>4, Zenon
<1>9. CASE b.kind = "retry-as-new-run"
  <2>1. RetryHeld(b, p)
    BY <1>3, <1>9 DEF PayloadHeld
  <2>2. /\ p.prior = b.run /\ p.run \in DOMAIN runrows /\ b.run < p.run
        /\ runrows[p.run].request = b.request /\ p.replacement = b.fence
    BY <2>1 DEF RetryHeld
  <2>3. p.replacement.generation \in Nat
    BY <1>7, <2>2
  <2> QED
    BY <1>1, <1>2, <1>5, <1>6, <1>9, <1>10, <2>2, <2>3, Zenon
<1> QED
  BY <1>1, <1>8, <1>9 DEF Decisions

\* The action of a run that was retried stays in its session's log.
LEMMA RetryKept ==
  ASSUME ReplayInvariant, PastKept, NEW x \in DOMAIN runrows, NEW y \in DOMAIN runrows,
         runrows[x].request = runrows[y].request, x < y
  PROVE  LET s == requestrows'[runrows'[x].request].session
         IN  \E n \in DOMAIN oplog'[s] :
                /\ oplog'[s][n].by.kind = "retry-as-new-run"
                /\ oplog'[s][n].payload.prior = x
<1>1. PICK q \in DOMAIN requestrows : q = runrows[x].request
  BY TablesTyped
<1>2. PICK s \in DOMAIN oplog : s = requestrows[q].session
  BY TablesTyped, LogTyped DEF ReplayInvariant
<1>3. PICK n \in DOMAIN oplog[s] : Retried(s, n) /\ oplog[s][n].payload.prior = x
  BY <1>1, <1>2 DEF ReplayInvariant, RunsChained
<1>4. n \in DOMAIN oplog'[s] /\ oplog'[s][n] = oplog[s][n]
  BY <1>3 DEF PastKept, LogKept
<1>5. runrows'[x].request = q /\ requestrows'[q].session = s
  BY <1>1, <1>2 DEF PastKept, RunsKept, RequestsKept
<1> QED
  BY <1>3, <1>4, <1>5 DEF Retried

\* The claim of a queued request, which makes its first run.
LEMMA ClaimKeeps ==
  ASSUME ReplayInvariant, NEW c \in ServiceCommands, Claim(c)
  PROVE  ReplayInvariant'
<1>1. /\ c.kind = "claim-run" /\ New(c) /\ requestrows[c.request].status = "queued"
      /\ \A r \in DOMAIN runrows : runrows[r].request # c.request
      /\ runrows' = Append(runrows, OpenRun(c.request, 0))
      /\ FirstExecution(c, [run |-> Len(runrows) + 1, status |-> "claimed",
                            generation |-> 1])
      /\ UNCHANGED <<opsessions, pointers, graphrows, planrows, approvalrows>>
  BY DEF Claim
<1>2. c.kind \notin CreatesSession \cup Decisions \cup EndsSession
  BY <1>1 DEF EndsSession, CreatesSession, Decisions, Recoveries
<1>3. PICK s : s = SessionOf(c)
  OBVIOUS
<1>4. PICK q \in DOMAIN requestrows : q = c.request /\ q \in Ids
        /\ requestrows[q] \in RequestRecords
  BY <1>1, <1>2, SessionFound, TablesTyped DEF New, OfItsRequest, ReplayInvariant
<1>5. c.worker \in STRING
  BY <1>1, CommandForms DEF ClaimCommands
<1>6. PICK lease \in LeaseFences : lease = [worker |-> c.worker, generation |-> 1]
  <2>1. [worker |-> c.worker, generation |-> 1] \in LeaseFences
    BY <1>5 DEF LeaseFences
  <2> QED
    BY <2>1
<1>7. PICK row : row = [requestrows[q] EXCEPT !.status = "claimed", !.claim = lease]
  OBVIOUS
<1>8. /\ row \in RequestRecords /\ row.session = requestrows[q].session
      /\ row.key = requestrows[q].key /\ row.fingerprint = requestrows[q].fingerprint
      /\ row.status = "claimed" /\ row.claim = lease
  BY <1>4, <1>7 DEF RequestRecords, Leases
<1>9. requestrows' = [requestrows EXCEPT ![q] = row]
  <2>1. requestrows' = [requestrows EXCEPT ![q].status = "claimed", ![q].claim = lease]
    BY <1>4, <1>6 DEF Claim
  <2> QED
    BY <1>4, <1>7, <2>1
<1>10. /\ requestrows' \in Seq(RequestRecords) /\ DOMAIN requestrows' = DOMAIN requestrows
       /\ requestrows'[q] = row
       /\ \A x \in DOMAIN requestrows : x # q => requestrows'[x] = requestrows[x]
  BY <1>8, <1>9, TablesTyped, Replacing
<1>11. PICK i : i = Len(runrows) + 1
  OBVIOUS
<1>12. OpenRun(q, 0) \in RunRecords /\ OpenRun(q, 0).request = q
  BY <1>4 DEF OpenRun, RunRecords, RunStatuses
<1>13. /\ runrows' \in Seq(RunRecords) /\ i \in Ids /\ i \notin DOMAIN runrows
       /\ DOMAIN runrows' = DOMAIN runrows \cup {i} /\ runrows'[i].request = q
       /\ \A x \in DOMAIN runrows : x < i /\ runrows'[x] = runrows[x]
  BY <1>1, <1>4, <1>11, <1>12, TablesTyped, Appending
<1>14. PICK p \in Payloads : p = [run |-> i, status |-> "claimed", generation |-> 1]
  <2>1. [run |-> i, status |-> "claimed", generation |-> 1]
           \in [run : Ids, status : RunStatuses, generation : Nat]
    BY <1>13 DEF RunStatuses
  <2> QED
    BY <2>1 DEF Payloads
<1>15. TablesTypeOK'
  <2>1. \A r \in DOMAIN runrows' : runrows'[r].request \in DOMAIN requestrows'
    BY <1>10, <1>13, TablesTyped
  <2>2. \A x \in DOMAIN requestrows' : requestrows'[x].session \in DOMAIN opsessions'
    BY <1>1, <1>8, <1>10, TablesTyped
  <2> QED
    BY <1>1, <1>10, <1>13, <2>1, <2>2
       DEF ReplayInvariant, ReplayTypeOK, TablesTypeOK, RequestRecords, RunRecords
<1>16. RequestsKept
  BY <1>1, <1>4, <1>8, <1>10 DEF RequestsKept
<1>17. RunsKept
  BY <1>8, <1>10, <1>13 DEF RunsKept, SettledFailure
<1>18. RowMade(c, s)' /\ PayloadHeld(c, p)'
  BY <1>1, <1>14
     DEF RowMade, PayloadHeld, CreatesSession, Decisions, Recoveries, RunKinds
<1>19. FirstExecution(c, p)
  BY <1>1, <1>11, <1>14
<1>20. /\ PastKept /\ ReplayTypeOK' /\ LogsOwn' /\ LogsKeyed' /\ SessionsKeyed' /\ RepliedOwn'
       /\ NoDecision
  BY <1>1, <1>2, <1>3, <1>15, <1>16, <1>17, <1>18, <1>19, TablesUnchanged,
     FirstExecutionKeeps
<1>21. LeasesHeld'
  <2>1. lease # NoLease
    <3>1. lease.generation = 1
      BY <1>6
    <3> QED
      BY <3>1, NoLeaseHasNone
  <2>2. \A x \in DOMAIN runrows' : runrows'[x].request = q => x <= i
    BY <1>1, <1>4, <1>13 DEF Ids
  <2>3. ASSUME NEW x \in DOMAIN requestrows', x # q, requestrows'[x].status = "claimed"
        PROVE  \E r \in DOMAIN runrows' :
                  /\ runrows'[r].request = x
                  /\ \A y \in DOMAIN runrows' : runrows'[y].request = x => y <= r
    <3>1. PICK r \in DOMAIN runrows :
             /\ runrows[r].request = x
             /\ \A y \in DOMAIN runrows : runrows[y].request = x => y <= r
      BY <1>10, <2>3 DEF ReplayInvariant, LeasesHeld
    <3> QED
      BY <1>13, <2>3, <3>1
  <2>4. ASSUME NEW x \in DOMAIN requestrows', x # q
        PROVE  requestrows'[x].status = "claimed" <=> requestrows'[x].claim # NoLease
    BY <1>10, <2>4 DEF ReplayInvariant, LeasesHeld
  <2>5. requestrows'[q].status = "claimed" <=> requestrows'[q].claim # NoLease
    BY <1>8, <1>10, <2>1
  <2> QED
    BY <1>13, <2>2, <2>3, <2>4, <2>5 DEF LeasesHeld
<1>22. FencesFollow' /\ RetriedOnce'
  BY <1>20, DecisionsKept DEF ReplayInvariant
<1>23. FencesReached'
  <2>1. ASSUME NEW t \in DOMAIN oplog', NEW n \in DOMAIN oplog'[t], Decided(t, n)'
        PROVE  /\ t \in DOMAIN oplog /\ n \in DOMAIN oplog[t] /\ oplog'[t][n] = oplog[t][n]
               /\ requestrows'[oplog[t][n].by.request] = requestrows[oplog[t][n].by.request]
    <3>1. t \in DOMAIN oplog /\ n \in DOMAIN oplog[t] /\ oplog'[t][n] = oplog[t][n]
      BY <1>20, <2>1 DEF NoDecision, Decided
    <3>2. PICK b : b = oplog[t][n].by
      OBVIOUS
    <3>3. b.request \in DOMAIN requestrows /\ requestrows[b.request].status # "queued"
      BY <2>1, <3>1, <3>2, DecisionEntries DEF Decided
    <3> QED
      BY <1>1, <1>4, <1>10, <3>1, <3>2, <3>3
  <2> QED
    BY <2>1 DEF ReplayInvariant, FencesReached, Decided, Replacement
<1>24. RunsChained'
  <2>1. ASSUME NEW x \in DOMAIN runrows', NEW y \in DOMAIN runrows',
               runrows'[x].request = runrows'[y].request, x < y
        PROVE  x \in DOMAIN runrows /\ y \in DOMAIN runrows
               /\ runrows[x].request = runrows[y].request
    <3>1. DOMAIN runrows \subseteq Ids
      BY TablesTyped
    <3> QED
      BY <1>1, <1>4, <1>13, <2>1, <3>1 DEF Ids
  <2> QED
    BY <1>20, <2>1, RetryKept DEF RunsChained, Retried
<1> QED
  BY <1>20, <1>21, <1>22, <1>23, <1>24 DEF ReplayInvariant

\* A recovery: no retry of the latest run is in the log, and every fence is older.
LEMMA RecoverKeeps ==
  ASSUME ReplayInvariant, NEW c \in ServiceCommands, Recover(c)
  PROVE  ReplayInvariant'
<1>1. /\ c.kind \in Recoveries /\ New(c) /\ OwnedClaim(c.request, c.fence)
      /\ LatestRun(c.request) = c.run
      /\ c.kind # "renew-active-claim" => Eligible(c.run)
      /\ FirstExecution(c, [decision |-> c.kind, run |-> c.run, prior_fence |-> c.fence,
                            replacement |-> NextFence(c)])
      /\ UNCHANGED <<opsessions, pointers, graphrows, planrows, approvalrows>>
  BY DEF Recover
<1>2. c.kind \notin CreatesSession \cup EndsSession /\ c.kind # "retry-as-new-run"
      /\ c.kind \in OfItsRequest \ {"claim-run"} /\ c.kind \in Decisions
  BY <1>1 DEF EndsSession, CreatesSession, Decisions, Recoveries, OfItsRequest
<1>3. PICK s : s = SessionOf(c)
  OBVIOUS
<1>4. PICK q \in DOMAIN requestrows, r \in DOMAIN runrows :
         /\ q = c.request /\ r = c.run /\ runrows[r].request = q
         /\ s = requestrows[q].session /\ r \in Ids
         /\ requestrows[q] \in RequestRecords /\ runrows[r] \in RunRecords
  BY <1>1, <1>2, <1>3, SessionFound, TablesTyped DEF New, ReplayInvariant
<1>5. /\ c.fence \in LeaseFences
      /\ c.kind = "take-over-expired-claim" => c.worker \in STRING
  BY <1>1, CommandForms DEF Recoveries
<1>6. requestrows[q].status = "claimed" /\ requestrows[q].claim = c.fence
  BY <1>1, <1>4 DEF OwnedClaim
<1>7. \A x \in DOMAIN runrows : runrows[x].request = q => x <= r
  BY <1>1, <1>4, <1>6, LatestRunIs
<1>8. PICK next \in Leases : next = NextFence(c)
  <2>1. CASE c.kind = "abandon-expired-claim"
    BY <2>1 DEF NextFence, Leases
  <2>2. CASE c.kind # "abandon-expired-claim"
    <3>4. c.fence.worker \in STRING /\ c.fence.generation + 1 \in Nat \ {0}
      BY <1>5 DEF LeaseFences
    <3>1. PICK w \in STRING :
             w = IF c.kind = "take-over-expired-claim" THEN c.worker ELSE c.fence.worker
      BY <1>5, <3>4
    <3>5. PICK g \in Nat \ {0} : g = c.fence.generation + 1
      BY <3>4
    <3>2. NextFence(c) = [worker |-> w, generation |-> g]
      BY <2>2, <3>1, <3>5 DEF NextFence
    <3>3. [worker |-> w, generation |-> g] \in LeaseFences
      BY DEF LeaseFences
    <3> QED
      BY <3>2, <3>3 DEF Leases
  <2> QED
    BY <2>1, <2>2
<1>9. c.kind # "abandon-expired-claim" => next.generation = c.fence.generation + 1
  BY <1>8 DEF NextFence
<1>10. c.kind = "abandon-expired-claim" => next = NoLease
  BY <1>8 DEF NextFence
<1>11. PICK st \in {"queued", "claimed", "abandoned"} :
          st = IF c.kind = "abandon-expired-claim" THEN "abandoned" ELSE requestrows[q].status
  BY <1>6
<1>12. PICK row : row = Recovered(requestrows[q], c)
  OBVIOUS
<1>13. /\ row \in RequestRecords /\ row.session = requestrows[q].session
       /\ row.key = requestrows[q].key /\ row.fingerprint = requestrows[q].fingerprint
       /\ row.status = st /\ row.claim = next
  <2>1. row = [requestrows[q] EXCEPT !.status = st, !.claim = next, !.expired = FALSE]
    BY <1>8, <1>11, <1>12 DEF Recovered
  <2> QED
    BY <1>4, <2>1 DEF RequestRecords
<1>14. requestrows' = [requestrows EXCEPT ![q] = row]
  BY <1>4, <1>12 DEF Recover
<1>15. /\ requestrows' \in Seq(RequestRecords) /\ DOMAIN requestrows' = DOMAIN requestrows
       /\ requestrows'[q] = row
       /\ \A x \in DOMAIN requestrows : x # q => requestrows'[x] = requestrows[x]
  BY <1>13, <1>14, TablesTyped, Replacing
<1>16. PICK run : run = [runrows[r] EXCEPT !.ends = FALSE]
  OBVIOUS
<1>17. /\ run \in RunRecords /\ run.request = q /\ run.prior = runrows[r].prior
       /\ run.status = runrows[r].status /\ run.ends = FALSE
  BY <1>4, <1>16 DEF RunRecords
<1>18. runrows' = [runrows EXCEPT ![r] = run]
  BY <1>4, <1>16 DEF Recover
<1>19. /\ RunsKept /\ runrows' \in Seq(RunRecords) /\ DOMAIN runrows' = DOMAIN runrows
       /\ runrows'[r] = run
       /\ \A x \in DOMAIN runrows : runrows'[x].request = runrows[x].request
  <2>1. SettledFailure(r) => run.status = "failed" /\ ~run.ends
    BY <1>17 DEF SettledFailure
  <2>2. run.request = runrows[r].request
    BY <1>4, <1>17
  <2> QED
    BY <1>17, <1>18, <2>1, <2>2, RunReplaced
<1>20. PICK p \in Payloads : p = [decision |-> c.kind, run |-> r, prior_fence |-> c.fence,
                                  replacement |-> next]
  <2>1. [decision |-> c.kind, run |-> r, prior_fence |-> c.fence, replacement |-> next]
           \in [decision : Recoveries, run : Ids, prior_fence : LeaseFences,
                replacement : Leases]
    BY <1>1, <1>4, <1>5
  <2> QED
    BY <2>1 DEF Payloads
<1>21. TablesTypeOK'
  <2>1. \A x \in DOMAIN runrows' : runrows'[x].request \in DOMAIN requestrows'
    BY <1>15, <1>19, TablesTyped
  <2>2. \A x \in DOMAIN requestrows' : requestrows'[x].session \in DOMAIN opsessions'
    BY <1>1, <1>13, <1>15, TablesTyped
  <2> QED
    BY <1>1, <1>15, <1>19, <2>1, <2>2
       DEF ReplayInvariant, ReplayTypeOK, TablesTypeOK, RequestRecords, RunRecords
<1>22. RequestsKept
  BY <1>6, <1>11, <1>13, <1>15 DEF RequestsKept
<1>23. RowMade(c, s)'
  BY <1>1 DEF RowMade, CreatesSession, Recoveries
<1>24. PayloadHeld(c, p)'
  <2>1. RecoveryHeld(c, p)'
    <3>1. NextFence(c)' = NextFence(c)
      BY DEF NextFence
    <3>2. c.kind # "renew-active-claim" => SettledFailure(r)'
      BY <1>1, <1>4, <1>17, <1>19 DEF SettledFailure, Eligible
    <3>3. c.kind = "abandon-expired-claim" => requestrows'[q].status = "abandoned"
      BY <1>11, <1>13, <1>15
    <3> QED
      BY <1>4, <1>7, <1>8, <1>19, <1>20, <3>1, <3>2, <3>3 DEF RecoveryHeld
  <2>2. requestrows'[q].status # "queued"
    BY <1>6, <1>11, <1>13, <1>15
  <2> QED
    BY <1>1, <1>4, <2>1, <2>2 DEF PayloadHeld, Recoveries, RunKinds
<1>25. FirstExecution(c, p)
  BY <1>1, <1>4, <1>8, <1>20
<1>26. PastKept /\ ReplayTypeOK' /\ LogsOwn' /\ LogsKeyed' /\ SessionsKeyed' /\ RepliedOwn'
  BY <1>1, <1>2, <1>3, <1>19, <1>21, <1>22, <1>23, <1>24, <1>25, TablesUnchanged,
     FirstExecutionKeeps
<1>27. PICK new : new = Len(oplog[s]) + 1
  OBVIOUS
<1>28. /\ s \in DOMAIN oplog /\ DOMAIN oplog' = DOMAIN oplog
       /\ \A t \in DOMAIN oplog : t # s => oplog'[t] = oplog[t]
       /\ \A n \in DOMAIN oplog[s] : n \in DOMAIN oplog'[s] /\ oplog'[s][n] = oplog[s][n]
       /\ \A n \in DOMAIN oplog'[s] : n \in DOMAIN oplog[s] \/ n = new
       /\ oplog'[s][new].by = c /\ oplog'[s][new].payload = p
  <2>1. ReplayTypeOK /\ Known(c)
    BY <1>1 DEF New, ReplayInvariant
  <2>2. /\ s \in DOMAIN oplog /\ DOMAIN oplog' = DOMAIN oplog
        /\ \A t \in DOMAIN oplog : t # s => oplog'[t] = oplog[t]
        /\ \A n \in DOMAIN oplog[s] : n \in DOMAIN oplog'[s] /\ oplog'[s][n] = oplog[s][n]
        /\ \A n \in DOMAIN oplog'[s] : n \in DOMAIN oplog[s] \/ n = new
        /\ oplog'[s][new] = Action(c, p)
    BY <1>2, <1>3, <1>25, <1>27, <2>1, FirstExecutionAppends
  <2>3. Action(c, p).by = c /\ Action(c, p).payload = p
    BY DEF Action
  <2> QED
    BY <2>2, <2>3
<1>29. \A t \in DOMAIN oplog' : \A n \in DOMAIN oplog'[t] :
          \/ t = s /\ n = new
          \/ t \in DOMAIN oplog /\ n \in DOMAIN oplog[t] /\ oplog'[t][n] = oplog[t][n]
  BY <1>28
<1>30. LeasesHeld'
  <2>1. requestrows'[q].status = "claimed" <=> requestrows'[q].claim # NoLease
    <3>1. c.kind # "abandon-expired-claim" => next # NoLease
      BY <1>5, <1>9, NoLeaseHasNone DEF LeaseFences
    <3> QED
      BY <1>6, <1>10, <1>11, <1>13, <1>15, <3>1
  <2>2. ASSUME NEW x \in DOMAIN requestrows', x # q
        PROVE  requestrows'[x].status = "claimed" <=> requestrows'[x].claim # NoLease
    BY <1>15, <2>2 DEF ReplayInvariant, LeasesHeld
  <2>3. ASSUME NEW x \in DOMAIN requestrows', requestrows'[x].status = "claimed"
        PROVE  \E y \in DOMAIN runrows' :
                  /\ runrows'[y].request = x
                  /\ \A z \in DOMAIN runrows' : runrows'[z].request = x => z <= y
    <3>1. requestrows[x].status = "claimed" /\ x \in DOMAIN requestrows
      BY <1>6, <1>15, <2>3
    <3>2. PICK y \in DOMAIN runrows :
             /\ runrows[y].request = x
             /\ \A z \in DOMAIN runrows : runrows[z].request = x => z <= y
      BY <3>1 DEF ReplayInvariant, LeasesHeld
    <3> QED
      BY <1>19, <3>2
  <2> QED
    BY <2>1, <2>2, <2>3 DEF LeasesHeld
<1>31. FencesReached'
  <2>1. ASSUME NEW t \in DOMAIN oplog', NEW n \in DOMAIN oplog'[t], Decided(t, n)', NEW b,
               b = oplog'[t][n].by, NEW f, f = oplog'[t][n].payload.replacement,
               requestrows'[b.request].status = "claimed"
        PROVE  /\ f.generation <= requestrows'[b.request].claim.generation
               /\ f.generation = requestrows'[b.request].claim.generation =>
                     f = requestrows'[b.request].claim
    <3>1. CASE t = s /\ n = new
      <4>1. f = next /\ b.request = q
        BY <1>4, <1>20, <1>28, <2>1, <3>1
      <4>2. next.generation \in Nat
        BY <1>5, <1>9, <1>10, NoLeaseHasNone DEF LeaseFences
      <4> QED
        BY <1>13, <1>15, <4>1, <4>2
    <3>2. CASE t \in DOMAIN oplog /\ n \in DOMAIN oplog[t] /\ oplog'[t][n] = oplog[t][n]
      <4>1. Decided(t, n) /\ b = oplog[t][n].by /\ f = Replacement(t, n)
        BY <2>1, <3>2 DEF Decided, Replacement
      <4>2. b.request \in DOMAIN requestrows /\ f.generation \in Nat
        BY <3>2, <4>1, DecisionEntries DEF Decided, Replacement
      <4>3. CASE b.request = q
        <5>1. f.generation <= c.fence.generation
          BY <1>6, <3>2, <4>1, <4>3 DEF ReplayInvariant, FencesReached
        <5>2. requestrows'[q].claim.generation = c.fence.generation + 1
          BY <1>9, <1>11, <1>13, <1>15, <2>1, <4>3
        <5> QED
          BY <1>5, <4>2, <4>3, <5>1, <5>2 DEF LeaseFences
      <4>4. CASE b.request # q
        BY <1>15, <2>1, <3>2, <4>1, <4>2, <4>4 DEF ReplayInvariant, FencesReached
      <4> QED
        BY <4>3, <4>4
    <3> QED
      BY <1>29, <3>1, <3>2
  <2> QED
    BY <2>1 DEF FencesReached, Decided, Replacement
<1>32. ASSUME NEW t \in DOMAIN oplog', NEW n \in DOMAIN oplog'[t], Retried(t, n)'
       PROVE  /\ t \in DOMAIN oplog /\ n \in DOMAIN oplog[t] /\ oplog'[t][n] = oplog[t][n]
              /\ Retried(t, n)
  BY <1>2, <1>28, <1>29, <1>32 DEF Retried
<1>33. FencesFollow'
  <2>1. ASSUME NEW t \in DOMAIN oplog', NEW m \in DOMAIN oplog'[t],
               NEW n \in DOMAIN oplog'[t], Decided(t, m)', Retried(t, n)',
               oplog'[t][m].by.request = oplog'[t][n].by.request,
               oplog'[t][m].payload.run <= oplog'[t][n].payload.prior
        PROVE  Replacement(t, m)'.generation <= Replacement(t, n)'.generation
    <3>1. /\ t \in DOMAIN oplog /\ n \in DOMAIN oplog[t] /\ oplog'[t][n] = oplog[t][n]
          /\ Retried(t, n)
      BY <1>32, <2>1
    <3>2. CASE t = s /\ m = new
      <4>1. PICK b : b = oplog[t][n].by
        OBVIOUS
      <4>2. b.request = q /\ r <= oplog[t][n].payload.prior
        BY <1>4, <1>20, <1>28, <2>1, <3>1, <3>2, <4>1
      <4>3. /\ oplog[t][n].payload.prior = b.run /\ oplog[t][n].payload.run \in DOMAIN runrows
            /\ b.run < oplog[t][n].payload.run /\ b.run \in DOMAIN runrows
            /\ runrows[oplog[t][n].payload.run].request = b.request
        BY <3>1, <4>1, DecisionEntries DEF Retried, Decisions
      <4>4. oplog[t][n].payload.run <= r
        BY <1>7, <4>2, <4>3
      <4>5. DOMAIN runrows \subseteq Ids
        BY TablesTyped
      <4> QED
        BY <1>4, <4>2, <4>3, <4>4, <4>5 DEF Ids
    <3>3. CASE m \in DOMAIN oplog[t] /\ oplog'[t][m] = oplog[t][m]
      BY <2>1, <3>1, <3>3 DEF ReplayInvariant, FencesFollow, Decided, Retried, Replacement
    <3> QED
      BY <1>29, <3>2, <3>3
  <2> QED
    BY <2>1 DEF FencesFollow
<1>34. RetriedOnce'
  BY <1>32 DEF ReplayInvariant, RetriedOnce
<1>35. RunsChained'
  BY <1>19, <1>26, RetryKept DEF RunsChained, Retried
<1> QED
  BY <1>26, <1>30, <1>31, <1>33, <1>34, <1>35 DEF ReplayInvariant

\* A retry: the latest run gets its only successor, under the present fence.
LEMMA RetryKeeps ==
  ASSUME ReplayInvariant, NEW c \in ServiceCommands, Retry(c)
  PROVE  ReplayInvariant'
<1>1. /\ c.kind = "retry-as-new-run" /\ New(c) /\ OwnedClaim(c.request, c.fence)
      /\ LatestRun(c.request) = c.run /\ Eligible(c.run)
      /\ runrows' = Append([runrows EXCEPT ![c.run].ends = FALSE], OpenRun(c.request, c.run))
      /\ FirstExecution(c, [decision |-> c.kind, prior |-> c.run, run |-> Len(runrows) + 1,
                            prior_fence |-> c.fence, replacement |-> c.fence])
      /\ UNCHANGED <<opsessions, pointers, graphrows, planrows, approvalrows, requestrows>>
  BY DEF Retry
<1>2. c.kind \notin CreatesSession \cup EndsSession
      /\ c.kind \in OfItsRequest \ {"claim-run"} /\ c.kind \in Decisions
  BY <1>1 DEF EndsSession, CreatesSession, Decisions, OfItsRequest
<1>3. PICK s : s = SessionOf(c)
  OBVIOUS
<1>4. PICK q \in DOMAIN requestrows, r \in DOMAIN runrows :
         /\ q = c.request /\ r = c.run /\ runrows[r].request = q
         /\ s = requestrows[q].session /\ r \in Ids /\ q \in Ids
         /\ requestrows[q] \in RequestRecords /\ runrows[r] \in RunRecords
  BY <1>1, <1>2, <1>3, SessionFound, TablesTyped DEF New, ReplayInvariant
<1>5. c.fence \in LeaseFences /\ c.fence.generation \in Nat
  <2>1. c.fence \in LeaseFences
    BY <1>1, CommandForms DEF RetryCommands
  <2> QED
    BY <2>1 DEF LeaseFences
<1>6. requestrows[q].status = "claimed" /\ requestrows[q].claim = c.fence
  BY <1>1, <1>4 DEF OwnedClaim
<1>7. \A x \in DOMAIN runrows : runrows[x].request = q => x <= r
  BY <1>1, <1>4, <1>6, LatestRunIs
<1>8. PICK run : run = [runrows[r] EXCEPT !.ends = FALSE]
  OBVIOUS
<1>9. /\ run \in RunRecords /\ run.request = q /\ run.prior = runrows[r].prior
      /\ run.status = "failed" /\ run.ends = FALSE
  BY <1>1, <1>4, <1>8 DEF RunRecords, Eligible
<1>10. PICK old : old = [runrows EXCEPT ![r] = run]
  OBVIOUS
<1>11. /\ old \in Seq(RunRecords) /\ DOMAIN old = DOMAIN runrows /\ old[r] = run
       /\ \A x \in DOMAIN runrows : x # r => old[x] = runrows[x]
  BY <1>9, <1>10, TablesTyped, Replacing
<1>12. OpenRun(q, r) \in RunRecords /\ OpenRun(q, r).request = q /\ OpenRun(q, r).prior = r
  BY <1>4 DEF OpenRun, RunRecords, RunStatuses, Ids
<1>13. PICK i : i = Len(runrows) + 1
  OBVIOUS
<1>14. Len(old) = Len(runrows)
  BY <1>11, TablesTyped
<1>15. runrows' = Append(old, OpenRun(q, r))
  BY <1>1, <1>4, <1>8, <1>10
<1>16. /\ runrows' \in Seq(RunRecords) /\ i \in Ids /\ i \notin DOMAIN runrows
       /\ DOMAIN runrows' = DOMAIN runrows \cup {i}
       /\ runrows'[i].request = q /\ runrows'[i].prior = r
       /\ \A x \in DOMAIN runrows : x < i /\ runrows'[x] = old[x]
  BY <1>11, <1>12, <1>13, <1>14, <1>15, Appending
<1>17. /\ runrows'[r].status = "failed" /\ ~runrows'[r].ends
       /\ \A x \in DOMAIN runrows :
             runrows'[x].request = runrows[x].request /\ runrows'[x].prior = runrows[x].prior
  BY <1>4, <1>9, <1>11, <1>16
<1>18. RunsKept
  BY <1>1, <1>4, <1>6, <1>9, <1>11, <1>16, <1>17 DEF RunsKept, SettledFailure
<1>19. PICK p \in Payloads : p = [decision |-> c.kind, prior |-> r, run |-> i,
                                  prior_fence |-> c.fence, replacement |-> c.fence]
  <2>1. [decision |-> c.kind, prior |-> r, run |-> i, prior_fence |-> c.fence,
         replacement |-> c.fence]
           \in [decision : {"retry-as-new-run"}, prior : Ids, run : Ids,
                prior_fence : LeaseFences, replacement : LeaseFences]
    BY <1>1, <1>4, <1>5, <1>16
  <2> QED
    BY <2>1 DEF Payloads
<1>20. TablesTypeOK'
  <2>1. \A x \in DOMAIN runrows' : runrows'[x].request \in DOMAIN requestrows
    BY <1>4, <1>16, <1>17, TablesTyped
  <2>2. pointers' \in [current : Nat, desired : Nat, revision : Nat]
    BY <1>1 DEF ReplayInvariant, ReplayTypeOK, TablesTypeOK
  <2> QED
    BY <1>1, <1>16, <2>1, <2>2, RunTablesTyped
<1>21. RowMade(c, s)'
  BY <1>1 DEF RowMade, CreatesSession
<1>22. PayloadHeld(c, p)'
  <2>1. RetryHeld(c, p)'
    <3>1. p = [decision |-> c.kind, prior |-> c.run, run |-> p.run,
               prior_fence |-> c.fence, replacement |-> c.fence] /\ p.run = i
      BY <1>4, <1>19
    <3>2. SettledFailure(c.run)'
      BY <1>4, <1>17 DEF SettledFailure
    <3>3. i \in DOMAIN runrows' /\ c.run < i /\ runrows'[i].request = c.request
          /\ runrows'[i].prior = c.run
      BY <1>4, <1>16
    <3> QED
      BY <3>1, <3>2, <3>3 DEF RetryHeld
  <2>2. requestrows'[c.request].status # "queued"
    BY <1>1, <1>4, <1>6
  <2> QED
    BY <1>1, <2>1, <2>2 DEF PayloadHeld, Recoveries, RunKinds
<1>23. FirstExecution(c, p)
  BY <1>1, <1>4, <1>13, <1>19
<1>24. PastKept /\ ReplayTypeOK' /\ LogsOwn' /\ LogsKeyed' /\ SessionsKeyed' /\ RepliedOwn'
  BY <1>1, <1>2, <1>3, <1>18, <1>20, <1>21, <1>22, <1>23, TablesUnchanged,
     FirstExecutionKeeps
<1>25. PICK new : new = Len(oplog[s]) + 1
  OBVIOUS
<1>26. /\ s \in DOMAIN oplog /\ DOMAIN oplog' = DOMAIN oplog
       /\ \A t \in DOMAIN oplog : t # s => oplog'[t] = oplog[t]
       /\ \A n \in DOMAIN oplog[s] : n \in DOMAIN oplog'[s] /\ oplog'[s][n] = oplog[s][n]
       /\ \A n \in DOMAIN oplog'[s] : n \in DOMAIN oplog[s] \/ n = new
       /\ oplog'[s][new].by = c /\ oplog'[s][new].payload = p /\ new \in DOMAIN oplog'[s]
  <2>1. ReplayTypeOK /\ Known(c)
    BY <1>1 DEF New, ReplayInvariant
  <2>2. /\ s \in DOMAIN oplog /\ DOMAIN oplog' = DOMAIN oplog
        /\ \A t \in DOMAIN oplog : t # s => oplog'[t] = oplog[t]
        /\ \A n \in DOMAIN oplog[s] : n \in DOMAIN oplog'[s] /\ oplog'[s][n] = oplog[s][n]
        /\ \A n \in DOMAIN oplog'[s] : n \in DOMAIN oplog[s] \/ n = new
        /\ oplog'[s][new] = Action(c, p) /\ new \in DOMAIN oplog'[s]
    BY <1>2, <1>3, <1>23, <1>25, <2>1, FirstExecutionAppends
  <2>3. Action(c, p).by = c /\ Action(c, p).payload = p
    BY DEF Action
  <2> QED
    BY <2>2, <2>3
<1>27. \A t \in DOMAIN oplog' : \A n \in DOMAIN oplog'[t] :
          \/ t = s /\ n = new
          \/ t \in DOMAIN oplog /\ n \in DOMAIN oplog[t] /\ oplog'[t][n] = oplog[t][n]
  BY <1>26
<1>28. LeasesHeld'
  <2>1. \A x \in DOMAIN runrows' : runrows'[x].request = q => x <= i
    BY <1>16 DEF Ids
  <2>2. ASSUME NEW x \in DOMAIN requestrows', x # q, requestrows'[x].status = "claimed"
        PROVE  \E y \in DOMAIN runrows' :
                  /\ runrows'[y].request = x
                  /\ \A z \in DOMAIN runrows' : runrows'[z].request = x => z <= y
    <3>1. PICK y \in DOMAIN runrows :
             /\ runrows[y].request = x
             /\ \A z \in DOMAIN runrows : runrows[z].request = x => z <= y
      BY <1>1, <2>2 DEF ReplayInvariant, LeasesHeld
    <3> QED
      BY <1>16, <1>17, <2>2, <3>1
  <2>3. \A x \in DOMAIN requestrows' :
           requestrows'[x].status = "claimed" <=> requestrows'[x].claim # NoLease
    BY <1>1 DEF ReplayInvariant, LeasesHeld
  <2> QED
    BY <1>16, <2>1, <2>2, <2>3 DEF LeasesHeld
<1>29. ASSUME NEW t \in DOMAIN oplog, NEW n \in DOMAIN oplog[t], Decided(t, n), NEW b,
              b = oplog[t][n].by, b.request = q
       PROVE  Replacement(t, n).generation <= c.fence.generation
  BY <1>6, <1>29 DEF ReplayInvariant, FencesReached
<1>30. FencesReached'
  <2>1. ASSUME NEW t \in DOMAIN oplog', NEW n \in DOMAIN oplog'[t], Decided(t, n)', NEW b,
               b = oplog'[t][n].by, NEW f, f = oplog'[t][n].payload.replacement,
               requestrows'[b.request].status = "claimed"
        PROVE  /\ f.generation <= requestrows'[b.request].claim.generation
               /\ f.generation = requestrows'[b.request].claim.generation =>
                     f = requestrows'[b.request].claim
    <3>1. CASE t = s /\ n = new
      <4>1. f = c.fence /\ b.request = q
        BY <1>4, <1>19, <1>26, <2>1, <3>1
      <4> QED
        BY <1>1, <1>5, <1>6, <4>1
    <3>2. CASE t \in DOMAIN oplog /\ n \in DOMAIN oplog[t] /\ oplog'[t][n] = oplog[t][n]
      <4>1. Decided(t, n) /\ b = oplog[t][n].by /\ f = Replacement(t, n)
        BY <2>1, <3>2 DEF Decided, Replacement
      <4> QED
        BY <1>1, <2>1, <3>2, <4>1 DEF ReplayInvariant, FencesReached
    <3> QED
      BY <1>27, <3>1, <3>2
  <2> QED
    BY <2>1 DEF FencesReached, Decided, Replacement
<1>31. DOMAIN runrows \subseteq Ids
  BY TablesTyped
<1>32. ASSUME NEW t \in DOMAIN oplog, NEW n \in DOMAIN oplog[t], Retried(t, n), NEW b,
              b = oplog[t][n].by
       PROVE  /\ oplog[t][n].payload.prior = b.run /\ b.run \in DOMAIN runrows
              /\ oplog[t][n].payload.run \in DOMAIN runrows
              /\ b.run < oplog[t][n].payload.run
              /\ runrows[b.run].request = b.request
              /\ runrows[oplog[t][n].payload.run].request = b.request
  BY <1>32, DecisionEntries DEF Retried, Decisions
<1>33. FencesFollow'
  <2>1. ASSUME NEW t \in DOMAIN oplog', NEW m \in DOMAIN oplog'[t],
               NEW n \in DOMAIN oplog'[t], Decided(t, m)', Retried(t, n)',
               oplog'[t][m].by.request = oplog'[t][n].by.request,
               oplog'[t][m].payload.run <= oplog'[t][n].payload.prior
        PROVE  Replacement(t, m)'.generation <= Replacement(t, n)'.generation
    <3>1. CASE t = s /\ m = new /\ n = new
      <4>1. oplog'[t][m].payload.run = i /\ oplog'[t][n].payload.prior = r
        BY <1>19, <1>26, <3>1
      <4> QED
        BY <1>4, <1>16, <2>1, <4>1 DEF Ids
    <3>2. CASE t = s /\ m = new /\ n \in DOMAIN oplog[t] /\ oplog'[t][n] = oplog[t][n]
      <4>1. PICK b : b = oplog[t][n].by
        OBVIOUS
      <4>2. Retried(t, n) /\ i <= b.run /\ b.run \in DOMAIN runrows
        <5>1. Retried(t, n) /\ t \in DOMAIN oplog
          BY <1>26, <2>1, <3>2 DEF Retried
        <5>2. oplog[t][n].payload.prior = b.run /\ b.run \in DOMAIN runrows
          BY <1>32, <3>2, <4>1, <5>1
        <5> QED
          BY <1>19, <1>26, <2>1, <3>2, <5>1, <5>2
      <4> QED
        BY <1>16, <1>31, <4>2 DEF Ids
    <3>3. CASE t = s /\ n = new /\ m \in DOMAIN oplog[t] /\ oplog'[t][m] = oplog[t][m]
      <4>1. Decided(t, m) /\ oplog[t][m].by.request = q
        BY <1>4, <1>26, <2>1, <3>3 DEF Decided
      <4>2. Replacement(t, m).generation <= c.fence.generation
        BY <1>26, <1>29, <3>3, <4>1
      <4>3. Replacement(t, n)' = c.fence /\ Replacement(t, m)' = Replacement(t, m)
        BY <1>19, <1>26, <3>3 DEF Replacement
      <4> QED
        BY <4>2, <4>3
    <3>4. CASE /\ t \in DOMAIN oplog
               /\ m \in DOMAIN oplog[t] /\ oplog'[t][m] = oplog[t][m]
               /\ n \in DOMAIN oplog[t] /\ oplog'[t][n] = oplog[t][n]
      BY <2>1, <3>4 DEF ReplayInvariant, FencesFollow, Decided, Retried, Replacement
    <3> QED
      BY <1>27, <3>1, <3>2, <3>3, <3>4
  <2> QED
    BY <2>1 DEF FencesFollow
<1>34. ASSUME NEW n \in DOMAIN oplog[s], Retried(s, n)
       PROVE  oplog[s][n].payload.prior # r
  <2>1. SUFFICES ASSUME oplog[s][n].payload.prior = r PROVE FALSE
    OBVIOUS
  <2>2. PICK b : b = oplog[s][n].by
    OBVIOUS
  <2>3. /\ r = b.run /\ oplog[s][n].payload.run \in DOMAIN runrows
        /\ r < oplog[s][n].payload.run /\ b.request = q
        /\ runrows[oplog[s][n].payload.run].request = q
    BY <1>4, <1>26, <1>32, <1>34, <2>1, <2>2
  <2>4. oplog[s][n].payload.run <= r
    BY <1>7, <2>3
  <2> QED
    BY <1>31, <2>3, <2>4 DEF Ids
<1>35. RetriedOnce'
  <2>1. ASSUME NEW t \in DOMAIN oplog', NEW m \in DOMAIN oplog'[t],
               NEW n \in DOMAIN oplog'[t], Retried(t, m)', Retried(t, n)',
               oplog'[t][m].payload.prior = oplog'[t][n].payload.prior
        PROVE  m = n
    <3>1. CASE t = s /\ m = new /\ n \in DOMAIN oplog[t] /\ oplog'[t][n] = oplog[t][n]
      BY <1>19, <1>26, <1>34, <2>1, <3>1 DEF Retried
    <3>2. CASE t = s /\ n = new /\ m \in DOMAIN oplog[t] /\ oplog'[t][m] = oplog[t][m]
      BY <1>19, <1>26, <1>34, <2>1, <3>2 DEF Retried
    <3>3. CASE /\ t \in DOMAIN oplog
               /\ m \in DOMAIN oplog[t] /\ oplog'[t][m] = oplog[t][m]
               /\ n \in DOMAIN oplog[t] /\ oplog'[t][n] = oplog[t][n]
      BY <2>1, <3>3 DEF ReplayInvariant, RetriedOnce, Retried
    <3> QED
      BY <1>27, <3>1, <3>2, <3>3
  <2> QED
    BY <2>1 DEF RetriedOnce
<1>36. RunsChained'
  <2>1. ASSUME NEW x \in DOMAIN runrows', NEW y \in DOMAIN runrows',
               runrows'[x].request = runrows'[y].request, x < y
        PROVE  LET t == requestrows'[runrows'[x].request].session
               IN  \E n \in DOMAIN oplog'[t] :
                      /\ oplog'[t][n].by.kind = "retry-as-new-run"
                      /\ oplog'[t][n].payload.prior = x
    <3>1. x \in DOMAIN runrows
      BY <1>16, <1>31, <2>1 DEF Ids
    <3>2. CASE y \in DOMAIN runrows
      BY <1>17, <1>24, <2>1, <3>1, <3>2, RetryKept
    <3>3. CASE y = i /\ x < r
      <4>1. runrows'[x].request = runrows[x].request /\ runrows[x].request = runrows[r].request
        BY <1>4, <1>16, <1>17, <2>1, <3>1, <3>3
      <4> QED
        BY <1>4, <1>24, <3>1, <3>3, <4>1, RetryKept
    <3>4. CASE y = i /\ x = r
      <4>1. requestrows'[runrows'[x].request].session = s
        BY <1>1, <1>4, <1>17, <3>4
      <4>2. oplog'[s][new].by.kind = "retry-as-new-run"
        BY <1>1, <1>26
      <4>3. oplog'[s][new].payload.prior = x
        BY <1>19, <1>26, <3>4
      <4> QED
        BY <1>26, <4>1, <4>2, <4>3
    <3>5. y = i => x <= r
      BY <1>7, <1>16, <1>17, <2>1, <3>1
    <3>6. y \in DOMAIN runrows \/ (y = i /\ x < r) \/ (y = i /\ x = r)
      <4>1. y \in DOMAIN runrows \/ y = i
        BY <1>16
      <4>2. x \in Nat /\ r \in Nat
        BY <1>4, <1>31, <3>1 DEF Ids
      <4> QED
        BY <3>5, <4>1, <4>2
    <3> QED
      BY <3>2, <3>3, <3>4, <3>6
  <2> QED
    BY <2>1 DEF RunsChained, Retried
<1> QED
  BY <1>24, <1>28, <1>30, <1>33, <1>35, <1>36 DEF ReplayInvariant

-----------------------------------------------------------------------------
(* A new session, a replay, the surroundings.                              *)

SessionRecords ==
    [status : {"open", "closed", "cancelled"}, key : STRING, fingerprint : Fingerprints]

\* A log of one action.
LEMMA OneEntry ==
  ASSUME NEW S, NEW e \in S
  PROVE  <<e>> \in Seq(S) /\ Len(<<e>>) = 1 /\ DOMAIN <<e>> = {1} /\ <<e>>[1] = e
OBVIOUS

\* The start of a session adds the session, under a new key, and its log.
LEMMA StartKeeps ==
  ASSUME ReplayInvariant, NEW c \in ServiceCommands, StartOperationSession(c)
  PROVE  ReplayInvariant'
<1>1. /\ c.kind \in CreatesSession /\ RowsFor(c) = {}
      /\ UNCHANGED <<pointers, graphrows, planrows, approvalrows, requestrows, runrows>>
  BY DEF StartOperationSession
<1>2. c.kind \notin Decisions \cup EndsSession
  BY <1>1 DEF EndsSession, CreatesSession, Decisions, Recoveries
<1>3. PICK p \in Payloads : p = <<>>
  BY DEF Payloads
<1>4. PICK e \in Entries : e = Action(c, p) /\ e.by = c /\ e.payload = p
  BY ActionIsEntry DEF Action
<1>5. PICK row : row = [status |-> "open", key |-> c.key, fingerprint |-> IntentOf(c)]
  OBVIOUS
<1>6. row \in SessionRecords
  BY <1>5, CommandForms DEF SessionRecords, Fingerprints
<1>7. PICK log : log = <<e>>
  OBVIOUS
<1>8. log \in Seq(Entries) /\ Len(log) = 1 /\ DOMAIN log = {1} /\ log[1] = e
  BY <1>7, OneEntry
<1>9. PICK i : i = Len(opsessions) + 1
  OBVIOUS
<1>10. /\ opsessions \in Seq(SessionRecords) /\ oplog \in Seq(Seq(Entries))
       /\ Len(oplog) = Len(opsessions)
  BY DEF ReplayInvariant, ReplayTypeOK, TablesTypeOK, SessionRecords
<1>11. opsessions' = Append(opsessions, row) /\ oplog' = Append(oplog, log)
  BY <1>3, <1>4, <1>5, <1>7 DEF StartOperationSession
<1>12. /\ opsessions' \in Seq(SessionRecords) /\ i \in Ids /\ i \notin DOMAIN opsessions
       /\ DOMAIN opsessions' = DOMAIN opsessions \cup {i} /\ opsessions'[i] = row
       /\ \A x \in DOMAIN opsessions : opsessions'[x] = opsessions[x]
  BY <1>6, <1>9, <1>10, <1>11, Appending
<1>13. /\ oplog' \in Seq(Seq(Entries)) /\ i \notin DOMAIN oplog
       /\ DOMAIN oplog' = DOMAIN oplog \cup {i} /\ oplog'[i] = log
       /\ \A x \in DOMAIN oplog : oplog'[x] = oplog[x]
  BY <1>8, <1>9, <1>10, <1>11, Appending
<1>14. Len(oplog') = Len(opsessions')
  BY <1>10, <1>11
<1>15. replied' = replied \cup {[to |-> c, session |-> i, ordinal |-> 1]}
  BY <1>9 DEF StartOperationSession, AnswerWith
<1>16. ReplayTypeOK'
  <2>1. TablesTypeOK'
    BY <1>1, <1>12 DEF ReplayInvariant, ReplayTypeOK, TablesTypeOK, SessionRecords
  <2>2. replied' \subseteq [to : ServiceCommands, session : Ids, ordinal : Ids]
    BY <1>12, <1>15 DEF ReplayInvariant, ReplayTypeOK, Ids
  <2> QED
    BY <1>13, <1>14, <2>1, <2>2 DEF ReplayTypeOK
<1>17. PastKept
  BY <1>1, <1>12, <1>13, TablesUnchanged DEF PastKept, LogKept
<1>18. NoDecision
  BY <1>2, <1>4, <1>8, <1>13 DEF NoDecision
<1>19. LogsOwn'
  <2>1. Own(i, 1)'
    <3>1. Known(c)'
      BY <1>1, CommandForms DEF Known
    <3>2. RowMade(c, i)'
      BY <1>1, <1>5, <1>12 DEF RowMade, CreatesSession
    <3>3. PayloadHeld(c, p)'
      BY <1>1 DEF PayloadHeld, CreatesSession, Decisions, Recoveries, RunKinds
    <3>4. Action(c, p)' = Action(c, p)
      BY DEF Action
    <3> QED
      BY <1>1, <1>4, <1>8, <1>13, <3>1, <3>2, <3>3, <3>4 DEF Own
  <2>2. ASSUME NEW s \in DOMAIN oplog, NEW n \in DOMAIN oplog[s] PROVE Own(s, n)'
    BY <1>17, OwnKept DEF ReplayInvariant, LogsOwn
  <2> QED
    BY <1>8, <1>13, <2>1, <2>2 DEF LogsOwn
<1>20. LogsKeyed'
  <2>1. ASSUME NEW s \in DOMAIN oplog
        PROVE  oplog'[s] = oplog[s] /\ opsessions'[s].status = opsessions[s].status
    BY <1>12, <1>13, LogTyped DEF ReplayInvariant
  <2>2. opsessions'[i].status = "open"
    BY <1>5, <1>12
  <2>3. ASSUME NEW s \in DOMAIN oplog
        PROVE  /\ Len(oplog'[s]) >= 1
               /\ \A m, n \in DOMAIN oplog'[s] : oplog'[s][m].key = oplog'[s][n].key => m = n
               /\ \A n \in DOMAIN oplog'[s] :
                     oplog'[s][n].by.kind \in EndsSession <=>
                        n = Len(oplog'[s]) /\ opsessions'[s].status # "open"
    BY <2>1 DEF ReplayInvariant, LogsKeyed
  <2>4. /\ Len(oplog'[i]) >= 1
        /\ \A m, n \in DOMAIN oplog'[i] : oplog'[i][m].key = oplog'[i][n].key => m = n
        /\ \A n \in DOMAIN oplog'[i] : oplog'[i][n].by.kind \notin EndsSession
    <3>1. oplog'[i] = log
      BY <1>13
    <3>2. log[1].by.kind \notin EndsSession
      BY <1>2, <1>4, <1>8
    <3>3. \A n \in DOMAIN log : n = 1
      BY <1>8
    <3>4. Len(log) >= 1
      BY <1>8
    <3>5. \A m, n \in DOMAIN log : log[m].key = log[n].key => m = n
      BY <3>3, Zenon
    <3>6. \A n \in DOMAIN log : log[n].by.kind \notin EndsSession
      BY <3>2, <3>3, Zenon
    <3> QED
      BY <3>1, <3>4, <3>5, <3>6, Zenon
  <2> QED
    BY <1>13, <2>2, <2>3, <2>4 DEF LogsKeyed
<1>21. SessionsKeyed'
  <2>1. \A s \in DOMAIN opsessions : opsessions[s].key # c.key
    <3>1. SessionRows(c) = {}
      BY <1>1 DEF RowsFor, CreatesSession
    <3>2. \A s \in DOMAIN opsessions :
             opsessions[s].key = c.key => Row(s, opsessions[s].fingerprint) \in SessionRows(c)
      BY DEF SessionRows
    <3> QED
      BY <3>1, <3>2
  <2>2. row.key = c.key
    BY <1>5
  <2> QED
    BY <1>12, <2>1, <2>2 DEF ReplayInvariant, SessionsKeyed
<1>22. RepliedOwn'
  <2>1. ASSUME NEW x \in replied'
        PROVE  /\ x.session \in DOMAIN oplog' /\ x.ordinal \in DOMAIN oplog'[x.session]
               /\ oplog'[x.session][x.ordinal].by = x.to
    <3>1. CASE x \in replied
      BY <1>13, <3>1 DEF ReplayInvariant, RepliedOwn
    <3>2. CASE x = [to |-> c, session |-> i, ordinal |-> 1]
      BY <1>4, <1>8, <1>13, <3>2
    <3> QED
      BY <1>15, <3>1, <3>2
  <2> QED
    BY <2>1 DEF RepliedOwn
<1>23. LeasesHeld' /\ FencesReached' /\ FencesFollow' /\ RunsChained' /\ RetriedOnce'
  BY <1>1, <1>17, <1>18, TablesUnchanged, FencesKept DEF ReplayInvariant
<1> QED
  BY <1>16, <1>19, <1>20, <1>21, <1>22, <1>23 DEF ReplayInvariant

\* A step that adds no action and ends no session.
LEMMA SilentStep ==
  ASSUME ReplayInvariant, UNCHANGED <<opsessions, oplog>>,
         RowsKept, RequestsKept, RunsKept, FencesStay, ReplayTypeOK', RepliedOwn'
  PROVE  ReplayInvariant'
<1>1. PastKept /\ NoDecision
  BY DEF PastKept, LogKept, NoDecision
<1>2. LogsOwn'
  BY <1>1, OwnKept DEF ReplayInvariant, LogsOwn
<1>3. LogsKeyed' /\ SessionsKeyed'
  BY DEF ReplayInvariant, LogsKeyed, SessionsKeyed
<1>4. LeasesHeld' /\ FencesReached' /\ FencesFollow' /\ RunsChained' /\ RetriedOnce'
  BY <1>1, FencesKept DEF ReplayInvariant
<1> QED
  BY <1>2, <1>3, <1>4 DEF ReplayInvariant

\* The action a command is answered with is the command's own.
LEMMA AnswersAreOwn ==
  ASSUME ReplayInvariant, NEW c \in ServiceCommands, NEW s \in DOMAIN oplog,
         NEW n \in DOMAIN oplog[s], Answers(c, s, n)
  PROVE  oplog[s][n].by = c
<1>1. PICK b \in ServiceCommands : b = oplog[s][n].by
  BY LogTyped DEF ReplayInvariant
<1>2. oplog[s][n] = Action(b, oplog[s][n].payload)
  BY <1>1 DEF ReplayInvariant, LogsOwn, Own
<1>3. oplog[s][n].key = b.key /\ oplog[s][n].fingerprint = IntentOf(b)
  BY <1>2 DEF Action
<1>4. oplog[s][n].key = c.key /\ oplog[s][n].fingerprint = IntentOf(c)
  BY DEF Answers, ActionsFor
<1> QED
  BY <1>1, <1>3, <1>4, FingerprintsTellApart

\* A replay changes no row.
LEMMA ReplayCommandKeeps ==
  ASSUME ReplayInvariant, NEW c \in ServiceCommands, ReplayCommand(c)
  PROVE  ReplayInvariant'
<1>1. UNCHANGED <<opsessions, oplog, pointers, graphrows, planrows, approvalrows,
                  requestrows, runrows>>
  BY DEF ReplayCommand
<1>7. PICK s \in DOMAIN opsessions :
         \E n \in ActionsFor(s, c.key) : Answers(c, s, n) /\ AnswerWith(c, s, n)
  BY DEF ReplayCommand
<1>2. PICK n \in DOMAIN oplog[s] :
         Answers(c, s, n) /\ replied' = replied \cup {[to |-> c, session |-> s, ordinal |-> n]}
  BY <1>7 DEF AnswerWith, ActionsFor
<1>3. s \in DOMAIN oplog /\ s \in Ids /\ n \in Ids
  BY <1>2, LogTyped, TablesTyped DEF ReplayInvariant, Ids
<1>4. oplog[s][n].by = c
  BY <1>2, <1>3, AnswersAreOwn
<1>5. RepliedOwn'
  <2>1. ASSUME NEW x \in replied'
        PROVE  /\ x.session \in DOMAIN oplog /\ x.ordinal \in DOMAIN oplog[x.session]
               /\ oplog[x.session][x.ordinal].by = x.to
    <3>1. CASE x \in replied
      BY <3>1 DEF ReplayInvariant, RepliedOwn
    <3>2. CASE x = [to |-> c, session |-> s, ordinal |-> n]
      BY <1>2, <1>3, <1>4, <3>2
    <3> QED
      BY <1>2, <3>1, <3>2
  <2> QED
    BY <1>1, <2>1 DEF RepliedOwn
<1>6. ReplayTypeOK'
  <2>1. replied' \subseteq [to : ServiceCommands, session : Ids, ordinal : Ids]
    BY <1>2, <1>3 DEF ReplayInvariant, ReplayTypeOK
  <2> QED
    BY <1>1, <2>1 DEF ReplayInvariant, ReplayTypeOK, TablesTypeOK
<1> QED
  BY <1>1, <1>5, <1>6, TablesUnchanged, SilentStep

\* A lease that expires stays the request's claim.
LEMMA LeaseExpiresKeeps ==
  ASSUME ReplayInvariant, NEW q \in DOMAIN requestrows, LeaseExpires(q)
  PROVE  ReplayInvariant'
<1>1. UNCHANGED <<opsessions, oplog, pointers, graphrows, planrows, approvalrows, runrows,
                  replied>>
  BY DEF LeaseExpires
<1>2. PICK row : row = [requestrows[q] EXCEPT !.expired = TRUE]
  OBVIOUS
<1>3. /\ row \in RequestRecords /\ row.session = requestrows[q].session
      /\ row.key = requestrows[q].key /\ row.fingerprint = requestrows[q].fingerprint
      /\ row.status = requestrows[q].status /\ row.claim = requestrows[q].claim
  <2>1. requestrows[q] \in RequestRecords
    BY TablesTyped
  <2> QED
    BY <1>2, <2>1 DEF RequestRecords
<1>4. requestrows' = [requestrows EXCEPT ![q] = row]
  BY <1>2 DEF LeaseExpires
<1>5. /\ requestrows' \in Seq(RequestRecords) /\ DOMAIN requestrows' = DOMAIN requestrows
      /\ requestrows'[q] = row
      /\ \A x \in DOMAIN requestrows : x # q => requestrows'[x] = requestrows[x]
  BY <1>3, <1>4, TablesTyped, Replacing
<1>6. RequestsKept
  BY <1>3, <1>5 DEF RequestsKept
<1>7. FencesStay
  BY <1>1, <1>3, <1>5 DEF FencesStay
<1>8. ReplayTypeOK'
  <2>1. \A x \in DOMAIN requestrows' : requestrows'[x].session \in DOMAIN opsessions'
    BY <1>1, <1>3, <1>5, TablesTyped
  <2>2. \A x \in DOMAIN runrows' : runrows'[x].request \in DOMAIN requestrows'
    BY <1>1, <1>5, TablesTyped
  <2> QED
    BY <1>1, <1>5, <2>1, <2>2
       DEF ReplayInvariant, ReplayTypeOK, TablesTypeOK, RequestRecords
<1>9. RepliedOwn'
  BY <1>1 DEF ReplayInvariant, RepliedOwn
<1> QED
  BY <1>1, <1>6, <1>7, <1>8, <1>9, TablesUnchanged, SilentStep

\* A compensation that settles was of no settled failure.
LEMMA CompensationSettlesKeeps ==
  ASSUME ReplayInvariant, NEW r \in DOMAIN runrows, CompensationSettles(r)
  PROVE  ReplayInvariant'
<1>1. /\ UNCHANGED <<opsessions, oplog, pointers, graphrows, planrows, approvalrows,
                     requestrows, replied>>
      /\ runrows[r].status = "compensating"
  BY DEF CompensationSettles
<1>2. PICK status \in {"compensated", "uncompensated_failure"} :
         runrows' = [runrows EXCEPT ![r].status = status]
  BY DEF CompensationSettles
<1>3. PICK run : run = [runrows[r] EXCEPT !.status = status]
  OBVIOUS
<1>4. /\ run \in RunRecords /\ run.request = runrows[r].request
      /\ run.prior = runrows[r].prior
  <2>1. runrows[r] \in RunRecords
    BY TablesTyped
  <2> QED
    BY <1>3, <2>1 DEF RunRecords, RunStatuses
<1>5. runrows' = [runrows EXCEPT ![r] = run]
  BY <1>2, <1>3
<1>6. SettledFailure(r) => run.status = "failed" /\ ~run.ends
  BY <1>1 DEF SettledFailure
<1>7. /\ RunsKept /\ runrows' \in Seq(RunRecords) /\ DOMAIN runrows' = DOMAIN runrows
      /\ runrows'[r] = run
      /\ \A x \in DOMAIN runrows : runrows'[x].request = runrows[x].request
  BY <1>4, <1>5, <1>6, RunReplaced
<1>8. FencesStay
  BY <1>1, <1>7 DEF FencesStay
<1>9. ReplayTypeOK'
  <2>1. \A x \in DOMAIN runrows' : runrows'[x].request \in DOMAIN requestrows'
    BY <1>1, <1>7, TablesTyped
  <2> QED
    BY <1>1, <1>7, <2>1 DEF ReplayInvariant, ReplayTypeOK, TablesTypeOK, RunRecords
<1>10. RepliedOwn'
  BY <1>1 DEF ReplayInvariant, RepliedOwn
<1> QED
  BY <1>1, <1>7, <1>8, <1>9, <1>10, TablesUnchanged, SilentStep

\* An empty table.
LEMMA NoRows == ASSUME NEW S PROVE <<>> \in Seq(S) /\ Len(<<>>) = 0 /\ DOMAIN <<>> = {}
OBVIOUS

\* Before the first session there is nothing.
LEMMA ReplayInitKeeps ==
  ASSUME ReplayInit
  PROVE  ReplayInvariant
<1>1. /\ pointers = [current |-> 0, desired |-> 0, revision |-> 0] /\ replied = {}
      /\ Len(opsessions) = 0 /\ DOMAIN opsessions = {}
      /\ Len(oplog) = 0 /\ DOMAIN oplog = {}
      /\ DOMAIN approvalrows = {} /\ DOMAIN requestrows = {} /\ DOMAIN runrows = {}
  BY NoRows DEF ReplayInit
<1>2. \A S : /\ opsessions \in Seq(S) /\ oplog \in Seq(S) /\ graphrows \in Seq(S)
             /\ planrows \in Seq(S) /\ approvalrows \in Seq(S) /\ requestrows \in Seq(S)
             /\ runrows \in Seq(S)
  BY NoRows DEF ReplayInit
<1>3. TablesTypeOK
  BY <1>1, <1>2 DEF TablesTypeOK
<1>4. ReplayTypeOK
  BY <1>1, <1>2, <1>3 DEF ReplayTypeOK
<1>5. LogsOwn /\ LogsKeyed /\ SessionsKeyed /\ RepliedOwn
  BY <1>1 DEF LogsOwn, LogsKeyed, SessionsKeyed, RepliedOwn
<1>6. LeasesHeld /\ FencesReached /\ FencesFollow /\ RunsChained /\ RetriedOnce
  BY <1>1 DEF LeasesHeld, FencesReached, FencesFollow, RunsChained, RetriedOnce
<1> QED
  BY <1>4, <1>5, <1>6 DEF ReplayInvariant

\* Nothing changes.
LEMMA StutterKeeps ==
  ASSUME ReplayInvariant, UNCHANGED mvars
  PROVE  ReplayInvariant'
<1>1. UNCHANGED <<opsessions, oplog, pointers, graphrows, planrows, approvalrows,
                  requestrows, runrows, replied>>
  BY DEF mvars
<1>2. ReplayTypeOK' /\ RepliedOwn'
  BY <1>1 DEF ReplayInvariant, ReplayTypeOK, TablesTypeOK, RepliedOwn
<1> QED
  BY <1>1, <1>2, TablesUnchanged, SilentStep

\* The log, the rows and what they say of each other stay in step under every command,
\* first or sent again, under a lease's expiry and the end of a compensation: the
\* transaction of the command services that writes a row, its action and the reply.
THEOREM ReplayInvariantHolds == ReplaySpec => []ReplayInvariant
<1>1. ReplayInit => ReplayInvariant
  BY ReplayInitKeeps
<1>2. ReplayInvariant /\ [ReplayNext]_mvars => ReplayInvariant'
  <2>1. SUFFICES ASSUME ReplayInvariant, [ReplayNext]_mvars
                 PROVE  ReplayInvariant'
    OBVIOUS
  <2>2. CASE UNCHANGED mvars
    BY <2>1, <2>2, StutterKeeps
  <2>3. ASSUME NEW c \in ServiceCommands,
               \/ ReplayCommand(c)
               \/ StartOperationSession(c) \/ EndOperationSession(c)
               \/ RecordOperationAction(c)
               \/ SetDesired(c) \/ RequestActivityPlan(c) \/ AskApproval(c) \/ Decide(c)
               \/ Admit(c) \/ Claim(c) \/ ChangeRun(c) \/ Advance(c)
               \/ Recover(c) \/ Retry(c) \/ BeginRunCompensation(c)
        PROVE  ReplayInvariant'
    BY <2>1, <2>3, ReplayCommandKeeps, StartKeeps, EndKeeps, RecordKeeps, SetDesiredKeeps,
       RequestPlanKeeps, AskApprovalKeeps, DecideKeeps, AdmitKeeps, ClaimKeeps,
       ChangeRunKeeps, AdvanceKeeps, RecoverKeeps, RetryKeeps, BeginCompensationKeeps
  <2>4. ASSUME NEW q \in DOMAIN requestrows, LeaseExpires(q) PROVE ReplayInvariant'
    BY <2>1, <2>4, LeaseExpiresKeeps
  <2>5. ASSUME NEW r \in DOMAIN runrows, CompensationSettles(r) PROVE ReplayInvariant'
    BY <2>1, <2>5, CompensationSettlesKeeps
  <2> QED
    BY <2>1, <2>2, <2>3, <2>4, <2>5 DEF ReplayNext
<1> QED
  BY <1>1, <1>2, PTL DEF ReplaySpec

-----------------------------------------------------------------------------
(* What the invariant says of a reply.                                     *)

\* The type of an action tells a start, an end and a decision from all else: none of
\* them may be recorded by hand.
LEMMA TypesTellApart ==
  ASSUME NEW c \in ServiceCommands
  PROVE  /\ ActionType(c) \in CreatesSession <=> c.kind \in CreatesSession
         /\ ActionType(c) \in EndsSession <=> c.kind \in EndsSession
         /\ ActionType(c) = "record-recovery-decision" <=> c.kind \in Decisions
         /\ c.kind \in {"request-approval", "decide-approval", "admit-execution"} =>
               ActionType(c) = c.kind
<1>1. CASE c.kind = "record-operation-action"
  <2>1. ActionType(c) \in OperatorKinds \ Reserved
    BY <1>1, CommandForms DEF ActionType
  <2> QED
    BY <1>1, <2>1 DEF Reserved, CreatesSession, EndsSession, Decisions, Recoveries,
       OperatorKinds, OutsideSessions, InSession
<1>2. CASE c.kind \in Decisions
  BY <1>2 DEF ActionType, Decisions, Recoveries, CreatesSession, EndsSession
<1>3. CASE c.kind \notin Decisions \cup {"record-operation-action"}
  <2>1. ActionType(c) = c.kind
    BY <1>3 DEF ActionType, Decisions
  <2>2. c.kind # "record-recovery-decision"
    BY CommandForms DEF CreatesSession, EndsSession, RunKinds, Recoveries
  <2> QED
    BY <1>3, <2>1, <2>2
<1> QED
  BY <1>1, <1>2, <1>3

\* An entry has its command's key, fingerprint, type and actor.
LEMMA EntryOfCommand ==
  ASSUME ReplayInvariant, NEW s \in DOMAIN oplog, NEW n \in DOMAIN oplog[s],
         NEW c, c = oplog[s][n].by
  PROVE  /\ c \in ServiceCommands /\ Own(s, n)
         /\ oplog[s][n].key = c.key /\ oplog[s][n].fingerprint = IntentOf(c)
         /\ oplog[s][n].type = ActionType(c) /\ oplog[s][n].actor = Actor(c)
<1>1. c \in ServiceCommands /\ Own(s, n)
  BY LogTyped DEF ReplayInvariant, LogsOwn
<1>2. oplog[s][n] = Action(c, oplog[s][n].payload)
  BY <1>1 DEF Own
<1> QED
  BY <1>1, <1>2 DEF Action

\* After a decision whose fence is still the claim's, one retry each leads from its run
\* to the latest, and each is congruent: what require_replay_run_evolution demands.
LEMMA RunsEvolve ==
  ASSUME ReplayInvariant, NEW s \in DOMAIN oplog, NEW m \in DOMAIN oplog[s], Decided(s, m),
         NEW q, oplog[s][m].by.request = q, NEW r, oplog[s][m].payload.run = r,
         requestrows[q].status = "claimed", requestrows[q].claim = Replacement(s, m)
  PROVE  RunEvolution(q, r)
<1>1. /\ q \in DOMAIN requestrows /\ s = requestrows[q].session
      /\ r \in DOMAIN runrows /\ Replacement(s, m).generation \in Nat
  BY DecisionEntries DEF Decided, Decisions, Replacement
<1>2. DOMAIN runrows \subseteq Ids
  BY TablesTyped
<1>3. ASSUME NEW n \in DOMAIN oplog[s]
      PROVE  oplog[s][n].type = "record-recovery-decision"
             /\ oplog[s][n].payload.decision = "retry-as-new-run" <=> Retried(s, n)
  <2>1. PICK c : c = oplog[s][n].by
    OBVIOUS
  <2>2. PICK p : p = oplog[s][n].payload
    OBVIOUS
  <2>3. c \in ServiceCommands /\ PayloadHeld(c, p) /\ oplog[s][n].type = ActionType(c)
    BY <2>1, <2>2, EntryOfCommand DEF Own
  <2>4. oplog[s][n].type = "record-recovery-decision" <=> c.kind \in Decisions
    BY <2>3, TypesTellApart
  <2>5. c.kind \in Recoveries => p.decision = c.kind
    BY <2>3 DEF PayloadHeld, RecoveryHeld
  <2>6. c.kind = "retry-as-new-run" => p.decision = c.kind
    BY <2>3 DEF PayloadHeld, RetryHeld
  <2> QED
    BY <2>1, <2>2, <2>4, <2>5, <2>6 DEF Decisions, Recoveries, Retried
<1>4. ASSUME NEW x \in DOMAIN runrows, runrows[x].request = q, x >= r,
             NEW y \in DOMAIN runrows, runrows[y].request = q, x < y
      PROVE  \E n \in RetriesOf(s, x) :
                RetriesOf(s, x) = {n} /\ RetryEvidence(q, oplog[s][n])
  <2>1. PICK n \in DOMAIN oplog[s] : Retried(s, n) /\ oplog[s][n].payload.prior = x
    <3>1. RunsChained
      BY DEF ReplayInvariant
    <3> QED
      BY <1>1, <1>4, <3>1 DEF RunsChained
  <2>2. n \in RetriesOf(s, x)
    BY <1>3, <2>1 DEF RetriesOf
  <2>3. ASSUME NEW k \in RetriesOf(s, x) PROVE k = n
    <3>1. k \in DOMAIN oplog[s] /\ Retried(s, k) /\ oplog[s][k].payload.prior = x
      BY <1>3, <2>3 DEF RetriesOf
    <3> QED
      BY <2>1, <3>1 DEF ReplayInvariant, RetriedOnce
  <2>4. PICK b : b = oplog[s][n].by
    OBVIOUS
  <2>5. /\ b \in ServiceCommands /\ b.request = q /\ b.run = x
        /\ Replacement(s, n).generation \in Nat
    BY <1>4, <2>1, <2>4, DecisionEntries DEF Retried, Decisions, Replacement
  <2>6. Replacement(s, n) = requestrows[q].claim
    <3>1. Replacement(s, m).generation <= Replacement(s, n).generation
      <4>1. r <= oplog[s][n].payload.prior
        <5>1. x \in Nat /\ r \in Nat
          BY <1>1, <1>2 DEF Ids
        <5> QED
          BY <1>4, <2>1, <5>1
      <4>2. oplog[s][m].by.request = oplog[s][n].by.request
        BY <2>4, <2>5
      <4>3. oplog[s][m].payload.run <= oplog[s][n].payload.prior
        BY <4>1
      <4> QED
        BY <2>1, <4>2, <4>3, Zenon DEF ReplayInvariant, FencesFollow
    <3>2. /\ Replacement(s, n).generation <= requestrows[q].claim.generation
          /\ Replacement(s, n).generation = requestrows[q].claim.generation =>
                Replacement(s, n) = requestrows[q].claim
      BY <2>1, <2>4, <2>5 DEF ReplayInvariant, FencesReached, Decided, Retried, Decisions
    <3>3. PICK f, g, h : /\ f = Replacement(s, m).generation
                         /\ g = Replacement(s, n).generation
                         /\ h = requestrows[q].claim.generation
      OBVIOUS
    <3>4. f \in Nat /\ g \in Nat /\ h = f /\ f <= g /\ g <= h
      BY <1>1, <2>5, <3>1, <3>2, <3>3
    <3>5. g = h
      BY <3>4
    <3> QED
      BY <3>2, <3>3, <3>5, Zenon
  <2>7. RetryHeld(b, oplog[s][n].payload)
    BY <2>1, <2>4, EntryOfCommand DEF Own, PayloadHeld, Retried
  <2>8. RetryEvidence(q, oplog[s][n])
    BY <2>1, <2>5, <2>6, <2>7 DEF RetryEvidence, RetryHeld, SettledFailure, Replacement
  <2>9. RetriesOf(s, x) = {n}
    BY <2>2, <2>3
  <2> QED
    BY <2>2, <2>8, <2>9
<1>5. SUFFICES ASSUME NEW x \in {z \in DOMAIN runrows : runrows[z].request = q /\ z >= r},
                      NEW y \in {z \in DOMAIN runrows : runrows[z].request = q /\ z >= r},
                      x < y
               PROVE  LET t == requestrows[q].session
                      IN  \E n \in RetriesOf(t, x) :
                             RetriesOf(t, x) = {n} /\ RetryEvidence(q, oplog[t][n])
  BY DEF RunEvolution
<1>6. \E n \in RetriesOf(s, x) : RetriesOf(s, x) = {n} /\ RetryEvidence(q, oplog[s][n])
  BY <1>4, <1>5
<1>7. requestrows[q].session = s
  BY <1>1
<1> QED
  BY <1>6, <1>7, Zenon

\* A command is answered with one action only, however often it is sent.
LEMMA RepliesUnique ==
  ASSUME ReplayInvariant, NEW x \in replied, NEW y \in replied, x.to = y.to
  PROVE  x = y
<1>1. PICK c, s, n, t, m :
         c = x.to /\ s = x.session /\ n = x.ordinal /\ t = y.session /\ m = y.ordinal
  OBVIOUS
<1>2. /\ s \in DOMAIN oplog /\ n \in DOMAIN oplog[s] /\ oplog[s][n].by = c
      /\ t \in DOMAIN oplog /\ m \in DOMAIN oplog[t] /\ oplog[t][m].by = c
  BY <1>1 DEF ReplayInvariant, RepliedOwn
<1>3. /\ c \in ServiceCommands /\ Own(s, n) /\ Own(t, m)
      /\ oplog[s][n].key = c.key /\ oplog[t][m].key = c.key
  BY <1>2, EntryOfCommand
<1>4. s = t
  <2>1. CASE c.kind \in CreatesSession
    <3>1. RowMade(c, s) /\ RowMade(c, t)
      BY <1>2, <1>3 DEF Own
    <3>2. opsessions[s].key = opsessions[t].key
      BY <2>1, <3>1 DEF RowMade
    <3>3. s \in DOMAIN opsessions /\ t \in DOMAIN opsessions
      BY <1>2, LogTyped DEF ReplayInvariant
    <3> QED
      BY <3>2, <3>3 DEF ReplayInvariant, SessionsKeyed
  <2>2. CASE c.kind \notin CreatesSession
    BY <1>2, <1>3, <2>2 DEF Own
  <2> QED
    BY <2>1, <2>2
<1>5. n = m
  BY <1>2, <1>3, <1>4 DEF ReplayInvariant, LogsKeyed
<1>6. /\ x \in [to : ServiceCommands, session : Ids, ordinal : Ids]
      /\ y \in [to : ServiceCommands, session : Ids, ordinal : Ids]
  BY DEF ReplayInvariant, ReplayTypeOK
<1>7. /\ x = [to |-> x.to, session |-> x.session, ordinal |-> x.ordinal]
      /\ y = [to |-> y.to, session |-> y.session, ordinal |-> y.ordinal]
  BY <1>6
<1>8. x.session = y.session /\ x.ordinal = y.ordinal
  BY <1>1, <1>4, <1>5
<1> QED
  BY <1>7, <1>8, Zenon

\* The row that a command looks for is found, in the session of its action.
LEMMA RowFound ==
  ASSUME ReplayInvariant, NEW s \in DOMAIN oplog, NEW n \in DOMAIN oplog[s],
         NEW c, oplog[s][n].by = c
  PROVE  \E row \in RowsFor(c) : row.session = s /\ row.fingerprint = IntentOf(c)
<1>1. /\ c \in ServiceCommands /\ oplog[s][n].key = c.key
      /\ oplog[s][n].fingerprint = IntentOf(c)
      /\ Known(c) /\ RowMade(c, s) /\ (c.kind \notin CreatesSession => s = SessionOf(c))
  BY EntryOfCommand DEF Own
<1>2. s \in DOMAIN opsessions
  BY LogTyped DEF ReplayInvariant
<1>3. PICK row : row = Row(s, IntentOf(c)) /\ row.session = s
                 /\ row.fingerprint = IntentOf(c)
  <2>1. Row(s, IntentOf(c)).session = s /\ Row(s, IntentOf(c)).fingerprint = IntentOf(c)
    BY DEF Row
  <2> QED
    BY <2>1, Zenon
<1>4. CASE c.kind \in CreatesSession
  <2>1. row \in SessionRows(c)
    BY <1>1, <1>2, <1>3, <1>4 DEF RowMade, SessionRows
  <2> QED
    BY <1>3, <1>4, <2>1 DEF RowsFor, CreatesSession
<1>5. CASE c.kind \in {"request-approval", "decide-approval", "admit-execution"}
  <2>1. SessionOf(c) = c.session /\ s = c.session
    BY <1>1, <1>5, SessionFound DEF ReplayInvariant, InItsSession, CreatesSession
  <2>2. c.kind = "request-approval" => row \in ApprovalRows(c)
    BY <1>1, <1>3, <2>1 DEF RowMade, ApprovalRows
  <2>3. c.kind = "decide-approval" => row \in DecisionRows(c)
    BY <1>1, <1>3 DEF RowMade, DecisionRows
  <2>4. c.kind = "admit-execution" => row \in RequestRows(c)
    BY <1>1, <1>3 DEF RowMade, RequestRows
  <2> QED
    BY <1>3, <1>5, <2>2, <2>3, <2>4 DEF RowsFor, CreatesSession
<1>6. CASE c.kind \notin CreatesSession
                  \cup {"request-approval", "decide-approval", "admit-execution"}
  <2>1. n \in ActionsFor(s, c.key) /\ s = SessionOf(c)
    BY <1>1, <1>6 DEF ActionsFor
  <2>2. row \in ActionRows(s, c.key)
    BY <1>1, <1>3, <2>1 DEF ActionRows
  <2> QED
    BY <1>3, <1>6, <2>1, <2>2 DEF RowsFor
<1> QED
  BY <1>4, <1>5, <1>6

\* What a service compares with the action agrees, or what the command acted under is
\* superseded.
LEMMA ResultCongruent ==
  ASSUME ReplayInvariant, NEW s \in DOMAIN oplog, NEW n \in DOMAIN oplog[s],
         NEW c, oplog[s][n].by = c, NEW e, oplog[s][n] = e
  PROVE  CongruentResult(c, e) \/ Superseded(c, e)
<1>1. PICK p : e.payload = p
  OBVIOUS
<1>2. /\ c \in ServiceCommands /\ e.type = ActionType(c) /\ e.actor = Actor(c)
      /\ Known(c) /\ PayloadHeld(c, p) /\ (c.kind \notin CreatesSession => s = SessionOf(c))
  BY <1>1, EntryOfCommand DEF Own
<1> USE DEF CreatesSession, EndsSession, Reserved, RunKinds, Recoveries
<1>3. CASE c.kind \in Reserved
  BY <1>3 DEF CongruentResult
<1>4. CASE c.kind = "set-desired-graph"
  BY <1>1, <1>2, <1>4 DEF CongruentResult, PayloadHeld
<1>5. CASE c.kind = "request-activity-plan"
  BY <1>1, <1>2, <1>5 DEF CongruentResult, PayloadHeld, PlanEvidence
<1>6. CASE c.kind \in {"request-approval", "decide-approval", "admit-execution"}
  BY <1>2, <1>6, TypesTellApart DEF CongruentResult
<1>7. CASE c.kind = "claim-run"
  <2>1. e.actor = c.worker /\ e.payload.generation = 1
    <3>1. "fence" \notin DOMAIN c
      BY <1>2, <1>7, CommandForms DEF ClaimCommands
    <3> QED
      BY <1>1, <1>2, <1>7, <3>1 DEF Actor, PayloadHeld
  <2>2. OwnedClaim(c.request, [worker |-> c.worker, generation |-> 1]) => ClaimReplay(c, e)
    BY <2>1 DEF OwnedClaim, ClaimReplay
  <2> QED
    BY <1>7, <2>2 DEF CongruentResult, Superseded
<1>8. CASE c.kind \in RunKinds
  BY <1>1, <1>2, <1>8 DEF CongruentResult, Superseded, PayloadHeld, RunReplay
<1>9. CASE c.kind = "advance-current-graph"
  BY <1>1, <1>2, <1>9 DEF CongruentResult, Superseded, PayloadHeld, AdvancementReplay
<1>10. CASE c.kind \in Decisions
  <2>1. CASE requestrows[c.request].claim # e.payload.replacement
    BY <1>10, <2>1 DEF Superseded, Decisions
  <2>2. CASE requestrows[c.request].claim = e.payload.replacement
    <3>1. /\ c.request \in DOMAIN requestrows /\ c.run \in DOMAIN runrows
          /\ runrows[c.run].request = c.request
      BY <1>10, DecisionEntries
    <3>2. Decided(s, n) /\ Replacement(s, n) = e.payload.replacement
      BY <1>10 DEF Decided, Replacement
    <3>3. requestrows[c.request].status = "claimed" => RunEvolution(c.request, p.run)
      BY <1>1, <2>2, <3>2, RunsEvolve
    <3>4. requestrows[c.request].status = "claimed"
             <=> requestrows[c.request].claim # NoLease
      BY <3>1 DEF ReplayInvariant, LeasesHeld
    <3>5. c.fence # NoLease
      <4>1. c.fence \in LeaseFences
        BY <1>2, <1>10, CommandForms DEF Decisions, RetryCommands
      <4> QED
        BY <4>1, NoLeaseHasNone DEF LeaseFences
    <3>6. CASE c.kind \in Recoveries
      <4>1. RecoveryHeld(c, p)
        BY <1>2, <3>6 DEF PayloadHeld
      <4>2. /\ p.decision = c.kind /\ p.run = c.run /\ p.prior_fence = c.fence
            /\ p.replacement = NextFence(c)
        BY <4>1 DEF RecoveryHeld
      <4>3. c.kind # "renew-active-claim" => runrows[c.run].status = "failed"
        BY <4>1 DEF RecoveryHeld, SettledFailure
      <4>4. CASE c.kind = "abandon-expired-claim"
        <5>1. /\ requestrows[c.request].status = "abandoned"
              /\ \A y \in DOMAIN runrows : runrows[y].request = c.request => y <= c.run
          BY <4>1, <4>4 DEF RecoveryHeld
        <5>2. RunEvolution(c.request, c.run)
          <6>1. DOMAIN runrows \subseteq Ids
            BY TablesTyped
          <6>2. \A x, y \in {z \in DOMAIN runrows :
                               runrows[z].request = c.request /\ z >= c.run} : ~(x < y)
            BY <3>1, <5>1, <6>1 DEF Ids
          <6> QED
            BY <6>2, Zenon DEF RunEvolution
        <5>3. RecoveryEvidence(c, e)
          BY <1>1, <4>2, <4>3, <4>4, <5>1 DEF RecoveryEvidence
        <5>4. RecoveryReplay(c, e)
          BY <5>2, <5>3 DEF RecoveryReplay
        <5> QED
          BY <4>4, <5>4 DEF CongruentResult
      <4>5. CASE c.kind # "abandon-expired-claim"
        <5>1. NextFence(c) # NoLease
          <6>1. c.fence \in LeaseFences
            BY <1>2, <3>6, CommandForms
          <6>2. NextFence(c).generation = c.fence.generation + 1
            BY <4>5 DEF NextFence
          <6>3. c.fence.generation \in Nat
            BY <6>1 DEF LeaseFences
          <6> QED
            BY <6>2, <6>3, NoLeaseHasNone
        <5>2. requestrows[c.request].status = "claimed" /\ RunEvolution(c.request, c.run)
          BY <1>1, <2>2, <3>3, <3>4, <4>2, <5>1
        <5>3. OwnedClaim(c.request, e.payload.replacement)
          BY <2>2, <5>2 DEF OwnedClaim
        <5>4. RecoveryEvidence(c, e)
          BY <1>1, <4>2, <4>3, <4>5, <5>3 DEF RecoveryEvidence
        <5>5. RecoveryReplay(c, e)
          BY <5>2, <5>4 DEF RecoveryReplay
        <5> QED
          BY <3>6, <5>5 DEF CongruentResult
      <4> QED
        BY <4>4, <4>5
    <3>7. CASE c.kind = "retry-as-new-run"
      <4>1. RetryHeld(c, p)
        BY <1>2, <3>7 DEF PayloadHeld
      <4>2. p.prior = c.run /\ p.replacement = c.fence
        BY <4>1 DEF RetryHeld
      <4>3. requestrows[c.request].status = "claimed" /\ RunEvolution(c.request, p.run)
            /\ requestrows[c.request].claim = c.fence
        BY <1>1, <2>2, <3>3, <3>4, <3>5, <4>2
      <4>4. RetryEvidence(c.request, e)
        BY <1>1, <4>1, <4>2, <4>3 DEF RetryEvidence, RetryHeld, SettledFailure
      <4>5. RetryReplay(c, e)
        BY <1>1, <4>3, <4>4 DEF RetryReplay, OwnedClaim
      <4> QED
        BY <3>7, <4>5 DEF CongruentResult
    <3> QED
      BY <1>10, <3>6, <3>7 DEF Decisions
  <2> QED
    BY <2>1, <2>2
<1>11. CASE c.kind = "begin-compensation"
  BY <1>11 DEF CongruentResult, Superseded, CompensationReplay
<1> QED
  BY <1>2, <1>3, <1>4, <1>5, <1>6, <1>7, <1>8, <1>9, <1>10, <1>11, CommandForms
     DEF Decisions

\* The promise, from the invariant.
LEMMA InvariantGivesReplies ==
  ASSUME ReplayInvariant
  PROVE  RepliesAreTheCommandsOwn
<1>1. \A x, y \in replied : x.to = y.to => x = y
  BY RepliesUnique
<1>2. ASSUME NEW x \in replied, NEW e, oplog[x.session][x.ordinal] = e
      PROVE  e.by = x.to /\ (Answers(x.to, x.session, x.ordinal) \/ Superseded(x.to, e))
  <2>1. PICK c, s, n : x.to = c /\ x.session = s /\ x.ordinal = n
    OBVIOUS
  <2>2. s \in DOMAIN oplog /\ n \in DOMAIN oplog[s] /\ oplog[s][n].by = c
    BY <2>1 DEF ReplayInvariant, RepliedOwn
  <2>3. CongruentResult(c, e) \/ Superseded(c, e)
    BY <1>2, <2>1, <2>2, ResultCongruent
  <2>4. /\ Known(c) /\ oplog[s][n].key = c.key /\ oplog[s][n].fingerprint = IntentOf(c)
    BY <2>2, EntryOfCommand DEF Own
  <2>5. \E row \in RowsFor(c) : row.session = s /\ row.fingerprint = IntentOf(c)
    BY <2>2, RowFound
  <2>6. n \in ActionsFor(s, c.key)
    BY <2>2, <2>4 DEF ActionsFor
  <2>7. CongruentResult(c, e) => Answers(c, s, n)
    BY <1>2, <2>1, <2>4, <2>5, <2>6 DEF Answers
  <2> QED
    BY <1>2, <2>1, <2>2, <2>3, <2>7
<1>3. ASSUME NEW s \in DOMAIN oplog
      PROVE  /\ oplog[s][1].type \in CreatesSession
             /\ \A n \in 2..Len(oplog[s]) : oplog[s][n].type \notin CreatesSession
             /\ \A m, n \in DOMAIN oplog[s] : oplog[s][m].key = oplog[s][n].key => m = n
             /\ \A n \in DOMAIN oplog[s] :
                   oplog[s][n].type \in EndsSession <=>
                      n = Len(oplog[s]) /\ opsessions[s].status # "open"
  <2>1. DOMAIN oplog[s] = 1 .. Len(oplog[s]) /\ Len(oplog[s]) \in Nat /\ Len(oplog[s]) >= 1
    BY LogTyped DEF ReplayInvariant, LogsKeyed
  <2>2. ASSUME NEW n \in DOMAIN oplog[s]
        PROVE  /\ oplog[s][n].type \in CreatesSession <=> n = 1
               /\ oplog[s][n].type \in EndsSession <=> oplog[s][n].by.kind \in EndsSession
    <3>1. PICK c : oplog[s][n].by = c
      OBVIOUS
    <3>2. c \in ServiceCommands /\ oplog[s][n].type = ActionType(c)
          /\ (c.kind \in CreatesSession <=> n = 1)
      BY <3>1, EntryOfCommand DEF Own
    <3> QED
      BY <3>1, <3>2, TypesTellApart
  <2>3. 1 \in DOMAIN oplog[s] /\ \A n \in 2..Len(oplog[s]) : n \in DOMAIN oplog[s] /\ n # 1
    BY <2>1
  <2>4. /\ \A m, n \in DOMAIN oplog[s] : oplog[s][m].key = oplog[s][n].key => m = n
        /\ \A n \in DOMAIN oplog[s] :
              oplog[s][n].by.kind \in EndsSession <=>
                 n = Len(oplog[s]) /\ opsessions[s].status # "open"
    BY DEF ReplayInvariant, LogsKeyed
  <2> QED
    BY <2>2, <2>3, <2>4
<1> QED
  BY <1>1, <1>2, <1>3 DEF RepliesAreTheCommandsOwn

\* Every command of every service is answered with one action, its own, and is answered
\* so again until what it acted under is superseded; and every log starts with its
\* session, has every key once and ends with it: the command services' lookup, replay
\* and congruence checks, for any commands, keys and order of arrival.
THEOREM RepliesOwn == ReplaySpec => []RepliesAreTheCommandsOwn
<1>1. ReplayInvariant => RepliesAreTheCommandsOwn
  BY InvariantGivesReplies
<1> QED
  BY <1>1, ReplayInvariantHolds, PTL
=============================================================================
