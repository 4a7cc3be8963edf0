----------------------------- MODULE EffectFolds ----------------------------
(***************************************************************************)
(* How an answer becomes an outcome: effects start with an intent, the     *)
(* provider or an observer answers, and the fold commands formed from the  *)
(* answers arrive in any order and any number of times, while the claim    *)
(* rotates and expires, the runtime authority is registered again and the  *)
(* workspace moves to another graph.                                       *)
(***************************************************************************)
EXTENDS EffectEvidence

EvidenceInit ==
    /\ attemptRow = [a \in EvidenceAttempts |-> NoEvidence]
    /\ intentRow = [a \in EvidenceAttempts |-> NoEvidence]
    /\ outcomeRow = [a \in EvidenceAttempts |-> NoEvidence]
    /\ eventLog = <<>> /\ observationRows = <<>>
    /\ \E w \in EvidenceWorkers :
         holder = [fence |-> [worker |-> w, generation |-> 1], expired |-> FALSE]
    /\ authorityRow = 1
    /\ planned \in DOMAIN Contracts
    /\ folds = {}
    /\ lastFold = NoEvidence

----------------------------------------------------------------------------
(* The stores: an attempt is inserted once and replaced only as it was read,  *)
(* within one fence, request and start; an outcome is inserted once.          *)

InsertAttempt(a, row) ==
    Absent(attemptRow[a]) /\ attemptRow' = [attemptRow EXCEPT ![a] = row]

CompareAndSet(a, current, replacement) ==
    /\ replacement.state.fence = current.state.fence
    /\ replacement.state.request = current.state.request
    /\ replacement.original = current.original /\ replacement.latest >= current.latest
    /\ attemptRow[a] = current
    /\ attemptRow' = [attemptRow EXCEPT ![a] = replacement]

InsertIntent(a, row) ==
    Absent(intentRow[a]) /\ intentRow' = [intentRow EXCEPT ![a] = row]

InsertOutcome(a, r) ==
    LET base == Len(observationRows)
    IN  /\ Absent(outcomeRow[a]) /\ Rederived(a, r)
        /\ observationRows' = observationRows \o r.observations
        /\ outcomeRow' = [outcomeRow EXCEPT ![a] =
             [preimage |-> Encode(r.value), state |-> r.attempt.state,
              original |-> r.attempt.original, direct |-> r.attempt.latest,
              members |-> [k \in DOMAIN r.observations |-> base + k]]]

----------------------------------------------------------------------------
(* Effects and answers. *)

\* EffectAttemptStartService: event, intent and attempt, under a live claim.
StartEffect(a) ==
    LET intent == [graph |-> planned, products |-> Contracts[planned]]
        state == StartedState(holder.fence, intent)
        n == Len(eventLog) + 1
    IN  /\ ~holder.expired
        /\ eventLog' = Append(eventLog, Event(a, state, NoEvidence))
        /\ InsertIntent(a, [original |-> n, intent |-> intent])
        /\ InsertAttempt(a, [state |-> state, original |-> n, latest |-> n])
        /\ UNCHANGED <<observationRows, outcomeRow, holder, authorityRow, planned, folds,
                       lastFold>>

\* FoldEffectAttempt: a worker's command about a value or a decision; the
\* guard is what an observer's answer rests on.
FoldCommand(a, fence, value, decision, guard) ==
    [attempt |-> a, fence |-> fence, value |-> value, decision |-> decision, guard |-> guard]

Form(c) ==
    /\ folds' = folds \cup {c}
    /\ UNCHANGED <<attemptRow, intentRow, eventLog, observationRows, outcomeRow, holder,
                   authorityRow, planned, lastFold>>

Succeeds(f, g) == f.generation > g.generation \/ f = g

OpenEffect(a) == ~Absent(attemptRow[a]) /\ attemptRow[a].state.status = "started"

\* The provider is asked once, by the worker that started the effect; an
\* answer that its constructor refuses forms no command.
ProviderReturns(a) ==
    /\ ~Absent(attemptRow[a])
    /\ \A c \in folds : c.attempt = a => Absent(c.value) \/ ~Absent(c.guard)
    /\ \E v \in ProviderAnswers :
         /\ WellFormed(v)
         /\ Form(FoldCommand(a, attemptRow[a].state.fence, v, NoEvidence, NoEvidence))

\* EffectAttemptReconciliationService: a started effect is inspected under a
\* live claim and the active authority of its intent.
Guard(a) ==
    [intent |-> intentRow[a],
     authority |-> IF Absent(a.authority) THEN NoEvidence ELSE authorityRow]

Inspect(a) ==
    /\ OpenEffect(a) /\ IntentValid(a)
    /\ ~holder.expired
    /\ Succeeds(holder.fence, attemptRow[a].state.fence)
    /\ ~Absent(a.authority) => authorityRow # 0
    /\ Cardinality({c \in folds : c.attempt = a /\ ~Absent(c.guard)}) < MaxInspections
    /\ \E v \in ObserverAnswers :
         WellFormed(v) /\ Form(FoldCommand(a, holder.fence, v, NoEvidence, Guard(a)))

\* The evidence of a decision about an uncertain effect; abandoning has none.
Resolutions ==
    [succeeded |-> "none", failed |-> "terminal", abandoned |-> "none"]

ResolveUncertain(a) ==
    /\ ~Absent(attemptRow[a]) /\ attemptRow[a].state.status = "uncertain"
    /\ \A c \in folds : c.attempt = a => Absent(c.decision)
    /\ \E r \in DOMAIN Resolutions :
         Form(FoldCommand(a, holder.fence, NoEvidence,
                [resolution |-> r, uncertain |-> attemptRow[a].state.fingerprint],
                NoEvidence))

----------------------------------------------------------------------------
(* _execute_fold. *)

\* _require_transition_authority: only the fence of the start may fold first,
\* unless an observer saw the effect.
MayFold(c) ==
    LET s == attemptRow[c.attempt].state
    IN  IF ~Absent(c.decision) THEN Succeeds(c.fence, s.fence)
        ELSE /\ Absent(s.decision)
             /\ IF s.status # "started" \/ ~Absent(c.guard)
                THEN Succeeds(c.fence, s.fence)
                ELSE c.fence = s.fence

\* fold_effect_attempt: the state that a transition asks for, and when it may.
Becomes(c) ==
    LET s == attemptRow[c.attempt].state
    IN  [status |-> IF Absent(c.decision) THEN RowOf(c.value).status
                                          ELSE c.decision.resolution,
         fence |-> s.fence, request |-> s.request,
         fingerprint |-> IF Absent(c.decision) THEN EvidenceDigest(c.value) ELSE c.decision,
         decision |-> IF Absent(c.decision) THEN s.decision ELSE c.decision]

Follows(c) ==
    LET s == attemptRow[c.attempt].state
    IN  IF Absent(c.decision) THEN s.status = "started"
        ELSE s.status = "uncertain" /\ c.decision.uncertain = s.fingerprint

\* What _execute_fold requires before it looks at the state.
FoldAdmitted(c) == holder.fence = c.fence /\ MayFold(c)

\* The same transition again, answered with what is stored.
IsReplay(c) ==
    /\ attemptRow[c.attempt].state = Becomes(c)
    /\ ~Absent(c.value) =>
         /\ Readable(c.attempt, attemptRow[c.attempt].latest)
         /\ Reconstructed(c.attempt).value = c.value
         /\ Reconstructed(c.attempt).attempt = attemptRow[c.attempt]

\* An observer's answer counts only if nothing that it rests on has changed.
StillGuarded(c) ==
    ~Absent(c.guard) =>
        /\ ~holder.expired
        /\ c.guard.intent = intentRow[c.attempt]
        /\ ~Absent(c.guard.authority) => authorityRow = c.guard.authority

\* _require_record: the canonical preimage has at most 8192 bytes.
Fits(v) == v.size = "bounded"

IsNew(c) ==
    /\ attemptRow[c.attempt].state # Becomes(c)
    /\ Follows(c)
    /\ IntentValid(c.attempt) /\ StillGuarded(c)
    /\ ~Absent(c.value) => Projectable(c.attempt, c.value) /\ Fits(c.value)

Reply(c, kind, record) == lastFold' = [command |-> c, reply |-> kind, record |-> record]

FailureOfFold(c) ==
    IF Absent(c.decision) THEN FailureOf(c.value)
    ELSE IF Resolutions[c.decision.resolution] = "none" THEN NoEvidence
    ELSE [category |-> Resolutions[c.decision.resolution], details |-> c.decision]

\* Event, observations, outcome and attempt, in one transaction.
FoldNew(c) ==
    LET a == c.attempt
        n == Len(eventLog) + 1
        attempt == [state |-> Becomes(c), original |-> attemptRow[a].original, latest |-> n]
        r == Record(c.value, attempt, ProjectedRows(a, c.value, n))
    IN  /\ FoldAdmitted(c) /\ IsNew(c)
        /\ eventLog' = Append(eventLog, Event(a, attempt.state, FailureOfFold(c)))
        /\ IF Absent(c.value)
           THEN UNCHANGED <<observationRows, outcomeRow>> /\ Reply(c, "new", NoEvidence)
           ELSE InsertOutcome(a, r) /\ Reply(c, "new", r)
        /\ CompareAndSet(a, attemptRow[a], attempt)
        /\ UNCHANGED <<intentRow, holder, authorityRow, planned, folds>>

FoldAgain(c) ==
    /\ FoldAdmitted(c) /\ IsReplay(c)
    /\ Reply(c, "existing", IF Absent(c.value) THEN NoEvidence ELSE Reconstructed(c.attempt))
    /\ UNCHANGED <<attemptRow, intentRow, eventLog, observationRows, outcomeRow, holder,
                   authorityRow, planned, folds>>

FoldRefused(c) ==
    /\ ~(FoldAdmitted(c) /\ (IsNew(c) \/ IsReplay(c)))
    /\ Reply(c, "refused", NoEvidence)
    /\ UNCHANGED <<attemptRow, intentRow, eventLog, observationRows, outcomeRow, holder,
                   authorityRow, planned, folds>>

----------------------------------------------------------------------------
(* Surroundings. *)

\* A renewal or a takeover: the next generation and a fresh lease.
RotateHolder ==
    /\ holder.fence.generation < MaxEvidenceFence
    /\ \E w \in EvidenceWorkers :
         holder' = [fence |-> [worker |-> w, generation |-> holder.fence.generation + 1],
                    expired |-> FALSE]
    /\ UNCHANGED <<attemptRow, intentRow, eventLog, observationRows, outcomeRow,
                   authorityRow, planned, folds, lastFold>>

HolderExpires ==
    /\ ~holder.expired
    /\ holder' = [holder EXCEPT !.expired = TRUE]
    /\ UNCHANGED <<attemptRow, intentRow, eventLog, observationRows, outcomeRow,
                   authorityRow, planned, folds, lastFold>>

\* The authority is superseded by another registration, or revoked for good.
AuthorityChanges ==
    /\ authorityRow # 0
    /\ authorityRow' \in {0} \cup ((authorityRow + 1)..MaxAuthorityRow)
    /\ UNCHANGED <<attemptRow, intentRow, eventLog, observationRows, outcomeRow, holder,
                   planned, folds, lastFold>>

GraphMoves ==
    /\ planned' \in DOMAIN Contracts \ {planned}
    /\ UNCHANGED <<attemptRow, intentRow, eventLog, observationRows, outcomeRow, holder,
                   authorityRow, folds, lastFold>>

EvidenceNext ==
    \/ \E a \in EvidenceAttempts :
         StartEffect(a) \/ ProviderReturns(a) \/ Inspect(a) \/ ResolveUncertain(a)
    \/ \E c \in folds : FoldNew(c) \/ FoldAgain(c) \/ FoldRefused(c)
    \/ RotateHolder \/ HolderExpires \/ AuthorityChanges \/ GraphMoves

EvidenceSpec == EvidenceInit /\ [][EvidenceNext]_evars

----------------------------------------------------------------------------
(* Rows. *)

ResolutionDecisions == [resolution : DOMAIN Resolutions, uncertain : GivenAnswers]

EffectIntents == {[graph |-> g, products |-> Contracts[g]] : g \in DOMAIN Contracts}

EffectStates ==
    [status : {"started", "succeeded", "failed", "unsupported", "uncertain", "abandoned"},
     fence : EvidenceFences, request : EffectIntents,
     fingerprint : GivenAnswers \cup ResolutionDecisions \cup {NoEvidence},
     decision : ResolutionDecisions \cup {NoEvidence}]

AttemptRows == [state : EffectStates, original : Nat, latest : Nat]
IntentRows == [original : Nat, intent : EffectIntents]
OutcomeRows ==
    [preimage : {Encode(v) : v \in GivenAnswers}, state : EffectStates,
     original : Nat, direct : Nat, members : Seq(Nat)]

ASSUME NoEvidenceAssumption ==
    /\ NoEvidence \notin AttemptRows /\ NoEvidence \notin IntentRows
    /\ NoEvidence \notin OutcomeRows /\ NoEvidence \notin ResolutionDecisions
    /\ NoEvidence \notin EffectAnswers /\ NoEvidence \notin HttpEvidence
    /\ NoEvidence \notin [kind : STRING, status : STRING]

EvidenceTypeOK ==
    /\ attemptRow \in [EvidenceAttempts -> AttemptRows \cup {NoEvidence}]
    /\ intentRow \in [EvidenceAttempts -> IntentRows \cup {NoEvidence}]
    /\ outcomeRow \in [EvidenceAttempts -> OutcomeRows \cup {NoEvidence}]
    /\ holder \in [fence : EvidenceFences, expired : BOOLEAN]
    /\ planned \in DOMAIN Contracts
    /\ \A c \in folds :
         /\ c.attempt \in EvidenceAttempts /\ c.fence \in EvidenceFences
         /\ \/ c.value \in GivenAnswers /\ c.decision = NoEvidence
            \/ c.value = NoEvidence /\ c.decision \in ResolutionDecisions

----------------------------------------------------------------------------
(* Properties. *)

\* The check of the graph that the effect was started for.
PinnedChecks(a, c) ==
    {k \in UNION {p.checks : p \in {p \in intentRow[a].intent.products : p.node = c.node}} :
        k.id = c.check}

\* Verified rows rest on an answer that meets the contract of the start.
VerifiedHonestly(a, r) ==
    \A k \in DOMAIN r.observations :
        r.observations[k].status = "verified" =>
            LET c == r.value.observations[k]
            IN  /\ c.graph = intentRow[a].intent.graph
                /\ \E check \in PinnedChecks(a, c) :
                     /\ c.evidence.status \in check.statuses
                     /\ check.digest # "none" =>
                          c.evidence.digest = check.digest /\ c.evidence.matches = "yes"

\* Whatever answers arrive in whatever order, however often, under whatever
\* claim, and whatever happens to the graph and the authority afterwards: an
\* effect has one outcome from its first settled fold on; it reads back, from
\* the bytes, events, memberships and intent that were stored, as the answer
\* that one fold command carried, with exactly its observations; a check that
\* is recorded as verified met the contract that was pinned when the effect
\* started; only an uncertain outcome is ever decided otherwise; and a fold
\* that is answered is answered with that outcome
\* (effect_attempt_fold_interpreter.py, effect_outcome_evidence.py,
\* postgres/effect_outcome_store.py).
EvidenceReadsBack ==
    /\ \A a \in EvidenceAttempts : ~Absent(attemptRow[a]) =>
         LET row == attemptRow[a]
             stored == outcomeRow[a]
             r == Reconstructed(a)
         IN  /\ AttemptValid(a, row)
             /\ Absent(stored) <=> row.state.status = "started"
             /\ ~Absent(stored) =>
                  /\ Readable(a, stored.direct)
                  /\ \E c \in folds : c.attempt = a /\ c.value = r.value
                  /\ VerifiedHonestly(a, r)
                  /\ IF Absent(row.state.decision) THEN r.attempt = row
                     ELSE r.attempt.state.status = "uncertain"
    /\ \A k \in DOMAIN observationRows :
         Cardinality({a \in EvidenceAttempts :
            ~Absent(outcomeRow[a]) /\ \E m \in DOMAIN outcomeRow[a].members :
                                       outcomeRow[a].members[m] = k}) = 1
    /\ ~Absent(lastFold) /\ lastFold.reply # "refused" /\ ~Absent(lastFold.command.value) =>
         LET c == lastFold.command
         IN  /\ lastFold.record.value = c.value
             /\ Readable(c.attempt, outcomeRow[c.attempt].direct)
             /\ lastFold.record = Reconstructed(c.attempt)

=============================================================================
