---------------------------- MODULE EffectEvidence --------------------------
(***************************************************************************)
(* The evidence of an effect: what a provider or an observer answered, the *)
(* outcome it is folded into, the observations projected from it, and how  *)
(* they are read again.  One request with its claim; the effects are those *)
(* of its run.                                                             *)
(***************************************************************************)
EXTENDS Naturals, Sequences, FiniteSets

CONSTANTS
    EvidenceAttempts,   \* [id, direction, authority]: the authority may be NoEvidence
    Contracts,          \* per graph, the product material of its nodes: [node, checks]
    ProviderAnswers,    \* what a provider may answer
    ObserverAnswers,    \* what an observer may answer
    EvidenceWorkers,
    MaxEvidenceFence,   \* bound on the claim's generation
    MaxAuthorityRow,    \* bound on the registrations of the runtime authority
    MaxInspections,     \* bound on the inspections of one effect
    NoEvidence

VARIABLES
    attemptRow,         \* cpk_effect_attempts
    intentRow,          \* cpk_effect_attempt_intents
    eventLog,           \* cpk_activity_events of the run, in order
    observationRows,    \* cpk_observations, by id
    outcomeRow,         \* cpk_effect_attempt_outcomes and its membership
    holder,             \* the request's claim
    authorityRow,       \* the active registration of the authority, or 0
    planned,            \* the graph that new effects are about
    folds,              \* fold commands that were formed
    lastFold            \* the last command and its reply

evars == <<attemptRow, intentRow, eventLog, observationRows, outcomeRow, holder,
           authorityRow, planned, folds, lastFold>>

Absent(row) == row = NoEvidence

----------------------------------------------------------------------------
(* Answers.  size stands for the canonical bytes, which may exceed 8192.   *)

Settles(status, category) == [status |-> status, category |-> category]

ExecutionRows ==
    [succeeded |-> Settles("succeeded", "none"), failed |-> Settles("failed", "terminal"),
     unsupported |-> Settles("unsupported", "operator-review"),
     uncertain |-> Settles("uncertain", "uncertain")]

ObservedRows ==
    [succeeded |-> Settles("succeeded", "none"), failed |-> Settles("failed", "terminal"),
     absent |-> Settles("uncertain", "uncertain"),
     conflict |-> Settles("uncertain", "uncertain"),
     indeterminate |-> Settles("uncertain", "uncertain"),
     observer_unsupported |-> Settles("uncertain", "operator-review")]

RowOf(v) ==
    IF v.profile = "execution-result" THEN ExecutionRows[v.kind] ELSE ObservedRows[v.kind]

IsCompletion(o) == o.type = "completion"

\* RuntimeEffectResult: only a success has no failure, and all of its checks passed.
ResultWellFormed(v) ==
    /\ v.kind \in DOMAIN ExecutionRows
    /\ v.failure <=> v.kind # "succeeded"
    /\ v.kind = "succeeded" =>
         \A k \in DOMAIN v.observations :
            IsCompletion(v.observations[k]) => v.observations[k].outcome = "passed"

\* The variants of an observation: no verification, nothing seen where nothing is.
ObservationWellFormed(v) ==
    /\ v.kind \in DOMAIN ObservedRows
    /\ v.failure <=> v.kind \in {"failed", "conflict", "indeterminate", "observer_unsupported"}
    /\ v.kind \in {"absent", "observer_unsupported"} => v.observations = <<>>
    /\ \A k \in DOMAIN v.observations : ~IsCompletion(v.observations[k])

WellFormed(v) ==
    IF v.profile = "execution-result" THEN ResultWellFormed(v) ELSE ObservationWellFormed(v)

\* The digest of the answer, its kind and the effect it is about.
EvidenceDigest(v) == v

FailureOf(v) ==
    IF RowOf(v).category = "none" THEN NoEvidence
    ELSE [category |-> RowOf(v).category, details |-> EvidenceDigest(v)]

\* The canonical preimage: an http evidence without a digest has no digest fields.
EncodeEvidence(e) ==
    IF Absent(e) \/ e.digest # "none" THEN e ELSE [kind |-> e.kind, status |-> e.status]

EncodeObservation(o) ==
    IF IsCompletion(o) THEN [o EXCEPT !.evidence = EncodeEvidence(o.evidence)] ELSE o

Encode(v) ==
    [v EXCEPT !.observations =
        [k \in DOMAIN v.observations |-> EncodeObservation(v.observations[k])]]

DecodeEvidence(e) ==
    IF Absent(e) \/ DOMAIN e # {"kind", "status"} THEN e
    ELSE [kind |-> e.kind, status |-> e.status, digest |-> "none", matches |-> "unknown"]

DecodeObservation(o) ==
    IF IsCompletion(o) THEN [o EXCEPT !.evidence = DecodeEvidence(o.evidence)] ELSE o

Decode(p) ==
    [p EXCEPT !.observations =
        [k \in DOMAIN p.observations |-> DecodeObservation(p.observations[k])]]

----------------------------------------------------------------------------
(* Attempts, their events and intents. *)

EvidenceFences == [worker : EvidenceWorkers, generation : Nat \ {0}]

StartedState(f, intent) ==
    [status |-> "started", fence |-> f, request |-> intent,
     fingerprint |-> NoEvidence, decision |-> NoEvidence]

EventKind(a, state) ==
    [direction |-> a.direction, status |-> state.status, resolved |-> ~Absent(state.decision)]

Event(a, state, failure) ==
    [attempt |-> a.id, kind |-> EventKind(a, state), commits |-> state, failure |-> failure]

CommitsTo(n, a, state) ==
    /\ n \in DOMAIN eventLog
    /\ eventLog[n] = Event(a, state, eventLog[n].failure)

\* EffectAttemptRecord: both events commit to the states they brought about.
AttemptValid(a, row) ==
    /\ CommitsTo(row.original, a, StartedState(row.state.fence, row.state.request))
    /\ IF row.state.status = "started" THEN row.latest = row.original
       ELSE row.latest > row.original /\ CommitsTo(row.latest, a, row.state)

\* EffectAttemptIntentRecord of the attempt.
IntentValid(a) ==
    /\ ~Absent(intentRow[a])
    /\ intentRow[a].original = attemptRow[a].original
    /\ intentRow[a].intent = attemptRow[a].state.request

----------------------------------------------------------------------------
(* Observations. *)

VerificationRows ==
    [o \in {"passed", "failed", "timed-out", "malformed", "rejected"} |->
        CASE o = "passed" -> <<"verified", "healthy">>
          [] o = "failed" -> <<"verification-failed", "unhealthy">>
          [] o = "rejected" -> <<"rejected", "unknown">>
          [] OTHER -> <<o, o>>]

FixedCategories ==
    [o \in {"timed-out", "malformed", "rejected"} |->
        CASE o = "timed-out" -> "policy-exhausted"
          [] o = "malformed" -> "response-oversized"
          [] o = "rejected" -> "response-rejected"]

\* Why a check was not passed, "refused" if the evidence does not say.
Category(c, check) ==
    IF c.outcome = "passed" THEN "none"
    ELSE IF c.outcome \in DOMAIN FixedCategories THEN FixedCategories[c.outcome]
    ELSE IF Absent(c.evidence) THEN "transport-unavailable"
    ELSE IF c.evidence.status \notin check.statuses THEN "status-mismatch"
    ELSE IF check.digest # "none" /\ c.evidence.digest = check.digest
            /\ c.evidence.matches = "no" THEN "body-mismatch"
    ELSE "refused"

\* The evidence of a completion against the check it names.
Supports(c, check) ==
    LET e == c.evidence
    IN  /\ ~Absent(e) => e.kind = "http" /\ e.digest = check.digest
        /\ c.outcome = "passed" =>
             /\ ~Absent(e) /\ e.status \in check.statuses
             /\ check.digest # "none" => e.matches = "yes"
        /\ Category(c, check) # "refused"

\* Defect: the contract is looked up in the graph as it is now.
ContractOfNow(a) == [graph |-> planned, products |-> Contracts[planned]]

\* The contract that an answer about an attempt is held to.
ContractOf(a) == intentRow[a].intent

\* _authoritative_http_check: the one check that a contract has for it.
ChecksIn(contract, c) ==
    LET materials == {p \in contract.products : p.node = c.node}
    IN  IF contract.graph # c.graph \/ c.capability # "http"
           \/ Cardinality(materials) # 1
        THEN {}
        ELSE {k \in UNION {p.checks : p \in materials} :
                k.id = c.check /\ k.kind = "http" /\ Supports(c, k)}

Projectable(a, v) ==
    \A k \in DOMAIN v.observations :
        IsCompletion(v.observations[k]) => Cardinality(ChecksIn(ContractOf(a), v.observations[k])) = 1

Observed(o, status, outcome, at, probe, evidence) ==
    [subject |-> IF IsCompletion(o) THEN <<"verification", o.node, o.check>> ELSE <<o.subject>>,
     graph |-> o.graph, status |-> status, outcome |-> outcome, observed |-> at,
     probe |-> probe, evidence |-> evidence]

VerificationEvidence(a, c, check) ==
    [attempt |-> a.id, node |-> c.node, check |-> c.check, socket |-> check.socket,
     status |-> IF Absent(c.evidence) THEN "none" ELSE c.evidence.status,
     digest |-> check.digest,
     matches |-> IF Absent(c.evidence) THEN "unknown" ELSE c.evidence.matches,
     category |-> Category(c, check)]

VerificationRow(a, c, check, at) ==
    LET row == VerificationRows[c.outcome]
    IN  Observed(c, row[1], row[2], at, "application-health", VerificationEvidence(a, c, check))

TransportRow(o, at) == Observed(o, "unknown", "unknown", at, "transport", o)

ObservationOf(a, contract, o, at) ==
    IF IsCompletion(o) THEN VerificationRow(a, o, CHOOSE k \in ChecksIn(contract, o) : TRUE, at)
    ELSE TransportRow(o, at)

\* effect_outcome_observation_records of a projectable answer.
ProjectedRows(a, v, at) ==
    [k \in DOMAIN v.observations |-> ObservationOf(a, ContractOf(a), v.observations[k], at)]

\* _verification_record_matches: what a row must say without its contract.
CompletionMatches(a, row, c) ==
    LET e == row.evidence
        categories == IF c.outcome = "passed" THEN {"none"}
                      ELSE IF c.outcome # "failed" THEN {FixedCategories[c.outcome]}
                      ELSE IF Absent(c.evidence) THEN {"transport-unavailable"}
                      ELSE {"status-mismatch"} \cup
                             (IF c.evidence.matches = "no" THEN {"body-mismatch"} ELSE {})
    IN  /\ row.subject = <<"verification", c.node, c.check>> /\ row.graph = c.graph
        /\ <<row.status, row.outcome>> = VerificationRows[c.outcome]
        /\ row.probe = "application-health"
        /\ e.attempt = a.id /\ e.node = c.node /\ e.check = c.check
        /\ e.category \in categories
        /\ IF Absent(c.evidence) THEN e.status = "none" /\ e.matches = "unknown"
           ELSE /\ e.status = c.evidence.status /\ e.matches = c.evidence.matches
                /\ e.digest = c.evidence.digest

----------------------------------------------------------------------------
(* What the constructors of answers admit: evidence of http has a digest exactly  *)
(* when it says whether the body matched it.                                     *)

HttpEvidence ==
    {e \in [kind : STRING, status : STRING, digest : STRING,
            matches : {"yes", "no", "unknown"}] :
        e.digest = "none" <=> e.matches = "unknown"}

Completions ==
    [type : {"completion"}, node : STRING, graph : STRING, check : STRING,
     capability : STRING, outcome : DOMAIN VerificationRows,
     evidence : HttpEvidence \cup {NoEvidence}]

Endpoints == [type : {"endpoint"}, subject : STRING, graph : STRING, context : STRING]

EffectAnswers ==
    [profile : {"execution-result", "provider-observation"},
     kind : DOMAIN ExecutionRows \cup DOMAIN ObservedRows, failure : BOOLEAN,
     observations : Seq(Completions \cup Endpoints), size : {"bounded", "unbounded"}]

GivenAnswers == ProviderAnswers \cup ObserverAnswers

ASSUME AnswersAssumption == GivenAnswers \subseteq EffectAnswers

----------------------------------------------------------------------------
(* Outcome records and their store. *)

Record(v, attempt, observations) ==
    [value |-> v, attempt |-> attempt, observations |-> observations]

\* EffectAttemptOutcomeRecord.
RecordValid(a, r) ==
    LET s == r.attempt.state
        seen == r.value.observations
    IN  /\ WellFormed(r.value)
        /\ AttemptValid(a, r.attempt)
        /\ s.status = RowOf(r.value).status /\ s.fingerprint = EvidenceDigest(r.value)
        /\ Absent(s.decision)
        /\ eventLog[r.attempt.latest].failure = FailureOf(r.value)
        /\ Len(r.observations) = Len(seen)
        /\ \A k \in DOMAIN seen :
             LET row == r.observations[k]
             IN  /\ row.observed = r.attempt.latest
                 /\ IF IsCompletion(seen[k]) THEN CompletionMatches(a, row, seen[k])
                    ELSE row = TransportRow(seen[k], r.attempt.latest)

\* _require_verification_membership: projected again, the rows are the same.
Rederived(a, r) ==
    (\E k \in DOMAIN r.value.observations : IsCompletion(r.value.observations[k])) =>
        /\ IntentValid(a)
        /\ Projectable(a, r.value)
        /\ r.observations = ProjectedRows(a, r.value, r.attempt.latest)

\* _reconstruct_row: the record that an outcome's row and its members stand for.
Reconstructed(a) ==
    LET row == outcomeRow[a]
    IN  Record(Decode(row.preimage),
               [state |-> row.state, original |-> row.original, latest |-> row.direct],
               [k \in DOMAIN row.members |-> observationRows[row.members[k]]])

\* EffectAttemptOutcomeStore.get, for the event that the caller expects, has a record.
Readable(a, event) ==
    /\ ~Absent(outcomeRow[a]) /\ outcomeRow[a].direct = event
    /\ RecordValid(a, Reconstructed(a)) /\ Rederived(a, Reconstructed(a))

=============================================================================
