-------------------------- MODULE EffectFoldsSafety -------------------------
(***************************************************************************)
(* Theorems about EffectFolds: for any attempts, graphs, answers and       *)
(* commands, and claims, authorities and logs of any length, an outcome    *)
(* reads back as the answer that its fold carried.                         *)
(*                                                                         *)
(* Reading takes an outcome apart and checks it again: its bytes, both of  *)
(* its events, its intent and its rows, projected once more from the       *)
(* pinned contract.  The first parts show that each of these conversions   *)
(* undoes the one that was made at the fold: bytes decode to their answer, *)
(* and a row matches the completion that it was projected from.  The       *)
(* invariant then says of every settled effect which answer its outcome    *)
(* was made from.  It holds because events and observations are only       *)
(* appended, an intent is never replaced, and an attempt with an outcome   *)
(* moves once more at most, by a decision about an uncertain one.          *)
(***************************************************************************)
EXTENDS EffectFolds, FiniteSetTheorems, TLAPS

-----------------------------------------------------------------------------
(* Answers and their bytes.                                                *)

LEMMA EvidenceDecodes ==
    ASSUME NEW e \in HttpEvidence \cup {NoEvidence}
    PROVE  DecodeEvidence(EncodeEvidence(e)) = e
<1>1. CASE Absent(e)
  BY <1>1 DEF EncodeEvidence, DecodeEvidence, Absent
<1>2. CASE ~Absent(e) /\ e.digest = "none"
  <2>1. e \in HttpEvidence
    BY <1>2 DEF Absent
  <2>2. /\ e = [kind |-> e.kind, status |-> e.status, digest |-> e.digest, matches |-> e.matches]
        /\ e.kind \in STRING /\ e.status \in STRING /\ e.matches = "unknown"
    BY <2>1, <1>2 DEF HttpEvidence
  <2> DEFINE p == [kind |-> e.kind, status |-> e.status]
  <2>3. EncodeEvidence(e) = p
    BY <1>2 DEF EncodeEvidence
  <2>4. p \in [kind : STRING, status : STRING]
    BY <2>2
  <2>5. ~Absent(p)
    BY <2>4, NoEvidenceAssumption DEF Absent
  <2>6. DOMAIN p = {"kind", "status"}
    OBVIOUS
  <2>7. DecodeEvidence(p) =
          [kind |-> e.kind, status |-> e.status, digest |-> "none", matches |-> "unknown"]
    BY <2>5, <2>6 DEF DecodeEvidence
  <2> QED
    BY <2>2, <2>3, <2>7, <1>2
<1>3. CASE ~Absent(e) /\ e.digest # "none"
  <2>1. EncodeEvidence(e) = e
    BY <1>3 DEF EncodeEvidence
  <2>2. DOMAIN e = {"kind", "status", "digest", "matches"}
    BY <1>3 DEF Absent, HttpEvidence
  <2>3. DOMAIN e # {"kind", "status"}
    BY <2>2
  <2> QED
    BY <2>1, <2>3, <1>3 DEF DecodeEvidence
<1> QED
  BY <1>1, <1>2, <1>3

LEMMA ObservationDecodes ==
    ASSUME NEW o \in Completions \cup Endpoints
    PROVE  DecodeObservation(EncodeObservation(o)) = o
<1>1. CASE IsCompletion(o)
  <2>1. o \in Completions
    BY <1>1 DEF IsCompletion, Endpoints
  <2> DEFINE p == EncodeObservation(o)
  <2>2. /\ DOMAIN o = {"type", "node", "graph", "check", "capability", "outcome", "evidence"}
        /\ o.evidence \in HttpEvidence \cup {NoEvidence}
        /\ o = [x \in DOMAIN o |-> o[x]]
    BY <2>1 DEF Completions
  <2>3. p = [x \in DOMAIN o |-> IF x = "evidence" THEN EncodeEvidence(o.evidence) ELSE o[x]]
    BY <1>1 DEF EncodeObservation
  <2>4. /\ DOMAIN p = DOMAIN o /\ p.evidence = EncodeEvidence(o.evidence)
        /\ p.type = o.type /\ \A x \in DOMAIN o : x # "evidence" => p[x] = o[x]
    BY <2>2, <2>3
  <2>5. IsCompletion(p)
    BY <2>4, <1>1 DEF IsCompletion
  <2>6. DecodeObservation(p) =
          [x \in DOMAIN p |-> IF x = "evidence" THEN DecodeEvidence(p.evidence) ELSE p[x]]
    BY <2>5 DEF DecodeObservation
  <2>7. DecodeEvidence(p.evidence) = o.evidence
    BY <2>2, <2>4, EvidenceDecodes
  <2> HIDE DEF p
  <2>8. DecodeObservation(p) = [x \in DOMAIN o |-> o[x]]
    BY <2>2, <2>4, <2>6, <2>7
  <2> QED
    BY <2>2, <2>8 DEF p
<1>2. CASE ~IsCompletion(o)
  BY <1>2 DEF EncodeObservation, DecodeObservation
<1> QED
  BY <1>1, <1>2

LEMMA AnswerShape ==
    ASSUME NEW v \in EffectAnswers
    PROVE  /\ v = [x \in DOMAIN v |-> v[x]]
           /\ DOMAIN v = {"profile", "kind", "failure", "observations", "size"}
           /\ v.observations = [k \in DOMAIN v.observations |-> v.observations[k]]
           /\ Len(v.observations) \in Nat
           /\ DOMAIN v.observations = 1..Len(v.observations)
           /\ \A k \in DOMAIN v.observations : v.observations[k] \in Completions \cup Endpoints
<1>1. v.observations \in Seq(Completions \cup Endpoints)
  BY DEF EffectAnswers
<1>2. /\ v = [x \in DOMAIN v |-> v[x]]
      /\ DOMAIN v = {"profile", "kind", "failure", "observations", "size"}
  BY DEF EffectAnswers
<1> QED
  BY <1>1, <1>2

LEMMA AnswerDecodes ==
    ASSUME NEW v \in EffectAnswers
    PROVE  Decode(Encode(v)) = v
<1> DEFINE seen == v.observations
           sent == [k \in DOMAIN seen |-> EncodeObservation(seen[k])]
           p == Encode(v)
           read == [k \in DOMAIN p.observations |-> DecodeObservation(p.observations[k])]
<1>1. p = [x \in DOMAIN v |-> IF x = "observations" THEN sent ELSE v[x]]
  BY DEF Encode
<1>2. /\ DOMAIN p = DOMAIN v /\ p.observations = sent
      /\ \A x \in DOMAIN v : x # "observations" => p[x] = v[x]
  BY <1>1, AnswerShape
<1> HIDE DEF p
<1>3. Decode(p) = [x \in DOMAIN p |-> IF x = "observations" THEN read ELSE p[x]]
  <2>1. Decode(p) = [p EXCEPT !.observations = read]
    BY Zenon DEF Decode
  <2> HIDE DEF read
  <2> QED
    BY <2>1
<1>4. \A k \in DOMAIN seen : DecodeObservation(EncodeObservation(seen[k])) = seen[k]
  BY AnswerShape, ObservationDecodes
<1>5. read = [k \in DOMAIN sent |-> DecodeObservation(sent[k])]
  BY <1>2
<1>6. read = [k \in DOMAIN seen |-> seen[k]]
  BY <1>4, <1>5
<1>7. read = seen
  BY <1>6, AnswerShape
<1> HIDE DEF read
<1>8. Decode(p) = [x \in DOMAIN v |-> v[x]]
  BY <1>2, <1>3, <1>7
<1> QED
  BY <1>8, AnswerShape DEF p

LEMMA RowStatus ==
    ASSUME NEW v \in EffectAnswers, WellFormed(v)
    PROVE  RowOf(v).status \in {"succeeded", "failed", "unsupported", "uncertain"}
<1>1. CASE v.profile = "execution-result"
  <2>1. v.kind \in {"succeeded", "failed", "unsupported", "uncertain"}
    BY <1>1 DEF WellFormed, ResultWellFormed, ExecutionRows
  <2>2. RowOf(v) = ExecutionRows[v.kind]
    BY <1>1 DEF RowOf
  <2> QED
    BY <2>1, <2>2 DEF ExecutionRows, Settles
<1>2. CASE v.profile # "execution-result"
  <2>1. v.kind \in {"succeeded", "failed", "absent", "conflict", "indeterminate",
                    "observer_unsupported"}
    BY <1>2 DEF WellFormed, ObservationWellFormed, ObservedRows
  <2>2. RowOf(v) = ObservedRows[v.kind]
    BY <1>2 DEF RowOf
  <2> QED
    BY <2>1, <2>2 DEF ObservedRows, Settles
<1> QED
  BY <1>1, <1>2

-----------------------------------------------------------------------------
(* Rows and the contract they rest on.                                     *)

\* The check that a completion was found to meet.
CheckOf(contract, c) == CHOOSE k \in ChecksIn(contract, c) : TRUE

LEMMA CheckFound ==
    ASSUME NEW contract, NEW c, Cardinality(ChecksIn(contract, c)) = 1
    PROVE  LET k == CheckOf(contract, c)
           IN  /\ Supports(c, k) /\ k.id = c.check
               /\ contract.graph = c.graph
               /\ k \in UNION {p.checks : p \in {p \in contract.products : p.node = c.node}}
<1>1. ChecksIn(contract, c) # {}
  BY FS_EmptySet
<1>2. CheckOf(contract, c) \in ChecksIn(contract, c)
  BY <1>1 DEF CheckOf
<1>3. contract.graph = c.graph
  BY <1>1 DEF ChecksIn
<1>4. ~(\/ contract.graph # c.graph \/ c.capability # "http"
        \/ Cardinality({p \in contract.products : p.node = c.node}) # 1)
  BY <1>1 DEF ChecksIn
<1>5. CheckOf(contract, c) \in
        {k \in UNION {p.checks : p \in {p \in contract.products : p.node = c.node}} :
                k.id = c.check /\ k.kind = "http" /\ Supports(c, k)}
  BY <1>2, <1>4 DEF ChecksIn
<1> QED
  BY <1>3, <1>5

\* What a supported completion says of its own category.
LEMMA CategoryOf ==
    ASSUME NEW c \in Completions, NEW check, Supports(c, check)
    PROVE  /\ c.outcome = "passed" => Category(c, check) = "none"
           /\ c.outcome \in {"timed-out", "malformed", "rejected"} =>
                Category(c, check) = FixedCategories[c.outcome]
           /\ c.outcome = "failed" =>
                IF Absent(c.evidence) THEN Category(c, check) = "transport-unavailable"
                ELSE \/ Category(c, check) = "status-mismatch"
                     \/ Category(c, check) = "body-mismatch" /\ c.evidence.matches = "no"
<1>1. DOMAIN FixedCategories = {"timed-out", "malformed", "rejected"}
  BY DEF FixedCategories
<1>2. CASE c.outcome = "passed"
  BY <1>1, <1>2 DEF Category
<1>3. CASE c.outcome \in {"timed-out", "malformed", "rejected"}
  BY <1>1, <1>3 DEF Category
<1>4. CASE c.outcome = "failed" /\ Absent(c.evidence)
  BY <1>1, <1>4 DEF Category
<1>5. CASE c.outcome = "failed" /\ ~Absent(c.evidence)
  <2>1. Category(c, check) # "refused"
    BY DEF Supports
  <2> QED
    BY <1>1, <1>5, <2>1 DEF Category
<1>6. c.outcome \in {"passed", "failed", "timed-out", "malformed", "rejected"}
  BY DEF Completions, VerificationRows
<1> QED
  BY <1>2, <1>3, <1>4, <1>5, <1>6

LEMMA CompletionRow ==
    ASSUME NEW a, NEW contract, NEW c \in Completions, NEW at,
           Cardinality(ChecksIn(contract, c)) = 1
    PROVE  /\ CompletionMatches(a, ObservationOf(a, contract, c, at), c)
           /\ ObservationOf(a, contract, c, at).observed = at
           /\ ObservationOf(a, contract, c, at).status = VerificationRows[c.outcome][1]
<1> DEFINE check == CheckOf(contract, c)
           row == ObservationOf(a, contract, c, at)
           said == VerificationRows[c.outcome]
           e == VerificationEvidence(a, c, check)
<1>1. IsCompletion(c)
  BY DEF IsCompletion, Completions
<1>2. /\ Supports(c, check) /\ check.id = c.check /\ contract.graph = c.graph
  BY CheckFound
<1>3. row = [subject |-> <<"verification", c.node, c.check>>, graph |-> c.graph,
             status |-> said[1], outcome |-> said[2], observed |-> at,
             probe |-> "application-health", evidence |-> e]
  BY <1>1 DEF ObservationOf, VerificationRow, Observed, CheckOf
<1>4. c.outcome \in {"passed", "failed", "timed-out", "malformed", "rejected"}
  BY DEF Completions, VerificationRows
<1>5. said = <<said[1], said[2]>>
  BY <1>4 DEF VerificationRows
<1>6. e = [attempt |-> a.id, node |-> c.node, check |-> c.check, socket |-> check.socket,
           status |-> IF Absent(c.evidence) THEN "none" ELSE c.evidence.status,
           digest |-> check.digest,
           matches |-> IF Absent(c.evidence) THEN "unknown" ELSE c.evidence.matches,
           category |-> Category(c, check)]
  BY DEF VerificationEvidence
<1> HIDE DEF row, check, said, e
<1>7. /\ e.attempt = a.id /\ e.node = c.node /\ e.check = c.check
      /\ e.status = IF Absent(c.evidence) THEN "none" ELSE c.evidence.status
      /\ e.matches = IF Absent(c.evidence) THEN "unknown" ELSE c.evidence.matches
      /\ e.digest = check.digest /\ e.category = Category(c, check)
  BY <1>6
<1>8. ~Absent(c.evidence) => c.evidence.digest = check.digest
  BY <1>2 DEF Supports
<1>9. e.category \in
        (IF c.outcome = "passed" THEN {"none"}
         ELSE IF c.outcome # "failed" THEN {FixedCategories[c.outcome]}
         ELSE IF Absent(c.evidence) THEN {"transport-unavailable"}
         ELSE {"status-mismatch"} \cup
                (IF c.evidence.matches = "no" THEN {"body-mismatch"} ELSE {}))
  <2>1. CASE c.outcome = "passed"
    BY <2>1, <1>2, <1>7, CategoryOf
  <2>2. CASE c.outcome = "failed"
    BY <2>2, <1>2, <1>7, CategoryOf
  <2>3. CASE c.outcome \in {"timed-out", "malformed", "rejected"}
    BY <2>3, <1>2, <1>7, CategoryOf
  <2> QED
    BY <2>1, <2>2, <2>3, <1>4
<1>10. /\ row.subject = <<"verification", c.node, c.check>> /\ row.graph = c.graph
       /\ <<row.status, row.outcome>> = said /\ row.status = said[1]
       /\ row.probe = "application-health" /\ row.observed = at /\ row.evidence = e
  BY <1>3, <1>5
<1>11. CompletionMatches(a, row, c)
  BY <1>7, <1>8, <1>9, <1>10 DEF CompletionMatches, said
<1> QED
  BY <1>10, <1>11 DEF row, said

-----------------------------------------------------------------------------
(* Logs.                                                                   *)

IsLog(s) == Len(s) \in Nat /\ s = [k \in 1..Len(s) |-> s[k]]

LEMMA LogOf ==
    ASSUME NEW n \in Nat, NEW f, f = [k \in 1..n |-> f[k]]
    PROVE  Len(f) = n /\ IsLog(f) /\ f \in Seq({f[k] : k \in 1..n})
<1> DEFINE S == {f[k] : k \in 1..n}
<1>1. f \in [1..n -> S]
  OBVIOUS
<1>2. f \in Seq(S)
  BY <1>1
<1>3. Len(f) \in Nat /\ DOMAIN f = 1..Len(f) /\ DOMAIN f = 1..n
  BY <1>1, <1>2
<1>4. Len(f) = n
  BY <1>3
<1> QED
  BY <1>2, <1>4 DEF IsLog

LEMMA Appended ==
    ASSUME NEW s, IsLog(s), NEW e
    PROVE  LET t == Append(s, e)
           IN  /\ IsLog(t) /\ Len(t) = Len(s) + 1
               /\ t[Len(s) + 1] = e
               /\ \A k \in DOMAIN s : k \in DOMAIN t /\ t[k] = s[k]
               /\ DOMAIN s = 1..Len(s) /\ DOMAIN t = 1..(Len(s) + 1)
<1> DEFINE n == Len(s)
           S == {s[k] : k \in 1..n} \cup {e}
           t == Append(s, e)
<1>1. n \in Nat /\ s \in Seq({s[k] : k \in 1..n}) /\ DOMAIN s = 1..n
  BY LogOf DEF IsLog
<1>2. s \in Seq(S) /\ e \in S
  BY <1>1 DEF IsLog
<1> HIDE DEF S
<1>3. /\ t \in Seq(S) /\ Len(t) = n + 1 /\ t[n + 1] = e
      /\ \A k \in 1..n : t[k] = s[k]
  BY <1>1, <1>2
<1> HIDE DEF t
<1>4. t = [k \in 1..(n + 1) |-> t[k]]
  <2>1. t \in [1..Len(t) -> S]
    BY <1>3
  <2> QED
    BY <2>1, <1>3
<1>5. IsLog(t)
  BY <1>1, <1>3, <1>4 DEF IsLog
<1>6. DOMAIN t = 1..(n + 1)
  BY <1>4
<1> QED
  BY <1>1, <1>3, <1>5, <1>6 DEF t

\* t is s followed by r.
Joins(s, r, t) ==
    /\ IsLog(t) /\ Len(t) = Len(s) + Len(r)
    /\ \A k \in DOMAIN s : k \in DOMAIN t /\ t[k] = s[k]
    /\ \A k \in DOMAIN r : t[Len(s) + k] = r[k]
    /\ DOMAIN s = 1..Len(s) /\ DOMAIN r = 1..Len(r)
    /\ DOMAIN t = 1..(Len(s) + Len(r))

LEMMA Concatenated ==
    ASSUME NEW s, IsLog(s), NEW r, IsLog(r)
    PROVE  Joins(s, r, s \o r)
<1> DEFINE n == Len(s)
           m == Len(r)
           S == {s[k] : k \in 1..n} \cup {r[k] : k \in 1..m}
           t == s \o r
<1>1. /\ n \in Nat /\ DOMAIN s = 1..n /\ s \in Seq({s[k] : k \in 1..n})
      /\ m \in Nat /\ DOMAIN r = 1..m /\ r \in Seq({r[k] : k \in 1..m})
  BY LogOf DEF IsLog
<1>2. s \in Seq(S) /\ r \in Seq(S)
  BY <1>1 DEF IsLog
<1> HIDE DEF S
<1>3. /\ t \in Seq(S) /\ Len(t) = n + m
      /\ \A k \in 1..n : t[k] = s[k]
  BY <1>1, <1>2
<1>4. \A k \in 1..m : t[n + k] = r[k]
  BY <1>1, <1>2
<1> HIDE DEF t
<1>5. t = [k \in 1..(n + m) |-> t[k]]
  <2>1. t \in [1..Len(t) -> S]
    BY <1>3
  <2> QED
    BY <2>1, <1>3
<1>6. IsLog(t)
  BY <1>1, <1>3, <1>5 DEF IsLog
<1>7. DOMAIN t = 1..(n + m)
  BY <1>5
<1> QED
  BY <1>1, <1>3, <1>4, <1>6, <1>7 DEF t, Joins

-----------------------------------------------------------------------------
(* The invariant of the effects, their outcomes and the commands.           *)

\* What a fold of the answer v leaves of an attempt that had started.
SettledState(v, s) ==
    [status |-> RowOf(v).status, fence |-> s.fence, request |-> s.request,
     fingerprint |-> EvidenceDigest(v), decision |-> NoEvidence]

\* The outcome of an effect is what the fold of v stored, and the attempt still has that
\* state, or a decision about it.
Recorded(a, v) ==
    LET row == attemptRow[a]
        stored == outcomeRow[a]
        seen == v.observations
    IN  /\ stored.preimage = Encode(v)
        /\ stored.state = SettledState(v, row.state)
        /\ stored.original = row.original /\ stored.direct > stored.original
        /\ stored.direct \in DOMAIN eventLog
        /\ eventLog[stored.direct] = Event(a, stored.state, FailureOf(v))
        /\ Projectable(a, v)
        /\ DOMAIN stored.members = DOMAIN seen
        /\ \A k \in DOMAIN seen :
             /\ stored.members[k] \in DOMAIN observationRows
             /\ observationRows[stored.members[k]] =
                  ObservationOf(a, ContractOf(a), seen[k], stored.direct)
        /\ IF Absent(row.state.decision)
           THEN stored.state = row.state /\ stored.direct = row.latest
           ELSE stored.state.status = "uncertain" /\ row.state.status # "uncertain"

\* A command carried v, and its fold stored it.
Answered(a) ==
    \E v \in GivenAnswers :
        WellFormed(v) /\ Recorded(a, v) /\ \E c \in folds : c.attempt = a /\ c.value = v

EffectStands(a) ==
    LET row == attemptRow[a]
    IN  /\ AttemptValid(a, row) /\ IntentValid(a)
        /\ Absent(outcomeRow[a]) <=> row.state.status = "started"
        /\ row.state.status = "started" =>
             row.state = StartedState(row.state.fence, row.state.request)
        /\ row.state.status # "started" => Answered(a)

EffectsStand ==
    \A a \in EvidenceAttempts :
        IF Absent(attemptRow[a]) THEN Absent(outcomeRow[a]) ELSE EffectStands(a)

CommandsStand ==
    \A c \in folds : ~Absent(attemptRow[c.attempt]) /\ (~Absent(c.value) => WellFormed(c.value))

Owns(a, k) ==
    ~Absent(outcomeRow[a]) /\ \E m \in DOMAIN outcomeRow[a].members :
                                 outcomeRow[a].members[m] = k
MembersApart ==
    /\ \A k \in DOMAIN observationRows : \E a \in EvidenceAttempts : Owns(a, k)
    /\ \A a, b \in EvidenceAttempts : \A k \in DOMAIN observationRows :
          Owns(a, k) /\ Owns(b, k) => a = b

LastAnswered ==
    ~Absent(lastFold) /\ lastFold.reply # "refused" /\ ~Absent(lastFold.command.value) =>
        LET c == lastFold.command
        IN  /\ c.attempt \in EvidenceAttempts /\ ~Absent(attemptRow[c.attempt])
            /\ ~Absent(outcomeRow[c.attempt])
            /\ lastFold.record = Reconstructed(c.attempt)
            /\ lastFold.record.value = c.value

EvidenceInvariant ==
    /\ EvidenceTypeOK /\ IsLog(eventLog) /\ IsLog(observationRows)
    /\ EffectsStand /\ CommandsStand /\ MembersApart /\ LastAnswered

\* The log only grows.
Grows(s, t) == \A k \in DOMAIN s : k \in DOMAIN t /\ t[k] = s[k]

LEMMA ReadsAs ==
    ASSUME NEW v \in EffectAnswers, NEW stored, NEW rows, NEW a, NEW contract,
           stored.preimage = Encode(v), DOMAIN stored.members = DOMAIN v.observations,
           \A k \in DOMAIN v.observations : rows[stored.members[k]] =
              ObservationOf(a, contract, v.observations[k], stored.direct)
    PROVE  Record(Decode(stored.preimage),
                  [state |-> stored.state, original |-> stored.original,
                   latest |-> stored.direct],
                  [k \in DOMAIN stored.members |-> rows[stored.members[k]]])
           = Record(v, [state |-> stored.state, original |-> stored.original,
                        latest |-> stored.direct],
                    [k \in DOMAIN v.observations |->
                       ObservationOf(a, contract, v.observations[k], stored.direct)])
<1> DEFINE attempt == [state |-> stored.state, original |-> stored.original,
                       latest |-> stored.direct]
           read == [k \in DOMAIN stored.members |-> rows[stored.members[k]]]
           made == [k \in DOMAIN v.observations |->
                      ObservationOf(a, contract, v.observations[k], stored.direct)]
<1>1. Decode(stored.preimage) = v
  BY AnswerDecodes
<1>2. read = made
  OBVIOUS
<1> HIDE DEF attempt, read, made
<1>3. Record(Decode(stored.preimage), attempt, read) = Record(v, attempt, made)
  BY <1>1, <1>2
<1> QED
  BY <1>3 DEF attempt, read, made

\* An outcome stays what it is while its attempt does, or is decided about.
LEMMA RecordedStays ==
    ASSUME NEW a, NEW v, Recorded(a, v),
           attemptRow'[a].original = attemptRow[a].original,
           SettledState(v, attemptRow'[a].state) = SettledState(v, attemptRow[a].state),
           \/ attemptRow'[a] = attemptRow[a]
           \/ /\ ~Absent(attemptRow'[a].state.decision)
              /\ attemptRow'[a].state.status # "uncertain"
              /\ outcomeRow[a].state.status = "uncertain",
           outcomeRow'[a] = outcomeRow[a], intentRow'[a] = intentRow[a],
           Grows(eventLog, eventLog'), Grows(observationRows, observationRows')
    PROVE  Recorded(a, v)'
<1> DEFINE stored == outcomeRow[a]
           seen == v.observations
<1>1. ContractOf(a)' = ContractOf(a)
  BY DEF ContractOf
<1>2. Projectable(a, v)'
  BY <1>1 DEF Projectable, Recorded
<1>3. stored.direct \in DOMAIN eventLog' /\ eventLog'[stored.direct] = eventLog[stored.direct]
  BY DEF Recorded, Grows
<1>4. \A k \in DOMAIN seen :
          /\ stored.members[k] \in DOMAIN observationRows'
          /\ observationRows'[stored.members[k]] =
               ObservationOf(a, ContractOf(a)', seen[k], stored.direct)
  BY <1>1 DEF Recorded, Grows
<1> QED
  BY <1>2, <1>3, <1>4 DEF Recorded

LEMMA EffectStays ==
    ASSUME NEW a, EffectStands(a), attemptRow'[a] = attemptRow[a],
           outcomeRow'[a] = outcomeRow[a], intentRow'[a] = intentRow[a],
           Grows(eventLog, eventLog'), Grows(observationRows, observationRows'),
           folds \subseteq folds'
    PROVE  EffectStands(a)'
<1> DEFINE row == attemptRow[a]
<1>1. ASSUME NEW n, NEW state, CommitsTo(n, a, state)
      PROVE  CommitsTo(n, a, state)'
  BY <1>1 DEF CommitsTo, Grows
<1>2. AttemptValid(a, row)'
  BY <1>1 DEF EffectStands, AttemptValid
<1>3. IntentValid(a)'
  BY DEF EffectStands, IntentValid
<1>4. Answered(a) => Answered(a)'
  <2> SUFFICES ASSUME NEW v \in GivenAnswers, WellFormed(v), Recorded(a, v),
                      NEW c \in folds, c.attempt = a, c.value = v
               PROVE  Answered(a)'
    BY DEF Answered
  <2>1. Recorded(a, v)'
    BY RecordedStays
  <2> QED
    BY <2>1 DEF Answered
<1> QED
  BY <1>2, <1>3, <1>4 DEF EffectStands

\* What is read from a recorded outcome is valid, and projects to the rows it has.
LEMMA OutcomeReads ==
    ASSUME NEW a, NEW v \in EffectAnswers, WellFormed(v), Recorded(a, v),
           AttemptValid(a, attemptRow[a]), IntentValid(a),
           attemptRow[a].state.status # "started", ~Absent(outcomeRow[a])
    PROVE  LET stored == outcomeRow[a]
               attempt == [state |-> stored.state, original |-> stored.original,
                           latest |-> stored.direct]
           IN  /\ Reconstructed(a) = Record(v, attempt, ProjectedRows(a, v, stored.direct))
               /\ Readable(a, stored.direct)
<1> DEFINE stored == outcomeRow[a]
           row == attemptRow[a]
           seen == v.observations
           s == stored.state
           at == stored.direct
           attempt == [state |-> s, original |-> stored.original, latest |-> at]
           rows == ProjectedRows(a, v, at)
           r == Record(v, attempt, rows)
<1>1. Reconstructed(a) = r
  <2>1. \A k \in DOMAIN seen : observationRows[stored.members[k]] =
           ObservationOf(a, ContractOf(a), seen[k], at)
    BY DEF Recorded
  <2>2. stored.preimage = Encode(v) /\ DOMAIN stored.members = DOMAIN seen
    BY DEF Recorded
  <2> QED
    BY <2>1, <2>2, ReadsAs DEF Reconstructed, ProjectedRows
<1>2. s = SettledState(v, row.state) /\ stored.original = row.original
      /\ at > stored.original /\ at \in DOMAIN eventLog
      /\ eventLog[at] = Event(a, s, FailureOf(v))
  BY DEF Recorded
<1>3. /\ s.status = RowOf(v).status /\ s.fingerprint = EvidenceDigest(v)
      /\ s.decision = NoEvidence /\ s.fence = row.state.fence /\ s.request = row.state.request
  BY <1>2 DEF SettledState
<1>4. eventLog[at].failure = FailureOf(v)
  BY <1>2 DEF Event
<1>5. CommitsTo(at, a, s)
  BY <1>2, <1>4 DEF CommitsTo
<1>6. CommitsTo(stored.original, a, StartedState(s.fence, s.request))
  BY <1>2, <1>3 DEF AttemptValid
<1>7. s.status # "started"
  BY <1>3, RowStatus
<1>8. /\ attempt.state = s /\ attempt.original = stored.original /\ attempt.latest = at
      /\ r.value = v /\ r.attempt = attempt /\ r.observations = rows
  BY DEF Record
<1> HIDE DEF attempt, r
<1>9. AttemptValid(a, attempt)
  BY <1>2, <1>5, <1>6, <1>7, <1>8 DEF AttemptValid
<1>10. Projectable(a, v)
  BY DEF Recorded
<1>11. /\ rows = [k \in 1..Len(seen) |-> rows[k]] /\ Len(seen) \in Nat
       /\ DOMAIN seen = 1..Len(seen)
       /\ \A k \in DOMAIN seen : rows[k] = ObservationOf(a, ContractOf(a), seen[k], at)
  BY AnswerShape DEF ProjectedRows
<1>12. Len(rows) = Len(seen)
  BY <1>11, LogOf
<1>13. ASSUME NEW k \in DOMAIN seen
       PROVE  /\ rows[k].observed = at
              /\ IF IsCompletion(seen[k]) THEN CompletionMatches(a, rows[k], seen[k])
                 ELSE rows[k] = TransportRow(seen[k], at)
  <2>1. CASE IsCompletion(seen[k])
    <3>1. seen[k] \in Completions
      BY <2>1, AnswerShape DEF IsCompletion, Endpoints
    <3>2. Cardinality(ChecksIn(ContractOf(a), seen[k])) = 1
      BY <2>1, <1>10 DEF Projectable
    <3>3. /\ CompletionMatches(a, ObservationOf(a, ContractOf(a), seen[k], at), seen[k])
          /\ ObservationOf(a, ContractOf(a), seen[k], at).observed = at
      BY <3>1, <3>2, CompletionRow
    <3>4. rows[k] = ObservationOf(a, ContractOf(a), seen[k], at)
      BY <1>11
    <3> HIDE DEF rows
    <3> QED
      BY <2>1, <3>3, <3>4
  <2>2. CASE ~IsCompletion(seen[k])
    <3>1. rows[k] = TransportRow(seen[k], at)
      BY <2>2, <1>11 DEF ObservationOf
    <3>2. TransportRow(seen[k], at).observed = at
      BY DEF TransportRow, Observed
    <3> HIDE DEF rows
    <3> QED
      BY <2>2, <3>1, <3>2
  <2> QED
    BY <2>1, <2>2
<1>14. RecordValid(a, r)
  BY <1>3, <1>4, <1>8, <1>9, <1>12, <1>13 DEF RecordValid, Absent
<1>15. Rederived(a, r)
  BY <1>8, <1>10 DEF Rederived
<1>16. Readable(a, at)
  BY <1>1, <1>14, <1>15 DEF Readable
<1> QED
  BY <1>1, <1>16 DEF attempt, r

LEMMA VerifiedRows ==
    ASSUME NEW a, NEW v \in EffectAnswers, Projectable(a, v), NEW at,
           NEW r, r.value = v, r.observations = ProjectedRows(a, v, at)
    PROVE  VerifiedHonestly(a, r)
<1> DEFINE seen == v.observations
           contract == intentRow[a].intent
<1>1. ContractOf(a) = contract
  BY DEF ContractOf
<1> SUFFICES ASSUME NEW k \in DOMAIN r.observations, r.observations[k].status = "verified"
             PROVE  LET c == r.value.observations[k]
                    IN  /\ c.graph = contract.graph
                        /\ \E check \in PinnedChecks(a, c) :
                             /\ c.evidence.status \in check.statuses
                             /\ check.digest # "none" =>
                                  c.evidence.digest = check.digest /\ c.evidence.matches = "yes"
  BY DEF VerifiedHonestly
<1> DEFINE c == seen[k]
           check == CheckOf(contract, c)
<1>2. k \in DOMAIN seen /\ r.observations[k] = ObservationOf(a, contract, c, at)
  BY <1>1 DEF ProjectedRows
<1>3. c \in Completions /\ IsCompletion(c)
  <2>1. c \in Completions \cup Endpoints
    BY <1>2, AnswerShape
  <2>2. ASSUME ~IsCompletion(c) PROVE FALSE
    BY <1>2, <2>2 DEF ObservationOf, TransportRow, Observed
  <2> QED
    BY <2>1, <2>2 DEF IsCompletion, Endpoints
<1>4. Cardinality(ChecksIn(contract, c)) = 1
  BY <1>1, <1>2, <1>3 DEF Projectable
<1>5. VerificationRows[c.outcome][1] = "verified"
  BY <1>2, <1>3, <1>4, CompletionRow
<1>6. c.outcome \in {"passed", "failed", "timed-out", "malformed", "rejected"}
  BY <1>3 DEF Completions, VerificationRows
<1>7. c.outcome = "passed"
  BY <1>5, <1>6 DEF VerificationRows
<1>8. /\ Supports(c, check) /\ check.id = c.check /\ contract.graph = c.graph
      /\ check \in UNION {p.checks : p \in {p \in contract.products : p.node = c.node}}
  BY <1>4, CheckFound
<1>9. check \in PinnedChecks(a, c)
  BY <1>8 DEF PinnedChecks
<1>10. /\ c.evidence.status \in check.statuses
       /\ check.digest # "none" => c.evidence.digest = check.digest /\ c.evidence.matches = "yes"
  BY <1>7, <1>8 DEF Supports
<1> HIDE DEF check
<1> QED
  BY <1>8, <1>9, <1>10

-----------------------------------------------------------------------------
(* The invariant starts, and gives what is wanted.                          *)

LEMMA EvidenceStarts ==
    ASSUME EvidenceInit
    PROVE  EvidenceInvariant
<1>1. eventLog = << >> /\ observationRows = << >>
  BY DEF EvidenceInit
<1>2. IsLog(eventLog) /\ IsLog(observationRows) /\ DOMAIN observationRows = {}
  <2>1. \A s : s = << >> => Len(s) = 0 /\ DOMAIN s = {} /\ s = [k \in 1..0 |-> s[k]]
    OBVIOUS
  <2> QED
    BY <1>1, <2>1 DEF IsLog
<1>3. /\ \A a \in EvidenceAttempts : attemptRow[a] = NoEvidence /\ outcomeRow[a] = NoEvidence
      /\ folds = {} /\ lastFold = NoEvidence
  BY DEF EvidenceInit
<1>4. EvidenceTypeOK
  <2>1. holder \in [fence : EvidenceFences, expired : BOOLEAN]
    BY DEF EvidenceInit, EvidenceFences
  <2> QED
    BY <2>1 DEF EvidenceInit, EvidenceTypeOK
<1>5. EffectsStand /\ CommandsStand
  BY <1>3 DEF EffectsStand, CommandsStand, Absent
<1>6. MembersApart
  BY <1>2 DEF MembersApart
<1>7. LastAnswered
  BY <1>3 DEF LastAnswered, Absent
<1> QED
  BY <1>2, <1>4, <1>5, <1>6, <1>7 DEF EvidenceInvariant

\* Every effect with an outcome reads back what one of its commands carried.
LEMMA EffectReads ==
    ASSUME EvidenceInvariant, NEW a \in EvidenceAttempts, ~Absent(attemptRow[a]),
           ~Absent(outcomeRow[a])
    PROVE  LET row == attemptRow[a]
               r == Reconstructed(a)
           IN  /\ Readable(a, outcomeRow[a].direct) /\ r.value \in GivenAnswers
               /\ \E c \in folds : c.attempt = a /\ c.value = r.value
               /\ VerifiedHonestly(a, r)
               /\ IF Absent(row.state.decision) THEN r.attempt = row
                  ELSE r.attempt.state.status = "uncertain"
<1> DEFINE row == attemptRow[a]
           stored == outcomeRow[a]
           r == Reconstructed(a)
<1>1. EffectStands(a)
  BY DEF EvidenceInvariant, EffectsStand
<1>2. row.state.status # "started" /\ Answered(a) /\ AttemptValid(a, row) /\ IntentValid(a)
  BY <1>1 DEF EffectStands
<1>3. PICK v \in GivenAnswers :
        WellFormed(v) /\ Recorded(a, v) /\ \E c \in folds : c.attempt = a /\ c.value = v
  BY <1>2 DEF Answered
<1>4. v \in EffectAnswers
  BY AnswersAssumption
<1>5. /\ r = Record(v, [state |-> stored.state, original |-> stored.original,
                        latest |-> stored.direct], ProjectedRows(a, v, stored.direct))
      /\ Readable(a, stored.direct)
  BY <1>2, <1>3, <1>4, OutcomeReads
<1>6. /\ r.value = v /\ r.observations = ProjectedRows(a, v, stored.direct)
      /\ r.attempt = [state |-> stored.state, original |-> stored.original,
                      latest |-> stored.direct]
  BY <1>5 DEF Record
<1>7. Projectable(a, v) /\ stored.original = row.original
      /\ IF Absent(row.state.decision) THEN stored.state = row.state /\ stored.direct = row.latest
         ELSE stored.state.status = "uncertain"
  BY <1>3 DEF Recorded
<1>8. VerifiedHonestly(a, r)
  BY <1>4, <1>6, <1>7, VerifiedRows
<1>9. row = [state |-> row.state, original |-> row.original, latest |-> row.latest]
  <2>1. row \in AttemptRows
    BY DEF EvidenceInvariant, EvidenceTypeOK, Absent
  <2> QED
    BY <2>1 DEF AttemptRows
<1> HIDE DEF r, row, stored
<1>10. IF Absent(row.state.decision) THEN r.attempt = row
       ELSE r.attempt.state.status = "uncertain"
  BY <1>6, <1>7, <1>9
<1> QED
  BY <1>3, <1>5, <1>6, <1>8, <1>10 DEF r, row, stored

LEMMA EvidenceHolds ==
    ASSUME EvidenceInvariant
    PROVE  EvidenceReadsBack
<1>1. ASSUME NEW a \in EvidenceAttempts, ~Absent(attemptRow[a])
      PROVE  LET row == attemptRow[a]
                 stored == outcomeRow[a]
                 r == Reconstructed(a)
             IN  /\ AttemptValid(a, row)
                 /\ Absent(stored) <=> row.state.status = "started"
                 /\ ~Absent(stored) =>
                      /\ Readable(a, stored.direct)
                      /\ \E c \in folds : c.attempt = a /\ c.value = r.value
                      /\ VerifiedHonestly(a, r)
                      /\ IF Absent(row.state.decision) THEN r.attempt = row
                         ELSE r.attempt.state.status = "uncertain"
  <2>1. EffectStands(a)
    BY <1>1 DEF EvidenceInvariant, EffectsStand
  <2> QED
    BY <1>1, <2>1, EffectReads DEF EffectStands
<1>2. ASSUME NEW k \in DOMAIN observationRows
      PROVE  Cardinality({a \in EvidenceAttempts :
                ~Absent(outcomeRow[a]) /\ \E m \in DOMAIN outcomeRow[a].members :
                                           outcomeRow[a].members[m] = k}) = 1
  <2>1. PICK b \in EvidenceAttempts : Owns(b, k)
    BY <1>2 DEF EvidenceInvariant, MembersApart
  <2>2. \A a \in EvidenceAttempts : Owns(a, k) => a = b
    BY <1>2, <2>1 DEF EvidenceInvariant, MembersApart
  <2>3. {a \in EvidenceAttempts : Owns(a, k)} = {b}
    BY <2>1, <2>2
  <2>4. {a \in EvidenceAttempts :
            ~Absent(outcomeRow[a]) /\ \E m \in DOMAIN outcomeRow[a].members :
                                       outcomeRow[a].members[m] = k} = {b}
    BY <2>3 DEF Owns
  <2> QED
    BY <2>4, FS_Singleton
<1>3. ~Absent(lastFold) /\ lastFold.reply # "refused" /\ ~Absent(lastFold.command.value) =>
         LET c == lastFold.command
         IN  /\ lastFold.record.value = c.value
             /\ Readable(c.attempt, outcomeRow[c.attempt].direct)
             /\ lastFold.record = Reconstructed(c.attempt)
  BY EffectReads DEF EvidenceInvariant, LastAnswered
<1> QED
  BY <1>1, <1>2, <1>3 DEF EvidenceReadsBack

-----------------------------------------------------------------------------
(* Steps that leave the rows alone.                                         *)

LEMMA RowsStay ==
    ASSUME EvidenceInvariant, folds \subseteq folds',
           UNCHANGED <<attemptRow, intentRow, eventLog, observationRows, outcomeRow>>
    PROVE  /\ EffectsStand' /\ MembersApart' /\ IsLog(eventLog)' /\ IsLog(observationRows)'
           /\ UNCHANGED lastFold => LastAnswered'
<1>1. Grows(eventLog, eventLog') /\ Grows(observationRows, observationRows')
  BY DEF Grows
<1>2. EffectsStand'
  <2> SUFFICES ASSUME NEW a \in EvidenceAttempts
               PROVE  (IF Absent(attemptRow[a]) THEN Absent(outcomeRow[a])
                       ELSE EffectStands(a))'
    BY DEF EffectsStand
  <2>1. CASE Absent(attemptRow[a])
    BY <2>1 DEF EvidenceInvariant, EffectsStand
  <2>2. CASE ~Absent(attemptRow[a])
    <3>1. EffectStands(a)
      BY <2>2 DEF EvidenceInvariant, EffectsStand
    <3>2. EffectStands(a)'
      BY <1>1, <3>1, EffectStays
    <3> QED
      BY <2>2, <3>2
  <2> QED
    BY <2>1, <2>2
<1>3. MembersApart'
  BY DEF EvidenceInvariant, MembersApart, Owns
<1>4. IsLog(eventLog)' /\ IsLog(observationRows)'
  BY DEF EvidenceInvariant
<1>5. UNCHANGED lastFold => LastAnswered'
  BY DEF EvidenceInvariant, LastAnswered, Reconstructed
<1> QED
  BY <1>2, <1>3, <1>4, <1>5

LEMMA FormKeeps ==
    ASSUME EvidenceInvariant, NEW c, Form(c), ~Absent(attemptRow[c.attempt]),
           c.attempt \in EvidenceAttempts, c.fence \in EvidenceFences,
           \/ c.value \in GivenAnswers /\ WellFormed(c.value) /\ c.decision = NoEvidence
           \/ c.value = NoEvidence /\ c.decision \in ResolutionDecisions
    PROVE  EvidenceInvariant'
<1>1. /\ folds' = folds \cup {c}
      /\ UNCHANGED <<attemptRow, intentRow, eventLog, observationRows, outcomeRow, holder,
                     authorityRow, planned, lastFold>>
  BY DEF Form
<1>2. EvidenceTypeOK'
  BY <1>1 DEF EvidenceInvariant, EvidenceTypeOK
<1>3. CommandsStand'
  BY <1>1 DEF EvidenceInvariant, CommandsStand, Absent
<1> QED
  BY <1>1, <1>2, <1>3, RowsStay DEF EvidenceInvariant

LEMMA FencesTyped ==
    ASSUME EvidenceInvariant
    PROVE  /\ holder.fence \in EvidenceFences
           /\ \A a \in EvidenceAttempts : ~Absent(attemptRow[a]) =>
                /\ attemptRow[a] \in AttemptRows /\ attemptRow[a].state \in EffectStates
                /\ attemptRow[a].state.fence \in EvidenceFences
                /\ attemptRow[a].state.request \in EffectIntents
                /\ attemptRow[a].original \in Nat /\ attemptRow[a].latest \in Nat
<1>1. holder \in [fence : EvidenceFences, expired : BOOLEAN]
  BY DEF EvidenceInvariant, EvidenceTypeOK
<1>2. \A a \in EvidenceAttempts : ~Absent(attemptRow[a]) => attemptRow[a] \in AttemptRows
  BY DEF EvidenceInvariant, EvidenceTypeOK, Absent
<1> QED
  BY <1>1, <1>2 DEF AttemptRows, EffectStates

LEMMA CommandsForm ==
    ASSUME EvidenceInvariant, NEW a \in EvidenceAttempts,
           ProviderReturns(a) \/ Inspect(a) \/ ResolveUncertain(a)
    PROVE  EvidenceInvariant'
<1>1. CASE ProviderReturns(a)
  <2>1. ~Absent(attemptRow[a])
    BY <1>1 DEF ProviderReturns
  <2>2. PICK v \in ProviderAnswers :
          WellFormed(v) /\ Form(FoldCommand(a, attemptRow[a].state.fence, v, NoEvidence,
                                            NoEvidence))
    BY <1>1 DEF ProviderReturns
  <2> DEFINE c == FoldCommand(a, attemptRow[a].state.fence, v, NoEvidence, NoEvidence)
  <2>3. /\ c.attempt = a /\ c.fence = attemptRow[a].state.fence /\ c.value = v
        /\ c.decision = NoEvidence
    BY DEF FoldCommand
  <2>4. c.fence \in EvidenceFences /\ v \in GivenAnswers
    BY <2>1, <2>3, FencesTyped DEF GivenAnswers
  <2> HIDE DEF c
  <2>5. Form(c)
    BY <2>2 DEF c
  <2> QED
    BY <2>1, <2>2, <2>3, <2>4, <2>5, FormKeeps
<1>2. CASE Inspect(a)
  <2>1. ~Absent(attemptRow[a])
    BY <1>2 DEF Inspect, OpenEffect
  <2>2. PICK v \in ObserverAnswers :
          WellFormed(v) /\ Form(FoldCommand(a, holder.fence, v, NoEvidence, Guard(a)))
    BY <1>2 DEF Inspect
  <2> DEFINE c == FoldCommand(a, holder.fence, v, NoEvidence, Guard(a))
  <2>3. /\ c.attempt = a /\ c.fence = holder.fence /\ c.value = v
        /\ c.decision = NoEvidence
    BY DEF FoldCommand
  <2>4. c.fence \in EvidenceFences /\ v \in GivenAnswers
    BY <2>3, FencesTyped DEF GivenAnswers
  <2> HIDE DEF c
  <2>5. Form(c)
    BY <2>2 DEF c
  <2> QED
    BY <2>1, <2>2, <2>3, <2>4, <2>5, FormKeeps
<1>3. CASE ResolveUncertain(a)
  <2>1. ~Absent(attemptRow[a]) /\ attemptRow[a].state.status = "uncertain"
    BY <1>3 DEF ResolveUncertain
  <2>2. PICK r \in DOMAIN Resolutions :
          Form(FoldCommand(a, holder.fence, NoEvidence,
                 [resolution |-> r, uncertain |-> attemptRow[a].state.fingerprint],
                 NoEvidence))
    BY <1>3 DEF ResolveUncertain
  <2> DEFINE d == [resolution |-> r, uncertain |-> attemptRow[a].state.fingerprint]
             c == FoldCommand(a, holder.fence, NoEvidence, d, NoEvidence)
  <2>3. attemptRow[a].state.fingerprint \in GivenAnswers
    <3>1. EffectStands(a)
      BY <2>1 DEF EvidenceInvariant, EffectsStand
    <3>2. Answered(a)
      BY <2>1, <3>1 DEF EffectStands
    <3>3. PICK v \in GivenAnswers : Recorded(a, v)
      BY <3>2 DEF Answered
    <3>4. attemptRow[a].state = SettledState(v, attemptRow[a].state)
      BY <2>1, <3>3 DEF Recorded
    <3>5. SettledState(v, attemptRow[a].state).fingerprint = v
      BY DEF SettledState, EvidenceDigest
    <3> QED
      BY <3>4, <3>5
  <2>4. d \in ResolutionDecisions
    BY <2>3 DEF ResolutionDecisions
  <2>5. /\ c.attempt = a /\ c.fence = holder.fence /\ c.value = NoEvidence /\ c.decision = d
    BY DEF FoldCommand
  <2> HIDE DEF d
  <2>6. Form(c)
    BY <2>2 DEF d
  <2> HIDE DEF c
  <2> QED
    BY <2>1, <2>4, <2>5, <2>6, FencesTyped, FormKeeps
<1> QED
  BY <1>1, <1>2, <1>3

LEMMA AnsweredAgain ==
    ASSUME EvidenceInvariant, NEW c \in folds, FoldAgain(c) \/ FoldRefused(c)
    PROVE  EvidenceInvariant'
<1>1. UNCHANGED <<attemptRow, intentRow, eventLog, observationRows, outcomeRow, holder,
                  authorityRow, planned, folds>>
  BY DEF FoldAgain, FoldRefused
<1>2. EvidenceTypeOK' /\ CommandsStand'
  BY <1>1 DEF EvidenceInvariant, EvidenceTypeOK, CommandsStand
<1>3. LastAnswered'
  <2>1. CASE FoldRefused(c)
    BY <2>1 DEF FoldRefused, Reply, LastAnswered
  <2>2. CASE FoldAgain(c) /\ Absent(c.value)
    BY <2>2 DEF FoldAgain, Reply, LastAnswered
  <2>3. CASE FoldAgain(c) /\ ~Absent(c.value)
    <3>1. lastFold' = [command |-> c, reply |-> "existing", record |-> Reconstructed(c.attempt)]
      BY <2>3 DEF FoldAgain, Reply
    <3>2. Readable(c.attempt, attemptRow[c.attempt].latest)
          /\ Reconstructed(c.attempt).value = c.value
      BY <2>3 DEF FoldAgain, IsReplay
    <3>3. c.attempt \in EvidenceAttempts /\ ~Absent(attemptRow[c.attempt])
      BY DEF EvidenceInvariant, EvidenceTypeOK, CommandsStand
    <3>4. ~Absent(outcomeRow[c.attempt])
      BY <3>2 DEF Readable
    <3>5. Reconstructed(c.attempt)' = Reconstructed(c.attempt)
      BY <1>1 DEF Reconstructed
    <3>6. /\ lastFold'.command = c /\ lastFold'.record = Reconstructed(c.attempt)
      BY <3>1
    <3> QED
      BY <1>1, <3>2, <3>3, <3>4, <3>5, <3>6 DEF LastAnswered
  <2> QED
    BY <2>1, <2>2, <2>3
<1> QED
  BY <1>1, <1>2, <1>3, RowsStay DEF EvidenceInvariant

LEMMA SurroundingsKeep ==
    ASSUME EvidenceInvariant,
           RotateHolder \/ HolderExpires \/ AuthorityChanges \/ GraphMoves \/ UNCHANGED evars
    PROVE  EvidenceInvariant'
<1>1. UNCHANGED <<attemptRow, intentRow, eventLog, observationRows, outcomeRow, folds, lastFold>>
  BY DEF RotateHolder, HolderExpires, AuthorityChanges, GraphMoves, evars
<1>2. holder' \in [fence : EvidenceFences, expired : BOOLEAN]
  <2>1. holder \in [fence : EvidenceFences, expired : BOOLEAN]
    BY DEF EvidenceInvariant, EvidenceTypeOK
  <2>2. CASE RotateHolder
    <3>1. holder.fence.generation \in Nat \ {0}
      BY <2>1 DEF EvidenceFences
    <3>2. holder.fence.generation + 1 \in Nat \ {0}
      BY <3>1
    <3> QED
      BY <2>2, <3>2 DEF RotateHolder, EvidenceFences
  <2>3. CASE HolderExpires
    BY <2>1, <2>3 DEF HolderExpires
  <2>4. CASE AuthorityChanges \/ GraphMoves \/ UNCHANGED evars
    BY <2>1, <2>4 DEF AuthorityChanges, GraphMoves, evars
  <2> QED
    BY <2>2, <2>3, <2>4
<1>3. planned' \in DOMAIN Contracts
  BY DEF EvidenceInvariant, EvidenceTypeOK, RotateHolder, HolderExpires, AuthorityChanges,
         GraphMoves, evars
<1>4. EvidenceTypeOK' /\ CommandsStand'
  BY <1>1, <1>2, <1>3 DEF EvidenceInvariant, EvidenceTypeOK, CommandsStand
<1> QED
  BY <1>1, <1>4, RowsStay DEF EvidenceInvariant

-----------------------------------------------------------------------------
(* A start.                                                                 *)

LEMMA EffectStartKeeps ==
    ASSUME EvidenceInvariant, NEW b \in EvidenceAttempts, StartEffect(b)
    PROVE  EvidenceInvariant'
<1> DEFINE intent == [graph |-> planned, products |-> Contracts[planned]]
           state == StartedState(holder.fence, intent)
           n == Len(eventLog) + 1
           e == Event(b, state, NoEvidence)
           row == [state |-> state, original |-> n, latest |-> n]
           pinned == [original |-> n, intent |-> intent]
<1>1. /\ eventLog' = Append(eventLog, e)
      /\ Absent(intentRow[b]) /\ intentRow' = [intentRow EXCEPT ![b] = pinned]
      /\ Absent(attemptRow[b]) /\ attemptRow' = [attemptRow EXCEPT ![b] = row]
      /\ UNCHANGED <<observationRows, outcomeRow, holder, authorityRow, planned, folds, lastFold>>
  BY DEF StartEffect, InsertIntent, InsertAttempt
<1>2. IsLog(eventLog) /\ IsLog(observationRows) /\ EvidenceTypeOK /\ EffectsStand
      /\ CommandsStand /\ MembersApart /\ LastAnswered
  BY DEF EvidenceInvariant
<1>3. intent \in EffectIntents
  BY <1>2 DEF EvidenceTypeOK, EffectIntents
<1>4. state \in EffectStates /\ state.status = "started" /\ state.fence = holder.fence
      /\ state.request = intent /\ state = StartedState(state.fence, state.request)
  BY <1>3, FencesTyped DEF StartedState, EffectStates
<1> HIDE DEF intent, state
<1>5. n \in Nat
  BY <1>2 DEF IsLog
<1>6. row \in AttemptRows /\ pinned \in IntentRows
  BY <1>3, <1>4, <1>5 DEF AttemptRows, IntentRows
<1>7. /\ row.state = state /\ row.original = n /\ row.latest = n
      /\ pinned.original = n /\ pinned.intent = intent
  OBVIOUS
<1>8. e.failure = NoEvidence
  BY DEF Event
<1> HIDE DEF e, row, pinned
<1>9. /\ attemptRow' \in [EvidenceAttempts -> AttemptRows \cup {NoEvidence}]
      /\ intentRow' \in [EvidenceAttempts -> IntentRows \cup {NoEvidence}]
      /\ attemptRow'[b] = row /\ intentRow'[b] = pinned
      /\ \A a \in EvidenceAttempts : a # b =>
            attemptRow'[a] = attemptRow[a] /\ intentRow'[a] = intentRow[a]
  BY <1>1, <1>2, <1>6 DEF EvidenceTypeOK
<1>10. EvidenceTypeOK'
  BY <1>1, <1>2, <1>9 DEF EvidenceTypeOK
<1>11. /\ IsLog(eventLog') /\ n \in DOMAIN eventLog' /\ eventLog'[n] = e
       /\ Grows(eventLog, eventLog')
  BY <1>1, <1>2, <1>5, Appended DEF Grows
<1>12. Grows(observationRows, observationRows')
  BY <1>1 DEF Grows
<1>13. ~Absent(attemptRow'[b]) /\ ~Absent(intentRow'[b])
  BY <1>6, <1>9, NoEvidenceAssumption DEF Absent
<1>14. Absent(outcomeRow[b])
  BY <1>1, <1>2 DEF EffectsStand
<1>15. EffectStands(b)'
  <2>1. n \in DOMAIN eventLog' /\ eventLog'[n] = Event(b, state, eventLog'[n].failure)
    BY <1>8, <1>11 DEF e
  <2>2. AttemptValid(b, attemptRow[b])'
    BY <2>1, <1>4, <1>7, <1>9 DEF AttemptValid, CommitsTo
  <2>3. IntentValid(b)'
    BY <1>4, <1>7, <1>9, <1>13 DEF IntentValid
  <2> QED
    BY <2>2, <2>3, <1>1, <1>4, <1>7, <1>9, <1>14 DEF EffectStands
<1>16. EffectsStand'
  <2> SUFFICES ASSUME NEW a \in EvidenceAttempts
               PROVE  (IF Absent(attemptRow[a]) THEN Absent(outcomeRow[a])
                       ELSE EffectStands(a))'
    BY DEF EffectsStand
  <2>1. CASE a = b
    BY <2>1, <1>13, <1>15
  <2>2. CASE a # b /\ Absent(attemptRow[a])
    BY <2>2, <1>1, <1>2, <1>9 DEF EffectsStand
  <2>3. CASE a # b /\ ~Absent(attemptRow[a])
    <3>1. EffectStands(a)
      BY <2>3, <1>2 DEF EffectsStand
    <3>2. EffectStands(a)'
      BY <2>3, <3>1, <1>1, <1>9, <1>11, <1>12, EffectStays
    <3> QED
      BY <2>3, <3>2, <1>9
  <2> QED
    BY <2>1, <2>2, <2>3
<1>17. CommandsStand'
  <2>1. \A c \in folds : c.attempt \in EvidenceAttempts
    BY <1>2 DEF EvidenceTypeOK
  <2> QED
    BY <2>1, <1>1, <1>2, <1>9, <1>13 DEF CommandsStand
<1>18. MembersApart'
  BY <1>1, <1>2 DEF MembersApart, Owns
<1>19. LastAnswered'
  BY <1>1, <1>2, <1>9, <1>13 DEF LastAnswered, Reconstructed
<1> QED
  BY <1>1, <1>2, <1>10, <1>11, <1>16, <1>17, <1>18, <1>19 DEF EvidenceInvariant

-----------------------------------------------------------------------------
(* A new fold.                                                              *)

\* What every new fold does to its attempt.
LEMMA FoldMoves ==
    ASSUME EvidenceInvariant, NEW c \in folds, FoldNew(c)
    PROVE  LET a == c.attempt
               n == Len(eventLog) + 1
               row == [state |-> Becomes(c), original |-> attemptRow[a].original, latest |-> n]
               e == Event(a, Becomes(c), FailureOfFold(c))
           IN  /\ a \in EvidenceAttempts /\ ~Absent(attemptRow[a]) /\ EffectStands(a)
               /\ n \in Nat /\ attemptRow[a].original < n
               /\ IsLog(eventLog') /\ Grows(eventLog, eventLog')
               /\ n \in DOMAIN eventLog' /\ eventLog'[n] = e
               /\ attemptRow' = [attemptRow EXCEPT ![a] = row]
               /\ UNCHANGED <<intentRow, holder, authorityRow, planned, folds>>
               /\ Follows(c) /\ IntentValid(a)
<1> DEFINE a == c.attempt
           n == Len(eventLog) + 1
           row == [state |-> Becomes(c), original |-> attemptRow[a].original, latest |-> n]
           e == Event(a, Becomes(c), FailureOfFold(c))
<1>1. a \in EvidenceAttempts /\ ~Absent(attemptRow[a])
  BY DEF EvidenceInvariant, EvidenceTypeOK, CommandsStand
<1>2. EffectStands(a)
  BY <1>1 DEF EvidenceInvariant, EffectsStand
<1>3. row.state = Becomes(c)
  OBVIOUS
<1>4. /\ eventLog' = Append(eventLog, e) /\ attemptRow' = [attemptRow EXCEPT ![a] = row]
      /\ UNCHANGED <<intentRow, holder, authorityRow, planned, folds>>
      /\ Follows(c) /\ IntentValid(a)
  BY <1>3 DEF FoldNew, CompareAndSet, IsNew
<1>5. IsLog(eventLog) /\ n \in Nat
  BY DEF EvidenceInvariant, IsLog
<1>6. /\ IsLog(eventLog') /\ n \in DOMAIN eventLog' /\ eventLog'[n] = e
      /\ Grows(eventLog, eventLog') /\ DOMAIN eventLog = 1..Len(eventLog)
  BY <1>4, <1>5, Appended DEF Grows
<1>7. attemptRow[a].original \in DOMAIN eventLog
  BY <1>2 DEF EffectStands, AttemptValid, CommitsTo
<1>8. attemptRow[a].original < n
  BY <1>5, <1>6, <1>7
<1> QED
  BY <1>1, <1>2, <1>4, <1>5, <1>6, <1>8

\* An attempt that moves on within its start stays valid.
LEMMA MovedOn ==
    ASSUME NEW a, NEW n, NEW s, NEW f, AttemptValid(a, attemptRow[a]), IntentValid(a),
           attemptRow'[a].state = s, attemptRow'[a].latest = n,
           attemptRow'[a].original = attemptRow[a].original, n > attemptRow[a].original,
           s.fence = attemptRow[a].state.fence, s.request = attemptRow[a].state.request,
           s.status # "started", intentRow' = intentRow, Grows(eventLog, eventLog'),
           n \in DOMAIN eventLog', eventLog'[n] = Event(a, s, f)
    PROVE  AttemptValid(a, attemptRow[a])' /\ IntentValid(a)'
<1> DEFINE m == attemptRow[a].original
           start == StartedState(s.fence, s.request)
<1>1. CommitsTo(m, a, start)
  BY DEF AttemptValid
<1>2. m \in DOMAIN eventLog' /\ eventLog'[m] = Event(a, start, eventLog'[m].failure)
  BY <1>1 DEF CommitsTo, Grows
<1>3. eventLog'[n] = Event(a, s, eventLog'[n].failure)
  BY DEF Event
<1>4. IntentValid(a)'
  BY DEF IntentValid
<1> QED
  BY <1>2, <1>3, <1>4 DEF AttemptValid, CommitsTo

\* The effects beside the one that moves.
LEMMA OthersStand ==
    ASSUME EvidenceInvariant, NEW a \in EvidenceAttempts,
           \A b \in EvidenceAttempts : b # a =>
               attemptRow'[b] = attemptRow[b] /\ outcomeRow'[b] = outcomeRow[b],
           intentRow' = intentRow, folds' = folds, Grows(eventLog, eventLog'),
           Grows(observationRows, observationRows'),
           ~Absent(attemptRow'[a]), EffectStands(a)'
    PROVE  EffectsStand'
<1> SUFFICES ASSUME NEW b \in EvidenceAttempts
             PROVE  (IF Absent(attemptRow[b]) THEN Absent(outcomeRow[b])
                     ELSE EffectStands(b))'
  BY DEF EffectsStand
<1>1. CASE b = a
  BY <1>1
<1>2. CASE b # a /\ Absent(attemptRow[b])
  BY <1>2 DEF EvidenceInvariant, EffectsStand
<1>3. CASE b # a /\ ~Absent(attemptRow[b])
  <2>1. EffectStands(b)
    BY <1>3 DEF EvidenceInvariant, EffectsStand
  <2>2. EffectStands(b)'
    BY <1>3, <2>1, EffectStays
  <2> QED
    BY <1>3, <2>2
<1> QED
  BY <1>1, <1>2, <1>3

\* The attempt after a new fold.
LEMMA FoldAdvances ==
    ASSUME EvidenceInvariant, NEW c \in folds, FoldNew(c), Becomes(c) \in EffectStates,
           Becomes(c).fence = attemptRow[c.attempt].state.fence,
           Becomes(c).request = attemptRow[c.attempt].state.request,
           Becomes(c).status # "started"
    PROVE  LET a == c.attempt
               n == Len(eventLog) + 1
           IN  /\ attemptRow' \in [EvidenceAttempts -> AttemptRows \cup {NoEvidence}]
               /\ attemptRow'[a].state = Becomes(c) /\ attemptRow'[a].latest = n
               /\ attemptRow'[a].original = attemptRow[a].original
               /\ ~Absent(attemptRow'[a])
               /\ \A b \in EvidenceAttempts : b # a => attemptRow'[b] = attemptRow[b]
               /\ AttemptValid(a, attemptRow[a])' /\ IntentValid(a)' /\ CommandsStand'
<1> DEFINE a == c.attempt
           n == Len(eventLog) + 1
           next == Becomes(c)
           row == [state |-> next, original |-> attemptRow[a].original, latest |-> n]
           f == FailureOfFold(c)
<1>1. /\ a \in EvidenceAttempts /\ ~Absent(attemptRow[a]) /\ EffectStands(a)
      /\ n \in Nat /\ attemptRow[a].original < n
      /\ Grows(eventLog, eventLog') /\ n \in DOMAIN eventLog' /\ eventLog'[n] = Event(a, next, f)
      /\ attemptRow' = [attemptRow EXCEPT ![a] = row]
      /\ UNCHANGED <<intentRow, folds>>
  BY FoldMoves
<1>2. attemptRow[a].original \in Nat
  BY <1>1, FencesTyped
<1> HIDE DEF n, next, f
<1>3. row \in AttemptRows /\ row.state = next /\ row.latest = n
      /\ row.original = attemptRow[a].original
  BY <1>1, <1>2 DEF AttemptRows, next
<1> HIDE DEF row
<1>4. attemptRow \in [EvidenceAttempts -> AttemptRows \cup {NoEvidence}]
  BY DEF EvidenceInvariant, EvidenceTypeOK
<1>5. /\ attemptRow' \in [EvidenceAttempts -> AttemptRows \cup {NoEvidence}]
      /\ attemptRow'[a] = row
      /\ \A b \in EvidenceAttempts : b # a => attemptRow'[b] = attemptRow[b]
  BY <1>1, <1>3, <1>4
<1>6. ~Absent(attemptRow'[a])
  BY <1>3, <1>5, NoEvidenceAssumption DEF Absent
<1>7. AttemptValid(a, attemptRow[a])' /\ IntentValid(a)'
  <2>1. AttemptValid(a, attemptRow[a]) /\ IntentValid(a)
    BY <1>1 DEF EffectStands
  <2>2. /\ attemptRow'[a].state = next /\ attemptRow'[a].latest = n
        /\ attemptRow'[a].original = attemptRow[a].original /\ n > attemptRow[a].original
        /\ next.fence = attemptRow[a].state.fence /\ next.request = attemptRow[a].state.request
        /\ next.status # "started"
    BY <1>1, <1>2, <1>3, <1>5 DEF next, n
  <2> QED
    BY <1>1, <2>1, <2>2, MovedOn
<1>8. CommandsStand'
  <2>1. \A b \in folds : b.attempt \in EvidenceAttempts
    BY DEF EvidenceInvariant, EvidenceTypeOK
  <2> QED
    BY <1>1, <1>5, <1>6, <2>1 DEF EvidenceInvariant, CommandsStand
<1> QED
  BY <1>3, <1>5, <1>6, <1>7, <1>8 DEF next, n

\* A decision about an uncertain effect leaves its outcome as it is.
LEMMA DecisionKeeps ==
    ASSUME EvidenceInvariant, NEW c \in folds, FoldNew(c), c.value = NoEvidence,
           c.decision \in ResolutionDecisions
    PROVE  EvidenceInvariant'
<1> DEFINE a == c.attempt
           d == c.decision
           s == attemptRow[a].state
           next == Becomes(c)
<1>1. ~Absent(d) /\ Absent(c.value)
  BY NoEvidenceAssumption DEF Absent
<1>2. /\ UNCHANGED <<observationRows, outcomeRow>>
      /\ lastFold' = [command |-> c, reply |-> "new", record |-> NoEvidence]
  BY <1>1 DEF FoldNew, Reply
<1>3. /\ a \in EvidenceAttempts /\ ~Absent(attemptRow[a]) /\ EffectStands(a)
      /\ IsLog(eventLog') /\ Grows(eventLog, eventLog') /\ Follows(c)
      /\ UNCHANGED <<intentRow, holder, authorityRow, planned, folds>>
  BY FoldMoves
<1>4. s.status = "uncertain"
  BY <1>1, <1>3 DEF Follows
<1>5. next = [status |-> d.resolution, fence |-> s.fence, request |-> s.request,
              fingerprint |-> d, decision |-> d]
  BY <1>1 DEF Becomes
<1>6. d.resolution \in {"succeeded", "failed", "abandoned"}
  BY DEF ResolutionDecisions, Resolutions
<1>7. s.fence \in EvidenceFences /\ s.request \in EffectIntents
  BY <1>3, FencesTyped
<1>8. /\ next \in EffectStates /\ next.fence = s.fence /\ next.request = s.request
      /\ next.status \notin {"started", "uncertain"} /\ next.decision = d
  BY <1>5, <1>6, <1>7 DEF EffectStates
<1> HIDE DEF next
<1>9. /\ attemptRow' \in [EvidenceAttempts -> AttemptRows \cup {NoEvidence}]
      /\ attemptRow'[a].state = next /\ attemptRow'[a].original = attemptRow[a].original
      /\ ~Absent(attemptRow'[a])
      /\ \A b \in EvidenceAttempts : b # a => attemptRow'[b] = attemptRow[b]
      /\ AttemptValid(a, attemptRow[a])' /\ IntentValid(a)' /\ CommandsStand'
  BY <1>8, FoldAdvances DEF next
<1>10. Grows(observationRows, observationRows')
  BY <1>2 DEF Grows
<1>11. Answered(a)'
  <2>1. Answered(a)
    BY <1>3, <1>4 DEF EffectStands
  <2>2. PICK v \in GivenAnswers :
          WellFormed(v) /\ Recorded(a, v) /\ \E b \in folds : b.attempt = a /\ b.value = v
    BY <2>1 DEF Answered
  <2>3. outcomeRow[a].state.status = "uncertain"
    BY <1>4, <2>2 DEF Recorded
  <2>4. SettledState(v, attemptRow'[a].state) = SettledState(v, attemptRow[a].state)
    BY <1>8, <1>9 DEF SettledState
  <2>5. Recorded(a, v)'
    BY <1>1, <1>2, <1>3, <1>8, <1>9, <1>10, <2>2, <2>3, <2>4, RecordedStays
  <2> QED
    BY <1>3, <2>2, <2>5 DEF Answered
<1>12. ~Absent(outcomeRow[a])
  BY <1>3, <1>4 DEF EffectStands
<1>13. EffectStands(a)'
  BY <1>2, <1>8, <1>9, <1>11, <1>12 DEF EffectStands
<1>14. EffectsStand'
  BY <1>2, <1>3, <1>9, <1>10, <1>13, OthersStand
<1>15. EvidenceTypeOK'
  BY <1>2, <1>3, <1>9 DEF EvidenceInvariant, EvidenceTypeOK
<1>16. MembersApart' /\ IsLog(observationRows)'
  BY <1>2 DEF EvidenceInvariant, MembersApart, Owns
<1>17. LastAnswered'
  BY <1>1, <1>2 DEF LastAnswered
<1> QED
  BY <1>3, <1>9, <1>14, <1>15, <1>16, <1>17 DEF EvidenceInvariant

\* An outcome owns rows that there are.
LEMMA OwnedExist ==
    ASSUME EvidenceInvariant, NEW a \in EvidenceAttempts, NEW k, Owns(a, k)
    PROVE  k \in DOMAIN observationRows
<1>1. EffectStands(a) /\ ~Absent(outcomeRow[a])
  BY DEF EvidenceInvariant, EffectsStand, Owns
<1>2. Answered(a)
  BY <1>1 DEF EffectStands
<1>3. PICK v \in GivenAnswers : Recorded(a, v)
  BY <1>2 DEF Answered
<1>4. \A m \in DOMAIN outcomeRow[a].members : outcomeRow[a].members[m] \in DOMAIN observationRows
  BY <1>3 DEF Recorded
<1> QED
  BY <1>4 DEF Owns

\* The rows that the fold of an answer stores.
LEMMA AnswerStored ==
    ASSUME EvidenceInvariant, NEW c \in folds, FoldNew(c), c.value \in GivenAnswers
    PROVE  LET a == c.attempt
               v == c.value
               n == Len(eventLog) + 1
               base == Len(observationRows)
               seen == v.observations
               stored == outcomeRow'[a]
           IN  /\ v \in EffectAnswers /\ WellFormed(v) /\ Projectable(a, v) /\ Absent(outcomeRow[a])
               /\ IsLog(observationRows') /\ Grows(observationRows, observationRows')
               /\ base \in Nat /\ DOMAIN observationRows = 1..base
               /\ DOMAIN observationRows' = 1..(base + Len(seen))
               /\ Len(seen) \in Nat /\ DOMAIN seen = 1..Len(seen)
               /\ \A k \in DOMAIN seen :
                    observationRows'[base + k] = ObservationOf(a, ContractOf(a), seen[k], n)
               /\ \A b \in EvidenceAttempts : b # a => outcomeRow'[b] = outcomeRow[b]
               /\ stored.preimage = Encode(v) /\ stored.state = Becomes(c)
               /\ stored.original = attemptRow[a].original /\ stored.direct = n
               /\ stored.members = [k \in DOMAIN seen |-> base + k]
               /\ Becomes(c) \in EffectStates =>
                    stored \in OutcomeRows
                    /\ outcomeRow' \in [EvidenceAttempts -> OutcomeRows \cup {NoEvidence}]
               /\ lastFold' =
                    [command |-> c, reply |-> "new",
                     record |-> Record(v, [state |-> Becomes(c), original |-> attemptRow[a].original,
                                           latest |-> n], ProjectedRows(a, v, n))]
<1> DEFINE a == c.attempt
           v == c.value
           n == Len(eventLog) + 1
           base == Len(observationRows)
           seen == v.observations
           next == Becomes(c)
           attempt == [state |-> next, original |-> attemptRow[a].original, latest |-> n]
           made == ProjectedRows(a, v, n)
           r == Record(v, attempt, made)
           members == [k \in DOMAIN seen |-> base + k]
           new == [preimage |-> Encode(v), state |-> next, original |-> attemptRow[a].original,
                   direct |-> n, members |-> members]
<1>1. v \in EffectAnswers /\ ~Absent(v)
  BY AnswersAssumption, NoEvidenceAssumption DEF Absent
<1>2. WellFormed(v)
  BY <1>1 DEF EvidenceInvariant, CommandsStand
<1>3. Projectable(a, v) /\ InsertOutcome(a, r)
      /\ lastFold' = [command |-> c, reply |-> "new", record |-> r]
  BY <1>1 DEF FoldNew, IsNew, Reply
<1>4. Len(seen) \in Nat /\ DOMAIN seen = 1..Len(seen)
  BY <1>1, AnswerShape
<1>5. /\ made = [k \in 1..Len(seen) |-> made[k]] /\ DOMAIN made = DOMAIN seen
      /\ \A k \in DOMAIN seen : made[k] = ObservationOf(a, ContractOf(a), seen[k], n)
  BY <1>4 DEF ProjectedRows
<1>6. IsLog(made) /\ Len(made) = Len(seen)
  BY <1>4, <1>5, LogOf
<1>7. /\ r.value = v /\ r.attempt = attempt /\ r.observations = made
      /\ attempt.state = next /\ attempt.original = attemptRow[a].original /\ attempt.latest = n
  BY DEF Record
<1> HIDE DEF made, attempt, r, next, n
<1>8. /\ Absent(outcomeRow[a]) /\ observationRows' = observationRows \o made
      /\ outcomeRow' = [outcomeRow EXCEPT ![a] =
             [preimage |-> Encode(v), state |-> next, original |-> attemptRow[a].original,
              direct |-> n, members |-> [k \in DOMAIN made |-> base + k]]]
  BY <1>3, <1>7 DEF InsertOutcome
<1>9. outcomeRow' = [outcomeRow EXCEPT ![a] = new]
  BY <1>5, <1>8
<1>10. IsLog(observationRows)
  BY DEF EvidenceInvariant
<1>11. base \in Nat
  BY <1>10 DEF IsLog
<1>12. /\ IsLog(observationRows') /\ Grows(observationRows, observationRows')
       /\ DOMAIN observationRows = 1..base /\ DOMAIN observationRows' = 1..(base + Len(seen))
       /\ \A k \in DOMAIN made : observationRows'[base + k] = made[k]
  <2>1. Joins(observationRows, made, observationRows \o made)
    BY <1>6, <1>10, Concatenated
  <2>2. Joins(observationRows, made, observationRows')
    BY <1>8, <2>1, Zenon
  <2> QED
    BY <1>4, <1>5, <1>6, <1>11, <2>2 DEF Grows, Joins
<1>13. members \in Seq(Nat)
  <2>1. \A k \in 1..Len(seen) : base + k \in Nat
    BY <1>4, <1>11
  <2>2. members \in [1..Len(seen) -> Nat]
    BY <1>4, <2>1
  <2> QED
    BY <1>4, <2>2
<1>14. n \in Nat /\ attemptRow[a].original \in Nat /\ a \in EvidenceAttempts
  <2>1. a \in EvidenceAttempts /\ ~Absent(attemptRow[a]) /\ n \in Nat
    BY FoldMoves DEF n
  <2> QED
    BY <2>1, FencesTyped
<1>15. outcomeRow \in [EvidenceAttempts -> OutcomeRows \cup {NoEvidence}]
  BY DEF EvidenceInvariant, EvidenceTypeOK
<1> HIDE DEF members
<1>16. next \in EffectStates => new \in OutcomeRows
  BY <1>13, <1>14 DEF OutcomeRows
<1>17. /\ new.preimage = Encode(v) /\ new.state = next
       /\ new.original = attemptRow[a].original /\ new.direct = n /\ new.members = members
  OBVIOUS
<1> HIDE DEF new
<1>18. /\ outcomeRow'[a] = new
       /\ \A b \in EvidenceAttempts : b # a => outcomeRow'[b] = outcomeRow[b]
       /\ new \in OutcomeRows => outcomeRow' \in [EvidenceAttempts -> OutcomeRows \cup {NoEvidence}]
  BY <1>9, <1>14, <1>15
<1>19. \A k \in DOMAIN seen :
          observationRows'[base + k] = ObservationOf(a, ContractOf(a), seen[k], n)
  BY <1>5, <1>12
<1> QED
  BY <1>1, <1>2, <1>3, <1>4, <1>8, <1>11, <1>12, <1>16, <1>17, <1>18, <1>19
  DEF members, n, next, r, made, attempt

\* The rows that an answer's outcome takes are new, and nobody else's.
LEMMA TakenApart ==
    ASSUME EvidenceInvariant, NEW a \in EvidenceAttempts, NEW base \in Nat, NEW m \in Nat,
           Absent(outcomeRow[a]), ~Absent(outcomeRow'[a]),
           DOMAIN observationRows = 1..base, DOMAIN observationRows' = 1..(base + m),
           outcomeRow'[a].members = [k \in 1..m |-> base + k],
           \A b \in EvidenceAttempts : b # a => outcomeRow'[b] = outcomeRow[b]
    PROVE  MembersApart'
<1>1. \A k : Owns(a, k)' <=> \E j \in 1..m : base + j = k
  BY DEF Owns
<1>2. \A b \in EvidenceAttempts : \A k : b # a => (Owns(b, k)' <=> Owns(b, k))
  BY DEF Owns
<1>3. \A b \in EvidenceAttempts : \A k : Owns(b, k) => k \in 1..base /\ b # a
  <2>1. \A b \in EvidenceAttempts : \A k : Owns(b, k) => k \in 1..base
    BY OwnedExist
  <2> QED
    BY <2>1 DEF Owns
<1>4. ASSUME NEW k \in DOMAIN observationRows'
      PROVE  \E b \in EvidenceAttempts : Owns(b, k)'
  <2>1. k \in 1..base \/ \E j \in 1..m : base + j = k
    <3>1. k \in 1..(base + m)
      BY <1>4
    <3>2. k > base => (k - base) \in 1..m /\ base + (k - base) = k
      BY <3>1
    <3> QED
      BY <3>1, <3>2
  <2>2. CASE k \in 1..base
    <3>1. PICK b \in EvidenceAttempts : Owns(b, k)
      BY <2>2 DEF EvidenceInvariant, MembersApart
    <3> QED
      BY <3>1, <1>2, <1>3
  <2>3. CASE \E j \in 1..m : base + j = k
    BY <2>3, <1>1
  <2> QED
    BY <2>1, <2>2, <2>3
<1>5. ASSUME NEW x \in EvidenceAttempts, NEW y \in EvidenceAttempts, NEW k,
             Owns(x, k)', Owns(y, k)'
      PROVE  x = y
  <2>1. CASE x = a /\ y = a
    BY <2>1
  <2>2. CASE x # a /\ y # a
    BY <1>2, <1>3, <1>5, <2>2 DEF EvidenceInvariant, MembersApart
  <2>3. ASSUME NEW z \in EvidenceAttempts, z # a, Owns(z, k)', Owns(a, k)' PROVE FALSE
    <3>1. k \in 1..base
      BY <1>2, <1>3, <2>3
    <3>2. PICK j \in 1..m : base + j = k
      BY <1>1, <2>3
    <3> QED
      BY <3>1, <3>2
  <2> QED
    BY <1>5, <2>1, <2>2, <2>3
<1> QED
  BY <1>4, <1>5 DEF MembersApart

\* The first fold of an answer: it settles the effect and stores its outcome.
LEMMA AnswerKeeps ==
    ASSUME EvidenceInvariant, NEW c \in folds, FoldNew(c), c.value \in GivenAnswers,
           c.decision = NoEvidence
    PROVE  EvidenceInvariant'
<1> DEFINE a == c.attempt
           v == c.value
           n == Len(eventLog) + 1
           base == Len(observationRows)
           seen == v.observations
           s == attemptRow[a].state
           next == Becomes(c)
           stored == outcomeRow'[a]
<1>1. /\ a \in EvidenceAttempts /\ ~Absent(attemptRow[a]) /\ EffectStands(a)
      /\ n \in Nat /\ attemptRow[a].original < n
      /\ IsLog(eventLog') /\ Grows(eventLog, eventLog')
      /\ n \in DOMAIN eventLog' /\ eventLog'[n] = Event(a, next, FailureOfFold(c))
      /\ UNCHANGED <<intentRow, holder, authorityRow, planned, folds>>
      /\ Follows(c) /\ IntentValid(a)
  BY FoldMoves
<1>2. /\ v \in EffectAnswers /\ WellFormed(v) /\ Projectable(a, v) /\ Absent(outcomeRow[a])
      /\ IsLog(observationRows') /\ Grows(observationRows, observationRows')
      /\ base \in Nat /\ DOMAIN observationRows = 1..base
      /\ DOMAIN observationRows' = 1..(base + Len(seen))
      /\ Len(seen) \in Nat /\ DOMAIN seen = 1..Len(seen)
      /\ \A k \in DOMAIN seen :
           observationRows'[base + k] = ObservationOf(a, ContractOf(a), seen[k], n)
      /\ \A b \in EvidenceAttempts : b # a => outcomeRow'[b] = outcomeRow[b]
      /\ stored.preimage = Encode(v) /\ stored.state = next
      /\ stored.original = attemptRow[a].original /\ stored.direct = n
      /\ stored.members = [k \in DOMAIN seen |-> base + k]
      /\ next \in EffectStates =>
           stored \in OutcomeRows
           /\ outcomeRow' \in [EvidenceAttempts -> OutcomeRows \cup {NoEvidence}]
      /\ lastFold' =
           [command |-> c, reply |-> "new",
            record |-> Record(v, [state |-> next, original |-> attemptRow[a].original,
                                  latest |-> n], ProjectedRows(a, v, n))]
  BY AnswerStored
<1>3. Absent(c.decision)
  BY DEF Absent
<1>4. s.status = "started" /\ s = StartedState(s.fence, s.request)
  BY <1>1, <1>3 DEF Follows, EffectStands
<1>5. s.decision = NoEvidence
  BY <1>4 DEF StartedState
<1>6. next = SettledState(v, s)
  BY <1>3, <1>5 DEF Becomes, SettledState
<1>7. FailureOfFold(c) = FailureOf(v)
  BY <1>3 DEF FailureOfFold
<1>8. s.fence \in EvidenceFences /\ s.request \in EffectIntents
  BY <1>1, FencesTyped
<1>9. RowOf(v).status \in {"succeeded", "failed", "unsupported", "uncertain"}
  BY <1>2, RowStatus
<1>10. /\ next \in EffectStates /\ next.fence = s.fence /\ next.request = s.request
       /\ next.status # "started" /\ next.decision = NoEvidence
  BY <1>6, <1>8, <1>9 DEF EffectStates, SettledState, EvidenceDigest
<1>11. next = SettledState(v, next)
  BY <1>6, <1>10 DEF SettledState
<1> HIDE DEF next
<1>12. /\ attemptRow' \in [EvidenceAttempts -> AttemptRows \cup {NoEvidence}]
       /\ attemptRow'[a].state = next /\ attemptRow'[a].latest = n
       /\ attemptRow'[a].original = attemptRow[a].original
       /\ ~Absent(attemptRow'[a])
       /\ \A b \in EvidenceAttempts : b # a => attemptRow'[b] = attemptRow[b]
       /\ AttemptValid(a, attemptRow[a])' /\ IntentValid(a)' /\ CommandsStand'
  BY <1>10, FoldAdvances DEF next
<1>13. ~Absent(outcomeRow'[a])
  BY <1>2, <1>10, NoEvidenceAssumption DEF Absent
<1>14. ContractOf(a)' = ContractOf(a)
  BY <1>1 DEF ContractOf
<1> HIDE DEF n, base
<1>15. Recorded(a, v)'
  <2>1. Projectable(a, v)'
    BY <1>2, <1>14 DEF Projectable
  <2>2. \A k \in DOMAIN seen :
           /\ outcomeRow'[a].members[k] \in DOMAIN observationRows'
           /\ observationRows'[outcomeRow'[a].members[k]] =
                ObservationOf(a, ContractOf(a)', seen[k], n)
    <3> SUFFICES ASSUME NEW k \in DOMAIN seen
                 PROVE  /\ outcomeRow'[a].members[k] \in DOMAIN observationRows'
                        /\ observationRows'[outcomeRow'[a].members[k]] =
                             ObservationOf(a, ContractOf(a)', seen[k], n)
      OBVIOUS
    <3>1. outcomeRow'[a].members[k] = base + k
      BY <1>2
    <3>2. base + k \in DOMAIN observationRows'
      BY <1>2
    <3> QED
      BY <1>2, <1>14, <3>1, <3>2
  <2>3. DOMAIN outcomeRow'[a].members = DOMAIN seen
    BY <1>2
  <2>4. n \in DOMAIN eventLog' /\ eventLog'[n] = Event(a, next, FailureOf(v))
    BY <1>1, <1>7
  <2>5. outcomeRow'[a].state = SettledState(v, attemptRow'[a].state)
    BY <1>2, <1>11, <1>12
  <2>6. n > attemptRow[a].original
    BY <1>1, FencesTyped
  <2>7. Absent(attemptRow'[a].state.decision)
    BY <1>10, <1>12 DEF Absent
  <2> QED
    BY <1>2, <1>12, <2>1, <2>2, <2>3, <2>4, <2>5, <2>6, <2>7 DEF Recorded
<1>16. EffectStands(a)'
  <2>1. Answered(a)'
    BY <1>1, <1>2, <1>15 DEF Answered
  <2> QED
    BY <1>10, <1>12, <1>13, <2>1 DEF EffectStands
<1>17. EffectsStand'
  BY <1>1, <1>2, <1>12, <1>16, OthersStand
<1>18. EvidenceTypeOK'
  BY <1>1, <1>2, <1>10, <1>12 DEF EvidenceInvariant, EvidenceTypeOK
<1>19. MembersApart'
  <2> DEFINE m == Len(seen)
  <2>1. outcomeRow'[a].members = [k \in 1..m |-> base + k] /\ m \in Nat /\ base \in Nat
        /\ DOMAIN observationRows = 1..base /\ DOMAIN observationRows' = 1..(base + m)
    BY <1>2
  <2>2. \A b \in EvidenceAttempts : b # a => outcomeRow'[b] = outcomeRow[b]
    BY <1>2
  <2> HIDE DEF m
  <2> QED
    BY <1>1, <1>2, <1>13, <2>1, <2>2, TakenApart
<1>20. LastAnswered'
  <2> DEFINE attempt == [state |-> next, original |-> attemptRow[a].original, latest |-> n]
  <2>1. \A k \in DOMAIN seen : observationRows'[outcomeRow'[a].members[k]] =
           ObservationOf(a, ContractOf(a), seen[k], outcomeRow'[a].direct)
    BY <1>2, <1>14, <1>15 DEF Recorded
  <2>2. DOMAIN outcomeRow'[a].members = DOMAIN seen
    BY <1>2
  <2>3. Reconstructed(a)' = Record(v, attempt, ProjectedRows(a, v, n))
    <3> DEFINE new == outcomeRow'[a]
               rows == observationRows'
               contract == ContractOf(a)
               made == [k \in DOMAIN v.observations |->
                          ObservationOf(a, contract, v.observations[k], new.direct)]
    <3>1. Reconstructed(a)' =
            Record(Decode(new.preimage),
                   [state |-> new.state, original |-> new.original, latest |-> new.direct],
                   [k \in DOMAIN new.members |-> rows[new.members[k]]])
      BY DEF Reconstructed
    <3>2. /\ new.preimage = Encode(v) /\ DOMAIN new.members = DOMAIN v.observations
          /\ \A k \in DOMAIN v.observations : rows[new.members[k]] =
                ObservationOf(a, contract, v.observations[k], new.direct)
      BY <1>2, <2>1, <2>2
    <3>3. new.state = next /\ new.original = attemptRow[a].original /\ new.direct = n
      BY <1>2
    <3>4. ProjectedRows(a, v, new.direct) = made
      BY DEF ProjectedRows
    <3>7. v \in EffectAnswers
      BY <1>2
    <3> HIDE DEF new, rows, contract, made
    <3>5. Record(Decode(new.preimage),
                 [state |-> new.state, original |-> new.original, latest |-> new.direct],
                 [k \in DOMAIN new.members |-> rows[new.members[k]]])
          = Record(v, [state |-> new.state, original |-> new.original, latest |-> new.direct],
                   [k \in DOMAIN v.observations |->
                      ObservationOf(a, contract, v.observations[k], new.direct)])
      BY <3>2, <3>7, ReadsAs
    <3>6. Reconstructed(a)' =
            Record(v, [state |-> new.state, original |-> new.original, latest |-> new.direct],
                   made)
      BY <3>1, <3>5 DEF made
    <3> QED
      BY <3>3, <3>4, <3>6
  <2>4. lastFold'.command = c /\ lastFold'.record = Reconstructed(a)'
    BY <1>2, <2>3
  <2>5. lastFold'.record.value = v
    BY <2>3, <2>4 DEF Record
  <2> QED
    BY <1>1, <1>12, <1>13, <2>4, <2>5 DEF LastAnswered
<1> QED
  BY <1>1, <1>2, <1>12, <1>17, <1>18, <1>19, <1>20 DEF EvidenceInvariant

LEMMA EvidenceSteps ==
    ASSUME EvidenceInvariant, [EvidenceNext]_evars
    PROVE  EvidenceInvariant'
<1>1. CASE \E a \in EvidenceAttempts :
             StartEffect(a) \/ ProviderReturns(a) \/ Inspect(a) \/ ResolveUncertain(a)
  BY <1>1, EffectStartKeeps, CommandsForm
<1>2. ASSUME NEW c \in folds, FoldNew(c)
      PROVE  EvidenceInvariant'
  <2>1. \/ c.value \in GivenAnswers /\ c.decision = NoEvidence
        \/ c.value = NoEvidence /\ c.decision \in ResolutionDecisions
    BY DEF EvidenceInvariant, EvidenceTypeOK
  <2> QED
    BY <1>2, <2>1, AnswerKeeps, DecisionKeeps
<1>3. ASSUME NEW c \in folds, FoldAgain(c) \/ FoldRefused(c)
      PROVE  EvidenceInvariant'
  BY <1>3, AnsweredAgain
<1>4. CASE RotateHolder \/ HolderExpires \/ AuthorityChanges \/ GraphMoves \/ UNCHANGED evars
  BY <1>4, SurroundingsKeep
<1> QED
  BY <1>1, <1>2, <1>3, <1>4 DEF EvidenceNext

\* In every state of the evidence, for any answers, claims, authorities and
\* graphs: see EvidenceReadsBack (effect_attempt_fold_interpreter.py,
\* postgres/effect_outcome_store.py).
THEOREM EvidenceAlwaysReadsBack == EvidenceSpec => []EvidenceReadsBack
<1>1. EvidenceInit => EvidenceInvariant
  BY EvidenceStarts
<1>2. EvidenceInvariant /\ [EvidenceNext]_evars => EvidenceInvariant'
  BY EvidenceSteps
<1>3. EvidenceInvariant => EvidenceReadsBack
  BY EvidenceHolds
<1> QED
  BY <1>1, <1>2, <1>3, PTL DEF EvidenceSpec

=============================================================================
