---------------------- MODULE GatewayKeyRotationSafety ----------------------
(***************************************************************************)
(* Theorems about GatewayKeyRotation, for any keys, rotations, calls and   *)
(* probes.                                                                 *)
(*                                                                         *)
(* Three programs may hold an action of a rotation that has moved on or    *)
(* was blocked, so what a call may still do is stated per call (CallInv).  *)
(* Between rotations everything rests on the two realized projections: a   *)
(* child that has not succeeded pins both of them to its phase (GraphsInv),*)
(* and so at most one deployment can still reach the gateway.  What is said*)
(* of signers and grants rests on the drain: a key leaves the projections  *)
(* only when its deadline has passed, and the deadline covers its grants.  *)
(***************************************************************************)
EXTENDS GatewayKeyRotation, TLAPS

-----------------------------------------------------------------------------
(* Statuses from one of them on: a rotation only moves within each set.    *)
FromRevocation == {"revocation-prepared", "completed", "blocked"}
FromRetired == {"old-key-retired"} \cup FromRevocation
FromRetirementReady == {"retirement-ready"} \cup FromRetired
FromRetirement == {"retirement-deploying"} \cup FromRetirementReady
FromDraining == {"draining-old-grants"} \cup FromRetirement
FromOverlapReady == {"overlap-ready", "new-key-active"} \cup FromDraining
FromOverlap == {"overlap-deploying"} \cup FromOverlapReady
FromGenerated == {"key-generated"} \cup FromOverlap
FromGeneration == {"generation-prepared"} \cup FromGenerated
FromPrepared(ph) == IF ph = "overlap" THEN FromOverlap ELSE FromRetirement

GenerationSteps == {"generate", "submit", "admit", "fold-generated", "block-generation"}
DeploymentSteps == {"dispatch", "advance", "accept", "block-deployment"}
ActivationSteps == {"activate", "fold-active"}
RetirementSteps == {"retire", "fold-retired"}
RevocationSteps ==
    {"revoke", "match-revoked", "revoke-key", "fold-completed", "block-revocation"}

Status(r) == rot[r].status
Published(r, ph) == child[r][ph].state # "none"
Succeeded(r, ph) == child[r][ph].state = "succeeded"

\* Every key that a projection or the gateway knows.
KnownKeys == current \cup desired \cup gateway

\* A key that can never sign or verify again.
Gone(k) == keys[k] \in {"retired", "revoked"}

-----------------------------------------------------------------------------
(* The inductive invariant.                                                *)

\* A call under way works on a rotation.
TypeInv ==
    /\ RotationTypeOK
    /\ \A p \in Processes : ~At(p, "idle") => proc[p].r \in Rotations

OneRotates == \A r, s \in Rotations : Nonterminal(r) /\ Nonterminal(s) => r = s

\* How far the two children of a rotation are, against its status.
ChildrenInv ==
    \A r \in Rotations :
        /\ Published(r, "overlap") =>
              Status(r) \in FromGenerated /\ rot[r].old # NewKey[r]
        /\ Published(r, "retirement") =>
              Status(r) \in FromDraining /\ Succeeded(r, "overlap")
        /\ Status(r) \in FromOverlapReady \ {"blocked"} => Succeeded(r, "overlap")
        /\ Status(r) \in FromRetirementReady \ {"blocked"} => Succeeded(r, "retirement")

\* Published phases want different keys.
TargetsDiffer ==
    \A r, s \in Rotations, ph, qh \in Phases :
        Published(r, ph) /\ Published(s, qh) /\ Target(r, ph) = Target(s, qh) =>
            r = s /\ ph = qh

\* A child that has not succeeded pins the projections to its phase; one whose
\* effect was made has told the gateway what is desired.
ChildrenPin ==
    \A r \in Rotations, ph \in Phases :
        /\ Published(r, ph) /\ ~Succeeded(r, ph) =>
              desired = Target(r, ph) /\ current = Base(r, ph)
        /\ child[r][ph].state \in {"effected", "succeeded"} /\ desired = Target(r, ph) =>
              gateway = desired

\* Both keys are everywhere from the accepted overlap to the retirement's child.
OverlapHolds ==
    \A r \in Rotations :
        /\ Status(r) \in {"overlap-ready", "new-key-active", "draining-old-grants"}
        /\ ~Published(r, "retirement")
        => current = Target(r, "overlap") /\ desired = current

\* What a rotation will generate is new: not there before it, and no old key of
\* another one that was published first.
NewKeysAreNew ==
    /\ \A r \in Rotations : Status(r) = "none" => keys[NewKey[r]] = "absent"
    /\ \A r, s \in Rotations :
          /\ r # s /\ Published(r, "overlap")
          /\ ~Published(s, "overlap") /\ Status(s) \notin Terminal
          => rot[r].old # NewKey[s]

\* From retirement-ready on nothing knows the old key.
OldKeyWithdrawn ==
    \A r \in Rotations :
        Status(r) \in FromRetirementReady \ {"blocked"} => rot[r].old \notin KnownKeys

GraphsInv ==
    /\ gateway \in {current, desired}
    /\ TargetsDiffer /\ ChildrenPin /\ OverlapHolds /\ NewKeysAreNew /\ OldKeyWithdrawn

\* A version is revoked at the provider only for a key that is gone, and a key
\* is registered only when its version exists.
KeysInv ==
    /\ \A k \in Keys : /\ custody[k] = "revoked" => Gone(k)
                       /\ custody[k] = "absent" => keys[k] = "absent"
    /\ \A r \in Rotations :
          /\ Status(r) \in FromRetired \ {"blocked"} => Gone(rot[r].old)
          /\ Status(r) = "completed" =>
                keys[rot[r].old] = "revoked" /\ custody[rot[r].old] = "revoked"

\* What a call under way relies on, whatever has become of its rotation.
CallInv(c) ==
    /\ c.pc \in GenerationSteps => Status(c.r) \in FromGeneration
    /\ c.pc \in {"submit", "admit"} => custody[NewKey[c.r]] # "absent"
    /\ c.pc \in DeploymentSteps => Status(c.r) \in FromPrepared(c.ph)
    /\ c.pc = "dispatch" => child[c.r][c.ph].state = "dispatching"
    /\ c.pc = "accept" =>
          /\ Succeeded(c.r, c.ph)
          /\ Status(c.r) = PreparedStatus(c.ph) =>
                current = Target(c.r, c.ph) /\ desired = current
    /\ c.pc \in ActivationSteps =>
          Status(c.r) \in FromOverlapReady /\ Succeeded(c.r, "overlap")
    /\ c.pc \in RetirementSteps \cup RevocationSteps =>
          /\ Status(c.r) \in FromRetirementReady /\ Succeeded(c.r, "retirement")
          /\ rot[c.r].old \notin KnownKeys
    /\ c.pc \in {"fold-retired"} \cup RevocationSteps => Gone(rot[c.r].old)
    /\ c.pc \in RevocationSteps => Status(c.r) \in FromRevocation
    /\ c.pc \in {"match-revoked", "revoke-key", "fold-completed"} =>
          custody[rot[c.r].old] = "revoked"
    /\ c.pc = "fold-completed" => keys[rot[c.r].old] = "revoked"

CallsInv ==
    /\ \A p \in Processes : CallInv(proc[p])
    /\ \A p, q \in Processes :
          /\ At(p, "dispatch") /\ At(q, "dispatch")
          /\ proc[p].r = proc[q].r /\ proc[p].ph = proc[q].ph
          => p = q

RotationInv ==
    /\ TypeInv /\ OneRotates /\ ChildrenInv /\ GraphsInv /\ KeysInv /\ CallsInv

-----------------------------------------------------------------------------
(* Helpers.                                                                *)

\* Where a legal step leads: the one successor or blocked, never back.
LEMMA LegalMoves ==
    ASSUME NEW from, NEW to, to \in LegalTargets(from)
    PROVE  \/ <<from, to>> \in
                {<<"requested", "awaiting-approval">>,
                 <<"awaiting-approval", "approved">>, <<"awaiting-approval", "rejected">>,
                 <<"approved", "generation-prepared">>,
                 <<"generation-prepared", "key-generated">>,
                 <<"key-generated", "overlap-deploying">>,
                 <<"overlap-deploying", "overlap-ready">>,
                 <<"overlap-ready", "new-key-active">>,
                 <<"new-key-active", "draining-old-grants">>,
                 <<"draining-old-grants", "retirement-deploying">>,
                 <<"retirement-deploying", "retirement-ready">>,
                 <<"retirement-ready", "old-key-retired">>,
                 <<"old-key-retired", "revocation-prepared">>,
                 <<"revocation-prepared", "completed">>}
           \/ to = "blocked" /\ from \in (FromGeneration \cup {"approved"}) \ Terminal
<1>1. CASE from \in {"requested", "awaiting-approval"}
  BY <1>1 DEF LegalTargets
<1>2. CASE from \notin {"requested", "awaiting-approval"}
  <2>1. from \in DOMAIN Successor /\ to \in {Successor[from], "blocked"}
    BY <1>2 DEF LegalTargets
  <2>2. from \in {"approved", "generation-prepared", "key-generated",
            "overlap-deploying", "overlap-ready", "new-key-active",
            "draining-old-grants", "retirement-deploying", "retirement-ready",
            "old-key-retired", "revocation-prepared"}
    BY <2>1 DEF Successor
  <2>3. CASE to = "blocked"
    BY <2>2, <2>3 DEF Terminal, FromGeneration, FromGenerated, FromOverlap, FromOverlapReady,
       FromDraining, FromRetirement, FromRetirementReady, FromRetired, FromRevocation
  <2>4. CASE to = Successor[from]
    BY <2>2, <2>4 DEF Successor
  <2>5. QED
    BY <2>1, <2>3, <2>4
<1>3. QED
  BY <1>1, <1>2

\* The facts about the constants that every proof uses.
LEMMA Constants ==
    /\ \A r \in Rotations : NewKey[r] \in Keys
    /\ \A r, s \in Rotations : NewKey[r] = NewKey[s] => r = s
    /\ FirstKey \in Keys /\ NoRotation \notin Rotations
    /\ 0 \in 0 .. MaxFence /\ 1 \in 0 .. MaxFence /\ MaxFence \in Nat /\ MaxDirect \in Nat
    /\ ClockSkew \in Nat /\ \A x \in Lifetimes \cup {0} : x \in Nat
    /\ GrantLifetime \in Nat /\ MaxSkew \in Nat /\ MaxNow \in Nat
<1>1. /\ NewKey \in [Rotations -> Keys \ {FirstKey}]
      /\ \A r, s \in Rotations : NewKey[r] = NewKey[s] => r = s
      /\ Lifetimes \subseteq Nat /\ ClockSkew \in Nat /\ NoRotation \notin Rotations
  BY RotationAssumption
<1>2. 0 \in 0 .. MaxFence /\ 1 \in 0 .. MaxFence /\ MaxFence \in Nat /\ MaxDirect \in Nat
  BY RotationAssumption
<1>3. GrantLifetime \in Nat /\ MaxSkew \in Nat /\ MaxNow \in Nat
  BY ProbesAssumption
<1> QED
  BY <1>1, <1>2, <1>3, KeysAssumption

-----------------------------------------------------------------------------
(* The shapes of a step.                                                   *)

tables == <<keys, custody, gateway, current, desired, child, directs>>

ReplacedBy(r, to) == IF to = "new-key-active" THEN now ELSE rot[r].replaced

\* A rotation moves along its statuses; four of the moves are a call's.
Moves(r, to, d) ==
    /\ to \in LegalTargets(Status(r))
    /\ rot' = [rot EXCEPT ![r] = [rot[r] EXCEPT !.status = to, !.deadline = d,
                                     !.replaced = ReplacedBy(r, to)]]
    /\ to # "new-key-active" => d = rot[r].deadline
    /\ to \in {"overlap-ready", "retirement-ready"} =>
          \E p \in Processes :
             /\ At(p, "accept") /\ proc[p].r = r
             /\ Status(r) = PreparedStatus(proc[p].ph) /\ to = AcceptedStatus(proc[p].ph)
    /\ to = "new-key-active" =>
          /\ d = now + rot[r].life + ClockSkew
          /\ \E p \in Processes : At(p, "fold-active") /\ proc[p].r = r
    /\ to = "old-key-retired" =>
          \E p \in Processes : At(p, "fold-retired") /\ proc[p].r = r
    /\ to = "completed" =>
          \E p \in Processes : At(p, "fold-completed") /\ proc[p].r = r

Requested(r, old, life) ==
    /\ Status(r) = "none"
    /\ \A s \in Rotations : ~Nonterminal(s)
    /\ rot' = [rot EXCEPT ![r] =
                 [status |-> "requested", old |-> old, life |-> life,
                  replaced |-> 0, deadline |-> 0]]

RotStep ==
    /\ \/ \E r \in Rotations, to \in RotationStatuses, d \in Nat : Moves(r, to, d)
       \/ \E r \in Rotations, old \in Keys, life \in Lifetimes : Requested(r, old, life)
    /\ UNCHANGED <<tables, probes, now>>

\* A child moves, and nothing else does.
ChildStep ==
    /\ \E r \in Rotations, ph \in Phases, c \in ChildRecords :
          /\ child' = [child EXCEPT ![r] = [child[r] EXCEPT ![ph] = c]]
          /\ <<child[r][ph].state, c.state>> \in
                {<<"published", "admitted">>, <<"admitted", "running">>,
                 <<"running", "running">>, <<"effected", "effected">>,
                 <<"running", "dispatching">>, <<"effected", "succeeded">>,
                 <<"succeeded", "succeeded">>}
    /\ UNCHANGED <<keys, custody, gateway, current, desired, directs, rot, probes, now>>

\* A key changes at one of the key commands.
KeyStep ==
    /\ \/ \E p \in Processes : AdmitGenerated(p)
       \/ \E p \in Processes : At(p, "activate") /\ CanActivate(NewKey[proc[p].r])
                               /\ keys' = Activated(NewKey[proc[p].r])
       \/ \E p \in Processes : At(p, "retire") /\ CanRetire(rot[proc[p].r].old)
                               /\ keys' = Retired(rot[proc[p].r].old)
       \/ \E p \in Processes : RevokeOldKey(p)
       \/ \E k \in Keys : DirectKeyCommand(k)
    /\ UNCHANGED <<custody, gateway, current, desired, child, rot, probes, now>>
    /\ directs' >= directs

\* The provider changes a version.
CustodyStep ==
    /\ \/ \E p \in Processes : At(p, "generate") /\ custody' = Generated(NewKey[proc[p].r])
       \/ \E p \in Processes : At(p, "revoke") /\ custody' = VersionRevoked(rot[proc[p].r].old)
    /\ UNCHANGED <<keys, gateway, current, desired, child, directs, rot, probes, now>>

\* Probes and the clock, or a call that only moves on.
QuietStep == UNCHANGED <<tables, rot>>

Shapes ==
    \/ RotStep \/ ChildStep \/ KeyStep \/ CustodyStep \/ QuietStep
    \/ \E r \in Rotations, ph \in Phases : PublishProjection(r, ph)
    \/ \E p \in Processes : DispatchEffect(p)
    \/ \E p \in Processes : AdvanceCurrent(p)

\* A legal move by a step that only advances.
LEMMA AdvanceMoves ==
    ASSUME TypeInv, NEW r \in Rotations, NEW from, NEW to \in RotationStatuses,
           Advance(r, from, to), to \notin {"overlap-ready", "retirement-ready",
                "new-key-active", "old-key-retired", "completed"}
    PROVE  \E d \in Nat : Moves(r, to, d)
<1>1. rot \in [Rotations -> RotationRecords]
  BY DEF TypeInv, RotationTypeOK
<1>2. PICK d : d = rot[r].deadline
  OBVIOUS
<1>3. d \in Nat
  BY <1>1, <1>2 DEF RotationRecords
<1>4. rot' = [rot EXCEPT ![r] = [rot[r] EXCEPT !.status = to, !.deadline = d,
                                   !.replaced = ReplacedBy(r, to)]]
  BY <1>1, <1>2 DEF Advance, RotationRecords, ReplacedBy
<1> QED
  BY <1>2, <1>3, <1>4 DEF Moves, Advance, Status

\* The moves that a call folds.
LEMMA FoldMoves ==
    ASSUME TypeInv, NEW p \in Processes, NEW r, r = proc[p].r, ~At(p, "idle")
    PROVE  /\ At(p, "fold-retired") /\ Advance(r, "retirement-ready", "old-key-retired") =>
                 \E d \in Nat : Moves(r, "old-key-retired", d)
           /\ At(p, "fold-completed") /\ Advance(r, "revocation-prepared", "completed") =>
                 \E d \in Nat : Moves(r, "completed", d)
           /\ At(p, "accept") /\ Advance(r, PreparedStatus(proc[p].ph), AcceptedStatus(proc[p].ph)) =>
                 \E d \in Nat : Moves(r, AcceptedStatus(proc[p].ph), d)
           /\ At(p, "fold-active") /\ AdvanceWithDeadline(r) =>
                 \E d \in Nat : Moves(r, "new-key-active", d)
<1>1. r \in Rotations /\ rot \in [Rotations -> RotationRecords] /\ now \in Nat
  BY DEF TypeInv, RotationTypeOK, ProbesTypeOK
<1>2. PICK d : d = rot[r].deadline
  OBVIOUS
<1>3. d \in Nat /\ rot[r].life \in Nat
  <2>1. rot[r].deadline \in Nat /\ rot[r].life \in Lifetimes \cup {0}
    BY <1>1 DEF RotationRecords
  <2> QED
    BY <1>2, <2>1, Constants
<1>4. ASSUME NEW from, NEW to, Advance(r, from, to), to # "new-key-active"
      PROVE  /\ rot' = [rot EXCEPT ![r] = [rot[r] EXCEPT !.status = to, !.deadline = d,
                                              !.replaced = ReplacedBy(r, to)]]
             /\ to \in LegalTargets(Status(r)) /\ Status(r) = from
  BY <1>1, <1>2, <1>4 DEF Advance, RotationRecords, Status, ReplacedBy
<1>5. ASSUME At(p, "fold-retired"), Advance(r, "retirement-ready", "old-key-retired")
      PROVE  Moves(r, "old-key-retired", d)
  BY <1>2, <1>4, <1>5 DEF Moves
<1>6. ASSUME At(p, "fold-completed"), Advance(r, "revocation-prepared", "completed")
      PROVE  Moves(r, "completed", d)
  BY <1>2, <1>4, <1>6 DEF Moves
<1>7. ASSUME At(p, "accept"), Advance(r, PreparedStatus(proc[p].ph), AcceptedStatus(proc[p].ph))
      PROVE  Moves(r, AcceptedStatus(proc[p].ph), d)
  <2>1. AcceptedStatus(proc[p].ph) \in {"overlap-ready", "retirement-ready"}
    BY DEF AcceptedStatus
  <2> QED
    BY <1>2, <1>4, <1>7, <2>1 DEF Moves
<1>8. ASSUME At(p, "fold-active"), AdvanceWithDeadline(r)
      PROVE  Moves(r, "new-key-active", now + rot[r].life + ClockSkew)
  <2>1. "new-key-active" \in LegalTargets(Status(r))
    BY <1>8 DEF AdvanceWithDeadline, Status, LegalTargets, Successor
  <2>2. rot' = [rot EXCEPT ![r] = [rot[r] EXCEPT !.status = "new-key-active",
                                     !.deadline = now + rot[r].life + ClockSkew,
                                     !.replaced = ReplacedBy(r, "new-key-active")]]
    BY <1>1, <1>8 DEF AdvanceWithDeadline, RotationRecords, ReplacedBy
  <2> QED
    BY <1>8, <2>1, <2>2 DEF Moves
<1>9. now + rot[r].life + ClockSkew \in Nat
  BY <1>1, <1>3, Constants
<1> QED
  BY <1>3, <1>5, <1>6, <1>7, <1>8, <1>9

\* Every step of the specification has one of the shapes.
LEMMA StepShapes == TypeInv /\ [RotationNext]_rvars => Shapes
<1> SUFFICES ASSUME TypeInv, [RotationNext]_rvars
             PROVE  Shapes
  OBVIOUS
<1>0. /\ rot \in [Rotations -> RotationRecords]
      /\ child \in [Rotations -> [Phases -> ChildRecords]]
      /\ proc \in [Processes -> ProcessRecords]
      /\ \A p \in Processes : ~At(p, "idle") => proc[p].r \in Rotations
  BY DEF TypeInv, RotationTypeOK
<1>m. ASSUME NEW r \in Rotations, NEW from, NEW to \in RotationStatuses,
             Advance(r, from, to),
             to \notin {"overlap-ready", "retirement-ready",
                        "new-key-active", "old-key-retired", "completed"},
             UNCHANGED <<tables, probes, now>>
      PROVE  Shapes
  BY <1>m, AdvanceMoves DEF Shapes, RotStep
<1>1. ASSUME NEW r \in Rotations, RotationStep(r)
      PROVE  Shapes
  <2>1. ASSUME NEW old \in Keys, NEW life \in Lifetimes, RequestRotation(r, old, life)
        PROVE  Shapes
    BY <2>1 DEF RequestRotation, Shapes, RotStep, Requested, tables, Status, probeVars, graphVars
  <2>2. CASE \/ RequestRotationApproval(r)
             \/ \E d \in {"approved", "rejected"} : DecideRotation(r, d)
    BY <2>2 DEF RequestRotationApproval, DecideRotation, Shapes, QuietStep, tables,
                probeVars, graphVars
  <2>3. CASE AwaitApproval(r)
    BY <1>m, <2>3 DEF AwaitApproval, tables, RotationStatuses, probeVars, graphVars
  <2>4. CASE FoldDecision(r)
    BY <1>m, <2>4 DEF FoldDecision, tables, RotationStatuses, probeVars, graphVars
  <2>5. CASE BlockRotation(r)
    BY <1>m, <2>5 DEF BlockRotation, tables, RotationStatuses, probeVars, graphVars
  <2>6. CASE StartDrain(r)
    BY <1>m, <2>6 DEF StartDrain, tables, RotationStatuses, probeVars, graphVars
  <2>7. CASE PrepareRevocation(r)
    BY <1>m, <2>7 DEF PrepareRevocation, tables, RotationStatuses, probeVars, graphVars
  <2>8. ASSUME NEW ph \in Phases,
               AdmitChild(r, ph) \/ StartChild(r, ph) \/ RecoverChild(r, ph)
        PROVE  Shapes
    <3>1. child[r][ph] \in ChildRecords /\ child[r] \in [Phases -> ChildRecords]
      BY <1>0, <2>8
    <3>2. CASE AdmitChild(r, ph)
      <4> DEFINE c == [child[r][ph] EXCEPT !.state = "admitted"]
      <4>1. c \in ChildRecords /\ c.state = "admitted"
        BY <3>1 DEF ChildRecords, ChildStates
      <4>2. child' = [child EXCEPT ![r] = [child[r] EXCEPT ![ph] = c]]
        BY <1>0, <3>1, <3>2 DEF AdmitChild, SetChild
      <4>3. child[r][ph].state = "published"
        BY <3>2 DEF AdmitChild
      <4> HIDE DEF c
      <4> QED
        BY <3>2, <4>1, <4>2, <4>3 DEF AdmitChild, Shapes, ChildStep, probeVars, graphVars
    <3>3. CASE StartChild(r, ph)
      <4> DEFINE c == [state |-> "running", fence |-> 1]
      <4>1. c \in ChildRecords /\ c.state = "running"
        BY Constants DEF ChildRecords, ChildStates
      <4>2. child' = [child EXCEPT ![r] = [child[r] EXCEPT ![ph] = c]]
        BY <1>0, <3>1, <3>3 DEF StartChild
      <4>3. child[r][ph].state = "admitted"
        BY <3>3 DEF StartChild
      <4> HIDE DEF c
      <4> QED
        BY <3>3, <4>1, <4>2, <4>3 DEF StartChild, Shapes, ChildStep, probeVars, graphVars
    <3>4. CASE RecoverChild(r, ph)
      <4> DEFINE c == [child[r][ph] EXCEPT !.fence = @ + 1]
      <4>1. c \in ChildRecords /\ c.state = child[r][ph].state
        <5>1. child[r][ph].fence + 1 \in 0 .. MaxFence
          <6>1. child[r][ph].fence \in 0 .. MaxFence /\ child[r][ph].fence < MaxFence
            BY <3>1, <3>4 DEF RecoverChild, ChildRecords
          <6> QED
            BY <6>1, Constants
        <5> QED
          BY <3>1, <5>1 DEF ChildRecords
      <4>2. child' = [child EXCEPT ![r] = [child[r] EXCEPT ![ph] = c]]
        BY <1>0, <3>1, <3>4 DEF RecoverChild
      <4>3. child[r][ph].state \in {"running", "effected"}
        BY <3>4 DEF RecoverChild
      <4> HIDE DEF c
      <4> QED
        BY <3>4, <4>1, <4>2, <4>3 DEF RecoverChild, Shapes, ChildStep, probeVars, graphVars
    <3> QED
      BY <2>8, <3>2, <3>3, <3>4
  <2>9. ASSUME NEW ph \in Phases, PrepareDeployment(r, ph)
        PROVE  Shapes
    <3>1. PreparedStatus(ph) \in RotationStatuses \
            {"overlap-ready", "retirement-ready", "new-key-active", "old-key-retired", "completed"}
      BY DEF PreparedStatus, RotationStatuses
    <3>2. Advance(r, SourceStatus(ph), PreparedStatus(ph)) /\ UNCHANGED <<tables, probes, now>>
      BY <2>9 DEF PrepareDeployment, tables, probeVars, graphVars
    <3> QED
      BY <1>m, <3>1, <3>2
  <2> QED
    BY <1>1, <2>1, <2>2, <2>3, <2>4, <2>5, <2>6, <2>7, <2>8, <2>9 DEF RotationStep, Shapes
<1>2. ASSUME NEW p \in Processes, ProcessStep(p)
      PROVE  Shapes
  <2> DEFINE r == proc[p].r
             ph == proc[p].ph
  <2>1. ASSUME NEW s \in Rotations, PrepareGeneration(p, s)
        PROVE  Shapes
    <3>1. UNCHANGED <<tables, probes, now>>
      BY <2>1 DEF PrepareGeneration, tables, probeVars, graphVars
    <3>2. CASE Advance(s, "approved", "generation-prepared")
      BY <1>m, <3>1, <3>2 DEF RotationStatuses
    <3>3. CASE UNCHANGED rot
      BY <3>1, <3>3 DEF Shapes, QuietStep
    <3> QED
      BY <2>1, <3>2, <3>3 DEF PrepareGeneration
  <2>2. ASSUME NEW s \in Rotations,
               StartActivation(p, s) \/ StartRetirement(p, s) \/ StartRevocation(p, s)
        PROVE  Shapes
    BY <2>2 DEF StartActivation, StartRetirement, StartRevocation, Shapes, QuietStep, tables,
                probeVars, graphVars
  <2>3. ASSUME NEW s \in Rotations, NEW qh \in Phases, ProgressDeployment(p, s, qh)
        PROVE  Shapes
    <3>1. child[s][qh] \in ChildRecords /\ child[s] \in [Phases -> ChildRecords]
      BY <1>0
    <3>2. CASE UNCHANGED child
      BY <2>3, <3>2 DEF ProgressDeployment, Shapes, QuietStep, tables, probeVars, graphVars
    <3>3. ASSUME NEW st \in {"dispatching", "succeeded"}, SetChild(s, qh, st),
                 \/ st = "dispatching" /\ child[s][qh].state = "running"
                 \/ st = "succeeded" /\ child[s][qh].state \in {"effected", "succeeded"}
          PROVE  Shapes
      <4> DEFINE c == [child[s][qh] EXCEPT !.state = st]
      <4>1. c \in ChildRecords /\ c.state = st
        BY <3>1 DEF ChildRecords, ChildStates
      <4>2. child' = [child EXCEPT ![s] = [child[s] EXCEPT ![qh] = c]]
        BY <1>0, <3>1, <3>3 DEF SetChild
      <4>3. UNCHANGED <<keys, custody, gateway, current, desired, directs, rot, probes, now>>
        BY <2>3 DEF ProgressDeployment, probeVars, graphVars
      <4> HIDE DEF c
      <4> QED
        BY <3>3, <4>1, <4>2, <4>3 DEF Shapes, ChildStep
    <3> QED
      BY <2>3, <3>2, <3>3 DEF ProgressDeployment
  <2>4. CASE \/ SubmitGeneration(p) \/ MatchRevoked(p) \/ Crash(p)
    BY <2>4 DEF SubmitGeneration, MatchRevoked, Crash, Shapes, QuietStep, tables,
                probeVars, graphVars
  <2>5. CASE ProviderGenerate(p)
    BY <2>5 DEF ProviderGenerate, Shapes, QuietStep, CustodyStep, tables, probeVars, graphVars
  <2>6. CASE ProviderRevoke(p)
    BY <2>6 DEF ProviderRevoke, Shapes, QuietStep, CustodyStep, tables, probeVars, graphVars
  <2>k. CASE \/ AdmitGenerated(p) \/ ActivateNewKey(p) \/ RetireOldKey(p) \/ RevokeOldKey(p)
    <3>1. directs \in Nat
      BY DEF TypeInv, RotationTypeOK
    <3>2. CASE UNCHANGED keys
      BY <2>k, <3>2 DEF AdmitGenerated, ActivateNewKey, RetireOldKey, RevokeOldKey, Shapes,
                        QuietStep, tables, probeVars, graphVars
    <3>3. CASE keys' # keys
      <4>1. /\ UNCHANGED <<custody, gateway, current, desired, child, rot, probes, now>>
            /\ directs' >= directs
        BY <2>k, <3>1 DEF AdmitGenerated, ActivateNewKey, RetireOldKey, RevokeOldKey,
                        probeVars, graphVars
      <4> QED
        BY <2>k, <3>3, <4>1 DEF ActivateNewKey, RetireOldKey, Shapes, KeyStep
    <3> QED
      BY <3>2, <3>3
  <2>f. ASSUME ~At(p, "idle"), UNCHANGED <<tables, probes, now>>,
               \/ UNCHANGED rot
               \/ At(p, "fold-retired") /\ Advance(r, "retirement-ready", "old-key-retired")
               \/ At(p, "fold-completed") /\ Advance(r, "revocation-prepared", "completed")
               \/ At(p, "accept") /\ Advance(r, PreparedStatus(ph), AcceptedStatus(ph))
               \/ At(p, "fold-active") /\ AdvanceWithDeadline(r)
        PROVE  Shapes
    <3>1. CASE UNCHANGED rot
      BY <2>f, <3>1 DEF Shapes, QuietStep
    <3>2. CASE \E to \in RotationStatuses : \E d \in Nat : Moves(r, to, d)
      BY <1>0, <2>f, <3>2 DEF Shapes, RotStep
    <3>3. AcceptedStatus(ph) \in RotationStatuses
      BY DEF AcceptedStatus, RotationStatuses
    <3> QED
      BY <2>f, <3>1, <3>2, <3>3, FoldMoves DEF RotationStatuses
  <2>7. CASE FoldRetired(p) \/ FoldCompleted(p) \/ AcceptDeployment(p) \/ FoldActive(p)
    <3>1. ~At(p, "idle") /\ UNCHANGED <<tables, probes, now>>
      BY <2>7 DEF FoldRetired, FoldCompleted, AcceptDeployment, FoldActive, At, tables,
                  probeVars, graphVars
    <3> QED
      BY <2>7, <2>f, <3>1 DEF FoldRetired, FoldCompleted, AcceptDeployment, FoldActive
  <2>8. CASE FoldGenerated(p) \/ BlockGeneration(p) \/ BlockDeployment(p) \/ BlockRevocation(p)
    <3>1. r \in Rotations /\ UNCHANGED <<tables, probes, now>>
      BY <1>0, <2>8 DEF FoldGenerated, BlockGeneration, BlockDeployment, BlockRevocation, At,
                        tables, probeVars, graphVars
    <3>2. CASE UNCHANGED rot
      BY <3>1, <3>2 DEF Shapes, QuietStep
    <3>3. CASE Advance(r, "generation-prepared", "key-generated")
      BY <1>m, <3>1, <3>3 DEF RotationStatuses
    <3>4. CASE \E from : Advance(r, from, "blocked")
      BY <1>m, <3>1, <3>4 DEF RotationStatuses
    <3> QED
      BY <2>8, <3>2, <3>3, <3>4
         DEF FoldGenerated, BlockGeneration, BlockDeployment, BlockRevocation
  <2> QED
    BY <1>2, <2>1, <2>2, <2>3, <2>4, <2>5, <2>6, <2>k, <2>7, <2>8 DEF ProcessStep, Shapes
<1>3. ASSUME NEW k \in Keys, DirectKeyCommand(k)
      PROVE  Shapes
  <2>1. directs' >= directs
    BY <1>3 DEF DirectKeyCommand, TypeInv, RotationTypeOK
  <2> QED
    BY <1>3, <2>1 DEF DirectKeyCommand, Shapes, KeyStep, probeVars, graphVars
<1>4. CASE Environment \/ UNCHANGED rvars
  BY <1>4 DEF Environment, RequestProbe, CompleteProbe, AbandonProbe, Tick, Shapes, QuietStep,
              tables, rvars, graphVars
<1> QED
  BY <1>1, <1>2, <1>3, <1>4 DEF RotationNext

-----------------------------------------------------------------------------
(* Types.                                                                  *)

\* A step moves one call at most, to another step of the same work, to the
\* start of some work, or to its end.
LEMMA CallMoves ==
    TypeInv /\ [RotationNext]_rvars =>
        \/ UNCHANGED proc
        \/ \E p \in Processes, c \in ProcessRecords :
              /\ proc' = [proc EXCEPT ![p] = c]
              /\ c.pc = "idle" \/ c.r \in Rotations
<1> SUFFICES ASSUME TypeInv, [RotationNext]_rvars
             PROVE  \/ UNCHANGED proc
                    \/ \E p \in Processes, c \in ProcessRecords :
                          /\ proc' = [proc EXCEPT ![p] = c]
                          /\ c.pc = "idle" \/ c.r \in Rotations
  OBVIOUS
<1> DEFINE Moved == \E p \in Processes, c \in ProcessRecords :
                       /\ proc' = [proc EXCEPT ![p] = c]
                       /\ c.pc = "idle" \/ c.r \in Rotations
<1>0. /\ proc \in [Processes -> ProcessRecords]
      /\ child \in [Rotations -> [Phases -> ChildRecords]]
      /\ \A p \in Processes : ~At(p, "idle") => proc[p].r \in Rotations
  BY DEF TypeInv, RotationTypeOK
<1>1. ASSUME NEW p \in Processes, NEW step \in Steps, ~At(p, "idle"), Goto(p, step)
      PROVE  Moved
  <2> DEFINE c == [proc[p] EXCEPT !.pc = step]
  <2>1. c \in ProcessRecords /\ c.pc = step /\ c.r = proc[p].r
    BY <1>0 DEF ProcessRecords
  <2>2. proc' = [proc EXCEPT ![p] = c]
    BY <1>0, <1>1 DEF Goto
  <2> HIDE DEF c
  <2> QED
    BY <1>0, <1>1, <2>1, <2>2
<1>2. ASSUME NEW p \in Processes, Return(p)
      PROVE  Moved
  <2>1. Idle \in ProcessRecords /\ Idle.pc = "idle"
    BY Constants DEF Idle, ProcessRecords, Steps, Phases
  <2> QED
    BY <1>2, <2>1 DEF Return
<1>3. ASSUME NEW p \in Processes, NEW r \in Rotations, NEW ph \in Phases,
             NEW fence \in 0 .. MaxFence, NEW step \in Steps, Begin(p, r, ph, fence, step)
      PROVE  Moved
  <2>1. [pc |-> step, r |-> r, ph |-> ph, fence |-> fence] \in ProcessRecords
    BY DEF ProcessRecords
  <2> QED
    BY <1>3, <2>1 DEF Begin
<1>4. ASSUME NEW p \in Processes, NEW r \in Rotations,
             \/ PrepareGeneration(p, r) \/ StartActivation(p, r)
             \/ StartRetirement(p, r) \/ StartRevocation(p, r)
      PROVE  Moved
  <2>1. \E ph \in Phases, step \in Steps : Begin(p, r, ph, 0, step)
    BY <1>4 DEF PrepareGeneration, StartActivation, StartRetirement, StartRevocation, Steps, Phases
  <2> HIDE DEF Moved
  <2> QED
    BY <1>3, <2>1, Constants
<1>5. ASSUME NEW p \in Processes, NEW r \in Rotations, NEW ph \in Phases,
             ProgressDeployment(p, r, ph)
      PROVE  Moved
  <2>1. child[r][ph].fence \in 0 .. MaxFence
    BY <1>0 DEF ChildRecords
  <2>2. \E step \in Steps : Begin(p, r, ph, child[r][ph].fence, step)
    BY <1>5 DEF ProgressDeployment, Steps
  <2> HIDE DEF Moved
  <2> QED
    BY <1>3, <2>1, <2>2
<1>6. ASSUME NEW p \in Processes,
             \/ ProviderGenerate(p) \/ SubmitGeneration(p) \/ AdmitGenerated(p)
             \/ FoldGenerated(p) \/ BlockGeneration(p)
             \/ DispatchEffect(p) \/ AdvanceCurrent(p) \/ AcceptDeployment(p)
             \/ BlockDeployment(p)
             \/ ActivateNewKey(p) \/ FoldActive(p)
             \/ RetireOldKey(p) \/ FoldRetired(p)
             \/ ProviderRevoke(p) \/ MatchRevoked(p) \/ RevokeOldKey(p)
             \/ FoldCompleted(p) \/ BlockRevocation(p) \/ Crash(p)
      PROVE  Moved
  <2>1. ~At(p, "idle")
    BY <1>6 DEF At, ProviderGenerate, SubmitGeneration, AdmitGenerated, FoldGenerated,
       BlockGeneration, DispatchEffect, AdvanceCurrent, AcceptDeployment, BlockDeployment,
       ActivateNewKey, FoldActive, RetireOldKey, FoldRetired, ProviderRevoke, MatchRevoked,
       RevokeOldKey, FoldCompleted, BlockRevocation, Crash
  <2>2. Return(p) \/ \E step \in Steps : Goto(p, step)
    <3>1. CASE MatchRevoked(p)
      <4>1. /\ "revoke-key" \in Steps /\ "fold-completed" \in Steps
            /\ Goto(p, "revoke-key") \/ Goto(p, "fold-completed") \/ Return(p)
        <5>1. CASE rot[proc[p].r].status = "revocation-prepared" /\ RetirementTruth(proc[p].r)
          <6>1. CASE keys[rot[proc[p].r].old] = "retired"
            BY <3>1, <5>1, <6>1 DEF MatchRevoked, Steps
          <6>2. CASE keys[rot[proc[p].r].old] = "revoked"
            BY <3>1, <5>1, <6>2 DEF MatchRevoked, Steps
          <6>3. CASE keys[rot[proc[p].r].old] \notin {"retired", "revoked"}
            BY <3>1, <5>1, <6>3 DEF MatchRevoked, Steps
          <6> QED
            BY <6>1, <6>2, <6>3
        <5>2. CASE ~(rot[proc[p].r].status = "revocation-prepared" /\ RetirementTruth(proc[p].r))
          BY <3>1, <5>2 DEF MatchRevoked, Steps
        <5> QED
          BY <5>1, <5>2
      <4> QED
        BY <4>1
    <3>2. CASE \/ ProviderGenerate(p) \/ SubmitGeneration(p) \/ AdmitGenerated(p)
               \/ FoldGenerated(p) \/ BlockGeneration(p) \/ AcceptDeployment(p)
               \/ BlockDeployment(p) \/ FoldActive(p) \/ FoldRetired(p) \/ FoldCompleted(p)
               \/ BlockRevocation(p) \/ Crash(p)
      BY <3>2 DEF Steps, ProviderGenerate, SubmitGeneration, AdmitGenerated, FoldGenerated,
         BlockGeneration, AcceptDeployment, BlockDeployment, FoldActive, FoldRetired,
         FoldCompleted, BlockRevocation, Crash
    <3>3. CASE \/ DispatchEffect(p) \/ AdvanceCurrent(p) \/ ActivateNewKey(p)
               \/ RetireOldKey(p) \/ ProviderRevoke(p) \/ RevokeOldKey(p)
      BY <3>3 DEF Steps, DispatchEffect, AdvanceCurrent, ActivateNewKey, RetireOldKey,
         ProviderRevoke, RevokeOldKey
    <3> QED
      BY <1>6, <3>1, <3>2, <3>3
  <2> HIDE DEF Moved
  <2> QED
    BY <1>1, <1>2, <2>1, <2>2
<1>7. ASSUME \/ \E r \in Rotations : RotationStep(r)
             \/ \E k \in Keys : DirectKeyCommand(k)
             \/ Environment \/ UNCHANGED rvars
      PROVE  UNCHANGED proc
  BY <1>7 DEF RotationStep, RequestRotation, RequestRotationApproval, DecideRotation,
     AwaitApproval, FoldDecision, BlockRotation, StartDrain, PrepareRevocation,
     PublishProjection, AdmitChild, StartChild, RecoverChild, PrepareDeployment,
     DirectKeyCommand, Environment, rvars
<1> HIDE DEF Moved
<1>8. ASSUME NEW p \in Processes, ProcessStep(p)
      PROVE  Moved
  BY <1>4, <1>5, <1>6, <1>8 DEF ProcessStep
<1>9. UNCHANGED proc \/ Moved
  BY <1>7, <1>8 DEF RotationNext
<1> QED
  BY <1>9 DEF Moved

LEMMA TypeInit == RotationInit => TypeInv
<1> SUFFICES ASSUME RotationInit
             PROVE  TypeInv
  OBVIOUS
<1>1. ProbesTypeOK
  BY Constants DEF RotationInit, ProbesInit, ProbesTypeOK, KeysInit, KeysTypeOK, KeyStatuses,
     CustodyStatuses, ProbeAttempts, NoProbe, ProbeStatuses
<1>2. rot \in [Rotations -> RotationRecords]
  BY Constants DEF RotationInit, NoRequest, RotationRecords, RotationStatuses
<1>3. child \in [Rotations -> [Phases -> ChildRecords]]
  BY Constants DEF RotationInit, ChildRecords, ChildStates
<1>4. proc \in [Processes -> ProcessRecords] /\ \A p \in Processes : At(p, "idle")
  BY Constants DEF RotationInit, Idle, ProcessRecords, Steps, Phases, At
<1>5. directs \in 0 .. MaxDirect /\ current \subseteq Keys /\ desired \subseteq Keys
  BY Constants DEF RotationInit
<1>6. approval \in [Rotations -> {"none", "pending", "approved", "rejected"}]
  BY DEF RotationInit
<1> QED
  BY <1>1, <1>2, <1>3, <1>4, <1>5, <1>6 DEF TypeInv, RotationTypeOK

\* Targets are keys of the gateway's purpose.
LEMMA TargetKeys ==
    ASSUME TypeInv, NEW r \in Rotations, NEW ph
    PROVE  Target(r, ph) \subseteq Keys /\ rot[r].old \in Keys
BY Constants DEF TypeInv, RotationTypeOK, RotationRecords, Target

\* Approvals, probes and the count of direct commands belong to their own steps.
LEMMA OthersMove ==
    ASSUME [RotationNext]_rvars
    PROVE  /\ UNCHANGED <<probes, inflight, now>> \/ Environment
           /\ UNCHANGED directs \/ \E k \in Keys : DirectKeyCommand(k)
           /\ \/ UNCHANGED approval
              \/ \E r \in Rotations : \E d \in {"pending", "approved", "rejected"} :
                    approval' = [approval EXCEPT ![r] = d]
<1>1. ASSUME NEW r \in Rotations, RotationStep(r)
      PROVE  /\ UNCHANGED <<probes, inflight, now, directs>>
             /\ \/ UNCHANGED approval
                \/ \E d \in {"pending", "approved", "rejected"} :
                      approval' = [approval EXCEPT ![r] = d]
  <2>1. CASE \/ \E old \in Keys, life \in Lifetimes : RequestRotation(r, old, life)
             \/ RequestRotationApproval(r)
             \/ \E d \in {"approved", "rejected"} : DecideRotation(r, d)
    BY <2>1 DEF RequestRotation, RequestRotationApproval, DecideRotation, probeVars
  <2>2. CASE AwaitApproval(r) \/ FoldDecision(r) \/ BlockRotation(r) \/ StartDrain(r)
             \/ PrepareRevocation(r)
    BY <2>2 DEF AwaitApproval, FoldDecision, BlockRotation, StartDrain, PrepareRevocation,
                probeVars
  <2>3. ASSUME NEW ph \in Phases,
               \/ PublishProjection(r, ph) \/ AdmitChild(r, ph) \/ StartChild(r, ph)
               \/ RecoverChild(r, ph) \/ PrepareDeployment(r, ph)
        PROVE  UNCHANGED <<probes, inflight, now, directs, approval>>
    BY <2>3 DEF PublishProjection, AdmitChild, StartChild, RecoverChild, PrepareDeployment,
                probeVars
  <2> QED
    BY <1>1, <2>1, <2>2, <2>3 DEF RotationStep
<1>2. ASSUME NEW p \in Processes, ProcessStep(p)
      PROVE  UNCHANGED <<probes, inflight, now, directs, approval>>
  <2>1. ASSUME NEW r \in Rotations,
               \/ PrepareGeneration(p, r) \/ StartActivation(p, r)
               \/ StartRetirement(p, r) \/ StartRevocation(p, r)
               \/ \E ph \in Phases : ProgressDeployment(p, r, ph)
        PROVE  UNCHANGED <<probes, inflight, now, directs, approval>>
    BY <2>1 DEF PrepareGeneration, StartActivation, StartRetirement, StartRevocation,
                ProgressDeployment, probeVars
  <2>2. CASE \/ ProviderGenerate(p) \/ SubmitGeneration(p) \/ AdmitGenerated(p)
             \/ FoldGenerated(p) \/ BlockGeneration(p) \/ DispatchEffect(p)
             \/ AdvanceCurrent(p) \/ AcceptDeployment(p) \/ BlockDeployment(p)
    BY <2>2 DEF ProviderGenerate, SubmitGeneration, AdmitGenerated, FoldGenerated,
       BlockGeneration, DispatchEffect, AdvanceCurrent, AcceptDeployment, BlockDeployment,
       probeVars
  <2>3. CASE \/ ActivateNewKey(p) \/ FoldActive(p) \/ RetireOldKey(p) \/ FoldRetired(p)
             \/ ProviderRevoke(p) \/ MatchRevoked(p) \/ RevokeOldKey(p)
             \/ FoldCompleted(p) \/ BlockRevocation(p) \/ Crash(p)
    BY <2>3 DEF ActivateNewKey, FoldActive, RetireOldKey, FoldRetired, ProviderRevoke,
       MatchRevoked, RevokeOldKey, FoldCompleted, BlockRevocation, Crash, probeVars
  <2> QED
    BY <1>2, <2>1, <2>2, <2>3 DEF ProcessStep
<1>3. ASSUME NEW k \in Keys, DirectKeyCommand(k)
      PROVE  UNCHANGED <<probes, inflight, now, approval>>
  BY <1>3 DEF DirectKeyCommand, probeVars
<1>4. CASE Environment
  BY <1>4 DEF Environment
<1>5. CASE UNCHANGED rvars
  BY <1>5 DEF rvars
<1> QED
  BY <1>1, <1>2, <1>3, <1>4, <1>5 DEF RotationNext

LEMMA KeysTyped ==
    ASSUME TypeInv, [RotationNext]_rvars
    PROVE  KeysTypeOK' /\ directs' \in 0 .. MaxDirect /\ gateway' \subseteq Keys
           /\ current' \subseteq Keys /\ desired' \subseteq Keys
<1>0. /\ keys \in [Keys -> KeyStatuses] /\ custody \in [Keys -> CustodyStatuses]
      /\ gateway \subseteq Keys /\ current \subseteq Keys /\ desired \subseteq Keys
      /\ directs \in 0 .. MaxDirect
      /\ \A p \in Processes : ~At(p, "idle") => proc[p].r \in Rotations
  BY DEF TypeInv, RotationTypeOK, ProbesTypeOK, KeysTypeOK
<1> USE DEF KeysTypeOK
<1>1. CASE RotStep \/ ChildStep \/ QuietStep
  BY <1>0, <1>1 DEF RotStep, ChildStep, QuietStep, tables
<1>2. CASE KeyStep
  <2>1. UNCHANGED <<custody, gateway, current, desired>>
    BY <1>2 DEF KeyStep
  <2>2. directs' \in 0 .. MaxDirect
    <3>1. CASE UNCHANGED directs
      BY <1>0, <3>1
    <3>2. ASSUME NEW k \in Keys, DirectKeyCommand(k)
          PROVE  directs' \in 0 .. MaxDirect
      BY <1>0, <3>2, Constants DEF DirectKeyCommand
    <3>3. CASE directs' # directs
      BY <3>2, <3>3, OthersMove
    <3> QED
      BY <3>1, <3>3
  <2>3. \A k \in Keys : /\ Registered(k) \in [Keys -> KeyStatuses]
                        /\ Activated(k) \in [Keys -> KeyStatuses]
                        /\ Retired(k) \in [Keys -> KeyStatuses]
                        /\ Revoked(k) \in [Keys -> KeyStatuses]
    BY <1>0 DEF Registered, Activated, Retired, Revoked, KeyStatuses
  <2>4. \E k \in Keys : keys' \in {Registered(k), Activated(k), Retired(k), Revoked(k)}
    <3>1. ASSUME NEW p \in Processes, ~At(p, "idle")
          PROVE  NewKey[proc[p].r] \in Keys /\ rot[proc[p].r].old \in Keys
      BY <1>0, <3>1, Constants, TargetKeys
    <3>2. ASSUME NEW p \in Processes,
                 \/ At(p, "admit") /\ keys' = Registered(NewKey[proc[p].r])
                 \/ At(p, "activate") /\ keys' = Activated(NewKey[proc[p].r])
                 \/ At(p, "retire") /\ keys' = Retired(rot[proc[p].r].old)
                 \/ At(p, "revoke-key") /\ keys' = Revoked(rot[proc[p].r].old)
          PROVE  \E k \in Keys : keys' \in {Registered(k), Activated(k), Retired(k), Revoked(k)}
      <4>1. ~At(p, "idle")
        BY <3>2 DEF At
      <4> QED
        BY <3>1, <3>2, <4>1
    <3> QED
      BY <1>2, <3>2 DEF KeyStep, AdmitGenerated, RevokeOldKey, DirectKeyCommand
  <2> QED
    BY <1>0, <2>1, <2>2, <2>3, <2>4
<1>3. CASE CustodyStep
  <2>1. UNCHANGED <<keys, gateway, current, desired, directs>>
    BY <1>3 DEF CustodyStep
  <2>2. custody' \in [Keys -> CustodyStatuses]
    BY <1>0, <1>3 DEF CustodyStep, Generated, VersionRevoked, CustodyStatuses
  <2> QED
    BY <1>0, <2>1, <2>2
<1>4. ASSUME NEW r \in Rotations, NEW ph \in Phases, PublishProjection(r, ph)
      PROVE  /\ KeysTypeOK' /\ directs' \in 0 .. MaxDirect /\ gateway' \subseteq Keys
             /\ current' \subseteq Keys /\ desired' \subseteq Keys
  BY <1>0, <1>4, TargetKeys DEF PublishProjection
<1>5. ASSUME NEW p \in Processes, DispatchEffect(p) \/ AdvanceCurrent(p)
      PROVE  /\ KeysTypeOK' /\ directs' \in 0 .. MaxDirect /\ gateway' \subseteq Keys
             /\ current' \subseteq Keys /\ desired' \subseteq Keys
  <2>1. proc[p].r \in Rotations
    BY <1>0, <1>5 DEF DispatchEffect, AdvanceCurrent, At
  <2>2. Target(proc[p].r, proc[p].ph) \subseteq Keys
    BY <2>1, TargetKeys
  <2> QED
    BY <1>0, <1>5, <2>2 DEF DispatchEffect, AdvanceCurrent, graphVars
<1> QED
  BY <1>1, <1>2, <1>3, <1>4, <1>5, StepShapes DEF Shapes

LEMMA TypeStep == TypeInv /\ [RotationNext]_rvars => TypeInv'
<1> SUFFICES ASSUME TypeInv, [RotationNext]_rvars
             PROVE  TypeInv'
  OBVIOUS
<1>0. /\ rot \in [Rotations -> RotationRecords]
      /\ child \in [Rotations -> [Phases -> ChildRecords]]
      /\ proc \in [Processes -> ProcessRecords]
      /\ \A p \in Processes : ~At(p, "idle") => proc[p].r \in Rotations
      /\ now \in Nat
  BY DEF TypeInv, RotationTypeOK, ProbesTypeOK
<1>1. rot' \in [Rotations -> RotationRecords]
  <2>1. CASE RotStep
    <3>1. ASSUME NEW r \in Rotations, NEW to \in RotationStatuses, NEW d \in Nat, Moves(r, to, d)
          PROVE  rot' \in [Rotations -> RotationRecords]
      <4>0. ReplacedBy(r, to) \in Nat
        BY <1>0 DEF ReplacedBy, RotationRecords
      <4>1. [rot[r] EXCEPT !.status = to, !.deadline = d, !.replaced = ReplacedBy(r, to)]
              \in RotationRecords
        BY <1>0, <4>0 DEF RotationRecords
      <4> QED
        BY <1>0, <3>1, <4>1 DEF Moves
    <3>2. ASSUME NEW r \in Rotations, NEW old \in Keys, NEW life \in Lifetimes,
                 Requested(r, old, life)
          PROVE  rot' \in [Rotations -> RotationRecords]
      <4>1. [status |-> "requested", old |-> old, life |-> life,
             replaced |-> 0, deadline |-> 0] \in RotationRecords
        BY DEF RotationRecords, RotationStatuses
      <4> QED
        BY <1>0, <3>2, <4>1 DEF Requested
    <3> QED
      BY <2>1, <3>1, <3>2 DEF RotStep
  <2>2. CASE UNCHANGED rot
    BY <1>0, <2>2
  <2> QED
    BY <2>1, <2>2, StepShapes DEF Shapes, ChildStep, KeyStep, CustodyStep, QuietStep,
       PublishProjection, DispatchEffect, AdvanceCurrent
<1>2. child' \in [Rotations -> [Phases -> ChildRecords]]
  <2>1. CASE UNCHANGED child
    BY <1>0, <2>1
  <2>2. ASSUME NEW r \in Rotations, NEW ph \in Phases, NEW c \in ChildRecords,
               child' = [child EXCEPT ![r] = [child[r] EXCEPT ![ph] = c]]
        PROVE  child' \in [Rotations -> [Phases -> ChildRecords]]
    BY <1>0, <2>2
  <2>3. ASSUME NEW r \in Rotations, NEW ph \in Phases, NEW st \in ChildStates, SetChild(r, ph, st)
        PROVE  child' \in [Rotations -> [Phases -> ChildRecords]]
    <3>1. child[r] \in [Phases -> ChildRecords] /\ child[r][ph] \in ChildRecords
      BY <1>0
    <3>2. [child[r][ph] EXCEPT !.state = st] \in ChildRecords
      BY <3>1 DEF ChildRecords
    <3>3. child' = [child EXCEPT ![r] = [child[r] EXCEPT ![ph] = [child[r][ph] EXCEPT !.state = st]]]
      BY <1>0, <2>3, <3>1 DEF SetChild
    <3> QED
      BY <1>0, <3>1, <3>2, <3>3
  <2>4. ASSUME NEW p \in Processes, DispatchEffect(p)
        PROVE  child' \in [Rotations -> [Phases -> ChildRecords]]
    <3>1. proc[p].r \in Rotations /\ proc[p].ph \in Phases
      BY <1>0, <2>4 DEF DispatchEffect, At, ProcessRecords
    <3> QED
      BY <2>3, <2>4, <3>1 DEF DispatchEffect, ChildStates
  <2> QED
    BY <2>1, <2>2, <2>3, <2>4, StepShapes
    DEF Shapes, RotStep, ChildStep, KeyStep, CustodyStep, QuietStep, tables,
        PublishProjection, AdvanceCurrent, ChildStates
<1>3. proc' \in [Processes -> ProcessRecords]
      /\ \A p \in Processes : ~At(p, "idle")' => proc'[p].r \in Rotations
  BY <1>0, CallMoves DEF At
<1>4. approval' \in [Rotations -> {"none", "pending", "approved", "rejected"}]
  <2>1. approval \in [Rotations -> {"none", "pending", "approved", "rejected"}]
    BY DEF TypeInv, RotationTypeOK
  <2>2. \/ UNCHANGED approval
        \/ \E r \in Rotations : \E d \in {"pending", "approved", "rejected"} :
              approval' = [approval EXCEPT ![r] = d]
    BY OthersMove
  <2> QED
    BY <2>1, <2>2
<1>5. probes' \in [Requests -> ProbeAttempts] /\ inflight' \subseteq Requests /\ now' \in 0 .. MaxNow
  <2>0. probes \in [Requests -> ProbeAttempts] /\ inflight \subseteq Requests /\ now \in 0 .. MaxNow
    BY DEF TypeInv, RotationTypeOK, ProbesTypeOK
  <2>1. CASE UNCHANGED <<probes, inflight, now>>
    BY <2>0, <2>1
  <2>2. ASSUME NEW q \in Requests, NEW skew \in 0 .. MaxSkew, RequestProbe(q, skew)
        PROVE  probes' \in [Requests -> ProbeAttempts] /\ inflight' \subseteq Requests /\ now' \in 0 .. MaxNow
    <3>1. now + skew + GrantLifetime \in Nat
      BY <2>0, Constants
    <3>2. \A k \in Keys : [status |-> "intended", key |-> k, requested |-> now,
               expires |-> now + skew + GrantLifetime] \in ProbeAttempts
      BY <2>0, <3>1 DEF ProbeAttempts, ProbeStatuses
    <3> QED
      BY <2>0, <2>2, <3>2 DEF RequestProbe
  <2>3. ASSUME NEW q \in Requests, CompleteProbe(q) \/ AbandonProbe(q)
        PROVE  probes' \in [Requests -> ProbeAttempts] /\ inflight' \subseteq Requests /\ now' \in 0 .. MaxNow
    <3>1. DispatchResult(q) \in ProbeStatuses /\ "failed" \in ProbeStatuses
      BY DEF DispatchResult, ProbeStatuses
    <3>2. \A res \in ProbeStatuses :
            [probes[q] EXCEPT !.status = IF probes[q].status = "intended" THEN res ELSE probes[q].status] \in ProbeAttempts
      BY <2>0 DEF ProbeAttempts
    <3> QED
      BY <2>0, <2>3, <3>1, <3>2 DEF CompleteProbe, AbandonProbe
  <2>4. CASE Tick
    BY <2>0, <2>4, Constants DEF Tick
  <2>5. CASE Environment
    BY <2>2, <2>3, <2>4, <2>5 DEF Environment
  <2>6. UNCHANGED <<probes, inflight, now>> \/ Environment
    BY OthersMove
  <2> QED
    BY <2>1, <2>5, <2>6
<1> QED
  BY <1>0, <1>1, <1>2, <1>3, <1>4, <1>5, KeysTyped DEF TypeInv, RotationTypeOK, ProbesTypeOK

-----------------------------------------------------------------------------
(* What stays.                                                             *)

\* A rotation keeps its old key and moves on within the sets of statuses.
LEMMA StatusMoves ==
    ASSUME TypeInv, Shapes, NEW r \in Rotations
    PROVE  /\ Status(r) # "none" =>
                 Status(r)' # "none" /\ rot'[r].old = rot[r].old /\ rot'[r].life = rot[r].life
           /\ \A F \in {FromRevocation, FromRetired, FromRetirementReady, FromRetirement,
                        FromDraining, FromOverlapReady, FromOverlap, FromGenerated,
                        FromGeneration} :
                 Status(r) \in F => Status(r)' \in F
           /\ \/ Status(r)' = Status(r) /\ rot'[r] = rot[r]
              \/ Status(r)' \in LegalTargets(Status(r)) /\ RotStep /\ \E d \in Nat : Moves(r, Status(r)', d)
              \/ /\ Status(r) = "none" /\ Status(r)' = "requested" /\ RotStep
                 /\ \A s \in Rotations : ~Nonterminal(s) /\ (s # r => rot'[s] = rot[s])
<1>0. rot \in [Rotations -> RotationRecords] /\ rot[r] \in RotationRecords
  BY DEF TypeInv, RotationTypeOK
<1>1. CASE rot'[r] = rot[r]
  BY <1>1 DEF Status
<1>2. ASSUME NEW s \in Rotations, NEW to \in RotationStatuses, NEW d \in Nat, Moves(s, to, d),
             RotStep, rot'[r] # rot[r]
      PROVE  /\ s = r /\ Status(r)' = to /\ to \in LegalTargets(Status(r))
             /\ rot'[r].old = rot[r].old /\ rot'[r].life = rot[r].life
  BY <1>0, <1>2 DEF Moves, Status, RotationRecords
<1>3. ASSUME NEW s \in Rotations, NEW old \in Keys, NEW life \in Lifetimes,
             Requested(s, old, life), rot'[r] # rot[r]
      PROVE  /\ s = r /\ Status(r)' = "requested" /\ Status(r) = "none"
             /\ \A x \in Rotations : ~Nonterminal(x) /\ (x # r => rot'[x] = rot[x])
  BY <1>0, <1>3 DEF Requested, Status
<1>4. CASE RotStep /\ rot'[r] # rot[r]
  <2>1. CASE \E s \in Rotations, to \in RotationStatuses, d \in Nat : Moves(s, to, d)
    <3>1. PICK s \in Rotations, to \in RotationStatuses, d \in Nat : Moves(s, to, d)
      BY <2>1
    <3>2. /\ s = r /\ Status(r)' = to /\ to \in LegalTargets(Status(r))
          /\ rot'[r].old = rot[r].old /\ rot'[r].life = rot[r].life
      BY <1>2, <1>4, <3>1
    <3>3. to # "none" /\ \A F \in {FromRevocation, FromRetired, FromRetirementReady,
                        FromRetirement, FromDraining, FromOverlapReady, FromOverlap,
                        FromGenerated, FromGeneration} :
                 Status(r) \in F => to \in F
      BY <3>2, LegalMoves DEF FromRevocation, FromRetired, FromRetirementReady, FromRetirement,
         FromDraining, FromOverlapReady, FromOverlap, FromGenerated, FromGeneration
    <3>4. Moves(r, Status(r)', d)
      BY <3>1, <3>2
    <3> QED
      BY <1>4, <3>2, <3>3, <3>4
  <2>2. CASE \E s \in Rotations, old \in Keys, life \in Lifetimes : Requested(s, old, life)
    <3>1. /\ Status(r) = "none" /\ Status(r)' = "requested"
          /\ \A s \in Rotations : ~Nonterminal(s) /\ (s # r => rot'[s] = rot[s])
      BY <1>3, <1>4, <2>2
    <3> QED
      BY <1>4, <3>1 DEF FromRevocation, FromRetired, FromRetirementReady, FromRetirement,
         FromDraining, FromOverlapReady, FromOverlap, FromGenerated, FromGeneration
  <2> QED
    BY <1>4, <2>1, <2>2 DEF RotStep
<1> QED
  BY <1>1, <1>4 DEF Shapes, ChildStep, KeyStep, CustodyStep, QuietStep, PublishProjection,
     DispatchEffect, AdvanceCurrent

\* What a phase wants stays the same once the rotation is requested.
LEMMA TargetsStay ==
    ASSUME TypeInv, Shapes, NEW r \in Rotations, Status(r) # "none", NEW ph
    PROVE  Target(r, ph)' = Target(r, ph) /\ Base(r, ph)' = Base(r, ph)
BY StatusMoves DEF Target, Base

\* How a child moves.
LEMMA ChildMoves ==
    ASSUME TypeInv, CallsInv, Shapes, NEW r \in Rotations, NEW ph \in Phases
    PROVE  /\ Published(r, ph) => Published(r, ph)'
           /\ Published(r, ph)' => Published(r, ph) \/ PublishProjection(r, ph)
           /\ Succeeded(r, ph) => Succeeded(r, ph)'
           /\ Succeeded(r, ph)' => child[r][ph].state \in {"effected", "succeeded"}
           /\ child'[r][ph].state \in {"effected", "succeeded"} =>
                 \/ child[r][ph].state \in {"effected", "succeeded"}
                 \/ \E p \in Processes :
                       DispatchEffect(p) /\ proc[p].r = r /\ proc[p].ph = ph
                       /\ gateway' = Target(r, ph)
           /\ child[r][ph].state = "dispatching" =>
                 \/ child'[r][ph].state = "dispatching"
                 \/ \E p \in Processes :
                       DispatchEffect(p) /\ proc[p].r = r /\ proc[p].ph = ph
<1>0. /\ child \in [Rotations -> [Phases -> ChildRecords]]
      /\ child[r][ph] \in ChildRecords
      /\ proc \in [Processes -> ProcessRecords]
      /\ \A p \in Processes : ~At(p, "idle") => proc[p].r \in Rotations
  BY DEF TypeInv, RotationTypeOK
<1>1. CASE child'[r][ph] = child[r][ph]
  BY <1>1 DEF Published, Succeeded
<1>2. CASE ChildStep /\ child'[r][ph] # child[r][ph]
  <2>1. PICK s \in Rotations, qh \in Phases, c \in ChildRecords :
          /\ child' = [child EXCEPT ![s] = [child[s] EXCEPT ![qh] = c]]
          /\ <<child[s][qh].state, c.state>> \in
                {<<"published", "admitted">>, <<"admitted", "running">>,
                 <<"running", "running">>, <<"effected", "effected">>,
                 <<"running", "dispatching">>, <<"effected", "succeeded">>,
                 <<"succeeded", "succeeded">>}
    BY <1>2 DEF ChildStep
  <2>2. s = r /\ qh = ph /\ child'[r][ph] = c
    BY <1>0, <1>2, <2>1
  <2> QED
    BY <2>1, <2>2 DEF Published, Succeeded
<1>3. ASSUME NEW s \in Rotations, NEW qh \in Phases, PublishProjection(s, qh),
             child'[r][ph] # child[r][ph]
      PROVE  s = r /\ qh = ph /\ ~Published(r, ph) /\ child'[r][ph].state = "published"
  BY <1>0, <1>3 DEF PublishProjection, SetChild, Published, ChildRecords
<1>4. ASSUME NEW p \in Processes, DispatchEffect(p), child'[r][ph] # child[r][ph]
      PROVE  /\ proc[p].r = r /\ proc[p].ph = ph /\ child[r][ph].state = "dispatching"
             /\ child'[r][ph].state \in {"effected", "failed", "uncertain"}
             /\ child'[r][ph].state = "effected" => gateway' = Target(r, ph)
  <2>1. proc[p].r \in Rotations /\ proc[p].ph \in Phases
    BY <1>0, <1>4 DEF DispatchEffect, At, ProcessRecords
  <2>2. child[proc[p].r][proc[p].ph].state = "dispatching"
    BY <1>4 DEF CallsInv, CallInv, DispatchEffect, At
  <2>3. \E st \in {"effected", "failed", "uncertain"} :
          SetChild(proc[p].r, proc[p].ph, st)
          /\ (st = "effected" => gateway' = Target(proc[p].r, proc[p].ph))
    BY <1>4 DEF DispatchEffect
  <2>4. PICK st \in {"effected", "failed", "uncertain"} :
          SetChild(proc[p].r, proc[p].ph, st)
          /\ (st = "effected" => gateway' = Target(proc[p].r, proc[p].ph))
    BY <2>3
  <2>5. proc[p].r = r /\ proc[p].ph = ph
    BY <1>0, <1>4, <2>1, <2>4 DEF SetChild
  <2>6. child'[r][ph].state = st
    BY <1>0, <2>1, <2>4, <2>5 DEF SetChild, ChildRecords
  <2> QED
    BY <2>2, <2>4, <2>5, <2>6
<1>5. CASE \E p \in Processes : DispatchEffect(p) /\ child'[r][ph] # child[r][ph]
  BY <1>4, <1>5 DEF Published, Succeeded
<1>6. CASE \E s \in Rotations, qh \in Phases :
              PublishProjection(s, qh) /\ child'[r][ph] # child[r][ph]
  BY <1>3, <1>6 DEF Published, Succeeded
<1> QED
  BY <1>1, <1>2, <1>5, <1>6 DEF Shapes, RotStep, KeyStep, CustodyStep, QuietStep, tables,
     AdvanceCurrent

\* A key that is gone stays gone, a version that was revoked stays revoked, and
\* only an admission registers a key.
LEMMA KeysStay ==
    ASSUME TypeInv, CallsInv, Shapes, NEW k \in Keys
    PROVE  /\ Gone(k) => Gone(k)'
           /\ keys[k] = "revoked" => keys'[k] = "revoked"
           /\ keys[k] # "absent" => keys'[k] # "absent"
           /\ keys[k] = "absent" /\ keys'[k] # "absent" =>
                 \E p \in Processes : AdmitGenerated(p) /\ k = NewKey[proc[p].r]
           /\ custody[k] = "revoked" => custody'[k] = "revoked"
           /\ custody[k] # "absent" => custody'[k] # "absent"
           /\ custody[k] # "revoked" /\ custody'[k] = "revoked" =>
                 \E p \in Processes : At(p, "revoke") /\ k = rot[proc[p].r].old
<1>0. /\ keys \in [Keys -> KeyStatuses] /\ custody \in [Keys -> CustodyStatuses]
      /\ \A p \in Processes : ~At(p, "idle") => proc[p].r \in Rotations
  BY DEF TypeInv, RotationTypeOK, ProbesTypeOK, KeysTypeOK
<1>n. \A p \in Processes : ~At(p, "idle") =>
         NewKey[proc[p].r] \in Keys /\ rot[proc[p].r].old \in Keys
  BY <1>0, Constants, TargetKeys
<1>1. CASE UNCHANGED <<keys, custody>>
  BY <1>1 DEF Gone
<1>2. CASE KeyStep
  <2>1. UNCHANGED custody
    BY <1>2 DEF KeyStep
  <2>2. ASSUME NEW x \in Keys,
               \/ CanActivate(x) /\ keys' = Activated(x)
               \/ CanRetire(x) /\ keys' = Retired(x)
               \/ keys[x] # "absent" /\ keys' = Revoked(x)
        PROVE  /\ Gone(k) => Gone(k)'
               /\ keys[k] = "revoked" => keys'[k] = "revoked"
               /\ (keys[k] # "absent") <=> (keys'[k] # "absent")
    BY <1>0, <2>2 DEF CanActivate, CanRetire, Activated, Retired, Revoked, Gone
  <2>3. ASSUME NEW p \in Processes, AdmitGenerated(p)
        PROVE  /\ Gone(k) => Gone(k)'
               /\ keys[k] = "revoked" => keys'[k] = "revoked"
               /\ keys[k] # "absent" => keys'[k] # "absent"
               /\ keys[k] = "absent" /\ keys'[k] # "absent" => k = NewKey[proc[p].r]
    BY <1>0, <2>3 DEF AdmitGenerated, Registered, Gone
  <2>4. ASSUME NEW p \in Processes, RevokeOldKey(p)
        PROVE  /\ ~At(p, "idle") /\ keys[rot[proc[p].r].old] # "absent"
               /\ keys' = Revoked(rot[proc[p].r].old)
    BY <2>4 DEF RevokeOldKey, CallsInv, CallInv, At, RevocationSteps, Gone
  <2>5. ASSUME NEW p \in Processes, At(p, "activate") \/ At(p, "retire")
        PROVE  ~At(p, "idle")
    BY <2>5 DEF At
  <2>6. \/ \E p \in Processes : AdmitGenerated(p)
        \/ \E x \in Keys : \/ CanActivate(x) /\ keys' = Activated(x)
                           \/ CanRetire(x) /\ keys' = Retired(x)
                           \/ keys[x] # "absent" /\ keys' = Revoked(x)
    BY <1>2, <1>n, <2>4, <2>5 DEF KeyStep, DirectKeyCommand, CanRevoke
  <2> QED
    BY <2>1, <2>2, <2>3, <2>6
<1>3. CASE CustodyStep
  <2>1. UNCHANGED keys
    BY <1>3 DEF CustodyStep
  <2>2. ASSUME NEW p \in Processes,
               \/ At(p, "generate") /\ custody' = Generated(NewKey[proc[p].r])
               \/ At(p, "revoke") /\ custody' = VersionRevoked(rot[proc[p].r].old)
        PROVE  /\ custody[k] = "revoked" => custody'[k] = "revoked"
               /\ custody[k] # "absent" => custody'[k] # "absent"
               /\ custody[k] # "revoked" /\ custody'[k] = "revoked" =>
                     At(p, "revoke") /\ k = rot[proc[p].r].old
    <3>1. NewKey[proc[p].r] \in Keys /\ rot[proc[p].r].old \in Keys
      BY <1>n, <2>2 DEF At
    <3>2. CASE At(p, "generate") /\ custody' = Generated(NewKey[proc[p].r])
      BY <1>0, <3>1, <3>2 DEF Generated
    <3>3. CASE At(p, "revoke") /\ custody' = VersionRevoked(rot[proc[p].r].old)
      BY <1>0, <3>1, <3>3 DEF VersionRevoked
    <3> QED
      BY <2>2, <3>2, <3>3
  <2> QED
    BY <1>3, <2>1, <2>2 DEF CustodyStep, Gone
<1> QED
  BY <1>1, <1>2, <1>3 DEF Shapes, RotStep, ChildStep, QuietStep, tables, PublishProjection,
     DispatchEffect, AdvanceCurrent, graphVars

-----------------------------------------------------------------------------
(* The rotations and their children.                                       *)

LEMMA OneRotatesStep ==
    ASSUME TypeInv, OneRotates, Shapes
    PROVE  OneRotates'
<1>1. ASSUME NEW r \in Rotations, Nonterminal(r)'
      PROVE  \/ Nonterminal(r)
             \/ \A s \in Rotations : ~Nonterminal(s) /\ (s # r => rot'[s] = rot[s])
  <2>1. CASE Status(r)' = Status(r)
    BY <1>1, <2>1 DEF Nonterminal, Status
  <2>2. CASE Status(r)' \in LegalTargets(Status(r))
    BY <1>1, <2>2, LegalMoves DEF Nonterminal, Status, Terminal, FromGeneration, FromGenerated,
       FromOverlap, FromOverlapReady, FromDraining, FromRetirement, FromRetirementReady,
       FromRetired, FromRevocation
  <2> QED
    BY <1>1, <2>1, <2>2, StatusMoves DEF Status
<1>2. ASSUME NEW r \in Rotations, NEW s \in Rotations, Nonterminal(r)', Nonterminal(s)', r # s
      PROVE  FALSE
  <2>1. CASE Nonterminal(r) /\ Nonterminal(s)
    BY <1>2, <2>1 DEF OneRotates
  <2>2. CASE \A x \in Rotations : ~Nonterminal(x) /\ (x # r => rot'[x] = rot[x])
    BY <1>2, <2>2 DEF Nonterminal
  <2>3. CASE \A x \in Rotations : ~Nonterminal(x) /\ (x # s => rot'[x] = rot[x])
    BY <1>2, <2>3 DEF Nonterminal
  <2> QED
    BY <1>1, <1>2, <2>1, <2>2, <2>3
<1> QED
  BY <1>2 DEF OneRotates

LEMMA ChildrenStep ==
    ASSUME RotationInv, Shapes
    PROVE  ChildrenInv'
<1> USE DEF RotationInv
<1> SUFFICES ASSUME NEW r \in Rotations
             PROVE  /\ Published(r, "overlap")' =>
                          Status(r)' \in FromGenerated /\ rot'[r].old # NewKey[r]
                    /\ Published(r, "retirement")' =>
                          Status(r)' \in FromDraining /\ Succeeded(r, "overlap")'
                    /\ Status(r)' \in FromOverlapReady \ {"blocked"} => Succeeded(r, "overlap")'
                    /\ Status(r)' \in FromRetirementReady \ {"blocked"} =>
                          Succeeded(r, "retirement")'
  BY DEF ChildrenInv
<1>p. "overlap" \in Phases /\ "retirement" \in Phases
  BY DEF Phases
<1>1. ASSUME Published(r, "overlap")'
      PROVE  Status(r)' \in FromGenerated /\ rot'[r].old # NewKey[r]
  <2>1. CASE Published(r, "overlap")
    <3>1. Status(r) \in FromGenerated /\ rot[r].old # NewKey[r] /\ Status(r) # "none"
      BY <2>1 DEF ChildrenInv, FromGenerated, FromOverlap, FromOverlapReady, FromDraining,
         FromRetirement, FromRetirementReady, FromRetired, FromRevocation
    <3> QED
      BY <3>1, StatusMoves
  <2>2. CASE PublishProjection(r, "overlap")
    BY <2>2 DEF PublishProjection, PhaseReady, OverlapReady, PhaseKeyTruth, Status, FromGenerated
  <2> QED
    BY <1>1, <1>p, <2>1, <2>2, ChildMoves
<1>2. ASSUME Published(r, "retirement")'
      PROVE  Status(r)' \in FromDraining /\ Succeeded(r, "overlap")'
  <2>1. CASE Published(r, "retirement")
    BY <1>p, <2>1, StatusMoves, ChildMoves DEF ChildrenInv
  <2>2. CASE PublishProjection(r, "retirement")
    <3>1. Status(r) = "draining-old-grants"
      BY <2>2 DEF PublishProjection, PhaseReady, RetirementReady, Status
    <3>2. Status(r) \in FromDraining /\ Succeeded(r, "overlap")
      BY <3>1 DEF ChildrenInv, FromDraining, FromOverlapReady
    <3> QED
      BY <1>p, <3>2, StatusMoves, ChildMoves
  <2> QED
    BY <1>2, <1>p, <2>1, <2>2, ChildMoves
<1>3. ASSUME NEW to \in {"overlap-ready", "retirement-ready"}, Status(r)' = to,
             Status(r) # to
      PROVE  \E ph \in Phases : to = AcceptedStatus(ph) /\ Succeeded(r, ph)
  <2>1. \E d \in Nat : Moves(r, to, d)
    BY <1>3, StatusMoves
  <2>2. PICK p \in Processes : /\ At(p, "accept") /\ proc[p].r = r
                               /\ to = AcceptedStatus(proc[p].ph)
    BY <2>1 DEF Moves
  <2>3. Succeeded(r, proc[p].ph)
    BY <2>2 DEF CallsInv, CallInv, At
  <2>4. proc[p].ph \in Phases
    BY DEF TypeInv, RotationTypeOK, ProcessRecords
  <2> QED
    BY <2>2, <2>3, <2>4
<1>4. ASSUME Status(r)' \in FromOverlapReady \ {"blocked"}
      PROVE  Succeeded(r, "overlap")'
  <2>1. CASE Status(r) \in FromOverlapReady \ {"blocked"}
    BY <1>p, <2>1, ChildMoves DEF ChildrenInv
  <2>2. CASE Status(r) \notin FromOverlapReady \ {"blocked"}
    <3>1. Status(r)' = "overlap-ready" /\ Status(r) # "overlap-ready"
      BY <1>4, <2>2, StatusMoves, LegalMoves DEF FromOverlapReady, FromDraining, FromRetirement,
         FromRetirementReady, FromRetired, FromRevocation
    <3> QED
      BY <1>p, <1>3, <3>1, ChildMoves DEF AcceptedStatus, Phases
  <2> QED
    BY <2>1, <2>2
<1>5. ASSUME Status(r)' \in FromRetirementReady \ {"blocked"}
      PROVE  Succeeded(r, "retirement")'
  <2>1. CASE Status(r) \in FromRetirementReady \ {"blocked"}
    BY <1>p, <2>1, ChildMoves DEF ChildrenInv
  <2>2. CASE Status(r) \notin FromRetirementReady \ {"blocked"}
    <3>1. Status(r)' = "retirement-ready" /\ Status(r) # "retirement-ready"
      BY <1>5, <2>2, StatusMoves, LegalMoves DEF FromRetirementReady, FromRetired, FromRevocation
    <3> QED
      BY <1>p, <1>3, <3>1, ChildMoves DEF AcceptedStatus, Phases
  <2> QED
    BY <2>1, <2>2
<1> QED
  BY <1>1, <1>2, <1>4, <1>5

-----------------------------------------------------------------------------
(* The projections and the gateway.                                        *)

\* A published phase is of a requested rotation and changes the keys.
LEMMA PhasesChange ==
    ASSUME RotationInv, NEW r \in Rotations, NEW ph \in Phases, Published(r, ph)
    PROVE  /\ Status(r) # "none" /\ rot[r].old # NewKey[r]
           /\ Target(r, ph) # Base(r, ph)
<1>1. Published(r, "overlap")
  BY DEF RotationInv, ChildrenInv, Succeeded, Published, Phases
<1>2. Status(r) # "none" /\ rot[r].old # NewKey[r]
  BY <1>1 DEF RotationInv, ChildrenInv, FromGenerated, FromOverlap, FromOverlapReady,
     FromDraining, FromRetirement, FromRetirementReady, FromRetired, FromRevocation
<1>3. Target(r, ph) # Base(r, ph)
  BY <1>2 DEF Target, Base, Phases
<1> QED
  BY <1>2, <1>3

\* When a phase is published every earlier child has succeeded, and the phase
\* wants keys that none of them wanted.
LEMMA PublishIsNew ==
    ASSUME RotationInv, NEW r \in Rotations, NEW ph \in Phases, PublishProjection(r, ph)
    PROVE  /\ Nonterminal(r) /\ ~Published(r, ph)
           /\ current = Base(r, ph) /\ desired = current /\ gateway = current
           /\ desired' = Target(r, ph)
           /\ UNCHANGED <<keys, custody, gateway, rot, current, proc, probes, now, directs>>
           /\ rot[r].old # NewKey[r]
           /\ \A s \in Rotations, qh \in Phases :
                 Published(s, qh) => Succeeded(s, qh) /\ Target(s, qh) # Target(r, ph)
<1>1. /\ Status(r) = SourceStatus(ph) /\ Nonterminal(r) /\ ~Published(r, ph)
      /\ PhaseKeyTruth(r, ph) /\ desired = current /\ current = Base(r, ph)
      /\ desired' = Target(r, ph)
      /\ UNCHANGED <<keys, custody, gateway, rot, current, proc, probes, now, directs>>
  BY DEF PublishProjection, PhaseReady, OverlapReady, RetirementReady, SourceStatus, Nonterminal,
     Terminal, Status, Published, PhaseKeyTruth, probeVars
<1>2. gateway = current /\ rot[r].old # NewKey[r]
  BY <1>1 DEF RotationInv, GraphsInv, PhaseKeyTruth
<1>3. ASSUME NEW s \in Rotations, NEW qh \in Phases, Published(s, qh)
      PROVE  Succeeded(s, qh)
  BY <1>1, <1>3, PhasesChange DEF RotationInv, GraphsInv, ChildrenPin
<1>4. ASSUME NEW s \in Rotations, NEW qh \in Phases, Published(s, qh),
             Target(s, qh) = Target(r, ph)
      PROVE  FALSE
  <2>1. Published(s, "overlap") /\ rot[s].old # NewKey[s]
    BY <1>4, PhasesChange DEF RotationInv, ChildrenInv, Succeeded, Published, Phases
  <2>2. CASE ph = "overlap"
    <3>1. NewKey[r] \in Target(s, qh)
      BY <1>4, <2>2 DEF Target
    <3>2. CASE s = r
      <4>1. qh = "retirement"
        BY <1>1, <1>4, <2>2, <3>2 DEF Phases
      <4> QED
        BY <1>2, <1>4, <2>2, <3>2, <4>1 DEF Target
    <3>3. CASE s # r
      <4>1. rot[s].old # NewKey[r]
        BY <1>1, <2>1, <2>2, <3>3 DEF RotationInv, GraphsInv, NewKeysAreNew, Nonterminal, Status
      <4>2. NewKey[s] # NewKey[r]
        BY <3>3, Constants
      <4> QED
        BY <3>1, <4>1, <4>2 DEF Target, Phases
    <3> QED
      BY <3>2, <3>3
  <2>3. CASE ph = "retirement"
    <3>1. Target(r, ph) = {NewKey[r]}
      BY <2>3 DEF Target
    <3>2. qh = "retirement" /\ NewKey[s] = NewKey[r]
      BY <1>4, <2>1, <3>1 DEF Target, Phases
    <3> QED
      BY <1>1, <1>4, <2>3, <3>2, Constants
  <2> QED
    BY <2>2, <2>3 DEF Phases
<1> QED
  BY <1>1, <1>2, <1>3, <1>4

\* An advancement makes current what is desired, once the gateway has it and no
\* child is unfinished.
LEMMA AdvanceIsRealized ==
    ASSUME RotationInv, NEW p \in Processes, AdvanceCurrent(p), current' # current
    PROVE  /\ current' = desired /\ gateway = desired
           /\ \A s \in Rotations, qh \in Phases : Published(s, qh) => Succeeded(s, qh)
<1>1. proc[p].r \in Rotations /\ proc[p].ph \in Phases
  BY DEF RotationInv, TypeInv, RotationTypeOK, ProcessRecords, AdvanceCurrent, At
<1>2. PICK r \in Rotations, ph \in Phases : r = proc[p].r /\ ph = proc[p].ph
  BY <1>1
<1>3. Succeeded(r, ph) /\ desired = Target(r, ph) /\ current' = Target(r, ph)
  BY <1>2 DEF AdvanceCurrent, Snapshot, Succeeded
<1>4. gateway = desired
  BY <1>3 DEF RotationInv, GraphsInv, ChildrenPin, Succeeded
<1>5. ASSUME NEW s \in Rotations, NEW qh \in Phases, Published(s, qh), ~Succeeded(s, qh)
      PROVE  FALSE
  <2>1. desired = Target(s, qh)
    BY <1>5 DEF RotationInv, GraphsInv, ChildrenPin
  <2>2. Published(r, ph) /\ Target(r, ph) = Target(s, qh)
    BY <1>3, <2>1 DEF Succeeded, Published
  <2>3. s = r /\ qh = ph
    BY <1>5, <2>2 DEF RotationInv, GraphsInv, TargetsDiffer
  <2> QED
    BY <1>3, <1>5, <2>3
<1> QED
  BY <1>3, <1>4, <1>5

\* An effect gives the gateway what is desired, or leaves it.
LEMMA EffectIsDesired ==
    ASSUME RotationInv, NEW p \in Processes, DispatchEffect(p)
    PROVE  /\ proc[p].r \in Rotations /\ proc[p].ph \in Phases
           /\ Published(proc[p].r, proc[p].ph) /\ ~Succeeded(proc[p].r, proc[p].ph)
           /\ desired = Target(proc[p].r, proc[p].ph) /\ current = Base(proc[p].r, proc[p].ph)
           /\ gateway' \in {gateway, desired}
           /\ UNCHANGED <<keys, custody, current, desired, rot, probes, now, directs>>
<1>1. proc[p].r \in Rotations /\ proc[p].ph \in Phases
  BY DEF RotationInv, TypeInv, RotationTypeOK, ProcessRecords, DispatchEffect, At
<1>2. Published(proc[p].r, proc[p].ph) /\ ~Succeeded(proc[p].r, proc[p].ph)
  BY DEF RotationInv, CallsInv, CallInv, DispatchEffect, At, Published, Succeeded
<1>3. desired = Target(proc[p].r, proc[p].ph) /\ current = Base(proc[p].r, proc[p].ph)
  BY <1>1, <1>2 DEF RotationInv, GraphsInv, ChildrenPin
<1> QED
  BY <1>1, <1>2, <1>3 DEF DispatchEffect, probeVars, graphVars

\* The ways the projections and the gateway change.
LEMMA GraphMoves ==
    ASSUME RotationInv, Shapes
    PROVE  \/ UNCHANGED <<current, desired, gateway>>
           \/ \E r \in Rotations, ph \in Phases : PublishProjection(r, ph)
           \/ \E p \in Processes : DispatchEffect(p)
           \/ /\ current' = desired /\ gateway = desired /\ UNCHANGED <<desired, gateway, rot>>
              /\ \A s \in Rotations, qh \in Phases : Published(s, qh) => Succeeded(s, qh)
<1>1. ASSUME NEW p \in Processes, AdvanceCurrent(p)
      PROVE  \/ UNCHANGED <<current, desired, gateway>>
             \/ /\ current' = desired /\ gateway = desired /\ UNCHANGED <<desired, gateway, rot>>
                /\ \A s \in Rotations, qh \in Phases : Published(s, qh) => Succeeded(s, qh)
  <2>1. UNCHANGED <<desired, gateway, rot>>
    BY <1>1 DEF AdvanceCurrent
  <2> QED
    BY <1>1, <2>1, AdvanceIsRealized
<1> QED
  BY <1>1 DEF Shapes, RotStep, ChildStep, KeyStep, CustodyStep, QuietStep, tables

\* A terminal rotation stays as it is.
LEMMA TerminalStays ==
    ASSUME TypeInv, Shapes, NEW r \in Rotations, Status(r) \in Terminal
    PROVE  Status(r)' = Status(r)
BY StatusMoves, LegalMoves DEF Terminal, FromGeneration, FromGenerated, FromOverlap,
   FromOverlapReady, FromDraining, FromRetirement, FromRetirementReady, FromRetired,
   FromRevocation

LEMMA TargetsDifferStep ==
    ASSUME RotationInv, Shapes
    PROVE  TargetsDiffer'
<1> USE DEF RotationInv
<1> SUFFICES ASSUME NEW r \in Rotations, NEW s \in Rotations, NEW ph \in Phases, NEW qh \in Phases,
                    Published(r, ph)', Published(s, qh)', Target(r, ph)' = Target(s, qh)'
             PROVE  r = s /\ ph = qh
  BY DEF TargetsDiffer
<1>1. /\ Published(r, ph) \/ PublishProjection(r, ph)
      /\ Published(s, qh) \/ PublishProjection(s, qh)
  BY ChildMoves
<1>2. Status(r) # "none" /\ Status(s) # "none"
  BY <1>1, PhasesChange, PublishIsNew DEF Nonterminal, Status
<1>3. Target(r, ph) = Target(s, qh)
  BY <1>2, TargetsStay
<1>4. CASE Published(r, ph) /\ Published(s, qh)
  BY <1>3, <1>4 DEF GraphsInv, TargetsDiffer
<1>5. CASE PublishProjection(r, ph) /\ PublishProjection(s, qh)
  <2>1. r = s
    BY <1>5, PublishIsNew DEF OneRotates
  <2>2. ph = qh
    BY <1>5, <2>1 DEF PublishProjection, PhaseReady, OverlapReady, RetirementReady, Phases
  <2> QED
    BY <2>1, <2>2
<1> QED
  BY <1>1, <1>3, <1>4, <1>5, PublishIsNew

LEMMA ChildrenPinStep ==
    ASSUME RotationInv, Shapes
    PROVE  ChildrenPin'
<1> USE DEF RotationInv
<1> SUFFICES ASSUME NEW r \in Rotations, NEW ph \in Phases
             PROVE  /\ Published(r, ph)' /\ ~Succeeded(r, ph)' =>
                          desired' = Target(r, ph)' /\ current' = Base(r, ph)'
                    /\ child'[r][ph].state \in {"effected", "succeeded"}
                          /\ desired' = Target(r, ph)' => gateway' = desired'
  BY DEF ChildrenPin
<1>1. ASSUME Published(r, ph)', ~Succeeded(r, ph)'
      PROVE  desired' = Target(r, ph)' /\ current' = Base(r, ph)'
  <2>1. CASE PublishProjection(r, ph)
    <3>1. Status(r) # "none" /\ desired' = Target(r, ph) /\ current' = Base(r, ph)
      BY <2>1, PublishIsNew DEF Nonterminal, Status
    <3> QED
      BY <3>1, TargetsStay
  <2>2. CASE Published(r, ph)
    <3>1. ~Succeeded(r, ph)
      BY <1>1, ChildMoves
    <3>2. desired = Target(r, ph) /\ current = Base(r, ph)
      BY <2>2, <3>1 DEF GraphsInv, ChildrenPin
    <3>3. Target(r, ph)' = Target(r, ph) /\ Base(r, ph)' = Base(r, ph)
      BY <2>2, PhasesChange, TargetsStay
    <3>4. UNCHANGED <<current, desired>>
      BY <2>2, <3>1, GraphMoves, PublishIsNew, EffectIsDesired
    <3> QED
      BY <3>2, <3>3, <3>4
  <2> QED
    BY <1>1, <2>1, <2>2, ChildMoves
<1>2. ASSUME child'[r][ph].state \in {"effected", "succeeded"}, desired' = Target(r, ph)'
      PROVE  gateway' = desired'
  <2>1. CASE child[r][ph].state \in {"effected", "succeeded"}
    <3>1. Published(r, ph)
      BY <2>1 DEF Published
    <3>2. desired' = Target(r, ph)
      BY <1>2, <3>1, PhasesChange, TargetsStay
    <3>3. ASSUME desired = Target(r, ph)
          PROVE  gateway = desired
      BY <2>1, <3>3 DEF GraphsInv, ChildrenPin
    <3>4. ~ \E s \in Rotations, qh \in Phases : PublishProjection(s, qh)
      BY <3>1, <3>2, PublishIsNew
    <3>5. ASSUME NEW p \in Processes, DispatchEffect(p)
          PROVE  gateway' = desired'
      <4>1. /\ Published(proc[p].r, proc[p].ph)
            /\ desired = Target(proc[p].r, proc[p].ph) /\ desired' = desired
            /\ gateway' \in {gateway, desired}
        BY <3>5, EffectIsDesired
      <4>2. gateway = desired
        BY <3>2, <3>3, <4>1
      <4> QED
        BY <4>1, <4>2
    <3> QED
      BY <3>2, <3>3, <3>4, <3>5, GraphMoves
  <2>2. ASSUME NEW p \in Processes, DispatchEffect(p), proc[p].r = r, proc[p].ph = ph,
               gateway' = Target(r, ph)
        PROVE  gateway' = desired'
    BY <2>2, EffectIsDesired
  <2> QED
    BY <1>2, <2>1, <2>2, ChildMoves
<1> QED
  BY <1>1, <1>2

\* A phase is accepted while nothing but it is known.
LEMMA AcceptedKeys ==
    ASSUME RotationInv, Shapes, NEW r \in Rotations, NEW ph \in Phases,
           Status(r)' = AcceptedStatus(ph), Status(r) # AcceptedStatus(ph)
    PROVE  /\ current = Target(r, ph) /\ desired = current
           /\ UNCHANGED <<current, desired, gateway>>
           /\ Succeeded(r, ph)
<1>1. RotStep /\ \E d \in Nat : Moves(r, AcceptedStatus(ph), d)
  BY StatusMoves DEF RotationInv, AcceptedStatus
<1>2. PICK p \in Processes : /\ At(p, "accept") /\ proc[p].r = r
                             /\ Status(r) = PreparedStatus(proc[p].ph)
                             /\ AcceptedStatus(ph) = AcceptedStatus(proc[p].ph)
  BY <1>1 DEF Moves, AcceptedStatus
<1>3. proc[p].ph = ph
  BY <1>2 DEF AcceptedStatus, Phases, RotationInv, TypeInv, RotationTypeOK, ProcessRecords
<1>4. current = Target(r, ph) /\ desired = current /\ Succeeded(r, ph)
  BY <1>2, <1>3 DEF RotationInv, CallsInv, CallInv, At
<1> QED
  BY <1>1, <1>4 DEF RotStep, tables

LEMMA OverlapHoldsStep ==
    ASSUME RotationInv, Shapes
    PROVE  OverlapHolds'
<1> USE DEF RotationInv
<1> SUFFICES ASSUME NEW r \in Rotations,
                    Status(r)' \in {"overlap-ready", "new-key-active", "draining-old-grants"},
                    ~Published(r, "retirement")'
             PROVE  current' = Target(r, "overlap")' /\ desired' = current'
  BY DEF OverlapHolds
<1>p. "overlap" \in Phases /\ "retirement" \in Phases /\ ~Published(r, "retirement")
  BY ChildMoves DEF Phases
<1>1. CASE Status(r) \in {"overlap-ready", "new-key-active", "draining-old-grants"}
  <2>1. current = Target(r, "overlap") /\ desired = current
    BY <1>1, <1>p DEF GraphsInv, OverlapHolds
  <2>2. Target(r, "overlap")' = Target(r, "overlap")
    BY <1>1, TargetsStay
  <2>3. ~ \E p \in Processes : DispatchEffect(p)
    BY <2>1, EffectIsDesired, PhasesChange
  <2>4. ASSUME NEW s \in Rotations, NEW ph \in Phases, PublishProjection(s, ph)
        PROVE  FALSE
    <3>1. Nonterminal(r) /\ Nonterminal(s)
      BY <1>1, <2>4, PublishIsNew DEF Nonterminal, Status, Terminal
    <3>2. s = r
      BY <3>1 DEF OneRotates
    <3>3. ph = "retirement"
      BY <1>1, <2>4, <3>2 DEF PublishProjection, PhaseReady, OverlapReady, Status, Phases
    <3>4. child \in [Rotations -> [Phases -> ChildRecords]]
      BY DEF TypeInv, RotationTypeOK
    <3>5. Published(r, "retirement")'
      BY <1>p, <2>4, <3>2, <3>3, <3>4 DEF PublishProjection, SetChild, Published, ChildRecords
    <3> QED
      BY <3>5
  <2> QED
    BY <2>1, <2>2, <2>3, <2>4, GraphMoves
<1>2. CASE Status(r) \notin {"overlap-ready", "new-key-active", "draining-old-grants"}
  <2>1. Status(r)' = "overlap-ready" /\ Status(r) # "none"
    BY <1>2, StatusMoves, LegalMoves
  <2>2. current = Target(r, "overlap") /\ desired = current /\ UNCHANGED <<current, desired>>
    BY <1>2, <1>p, <2>1, AcceptedKeys DEF AcceptedStatus
  <2> QED
    BY <2>1, <2>2, TargetsStay
<1> QED
  BY <1>1, <1>2

LEMMA NewKeysStep ==
    ASSUME RotationInv, Shapes
    PROVE  NewKeysAreNew'
<1> USE DEF RotationInv
<1>1. ASSUME NEW r \in Rotations, Status(r)' = "none"
      PROVE  keys'[NewKey[r]] = "absent"
  <2>1. Status(r) = "none"
    BY <1>1, StatusMoves
  <2>2. keys[NewKey[r]] = "absent" /\ NewKey[r] \in Keys
    BY <2>1, Constants DEF GraphsInv, NewKeysAreNew
  <2>3. ASSUME NEW p \in Processes, AdmitGenerated(p), NewKey[r] = NewKey[proc[p].r]
        PROVE  FALSE
    <3>1. proc[p].r \in Rotations /\ Status(proc[p].r) \in FromGeneration
      BY <2>3 DEF AdmitGenerated, At, TypeInv, CallsInv, CallInv, GenerationSteps
    <3>2. proc[p].r = r
      BY <2>3, <3>1, Constants
    <3> QED
      BY <2>1, <3>1, <3>2 DEF FromGeneration, FromGenerated, FromOverlap, FromOverlapReady,
         FromDraining, FromRetirement, FromRetirementReady, FromRetired, FromRevocation
  <2> QED
    BY <2>2, <2>3, KeysStay
<1>2. ASSUME NEW r \in Rotations, NEW s \in Rotations, r # s, Published(r, "overlap")',
             ~Published(s, "overlap")', Status(s)' \notin Terminal
      PROVE  rot'[r].old # NewKey[s]
  <2>0. "overlap" \in Phases
    BY DEF Phases
  <2>1. Status(s) \notin Terminal /\ ~Published(s, "overlap")
    BY <1>2, <2>0, TerminalStays, ChildMoves
  <2>2. CASE Published(r, "overlap")
    <3>1. rot[r].old # NewKey[s]
      BY <1>2, <2>1, <2>2 DEF GraphsInv, NewKeysAreNew
    <3> QED
      BY <2>0, <2>2, <3>1, PhasesChange, StatusMoves
  <2>3. CASE PublishProjection(r, "overlap")
    <3>1. Nonterminal(r) /\ UNCHANGED rot
      BY <2>0, <2>3, PublishIsNew
    <3>2. Status(s) = "none"
      BY <1>2, <2>1, <3>1 DEF OneRotates, Nonterminal, Status
    <3>3. keys[NewKey[s]] = "absent" /\ keys[rot[r].old] = "active"
      BY <2>3, <3>2 DEF GraphsInv, NewKeysAreNew, PublishProjection, PhaseKeyTruth
    <3> QED
      BY <3>1, <3>3
  <2> QED
    BY <1>2, <2>0, <2>2, <2>3, ChildMoves
<1> QED
  BY <1>1, <1>2 DEF NewKeysAreNew

\* An old key that nothing knows once its retirement succeeded stays unknown.
LEMMA WithdrawnStays ==
    ASSUME RotationInv, Shapes, NEW r \in Rotations, Succeeded(r, "retirement"),
           rot[r].old \notin KnownKeys
    PROVE  rot'[r].old \notin KnownKeys'
<1> USE DEF RotationInv
<1>0. /\ "overlap" \in Phases /\ "retirement" \in Phases
      /\ Published(r, "retirement") /\ Published(r, "overlap")
  BY DEF Phases, ChildrenInv, Published, Succeeded
<1>1. rot'[r].old = rot[r].old
  BY <1>0, PhasesChange, StatusMoves
<1>2. ASSUME NEW s \in Rotations, NEW ph \in Phases, PublishProjection(s, ph)
      PROVE  rot[r].old \notin KnownKeys'
  <2>1. /\ Nonterminal(s) /\ ~Published(s, ph) /\ current = Base(s, ph)
        /\ desired' = Target(s, ph) /\ UNCHANGED <<current, gateway>>
    BY <1>2, PublishIsNew
  <2>2. s # r
    BY <1>0, <2>1 DEF Phases
  <2>3. CASE ph = "overlap"
    <3>1. rot[r].old # NewKey[s]
      BY <1>0, <2>1, <2>2, <2>3 DEF GraphsInv, NewKeysAreNew, Nonterminal, Status
    <3>2. rot[r].old # rot[s].old
      BY <2>1, <2>3 DEF Base, KnownKeys
    <3> QED
      BY <2>1, <2>3, <3>1, <3>2 DEF Target, KnownKeys
  <2>4. CASE ph = "retirement"
    BY <2>1, <2>4 DEF Target, Base, KnownKeys
  <2> QED
    BY <2>3, <2>4 DEF Phases
<1>3. ASSUME NEW p \in Processes, DispatchEffect(p)
      PROVE  rot[r].old \notin KnownKeys'
  BY <1>3, EffectIsDesired DEF KnownKeys
<1> QED
  BY <1>1, <1>2, <1>3, GraphMoves DEF KnownKeys

LEMMA OldKeyWithdrawnStep ==
    ASSUME RotationInv, Shapes
    PROVE  OldKeyWithdrawn'
<1> USE DEF RotationInv
<1> SUFFICES ASSUME NEW r \in Rotations, Status(r)' \in FromRetirementReady \ {"blocked"}
             PROVE  rot'[r].old \notin KnownKeys'
  BY DEF OldKeyWithdrawn
<1>1. CASE Status(r) \in FromRetirementReady \ {"blocked"}
  BY <1>1, WithdrawnStays DEF GraphsInv, OldKeyWithdrawn, ChildrenInv
<1>2. CASE Status(r) \notin FromRetirementReady \ {"blocked"}
  <2>1. Status(r)' = "retirement-ready" /\ Status(r) # "retirement-ready" /\ Status(r) # "none"
    BY <1>2, StatusMoves, LegalMoves DEF FromRetirementReady, FromRetired, FromRevocation
  <2>2. /\ current = Target(r, "retirement") /\ desired = current /\ Succeeded(r, "retirement")
        /\ UNCHANGED <<current, desired, gateway>>
    BY <2>1, AcceptedKeys DEF AcceptedStatus, Phases
  <2>3. rot[r].old # NewKey[r] /\ gateway = current
    BY <2>2, PhasesChange DEF Published, Succeeded, Phases, GraphsInv
  <2>4. rot'[r].old = rot[r].old
    BY <2>1, StatusMoves
  <2> QED
    BY <2>2, <2>3, <2>4 DEF Target, KnownKeys
<1> QED
  BY <1>1, <1>2

LEMMA GraphsStep ==
    ASSUME RotationInv, Shapes
    PROVE  GraphsInv'
<1>1. gateway \in {current, desired}
  BY DEF RotationInv, GraphsInv
<1>2. ASSUME NEW r \in Rotations, NEW ph \in Phases, PublishProjection(r, ph)
      PROVE  gateway' \in {current', desired'}
  BY <1>2, PublishIsNew
<1>3. ASSUME NEW p \in Processes, DispatchEffect(p)
      PROVE  gateway' \in {current', desired'}
  BY <1>1, <1>3, EffectIsDesired
<1>4. gateway' \in {current', desired'}
  BY <1>1, <1>2, <1>3, GraphMoves
<1> QED
  BY <1>4, TargetsDifferStep, ChildrenPinStep, OverlapHoldsStep, NewKeysStep, OldKeyWithdrawnStep
     DEF GraphsInv


-----------------------------------------------------------------------------
(* Keys and calls.                                                         *)

LEMMA KeysStep ==
    ASSUME RotationInv, Shapes
    PROVE  KeysInv'
<1> USE DEF RotationInv
<1>0. /\ rot \in [Rotations -> RotationRecords]
      /\ \A p \in Processes : ~At(p, "idle") => proc[p].r \in Rotations
  BY DEF TypeInv, RotationTypeOK
<1>1. ASSUME NEW k \in Keys, custody'[k] = "revoked"
      PROVE  Gone(k)'
  <2>1. CASE custody[k] = "revoked"
    BY <2>1, KeysStay DEF KeysInv
  <2>2. ASSUME NEW p \in Processes, At(p, "revoke"), k = rot[proc[p].r].old
        PROVE  Gone(k)'
    <3>1. Gone(k)
      BY <2>2 DEF CallsInv, CallInv, At, RevocationSteps
    <3> QED
      BY <3>1, KeysStay
  <2> QED
    BY <1>1, <2>1, <2>2, KeysStay
<1>2. ASSUME NEW k \in Keys, custody'[k] = "absent"
      PROVE  keys'[k] = "absent"
  <2>1. custody[k] = "absent" /\ keys[k] = "absent"
    BY <1>2, KeysStay DEF KeysInv
  <2>2. ASSUME NEW p \in Processes, AdmitGenerated(p), k = NewKey[proc[p].r]
        PROVE  FALSE
    BY <2>1, <2>2 DEF CallsInv, CallInv, At, AdmitGenerated
  <2> QED
    BY <2>1, <2>2, KeysStay
<1>3. ASSUME NEW r \in Rotations, Status(r)' \in FromRetired \ {"blocked"}
      PROVE  keys'[rot'[r].old] \in {"retired", "revoked"}
  <2>1. Status(r) \in FromRetired \ {"blocked"} => Gone(rot[r].old)
    BY DEF KeysInv
  <2>2. Status(r)' \in {"old-key-retired", "revocation-prepared", "completed"}
    BY <1>3 DEF FromRetired, FromRevocation
  <2>3. Status(r) # "none" /\ rot'[r].old = rot[r].old /\ rot[r].old \in Keys
    <3>1. Status(r) # "none"
      BY <2>2, StatusMoves, LegalMoves DEF Terminal, FromGeneration, FromGenerated, FromOverlap,
         FromOverlapReady, FromDraining, FromRetirement, FromRetirementReady, FromRetired,
         FromRevocation
    <3> QED
      BY <1>0, <3>1, StatusMoves DEF RotationRecords
  <2>4. ASSUME Status(r) \notin FromRetired \ {"blocked"}
        PROVE  Gone(rot[r].old)
    <3>1. Status(r)' # Status(r)
      BY <1>3, <2>4
    <3>2. Status(r)' = "old-key-retired" /\ \E d \in Nat : Moves(r, Status(r)', d)
      BY <2>2, <2>3, <2>4, <3>1, StatusMoves, LegalMoves DEF FromRetired, FromRevocation
    <3>3. PICK p \in Processes : At(p, "fold-retired") /\ proc[p].r = r
      BY <3>2 DEF Moves
    <3> QED
      BY <3>3 DEF CallsInv, CallInv, At
  <2>5. PICK k \in Keys : k = rot[r].old
    BY <2>3
  <2>6. Gone(k)'
    BY <2>1, <2>4, <2>5, KeysStay
  <2> QED
    BY <2>3, <2>5, <2>6 DEF Gone
<1>4. ASSUME NEW r \in Rotations, Status(r)' = "completed"
      PROVE  keys'[rot'[r].old] = "revoked" /\ custody'[rot'[r].old] = "revoked"
  <2>1. Status(r) # "none" /\ rot'[r].old = rot[r].old /\ rot[r].old \in Keys
    <3>1. Status(r) # "none"
      BY <1>4, StatusMoves, LegalMoves DEF Terminal, FromGeneration, FromGenerated, FromOverlap,
         FromOverlapReady, FromDraining, FromRetirement, FromRetirementReady, FromRetired,
         FromRevocation
    <3> QED
      BY <1>0, <3>1, StatusMoves DEF RotationRecords
  <2>2. keys[rot[r].old] = "revoked" /\ custody[rot[r].old] = "revoked"
    <3>1. CASE Status(r) = "completed"
      BY <3>1 DEF KeysInv
    <3>2. CASE Status(r) # "completed"
      <4>1. \E d \in Nat : Moves(r, "completed", d)
        BY <1>4, <2>1, <3>2, StatusMoves
      <4>2. PICK p \in Processes : At(p, "fold-completed") /\ proc[p].r = r
        BY <4>1 DEF Moves
      <4> QED
        BY <4>2 DEF CallsInv, CallInv, At
    <3> QED
      BY <3>1, <3>2
  <2> QED
    BY <2>1, <2>2, KeysStay
<1>5. \A k \in Keys : /\ custody'[k] = "revoked" => Gone(k)'
                      /\ custody'[k] = "absent" => keys'[k] = "absent"
  BY <1>1, <1>2
<1>6. \A r \in Rotations : Status(r)' \in FromRetired \ {"blocked"} =>
          keys'[rot'[r].old] \in {"retired", "revoked"}
  BY <1>3
<1>7. \A r \in Rotations : Status(r)' = "completed" =>
          keys'[rot'[r].old] = "revoked" /\ custody'[rot'[r].old] = "revoked"
  BY <1>4
<1> QED
  BY <1>5, <1>6, <1>7 DEF KeysInv, Gone

\* A rotation in a phase's prepared status has no publication to wait for.
LEMMA PreparedHolds ==
    ASSUME RotationInv, Shapes, NEW r \in Rotations, NEW ph \in Phases,
           Status(r) = PreparedStatus(ph), current = Target(r, ph), desired = current
    PROVE  current' = Target(r, ph) /\ desired' = current'
<1> USE DEF RotationInv
<1>1. ASSUME NEW s \in Rotations, NEW qh \in Phases, PublishProjection(s, qh)
      PROVE  FALSE
  <2>1. Nonterminal(s) /\ Status(s) = SourceStatus(qh)
    BY <1>1, PublishIsNew DEF PublishProjection, PhaseReady, OverlapReady, RetirementReady,
       SourceStatus, Status
  <2>2. Nonterminal(r)
    BY DEF Nonterminal, PreparedStatus, Status, Terminal
  <2>3. s = r
    BY <2>1, <2>2 DEF OneRotates
  <2> QED
    BY <2>1, <2>3 DEF PreparedStatus, SourceStatus
<1>2. ASSUME NEW p \in Processes, DispatchEffect(p)
      PROVE  UNCHANGED <<current, desired>>
  BY <1>2, EffectIsDesired
<1> QED
  BY <1>1, <1>2, GraphMoves

\* What a call relies on stays true while others move.
LEMMA CallStays ==
    ASSUME RotationInv, Shapes, NEW c \in ProcessRecords, c.r \in Rotations, CallInv(c),
           c.pc = "dispatch" =>
              ~ \E p \in Processes :
                   DispatchEffect(p) /\ proc[p].r = c.r /\ proc[p].ph = c.ph
    PROVE  CallInv(c)'
<1> USE DEF RotationInv
<1>0. c.ph \in Phases /\ NewKey[c.r] \in Keys /\ rot[c.r].old \in Keys
      /\ "overlap" \in Phases /\ "retirement" \in Phases
  BY Constants DEF ProcessRecords, TypeInv, RotationTypeOK, RotationRecords, Phases
<1>1. c.pc \in GenerationSteps => Status(c.r)' \in FromGeneration
  BY StatusMoves DEF CallInv
<1>2. c.pc \in {"submit", "admit"} => custody'[NewKey[c.r]] # "absent"
  BY <1>0, KeysStay DEF CallInv
<1>3. c.pc \in DeploymentSteps => Status(c.r)' \in FromPrepared(c.ph)
  BY StatusMoves DEF CallInv, FromPrepared
<1>4. c.pc = "dispatch" => child'[c.r][c.ph].state = "dispatching"
  BY <1>0, ChildMoves DEF CallInv
<1>5. ASSUME c.pc = "accept"
      PROVE  /\ Succeeded(c.r, c.ph)'
             /\ Status(c.r)' = PreparedStatus(c.ph) =>
                   current' = Target(c.r, c.ph)' /\ desired' = current'
  <2>1. Succeeded(c.r, c.ph)'
    BY <1>0, <1>5, ChildMoves DEF CallInv
  <2>2. ASSUME Status(c.r)' = PreparedStatus(c.ph)
        PROVE  current' = Target(c.r, c.ph)' /\ desired' = current'
    <3>1. Status(c.r) \in FromPrepared(c.ph)
      BY <1>5 DEF CallInv, DeploymentSteps
    <3>2. Status(c.r) = PreparedStatus(c.ph) /\ Status(c.r) # "none"
      BY <1>0, <2>2, <3>1, StatusMoves, LegalMoves
         DEF FromPrepared, PreparedStatus, Phases, FromOverlap, FromOverlapReady, FromDraining,
             FromRetirement, FromRetirementReady, FromRetired, FromRevocation
    <3>3. current = Target(c.r, c.ph) /\ desired = current
      BY <1>5, <3>2 DEF CallInv
    <3>4. current' = Target(c.r, c.ph) /\ desired' = current'
      BY <1>0, <3>2, <3>3, PreparedHolds
    <3> QED
      BY <3>2, <3>4, TargetsStay
  <2> QED
    BY <2>1, <2>2
<1>6. c.pc \in ActivationSteps =>
          Status(c.r)' \in FromOverlapReady /\ Succeeded(c.r, "overlap")'
  BY <1>0, StatusMoves, ChildMoves DEF CallInv
<1>7. ASSUME c.pc \in RetirementSteps \cup RevocationSteps
      PROVE  /\ Status(c.r)' \in FromRetirementReady /\ Succeeded(c.r, "retirement")'
             /\ rot'[c.r].old \notin KnownKeys' /\ rot'[c.r].old = rot[c.r].old
  <2>1. /\ Status(c.r) \in FromRetirementReady /\ Succeeded(c.r, "retirement")
        /\ rot[c.r].old \notin KnownKeys
    BY <1>7 DEF CallInv
  <2>2. Status(c.r)' \in FromRetirementReady /\ Status(c.r) # "none"
    BY <2>1, StatusMoves DEF FromRetirementReady, FromRetired, FromRevocation
  <2>3. Succeeded(c.r, "retirement")'
    BY <1>0, <2>1, ChildMoves
  <2>4. rot'[c.r].old \notin KnownKeys'
    BY <2>1, WithdrawnStays
  <2> QED
    BY <2>2, <2>3, <2>4, StatusMoves
<1>8. c.pc \in {"fold-retired"} \cup RevocationSteps =>
          keys'[rot'[c.r].old] \in {"retired", "revoked"}
  <2>1. PICK k \in Keys : k = rot[c.r].old
    BY <1>0
  <2>2. Gone(k) => Gone(k)'
    BY KeysStay
  <2> QED
    BY <1>7, <2>1, <2>2 DEF CallInv, RetirementSteps, Gone
<1>9. c.pc \in RevocationSteps => Status(c.r)' \in FromRevocation
  BY StatusMoves DEF CallInv
<1>10. c.pc \in {"match-revoked", "revoke-key", "fold-completed"} =>
          custody'[rot'[c.r].old] = "revoked"
  BY <1>0, <1>7, KeysStay DEF CallInv, RevocationSteps
<1>11. c.pc = "fold-completed" => keys'[rot'[c.r].old] = "revoked"
  BY <1>0, <1>7, KeysStay DEF CallInv, RevocationSteps
<1> QED
  BY <1>1, <1>2, <1>3, <1>4, <1>5, <1>6, <1>7, <1>8, <1>9, <1>10, <1>11 DEF CallInv, Gone

\* The record that a step gives a call.
Taken(p, c) ==
    /\ proc' = [proc EXCEPT ![p] = c]
    /\ CallInv(c)'
    /\ c.pc = "dispatch" => child[c.r][c.ph].state # "dispatching"

CallTaken(p) == \E c \in ProcessRecords : Taken(p, c)

LEMMA TakenByGoto ==
    ASSUME RotationInv, Shapes, NEW p \in Processes, NEW step \in Steps \ {"dispatch"},
           ~At(p, "idle"), Goto(p, step),
           \A c \in ProcessRecords :
              c.pc = step /\ c.r = proc[p].r /\ c.ph = proc[p].ph => CallInv(c) \/ CallInv(c)'
    PROVE  CallTaken(p)
<1>0. proc \in [Processes -> ProcessRecords] /\ proc[p].r \in Rotations
  BY DEF RotationInv, TypeInv, RotationTypeOK
<1>1. PICK c \in ProcessRecords : /\ proc' = [proc EXCEPT ![p] = c]
                                  /\ c.pc = step /\ c.r = proc[p].r /\ c.ph = proc[p].ph
  <2>1. PICK c : c = [proc[p] EXCEPT !.pc = step]
    OBVIOUS
  <2>2. c \in ProcessRecords /\ c.pc = step /\ c.r = proc[p].r /\ c.ph = proc[p].ph
    BY <1>0, <2>1 DEF ProcessRecords
  <2>3. proc' = [proc EXCEPT ![p] = c]
    BY <1>0, <2>1 DEF Goto
  <2> QED
    BY <2>2, <2>3
<1>2. CallInv(c) \/ CallInv(c)'
  BY <1>1
<1>3. CallInv(c) => CallInv(c)'
  BY <1>0, <1>1, CallStays
<1> QED
  BY <1>1, <1>2, <1>3 DEF Taken, CallTaken

LEMMA TakenByReturn ==
    ASSUME NEW p \in Processes, Return(p)
    PROVE  CallTaken(p)
<1>1. Idle \in ProcessRecords /\ Idle.pc = "idle"
  BY Constants DEF Idle, ProcessRecords, Steps, Phases
<1>2. CallInv(Idle)'
  BY <1>1 DEF CallInv, GenerationSteps, DeploymentSteps, ActivationSteps, RetirementSteps,
     RevocationSteps
<1> QED
  BY <1>1, <1>2 DEF Return, Taken, CallTaken

LEMMA TakenByBegin ==
    ASSUME RotationInv, Shapes, NEW p \in Processes, NEW r \in Rotations, NEW ph \in Phases,
           NEW fence \in 0 .. MaxFence, NEW step \in Steps, Begin(p, r, ph, fence, step),
           \A c \in ProcessRecords :
              c.pc = step /\ c.r = r /\ c.ph = ph =>
                 (step # "dispatch" /\ CallInv(c)) \/ CallInv(c)',
           step = "dispatch" => child[r][ph].state # "dispatching"
    PROVE  CallTaken(p)
<1>1. PICK c \in ProcessRecords : /\ proc' = [proc EXCEPT ![p] = c]
                                  /\ c.pc = step /\ c.r = r /\ c.ph = ph
  <2>1. [pc |-> step, r |-> r, ph |-> ph, fence |-> fence] \in ProcessRecords
    BY DEF ProcessRecords
  <2> QED
    BY <2>1 DEF Begin
<1>2. step # "dispatch" /\ CallInv(c) => CallInv(c)'
  BY <1>1, CallStays
<1>3. CallInv(c)'
  BY <1>1, <1>2
<1> QED
  BY <1>1, <1>3 DEF Taken, CallTaken

\* The first record of a call.
LEMMA CallsBegin ==
    ASSUME RotationInv, Shapes, NEW p \in Processes, NEW r \in Rotations,
           \/ PrepareGeneration(p, r) \/ StartActivation(p, r)
           \/ StartRetirement(p, r) \/ StartRevocation(p, r)
           \/ \E ph \in Phases : ProgressDeployment(p, r, ph)
    PROVE  CallTaken(p)
<1> USE DEF RotationInv
<1>0. 0 \in 0 .. MaxFence /\ "overlap" \in Phases /\ "retirement" \in Phases
      /\ rot \in [Rotations -> RotationRecords] /\ rot[r].old \in Keys
      /\ child \in [Rotations -> [Phases -> ChildRecords]]
  BY Constants DEF Phases, TypeInv, RotationTypeOK, RotationRecords
<1>1. CASE PrepareGeneration(p, r)
  <2>1. Begin(p, r, "overlap", 0, "generate") /\ "generate" \in Steps
    BY <1>1 DEF PrepareGeneration, Steps
  <2>2. Status(r)' = "generation-prepared"
    BY <1>0, <1>1 DEF PrepareGeneration, Advance, Status, RotationRecords
  <2>3. ASSUME NEW c \in ProcessRecords, c.pc = "generate", c.r = r
        PROVE  CallInv(c)'
    BY <2>2, <2>3 DEF CallInv, GenerationSteps, DeploymentSteps, ActivationSteps,
       RetirementSteps, RevocationSteps, FromGeneration
  <2> QED
    BY <1>0, <2>1, <2>3, TakenByBegin
<1>2. CASE StartActivation(p, r)
  <2>1. PICK step \in {"activate", "fold-active"} : Begin(p, r, "overlap", 0, step)
    BY <1>2 DEF StartActivation
  <2>2. Status(r) = "overlap-ready" /\ Succeeded(r, "overlap")
    BY <1>2 DEF StartActivation, Status, ChildrenInv, FromOverlapReady
  <2>3. ASSUME NEW c \in ProcessRecords, c.pc = step, c.r = r
        PROVE  CallInv(c)
    BY <2>2, <2>3 DEF CallInv, GenerationSteps, DeploymentSteps, ActivationSteps,
       RetirementSteps, RevocationSteps, FromOverlapReady
  <2> QED
    BY <1>0, <2>1, <2>3, TakenByBegin DEF Steps
<1>3. CASE StartRetirement(p, r)
  <2>1. PICK step \in {"retire", "fold-retired"} :
          /\ Begin(p, r, "retirement", 0, step)
          /\ step = "fold-retired" => keys[rot[r].old] = "retired"
    BY <1>3 DEF StartRetirement
  <2>2. Status(r) = "retirement-ready"
    BY <1>3 DEF StartRetirement, Status
  <2>3. Status(r) \in FromRetirementReady \ {"blocked"}
    BY <2>2 DEF FromRetirementReady
  <2>4. Succeeded(r, "retirement") /\ rot[r].old \notin KnownKeys
    BY <2>3 DEF ChildrenInv, GraphsInv, OldKeyWithdrawn
  <2>5. ASSUME NEW c \in ProcessRecords, c.pc = step, c.r = r
        PROVE  CallInv(c)
    BY <2>1, <2>3, <2>4, <2>5 DEF CallInv, GenerationSteps, DeploymentSteps, ActivationSteps,
       RetirementSteps, RevocationSteps, Gone
  <2> QED
    BY <1>0, <2>1, <2>5, TakenByBegin DEF Steps
<1>4. CASE StartRevocation(p, r)
  <2>1. Begin(p, r, "retirement", 0, "revoke")
    BY <1>4 DEF StartRevocation
  <2>2. Status(r) = "revocation-prepared"
    BY <1>4 DEF StartRevocation, Status
  <2>3. /\ Status(r) \in FromRetirementReady \ {"blocked"} /\ Status(r) \in FromRevocation
        /\ Status(r) \in FromRetired \ {"blocked"}
    BY <2>2 DEF FromRetirementReady, FromRetired, FromRevocation
  <2>4. Succeeded(r, "retirement") /\ rot[r].old \notin KnownKeys /\ Gone(rot[r].old)
    BY <2>3 DEF ChildrenInv, GraphsInv, OldKeyWithdrawn, KeysInv
  <2>5. ASSUME NEW c \in ProcessRecords, c.pc = "revoke", c.r = r
        PROVE  CallInv(c)
    BY <2>3, <2>4, <2>5 DEF CallInv, GenerationSteps, DeploymentSteps, ActivationSteps,
       RetirementSteps, RevocationSteps
  <2> QED
    BY <1>0, <2>1, <2>5, TakenByBegin DEF Steps
<1>5. ASSUME NEW ph \in Phases, ProgressDeployment(p, r, ph)
      PROVE  CallTaken(p)
  <2>1. PICK fence \in 0 .. MaxFence, step \in {"advance", "dispatch", "block-deployment"} :
          /\ Begin(p, r, ph, fence, step)
          /\ step = "dispatch" =>
                child[r][ph].state = "running" /\ SetChild(r, ph, "dispatching")
    <3>1. child[r][ph].fence \in 0 .. MaxFence
      BY <1>0 DEF ChildRecords
    <3> QED
      BY <1>5, <3>1 DEF ProgressDeployment
  <2>2. Status(r) \in FromPrepared(ph) /\ UNCHANGED rot
    BY <1>5 DEF ProgressDeployment, Status, PreparedStatus, FromPrepared, FromOverlap,
       FromRetirement, Phases
  <2>3. step = "dispatch" => child'[r][ph].state = "dispatching"
    BY <1>0, <2>1 DEF SetChild, ChildRecords
  <2>4. ASSUME NEW c \in ProcessRecords, c.pc = step, c.r = r, c.ph = ph
        PROVE  CallInv(c)'
    BY <2>2, <2>3, <2>4 DEF CallInv, GenerationSteps, DeploymentSteps, ActivationSteps,
       RetirementSteps, RevocationSteps, Status
  <2> QED
    BY <2>1, <2>4, TakenByBegin DEF Steps
<1> QED
  BY <1>1, <1>2, <1>3, <1>4, <1>5

\* The next record of a call under way.
LEMMA CallsMoveOn ==
    ASSUME RotationInv, Shapes, NEW p \in Processes,
           \/ ProviderGenerate(p) \/ SubmitGeneration(p) \/ AdmitGenerated(p)
           \/ FoldGenerated(p) \/ BlockGeneration(p)
           \/ DispatchEffect(p) \/ AdvanceCurrent(p) \/ AcceptDeployment(p)
           \/ BlockDeployment(p)
           \/ ActivateNewKey(p) \/ FoldActive(p)
           \/ RetireOldKey(p) \/ FoldRetired(p)
           \/ ProviderRevoke(p) \/ MatchRevoked(p) \/ RevokeOldKey(p)
           \/ FoldCompleted(p) \/ BlockRevocation(p) \/ Crash(p)
    PROVE  CallTaken(p)
<1> USE DEF RotationInv
<1> DEFINE r == proc[p].r
<1>0. /\ CallInv(proc[p])
      /\ keys \in [Keys -> KeyStatuses] /\ custody \in [Keys -> CustodyStatuses]
      /\ child \in [Rotations -> [Phases -> ChildRecords]]
      /\ rot \in [Rotations -> RotationRecords]
      /\ ~At(p, "idle") => r \in Rotations /\ proc[p].ph \in Phases
                           /\ NewKey[r] \in Keys /\ rot[r].old \in Keys
  BY Constants DEF CallsInv, TypeInv, RotationTypeOK, ProbesTypeOK, KeysTypeOK, ProcessRecords,
     RotationRecords
<1>1. ASSUME Return(p)
      PROVE  CallTaken(p)
  BY <1>1, TakenByReturn
<1>2. ASSUME NEW step \in Steps \ {"dispatch"}, ~At(p, "idle"), Goto(p, step),
             \A c \in ProcessRecords :
                c.pc = step /\ c.r = r /\ c.ph = proc[p].ph => CallInv(c) \/ CallInv(c)'
      PROVE  CallTaken(p)
  BY <1>2, TakenByGoto
<1>3. CASE \/ FoldGenerated(p) \/ BlockGeneration(p) \/ AcceptDeployment(p)
           \/ BlockDeployment(p) \/ FoldActive(p) \/ FoldRetired(p) \/ FoldCompleted(p)
           \/ BlockRevocation(p) \/ Crash(p)
  BY <1>1, <1>3 DEF FoldGenerated, BlockGeneration, AcceptDeployment, BlockDeployment,
     FoldActive, FoldRetired, FoldCompleted, BlockRevocation, Crash
<1>4. CASE ProviderGenerate(p)
  <2>1. At(p, "generate") /\ ~At(p, "idle") /\ UNCHANGED rot
        /\ (Status(r) \in FromGeneration)
    BY <1>0, <1>4 DEF ProviderGenerate, At, CallInv, GenerationSteps
  <2>2. CASE custody' = Generated(NewKey[r]) /\ Goto(p, "submit")
    <3>1. custody'[NewKey[r]] # "absent"
      BY <1>0, <2>1, <2>2 DEF Generated
    <3>2. ASSUME NEW c \in ProcessRecords, c.pc = "submit", c.r = r
          PROVE  CallInv(c)'
      BY <2>1, <3>1, <3>2 DEF CallInv, GenerationSteps, DeploymentSteps, ActivationSteps,
         RetirementSteps, RevocationSteps, Status
    <3> QED
      BY <1>2, <2>1, <2>2, <3>2 DEF Steps
  <2>3. CASE Goto(p, "block-generation")
    <3>1. ASSUME NEW c \in ProcessRecords, c.pc = "block-generation", c.r = r
          PROVE  CallInv(c)
      BY <2>1, <3>1 DEF CallInv, GenerationSteps, DeploymentSteps, ActivationSteps,
         RetirementSteps, RevocationSteps
    <3> QED
      BY <1>2, <2>1, <2>3, <3>1 DEF Steps
  <2> QED
    BY <1>1, <1>4, <2>2, <2>3 DEF ProviderGenerate
<1>5. CASE SubmitGeneration(p) \/ AdmitGenerated(p)
  <2>1. ~At(p, "idle") /\ Status(r) \in FromGeneration /\ custody[NewKey[r]] # "absent"
    BY <1>0, <1>5 DEF SubmitGeneration, AdmitGenerated, At, CallInv, GenerationSteps
  <2>2. CASE \E step \in {"admit", "fold-generated"} : Goto(p, step)
    <3>1. PICK step \in {"admit", "fold-generated"} : Goto(p, step)
      BY <2>2
    <3>2. ASSUME NEW c \in ProcessRecords, c.pc = step, c.r = r
          PROVE  CallInv(c)
      BY <2>1, <3>2 DEF CallInv, GenerationSteps, DeploymentSteps, ActivationSteps,
         RetirementSteps, RevocationSteps
    <3> QED
      BY <1>2, <2>1, <3>1, <3>2 DEF Steps
  <2> QED
    BY <1>1, <1>5, <2>2 DEF SubmitGeneration, AdmitGenerated
<1>6. CASE DispatchEffect(p)
  <2>1. ~At(p, "idle") /\ Status(r) \in FromPrepared(proc[p].ph)
    BY <1>0, <1>6 DEF DispatchEffect, At, CallInv, DeploymentSteps
  <2>2. ASSUME NEW c \in ProcessRecords, c.pc = "block-deployment", c.r = r, c.ph = proc[p].ph
        PROVE  CallInv(c)
    BY <2>1, <2>2 DEF CallInv, GenerationSteps, DeploymentSteps, ActivationSteps,
       RetirementSteps, RevocationSteps
  <2>3. CASE Goto(p, "block-deployment")
    BY <1>2, <2>1, <2>2, <2>3 DEF Steps
  <2> QED
    BY <1>1, <1>6, <2>3 DEF DispatchEffect
<1>7. CASE AdvanceCurrent(p)
  <2>1. ~At(p, "idle") /\ Status(r) \in FromPrepared(proc[p].ph) /\ UNCHANGED <<rot, desired, child>>
    BY <1>0, <1>7 DEF AdvanceCurrent, At, CallInv, DeploymentSteps
  <2>2. ASSUME Goto(p, "accept"), Succeeded(r, proc[p].ph), desired = Target(r, proc[p].ph),
               current' = Target(r, proc[p].ph)
        PROVE  CallTaken(p)
    <3>1. PICK s \in Rotations, ph \in Phases : s = r /\ ph = proc[p].ph
      BY <1>0, <2>1
    <3>2. /\ Status(s)' \in FromPrepared(ph) /\ Succeeded(s, ph)'
          /\ current' = Target(s, ph)' /\ desired' = current'
      BY <2>1, <2>2, <3>1 DEF Status, Succeeded, Target
    <3>3. ASSUME NEW c \in ProcessRecords, c.pc = "accept", c.r = s, c.ph = ph
          PROVE  CallInv(c)'
      BY <3>2, <3>3 DEF CallInv, GenerationSteps, DeploymentSteps, ActivationSteps,
         RetirementSteps, RevocationSteps
    <3> QED
      BY <1>2, <2>1, <2>2, <3>1, <3>3 DEF Steps
  <2> QED
    BY <1>1, <1>7, <2>2 DEF AdvanceCurrent, Snapshot, Succeeded
<1>8. CASE ActivateNewKey(p)
  <2>1. ~At(p, "idle") /\ Status(r) \in FromOverlapReady /\ Succeeded(r, "overlap")
    BY <1>0, <1>8 DEF ActivateNewKey, At, CallInv, ActivationSteps
  <2>2. ASSUME NEW c \in ProcessRecords, c.pc = "fold-active", c.r = r
        PROVE  CallInv(c)
    BY <2>1, <2>2 DEF CallInv, GenerationSteps, DeploymentSteps, ActivationSteps,
       RetirementSteps, RevocationSteps
  <2>3. CASE Goto(p, "fold-active")
    BY <1>2, <2>1, <2>2, <2>3 DEF Steps
  <2> QED
    BY <1>1, <1>8, <2>3 DEF ActivateNewKey
<1>9. CASE RetireOldKey(p)
  <2>1. /\ ~At(p, "idle") /\ Status(r) \in FromRetirementReady /\ Succeeded(r, "retirement")
        /\ rot[r].old \notin KnownKeys
        /\ UNCHANGED <<rot, child, current, desired, gateway>>
    BY <1>0, <1>9 DEF RetireOldKey, At, CallInv, RetirementSteps, graphVars
  <2>2. ASSUME Goto(p, "fold-retired"), keys' = Retired(rot[r].old)
        PROVE  CallTaken(p)
    <3>1. keys'[rot'[r].old] = "retired"
      BY <1>0, <2>1, <2>2 DEF Retired
    <3>2. ASSUME NEW c \in ProcessRecords, c.pc = "fold-retired", c.r = r
          PROVE  CallInv(c)'
      BY <2>1, <3>1, <3>2 DEF CallInv, GenerationSteps, DeploymentSteps, ActivationSteps,
         RetirementSteps, RevocationSteps, Gone, Status, Succeeded, KnownKeys
    <3> QED
      BY <1>2, <2>1, <2>2, <3>2 DEF Steps
  <2> QED
    BY <1>1, <1>9, <2>2 DEF RetireOldKey
<1>10. ASSUME ~At(p, "idle"), Status(r) \in FromRetirementReady, Succeeded(r, "retirement"),
              rot[r].old \notin KnownKeys, Gone(rot[r].old), Status(r) \in FromRevocation,
              UNCHANGED <<rot, child, current, desired, gateway>>,
              keys'[rot[r].old] \in {"retired", "revoked"},
              NEW step \in {"match-revoked", "block-revocation", "revoke-key", "fold-completed"},
              Goto(p, step),
              step # "block-revocation" => custody'[rot[r].old] = "revoked",
              step = "fold-completed" => keys'[rot[r].old] = "revoked"
       PROVE  CallTaken(p)
  <2>1. ASSUME NEW c \in ProcessRecords, c.pc = step, c.r = r
        PROVE  CallInv(c)'
    BY <1>10, <2>1 DEF CallInv, GenerationSteps, DeploymentSteps, ActivationSteps,
       RetirementSteps, RevocationSteps, Gone, Status, Succeeded, KnownKeys
  <2> QED
    BY <1>2, <1>10, <2>1 DEF Steps
<1>11. CASE ProviderRevoke(p) \/ MatchRevoked(p) \/ RevokeOldKey(p)
  <2>1. /\ ~At(p, "idle") /\ Status(r) \in FromRetirementReady /\ Succeeded(r, "retirement")
        /\ rot[r].old \notin KnownKeys /\ Gone(rot[r].old) /\ Status(r) \in FromRevocation
        /\ UNCHANGED <<rot, child, current, desired, gateway>>
        /\ ~ProviderRevoke(p) => custody'[rot[r].old] = "revoked" /\ UNCHANGED custody
    BY <1>0, <1>11 DEF ProviderRevoke, MatchRevoked, RevokeOldKey, At, CallInv, RevocationSteps,
       graphVars
  <2>2. CASE ProviderRevoke(p)
    <3>1. UNCHANGED keys /\ VersionRevoked(rot[r].old)[rot[r].old] = "revoked"
      BY <1>0, <2>1, <2>2 DEF ProviderRevoke, VersionRevoked
    <3>2. CASE custody' = VersionRevoked(rot[r].old) /\ Goto(p, "match-revoked")
      BY <1>10, <2>1, <3>1, <3>2 DEF Gone
    <3>3. CASE Goto(p, "block-revocation")
      BY <1>10, <2>1, <3>1, <3>3 DEF Gone
    <3> QED
      BY <1>1, <2>2, <3>2, <3>3 DEF ProviderRevoke
  <2>3. CASE MatchRevoked(p)
    <3>1. UNCHANGED <<keys, custody>> /\ custody'[rot[r].old] = "revoked"
      BY <1>0, <2>3 DEF MatchRevoked, CallInv, At
    <3>2. CASE ~(rot[r].status = "revocation-prepared" /\ RetirementTruth(r))
      BY <1>1, <2>3, <3>2 DEF MatchRevoked
    <3>3. CASE /\ rot[r].status = "revocation-prepared" /\ RetirementTruth(r)
               /\ keys[rot[r].old] = "retired"
      <4>1. Goto(p, "revoke-key")
        BY <2>3, <3>3 DEF MatchRevoked
      <4> QED
        BY <1>10, <2>1, <3>1, <3>3, <4>1
    <3>4. CASE /\ rot[r].status = "revocation-prepared" /\ RetirementTruth(r)
               /\ keys[rot[r].old] = "revoked"
      <4>1. Goto(p, "fold-completed")
        BY <2>3, <3>4 DEF MatchRevoked
      <4> QED
        BY <1>10, <2>1, <3>1, <3>4, <4>1
    <3> QED
      BY <2>1, <3>2, <3>3, <3>4 DEF Gone
  <2>4. CASE RevokeOldKey(p)
    <3>1. /\ keys'[rot[r].old] = "revoked" /\ UNCHANGED custody
          /\ custody'[rot[r].old] = "revoked" /\ Goto(p, "fold-completed")
      BY <1>0, <2>1, <2>4 DEF RevokeOldKey, Revoked, CallInv, At
    <3> QED
      BY <1>10, <2>1, <3>1
  <2> QED
    BY <1>11, <2>2, <2>3, <2>4
<1> QED
  BY <1>3, <1>4, <1>5, <1>6, <1>7, <1>8, <1>9, <1>11

LEMMA CallsStep ==
    ASSUME RotationInv, [RotationNext]_rvars, Shapes
    PROVE  CallsInv'
<1> USE DEF RotationInv
<1>0. /\ proc \in [Processes -> ProcessRecords]
      /\ \A p \in Processes : ~At(p, "idle") => proc[p].r \in Rotations
      /\ \A p \in Processes : CallInv(proc[p])
  BY DEF TypeInv, RotationTypeOK, CallsInv
<1>1. UNCHANGED proc \/ \E p \in Processes : CallTaken(p)
  <2>1. ASSUME NEW p \in Processes, ProcessStep(p)
        PROVE  CallTaken(p)
    BY <2>1, CallsBegin, CallsMoveOn DEF ProcessStep
  <2>2. ASSUME \/ \E r \in Rotations : RotationStep(r)
               \/ \E k \in Keys : DirectKeyCommand(k)
               \/ Environment \/ UNCHANGED rvars
        PROVE  UNCHANGED proc
    BY <2>2 DEF RotationStep, RequestRotation, RequestRotationApproval, DecideRotation,
       AwaitApproval, FoldDecision, BlockRotation, StartDrain, PrepareRevocation,
       PublishProjection, AdmitChild, StartChild, RecoverChild, PrepareDeployment,
       DirectKeyCommand, Environment, rvars
  <2> QED
    BY <2>1, <2>2 DEF RotationNext
\* A call that a step leaves alone is not the one that dispatches.
<1>2. ASSUME NEW q \in Processes, proc'[q] = proc[q]
      PROVE  CallInv(proc[q])'
  <2>1. PICK c : c = proc[q]
    OBVIOUS
  <2>2. c \in ProcessRecords /\ CallInv(c) /\ (c.pc # "idle" => c.r \in Rotations)
    BY <1>0, <2>1 DEF At
  <2>3. CASE c.pc = "idle"
    BY <1>2, <2>1, <2>3 DEF CallInv, GenerationSteps, DeploymentSteps, ActivationSteps,
       RetirementSteps, RevocationSteps
  <2>4. CASE c.pc # "idle"
    <3>1. ASSUME NEW p \in Processes, DispatchEffect(p), proc[p].r = c.r, proc[p].ph = c.ph,
                 c.pc = "dispatch"
          PROVE  FALSE
      <4>1. p = q
        BY <2>1, <3>1 DEF CallsInv, At, DispatchEffect
      <4>2. proc'[p].pc # "dispatch"
        BY <1>0, <3>1 DEF DispatchEffect, Return, Goto, Idle, ProcessRecords
      <4> QED
        BY <1>2, <2>1, <3>1, <4>1, <4>2
    <3>2. CallInv(c)'
      BY <2>2, <2>4, <3>1, CallStays
    <3> QED
      BY <1>2, <2>1, <3>2 DEF CallInv
  <2> QED
    BY <2>3, <2>4
<1>3. CASE UNCHANGED proc
  <2>1. \A q \in Processes : CallInv(proc[q])'
    BY <1>2, <1>3
  <2> QED
    BY <1>3, <2>1 DEF CallsInv, At, CallInv
<1>4. ASSUME NEW p \in Processes, CallTaken(p)
      PROVE  CallsInv'
  <2>1. PICK c \in ProcessRecords : Taken(p, c)
    BY <1>4 DEF CallTaken
  <2>2. /\ proc'[p] = c /\ CallInv(c)'
        /\ \A q \in Processes : q # p => proc'[q] = proc[q]
    BY <1>0, <2>1 DEF Taken
  <2>3. \A q \in Processes : CallInv(proc[q])'
    BY <1>2, <2>2 DEF CallInv
  <2>4. ASSUME NEW x \in Processes, NEW y \in Processes,
               proc'[x].pc = "dispatch", proc'[y].pc = "dispatch",
               proc'[x].r = proc'[y].r, proc'[x].ph = proc'[y].ph
        PROVE  x = y
    <3>1. CASE x # p /\ y # p
      BY <2>2, <2>4, <3>1 DEF CallsInv, At
    <3>2. ASSUME NEW q \in Processes, q # p, proc[q].pc = "dispatch",
                 c.pc = "dispatch", proc[q].r = c.r, proc[q].ph = c.ph
          PROVE  FALSE
      BY <1>0, <2>1, <3>2 DEF Taken, CallInv
    <3> QED
      BY <2>2, <2>4, <3>1, <3>2
  <2> QED
    BY <2>3, <2>4 DEF CallsInv, At, CallInv
<1> QED
  BY <1>1, <1>3, <1>4

-----------------------------------------------------------------------------
(* The invariant and its consequences.                                     *)

LEMMA RotationInvInit == RotationInit => RotationInv
<1> SUFFICES ASSUME RotationInit
             PROVE  RotationInv
  OBVIOUS
<1>1. TypeInv
  BY TypeInit
<1>2. \A r \in Rotations : Status(r) = "none" /\ rot[r].status = "none"
  BY DEF RotationInit, NoRequest, Status
<1>3. \A r \in Rotations, ph \in Phases : child[r][ph].state = "none"
  BY DEF RotationInit
<1>4. \A p \in Processes : proc[p].pc = "idle"
  BY DEF RotationInit, Idle
<1>5. OneRotates
  BY <1>2 DEF OneRotates, Nonterminal
<1>6. ChildrenInv
  BY <1>2, <1>3 DEF ChildrenInv, Published, FromOverlapReady, FromDraining, FromRetirement,
     FromRetirementReady, FromRetired, FromRevocation, Phases
<1>7. TargetsDiffer /\ ChildrenPin
  BY <1>3 DEF TargetsDiffer, ChildrenPin, Published, Succeeded
<1>8. OverlapHolds /\ OldKeyWithdrawn
  BY <1>2 DEF OverlapHolds, OldKeyWithdrawn, FromRetirementReady, FromRetired, FromRevocation
<1>9. NewKeysAreNew
  <2>1. \A r \in Rotations : NewKey[r] \in Keys /\ NewKey[r] # FirstKey
    BY RotationAssumption
  <2>2. \A r \in Rotations : keys[NewKey[r]] = "absent"
    BY <2>1 DEF RotationInit, ProbesInit, KeysInit
  <2>3. \A r \in Rotations : ~Published(r, "overlap")
    BY <1>3 DEF Published, Phases
  <2> QED
    BY <2>2, <2>3 DEF NewKeysAreNew
<1>10. KeysInv
  <2>1. \A k \in Keys : /\ custody[k] # "revoked"
                        /\ custody[k] = "absent" => keys[k] = "absent"
    BY DEF RotationInit, ProbesInit, KeysInit
  <2> QED
    BY <1>2, <2>1 DEF KeysInv, FromRetired, FromRevocation
<1>11. CallsInv
  BY <1>4 DEF CallsInv, CallInv, At, GenerationSteps, DeploymentSteps, ActivationSteps,
     RetirementSteps, RevocationSteps
<1>12. gateway \in {current, desired}
  BY DEF RotationInit, ProbesInit
<1> QED
  BY <1>1, <1>5, <1>6, <1>7, <1>8, <1>9, <1>10, <1>11, <1>12 DEF RotationInv, GraphsInv

LEMMA RotationInvStep == RotationInv /\ [RotationNext]_rvars => RotationInv'
<1> SUFFICES ASSUME RotationInv, [RotationNext]_rvars
             PROVE  RotationInv'
  OBVIOUS
<1>1. TypeInv /\ Shapes
  BY StepShapes DEF RotationInv
<1>2. TypeInv'
  BY <1>1, TypeStep
<1>3. OneRotates'
  BY <1>1, OneRotatesStep DEF RotationInv
<1>4. ChildrenInv' /\ GraphsInv' /\ KeysInv' /\ CallsInv'
  BY <1>1, ChildrenStep, GraphsStep, KeysStep, CallsStep
<1> QED
  BY <1>2, <1>3, <1>4 DEF RotationInv

\* What the rotations, their children, the two projections, the keys and the
\* calls under way promise each other.
THEOREM RotationInvariant == RotationSpec => []RotationInv
BY RotationInvInit, RotationInvStep, PTL DEF RotationSpec

\* The state has its type: no fold, replay or crash leaves a rotation, a child
\* or a call outside the program's own vocabulary.
THEOREM RotationTypeCorrect == RotationSpec => []RotationTypeOK
<1>1. RotationInv => RotationTypeOK
  BY DEF RotationInv, TypeInv
<1> QED
  BY <1>1, RotationInvariant, PTL

\* A completed rotation has replaced the key for good, whatever later rotations
\* and late calls do.
THEOREM CompletedIsReplaced == RotationSpec => []CompletedMeansReplaced
<1>1. RotationInv => CompletedMeansReplaced
  BY DEF RotationInv, GraphsInv, KeysInv, OldKeyWithdrawn, KnownKeys, CompletedMeansReplaced,
     Status, FromRetirementReady, FromRetired, FromRevocation
<1> QED
  BY <1>1, RotationInvariant, PTL

\* Of the key's lifecycle, whichever commands are issued: once retired or revoked
\* a key is never a verification key again.
THEOREM GoneKeysStayGone ==
    RotationSpec => [][\A k \in Keys : Gone(k) => Gone(k)']_rvars
<1>1. RotationInv /\ [RotationNext]_rvars => [\A k \in Keys : Gone(k) => Gone(k)']_rvars
  BY StepShapes, KeysStay DEF RotationInv
<1> QED
  BY <1>1, RotationInvariant, PTL DEF RotationSpec

-----------------------------------------------------------------------------
(* The drain.  What a key is withdrawn for is over by then: its grants were *)
(* requested before the replacement was recorded, or by a late activation.  *)

\* Statuses of a rotation whose replacement is recorded.
FromReplaced == {"new-key-active"} \cup FromDraining

\* The projection without the key is published, and its drain is over.
Retiring(k) ==
    \E r \in Rotations :
        /\ rot[r].old = k /\ Published(r, "retirement")
        /\ rot[r].deadline > 0 /\ rot[r].deadline <= now

Covered(k) == k \in current \cap desired \/ Retiring(k)

GrantsBounded ==
    \A q \in Requests :
        probes[q].status # "none" =>
            /\ probes[q].requested <= now
            /\ probes[q].expires <= probes[q].requested + MaxSkew + GrantLifetime

DeadlinesCover ==
    \A r \in Rotations :
        /\ rot[r].deadline > 0 =>
              /\ Status(r) \in FromReplaced
              /\ rot[r].replaced + MaxSkew + GrantLifetime <= rot[r].deadline
        /\ Status(r) \in {"new-key-active", "draining-old-grants"} => rot[r].deadline > 0

SignersAreCovered ==
    /\ \A k \in Keys : IsSigner(k) => Covered(k)
    /\ \A p \in Processes : At(p, "activate") => Covered(NewKey[proc[p].r])

GrantsAreCovered ==
    \A q \in LiveGrants :
        probes[q].key \in current \cap desired \/ RequestedAfterReplacement(q)

\* What the projections, the signer and the grants have to do with each other
\* while nothing disturbs the rotations.
DrainInv ==
    Undisturbed =>
        /\ GrantsBounded /\ DeadlinesCover /\ SignersAreCovered /\ GrantsAreCovered

\* A step that leaves the rotations undisturbed found them so.
LEMMA UndisturbedBefore ==
    ASSUME TypeInv, TypeInv', [RotationNext]_rvars, Shapes, Undisturbed'
    PROVE  Undisturbed /\ ~ \E k \in Keys : DirectKeyCommand(k)
<1>1. directs \in Nat /\ directs' = 0
  BY Constants DEF TypeInv, RotationTypeOK, Undisturbed
<1>2. ~ \E k \in Keys : DirectKeyCommand(k)
  BY <1>1 DEF DirectKeyCommand
<1>3. directs = 0
  BY <1>1, <1>2, OthersMove
<1>4. ASSUME NEW r \in Rotations, rot[r].status # "none"
      PROVE  rot[r].life >= GrantLifetime
  <2>1. rot'[r].status # "none" /\ rot'[r].life = rot[r].life
    BY <1>4, StatusMoves DEF Status
  <2> QED
    BY <2>1 DEF Undisturbed
<1> QED
  BY <1>2, <1>3, <1>4 DEF Undisturbed

\* Time does not go back.
LEMMA ClockMoves == TypeInv /\ [RotationNext]_rvars => now' \in Nat /\ now \in Nat /\ now' >= now
<1> SUFFICES ASSUME TypeInv, [RotationNext]_rvars
             PROVE  now' \in Nat /\ now \in Nat /\ now' >= now
  OBVIOUS
<1>1. now \in Nat
  BY Constants DEF TypeInv, RotationTypeOK, ProbesTypeOK
<1>2. CASE Environment
  BY <1>1, <1>2 DEF Environment, RequestProbe, CompleteProbe, AbandonProbe, Tick
<1> QED
  BY <1>1, <1>2, OthersMove

\* How the grants move: one is issued by the signer, within the skew and the
\* lifetime, or none changes its key and expiry.
LEMMA GrantMoves ==
    ASSUME TypeInv, [RotationNext]_rvars, NEW q \in Requests, probes'[q].status # "none"
    PROVE  \/ /\ probes[q].status # "none" /\ probes'[q].key = probes[q].key
              /\ probes'[q].requested = probes[q].requested
              /\ probes'[q].expires = probes[q].expires
           \/ /\ IsSigner(probes'[q].key) /\ probes'[q].key \in Keys
              /\ probes'[q].requested = now
              /\ probes'[q].expires <= now + MaxSkew + GrantLifetime
              /\ UNCHANGED <<tables, rot, proc, now>>
<1>0. /\ probes \in [Requests -> ProbeAttempts] /\ now \in Nat
      /\ MaxSkew \in Nat /\ GrantLifetime \in Nat
  BY Constants DEF TypeInv, RotationTypeOK, ProbesTypeOK
<1>1. CASE UNCHANGED <<probes, inflight, now>>
  BY <1>0, <1>1
<1>2. ASSUME NEW x \in Requests, NEW skew \in 0 .. MaxSkew, RequestProbe(x, skew),
             UNCHANGED <<rot, approval, graphVars, child, proc, directs>>
      PROVE  \/ probes'[q] = probes[q]
             \/ /\ IsSigner(probes'[q].key) /\ probes'[q].key \in Keys
                /\ probes'[q].requested = now
                /\ probes'[q].expires <= now + MaxSkew + GrantLifetime
                /\ UNCHANGED <<tables, rot, proc, now>>
  <2>1. PICK k \in Keys :
          /\ IsSigner(k)
          /\ probes' = [probes EXCEPT ![x] =
               [status |-> "intended", key |-> k, requested |-> now,
                expires |-> now + skew + GrantLifetime]]
    BY <1>2 DEF RequestProbe
  <2>2. now + skew + GrantLifetime <= now + MaxSkew + GrantLifetime
    BY <1>0
  <2>3. UNCHANGED <<tables, rot, proc, now>>
    BY <1>2 DEF RequestProbe, tables, graphVars
  <2>4. CASE x = q
    <3>1. probes'[q].key = k /\ probes'[q].requested = now
          /\ probes'[q].expires = now + skew + GrantLifetime
      BY <1>0, <2>1, <2>4
    <3> QED
      BY <2>1, <2>2, <2>3, <3>1
  <2>5. CASE x # q
    BY <1>0, <2>1, <2>3, <2>5
  <2> QED
    BY <2>4, <2>5
<1>3. ASSUME NEW x \in Requests, CompleteProbe(x) \/ AbandonProbe(x)
      PROVE  /\ probes[q].status # "none" /\ probes'[q].key = probes[q].key
             /\ probes'[q].requested = probes[q].requested
             /\ probes'[q].expires = probes[q].expires
  <2>1. CASE AbandonProbe(x)
    BY <2>1 DEF AbandonProbe
  <2>2. CASE CompleteProbe(x)
    <3>1. PICK st : probes' = [probes EXCEPT ![x] = [probes[x] EXCEPT !.status = st]]
                    /\ (st # probes[x].status => probes[x].status = "intended")
      BY <1>0, <2>2 DEF CompleteProbe
    <3> QED
      BY <1>0, <2>2, <3>1 DEF CompleteProbe, ProbeAttempts
  <2> QED
    BY <1>3, <2>1, <2>2
<1>4. CASE Tick
  BY <1>0, <1>4 DEF Tick
<1> QED
  BY <1>0, <1>1, <1>2, <1>3, <1>4, OthersMove DEF Environment

\* How the signer changes: by the activation of a call under way.
LEMMA SignerMoves ==
    ASSUME RotationInv, Shapes, ~ \E k \in Keys : DirectKeyCommand(k),
           NEW k \in Keys, keys'[k] = "active"
    PROVE  \/ IsSigner(k)
           \/ \E p \in Processes :
                 /\ At(p, "activate") /\ k = NewKey[proc[p].r]
                 /\ UNCHANGED <<custody, gateway, current, desired, child, rot, probes, now>>
<1>0. keys \in [Keys -> KeyStatuses]
  BY DEF RotationInv, TypeInv, RotationTypeOK, ProbesTypeOK, KeysTypeOK
<1>n. \A p \in Processes : ~At(p, "idle") => NewKey[proc[p].r] \in Keys /\ rot[proc[p].r].old \in Keys
  BY Constants DEF RotationInv, TypeInv, RotationTypeOK, RotationRecords
<1>1. CASE UNCHANGED keys
  BY <1>1 DEF IsSigner
<1>2. CASE KeyStep
  <2>1. ASSUME NEW p \in Processes, AdmitGenerated(p)
        PROVE  IsSigner(k)
    BY <1>0, <2>1 DEF AdmitGenerated, Registered, IsSigner
  <2>2. ASSUME NEW p \in Processes, At(p, "retire"), keys' = Retired(rot[proc[p].r].old)
        PROVE  IsSigner(k)
    BY <1>0, <2>2 DEF Retired, IsSigner
  <2>3. ASSUME NEW p \in Processes, RevokeOldKey(p)
        PROVE  IsSigner(k)
    BY <1>0, <2>3 DEF RevokeOldKey, Revoked, IsSigner
  <2>4. ASSUME NEW p \in Processes, At(p, "activate"), keys' = Activated(NewKey[proc[p].r])
        PROVE  k = NewKey[proc[p].r]
    BY <1>0, <2>4 DEF Activated
  <2>5. UNCHANGED <<custody, gateway, current, desired, child, rot, probes, now>>
    BY <1>2 DEF KeyStep
  <2> QED
    BY <1>2, <2>1, <2>2, <2>3, <2>4, <2>5 DEF KeyStep
<1> QED
  BY <1>1, <1>2 DEF Shapes, RotStep, ChildStep, CustodyStep, QuietStep, PublishProjection,
     DispatchEffect, AdvanceCurrent, tables

\* Where a call starts to activate a key, or to fold an activation.
LEMMA ActivationStarts ==
    ASSUME TypeInv, [RotationNext]_rvars, NEW p \in Processes, proc'[p] # proc[p]
    PROVE  /\ proc'[p].pc = "activate" => \E s \in Rotations : StartActivation(p, s)
           /\ proc'[p].pc = "fold-active" =>
                 (\E s \in Rotations : StartActivation(p, s)) \/ ActivateNewKey(p)
<1>0. proc \in [Processes -> ProcessRecords]
  BY DEF TypeInv, RotationTypeOK
<1>1. ASSUME NEW x \in Processes, NEW step \in Steps \ ActivationSteps,
             \/ Goto(x, step) \/ Return(x)
             \/ \E r, ph, fence : Begin(x, r, ph, fence, step)
      PROVE  proc'[p].pc \notin ActivationSteps
  BY <1>0, <1>1 DEF Goto, Return, Begin, Idle, ProcessRecords, ActivationSteps, Steps
<1>2. ASSUME NEW x \in Processes, NEW r \in Rotations,
             \/ PrepareGeneration(x, r) \/ StartRetirement(x, r) \/ StartRevocation(x, r)
             \/ \E ph \in Phases : ProgressDeployment(x, r, ph)
      PROVE  proc'[p].pc \notin ActivationSteps
  <2>1. \E step \in Steps \ ActivationSteps : \E s, ph, fence : Begin(x, s, ph, fence, step)
    BY <1>2 DEF PrepareGeneration, StartRetirement, StartRevocation, ProgressDeployment, Steps,
       ActivationSteps
  <2> QED
    BY <1>1, <2>1
<1>3. ASSUME NEW x \in Processes,
             \/ ProviderGenerate(x) \/ SubmitGeneration(x) \/ AdmitGenerated(x)
             \/ FoldGenerated(x) \/ BlockGeneration(x) \/ AcceptDeployment(x)
             \/ BlockDeployment(x) \/ FoldActive(x) \/ FoldRetired(x) \/ FoldCompleted(x)
             \/ BlockRevocation(x) \/ Crash(x)
      PROVE  proc'[p].pc \notin ActivationSteps
  <2>1. Return(x) \/ \E step \in Steps \ ActivationSteps : Goto(x, step)
    BY <1>3 DEF Steps, ActivationSteps, ProviderGenerate, SubmitGeneration, AdmitGenerated,
       FoldGenerated, BlockGeneration, AcceptDeployment, BlockDeployment, FoldActive, FoldRetired,
       FoldCompleted, BlockRevocation, Crash
  <2> QED
    BY <1>1, <2>1 DEF Steps, ActivationSteps
<1>4. ASSUME NEW x \in Processes,
             \/ DispatchEffect(x) \/ AdvanceCurrent(x) \/ RetireOldKey(x) \/ ProviderRevoke(x)
             \/ RevokeOldKey(x)
      PROVE  proc'[p].pc \notin ActivationSteps
  <2>1. Return(x) \/ \E step \in Steps \ ActivationSteps : Goto(x, step)
    BY <1>4 DEF Steps, ActivationSteps, DispatchEffect, AdvanceCurrent, RetireOldKey,
       ProviderRevoke, RevokeOldKey
  <2> QED
    BY <1>1, <2>1 DEF Steps, ActivationSteps
<1>5. ASSUME NEW x \in Processes, MatchRevoked(x)
      PROVE  proc'[p].pc \notin ActivationSteps
  <2>1. Return(x) \/ \E step \in Steps \ ActivationSteps : Goto(x, step)
    <3>1. CASE keys[rot[proc[x].r].old] = "retired"
      BY <1>5, <3>1 DEF MatchRevoked, Steps, ActivationSteps
    <3>2. CASE keys[rot[proc[x].r].old] = "revoked"
      BY <1>5, <3>2 DEF MatchRevoked, Steps, ActivationSteps
    <3>3. CASE keys[rot[proc[x].r].old] \notin {"retired", "revoked"}
      BY <1>5, <3>3 DEF MatchRevoked, Steps, ActivationSteps
    <3> QED
      BY <3>1, <3>2, <3>3
  <2> QED
    BY <1>1, <2>1 DEF Steps, ActivationSteps
<1>6. ASSUME NEW x \in Processes, NEW s \in Rotations, StartActivation(x, s)
      PROVE  x = p
  BY <1>0, <1>6 DEF StartActivation, Begin
<1>7. ASSUME NEW x \in Processes, ActivateNewKey(x)
      PROVE  x = p /\ proc'[p].pc # "activate"
  BY <1>0, <1>7 DEF ActivateNewKey, Goto, Return, Idle, ProcessRecords
<1>8. ASSUME \/ \E r \in Rotations : RotationStep(r)
             \/ \E k \in Keys : DirectKeyCommand(k)
             \/ Environment \/ UNCHANGED rvars
      PROVE  FALSE
  BY <1>8 DEF RotationStep, RequestRotation, RequestRotationApproval, DecideRotation,
     AwaitApproval, FoldDecision, BlockRotation, StartDrain, PrepareRevocation,
     PublishProjection, AdmitChild, StartChild, RecoverChild, PrepareDeployment,
     DirectKeyCommand, Environment, rvars
<1>9. ASSUME NEW x \in Processes, ProcessStep(x)
      PROVE  \/ proc'[p].pc \notin ActivationSteps
             \/ \E s \in Rotations : StartActivation(p, s)
             \/ ActivateNewKey(p) /\ proc'[p].pc # "activate"
  BY <1>2, <1>3, <1>4, <1>5, <1>6, <1>7, <1>9 DEF ProcessStep
<1> QED
  BY <1>8, <1>9 DEF RotationNext, ActivationSteps

\* How the record of a replacement and its deadline move.
LEMMA DeadlineMoves ==
    ASSUME TypeInv, Shapes, NEW r \in Rotations
    PROVE  \/ rot'[r] = rot[r]
           \/ /\ rot'[r].deadline = rot[r].deadline /\ rot'[r].replaced = rot[r].replaced
              /\ Status(r)' # "new-key-active"
              /\ Status(r)' = "draining-old-grants" => Status(r) = "new-key-active"
              /\ Status(r) \in FromReplaced => Status(r)' \in FromReplaced
           \/ rot'[r].deadline = 0 /\ Status(r)' = "requested" /\ Status(r) = "none"
           \/ /\ Status(r)' = "new-key-active" /\ Status(r) = "overlap-ready"
              /\ rot'[r].replaced = now /\ rot'[r].deadline = now + rot[r].life + ClockSkew
              /\ rot'[r].life = rot[r].life
<1>0. rot \in [Rotations -> RotationRecords]
  BY DEF TypeInv, RotationTypeOK
<1>1. ASSUME NEW to \in RotationStatuses, NEW d \in Nat, Moves(r, to, d)
      PROVE  /\ Status(r)' = to /\ rot'[r].deadline = d /\ rot'[r].replaced = ReplacedBy(r, to)
             /\ rot'[r].life = rot[r].life /\ to \in LegalTargets(Status(r))
             /\ to # "new-key-active" => d = rot[r].deadline
             /\ to = "new-key-active" => d = now + rot[r].life + ClockSkew
  BY <1>0, <1>1 DEF Moves, RotationRecords, Status
<1>2. ASSUME NEW to \in LegalTargets(Status(r))
      PROVE  /\ to = "new-key-active" => Status(r) = "overlap-ready"
             /\ to = "draining-old-grants" => Status(r) = "new-key-active"
             /\ Status(r) \in FromReplaced => to \in FromReplaced
  BY <1>2, LegalMoves DEF FromReplaced, FromDraining, FromRetirement, FromRetirementReady,
     FromRetired, FromRevocation
<1>3. ASSUME NEW s \in Rotations, NEW to \in RotationStatuses, NEW d \in Nat, Moves(s, to, d),
             rot'[r] # rot[r]
      PROVE  r = s
  BY <1>0, <1>3 DEF Moves
<1>4. ASSUME NEW s \in Rotations, NEW old \in Keys, NEW life \in Lifetimes,
             Requested(s, old, life), rot'[r] # rot[r]
      PROVE  rot'[r].deadline = 0 /\ Status(r)' = "requested" /\ Status(r) = "none"
  BY <1>0, <1>4 DEF Requested, Status
<1>5. CASE RotStep /\ rot'[r] # rot[r]
  <2>1. CASE \E s \in Rotations, old \in Keys, life \in Lifetimes : Requested(s, old, life)
    BY <1>4, <1>5, <2>1
  <2>2. CASE \E s \in Rotations, to \in RotationStatuses, d \in Nat : Moves(s, to, d)
    <3>1. PICK to \in RotationStatuses, d \in Nat : Moves(r, to, d)
      BY <1>3, <1>5, <2>2
    <3> QED
      BY <1>1, <1>2, <3>1 DEF ReplacedBy
  <2> QED
    BY <1>5, <2>1, <2>2 DEF RotStep
<1> QED
  BY <1>5 DEF Shapes, ChildStep, KeyStep, CustodyStep, QuietStep, PublishProjection,
     DispatchEffect, AdvanceCurrent

LEMMA DeadlinesCoverStep ==
    ASSUME TypeInv, Shapes, Undisturbed, DeadlinesCover
    PROVE  DeadlinesCover'
<1>0. /\ rot \in [Rotations -> RotationRecords] /\ now \in Nat
      /\ ClockSkew \in Nat /\ MaxSkew \in Nat /\ GrantLifetime \in Nat
  BY Constants DEF TypeInv, RotationTypeOK, ProbesTypeOK
<1> SUFFICES ASSUME NEW r \in Rotations
             PROVE  /\ rot'[r].deadline > 0 =>
                          /\ Status(r)' \in FromReplaced
                          /\ rot'[r].replaced + MaxSkew + GrantLifetime <= rot'[r].deadline
                    /\ Status(r)' \in {"new-key-active", "draining-old-grants"} =>
                          rot'[r].deadline > 0
  BY DEF DeadlinesCover
<1>1. CASE rot'[r] = rot[r]
  BY <1>1 DEF DeadlinesCover, Status
<1>2. CASE /\ rot'[r].deadline = rot[r].deadline /\ rot'[r].replaced = rot[r].replaced
           /\ Status(r)' # "new-key-active"
           /\ Status(r)' = "draining-old-grants" => Status(r) = "new-key-active"
           /\ Status(r) \in FromReplaced => Status(r)' \in FromReplaced
  BY <1>2 DEF DeadlinesCover
<1>3. CASE rot'[r].deadline = 0 /\ Status(r)' = "requested"
  BY <1>3
<1>4. CASE /\ Status(r)' = "new-key-active" /\ Status(r) = "overlap-ready"
           /\ rot'[r].replaced = now /\ rot'[r].deadline = now + rot[r].life + ClockSkew
  <2>1. rot[r].life >= GrantLifetime /\ ClockSkew >= MaxSkew /\ GrantLifetime > 0
    BY <1>4, ProbesAssumption DEF Undisturbed, Status
  <2>2. rot[r].life \in Nat
    BY <1>0, Constants DEF RotationRecords
  <2>3. now + MaxSkew + GrantLifetime <= now + rot[r].life + ClockSkew
        /\ now + rot[r].life + ClockSkew > 0
    BY <1>0, <2>1, <2>2
  <2> QED
    BY <1>4, <2>3 DEF FromReplaced
<1> QED
  BY <1>1, <1>2, <1>3, <1>4, DeadlineMoves

LEMMA GrantsBoundedStep ==
    ASSUME TypeInv, [RotationNext]_rvars, GrantsBounded
    PROVE  GrantsBounded'
<1>0. now \in Nat /\ now' \in Nat /\ now' >= now /\ probes \in [Requests -> ProbeAttempts]
  BY ClockMoves DEF TypeInv, RotationTypeOK, ProbesTypeOK
<1>1. ASSUME NEW q \in Requests, probes'[q].status # "none"
      PROVE  /\ probes'[q].requested <= now'
             /\ probes'[q].expires <= probes'[q].requested + MaxSkew + GrantLifetime
  <2>1. CASE /\ probes[q].status # "none" /\ probes'[q].expires = probes[q].expires
             /\ probes'[q].requested = probes[q].requested
    <3>1. probes[q].requested \in Nat /\ probes[q].requested <= now
          /\ probes[q].expires <= probes[q].requested + MaxSkew + GrantLifetime
      BY <1>0, <2>1 DEF GrantsBounded, ProbeAttempts
    <3>2. probes[q].requested <= now'
      BY <1>0, <3>1
    <3> QED
      BY <2>1, <3>1, <3>2
  <2>2. CASE /\ probes'[q].requested = now /\ UNCHANGED now
             /\ probes'[q].expires <= now + MaxSkew + GrantLifetime
    BY <1>0, <2>2
  <2> QED
    BY <1>1, <2>1, <2>2, GrantMoves
<1> QED
  BY <1>1 DEF GrantsBounded

\* The keys that both projections have stay there: only the publication of a
\* retirement withdraws one, and that is the old key of a drained rotation.
LEMMA CommonKeysStay ==
    ASSUME RotationInv, Shapes
    PROVE  \/ current \cap desired \subseteq current' \cap desired'
           \/ \E r \in Rotations :
                 /\ Published(r, "retirement")'
                 /\ Status(r) = "draining-old-grants" /\ now >= rot[r].deadline
                 /\ current = {rot[r].old, NewKey[r]} /\ desired = current
                 /\ current' = current /\ desired' = {NewKey[r]}
                 /\ UNCHANGED <<keys, rot, proc, probes, now>>
<1> USE DEF RotationInv
<1>1. ASSUME NEW r \in Rotations, PublishProjection(r, "overlap")
      PROVE  current \cap desired \subseteq current' \cap desired'
  BY <1>1, PublishIsNew DEF Base, Target, Phases
<1>2. ASSUME NEW r \in Rotations, PublishProjection(r, "retirement")
      PROVE  /\ Published(r, "retirement")'
             /\ Status(r) = "draining-old-grants" /\ now >= rot[r].deadline
             /\ current = {rot[r].old, NewKey[r]} /\ desired = current
             /\ current' = current /\ desired' = {NewKey[r]}
             /\ UNCHANGED <<keys, rot, proc, probes, now>>
  <2>1. Status(r) = "draining-old-grants" /\ now >= rot[r].deadline
    BY <1>2 DEF PublishProjection, PhaseReady, RetirementReady, Drained, Status
  <2>2. Published(r, "retirement")'
    BY <1>2 DEF PublishProjection, SetChild, Published, TypeInv, RotationTypeOK, Phases
  <2> QED
    BY <1>2, <2>1, <2>2, PublishIsNew DEF Base, Target, Phases
<1>3. ASSUME NEW p \in Processes, DispatchEffect(p)
      PROVE  UNCHANGED <<current, desired>>
  BY <1>3, EffectIsDesired
<1> QED
  BY <1>1, <1>2, <1>3, GraphMoves DEF Phases

\* Once a drained key's retirement is published it stays so.
LEMMA RetiringStays ==
    ASSUME RotationInv, [RotationNext]_rvars, Shapes, NEW k, Retiring(k)
    PROVE  Retiring(k)'
<1> USE DEF RotationInv
<1>0. /\ rot \in [Rotations -> RotationRecords] /\ now \in Nat /\ now' \in Nat /\ now' >= now
  BY ClockMoves DEF TypeInv, RotationTypeOK
<1>1. PICK r \in Rotations :
        /\ rot[r].old = k /\ Published(r, "retirement")
        /\ rot[r].deadline > 0 /\ rot[r].deadline <= now
  BY DEF Retiring
<1>2. Status(r) \in FromDraining
  BY <1>1 DEF ChildrenInv
<1>3. Status(r) \notin {"none", "overlap-ready"}
  BY <1>2 DEF FromDraining, FromRetirement, FromRetirementReady, FromRetired, FromRevocation
<1>4. rot'[r].old = k /\ rot'[r].deadline = rot[r].deadline
  BY <1>1, <1>3, StatusMoves, DeadlineMoves
<1>5. Published(r, "retirement")'
  BY <1>1, ChildMoves DEF Phases
<1>6. rot[r].deadline <= now'
  BY <1>0, <1>1 DEF RotationRecords
<1> QED
  BY <1>1, <1>4, <1>5, <1>6 DEF Retiring

LEMMA CoveredStays ==
    ASSUME RotationInv, [RotationNext]_rvars, Shapes, DeadlinesCover, NEW k, Covered(k)
    PROVE  Covered(k)'
<1>1. CASE Retiring(k)
  BY <1>1, RetiringStays DEF Covered
<1>2. ASSUME k \in current \cap desired, NEW r \in Rotations, Published(r, "retirement")',
             Status(r) = "draining-old-grants", now >= rot[r].deadline,
             current = {rot[r].old, NewKey[r]}, current' = current, desired' = {NewKey[r]},
             UNCHANGED <<rot, now>>
      PROVE  Covered(k)'
  <2>1. CASE k = NewKey[r]
    BY <1>2, <2>1 DEF Covered
  <2>2. CASE k = rot[r].old
    <3>1. rot[r].deadline > 0
      BY <1>2 DEF DeadlinesCover
    <3>2. rot[r].deadline \in Nat /\ now \in Nat
      BY Constants DEF RotationInv, TypeInv, RotationTypeOK, ProbesTypeOK, RotationRecords
    <3>3. rot[r].deadline <= now
      BY <1>2, <3>2
    <3> QED
      BY <1>2, <2>2, <3>1, <3>3 DEF Covered, Retiring
  <2> QED
    BY <1>2, <2>1, <2>2
<1> QED
  BY <1>1, <1>2, CommonKeysStay DEF Covered

LEMMA SignersStep ==
    ASSUME RotationInv, [RotationNext]_rvars, Shapes,
           ~ \E k \in Keys : DirectKeyCommand(k), DeadlinesCover, SignersAreCovered
    PROVE  SignersAreCovered'
<1> USE DEF RotationInv
<1>0. /\ proc \in [Processes -> ProcessRecords]
      /\ \A p \in Processes : ~At(p, "idle") => proc[p].r \in Rotations
  BY DEF TypeInv, RotationTypeOK
<1>1. ASSUME NEW k \in Keys, keys'[k] = "active"
      PROVE  Covered(k)'
  <2>1. Covered(k)
    BY <1>1, SignerMoves DEF SignersAreCovered
  <2> QED
    BY <2>1, CoveredStays
<1>2. ASSUME NEW p \in Processes, proc'[p].pc = "activate"
      PROVE  Covered(NewKey[proc[p].r])'
  <2>1. CASE proc'[p] = proc[p]
    <3>1. PICK k : k = NewKey[proc[p].r]
      OBVIOUS
    <3>2. Covered(k)
      BY <1>2, <2>1, <3>1 DEF At, SignersAreCovered
    <3>3. Covered(k)'
      BY <2>1, <3>1, <3>2, CoveredStays
    <3> QED
      BY <2>1, <3>1, <3>3 DEF Covered, Retiring
  <2>2. ASSUME NEW s \in Rotations, StartActivation(p, s)
        PROVE  Covered(NewKey[proc[p].r])'
    <3>1. /\ Status(s) = "overlap-ready" /\ proc'[p].r = s /\ UNCHANGED <<current, desired>>
      BY <1>0, <2>2 DEF StartActivation, Status, Begin, graphVars
    <3>2. ~Published(s, "retirement")
      BY <3>1 DEF ChildrenInv, FromDraining, FromRetirement, FromRetirementReady, FromRetired,
         FromRevocation
    <3>3. current = Target(s, "overlap") /\ desired = current
      BY <3>1, <3>2 DEF GraphsInv, OverlapHolds
    <3> QED
      BY <3>1, <3>3 DEF Target, Covered
  <2> QED
    BY <1>2, <2>1, <2>2, ActivationStarts
<1> QED
  BY <1>1, <1>2 DEF SignersAreCovered, IsSigner, At

\* A grant that was requested after the replacement of its key stays one.
LEMMA AfterReplacementStays ==
    ASSUME TypeInv, Shapes, DeadlinesCover, NEW q \in Requests, RequestedAfterReplacement(q),
           probes'[q].key = probes[q].key, probes'[q].requested = probes[q].requested
    PROVE  RequestedAfterReplacement(q)'
<1>1. PICK r \in Rotations :
        /\ rot[r].old = probes[q].key
        /\ rot[r].deadline > 0 /\ probes[q].requested > rot[r].replaced
  BY DEF RequestedAfterReplacement
<1>2. Status(r) \in FromReplaced
  BY <1>1 DEF DeadlinesCover
<1>3. Status(r) \notin {"none", "overlap-ready"}
  BY <1>2 DEF FromReplaced, FromDraining, FromRetirement, FromRetirementReady, FromRetired,
     FromRevocation
<1>4. /\ rot'[r].old = rot[r].old /\ rot'[r].deadline = rot[r].deadline
      /\ rot'[r].replaced = rot[r].replaced
  BY <1>3, StatusMoves, DeadlineMoves
<1> QED
  BY <1>1, <1>4 DEF RequestedAfterReplacement

LEMMA GrantsStep ==
    ASSUME RotationInv, [RotationNext]_rvars, Shapes, GrantsBounded, DeadlinesCover,
           SignersAreCovered, GrantsAreCovered
    PROVE  GrantsAreCovered'
<1> USE DEF RotationInv
<1>0. /\ probes \in [Requests -> ProbeAttempts] /\ rot \in [Rotations -> RotationRecords]
      /\ now \in Nat /\ now' \in Nat /\ now' >= now /\ MaxSkew \in Nat
      /\ GrantLifetime \in Nat /\ GrantLifetime > 0
  BY ClockMoves, ProbesAssumption DEF TypeInv, RotationTypeOK, ProbesTypeOK
<1>t. probes' \in [Requests -> ProbeAttempts]
  BY TypeStep DEF TypeInv, RotationTypeOK, ProbesTypeOK
<1> SUFFICES ASSUME NEW q \in Requests, probes'[q].status # "none", now' < probes'[q].expires
             PROVE  probes'[q].key \in current' \cap desired' \/ RequestedAfterReplacement(q)'
  BY DEF GrantsAreCovered, LiveGrants
<1>1. CASE /\ IsSigner(probes'[q].key) /\ probes'[q].key \in Keys
           /\ probes'[q].requested = now /\ UNCHANGED <<current, desired, rot, now>>
  <2>1. CASE probes'[q].key \in current \cap desired
    BY <1>1, <2>1
  <2>2. CASE Retiring(probes'[q].key)
    <3>1. PICK r \in Rotations :
            /\ rot[r].old = probes'[q].key
            /\ rot[r].deadline > 0 /\ rot[r].deadline <= now
      BY <2>2 DEF Retiring
    <3>2. rot[r].replaced + MaxSkew + GrantLifetime <= rot[r].deadline
          /\ rot[r].replaced \in Nat /\ rot[r].deadline \in Nat
      BY <1>0, <3>1 DEF DeadlinesCover, RotationRecords
    <3>3. now > rot[r].replaced
      BY <1>0, <3>1, <3>2
    <3> QED
      BY <1>1, <3>1, <3>3 DEF RequestedAfterReplacement
  <2> QED
    BY <1>1, <2>1, <2>2 DEF SignersAreCovered, Covered
<1>2. CASE /\ probes[q].status # "none" /\ probes'[q].key = probes[q].key
           /\ probes'[q].expires = probes[q].expires
           /\ probes'[q].requested = probes[q].requested
  <2>1. now < probes[q].expires /\ probes[q].expires \in Nat /\ probes[q].requested \in Nat
    BY <1>0, <1>t, <1>2 DEF ProbeAttempts
  <2>2. CASE RequestedAfterReplacement(q)
    BY <1>2, <2>2, AfterReplacementStays
  <2>3. ASSUME probes[q].key \in current \cap desired, NEW r \in Rotations,
               Status(r) = "draining-old-grants", now >= rot[r].deadline, UNCHANGED rot,
               current = {rot[r].old, NewKey[r]}, current' = current, desired' = {NewKey[r]}
        PROVE  probes'[q].key \in current' \cap desired' \/ RequestedAfterReplacement(q)'
    <3>1. CASE probes[q].key = NewKey[r]
      BY <1>2, <2>3, <3>1
    <3>2. CASE probes[q].key = rot[r].old
      <4>1. /\ rot[r].deadline > 0 /\ rot[r].deadline \in Nat /\ rot[r].replaced \in Nat
            /\ rot[r].replaced + MaxSkew + GrantLifetime <= rot[r].deadline
        BY <1>0, <2>3 DEF DeadlinesCover, RotationRecords
      <4>2. probes[q].expires <= probes[q].requested + MaxSkew + GrantLifetime
        BY <1>2 DEF GrantsBounded
      <4>3. probes[q].requested > rot[r].replaced
        BY <1>0, <2>1, <2>3, <4>1, <4>2
      <4> QED
        BY <1>2, <2>3, <3>2, <4>1, <4>3 DEF RequestedAfterReplacement
    <3> QED
      BY <2>3, <3>1, <3>2
  <2>4. probes[q].key \in current \cap desired \/ RequestedAfterReplacement(q)
    BY <1>2, <2>1 DEF GrantsAreCovered, LiveGrants
  <2> QED
    BY <1>2, <2>2, <2>3, <2>4, CommonKeysStay
<1> QED
  BY <1>1, <1>2, GrantMoves DEF tables

LEMMA DrainInvInit == RotationInit => DrainInv
<1> SUFFICES ASSUME RotationInit
             PROVE  DrainInv
  OBVIOUS
<1>1. \A q \in Requests : probes[q].status = "none"
  BY DEF RotationInit, ProbesInit, NoProbe
<1>2. \A p \in Processes : proc[p].pc = "idle"
  BY DEF RotationInit, Idle
<1>3. \A r \in Rotations : Status(r) = "none" /\ rot[r].deadline = 0
  BY DEF RotationInit, NoRequest, Status
<1>4. \A k \in Keys : IsSigner(k) => k \in current \cap desired
  BY DEF RotationInit, ProbesInit, KeysInit, IsSigner
<1> QED
  BY <1>1, <1>2, <1>3, <1>4 DEF DrainInv, GrantsBounded, DeadlinesCover, SignersAreCovered,
     Covered, GrantsAreCovered, LiveGrants, At

LEMMA DrainInvStep == RotationInv /\ DrainInv /\ [RotationNext]_rvars => DrainInv'
<1> SUFFICES ASSUME RotationInv, DrainInv, [RotationNext]_rvars, Undisturbed'
             PROVE  (/\ GrantsBounded /\ DeadlinesCover
                     /\ SignersAreCovered /\ GrantsAreCovered)'
  BY DEF DrainInv
<1>1. TypeInv /\ Shapes
  BY StepShapes DEF RotationInv
<1>2. TypeInv'
  BY <1>1, TypeStep
<1>3. Undisturbed /\ ~ \E k \in Keys : DirectKeyCommand(k)
  BY <1>1, <1>2, UndisturbedBefore
<1>4. GrantsBounded /\ DeadlinesCover /\ SignersAreCovered /\ GrantsAreCovered
  BY <1>3 DEF DrainInv
<1>5. GrantsBounded' /\ DeadlinesCover'
  BY <1>1, <1>3, <1>4, GrantsBoundedStep, DeadlinesCoverStep
<1>6. SignersAreCovered' /\ GrantsAreCovered'
  BY <1>1, <1>3, <1>4, SignersStep, GrantsStep
<1> QED
  BY <1>5, <1>6

\* How far the signer and the live grants are covered by the projections, whatever
\* calls stall and however late they go on.
THEOREM DrainInvariant == RotationSpec => []DrainInv
BY RotationInvariant, DrainInvInit, DrainInvStep, PTL DEF RotationSpec

\* Every live grant that was requested before its key's replacement was recorded
\* names a key that the gateway verifies with, in every phase of any number of
\* rotations: the old key is withdrawn only after the drain.
THEOREM GrantsVerifiable == RotationSpec => []GrantsStayVerifiable
<1>1. RotationInv /\ DrainInv => GrantsStayVerifiable
  BY DEF RotationInv, GraphsInv, DrainInv, GrantsAreCovered, GrantsStayVerifiable
<1> QED
  BY <1>1, RotationInvariant, DrainInvariant, PTL

\* Whichever key signs, its private half is live at the provider, and the gateway
\* verifies with it until a projection without it is published.
THEOREM SignerUsable == RotationSpec => []SignerIsUsable
<1>1. ASSUME RotationInv, NEW k \in Keys, IsSigner(k)
      PROVE  custody[k] = "live"
  <2>1. custody[k] \in CustodyStatuses
    BY <1>1 DEF RotationInv, TypeInv, RotationTypeOK, ProbesTypeOK, KeysTypeOK
  <2>2. custody[k] # "revoked" /\ custody[k] # "absent"
    BY <1>1 DEF RotationInv, KeysInv, Gone, IsSigner
  <2> QED
    BY <2>1, <2>2 DEF CustodyStatuses
<1>2. ASSUME RotationInv, DrainInv, Undisturbed, NEW k \in Keys, IsSigner(k)
      PROVE  \/ k \in gateway
             \/ \E r \in Rotations : rot[r].old = k /\ child[r]["retirement"].state # "none"
  <2>1. Covered(k) /\ gateway \in {current, desired}
    BY <1>2 DEF RotationInv, GraphsInv, DrainInv, SignersAreCovered
  <2> QED
    BY <2>1 DEF Covered, Retiring, Published
<1>3. RotationInv /\ DrainInv => SignerIsUsable
  BY <1>1, <1>2 DEF SignerIsUsable
<1> QED
  BY <1>3, RotationInvariant, DrainInvariant, PTL

\* A version is revoked at the provider only when no gateway verifies with its key
\* and every grant that it signed before its replacement was recorded is over.
THEOREM RevokedUnused == RotationSpec => RevokedOnlyWhenUnused
<1>1. ASSUME RotationInv, DrainInv, [RotationNext]_rvars,
             NEW k \in Keys, custody[k] = "live", custody'[k] = "revoked"
      PROVE  /\ k \notin gateway
             /\ Undisturbed =>
                   \A q \in LiveGrants : probes[q].key = k => RequestedAfterReplacement(q)
  <2>1. Shapes /\ TypeInv /\ CallsInv
    BY <1>1, StepShapes DEF RotationInv
  <2>2. PICK p \in Processes : At(p, "revoke") /\ k = rot[proc[p].r].old
    BY <1>1, <2>1, KeysStay
  <2>3. k \notin KnownKeys
    BY <2>1, <2>2 DEF CallsInv, CallInv, At, RevocationSteps
  <2> QED
    BY <1>1, <2>3 DEF KnownKeys, DrainInv, GrantsAreCovered
<1>2. RotationInv /\ DrainInv /\ [RotationNext]_rvars =>
        [\A k \in Keys :
            custody[k] = "live" /\ custody'[k] = "revoked" =>
                /\ k \notin gateway
                /\ Undisturbed =>
                       \A q \in LiveGrants :
                           probes[q].key = k => RequestedAfterReplacement(q)]_rvars
  BY <1>1
<1> QED
  BY <1>2, RotationInvariant, DrainInvariant, PTL DEF RotationSpec, RevokedOnlyWhenUnused

=============================================================================
