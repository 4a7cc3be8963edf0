------------------------- MODULE GatewayKeyRotation -------------------------
(***************************************************************************)
(* Rotation of a gateway's delegation signing key: the aggregate of        *)
(* gateway_key_rotations.py and the five programs that drive it.           *)
(*                                                                         *)
(*   generation   prepare, provider call, admit the key, fold              *)
(*   preparation  publish a projection, plan and admit it, claim and start *)
(*                its run, store the checkpoint (overlap and retirement)   *)
(*   execution    one coordinator effect per call, current graph, fold     *)
(*   activation   activate the new key, start the drain                    *)
(*   completion   retire the old key, revoke its secret version, fold      *)
(*                                                                         *)
(* Every program is a sequence of short transactions with provider and     *)
(* runtime calls between them.  A process keeps, between two of its        *)
(* transactions, only what proc records; a crash loses that and nothing    *)
(* else.  A transition is a compare-and-set on status and version.  No     *)
(* status is ever entered twice by a rotation, so the status alone stands  *)
(* for the pair.  A transaction that fails its checks changes nothing and  *)
(* ends the call.                                                          *)
(***************************************************************************)
EXTENDS GatewayProbes

CONSTANTS
    Rotations,     \* rotations of one (workspace, gateway, purpose, issuer)
    Processes,     \* calls of the programs that may be under way at once
    NewKey,        \* the key each rotation generates
    Lifetimes,     \* maximum_grant_lifetime_seconds a request may name
    ClockSkew,     \* clock_skew_seconds of the requests
    MaxFence,      \* bound on lease recoveries of a child run
    MaxDirect,     \* bound on key commands issued outside a rotation
    NoRotation     \* a process that works on none

ASSUME RotationAssumption ==
    /\ NewKey \in [Rotations -> Keys \ {FirstKey}]
    /\ \A r, s \in Rotations : NewKey[r] = NewKey[s] => r = s
    /\ Lifetimes \subseteq Nat
    /\ ClockSkew \in Nat
    /\ MaxFence \in Nat \ {0}
    /\ MaxDirect \in Nat
    /\ NoRotation \notin Rotations

VARIABLES
    rot,       \* cpk_gateway_key_rotations
    approval,  \* the approval request and decision of each rotation
    current,   \* the verification keys of the current realized projection
    desired,   \* the verification keys of the desired realized projection
    child,     \* the child run of each rotation and phase
    proc,      \* what each call carries between its transactions
    directs    \* key commands issued outside a rotation

rvars == <<keys, custody, probes, inflight, gateway, now,
           rot, approval, current, desired, child, proc, directs>>

probeVars == <<probes, inflight>>
graphVars == <<current, desired>>

(***************************************************************************)
(* The aggregate.                                                          *)
(***************************************************************************)
\* GatewayKeyRotationStatus; "none" is a rotation nobody has requested.
RotationStatuses ==
    {"none", "requested", "awaiting-approval", "approved", "generation-prepared",
     "key-generated", "overlap-deploying", "overlap-ready", "new-key-active",
     "draining-old-grants", "retirement-deploying", "retirement-ready",
     "old-key-retired", "revocation-prepared", "completed", "blocked", "rejected"}

Terminal == {"completed", "blocked", "rejected"}
Nonterminal(r) == rot[r].status \notin Terminal \cup {"none"}

\* _LEGAL: the one successor of each status, besides "blocked".
Successor ==
    [s \in {"approved", "generation-prepared", "key-generated",
            "overlap-deploying", "overlap-ready", "new-key-active",
            "draining-old-grants", "retirement-deploying", "retirement-ready",
            "old-key-retired", "revocation-prepared"} |->
       CASE s = "approved" -> "generation-prepared"
         [] s = "generation-prepared" -> "key-generated"
         [] s = "key-generated" -> "overlap-deploying"
         [] s = "overlap-deploying" -> "overlap-ready"
         [] s = "overlap-ready" -> "new-key-active"
         [] s = "new-key-active" -> "draining-old-grants"
         [] s = "draining-old-grants" -> "retirement-deploying"
         [] s = "retirement-deploying" -> "retirement-ready"
         [] s = "retirement-ready" -> "old-key-retired"
         [] s = "old-key-retired" -> "revocation-prepared"
         [] s = "revocation-prepared" -> "completed"]

LegalTargets(s) ==
    IF s = "requested" THEN {"awaiting-approval"}
    ELSE IF s = "awaiting-approval" THEN {"approved", "rejected"}
    ELSE IF s \in DOMAIN Successor THEN {Successor[s], "blocked"}
    ELSE {}

\* GatewayKeyRotation: the columns the programs read, and the time of the
\* transition to new-key-active, which its event keeps.
RotationRecords ==
    [status : RotationStatuses, old : Keys, life : Lifetimes \cup {0},
     replaced : Nat, deadline : Nat]

NoRequest ==
    [status |-> "none", old |-> FirstKey, life |-> 0, replaced |-> 0, deadline |-> 0]

\* _advance_locked: the expected status, a legal target, one compare-and-set.
Advance(r, from, to) ==
    /\ rot[r].status = from
    /\ to \in LegalTargets(from)
    /\ rot' = [rot EXCEPT ![r].status = to]

\* Mutant of AdvanceWithDeadline: the grant lifetime is forgotten.
DeadlineWithoutLifetime(r) ==
    /\ rot[r].status = "overlap-ready"
    /\ rot' = [rot EXCEPT ![r].status = "new-key-active", ![r].replaced = now,
                          ![r].deadline = now + ClockSkew]

\* The same with the deadline that new-key-active stores.
AdvanceWithDeadline(r) ==
    /\ rot[r].status = "overlap-ready"
    /\ rot' = [rot EXCEPT ![r].status = "new-key-active", ![r].replaced = now,
                          ![r].deadline = now + rot[r].life + ClockSkew]

\* Mutant of Drained: the clock skew is subtracted again.
DrainedBeforeSkew(r) == now + ClockSkew >= rot[r].deadline

Drained(r) == now >= rot[r].deadline

(***************************************************************************)
(* Phases and children.                                                    *)
(***************************************************************************)
Phases == {"overlap", "retirement"}
ChildStates == {"none", "published", "admitted", "running", "dispatching",
                "effected", "failed", "uncertain", "succeeded"}
ChildRecords == [state : ChildStates, fence : 0 .. MaxFence]

SourceStatus(ph) ==
    IF ph = "overlap" THEN "key-generated" ELSE "draining-old-grants"
PreparedStatus(ph) ==
    IF ph = "overlap" THEN "overlap-deploying" ELSE "retirement-deploying"
AcceptedStatus(ph) ==
    IF ph = "overlap" THEN "overlap-ready" ELSE "retirement-ready"

Base(r, ph) ==
    IF ph = "overlap" THEN {rot[r].old} ELSE {rot[r].old, NewKey[r]}
\* Mutant of Target: the new key replaces the old one in both phases.
ReplacingTarget(r, ph) == {NewKey[r]}

Target(r, ph) ==
    IF ph = "overlap" THEN {rot[r].old, NewKey[r]} ELSE {NewKey[r]}

\* What the two preparation programs require of the rotation before they make,
\* or take up again, the phase's child.
OverlapReady(r) == rot[r].status = "key-generated"
RetirementReady(r) == rot[r].status = "draining-old-grants" /\ Drained(r)
PhaseReady(r, ph) == IF ph = "overlap" THEN OverlapReady(r) ELSE RetirementReady(r)

\* _snapshot: the workspace still wants what the checkpoint prepared, and its
\* current projection is the checkpoint's base or already its target.
Snapshot(r, ph) ==
    /\ desired = Target(r, ph)
    /\ current \in {Base(r, ph), Target(r, ph)}

\* advance_deployment: a handoff whose fence is not the claim's is refused.
HoldsFence(r, ph, fence) == child[r][ph].fence = fence

SetChild(r, ph, s) == child' = [child EXCEPT ![r][ph].state = s]

\* derive_gateway_key_rotation_projection_graph: the key truth a phase needs.
PhaseKeyTruth(r, ph) ==
    /\ VerificationKeys = {rot[r].old, NewKey[r]}
    /\ rot[r].old # NewKey[r]
    /\ current = Base(r, ph)
    /\ IF ph = "overlap"
       THEN keys[rot[r].old] = "active" /\ keys[NewKey[r]] = "verify-only"
       ELSE keys[rot[r].old] = "verify-only" /\ keys[NewKey[r]] = "active"

(***************************************************************************)
(* Processes.                                                              *)
(***************************************************************************)
Steps == {"idle", "generate", "submit", "admit", "fold-generated",
          "block-generation", "dispatch", "advance", "accept",
          "block-deployment", "activate", "fold-active", "retire",
          "fold-retired", "revoke", "match-revoked", "revoke-key",
          "fold-completed", "block-revocation"}
ProcessRecords ==
    [pc : Steps, r : Rotations \cup {NoRotation}, ph : Phases,
     fence : 0 .. MaxFence]

Idle == [pc |-> "idle", r |-> NoRotation, ph |-> "overlap", fence |-> 0]

At(p, step) == proc[p].pc = step
Goto(p, step) == proc' = [proc EXCEPT ![p].pc = step]
Return(p) == proc' = [proc EXCEPT ![p] = Idle]
Begin(p, r, ph, fence, step) ==
    proc' = [proc EXCEPT ![p] =
               [pc |-> step, r |-> r, ph |-> ph, fence |-> fence]]

(***************************************************************************)
(* Request and approval.                                                   *)
(***************************************************************************)
\* GatewayKeyRotationService.request.  The old key is not looked up.
RequestRotation(r, old, life) ==
    /\ rot[r].status = "none"
    /\ ~ \E s \in Rotations : Nonterminal(s)
    /\ rot' = [rot EXCEPT ![r] =
                 [status |-> "requested", old |-> old, life |-> life,
                  replaced |-> 0, deadline |-> 0]]
    /\ UNCHANGED <<keys, custody, probeVars, gateway, now, approval, graphVars,
                   child, proc, directs>>

\* _request_rotation: one approval request per rotation, while it is requested.
RequestRotationApproval(r) ==
    /\ rot[r].status = "requested"
    /\ approval[r] = "none"
    /\ approval' = [approval EXCEPT ![r] = "pending"]
    /\ UNCHANGED <<keys, custody, probeVars, gateway, now, rot, graphVars,
                   child, proc, directs>>

\* _decide: the reviewer's decision does not look at the rotation.
DecideRotation(r, decision) ==
    /\ approval[r] = "pending"
    /\ approval' = [approval EXCEPT ![r] = decision]
    /\ UNCHANGED <<keys, custody, probeVars, gateway, now, rot, graphVars,
                   child, proc, directs>>

\* advance with _validate_approval_evidence: the request must be undecided to
\* enter awaiting-approval, and the decision must match the target after it.
AwaitApproval(r) ==
    /\ approval[r] = "pending"
    /\ Advance(r, "requested", "awaiting-approval")
    /\ UNCHANGED <<keys, custody, probeVars, gateway, now, approval, graphVars,
                   child, proc, directs>>

FoldDecision(r) ==
    /\ approval[r] \in {"approved", "rejected"}
    /\ Advance(r, "awaiting-approval", approval[r])
    /\ UNCHANGED <<keys, custody, probeVars, gateway, now, approval, graphVars,
                   child, proc, directs>>

\* An operator blocks a rotation.  _is_deployment_owned_transition keeps the
\* deploying statuses for the fenced writer.
BlockRotation(r) ==
    /\ rot[r].status \notin {PreparedStatus(ph) : ph \in Phases}
    /\ Advance(r, rot[r].status, "blocked")
    /\ UNCHANGED <<keys, custody, probeVars, gateway, now, approval, graphVars,
                   child, proc, directs>>

(***************************************************************************)
(* Generation.                                                             *)
(***************************************************************************)
\* prepare: commit the action, or rebuild the committed one after a restart.
PrepareGeneration(p, r) ==
    /\ At(p, "idle")
    /\ \/ Advance(r, "approved", "generation-prepared")
       \/ rot[r].status = "generation-prepared" /\ UNCHANGED rot
    /\ Begin(p, r, "overlap", 0, "generate")
    /\ UNCHANGED <<keys, custody, probeVars, gateway, now, approval, graphVars,
                   child, directs>>

\* The provider call.  A definite failure changed nothing; after an uncertain
\* one the key may exist.
ProviderGenerate(p) ==
    /\ At(p, "generate")
    /\ \/ custody' = Generated(NewKey[proc[p].r]) /\ Goto(p, "submit")
       \/ UNCHANGED custody /\ Return(p)
       \/ /\ custody' \in {custody, Generated(NewKey[proc[p].r])}
          /\ Goto(p, "block-generation")
    /\ UNCHANGED <<keys, probeVars, gateway, now, rot, approval, graphVars,
                   child, directs>>

\* submit, with _match_persisted_action: the durable state must still hold the
\* action; a rotation already past it is a replay or a conflict.
SubmitGeneration(p) ==
    /\ At(p, "submit")
    /\ IF rot[proc[p].r].status = "generation-prepared"
       THEN Goto(p, "admit") ELSE Return(p)
    /\ UNCHANGED <<keys, custody, probeVars, gateway, now, rot, approval,
                   graphVars, child, directs>>

\* admit_generated: the secret reference and the key, in one transaction that
\* does not read the rotation.
AdmitGenerated(p) ==
    /\ At(p, "admit")
    /\ keys' = Registered(NewKey[proc[p].r])
    /\ Goto(p, "fold-generated")
    /\ UNCHANGED <<custody, probeVars, gateway, now, rot, approval, graphVars,
                   child, directs>>

FoldGenerated(p) ==
    /\ At(p, "fold-generated")
    /\ IF rot[proc[p].r].status = "generation-prepared"
       THEN Advance(proc[p].r, "generation-prepared", "key-generated")
       ELSE UNCHANGED rot
    /\ Return(p)
    /\ UNCHANGED <<keys, custody, probeVars, gateway, now, approval, graphVars,
                   child, directs>>

BlockGeneration(p) ==
    /\ At(p, "block-generation")
    /\ IF rot[proc[p].r].status = "generation-prepared"
       THEN Advance(proc[p].r, "generation-prepared", "blocked")
       ELSE UNCHANGED rot
    /\ Return(p)
    /\ UNCHANGED <<keys, custody, probeVars, gateway, now, approval, graphVars,
                   child, directs>>

(***************************************************************************)
(* Preparation of a phase's child.  Each step replays its own committed    *)
(* result, so a restart may take up the sequence at any of them.           *)
(***************************************************************************)
\* The publication transaction holds the workspace and the rotation rows.
PublishProjection(r, ph) ==
    /\ child[r][ph].state = "none"
    /\ PhaseReady(r, ph)
    /\ desired = current
    /\ PhaseKeyTruth(r, ph)
    /\ desired' = Target(r, ph)
    /\ SetChild(r, ph, "published")
    /\ UNCHANGED <<keys, custody, probeVars, gateway, now, rot, approval,
                   current, proc, directs>>

\* Planning and admission: _require_gateway_rotation_child_authorization
\* derives the projection again from the keys of this moment.
AdmitChild(r, ph) ==
    /\ child[r][ph].state = "published"
    /\ rot[r].status = SourceStatus(ph)
    /\ desired = Target(r, ph)
    /\ PhaseKeyTruth(r, ph)
    /\ SetChild(r, ph, "admitted")
    /\ UNCHANGED <<keys, custody, probeVars, gateway, now, rot, approval,
                   graphVars, proc, directs>>

\* Claim and start look at the request alone.
StartChild(r, ph) ==
    /\ child[r][ph].state = "admitted"
    /\ child' = [child EXCEPT ![r][ph] = [state |-> "running", fence |-> 1]]
    /\ UNCHANGED <<keys, custody, probeVars, gateway, now, rot, approval,
                   graphVars, proc, directs>>

\* Another worker takes over an expired lease of a run with nothing open.
RecoverChild(r, ph) ==
    /\ child[r][ph].state \in {"running", "effected"}
    /\ child[r][ph].fence < MaxFence
    /\ child' = [child EXCEPT ![r][ph].fence = @ + 1]
    /\ UNCHANGED <<keys, custody, probeVars, gateway, now, rot, approval,
                   graphVars, proc, directs>>

\* advance_deployment with the prepared checkpoint: the fence is the one the
\* claim returned, and a retirement must have drained.
PrepareDeployment(r, ph) ==
    /\ PhaseReady(r, ph)
    /\ child[r][ph].state = "running"
    /\ HoldsFence(r, ph, 1)
    /\ Advance(r, SourceStatus(ph), PreparedStatus(ph))
    /\ UNCHANGED <<keys, custody, probeVars, gateway, now, approval, graphVars,
                   child, proc, directs>>

(***************************************************************************)
(* Execution of a prepared child, one call at a time.                      *)
(***************************************************************************)
\* progress: the snapshot, then the coordinator.  A run whose step is under
\* way or has failed leads to a block, one that has finished to advancement.
ProgressDeployment(p, r, ph) ==
    /\ At(p, "idle")
    /\ rot[r].status = PreparedStatus(ph)
    /\ Snapshot(r, ph)
    /\ LET c == child[r][ph] IN
         \/ /\ current = Target(r, ph)
            /\ Begin(p, r, ph, c.fence, "advance")
            /\ UNCHANGED child
         \/ /\ current # Target(r, ph)
            /\ c.state = "running"
            /\ SetChild(r, ph, "dispatching")
            /\ Begin(p, r, ph, c.fence, "dispatch")
         \/ /\ current # Target(r, ph)
            /\ c.state \in {"effected", "succeeded"}
            /\ SetChild(r, ph, "succeeded")
            /\ Begin(p, r, ph, c.fence, "advance")
         \/ /\ current # Target(r, ph)
            /\ c.state \in {"dispatching", "failed", "uncertain"}
            /\ Begin(p, r, ph, c.fence, "block-deployment")
            /\ UNCHANGED child
    /\ UNCHANGED <<keys, custody, probeVars, gateway, now, rot, approval,
                   graphVars, directs>>

\* The effect at the runtime and the fold of its outcome.
DispatchEffect(p) ==
    /\ At(p, "dispatch")
    /\ LET r == proc[p].r
           ph == proc[p].ph
       IN \/ /\ gateway' = Target(r, ph)
             /\ SetChild(r, ph, "effected")
             /\ Return(p)
          \/ /\ UNCHANGED gateway
             /\ SetChild(r, ph, "failed")
             /\ Goto(p, "block-deployment")
          \/ /\ gateway' \in {gateway, Target(r, ph)}
             /\ SetChild(r, ph, "uncertain")
             /\ Goto(p, "block-deployment")
    /\ UNCHANGED <<keys, custody, probeVars, now, rot, approval, graphVars,
                   directs>>

\* AdvanceCurrentGraph: the fence must be current; a second call replays.
AdvanceCurrent(p) ==
    /\ At(p, "advance")
    /\ LET r == proc[p].r
           ph == proc[p].ph
       IN IF /\ HoldsFence(r, ph, proc[p].fence)
             /\ child[r][ph].state = "succeeded"
             /\ Snapshot(r, ph)
          THEN current' = Target(r, ph) /\ Goto(p, "accept")
          ELSE UNCHANGED current /\ Return(p)
    /\ UNCHANGED <<keys, custody, probeVars, gateway, now, rot, approval,
                   desired, child, directs>>

\* advance_deployment with the accepted checkpoint.
AcceptDeployment(p) ==
    /\ At(p, "accept")
    /\ LET r == proc[p].r
           ph == proc[p].ph
       IN IF /\ HoldsFence(r, ph, proc[p].fence)
             /\ rot[r].status = PreparedStatus(ph)
          THEN Advance(r, PreparedStatus(ph), AcceptedStatus(ph))
          ELSE UNCHANGED rot
    /\ Return(p)
    /\ UNCHANGED <<keys, custody, probeVars, gateway, now, approval, graphVars,
                   child, directs>>

BlockDeployment(p) ==
    /\ At(p, "block-deployment")
    /\ LET r == proc[p].r
           ph == proc[p].ph
       IN IF /\ HoldsFence(r, ph, proc[p].fence)
             /\ rot[r].status = PreparedStatus(ph)
          THEN Advance(r, PreparedStatus(ph), "blocked")
          ELSE UNCHANGED rot
    /\ Return(p)
    /\ UNCHANGED <<keys, custody, probeVars, gateway, now, approval, graphVars,
                   child, directs>>

(***************************************************************************)
(* Activation.                                                             *)
(***************************************************************************)
\* progress: the snapshot.  An activation that committed without its fold is
\* recognized by the keys.
StartActivation(p, r) ==
    /\ At(p, "idle")
    /\ rot[r].status = "overlap-ready"
    /\ current = Target(r, "overlap")
    /\ \/ /\ keys[rot[r].old] = "active" /\ keys[NewKey[r]] = "verify-only"
          /\ Begin(p, r, "overlap", 0, "activate")
       \/ /\ keys[rot[r].old] = "verify-only" /\ keys[NewKey[r]] = "active"
          /\ Begin(p, r, "overlap", 0, "fold-active")
    /\ UNCHANGED <<keys, custody, probeVars, gateway, now, rot, approval,
                   graphVars, child, directs>>

\* The key service's transaction: it knows nothing of the rotation.
ActivateNewKey(p) ==
    /\ At(p, "activate")
    /\ IF CanActivate(NewKey[proc[p].r])
       THEN keys' = Activated(NewKey[proc[p].r]) /\ Goto(p, "fold-active")
       ELSE UNCHANGED keys /\ Return(p)
    /\ UNCHANGED <<custody, probeVars, gateway, now, rot, approval, graphVars,
                   child, directs>>

FoldActive(p) ==
    /\ At(p, "fold-active")
    /\ IF rot[proc[p].r].status = "overlap-ready"
       THEN AdvanceWithDeadline(proc[p].r)
       ELSE UNCHANGED rot
    /\ Return(p)
    /\ UNCHANGED <<keys, custody, probeVars, gateway, now, approval, graphVars,
                   child, directs>>

StartDrain(r) ==
    /\ Advance(r, "new-key-active", "draining-old-grants")
    /\ UNCHANGED <<keys, custody, probeVars, gateway, now, approval, graphVars,
                   child, proc, directs>>

(***************************************************************************)
(* Completion.                                                             *)
(***************************************************************************)
\* _validate_retirement_truth.
RetirementTruth(r) ==
    /\ current = Target(r, "retirement")
    /\ IsSigner(NewKey[r])

StartRetirement(p, r) ==
    /\ At(p, "idle")
    /\ rot[r].status = "retirement-ready"
    /\ RetirementTruth(r)
    /\ \/ keys[rot[r].old] = "verify-only" /\ Begin(p, r, "retirement", 0, "retire")
       \/ keys[rot[r].old] = "retired" /\ Begin(p, r, "retirement", 0, "fold-retired")
    /\ UNCHANGED <<keys, custody, probeVars, gateway, now, rot, approval,
                   graphVars, child, directs>>

RetireOldKey(p) ==
    /\ At(p, "retire")
    /\ IF CanRetire(rot[proc[p].r].old)
       THEN keys' = Retired(rot[proc[p].r].old) /\ Goto(p, "fold-retired")
       ELSE UNCHANGED keys /\ Return(p)
    /\ UNCHANGED <<custody, probeVars, gateway, now, rot, approval, graphVars,
                   child, directs>>

FoldRetired(p) ==
    /\ At(p, "fold-retired")
    /\ IF rot[proc[p].r].status = "retirement-ready"
       THEN Advance(proc[p].r, "retirement-ready", "old-key-retired")
       ELSE UNCHANGED rot
    /\ Return(p)
    /\ UNCHANGED <<keys, custody, probeVars, gateway, now, approval, graphVars,
                   child, directs>>

PrepareRevocation(r) ==
    /\ RetirementTruth(r)
    /\ Advance(r, "old-key-retired", "revocation-prepared")
    /\ UNCHANGED <<keys, custody, probeVars, gateway, now, approval, graphVars,
                   child, proc, directs>>

\* The prepared action is derived again and must equal the stored one.
StartRevocation(p, r) ==
    /\ At(p, "idle")
    /\ rot[r].status = "revocation-prepared"
    /\ RetirementTruth(r)
    /\ Begin(p, r, "retirement", 0, "revoke")
    /\ UNCHANGED <<keys, custody, probeVars, gateway, now, rot, approval,
                   graphVars, child, directs>>

ProviderRevoke(p) ==
    /\ At(p, "revoke")
    /\ LET old == rot[proc[p].r].old IN
         \/ custody' = VersionRevoked(old) /\ Goto(p, "match-revoked")
         \/ UNCHANGED custody /\ Return(p)
         \/ custody' \in {custody, VersionRevoked(old)} /\ Goto(p, "block-revocation")
    /\ UNCHANGED <<keys, probeVars, gateway, now, rot, approval, graphVars,
                   child, directs>>

\* Mutant of MatchRevoked: a retired key counts as revoked.
MatchRetired(p) ==
    /\ At(p, "match-revoked")
    /\ IF rot[proc[p].r].status = "revocation-prepared"
       THEN Goto(p, "fold-completed") ELSE Return(p)
    /\ UNCHANGED <<keys, custody, probeVars, gateway, now, rot, approval,
                   graphVars, child, directs>>

\* _fold_success, first part: _match_action and the old key's status.
MatchRevoked(p) ==
    /\ At(p, "match-revoked")
    /\ LET r == proc[p].r IN
         IF rot[r].status = "revocation-prepared" /\ RetirementTruth(r)
         THEN CASE keys[rot[r].old] = "retired" -> Goto(p, "revoke-key")
                [] keys[rot[r].old] = "revoked" -> Goto(p, "fold-completed")
                [] OTHER -> Return(p)
         ELSE Return(p)
    /\ UNCHANGED <<keys, custody, probeVars, gateway, now, rot, approval,
                   graphVars, child, directs>>

RevokeOldKey(p) ==
    /\ At(p, "revoke-key")
    /\ keys' = Revoked(rot[proc[p].r].old)
    /\ Goto(p, "fold-completed")
    /\ UNCHANGED <<custody, probeVars, gateway, now, rot, approval, graphVars,
                   child, directs>>

FoldCompleted(p) ==
    /\ At(p, "fold-completed")
    /\ IF rot[proc[p].r].status = "revocation-prepared"
       THEN Advance(proc[p].r, "revocation-prepared", "completed")
       ELSE UNCHANGED rot
    /\ Return(p)
    /\ UNCHANGED <<keys, custody, probeVars, gateway, now, approval, graphVars,
                   child, directs>>

BlockRevocation(p) ==
    /\ At(p, "block-revocation")
    /\ LET r == proc[p].r IN
         IF rot[r].status = "revocation-prepared" /\ RetirementTruth(r)
         THEN Advance(r, "revocation-prepared", "blocked")
         ELSE UNCHANGED rot
    /\ Return(p)
    /\ UNCHANGED <<keys, custody, probeVars, gateway, now, approval, graphVars,
                   child, directs>>

(***************************************************************************)
(* The environment: a process is lost, an operator uses the key commands   *)
(* that the server exposes, probes run, time passes.                       *)
(***************************************************************************)
Crash(p) ==
    /\ ~ At(p, "idle")
    /\ Return(p)
    /\ UNCHANGED <<keys, custody, probeVars, gateway, now, rot, approval,
                   graphVars, child, directs>>

DirectKeyCommand(k) ==
    /\ directs < MaxDirect
    /\ \/ CanActivate(k) /\ keys' = Activated(k)
       \/ CanRetire(k) /\ keys' = Retired(k)
       \/ CanRevoke(k) /\ keys' = Revoked(k)
    /\ directs' = directs + 1
    /\ UNCHANGED <<custody, probeVars, gateway, now, rot, approval, graphVars,
                   child, proc>>

Environment ==
    /\ \/ \E q \in Requests, skew \in 0 .. MaxSkew : RequestProbe(q, skew)
       \/ \E q \in Requests : CompleteProbe(q) \/ AbandonProbe(q)
       \/ Tick
    /\ UNCHANGED <<rot, approval, graphVars, child, proc, directs>>

RotationInit ==
    /\ ProbesInit
    /\ rot = [r \in Rotations |-> NoRequest]
    /\ approval = [r \in Rotations |-> "none"]
    /\ current = {FirstKey}
    /\ desired = {FirstKey}
    /\ child = [r \in Rotations |-> [ph \in Phases |->
                  [state |-> "none", fence |-> 0]]]
    /\ proc = [p \in Processes |-> Idle]
    /\ directs = 0

RotationStep(r) ==
    \/ \E old \in Keys, life \in Lifetimes : RequestRotation(r, old, life)
    \/ RequestRotationApproval(r)
    \/ \E d \in {"approved", "rejected"} : DecideRotation(r, d)
    \/ AwaitApproval(r) \/ FoldDecision(r) \/ BlockRotation(r)
    \/ StartDrain(r) \/ PrepareRevocation(r)
    \/ \E ph \in Phases :
         \/ PublishProjection(r, ph) \/ AdmitChild(r, ph)
         \/ StartChild(r, ph) \/ RecoverChild(r, ph)
         \/ PrepareDeployment(r, ph)

ProcessStep(p) ==
    \/ \E r \in Rotations :
         \/ PrepareGeneration(p, r) \/ StartActivation(p, r)
         \/ StartRetirement(p, r) \/ StartRevocation(p, r)
         \/ \E ph \in Phases : ProgressDeployment(p, r, ph)
    \/ ProviderGenerate(p) \/ SubmitGeneration(p) \/ AdmitGenerated(p)
    \/ FoldGenerated(p) \/ BlockGeneration(p)
    \/ DispatchEffect(p) \/ AdvanceCurrent(p) \/ AcceptDeployment(p)
    \/ BlockDeployment(p)
    \/ ActivateNewKey(p) \/ FoldActive(p)
    \/ RetireOldKey(p) \/ FoldRetired(p)
    \/ ProviderRevoke(p) \/ MatchRevoked(p) \/ RevokeOldKey(p)
    \/ FoldCompleted(p) \/ BlockRevocation(p)
    \/ Crash(p)

RotationNext ==
    \/ \E r \in Rotations : RotationStep(r)
    \/ \E p \in Processes : ProcessStep(p)
    \/ \E k \in Keys : DirectKeyCommand(k)
    \/ Environment

RotationSpec == RotationInit /\ [][RotationNext]_rvars

(***************************************************************************)
(* Properties.                                                             *)
(***************************************************************************)
\* The type of the state.
RotationTypeOK ==
    /\ ProbesTypeOK
    /\ rot \in [Rotations -> RotationRecords]
    /\ approval \in [Rotations -> {"none", "pending", "approved", "rejected"}]
    /\ current \subseteq Keys
    /\ desired \subseteq Keys
    /\ child \in [Rotations -> [Phases -> ChildRecords]]
    /\ proc \in [Processes -> ProcessRecords]
    /\ directs \in 0 .. MaxDirect

\* Rotations whose requested lifetime covers the grants the probe service
\* issues, and no key command from outside a rotation.
Undisturbed ==
    /\ directs = 0
    /\ ClockSkew >= MaxSkew
    /\ \A r \in Rotations : rot[r].status # "none" => rot[r].life >= GrantLifetime

\* The grant was requested when its key's replacement had been recorded: a
\* stalled activation (ReplacementSigns) had made the old key sign again.  The
\* deadline was fixed without such a grant, and no program looks for one.
RequestedAfterReplacement(q) ==
    \E r \in Rotations :
        /\ rot[r].old = probes[q].key
        /\ rot[r].deadline > 0
        /\ probes[q].requested > rot[r].replaced

\* Every grant that has not expired, requested when its key was not yet replaced,
\* names a key the gateway verifies with, whatever phase the rotations are in,
\* however their calls interleave, wherever they stop and however late they come.
GrantsStayVerifiable ==
    Undisturbed =>
        \A q \in LiveGrants :
            probes[q].key \in gateway \/ RequestedAfterReplacement(q)

\* Whichever key signs, its private half is live at the provider, and the gateway
\* verifies its grants until a projection without the key is published.
SignerIsUsable ==
    \A k \in Keys :
        IsSigner(k) =>
            /\ custody[k] = "live"
            /\ Undisturbed =>
                   \/ k \in gateway
                   \/ \E r \in Rotations :
                         rot[r].old = k /\ child[r]["retirement"].state # "none"

\* What the language document says of activation: it makes the new key the sole
\* signer while the old one drains.
ReplacementSigns ==
    Undisturbed =>
        \A r \in Rotations :
            rot[r].status \in {"new-key-active", "draining-old-grants"} =>
                IsSigner(NewKey[r])

\* A completed rotation has replaced the key for good: the old key is revoked
\* here and at the provider, and the gateway does not verify with it.
CompletedMeansReplaced ==
    \A r \in Rotations :
        rot[r].status = "completed" =>
            /\ keys[rot[r].old] = "revoked"
            /\ custody[rot[r].old] = "revoked"
            /\ rot[r].old \notin gateway

\* A secret version is revoked at the provider only when no gateway verifies
\* with its key and every grant that it signed before it was replaced is over.
RevokedOnlyWhenUnused ==
    [][\A k \in Keys :
          custody[k] = "live" /\ custody'[k] = "revoked" =>
              /\ k \notin gateway
              /\ Undisturbed =>
                     \A q \in LiveGrants :
                         probes[q].key = k => RequestedAfterReplacement(q)]_rvars

=============================================================================
