----------------------------- MODULE CommandLog -----------------------------
(***************************************************************************)
(* The commands of the operations services: what each carries, which of    *)
(* it is the intent its fingerprint covers, and the contract core states   *)
(* for the commands of a session.  A fingerprint is a digest of the        *)
(* intent, so it is the intent here; titles, comments, evidence, metadata  *)
(* and payloads that no guard reads are left out.                          *)
(***************************************************************************)
EXTENDS Naturals, Sequences, FiniteSets, Functions

CONSTANT ServiceCommands    \* the commands clients and workers send, and resend

Ids == Nat \ {0}            \* generated identities, in the order they were made
LeaseFences == [worker : STRING, generation : Nat \ {0}]

-----------------------------------------------------------------------------
(* The canonical contract of the operator's commands.                      *)

OutsideSessions ==
    {"register-delegation-key", "activate-delegation-key", "retire-delegation-key",
     "revoke-delegation-key", "request-gateway-probe", "import-product-descriptor",
     "register-image-pull-authority", "register-runtime-authority",
     "revoke-runtime-authority", "register-runtime-authority-delivery",
     "revoke-runtime-authority-delivery", "register-ingress-authority",
     "revoke-ingress-authority", "register-secret-provider", "revoke-secret-provider",
     "register-secret-reference", "revoke-secret-reference", "create-workspace"}

InSession ==
    {"request-activity-plan", "decide-approval", "request-approval", "set-desired-graph",
     "publish-desired-realized-projection", "cancel-operation-session",
     "close-operation-session", "record-operation-action"}

CreatesSession == {"start-operation-session"}
EndsSession == {"cancel-operation-session", "close-operation-session"}
OperatorKinds == OutsideSessions \cup InSession \cup CreatesSession

\* OperatorCommandContract.__post_init__ over the canonical table.
ASSUME ContractAssumption ==
    /\ CreatesSession \cap InSession = {}
    /\ EndsSession \subseteq InSession

\* _RESERVED_MANUAL_ACTIONS: what an operator may not record by hand.
Reserved == CreatesSession \cup EndsSession \cup {"record-operation-action"}

-----------------------------------------------------------------------------
(* The commands. *)

SessionCommands ==
    [kind : CreatesSession, key : STRING, actor : STRING, title : STRING]
    \cup [kind : EndsSession, key : STRING, session : Ids, actor : STRING]
    \cup [kind : {"record-operation-action"}, key : STRING, session : Ids, actor : STRING,
          action : OperatorKinds \ Reserved]

\* Graph identity 0 is the NULL pointer.
DesiredGraphCommands ==
    [kind : {"set-desired-graph"}, key : STRING, session : Ids, actor : STRING,
     graph : STRING, expected : Nat, revision : Nat]

PlanningCommands ==
    [kind : {"request-activity-plan"}, key : STRING, session : Ids, actor : STRING,
     current : Nat, desired : Ids, revision : Nat]

ApprovalCommands ==
    [kind : {"request-approval"}, key : STRING, session : Ids, actor : STRING, plan : Ids]
    \cup [kind : {"decide-approval"}, key : STRING, session : Ids, actor : STRING,
          approval : Ids, decision : {"approved", "rejected"}]

AdmissionCommands ==
    [kind : {"admit-execution"}, key : STRING, session : Ids, actor : STRING, plan : Ids,
     approval : Ids]

ClaimCommands == [kind : {"claim-run"}, key : STRING, request : Ids, worker : STRING]

RunCommands ==
    [kind : {"start-run", "pause-run", "resume-run", "complete-run", "fail-run",
             "cancel-run"},
     key : STRING, run : Ids, fence : LeaseFences]

AdvancementCommands ==
    [kind : {"advance-current-graph"}, key : STRING, run : Ids, plan : Ids, from : Nat,
     to : Ids, revision : Nat, fence : LeaseFences]

\* RenewActive, RenewExpired, TakeOverExpired and AbandonExpired; a takeover names
\* another worker.
RecoveryCommands ==
    LET Common(kinds) ==
            [kind : kinds, key : STRING, request : Ids, run : Ids, fence : LeaseFences,
             actor : STRING, authority : STRING]
    IN  Common({"renew-active-claim", "renew-expired-claim", "abandon-expired-claim"})
        \cup {c \in [kind : {"take-over-expired-claim"}, key : STRING, request : Ids,
                     run : Ids, fence : LeaseFences, actor : STRING, authority : STRING,
                     worker : STRING] : c.worker # c.fence.worker}

RetryCommands ==
    [kind : {"retry-as-new-run"}, key : STRING, request : Ids, run : Ids,
     fence : LeaseFences, actor : STRING, authority : STRING]

CompensationCommands ==
    [kind : {"begin-compensation"}, key : STRING, request : Ids, run : Ids, plan : Ids,
     from : Nat, to : Ids, revision : Nat, actor : STRING, authority : STRING]

ASSUME CommandAssumption ==
    ServiceCommands \subseteq
        SessionCommands \cup DesiredGraphCommands \cup PlanningCommands
        \cup ApprovalCommands \cup AdmissionCommands \cup ClaimCommands
        \cup RunCommands \cup AdvancementCommands
        \cup RecoveryCommands \cup RetryCommands \cup CompensationCommands

-----------------------------------------------------------------------------
(* The fingerprints of intent.  None covers the scopes the caller held.    *)

SessionIntent(c) ==
    Restrict(c, CASE c.kind \in CreatesSession -> {"kind", "actor", "title"}
                  [] c.kind \in EndsSession -> {"kind", "session", "actor"}
                  [] OTHER -> {"kind", "session", "actor", "action"})

DesiredGraphIntent(c) ==
    Restrict(c, {"kind", "session", "actor", "expected", "revision", "graph"})

PlanningIntent(c) ==
    Restrict(c, {"kind", "session", "actor", "current", "desired", "revision", "key"})

\* Mutant of ApprovalIntent: the digest of a decision leaves out what was decided.
ApprovalIntentUndecided(c) ==
    Restrict(c, CASE c.kind = "request-approval" -> {"kind", "session", "plan", "actor"}
                  [] OTHER -> {"kind", "session", "approval", "actor"})

ApprovalIntent(c) ==
    Restrict(c, CASE c.kind = "request-approval" -> {"kind", "session", "plan", "actor"}
                  [] OTHER -> {"kind", "session", "approval", "actor", "decision"})

AdmissionIntent(c) == Restrict(c, {"kind", "session", "plan", "approval", "actor"})

LifecycleIntent(c) ==
    Restrict(c, CASE c.kind = "claim-run" -> {"kind", "request", "worker"}
                  [] OTHER -> {"kind", "run", "fence"})

AdvancementIntent(c) ==
    Restrict(c, {"kind", "run", "plan", "from", "to", "revision", "fence"})

RecoveryIntent(c) ==
    Restrict(c, {"kind", "request", "run", "fence", "actor", "authority"}
                \cup (IF c.kind = "take-over-expired-claim" THEN {"worker"} ELSE {}))

RetryIntent(c) == Restrict(c, {"kind", "request", "run", "fence", "actor", "authority"})

CompensationIntent(c) ==
    Restrict(c, {"kind", "request", "run", "plan", "from", "to", "revision", "actor",
                 "authority", "key"})

Recoveries == {"renew-active-claim", "renew-expired-claim", "take-over-expired-claim",
               "abandon-expired-claim"}
RunKinds ==
    {"start-run", "pause-run", "resume-run", "complete-run", "fail-run", "cancel-run"}

IntentOf(c) ==
    CASE c.kind \in Reserved -> SessionIntent(c)
      [] c.kind = "set-desired-graph" -> DesiredGraphIntent(c)
      [] c.kind = "request-activity-plan" -> PlanningIntent(c)
      [] c.kind \in {"request-approval", "decide-approval"} -> ApprovalIntent(c)
      [] c.kind = "admit-execution" -> AdmissionIntent(c)
      [] c.kind \in {"claim-run"} \cup RunKinds -> LifecycleIntent(c)
      [] c.kind = "advance-current-graph" -> AdvancementIntent(c)
      [] c.kind \in Recoveries -> RecoveryIntent(c)
      [] c.kind = "retry-as-new-run" -> RetryIntent(c)
      [] c.kind = "begin-compensation" -> CompensationIntent(c)

\* The type of the action a command adds to its session's log.
ActionType(c) ==
    CASE c.kind = "record-operation-action" -> c.action
      [] c.kind \in Recoveries \cup {"retry-as-new-run"} -> "record-recovery-decision"
      [] OTHER -> c.kind

=============================================================================
