-------------------------- MODULE LifecycleContract -------------------------
(***************************************************************************)
(* The published contract of execution: the tables of core                 *)
(* operations/lifecycle.py, and the coherence that their constructors      *)
(* demand.  RunContract gives the tables their meaning as a state machine. *)
(***************************************************************************)

Statuses == {"claimed", "running", "paused", "succeeded", "failed", "compensating",
             "compensated", "partially_failed", "uncompensated_failure", "cancelled"}

StartedStatuses == Statuses \ {"claimed", "cancelled"}

SettledStatuses == {"succeeded", "compensated", "partially_failed",
                    "uncompensated_failure", "cancelled"}

\* Whether a run of this status carries started_at and settled_at.
Timing == [s \in Statuses |->
              [started |-> s \in StartedStatuses, settled |-> s \in SettledStatuses]]

----------------------------------------------------------------------------
(* Events. *)

RequestEvents == {"request_admitted", "request_claimed", "request_claim_renewed",
                  "request_claim_taken_over", "request_claim_abandoned"}

RunEvents == {"run_opened", "run_started", "run_paused", "run_resumed",
              "recovery_decision_recorded", "run_compensation_started",
              "run_compensation_succeeded", "run_compensation_failed",
              "run_uncompensated_failure_accepted", "run_succeeded", "run_failed",
              "run_cancelled", "current_graph_advanced"}

ActivityEvents ==
    {"step_started", "step_succeeded", "step_failed", "step_unsupported", "step_uncertain",
     "step_uncertainty_resolved_succeeded", "step_uncertainty_resolved_failed",
     "step_uncertainty_abandoned", "step_compensation_started",
     "step_compensation_succeeded", "step_compensation_failed",
     "step_compensation_unsupported", "step_compensation_uncertain",
     "step_compensation_uncertainty_resolved_succeeded",
     "step_compensation_uncertainty_resolved_failed",
     "step_compensation_uncertainty_abandoned"}

FailureEvents ==
    {"step_failed", "step_unsupported", "step_uncertain", "step_uncertainty_resolved_failed",
     "step_compensation_failed", "step_compensation_unsupported",
     "step_compensation_uncertain", "step_compensation_uncertainty_resolved_failed",
     "run_failed", "run_compensation_failed"}

EventContract ==
    [k \in RequestEvents \cup RunEvents \cup ActivityEvents |->
        [scope |-> IF k \in ActivityEvents THEN "activity" ELSE "run",
         failure |-> k \in FailureEvents,
         recovery |-> k = "recovery_decision_recorded"]]

----------------------------------------------------------------------------
(* Recovery decisions. *)

RecoveryScopes ==
    [confirm_effect_succeeded |-> "recovery:resolve-uncertainty",
     confirm_effect_failed |-> "recovery:resolve-uncertainty",
     resume_same_intent |-> "recovery:operate",
     retry_as_new_run |-> "recovery:operate",
     begin_compensation |-> "recovery:compensate",
     accept_uncompensated_failure |-> "recovery:accept-loss",
     remain_paused |-> "recovery:operate",
     renew_active_claim |-> "recovery:renew-claim",
     renew_expired_claim |-> "recovery:renew-claim",
     take_over_expired_claim |-> "recovery:take-over-claim",
     abandon_expired_claim |-> "recovery:abandon-claim"]

\* The decisions about the claim itself: the status and the lease they need.
ClaimDecisions ==
    [retry_as_new_run |-> [from |-> {"failed"}, lease |-> "unexpired"],
     renew_active_claim |-> [from |-> {"claimed"}, lease |-> "unexpired"],
     renew_expired_claim |-> [from |-> {"failed"}, lease |-> "expired"],
     take_over_expired_claim |-> [from |-> {"failed"}, lease |-> "expired"],
     abandon_expired_claim |-> [from |-> {"failed"}, lease |-> "expired"]]

\* uncertainty: what it demands of the run's uncertain effects; undoable:
\* whether something must be there to compensate.
Decision(from, uncertainty, lease, undoable, intent) ==
    [from |-> from, uncertainty |-> uncertainty, lease |-> lease,
     undoable |-> undoable, intent |-> intent]

Decisions ==
    [confirm_effect_succeeded |-> Decision({"paused"}, "some", "any", FALSE, TRUE),
     confirm_effect_failed |-> Decision({"paused"}, "some", "any", FALSE, TRUE),
     resume_same_intent |-> Decision({"paused"}, "none", "any", FALSE, TRUE),
     retry_as_new_run |-> Decision({"failed"}, "none", "unexpired", FALSE, TRUE),
     begin_compensation |-> Decision({"failed"}, "none", "any", TRUE, TRUE),
     accept_uncompensated_failure |-> Decision({"failed"}, "none", "any", FALSE, TRUE),
     remain_paused |->
        Decision({"paused", "failed", "partially_failed"}, "any", "any", FALSE, FALSE),
     renew_active_claim |-> Decision({"claimed"}, "any", "unexpired", FALSE, TRUE),
     renew_expired_claim |-> Decision({"failed"}, "any", "expired", FALSE, TRUE),
     take_over_expired_claim |-> Decision({"failed"}, "any", "expired", FALSE, TRUE),
     abandon_expired_claim |-> Decision({"failed"}, "any", "expired", FALSE, TRUE)]

----------------------------------------------------------------------------
(* Operations. *)

\* needs: "approval" is current, the "worker" holds the claim, the current
\* "graph" is the plan's.
Operation(accepts, result, events, needs) ==
    [accepts |-> accepts, result |-> result, events |-> events, needs |-> needs]

\* compensation.begin asks for no worker; only the last one writes a graph.
Operations ==
    LET worked == {"approval", "worker"}
    IN  [admit_execution |->
            Operation({}, "none", {"request_admitted"}, {"approval", "graph"}),
         claim_run |-> Operation({}, "claimed", {"request_claimed", "run_opened"}, worked),
         start_run |-> Operation({"claimed"}, "running", {"run_started"}, worked),
         pause_run |-> Operation({"running"}, "paused", {"run_paused"}, worked),
         resume_run |-> Operation({"paused"}, "running", {"run_resumed"}, worked),
         complete_run |-> Operation({"running"}, "succeeded", {"run_succeeded"}, worked),
         fail_run |-> Operation({"running", "paused"}, "failed", {"run_failed"}, worked),
         begin_compensation |-> Operation({"failed"}, "compensating",
            {"run_compensation_started"}, {"approval", "graph"}),
         complete_compensation |-> Operation({"compensating"}, "compensated",
            {"run_compensation_succeeded"}, worked),
         fail_compensation |-> Operation({"compensating"}, "partially_failed",
            {"run_compensation_failed"}, worked),
         cancel_run |-> Operation({"claimed", "running", "paused"}, "cancelled",
            {"run_cancelled"}, worked),
         record_recovery_decision |->
            Operation({"claimed", "paused", "failed", "partially_failed"}, "none",
               {"recovery_decision_recorded"}, worked),
         advance_current_graph |-> Operation({"succeeded"}, "succeeded",
            {"current_graph_advanced"}, worked \cup {"graph"})]

WritesCurrentGraph == {"advance_current_graph"}

----------------------------------------------------------------------------
(* What the constructors refuse. *)

CoherentDecisions ==
    /\ DOMAIN Decisions = DOMAIN RecoveryScopes
    /\ \A k \in DOMAIN Decisions :
         LET d == Decisions[k]
         IN  /\ d.from # {} /\ d.from \subseteq Statuses
             /\ IF k \in DOMAIN ClaimDecisions
                THEN [from |-> d.from, lease |-> d.lease] = ClaimDecisions[k]
                ELSE d.lease = "any"

CoherentOperations ==
    /\ \A k \in DOMAIN Operations :
         LET o == Operations[k]
         IN  /\ o.accepts \subseteq Statuses
             /\ o.result \in Statuses \cup {"none"}
             /\ o.events \subseteq DOMAIN EventContract
    /\ WritesCurrentGraph \subseteq {"advance_current_graph"}

CoherentContract ==
    /\ DOMAIN Timing = Statuses
    /\ DOMAIN EventContract = RequestEvents \cup RunEvents \cup ActivityEvents
    /\ CoherentDecisions
    /\ CoherentOperations

\* The operation that records a decision accepts exactly the statuses that
\* some decision starts from: no constructor checks it, the tables satisfy it.
DecisionsCanBeRecorded ==
    UNION {Decisions[k].from : k \in DOMAIN Decisions}
        = Operations["record_recovery_decision"].accepts

ASSUME LifecycleContractAssumption == CoherentContract /\ DecisionsCanBeRecorded

=============================================================================
