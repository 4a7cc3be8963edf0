---------------------------- MODULE SagaJournal ----------------------------
(***************************************************************************)
(* The projection of one run's activity journal                            *)
(* (control_plane_kit_core/planning/saga.py).                              *)
(*                                                                         *)
(* project_activity_journal is a left fold over the durable events in      *)
(* ordinal order, and an event that the fold rejects makes the whole       *)
(* journal unusable from then on.  A journal is therefore represented by   *)
(* the accumulator of that fold: Apply(j, kind, a) is the fold's step and  *)
(* coherent records that no event has been rejected so far.                *)
(*                                                                         *)
(* Left out: SagaCancelled and review-blocked plans.  No durable event     *)
(* projects to SagaCancelled (activity_journal.py) and admission refuses a *)
(* plan that contains a ReviewChange.                                      *)
(***************************************************************************)
EXTENDS Naturals, Sequences

CONSTANTS
    Activities,    \* the activities of the admitted plan
    Predecessors,  \* the plan's dependency relation, activity -> activities
    Compensable    \* activities whose compensation is a Compensate value

ASSUME PlanAssumption ==
    /\ Predecessors \in [Activities -> SUBSET Activities]
    /\ Compensable \subseteq Activities

\* SagaStepStatus.
StepStatus == {"pending", "running", "succeeded", "failed",
               "compensating", "compensated", "compensation_failed"}

(***************************************************************************)
(* step            SagaStepState.status per activity                       *)
(* order           the activities of the success events, in ordinal order: *)
(*                 completion_order while the journal is coherent          *)
(* uncertain       the keys of uncertain_by_step                           *)
(* compUncertain   the keys of compensation_uncertain_by_step              *)
(* requested       compensation_requested                                  *)
(* coherent        no event was rejected by evolve or by the projection    *)
(***************************************************************************)
Journals == [step : [Activities -> StepStatus],
             order : Seq(Activities),
             uncertain : SUBSET Activities,
             compUncertain : SUBSET Activities,
             requested : BOOLEAN,
             coherent : BOOLEAN]

EmptyJournal == [step |-> [a \in Activities |-> "pending"],
                 order |-> << >>,
                 uncertain |-> {},
                 compUncertain |-> {},
                 requested |-> FALSE,
                 coherent |-> TRUE]

----------------------------------------------------------------------------
(* Readings of a journal. *)

StepsIn(j, s) == {a \in Activities : j.step[a] = s}

\* compensation_candidates, as a set; the list is ordered by IsHeadCandidate.
Candidates(j) == {j.order[i] : i \in DOMAIN j.order}
                    \cap Compensable \cap StepsIn(j, "succeeded")

\* Activity b has a success event after one of activity a.
CompletedAfter(j, b, a) ==
    \E p, q \in DOMAIN j.order : p < q /\ j.order[p] = a /\ j.order[q] = b

\* compensation_candidates(state)[0]: the candidate that completed last.
IsHeadCandidate(j, a) ==
    /\ a \in Candidates(j)
    /\ \A b \in Candidates(j) \ {a} : ~CompletedAfter(j, b, a)

\* SagaState.status.
SagaStatus(j) ==
    IF StepsIn(j, "compensating") # {} THEN "compensating"
    ELSE IF StepsIn(j, "compensation_failed") # {} THEN "partially_compensated"
    ELSE IF j.requested /\ Candidates(j) # {} THEN "compensating"
    ELSE IF /\ j.requested \/ StepsIn(j, "failed") # {}
            /\ Candidates(j) = {}
            /\ StepsIn(j, "compensated") # {} THEN "compensated"
    ELSE IF StepsIn(j, "failed") # {} THEN "failed"
    ELSE IF Activities # {} /\ StepsIn(j, "succeeded") = Activities THEN "succeeded"
    ELSE "active"

\* derive_schedule(...).ready: a pending step is blocked by every status but
\* ACTIVE (SUCCEEDED has no pending step), so the predecessors decide the rest.
Ready(j) == {a \in StepsIn(j, "pending") :
                /\ SagaStatus(j) = "active"
                /\ \A p \in Predecessors[a] : j.step[p] = "succeeded"}

\* SagaJournalProjection.in_flight and .compensation_in_flight.
InFlight(j) == (StepsIn(j, "running") \ j.uncertain)
                  \cup (StepsIn(j, "compensating") \ j.compUncertain)

----------------------------------------------------------------------------
(* evolve: one saga event applied to the projection. *)

Reject(j) == [j EXCEPT !.coherent = FALSE]

StepTo(j, a, s) == [j EXCEPT !.step = [@ EXCEPT ![a] = s]]

\* _replace_step after _require_step_status.
Move(j, a, from, to) == IF j.step[a] = from THEN StepTo(j, a, to) ELSE Reject(j)

EvolveStarted(j, a) ==
    IF SagaStatus(j) = "active" /\ ~j.requested
    THEN Move(j, a, "pending", "running")
    ELSE Reject(j)

EvolveSucceeded(j, a) ==
    [Move(j, a, "running", "succeeded") EXCEPT !.order = Append(@, a)]

EvolveFailed(j, a) == Move(j, a, "running", "failed")

EvolveCompensationRequested(j) ==
    IF /\ ~j.requested
       /\ SagaStatus(j) \in {"active", "succeeded", "failed"}
       /\ Candidates(j) # {}
    THEN [j EXCEPT !.requested = TRUE]
    ELSE Reject(j)

EvolveCompensationStarted(j, a) ==
    IF IsHeadCandidate(j, a) THEN StepTo(j, a, "compensating") ELSE Reject(j)

----------------------------------------------------------------------------
(* project_activity_journal: one durable event. *)

\* A resolution needs prior uncertain evidence, which it consumes.
Resolve(j, a, resolved) ==
    IF a \in j.uncertain
    THEN [resolved EXCEPT !.uncertain = @ \ {a}]
    ELSE Reject(j)

ResolveCompensation(j, a, to) ==
    IF a \in j.compUncertain
    THEN [Move(j, a, "compensating", to) EXCEPT !.compUncertain = @ \ {a}]
    ELSE Reject(j)

ForwardEvents == {"step_started", "step_succeeded", "step_failed",
                  "step_unsupported", "step_uncertain",
                  "step_uncertainty_resolved_succeeded",
                  "step_uncertainty_resolved_failed",
                  "step_uncertainty_abandoned"}

CompensationEvents == {"step_compensation_started", "step_compensation_succeeded",
                       "step_compensation_failed", "step_compensation_unsupported",
                       "step_compensation_uncertain",
                       "step_compensation_uncertainty_resolved_succeeded",
                       "step_compensation_uncertainty_resolved_failed",
                       "step_compensation_uncertainty_abandoned"}

StepEvents == ForwardEvents \cup CompensationEvents

ProjectForward(j, kind, a) ==
    CASE kind = "step_started" -> EvolveStarted(j, a)
      [] kind = "step_succeeded" -> EvolveSucceeded(j, a)
      [] kind = "step_failed" -> EvolveFailed(j, a)
      [] kind = "step_unsupported" ->
            EvolveFailed(IF j.step[a] = "pending" THEN EvolveStarted(j, a) ELSE j, a)
      [] kind = "step_uncertain" -> [j EXCEPT !.uncertain = @ \cup {a}]
      [] kind = "step_uncertainty_resolved_succeeded" ->
            Resolve(j, a, EvolveSucceeded(j, a))
      [] kind = "step_uncertainty_resolved_failed" -> Resolve(j, a, EvolveFailed(j, a))
      [] kind = "step_uncertainty_abandoned" -> Resolve(j, a, EvolveFailed(j, a))

ProjectCompensation(j, kind, a) ==
    CASE kind = "step_compensation_started" -> EvolveCompensationStarted(j, a)
      [] kind = "step_compensation_succeeded" ->
            Move(j, a, "compensating", "compensated")
      [] kind = "step_compensation_failed" ->
            Move(j, a, "compensating", "compensation_failed")
      [] kind = "step_compensation_unsupported" ->
            Move(IF j.step[a] = "compensating" THEN j
                 ELSE EvolveCompensationStarted(j, a),
                 a, "compensating", "compensation_failed")
      [] kind = "step_compensation_uncertain" ->
            [j EXCEPT !.compUncertain = @ \cup {a}]
      [] kind = "step_compensation_uncertainty_resolved_succeeded" ->
            ResolveCompensation(j, a, "compensated")
      [] kind = "step_compensation_uncertainty_resolved_failed" ->
            ResolveCompensation(j, a, "compensation_failed")
      [] kind = "step_compensation_uncertainty_abandoned" ->
            ResolveCompensation(j, a, "compensation_failed")

SuccessEvents == {"step_succeeded", "step_uncertainty_resolved_succeeded"}

\* A rejected journal stays rejected; only the durable order of the success
\* events is still readable from it.
Apply(j, kind, a) ==
    IF j.coherent
    THEN IF kind \in ForwardEvents THEN ProjectForward(j, kind, a)
         ELSE ProjectCompensation(j, kind, a)
    ELSE IF kind \in SuccessEvents THEN [j EXCEPT !.order = Append(@, a)] ELSE j

\* RUN_COMPENSATION_STARTED, the one run-level event the projection reads.
ApplyCompensationRequested(j) ==
    IF j.coherent THEN EvolveCompensationRequested(j) ELSE j

=============================================================================
