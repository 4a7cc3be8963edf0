--------------------------- MODULE MCExecutionRun ---------------------------
(***************************************************************************)
(* Small instances of ExecutionRun: plans of two or three activities.       *)
(***************************************************************************)
EXTENDS ContractedRun, LifecycleContract, TLC

CONSTANTS a1, a2, a3, w1, w2

\* a1 and a2 are independent, a3 waits for both.
ThreeActivities == {a1, a2, a3}
JoinPlan == (a1 :> {}) @@ (a2 :> {}) @@ (a3 :> {a1, a2})

TwoActivities == {a1, a2}
ParallelPlan == (a1 :> {}) @@ (a2 :> {})

TwoWorkers == {w1, w2}
WorkerSymmetry == Permutations(TwoWorkers)

\* State constraint: a behaviour is cut where the session ends or the desired
\* graph moves on, which only disables commands.
Undisturbed == session = "open" /\ workspace # "moved"

\* State constraint: reconcilers are explored while one activity has attempts.
Known == {e \in Effects : attempt[e] # NoAttempt}
ObservedAlone ==
    observers # {} => \A e, f \in Known : e.activity = f.activity

\* State constraint: an observer that races the process of an attempt, and a
\* process whose attempt an observer has settled, are explored where the second
\* activity waits for the first and nothing is uncertain.
Raced ==
    \/ observers # {}
    \/ \E e \in Effects : caller[e] # "none" /\ attempt[e].status # "started"

RacedInTurn ==
    Raced =>
        /\ \A r \in Runs :
             attempt[Forward(r, a2)] # NoAttempt => attempt[Forward(r, a1)].status = "succeeded"
        /\ \A e \in Effects : "uncertain" \notin {attempt[e].status, caller[e]}

=============================================================================
