--------------------------- MODULE MCCoordinator ---------------------------
(***************************************************************************)
(* Small instances of Coordinator.                                         *)
(***************************************************************************)
EXTENDS Coordinator, TLC

CONSTANTS a1, a2, w1, i1, i2, k1, k2

OneActivity == {a1}
OneActivityPlan == a1 :> {}

TwoActivities == {a1, a2}
ParallelPlan == (a1 :> {}) @@ (a2 :> {})

OneActivityOrder == a1 :> 1
PlanOrder == (a1 :> 1) @@ (a2 :> 2)

InvocationSymmetry == Permutations({i1, i2}) \cup Permutations({k1, k2})

=============================================================================
