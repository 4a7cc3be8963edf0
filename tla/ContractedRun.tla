---------------------------- MODULE ContractedRun ---------------------------
(***************************************************************************)
(* The services of ExecutionRun against the published lifecycle contract.  *)
(***************************************************************************)
EXTENDS ExecutionRun

\* A run's effects as the contract's decisions see them: an attempt that is
\* uncertain, and a program that would have a step.
EffectsSeen ==
    [r \in Runs |->
        [uncertain |-> AttemptsWith(r, 1, {"uncertain"}) # {},
         undoable |-> ProgramSteps(r) # {}]]

Contract == INSTANCE RunContract WITH
    status <- [r \in Runs |-> run[r].status],
    claim <- [fence |-> request.claim, expired |-> request.expired],
    graph <- workspace,
    effects <- EffectsSeen

\* Whatever commands race, expire or repeat, every change of a run's status,
\* of the claim or of the current graph is an operation or a recovery decision
\* of the lifecycle contract (core operations/lifecycle.py) that found what the
\* contract requires, although every service states its own guards
\* (lifecycle.py, execution_lease_recovery_interpreter.py,
\* activity_run_retry_interpreter.py, failed_run_compensation.py,
\* advancement.py).
ImplementsContract == Contract!Spec

=============================================================================
