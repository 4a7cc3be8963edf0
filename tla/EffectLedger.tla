---------------------------- MODULE EffectLedger ----------------------------
(***************************************************************************)
(* What the effect attempt services promise together, without workers,     *)
(* fences, leases, runs or journals: a ledger with one line per effect.    *)
(*                                                                         *)
(* An effect is entered before it is performed, performed at most once,    *)
(* and given one verdict, which is what happened or an admission of        *)
(* uncertainty; only uncertainty is ever settled afterwards, by decision.  *)
(***************************************************************************)
EXTENDS Naturals

CONSTANT Effects

VARIABLES
    verdict,  \* the line's status: see Status
    done      \* what happened at the provider

Results == {"none", "succeeded", "failed"}

Status == {"none", "started", "succeeded", "failed", "unsupported", "uncertain",
           "abandoned"}

Init ==
    /\ verdict = [e \in Effects |-> "none"]
    /\ done = [e \in Effects |-> [calls |-> 0, result |-> "none"]]

Enter(e) ==
    /\ verdict[e] = "none"
    /\ verdict' = [verdict EXCEPT ![e] = "started"]
    /\ UNCHANGED done

\* The process that entered the effect may be slow: the line can have been
\* decided before the effect is performed.
Perform(e) ==
    /\ verdict[e] # "none"
    /\ done[e].calls = 0
    /\ \E r \in Results \ {"none"} :
         done' = [done EXCEPT ![e] = [calls |-> 1, result |-> r]]
    /\ UNCHANGED verdict

\* success and failure must have happened; uncertainty claims nothing.
Supported(e, v) ==
    /\ v = "succeeded" => done[e].result = "succeeded"
    /\ v \in {"failed", "unsupported"} => done[e].result = "failed"

Decide(e) ==
    /\ verdict[e] = "started"
    /\ \E v \in Status \ {"none", "started", "abandoned"} :
         /\ Supported(e, v)
         /\ verdict' = [verdict EXCEPT ![e] = v]
    /\ UNCHANGED done

Settle(e) ==
    /\ verdict[e] = "uncertain"
    /\ \E v \in {"succeeded", "failed", "abandoned"} :
         verdict' = [verdict EXCEPT ![e] = v]
    /\ UNCHANGED done

Next == \E e \in Effects : Enter(e) \/ Perform(e) \/ Decide(e) \/ Settle(e)

Spec == Init /\ [][Next]_<<verdict, done>>

=============================================================================
