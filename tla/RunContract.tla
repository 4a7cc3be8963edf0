----------------------------- MODULE RunContract ----------------------------
(***************************************************************************)
(* What the tables of LifecycleContract allow to happen to the runs of one *)
(* admitted request: the abstract specification of every service that      *)
(* changes a run, its claim or the current graph.  What effects do is left *)
(* open, except for what the decisions look at.                            *)
(***************************************************************************)
EXTENDS LifecycleContract, Naturals

CONSTANTS Workers, NoFence, MaxRuns

Runs == 1..MaxRuns

VARIABLES
    status,   \* per run, "none" before it is opened
    claim,    \* the request's fence, and whether its lease has expired
    graph,    \* the current graph against the plan's
    effects   \* per run: is an effect uncertain, is there one to undo

Init ==
    /\ status = [r \in Runs |-> "none"]
    /\ claim = [fence |-> NoFence, expired |-> FALSE]
    /\ graph = "pinned"
    /\ effects = [r \in Runs |-> [uncertain |-> FALSE, undoable |-> FALSE]]

\* The operation finds what it needs.
Admissible(op, r) ==
    LET o == Operations[op]
    IN  /\ status[r] \in o.accepts
        /\ "worker" \in o.needs => claim.fence # NoFence
        /\ "graph" \in o.needs => graph = "pinned"

\* The decision finds what it requires.
Decidable(kind, r) ==
    LET d == Decisions[kind]
    IN  /\ status[r] \in d.from
        /\ d.uncertainty = "some" => effects[r].uncertain
        /\ d.uncertainty = "none" => ~effects[r].uncertain
        /\ d.undoable => effects[r].undoable
        /\ d.lease # "any" => claim.expired = (d.lease = "expired")

Become(r, op) == status' = [status EXCEPT ![r] = Operations[op].result]

\* The first run is opened with the first claim.
ClaimAndOpen ==
    /\ \A r \in Runs : status[r] = "none"
    /\ Become(1, "claim_run")
    /\ \E w \in Workers :
         claim' = [fence |-> [worker |-> w, generation |-> 1], expired |-> FALSE]
    /\ UNCHANGED <<graph, effects>>

Transitions == {"start_run", "pause_run", "resume_run", "complete_run", "fail_run",
                "complete_compensation", "fail_compensation", "cancel_run"}

Operate(op, r) ==
    /\ Admissible(op, r)
    /\ Become(r, op)
    /\ UNCHANGED <<claim, graph, effects>>

\* Compensation is both an operation and a decision.
Compensate(r) ==
    /\ Admissible("begin_compensation", r)
    /\ Decidable("begin_compensation", r)
    /\ Become(r, "begin_compensation")
    /\ UNCHANGED <<claim, graph, effects>>

\* A retried run keeps its status, and the next one is opened as if claimed.
Retry(r) ==
    /\ Decidable("retry_as_new_run", r)
    /\ r + 1 \in Runs /\ status[r + 1] = "none"
    /\ Become(r + 1, "claim_run")
    /\ UNCHANGED <<claim, graph, effects>>

\* A renewed or taken claim has the next generation and a fresh lease.
Succeed(worker) ==
    claim' = [fence |-> [worker |-> worker, generation |-> claim.fence.generation + 1],
              expired |-> FALSE]

\* status[r + 1] = "none": the decision is about the newest run.
Newest(r) == r + 1 \in Runs => status[r + 1] = "none"

Reclaim(r) ==
    /\ claim.fence # NoFence
    /\ Newest(r)
    /\ \/ \E k \in {"renew_active_claim", "renew_expired_claim"} :
            Decidable(k, r) /\ Succeed(claim.fence.worker)
       \/ /\ Decidable("take_over_expired_claim", r)
          /\ \E w \in Workers : Succeed(w)
       \/ /\ Decidable("abandon_expired_claim", r)
          /\ claim' = [fence |-> NoFence, expired |-> FALSE]
    /\ UNCHANGED <<status, graph, effects>>

Advance(r) ==
    /\ Admissible("advance_current_graph", r)
    /\ Become(r, "advance_current_graph")
    /\ graph' = "advanced"
    /\ UNCHANGED <<claim, effects>>

\* What the contract does not decide: effects, the clock, other plans.
Surroundings ==
    \/ /\ effects' \in [Runs -> [uncertain : BOOLEAN, undoable : BOOLEAN]]
       /\ UNCHANGED <<status, claim, graph>>
    \/ /\ claim.fence # NoFence
       /\ claim' = [claim EXCEPT !.expired = TRUE]
       /\ UNCHANGED <<status, graph, effects>>
    \/ /\ graph = "pinned"
       /\ graph' = "moved"
       /\ UNCHANGED <<status, claim, effects>>

Next ==
    \/ Surroundings
    \/ ClaimAndOpen
    \/ \E r \in Runs : \/ \E op \in Transitions : Operate(op, r)
                       \/ Compensate(r) \/ Retry(r) \/ Reclaim(r) \/ Advance(r)

Spec == Init /\ [][Next]_<<status, claim, graph, effects>>

=============================================================================
