---------------------------- MODULE MCDeployment ----------------------------
(***************************************************************************)
(* Small instances of Deployment.                                          *)
(***************************************************************************)
EXTENDS Deployment, TLC

CONSTANTS s1, s2, p1, p2, u1, u2, t0, t1, t2

\* Taking t1 away is destructive; going to t2 needs a review.
Removal == {<<t1, t0>>}
Reviewed == {<<t0, t2>>}

TwoSessions == {s1, s2}
ProcessSymmetry == Permutations({p1, p2}) \cup Permutations(TwoSessions)

\* State constraint: one author's prepare commands race one another and operators,
\* and what they prepared goes on to be executed, or the plans of operators in
\* one session do, with a projection that cycles.
Authoring ==
    /\ \A s \in Sessions : command[s] = NoCommand \/ command[s].actor = u1
    /\ workspace.desired = NoLineage \/ workspace.desired.projection = "identity"
    /\ \A p \in DOMAIN plans : plans[p].by = "prepare"
    /\ \A a \in DOMAIN approvals : approvals[a].by = "prepare"

Reviewing ==
    /\ \A s \in Sessions : command[s] = NoCommand
    /\ \A s, r \in Sessions : "none" \in {session[s], session[r]} \/ s = r
    /\ \A g \in DOMAIN graphs : graphs[g].topology # t2

AuthoringOrReviewing == Authoring \/ Reviewing

=============================================================================
