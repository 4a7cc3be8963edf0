------------------------------- MODULE Control ------------------------------
(***************************************************************************)
(* The parts of the control plane that surround the execution of a plan:   *)
(* the secret registry, the registry of products and runtime authorities,  *)
(* the rollout of a compiled plan, public ingress, node control, the paged *)
(* reads, the answers of the command services, and the evidence of effects.  *)
(*                                                                         *)
(* Their tables and their outside worlds are disjoint, so a step of one    *)
(* part commutes with a step of every other, and no property relates two   *)
(* parts.  A behaviour therefore picks the part that moves, its focus, and *)
(* the others keep their first state.                                      *)
(***************************************************************************)
EXTENDS SecretRegistry, RuntimeRegistry, Rollout, PublicIngress, NodeControl, ReadPages,
        CommandReplay, EffectFolds

VARIABLE focus    \* the part that moves

controlVars == <<svars, regvars, rvars, ivars, cvars, pvars, mvars, evars, focus>>

First(S) == CHOOSE x \in S : TRUE

\* Where a part has several first states only the part in focus has them all.
PlaneInit ==
    /\ focus \in {"secrets", "registry", "rollout", "ingress", "node-control", "reads",
                 "commands", "evidence"}
    /\ SecretInit /\ RegistryInit /\ IngressInit /\ ControlInit /\ ReplayInit
    /\ focus # "node-control" =>
          /\ lineage = First(Revisions)
          /\ \A k \in ControlKeys : signing[k] = "active" <=>
                k = First({x \in ControlKeys : x.purpose = k.purpose})
    /\ \/ focus = "rollout" /\ RolloutInit
       \/ focus # "rollout" /\ RolloutInitOf(EmptyGraph, EmptyGraph)
    /\ \/ focus = "reads" /\ PageInit
       \/ focus # "reads" /\ PageInitOf(First(PagedCollections))
    /\ EvidenceInit
    /\ focus # "evidence" =>
          /\ planned = First(DOMAIN Contracts)
          /\ holder.fence.worker = First(EvidenceWorkers)

PlaneNext ==
    \/ /\ focus = "secrets" /\ SecretNext
       /\ UNCHANGED <<regvars, rvars, ivars, cvars, pvars, mvars, evars, focus>>
    \/ /\ focus = "registry" /\ RegistryNext
       /\ UNCHANGED <<svars, rvars, ivars, cvars, pvars, mvars, evars, focus>>
    \/ /\ focus = "rollout" /\ RolloutNext
       /\ UNCHANGED <<svars, regvars, ivars, cvars, pvars, mvars, evars, focus>>
    \/ /\ focus = "ingress" /\ IngressNext
       /\ UNCHANGED <<svars, regvars, rvars, cvars, pvars, mvars, evars, focus>>
    \/ /\ focus = "node-control" /\ ControlNext
       /\ UNCHANGED <<svars, regvars, rvars, ivars, pvars, mvars, evars, focus>>
    \/ /\ focus = "reads" /\ PageNext
       /\ UNCHANGED <<svars, regvars, rvars, ivars, cvars, mvars, evars, focus>>
    \/ /\ focus = "commands" /\ ReplayNext
       /\ UNCHANGED <<svars, regvars, rvars, ivars, cvars, pvars, evars, focus>>
    \/ /\ focus = "evidence" /\ EvidenceNext
       /\ UNCHANGED <<svars, regvars, rvars, ivars, cvars, pvars, mvars, focus>>

PlaneSpec == PlaneInit /\ [][PlaneNext]_controlVars

\* Every part's state has the shape its tables and records give it; a secret is
\* released only for a correlation whose use was committed, and every signed
\* command is one of the recorded attempts.
ControlTypeOK ==
    /\ SecretTypeOK /\ RegistryTypeOK /\ RolloutTypeOK
    /\ IngressTypeOK /\ NodeControlTypeOK /\ PageTypeOK /\ EvidenceTypeOK

=============================================================================
