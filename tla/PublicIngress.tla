---------------------------- MODULE PublicIngress ---------------------------
(***************************************************************************)
(* Realizing one named public ingress: ingress_realization.py over         *)
(* postgres/ingress_authority_store.py and the Cloudflare interpreter,     *)
(* which is external.                                                      *)
(*                                                                         *)
(* An effect is one call of the adapter, to allocate or to remove; the     *)
(* coordinator may let two of them overlap, and any may die with its       *)
(* process.  Every transaction of the adapter is one action, and so is     *)
(* every provider call, which may fail half way.  What marks a row reads   *)
(* it without a lock and updates it by epoch, and is two.                  *)
(***************************************************************************)
EXTENDS Naturals, Sequences

CONSTANTS
    IngressEffects,   \* calls of the adapter, numbered as they begin
    MaxEpochs         \* bound on recorded allocations

ASSUME IngressAssumption == IngressEffects \subseteq Nat /\ MaxEpochs \in Nat \ {0}

VARIABLES
    zone,      \* the ingress authority: "unregistered", "active", "revoked"
    custodian, \* the secret provider of generated tokens: "active", "revoked"
    epochs,    \* cpk_cloudflare_ingress_resources, by epoch
    tokens,    \* effects whose generated token is recorded
    cloud,     \* what exists at the provider: <<kind, effect>>
    effects    \* per effect its operation, how far it is and what it reports

ivars == <<zone, custodian, epochs, tokens, cloud, effects>>

\* PublicIngressLifecycle; only what is ephemeral is ever torn down.
IngressLifecycles == {"ephemeral", "retained", "external"}

\* OwnedIngressResourceStatus, those the adapter writes.
ResourceStatuses == {"active", "removing", "removed", "uncertain"}

\* CloudflareOwnedIngressResource: the effect that created it names the tunnel
\* and the DNS record; source is the run that touched it last.
ResourceRows ==
    [tunnel : IngressEffects, source : IngressEffects,
     lifecycle : IngressLifecycles, status : ResourceStatuses]

Outcomes == {"none", "succeeded", "failed", "unsupported", "uncertain"}
EffectRecords ==
    [op : {"none", "allocate", "remove"},
     pc : {"idle", "granted", "created", "undo", "planned", "marking", "marked",
           "torn", "removing", "doubtful", "doubting", "ended", "dead"},
     epoch : 0 .. MaxEpochs, row : 0 .. MaxEpochs, lifecycle : IngressLifecycles, outcome : Outcomes]

Parts(t) == {<<"tunnel", t>>, <<"dns", t>>}

\* _get_cloudflare_by_status: the latest epoch with one of the statuses, or 0.
RowsWith(statuses) == {e \in DOMAIN epochs : epochs[e].status \in statuses}
Latest(statuses) ==
    LET found == RowsWith(statuses)
    IN IF found = {} THEN 0 ELSE CHOOSE e \in found : \A f \in found : f <= e

\* _BLOCKING_INGRESS_RESOURCE_STATUSES.
Blocking == {"active", "removing", "uncertain"}
Blocked == RowsWith(Blocking) # {}

\* cpk_cloudflare_ingress_resources_active_key: of these rows there is one.
InForce == RowsWith({"active", "removing"})

At(x, pc) == effects[x].pc = pc
Begins(x) == At(x, "idle") /\ \A y \in IngressEffects : y < x => ~ At(y, "idle")
Move(x, pc) == effects' = [effects EXCEPT ![x].pc = pc]
End(x, outcome) == effects' = [effects EXCEPT ![x].pc = "ended", ![x].outcome = outcome]

(***************************************************************************)
(* Authorities.                                                            *)
(***************************************************************************)
\* register: an authority under this reference, unless one is active.
RegisterZone ==
    /\ zone # "active"
    /\ zone' = "active"
    /\ UNCHANGED <<custodian, epochs, tokens, cloud, effects>>

RevokeZone ==
    /\ zone = "active"
    /\ zone' = "revoked"
    /\ UNCHANGED <<custodian, epochs, tokens, cloud, effects>>

\* The registration the authority names for generated secrets is revoked or
\* superseded; it never becomes active again.
LoseCustodian ==
    /\ custodian = "active"
    /\ custodian' = "revoked"
    /\ UNCHANGED <<zone, epochs, tokens, cloud, effects>>

\* require_active_for_hostname, the API token's grant and the custody grant.
Granted == zone = "active" /\ custodian = "active"

(***************************************************************************)
(* _allocate.                                                              *)
(***************************************************************************)
\* The checks before the provider is called: a check that fails is reported as
\* unsupported, one that raises anything unforeseen, or a clock that does, as
\* uncertain.
Allocate(x, lifecycle) ==
    /\ Begins(x)
    /\ \E outcome \in {"none", "unsupported", "uncertain"} :
         /\ outcome = "none" => Granted /\ ~ Blocked
         /\ effects' = [effects EXCEPT ![x] =
              [op |-> "allocate", epoch |-> 0, row |-> 0, lifecycle |-> lifecycle,
               pc |-> IF outcome = "none" THEN "granted" ELSE "ended",
               outcome |-> outcome]]
    /\ UNCHANGED <<zone, custodian, epochs, tokens, cloud>>

\* The interpreter's create.  A failed one may leave a part of what it made:
\* its cleanup can fail too.
Create(x) ==
    /\ At(x, "granted")
    /\ \/ /\ ~ \E y \in IngressEffects : <<"dns", y>> \in cloud
          /\ cloud' = cloud \cup Parts(x)
          /\ Move(x, "created")
       \/ \E left \in SUBSET Parts(x) :
            /\ cloud' = cloud \cup left
            /\ End(x, "uncertain")
    /\ UNCHANGED <<zone, custodian, epochs, tokens>>

\* The durable fold, one transaction: the custodian is still the one that took
\* the token, and no row blocks; it may fail for other reasons.
Fold(x) ==
    /\ At(x, "created")
    /\ \/ /\ custodian = "active" /\ ~ Blocked /\ Len(epochs) < MaxEpochs
          /\ epochs' = Append(epochs, [tunnel |-> x, source |-> x, status |-> "active",
                                       lifecycle |-> effects[x].lifecycle])
          /\ tokens' = tokens \cup {x}
          /\ End(x, "succeeded")
       \/ Move(x, "undo") /\ UNCHANGED <<epochs, tokens>>
    /\ UNCHANGED <<zone, custodian, cloud>>

\* The interpreter's teardown of t: it succeeds, or leaves a part.
TornDown(t) == cloud \ Parts(t)
PartlyTornDown(t) == {cloud \ gone : gone \in SUBSET Parts(t)}

\* Mutant of Compensate: a teardown that raised is reported as compensated.
CompensateHopefully(x) ==
    /\ At(x, "undo")
    /\ cloud' \in PartlyTornDown(x)
    /\ End(x, "failed")
    /\ UNCHANGED <<zone, custodian, epochs, tokens>>

\* Only a teardown that returned makes the failure a retryable one.
Compensate(x) ==
    /\ At(x, "undo")
    /\ \/ cloud' = TornDown(x) /\ End(x, "failed")
       \/ cloud' \in PartlyTornDown(x) /\ End(x, "uncertain")
    /\ UNCHANGED <<zone, custodian, epochs, tokens>>

(***************************************************************************)
(* _remove.                                                                *)
(***************************************************************************)
\* The checks: an active row whose token was recorded by the run that created
\* it.  What is retained or external is left alone, and its row stays active.
Remove(x) ==
    /\ Begins(x)
    /\ LET e == Latest({"active"})
           found == Granted /\ e # 0 /\ epochs[e].source \in tokens
       IN effects' = [effects EXCEPT ![x] =
            [op |-> "remove", epoch |-> 0, row |-> 0,
             lifecycle |-> IF found THEN epochs[e].lifecycle ELSE "ephemeral",
             pc |-> IF found /\ epochs[e].lifecycle = "ephemeral" THEN "planned" ELSE "ended",
             outcome |-> IF ~ found THEN "unsupported"
                         ELSE IF epochs[e].lifecycle = "ephemeral" THEN "none"
                         ELSE "succeeded"]]
    /\ UNCHANGED <<zone, custodian, epochs, tokens, cloud>>

\* mark_removing, the read.  Without an active row it raises, and the
\* coordinator records the effect as uncertain.
ReadRow(x) ==
    /\ At(x, "planned")
    /\ LET e == Latest({"active"})
       IN IF e = 0 THEN End(x, "uncertain")
          ELSE effects' = [effects EXCEPT ![x].pc = "marking", ![x].epoch = e]
    /\ UNCHANGED <<zone, custodian, epochs, tokens, cloud>>

SetRow(e, status, x) ==
    epochs' = [epochs EXCEPT ![e].status = status, ![e].source = x]

\* The update, by epoch.  The row may have been removed since it was read; if by
\* now another one is in force the index refuses, and the effect raises.
MarkRemoving(x) ==
    /\ At(x, "marking")
    /\ \/ /\ InForce \subseteq {effects[x].epoch}
          /\ SetRow(effects[x].epoch, "removing", x)
          /\ Move(x, "marked")
       \/ /\ ~ (InForce \subseteq {effects[x].epoch})
          /\ UNCHANGED epochs
          /\ End(x, "uncertain")
    /\ UNCHANGED <<zone, custodian, tokens, cloud>>

Teardown(x) ==
    /\ At(x, "marked")
    /\ LET t == epochs[effects[x].epoch].tunnel
       IN \/ cloud' = TornDown(t) /\ Move(x, "torn")
          \/ cloud' \in PartlyTornDown(t) /\ Move(x, "doubtful")
    /\ UNCHANGED <<zone, custodian, epochs, tokens>>

\* mark_uncertain finds the latest row that blocks, and marks it by its epoch,
\* whatever became of it in between.
FindDoubtful(x) ==
    /\ At(x, "doubtful")
    /\ IF Blocked
       THEN effects' = [effects EXCEPT ![x].pc = "doubting", ![x].row = Latest(Blocking)]
       ELSE End(x, "uncertain")
    /\ UNCHANGED <<zone, custodian, epochs, tokens, cloud>>

MarkUncertain(x) ==
    /\ At(x, "doubting")
    /\ SetRow(effects[x].row, "uncertain", x)
    /\ End(x, "uncertain")
    /\ UNCHANGED <<zone, custodian, tokens, cloud>>

\* mark_removed finds the latest row that is active or removing, which need not
\* be the one it marked; none raises.  A clock that fails comes first, and
\* leaves the row removing.
FindRemoved(x) ==
    /\ At(x, "torn")
    /\ LET e == Latest({"active", "removing"})
       IN \/ End(x, "uncertain")
          \/ e # 0 /\ effects' = [effects EXCEPT ![x].pc = "removing", ![x].row = e]
    /\ UNCHANGED <<zone, custodian, epochs, tokens, cloud>>

\* The update also writes back the source it read, which nothing reads of a row
\* that is no longer active.
MarkRemoved(x) ==
    /\ At(x, "removing")
    /\ epochs' = [epochs EXCEPT ![effects[x].row].status = "removed"]
    /\ End(x, "succeeded")
    /\ UNCHANGED <<zone, custodian, tokens, cloud>>

\* The process of the effect is gone.
EffectDies(x) ==
    /\ effects[x].pc \notin {"idle", "ended", "dead"}
    /\ Move(x, "dead")
    /\ UNCHANGED <<zone, custodian, epochs, tokens, cloud>>

IngressInit ==
    /\ zone = "unregistered"
    /\ custodian = "active"
    /\ epochs = << >>
    /\ tokens = {}
    /\ cloud = {}
    /\ effects = [x \in IngressEffects |->
         [op |-> "none", pc |-> "idle", epoch |-> 0, row |-> 0,
          lifecycle |-> "ephemeral", outcome |-> "none"]]

IngressNext ==
    \/ RegisterZone \/ RevokeZone \/ LoseCustodian
    \/ \E x \in IngressEffects :
         \/ \E l \in IngressLifecycles : Allocate(x, l)
         \/ Create(x) \/ Fold(x) \/ Compensate(x)
         \/ Remove(x) \/ ReadRow(x) \/ MarkRemoving(x) \/ Teardown(x)
         \/ FindDoubtful(x) \/ MarkUncertain(x)
         \/ FindRemoved(x) \/ MarkRemoved(x)
         \/ EffectDies(x)

IngressSpec == IngressInit /\ [][IngressNext]_ivars

(***************************************************************************)
(* Properties.                                                             *)
(***************************************************************************)
IngressTypeOK ==
    /\ zone \in {"unregistered", "active", "revoked"}
    /\ custodian \in {"active", "revoked"}
    /\ epochs \in Seq(ResourceRows) /\ Len(epochs) <= MaxEpochs
    /\ tokens \subseteq IngressEffects
    /\ cloud \subseteq UNION {Parts(x) : x \in IngressEffects}
    /\ effects \in [IngressEffects -> EffectRecords]

\* Whatever overlaps, fails half way or dies, an outcome that claims certainty
\* is true of the provider: a failed (retryable) allocation and an unsupported
\* one left nothing there, a successful one is recorded under its own tunnel
\* and token, a successful removal tore down exactly the tunnel it marked.
\* And at most one recorded resource of the ingress is ever in force.
IngressOutcomesAreTrue ==
    /\ \A x \in IngressEffects : LET f == effects[x] IN
         /\ f.op = "allocate" /\ f.outcome \in {"failed", "unsupported"} =>
              Parts(x) \cap cloud = {}
         /\ f.op = "allocate" /\ f.outcome = "succeeded" =>
              x \in tokens /\ \E e \in DOMAIN epochs : epochs[e].tunnel = x
         /\ f.op = "remove" /\ f.outcome = "succeeded" /\ f.lifecycle = "ephemeral" =>
              Parts(epochs[f.epoch].tunnel) \cap cloud = {}
    /\ \A e, f \in InForce : e = f

=============================================================================
