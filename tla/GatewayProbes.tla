--------------------------- MODULE GatewayProbes ---------------------------
(***************************************************************************)
(* Gateway probes: GatewayProbeCommandService.execute.                     *)
(*                                                                         *)
(* A probe is three steps.  The first transaction chooses the active       *)
(* signing key and stores the attempt with its grant; the grant is then    *)
(* signed and sent to the gateway outside any transaction; the last        *)
(* transaction folds the result.  A process that stops in between leaves   *)
(* the attempt "intended": the same request id only ever reads it back.    *)
(***************************************************************************)
EXTENDS DelegationKeys

CONSTANTS
    Requests,       \* request ids of probes
    GrantLifetime,  \* grant_lifetime_seconds of the probe service
    MaxSkew,        \* how far an issuer's clock may be ahead of the gateway's
    MaxNow,         \* bound on the clock
    NoKey           \* no key chosen

ASSUME ProbesAssumption ==
    /\ GrantLifetime \in Nat \ {0}
    /\ MaxSkew \in Nat
    /\ MaxNow \in Nat
    /\ NoKey \notin Keys

VARIABLES
    probes,    \* cpk_gateway_probe_attempts, per request id
    inflight,  \* the requests whose execute call is between its transactions
    gateway,   \* the verification keys the gateway process runs with
    now        \* trusted time

ProbeStatuses == {"none", "intended", "succeeded", "rejected", "failed"}
ProbeAttempts ==
    [status : ProbeStatuses, key : Keys \cup {NoKey}, requested : Nat, expires : Nat]

NoProbe == [status |-> "none", key |-> NoKey, requested |-> 0, expires |-> 0]

\* The first transaction.  The shared purpose lock keeps an activation out, so
\* the key is the signer when the attempt commits.  The issuer's clock may be
\* ahead of the gateway's; requested is the trusted time.
RequestProbe(q, skew) ==
    /\ probes[q].status = "none"
    /\ \E k \in Keys :
         /\ IsSigner(k)
         /\ probes' = [probes EXCEPT ![q] =
              [status |-> "intended", key |-> k, requested |-> now,
               expires |-> now + skew + GrantLifetime]]
    /\ inflight' = inflight \cup {q}
    /\ UNCHANGED <<keys, custody, gateway, now>>

\* The same request id again, or the attempt's caller gave up: nothing is
\* dispatched a second time.
AbandonProbe(q) ==
    /\ q \in inflight
    /\ inflight' = inflight \ {q}
    /\ UNCHANGED <<keys, custody, probes, gateway, now>>

\* _authorize_signing_key and the dispatch: the private key must be resolvable,
\* and the gateway accepts a grant that has not expired and whose key it knows.
DispatchResult(q) ==
    IF custody[probes[q].key] # "live" THEN "rejected"
    ELSE IF probes[q].expires <= now THEN "rejected"
    ELSE IF probes[q].key \notin gateway THEN "rejected"
    ELSE "succeeded"

\* The dispatch and the transaction that folds its result; a transport failure
\* is folded as "failed".  complete() leaves a folded attempt alone.
CompleteProbe(q) ==
    /\ q \in inflight
    /\ \E result \in {DispatchResult(q), "failed"} :
         probes' = [probes EXCEPT ![q].status =
                      IF @ = "intended" THEN result ELSE @]
    /\ inflight' = inflight \ {q}
    /\ UNCHANGED <<keys, custody, gateway, now>>

Tick ==
    /\ now < MaxNow
    /\ now' = now + 1
    /\ UNCHANGED <<keys, custody, probes, inflight, gateway>>

ProbesTypeOK ==
    /\ KeysTypeOK
    /\ probes \in [Requests -> ProbeAttempts]
    /\ inflight \subseteq Requests
    /\ gateway \subseteq Keys
    /\ now \in 0 .. MaxNow

ProbesInit ==
    /\ KeysInit
    /\ probes = [q \in Requests |-> NoProbe]
    /\ inflight = {}
    /\ gateway = {FirstKey}
    /\ now = 0

\* The grants that a gateway may still be asked to honour.
LiveGrants == {q \in Requests : probes[q].status # "none" /\ now < probes[q].expires}

=============================================================================
