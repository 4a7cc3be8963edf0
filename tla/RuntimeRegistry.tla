--------------------------- MODULE RuntimeRegistry --------------------------
(***************************************************************************)
(* Products, image pull authorities, runtime authorities and authority     *)
(* deliveries of one workspace (products.py, runtime_authorities.py over   *)
(* their postgres stores), and the coordinator that makes its requests     *)
(* from them.                                                              *)
(*                                                                         *)
(* The four tables have one shape.  A row claims something (a product      *)
(* identity, an image scope, an authority reference) and says what of it;  *)
(* its key is a digest of both.  A row is active or revoked for good.      *)
(* Registering checks the claim without a lock and inserts later, so it is *)
(* two actions.  The coordinator loads the active rows, records the        *)
(* attempt with the request it made from them, and only then calls the     *)
(* interpreter; it may die in between and start again.                     *)
(***************************************************************************)
EXTENDS RuntimeRequests

CONSTANTS
    RegistryRows,   \* rows that may be registered
    GraphOf,        \* per graph id the graph that is stored under it
    Assignments,    \* activities to realize: [activity, base, desired], the graphs by id
    TlsAuthorities, \* authority references with TLS material
    Admitted,       \* secret uses the secret registry admits
    MaxAdmissions,  \* bound on registrations at once
    NoContext       \* the coordinator has loaded nothing

ASSUME RegistryAssumption ==
    /\ \A r \in RegistryRows : DOMAIN r = {"table", "claim", "says"}
    /\ \A r \in RegistryRows : r.table \in {"product", "pull", "authority", "delivery"}
    /\ MaxAdmissions \in Nat \ {0}

VARIABLES
    registry,   \* row :> "active" or "revoked"
    admitting,  \* registrations that passed their checks and did not insert
    loaded,     \* the context the coordinator loaded, or NoContext
    started,    \* per assignment the request its attempt was recorded with, if any
    owned,      \* the assignment this coordinator newly started, if any
    sent        \* per assignment the requests an interpreter was given

regvars == <<registry, admitting, loaded, started, owned, sent>>

ActiveRows(table) ==
    {r \in DOMAIN registry : r.table = table /\ registry[r] = "active"}
Holders(row) == {r \in ActiveRows(row.table) : r.claim = row.claim}

\* register, the checks: a row of this key is returned as it is, a claim
\* somebody else holds is a conflict, a delivery needs its active authority.
Admissible(row) ==
    /\ row \notin DOMAIN registry
    /\ Holders(row) = {}
    /\ row.table = "delivery" => \E r \in ActiveRows("authority") : r.claim = row.claim

\* The keys, and the unique indexes on active references.
Insertable(row) ==
    /\ row \notin DOMAIN registry
    /\ row.table \in {"authority", "delivery"} => Holders(row) = {}

CheckRow(row) ==
    /\ Cardinality(admitting) < MaxAdmissions
    /\ Admissible(row)
    /\ admitting' = admitting \cup {row}
    /\ UNCHANGED <<registry, loaded, started, owned, sent>>

WithRow(row) ==
    [r \in DOMAIN registry \cup {row} |-> IF r = row THEN "active" ELSE registry[r]]

\* The insert, or its failure.
InsertRow(row) ==
    /\ row \in admitting
    /\ admitting' = admitting \ {row}
    /\ \/ Insertable(row) /\ registry' = WithRow(row)
       \/ UNCHANGED registry
    /\ UNCHANGED <<loaded, started, owned, sent>>

\* revoke; a revoked row is returned.
RevokeRow(row) ==
    /\ row \in ActiveRows(row.table)
    /\ registry' = [registry EXCEPT ![row] = "revoked"]
    /\ UNCHANGED <<admitting, loaded, started, owned, sent>>

(***************************************************************************)
(* The coordinator.                                                        *)
(***************************************************************************)
\* _load_context: the active rows of the workspace, in one transaction.
LoadedContext ==
    [products |-> {[identity |-> r.claim, digest |-> r.says] : r \in ActiveRows("product")},
     pulls |-> {[registry |-> r.claim.registry, repository |-> r.claim.repository,
                 credential |-> r.says] : r \in ActiveRows("pull")},
     authorities |-> {r.claim : r \in ActiveRows("authority")},
     deliveries |-> {r.claim : r \in ActiveRows("delivery")},
     resources |-> {}]

LoadContext ==
    /\ loaded = NoContext
    /\ loaded' = LoadedContext
    /\ UNCHANGED <<registry, admitting, started, owned, sent>>

Problem(x) == RequestProblem(loaded, x.activity, GraphOf[x.base], GraphOf[x.desired])
Request(x) == EffectRequest(loaded, x.activity, GraphOf[x.base], GraphOf[x.desired])

\* The coordinator is gone, or gives up: what it loaded is forgotten.
Abandon ==
    /\ loaded # NoContext
    /\ loaded' = NoContext
    /\ owned' = {}
    /\ UNCHANGED <<registry, admitting, started, sent>>

\* The attempt is recorded together with the request's fingerprint.
StartAttempt(x) ==
    /\ loaded # NoContext /\ owned = {}
    /\ started[x] = {}
    /\ Problem(x) = "none" /\ WellFormedRequest(Request(x))
    /\ started' = [started EXCEPT ![x] = {Request(x)}]
    /\ owned' = {x}
    /\ UNCHANGED <<registry, admitting, loaded, sent>>

\* What the interpreter is given, if the dispatcher does not refuse it.
Sendable(request, ctx) ==
    IF DispatchProblem(ctx, request, TlsAuthorities, Admitted) = "none" THEN {request} ELSE {}

\* Mutant of Sent: the request is made again from what is registered by now.
SentAfresh(x) ==
    IF RequestProblem(LoadedContext, x.activity, GraphOf[x.base], GraphOf[x.desired]) = "none"
    THEN Sendable(EffectRequest(LoadedContext, x.activity, GraphOf[x.base], GraphOf[x.desired]), LoadedContext)
    ELSE {}

\* execute_runtime is given the request the attempt was recorded with, and the
\* authorities loaded with it.
Sent(x) == Sendable(Request(x), loaded)

\* The interpreter is called, or the effect is refused.
Dispatch(x) ==
    /\ loaded # NoContext /\ x \in owned
    /\ sent' = [sent EXCEPT ![x] = @ \cup Sent(x)]
    /\ owned' = {}
    /\ loaded' = NoContext
    /\ UNCHANGED <<registry, admitting, started>>

\* An attempt that exists is reconciled from its recorded request, and only
\* when the rows loaded now still make the same one: otherwise the coordinator
\* stops with a conflict.
ContinueAttempt(x) ==
    /\ loaded # NoContext /\ owned = {}
    /\ Problem(x) = "none"
    /\ started[x] = {Request(x)}
    /\ sent' = [sent EXCEPT ![x] = @ \cup started[x]]
    /\ loaded' = NoContext
    /\ UNCHANGED <<registry, admitting, started, owned>>

RegistryInit ==
    /\ registry = << >>
    /\ admitting = {}
    /\ loaded = NoContext
    /\ started = [x \in Assignments |-> {}]
    /\ owned = {}
    /\ sent = [x \in Assignments |-> {}]

RegistryNext ==
    \/ \E row \in RegistryRows : CheckRow(row) \/ InsertRow(row) \/ RevokeRow(row)
    \/ LoadContext
    \/ Abandon
    \/ \E x \in Assignments : StartAttempt(x) \/ Dispatch(x) \/ ContinueAttempt(x)

RegistrySpec == RegistryInit /\ [][RegistryNext]_regvars

(***************************************************************************)
(* Properties.                                                             *)
(***************************************************************************)
RegistryTypeOK ==
    /\ DOMAIN registry \subseteq RegistryRows
    /\ \A r \in DOMAIN registry : registry[r] \in {"active", "revoked"}
    /\ admitting \subseteq RegistryRows /\ Cardinality(admitting) <= MaxAdmissions
    /\ owned \subseteq Assignments /\ Cardinality(owned) <= 1

\* Whatever is registered or revoked while a coordinator works, dies and comes
\* back, an interpreter only ever sees the request its attempt was recorded
\* with, for the very product the graph was authored with.
AttemptsKeepTheirRequest ==
    \A x \in Assignments : \A request \in sent[x] :
        /\ started[x] = {request}
        /\ \A m \in request.products :
             /\ m.reference = ProductReference(
                  MaterialGraph(x.activity, GraphOf[x.base], GraphOf[x.desired]).nodes[m.node])
             /\ \E r \in DOMAIN registry :
                  r.table = "product" /\ r.claim = m.reference.identity
                  /\ r.says = m.reference.digest

=============================================================================
