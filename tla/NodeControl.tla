----------------------------- MODULE NodeControl ----------------------------
(***************************************************************************)
(* Commands to the control variables of deployed nodes: preparing an       *)
(* intent (node_control_intents.py), reloading its signing authority       *)
(* (node_control_signing_authority.py), and the grants, their verification *)
(* and the results of the core's node_control.py, node_control_transit.py  *)
(* and node_control_surface_read*.py.                                      *)
(*                                                                         *)
(* Preparing and reloading are one transaction each, under the locks of    *)
(* the request id, the workspace and the two key purposes.  Between them,  *)
(* and before the signed command arrives, the accepted graph, the keys and *)
(* the secret registrations may change.  Signing, relaying and the         *)
(* workload's execution are external.                                      *)
(*                                                                         *)
(* A request is [id, target, variable, operation, codec, expected, state]; *)
(* its digest is the whole record.  A graph here is what the intents read  *)
(* of it: nodes with runtime, http sockets and control surfaces, and the   *)
(* provider sockets its http edges lead to.                                *)
(***************************************************************************)
EXTENDS Naturals, FiniteSets, TLC

CONSTANTS
    ControlCommands,  \* [request, gateway, actor, scopes]
    Revisions,        \* accepted lineages: [graph, projection]
    ControlGraph,     \* per lineage the graph its projection holds
    ControlKeys,      \* [id, purpose, issuer, reference]
    ControlVariables, \* <<target, variable>> pairs that workloads hold
    GrantLifetime,    \* grant_lifetime_seconds
    MaxControlTime,   \* bound on the clock
    MaxChanges,       \* bound on changes of lineage, keys and references
    NoCodec           \* the codec of a read

ASSUME ControlAssumption ==
    /\ GrantLifetime \in 1..300 /\ MaxControlTime \in Nat /\ MaxChanges \in Nat

VARIABLES
    lineage,    \* the workspace's current lineage
    signing,    \* the status of each delegation key
    held,       \* per secret reference its registration and whether it is active
    attempts,   \* request id :> the intended attempt
    answers,    \* preparations given to callers
    authority,  \* signing authorities reloaded, with what was current then
    commands,   \* signed commands on their way
    variables,  \* at the workloads: version and state
    applied,    \* transitions the workloads made
    time,       \* the epoch clock
    changes     \* how often lineage, keys and references changed

cvars == <<lineage, signing, held, attempts, answers, authority, commands, variables,
           applied, time, changes>>

Purposes == {"gateway-node-control-transit", "workload-node-control"}
References == {k.reference : k \in ControlKeys}

(***************************************************************************)
(* The contract language.                                                  *)
(***************************************************************************)
Kinds == {"scalar", "map", "weighted-routing"}
CommandCodec(kind) ==
    CASE kind = "scalar" -> "control.replace-scalar.v1"
      [] kind = "map" -> "control.replace-map.v1"
      [] OTHER -> "control.replace-weighted-routing.v1"

\* WeightedRoutingControlState: every target has a weight, and one is positive.
IsRouting(s) ==
    /\ DOMAIN s # {}
    /\ \A t \in DOMAIN s : s[t] \in Nat
    /\ \E t \in DOMAIN s : s[t] > 0

\* NodeControlCommandRequest: a read carries nothing, a command its codec, the
\* version it expects and a state of that codec.
IsRequest(r) ==
    IF r.operation = "read-state" THEN r.codec = NoCodec
    ELSE /\ r.operation = "apply-command"
         /\ r.codec \in {CommandCodec(k) : k \in Kinds}
         /\ r.codec = CommandCodec("weighted-routing") => IsRouting(r.state)

\* A command is parsed before it is asked for.
ASSUME RequestAssumption == \A c \in ControlCommands : IsRequest(c.request)

\* _require_scopes.
RequiredScopes(r) ==
    {IF r.operation = "read-state" THEN "node-control:read" ELSE "node-control:apply",
     "node-control:execute", "delegation-key:use", "secret-provider:use"}

\* ControlPlaneVariableDescriptor.contract_for: the codec of one operation.
ContractCodec(kind, operation) ==
    IF operation = "read-state" THEN NoCodec ELSE CommandCodec(kind)

\* _authorize_graph_target: gateway and target share a runtime, the gateway's
\* map leads to the target, and its surface declares the variable and codec.
Declares(g, gateway, r) ==
    /\ gateway \in DOMAIN g.nodes /\ "control" \in g.nodes[gateway].http
    /\ r.target.node \in DOMAIN g.nodes
    /\ LET node == g.nodes[r.target.node] IN
       /\ r.target.socket \in node.http
       /\ node.runtime = g.nodes[gateway].runtime
       /\ <<r.target.node, r.target.socket>> \in g.map
       /\ r.target.socket \in DOMAIN node.surfaces
       /\ r.variable \in DOMAIN node.surfaces[r.target.socket]
       /\ ContractCodec(node.surfaces[r.target.socket][r.variable], r.operation) = r.codec

\* require_unambiguous_active: exactly one key of the purpose signs.
Signers(purpose) == {k \in ControlKeys : k.purpose = purpose /\ signing[k] = "active"}
Selectable(purpose) == Cardinality(Signers(purpose)) = 1
Selected(purpose) == CHOOSE k \in Signers(purpose) : TRUE

\* authorize_secret_use_in_unit_of_work, for one of the two private keys.
Usable(k) == held[k.reference].active
UseOfKey(k) == [reference |-> k.reference, registration |-> held[k.reference].registration]

Audience(r) == <<r.target.node, r.target.socket>>

\* The two unsigned grants of an attempt, with fresh ids: the gateway may relay
\* this one request, and the workload may execute it.
TransitGrant(a) ==
    LET key == a.keys["gateway-node-control-transit"] IN
    [purpose |-> key.purpose, issuer |-> key.issuer, key |-> key.id, attempt |-> a.id,
     gateway |-> a.gateway, request |-> a.request,
     issued |-> a.issued, expires |-> a.issued + GrantLifetime, jti |-> <<"transit", a.id>>]

WorkloadGrant(a) ==
    LET key == a.keys["workload-node-control"] IN
    [issuer |-> key.issuer, key |-> key.id, audience |-> Audience(a.request),
     request |-> a.request,
     issued |-> a.issued, expires |-> a.issued + GrantLifetime, jti |-> <<"workload", a.id>>]

\* verify_gateway_node_control_transit_grant.
TransitAccepts(g, r, key, attempt, gateway, now) ==
    /\ g.purpose = "gateway-node-control-transit"
    /\ g.issuer = key.issuer /\ g.key = key.id
    /\ now >= g.issued /\ now < g.expires
    /\ g.attempt = attempt /\ g.gateway = gateway
    /\ g.request = r

\* verify_workload_node_control_grant: it is not told which key to expect.
WorkloadAccepts(g, r, issuer, audience, now) ==
    /\ g.issuer = issuer /\ g.audience = audience
    /\ now >= g.issued /\ now < g.expires
    /\ g.request = r

(***************************************************************************)
(* NodeControlIntentAuthorizationService.                                  *)
(***************************************************************************)
\* Mutant of Fingerprint: the gateway is left out of the replay identity.
FingerprintOfRequest(c) == [actor |-> c.actor, request |-> c.request]

\* node_control_intent_fingerprint: before clocks, ids, graph and keys.
Fingerprint(c) == [actor |-> c.actor, gateway |-> c.gateway, request |-> c.request]

\* A known request id: the same intent is answered with the attempt on record,
\* another one is a conflict.
Replay(c) ==
    /\ RequiredScopes(c.request) \subseteq c.scopes
    /\ c.request.id \in DOMAIN attempts
    /\ Fingerprint(attempts[c.request.id]) = Fingerprint(c)
    /\ answers' = answers \cup {[command |-> c, attempt |-> attempts[c.request.id]]}
    /\ UNCHANGED <<lineage, signing, held, attempts, authority, commands, variables,
                   applied, time, changes>>

\* The insert of an attempt.
Added(id, a) ==
    [i \in {id} \cup DOMAIN attempts |-> IF i = id THEN a ELSE attempts[i]]

\* _prepare_new and the insert.
Prepare(c) ==
    /\ RequiredScopes(c.request) \subseteq c.scopes
    /\ c.request.id \notin DOMAIN attempts
    /\ lineage.graph = c.request.target.revision
    /\ Declares(ControlGraph[lineage], c.gateway, c.request)
    /\ \A p \in Purposes : Selectable(p) /\ Usable(Selected(p))
    /\ Cardinality({Selected(p).reference : p \in Purposes}) = 2
    /\ LET a == [id |-> Cardinality(DOMAIN attempts) + 1, actor |-> c.actor,
                 gateway |-> c.gateway, request |-> c.request, lineage |-> lineage,
                 keys |-> [p \in Purposes |-> Selected(p)],
                 uses |-> [p \in Purposes |-> UseOfKey(Selected(p))], issued |-> time]
       IN /\ attempts' = Added(c.request.id, a)
          /\ answers' = answers \cup {[command |-> c, attempt |-> a]}
    /\ UNCHANGED <<lineage, signing, held, authority, commands, variables, applied,
                   time, changes>>

(***************************************************************************)
(* NodeControlSigningAuthorityReloadService.                               *)
(***************************************************************************)
\* Mutant of StillCurrent: the realized projection is not compared.
StillAuthored(a) == lineage.graph = a.lineage.graph

\* _require_current_workspace.
StillCurrent(a) == lineage = a.lineage

\* _key: the retained key is still the one that signs.
KeyRetained(a, p) == Selectable(p) /\ Selected(p) = a.keys[p]

\* get_for_share and _resolution: the very registration the use was authorized
\* with is still active.
UseRetained(a, p) ==
    held[a.uses[p].reference] = [registration |-> a.uses[p].registration, active |-> TRUE]

\* _verify_grants.
GrantsVerify(a) ==
    /\ TransitAccepts(TransitGrant(a), a.request, a.keys["gateway-node-control-transit"],
                      a.id, a.gateway, time)
    /\ WorkloadAccepts(WorkloadGrant(a), a.request, a.keys["workload-node-control"].issuer,
                       Audience(a.request), time)

Reload(id) ==
    /\ id \in DOMAIN attempts
    /\ LET a == attempts[id] IN
       /\ StillCurrent(a)
       /\ \A p \in Purposes : KeyRetained(a, p) /\ UseRetained(a, p)
       /\ GrantsVerify(a)
       /\ authority' = authority \cup
            {[attempt |-> a, graph |-> ControlGraph[lineage], at |-> time,
             signers |-> {k \in ControlKeys : signing[k] = "active"}]}
    /\ UNCHANGED <<lineage, signing, held, attempts, answers, commands, variables,
                   applied, time, changes>>

(***************************************************************************)
(* External: signing and the relay, the workload, and what changes while   *)
(* a command is on its way.                                                *)
(***************************************************************************)
\* Signed with both keys and sent; it may be sent again.
Sign(x) ==
    /\ x \in authority
    /\ commands' = commands \cup {x.attempt}
    /\ UNCHANGED <<lineage, signing, held, attempts, answers, authority, variables,
                   applied, time, changes>>

Cell(a) == <<a.request.target, a.request.variable>>

\* The results the core's result types allow: a transition applied or without
\* change, a rejection, or a failure that changed nothing.
Outcome(a) ==
    CASE ~ GrantsVerify(a) -> "not-authorized"
      [] Cell(a) \notin ControlVariables -> "invalid-command"
      [] a.request.operation = "read-state" -> "state"
      [] a.request.expected # variables[Cell(a)].version -> "precondition-failed"
      [] a.request.state = variables[Cell(a)].state -> "no-change"
      [] OTHER -> "applied"

\* The gateway relays and the workload executes; nothing is consumed, so a
\* command may arrive again.
Arrive(a) ==
    /\ a \in commands
    /\ Outcome(a) = "applied"
    /\ variables' = [variables EXCEPT ![Cell(a)] =
                       [version |-> @.version + 1, state |-> a.request.state]]
    /\ applied' = applied \cup {[attempt |-> a, at |-> time,
                                 version |-> variables[Cell(a)].version]}
    /\ UNCHANGED <<lineage, signing, held, attempts, answers, authority, commands, time,
                   changes>>

\* What may change while a command is prepared, reloaded and on its way.
Changed == changes < MaxChanges /\ changes' = changes + 1

\* advance_current_graph, a rotation's new projection.
MoveOn(l) ==
    /\ Changed
    /\ lineage' = l
    /\ UNCHANGED <<signing, held, attempts, answers, authority, commands, variables,
                   applied, time>>

\* activate and revoke of the delegation keys: one signer per purpose and issuer.
ActivateSigner(k) ==
    /\ Changed
    /\ signing[k] = "verify-only"
    /\ signing' = [x \in ControlKeys |->
                     IF x = k THEN "active"
                     ELSE IF /\ signing[x] = "active"
                             /\ x.purpose = k.purpose /\ x.issuer = k.issuer
                     THEN "verify-only" ELSE signing[x]]
    /\ UNCHANGED <<lineage, held, attempts, answers, authority, commands, variables,
                   applied, time>>

RevokeSigner(k) ==
    /\ Changed
    /\ signing[k] # "revoked"
    /\ signing' = [signing EXCEPT ![k] = "revoked"]
    /\ UNCHANGED <<lineage, held, attempts, answers, authority, commands, variables,
                   applied, time>>

\* A new registration of a secret reference, and revoke_reference.
ReplaceHeld(r) ==
    /\ Changed
    /\ held' = [held EXCEPT ![r] = [registration |-> @.registration + 1, active |-> TRUE]]
    /\ UNCHANGED <<lineage, signing, attempts, answers, authority, commands, variables,
                   applied, time>>

RevokeHeld(r) ==
    /\ Changed
    /\ held[r].active
    /\ held' = [held EXCEPT ![r].active = FALSE]
    /\ UNCHANGED <<lineage, signing, attempts, answers, authority, commands, variables,
                   applied, time>>

ControlTick ==
    /\ time < MaxControlTime
    /\ time' = time + 1
    /\ UNCHANGED <<lineage, signing, held, attempts, answers, authority, commands,
                   variables, applied, changes>>

ControlInit ==
    /\ lineage \in Revisions
    /\ signing \in [ControlKeys -> {"active", "verify-only"}]
    /\ \A p \in Purposes : Selectable(p)
    /\ held = [r \in References |-> [registration |-> 1, active |-> TRUE]]
    /\ attempts = << >>
    /\ answers = {} /\ authority = {} /\ commands = {} /\ applied = {}
    /\ variables = [v \in ControlVariables |-> [version |-> 0, state |-> "initial"]]
    /\ time = 0 /\ changes = 0

ControlNext ==
    \/ \E c \in ControlCommands : Replay(c) \/ Prepare(c)
    \/ \E id \in DOMAIN attempts : Reload(id)
    \/ \E x \in authority : Sign(x)
    \/ \E a \in commands : Arrive(a)
    \/ \E l \in Revisions : MoveOn(l)
    \/ \E k \in ControlKeys : ActivateSigner(k) \/ RevokeSigner(k)
    \/ \E r \in References : ReplaceHeld(r) \/ RevokeHeld(r)
    \/ ControlTick

NodeControlSpec == ControlInit /\ [][ControlNext]_cvars

(***************************************************************************)
(* Properties.                                                             *)
(***************************************************************************)
NodeControlTypeOK ==
    /\ lineage \in Revisions
    /\ signing \in [ControlKeys -> {"active", "verify-only", "revoked"}]
    /\ held \in [References -> [registration : 1..(MaxChanges + 1), active : BOOLEAN]]
    /\ \A id \in DOMAIN attempts :
         attempts[id].request.id = id /\ IsRequest(attempts[id].request)
    /\ commands \subseteq {attempts[id] : id \in DOMAIN attempts}
    /\ time \in 0..MaxControlTime /\ changes \in 0..MaxChanges

\* A request id stands for one intent: every caller who is answered for it gets
\* the same attempt, made for exactly the command that caller asked for.
\* Signing authority is only ever reloaded while the accepted graph itself
\* declares the target to that gateway and both retained keys sign.  And a
\* variable is changed at most once by a request, within the lifetime of its
\* grants, however often the command arrives.
ControlCommandsAreExact ==
    /\ \A x, y \in answers : x.command.request.id = y.command.request.id =>
         x.attempt = y.attempt
    /\ \A x \in answers :
         /\ x.attempt.request = x.command.request
         /\ x.attempt.gateway = x.command.gateway /\ x.attempt.actor = x.command.actor
    /\ \A x \in authority :
         /\ Declares(x.graph, x.attempt.gateway, x.attempt.request)
         /\ \A p \in Purposes : x.attempt.keys[p] \in x.signers
    /\ \A x, y \in applied : x.attempt.request.id = y.attempt.request.id => x = y
    /\ \A x \in applied : x.at < x.attempt.issued + GrantLifetime

=============================================================================
