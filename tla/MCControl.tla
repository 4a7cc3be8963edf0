------------------------------ MODULE MCControl -----------------------------
(***************************************************************************)
(* One small instance of every part of Control.                            *)
(***************************************************************************)
EXTENDS Control

CONSTANTS s1    \* a secret reference

\* Secrets: one provider that may be registered again with less, one reference.
MCContents ==
    {[subject |-> "vault", endpoint |-> "e1", intents |-> {"pull", "probe"}, within |-> {s1}],
     [subject |-> "vault", endpoint |-> "e2", intents |-> {"pull"}, within |-> {s1}]}
MCProviderOf == [r \in {s1} |-> "vault"]
MCIntents == {{"pull"}}

-----------------------------------------------------------------------------
(* Topologies: databases and an application that needs one, a router that  *)
(* may point to any of them, a public ingress; one runtime or two.         *)
Nothing == [x \in {} |-> 0]
Life(o, c) == [ownership |-> o, compute |-> c]
Need(binding, required, env) ==
    [protocol |-> "http", binding |-> binding, env |-> env, required |-> required,
     deliveries |-> {}]
Terms(requirements, lifecycle) ==
    [requirements |-> requirements, providers |-> ("out" :> "http"),
     ports |-> ("out" :> 80), environment |-> Nothing, artifacts |-> {}, deliveries |-> {},
     data |-> {}, mounts |-> {}, capabilities |-> {}, verification |-> {}, surfaces |-> {},
     lifecycle |-> lifecycle]
Product(identity, path, contract) ==
    [identity |-> identity, image |-> [registry |-> "reg", repository |-> path],
     contract |-> contract]
Token(reference) == [target |-> "TOKEN", intent |-> "app-token", reference |-> reference]

\* An application in two versions, with a token and with the targets of its
\* runtime; databases that are retained, removed or attached.
AppTerms ==
    [Terms("db" :> Need("environment", FALSE, {"DB"}), Life("owned", "ephemeral")) EXCEPT
        !.environment = ("CPK_GATEWAY_TARGETS_JSON" :> "{}"),
        !.deliveries = {Token("default")}]
DbTerms(ownership, compute) ==
    LET data == IF ownership = "owned" THEN {"data"} ELSE {}
    IN [Terms(Nothing, Life(ownership, compute)) EXCEPT
           !.data = data, !.mounts = {[resource |-> d, path |-> "/data"] : d \in data},
           !.verification = {[id |-> "up", socket |-> "out", kind |-> "http",
                              password |-> "none"]}]
MCDescriptor ==
    [v1 |-> Product("p", <<"a">>, AppTerms), v2 |-> Product("p", <<"a", "x">>, AppTerms),
     db1 |-> Product("retained-db", <<"b">>, DbTerms("owned", "retained")),
     db2 |-> Product("db", <<"b">>, DbTerms("owned", "ephemeral")),
     db3 |-> Product("attached-db", <<"b">>, DbTerms("attached", "retained")),
     db4 |-> Product("portless-db", <<"b">>,
                     [DbTerms("owned", "ephemeral") EXCEPT !.ports = Nothing]),
     router |-> Product("router", <<"c">>, Terms("up" :> Need("runtime-control", FALSE, {}),
                                                 Life("owned", "ephemeral"))),
     router2 |-> Product("router", <<"c">>, Terms("up" :> Need("environment", FALSE, {"UP"}),
                                                  Life("owned", "ephemeral"))),
     conn |-> Product("connector", <<"c">>, Terms(Nothing, Life("owned", "ephemeral")))]

\* The one block a catalogue's product gives.
Block(digests, identity, role, chosen) ==
    LET d == Lookup(digests, identity)
        config == [FromContract(Descriptor[d].contract) EXCEPT !.deliveries = chosen]
    IN CHOOSE b \in Instantiations(digests, identity, role, config) : TRUE
Catalogue(version) == {version, "router", "conn", "db1", "db2", "db3", "db4"}

\* What a topology takes from its catalogue, for a role.
Db(n) == <<Catalogue("v1"), Descriptor[n].identity, n, {}>>
App(role, v) == <<Catalogue(v), "p", role, {Token("chosen")}>>
Router == <<Catalogue("v1"), "router", "router", {}>>
LaterRouter == <<{"router2"}, "router", "router", {}>>
Connector == <<Catalogue("v1"), "connector", "conn", {}>>
Runtime(r, taken) ==
    [id |-> r, kind |-> "docker", authority |-> NoAuthority, metadata |-> "m",
     lifecycle |-> Life("owned", IF r = "r1" THEN "retained" ELSE "ephemeral"),
     blocks |-> {Block(x[1], x[2], x[3], x[4]) : x \in taken}]
Wire(id, p, c, r) ==
    [id |-> id, provider |-> p, socket |-> "out", consumer |-> c, requirement |-> r]

\* The application in runtime place uses db; the router points to up.
Topology(place, version, db, up, ingress) ==
    LET apps == {App("app", version)} \cup (IF up = "none" THEN {} ELSE {Router})
                \cup (IF ingress THEN {Connector} ELSE {})
        dbs == {Db(n) : n \in {db, up} \cap {"db1", "db2", "db3"}}
        taken == ("r1" :> IF place = "r1" THEN dbs \cup apps ELSE dbs) @@ (place :> apps)
    IN  [name |-> "t",
         contexts |-> {Runtime(r, taken[r]) : r \in DOMAIN taken},
         connections |-> {Wire("app-db", db, "app", "db")}
                         \cup (IF up \in {"none", "idle"} THEN {}
                               ELSE {Wire("router-up", up, "router", "up")}),
         ingresses |-> IF ingress
                       THEN "pub" :> [target |-> "app", socket |-> "out", connector |-> "conn"]
                       ELSE Nothing,
         delegations |-> {}]

\* Identities that are not steady: the router's connection passes to its
\* environment; the application's leads from another database to another node.
Rebinding ==
    LET t == Topology("r1", "v1", "db1", "db1", FALSE) IN
    [t EXCEPT !.contexts = {Runtime("r1", {Db("db1"), App("app", "v1"), LaterRouter})}]
Reconnecting ==
    [Topology("r1", "v1", "db2", "none", FALSE) EXCEPT
        !.contexts = {Runtime("r1", {Db("db2"), App("app", "v1"), App("app2", "v1")})},
        !.connections = {Wire("app-db", "db2", "app2", "db")}]

\* A connector before it has an ingress.
Unserving == [Topology("r1", "v1", "db1", "none", TRUE) EXCEPT !.ingresses = Nothing]

\* A database without a port to be a target by, and a connector of two ingresses.
Unmappable ==
    [Topology("r1", "v1", "db4", "none", TRUE) EXCEPT
        !.contexts = {Runtime("r1", {Db("db4"), App("app", "v1"), Connector})},
        !.ingresses = @ @@ ("also" :> @["pub"])]

MCTopologies ==
    {Topology(x[1], x[2], x[3], x[4], x[5]) :
       x \in {"r1", "r2"} \X {"v1"} \X {"db1", "db2"} \X {"none", "app"} \X {FALSE}
            \cup {"r1", "r2"} \X {"v1"} \X {"db1"} \X {"none"} \X {TRUE}
            \cup {<<"r1", "v2", "db1", "none", FALSE>>, <<"r1", "v1", "db3", "none", FALSE>>}
            \cup {"r1"} \X {"v1"} \X {"db1"} \X {"idle", "db1", "db2"} \X {FALSE}}
    \cup {Rebinding, Reconnecting, Unserving, Unmappable}

-----------------------------------------------------------------------------
(* Registry: two versions of the product of both nodes, two pull            *)
(* authorities of nested image scopes, one runtime authority.              *)
MCGraph ==
    [Compile([Topology("r1", "v1", "none", "none", FALSE) EXCEPT
                !.contexts = {Runtime("r1", {App("app", "v1"), App("store", "v1")})},
                !.connections = {Wire("app-db", "store", "app", "db")}]) EXCEPT
        !.runtimes["r1"].authority = "docker"]
MCGraphOf == [empty |-> EmptyGraph, g |-> MCGraph]
MCAssignments ==
    {[activity |-> Activity("start-node", "node", "app"), base |-> "empty", desired |-> "g"]}
MCAdmitted ==
    {<<"oci-pull-credential", 1>>, <<"docker-remote-tls", "docker">>,
     <<"app-token", "default">>, <<"app-token", "chosen">>}
Scope(path) == [registry |-> "reg", repository |-> path]
MCRows ==
    {[table |-> "product", claim |-> "p", says |-> v] : v \in {"v1", "v2"}}
    \cup {[table |-> "pull", claim |-> Scope(<<>>), says |-> 1],
          [table |-> "pull", claim |-> Scope(<<"a">>), says |-> 2]}
    \cup {[table |-> t, claim |-> "docker", says |-> "m"] : t \in {"authority", "delivery"}}

-----------------------------------------------------------------------------
(* Node control: a router's weights, reached over two gateways; the second *)
(* lineage of the graph moves one gateway away.  Two transit keys.         *)
Target == [revision |-> "g1", node |-> "router", socket |-> "admin"]
Command(id, state, expected, gateway) ==
    [request |-> [id |-> id, target |-> Target, variable |-> "weights",
                  operation |-> "apply-command", codec |-> CommandCodec("scalar"),
                  expected |-> expected, state |-> state],
     gateway |-> gateway, actor |-> "op",
     scopes |-> {"node-control:read", "node-control:apply", "node-control:execute",
                 "delegation-key:use", "secret-provider:use"}]
MCCommands ==
    {Command("q1", "a", 0, "gw1"), Command("q1", "a", 0, "gw2"), Command("q2", "b", 1, "gw1")}
Lineage(p) == [graph |-> "g1", projection |-> p]
MCRevisions == {Lineage("p1"), Lineage("p2")}
Endpoint(r, surface) ==
    [runtime |-> r, http |-> {"control", "admin"}, surfaces |-> ("admin" :> surface)]
MCControlGraph ==
    [l \in MCRevisions |->
        [nodes |-> ("gw1" :> Endpoint("r1", <<>>))
                   @@ ("gw2" :> Endpoint(IF l.projection = "p1" THEN "r1" ELSE "r2", <<>>))
                   @@ ("router" :> Endpoint("r1", "weights" :> "scalar")),
         map |-> {<<"router", "admin">>}]]
Key(id, purpose, reference) ==
    [id |-> id, purpose |-> purpose, issuer |-> "cpk", reference |-> reference]
MCKeys ==
    {Key("t1", "gateway-node-control-transit", "s1"),
     Key("t2", "gateway-node-control-transit", "s2"), Key("w1", "workload-node-control", "s3")}
MCVariables == {<<Target, "weights">>}

\* One collection of each cursor, scope and way that its rows leave it.
MCCollections ==
    {"activity-sessions", "session-approvals", "pending-approvals",
     "plan-runs", "run-events", "latest-observations", "runtime-authorities",
     "secret-references", "delegation-signing-keys", "gateway-probes"}
-----------------------------------------------------------------------------
(* Commands: two sessions, keys used again for another command, and two     *)
(* workers and a retry for one request.                                     *)
Message(k, key, rest) == [kind |-> k, key |-> key] @@ rest
Fence(w, g) == [worker |-> w, generation |-> g]
Op(s) == [session |-> s, actor |-> "op"]
OnRun(r, w, g) == [run |-> r, fence |-> Fence(w, g)]
Recovering(r, w, g) == [request |-> 1, actor |-> "op", authority |-> "ref"] @@ OnRun(r, w, g)
MCServiceCommands ==
    {Message("start-operation-session", "k1", [actor |-> a, title |-> "t"]) :
        a \in {"op", "other"}}
    \cup {Message("set-desired-graph", "k2",
                  Op(1) @@ [graph |-> g, expected |-> 0, revision |-> 0]) :
             g \in {"g", "h"}}
    \cup {Message("record-operation-action", "k2",
                  Op(1) @@ [action |-> "request-gateway-probe"]),
          Message("request-activity-plan", "k3",
                  Op(1) @@ [current |-> 0, desired |-> 1, revision |-> 1]),
          Message("request-approval", "k4", Op(1) @@ [plan |-> 1])}
    \cup {Message("decide-approval", "k5", Op(1) @@ [approval |-> 1, decision |-> d]) :
             d \in {"approved", "rejected"}}
    \cup {Message("admit-execution", "k6", Op(1) @@ [plan |-> 1, approval |-> 1])}
    \cup {Message("claim-run", "k7", [request |-> 1, worker |-> w]) : w \in {"w1", "w2"}}
    \cup {Message("renew-active-claim", "k8", Recovering(1, "w1", 1))}
    \cup {Message("start-run", "k9", OnRun(1, "w1", g)) : g \in {1, 2}}
    \cup {Message(k, "k10", OnRun(1, "w1", 1)) : k \in {"fail-run", "complete-run"}}
    \cup {Message("renew-expired-claim", "k11", Recovering(1, "w1", 1)),
          Message("take-over-expired-claim", "k11", Recovering(1, "w1", 1) @@ [worker |-> "w2"]),
          Message("abandon-expired-claim", "k12", Recovering(1, "w1", 1))}
    \cup {Message("abandon-expired-claim", "k12", Recovering(1, "w1", 2)),
          Message("start-run", "k18", OnRun(2, "w1", 2)),
          Message("fail-run", "k19", OnRun(2, "w1", 2)),
          Message("renew-expired-claim", "k20", Recovering(2, "w1", 2)),
          Message("pause-run", "k21", OnRun(1, "w1", 1)),
          Message("resume-run", "k22", OnRun(1, "w1", 1)),
          Message("cancel-run", "k23", OnRun(1, "w1", 1)),
          Message("start-operation-session", "k24", [actor |-> "op", title |-> "t"]),
          Message("admit-execution", "k6", Op(2) @@ [plan |-> 1, approval |-> 1])}
    \cup {Message("retry-as-new-run", "k13", Recovering(1, "w1", g)) : g \in {1, 2}}
    \cup {Message("renew-active-claim", "k14", Recovering(2, "w1", 1)),
          Message("advance-current-graph", "k15",
               OnRun(1, "w1", 1) @@ [plan |-> 1, from |-> 0, to |-> 1, revision |-> 1]),
          Message("begin-compensation", "k16",
               [request |-> 1, run |-> 1, plan |-> 1, from |-> 0, to |-> 1, revision |-> 1,
                actor |-> "op", authority |-> "ref"]),
          Message("close-operation-session", "k17", Op(1))}

-----------------------------------------------------------------------------
(* Evidence: one effect, whose contract demands a body in one graph and     *)
(* none in the other; answers that meet it, miss it, or claim too much.     *)
HttpCheck(digest, statuses) ==
    [id |-> "up", kind |-> "http", socket |-> "out", statuses |-> statuses, digest |-> digest]
MCContracts ==
    [g1 |-> {[node |-> "app", checks |-> {HttpCheck("d1", {"200"})}]},
     g2 |-> {[node |-> "app", checks |-> {HttpCheck("none", {"200", "204"})}]}]
Http(status, digest, matches) ==
    [kind |-> "http", status |-> status, digest |-> digest, matches |-> matches]
Done(g, outcome, evidence) ==
    [type |-> "completion", node |-> "app", graph |-> g, check |-> "up", capability |-> "http",
     outcome |-> outcome, evidence |-> evidence]
Seen == [type |-> "endpoint", subject |-> "app", graph |-> "g1", context |-> "runtime-private"]
Answer(profile, kind, observations) ==
    [profile |-> profile, kind |-> kind, failure |-> kind \notin {"succeeded", "absent"},
     observations |-> observations, size |-> "bounded"]
Ran(kind, observations) == Answer("execution-result", kind, observations)
MCProviderAnswers ==
    {Ran("succeeded", <<Seen, Done("g1", "passed", Http("200", "d1", "yes"))>>),
     Ran("succeeded", <<Done("g2", "passed", Http("204", "none", "unknown"))>>),
     Ran("succeeded", <<Done("g1", "passed", Http("200", "d1", "no"))>>),
     Ran("failed", <<Done("g1", "failed", Http("200", "d1", "yes"))>>),
     Ran("unsupported", <<Done("g1", "timed-out", NoEvidence)>>),
     [Ran("uncertain", <<>>) EXCEPT !.size = "unbounded"]}
MCObserverAnswers ==
    {Answer("provider-observation", "succeeded", <<Seen>>)}
    \cup {Answer("provider-observation", k, <<>>) : k \in {"absent", "conflict"}}
MCEvidenceAttempts == {[id |-> "x1", direction |-> "step", authority |-> "docker"]}

-----------------------------------------------------------------------------
(* Ingress: four calls, the least for a removal that read its row before    *)
(* another one removed it and an allocation put the next in force.  The    *)
(* third begins only where the first two went well and the authorities     *)
(* stand, the last one where all before it went well.                      *)
Called(i) == effects[i].pc # "idle"
WentWell(x) == effects[x].pc # "dead" /\ effects[x].outcome \in {"none", "succeeded"}
CallsInOrder ==
    /\ Called(3) => Granted /\ WentWell(1) /\ WentWell(2)
    /\ Called(4) => \A x \in IngressEffects : WentWell(x)

\* Rows that were registered, and rows that were revoked for good.
FewRegistrations ==
    /\ Cardinality(DOMAIN providers) <= 2 /\ Cardinality(DOMAIN references) <= 2
    /\ Cardinality({r \in DOMAIN registry : registry[r] = "revoked"}) <= 1

\* The authority of an effect changes only once an observer's answer rests on it.
LateAuthority ==
    authorityRow = 1 \/ \E c \in folds : c.guard # NoEvidence

=============================================================================
