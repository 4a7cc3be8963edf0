----------------------------- MODULE Deployment -----------------------------
(***************************************************************************)
(* How a change of one workspace comes to be executed and accepted: desired *)
(* graphs, plans, approvals, admission and the advancement of the current  *)
(* graph, with DeploymentProgram.prepare driving the first of these.       *)
(*                                                                         *)
(* Every command is one PostgreSQL transaction that locks the session and  *)
(* the workspace row, so it is one action.  Tables that are only appended  *)
(* to are sequences, and a row's index is its identifier.  A command whose *)
(* key was already used returns the stored row and changes nothing.        *)
(*                                                                         *)
(* What a run does between its claim and its end is ExecutionRun's subject; *)
(* here a run only succeeds or fails.                                      *)
(***************************************************************************)
EXTENDS Naturals, Sequences, FiniteSets

CONSTANTS
    Sessions,     \* operation sessions, each named by the key that starts it
    Processes,    \* processes that call DeploymentProgram.prepare
    Actors,       \* principals
    Approvers,    \* principals with scope plan:approve
    Destroyers,   \* principals with scope plan:approve-destructive
    Topologies,   \* the contents of graphs
    Empty,        \* the topology a workspace starts with
    Destructive,  \* pairs of topologies whose difference destroys something
    Blocked,      \* pairs whose difference needs a review: never executable
    Projections,  \* realized projections other than the identity
    MaxRevision,  \* bound on the changes of the desired graph
    MaxPlans,     \* bound on the plans that operators ask for
    MaxApprovals, \* bound on the approvals that operators request
    MaxRequests,  \* bound on the admissions
    NoLineage,    \* the NULL graph pointer
    NoCommand     \* a key that no command was sent with

Lineages == [graph : Nat \ {0}, projection : Projections \cup {"identity"}]

\* PrepareDeploymentProgram: what is wanted, and the pointers its sender saw.
Commands == [actor : Actors, topology : Topologies, current : Lineages,
             desired : Lineages \cup {NoLineage}, revision : Nat]

ASSUME DeploymentAssumption ==
    /\ Approvers \subseteq Actors
    /\ Destroyers \subseteq Actors
    /\ Empty \in Topologies
    /\ Destructive \subseteq Topologies \X Topologies
    /\ Blocked \subseteq Topologies \X Topologies
    /\ "identity" \notin Projections
    /\ MaxRevision \in Nat
    /\ MaxPlans \in Nat
    /\ MaxApprovals \in Nat
    /\ MaxRequests \in Nat
    /\ NoLineage \notin Lineages
    /\ NoCommand \notin Commands

VARIABLES
    workspace,  \* cpk_workspaces: current and desired lineage, desired revision
    session,    \* cpk_operation_sessions: status per session
    command,    \* the prepare command of each session's key
    graphs,     \* cpk_graph_versions; graph 1 is the bootstrap graph
    plans,      \* cpk_activity_plans
    approvals,  \* approval requests, each with its decision
    requests,   \* cpk_execution_requests, each with its newest run
    advanced,   \* the CURRENT_GRAPH_ADVANCED events of all runs
    process,    \* where each call of prepare stands, and what it was told
    outdated    \* history: plans made before the last change of desired graph

dvars == <<workspace, session, command, graphs, plans, approvals, requests,
           advanced, process, outdated>>

----------------------------------------------------------------------------
(* Types. *)

Identity(g) == [graph |-> g, projection |-> "identity"]

\* Who sent the command that made a row: prepare or an operator.
Origins == {"prepare", "operator"}

\* revision is what the action of the command records.
GraphRows == [session : Sessions \cup {"bootstrap"}, by : Origins,
              topology : Topologies, revision : Nat]

PlanRows == [session : Sessions, by : Origins, base : Lineages,
             desired : Lineages, revision : Nat]

ApprovalRows == [session : Sessions, by : Origins, plan : Nat, requester : Actors,
                 destructive : BOOLEAN, decision : {"none", "approved", "rejected"},
                 decider : Actors \cup {"none"}]

RequestRows == [plan : Nat, approval : Nat,
                status : {"queued", "claimed", "abandoned"},
                run : {"none", "active", "succeeded", "failed"}]

Advancements == [request : Nat, from : Lineages, to : Lineages]

\* session .. approval: before the child command of that name.
Stages == {"idle", "session", "desired", "plan", "approval",
           "approval_required", "no_changes", "review_blocked"}

Answers == {"approval_required", "no_changes", "review_blocked"}

\* graph, plan, approval: the rows the child commands answered with.
Calls == [at : Stages, session : Sessions \cup {"none"}, graph : Nat, plan : Nat,
          approval : Nat]

NotCalled == [at |-> "idle", session |-> "none", graph |-> 0, plan |-> 0,
              approval |-> 0]

\* The foreign keys between the tables.
ReferencesExist ==
    /\ workspace.current.graph \in DOMAIN graphs
    /\ workspace.desired # NoLineage => workspace.desired.graph \in DOMAIN graphs
    /\ \A p \in DOMAIN plans : /\ plans[p].base.graph \in DOMAIN graphs
                               /\ plans[p].desired.graph \in DOMAIN graphs
    /\ \A a \in DOMAIN approvals : approvals[a].plan \in DOMAIN plans
    /\ \A i \in DOMAIN requests : /\ requests[i].plan \in DOMAIN plans
                                  /\ requests[i].approval \in DOMAIN approvals
    /\ \A i \in DOMAIN advanced : advanced[i].request \in DOMAIN requests

DTypeOK ==
    /\ workspace \in [current : Lineages, desired : Lineages \cup {NoLineage},
                      revision : 0..MaxRevision]
    /\ session \in [Sessions -> {"none", "open", "terminal"}]
    /\ command \in [Sessions -> Commands \cup {NoCommand}]
    /\ graphs \in Seq(GraphRows)
    /\ plans \in Seq(PlanRows)
    /\ approvals \in Seq(ApprovalRows)
    /\ requests \in Seq(RequestRows)
    /\ advanced \in Seq(Advancements)
    /\ process \in [Processes -> Calls]
    /\ outdated \subseteq DOMAIN plans
    /\ ReferencesExist

\* CreateWorkspace: an empty current graph, no desired graph.
DInit ==
    /\ workspace = [current |-> Identity(1), desired |-> NoLineage, revision |-> 0]
    /\ session = [s \in Sessions |-> "none"]
    /\ command = [s \in Sessions |-> NoCommand]
    /\ graphs = << [session |-> "bootstrap", by |-> "operator",
                    topology |-> Empty, revision |-> 0] >>
    /\ plans = << >>
    /\ approvals = << >>
    /\ requests = << >>
    /\ advanced = << >>
    /\ process = [p \in Processes |-> NotCalled]
    /\ outdated = {}

----------------------------------------------------------------------------
(* The difference between two lineages, as Deploy and the plan compiler see *)
(* it.                                                                      *)

\* The graph a lineage stands for.
Realizes(l) == <<graphs[l.graph].topology, l.projection>>

Change(p) == <<graphs[plans[p].base.graph].topology,
               graphs[plans[p].desired.graph].topology>>

\* NoOpDeployment, the plan without activities.
IsNoOp(p) == Realizes(plans[p].base) = Realizes(plans[p].desired)

\* ready_for_execution: no ReviewChange among the activities.
IsReady(p) == Change(p) \notin Blocked

\* ApprovalPolicy.requirement_for.
IsDestructive(p) == Change(p) \in Destructive

----------------------------------------------------------------------------
(* Sessions: workflows.py. *)

StartSession(s) ==
    /\ session[s] = "none"
    /\ session' = [session EXCEPT ![s] = "open"]
    /\ UNCHANGED <<workspace, command, graphs, plans, approvals, requests,
                   advanced, outdated>>

\* CloseOperationSession and CancelOperationSession.
EndSession(s) ==
    /\ session[s] = "open"
    /\ session' = [session EXCEPT ![s] = "terminal"]
    /\ UNCHANGED <<workspace, command, graphs, plans, approvals, requests,
                   advanced, process, outdated>>

----------------------------------------------------------------------------
(* Desired graph and plan: graph_authoring.py, planning.py,                 *)
(* desired_realized_projections.py.                                         *)

\* set_desired_graph: a new revision, even if the lineage was desired before.
Desire(lineage) ==
    /\ workspace.revision < MaxRevision
    /\ workspace' = [workspace EXCEPT !.desired = lineage, !.revision = @ + 1]
    /\ outdated' = DOMAIN plans

\* SetDesiredGraph: the caller states the pointer it wants to replace.
SetDesiredGraph(s, by, t, expected, revision) ==
    /\ session[s] = "open"
    /\ workspace.desired = expected
    /\ workspace.revision = revision
    /\ graphs' = Append(graphs, [session |-> s, by |-> by, topology |-> t,
                                 revision |-> revision + 1])
    /\ Desire(Identity(Len(graphs) + 1))
    /\ UNCHANGED <<session, command, plans, approvals, requests, advanced>>

\* PublishDesiredRealizedProjection: another realization of the same authored
\* graph, possibly one that was desired before.
PublishProjection(s, projection) ==
    /\ session[s] = "open"
    /\ workspace.desired # NoLineage
    /\ Desire([workspace.desired EXCEPT !.projection = projection])
    /\ UNCHANGED <<session, command, graphs, plans, approvals, requests,
                   advanced, process>>

\* RequestActivityPlan: all pointers must be those the caller expects.
RequestPlan(s, by, base, desired, revision) ==
    /\ session[s] = "open"
    /\ workspace = [current |-> base, desired |-> desired, revision |-> revision]
    /\ plans' = Append(plans, [session |-> s, by |-> by, base |-> base,
                               desired |-> desired, revision |-> revision])
    /\ UNCHANGED <<workspace, session, command, graphs, approvals, requests,
                   advanced, outdated>>

----------------------------------------------------------------------------
(* Approval: approvals.py and core policies.py. *)

RequestApproval(s, by, p, actor) ==
    /\ session[s] = "open"
    /\ p \in DOMAIN plans
    /\ plans[p].session = s
    /\ IsReady(p)
    /\ approvals' = Append(approvals,
                           [session |-> s, by |-> by, plan |-> p,
                            requester |-> actor, destructive |-> IsDestructive(p),
                            decision |-> "none", decider |-> "none"])
    /\ UNCHANGED <<workspace, session, command, graphs, plans, requests,
                   advanced, outdated>>

\* Defect: the requester of a destructive change may approve it.
CanApproveOwn(actor, requester, destructive) ==
    actor \in (IF destructive THEN Destroyers ELSE Approvers)

\* can_approve_plan with REQUIRE_DISTINCT_PRINCIPAL.
CanApprove(actor, requester, destructive) ==
    /\ actor \in (IF destructive THEN Destroyers ELSE Approvers)
    /\ destructive => actor # requester

\* DecideApproval.  A rejection needs the same authority.
DecideApproval(a, actor, decision) ==
    /\ a \in DOMAIN approvals
    /\ session[approvals[a].session] = "open"
    /\ approvals[a].decision = "none"
    /\ CanApprove(actor, approvals[a].requester, approvals[a].destructive)
    /\ approvals' = [approvals EXCEPT ![a] = [@ EXCEPT !.decision = decision,
                                                      !.decider = actor]]
    /\ UNCHANGED <<workspace, session, command, graphs, plans, requests,
                   advanced, process, outdated>>

----------------------------------------------------------------------------
(* Admission: admission.py. *)

\* Defect: the revision of the desired graph is not compared.
LineageCurrent(p) ==
    workspace.current = plans[p].base /\ workspace.desired = plans[p].desired

\* The plan's pointers are the workspace's.
PlanCurrent(p) ==
    workspace = [current |-> plans[p].base, desired |-> plans[p].desired,
                 revision |-> plans[p].revision]

\* The approval is for this plan, of its risk, and was given.
Authorizes(a, p) ==
    /\ approvals[a].session = plans[p].session
    /\ approvals[a].plan = p
    /\ approvals[a].destructive = IsDestructive(p)
    /\ approvals[a].decision = "approved"

Active(i) == requests[i].status \in {"queued", "claimed"}

\* RequestPlanExecution; the last guard is the unique index
\* cpk_execution_requests_active_plan.
AdmitPlan(p, a) ==
    /\ p \in DOMAIN plans
    /\ a \in DOMAIN approvals
    /\ session[plans[p].session] = "open"
    /\ ~IsNoOp(p)
    /\ IsReady(p)
    /\ Authorizes(a, p)
    /\ PlanCurrent(p)
    /\ \A i \in DOMAIN requests : requests[i].plan = p => ~Active(i)
    /\ Len(requests) < MaxRequests
    /\ requests' = Append(requests, [plan |-> p, approval |-> a,
                                     status |-> "queued", run |-> "none"])
    /\ UNCHANGED <<workspace, session, command, graphs, plans, approvals,
                   advanced, process, outdated>>

----------------------------------------------------------------------------
(* Execution, as far as a deployment sees it, and advancement.              *)

\* A command on the request's run, which needs an open session.
RunStep(i, from, to) ==
    /\ i \in DOMAIN requests
    /\ session[plans[requests[i].plan].session] = "open"
    /\ requests[i].status = from.status
    /\ requests[i].run = from.run
    /\ requests' = [requests EXCEPT ![i] = [@ EXCEPT !.status = to.status,
                                                    !.run = to.run]]
    /\ UNCHANGED <<workspace, session, command, graphs, plans, approvals,
                   advanced, process, outdated>>

Row(status, run) == [status |-> status, run |-> run]

ClaimRequest(i) == RunStep(i, Row("queued", "none"), Row("claimed", "active"))
SucceedRun(i)   == RunStep(i, Row("claimed", "active"), Row("claimed", "succeeded"))
FailRun(i)      == RunStep(i, Row("claimed", "active"), Row("claimed", "failed"))
RetryRun(i)     == RunStep(i, Row("claimed", "failed"), Row("claimed", "active"))
AbandonClaim(i) == RunStep(i, Row("claimed", "failed"), Row("abandoned", "failed"))

\* Defect: only the desired pointer is compared and set.
AdvanceFromAnywhere(i) ==
    LET p == requests[i].plan
    IN  /\ i \in DOMAIN requests
        /\ session[plans[p].session] = "open"
        /\ requests[i].status = "claimed" /\ requests[i].run = "succeeded"
        /\ workspace.desired = plans[p].desired
        /\ workspace.revision = plans[p].revision
        /\ workspace' = [workspace EXCEPT !.current = plans[p].desired]
        /\ advanced' = Append(advanced, [request |-> i, from |-> plans[p].base,
                                         to |-> plans[p].desired])
        /\ UNCHANGED <<session, command, graphs, plans, approvals, requests,
                       process, outdated>>

\* AdvanceCurrentGraph: compare_and_set_current_graph and its event.
AdvanceCurrentGraph(i) ==
    LET p == requests[i].plan
    IN  /\ i \in DOMAIN requests
        /\ session[plans[p].session] = "open"
        /\ requests[i].status = "claimed" /\ requests[i].run = "succeeded"
        /\ PlanCurrent(p)
        /\ workspace' = [workspace EXCEPT !.current = plans[p].desired]
        /\ advanced' = Append(advanced, [request |-> i, from |-> plans[p].base,
                                         to |-> plans[p].desired])
        /\ UNCHANGED <<session, command, graphs, plans, approvals, requests,
                       process, outdated>>

----------------------------------------------------------------------------
(* DeploymentProgram.prepare: deployment_program_interpreter.py.  Its child  *)
(* keys are derived from the key of the command, so every process that runs *)
(* the command again finds what an earlier one made.                        *)

Begun(s) == [NotCalled EXCEPT !.at = "session", !.session = s]

\* A client reads the workspace, composes a command under a new key and calls
\* prepare with it.
CallPrepare(p, s, actor, t) ==
    /\ process[p].at = "idle"
    /\ command[s] = NoCommand
    /\ session[s] = "none"
    /\ command' = [command EXCEPT ![s] =
                      [actor |-> actor, topology |-> t,
                       current |-> workspace.current,
                       desired |-> workspace.desired,
                       revision |-> workspace.revision]]
    /\ process' = [process EXCEPT ![p] = Begun(s)]
    /\ UNCHANGED <<workspace, session, graphs, plans, approvals, requests,
                   advanced, outdated>>

\* The same command is sent again, while its first call runs or after it ended.
CallAgain(p, s) ==
    /\ process[p].at = "idle"
    /\ command[s] # NoCommand
    /\ process' = [process EXCEPT ![p] = Begun(s)]
    /\ UNCHANGED <<workspace, session, command, graphs, plans, approvals,
                   requests, advanced, outdated>>

\* The rows of a table that prepare made in session s.
Prepared(table, s) ==
    {i \in DOMAIN table : table[i].session = s /\ table[i].by = "prepare"}

Continue(p, call) == process' = [process EXCEPT ![p] = call]

Unchanged == UNCHANGED <<workspace, session, command, graphs, plans, approvals,
                         requests, advanced, outdated>>

PrepareSession(p) ==
    LET c == process[p]
    IN  /\ c.at = "session"
        /\ \/ StartSession(c.session)
           \/ session[c.session] # "none" /\ Unchanged
        /\ Continue(p, [c EXCEPT !.at = "desired"])

PrepareDesired(p) ==
    LET c == process[p]
        m == command[c.session]
    IN  /\ c.at = "desired"
        /\ \/ /\ Prepared(graphs, c.session) = {}
              /\ SetDesiredGraph(c.session, "prepare", m.topology, m.desired, m.revision)
              /\ Continue(p, [c EXCEPT !.at = "plan", !.graph = Len(graphs) + 1])
           \/ \E g \in Prepared(graphs, c.session) :
                /\ Continue(p, [c EXCEPT !.at = "plan", !.graph = g])
                /\ Unchanged

\* Where the program goes with a plan.
AfterPlan(noop, ready) == IF noop THEN "no_changes"
                          ELSE IF ready THEN "approval" ELSE "review_blocked"

\* Defect: the plan's key is not derived from the command's.
PlanWithFreshKey(p) ==
    LET c == process[p]
        g == Identity(c.graph)
        base == command[c.session].current
        change == <<graphs[base.graph].topology, graphs[c.graph].topology>>
    IN  /\ c.at = "plan"
        /\ RequestPlan(c.session, "prepare", base, g, graphs[c.graph].revision)
        /\ Continue(p, [c EXCEPT
              !.at = AfterPlan(Realizes(base) = Realizes(g), change \notin Blocked),
              !.plan = Len(plans) + 1])

\* Defect: the plan is made for whatever is desired by now.
PlanWhatIsDesired(p) ==
    LET c == process[p]
    IN  /\ c.at = "plan"
        /\ workspace.desired # NoLineage
        /\ \/ /\ Prepared(plans, c.session) = {}
              /\ RequestPlan(c.session, "prepare", workspace.current,
                             workspace.desired, workspace.revision)
              /\ Continue(p, [c EXCEPT !.at = "approval", !.plan = Len(plans) + 1])
           \/ \E q \in Prepared(plans, c.session) :
                /\ Continue(p, [c EXCEPT !.at = "approval", !.plan = q])
                /\ Unchanged

\* The plan from the expected current graph to the graph this command authored.
PreparePlan(p) ==
    LET c == process[p]
        g == Identity(c.graph)
        base == command[c.session].current
        change == <<graphs[base.graph].topology, graphs[c.graph].topology>>
    IN  /\ c.at = "plan"
        /\ \/ /\ Prepared(plans, c.session) = {}
              /\ RequestPlan(c.session, "prepare", base, g, graphs[c.graph].revision)
              /\ Continue(p, [c EXCEPT
                    !.at = AfterPlan(Realizes(base) = Realizes(g), change \notin Blocked),
                    !.plan = Len(plans) + 1])
           \/ \E q \in Prepared(plans, c.session) :
                /\ Continue(p, [c EXCEPT !.at = AfterPlan(IsNoOp(q), IsReady(q)),
                                         !.plan = q])
                /\ Unchanged

PrepareApproval(p) ==
    LET c == process[p]
    IN  /\ c.at = "approval"
        /\ \/ /\ Prepared(approvals, c.session) = {}
              /\ RequestApproval(c.session, "prepare", c.plan, command[c.session].actor)
              /\ Continue(p, [c EXCEPT !.at = "approval_required",
                                       !.approval = Len(approvals) + 1])
           \/ \E a \in Prepared(approvals, c.session) :
                /\ Continue(p, [c EXCEPT !.at = "approval_required", !.approval = a])
                /\ Unchanged

\* A child command was refused (DeploymentProgramStateConflict), or the process
\* ended: the caller may run the command again.
AbortPrepare(p) ==
    /\ process[p].at \in {"session", "desired", "plan", "approval"}
    /\ Continue(p, NotCalled)
    /\ Unchanged

PrepareStep(p) ==
    \/ PrepareSession(p) \/ PrepareDesired(p) \/ PreparePlan(p)
    \/ PrepareApproval(p) \/ AbortPrepare(p)

\* The same commands, sent by operators that read the workspace before.
OperatorStep ==
    /\ \E s \in Sessions :
         \/ command[s] = NoCommand /\ StartSession(s)
         \/ \E t \in Topologies :
              SetDesiredGraph(s, "operator", t, workspace.desired, workspace.revision)
         \/ /\ Len(plans) < MaxPlans
            /\ workspace.desired # NoLineage
            /\ RequestPlan(s, "operator", workspace.current, workspace.desired,
                           workspace.revision)
         \/ /\ Len(approvals) < MaxApprovals
            /\ \E p \in DOMAIN plans, actor \in Actors :
                 RequestApproval(s, "operator", p, actor)
    /\ UNCHANGED process

ReviewStep ==
    \/ \E a \in DOMAIN approvals, actor \in Actors, d \in {"approved", "rejected"} :
         DecideApproval(a, actor, d)
    \/ \E p \in DOMAIN plans, a \in DOMAIN approvals : AdmitPlan(p, a)

ExecutionStep ==
    \E i \in DOMAIN requests :
         \/ ClaimRequest(i) \/ SucceedRun(i) \/ FailRun(i) \/ RetryRun(i)
         \/ AbandonClaim(i) \/ AdvanceCurrentGraph(i)

DNext ==
    \/ OperatorStep
    \/ \E s \in Sessions, q \in Projections \cup {"identity"} : PublishProjection(s, q)
    \/ \E s \in Sessions : EndSession(s)
    \/ ReviewStep
    \/ ExecutionStep
    \/ \E p \in Processes :
         \/ PrepareStep(p)
         \/ \E s \in Sessions :
              \/ CallAgain(p, s)
              \/ \E actor \in Actors, t \in Topologies : CallPrepare(p, s, actor, t)

DSpec == DInit /\ [][DNext]_dvars

----------------------------------------------------------------------------
(* Properties. *)

\* The current graph has one history: every advancement starts where the one
\* before it ended, although several plans of one workspace, made from the same
\* current graph, may be executing at the same time.
AdvancementsFormChain ==
    /\ \A i \in DOMAIN advanced :
         advanced[i].from = IF i = 1 THEN Identity(1) ELSE advanced[i - 1].to
    /\ workspace.current = IF advanced = << >> THEN Identity(1)
                           ELSE advanced[Len(advanced)].to

\* What became current was reviewed: every advancement belongs to a succeeded
\* run of exactly the plan that was approved, by a second principal with the
\* stronger scope if the plan is destructive.
AdvancedWasReviewed ==
    \A i \in DOMAIN advanced :
        LET r == requests[advanced[i].request]
            a == approvals[r.approval]
        IN  /\ r.run = "succeeded"
            /\ a.plan = r.plan
            /\ a.decision = "approved"
            /\ plans[r.plan].base = advanced[i].from
            /\ plans[r.plan].desired = advanced[i].to
            /\ IsReady(r.plan)
            /\ IsDestructive(r.plan) => a.decider \in Destroyers \ {a.requester}

\* A plan becomes current at most once, however often its execution was
\* admitted, retried or abandoned.
PlanAdvancesOnce ==
    \A i, j \in DOMAIN advanced :
        requests[advanced[i].request].plan = requests[advanced[j].request].plan => i = j

\* "approval cannot be reused after projection cycles back"
\* (tests/test_execution_admission.py): once the desired graph was changed, a
\* plan made before is neither admitted nor advanced, even if the very same
\* lineage is desired again.
NothingOutdatedMoves ==
    [][/\ \A i \in DOMAIN requests' \ DOMAIN requests :
            requests'[i].plan \notin outdated
       /\ \A i \in DOMAIN advanced' \ DOMAIN advanced :
            requests[advanced'[i].request].plan \notin outdated]_dvars

\* Running prepare again gives the same answer, with the same plan and the same
\* approval request, whatever happened to the workspace or the first process.
RetriesAgree ==
    \A p, q \in Processes :
        /\ process[p].at \in Answers
        /\ process[q].at \in Answers
        /\ process[p].session = process[q].session
        => process[p] = process[q]

\* The approval that prepare asks for is about its own command: from the graph
\* the caller saw as current to the topology the caller submitted, although
\* others may have changed the desired graph between any two of its steps.
PreparedIsIntended ==
    \A p \in Processes : process[p].at = "approval_required" =>
        LET m == command[process[p].session]
            a == approvals[process[p].approval]
            q == plans[a.plan]
        IN  /\ a.plan = process[p].plan
            /\ a.requester = m.actor
            /\ q.base = m.current
            /\ q.desired = Identity(process[p].graph)
            /\ graphs[process[p].graph].topology = m.topology
            /\ ~IsNoOp(a.plan)

=============================================================================
