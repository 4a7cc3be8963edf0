# control-plane-kit: TLA+ models, checks and proofs

control-plane-kit keeps a desired topology of services, compiles the difference
between the current and the desired topology into an activity plan, has the plan
approved, and executes it against real providers while recording everything that
happened in PostgreSQL. This directory models the state machines behind it: how a change
is prepared, reviewed and accepted; the execution of an admitted plan by several fallible
workers; and what surrounds an execution, from the compiler of plans to the keys, secrets,
ingresses, node-control commands and paged reads.

Paths below are relative to `src/`; *operations* stands for
`control-plane-kit-operations/src/control_plane_kit_operations` and *core* for
`control-plane-kit-core/src/control_plane_kit_core`.

## 1. The system

| part | state | operations | correct when |
|---|---|---|---|
| Saga journal and schedule (core `planning/saga.py`, operations `activity_journal.py`) | the ordered activity events of a run | fold of the events into step states, ready steps, compensation candidates | no service ever appends an event the fold rejects; a step starts only after its predecessors succeeded |
| Run lifecycle and claims (operations `lifecycle.py`, `execution_leases.py`, `postgres/execution.py`) | request row with a fenced claim lease, run rows, lifecycle events | claim, start, pause, resume, complete, fail, cancel | one active run per request; a superseded worker changes nothing |
| Effect attempts (`effect_attempt_start_interpreter.py`, `effect_attempt_fold_interpreter.py`, `effect_attempts.py`) | one row per attempt with its intent, outcome and recovery decision | start, fold of a direct result, resolve uncertainty | an effect is performed at most once; a verdict is true and final |
| Effect reconciliation (`effect_attempt_reconciliation*.py`) | – | observe a started attempt at its provider, fold the observation | an observation never overwrites a result, never invents one |
| Lease recovery and retry (`execution_lease_recovery*.py`, `activity_run_retry*.py`) | claim generation, recovery events, run numbers | renew, take over, abandon, retry | generations only grow, the chain of fences has no gap, a retry leaves nothing open |
| Failed run compensation (`failed_run_compensation*.py`) | compensation program and its bindings | admit a program, start each inverse attempt | undoing is in reverse completion order and never overlaps doing |
| Current graph advancement (`advancement.py`, `postgres/graph_store.py`) | current and desired graph of the workspace | publish the desired graph as current | only after complete success |
| Execution coordinator (`coordinator.py`) | command receipts, and the process-local position of each call | admit, load and classify, start, execute, fold or reconcile, settle the run, complete | a key dispatches once; a crash never repeats an effect; what is open is eventually decided |
| Operation sessions (`workflows.py`) | open or terminal | open, close, cancel, record actions | a terminal session publishes nothing |
| Workspaces, graph authoring, planning (`workspaces.py`, `graph_authoring.py`, `planning.py`, `desired_realized_projections.py`) | pointers and desired revision of the workspace, graph versions, plans | author, publish a projection, plan | a plan is about the pointers its caller saw |
| Approval and admission (`approvals.py`, `admission.py`, core `policies.py`) | approval requests and decisions, execution requests | request and decide an approval, admit | only an approved, current plan is admitted; destructive changes have two principals |
| Deployment program (`deployment_program*.py`) | none: four commands under derived keys | prepare | may be repeated from any point by anybody, with one answer |
| Commands of a session (core `operations/workflows.py`, the command services) | the action log, one fingerprint per key | first execution, replay, conflict | a command sent again gets the answer of its own action |
| Gateway key rotation (`gateway_key_rotation*.py`) | aggregate with version, checkpoints, child plans | five programs, each resumed by any caller | no valid grant loses its verifier, no key in use is revoked |
| Delegation signing keys (`delegation_signing_keys.py`, `delegation_key_generation.py`) | keys of a purpose and issuer | register, activate, retire, revoke, generate | one signer; its private half exists |
| Gateway probes (`gateway_probes.py`) | probe attempts with their grant | intend, dispatch, complete | a grant outlives no verifier |
| Secret providers (`secret_providers.py`, core `secrets.py`) | providers, references, authorized uses | register, revoke, authorize a use, generate, release | a use rests on registrations that are active and admit it |
| Runtime authorities and products (`runtime_authorities.py`, `products.py`) | four registration tables | register, revoke; read by the coordinator | an attempt keeps the request it recorded |
| Public ingress (`ingress_authorities.py`, `ingress_realization.py`) | zone authorities, one resource row per ingress epoch | allocate, undo, remove | the row says what the provider holds |
| Node control (`node_control*.py`) | attempts with both grants' material | prepare, reload, replay | a request id is one intent; a variable changes at most once per request |
| Topology, diff, plan compiler (core `topology/`, `planning/`) | none | compile, validate, diff, plan, review and recovery plan | every order a plan allows is safe and ends in the desired graph |
| Runtime requests (`runtime_effects.py`) | none | a request for an activity from the loaded context | the request describes its activity |
| Effect evidence (`effect_outcome_evidence.py`, core `operations/recovery.py`) | observations, outcomes | fold an answer, read it again | what is stored is read back, and says what was answered |
| Read services (`read_pages.py`, `read_services/`) | none of their own | paged reads under concurrent writers | a traversal returns each row that stays once |
| Server surface, codecs, schema verification, extraction tooling | none of their own | parse, route, encode | – |

How they interact. Every command service opens one PostgreSQL unit of work, locks
the request row (`FOR UPDATE`) before anything else, checks, writes and commits.
Provider calls are made outside every transaction. The coordinator is a sequence of
such transactions with provider calls between them; several coordinators, and
people sending lifecycle, recovery or compensation commands, share a request.
Commands carry an idempotency key; a replayed key returns the stored result.

What is hard: the gaps between transactions (crash, takeover, expiry, a second
coordinator), the two records of one history (journal and attempt table) written by
five services, and the order in which inverse effects may run. `PROJECT.json` lists
these hazards at the lines where they bite.

## 2. The modules

| module | models |
|---|---|
| `SagaJournal` | the journal projection of core `planning/saga.py` |
| `ExecutionRun` | one admitted request: claim, runs, journals, attempts, reconcilers, compensation, advancement |
| `EffectLedger` | abstract specification: what the attempt services promise together |
| `LifecycleContract`, `RunContract` | the tables of core `operations/lifecycle.py`, and the state machine they describe: the abstract specification of a run |
| `ContractedRun` | `ExecutionRun` mapped to `RunContract` |
| `Coordinator` | invocations of `ExecutionCoordinator.execute` over `ExecutionRun` |
| `Deployment` | one workspace: desired graphs, plans, approvals, admission, advancement, and `DeploymentProgram.prepare` |
| `CommandLog`, `CommandReplay` | every command of a session with its intent, and what the services answer when it is sent again |
| `DelegationKeys`, `GatewayProbes`, `GatewayKeyRotation` | the key table with its custody, probes, and the rotation over both |
| `Topology`, `PlanCompiler`, `Rollout` | graphs, validation and diff; the plan; its execution and undoing in a world |
| `Products` | product contracts, catalogues, and the instances that become blocks |
| `RuntimeRequests`, `RuntimeRegistry` | the request for an activity; the four tables it is made from, under a coordinator |
| `SecretRegistry`, `PublicIngress`, `NodeControl`, `ReadPages` | one component each |
| `EffectEvidence`, `EffectFolds` | outcomes and projections of what providers answer; their folding in any order |
| `Control` | the composition of the parts around an execution |
| `ExecutionRunSafety` | theorems about `ExecutionRun` and `ContractedRun` |
| `CoordinatorSafety` | theorems about `Coordinator` |
| `DeploymentSafety` | theorems about `Deployment` |
| `CommandReplaySafety` | theorems about `CommandReplay` |
| `EffectFoldsSafety` | theorems about `EffectFolds` |
| `GatewayKeyRotationSafety` | theorems about `GatewayKeyRotation` |
| `RolloutSafety` | theorems about `Topology`, `PlanCompiler` and `Rollout` |
| `ControlSafety` | theorems about `SecretRegistry`, `RuntimeRegistry`, `NodeControl`, `PublicIngress`, `ReadPages` and `Control` |
| `MCExecutionRun`, `MCCoordinator`, `MCDeployment`, `MCGatewayKeyRotation`, `MCControl` | instances for TLC |

**SagaJournal.** `project_activity_journal` is a left fold, so a journal is kept as
the fold's accumulator: step states, the order of success events, the uncertain
steps, whether compensation was requested, and `coherent`, false from the first
event that the fold rejects. `Apply` is one step of the fold. `Ready`,
`Candidates` and `SagaStatus` are `derive_schedule`, `compensation_candidates` and
`SagaState.status`.

**ExecutionRun.** `request`, `run`, `attempt` are the rows of
`cpk_execution_requests`, `cpk_activity_runs` and `cpk_effect_attempts`; `journal`
the step events; `workspace` says how the workspace's graphs relate to the plan.
`caller[e]` is the process between inserting attempt `e` and folding its result,
`observers` are reconcilers between their observation and its fold, and `effect` is
the provider's own record (how often an effect was performed, what came of it): no
guard of a service reads it. One committed transaction is one action, because each
one holds the request's row lock to its end; a refused command changes nothing, and a
replayed idempotency key returns what is stored, so both are stuttering steps. Any
fence may be used in a command at any time: superseded workers are stopped by the
guards or not at all. Time appears only as `ExpireLease`; which guards look at the
expiry, and which do not (lifecycle commands, direct folds, advancement), is taken
from the code.

Attempt 1 of an activity is its forward effect, attempt 2 its inverse effect. The
statuses COMPENSATED, PARTIALLY_FAILED and UNCOMPENSATED_FAILURE of a run are left
out, because no service of the repository sets them: a compensating run stays so.

**EffectLedger.** A ledger with one line per effect: enter, perform at most once,
decide once and truthfully, settle uncertainty by decision. `ImplementsLedger` is
the refinement, with the attempt status as the line's verdict and the provider's
record as what was done.

**Coordinator.** `coord[i]` is where call `i` of `execute` stands; `receipt` is
`cpk_execution_command_receipts`, as a record of its state, intent and result. `Load` is `_load_context` with
`_classify_current`; the actions after it act on a classification that may be stale by
then. Activities without an attempt row (sockets, public ingress) are `Legacy`:
`RecordStarted`, `ExecuteLegacy` and `RecordOutcome` are their path. `Raise` is a
transaction that refuses (the receipt stays incomplete), `Crash` ends a process
anywhere.

**Deployment.** `workspace` is the row of `cpk_workspaces`: current and desired lineage
(authored graph and realized projection) and the desired revision. `graphs`, `plans`,
`approvals`, `requests` and `advanced` are tables that only grow; a row's index is its
identifier. A graph's content is a topology; the compiler's verdicts on a pair of
topologies (destructive, needs review) are constants. Every command is one transaction
under the session and workspace locks, hence one action. `process[p]` is where a call of
`prepare` stands; each of its four child commands is a step of its own, its keys are
derived from the command, and a child whose key was used answers with the stored row
(`Prepared`), whatever the state of the session or the workspace. `CallAgain` sends a
command again at any time, `AbortPrepare` is a refused child or a dead process. A run is
reduced to active, succeeded and failed: what happens inside is `ExecutionRun`, which in
turn sees the workspace only as pinned, advanced or moved. `outdated` is a history
variable: the plans made before the last change of the desired graph. Two plans of one
workspace may execute at the same time, as in the code, where the unique index is per
plan. A plan stays PLANNED, since no service sets another status.
Left out: approvals of gateway key rotations (they are in `GatewayKeyRotation`), the check
that products are registered, readiness evidence, and scopes other than those for approving.

**LifecycleContract, RunContract, ContractedRun.** Core `operations/lifecycle.py` publishes
which operation moves a run from which status to which, what it records, and which recovery
decision needs which fence, status and evidence. `LifecycleContract` holds these tables and
the coherence their constructors demand; `RunContract` reads them as a state machine over the
status of the runs, the claim and the graph; `ImplementsContract` maps `ExecutionRun` to it.
The services state their guards a second time and never consult the tables, so nothing but
this refinement compares the two.

**CommandLog, CommandReplay.** `CommandLog` has each command with the fields its fingerprint
covers (`Intent`), what the reply reads, and the canonical contract of a session's commands.
In `CommandReplay` a command arrives at any time, any number of times, under keys that may
collide: the service finds the action of the key and answers it, refuses, or executes for the
first time with the guards of `Deployment` and `ExecutionRun`.

**DelegationKeys, GatewayProbes, GatewayKeyRotation.** `keys` is the key table of one purpose
and issuer, `custody` what the secret provider holds, `gateway` the verifiers the running
gateway has, `rot` the aggregate of a rotation with its checkpoints, `child` the two plans it
makes, `proc` where a call stands between two of its transactions. Every transition of the
aggregate compares status and version; since no status is entered twice, the status stands for
the pair. The execution of a child is one effect that may fail, be uncertain or be recovered
under a new fence. `DirectKeyCommand` steps are key commands from outside a rotation. Signing and
verifying a probe are external.

**Topology, PlanCompiler, Rollout.** A topology is compiled to a graph, validated and compared
with another one; the difference becomes activities and dependency pairs, with the inverse of
each activity and the review it needs. `Rollout` executes a plan in every order its pairs
allow, activity by activity, against a world that does what each request describes, and gives
up at any point to undo what succeeded, newest first. Route sets are not modelled.

**Products.** The laws of a product's contract, a catalogue (one document per identity), an
instance's configuration, which may choose values and secret references but not what there is
to choose, and the block it becomes. The laws are assumptions on `Descriptor`; the topologies
of `Rollout` and the graph of `RuntimeRegistry` are built from a catalogue with `Instantiations`.

**RuntimeRequests, RuntimeRegistry.** `RequestProblem` and the request constructors are
`runtime_effects.py`: which rows an activity needs, and the request made from them, with the
secret deliveries its product declares and those its instance chose.
`RuntimeRegistry` registers and revokes rows while a coordinator loads them, records its
attempt with the request, calls the interpreter, dies and returns.

**SecretRegistry.** A registration id is a digest of its content and the registration it
supersedes, so here it is the sequence of contents. `reading` is a reference registration
between its unlocked read of the provider and its insert; `custody` a call that has the grant
for a secret to be generated, `kept` what the provider holds; `uses` the committed
authorizations and `released` the values given out for them.

**PublicIngress.** Each effect (allocate or remove) is a sequence of transactions and provider
calls; a call may fail half way, its undo may fail too, and its process may die anywhere.
`cloud` is what the provider holds, `tokens` the connector tokens in the custody of the secret
provider. A removal reads its row without a lock and marks it by epoch later; in between the row
may have been removed and the next epoch allocated, and then the partial unique index of the table
refuses (`MarkRemoving`). `mark_removed` and `mark_uncertain` find their row anew (`FindRemoved`,
`FindDoubtful`) and mark what they found in a second step (`MarkRemoved`, `MarkUncertain`), whatever
became of it in between. The source that `mark_removed` writes back is left out: nothing reads it of a row
that is not active, and no row becomes active again.

**NodeControl.** `Prepare` and `Reload` are the two transactions; signing, the relay and the
workload are external, and a signed command may be sent and arrive again. `signing` and `held`
are the key and secret tables as the two services read them.

**ReadPages.** One traversal of one paged collection: a first request, then requests with the
cursor of the page before, each its own transaction, while writers begin, commit, abandon and
withdraw rows whose ordinals were drawn before their commit. `Position` and `Less` are the
orders of the cursors, with instants compared as the code normalizes them.

**EffectEvidence, EffectFolds.** `EffectEvidence` classifies an answer, projects its
observations, and reads outcomes back with every check the reader makes. `EffectFolds` has
effects that start with a pinned contract, answers of provider and observer, and fold commands
that arrive in any order and repeatedly while the claim rotates, the authority is registered
again and the workspace moves to another graph. Left out: failure evidence written by earlier
releases, the grammar and length of texts, completions other than HTTP ones (the projection
refuses them), the secret grants of an inspection, and the runtime's failure code.

**Control.** These parts have disjoint tables and disjoint outside worlds: a step of one
commutes with a step of any other, and no property relates two of them. A behaviour of
`Control` therefore picks the part that moves (`focus`) and explores it completely; the
product of all parts would repeat the same states. Where two parts do meet, one module has
both: keys, custody and probes in `GatewayKeyRotation`, compiler and requests in `Rollout`,
registry and requests in `RuntimeRegistry`.

Definitions marked *Defect* or *Mutant of* are the plausible bugs used to confirm that each
property can fail; nothing else refers to them.

## 3. The runs

`tlc -workers 2 -config <cfg> <module>`; `RotationTwice` takes about three minutes,
each of the others about two or less.

| run | instance | shows |
|---|---|---|
| `RunCompensation` | two parallel activities and a join, 2 workers, 2 generations, 1 run, all results and decisions, an observer racing the process | `TypeOK`, `JournalMatchesAttempts`, `CompensationNeverOverlaps`, `InverseInReverseOrder`, `AdvancedMeansRealized`, `EndedSessionIsQuiet`, `VerdictTruthful`, `VerdictFinal`, `ImplementsLedger` |
| `RunRetry` | 2 activities, the first with an inverse, 2 workers, 2 generations, 2 runs, an observer | `OnlyLatestRunActive`, `RetryLeavesNothingOpen`, `RecoveryChainIntact`, `StaleFenceNeverFolds`, `ImplementsContract` |
| `CoordMixed` | 2 invocations over a runtime and a legacy activity, a crash, an expiring lease | `CommandDispatchedOnce`, `CompletedMeansSucceeded`, `RuntimeInvokedOnce` |
| `CoordProgress` | 2 invocations that keep being resubmitted, a crash, no expiry | `OpenAttemptSettles` |
| `CoordLegacyRace` | 2 invocations, one legacy activity | violates `OneEffectInvocation` |
| `CoordUncertain` | 2 invocations, one runtime activity | violates `NoManufacturedUncertainty` |
| `CoordExpiry` | as `CoordProgress`, with expiry | violates `OpenAttemptSettles` |
| `Deploy` | 2 processes, 2 prepare commands, 3 topologies, 3 revisions, operators beside them; or 1 session, 2 principals, 2 topologies, 2 projections, 2 plans, approvals and requests | `AdvancementsFormChain`, `AdvancedWasReviewed`, `PlanAdvancesOnce`, `RetriesAgree`, `PreparedIsIntended`, `NothingOutdatedMoves` |
| `Rotation` | 1 rotation, 2 calls at once, 1 probe, one key command from outside, one recovery, clock 0..3 with a skew | `GrantsStayVerifiable`, `CompletedMeansReplaced` |
| `RotationTwice` | 2 rotations, 3 keys, 2 calls at once, 1 probe, clock 0..2 | `GrantsStayVerifiable`, `SignerIsUsable`, `RevokedOnlyWhenUnused` |
| `RotationLate` | 2 rotations, 3 keys, 2 calls at once, no probe and no key command from outside, clock 0..2 | violates `ReplacementSigns` |
| `Control` | every part around an execution, one at a time | `ControlTypeOK`, and per part: secrets `UsesRestOnActive`; registry `AttemptsKeepTheirRequest`; rollout `RolloutIsSafe`, `RolloutEndsInAGraph`, `RequestsMaterialize`; ingress `IngressOutcomesAreTrue`; node control `ControlCommandsAreExact`; reads `PagesCoverOnce`; commands `RepliesAreTheCommandsOwn`; evidence `EvidenceReadsBack` |

`EffectAtMostOnce` is a theorem and follows from `ImplementsLedger`, which `RunCompensation` checks;
the type and foreign-key invariant `DTypeOK` of `Deployment` is a theorem only.

Bounds. Two workers and two generations give one takeover, hence a stale fence;
two runs give a retry; a third worker, generation or run repeats the same relation.
Three activities are the least with parallel branches and a join, and the least for
which a wrong inverse order between two program steps beside a failed step is
possible. Two invocations and two keys give every race of `execute` with itself, one
crash the gap each transaction leaves. `RunRetry` has what an earlier fence needs to have
something left to fold: an observer settles the attempt of a process that is still executing, the run
fails, another worker takes the claim over and retries or undoes it, and the process and a second
observation return while the new fence has an effect open. While an observer races a process, or a
process outlives its attempt's reconciliation, the second activity has waited for the first and nothing
is uncertain (`RacedInTurn`); otherwise the two are parallel and may be uncertain. It is also cut
(`Undisturbed`) where the session ends or the desired graph moves: both only disable
commands. `RunCompensation` explores observers while one activity has attempts
(`ObservedAlone`): what an observer folds is its own attempt and the step of that activity.

In `Deploy` two processes on one command give every overlap of a call with its repetition, on two
commands every overlap of rivals, and what they prepare is approved, executed and advanced beside them;
the third revision is an operator's. For plans that operators ask for, three revisions let a projection
go away and come back (the ABA case), two plans and two requests let two plans made from the same
current graph execute at once or one plan be admitted again after its claim was abandoned; one
principal may approve everything and one only destructive changes. The run takes a behaviour as far as
it is one of these two (`AuthoringOrReviewing`): their product, prepared plans beside operators' plans,
is left to the proofs. Deadlock is not checked: a request that is abandoned, succeeded or whose
session has ended legitimately takes no further step.

`Rotation` and `RotationTwice`: two calls give each program's race with itself and with any other
program; the clocks have room for a grant and the drain, in `Rotation` also for the skew; a fence of 2 is one
recovery of the child's run. The processes are symmetric, and in `RotationTwice` so are the two rotations
together with the keys they generate; the second rotation replaces the key that the first brought, with the
calls of the first still about and the probe at any time. No constraint cuts a state. What the two
instances do not combine (a recovery, a skew or a key command from outside in the second of two
rotations) is covered by the proofs only. `RotationLate` is `RotationTwice` without the probe and shows what
a late activation does.

`Control`, per part. Secrets: one provider with two contents, one reference, chains of two
registrations, one generated intent, and two rows of each table (`FewRegistrations`): enough for a
registration to be superseded or revoked between any two steps of a use, of a registration and of a
generation. Registry: two versions of a product, pull scopes one within the other, two registrations
at once, one row revoked for good, one coordinator that dies and returns, and an activity of a node
whose instance chose another secret than its product's default. Rollout: every pair of topologies
that differ in the runtime of an application, its version, its database, the owner of the database, a
run-time route and an ingress, or in the identity of a connection, which leads from other ends or passes to
an environment; a connector without an ingress and one with two; a database without a port. Ingress: four calls and two epochs, the least for a removal that marks
its row after another one removed it and the next epoch is in force. The calls are alike and are
numbered as they begin; the third is explored where the first two went well and the authorities
stand, and the fourth where the others went well too (`CallsInOrder`). `ControlSafety` proves the same
of calls of any number that end in any way. Node control: two keys for a purpose, two gateways, three
commands of which two share a request id, one change of graph, keys or secrets. Reads: one collection
of each cursor, scope and way that its rows leave it, three rows, two scopes, pages of two. Commands:
two sessions, a request with two workers and a retry, and keys that two kinds of command share.
Evidence: one effect, six answers of its provider and three of an observer, one rotation of the
claim, and an authority that changes once an observer's answer rests on it (`LateAuthority`).

Fairness, for `OpenAttemptSettles` only: a started invocation takes its next step
unless its process ends (`InvocationStep`), and whoever drives the run sends a new
command with a fresh key after the last one returned or raised (`Submit`, `Again`).
Nothing is assumed of other commands, of the clock or of which result a provider gives.
`CoordProgress` needs the lease to stay live; `CoordExpiry` shows that this is essential.

Disagreements found. `docs/learning/roadmap-0008/run-0001.md` promises that a concurrent
coordinator performs exactly one effect invocation, manufactures no uncertainty, and
that a crash ends in explicit uncertainty. The code keeps the first promise for
operations with an attempt row only (`CoordLegacyRace`), does not keep the second (a
second coordinator reconciles at once, `CoordUncertain`), and keeps the third only while
the lease is live (`CoordExpiry`). `docs/CONTROL_PLANE_LANGUAGE.md:1144` says that an activation
makes the new key the sole signer while the old one drains. An activation that was decided on
before the next rotation of the same purpose, and arrives while that one drains, makes the old
key the signer again, which this rotation then withdraws from the gateway (`RotationLate`).

Further observations made while modelling, without a run of their own.

*Rotation.* What is said of grants holds under `Undisturbed`. Without it: a key command from outside
may retire or revoke a key a rotation relies on; and the drain deadline is computed from the
requested lifetime and not from the lifetime the probe service issues. After a late activation the old
key signs once more, and the deadline of the rotation that withdraws it was fixed without those grants:
`RequestedAfterReplacement` names them, and they are the only ones that may lose their verifier. The stalled
key itself goes on signing until the next activation, after the gateway has been told to forget it: that
is the second half of `SignerIsUsable`. A child whose coordinator
returns in flight blocks the rotation (`gateway_key_rotation_deployment_execution.py:624`). A rotation that is
blocked after generation leaves a verify-only key behind.

*Compiler.* `_add_dependencies` raises `KeyError` for an edge to a new node that is not owned;
reconciling an existing connector is not ordered after the allocation of a public ingress;
removing an edge and its provider together with the consumer orders no stop; a connection that keeps its
identity while it passes to or from the environment of its consumer gets no activity
(`planning/compiler.py:349`), so in the end the run-time connection is left over, or missing (`Rebound`); one that keeps an authored identity but has another consumer orders
only the new one (lines 474 and 506), so the old consumer may lose its provider before it is reconciled, and one
that leads to another provider at the same address may not be reconciled at all
(`Steady`); an ingress that is its own connector's target loses it first (line 492); a removed connector
after its ingress cannot have its request made; cyclic environment connections give a
plan that cannot be ordered, although the graph validates. `RolloutIsSafe` and `RolloutEndsInAGraph` speak
of connections that are steady, or not rebound, and hold for the others in every rollout; the instance has a
connection of each kind that they leave out. A connector that stays may be reconciled before its new
ingress is allocated, and one of two ingresses never gets a token; a gateway beside a connection to a
socket without a port, or of a protocol other than http and postgres, gets no targets. The instance
has one of each, but of the protocol, and `RequestsMaterialize` names them.

*Registries.* Two imports of one product identity at once leave two active products; a
revoked runtime authority can never be registered again; a delivery outlives its authority.
A reference is registered from a provider read without a lock, so it may name one that has
been revoked; no use is ever authorized from it (`UsesRestOnActive`). A value that was
generated but whose registration failed stays at the provider with no reference.

*Ingress.* A process that dies between the provider's answer and its transaction leaves parts
at the provider that no row names; a retained removal leaves its row active. A removal that ends
late may mark the row of the next epoch as removed or uncertain, because `mark_removed` and
`mark_uncertain` look for the latest row and not for the one that was torn down.

*Products.* The request of a node carries the deliveries its product declares as well as those its
instance chose (`_secret_deliveries_for_node`), so for one target there may be two references
and the use of both must be admitted, although the instance replaced the first.

*Lifecycle contract.* It lets a running run be cancelled, which `lifecycle.py:306` refuses; it
wants a run paused before an uncertain effect is confirmed, and no uncertainty before a resume,
which the services do not check; completing or failing a compensation, accepting an
uncompensated failure and remaining paused have no service; and it demands a record of
rejected commands, where the services record only accepted ones.

*Replays.* `BeginCompensation` sent again is refused once the compensation has settled; a
recovery or retry sent again is refused once the fence has moved; a replayed approval does
not check scopes again.

*Evidence.* A provider's answer that is larger than 8192 bytes, or a failed HTTP completion that meets
its own contract, can never be folded: the attempt stays started.

*Node control and reads.* A signed command may arrive after the graph has moved on (bounded by the
grant's lifetime); pages of one traversal read different graphs and ages.

## 4. The proofs

`tlapm <module>` for the eight proof modules. They hold for arbitrary sets and bounds, under the
named assumptions of the modules they are about, which say that the constants have their types (and
that a first claim has a fence, that new keys differ, that signed grants last at most 300 seconds, and
that topologies, answers and commands are those their constructors let through).

`ExecutionRunSafety`: about `ExecutionRun`, for any sets
of activities and workers, any plan, and any number of generations, runs and observers.

* `TypeCorrect`: `Spec => []TypeOK`. The inductive form adds that a claimed request
  has a run (`TypeInvariant`): recovery indexes the runs with `latest`.
* `EffectExecutedAtMostOnce`, `VerdictsAreTruthful`: from `EffectsInvariant`, which is
  needed because neither is inductive. It says that a process holds an effect only
  if the attempt exists and the effect has not been performed yet; that a process which
  carries a result carries the provider's result; that an observer's verdict, unless
  uncertain, is the provider's; and that an effect without an attempt was never performed.
* `VerdictsAreFinal`, `StaleFencesNeverFold`, `EndedSessionsAreQuiet`: action properties, from
  the same invariant, one case per action.
* `LatestRunActive`, `RecoveryChain`: from `RunsInvariant`. A run that was retried has an
  event after its RUN_FAILED event, so compensation, which demands that
  RUN_FAILED is the last one, can never revive it; that is the strengthening.
* `RunImplementsLedger`: `Spec => ImplementsLedger`, the refinement step by step.
* `JournalAgrees`: `Spec => []JournalMatchesAttempts`. The two records of one history are written
  by five services, each of which checks one of them. `JournalInv` says of every run that its
  journal is coherent, gives each activity the step that the statuses of its two attempts demand,
  lists exactly the completed activities, once, and has requested compensation just when the run
  is compensating; and that an inverse was only ever started for a direct success. The lemmas
  on `Apply` before it compute what each event leaves of a journal whose guard holds.
* `UndoingNeverOverlaps`, `RetriesAreClean`, `InversesAreReversed`, `AdvancedIsRealized`: from
  `JournalInv`. Of two inverses that are open one would belong to an earlier completion, and the order of
  inverses says that the other had succeeded by then (`OneInverseOpen`). A retry looks only at the journal of the old run, so that nothing of it is open in
  the attempt table is a consequence of their agreement; a new inverse is started only when every
  later completion is compensated, which `ReversedIn` keeps; and a run that advanced the graph has
  succeeded, from where no service leads away.
* `RunImplementsContract`: `Spec => ImplementsContract`. It rests on the invariants above, on
  `ClaimHeld` (a claimed request has a fence), and on the contract's tables, which `OperationTable`,
  `DecisionTable` and `DecidableSeen` read once.

`CoordinatorSafety`: about `Coordinator`, for any number of invocations, keys and crashes. Its steps
are steps of `ExecutionRun` or the events of a legacy activity around it (`BaseStep`,
`DirectStep`), so it keeps only what both keep.

* `CommandsDispatchOnce`, `CompletedIsSucceeded`: from `CoordInv`. A call past admission has used its
  key, and its receipt names it (`CallInv`); a call that will complete its receipt has seen its
  run succeeded, and success stays.
* `RuntimeEffectsInvokedOnce`: the effects with an attempt row keep the part of `EffectsInvariant`
  that concerns their invocation, whatever the legacy events do. For legacy effects it is false
  (`CoordLegacyRace`).

`DeploymentSafety`: about `Deployment`, for any numbers of sessions, processes,
principals, topologies and projections and all bounds. `StepShapes` first sorts all steps
by what they do to the tables, so the rest has one case per kind of change.

* `DTypeCorrect`: types and foreign keys; it needs that a call which has begun has a
  command and knows its graph (`CallsInv`).
* `OneHistory`, `AdvancesOnce`, `ReviewedBeforeCurrent`, `OutdatedNeverMoves`: from
  `ReviewInvariant`. The desired revision orders the plans, and an outdated plan has a smaller
  one than the workspace for ever; decisions carry the authority of their risk; a request
  keeps an approval of its own plan, whose base is not its desired lineage; and an advancement's
  plan is either older than the workspace or the workspace has reached its desired lineage.
  The last two make a second advancement of the same plan impossible.
* `RetriesAnswerAlike`, `PreparedAsIntended`: from `PreparedInvariant`. The rows that `prepare` made
  for a command are at most one graph, one plan and one approval, each about the one before
  (`RowsPrepared`), and a call under way holds only such rows (`CallPrepared`).

`GatewayKeyRotationSafety`: about `GatewayKeyRotation`, for any keys, rotations, calls and probes.

* `RotationTypeCorrect`, `CompletedIsReplaced`, `GoneKeysStayGone`: from `RotationInv`. Any call may
  hold an action of a rotation that has moved on or was blocked since, so what a call may still do
  is an invariant of each call (`CallInv`). Between rotations everything rests on the two
  projections: a child that has not succeeded pins both of them to its phase, published phases want
  different keys, and therefore at most one deployment can still reach the gateway. From
  retirement-ready on neither projection nor the gateway knows the old key (`OldKeyWithdrawn`).
* `GrantsVerifiable`, `SignerUsable`, `RevokedUnused`: from `DrainInv`, what signer, grants and
  projections have to do with each other while nothing outside disturbs the rotations, whenever a call
  comes. Whichever key signs, or may be activated by a call under way, is in both projections or has had its
  drain and is being retired (`Covered`). A deadline lies a grant's lifetime and the skew after the
  recorded replacement (`DeadlinesCover`), so when it has passed every grant of the old key requested by
  then is over; later ones exist only if a stalled activation brought the key back
  (`RequestedAfterReplacement`).

`CommandReplaySafety`: about `CommandReplay`, for any sets of sessions, actors, keys and contents and any
number of rows of each kind.

* `RepliesOwn`: `ReplaySpec => []RepliesAreTheCommandsOwn`. A command sent again is answered from the rows
  as they are by then, and a recovery or retry only if the runs made since are explained by
  retries under the present fence (`RunEvolution`). `ReplayInvariant` therefore ties each action to
  its rows: it keeps what its command wrote, and a fingerprint tells two commands with one key apart
  (`LogsOwn`, `LogsKeyed`); the runs of a request form a chain in which every run but the last was
  retried, once (`RunsChained`, `RetriedOnce`); no decision left a fence beyond the present
  claim's (`FencesReached`), and a retry after a decision is under its fence or a later one
  (`FencesFollow`). With the last two, a fence that is still held after a recovery is the fence of every retry since.

`EffectFoldsSafety`: about `EffectFolds`, for any attempts, graphs and commands, answers of the shapes that
their constructors admit (`AnswersAssumption`), and claims, registrations and logs of any length.

* `EvidenceAlwaysReadsBack`: `EvidenceSpec => []EvidenceReadsBack`. Reading takes an outcome apart and checks
  it again, so the lemmas show that every conversion of the fold is undone or accepted by it:
  `AnswerDecodes` for the bytes (http evidence has a digest exactly when it says whether it matched,
  so the short form stands for one evidence), `CompletionRow` for the row that a supported completion
  is projected to, `VerifiedRows` for what a verified row rests on. `EvidenceInvariant` names for every
  settled effect the answer that its outcome was made from (`Recorded`), and gives every observation
  one owner (`MembersApart`). Logs are only appended to, an intent is written once, and an attempt with
  an outcome moves once more at most, by a decision about an uncertain one (`RecordedStays`).

`RolloutSafety`: about `Rollout`, for any authored topologies that compile to valid graphs
(`TopologyAssumption`) and are made by the constructors of their blocks (`AuthoredAssumption`).

* `RolloutStaysSafe`, `RolloutEnds`: `RolloutSpec => []RolloutIsSafe` and `[]RolloutEndsInAGraph`, both from
  `RolloutInvariant`. The first says nothing of the provider that a connection not `Steady` assigns, nor of the
  ends of one that is `Rebound`, the second nothing of where a `Rebound` connection ends: there the compiler
  does lose sight of them (`planning/compiler.py`, lines 349, 474 and 506). Three facts about the operators come first. A graph that compiles and validates has no
  dangling reference, and the environment of a node is what its connections assign (`GraphsSound`). Every
  difference of two graphs has its activity, is realized by a node's, or is reviewed (`KeptNodes`,
  `ConnectionsPlanned`, ...), and an activity is about a subject that came, went or stayed
  (`PlannedFit`), so label and subject identify it. The invariant says that the world is a function of the set of
  activities that are done: each of its parts is a blend of base and desired graph (`WorldFollows`); a
  step adds one activity to the set, an inverse takes one away, and the material source of a compensation
  is right just because of that (`UndoFollows`). It also says that the set is closed under the plan's
  order, forward and backward. Where a rollout ends is then a matter of which activities there are.
  What it never loses is a matter of the order: `Earlier` brings each pair of `_add_dependencies` to
  bear, one lemma per promise. `SameAssignments` is the one surprise: that a consumer is reconciled when its
  provider changes rests on the address being different, which is why `Steady` is needed.
* `RequestsCanBeMade`: `RolloutSpec => []RequestsMaterialize`, from the same invariant. Subjects and products
  are found because an activity is described by the graph that has its subject (`TargetsAreFound`,
  `ProductsRegistered`). Tokens are a matter of the order once more: a connector that may be started or
  awaited has its ingresses allocated (`ConnectorServed`), one that may be stopped has not lost them
  (`ConnectorStillServed`). What remains is what the property names: a connector that stays, whose
  reconciliation is not ordered, and one whose resource is removed after its ingress. The first form allowed
  `token-missing` by label and nothing else; it fails for a connector of two
  ingresses and for an unmapped connection, which the instance did not have then and has now.

`ControlSafety`: about the parts of `Control`.

* `OneActiveRegistration`: of the secret registrations of one subject at most one is active, in
  both tables, because registering supersedes every active row of its subject.
* `UsesRest`: `SecretSpec => UsesRestOnActive`, for chains of any length. The guards of a use give everything
  but that no other registration of the reference is active, which is the theorem before.
* `RequestsAreKept`: `RegistrySpec => []AttemptsKeepTheirRequest`, for any rows and assignments. The
  invariant adds that a coordinator holds an attempt only together with the context it made its
  request from, and that every product a context names has a row, which stays.
* `CommandsExact`: `NodeControlSpec => []ControlCommandsAreExact`, for any commands, graphs and keys.
  Nothing stops a signed command from arriving twice; it is applied once because it names the
  version it expects, and the variable has moved past the version of every applied command.
* `OutcomesAreTrue`: `IngressSpec => []IngressOutcomesAreTrue`, for any calls and epochs. Only its own
  creation brings the parts of a tunnel about, and a recorded tunnel is that of an allocation that
  has succeeded, so a teardown that returned stays true. That one resource is in force is the
  table's index; the first form of the model had no index, and the invariant failed there with a
  fourth call.
* `PagesCover`: `PageSpec => []PagesCoverOnce`, for any collections, rows, scopes, limits and
  numbers of pages. `FirstRowsInOrder` says what a page query returns of a
  finite set: the first rows in order, none left out before the last of them, and all of them if they are fewer than
  asked for. `PageInvariant` adds what holds between two pages: the cursor is the position of the
  row shown last, positions of rows shown never change, and a row that matched throughout was shown
  or is after the cursor. That ordinals have no gap needs that the ordinals of a parent are
  the numbers up to how many rows it has (`OrdinalsDense`), which the parent's lock ensures.
* `PlaneKeepsPromises`: the composition keeps these five, the replies of `CommandReplay`, the evidence
  of `EffectFolds` and the three promises of a rollout, because it moves one part at a time.
* `PlaneTypes`: `PlaneSpec => []ControlTypeOK`. A type is seldom inductive here: a row of a registry has
  that of its subject because it was a candidate, written by hand or superseding a row
  (`SecretsTyped`, `RowTyped`), a value is released only after its use was recorded, and the
  types of ingresses, pages, evidence and rollouts follow from the invariants above. It needs that a
  node-control command is parsed before it is asked for (`RequestAssumption`).

Only model-checked: `OpenAttemptSettles`, since liveness and ENABLED are out of the prover's reach,
and what each run that expects a violation shows. Every other property of the runs is a theorem.

## 5. Plan, and what is not modelled

Every safety property of the runs is proved. Left are the hazards that `PROJECT.json` lists without a
property, and what is not modelled.

Not modelled:

* the HTTP surface (`cpk_server.py`, core `operations/http.py`): it parses a request and calls
  one of the services modelled here; it keeps no state;
* codecs, schema verification and canonical JSON: serialisation and static checks; a fingerprint
  or digest is the identity of what it digests, which assumes that the encodings are injective;
* core `operations/parity.py` and `operations/mcp.py`: static tables of routes and tools, and the
  laws that two surfaces agree; `planning/scenarios.py`: worked examples;
* single-row reads, freshness and redaction: projections of one row;
* `deployment_program_projections.py`: passive records, of which only the three that `prepare`
  answers with are constructed outside tests;
* the extraction tooling: maintenance scripts of the repository;
* providers, gateways, workloads, the secret provider and Cloudflare: external; the modules
  say what they may do in terms of how the services use them.
