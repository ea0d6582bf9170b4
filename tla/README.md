# A TLA+ model of the Memory-PG18 platform

This directory holds TLA+ modules that model the stateful core of this
repository, the TLC configurations that check them on small instances, and TLAPS
proofs of their main safety theorems. Everything is translated from the Python
and SQL under `src/`; docs and tests serve only as statements the code can be
held against.

To reproduce: `tlc -config <run>.cfg <module>` for each run of section 3, and
`tlapm <module>.tla` for each proof module of section 5.

## 1. The system

The repository is a memory and orchestration platform over one database
(PostgreSQL, with Oracle and YashanDB dialects). All coordination is rows and
conditional updates; no component talks to another except through the database.
Two kinds of code are hard:

- *Queues and leases.* Daemons, schedulers and agents claim work under
  time-limited, fenced leases, may die or stall at any point, and come back late.
  The largest is the *Graph Runtime*, which executes a compiled graph.
- *Procedures of several transactions.* People, agents and installers approve,
  publish, contain, migrate and deploy in steps that may stop between any two, and
  that act on what an earlier step read.

| Component | State | What is hard | What makes it correct | Modules |
|---|---|---|---|---|
| Graph Runtime (`graph_runtime.py`) | Run, node runs, ready rows, attempts, lease tokens, checkpoints, joins, waits | READ COMMITTED transactions, leases lost under a live worker, controls that decide on unlocked reads | a node run commits once; fenced attempts cannot write; no work lost or queued twice; joins fire once; a Run settles | `GraphRuntime` |
| Graph Worker, Executor, Assurance | none of their own | lease checked in one transaction, used in the next; effects that may not be repeated | a write needs a live lease; recovery fences | actions of `GraphRuntime` |
| Graph Compiler | the published plan | joins, cycles, exits the runtime must be able to trust | `PlanAssumption` | `GraphPlan` (the plan, not the diagnostics) |
| Graph Governance | usage and reservations of a Run | read-modify-write of usage | usage is exact unless claims overlap | `GraphAdmission`, `GraphRuntime` |
| Graph Scheduler | scheduler lease, admission | renewal of a lost lease | a token names one scheduler | `SchedulerLease`, `GraphAdmission` |
| Graph Events | inbox, triggers, outbox, dead letters | duplicates, death between claim and mark | an event takes effect once; a message arrives a bounded number of times | `GraphEvents`, `GraphOutbox` |
| Native runtime and agents | execution queue; instances and deliveries | five statements per claim; join racing a post | attempts bounded, newest claim wins; nothing falls between fan-out and backlog | `ExecutionJobs`, `AgentGateway` |
| Embedding | managed jobs | leases that run out in the queue of their own batch | every job ends; newest claim completes | `EmbeddingJobs` |
| Memory lifecycle | versions, candidates, reviews, snapshots, jobs with items | reviews of a changed candidate; counts taken before a cancel | no edit lost; a COMPLETED job is done | `MemoryVersions`, `MemoryJobs` |
| Admin HA and management | members, terms, ballots, rollout, containment commands | rollout under elections; issue is not one transaction | one leader per term; quarantine before termination | `AdminGroup`, `AdminUpgrade`, `Containment` |
| Identity, organisation and security | barriers, change sets, tree and closure | recovery against decision; draft edits against submission | decided once; closure is the tree's; only approved changes publish | `Barriers`, `OrganizationChange` |
| Platform agent pool | commands and Action Cards | four transactions, resumable | a command runs once, as approved | `PlatformCommands` |
| Model governance | requests, reservations, ledger, replay | a call may stop anywhere; concurrent quotas | one dispatch per key; hard quotas hold | `ModelRequests` |
| Deployment and migrations | run journal, durable run row, migration journal | crash and resume; two runners | the journal tells what is there | `Deployment`, `Migration` |
| Graph Definitions (`graph_definition_api.py`, `graph_dynamic.py`) | versions, plans, provenance, proposals, aliases | compile and publish are five transactions; the executor's manifest may change between | what Runs take was compiled as validated, and reviewed | `GraphDefinitions` |
| Graph State, Evaluators, Compatibility API | snapshots, predicates | pure data or thin calls | | not modelled |
| Loops, task plans; event bus, messages, collaboration | own tables | little beyond single statements | | not modelled (section 7) |
| Knowledge, search, skills, workspaces; web and visualisation | own tables, pages | records, queries and I/O | | not modelled |

Every meeting of two actors is listed under `hazards` in `PROJECT.json`, at the
line where it bites, with the properties that watch it.

## 2. Modules

### Graph runtime

| Module | Content |
|---|---|
| `GraphPlan` | The compiled plan as a constant (`Plan[n]`: routes, exit, wait, cycle, join, side effect, attempts) and the pure decisions taken from it: `JoinReady`, `Retries`, `FailureStatus`. |
| `GraphRuntime` | One Run: all its tables, worker sessions, operator sessions and the reaper. EXTENDS `GraphPlan`. |
| `MCGraphRuntime` | Plans of one to five nodes, symmetry, and the fair specification `LiveSpec`. |
| `LeasedWork` | The abstract promise of every queue: claims counted up, and at most one winner, the newest claim. |

`run`, `nodeStatus`, `readyStatus` and `waits` are STATUS columns. A *node run*
is a pair <node key, generation>: the generation numbers the rows of one key and
`ident` holds the iteration and branch by which `_insert_ready_tx` recognises
them. `att[x][f]` is the attempt with fencing token `f` of node run `x`, joined
with its lease row: `worker`, `status`, `expired` (LEASE_EXPIRES_AT has passed) and
`revoked`. `log` is the checkpoint table in SEQ_NO order; an element says which
attempt wrote it. `out` is OUTPUT_CHECKPOINT_ID. `joins[t]` is the set of
inputs a Join recorded and whether it is COMMITTED. `ws`, `os` and `rs` are not
tables: they hold what a call has read and not yet acted on.

### Services: queues and leases

| Module | Models | State |
|---|---|---|
| `GraphEvents` | ingest, dead-letter replay, inbox claim and mark, triggers | inbox rows, Runs started, calls in flight |
| `GraphOutbox` | enqueue and mark of the outbox; the dispatcher is external | outbox rows, dispatchers |
| `GraphAdmission` | admission and budget of `claim_ready` and completion | queue, claims in flight, usage |
| `SchedulerLease` | acquire, verify, release of a scheduler group | the lease row, what each scheduler holds |
| `ExecutionJobs` | create, approve, sweep, claim, renew, complete, fail, cancel | job rows, the workers' calls |
| `EmbeddingJobs` | enqueue, batch claim, run, complete | job rows, batches, vectors |
| `MCServices` | composes them | |

### Platform: what people, agents and installers change

| Module | Models | State |
|---|---|---|
| `AgentGateway` | instances, channel posts, fan-out, backlog, claims, removal | instances, deliveries, membership |
| `MemoryVersions` | edits, candidates, reviews, activation, restriction, snapshots | versions, proposals, pins |
| `MemoryJobs` | `run_job_once`, cancel, retry | job and item rows, runners |
| `Barriers` | arrivals, decision, recovery | barrier, arrivals, recoveries in flight |
| `AdminGroup` | enrollment, weights, election, step-down | members, term, leader |
| `AdminUpgrade` | a release from its upload through quorum or automatic scheduling to rollout, Skill notices and their acknowledgement | plan, ballots, nodes, advances in flight, what each agent was sent |
| `Containment` | request, approval, issue, pull, acknowledge | commands, cards, calls in flight |
| `Deployment` | the bootstrap installer with journal and RESUME, over the schema script of the PostgreSQL package | journals, processes, target, run rows |
| `Migration` | the migration runner, per dialect: the scripts a run selects, its probes, its journal | objects, journal rows, runners |
| `PlatformCommands` | command, Action Card, decision, execution, expiry | command, card, calls, contract |
| `ModelRequests` | forward, stream, embeddings: reserve, dispatch, ledger, settle, replay | requests, reservations, ledger |
| `OrganizationChange` | draft, validate, submit, decide, publish | tree, closure, change sets, approvals |
| `GraphDefinitions` | drafts, imports, proposals, compile, publish, retire, alias, admission of a Run | versions, plans, provenance, proposals, calls in flight |
| `MCPlatform` | composes them | |

*Composition by focus.* The components of `MCServices`, and of `MCPlatform`, share
no row. One run checks all of them: `focus` is chosen initially, the component
in focus moves, the others rest in one initial state. Their behaviours are those of
each component on its own; the product, which adds nothing, is not explored. What
rests has no enabled fair step (a queue at rest is empty), so the fairness of the
others does not constrain the one in focus. Components that do share rows are one
module: claims, waits, joins and controls in `GraphRuntime`, job and items in
`MemoryJobs`, the four transactions of a command in `PlatformCommands`, barrier and
Graph Run in `Barriers`.

*Refinement.* `LeasedWork` is implemented by node runs (`NodesAreLeasedWork`), the
execution queue, embedding jobs, memory jobs and their items. Each module
gives its mapping: `claims` is the fencing token or attempt count, `winner` the claim
that succeeded. All five refinements are proved (section 5).

### Where a call is cut

The database runs READ COMMITTED. A call that reads without a lock and writes
later may write on stale data, and is two actions, its read leaving a session
record behind. Statements outside a transaction commit by themselves, and are an
action each. In `GraphRuntime`:

| Code | Actions | Between them |
|---|---|---|
| `claim_ready` | `ClaimRead`; `ClaimCommit`, `ClaimNone`, `ClaimRejected` or `ClaimOverBudget` | anything; the conditional update of the ready row is the barrier |
| every leased call | `Verify`; `HeartbeatCommit`, `CheckpointCommit`, `CompleteCommit`, `FailCommit`, `RevokeCommit` | the lease may run out or be revoked |
| `reap_expired_leases` | `ReapRead`; `ReapCommit` | a heartbeat, a completion, an answer |
| `retry_node`, `reassign_attempt`, `skip_node`, `force_route` | `RetryRead`; `RetryWrite`, and so on | anything |

`WorkerReturn`, `ReapReturn` and `OpReturn` are a call that gives up: a refusal,
a rolled-back transaction, or the death of its process. In the other modules the
header says which calls are one transaction; the rest is a program counter per caller
(`runner`, `issue`, `call`, `slowCall`, ...) that may be reset at any point.

A call whose first statement locks what it goes on to use is one action
(`pause_run`, `resume_run`, `cancel_run`, `resolve_waits`, `submit_change_set`, the
arrivals of a barrier). What follows the first lock of a cut call of the Graph
Runtime is one action as well: `_write_checkpoint_tx` and the budget update take the
Run's row, and completion reads the Run's status under that lock; the checkpoint
number has a unique constraint, so two writers cannot both append (that no number
is reused is the code's, `NextSeq`).

### Abstractions

Payloads, hashes, traces, transitions and wording are left out. Which edges a
predicate selects is a nondeterministic choice among `Plan[n].routes`; whether a
failure was uncertain or an answer reported usage is a choice of the environment.
Time is a lease, approval or command that may run out at any moment while it is
live. Priority and fair order among candidates are a choice as well, so safety
holds for every order. Approvals of an organization change are enabled, as in the
Enterprise edition.

## 3. Properties and what the runs check

| Run | Instance | Checks | Distinct states |
|---|---|---|---|
| `CommitRace` | one node, 2 workers, 1 operator (retry, reassign, cancel), 3 attempts | `TypeOK`, `CommitOnce`, `CommittedIsNotRequeued`, `OutcomeIsFinal`, `OutcomeOfRunIsFinal` | 204 000 |
| `Replay` | two nodes, 2 workers, checkpoints, revocation, cancel, 2 attempts | `ReplayIsExact`, `TablesAgreeOnAll`, `CancelFences` | 38 000 |
| `Controls` | one node, 2 workers, 1 operator, pause, resume, cancel, retry, skip, heartbeat, budget, 3 attempts, 2 node runs | `OneRunning`, `CommitIsNewest`, `QueueIsClaimable`, `NodesAreLeasedWork` | 123 000 |
| `Joins` | five nodes, a fan-out to a worker and two waits, a QUORUM Join, one deadline, lost leases | `JoinWaitsForBranches`, `JoinFiresOnce`, `RunHasReason` | 31 000 |
| `Loop` | a cycle of two nodes and an exit, forced routes | `WorkIsQueuedOnce` | 264 000 |
| `Settles` | two nodes, 2 workers, the reaper, fairness | `RunSettles` | 2 400 |
| `Services` | six components in focus, fairness | `ServicesTypeOK`, `EffectOnce`, `AdmissionHolds`, `TokenNamesOneScheduler`, `EventsFlow`, `QueueDrains`, `QueuesAreLeasedWork`, `QueuesSettle` | 68 000 |
| `Platform` | thirteen components in focus | `PlatformTypeOK`, a property of each component | 749 000 |

Each property is stated with a comment at the end of its module; a property whose
name ends in `Holds` is the conjunction of the named ones before it. Each has a
mutant in `PROJECT.json`: a plausible change of the code under which TLC finds it
violated.

### Bounds of the Graph Runtime

- *Workers*: two race; a third adds no new kind of interference, as all state of
  a call is its session and the rows, and `Symmetry` makes workers
  interchangeable. `Joins` and `Loop` use one worker and are about the order
  of branches and routes, which one worker and the reaper already permute.
- *Operators*: one session at a time in the passing runs, concurrent with workers,
  reaper and events. This is an assumption: two operator sessions that retry the same
  node break `OneRunning` as in finding 1.
- *Attempts* (`MaxFence`): three let a stalled first attempt come back after a
  second has failed and a third runs; two are one takeover.
- *Node runs per key* (`MaxGen`), *iterations* (`MaxIter`): two of each re-enter a
  node once.
- *Checkpoints* (`MaxLog`): enough for each node to commit, in `Replay` one to
  spare. A write beyond the bound does not happen; no safety property depends on
  that, and in `Settles` it is just enough for both nodes to commit.

### Bounds of the services and the platform

Two callers race in every component, one row or two are raced for, and every
counter admits one more step than the shortest interesting history: two tries or
claims (a takeover), three scheduler tokens (a takeover and a return), two terms
(a ballot of an old term), two containment commands, three versions (an edit
beside an activation), two statements in two scripts (a stop inside a script
and between scripts), two base actions (the schema script and one that can be run again), two change sets
of two rows with one approval between them (`MaxEffort` 3), two manifests and two plans of one version. `MaxOvertaken` = 1: a
call on the first change set may be overtaken, by calls on both. One agent is sent the Skill,
as no property relates two. Of two migration scripts the first has a probe, a selector and a
retry that all look for one of its two statements, so that each can be taken in by half a script;
the second, the terminal one, is never left out and always passes, as the scripts
the code does not list. The proofs hold for any probes and selectors.
`GraphAdmission` begins with an empty queue (at rest) or a full one, of three tasks
under a concurrency limit of one. In `AgentGateway` one instance and one post suffice, as
the property is about one pair of them.

In `MCPlatform` callers are interchangeable, and so are two nodes, two
optional seats and two Admin Agents other than the platform's (`Alike`); a set from
which a definition takes one element by CHOOSE is not among them. `MCServices` has
liveness properties and no symmetry.

CHECK_DEADLOCK FALSE in every configuration: a Run that has ended, an empty queue,
a closed deployment do stop.

### Fairness

`Settles` uses `LiveSpec`. One worker (`Good`) keeps polling and completes what it
claims, the reaper is run repeatedly (`recover_runtime`, called whenever a
runtime is replaced), leases run out by themselves. Other workers have no fairness:
they may claim and stall for good. Strong fairness is asked of `ClaimCommit`,
`Verify`, `CompleteCommit` and `ReapCommit`, as each can be disabled for a while by a
competing session and the caller calls again. `LastFenceIsGood` says that the
last attempt inside the bound belongs to the good worker and keeps its lease; it
stands for "leases are lost finitely often", without which no lease protocol
terminates. A paused Run is not RUNNING and owes nothing.

`ServicesSpec` gives each daemon the fairness of its loop:

- `EventFairness`, `OutboxFairness`: a caller that lives goes on with its call (WF);
  consumers and dispatchers poll every row that stays claimable (SF, since others
  may take the row for a while). A process may die at any point; a row whose
  holder died is excepted (`lost`, `disturbed`), because no code reclaims it.
- `AdmissionFairness`: claimers keep claiming and complete; a claim that loses its
  transaction is tried again (SF).
- `JobsFairness`, `EmbeddingFairness`: time passes, so that leases lapse; workers
  poll and finish what they hold (WF). Dying stays possible without limit except by
  the bound on attempts.

### Restrictions under which a passing property holds

Each is a restriction of a run, and the excluded behaviour is in the model:

- `OneRunning`, `CommitIsNewest`, `NodesAreLeasedWork`: without reassignment, and with
  retry in at most one operator session (`OneDecides`).
- `CancelFences`: without retry. `retry_node` does not look at the Run, so it queues
  a node of a cancelled Run again, and a claim that read its candidates before
  the cancel starts an attempt.
- `QueueIsClaimable`: without rejections by a claim. A rejection (past deadline, no
  executor, invalid input) updates ready and node row under separate conditions;
  when a pause moved the ready row meanwhile only the node goes to review, and
  resume queues a row no claim can take.
- `ReplayIsExact`: without skips. `skip_node` overwrites the output checkpoint of
  a node that completed after it was read.
- `JoinWaitsForBranches`: without skip and force, which feed a Join from a node that
  was never executed; both are an operator's explicit decision.
- `RunHasReason`: without pause (a completion during a pause is not routed).
- Some properties name the race under which they do not hold in a history variable:
  `raced` (two claims over one budget; two installers whose base plans overlap, since the schema
  script is one step), `crossed` (an acquire over a
  row it has not read), `snatched` (a consumer takes a delivery under way),
  `collided` (two containment calls), `overtaken` (two advances of a rollout), `unseen`
  and `planRaced` (a publication that overlaps an import, a proposal or a compile). These
  take hazards, or halves of them, out of a passing property: a lost increment of the budget, a
  renewal that writes an older token back, two drains that open together. Each is in the
  model and noted at its hazard. The property is claimed for every history without it, and where the damage is
  bounded the bound is claimed for all (`ConcurrencyBounded`, `UsageIsExact`).

`CommitOnce`, `CommittedIsNotRequeued`, `OutcomeIsFinal`, `OutcomeOfRunIsFinal` and
`TablesAgreeOnAll` need no restriction: the proofs cover every control. Section 5 gives
each restriction as the hypothesis of a theorem.

## 4. Where the code departs from what the repository says

Each is a run whose single property states a sentence of a doc, comment or
check of the repository, and which TLC refutes.

1. `DoubleAttempt` / `OneRunning`. `reassign_attempt` ignores how many rows its
   guarded update changed and releases node and ready row anyway: a second
   attempt starts beside a running one. `invariant_scan` calls this
   "conflicting_current_attempts".
2. `UnsafeReplay` / `NonIdempotentNotReplayed`. The reaper re-queues a
   NON_IDEMPOTENT node; docs/recovery.md says such an effect "must not be
   silently replayed".
3. `EndedRun` / `TerminalRunIsIdle`. The first exit node ends the Run while sibling
   branches are active: "terminal_run_active_nodes" of `invariant_scan`.
4. `QuarantinedPin` / `QuarantineReachesPins`. `quarantine_family` adds a QUARANTINED successor
   and leaves the version it is about SUPERSEDED. `resolve_snapshot` looks at the pinned version's
   state, so a snapshot taken before goes on serving the suspected body;
   docs/memory-lifecycle.md:62-63 says that resolution fails closed "even when they were pinned".

### Further behaviours

Seen while modelling; in the model unless marked *(read)*, and singled out by no run.

Graph Runtime:
- A late branch of a committed ANY Join activates its target again, and the unique
  key of GRAPH_NODE_RUNS rolls its completion back; the comment says late branches
  "are still traced" (graph_runtime.py:1327).
- A worker checkpoint is written in a transaction after the one that verified the
  lease (graph_worker.py:43); docs/recovery.md:80-81 asks to reject late checkpoint
  writes.
- A completion during a pause is not routed, and resume does not make up for it
  (graph_runtime.py:1501); docs/api-reference.md:999 says "safe barrier".
- A Join into a wait: the first branches of an ANY or QUORUM Join open the wait, and when it is
  answered before a late branch commits, that branch finds the wait there, opens none and still
  sets the Run to WAITING (graph_runtime.py:1345-1358), which nothing answers any more. `RunAlwaysHasReason`
  therefore asks that no wait is a Join.
- `force_route` without a checkpoint to write holds no lock of the Run while it reads
  and writes INPUTS_JSON of a Join (graph_runtime.py:1188). `Activate` treats that
  as one step *(read)*.
- Cancel and pause lock the Run before the ready rows, a claim the ready row before
  the Run (graph_runtime.py:1716). PostgreSQL aborts one of two that deadlock, which
  is a call that returns without effect *(read)*.
- Two retries of one node; a wait answered between the reaper's read and write, where
  the Run fails although the answer won; an attempt whose heartbeat came between the
  reaper's read and write, which is fenced; resume releasing rows that wait for an
  event; a forced route into a node whose wait is already answered.
- Overlapping claims exceed a hard budget, each by what the others reserved
  (graph_runtime.py:1012).

Services:
- A row claimed by a process that dies stays PROCESSING or DISPATCHING; nothing
  reclaims it. A message whose caller allows fewer attempts than its row stays PENDING.
- An execution job that was cancelled while RUNNING, or whose worker died at its last
  attempt, stays RUNNING.
- The vector write of an embedding job is not fenced (embedding_governance.py:1233);
  a worker that lost its lease overwrites the vector of the newer one with the content
  it had read.

Platform:
- A delivery claimed at MAX_ATTEMPTS stays CLAIMED; an instance whose lease lapsed
  gets no deliveries and is not told.
- An activation that dies leaves its candidate ACTIVATING. A late review can set an
  ACTIVATED candidate back to APPROVED. An activation whose successor was made and whose
  last write failed hands the candidate back as APPROVED (memory_lifecycle.py:1010).
- Restoring a barrier checkpoint sets the Graph Run to WAITING, also one whose work goes on
  or that waits for nothing (identity_api.py:4531). SUBSTITUTE is written to
  POLICY_JSON alone, which no arrival reads, and `evaluate_barrier` has no caller.
- A confirmed command may still expire before it is executed (platform_agent_pool.py:835).
  `retire_node` looks for 'PENDING' where check-in rows are 'PENDING_CHECKIN'
  (platform_agent_pool.py:947-992) *(read)*.
- The members of the group get ids of their own (`_id("AAM")`, admin_management.py:171 and 409),
  ballots are cast under agent ids, and `quorum` (admin_ha.py:56) looks members up by the former: no
  ballot counts, and no rollout leaves HUMAN_APPROVAL but one scheduled by its upload
  (`ForeignIdsNeverApprove`). `Platform` uses equal ids, so that the quorum is exercised.
- Members who leave never leave the voters of a rollout, so a quorum can be out of
  reach; two advances that open together drain two nodes at once. An isolated agent
  cannot acknowledge the command that isolates it (docs/security.md:108).
- `auto_schedule_upgrade`, at the end of every upload of a signed package, sends the Skill to all
  active agents before the first node drains (admin_management.py:850-867), and an agent that
  verifies it may switch at once; docs/migration.md:247-251 has "serialized node
  drain/migration/health acknowledgement, then signed Skill distribution". docs/api-reference.md:117
  says that the upload creates the distribution plan. `SkillsAfterNodes` is therefore about
  rollouts that were not scheduled by their upload; that a scheduled one is signed is in `RolloutIsApproved`.
- On Oracle and YashanDB a script that failed after it made the tables and columns a selector looks
  for is left out of the next run (migration_runner.py:1416-1516, 1692-1711); one whose probe
  passes is adopted when its older checksum is known (2007-2063), and script 56 also after a FAILED or
  unfinished row (2069-2087). `_step_objects_complete` sees tables and columns of listed scripts and passes
  every other (1386). The terminal row then becomes APPLIED over a chain with statements missing. The
  postflight asks for that row and for no FAILED one: it refuses for good what failed and was left
  out, and accepts what was killed, whose row says RUNNING.
  `JournalHolds` says that these are the only ways, and for which scripts.
- RESUME of an initialization takes the base plan as done only when the durable row says
  NATIVE_HANDOFF (deployment_orchestrator.py:1078). One that stopped earlier, or that had reached
  COMPLETED and did not retire, runs deploy/1_schema.sql over the installed schema. The script commits statement by
  statement (deploy_pg.py:171-191): policies, foreign keys, indexes and triggers are
  dropped, and at a primary key that a foreign key or a partition depends on (1_schema.sql:180-186) it stops with a
  DeploymentError, before its first DROP TABLE (229). The rows survive; the run can never get past its base plan. An upgrade
  run may complete over the torn schema, as the postflight does not look at what is missing. docs/deployment.md:171
  offers resume "through the deployment journal", and docs/recovery.md:28-33 says that a resumed
  deployment verifies "prior evidence, and retry classification before continuing".
- Two migration runners on one database can turn an APPLIED row back to RUNNING or
  FAILED. Nothing keeps two installers apart; `plan_digest` is stored and never compared
  on RESUME; a stop during hand-off loses the recovery boundary.
- A model stream that its client closes, or a secret that cannot be read, leaves the
  request DISPATCHED and its reservations RESERVED: `stream_forward` catches `Exception`
  only, and `expire_quota_reservations` (model_governance_api.py:255) has no caller,
  though docs/model-usage-and-wallboard.md says that abandoned reservations expire. A
  late error overwrites SUCCEEDED with FAILED.
- Append, undo and redo check the status of a change set in one statement and write in
  another, so a validated, submitted or published change set can still get an operation
  (organization_api.py:809; docs/organization-governance.md:47 says "Submission freezes
  the validated draft"). An append after an undo fails on the unique sequence number.
- `_publish_change` revokes web sessions in its loop over agents with the principal
  left over from the loop before (organization_api.py:1529): only the last affected
  principal's, only if agents are affected, and with affected agents but no affected
  principal the publication always fails. Sessions are still refused by their
  permission version.
- An untrusted import is published if its publication reads before the second transaction of
  the import has recorded its provenance, or if the import died between the two
  (graph_definition_api.py:697); docs/graph-engineering.md:166 says it "cannot be published".
  So is a risky dynamic Draft before its proposal is recorded (graph_dynamic.py:218).
- `publishable` marks an approved proposal APPROVED before the version is updated; a death
  in between leaves a version no later call accepts (graph_dynamic.py:230).
- A version validated under a manifest that was replaced before its plan was stored cannot be
  compiled again: the digest is written to a Draft only (graph_definition_api.py:774), and
  no caller takes a version back to DRAFT.
- A compile that passed its check replaces the plan of a version published meanwhile
  (graph_definition_api.py:801): a Run admitted with the old PLAN_ID has no plan. An alias may
  come to name an archived version, and `compile_and_publish` reports `published` also
  when its update changed no row (graph_compiler.py:819).
- `loop_api.fail_run`, TIMEOUT and `record_iteration` update LOOP_RUNS without looking
  at its status; `event_bus.get_pending_events` returns nothing before the first ACK and
  compares times, not ids *(read)*.

## 5. What is proved

For every value of the constants under the named assumptions of the modules:

| Module | Theorems | Of what the runs check |
|---|---|---|
| `GraphRuntimeProofs` | `TypeCorrect`, `TablesAlwaysAgree`, `CommittedOnce`, `CommittedStaysDone`, `AttemptOutcomeIsFinal`, `RunOutcomeIsFinal`, for every control | `TypeOK`, `TablesAgreeOnAll`, `CommitOnce`, `CommittedIsNotRequeued`, `OutcomeIsFinal`, `OutcomeOfRunIsFinal` |
| | `OneAttemptAtATime`, `NewestCommits`, `QueueCanBeClaimed`, `NodesImplementLeasedWork`, under `OneDecides` | `OneRunning`, `CommitIsNewest`, `QueueIsClaimable`, `NodesAreLeasedWork` |
| | `QueuedOnce`, `JoinEnteredOnce`, `CancelFencesAll`, without retry; `ReplaysAreExact`, without skip | `WorkIsQueuedOnce`, `CancelFences`, `ReplayIsExact` |
| | `JoinsWait`, `JoinsFireOnce`, of compiled Joins; `RunAlwaysHasReason`, of compiled plans without cycles | `JoinWaitsForBranches`, `JoinFiresOnce`, `RunHasReason` |
| `ServicesProofs` | `EventsTakeEffectOnce`, `OutboxDeliversInBounds`, `AdmissionIsBounded`, `LeaseTypes`, `TokensNameOneScheduler`, `OnlyNewestAccepted`, `JobTypes`, `TriesAndWinner`, `NothingAfterCancel`, `JobsRefineLeasedWork`, `EmbeddingsRefineLeasedWork`; of all together `EachServiceRuns`, `ServicesKeepTypes`, `ServicesHold`, `QueuesImplementLeasedWork` | `EffectOnce`, `AdmissionHolds`, `TokenNamesOneScheduler`, `ServicesTypeOK`, `QueuesAreLeasedWork` |
| `MemoryProofs` | `CompletedJobsAreDone`, `JobAndItemsAreLeasedWork`, `VersionsAreKept`, `MemoryJobTypes` | `CompletedJobIsDone`, `MemoryIsLeasedWork`, `VersionsHold` |
| `AdministrationProofs` | `BarrierIsDecidedOnce`, `RolloutStaysGoverned`, `RolloutTypes`, `ForeignIdsNeverApprove`, `CommandsRunOnceAsApproved`, `LeadershipIsSound` | `BarrierHolds`, `RolloutIsGoverned`, `RunsOnceAsApproved`, `LeadershipHolds` |
| `AgentProofs` | `ContainmentKeepsItsOrder`, `GatewayServesMembers` | `ContainmentHolds`, `GatewayHolds` |
| `DeploymentProofs` | `JournalTellsWhatIsThere`, `DeploymentsEndWell` | `JournalHolds`, `DeploymentHolds` |
| `GovernanceProofs` | `ModelCallsAreGoverned`, `OrganizationIsGoverned`, `OrganizationTypesHold`, `DefinitionsKeepTheirWord` | `ModelCallsHold`, `OrganizationHolds`, `DefinitionsHold` |
| `PlatformProofs` | `EachPartRuns`, `PlatformKeepsTypes`, `PlatformHolds`, `PlatformRollsOutGoverned` | `PlatformTypeOK`, and every safety property of the parts again, of their composition |

The hypotheses of a theorem are those of the run that checks its property
(section 3): `Controls` satisfies `OneDecides` and has no rejections, `Loop` and `Replay`
have neither retry nor skip, and `Joins` satisfies all that `JoinsFireOnce` and
`RunAlwaysHasReason` ask for. A theorem of a component names the component's
specification, and that the compositions of section 2 add nothing to it is itself proved:
`EachServiceRuns` and `EachPartRuns` show that a behaviour of the composition is, of every
component, a behaviour of that component; `ServicesHold` and `PlatformHolds` draw the conclusion.

### Graph Runtime

*What a step does to one row.* The proofs about the runtime turn on `Fate(y)`: whatever the
action, a step does to the tables of one node run `y` one of a dozen things (claims it,
commits it, releases it, closes it, ...) or nothing. `StepFate` is proved once, action by action; an
invariant about one row is then proved fate by fate.

*One commit.* `CommitOnce` alone is not inductive: to know that a completion does not
commit a second attempt one must know that no attempt of a node run in status RUNNING
has succeeded. `TablesAgree(x)` carries this through the tables. A RUNNING node run has a
CLAIMED ready row; a succeeded attempt has left a DONE row; so a node run that is RUNNING
has no succeeded attempt, and `CompleteCommit`, which needs node status RUNNING, commits
the first.

*One attempt.* `OneRunning` needs more: `HoldsRow` says that the row of a RUNNING attempt
is CLAIMED, or DONE after a skip, so that no claim can take it, and that no fence above a
RUNNING or SUCCEEDED attempt was handed out. Two RUNNING attempts would each be above
the other. A reassignment releases a row whose attempt runs. A retry does not, if what it
read still holds when it writes (`RetryIsDue`), which no worker, reaper or other
control can change and only a second retry does. `OneDecides` says just that: no
reassignment, and with retry at most one operator session. From the same invariant
follow the refinement, where `claims` is the highest fence, and that no row of the queue
makes `claim_ready` raise.

*Queue, cancel, replay.* `QueuedOnce`: two node runs of one key with the same iteration and
branch are never both live, since `_insert_ready_tx` looks for a live one under the
lock of the Run and only a retry makes one live again. `CancelFencesAll`: a claim that read its
candidates before the cancel finds none of them claimable, as the cancel moved every row it
can have read; `ReplaysAreExact`: the output of a committed row names a checkpoint its
attempt wrote, and the log only grows.

*Joins.* `JoinsWait` rests on `JoinCountsCommits`: a source recorded by a Join has committed. With
`JoinsAreCompiled` (an ALL Join expects as many branches as have an edge to it; the
Entry is no Join) the count of recorded sources is a count of commits. `JoinsFireOnce` asks for more:
every commit routes to all targets, every Join can be satisfied by its sources, and neither
a control nor a rejection takes a branch away; then every source that has committed is recorded until
the Join commits (`AllBranchesCount`), so the last to commit enters the target.

*A reason to go on.* `RunHasReason` speaks of the Run's status and asks for something about rows.
Its invariant, `OpenRunFlows`, says that while the Run is open every row is in step with its node
run, each node is entered at most once (`NodesEnteredOnce`), each target of a committed node is
entered unless it is a Join still short of branches, and a WAITING Run has an open wait.
A RUNNING Run without live work would have committed all it entered. Among the nodes it never entered, one has
no such node before it: all its sources committed, a plain node would have been entered by
its source and a Join by the last branch, which it counts (`AllBranchesCount`). So there is no such node,
the exit was entered and has committed, and the Run is not RUNNING (`WorkRemains`). `PlanFlows` asks
of the plan what the compiler enforces, that only the entry has no incoming edge
(graph_compiler.py:700) and that two edges into one node share a join key (671), and two things
it does not: no cycles, and that a wait is no Join (section 4).

### The other components

One pattern runs through them. What a call read earlier may be old when it acts, so the
invariant says what is still true of an old reading:

- `LeaseInv`: every grant's token is at most the row's, and the newest is the holder's.
- `EventsInv`: at most one call works on the row of an event, in the status that call left
  the row in; once the effect has happened nobody is left who could repeat it.
- `OutboxInv`: what arrived and what is still carried never exceed the sends counted.
- `AdmissionInv`: claims in flight and active tasks are bounded together.
- `JobsInv`: the token of a call is a count the row had, and a job only waits while
  attempts are left; hence the taking update needs no look at the count, and a failure
  decided on an old read is refused by its token.
- `EmbInv`: what a batch says of its jobs is their token at its claim. The bound on claims is the
  hard part, as a batch goes on after its leases ran out: `TroublePays` counts the claims
  beyond the first, and the jobs that a doomed batch exposes to a second claim, against the crashes
  and overruns so far, one for each doomed worker.
- `MemoryJobInv`: an item is CANCELLED only while its job is, so a count of nothing left
  in a running job has seen every item COMPLETED; a count taken before a cancel is worth
  nothing, as the job runs again only under a new fence.
- `VersionsInv`: the version a candidate replaces is fixed when it is proposed; of the claims that
  may activate it, at most one is past the check that none has been made.
- `BarrierInv`: a reading is never that of a decided barrier; it is compared with the row
  before it is written, so nothing decided is opened again.
- `UpgradeInv`: how far a plan has come says what was decided on it, as approvals are never
  taken back and an edited plan starts over; an advance in flight still sees what it saw, as long
  as no other overtook it.
- `GroupInv`: every change of a weight, a membership or the leader ends in the check of the
  weights and in the current term.
- `CommandInv`: a card is written once, by the call that wrote the command, and a decision
  is final; so what a later transaction knows of both still holds.
- `ContainmentInv`: commands are never removed and keep state, generation and signers.
- `GatewayInv`: a message an instance does not have yet is still to be listed, on the fan-out's
  list, or on the backlog or about to be read for it; an instance that a removal of its agent
  did not find is on no list and was sent nothing.
- `MigrationInv`: objects are only added, so what a runner has made, a probe has passed or a
  selector has found stays so; the scripts before a runner's own are executed, vouched for or found.
- `DeploymentInv`: a run is as far as its journal, its row and its agent say, and the target only
  gains: what a run has seen to be there another one cannot take away, except that a schema is torn. Behind every
  torn schema stands a run that cannot leave its base plan (`TornByStuckRun`).
- `CallsInv`: a request names one call for its key, a reservation is made under the lock of its
  policies, which one call holds, and an answer is charged before it is reported.
- `OrganizationInv`: the closure is that of the tree, the tree has no cycle and no missing parent, what a
  slow call read is of the change set it writes to, and a decided request keeps its decision.
- `DefinitionsInv`: step by step of a call, what of its reading still holds when it writes: a version
  about to be published has its plan and its clearances, one about to be named or run was
  published, and no two calls record where the same version comes from.

- `UpgradeTypes`, `OrganizationTypes`: what the types need beyond themselves. An advance under way is of a
  node that has a next state; a draft is based on a version that was published, and a
  publication names a request that was made.

*The composition.* A step of the platform is a step of the part in focus and leaves the others
unchanged, so it is of every part a step or a stutter. `EachPartRuns` proves that from the definition of
`PlatformNext`, with no invariant. `PlatformKeepsTypes` puts the types together, and `PlatformHolds` cites one
theorem per part.

`RolloutStaysGoverned` assumes `MembersHaveIds`: the group knows its voters by the ids the
ballots carry, or by ids that no agent has. The second is what the code does, and
`ForeignIdsNeverApprove` says what follows (section 4).

*Sums and counts.* What is counted over a set (weights, quotas, exposed jobs) is a fold or a
Cardinality; the facts needed of them, that one element adds its share and that a sum grows with its
terms, are lemmas proved from the definition of the fold or from the finite-set theorems.

*Assumptions.* Besides the types of bounds the proofs use that the sets of members, units, callers and workers
that are counted are finite, and that a tree starts without cycle (`FirstTreeAssumption`), as the
installation creates it. TLC evaluates all of them in the runs.

### Only model-checked

- Everything under fairness: `RunSettles`, `QueueDrains`, `QueuesSettle`, and of `EventsFlow` that events and
  messages settle. Liveness and ENABLED are outside the prover.
- The four properties that a run refutes (section 4).

## 6. Plan

Done: the Graph Runtime; `LeasedWork` and its five refinements; the services; the
platform; eight proof modules, in which every safety property of a passing run is a
theorem. Next, in this order:

1. `RunAlwaysHasReason` for plans with cycles and for failing nodes, whose Run ends in FAILED.
2. The split read and write of INPUTS_JSON under forced routes; joins in cycles.
3. The state of a Run under `migrate_run`; loops and task plans.

## 7. Not modelled

Forks, migrations of Runs, artifacts, key rotation and encryption of state, reducers,
evaluators and predicates (pure functions on payloads, whose outcome is a choice here);
loops, task plans, the event bus, messages and collaboration (single statements on own
tables); the web application, visualisation and provisioning of hosts (I/O); login,
enrolment and offboarding; compliance, tariffs, wallboards, knowledge, search, skills and
workspaces (records and queries in single transactions). `PROJECT.json` lists each with its
sources. Row locks are not modelled, only what they serialise.
