# Verification of the Forge control plane and its workers

This directory holds TLA+ models of the stateful parts of the repository (a control
plane that installs packages into editor scope files, the asynchronous outbox behind it,
a runtime daemon, the security governance, the catalog and its retrieval sync), the TLC
configurations that check them, and TLAPS proofs about the outbox, the install
lifecycle, profile installation, the scope file, event ingestion, the daemon's
supervisor, the security reports with their trust gates, and the catalog with its sync.
Paths below are relative to the repository root.

## 1. The system

| Component | Where | State it keeps | Operations | Talks to |
|---|---|---|---|---|
| Event ingestion | `apps/control-plane/src/index.ts`, `postgres-adapters.ts` | `raw_events`, `event_flags`, `ingestion_idempotency_records`, `ingestion_outbox` | `POST /v1/events` | inserts outbox rows |
| Install lifecycle | `apps/control-plane/src/install-lifecycle.ts` | `install_plans`, `install_plan_actions`, `install_apply_attempts`, `install_verify_attempts`, idempotency records | create, apply, update, remove, rollback, verify, get | scope files through the adapter, runtime daemon, outbox, profiles |
| Copilot adapter | `apps/copilot-vscode-adapter/src/index.ts` | one JSON file per scope, an in-process lock per scope | `write_entry`, `remove_entry`, `read_entries`, discovery | called by the lifecycle |
| Transactional outbox | `packages/security-governance/src/jobs.ts`, `postgres-job-store.ts`, `outbox-dispatcher.ts`, `internal-outbox-dispatch-handlers.ts`, `dead-letter-requeue.ts`, `scripts/run-outbox-*.mjs` | `ingestion_outbox`, `outbox_internal_dispatch_effects`, `outbox_internal_dispatch_runs`, `outbox_dead_letter_replay_audit` | claim, dispatch, complete, fail, release, requeue | producers above; endpoint or internal handlers |
| Profiles | `apps/control-plane/src/profile-routes.ts`, `profile-postgres-adapters.ts` | profiles, their packages, install runs with an item per package | create, export, import, install | drives the lifecycle, package after package |
| Runtime daemon | `apps/runtime-daemon/src` | registry of child processes, scope sidecars, token cache | start, verify, stop, status, shutdown | policy engine, remote servers |
| Security governance | `packages/security-governance/src/index.ts`, `postgres-adapters.ts`, `slo-rollup.ts` | enforcement actions and projections, reporter nonces, rollout and promotion state | signed report ingestion, projection, promotion, trust gates | policy engine reads the projection |
| Policy engine | `packages/policy-engine/src/index.ts` | none | `evaluatePolicyPreflight` | called by lifecycle and daemon |
| Shared contracts | `packages/shared-contracts/src` | none | dependency resolution, identity, merge precedence, event validation | everybody |
| Catalog | `packages/catalog/src`, `scripts/run-catalog-*.mjs` | packages, aliases, lineage, freshness and reconciliation rows | ingest of source batches, reconciliation with retries, identity promotion | read by search and sync |
| Retrieval sync | `packages/ranking/src/retrieval-sync.ts`, `scripts/run-retrieval-sync.mjs` | document fingerprints, the semantic index | sync by cursor or by package | catalog, index, called by the outbox |
| Ranking, retrieval | rest of `packages/ranking/src` | none | fusion, scoring, search | external services |
| HTTP layer, flags, start-up, CLI, scripts | rest of `apps/`, `scripts/` | configuration | routing, parsing, formatting | |

The parts meet in three places. PostgreSQL is the only thing that survives a process,
and most multi-step operations are sequences of separate statements, so what another
process sees in between, and what a crash leaves, is part of the behaviour. The scope
files are outside the database and outside its transactions. The outbox decouples
producers from handlers, which may therefore run late, twice or never.

What is hard here, and what the properties are for (`PROJECT.json` lists each hazard at
its line):

* check-then-act over several statements (idempotency records, attempt numbers, plan
  status, effect rows) while other requests run;
* a crash or a failing statement between two of them, a statement that was applied
  although its answer was an error included;
* the retry budget, and claims nobody gives back;
* state read in one statement and folded or overwritten in a later one (the enforcement
  projection, the rollout row, the semantic index);
* rules written twice, by the planner and by the runtime, over state that changes
  between the two;
* files changed inside transactions that cannot undo them;
* locks (row locks, a chain of promises) that somebody might never give back.

## 2. Modules

| Module | Models | Uses |
|---|---|---|
| `Outbox` | the outbox, its processor runs, dispatchers and requeues | `OutboxQueue` (refinement) |
| `OutboxQueue` | what the outbox table promises: an abstract queue | |
| `OutboxProofs` | theorems about `Outbox`, and that it implements `OutboxQueue` | `Outbox`, TLAPS |
| `InstallLifecycle` | one plan and concurrent lifecycle requests | |
| `InstallProofs` | theorems about `InstallLifecycle` and `InstallPlanning` | both, TLAPS |
| `InstallPlanning` | how a plan is made, and what a verification says of it | the next three |
| `DependencyGraph` | the edges of a request as operators | |
| `PolicyPreflight` | the policy decision as operators | |
| `RuntimePipeline` | the daemon's gates before a launch as operators | |
| `ProfileInstall` | the installation of a profile over the lifecycle | `PolicyPreflight` |
| `ProfileInstallProofs` | theorems about `ProfileInstall` | `ProfileInstall`, TLAPS |
| `ScopeFile` | one scope file and the adapter's writes and removals | |
| `ScopeFileProofs` | theorems about `ScopeFile` | `ScopeFile`, TLAPS |
| `EventIngestion` | `POST /v1/events` | |
| `EventIngestionProofs` | theorems about `EventIngestion` | `EventIngestion`, TLAPS |
| `TrustGates` | evaluations of the trust gates and the rollout row | |
| `SecurityReports` | signed reports, the projection, permanent blocks | composes `TrustGates` |
| `SecurityReportsProofs` | theorems about `SecurityReports` and `TrustGates` | `SecurityReports`, TLAPS |
| `CatalogSources`, `PackageMerge` | connectors, identity and merge of a batch as operators | |
| `Catalog` | the catalog's writers | `PackageMerge` |
| `CatalogSync` | the retrieval sync while the catalog changes | composes `Catalog` |
| `CatalogSyncProofs` | theorems about `Catalog` and `CatalogSync` | `CatalogSync`, TLAPS |
| `RuntimeDaemon` | supervised processes, their registry, stop and shutdown | |
| `RuntimeDaemonProofs` | theorems about `RuntimeDaemon` | `RuntimeDaemon`, TLAPS |
| `MC*` | instances for TLC: small sets, symmetry | the module they are named after |

In every module one action is what happens between two awaits that somebody else can
observe. Definitions marked as mutants are plausible bugs in the definition below them;
no specification uses them. `PROJECT.json` names, for every property, the one that it
catches.

### Outbox

`row` is the table (status, attempts, and whether `available_at` has passed); `run[r]`
is a processor process with its point in the loop of `createOutboxProcessorJob.run`, its
mode and the jobs it has claimed; `effects`, `ledger`, `synced` and `delivered` are what
the dispatchers have done. `Claim` is the claiming statement of `claimPending` with its
order and limit, `TakeJob` and `CheckProcessed` the head of the loop, the `Dispatch*`,
`CheckEffect`, `SyncRanking`, `Persist*` actions the two dispatchers, `Mark*` and
`ReleaseClaim` the outcome, `Requeue` the operator's transaction. Every statement on the
tables may fail, applied or not, and `Crash` kills a process at any await. An exception
outside the `try` of the loop ends the process (`Abort`), as in the code. `tries` is
history. Time is one bit per row: the retry time is computed from the start of the run,
so a failed row may be due at once or later.

`OutboxQueue` says what a user of the table relies on: put once, taken by one worker at
a time, done only when handled and then for good, dead until an audited revival.
`QueueSpec` is the refinement; it holds until a statement fails (`broken`), because then
a completed row can be reopened (section 3, divergences).

### InstallLifecycle

One plan with `NumScopes` write actions. `req[r]` is a request at a point of its
handler: `Begin` looks up the key, `LoadPlan` checks the status, `ResolveSource` and
`CheckReferences` are what rollback and remove read before their transaction,
`ResolveAttemptNumber` reads MAX + 1, `TouchFile` and `UpdateActionRow` alternate over
the scopes inside the transaction, `Commit` is everything that becomes visible at
COMMIT, with the unique constraint on attempt numbers; `Publish` and `Store` follow. The
row lock that the first UPDATE of an action row takes is `lock`; all action rows of a
plan are updated in one order, so one lock stands for them. `Abandon` cuts a request off
anywhere. A replayed or refused key changes nothing and is not begun. `blocked` is the
plan's policy outcome. A plan's creation is the initial state here and
`InstallPlanning`'s subject.

### InstallPlanning

`createPlan` and the runtime's side of `verifyPlan` as one client sees them, in pieces
that the code runs in this order: `Ask` (policy and discovery), `Resolve` (the edges),
`Sort` (one turn of Kahn's loop in `topologicalSort`, with its in-degrees and its
queue), `Sorted`, `MakePlan` (actions and conflicts), `Verify`. Packages are numbers in
the order of their ids; a permission is a name and a spelling, since the planner trims
and lowercases before it compares and the policy engine does not; a scope is absent,
daemon-owned or foreign, since discovery reports every scope that is there as writable
and approved. `Edit` is a user's file appearing or vanishing in between. Keys, rows and
statuses of plans belong to `ProfileInstall` and `InstallLifecycle`.

### ProfileInstall

`installProfile` with what it drives: for every required package, in the profile's
order, create, apply and verify under keys derived from the correlation id, the row of
the run, then the closing update with the counts. The catch block, its own failing
statement and cut-offs are steps; plans are made under the policy and the enforcement
state of their moment, which may change afterwards.

### ScopeFile

One scope file with two kinds of operation. `Begin` is the discovery by the caller,
`Enter` the queue of `withScopeLock`, `Read` the read and ownership check under the
lock, `Backup`, `WriteTemp`, `Rename`, `DropBackup`, `Recover` are
`writeFileAtomically`. Any file operation may fail, the user may edit the file, and the
process may be killed. `acked` is history: the set of entries the answers so far
promise. Operations outside the lock (`read_entries`) are readers and appear as "at
every instant" in the invariants.

### EventIngestion

`req[r]` goes through `lookup`, `append`, `evaluate`, `put`, `fraud`, `ranking`: a
statement each. Events are given by their id, key and request hash; the hash leaves the
payload out, as in the code. `Abandon` cuts a request off anywhere.

### TrustGates and SecurityReports

`eval[v]` is an evaluation between its statements: the metrics snapshot, the rollout
row, the recent decisions, the decision, the row. Two may overlap, share a window or a
run id, or die. `passes` is history: the number of evaluations on record in which both
rates passed, several of one window or under one run id counted each, as the code counts
them (section 3).
`SecurityReports` adds the submission of signed reports (`job[d]`, a chain of
statements: nonce lookup and insert, rollout row, report, action, list, projection, two
announcements), the fold of the actions (`Project`), and the promotion to a permanent
block with the SQL function's conditions. One package stands for all: packages share the
nonces and nothing else. A request stands for its nonce, a delivery for a retry or a
copy.

### Catalog and CatalogSync

`CatalogSources` turns what the connectors read into candidates, `PackageMerge` a batch
into a package, its aliases and the merged field, or a conflict; both are operators. In
`Catalog`, `job[j]` is one of the two scripts: transactions take row locks statement by
statement and are applied at commit; a reconciliation retries, may lose the answer of a
commit, and records its outcome. `CatalogSync` adds runs of the sync: list a batch, read
its fingerprints, write documents to the index, store fingerprints row by row, move the
cursor. Abstractions: one merged field (`name`) stands for all; aliases stay active;
text is numbers in its order; a locator that cannot be parsed and an ingest that throws
are both a failing attempt; a PUT in flight when a run is killed is applied or not at
that moment.

### RuntimeDaemon

`run[r]` is a start or verify request at a point of `supervise` (`launch`, `register`,
`health`, `wait`, `backoff`) with the process of its attempt; `registry` is the map of
`createProcessRegistry`. `Launch` is `spawn` and its failures, `Register` the `spawn`
event, `HealthCheck` the answer to `initialize`, the exit or the timeout, `Exit` the
exit event with its listener, `Exited` and `Backoff` the rest of the loop, `Stop` the
endpoint, `Close` and `Leave` the two halves of the shutdown. `Disconnect` is the client
giving up: the run goes on, and only a connected client keeps the server from closing.
When the daemon leaves, processes that are alive stay (`Leave` keeps `child`): the
design's wait and SIGKILL are not in the code. `crowded` is history.

## 3. What is checked

| Run | Instance | Shows |
|---|---|---|
| `outbox_safety` | 2 jobs (ranking, unsupported), 2 runs in any mode, both dispatchers, 2 attempts, batch of 2, one probe, fault, crash, requeue | claims are exclusive, the retry budget holds, completion follows the effect, a sync never follows its effect row, the table implements `OutboxQueue` (which says that completed jobs stay so until a statement fails, and dead letters are left by audited requeues only) |
| `outbox_live` | 2 jobs, batch of 1, internal dispatcher, one fault, one crash | every job is completed or dead-lettered, or is an orphaned claim |
| `lifecycle_safety` | 2 concurrent requests of 3, 2 scopes, one key, 2 payloads, one failing write, one cut-off | numbering, agreement of the records, truth of events and replies, files, blocked plans, once per key in sequence |
| `lifecycle_live` | 2 requests, 2 scopes, one failing write, one cut-off | no request waits for ever, every attempt is published |
| `install_planning` | all lists of up to 2 edges over 3 known packages and an unknown one, lists of 3 of which only the first may be optional, 4 and 5 edges over 4 packages; 6 policies x 4 permission sets x 3 states x trust x triggers x 3 finds; every find in 3 scopes with 2 edits | the resolver's order is the least that installs dependencies first, it refuses exactly what cannot be ordered or is missing; conflicts and writes foretell the runtime's decision |
| `profile_install` | 2 runs with the same, another or no correlation id or another policy, up to 3 packages, failing statements, a cut-off, a change of the enforcement | counts agree with rows and plans, a blocked plan does nothing, one plan per key, every run that is not cut off is closed |
| `scope_file` | 3 operations, 2 packages, 2 faults, an edit, a kill | the file is the promised one or one operation ahead; foreign files; every operation is answered |
| `event_ingestion` | 4 kinds of event in conflict, 4 sends, 2 at a time, 2 cut off | a key is accepted once; accepted is complete; replies are true; every event announced |
| `runtime` | 3 requests for 2 packages, 2 in flight, one restart each, stops and a shutdown at any point | no process lost by its supervisor, a truthful registry, every request and the shutdown end |
| `governance` | 2 requests of 3 deliveries, 6 kinds of claim, 2 evaluators, 2 windows, 3 run ids, a cut-off, a promotion; `MCSecurityReports` lists which faults are combined | enforcement is earned, a request is stored once, answers are true, the projection is the fold, permanent blocks are corroborated |
| `catalog_sync` | 2 writers (same aliases, exchanged slugs, reconciliations with 2 attempts), 3 syncs of batches of 1; `MCCatalogSync` lists the scenarios | alias locks are taken in one order, the reconciliation's records are true, the index holds what a run listed, a chain of batches misses no package |
| `sync_overlap` | 2 overlapping syncs, one ingest | an old document under a new fingerprint (finding) |

**Bounds.** Two runs, or two requests, are enough for every race of two check-then-act
sequences, and all the properties about several of them are about pairs. Two attempts is
the least budget in which "one more" differs from "the last". Two scopes give a
transaction that fails half-way. Every bound on faults, crashes, probes and edits is a
guard on the action that uses it up (`MaxFaults`, `MaxCrashes`, ...), never a state
constraint; each is at least one, so the case occurs. Where combining all faults is too
large (`governance`, `profile_install`, `catalog_sync`), scenarios give each behaviour a
few of them, each fault with each race it matters to. Planning starts from every case of
a finite set (`Cases`): a queue with two candidates, a diamond, a cycle with a tail and
a duplicate hiding another edge all need at most five edges. The theorems of section 4
remove the bounds.

**Deadlock** is not checked: when the bounds are used up and everything is answered, the
systems rightly stop. That nobody waits for ever is stated as leads-to properties
instead.

**Fairness.** Every step of a live process or request is weakly fair: the event loop
runs continuations, and statements and file operations return. In `Outbox` a production
claim is weakly fair in every slot, because cron starts the processor again and again;
probes, operators, producers, crashes and faults are not. In `InstallLifecycle` the
update that waits for a row lock is strongly fair: PostgreSQL queues waiters for a row,
and a request commits or rolls back whatever happens. In `ScopeFile` no strong fairness
is needed: the promise chain is a queue. In `RuntimeDaemon` that processes exit at some
time is an assumption (`WF` of `Exit`): nothing in the daemon makes them, since a
timed-out health check kills nothing and a stop sends SIGTERM only. In `ProfileInstall`
a run that is not cut off goes on. Clients need no fairness: a request that is answered
is no longer connected.

### Finding

`sync_overlap`: two overlapping runs of the retrieval sync, one of which listed a
package before an ingest and one after, may write the older document last and keep the
newer one's fingerprint. Every later run takes the package for unchanged.
`infra/postgres/migrations/011_retrieval_sync_and_dead_letter_ops.sql:25` calls the
table the "Last known semantic retrieval projection fingerprint". While no two runs
overlap `IndexIsTrue` holds; it also exempts a package that was given an older date
again (`redated`), as file-dated batches can.

### Divergences without a run

Met while modelling; most can be seen in the model by stating the opposite.

* Outbox: a statement that fails after the dispatch reopens a completed row, which is
  dispatched again (`jobs.ts:213`;
  `docs/runbooks/cron-failure-triage-and-replay-recovery.md:49` says that checks avoid
  that). Unsupported event types (`install.update` and others) become dead letters. The
  handler of `security.enforcement.recompute.requested` records the request and does not
  recompute (`internal-outbox-dispatch-handlers.ts:316`). A dry run claims and releases
  the rows it looks at, which the runbook calls "no writes".
* Lifecycle: two requests with one key and one payload in flight together are both
  carried out (`install-lifecycle.ts:1585`; the API contract says "replay");
  `OncePerKey` without `InSequence` states it. The second rollback of a failed remove,
  after the first failed, removes the entries it should restore
  (`install-lifecycle.ts:2466`). Verifying a plan whose apply failed overwrites the
  status that a rollback requires. A profile created between the count and the removal
  loses its package (`:2188`).
* Planning: an optional edge hides a later required one for the same pair, so a missing
  required package goes unreported (`dependency-graph.ts:71`; `Hidden` in
  `ResolutionIsRight`). The packages reported as a cycle include those that only depend
  on one (`:206`). A permission spelled in another case is reported as a conflict of
  severity error in a plan that the policy allows, and such conflicts never keep a plan
  from being applied. The trust a verification arrives at is not stored: a plan made
  with a reset trigger fails every verification. The policy is evaluated on the state of
  plan creation: a package blocked later is still started by verify (`:2788`, against
  DR-008).
* Events: a request cut off between the insert of the event and its idempotency record
  can never be replayed (`control-plane/src/index.ts:256`).
* Daemon: a process stopped on request exits like a crashed one and is launched again
  (`local-supervisor.ts:148`). The registry is keyed by package, so one run's exit hides
  another's process.
* Governance: three evaluations of one week widen enforcement to full-catalog
  (`index.ts:1434`, against DR-019), since decisions count and not windows. A cut after
  the nonce is stored makes the retry 'nonce_replayed' though nothing else was; a nonce
  reused after its time to live throws on the unique constraint. The comment on the
  permanent-block function speaks of active keys, which the SQL does not check.
* Profiles: if the row of a run cannot be added, the catch block's update finds no row
  and throws, and the run stays 'pending'. A stored failed apply is replayed under the
  same correlation id and never retried. `plan_only` runs count policy-blocked plans as
  succeeded.
* Catalog: a batch of several repositories is merged into the one package of its pivot;
  the same repositories give the same merge run id whatever changed in them; the unique
  slug rolls back an ingest whose slug a provisional row holds;
  `promoteProvisionalIdentity` has no caller; two ingests that exchange slugs deadlock,
  and the database aborts one; a reconciliation that is recorded failed may have
  persisted, wipes `last_success_at`, and is not corrected by a later success of the
  same input. An attempt made again because a success could not be recorded takes the
  place of its merge run id: the row of a run that succeeded may name a merge run that
  was never persisted, that of no candidates included
  (`run-catalog-reconciliation.mjs:258`). Package ids beyond the limit are cut from a
  sync without a word.
* Adapter: the error of a clean rollback in `writeFileAtomically` is thrown inside its
  own `try` and reported as a failed one.

## 4. What is proved

TLAPS checks the following for every value of the constants that satisfies the named
assumptions, by SMT, Zenon and LS4 alone. An assumption says that a bound is a number
(`OutboxAssumption`, `LifecycleAssumption`, `ScopeFileAssumption`, `IngestionAssumption`,
`DaemonAssumption`), that names which the models keep apart are different
(`ReportsAssumption`, `SourcesAssumption`), what the configuration may be
(`GatesAssumption`, `MaxAttemptsAssumption`, `LimitAssumption`), or what may be read
(`ProfileAssumption`: requests have a mode, profiles are finite; `FeedsAssumption`: the
scripts' input has the shape their parsers require; `IdOrderAssumption`: `IdOrder` lists
every package id once; `PlanningAssumption`: a request names a known package, its edges
are a sequence, its permissions finite). TLC evaluates each of them in the runs.

`OutboxProofs`:

* `TypeCorrect`: `[]TypeOK`. `TypeOK` alone is not inductive: a run's current job is
  `NoJob` at some points. `Shape` says at which points a run has a job and a mode.
* `ClaimsAreExclusive`: with `Owned`: the jobs of live runs are disjoint, and a held job
  is 'processing' except after its outcome has been written.
* `RetriesAreBounded`: with `Budget`, which ties `tries` to `attempts` by what each
  holder of a job has yet to count: a claim counts an attempt before the dispatch counts
  a try, and a release gives back an attempt that no try has used.
* `CompletionFollowsTheEffect`, `SyncIsNotRepeated`: with `Recorded`, what a run at each
  point of the dispatch has already recorded.
* `DeadLettersAreAudited`: an action property, from the same invariant.
* `OutboxIsAQueue`: `QueueSpec`, the refinement, from the same invariant and `Smooth`:
  while no statement has failed, a run about to mark a row finds it in the status it left
  it in. `PhaseFacts` says how the mapped state changes with `row`; each action then is an
  action of the queue (claims put several jobs in work at once) or a stutter.
* `OnlyFaultsOrphan`: with `Attended`: until a run is killed or a statement fails, a
  'processing' row is held by a run.

The inductive invariant is `TypeOK /\ Shape /\ Owned /\ Budget /\ Recorded`. Each part
is proved over the steps one action at a time, and the lemmas about the operators that
update `run` and `row` (`GotoFacts`, `RowFacts`, `UpdateFacts`, ...) are stated once.

`InstallProofs`, of `InstallLifecycle`:

* `TypeCorrect`: with `Shape`, what a request holds at each point of its handler.
* `HistoryIsGapless`: with `Numbered`, the attempts of a table as an interval of
  numbers, which only the unique constraint at COMMIT keeps so.
* `RecordsAlwaysAgree` and `EventsAreJustified`: with `Justified` and `Committed`: what
  a request may still publish or store belongs to an attempt it has committed.
* `FilesFollow`: while requests come one after the other (`Alone`) the files follow the
  latest attempt; `Follows` is made of `Progress` (how far the request at work has
  brought files and rows) and `Settled` (nobody at work).
* `OncePerKeyWhileInSequence`: `Keyed`, with `Remembered` (an attempt with a key has its
  record, or its request is still to store it) and `Fresh` (a request under way found
  none).
* `LocksAreNeverLeftBehind` and `CommittedAttemptsAreAnnounced`: the row lock belongs to
  an open transaction, and a committed attempt without its event to a request that
  publishes it next.

`InstallProofs`, of `InstallPlanning`:

* `ReachableIsNeeded`: the packages `collectReachable` finds are those that every set
  closed under the edges and holding the root must contain. `Reachable` iterates
  `Levels`; that it is closed after as many levels as there are edges is shown from the
  least level at which it no longer grows.
* `ResolutionIsAlwaysRight`: `[]ResolutionIsRight`. `SortOK` is the invariant of Kahn's
  loop: nothing is placed twice or before what it needs, the counters are those of the
  dependencies still to place, the queue holds the packages that wait for none, and each
  package was the least that could be placed (`LeastFirst`). At the end either all are
  placed, and the greedy choice makes theirs the first of the orders (`SortedIsFirst`),
  or the first of those left in any order would wait for another one (`CycleHasNoOrder`).
* `ResolutionIsDeterministic`: where two orders first differ one is before the other, so
  the first order is unique; it depends on the declared edges, not on how they are listed.
* `PlansForetellVerifications`: `PlanKept` and `VerdictKept` keep what plan and verdict
  were made from, so that the planner's rules for scopes and permissions can be compared
  with the runtime's: the same scopes in the same order, and caps that imply caps.

`PlanningInv` holds these parts and `ResolutionIsRight`. Where a fact calls for an
induction over data it is drawn from the least element of a set of numbers (`LeastOf`),
which is itself proved by counting.

`ScopeFileProofs`:

* `TypeCorrect`: `[]TypeOK`, with `Packaged` (an operation in flight has a package).
* `TheFileIsOldOrNew`: `[]OldOrNew`. `OldOrNew` says nothing of what an operation
  remembers, so it is not inductive. `Serial` says that only the holder of the lock
  writes, `Progress` what the writer's computed content and backup have to do with the
  promised one at each point of `writeFileAtomically`, and `Consistent` that without a
  writer the file is the promised one. `OneWriter` reduces every step of the holder to
  the holder, `Bystander` every other step to nothing.
* `ForeignFilesAreLeftAlone`: the action property, from `Unaware`.
* `TheLineMovesOn`: with `LineOf`: the line of the lock and the operations that have
  entered and have no answer are the same, and only its head is past the wait.

`EventIngestionProofs`: `TypeCorrect`, `KeysAreAcceptedOnce`, `AcceptanceIsComplete`,
`AnswersAreJustified`, from one invariant. Acceptance is an answer, so the invariant
says what is on record at each point of the request that will give it (`WorkIsRecorded`,
with the fact that no other request works on the same event), that stored events are
unique in id and key, and that a key with an accepted event is over (`AcceptedIsOver`).
`NoEventIsForgotten` follows an event from its insert to its announcements: as long as no
request is cut off, the one that stored it is neither answered nor refused in between.

`SecurityReportsProofs`:

* `GatesEarnEnforcement`, and `EnforcementStaysEarned` of the composition. The rollout
  row is bounded by the number of passing decisions on record; `StreaksPass` is the
  counting lemma (a streak of n in each of the two rates, read from the newest end, are
  n decisions that pass both), `Ordered` the order without ties that it needs, and
  `Earning` what an evaluation between two statements carries.
* `StoresOncePerRequest`: with `Filed` (the reports are a finite table with a key) and
  `Spent` (a nonce on record was spent by a delivery that got past its verification).
* `AnswersStayTrue`: with `Progress`, what a delivery has stored, enforced and announced
  at each of its statements and at its answer, and nothing more.
* `ProjectionStaysTheFold`: with `Folded`: while `overtaken` is false every list in use
  is the table. An action that meets a list in use sets it, and so does a cut between
  the list and the row; a recomputation sets it to whether some list in use, its own
  included, is `Stale`, so that a row written from a current list is vouched for again.
  The fold itself is never expanded: the proof needs only that it is a function of the
  actions and the time.
* `PermanentBlocksAreCorroborated`: reports are finite and never lost, so the counts of
  corroborating reporters and categories only grow.

`ProfileInstallProofs`:

* `RowsStayTrue`, `BlockedPlansStayUndone`, `PlansStayOnePerKey`, `CountsStayTrue`, from
  one invariant. For each run, `Placed` and `InHand` say where in the profile it is and
  which plan it works on, `Operating` what it has of that plan at each statement of an
  apply or a verify, `RowsHold` what its rows say, and `Accounted` that the entries
  passed are the rows, the optional ones and those without a plan: a bijection, so that
  the closing counts add up (`Counted`). `KeysHold` says that stored replies are true;
  without it a replay could report what never happened. `Alone` (until two requests
  under one key are in flight together, the request at work found no plan) is what
  `OnePlanPerKey` needs. `CountsAreTrue` relates rows to the profile by counting, hence
  the lemmas on `Counts` and on the order of the entries.
* `PendingRunsAreAtWork`: with `Ended`: nothing that throws inside the try blocks ends a
  run with its row pending.

`CatalogSyncProofs`:

* `RecordsStayTrue`: with `JobOK`, which ties what a script has in hand to its input, and
  the row it will record to a merge run that is in the table: to the one the row names
  only in a first attempt, since a later one may have found another.
* `AliasesStayInOrder`: `Arranged` lists the elements of a finite set once each in a
  strict order (`ArrangedFacts`, `ArrangedOnce`), so the alias rows of a batch ascend in
  `KeyLess`; of two transactions that wait for each other at alias rows each would have
  passed the other's row, a cycle in that order.
* `IndexStaysTrue`: `IndexIsTrue` speaks of the run that started last and is not
  inductive, since runs that were cut off leave documents and fingerprints of different
  ages. `SyncInv` orders the documents of a package by age: a document is `Stale` once
  the package has moved past it, and `StoreGrows` shows that no writer brings a stale
  one back: a new date is recorded (`dates`), a date used twice exempts the package
  (`redated`), and without a new date a package can only lose aliases to others. Then a
  fingerprint that differs from what the index holds is stale (`Behind`), and a run
  that finds its document unchanged finds it in the index (`LatestOK`).
* `BackfillsStayComplete`: with `ChainOK`: a chain has seen every package of its start
  up to its cursor. `BatchFacts` says that a batch lists packages once each, in order,
  and leaves out only what comes after its last one.

`RuntimeDaemonProofs`:

* `TypeCorrect`: `[]TypeOK`; that attempts stay bounded needs what `Sound` says of
  `backoff`.
* `SupervisorLosesNoProcess`: `[]NoProcessIsLost`. `Sound` has, for each point of the
  loop, what holds of the process: a recorded exit means that it is gone. A stop changes
  the process of a run at any point, so this needs that only living ones are `Listed`.
* `TheRegistryIsRight`: `[]RegistryTellsTheTruth`, with `Noticed` (two runs of a package
  at a time are recorded in `crowded`). `Quiet` gathers the steps that leave the
  registry alone, and `TerminationKeeps` serves both the stop and the shutdown.
* `NobodyWaitsForTheDead`: a request that has seen no exit has a process that can exit.

Every invariant, action property and refinement of the passing runs is a theorem.
`FingerprintOfIndex` is violated. Only model-checked is liveness under fairness
(`SettlesOrOrphaned`, `EveryRequestAnswered`, `EveryAttemptPublished`,
`EveryOperationAnswered`, `EveryEventIsAnnounced`, `EveryRunCloses`, `EverythingEnds`),
which is out of the prover's reach. What each of them rests on at every instant is proved:
`OnlyFaultsOrphan`, `LocksAreNeverLeftBehind`, `CommittedAttemptsAreAnnounced`,
`TheLineMovesOn`, `NoEventIsForgotten`, `PendingRunsAreAtWork` and
`NobodyWaitsForTheDead` say, in this order, that nobody waits for a step that no one is
left to take. That the steps are taken, and that they end, is what TLC checks.

## 5. Not modelled, and the plan

Left out on purpose: payloads, wording, logging and telemetry; HTTP parsing and routing,
which keep no state; real arithmetic in ranking and the calls of external search
services; the CLI, a client of the HTTP API; release gates, readiness and smoke scripts,
which run once and only read; the SLO rollups and appeal metrics, read-only aggregates
written by one upsert; the remote connectors and the token client of the daemon; reads
(`get`, `list`, search), which change nothing. The scope sidecar is read, merged and
written without a lock, so that its promise not to overwrite another owner's record does
not hold under two writers.

What is left, most important first:

1. `InstallOutbox`: `InstallLifecycle` as a producer of `Outbox`: every attempt's event
   is dispatched or dead-lettered.
2. The remote connectors with their retries and token refresh beside `RuntimePipeline`.
