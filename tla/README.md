# Devboxes in TLA+

Specifications of [devboxes](../src/README.md): a controller that gives
developers persistent workspaces on Kubernetes, collects usage metrics from
them, and stops them when their lifetime ends.  The modules model the parts
whose correctness depends on the order of events (locks, retries, awaited calls,
crashes, lost requests), TLC checks them on small instances, and TLAPS proves the
most important properties for every instance.

Source paths below are relative to `src/`; `manager.py`, `app.py` and so on are
in `controller/src/devboxes_controller/`, the agent is
`workspace/insights_agent.py`.

## The system

| Component | State it keeps | Operations | Hard behaviour | Correct when |
|---|---|---|---|---|
| Lifecycle lock (`manager.py:79-128`) | table of reference-counted `asyncio.Lock`s by workspace | enter, leave, be cancelled | wake-ups lost to cancellation; entries removed while in use | one task per workspace inside; no entry leaks; no waiter starves |
| Devbox manager (`manager.py`) | none of its own: Deployment, Service, Insights Secret and home PVC of each workspace live in Kubernetes | create, start, stop, delete, purge, `reconcile_insights`, `stop_expired` | every Kubernetes call is an await; answers get lost; other replicas and Kubernetes write too; foreground deletion takes time | no early stop, no restart of active work, stable identity, no half-made workspace |
| Cleanup loop (`app.py:1027`) | position in its cycle | reconcile, expire, sleep | one exception ends the cycle | expired workspaces are stopped |
| Insights agent (`insights_agent.py`) | SQLite outbox and saved Git refs on the home volume | receive OTLP, heartbeat, scan Git, send | crash between two transactions; outages; a full outbox | an acknowledged batch is stored or counted as lost; what a scan finds is reported |
| Insights ingest (`app.py:622`, `insights_service.py:155`, `insights_store.py:80-357`) | SQLite ledger, commits, snapshots, collectors, points | ingest | duplicates; late requests; identical batches of two workspaces | stored once, for one workspace; latest observation shown |
| Insights history (`insights_store.py:389-1116`) | points, hourly and daily rollups, ledger, commits | ingest, maintain, purge, query, page through activity | counters that come late or restart; rollups rebuilt from what retention has left; queries between maintenance passes; rows that come and go between two pages | totals neither lose nor repeat; each tenant sees its own; pages are complete |
| Authentication and tenancy (`auth.py`, `config.py`) | authorization codes in memory; sessions and CLI tokens are signed and kept by clients | sign in, approve, deny, exchange, judge a credential | repeated and mixed-up exchanges, expiry and eviction of codes; restarts with other secrets, roles and lifetimes | one token per approval; rotation ends what was pending and nothing else |
| CLI (`cli/src/login.rs`) | loopback listener, state and verifier of an attempt | log in, be cancelled, time out | answers of the browser that are late, repeated or meant for an earlier attempt at the same port; a connection kept open while the listener closes | every attempt ends; a token belongs to its attempt |
| HTTP API, configuration, privacy filter, web interface, chart, image | none that protocols depend on | | pure functions, declarations, rendering | |

How they interact: API routes call the manager, which holds the lifecycle lock of
the workspace for the whole operation and calls Kubernetes in worker threads.
The cleanup loop takes the same locks in the same process.  A workspace pod runs
the agent with a credential from the Insights Secret, bound to the identity that
the manager records on the home PVC; the agent posts batches to the controller,
whose ingest route writes the Insights store.  When Insights is on the chart
refuses more than one controller replica and replaces it by `Recreate`
(`charts/devboxes/templates/deployment.yaml`); with Insights off several
controllers may share the cluster, and then they share no lock.  `devbox login`
opens a listener, sends the user to the controller's approval page, receives a
code by redirect and exchanges it, with the verifier it kept, for a token; the
codes live in the memory of the controller process and do not survive it.

## Modules

| Module | What it is |
|---|---|
| `KeyedMutex` | abstract: at most one task inside the section of a key |
| `LifecycleLock` | `_lock_lifecycle`: table, references, `asyncio.Lock` and its waiter queue |
| `DevboxManager` | lifecycle operations and cleanup loop against the Kubernetes objects |
| `InsightsBatches` | what a batch is |
| `InsightsOutbox` | the agent: outbox and Git collector |
| `InsightsStore` | the controller's ledger, commits and snapshots |
| `InsightsPromise` | abstract: an acknowledged batch is kept until stored or counted as lost |
| `InsightsPipeline` | composes outbox and store through requests that may be lost or late |
| `InsightsHistory` | points, rollups, retention, purges and the totals of queries |
| `InsightsActivity` | the commit list and a client that pages through it |
| `InsightsDatabase` | composes history and activity under one clock, with the maintenance loop |
| `AuthorizationCodes` | the store of pending codes |
| `Authenticator` | extends it by sessions and CLI tokens, judged by the current configuration |
| `CliLogin` | composes both with the CLI, the browser and restarts of the controller |
| `MC*` | instances for TLC |
| `LifecycleLockProofs`, `DevboxManagerProofs`, `WorkspaceProofs`, `InsightsPipelineProofs`, `CliLoginProofs`, `ActivityProofs`, `HistoryProofs` | theorems and proofs |
| `RowProofs` | lemmas about finite sets of rows: the newest of them, their sums; used by the last three |

Definitions whose comment begins with *Faulty* are not part of any specification.
Each is a plausible bug in the definition that follows it, kept to show that the
properties notice it; `PROJECT.json` says which property notices which.

### LifecycleLock

One asyncio process runs one task at a time, and the two sections under
`_lifecycle_locks_guard` have no suspension point, so entering the table and
leaving it are single steps.  `asyncio.Lock` is external and modelled from the
interface the code relies on: a queue of futures, a fast path when the lock is
free, `release` that resolves the first future, and a cancelled waiter that
passes a wake-up on.  A waiter's place in the queue is the set `ahead[t]` of the
tasks in front of it.  `Register` and `Drop` are the two guarded sections,
`EnterAtOnce`/`EnterQueue`/`Resume` the acquisition, `Exit` the normal or
exceptional end, `Cancel`/`ResumeCancelled` a cancellation while waiting.

### DevboxManager

State: the four objects of each workspace (`dep`, `svc`, `sec`, `pvc`), who
holds which lifecycle lock in which controller (`holder`, the abstraction that
`LifecycleLock` implements), the program counter and local variables of each task
(`job`), the cleanup loop's agenda (`agenda`), and deletions that go on after
`asyncio.gather` has raised (`stray`).

One action is one awaited Kubernetes call together with the code up to the next
await; the name of a program counter value is the call the task makes next.
`create` runs through `CreateReads`, `ReadVolume`, `StampVolume`, `MakeVolume` or
`GrowVolume`, `ReadSecret`, `WriteSecret`, `MakeDeployment`, `MakeService` and the
undo of its `except` clauses; `start` and `stop` through `ScaleReads`, the same
identity and credential steps, `PatchPrepared`, `RereadDeployment` and
`PatchScale`, with retries on conflict; `delete` and `purge` through
`DeleteReads`, `DeletePart` and `DeleteVolume`; the loop through `Wake`,
`ListTenant`, `Visit`, `ReconcileReads`, `MarkRestart`, `ExpireReads`,
`PatchExpired`.  A Deployment's resource version is kept as a Boolean per task:
whether the copy the task has read is still the current one.  The pod template is
abstracted to the pair of identity and configuration that its hash depends on.

A disturbance is a call that fails, a call that takes effect but whose answer is
lost, a restart of a controller (perhaps with another configuration), a foreign
write to a Deployment; `MaxFaults` bounds their number.  `Quota` lets creations be
refused without counting as a fault.

Initially each workspace has nothing, a volume without an identity, or a whole
workspace from before Insights was enabled: the states an upgrade finds.

### Insights pipeline

Each method of `Outbox` is one SQLite transaction and one step.  A batch is its
content, because its identifier is a hash of kind and payload; rows keep the order
of `created_at` (`at`) and the number of failed attempts.  A row that has been
tried may be backing off, so the sender may pass it by.  Any oldest rows may be
past the age bound; the byte bound is `MaxRows`.  Work in the repository between
two scans is arbitrary: the refs reach any non-empty set of commits, and the working
tree is any.

A scan finds any part of the commits behind the refs (`found`): `rev-list` stops at
10000 commits, its failure and that of `git show` are not errors to the collector, and
an old tip that cannot be read hides nothing.  Only `for-each-ref`, `diff`, a command
that takes more than 20 seconds and SQLite end a scan (`ScanFails`).  `lost` is a
history variable: the batches that the counter of drops stands for.

The request of a sender may be answered, refused for now or for good, lost before
or after it is served, or left behind by a timeout or crash of the agent and be
served later (`late`).  `InsightsStore.Ingest` is the transaction of
`_ingest_sync`.  The rows of `devbox_instances` and `collectors`, which every batch
overwrites, are left out, and metric points are the subject of the next module.

### Insights history

Every writer of the store holds `_writer_lock` and one SQLite transaction, so
ingest, a maintenance pass and a purge are one step each.  `InsightsHistory` keeps
the three tables as sets of rows and two history variables: `accepted`, every point
that was inserted and not purged, is what totals are compared with; `maintained` is
when the last pass ran.

* `Insert` is the loop body of `_insert_otlp` with `_effective_value`: the value of
  a cumulative reading is its growth over `Previous`, the stored reading with the
  latest time, unless the counter restarted or fell.
* `Maintain` is `_maintain_sync`: hours rebuilt from the points there are, days from
  the hours there are, both by upsert (`Grouped`, `Upsert`), then each table cut at
  `RawCutoff`, `HourlyCutoff`, `DailyCutoff`.
* `MetricSource` is the three-part union of `_metric_source`, with the clock of the
  query as a parameter: a query may have read its clock long before a pass.
  `Summary` and `BucketTotal` are the sums of `_summary_core` and `_timeseries_sync`.
* A point may be ahead of the controller's clock by at most `Ahead`, the five minutes of
  `_point_time`; `HistoryAssumption` says so of `Ages`.
* `PurgeBox` and `PurgeInstance` delete by the cascade of `devbox_instances`, and
  `Selected` finds the series of one tenant's boxes.

`InsightsActivity` gives commits SQLite identifiers (the largest in the table plus
one, so those of deleted rows come again) and lets one client read page after page
with the cursor of `_activity_sync` while commits arrive, expire and are purged.  A
query has the window of `_git_filter`.  `InsightsService.filters` computes it for every
page (`AtPage`): if *since* is a length of time and *until* is left out, it slides along
with the clock (`Sliding`); two instants stay what they are (`Between`).
A workspace has one repository, a batch one point, and delta points have value 1.

### CLI login

`asyncio.Lock` makes each operation of `AuthorizationCodeStore` one step: `Issue`
(prune, make room, insert) and `Consume` (prune, compare, delete).  A code is its
number in the order of issue, with the attempt its challenge and redirect came from.
`Authenticator` has credentials as records of what is signed into them.  A secret
stands for the access token and for the epoch hashed from it; `SessionValid` and
`TokenValid` are the checks of `_session_claims` and `validate_cli_token`, and the
rights they give are those of the roles that the process was started with.
Credentials of older releases, which have no epoch, are in the initial states.

`CliLogin` has per attempt the phases of `authorize_with_opener` (`waiting`, `closing`),
`exchanging` and `verifying`.  Once the wait is over the listener is told to shut down and
is awaited (`Closing`, `Closed`), which nothing bounds and Ctrl-C does not interrupt;
`held`, chosen when the listener closes, says that some client keeps a connection to it
open with an unfinished request, until `Disconnect`.  `redirects` is what browsers were answered: any of
it may reach any listener at its address, once, often or never.  `AnyExchange` is a
request with any known code and the verifier of any attempt, so the controller
alone has to tell which belong together.  `Restart` forgets the codes and starts
with any configuration; those satisfy `Loadable`, which is what
`settings_are_consistent` and `_load_principals` let through.

## What the runs check

| Run | Instance | What it shows |
|---|---|---|
| `lock` | 3 tasks, 2 keys, 3 lock objects | exclusion, no leaked entry, the abstract mutex, every waiter served |
| `manager_races` | 1 workspace, 2 requests of any kind, the loop, Insights off or on, quota refusals | nothing is stopped before its time, active workspaces are not restarted, a listed and deleted box gets no Secret back, creates are all or nothing, templates find their Secret, identities last |
| `manager_failures` | 1 request, the loop, 1 disturbance anywhere, 2 configurations | a collector reports under the identity of its volume; identities last |
| `manager_progress` | 1 request, the loop, 2 disturbances, 2 attempts to scale | expired boxes are stopped; requests and cycles end; types and the bound on attempts |
| `manager_secret_start` | as `manager_races`, without quota | **violated**: the Secret outlives its workspace after delete and start |
| `manager_ttl_blocked` | 2 tenants with a box each, one with an unreadable profile snapshot | **violated**: the sound box of the other tenant runs on past its lifetime |
| `pipeline` | 1 agent, 3 batches, 2 commits, 1 crash, 2 attempts | a batch is kept until stored or counted; what a scan finds is queued before its refs are saved |
| `pipeline_shared` | 2 agents, 2 batches, outboxes of two rows | a batch is stored once, for one workspace; outboxes drain, though their oldest row may keep failing |
| `pipeline_outage` | 1 agent | **violated**: a batch is dropped during an outage with room to spare |
| `pipeline_worktree` | 1 agent, 2 trees | **violated**: a tree that returns to an earlier state is not shown |
| `history` | 2 tenants with a box of one name, a delta and a cumulative series, 3 points; 3 commits new or old, pages of one, windows that slide or stay | totals lose nothing and repeat only what the last pass has not pruned; after a pass they are exact; counters never fall short; pages are complete and show no row twice |
| `cli_login` | 2 attempts at one port, 2 subjects, 4 configurations, 1 restart, 2 codes | one token per approval; rotation is complete and confined; codes give way only at the bound; attempts end, unless a connection to their listener is kept open for ever |

**Bounds.**  One workspace suffices for the manager's safety runs because tasks
on different workspaces share nothing but the cleanup loop's cycle; that coupling
is what `manager_ttl_blocked` has two workspaces and tenants for.  Two requests and
the loop are the three parties that can meet on one lock.  Four identities let
two volumes, a Secret and a task each have a different one.  A clock of one or
two instants separates before, at and after an expiry; `Ttl` is 1.  One
disturbance reaches every call of every operation once; `manager_progress` has two, and
two attempts, so that a start or stop is retried from a fresh read and also uses up its
attempts (the code's five; `TypesHold` covers any number).  In the pipeline three batches
allow A, B, A; two attempts make the first failure and the last one differ; one abandoned
request per agent (`MaxLate`) is enough to arrive after a newer one.  `pipeline_shared` has
outboxes of two rows, so that one that fails can stand ahead of another.

In `history` a day has two hours of two ticks; points and hours are kept for one
day and days for two, so every boundary falls inside the run.  The clock of the workspace
with the delta series is one tick ahead.  Readings of the
counter come at once, an hour late, and a day and a half late; three of them make
an order, a late one between two others, and a restart.  Points and commits share
no table and meet in passes and purges only, which treat each table on its own, so they
are not in the database at once (`MaxMix` is 0).  Three commits and pages of one make a
client turn the page twice, and four identifiers (`MaxId`) let one be given again.
`Span` is 9 ticks, so an old commit can leave a sliding window between two pages; the
windows of two instants (`Ranges`) have commits on their ends and outside.

In `cli_login` the two attempts share an ephemeral port, one after the other;
the store has room for one code, so the second drives the first out.  Codes, sessions
and the wait for the callback last one tick, tokens two or, after a restart, one; with
a leeway of one tick the clock passes the end of each but that of a token of two.  The
restart may rotate a principal's secret or the master token, or reduce role and
lifetime.

**Exempted points.**  A point that comes after a pass has cut the raw points of its
time makes maintenance rebuild its hour from that point alone.  The agent's outbox
drops rows at 7 days and raw points are kept for 30 by default, so the case needs
another configuration; the properties of `history` exempt the day of such a point
(`Disturbed`) and no other.  Between two passes a query adds up rollups and points
of the hours that have reached the age of raw retention since the last pass; the
run shows that nothing else is repeated (`OnlyOverlapRepeats`) and that nothing at
all is in the hour of a pass.

**Exempted commits.**  Of a window that slides, a client is not promised the commits that
get too old for it from one page to the next; a window of two instants has no such
exemption.

**Deadlock** is checked except in the pipeline runs, where the bound on batches
lets everything come to rest, and in `history` and
`cli_login`, whose clocks end.

**Fairness.**  `lock`: a woken or cancelled task runs and a locked body ends
(asyncio runs ready tasks; each Kubernetes call returns or raises).
`manager_progress`: tasks and loop proceed, a task waiting for a lifecycle lock
that is free again and again gets it (strong fairness, justified by
`WaiterServed`: the queue of `asyncio.Lock` is first come, first served), the
clock advances, Kubernetes finishes foreground deletions.  Requests and
disturbances are never assumed to happen.  `pipeline_shared`: the sender
thread runs and `urlopen` returns within its timeout; the controller and the
network may do anything.  The agent's thread is in fact not restarted if SQLite
raises in it: see the hazards.  `cli_login`: the clock advances, the timer of
`tokio::time::timeout` fires, and a request is answered or ends at the HTTP client's
own timeout, and a listener without connections closes; neither browser, restart nor the
client that keeps a connection open is assumed to do anything.

### Disagreements between code and documents

* *Secret after delete and start.*  `docs/credentials.md:60` says the workspace
  Secret is deleted with the compute.  `_scale_locked` does not look at
  `deletionTimestamp`, so a start during the foreground deletion makes the Secret
  again, and it stays.
* *Expiry depends on every box being reconcilable.*  `docs/architecture.md:141`
  says that the end of a lifetime scales compute to zero.  `reconcile_insights` and
  `stop_expired` share one `try` block, and the former raises for a box whose profile
  snapshot does not validate (`GpuProfile` forbids unknown fields, so one that a newer
  release wrote will do after a rollback), or that has no snapshot of a profile that
  is not configured.  Then a sound box of another tenant is not stopped.  A profile
  that was only removed from the configuration does no harm: the snapshot is used.
* *Outages.*  `docs/architecture.md:143` and `docs/insights.md:99` name the size
  and age of the queue as the reasons to drop a batch; twelve attempts are a third.
* *Working tree.*  `docs/insights.md` promises the latest changes; content hashes
  as batch identifiers make a return to an earlier state a duplicate.

Two more are modelled, and the properties are stated around them:

* *Commits not reported.*  `docs/insights.md:53` promises "All newly observed reachable
  commits".  `rev-list` is cut off at 10000, its failure is ignored and a commit that
  cannot be shown is skipped (`insights_agent.py:526-534`), but the refs are saved all the
  same, so no later scan finds what was missed (`ScanRefs`).
* *The wait of a login.*  `docs/cli.md:94` calls it finite.  After it the listener is
  awaited without a timeout (`login.rs:110-111`), for as long as a client keeps a
  connection open; this is the exception in `AttemptsEnd`.

## What is proved

All theorems hold for every value of the constants that satisfies the named
assumptions: any number of tasks, keys, workspaces, tenants, identities,
configurations, faults and time.

`LifecycleLockProofs` assumes `LockAssumption` (finitely many tasks; `None` is
none of the values).

* `MutualExclusionHolds`, `NoLeakedEntryHolds`.  Neither is inductive.  `LockInv`
  adds: the entry of a key is the lock object of each of its users, an object
  serves one key only, the reference count of an object is the number of its users,
  a lock that is taken has exactly one user inside, at most one waiter is woken and
  only while the lock is free, and the sets `ahead` order the waiters.  The count
  being exact is what makes removal at zero safe; a woken waiter excluding a taken
  lock is what makes `Resume` safe, which does not look at the lock.
* `LockImplementsMutex`: initial states and steps map to those of `KeyedMutex`.
* `TypesHold`: the types of the table and of the waiters' order.

`DevboxManagerProofs` assumes `ManagerAssumption` and, for the properties that
need it, `SingleWriterAssumption` (with Insights on, one controller).  The
inductive invariant `ManagerInv` is a conjunction:

* `TypeOK`, and `AgendaOK`/`LocalOK`: what each program counter value implies for
  the local variables;
* `Owned`: a task past its lock is the holder of its workspace in its controller;
* `FreshView`: a copy of a Deployment whose resource version is current equals the
  Deployment;
* `ColdView`: a task about to patch a template of a stopped box without a
  resource version finds it still stopped, because all writers that could start it
  need the lock that the task owns;
* `StampView`: a PVC that a task is about to stamp has no identity yet.

From it follow `TypesHold`, `NeverStoppedEarlyHolds` (only `FreshView`: it needs
no lock, so it holds for any number of replicas), `ActiveNeverRestartedHolds`
(`ColdView`) and `IdentityStableHolds` (`StampView`); the latter two rest on a
single controller.

`WorkspaceProofs` goes on from there, first to `CollectsUnderVolumeIdentityHolds`, with
`SingleWriterAssumption`.  The property relates a Deployment to a PVC that no call
reads together; what links them is the identity a task carries from one to the other.
`IdentityInv` adds to `ManagerInv`:

* `TasksPlaced`: between reading the PVC and writing the Deployment, the PVC, if it is
  bound, has the identity of the task; the Deployment is still absent (create) or has
  the template that was read (start, reconciliation); and with Insights off a task has
  no identity and makes none of the calls that need one;
* `CyclesOn`: a cycle that reconciles runs with Insights on;
* `BoxesSound`: the property itself, without the condition that the PVC has an
  identity.  This is what excludes that a volume gets a new identity (`StampVolume`,
  `MakeVolume`) under a running collector.

That a change of configuration finds no task under way needs the single controller.

Its second part relates Deployment, Service and Secret, which no operation writes at
once, while nothing has failed (`faults = 0`; a refusal by a quota is not a failure).
With one controller (`SingleController`) `CalmInv` is inductive in these states:

* `TasksOrderly`: what a task in its section relies on in its next call.  Between
  finding a Deployment and writing one, a create still finds none and a reconciliation
  a live one (`Expects`); a create about to make the Service has made the Deployment; a
  task about to write a template with an identity finds the Secret in place; a gather
  of deletions finds the parts it has done gone (`Orderly`);
* `BoxesWhole`: a workspace has a Service exactly when its Deployment is live, unless a
  task is half way through a create or a delete there; a live Deployment that refers to
  the Secret finds it, unless a task deletes there; no deletion has been left behind.

A task at a workspace is the only one there (`Alone`, from `Owned`), so one lemma per
call suffices that says the task leaves the workspace whole or goes on to a call that
can rely on what it needs (`Proper`), and one that says it touches no other workspace.
From this follow

* `ComputeIsWholeHolds`, with one controller.  With several, which the chart allows
  when Insights is off, two of them share no lock, and the property is not claimed;
* `CollectorHasCredentialHolds`, with `SingleWriterAssumption` only: with Insights off
  no template refers to a Secret;
* `ReconcileNeverRevivesHolds`, with `MaxFaults = 0` as in the run: it is a property of
  steps, and its writer of the Secret is the loop itself, whose `Expects` says *live*.

The restriction to states without failures is the code's: a lost answer to
`create_namespaced_service` leaves a Service without a Deployment behind.

`InsightsPipelineProofs` assumes `BatchAssumption`, `OutboxAssumption` and
`PipelineAssumption`.  `PipelineInv` consists of types and bounds (`QueuesOK`: no
batch is in two rows of a table and a table holds at most `MaxRows`; `CountersOK`,
`CallsOK`, `ScansOK`), `StoreOK` (the commits of a Git batch in the ledger are in the
table of its workspace), `StoredAnswersHold` (a sender that was told *stored* finds
its batch in the ledger as its own) and `ScansReport` (a scan that has queued its
report and not yet saved the refs has each commit it found queued, stored or in a batch
that was counted).
From it follow

* `TypesHold`;
* `PipelineKeepsPromise`: every step maps to a step of `InsightsPromise` or to a
  stutter.  `StoredAnswersHold` is why removing a row after an answer loses nothing;
* `NewCommitsAreQueuedFirstHolds` (`ScansReport`), with crashes between the two
  transactions.  It is about what the scan has found; nothing is claimed of what it
  may miss.

`CliLoginProofs` assumes `ConfigsAssumption` (what a process can be started with),
`TimesAssumption` and `FirstAssumption`.  `LoginInv` says that approvals are numbered
(`ApprovalsAreNumbered`), that a pending code stands for one approval given with the
secret its subject has now (`CodesAreApproved`: this is where forgetting codes at a
restart is needed), that a spent code is not pending (`SpentCodesAreGone`), that a
token carries the secret its approval rested on (`TokensKeepTheSecret`), and that
sessions without an epoch are the operator's (`SessionsAreNamed`).

* `OneTokenPerApproval` and `RotationEndsPendingAccess` follow from `LoginInv`;
* `AcceptedTokensAreYoungHolds` and `RotationIsConfined` from `TimesInv`, that clock
  readings and the times in tokens are numbers.

Its second part adds `CodesAssumption` and `BoundsAssumption`.  `StoreInv` is
`TypeOK` with what the bound of the store rests on: codes have different numbers, so
that of a finite set of codes the *n* newest are at most *n* (`YoungestAreFew` of
`RowProofs`), and a code outside them has *n* newer ones (`YoungestAreNewer`).

* `TypesHold`, with the bound of the store in it;
* `CodesLostOnlyAtBoundHolds`: a pending code leaves spent, expired, or as the oldest of a
  full store.

`ActivityProofs` assumes `PagesAssumption` and uses the same lemmas, since a page is
the newest rows before its cursor.  `PagingInv` says that identifiers of commits are
unique and that, for a client that has more to fetch, what it is due and has not seen
lies before the cursor and what it has seen does not.  What a sliding window has left
behind is no longer due (`Expected`); since a window moves on only, what is in the window
of one page was in those before it (`WindowSlides`).

* `PagesAreCompleteHolds`, `NoRowShownTwiceHolds`: whatever is inserted, expires or is
  purged between two pages, the commits that stay are shown, and each once; of a window
  that slides, those still in it at the last page.

`HistoryProofs` assumes `RetentionAssumption` (a day is a number of hours, raw
retention is at most hourly, hourly at most daily retention: `settings_are_consistent`),
`HistoryAssumption` and `DatabaseAssumption`.  The properties compare sums over tables,
so `RowProofs` first says what a sum is: the fold behind `Total` counts the pairs of a row
and a unit of its value, whatever order it takes the rows in (`FoldCounts`; the induction
over finite sets it needs is made by a smallest counterexample).  From this come sums of unions, parts and groups (`WeightOfUnion`, `WeightOfPart`, `WeightByKey`).
`HistoryInv` consists of

* `TablesOK`, `ReadingsOrdered`: types, finite tables, no two rows of one observation;
* `PointsKept`: a point that was accepted is stored, or lies before the raw cutoff of
  the last pass; what is stored before that cutoff came late;
* `RollupsPlaced`: rollups begin a bucket and lie after the cutoff of their table;
* `HoursHold`: the rollup of an hour has no more than was observed in it, and no less
  once the hour is behind the raw cutoff.  *No more* is what makes the upsert of a
  later pass harmless, *no less* what makes cutting the points harmless;
* `DaysHold`: the same for days, whose points are cut hour by hour, so that the lower
  bound is the sum of what is cut (`CutWithin`), not the whole day.

The two bounds meet in the hour of a pass, when all that lies before a cutoff has been
rolled up and all that lies after it is still there.  That the raw cutoff falls on an
hour and the others on a day is what keeps a bucket from being cut in two.

* `TypesHold`;
* `NothingIsMissing`: the three parts of a query cover each point at least once;
* `OnlyOverlapIsRepeated`: they cover none twice but those of the stored points that
  have come of age since the last pass;
* `SeriesAreExact`, `SummariesHold`: in the hour of a pass days, hours and the totals of
  a tenant or of one of its boxes are exact;
* `CountersCountAll`: the sum of a counter's values is at least the sum of the highest
  readings since each start.  `CountersOK` strengthens it to a bound for each reading,
  which a purge or a late reading preserves;
* `InOrderIsExact`: a reading newer than all before it adds exactly the growth.

Only model-checked: the liveness properties `WaiterServed`, `ExpiredIsStopped`,
`RequestsEnd`, `OutboxDrains` and `AttemptsEnd`, which are beyond the prover, as is
`ENABLED`.  Every invariant and every action property that a passing run checks has a
theorem; those of failure-free states say so.

## Plan

Done: the lock, the manager, the Insights pipeline, the history, the login, and proofs
of all their safety properties.  Left, in this order:

1. A run for the create that adopts the identity of a volume that is being purged.
2. The window of the ingest rate limiter; collector health; retention of snapshots.
3. The normalisation of provider series (`insights_store.py:1217`, which assigns a
   total where several rows of one kind may meet) against the sums of `history`.

## Not modelled, and why

Parsing, validation and rendering (configuration, API models, privacy filter, web
interface, CLI output) are pure functions of their input.  Token signatures and
hashes are taken as unforgeable values.  Shell scripts of the image and the chart
are declarations; the chart's single-replica rule appears as an assumption.
The groups of a summary (`_summary_groups`) are left out: total, keys and each group are
read through separate connections with writers in between, and only the first 200 keys
are read, so they need not add up to the total and the code does not say they do.  A
query of activity with a fixed *since* and no *until* is left out: no commit leaves its
window.
The formulas that turn series into dashboard cards (`_summarize_ai`,
`_normalize_series`), exports, backup and compaction only read or copy tables.
The ingest rate limiter appears as a refusal that may always happen.  CSRF values,
cookie attributes and token encodings are abstracted to what a credential says.
Logging out only makes a browser forget its cookie, so it is no step.
Resource sizes, ports and the rest of the pod specification are abstracted to a
template value, since no protocol depends on them.
