# A TLA+ model of the hola server

hola installs and runs self-hosted applications ("deployments") as Docker
Compose projects. One Bun process (`packages/server`) serves an HTTP API, keeps
its records in SQLite and in JSON files, and runs every piece of lifecycle work
(install, upgrade, restart, rollback, uninstall, backup, restore) as a job.

The process is one JavaScript thread, so its concurrency is that of `await`: a
handler runs undisturbed from one `await` to the next, and anything may happen
in between. That is the grain of every module here: **an action is the code
from one await to the next**. What survives a restart is what was on disk; a
`Crash` action loses the rest.

Paths below are relative to `src/packages/server/src/services/core/`.

## 1. The system

| Component | State it keeps | Operations | What is hard | What makes it correct | Module |
|---|---|---|---|---|---|
| Job service, `jobs.ts` | the jobs table; queue, slot counter, cancellation flags, per-deployment locks in memory | create, run (with checkpoints, retries and simulated steps), cancel, discard, clear, recover, `runExclusive` | every public call is asynchronous and may start recovery; tick is called from five places; restarts leave rows behind | work for one deployment never overlaps; no lock or slot leaks; no queued job is lost or run twice; outcomes are final; everything queued ends | JobQueue, LifecycleLock |
| Deployment lifecycle, `deployment.ts` | records and releases in memory, one JSON file per record and per release, the `current` pointer, staged compose files, snapshots, the app's data root and containers | createFromDraft, promote, rollback, executeAction, deleteDeployment (also forced), runLifecycleJob, loadFromStorage | a promotion is four writes; each may fail or be the last before a restart; calls and jobs hold on to the same record object across awaits | record, releases and pointer agree; a restart loses nothing; data is never replaced under running containers; jobs do what they were created for | DeploymentLifecycle |
| Choice of an upgrade, `server.ts`, `upgrade-target.ts`, `catalog.ts`, `deployment.ts` | the catalog's index, a day old; the record's version and channel | promote with or without a version, forced refresh, skip guard | the target, the draft and the judgement read the deployment at three different times | no needed version is skipped; nothing newer is missed | Upgrades |
| Restore broker, `deployment.ts`, `restore-broker-state.ts`, `json-record-store.ts` | one file of requests, pins of waiting jobs in memory | the waiting deploy job; the provider's poll, claim, complete; expiry and pruning | a remote provider that may die, be late or call twice; file faults that are swallowed | a claim is exactly-once; outcomes stand; a waiter never loses its record; every wait ends | RestoreBroker |
| Restore on install, `deployment.ts`, `restore-candidates.ts` | `restoreStarted`, `restored` in the record | check the target, capture the source, land and apply, start | the job may fail or the server stop after its data began to land; the source lives on | the app's first start is on restored data; the source is not left prepared | RestoreOnInstall |
| Choice of what to restore, `restore-candidates.ts`, `draft.ts`, `deployment.ts`, the route | the choice in the draft; identity and environment records beside the apps' data | list, judge at draft, at install and in the job | four looks at a source that nothing locks; records that are missing or old | what is restored is what was accepted; what was offered is not refused without a reason | RestoreChoice |
| Restore index, `restore-index.ts` | one file of published captures | publish, poll, discard | read-modify-write without a lock | a lost publication comes back | RestoreIndex |
| Backup broker, `deployment.ts`, `backup-broker-state.ts` | one record: the open prepare; a timer | prepare (a fleet-wide job), finalize, expiry | the timer is lost in a restart; sweeps race new prepares | dumps do not stay in the data roots | BackupBroker |
| Replacement of a data root, `snapshot-fs.ts` | the root, the extracted tree, the superseded tree | extract, move aside, move in, move back | every move may fail, be a copy, or be the last before a restart | the data is whole in one place at every moment; a call that throws leaves the root as it was | DataSwap |
| Drafts, `draft.ts`, `storage.ts` | `draft.json`, uploads, staged files and a manifest for each draft; all listed in memory | create, update, upload, remove a file, delete, finalize, read the finalized artifacts | writes that overtake each other, a finalize whose draft changes under it; drafts never expire | a draft names nothing that is not there; what is handed over was validated | Drafts |
| Settings, `catalog-sources.ts`, `registry-credentials.ts`, `config.ts` | three files read and written whole | add, change, remove, show and save a form | no lock; unreadable files; secrets that are not shown | what was entered stays | SettingsStores |
| Bundle cache, `bundles.ts`, `bundle-cache.ts` | a directory for each bundle, a marker with its digest, the in-use marks | pull, verify, evict | eviction runs beside another pull; tags are republished | what a call returns is complete and what its marker says | BundleCache |
| Hosts and single copies, `routing.ts`, `deployment.ts` | routes in memory and in the proxy's file, listed deployments | createFromDraft's checks, activate, release, reconcile | the claim is checked several awaits before it is made | one holder for each host and single app | Installs |
| Identity provisioner, `provisioner.ts`, `deployment.ts` | remote providers, applications, the outpost's list; refs in the record | provision, reuse, roll back, bind, deprovision by ref or by name | remote partial failure; refs are saved last; the outpost is shared | nothing is orphaned; a gated app starts with its gate bound | Provisioner |
| Log on disk, `lib/file-logger.ts`, `logging.ts` | a buffer, a chain of flushes, files | log, flush, rotate | flushes queue up; appends fail half way | no entry is lost, doubled or reordered; log calls return | FileLog |
| Live view of the web client, with `event-bus.ts`, `utils/sse.ts` | the stream, the queries' data, a cache of answers in the SDK adapter | reconnect, heartbeat, patch, refetch, the operator's own actions | streams are lost silently; events, answers and the cache cross | an open page ends up current and does not go back | LiveView |
| Install wizard of the web client | the draft it shows, updates and removals on their way | choose, edit, install, leave | functions of an earlier rendering go on | it installs what it shows and leaves no drafts behind | Wizard |
| Push of data, `packages/cli/.../data-push.ts`, `deploy-flow.ts`, the push routes | what the command knows; the app's data, moved over SSH past the server | list, stop, transfer, give back ownership, hook, start | requests, jobs and commands fail; the answer of a stop is lost; others act on the app; the command is killed | bytes move under a stopped app, no app stays down, success means all was done | DataPush |
| The platform on its host, `packages/cli/.../bootstrap.ts`, `update.ts`, `teardown.ts`, `packages/compose/scripts` | VERSION and bundle, `.env`, volumes, containers, snapshots | bootstrap, reinstall, update, teardown, install.sh | each is a series of remote commands that may end anywhere and is tried again, or followed by another | the secrets stay those of the database; a snapshot first; success means the version runs | HostInstall |
| Docker service, compose handling, docker proxy | none (CLI calls) | up, down, pull, restart; rewriting of compose documents | calls that time out half done | modelled as calls with either outcome | |
| Authentication, contracts, database, configuration, monitoring, validation, shared types, the other pages, the other commands, SDK | | | no protocol between actors, or none here | | |

How they interact: HTTP handlers call one service method each. The lifecycle
service creates jobs in the job service (`executeAction`, `rollback`, `promote`)
and registers `runLifecycleJob` as their executor; for work that must not meet a
job (promote's snapshot, uninstall) it takes the same per-deployment lock with
`runExclusive`. A deploy job that installs from a capture waits inside
`runLifecycleJob` on the restore broker's store, which the provider's HTTP calls
change. Backups reach into every deployment's data root without any lock, and a
restoring install reaches into its source's. The routes call the draft service,
the catalog and the lifecycle one after the other, with awaits in between; the
web client sees all of it through requests, one stream of events, and a cache;
`hola app data push` through requests and polling. The host commands use SSH, and
meet the server only in the token it leaves in its volume.

`PROJECT.json` lists every component with its status and every place in the
code that is hard to test ("hazards") with the properties aimed at it.

## 2. The modules

### JobQueue

`RealJobService` and its `DeploymentLocks`, complete but for progress and logs.

* `row`, `born` are the jobs table (status and creation order); everything else
  is memory: `queue` with the order of pushes (`turn`), `held`/`waiters` (the
  locks), `running` (slots), `cancelled`, `started`/`startup` (recovery).
* `phase[j]` is the await at which `runJob(j)` waits; `create`, `cancel`,
  `discard`, `clearing`, `excl` do the same for the calls around it, and hold
  what each call read before its await (`cancel[j]` is the status `cancelJob`
  saw).
* `Tick` is the synchronous dispatcher. It is a conjunct of every action whose
  code calls it (`Enqueue`, `Finish`, `ExclusiveTick`, `Recover`), never an
  action of its own. `Picked` says which jobs one tick takes: the first
  runnable ones in order of their push, one per deployment, up to the free slots.
* `EnsureStarted`, `ReadOrphans`, `ReadPending`, `FailOrphan`, `Recover` are
  `recoverAndStart` await by await. `InitializeFails`, `RecoverFails` and
  `StoreFails` are database calls that throw.

### DeploymentLifecycle

One deployment, its API calls and the jobs they start.

* `listed`, `deployment`, `release` are the maps in memory; `meta`, `pointer`,
  `stored`, `staged`, `runtime`, `snapshot` the files; `containers` and `data`
  the host: which release's containers are up, and which release last ran on
  the data root.
* A release is named by the call that creates it, and so is the job the call
  queues. `call[c].at` and `job[j].at` name the pending await; `doc` is the
  document a pending write will land, fixed when the write began. Two pending
  writes of one file may therefore land in either order.
* `DemoteRelease`, `ActivateRelease`, `RecordRelease`, `SwitchPointer` are the
  four writes of `promoteRelease`, shared by `promote`, `rollback` and
  `createFromDraft` as in the code.
* The job service appears as what JobQueue establishes of it for one
  deployment: a lock with one holder (`holder`), `runExclusive` callers before
  queued jobs (`waiting`, `queue`), and a recovery that resumes pending jobs and
  fails orphans (`cold`, `Recover`). Slots are shared with other deployments:
  a tick may find none, and the job then starts at a later one (`TickLater`).
* Compose calls, pulls and snapshots succeed or fail, and a failing `up` may
  leave containers up or not. A restart may catch a job that has been dispatched
  before or after its row says so; `Crash` chooses.

### RestoreBroker

The request queue of the restore@1 contract: `wait[r]` is the deploy job that
waits for request `r`, `claim` and `report` the provider's calls, `store` the
file, `waitedOn` the pins that keep a record from being pruned. The store runs
its operations one at a time, so one of them (read, change, write) is one step;
a handler that needs two can be overtaken in between. `Seen` and `Written` are
the two ways the file fails: a read that fails counts as an empty file and a
write that fails is reported to nobody, both as in `json-record-store.ts`. Time
is two facts that become true at some moment: the deadline of a request has
passed (`due`), and its retention has ended (`aged`).

### LifecycleLock

What the lock of a deployment promises, with nothing of how: `owners[d]` is
empty or one job or caller, `line[d]` the callers waiting. A free deployment is
taken, an owned one is joined in line or left, and who leaves hands over to the
first in line; only when nobody waits may a job follow. `Restart` frees
everything. JobQueue's `ImplementsLock` instantiates it with the jobs in flight
and the `runExclusive` bodies as owners; DeploymentLifecycle's `SharesLock` does
so with its `holder` and `waiting`. Both modules thus answer to one statement of
what the lock is. The converse, that DeploymentLifecycle allows everything
JobQueue's lock may do to one deployment, is not checked; its dispatcher may take
the first queued job, or not, whenever the lock is free and nobody waits.

### Components that stand by themselves

These share no state with the modules above nor with each other; where one of
them takes part in a lifecycle job (RestoreOnInstall, Provisioner, Installs), it
takes what it needs of the lock: one job of a deployment at a time.

* **BackupBroker.** `record` is the open prepare on disk, `dump[a]` the round
  whose dump lies in app `a`'s data root, `timer` the armed expiry, `job` the
  prepare job await by await. The three handlers that run everybody's post
  hooks (the prepare that finds an expired one, the timer, the finalize) are one
  set of actions (`Look`, `List`, `PostHook`, `Close`) over `sweep[w]`, which
  keeps what each of them saw. Time: a window passes (`WindowPasses`), in order.
* **RestoreIndex.** `index` is the file, `call[p, kind]` a publish or discard
  with the file it has read; `Poll` answers with the request to publish again.
* **DataSwap.** `dir` says what lies in the root, the extracted and the
  superseded tree; `move` is the `moveDir` under way: a rename, or a copy and a
  removal. `MoveFails` and `Crash` strike between any two of its steps.
* **RestoreOnInstall.** `record`/`saved` (memory, disk) hold status,
  `restoreStarted`, `restored` and whether a later release was promoted; `root`
  what lies in the data root; `job.at` the stage of the job; `source` the other
  deployment, which may change or vanish at any moment.
* **RestoreChoice.** `source` is the deployment a candidate describes (`data` the
  version its data is of, `says` the record's, `marker` and `env` the records
  beside the data), `capture` a provider's; `listing`, `draft` and `install` are
  the looks at it, and `stale` names those since which it has changed. Versions
  are ranks, and one candidate suffices: no judgement looks at two.
* **BundleCache.** `disk[d]` is a directory (complete or half, of which
  digest) with its marker, `inUse` the set of marks, `call[c]` a pull. Marks are by key,
  directories and cleanup by the sanitized name, `Dir[b]`.
* **Provisioner.** `providers` (by kind and name), `applications` (by slug, which an
  app's client and gate share) and `bound` are the remote side; `ref`, `saved` what the
  record knows; `job` goes through `provisionAuth`, each request of which may fail
  before or after it was carried out, and `tear` says how far each part has been torn
  down, the parts side by side (`onDeprovision` settles both).
* **Installs.** `host[d]`, `gate[d]` what an install wants, `map` the routes in
  memory, `config` the proxy's file, `at[d]` how far the install is.
* **Drafts.** `record` is the draft in memory, `disk` its files, `call[c]` a
  request with the snapshot it is going to write.
* **Upgrades.** `published` and `index` (the catalog and the copy of it),
  `deployment` (what runs, what the record says, its channel), `call[c]` a
  promote with what it has read so far. Versions are their ranks.
* **SettingsStores.** `store` picks one of the three files, which differ in what
  they make of an unreadable one; `wanted` is what the successful calls asked for.
* **Wizard.** `chosen`, `draft`, `form`, `page` are the page; `task` the
  functions that replace the draft, `patches` and `removals` requests on their
  way, `install` the click on Install with what was shown then. `form` numbers the
  settings of each kind by their edits: those of the app, which begin anew with a
  new draft, and the overrides of the system's variables, which nobody resets. An
  update sends one kind or both (`sends`).
* **FileLog.** `buffer`, `chain` (who waits for a flush), `batch` of the flush
  that runs, `disk` what the files hold.
* **LiveView.** One page of the dashboard, the list or the detail, and one
  deployment whose states are numbered. `events` are on their way in the stream,
  `view.fetch` is the query's request, `cache` the answer kept in the SDK
  adapter, `stray` a request whose fetch was started over and which will still
  put its answer into the cache.

* **DataPush.** `push` is the command (`quiesced` is its variable of that name),
  `job` the rows of its two jobs, which the job service runs one after the other;
  `data` what lies in the target, whose it is and whether the hook saw it; `lost`
  remembers a stop whose answer never came, `meddled` that others acted.
* **HostInstall.** `files` is the unpacked bundle (the VERSION file and the rest),
  `env` the keys of `.env` that matter, `volumes` the secrets the database was made
  with, `up` what the containers were started with, `run` the command. Secrets are
  numbered by the run that generates them. The directory may or may not have the
  project's name (`ours`), on which bare `docker compose` calls depend.

### MC modules, proofs

`MCJobQueue`, `MCDeploymentLifecycle`, `MCRestoreBroker` hold the values given
to constants and the symmetry sets. `MCPlatform` and `MCServices` instantiate the
components that stand by themselves: the first state picks one (`which`), only
that one moves, and all of them use the same variables `v1` to `v13`, so that one
run checks each of them on its own instance. Their properties say
`which = ... =>` and name the property of the component. `JobQueueProofs`,
`LifecycleProofs`, `RestoreBrokerProofs`, `DraftProofs`, `BundleProofs` and
`ProvisionerProofs` hold the theorems about the module they extend; `ServicesProofs`
takes those of the last three to MCServices and proves what is theirs of
SettingsStores, Installs, DataSwap, FileLog, RestoreChoice, Upgrades and RestoreOnInstall,
`ClientProofs` what is theirs of DataPush, HostInstall, LiveView and Wizard. An operator
whose comment begins with "Mutant" is a variant of the definition below it with a
plausible bug; `PROJECT.json` names the property that each of them breaks. No
specification uses one.

## 3. What is checked

| Run | Instance | Properties | Distinct states |
|---|---|---|---|
| `jobs_core` | 3 jobs (two of one deployment, one of none), 2 slots, 2 callers of `runExclusive`, cancel of one job, clear | LifecycleExclusion, HeldExactlyWhileOwned, SlotsAccountedFor | 1.6 million |
| `jobs_restart` | 3 jobs, 1 caller, a discard, one restart and one database fault anywhere | EachJobDrivenOnce, OutcomeIsFinal | 2.6 million |
| `jobs_live` | 2 jobs of one deployment, 2 callers, a discard, a restart | ImplementsLock, NobodyStarves | 0.1 million |
| `life_serial` | 4 calls of ten kinds, one at a time, with their jobs | TruthfulStatus, NoTombstone, PromotionConsistent, JobBringsUpItsTarget | 0.9 million |
| `life_overlap` | 3 calls of the kinds that contend for the lock, two at a time | DataTouchedOnlyWhileDown | 1.4 million |
| `life_restart` | 3 calls of ten kinds, one restart and one failing write anywhere | RestartLosesNothing, RollbackRestores | 1.2 million |
| `life_live` | 2 calls that may overlap, a restart | SharesLock, EverythingEnds | 0.16 million |
| `restore_queue` | 2 requests, 2 claims, 1 report, one restart, file fault or withdrawal of consent | ExactlyOnceClaim, WaiterKeepsRecord, OutcomeStands, EveryWaitEnds | 0.4 million |
| `platform` | BackupBroker, RestoreIndex, RestoreOnInstall and a small LiveView, each by itself, with faults | TypesOK, DumpsReleased, IndexHeals, SourceReleased, ViewsConverge | 0.19 million |
| `services` | BundleCache, Provisioner, Installs, Drafts, Upgrades, RestoreChoice, RestoreOnInstall, SettingsStores, Wizard, FileLog, LiveView, DataSwap, DataPush and HostInstall, each by itself, with faults | TypesOK, DraftsKept, RestoresAsAgreed, NothingForgotten, WizardTrue, BundlesWhole, ClaimsHold, LogKept, PushKeepsWord, NothingLost, StartsRestored, UpgradesRight, IdentityFollows, ShowsNothingOlder, HostStaysWhole | 3.8 million |
| `life_wrong_release`, `log_wedged` | expected violations, see below | | |

Some properties state two halves of one promise: `TruthfulStatus` also says that
work done leaves a settled status; `PromotionConsistent` that a snapshot names
the release it was taken from; `RestartLosesNothing` that the pointer on disk
names a release that is staged; `NothingLost` that a swap which throws leaves the
old root in place; `StartsRestored` that a refusal names the right reason;
`RestoresAsAgreed` that the restored data and configuration are those the operator
agreed to, and that what was offered is not refused without a reason; `WizardTrue`
that what is installed was shown and that no draft is left; `PushKeepsWord` the three
promises of a push and `HostStaysWhole` the four of the host commands;
`DraftsKept` that `draft.json` names nothing that is not there and that what is handed
over was validated; `UpgradesRight` that no needed version is skipped and no newer one
missed; `BundlesWhole` that a marker is true of its directory; `IdentityFollows` that no
remote object is orphaned and that a gated app starts bound; `ShowsNothingOlder`
that the view does not go back, and that it shows the operator's own action once
that is answered. The type invariants of JobQueue, RestoreBroker and
DeploymentLifecycle are in no run: they are part of, or follow from
(`LifecycleProofs!TypesHold`), the proved invariants of section 4. Those of the
other modules are `TypesOK`.

**Why these bounds are enough.** Two jobs of one deployment are what exclusion
and ordering are about, a third of none is what makes a second slot and a
skipped queue entry matter; two `runExclusive` callers make a line. In the
lifecycle, three calls give an install, an upgrade and a rollback with one
release to spare; four add an uninstall or a second upgrade. One restart, placed
anywhere, already meets every await; the second restart of a system that has
recovered finds the same kind of state. Two claims and one report per request
suffice for a race of each kind, and the second request is what pruning needs
to have a newer closed record than the one it drops.

For the components that stand by themselves: two apps and two rounds let a late
sweep of one backup meet the next one; two providers and two captures are a
lost update and the capture that heals it; three swaps are one that fails, the one
that tidies up and a clean one; three jobs of an install are the first start, its
retry and a job after a later promotion. Two bundles, one republished under its
tag and one with a directory that is not named as its key, are an eviction beside a
pull, of a bundle that its mark protects and of one that it does not; three apps share an outpost,
one with a client and a gate and two gates, and two installs contend for a host. Two drafts of two calls each with one file are every overlap of two
writes of a draft, with one restart or fault between them. Three versions, the
third a prerelease and the second a waypoint, are what an upgrade can skip or
miss. A candidate is older than the target and a waypoint, of the same version, or newer,
and changes once between any two looks at it. Two calls over two
entries, each absent, without its value or with it, are a lost update of a settings
file; of several values the theorem speaks. The wizard has two updates in flight,
two drafts and an edit of either kind, kept across a channel or begun anew. The log has four
entries and files that are full after two, so that a flush, a rotation and a
second file fall into one behaviour. LiveView has one page, since pages meet only
in the stream; `ViewsConverge` runs on two states of the deployment with two
losses, `ShowsNothingOlder` on three with the operator's actions and one loss.

**What holds only in part, and is stated so.**

* `EachJobDrivenOnce` and `OutcomeIsFinal` speak of the jobs that nobody asks
  `cancelJob` to cancel (`Uncancelled`). The theorems of section 4 hold beside any
  cancellations of others; the run has none (`CancelTargets = {}`), with which its
  instance would be too large. `cancelJob` writes `cancelled` on the strength of
  a status it read earlier (`jobs.ts:503-525`) and does overwrite the outcome of
  a job that ended in between. They also except database faults, where the
  `catch` of `runJob` records a failure over a completion whose read-back threw.
* The properties of `life_serial` are promises to one client that waits for its
  answers (the jobs of its earlier calls run beside its later ones). With
  `MaxUnderWay = 2` TLC refutes each of them: `assertNotBusy` looks at the
  lock once, the calls then run into each other, and a `rollback` or a `restart`
  writes back the record an uninstall has just removed.
  `DataTouchedOnlyWhileDown` is the promise the lock makes for overlapping
  calls, and is checked for them.
* `EveryRequest`, the calls of `life_serial` and `life_restart`, has neither the
  `delete` action, whose job records `stopped` whatever compose down answers and
  so breaks `TruthfulStatus`, nor the forced uninstall, which is in `life_live`.
* `RestartLosesNothing` excepts a previous failed write; `ExactlyOnceClaim` and
  `WaiterKeepsRecord` likewise, because the record store swallows faults.
* The other modules name what they except in variables or fields of their own,
  each set where the code gives the promise up: `givenUp` and `disarmed` (a post
  hook that failed, a manifest that could not be read, an expiry timer that died with
  its process or could not read the record: BackupBroker),
  `excused` (a root that could not be put back, in DataSwap; a post hook that failed or a
  stop while the source is prepared, in RestoreOnInstall; a remote request that
  failed, or a manifest that could not be read, during an uninstall, in Provisioner), `raced` (two calls on one bundle or draft; a bundle
  evicted because its directory has another name than its key; a promote overtaken by
  another, or whose fetch failed), `contested` (two installs that passed the check of one
  host together), `crossed`, `kept`, `mishap` and `carried` (the wizard's drafts replaced
  while they are used, requests that fail, overrides that are still shown after the
  draft that had them was replaced, until they are sent again), `missed` (events the live view cannot
  know it lost), `torn` and `lost` (writes of a draft that overtake each other;
  log entries of an append that failed or of a restart), `stale` and `unmarked` (a source
that changed after a look at it, or whose identity record was not written:
RestoreChoice), `meddled` and `lost` (a push of data), `torn`, `kept` and `behind` (a
`.env` cut short by a crash, volumes a reset left, a CLI that did not update itself:
HostInstall). In SettingsStores a call
  that overlaps another, or finds its file unreadable, changes what is expected
  of the file to what it will hold. The comments there say which line is behind each. What
  remains is what the code does promise; the exceptions that surprise are listed
  below.

**Deadlock.** Every run says `CHECK_DEADLOCK FALSE`: the server does stop when
no client calls and every bounded call has been made. That nothing stops too
early is what the liveness properties say.

### Disagreements between code and text

| Run | Property | What happens |
|---|---|---|
| `life_wrong_release` | JobBringsUpItsTarget | After a restart `isDeploymentBusy` answers from an empty memory until recovery has run. A promote passes it while a deploy job is pending in its row, and the resumed job brings up the release the promote switches to: the outcome `deployment.ts:5696-5699` says is being removed. |
| `log_wedged` | LogCallsReturn | A log file that reaches its size is rotated inside a flush; `rotate` flushes what is buffered, and that flush waits for the chain it is itself part of (`lib/file-logger.ts:214`). No fault is needed: the flush under way never ends, and neither does any call that waits for a later one. JobQueue's fairness assumes that log calls return; `runJob` awaits one in its `catch` (`jobs.ts:377`), so a wedged log would keep the slot and the lock of every job that fails. |

Others met while modelling and not kept as runs.

*Jobs and lifecycle.* The job a forced uninstall cancels ends in its error path,
which writes the record back after the uninstall has returned, although
`docs/findings-uninstall-tombstone.md:50` says no late job can. A write of
`promoteRelease` that fails leaves the previous release demoted; the comment at
`deployment.ts:1250` says it is left intact. A job stopped by the target guard
throws before its `try` and leaves the deployment `installing` (5706); promote
takes the key of its snapshot before it has the lock (1699); rollback moves the
active release but not the displayed version (2162) and accepts a release that
was never active (2186); the delete job records `stopped` also when compose down
failed (5725); an uninstall unlists its record before it fails to remove the
directory (2114), which the next start lists again; `discardDeploymentJobs`
misses rows that are not queued yet (`jobs.ts:262`); recovery leaves the
deployment of an orphaned job in its in-between status (`jobs.ts:441`, a
documented limit).

*Restores.* A write of the request store that fails goes unreported, so two
claims of one request can be granted, which `restore-broker-state.ts:262` calls
exactly-once; `completeRestoreRequest` answers ok to a report that came too late
(4380). A restart or a promote after a failed restore starts the app on a
half-restored root, which `specs/007-restore-on-install/quickstart.md:81` says
does not happen. A publish on its way when its provider is uninstalled brings the
provider's index back. The comments of `validateRestoreChoice` and
`judgeRestoreChoice` (`restore-candidates.ts:625-632`, 697-705) say that the job makes
the same judgement again; it asks only whether the source is still there (5293), so one
that was upgraded past the target meanwhile is restored. Configuration is taken when the
draft is made and data when the job runs. An environment record that cannot be parsed
counts as carried and carries nothing (`draft.ts:375-392`).

*Hosts, identities, bundles.* The host of a gated app is unreserved until its
gate has been provisioned. An app's client and its fallback gate get the same provider
name and the same slug (`provisioner.ts:470`, 527, 542-544; 679, 724, 733-735), so
an identity provider whose slugs are unique refuses the gate's application and the
start fails, although `packages/compose/README.md:266` offers such apps; the stub of
`auth-provisioning.test.ts` takes both. So here an app of `Dual` never comes up, and
what is checked of it is what its failed starts leave behind. The provisioner calls itself idempotent
(`provisioner.ts:14-15`), but its refs are persisted only after the last of its
calls (`deployment.ts:5074-5077`); an outpost that is not found is only warned
about. The bundle cache marks use in a set, so the first of two pulls to end
unmarks the other; and it marks the key as it is written (`bundle-cache.ts:43`) while
cleanup asks with the names on disk, which are sanitized (116, `bundles.ts:192`): a
version such as `1.0.0+b1` may be evicted while it is pulled or returned, against "never
evict in-use bundles" (`bundle-cache.ts:29`).

*Backups.* A record that cannot be read counts as empty
(`json-record-store.ts:52-63`), and an empty record as not expired
(`backup-broker-state.ts:80`): the timer that reads it does nothing and is used up, and
the dumps lie until the next prepare that can read it. The comments say that failing
open "cannot leave a dump on disk forever" (`json-record-store.ts:28-30`), for the sake
of an unparseable time, and that a forgotten record costs "at worst a dump cleaned up
one backup later" (`backup-broker-state.ts:92`); the dump of an app that has stopped
meanwhile is not.

*Drafts, upgrades, settings.* An update that lands while a finalize validates is
accepted unvalidated; a delete cut short by a restart brings the draft back
without its files; an upload in flight writes a deleted draft's `draft.json`
again. The skip guard judges from `deployment.version`, which rollback never
updates; after a channel is left, an inferred promote takes an older version,
though `upgrade-target.ts:11` and `specs/005-beta-channel-ux/spec.md:104` say it
does not; a forced refresh joins a fetch that was answered before it; a waypoint
counts as passed even when its start failed. An unreadable credentials file counts
as an empty one, and the next change writes it so.

*Web client.* The first connection of a page does not refetch although the page
was loaded before the stream (`specs/001-web-state-freshness/spec.md:126`). The
refetch an event causes may be answered from the SDK adapter's 30-second cache
(`sdk-adapter.ts:224-227`), against lines 98, 105 and 124 of the same document. An
install clears one list only, since `/api/deployments` does not contain
`/deployments/` (405-408); actions leave the jobs list cached; a request in
flight across a mutation caches the older answer; an update equal to one still in
flight joins it although another was sent in between. In the wizard, keystrokes'
updates are not ordered; Back during Next is undone by Next's answer; leaving
while a draft is being created leaves that draft. What it installs is not all it shows:
neither `switchChannel` nor `applyRestoreChoice` resets `systemOverrides`
(`InstallWizard.tsx:352`, 612-634, 672-687), so after a change of the channel on the summary
the summary goes on showing overrides (2238-2254) that the new draft lacks, and Install
installs without them unless the operator goes back and Next sends them again. The
acknowledged permissions (379) are not reset either, although the comment at 620-624 wants
no consent carried over, nor the list of uploaded files (372). Volumes are shown (2288-2302)
and edited, but no update carries them (1050-1090, "aren't directly supported in
PatchDraftRequest yet"), and a compose override that was emptied is never sent
(909, 1143-1153). `WizardTrue` excuses the overrides by `carried`, and the module leaves
the rest out: its settings are those that an update can carry.

*Command line and host.* `watchJob` says it polls "until the job reaches a terminal
state" (`deploy-flow.ts:78`) and polls a cancelled job for ever. Its result is not
looked at: after a stop that failed the bytes move into the running app, although the
type says it "is stopped for the duration" (`shared/src/index.ts:612-617`), and a start
that failed leaves exit code 0. When the answer of the stop is lost the `finally` starts
nothing, although "a failed transfer must not leave the app down"
(`data-push.ts:287-288`); an app that was stopped before is started. A hook of a target
that stops the app runs while its containers are down, and so fails. The second look at
the ownership is at the directory alone. `--reinstall` says that it "resets the stateful
volumes so the regenerated secrets and the volumes move together"
(`bootstrap.ts:249-252`), but its commands end in `|| true`, so the check of their exit
code (279) never fires; and its bare `docker compose down` finds the project only in a
directory called `hola` or with a `.env` made from `.env.example` (`install.sh:200-204`
says so of its own calls): elsewhere the database's container keeps its volume, and the
new secrets do not open it. teardown ignores all exit codes and reports success.
`env_set` replaces `.env` by a move from `/tmp`, a copy when that is another file system.
update does not compare versions: an older CLI that cannot or may not update itself
takes the host back.

### Fairness, and why the code justifies it

* JobQueue: every await settles. Database calls, the executor (its Compose
  calls carry timeouts) and the bodies of `runExclusive` return; the health
  check is an entry point that starts recovery. Nobody is assumed to create,
  cancel or discard anything.
* DeploymentLifecycle: the same for calls and jobs, also those of other
  deployments, so slots come free (`TickLater`); `Recover` is fair because
  the first request that needs the job service, the dashboard's job list among
  them, starts recovery.
* RestoreBroker: the wait loop goes on (its sleep is a timer) and deadlines
  pass. The provider is assumed to do nothing at all.
* BackupBroker: handlers and jobs go on, armed timers fire, windows pass.
  Neither the provider nor the operator is assumed to come back.
* RestoreIndex: providers poll, which is what their contract asks of them, and
  calls end. Nothing makes them publish unasked.
* RestoreOnInstall: a job that runs goes on; nobody has to start one.
* LiveView: the server emits, a stream that is up delivers or is found dead by
  its heartbeat, requests end. Nobody has to look at the window.
* FileLog: file operations end.

## 4. What is proved

All theorems hold for every value of the constants that satisfies the
assumptions named in the modules: any sets of jobs, deployments, callers,
requests and calls (`Jobs` and `Calls` finite), any concurrency limit of at
least one, any number of restarts and faults.

**JobQueueProofs.** `LifecycleExclusionHolds` and `HeldExactlyWhileOwnedHolds`,
both from `Inductive: Spec => []IInv`. Exclusion is not inductive as it stands:
when a job finishes, its lock goes to the first waiter or is freed for the tick
that follows, so one needs that waiters are distinct, each waiting in one line
and only for a held key (`WaitInv`), that a key is held exactly while somebody
owns it (`Exclusive`), that no job in the queue is already at work and no two
share a turn (`Queued`), and, so that recovery and creation cannot queue a job
that is at work, that a job passes through the service once per process
(`OnceInv`) in an order given by its row (`BornInv`). `TickEffect` reduces the
dispatcher to the set of jobs it takes; every action that ticks then goes
through `TickKeeps`.

**JobQueueProofs, the lock.** `ImplementsLockHolds: Spec => Lock!Spec`. Steps are
matched deployment by deployment (`LockMove`): `IInv` before the step says that a
deployment a tick takes had no owner and no line (`FreeIsEmpty`), `IInv` after it
that it has exactly one now. The interesting step is `Finish`, which frees a slot,
releases a lock and ticks at once: for its own deployment it is `Leave`, with the
next owner the first in line, a job the tick took, or nobody (`FinishMoves`), for
every other one it is whatever the tick does there (`DispatchMoves`).

**JobQueueProofs, the limit.** `SlotsAccountedForHolds`: the slot counter is the
cardinality of the jobs in flight and stays below the limit (`Slots`). The tick
takes the jobs at the first places of the queue, one per free slot at most, so
what it takes is no larger than what is free (`TickSlots`).

**JobQueueProofs, the outcomes.** `OutcomeIsFinalHolds` and `EachJobDrivenOnceHolds`, from
`OutcomeInv`, which relates a job's row to where its driver is: the row of a job
whose executor is about to run says running (`RowInFlight`), of one in the queue,
in recovery's hands, in creation or taken off the queue for a discard says pending
(`Waits`), and what recovery and `clearJobs` have read is still true when they act
on it (`SnapshotInv`). Without a database fault nothing is forgotten
(`NothingForgotten`): recovery has in its snapshots what the table holds. Then no
write of an outcome meets a row that has one, except that of `cancelJob`.

**LifecycleProofs.** `LockInvHolds`, an invariant like that of JobQueue for one
deployment: a call or job is at a stage whose code runs under the lock exactly
while it is `holder` (`HolderInv`), line and queue hold those whose stage says so
(`LineInv`, `QueueInv`), a call starts at most one job and starts it late
(`StageInv`). It gives `TypesHold` and, step by step (`LockMove`), the refinement
`SharesLockHolds: Spec => Lock!Spec`; with `ImplementsLockHolds` of JobQueue the
lifecycle assumes of the job service what the job service gives.
`DataTouchedOnlyWhileDownHolds` and `RollbackRestoresHolds` follow from `DataInv`:
no containers while a snapshot is restored or a deployment torn down, none without
a compose file to stop them by (`DownInv`), and from the restore to the start the
data root is what the snapshot holds (`RestoredInv`). It is preserved because a job
at work and an uninstall past its teardown each hold the lock, so neither can be
under way beside the other. That is false of a forced uninstall, which does not wait
for the lock: the two theorems assume that no request is one (`Unforced`), and TLC
finds a forced uninstall that breaks `DataTouchedOnlyWhileDown`.

**LifecycleProofs, one call at a time.** What the lifecycle promises when calls are made one at a time
(`OneAtATime`, as in the runs that check these properties: the API lets calls
overlap, and two overlapping calls do break them). `SerialInv` turns that assumption
into facts about stages: at most one call is under way, each follows the route of its
operation (`Route`), and, while the server has not restarted, its job is the last
thing it starts (`CallsGoOn`, `JobsGoOn`). One lemma per operation says which stages
it leads to (`SwitchGoes`, `SaveGoes`, ...), and `NextSteps` reduces every step to one
of: a call moves, a job moves, both stand still. `JobBringsUpItsTargetHolds` adds
`TargetInv`: from the switch to the end of its job nobody else writes the record, so
the pointer the job reads is the one the call wrote. It assumes no restart
(`MaxCrashes = 0`), and no more: faults and forced uninstalls are included, and the
run `life_wrong_release` shows what a restart does. `NoTombstoneHolds` follows from
`AbsenceInv`: a call before its removal finds the deployment listed (`ListedInv`), an
uninstall past it leaves nothing behind (`GoneInv`), so a restart has nothing to load.
It allows restarts and assumes no failed access to the disk (`MaxFaults = 0`), since
the code steps over a removal that fails.

`RestartLosesNothingHolds` is about memory and disk. `DiskInv` says how far apart they
may be at each stage: the file of every release says what memory says but for the one
release a call is writing (`Courses`), a release with a record has its compose file
and the pointer names one that has both (`FilesThere`), and the release a restart would
pick from the files is the current one except between the two writes of a switch
(`CurrentsAgree`). A restart is a step like any other here, so the invariant also says
what the next process may rely on. Nothing but calls one at a time and no forced
uninstall is assumed; the property itself excepts what follows a failed write.
`PromotionConsistentHolds` adds `ActiveInv`: exactly the current release is active, but
for the two stages of a promotion at which none is or the new one already is. It
assumes no restart and no failed write, because the code writes the demotion before the
activation: a promotion cut short between the two leaves the previous release demoted.
`TruthfulStatusHolds` follows from `StatusInv`: the status agrees with the containers
unless a job is queued or between its start and its verdict, or an uninstall has just
torn the containers down. The step that counts is the verdict (`SettledStatus`): a job
writes *stopped* and *running* only after it has seen it, and a job that ends without
a verdict finds the deployment unlisted, since its release is the active one
(`DeclinedUnlisted` with `TargetInv`). Failing writes are included; a restart (whose
orphaned jobs leave *installing* behind) and the action `delete` are not.

**RestoreBrokerProofs.** `ExactlyOnceClaimHolds`, `OutcomeStandsHolds` and
`WaiterKeepsRecordHolds`, from the inductive `IInv` (`InitIInv`, `NextIInv`). The
argument is about a request's life: its record comes into being in one step, when no
call can name it yet (`BornOnce`), so it is never pending a second time, and the
compare-and-set lets through one claim (`ClaimedIsTaken`). `OutcomeStandsHolds`
needs no assumption about file faults; `ExactlyOnceClaim` assumes none has happened:
a write that fails and is reported to nobody lets a second claim through.
`WaiterKeepsRecord` needs that the pinned records are those of the jobs that wait
(`Pins`); pruning drops none of them (`PrunedSpares`), and no other step drops one
without a fault (`Spares`).

**DraftProofs.** `DraftKept: Spec => [](DraftDurable /\ HandsOverWhatWasChecked)`. A
write of `draft.json` lands after others that were asked for before or after it, so
`DraftInv` keeps the writes under way in the order in which they were asked for
(`WriteOrder`) and says that what memory holds is on disk or in the last of them
(`OnItsWay`). A blob is removed while older writes still name it (`Removed`), and one that
is being made is named by nobody (`Numbered`), which is why only a write that was
overtaken can name what is not there. `Gathered` says of each stage of a finalize and of
a read what the call holds. A finalize or a read disturbs no write (`QuietKeeps`), a call
that asks for a write stands behind all others (`PersistKeeps`). The proof found an error
in an earlier form of the module, three calls long: a failed write was taken as made good
by a write that had been asked for before it.

**BundleProofs.** `BundlesWholeHolds: Spec => []BundlesWhole`. `BundleInv` follows the
directory of a call that is alone on it through the pull: no marker before the files are
whole (`PullInv`), and, unless the tag was pushed again, the digest the call asked for
and the files it has are both what the tag names (`FreshInv`), whether it asked before
the pull or only for the marker. `CompanyInv` is why it is left alone: its bundle is
marked in use, so cleanup spares a directory of that name, and only a call on the same
directory would take that mark away; a directory of another name is followed as long as
it has not been evicted (`Kept`). `CallKeeps` proves once that a step of one call leaves the others what they
rely on.

**ProvisionerProofs.** `IdentityKept: Spec => [][NothingOrphaned' /\ StartsBound]_vars`.
`IdentityInv` holds of each deployment by itself: what its job is for at each stage
(`Acting`); that it owns no provider and has no ref but of the parts it wants (`Owns`), so
that an uninstall without refs still goes through all there is; that in an uninstall
none of whose requests failed, what is still there has its deletion before it
(`Cleared`): a provider in the tear-down of its own part, the application in that of
either. The list of the
outpost is the one thing they share, and every job writes all of it from what it has
read before: `StaysBound` says that once a start has bound its gate, whoever is about to
write the list has seen it there, unless that update was under way when the gate was
bound (`crossed`). `StepKeeps` proves once what the step of a job owes to the other
deployments; each action is then a matter of its own deployment.

**ServicesProofs.** `DraftsKeptHolds`, `BundlesWholeHolds` and `IdentityFollowsHolds`
state the properties of the run `services`, whose behaviours are those of any one
component: the component never changes, and a step of MCServices is one of its own.
The bounds of these components are constants of MCServices, so the theorems hold for
any number of calls, values and failures. The next seven theorems have their proofs here.

`NothingForgottenHolds: Spec => []NothingForgotten`. A call writes what it made of the
file steps ago, so `StoreInv` says of every call that is about to write
(`WritesAsAsked`): for an entry it was asked about, what it was asked; for any other,
what it read, unless it could not read or its form showed something else, which is what
`Conceded` excuses. `WhatIsRead` is where the three files differ: a call about sources
that cannot read has failed, so none carries an emptied list to its write.

`ClaimsHoldAlways: Spec => []ClaimsHold`. Two claims show in the map or in the list long
after they were checked, so `InstallInv` speaks of every pair of installs from their
checks on (`HostInv`, `CopyInv`) and of every route (`MapInv`: it is to its deployment's
own host, and that is installed or being removed). A directory that could not be removed
keeps its host and comes back with a restart, the one way to a claim that was never
checked.

`NothingLostHolds: Spec => NothingLost`, an action property. `SwapInv` says for each of
the moves of a replacement where the data that was found is at every operation of
it: whole in the root until the first move has finished, whole beside the root until
the second has, and never only where a copy or a removal is half done (`Extracting`,
`MovingAside`, `MovingIn`, `MovingBack`, `NotMoving`). A restart may strike between any
two operations, so this holds of what lies on the disk, whatever the process knows.

`LogKeptHolds: Spec => []LogKept`. An entry is in the files, in the batch of the flush that
runs or in the buffer, or a restart found it in memory (`Shapes`), each of the three holds
its entries in order and before those of the next (`Order`), and the entry whose call
flushes is out of the buffer as soon as its flush is the first of the chain (`Awaited`).
A failed append puts the batch back in front of the buffer, where it still is in order;
what it wrote all the same is what the property excuses. The proof rests on lemmas about
what sequences hold when they are joined or cut (`JoinedOrder`, `FirstElements`).

`RestoresAsAgreedHolds: Spec => []RestoresAsAgreed`. `StillTrue` says that what a look at
the candidate has found is true until the candidate changes (`stale`), `RecordsTrue` that
an identity record that was not lost names the version of the data. A judgement that
refuses nothing (`Passed`, `SkewMeans`) then means that the data is of a version the app
can take or that an operator has taken the risk (`AcceptedTrue`), and
`EnvironmentTrue` follows the environment from the look to the draft.

`UpgradesRightHolds: Spec => UpgradesRight`, an action property. `Awakened` says that the
fetch a call waits for is answered no earlier than the call came, or the call knows
(`raced`); `Inferred` that a target found in the index is the newest its channel offers
(`NewestIs`, `WokenIs`), so that it is older than what is recorded only when that is off
the channel; `Judged` that the path of a call that is staging has been checked from what
runs, unless another switch has come between. The floor and the waypoints may be any.

`StartsRestoredHolds: Spec => StartsRestored`, an action property. A restoring install may
be tried again after any failure and any restart, so `InstallInv` speaks of what lies in
the root and of what is recorded of it: where something of the payload may lie, the mark
that it is this install's own is in memory and on disk (`KnownAsOwn`, for which `Mark`
writes the record before the first file lands), a record that says "restored" is of a
restored root (`RecordsTrue`), and each stage of a job finds in the root what it goes on
from (`AtItsStage`). A refusal for somebody else's data is then right.

**ClientProofs.** `PushKeepsWordHolds: Spec => []PushKeepsWord`. `PushInv` ties the command to the rows of
its jobs and to the containers as long as nobody else has acted (`JobsFollow`: the start
is asked for only after a stop, and runs only once the stop has ended; `AppFollows`), and
says what a push that has met no error has done by each of its stages (`DoneSoFar`),
whoever else acts.

`HostStaysWholeHolds: Spec => HostStaysWhole`, an action property. Every command starts
from what the one before it left, wherever that ended, so `HostInv` says what is true of
a host between any two remote commands: the secrets in `.env`, in the database's volume
and in the containers are the same ones or none (`Matched`), the outpost is among the
profiles only with its token (`Outpost`), a bootstrap that has got past the probe finds
neither `.env` nor volume (`UnderWay`); and of the command under way what it has read,
archived and brought so far (`Snapshot`, `Brought`) and that an update whose CLI is up to
date aims at nothing older than what is there (`Onward`). `SetsIs` lists what a setting
of `.env` can leave, which five steps share.

`ShowsNothingOlderHolds: Spec => ShowsNothingOlder`, an action property. `ViewInv` says
that nothing the page has, keeps or waits for is of a state that is still to come
(`NothingAhead`), that an answer which has not come from the cache is no older than what
is shown (`AnswersAreNews`): it was given after the request was sent, and whatever an
event puts on the page later drops it; and that after the operator's own action all
that may still be kept knows of that action (`KeepsOwnAction`), a request that was started
over included (`Refetches`, `EventPatches`).

`WizardTrueHolds: Spec => []WizardTrue`. `WizardInv` promises nothing once functions that
replace, install or remove the draft have crossed, and before that: one function at a
time replaces the draft, and says of each of its requests which choice the page shows
and whether the old draft is gone (`Replaces`); the draft of an open page was made for
what it shows, and no update on its way to it is newer than that (`Shown`); where the
server has other settings than the page, the summary is not shown, and what turns the
page brings all of them (`Saved`), unless an update was lost since, or overrides were carried
over a replacement (`Matches`); and while the draft is
installed all of that stays (`Installs`). `NoneForgotten` has a place for every draft on
the server: shown, being shown, or being removed. Three lemmas share what the steps of
a replacement owe (`ReplaceBegins`, `ReplaceGoesOn`, `ReplaceEnds`); the update that is
answered is the step that counts (`AnswerSaves`).

TLC has checked the inductive invariants on the small instances.

**What is assumed.** The named assumptions of the modules, and nothing else:
finite sets of jobs and calls, a limit of at least one, values that stand for
"none" (`NoRelease`, `"missing"`, `"none"`) that are no release and no deployment,
numbered values of settings, a number of log entries, uploads and drafts, versions and
states that are positive numbers,
requests of the form the API accepts.

**Only model-checked:** every liveness property (fairness and `ENABLED` are
outside the proof system's reach): `NobodyStarves`, `EverythingEnds`,
`EveryWaitEnds`, `IndexHeals`, `DumpsReleased`, `SourceReleased`, `ViewsConverge`;
and the types of MCPlatform and MCServices, of which the inductive invariants hold what the proofs need.

## 5. What is left out

**In what is modelled.** Wording, progress figures, log lines and event payloads;
the contents of compose documents (one value per release); inside the lifecycle
job of DeploymentLifecycle, routes and identity provisioning (modules of their own), with
the extra write of the record after `provisionAuth`; retention of snapshots (one
per release is kept); a directory removal that fails halfway, except in Drafts;
files a provider goes on delivering after its request has expired (5530).
DeploymentLifecycle has one deployment: two share nothing but slots, which
JobQueue covers.

**Not modelled**, for each component of `PROJECT.json` that says so:

* *Docker service, compose handling, docker proxy*: stateless calls. What they
  answer is an outcome of the actions that make them; the rewriting of a
  document is string work with no state.
* *Database*: `database.ts` opens one file, applies its migrations once at
  start and hands out statements; every statement is modelled where it is made.
* *Authentication*: a request carries its credential and is judged alone.
* *Capability contracts*: the roll-up is computed from the records at each
  request; the consents that race with restores are in RestoreBroker.
* *Monitoring*: samples of the host, each replacing the last.
* *Validation, shared types*: pure functions of their argument; Drafts models
  when they are called and what their answer is about.
* *The other pages, the other commands, the SDK, the one-line installers*: they call
  and print.

## 6. Plan

Done: the modules of section 2, their runs, the proofs of section 4.

1. **Grants**: tokens and consents of contracts; two operators' host commands at once.
2. Compositions: LiveView with JobQueue's outcomes as its events; Upgrades with
   DeploymentLifecycle's rollback, which does not tell the version.
