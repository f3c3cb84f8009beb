# Verification of Open VideoCore

Open VideoCore is the API of a video platform on Open Source Cloud (OSC), with a
web console. A source asset is ingested, transcoded by Encore, packaged and
delivered; stacks of services are provisioned for it, its documents live in
CouchDB, its bytes in object stores, its queues in Valkey. This directory holds
TLA+ modules of the parts of it that keep state and can get it wrong, TLC
configurations that check them on small instances, and TLAPS proofs of the main
safety properties of the encode path and of nine other components.

Paths below are relative to the repository root (`src/encore-scaler/...`,
`public/...`); `PROJECT.json` prefixes them with the checkout directory `src/`
and maps every definition to its lines.

## 1. Inventory

| Component | State it keeps | Operations | Module |
|---|---|---|---|
| Scaler loop, retry gate, cancel reclaim, packaging pin (`src/encore-scaler/scaler-loop.ts`, `retry-store.ts`, `cancelled-job-reclaim.ts`) | queue, inflight list, pool and job keys in Valkey | `tick`: reconcile, sweep, scale up and down, dispatch; `decideRetry` | `ScalerTick` |
| Scaling client, `DELETE /jobs/:id`, `DELETE /pipelines/:executionId` (`index.ts`, `routes/jobs.ts`, `routes/pipelines.ts`) | job records | submit, cancel a job, cancel a run | `EncodeScaler` |
| Callback poller (`pipeline/encore-callback-poller.ts`) | sorted set, processing set, attempts, dead letters | handle, requeue, sweep, recover | `EncodeScaler`, `CallbackQueue` |
| Instance pool, spawn admission, callback trust (`instance-pool.ts`, `spawn-*.ts`) | pending and pool records, slots, hold-off | spawn, pair, promote, evict, reap, adopt | `SpawnLifecycle` |
| Scaler registry (`workspace-registry.ts`) | loops and connections per stack | get-or-create, observe, tear down, resume | `ScalerRegistry` |
| Activation and poller sync (`main.ts`) | shared bindings, pollers per Valkey | activate, deactivate, sync | `ScalerActivation` |
| Scaler configuration and status (`routes/scaler.ts`, `services/scaler-boot-config.ts`) | stored, live and enforced values | boot, PATCH, GET status | `ScalerConfig`, `ScalerStatus` |
| Transcode settling (`pipeline/transcode.ts`, reconcilers) | job, asset status, renditions, run | submit, dispatch report, complete, cancel, sweep, recompute | `JobSettling` |
| Packaging (`pipeline/packaging.ts`, `stalled-package-reconciler.ts`) | executions, package jobs, DRM block | start, callbacks, relocate, sweep, cancel | `PackagingFlow` |
| Media jobs (`pipeline/clip.ts`, `thumbnail.ts`, `subtitle-generator.ts`, ...) | child assets, thumbnails, tracks, platform jobs | start, poll, check, write | `MediaJobs` |
| Export (`pipeline/asset-delivery.ts`, `public/export-action.js`) | destinations, copies, the export block | list, submit, copy with a timer, verify | `Delivery` |
| Webhooks (`services/webhook-dispatcher.ts`) | registrations, dispatches | register, look up, post, give up | `Webhooks` |
| Profiles (`services/profile-bootstrap.ts`, `profile-index-publisher.ts`) | profiles per stack, published mirror | CRUD, bootstrap, publish | `ProfileIndex` |
| Ladder fitting (`pipeline/profile-level-fit.ts`) | none | a pass over a ladder | `LevelFit` |
| Asset lifecycle (`data/asset-repo.ts`, `couchdb.ts`, purge sweep) | asset documents with revisions, objects | create ... purge, retention sweep | `AssetLifecycle` |
| Archive tier (`archive-tier-relocation.ts`, `-rehydrate.ts`) | tier per class, objects in two tiers | relocate, rehydrate | `ArchiveTier` |
| Ingest (`url-pull-worker.ts`, `asset-upload.ts`, reconcilers) | assets, objects, parts, jobs | pull, four upload paths, boot pass, sweep | `Ingest` |
| Watch folders (`watch-folder.ts`, `watch-folder-wiring.ts`) | watchers, processed keys | listen, list, wire, stop | `WatchFolder` |
| Stack resolution (`workspace-stack.ts`, `request-stack-context.ts`) | cache, last-known-good | resolve, write document and bytes, migrate | `StackResolver` |
| Storage quota (`data/storage-quota*.ts`) | committed and reserved bytes | reserve, commit, release, sweep | `StorageQuota` |
| Provisioning (`routes/provision.ts`, `services/deprovision.ts`) | stack records, operations, instances | provision, tear down, packager | `Provisioning` |
| Storage backends (`storage-backend-registry.ts`) | records, secrets per service | register, test, update, remove, deliver | `StorageBackends` |
| Identity and versions (`asset-repo.ts`, `couch-asset-repo.ts`) | slugs, external ids, lists, version groups | create, attach, merge, version | `AssetIdentity` |
| Collections (`routes/collections.ts`, console dialogs) | one document, three write paths | patch, members, lock, delete | `Collections` |
| Console (`public/*.js`) | tables, columns, detail bodies, editors, drafts, review and lock blocks | every request, answer, timer and redraw | `ConsoleTables`, `ConsoleColumns`, `ConsoleDetail`, `ConsoleLists`, `ConsoleNotes`, `ConsoleTracks`, `ConsoleReview`, `ConsoleLock` |
| Auth, DRM documents, TAMS client, search, audit, logs | none of their own | guards, calls, queries | not modelled |

What is hard here. One Node process runs ticks, pollers, sweeps and any number
of requests, and the console runs renders and timers. They share Valkey keys,
CouchDB documents and page elements mostly without transactions: each reads,
awaits, and writes back whole values. Callbacks are lost or late, platform calls
time out and land all the same, instances vanish, stores fail to answer, the
process restarts. Reconcilers repair from snapshots that are themselves stale.
`hazards` of `PROJECT.json` lists where this bites, line by line.

How the parts interact. A transcode request (`EncodeScaler`) queues a job; the
tick (`ScalerTick`) claims and posts it to an instance that `SpawnLifecycle` brought
up; Encore's callback goes through the stack's `CallbackQueue` to the
poller's handler (`EncodeScaler`), which settles the job (`JobSettling` for the asset's side) and
starts packaging (`PackagingFlow`). `ScalerRegistry` and `ScalerActivation`
decide which loops and pollers exist, `StackResolver` which stack a request's
document and bytes go to, `Provisioning` which stacks there are.

## 2. Modules

```
ScalerTick     shared state, types, the helpers every process calls; one tick of
 |             the scaler loop and the hooks it calls
 \-- EncodeScaler   the poller's handler and sweep, submit, the
      |              cancels of a job and of a run, environment,
      |              composition, fairness, properties; checked by
      |              TLC as it stands
      \-- EncodeScalerProofs                   type invariant, cancel is final,
           |                                   attempt budget
           \-- EncodeWorkProofs                scale-down, one encode per job,
                                               every entry spent once, a holder
                                               for every unsettled job

CallbackQueue   implements  CompletionInbox    the queue that loses nothing
 \-- CallbackQueueProofs                       type, staging, the refinement;
                                               an INSTANCE of JobSettling: cap,
                                               how jobs settle

SpawnLifecycle                                 in MCBackend and MCProgress
 \-- SpawnProofs                               type, slots, promotion, live work

AssetLifecycle                                 in MCAssets and MCProgress
 \-- AssetLifecycleProofs                      type, state graphs, purges, sources

Collections                                    in MCConsole
 \-- CollectionsProofs                         type, lost updates, deletions

AssetIdentity                                  in MCConsole
 \-- AssetIdentityProofs                       ids, slugs, lists, version groups

ArchiveTier, ScalerActivation, ScalerConfig, ScalerStatus, WatchFolder, Webhooks,
ConsoleLock, ConsoleColumns, ScalerRegistry
 \-- ComponentProofs                           an INSTANCE of each: bytes and tiers,
                                               pollers, configuration, status,
                                               watchers, receivers, the lock's trail,
                                               tables that can be used, purges
                                               and resumes

MCBackend   SpawnLifecycle, ScalerRegistry, ScalerActivation, ScalerConfig,
            ScalerStatus, PackagingFlow, JobSettling, MediaJobs, Delivery,
            Webhooks, LevelFit                                  22 scenes
MCAssets    AssetLifecycle, ArchiveTier, Ingest, WatchFolder, StackResolver,
            StorageQuota, Provisioning, StorageBackends,
            ProfileIndex                                        26 scenes
MCConsole   the Console modules, Collections, AssetIdentity     21 scenes
MCProgress  scenes of these components under fairness           22 scenes
```

The encode path is one composed specification, and the callback queue, which
implements an abstract one, is checked by itself. The other components share no
variable with each other at the level of detail at which they are modelled; what
one does to another is a nondeterministic action of its environment (a callback
that may come, a stack that may change, another operator's write). The four
other MC modules therefore put them **side by side**: `scene`, chosen in `Init`
and never changed, names the component that moves and the bounds it moves under;
`v1`, `v2`, ... hold its variables. A behaviour is a behaviour of one component,
and the state spaces add up instead of multiplying. A property of such a module
is a conjunction "in this scene, that component's property".

### The encode path

| Variable | In the code |
|---|---|
| `queue`, `inflight` | the lists `encore:queue`, `encore:inflight`; a set of entries, ordered by a ticket `at`. RPUSH gives an entry its old place, the head, because only the head is ever claimed |
| `kv[j]` | the job's Valkey keys: status, instance, URL and UUID, terminal instance, attempts, payload, cancel marker, partial-visibility passes, packaging pin |
| `pool[i]` | `EncoreInstanceRecord`: active jobs, draining, cancel drain stamp; `aged` abstracts `lastIdleAt` to "older than the idle timeout" |
| `record[j]` | the CouchDB job: status and `droppedByScaler` |
| `alive`, `runs`, `msgs` | external: instances on OSC, the encodes Encore accepted, the callback queue |
| `tick`, `poller`, `canceller` | the locals of the three processes across awaits, with a `pc` |
| `hist`, `killed`, `mislaid` | history for properties only; `mislaid` is the jobs a failed call kept from being put back |
| `faults`, `crashes` | bounded counters |

An action is the work of one process between two awaits at which another process
can matter. In a tick: `TickStart` reads and probes the pool, `EvictVanished`
and `InterruptRequeue`/`InterruptLost` deal with vanished instances (a read, a
write or the prior attempt's cancel that throws there gives the remaining jobs
up, `InterruptFails`, `LostFails`),
`ReconcileInstance` and `ReconcileEnd` correct counts and classify drops,
`SettleDrop`, `DropRequeue`, `DropRequeueFails` are the drop hook of `main.ts`,
`SweepFailed` is `reconcileFailedTranscodes`, `NoScaleUp` ... `SpawnFails` the
scale-up with its minutes-long spawn, `ScaleDownKeep` ... `ScaleDownDestroy` the
teardown loop, `DispatchNone` ... `DispatchGiveBack` the dispatch: claim, POST,
record, LREM (`DispatchUnclaim`), then count (`DispatchCount`) or RPUSH
(`DispatchGiveBack`). A failed Valkey write after an accepted POST leaves one of
the partial states the code can leave (`DispatchRecordFails`); any other call of
the tick that throws outside a catch ends the tick where it is (`TickThrows`), so
an entry whose LREM or RPUSH failed stays in `inflight`, or nowhere. The poller pops and fetches (`PollFetch`,
`PollUnreachable`), stamps a success or decides on a failure, writes the record
and frees the slot; `SweepTerminalJob` and `StallDetected` are the sweep timer;
`CancelJob`, `CancelSave` are one `DELETE /jobs/:id`, which marks the record and
tells neither the scaler nor Encore, because `workspace-stack.ts:349` gives a
workspace with the scaler no `connections.encore` (`routes/jobs.ts:276-281`).
`CancelStart` (or `CancelUndrained`, when the client's first read throws),
`CancelMark` (or `CancelThrows`) and `CancelFail` are one
`DELETE /pipelines/:executionId`, which does hold the scaling client: it drains
the queue, POSTs the cancel, marks the keys, and settles the record. Encodes
end, callbacks are delivered or lost, instances go, time passes and the process
restarts (`Crash`).

### The other components

Each module begins with its state and where the code keeps it; the actions are
named after the functions. What each leaves to a constant or leaves out:

| Module | Modelling decisions |
|---|---|
| `CallbackQueue` | `Poison` messages always throw, `MaxThrows` others may; any Valkey call of the loop may fail (`MaxFaults`); a stop leaves the handler running, as in the code (`MaxStops`) |
| `SpawnLifecycle` | instance names are reused once nothing remembers them; one process; names from before the owner tag and message redaction left out |
| `ScalerRegistry` | `Overlap`: calls for one stack (and a tick at its teardown) may overlap; a teardown's survey is `Observe` of any caller; up to `MaxDown` stores, the parameter store (`Params`) among them, do not answer, and may come back; one store either takes the purge as a whole or not at all; an instance that OSC refuses to remove is logged and left, so it is not modelled |
| `ScalerActivation` | `Serial`: stack changes one after another; a re-provisioned stack has a new Valkey (`MaxIncs`); `StoreFails`: a read of the parameter store, or a write of a teardown, may fail; `blind`, `misread` are history: the last reconcile, or any, could not read it |
| `ScalerConfig` | one range for the three fields, a PATCH gives its fields one value; `Overlap`, `Lost` (a write that timed out lands later), `Toggles`; `said` and `named` are history; the 501 path left out |
| `ScalerStatus` | depths reduced to "has keys"; provision and teardown refresh the enumeration at once; a stack may come or go (`Churn`: go) between any two steps of a status read; `Blind`: the parameter store may not answer; `due`, `had`, `count` are history |
| `PackagingFlow` | the start of a transcode run is atomic with its write-back; each run has its own Encore URL; the success callback is a step per await, of which a read or write of the asset or the execution may throw, while the job helpers, which log their own failures, do not fail; `Cancels`: an operator may cancel a run; `enqueuePackagingStep` has no production caller yet and is started by the environment (`Direct`) |
| `JobSettling` | one asset, job number = listing order; a cancel of a job is local, as `connections.encore` is unset (`workspace-stack.ts:349`), a cancel of a run (`Abort`) reaches queue and encode and leaves step by step; `stray`: jobs posted after their record had ended (history); `Overlap`, `ReportFails`; archived assets, profile and burn-in checks left out |
| `MediaJobs` | one source asset, task i's job is job i; clip and re-wrap are one kind; a platform job may hang; `landed`, `manual` are history |
| `Delivery` | a version stands for its size; store calls may hang for ever; `Calm`, `Settled`: no rebuild during an export, no change of a destination within a request; `whole`, `seen`, `read`, `hit`, `listed` are history |
| `Webhooks` | the code has no retry; receivers owe nothing; signatures left out |
| `ProfileIndex` | a repository call is one step; a text is whose write it is, whether GPU-only and whether fitted; endpoint form, bucket policy and name checks left out |
| `LevelFit` | exact divisions where the program's are floating point; ladders of one and two rungs, 8 sources |
| `AssetLifecycle` | one key per asset stands for its objects; a handler's checks are taken at one instant; the collections soft block left out |
| `ArchiveTier` | no route starts the engines yet: an operator does |
| `Ingest` | one process at a time; archive and delete during a pull left out; quota admission is a choice of `OverCap`; a route's create, key and job writes are one step; heartbeats keep a PUT and a multipart upload fresh |
| `WatchFolder` | a torn-down stack's bucket vanishes; a missing name resolves to the first listed stack |
| `StackResolver` | a request is the preHandler, one document and its bytes, each with its own resolve; reads of the store are separate steps; `Overlap`: a stack change may overlap a request; one stale namespace |
| `StorageQuota` | `Quiet`: sweeps do not overlap uploads; ready stacks fixed; conflicts of the counter document are retried until they succeed |
| `Provisioning` | `Serial`: an operation is asked for when the last one has been reported; records are written whole; optional companions and request validation left out |
| `StorageBackends` | a record is name, role, key, token, endpoint; `Overlap`, `SaveFails`, `RolePatch`, `Slow`; `Checker` stands for the reference checker, which `main.ts` does not wire; `gone`, `made` are history |
| `AssetIdentity` | `repo.update` with its compare-and-set loop is one write; random slugs are unique; a purge leaves a tombstone, whose id (a ULID) is never reused; `kept` is history |
| `Collections` | value i is the text of request i; creation is the initial state; `Destroy` is atomic; `want` is history |
| `ConsoleTables` | one kind of table per scene, two pages; leaving the assets box flushes its debounce; only served requests fail |
| `ConsoleColumns` | column sets of releases and group rules come from `MCConsole`; order and focus left out |
| `ConsoleDetail` | `Quick`: a render ends before the next one starts in its body; sections grouped by await |
| `ConsoleLists` | a request is served at one instant; 400 and 401 left out; `refused`, `said.hit` are history |
| `ConsoleNotes` | every typed text has its own number; `Calm`: mounts and sends only at rest; `wants` is history |
| `ConsoleTracks` | the track routes read, then write; whether the audio form is open is left out |
| `ConsoleReview` | a left page goes on as a console that clicks no more; POST is a read and a write at its revision; `since`, `fresh`, `did` are history |
| `ConsoleLock` | request i carries note i; the page is built in one step; `Attempts` is 2 (5 in the code); `over`, `barred`, `since`, `wrote` are history |

## 3. Runs

| Run | Module, instance | Checks |
|---|---|---|
| `faults` | `EncodeScaler`: 1 job, 1 instance name, 2 encodes, 3 faults | `TypeOK`, `AttemptBudget`, `ScaleDownSparesLiveWork`, `NotStranded` |
| `live` | `EncodeScaler`: 1 job, 1 instance, 3 encodes, 1 fault, `FairSpec` | `EventuallySettled` |
| `cancel` | `EncodeScaler`: 1 cancellable job, 2 encodes, no fault, `FrozenSpec` | `CancelledIsFinal`, `CancelledEncodeStops` |
| `encode_pool` | `EncodeScaler`: 3 jobs, 2 instances, none kept warm, a queue cap of 2, 2 encodes, 1 fault or 1 restart | `EncodesSpent`, `OneEncodeEach`, `DropsReal` |
| `queue` | `CallbackQueue`: one poller, 2 messages of which one always fails, 1 throw, 1 Valkey failure, 1 stop | `StagedUntilApplied`, `NoCompletionLost` (refinement) |
| `backend` | `MCBackend`, 22 scenes | `SpawnsSparing`, `RegistryComplete`, `DrainedByOne`, `ConfigInForce`, `StatusTrue`, `PackagingTrue`, `SettlingTrue`, `MediaTrue`, `DeliveryTrue`, `LadderFits` |
| `assets` | `MCAssets`, 26 scenes | `DocumentsKept`, `TiersHonest`, `IngestKept`, `WatchedOnce`, `RoutedTogether`, `QuotaKept`, `ProvisionTrue`, `BackendsCoherent`, `ProfilesTrue` |
| `console` | `MCConsole`, 21 scenes | `TablesTrue`, `DetailTrue`, `EditsTold`, `DraftsKept`, `MovesFresh`, `CollectionsKept`, `IdentityKept` |
| `progress` | `MCProgress`, 22 scenes, `FairSpec` | `BackendSettles`, `ConsoleSettles` |
| `crash_strands_job` | `EncodeScaler` with one restart, `FairSpec` | `EventuallySettled` is violated |
| `instance_oversubscribed` | `EncodeScaler`: 2 jobs, 1 instance, no fault | `OneEncodePerInstance` is violated |
| `retried_finalize` | `Ingest`: presigned upload finalized twice | `ProcessingHasSource` is violated |

Why the bounds are enough for the interesting cases. *Encode path:* two attempts
and two encodes allow a first attempt and a retry, after which one entry more
would break the budget; three faults cover a failure while another is handled
(the constraint `FewMislaid` of `faults` follows no behaviour past its second fault
once a failed call has mislaid the job).
A fault is any call of the tick or the poller that fails, those that put a job
back included; `NotStranded` and `EventuallySettled` except the jobs these lose
(`mislaid`, section 5).
One instance name is reused after a teardown; two are needed only where a mapping
may point at the wrong one, or two jobs compete. The constraint
`FewDisturbances` of `encode_pool` lets at most two of {submitted job, fault,
restart} come together, and a third only where a drop is decided under partial
visibility; `EncodesSpent` and `OneEncodeEach` do not rest on it, they are
proved. When the encodes are used up the
dispatcher stops claiming (`RunsLeft`); three are enough for one job with one
fault, so the liveness run is not starved by that bound. *Other components:* two
of whatever competes (requests, consoles, stacks, watchers, runs) and enough
revisions, faults and restarts that the write of one meets the stale read of the
other, an earlier fault is met while a later one is handled, and a name is used
again after it was freed. Each scene states its bounds in its `INSTANCE`.

What the side-by-side properties say, part by part (each part has its own comment
in its module):

- `SpawnsSparing`: creates in flight stay within the slots although the slot is
  released by a hook and by a `finally`; a promoted instance has its listener;
  no eviction, adoption or reaping removes an instance with work on it.
- `RegistryComplete`: with calls for one stack one after another, a teardown
  reaches every loop and connection and leaves nothing to be written; with a Valkey
  or the parameter store down ("registry outages") it leaves keys only where a store
  did not answer or could not be learned of.
- `DrainedByOne`: after a reconcile that could read the parameter store, each Valkey
  that is there has one poller and the scaler is on while a stack is stored, through
  half-failed teardowns, failed reads and re-provisioning; a scaler that is off
  polls nothing.
- `ConfigInForce`, `StatusTrue`: a PATCH answered 200 stays in force over
  restarts; values stay in bounds with races; a known stack always has a row,
  stacks torn down during the read included, and while stacks are only added
  "empty" means looked at.
- `PackagingTrue`: with runs cancelled, started and swept between any two awaits of
  the success handler, no callback makes an asset `protected` for a package job that
  had settled before it came ("open runs", "package call"); without cancels no
  package job is left without a run to settle it ("orphans").
- `SettlingTrue`: with handlers one after another and jobs and runs cancelled, an
  ended job releases its asset, but for a job posted after its record ended, and late
  output of a cancelled job is reclaimed; submits one after another keep the cap.
- `MediaTrue`, `DeliveryTrue`: what is reported ready or delivered is stored,
  whole and in the version that was read; jobs do not outlive their run; one
  click is one export; an event goes to those registered for it.
- `LadderFits`, `ProfilesTrue`: the fitted ladder stays within its level with the
  widest rungs, a second pass changes nothing; the published mirror is the store
  and its index names only documents that are there.
- `DocumentsKept`, scene by scene. "writers": two overlapping requests, no sweep:
  with compare-and-set writes the state graph, the lock and tombstones hold.
  "purge": one request at a time, no sweep: a purge by request takes only what is
  archived, unlocked and named by no active job, and no shared bytes. "family":
  requests and sweep purges one after another, on an old listing: no child in use
  under a purged parent. "retention": two requests interleaved with the sweep, which
  checks neither lock nor shared objects (`archived-asset-purge-sweep.ts:141-176`):
  it purges only what is archived, and a ready asset has its source.
- `TiersHonest`, `IngestKept`, `WatchedOnce`, `QuotaKept`: no object is lost by a
  move; a processing asset has its source; a dropped file becomes one asset;
  stored bytes stay within the cap through restarts and failed sweeps.
- `RoutedTogether`, `ProvisionTrue`, `BackendsCoherent`: a document and its bytes
  go to one stack; a ready stack runs and fits its credentials; records, secrets
  and roles of backends agree.
- `TablesTrue`, `DetailTrue`, `EditsTold`, `DraftsKept`, `MovesFresh`: what is on
  screen belongs to the controls and the id it is shown for, an operator is told
  what became of a write, typed text survives.
- `CollectionsKept`, `IdentityKept`: concurrent writers of one document lose
  nothing of each other.

Some scenes restrict the environment (`Serial`, `Overlap <- FALSE`, `Calm`,
`Quiet`, `OneAtATime`). They do so where the code has no protection and the
property fails without it; those cases are in section 5. Other scenes have no
fault or no overlap to stay small or because a fault breaks the property: the
"profile edits" and "watch once" scenes have no failing call (`ProfilesTrue`,
`WatchedOnce`), the runs of one child do not overlap in `MediaTrue`, and no stack
changes inside a request in `RoutedTogether`. `queue` and `progress` have one
poller per Valkey: a stopped loop still at work beside its successor is not there.

`StagedUntilApplied` and `NoCompletionLost` of `queue` say that a completion is in
some set until it is applied or dead-lettered, but for the moment between its pop
and its staging, which the abstract `CompletionInbox` admits as its only loss.

Deadlock is checked for the encode path. The side-by-side runs, the queue,
`instance_oversubscribed` and `retried_finalize` stop when their bounded
requests, faults and changes are used up, so `CHECK_DEADLOCK` is off there.

## 4. Fairness

`SystemFairness` of `EncodeScaler` is what the code's scheduling gives. The tick
runs on a timer whose body is not re-entered, the poller is a loop and the sweep
goes over every finished encode of the pool: weak fairness of `TickStep`,
`PollerStep` and each `SweepTerminalJob`. Back-off and pin expire. Nothing is
assumed of callbacks, of the idle timeout, of stalls or of restarts. `FairSpec`
adds that encodes end, which is Encore's promise. `FrozenSpec`, for cancels, does
without that and adds that a cancel request which has begun goes on to its end
(`CancelSave`, `CancelMark` or `CancelThrows`, `CancelFail`) and that the grace
window passes.

`MCProgress` names the steps that the code's own scheduling brings about,
`Turn(1)` to `Turn(12)`: the next step of a task, loop or request that is under
way, a timer, a sweep of a timer, a platform call that ends (a create lands, an
instance comes up, an encode ends, a served request is answered). Turns 1 to 10
are weakly fair. Turns 11 and 12 are strongly fair: a sweep that looks at a run
or a job again and again although other steps disable it in between, the
operator's repeated start of a tier engine, and the redelivery of a callback that
is pending each time the poller looks. Nothing is assumed of operators, other
writers, lost answers, faults, crashes or webhook receivers; the boot of the
configuration rests on its own budget timer only.

## 5. Disagreements between comments and code

Three have a run. `crash_strands_job`: an entry claimed into `encore:inflight` is
read back by nothing after a restart, so its job stays queued.
`retried_finalize`: a finalize repeated after a lost answer is admitted again,
and a refusal deletes the object of an asset already in `processing`.
`instance_oversubscribed`: `decrementActiveJobs`
(`pipeline/encore-callback-poller.ts:494`) reads a pool record, takes one off and
writes the whole record back while the tick writes the same record from its own
snapshot; one of the counts is lost and a busy instance is given a second encode.

The others were met with the same modules under wider environments (the constant
in brackets) and are not among the runs. In each, the code does not do what a
comment near the line says:

Encode path and scaler
- `encore-scaler/index.ts:111`: the cancel of a run drains `encore:queue` only; an
  entry already claimed is dispatched after it.
- `services/workspace-stack.ts:349`: a workspace with the scaler gets no
  `connections.encore`, so `DELETE /jobs/:id` takes the local branch
  (`routes/jobs.ts:276-281`): the queue is not drained and the encode goes on, and
  the fallback handle its comment explains (`:250`) has no client to go to.
- `scaler-loop.ts:963-979`, `:1339-1416`, `retry-store.ts:190-240`: a failing LREM
  leaves the entry in `encore:inflight`, where `decideRetry` takes it for a retry
  that is under way; a failing RPUSH loses the entry; a job lost with its instance
  whose requeue throws is logged as stranded. No timer comes back to any of them
  (`mislaid`).
- `scaler-loop.ts:990`: a stall retry that requeues a job between the `CancelMark`
  and `CancelFail` of its run's cancel has it dispatched again, and the count of that
  dispatch writes the whole pool record and takes the drain flag off: a frozen encode
  then keeps its instance. It takes a fault, so `cancel` has none.
- `pipeline/encore-callback-poller.ts:646`: the sweep queues failed encodes too;
  one whose instance is gone by then is completed as a success.
- `scaler-loop.ts:2680`: the dispatch after an interruption stores one attempt
  more, so interruptions count towards the maximum (`AttemptBudget` states what
  does hold).
- `cancelled-job-reclaim.ts:194`: a cancelled job stays mapped, so its host
  counts as stuck a minute later.
- `scaler-loop.ts:2671`: a Valkey failure after an accepted POST gives the entry
  back while its encode runs.
- `encore-callback-poller.ts:1584`, `:1669`: a dead letter is brought back by the
  sweep as long as its job is open; two pollers of one Valkey unstage each
  other's message (`Pollers` of two).
- `scaler-loop.ts:461`: a quarantined instance at the floor counts as idle
  capacity, so none is spawned; `instance-pool.ts:2193`: an orphan whose health
  call throws is destroyed.
- `workspace-registry.ts:518`, `:336`, `scaler-loop.ts:369`: two requests start
  two loops or connections; a stopped loop's tick writes after the purge
  (`Overlap`).
- `workspace-registry.ts:753-758`, `:803-815`, `:787-796`, `:338`: a Valkey that
  does not answer keeps the keys of a torn-down stack, and a later resume starts its
  loop again; an instance that OSC refuses to remove is logged and left while its
  pool record is deleted; a loop made while the parameter store cannot be read stays
  bound to the activation Valkey.
- `main.ts:2805`: a read of the parameter store that fails switches the scaler of
  provisioned stacks off until the next change of a stack, and forgets which Valkeys
  a teardown removed (`blind`, `misread`).
- `main.ts:2802`, `:2692`, `routes/provision.ts:3172`: an activation is lost
  under a deactivation, a poller is started on a removed Valkey (`Serial`,
  `StoreFails`).
- `routes/scaler.ts:964`, `:982`, `main.ts:1703`: overlapping PATCHes overwrite
  each other, a refused write returns at the next boot (`Overlap`, `Lost`); a
  pool looked for in the wrong store is reported empty.

Jobs and media
- `pipeline/packaging.ts:1867`: the DRM block that is written is the one read
  before `resolvePackageJobId`, and overwrites one stamped in between.
- `routes/assets.ts:3786`, `:3950`: a run cancelled between its creation and its
  packaging step leaves a package job no run settles (`Cancels`, with "orphans").
- `pipeline/packaging.ts:1858`, `routes/assets.ts:4031`, `:3402`,
  `routes/internal.ts:699`: a callback of a cancelled run settles the next one;
  a fast callback finds no run; two pipelines start at once; a failure fails
  every waiting run.
- `pipeline/transcode.ts:485`, `:410`, `:451`, `main.ts:1860`,
  `failed-transcode-reconciler.ts:98`, `routes/jobs.ts:295`: with two transcodes
  of one asset its status follows whichever ends; a failed job beyond the page is
  not settled; a cancel fails the run of another job (`Overlap`, `N > Page`).
- `main.ts:1860`: a job that was cancelled while its entry was in flight is posted
  all the same, and its report leaves the asset `processing` (`stray`); with a
  dispatch report that fails the renditions of a cancelled job may stay
  (`ReportFails`).
- `encore-scaler/job-throughput-cap.ts:126`: concurrent submits exceed the cap.
- `metadata-extractor.ts:295`, `subtitle-generator.ts:188`, `thumbnail.ts:254`:
  ready under a transcode, a track overwritten, an old frame taken for a new one.
- `main.ts:2846`, `profile-bootstrap.ts:160`, `routes/profiles.ts:366`,
  `main.ts:3797`: detached publishes land out of order, an edit is replaced by
  the fitted older text, a failed bootstrap is not published (`Overlap`,
  `RemoteFails`).
- `profile-level-fit.ts:417`, `:285`: a rung too tall for its level is left
  alone; 16:9 widths that are not integers are rounded differently.

Assets and stacks
- `couch-asset-repo.ts:753`, `archived-asset-purge-sweep.ts:141`, `:334`,
  `routes/assets.ts:8232`: a restore under a purge is lost; the sweep ignores the
  lock and shared objects; archived children do not protect a parent
  (`OneAtATime`, `Sweeping`).
- `archive-tier-relocation.ts:275`: a relocation and a rehydrate at once delete
  the copy the other verified (two `Runs`).
- `abandoned-upload-sweep.ts:157`, `interrupted-ingest-reconciler.ts:673`,
  `:719`: a long pull or a late upload is failed; a complete object is removed; a
  pending pull is not picked up.
- `watch-folder.ts:379`, `:398`, `watch-folder-wiring.ts:173`, `:144`: pulled
  objects are ingested again; an update that fails after the create frees the key,
  and the retry makes a second asset; a rebuilt watcher forgets; an older list stops
  a new watcher.
- `request-stack-context.ts:48`, `:231`, `workspace-stack.ts:1225`, `:1057`,
  `:1402`, `routes/provision.ts:3173`: document, stamp and bytes part when a
  stack changes within a request; a failed or late read overwrites a newer cache
  entry; an adopted stack comes back after its teardown (`Overlap`).
- `storage-quota-reconcile.ts:40`, `storage-quota.ts:32`, `main.ts:909`: a sweep
  erases commits made since its listing; a crash keeps a reservation; an
  in-memory counter starts at zero (`Quiet`, `Durable`).
- `routes/provision.ts:1121`, `:1560`, `:1256`, `:3200`: a provision meets a
  running or late teardown; the marker erases the inventory; a retry changes the
  credential (`Serial`, `MaxExpired`, `MaxReads`).
- `storage-backend-registry.ts:673`, `:782`, `:802`, `:859`,
  `routes/assets.ts:7211`: a half-done rotation, a role without its secret, a
  removed backend put back, a probe's late answer dropped, a destination read
  twice.
- `asset-repo.ts:1669`, `couch-asset-repo.ts:247`, `routes/assets.ts:7850`,
  `routes/collections.ts:609`: uniqueness and locks checked on one read, written
  on another (`Serial`, `Overlap`).

Console
- `logs-table.js:566`, `:592`, `assets-table.js:1591`, `:1620`, `app.js:4825`,
  `:5182`, `:4075`, `detail.js:169`: a filter dropped during a load, a cursor of
  another query, a refresh dropped, the address of a left table, polls that stop
  or overlap in one body.
- `asset-tags.js:297`, `external-ids.js:235`, `:877`, `:947`,
  `review-state.js:276`, `lock-detail.js:269`, `collection-edit.js:383`,
  `comments-panel.js:176`, `export-action.js:575`: a lost answer is told as "not
  changed"; a control known to fail is offered again.
- `comments-panel.js:703`, `:677`, `export-action.js:1133`, `tracks-panel.js:1545`:
  a rebuild during a POST loses a draft or offers it again (`Calm`).

## 6. Proofs

The theorems about the encode path hold for every finite set of jobs and
instances and every value of the bounds (`ConstantsAssumption`), those about the
callback queue for every set of messages and loops and every bound, those about
spawns for every finite set of workspaces and every limit, those about assets
for every set of assets with their parents and every set of requests and
operations, those about a collection for every number of consoles and requests,
and so on for the components below: nothing is fixed but what a hypothesis names.
What a component's proofs ask of its constants (`SpawnConstants`,
`AssetConstants`, `IdentityConstants`, ...) is an assumption of each theorem,
since these modules are instantiated with fixed values. It is only what the
values are (sets are finite where they are counted, bounds are naturals, `None`
is no name), and the scenes of the runs meet it. Hypotheses on behaviour
(`Serial`, `~Overlap`, ...) are said at each theorem.

### Encode path

- `TypeCorrect == Spec => []TypeOK`. `TypeOK` is not inductive: a poller step
  indexes `kv` and `runs` by names that an earlier step, before an await, put
  into a message or a local. `TypeInv` adds that they are real: a started
  encode has a job and an instance (`RunsNamed`), a message and the handler's
  locals name a started encode (`MessagesNamed`, `PollerNamed`), a tick about
  to requeue or tear down has a target (`TickNamed`). One lemma per group of
  actions (`ReconcileType`, `DispatchType`, `HandlerType`, ...), and `NextType`
  combines them.
- `CancelStands == Spec => CancelledIsFinal`. Only `completeTranscode` and the
  guarded updates write a record: `SettleFailedSparesCancelled` and
  `CompleteSparesCancelled` show that each leaves a cancelled record, also
  from a status read before the cancel.
- `BudgetHolds == Spec => []AttemptBudget`. `BudgetInv` adds what the processes
  hold across awaits: the entry in the tick's hand is affordable, and a retry
  that has been decided but not queued carries a count below the maximum.
- `WorkSpared == Spec => []ScaleDownSparesLiveWork`, through any failures and
  restarts. The teardown is decided from a probe that is older than the loop that
  deals with the instance's lost jobs. `ProbeCovers` is what makes it safe: the
  probe still lists every encode there (encodes end meanwhile, and the tick, the
  only process that starts one, is busy here), and counts no fewer encodes than it
  lists jobs. So a count no larger than the abandoned jobs means that every job
  listed is abandoned (`DestroySpares`).
- `OneEncode == Spec => []OneEncodeEach`. The inductive invariant `OnceInv` holds
  while no call has failed, restarts included. `JobOnce`: a job is in the queue, or
  in the tick's hand, or active on one instance, at most one of these, and its
  mapping is empty or names that instance. `PostedOnce` covers the await between
  the POST and the write of the mapping. `LostGone` and `ProbesCover` say that what
  the tick holds for lost runs nowhere although it judges by old probes; without
  them an interruption could queue a running job. `ActiveAlive` and `NoRetries`
  are the rest.
- `EncodeSpent == Spec => []EncodesSpent`. A count, not a set, is inductive: the
  encodes of a job plus one if an entry is due are at most its submit plus its
  retries and interruptions (`JobSpent`). Every step of the system is shown to be
  one of three (`WorkStep`): it queues nothing (`WorkKept`), queues a job that
  waited for nothing (`Entered`), or spends a waiting entry on a new encode
  (`Started`). The lemmas behind `OneEncode` prove both facts at once.

`OneEncodeEach` and `EncodesSpent` are claims about runs without a failed call
(`faults = 0`); they are false beyond: after an accepted POST whose record write
fails the entry is given back while its encode runs (section 5).

- `ReconcileDropsTrue` and `DropsStand == Spec /\ [](faults = 0) => DropsReal`. The
  drops that reconcile decides are real through any failed calls and restarts:
  `ProbesCover` alone is inductive (`CoverInvariance`), because only the tick starts
  encodes and not while it reconciles. The other way to lose a job is an
  interruption whose payload is missing (`FailedKeys` shows that there is no
  third); that these are real needs `LostGone`, hence no failed call. With three
  failures (the mapping write, the attempt store, then the instance) such a job may
  be declared lost while a copy of it runs; the run allows one.

- `NoneStranded == Spec => [](crashes = 0 => NotStranded)`, through evictions,
  teardowns, cancels and failed calls. The calls that put a job back may fail too, and
  then do strand it (section 5): the history `mislaid` names these jobs, `NotStranded`
  speaks of the others, and the leaves show that no other failure loses a job.
  `NotStranded` speaks of a process at rest; the inductive `LiveHeld` says who holds a live, not mislaid job between any two steps:
  the queue, dispatch, a mapping onto a listed instance, a status the failure sweep
  reads, the tick's lost jobs, the poller's success that is yet to be written, or
  the cancel in progress. The proof goes by what a step does to the job's keys
  (`KeysStep`, seven kinds of writes): a step that changes mapping or status
  leaves it held (`KeysHold`), another one hands it on (`HolderGoes`). What the
  processes must know for that is invariant with restarts too:
  `UnsubmittedUnnamed` (a job that was never submitted has left no trace),
  `PoolListed` (what the tick remembers of the pool is still listed, though its
  copy is old), `MappedLive`, `PollerFollows` (a live record has a handler that
  saw it queued) and `ActingLost` (a teardown has a probe or a lost job for each
  live job mapped there). A teardown is the delicate step: with `SparesInv` only
  encodes that ignored their cancel are there, and `MarkedInHand` says that the
  records of these are settled or that their cancel request is still at work.
  The hypothesis is needed: a restart between the RPOPLPUSH and the mapping leaves
  the entry in `inflight`, which nothing reads back (`crash_strands_job`).

### Callback queue

- `QueueTypeCorrect == Spec => []TypeInv`: the shape of the lists and of each
  loop, and that the sorted set is sorted and holds a message at most once however
  often listener, sweep, retry and recovery add it. It rests on lemmas about
  inserting into and removing from a sequence (`InsertAtProperties`,
  `AddAtProperties`, `PopProperties`, ...).
- `HandledStaysStaged == Spec /\ []NoOverlap => []StagedUntilApplied`. The
  inductive `StagingInv` adds that a message about to be acknowledged is applied,
  and one about to leave the processing set is in the queue or buried.
- `CompletionsKept == Spec /\ []NoOverlap => NoCompletionLost`: the refinement of
  `CompletionInbox`. `InitInbox` maps initial states, `LoopStepInbox` every step of
  a loop, `NextInbox` the listener, the stops, the restarts and the handlers'
  effects: each is a step of the inbox or a stutter.

`NoOverlap` says that no two loops are at work at once. It is a real hypothesis: a
stop does not wait for the handler, so a loop stopped in its handler may run on
beside its successor, whose recovery takes the message out of the processing set
(section 5). The run `queue` has one loop and meets it; `QueueTypeCorrect` does
without it.

### Spawn life cycle

- `SlotsHold == Spec => [](TypeOK /\ CreatesBounded)`: the process-wide cap on
  creates in flight, over every path a spawn can end on. The inductive `SpawnInv`
  says that the limiter counts exactly the ticks that hold a slot (`SlotsInv`) and
  that a tick holds one whenever it creates, and otherwise only while it cleans up
  after a create that failed (`LocalOK`). Every step of a tick keeps its slot,
  releases it or takes one below the limit (`Moves`), which `GateMoves`,
  `CreateMoves`, `ListenerMoves` and `DownMoves` show and `SlotsMove` turns into the
  count. Types need this invariant too: `slots - 1` is a natural number because a
  tick that releases is counted.
- `PromotedTrue == Spec => []PromotedWhole` and
  `SweepsSpare == Spec => [](faults < 2 => WorkSpared)`, from the inductive
  `WorkInv`. Per name: only a running instance has work, a pending record's has
  none, a ready record with a listener has one that is not starting (`NameOK`). Per
  tick: what it learned before an await still holds when it acts, that the
  instance it spawns, adopts or tears down has no work, and that what it dispatches
  to is not pending (`TickOK`). A step of a workspace's tick concerns its own names
  only (`WorkFrame`), so one lemma per step suffices. The hypothesis `faults < 2` is
  needed: an orphan that does not answer while OSC's list cannot be read either is
  removed unasked, whatever it runs.

TLC agrees on both invariants with two workspaces sharing one slot and with one
workspace of two names. The runs check the same properties as parts of
`SpawnsSparing`.

### Assets

All six theorems rest on `DocInv`, whose part `HoldInv` is the argument of
`couch-asset-repo.ts`: a request about to write holds a document it was free to
change, and if its revision is still the stored one, the stored document is that
one. So whatever others wrote meanwhile, what lands is decided on what it replaces.

- `DocumentsTyped == Spec => []TypeOK` and
  `WritesLawful == Spec => [][DocumentsLawful]_vars`, for any interleaving of
  requests, sweep and restarts: status and review move along their graphs, only an
  unlock unlocks, a tombstone stays. `Steps` reduces every action to what it does
  to the documents and to one request.
- `PurgesGuarded`: a purge replaces only what is archived, unlocked and used by no
  job, and deletes only bytes no other live asset names. The route checks once and
  writes several steps later, so it holds for requests one after another
  (`OneAtATime`, and no sweep, which looks at none of these); `GuardInv` carries the
  checks to the write. With two requests it is false (section 5).
- `FamiliesWhole => []NoOrphanedChild`: the sweep purges a parent only after its
  children; `FamilyInv` says that for its whole listing, whose documents are older
  than the purges it makes. Requests and purges one after another, and no purge by
  request: that one is not blocked by an archived child, which can be restored
  under the tombstone.
- `RetentionSpares => [][PurgedFromArchive]_vars` and
  `ReadyServed => []ReadyHasSource`, for any interleaving and any age of the
  sweep's listing, without restores (and without re-pointed keys for the second).
  Archived is then a state nothing leaves (`ArchiveInv`, `SourceInv`); a restore in
  the middle of a sweep breaks both (section 5).

### Collections

`CallInv` is again the compare-and-set argument: what a request read is of the
stored document's revision or older, and if of the same, alike. `Effects` sorts the
steps by what they do to the requests (sent, moved on, checked, read, landed,
destroyed), so that each proof has seven cases instead of fourteen.

- `UpdatesKept == Spec => []NoLostUpdate`, by `Alike(doc, want)`: every write
  that lands does to the document what it does to the history of writes
  (`AppliedAlike`), whatever was retried or refused in between.
- `EditsSpared == Spec => [][OthersKept]_vars`: a patch names just the edited
  fields and the others come from a document of the revision it replaces.
- `DialogsOwn == Spec => []TypeOK`: `DialogInv` ties a disabled dialog to a request
  its console sent and has not heard from, through Escape, reopening, retries
  and lost answers.
- `DeletionsChecked == ~Overlap => (Spec => [](LockedNotDeleted /\ CountConfirmed /\
  OneDeletionEntry))`: with one request at a time (`Solo`) what DELETE checked is
  still so when it removes. With two requests it is false, because the remove reads
  the revision anew (section 5).

TLC checked `DocInv`, `GuardInv`, `FamilyInv`, `SourceInv`, `CallInv`, `DeleteInv`
and `DialogInv` on instances like those of `MCAssets` and `MCConsole` before they
were proved.

### Asset identity

Two inductive invariants. `IdentityInv` holds for any interleaving of any number
of requests: what a request learned is still of the document it read, or of an
older revision (`Sound`), and a version carries the group of its source
(`Family`). From it, with no hypothesis on behaviour:

- `PairsStay == Spec => []PairsKept` and `MetaStays == Spec => []MetaKept`: an
  attached external id and a merged metadata key stay until somebody asks for them
  to go. The pair is written back as a whole list, but at the revision it was read
  with; a merge reads again on a conflict.
- `VersionsGrouped == Spec => []VersionsTogether`: two first versions of one source
  both seed its group, and the one that comes second finds it there; the source may
  be purged between the two writes.

`SerialInv` adds `Alone` (`Serial`: one request under way) and what a request has
checked so far (`Ready`): that no asset has the slug it tries, that the pair's owner
is none or itself, that the list it will write back is the one that is there.

- `SlugsDiffer == Spec => []SlugsUnique`: a random tail is of the asset
  (`SlugForms`), so a slug made up cannot meet one asked for.
- `PairsDiffer == Spec => []PairsUnique` and `ListsStay == Spec => []ListsKept`.

Without `Serial` the last three are false (section 5).

### Other components

`ComponentProofs` has an instance of each of nine modules and proves about each as
if it were alone.

- Archive tier: `BytesKept == Spec => []NothingLost` and
  `TiersTrue == Spec => []TierHonest`, under `Orderly`: one engine run at a time, or
  any number of relocations. `TierInv` says of a run (`Grounded`) that the object it
  is about to delete has its copy, and that of a class it calls whole all objects it
  has left behind are in the other tier; a stop between any two steps drops the run,
  not the fact. A relocation beside a rehydration of the same class breaks both
  (section 5).
- Pollers: `EveryQueueDrained == Spec => [](Drained /\ NoDeadPoll /\ DrainedOnce /\ OffIsQuiet)`
  and `ScalerOn == Spec => []OnWhenProvisioned`, under `Steady`: stack changes and
  reconciles one after another, and a stored config that can be deleted. A read of
  the parameter store may fail at any reconcile: what it then lists or switches off is
  any mix of old and new, and the claims speak of the time after a reconcile that
  could read (`blind`), `NoDeadPoll` of runs where all could (`misread`), while
  `DrainedOnce` and `OffIsQuiet` hold always. The
  invariant ties three records of the same thing: the stored configs, the Valkeys
  that exist (`QueuesTrue`: those named but gone are the ones marked removed), and
  what is polled (`PollsTrue`). `KeyTrue` is the delicate part: a teardown stops the
  activation poller by a key that a reconcile clears and computes again.
- Scaler configuration. `ValuesInBounds == Spec => []InBounds` and
  `SourcesTrue == Spec => []EnvHonest` need no hypothesis: PATCHes may overlap,
  writes may be lost or land late, the process may restart with any record.
  `AcceptedStays == Spec => []AcceptedInForce` has PATCHes one after another and no
  late write (`~Overlap`, `~Lost`): `AcceptedInv` says that a value answered 200 is
  in the record, or in the hand of the PATCH that has written it. `RecordIsLive`
  has `~Overlap` and speaks of the time before the first fault, since a write that
  timed out may be there; `MaxFaults > 0` because `StoredIsLive` speaks of
  `faults = 0`. `ReportedEnforced == Spec => []EnforcedReported` allows overlaps but
  no provision or teardown (`~Toggles`): a scaler built anew takes the values of
  boot.
- Watch folders. `NoneStray == Spec => []NoStrayWatcher` holds with any number of
  overlapping registry passes, failed lists and operator stops: check and replace
  are one step after the await, and an entry is replaced only by stopping what it
  named (`RegistryApart`: no watcher stands in two entries, none that stands in one
  is still free). `EveryStackWatched == Spec => []Converged` has `Undisturbed`: one
  pass at a time, lists that are read, no operator's stop. `Progress` says that a
  pass with no change behind it has the list as it is, and that what it has wired is
  served; a change puts the claim off until its own pass. Two passes that overlap
  may apply an older list last (section 5).
- Scaler status. `AllReported == Spec => [](KnownReported /\ OneRowEach)` holds
  whatever is provisioned, torn down or becomes unreachable during the read (the
  enumeration is one step of it): `ScanInv` says that a
  stack that is due has its row or stands in a target that is left, and that no row
  is of a store that is left, so that rows of one store are added once
  (`RowsCounted`). `EmptyIsEmpty == Spec => []EmptyMeansEmpty` has `~Churn` and
  `~Blind`: with a teardown, or with a parameter store that fails while it resolves,
  a cached connection or the first listed stack's may be another store than the
  stack's own.
- Webhooks. `RightlyDelivered == Spec => [](RightReceivers /\ NotAfterDelete)`:
  `HookInv` ties posts to the registrations that were read (`PostOK`) and these to
  the ones there at the event (`EventOK`), which only go.
- Delete protection. `ChangesTraced == Spec => []TrailComplete` rests on the
  revisions: a request that has read holds an older revision or this document's
  trail (`RequestFits`), so a write that is let through appends to the trail that is
  there, and `TrailInv` (each request that wrote once, the last one's lock) follows.
  `ChangesShown == Spec => [](FreshAfterChange /\ TypeOK)` adds the panels: the page
  is built after the answer, and every request that wrote keeps the locks there have
  been since.
- Columns. `AlwaysLegal == Spec => []ViewsLegal` and
  `BoxesAndLinks == Spec => [][TogglesOne /\ LinkReproduces]_vars` rest on one lemma
  about the repair (`Repaired`): it adds a column of each group that has none shown
  and leaves a set that breaks no rule as it is. What a window shows is legal for the
  release it was opened with, so normalising it again changes nothing. Asked of the
  tables (`ColumnConstants`): the default view shows a column of every group, and every
  release declares a fixed column or one of a group, as those of assets, jobs and logs do.
- Scaler registry. `PurgedAndResumed == Spec => [][PurgesEverywhere /\ ResumesAll]_vars`
  holds however calls for one stack overlap and stores stop answering: keys are left
  only in a store that is down or, while the stored configs cannot be listed, in one
  other than the activation store. The invariant says that whatever holds a connection
  (the map, a loop, a tick, a call under way) holds one to the activation store or to
  a store that is named in a stored config (`StoresKnown`), and of a resume that what it
  found has a loop, failed, was torn down since or is still to do (`ResumeLeft`).
  `RegistryTrue == Spec => [](TypeOK /\ LoopsReachable /\ ConnectionsKnown) /\
  [][TornDownClean]_vars` has `~Overlap`: then a call that found no loop still finds
  none when it makes one (`CallAlone`); with two calls for a stack a loop may be made
  beside another and be lost to the map (section 5). `TornDownClean` says that no key of
  a stack appears but from a tick of the loop that stands in the map.

### Job settling

`CallbackQueueProofs` has an instance of `JobSettling`, whose completions the queue
delivers.

- `CapKept == Spec => []WithinCap` has `~Overlap`: whoever is about to push has counted,
  and since no other handler is under way nothing was pushed since (`CapInv`). Two
  submits that overlap exceed the cap (section 5).
- `JobsSettle == Spec => [](Released /\ LateOutputReclaimed)` has `~Overlap` and
  dispatch reports that do not fail (`JobsCalm`). Cancels of jobs and of runs, failed
  calls, drops and sweeps are in it. `SettleInv` says of
  each job which record, encode and output go with each step of its handlers
  (`JobFits`), and that an asset that is `processing` has an active job, a handler that
  will see to it or a job posted after its record had ended (`AssetHeld`). A step for
  one job leaves the others as they fit (`OthersFit`), so the proof has one case per
  action. Both hypotheses are needed: overlapping handlers break `Released`, failing
  reports `LateOutputReclaimed`, on two jobs.

### The theorems in one table

| Component | For any interleaving | Under a hypothesis on behaviour |
|---|---|---|
| Encode path | types, cancel, budget, scale-down, drops | no failed call: one encode, encodes spent; no restart: nobody stranded but by a failed call that puts a job back |
| Callback queue | types | `NoOverlap`: staging, the refinement |
| Spawns | slots, promotion | `faults < 2`: live work spared |
| Assets | types, state graphs | one at a time: purges, families; no restores: retention, sources |
| Collections | lost updates, edits, dialogs | `~Overlap`: deletions |
| Identity | ids, metadata, versions | `Serial`: slugs, unique pairs, lists |
| Archive tier | | `Orderly`: bytes, tiers |
| Pollers | | `Steady`, and after a readable parameter store: one poller each, on and off |
| Scaler configuration | bounds, sources | `~Overlap`, `~Lost`, `~Toggles`: in force, stored, reported |
| Scaler status | every stack a row, one row each | `~Churn`, `~Blind`: empty means empty |
| Watch folders | no stray watcher | `Undisturbed`: convergence |
| Webhooks | the right receivers | |
| Delete protection | one entry per change, pages after it | |
| Columns | legal views, boxes, links | |
| Scaler registry | purges reach every store that answers, resumes miss no stack | `~Overlap`: loops reachable, torn down clean |
| Job settling | | `~Overlap`: the cap; and no failing report: assets released, late output removed |

### Only model-checked

- Liveness (`EventuallySettled`, `CancelledEncodeStops`, `BackendSettles`,
  `ConsoleSettles`) and `ENABLED`, which are out of the prover's reach.
- What needs induction over data: `LevelFit`'s passes over a ladder, the sums of
  `StorageQuota` (`StoredWithinCap`, `SweepExact`).
- The components with no theorem yet: `PackagingFlow`, `MediaJobs`, `Delivery`, `ProfileIndex`, `Ingest`, `StackResolver`,
  `StorageQuota`, `Provisioning`, `StorageBackends`, the console modules but
  `Collections`, `ConsoleLock` and `ConsoleColumns`, and of `WatchFolder` that a key
  becomes one asset (`OneAssetPerObject`).
- The properties of the side-by-side runs as such: each is a conjunction over
  scenes whose constants are fixed by the run, so a theorem about one would be
  about one instance. The theorems about a component are stated in its own terms.

## 7. Not modelled, and simplifications

- Auth (stateless guards), DRM documents and CPIX (construction and parsing
  around an external key server), the TAMS client (best-effort calls), search,
  audit and log queries (no protocol), generated documentation, the player and
  the layout of the console.
- Encode path: one workspace and stack; one cancel request at a time; submit is
  one action there (its check-then-push race is in `JobSettling`). The 24 h TTLs,
  the stall timeout of a job whose status hash is empty, an Encore answer without
  an id, truncated probe pages, unparseable records. `reconcile` handles one
  instance in one step. A spawn succeeds or fails; `SpawnLifecycle` has its parts.
- The components of the side-by-side runs are not composed with each
  other: an interaction is what one may observe of the other, not its schedule.
- Text: parsing, wording, formatting, path templates, YAML. Integers of the
  ladder fit are exact.

## 8. Plan

The safety properties of the encode path, the callback queue, the spawn life
cycle, the asset documents, their identity, the collections, the archive tier, the
pollers, the scaler's configuration and status, the watch-folder registry, the
webhooks, the delete protection, the column choice, the scaler registry and the
settling of jobs are proved. Next are the invariants of other components, stated in
their modules with hypotheses on their constants: `OneAssetPerObject` of
`WatchFolder`, `Sound` and the claims of `PackagingFlow`.
