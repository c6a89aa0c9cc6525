# TLA+ models of the Audius creator-node sync

This directory holds TLA+ models of the creator node in `src/`, TLC
configurations that model-check them, and TLAPS proofs. The centre of the code
is the secondary-side sync `processSync`. It replicates a user's clock log
from another node of the user's replica set, and it is the part where
concurrency, partial failure and ordering decide correctness.

## 1. The system

| Part | Source | State | Operations |
|------|--------|-------|------------|
| Sync Executor | `creator-node/src/services/sync/processSync.js` | redis lock `node_sync:<wallet>`; DB rows `CNodeUser` (clock), `ClockRecord`, `File` (skipped flag); files on disk; the wallet's failure count | getLock, setLock, forceResync delete, local-clock read, `/export` request, regression/up-to-date/contiguity checks, batched `saveFileForMultihashToFS`, failure gate, one transaction, removeLock (in the loop and in `finally`) |
| Clock Log Store, Peer Exporter | not in `src/`; spec 4.1-4.2 | each node's clock log for the user | append on the primary, `/export` slice `[m, min(clock, m+window)]`, ClockRecord primary key |
| Async job queues | `creator-node/src/FileProcessingQueue.js` (two classes) | Bull queue of jobs; redis status `task:::uuid` | `addTask`, the handler, `monitorProgress` (IN_PROGRESS, then DONE or FAILED) |
| Network CID lookup, node list cache | `creator-node/src/utils.js` | files on disk; redis cache `all_registered_cnodes`; `ipfsIDObj` | `findCIDInNetwork`, `getAllRegisteredCNodes`, `getIPFSPeerId` |
| Identity bootstrap | `unnamed/part_001` (ServiceRegistry) | `spID`, libs, SnapbackSM, SyncQueue, URSM client and registration, skipped-CID queue | `initServices`; `initServicesThatRequireServer`: four retry-forever loops run in order, then a one-shot init |
| Health checks | second part of `FileProcessingQueue.js` | none | build a response from config and monitors |
| Build and seed scripts, one test | `unnamed/part_000`, `part_002`, `identity-service/test` | none | none |

**How the parts interact.** Snapback is not in `src/`. It enqueues syncs on a
secondary, and sync-queue workers run `processSync` concurrently, up to 100 at
a time. Each run holds the wallet's redis lock across many awaits:
- the DB read of the local clock;
- the HTTP `/export` from the source node;
- the per-file content fetches;
- the transaction.

Several syncs of one wallet can be in flight at once. They can come from
different sources, such as the primary or the other secondary, and some may be
`forceResync`.

**Hard behaviours in this code.**
- The lock is a check (`getLock`) and a separate set (`setLock`).
- The lock is released twice: once in the loop and once in `finally`.
- The forced delete runs outside the transaction.
- The local clock is read long before the commit.
- Exports are windowed and can come from a lagging node.
- File saves fail and are retried by later syncs. A per-wallet counter decides when failures are skipped.
- Exports fail or time out.

**Properties each part needs.** For the sync:
- the lock is exclusive;
- the secondary's clock log stays dense (spec 3, 4.1, 8);
- a file that is not skipped has its content on disk (spec 8);
- repeated syncs converge to the primary.

For the queues, a polled status is eventually terminal and is never
overwritten by an older state. For the CID lookup, `found` implies the file is
on disk with the right hash. For bootstrap, dependent services start only once
identity is known.

## 2. Modules

- **`ProcessSync.tla`**: one wallet and a set `Workers` of sync-queue slots.
  - **State:**
    - `lock` is the redis key.
    - `sUser`, `sClock`, `sRecords` and `sSkipped` are the secondary's CNodeUser row, its ClockRecord clocks and its skipped File CIDs. A clock record stands for the mutation and the file written at that clock.
    - `disk` is the CIDs stored.
    - `failureCount` is `UserSyncFailureCountManager`.
    - `pc`, `source`, `force`, `local`, `fetchedClock`, `fetchedRecs` and `failed` are each worker's program point and the locals of its `processSync` call.
    - `nodeClock` is every node's clock for the user. It is the environment, modelled from the spec.
  - **Actions:** one per await of `processSync`:
    - `StartSync`
    - `LockHeld` and `GetLock` (line 53)
    - `SetLock` (60)
    - `ReadLocalClock` (69-79, including the forceResync delete)
    - `ExportFailed` (99-132)
    - `FetchExport` (134-240, ending in `finally` on a missing user, the up-to-date `continue` or a rejected export)
    - `SaveFilesToFS`, including `FailureGate` (337-473)
    - `CommitTransaction` (243-535, rolled back on a ClockRecord primary-key clash)
    - `RemoveLockInLoop` (536/553)
    - `FinallyRemoveLocks` (564-569)

    The environment adds `PrimaryWrite` and `ReplicaCatchUp`, and two faults modelled from the spec:
    - `LockExpire`: the redis lock's TTL runs out (spec 4.3 step 1). It may happen while the sync that set the lock is still running.
    - `NodeCrash`: the node crashes and restarts, at most `MaxCrashes` times (`crashes` counts them). Every running `processSync` call ends without its `finally` block. The DB, the disk and the redis lock keep their contents. The failure count is reset: `UserSyncFailureCountManager` (not in `src/`) is called synchronously and returns the new count at once (line 448), so it lives in process memory.

    The DB transaction is one atomic step at commit, because the code runs all its reads and writes inside one transaction.
- **`ReplicaLog.tla`**: the abstract specification of what a sync promises (spec 3, 4.1, 4.3).
  - **State:** the primary's clock, the secondary's clock and the secondary's clock records.
  - **Actions:**
    - `Write`: the primary appends the next clock.
    - `Replicate`: the secondary jumps forward to some clock `c` no later than the primary's, and its records become exactly `0..c`.
  - **Mapping:** `ProcessSync.tla` instantiates it as `RL`. The primary's clock maps to `nodeClock[Primary]`, the secondary's clock to `LocalClock` (the clock that line 78 reads), and its records to `sRecords`. `ReplicaLogSpec == RL!Spec` is the refinement property.
- **`MC_ProcessSync.tla`**: model values for two workers (`w1`, `w2`) and two nodes (`p` the primary, `o` a lagging replica), worker symmetry, and the forceResync choices.
- **`ProcessSyncProofs.tla`**: the TLAPS proofs (section 5).

- **`AsyncQueue.tla`**: the Bull queue `fileProcessing` and the status keys `task:::uuid` its handlers write, for both classes of `FileProcessingQueue.js` (constant `Impl`: `"async"` is `AsyncProcessingQueue`, `"file"` is `FileProcessingQueue`).
  - **State:** per request, the task added, its Bull job (`none`, `waiting`, `active`, `removed`), how Bull finished it, its `stalledCounter`, the handler's program point; the redis status per (task, request); the number of node crashes.
  - **Actions:** `AddTask` (the `add*Task` methods), `ProcessJob` (Bull hands a waiting job to a free processor slot; a job whose name has no processor fails), `SetInProgress`, `CallFn`, `SetFinal` (the three awaits of `monitorProgress`), `JobDone` (`done()`, with `removeOnComplete`/`removeOnFail`), `Crash` (the node dies: every handler is lost and Bull's stalled-job check moves each active job back to waiting or fails it once `stalledCounter > maxStalledCount`).
  - `KeyTask` is the task name `monitorProgress` is given, hence the key it writes; `Handled` the job names with a processor; `Capacity` the summed concurrency of the `process()` calls.
  - `HandlerEntry` is where a started handler goes. The async handler calls `monitorProgress` with `job.data`. Each `FileProcessingQueue` processor reads `job.data.trackContentUploadParams` (lines 49, 76), but `addTask` enqueues the params themselves (line 189), so that field is undefined. `monitorProgress` then rejects while destructuring its argument, before any redis write. The catch throws reading `.logContext` (lines 60, 87) before `done()`. The job stays active with no status and holds its slot (`run = "hung"`) until a crash hands it to the stalled-job check.
- **`JobStatus.tla`**: the abstract specification of what the queue promises a client (spec 4.4).
  - **State:** per request, its job (`none`, `queued`, `finished`), the status record a client reads, and how the queue finished the job.
  - **Actions:** `Enqueue`; `Start` (the record becomes `IN_PROGRESS`) and `Settle` (from `IN_PROGRESS` to `DONE` or `FAILED`), both only while the job is queued; `Finish` (the job leaves the queue as `completed` or `failed`, as its record says); `Drop` (the queue itself fails a set of queued jobs). Nothing changes a finished job. `Start` on a job whose record is already terminal is the one allowance for Bull's crash recovery.
  - **Mapping:** `AsyncQueue.tla` instantiates it as `JS`. A job is queued while Bull holds it (`waiting` or `active`) and finished once removed. The record is `RecordOf(r)`, the key spec 4.4 says a client polls, `task[r]:::r`. Outcomes map to themselves. `JobStatusSpec == JS!Spec` is the refinement property.
- **`AsyncQueueProofs.tla`**: the TLAPS proofs for the queue (section 5).
- **`FindCID.tla`**: `findCIDInNetwork` of `utils.js` for one file, with several concurrent calls, the daily attempt key and the cached node list.
  - **State:** the UTC day and the days whose `attempted_fs_fixes:<day>` set holds the file; whether redis holds `all_registered_cnodes`; what `filePath` holds (`absent`, `partial`, `good`, `bad`); per call its program point, the day it passed the gate, its loop index, the stream it is writing and its result.
  - **Actions:** `Call`, `GetIfAttemptedStateFix` (the `SADD`), `GetAllRegisteredCNodes` (cache hit, chain fetch that is cached, or a chain error that yields `[]`; only an empty list returns `undefined`, while an empty filtered list runs no iteration and returns `false`), `Request` (one loop iteration: an error or empty answer goes on to the next node, data goes to the write), `WriteStreamToFileSystem` (a broken stream leaves a partial file and goes on), `GenerateMultihash`, `Unlink` (an `unlink` of a file another call already removed throws, and the catch goes on to the next node); the environment adds `NextDay` and `CacheExpire`.
- **`FindCIDProofs.tla`**: the TLAPS proofs for the lookup (section 5).
- **`ServiceBootstrap.tla`**: the `ServiceRegistry` start-up in `unnamed/part_001`.
  - **State:** where `initServices` and `initServicesThatRequireServer` are, `libs`, `servicesInitialized`, `nodeConfig`'s `spID`, SnapbackSM (`none`, `constructed`, `running`), the SyncQueue, the URSM client, the URSM registration, the skipped-CID queue, `servicesThatRequireServerInitialized`; the chain's spID for the endpoint and whether URSM is deployed; the number of restarts.
  - **Actions:** `BlacklistInit`, `InitAudiusLibs` (both may throw, which rejects `initServices`), `StartQueues`; `StartServer` (the caller, not in `src/`, runs `initServicesThatRequireServer` once `initServices` resolved); `RecoverNodeL1Identity`, `InitSnapbackSM` (with the SyncQueue built after it), `InitURSMClient`, `RegisterNodeOnL2URSM`, `InitSkippedCIDsRetryQueue` (one-shot, may throw); the environment adds `RegisterOnL1`, `DeployURSM` and `Restart`.
  - A retry loop's failed attempt changes nothing the model holds, so each loop is the one action of its successful attempt, enabled when the environment allows it (a non-zero spID, a deployed contract).
- **`ServiceBootstrapProofs.tla`**: the TLAPS proofs for bootstrap (section 5).
- Each component has an `MC_*.tla` module with its model values and symmetry.

## 3. Runs

### 3.1 Sync

The sync runs use 2 workers and `MaxFailureCountBeforeSkip = 2`; all but `sync_force` use `ExportWindow = 1`.
- Two workers are enough for every race between two syncs.
- The window is smaller than the log, so a sync ships only part of it and several syncs are needed: records `0..2` in slices of two with window 1, records `0..1` one at a time with window 0.
- A threshold of 2 makes both the "throw" and the "skip" branch of the gate reachable.

| Run | cfg | Bounds | Checks | Result |
|-----|-----|--------|--------|--------|
| `sync_safety` | `MC_ProcessSync_safety.cfg` | nodes {p,o}, `MaxClock = 2`, no force, no crash | `TypeOK`, `ClockLogDense`, `DenseInductive`, `ContentPresentUnlessSkipped`, `ReplicaLogSpec` | pass, 0.9M distinct states |
| `sync_force` | `MC_ProcessSync_force.cfg` | nodes {p,o}, `MaxClock = 1`, `ExportWindow = 0`, force allowed, one crash | `ContentPresentUnlessSkipped` | pass, 0.66M distinct states |
| `sync_liveness` | `MC_ProcessSync_liveness.cfg` | syncs from the primary only, `MaxClock = 2`, one crash, `FairSpec` | `SecondaryConverges` | pass |
| `sync_lockrace` | `MC_ProcessSync_lockrace.cfg` | nodes {p,o}, `MaxClock = 2`, no force, no crash | `LockExclusive` | **violation** |
| `sync_forcerace` | `MC_ProcessSync_forcerace.cfg` | as `sync_lockrace`, force allowed | `ClockLogDense` | **violation** |

**`MaxClock = 2`** with window 1 makes a full sync two slices, so two syncs
each import a slice while the primary keeps writing, and a sync from the
lagging replica races a sync from the primary. `sync_force` trades a clock
for a crash and keeps two slices through window 0. Both runs are kept below
a million states, so that they finish within their budget when every run of
the project is checked at once; `MaxClock = 3` (5.4M states) and a force run
with `MaxClock = 2` (9.5M states) were checked once and also pass.

**The violations are the two findings.**
- **Lock race.** Both workers pass `getLock` before either reaches `setLock`. Both are then inside the lock (line 53).
- **Force race.** An ordinary sync reads `localMaxClockVal = 0`. A forceResync sync then deletes the user (line 71). The ordinary sync imports clock 1 with only record 1, so record 0 is missing.

**Why ClockLogDense survives the lock race.** Without force, density still
holds, because the ClockRecord primary key rolls back the commit of a sync
whose baseline is stale. That is what `DenseInductive` states, and what the
proof shows for all constants.

**Refinement.** `sync_safety` also checks `ReplicaLogSpec`. Every step of the
sync model must leave the mapped triple unchanged, or be a `Write` or a
`Replicate`. So the secondary's records never shrink or get a hole, never pass
the primary, and change only by a contiguous jump. The mutant that drops the
regression check (line 221) breaks it. Forced syncs are left out of this run,
because a forced sync deletes the user, which is not a `Replicate`.

**Crashes and the lock's TTL.** Every run lets the lock expire at any time.
A lock that expires mid-sync is one more way for two syncs to be inside the
lock, and `ClockLogDense`, `ReplicaLogSpec` and `ContentPresentUnlessSkipped`
still hold. `sync_force` and `sync_liveness` allow one crash. The crash can
come between a file save and the commit, or between `setLock` and the
`finally` block.
- After a crash between `setLock` and the `finally` block, the key stays set and every later sync returns at line 58. Only the TTL frees the wallet.
- The mutant `LockExpireNoTTL` (a `setLock` without expiry) makes TLC find exactly that: the secondary never catches up.

`sync_safety` has no crash, to stay within its time budget. The proofs cover
crashes for every bound.

**Fairness (`FairSpec`).**
- **Weak fairness on the lock's expiry.** Redis deletes a key once its TTL has passed.
- **Weak fairness on each worker's sync steps.** The event loop resumes every pending await.
- **Strong fairness, per source, on a successful export.** A node that is asked again and again eventually answers.
- **Strong fairness on starting a sync from the primary.** Snapback keeps enqueueing syncs for a secondary that is behind.

File saves may fail forever: the failure gate is what must make progress.
With the lagging replica as a source too, TLC finds a real starvation. Syncs
from `o` keep holding the lock, and the primary's syncs keep returning at
line 58. It is listed as a hazard, and the liveness run uses syncs from the
primary only.

**Mutants.** Each checked property has a mutant of a mapped definition that
TLC catches:

| Mutant | Breaks |
|--------|--------|
| no reset of the count at the threshold | `TypeOK` |
| baseline read one past the local clock | `ClockLogDense` |
| regression check dropped | `DenseInductive` |
| failed CIDs not marked skipped | `ContentPresentUnlessSkipped` |
| failure count never stored | `SecondaryConverges` |

### 3.2 Job queue

The queue runs use two requests (`r1`, `r2`, symmetric), `MaxConcurrency = 1` and `MaxStalledCount = 1` (Bull's default).
- With one slot per `process()` call, a second job must wait, so ordering between two jobs is explored.
- With `maxStalledCount = 1`, a second crash during one job fails it, so both branches of the stalled-job check are reachable.
- Up to three crashes allow a crash at every await of the handler of each job.

| Run | Bounds | Checks | Result |
|-----|--------|--------|--------|
| `queue_safety` | `async`, 3 crashes, `FairSpec` | `TypeOK`, `HandlerOutcomeMatchesStatus`, `EventuallyFinished`, `FinishedJobFrozen`, `JobStatusSpec` | pass, 11,500 states |
| `queue_filebug` | `file`, no crash | `FinishedJobHasTerminalStatus` | **violation** |
| `queue_rerun` | `async`, 1 crash | `TerminalStatusStable` | **violation** |

- `HandlerOutcomeMatchesStatus`: a job its handler finished has the matching terminal status under its own key.
- `FinishedJobFrozen` (an action property): once Bull has finished a job, by `done()`, the stalled-job check or a missing processor, no step changes its outcome or any status key of its request. The rerun of `queue_rerun` is confined to jobs Bull still holds. Its mutant is a `done()` that leaves the job in the queue, so a later crash requeues a finished job.
- `JobStatusSpec`: the queue implements `JobStatus`. Its mutant is a `monitorProgress` whose catch writes `DONE`, so `done()` fails a job whose record says done.
- `FinishedJobFrozen` also holds for `Impl = "file"`, and its proof covers both classes. `JobStatusSpec` is claimed for `AsyncProcessingQueue` only: `FileProcessingQueue` writes no record.
- **Findings.**
  - In `FileProcessingQueue`, `addProcessTranscodeAndSegmentTask` enqueues a name that no processor handles (line 135). Bull fails the job, and no status is ever written.
  - A crash between the `DONE` write and `done()` makes Bull rerun the handler, which overwrites `DONE` (line 499).
- **Also seen, kept as hazards in `PROJECT.json`:**
  - With `Impl = "file"`, every handled job hangs (`HandlerEntry`): no status is written, and `done()` is never called. Under `FairSpec`, TLC finds `EventuallyFinished` violated once the jobs hold every slot (lines 49, 60).
  - Behind that hang, the `transcodeAndSegment` processor would write under `trackContentUpload` (line 80), the copy-paste that spec section 9 names. The hang makes that write unreachable.
  - Two crashes during one job make Bull fail it with `IN_PROGRESS` left in redis (line 378).
- **Fairness.** Weak fairness on each request's job steps: Bull's processor loop keeps taking waiting jobs while a slot is free, and the event loop resumes every pending await. Crashes are bounded by `MaxCrashes`, so they stop.

### 3.3 CID lookup

`cid_safety` uses two concurrent calls (symmetric), three peers of which one is excluded, every kind of answer, and two days.

| Run | Bounds | Checks | Result |
|-----|--------|--------|--------|
| `cid_safety` | all answers, `MaxDay = 1` | `TypeOK`, `OneLookupPerDay` | pass, 2,510 states |
| `cid_found` | error, good or bad answers, one day | `FoundImpliesCopyOnDisk` | **violation** |

- Two days let a second call pass the gate on the next day while the first is still writing. With two days, one call can also remove the file before another call's `unlink`, so the failing `unlink` is reached.
- **Finding.** After a hash mismatch the code unlinks the file and still returns `found = true` (line 300).
- **Hazard.** `StoredContentMatchesCID` states what `filePath` should hold. It fails when a stream breaks while it is piped and no later node answers: the truncated file stays (line 287). It is kept as a hazard.

### 3.4 Bootstrap

The runs use spIDs `{1, 2}` and up to two restarts. A restart can come at any point, so every prefix of start-up is followed by a fresh one.

| Run | Checks | Result |
|-----|--------|--------|
| `boot_safety` (one-shot inits may throw) | `DependentsHaveIdentity` | pass, 156 states |
| `boot_snapback` | `SnapbackGatedOnRegistration` | **violation** |

- **Finding.** SnapbackSM is started (line 121) before the node waits for and registers on URSM (line 135). Spec 4.6 gates Snapback on the whole bootstrap.
- **No liveness.** Each retry loop is kept only as its successful attempt, because a failed attempt changes nothing. Whether start-up ends therefore depends on the chain, and on fairness that the code cannot promise. No liveness property is checked for bootstrap.

### 3.5 Mutants

Every property of a passing run has a mutant, defined next to the definition it replaces, that TLC catches under that run's cfg. `PROJECT.json` lists them. Examples: a crash that ignores `maxStalledCount`; a `done()` that does not release the job; an `SADD` whose result is ignored; a loop index that starts at 0; a dropped `spID !== 0` check.

## 4. What is modelled from the spec

The code of the exporting node and of the DB schema is not in `src/`. The
following are therefore modelled from spec 4.1-4.2:
- how node clocks grow;
- the `/export` slice and its "already up to date" tie-break (empty records, with the clock);
- the ClockRecord primary key (`ClockRecordConflict`).

For bootstrap, the chain and the caller of `initServicesThatRequireServer` are not in `src/`. `RegisterOnL1`, `DeployURSM` and `StartServer` follow spec 4.6.

`PROJECT.json` marks these definitions `spec_modelled`.

## 5. Proofs (checked by `tlapm`)

### 5.1 `ProcessSyncProofs.tla`

The assumptions on the constants are named in `ProcessSync.tla`:
- `Primary \in Nodes`;
- `MaxClock` and `ExportWindow` are naturals;
- `MaxFailureCountBeforeSkip` is a positive natural;
- `ForceResyncChoices \subseteq BOOLEAN`;
- `MaxCrashes` is a natural.

Every step lemma has a case for `LockExpire` and for `NodeCrash`. A crash sets every worker back to idle, which makes each per-worker conjunct hold trivially. An expiry touches only the lock, which no invariant mentions.

- **`TypeCorrect`**: `Spec => []TypeOK`.
  - **Lemmas:** `TypeInit`, and `TypeStep` with one step per action.
  - **Export range:** `ExportRange` bounds what an export can return.
- **`DenseClockLog`**: assuming `ForceResyncChoices = {FALSE}`, `Spec => []ClockLogDense`. `ClockLogDense` is not inductive on its own, so the proof uses the strengthening `DenseInductive`, which TLC also checks in `sync_safety`. It adds, for each worker:
  - (a) no forced sync is running;
  - (b) from the export until the commit, `local <= LocalClock`, i.e. the baseline is never ahead of the secondary's clock;
  - (c) after a successful export, `local < fetchedClock` and `fetchedRecs = local+1..fetchedClock`.

  The argument rests on two arithmetic lemmas:
  - **`ExportSlice`:** an export that passes the checks of lines 220-240 is the non-empty slice in (c).
  - **`SliceAppend`:** a dense log `0..c`, with a slice `l+1..fc` where `l <= c` and no primary-key clash, forces `l = c < fc` and gives `0..fc`.

  The commit therefore either rolls back or appends contiguously. The baseline of every other worker stays below the new clock.
- **`SyncSlicesConsistent`**: assuming `ForceResyncChoices = {FALSE}`, `Spec => []DenseInductive`. This is the strengthening itself, which `sync_safety` checks on a small instance.
- **`ImplementsReplicaLog`**: assuming `ForceResyncChoices = {FALSE}`, `Spec => ReplicaLogSpec`.
  - **Initial states:** `Init` maps to `RL!Init`.
  - **Invariants:** the proof reuses `DenseInductive` and adds `BehindPrimary`. No node, no fetched export clock and not the secondary's clock is ever past the primary's clock. TLC checked it before the proof.
    - `BehindInit` and `BehindStep` prove it inductive.
    - `ExportBelowNode` shows that an export never carries a clock past its node's.
  - **Steps (`RefineStep`):**
    - `PrimaryWrite` maps to `Write`.
    - A commit with no primary-key clash maps to `Replicate` with `c = fetchedClock`.
    - Every other step, `ReadLocalClock` included (no force), leaves the triple unchanged.
  - **Commit arithmetic:** `CommitAppends` shows that such a commit makes the records `0..fetchedClock` and that `LocalClock < fetchedClock`. It rests on `SliceAppend`, whose bound is strict, and `DenseStep` cites it too.
- **`ContentPresent`**: `Spec => []ContentPresentUnlessSkipped`, for every value of the constants, forced syncs included. Its strengthening `SavedBeforeCommit` says a worker at the commit has saved every fetched CID except the failed ones, and the disk only grows.

### 5.2 `AsyncQueueProofs.tla`

- **`TypeCorrect`**: `Spec => []TypeOK` for both classes. The strengthening `TypeInv` adds `JobShape`: a request has a job exactly when it has a task, a handler runs only for an active job, and a live job's `stalledCounter` stays within `maxStalledCount`. The stalled-job step is proved per request, on whether that job stalls out.
- **`OutcomeMatchesStatus`**: for `AsyncProcessingQueue` (`Impl = "async"`), `Spec => []HandlerOutcomeMatchesStatus`. The strengthening `QueueInductive` says a handler at `done()` has already written the matching status under its key, and a finished job is removed, so no later step reaches it.
- **`FinishedJobsStayFinished`**: `Spec => FinishedJobFrozen`, for both classes and any number of crashes. The invariant it rests on, `FinishedRemoved`, says a job with an outcome has been removed. `TypeInv` adds that a removed job's handler is idle (`RemovedIdle`). Then no step of that request is enabled, and a crash touches only active jobs. `FrozenStep` shows a step leaves the request's outcome and keys alone.
- **`ImplementsJobStatus`**: for `AsyncProcessingQueue` (`Impl = "async"`), `Spec => JobStatusSpec`, for every bound. The record is read at `task:::uuid`. Under this assumption `KeyTask(t) = t` (`AsyncKey`), so the key `monitorProgress` writes is the key a client polls.
  - **Initial states:** `Init` maps to `JS!Init`.
  - **Invariant:** `RecordInv` ties the record to the handler. A request's keys are unset until its task is added. The record is `IN_PROGRESS` from `monitorProgress`'s first write until the handler settles, then the value it wrote until `done()`. TLC checked it before the proof. `OtherRecords` shows that a write of one request's key leaves every other record alone.
  - **Steps (`RefineStep`):**
    - `AddTask` maps to `Enqueue`.
    - `ProcessJob` stutters, or is `Drop({r})` when no processor handles the job.
    - `SetInProgress` maps to `Start`, `SetFinal` to `Settle`, and `JobDone` to `Finish`.
    - `Crash` is `Drop` of the jobs that stall out, or a stutter when none does.
    - `CallFn` stutters.

### 5.3 `FindCIDProofs.tla`

- **`TypeCorrect`** and **`LookupsExclusivePerDay`** (`Spec => []OneLookupPerDay`), for every set of callers, node list and number of days.
- The strengthening `GateInductive` adds that the day a call passed the gate is in that day's attempt set, and that a call not yet at the gate has passed it on no day. The `SADD` step is then split on whether today is already in the set.

### 5.4 `ServiceBootstrapProofs.tla`

- **`TypeCorrect`** and **`IdentityGatesDependents`** (`Spec => []DependentsHaveIdentity`), for every set of spIDs and every restart bound.
- The strengthening `BootInductive` says:
  - before the identity loop ends, no dependent service exists and `spID = 0`;
  - after it ends, `spID` is the chain's non-zero spID;
  - the server starts only once `initServices` has set libs.
- The chain step keeps this because the chain only leaves spID 0 before any spID was recovered. A restart resets everything.

**Only model-checked, not proved:**
- The liveness properties `SecondaryConverges` and `EventuallyFinished`. They rest on fairness, and the provers cannot reason about ENABLED.
- Nothing is claimed for `FileProcessingQueue` beyond `TypeCorrect` and `FinishedJobsStayFinished`: its handled jobs hang before any status write.
- The violations.

## 6. Not modelled, and why

- **Not modelled yet:**
  - multi-wallet `processSync`, with the lock loop and its early return;
  - `getIPFSPeerId` (the cached IPFS identity in `utils.js`);
  - `getBlacklistManager`'s check-then-init: BlacklistManager is not in `src/`, and requests reach it only after `initServices` has initialised it.
- **Not modelled, by nature:**
  - `_initBootstrapAndRefreshPeers`: fire-and-forget IPFS peering, with no state of the syncing node.
  - Peer-set discovery (lines 179-201 of `processSync.js`): it only selects gateways for content fetches, and those are modelled as "any subset of files may fail".
  - The health checks: pure I/O.
  - The Dockerfile and the seed script.
  - Snapback and the skipped-CID retry loop: not in `src/`.
  - Two queues sharing the Bull name `fileProcessing` (line 34): both classes would take each other's jobs. Only one class runs in a node, so the model runs one.
