# A TLA+ model of SkyVault

SkyVault is a key-value store on top of an object store and PostgreSQL. This
directory holds a model of its control logic in TLA+, the TLC configurations
that check it on small instances, and TLAPS proofs, for every instance, of the
safety properties that hold. The modules are translations of the Go and SQL sources; `PROJECT.json`
maps each definition to the lines it stands for.

## 1. Inventory

| Component | Source | State | Operations | Hard because |
|---|---|---|---|---|
| batcher | `internal/batcher/handler.go` | the current batch and its timer, four kinds of channels, `MaxConcurrent` writers | `BatchWrite`, flush by size or age, write a batch, shutdown | goroutines meet in bounded channels; cancellation, I/O errors and shutdown at any moment |
| process | `cmd/skyvault/main.go` | the context of all handlers, the HTTP server and its connections | boot the enabled services, serve, cancel, shut down | calls still arrive while the handlers are cancelled; HTTP/2 connections are not the server's any more |
| tables | `internal/database/*.sql.go`, `migrations/` | `write_ahead_logs` (NEW, COMPACTING), `shared_runs`, `partitions`, two sequences, triggers | insert, mark, delete, list, notify | statements read snapshots; sequence numbers are drawn before the commit |
| orchestrator | `internal/orchestrator/handler.go` | none of its own | every two seconds: list the NEW rows, mark them and insert a job | nine instances in the default deployment, without a lock |
| worker | `internal/background/compact_wals.go`, `internal/worker/worker.go` | river's job rows | merge the WALs of a job into a run | crashes, retries, rescues, parallel executors |
| index: views, lookups | `internal/index/handler.go`, `internal/database/watch.go` | copies of the three tables, their watchers, the calls under way | boot, refresh, `BatchGet` | copies are refreshed independently of each other and of the calls |
| index: ring | `internal/index/handler.go` | ring members, cache clients, a Kubernetes watch | handle pod events, pick clients, ask them in turn | watches break off, addresses are reused, members vanish under a lookup |
| cache | `internal/cache/handler.go` | an LRU list, a byte count, a mutex, the calls under way | `Get` | two limits, only one of which is counted; the mutex is held during downloads |
| sstable | `internal/sstable/*.go` | none | write, size, read | varint boundaries, tombstones, truncated files |
| stress tool | `cmd/stress/main.go` | two groups of workers, maps of the acknowledged keys, lists made from them | write and delete for some time, then read and verify | failed calls may still be applied; maps are read without their lock; an interrupt at any moment |

How they interact: a batcher uploads a WAL object and then inserts a row that
names it. The orchestrator marks rows and inserts a river job that carries them,
in one transaction. The chart means the orchestrator to be one (`values.yaml:121`), but the
ConfigMap that every pod imports enables it (`common-configmap.yaml:46-48`, `main.go:202`), so that
the default replica counts start nine; nothing in the model or the proofs assumes one. A worker reads the objects, uploads a run, and in one
transaction inserts the run, deletes the rows and completes the job. Triggers
notify the index, which re-reads the table concerned. A `BatchGet` asks the
cache, object by object, newest first; the cache downloads objects on a miss. One
process runs any selection of the services behind one HTTP server; the stress tool
calls `BatchWrite` and `BatchGet` from outside.

What makes each correct: an acknowledged write is durable and stays reachable
(batcher, tables, worker); rows and jobs agree, and the WALs are compacted once there are
enough of them (orchestrator, worker); a lookup changes with a write only (worker, index); no commit is
missed, and a lookup returns the newest version (index); any object finds live
cache clients, and a lookup survives the loss of one (ring); the byte limit holds, and
concurrent misses download once (cache); a file reads back as written (sstable); a
shutdown ends, and cuts off no call (process); only what was
applied is expected, and an alarm means a missing answer (stress tool). Section 4 says where these hold and where they do not.

Not modelled, and why:

- `DeleteSharedRuns` and the `jobs` table: never used;
- the two branches for `pgx.ErrNoRows` (`orchestrator/handler.go:87`,
  `compact_wals.go:122`): the statements are `SELECT EXISTS` and return a row
  always, so that the branches are dead;
- partitions with runs: the table holds the one row of the migration, which nothing
  writes to. Its watcher, its view and the third loop of `BatchGet` are in Index, and
  the loop finds nothing;
- `database/pool.go`: connects and migrates. That processes boot at the same
  time, or again after a crash, is up to the lock and the dirty flag of
  golang-migrate, which is not in the repository;
- `internal/storage`, `internal/middleware`, flags, environment, logging and metrics,
  the stress tool's counters, latencies and table: set-up and plumbing without
  control of their own;
- three details without a behaviour to check: nothing ever removes the objects of merged
  WALs and failed attempts (`compact_wals.go:97`); corrupt bytes, with which
  `int(valueLen)` could be negative (`reader.go:73`), are not modelled, only cut-off
  files; the select of `processLoop` spins after its context is cancelled
  (`orchestrator/handler.go:122`), which changes no state;
- generated code and mocks.

Not under `src/`, and modelled from how the code uses it: river (job states, order of
fetching, retries, rescuer), PostgreSQL's isolation and notifications, the LRU
list, Kubernetes pods and watches, `sort.Slice`, `encoding/binary`, `sync.Mutex`,
`http.Server.Shutdown` and h2c, and, for the stress tool, the services it calls.

## 2. Modules

```
Archive    Store             what is promised: durability; a key-value store
     \      /  (refinement)
    Compaction  <---- CompactionProofs      tables, batchers' INSERTs,
        |                                   orchestrators, workers
      Index     <---- IndexProofs           one index process beside them
    Batcher                                 the goroutines of one batcher
        |
      Server    <---- BatcherProofs         the process it lives in
    SSTable                                 the file format
        |
    BatchRecords <--- BatchRecordsProofs    the records of a batch, and its file
    CacheRing   <---- CacheRingProofs       the read path: a lookup's pods
    Cache       <---- CacheProofs           the read path: one pod
    Stress      <---- StressProofs          a client of both ends
    ListsAndSums                            facts the proof modules share
```

`MC*.tla` instantiate them; `BatchRecords` and `Stress` are small enough to be checked as they
are. Where a module states the types of its variables they are proved; a run checks
those of Compaction as well.
Definitions that start with the comment "Mutant" are wrong
on purpose: a mutant is a plausible bug in the definition that follows it, put
in its place to see that a property notices. They are used by nothing else.

**Compaction.** `row[b]` is the row of batch `b` (`"inserting"` while the INSERT
has a number and is not committed, `"gone"` after its deletion), `seqNo[b]` its
number, `walObjects` and `runObjects` the object store, `runs` the rows of
`shared_runs`, `job[j]` a row of `river_job`, `orch[o]` and `exec[e]` the
local state of the processes. A batch is the set of keys it writes; which batch
wrote a key last is all that values matter for. `UploadWAL`, `InsertWAL`,
`CommitWAL` and `AbortWAL` are `writeBatch`; `ListWALs`,
`MarkWriteAheadLogsAsCompacting`, `ScheduleJob`, `TickFails` one tick of the
orchestrator; `Fetch`, `UploadRun`, `AddSharedRun`, `DeleteWriteAheadLogs`,
`CommitMerge`, `WorkError`, `Crash`, `Rescue` a job. A transaction is split where
its statements read something that may be stale when it commits: the
`validation` CTE of the UPDATE and of the DELETE is evaluated in a step of its
own, the rows are re-checked in the step that commits. Reading the WAL objects is
part of `UploadRun`, because objects never change; which version of a key the merge puts into the
run is `Merged`, by which lookups read it.

**Index** extends Compaction by the views of the three tables, the watcher of each
(`watch[t]`: position in `database.Watch` and undelivered notifications) and
calls of `BatchGet` (`get[g]`). The partitions are the one row `""`, which has no
runs: a call that still misses keys ends there. A commit and the delivery of its notification to
the session are one step, as PostgreSQL promises; between receipt, query and
store anything may happen. `ChangeWALs`, `ChangeRuns` and `Elsewhere` are the
steps of Compaction with what they notify. `watch[t].lost` is a history: since the last query
the table may have changed without a notification that the watcher will still act on, because it
did not LISTEN yet, its refresh failed or its connection is gone.

**Batcher** has the goroutines and channels of one process. `current`,
`timer`, `processing`, `callback` and `writer` are the variables of the code; a
select with several ready cases is a choice between actions, a blocked send a
disabled one. An error of the INSERT leaves open whether the row exists.

**Server** extends Batcher by `main`: `BuildHandler`, `BuildFails`,
`ListenAndServe`, `Cancel` (a signal), `ShutdownServer`, and the three ends, `Drained`,
`TimesOut` and `Crash`. Calls reach the batcher while main listens, and after that on connections
that were accepted before; those of `HTTP1` hold up `Drained`, and the others came on a connection that `h2c.NewHandler`
hijacked, which the server neither waits for nor closes.

**BatchRecords** follows one batch through `writeBatch`: the sort, with a
`sort.Slice` that keeps the order of equal keys only up to `StableUpTo` records,
the deduplication, and the file, which is then cut off byte by byte. The code deduplicates in
place; the model folds onto a new slice, with the same result because the place written to is
never ahead of the place read.
**SSTable** has the operators for the file: writer, size and reader over bytes.
**Cache** has the callers of `Get`. `Lookup` takes the mutex: a hit is answered in
the same step, a miss keeps the mutex until `Downloaded` or `DownloadFails`.
`Add` is `sizeAwareCache.add`, including its case of a key that is there already;
`LRUAdd` is the list below it.
**CacheRing** has the pods, the events under way, the goroutine that
consumes them, and one call of `lookupSSTable`: `GetClients` picks under the read
lock, `Answered` and `Refused` ask what was picked, while pods and ring go on.
`lookup.steady` is a history: the picked pods that were up ever since.

**Stress** has both phases of the tool. `worker[p][id]` is a goroutine, `written`
and `deleted` the maps, `lists` what the index phase makes of them. The
system is seen from outside: `Apply` may come long after `WriteFails`, and never
after `WriteAcked`; `ReadAnswered` returns any part of the puts that were
applied. `missed` and `deletionsRead` are histories: the puts that answers left out, and the
deletions that were read.

## 3. Runs

The passing runs take between a second and two and a half minutes (server) with two TLC workers. Deadlock is
not checked where the system may come to rest (all batches compacted, all calls
returned, all failures spent); the liveness properties say what must not rest.

| Run | Shows | Bounds |
|---|---|---|
| compaction_any | durability, no dangling path, one run per job, deletion only by a merge, rows agree with a job that shares none (`OwnedRows`), rows left COMPACTING only by a discarded or an overlapping job (`StrandedForCause`), a lookup changes only to the batch that commits, unless the step is overtaken (`LookupsChangeForCause`), `Archive` is implemented | 3 interchangeable batches, 2 orchestrators, 2 executors, 2 jobs, 2 INSERTs in flight, 1 failure |
| compaction_threshold | NEW rows that reach the threshold are given to a job, and what is COMPACTING ends up in a run | a threshold of 2 for 3 batches, 2 orchestrators, 2 executors, 1 failure for 2 attempts |
| compaction_serial | a merge changes no lookup, `Store` is implemented | 4 batches over 2 keys, 1 executor, 1 INSERT in flight, no failure |
| compaction_two_executors | (violation, section 4) | 3 batches, 2 executors, no failure |
| server | acknowledged means durable, one answer per request, the timer belongs to its batch, a batch exceeds its limit by one request at most, every call returns, shutdown drains and completes | 3 requests that fill two batches and start a third, one of them over HTTP/2, 1 writer, a channel of 1 so that it fills up, 1 I/O error, the index as a second service, a signal or a crash at any time |
| index_lookup | `BatchGet` agrees with the views it loaded, no commit is missed but for a change without a notification, a failed refresh or a lost connection, views at rest answer as the tables do, every batch becomes visible | 2 keys, 2 batches with a delete, 2 jobs, any set of keys asked for, 1 failure of any kind, a restart and another boot included |
| index_vanish, index_empty_keys | (violations, section 4) | 2 batches of one key |
| cache_limit | the byte limit, the drift of the count, one download for concurrent misses, every call is answered | 2 callers, 6 objects of 5 sizes, 8 bytes, 3 items, any download may fail |
| ring | ring and clients agree, a running pod joins, a lookup fails only if no pod it picked stayed up | 3 pods, 2 of which share an address in turn, 1 watch that breaks off, 1 spurious update, 3 events under way, 1 call that fails at a live pod |
| stress | only what was applied is recorded, maps read without a lock no longer change, verification errors are the puts left out and the deletions read, the tool comes to its report | 2 writers and a deleter, batches of 2 keys, 2 calls per phase, every service and read mode, an interrupt at any time |
| records | each key once, in order, and of the sorted records the last; round trip, exact size, prefixes only | all batches of up to 3 records, stable up to 2, keys of 1, 63, 64 and values of 0 and 128 bytes, deletes, all truncations |

Why these bounds suffice: what goes wrong in Compaction takes two transactions
over a common row, or two runs with a common key, and one failure between two
steps; the instances have two of everything that can race and one batch more
than can be in flight. A larger number of jobs only repeats the
situation. In compaction_any a job has more attempts than there are failures, so that none is discarded
there; one is in index_lookup, and `StrandedOnlyForCause` is proved for any number of failures. The lengths in records lie on both sides of the boundary between
one-byte and two-byte varints (the key length is shifted by one bit). The cache's
three items stand for 1024 and its eight bytes for 64 MiB: either limit can bite
first. In
records `StableUpTo` = 2 stands for the 12 of the Go library: batches of one and two records
are sorted by insertion, those of three may come out of `sort.Slice` in any order of equal keys. In
server one writer is the hard case for progress; a second one adds states, but
no wait that one has not. In stress the two calls of a
phase are those of any two workers, of a writer and the deleter or of two writers, or of
one worker whose first call failed and is applied later.

### Fairness

Fairness is assumed only of what the runtime or a library keeps doing, and weak but for one lock:
goroutines that can run, timers, calls of the store and the database that
return (`Batcher`); the steps of main up to the shutdown, but never the end of the
process, which would spare the goroutines their work (`Server`); the commit of an INSERT, the orchestrator's tick as a whole,
an executor's loop as a whole, river's rescuer (`Compaction`); a watcher's
goroutine (`Index`); the consumer of pod events, including that a broken watch
is made again (`CacheRing`, where only pods with an address of their own are
promised to join); downloads that end, and, strongly, a goroutine that waits for the
cache's mutex while others keep taking it: `sync.Mutex` hands the lock to the first in
line once that has waited for a millisecond (`Cache`); timers and calls of the stress
tool (`Stress`). Clients never have to write, cancel or ask, and
nothing has to fail, shut down or crash.

`EveryWALCompacted` promises what the code does. The orchestrators compact when there are
`MinWALsToCompact` NEW rows, 16 by default (`orchestrator/handler.go:27`, which the chart leaves
alone): up to 15 rows stay NEW until more are written, for ever if nothing is. It needs fewer failures
than attempts (`MaxFailures < MaxAttempts`), since river discards a job after
that and the code reschedules nothing. `EveryBatchVisible` is checked for an index that listens before
the first write and while nothing fails; section 4 says what a boot can miss.

## 4. Where the code and its documentation part

These runs check one sentence of a comment, message or test each, and TLC finds
a behaviour of the code that contradicts it.

| Run | Sentence | What happens |
|---|---|---|
| compaction_two_executors | "highest first (newest first)" | a run draws its number when it is inserted, and the older job's run gets the higher one |
| index_vanish | "Verify results are as expected" | after a merge the WAL view is refreshed before the run view, and written keys do not exist for a while |
| index_empty_keys | "at least one key is required" | the loop over the runs goes on when no key is left, and the cache refuses the request |

The following configurations are kept beside the runs. Each states one more such sentence as a
property, and TLC finds it violated in the same way; `tlc -config <cfg> <module>` shows the steps.

| Module, configuration | Property | Sentence | What happens |
|---|---|---|---|
| MCCompaction, MCCompactionTwoOrchestrators.cfg | `NoDoubleCompaction` | "concurrent update, skipping" (`orchestrator/handler.go:88`) | the message waits for an error that a `SELECT EXISTS` never returns, and its boolean is dropped: rows that another orchestrator has marked are given to a second job. The chart starts nine orchestrators |
| MCCompaction, MCCompactionNoopMerge.cfg | `MergesTakeTheirRows` | "concurrent update, no-oping merge" (`compact_wals.go:123`) | the same of the merge: a job whose rows are gone commits a second run of them |
| MCCompaction, MCCompactionLateCommit.cfg | `NewerTakesPrecedence` | "because newer values take precedence" (`compact_wals.go:50`) | a WAL that drew the lower number commits when the higher one is in a run already, and hides it |
| MCServer, MCServerHTTP2.cfg | `NoCallCutOff` | "Graceful shutdown" (`main.go:296`) | a call over HTTP/2 is cut off by a shutdown that waited for all it knew of |
| MCServer, MCServerDone.cfg | `DoneIsProcessed` | "shutdown waits for processing to complete" (`batcher/handler.go:257`) | `done` is closed once the writers have been started |
| MCIndex, MCIndexBoot.cfg | `ChangesAreSeen` | "watches for changes in the l0_batches" (`index/handler.go:248`) | `database.Watch` queries before it LISTENs; a commit in between stays invisible until the next statement |
| Stress, MCStressDeleted.cfg | `AlarmsMeanMisses` | "Verify results are as expected" (`stress/main.go:495`) | the tool expects acknowledged deletions in results where `BatchGet` never puts them |
| BatchRecords, MCBatchRecordsUnstable.cfg | `KeepsLastOccurrence` | "keep only the last occurrence of each key" (`batcher/handler.go:208`) | above twelve records `sort.Slice` is not stable, and an earlier write can survive a later one |

What nevertheless holds beside each of them is checked and proved, in any deployment: with any
number of orchestrators no batch is lost (`Durable`, `ImplementsArchive`), and the rows of a job that
shares none are its own (`OwnedRows`); with any number of executors, INSERTs and failures a
lookup goes wrong only in a step that is overtaken (`LookupsChangeForCause`: `Overtaken` names a
late commit, jobs with common rows, and a run numbered above a newer one); an index misses a commit
only if it was not notified or failed to refresh (`NothingMissed`); a batch of any size loses a write
only to one of the same key that the sort left behind it (`KeepsLastSorted`); the stress tool's
errors are exactly the puts left out and the deletions read (`AlarmsAreExact`).

Some things go wrong that no sentence of the repository excludes, so that no configuration checks one.
Jobs whose rows overlap without being the same leave rows COMPACTING, and so does a discarded job;
`StrandedForCause` admits both and shows that there is no third cause. A watcher whose connection is lost never
listens again (`LoseConnection`), and the goroutine that cannot renew its Kubernetes watch returns
(`RewatchFails`): both leave an index stale for the life of its process, and `NothingMissed` and
`RunningPodsJoin` except them.

And two that are plain from the definitions: the cache's item limit evicts although there is
room, and its bytes are never subtracted (`Add`, `LRUAdd`; the size of a replaced key
that is evicted in the same call would be subtracted twice, but `DownloadsOnce` shows
that no key is ever replaced); a late event of a stopped
pod removes the running pod that took over its address (`HandleEvent`).

## 5. Proofs

All theorems hold for any sets of keys, batches, requests, processes, jobs, pods
and objects, and any bounds, under the assumptions that the modules name
(`CompactionAssumption` and so on: lengths and counts are numbers, a function has the domain
it should have). Where one needs more, the table says so.

| Theorem | Property | Beyond the assumptions |
|---|---|---|
| **CompactionProofs** | | |
| `Durability` | `Durable`: committed batches stay reachable | |
| `ObjectsUploaded` | `NoDanglingPath` | |
| `CommitOnce` | `OneRunPerJob` | |
| `DeletionIsMerge` | `DeletedOnlyByMerge` (of steps) | |
| `ArchiveRefinement` | `ImplementsArchive` | |
| `StrandedOnlyForCause` | `StrandedForCause` | |
| `RowsAgreeWithJobs` | `OwnedRows` | |
| `LookupsFollowCommits` | `LookupsChangeForCause` (of steps) | |
| `MergesKeepLookups` | `MergePreservesLookups` (of steps) | no step is overtaken |
| `StoreRefinement` | `ImplementsStore` | no step is overtaken |
| **BatchRecordsProofs** | | |
| `ObjectsAreSorted` | `KeysInOrder` | |
| `LatestWriteSurvives` | `KeepsLastSorted` (of steps) | |
| `SizesAreExact` | `SizeIsExact` | |
| `FilesReadBack` | `RoundTrip` | |
| `CutFilesReadAsPrefix` | `OnlyWholeRecords` | |
| **IndexProofs** | | |
| `LookupCorrect` | `LookupMatchesViews` | |
| `NoMissedNotification` | `NothingMissed` | |
| `QuietViews` | `QuietViewsAreCurrent` | no step is overtaken |
| `IndexTypeCorrect` | `IndexTypeOK` | |
| **BatcherProofs** | | |
| `Acknowledgement` | `AckedIsDurable` | |
| `AnsweredOnce` | `OneAnswer` | |
| `TimerOfBatch` | `TimerGuardsBatch` | |
| `BatchSize` | `OverfilledByOne` | |
| `ServerImplementsBatcher` | `ServerSpec => Spec`, hence the four above of the process | |
| `ServerTypeCorrect` | `ServerTypeOK` | |
| **CacheProofs** | | |
| `Downloads` | `DownloadsOnce` | |
| `MemoryLimit` | `BytesWithinLimit` | |
| `Drift` | `DriftBounded` (of steps) | |
| **CacheRingProofs** | | |
| `PathsHaveClients` | `ClientsForEveryPath` | |
| `FallbackSuffices` | `OneLivePodSuffices` | |
| `CacheRingTypeCorrect` | `TypeOK` | finitely many pods |
| **StressProofs** | | |
| `RecordsAreApplied` | `TrackedIsApplied` | |
| `ListsAgree` | `ListsMatchMaps` | |
| `NoFalseAlarms` | `AlarmsAreExact` | |

"No step is overtaken" is the formula `[][\A k \in Keys : ~ Overtaken(k)]_vars`. It speaks of what
happens in a behaviour, and of nothing else: any number of orchestrators, executors, INSERTs in flight
and failures is allowed as long as none of them overtakes another over a common key, and the
three ways to overtake are the three ways in which the order of versions goes wrong in section 4. Without
the hypothesis `LookupsFollowCommits` says what is left: every step that is not
overtaken itself leaves lookups as they are, or changes them to what it commits.

None of the properties is inductive. Each proof has an invariant that is, one
lemma per action (or group of actions with the same effect), and a
lemma that combines them; the invariants were checked with TLC before they were proved.

**Tables** (`IInv`). `Durable` says that a deleted row is in a run, which a step of
`CommitMerge` can only preserve if the run it inserts covers the rows it deletes, and
`OneRunPerJob` that a job that can still commit has not done so. The invariant adds what the
code relies on without saying so: a batch has a number once it is
inserted, and its object is older (`RowsInv`); what an orchestrator or a job
carries was committed, so that an aborted INSERT is never compacted (`SourcesInv`); a deleted row
is in a run (`DeletedInv`); an executor past `Fetch` holds a running job, and no
two executors hold the same, which is what the rescuer's patience buys (`ExecInv`);
a run belongs to a completed job and its object exists (`RunsInv`); numbers of runs,
in the table or in an open transaction, are distinct and below the sequence
(`RunNosInv`). The action properties and the refinement also need `TablesStep`: a
step leaves the committed rows and the runs alone (`Quiet`), commits one
INSERT, or commits a merge, for which `MergeStep` gives the rows it deletes
and the run it adds.

**Rows and jobs** (`OwnershipInv`). Orchestrators read and mark without locks, so
that in general one can only speak of a job that shares no row with another: its
rows are COMPACTING until it completes and gone from then on, and the validation of its
DELETE succeeds (`AloneInv`). That a validation fails only when a job has some of the rows
(`TakenInv`), and that river gives up after `MaxAttempts` and not before (`AttemptsInv`), is what
`StrandedForCause` needs. `OwnedRows` follows, with the fact that a run has the rows of its job
(`RunWALsInv`).

**Lookups** (`StateInv`). A lookup is a `CHOOSE` of the highest number among WALs or runs. Numbers
of WALs are distinct and below the sequence (`WALNosInv`), so that `Resolved` says the same
without `CHOOSE`, and `LookupsInv` that the tables resolve each key to one batch or none. A
step of the tables (`TablesStep`) then changes that in two ways: an INSERT that commits is the
newest of its keys unless a WAL with a higher number is there, and a merge puts
into the run what the WALs had unless it is overtaken (`LookupStep`).

**Index** (`IndexInv`, `LagInv`, `FreshInv`). What a query, a view or a lookup holds was
committed and keeps its number, also when the tables have moved on; a lookup has, for the
keys it is done with, the answer of the newest object it has visited (`GetInv`). `LagInv` says of
each watcher that a row missing from its view, or from a query under way, has a
notification behind it or was lost. `FreshInv` carries `QuietViews`: a WAL view that waits for nothing
resolves every key as the tables do, together with the runs. That is so after a query, and stays so
when a merge deletes WALs without a notification, because the run that it adds resolves to the
same batches, behind the WALs that are still in the view.

**Batcher** (`BatcherInv`, `LimitInv`). A request is in one place at a time (`OnePlaceInv`) and is
answered exactly when it has left them all (`AnswersInv`); a writer's batch is uploaded
before it is inserted, and its result is nil only if both worked (`DurableInv`).
`LimitInv` ties `totalSize`, by which batchLoop decides, to the sum it stands for.
Each step of `Server` is one of `Batcher` or leaves it alone (`ServerStep`).

**Batches** (`RecordsInv`, `FileInv`). The slice of `writeBatch` is first the batch in another order
(`Reorders`), and then what the loop keeps of it. Of that, `KeptInv` says after each
record: it is strictly sorted, ends with the record just read, and has dropped a record only for a
later one of its key. The loop and both passes over the bytes are folds, and proved about as recursive functions
of the number of records done; the buffer is at every record as long as the size
computed so far (`FileSize`). Varints of any length enter through the equation of their
recursion alone (`UvarintUnfolds`).

For reading, `FileInv` says that what there is of the file is the beginning of what
`WriteRecords` wrote. A varint has its continuation bits everywhere but at its end and decodes to
its number (`VarintDecodes`), so that the reader takes all of it, or nothing if the file ends in
it (`UvarintWhole`, `UvarintCut`). The same then goes for a record: with as much of its bytes as there is at a
position (`Holds`), `RecordAt` yields it and the position behind it, or gives up
(`RecordWhole`). Whatever the bytes, a record ends behind its beginning (`RecordAdvances`); that is why the
iterator's recursion is well-defined (`ReadingExists`) and its loop ends. From the last record
backwards, what the iterator yields behind the m-th record is then the rest of the
records, as far as they are whole (`ReadsRest`).

**Cache** (`CacheInv`). The mutex is held by the one call that downloads, if any, and
while it is held nothing enters the list (`MutexInv`). The count is never below
the bytes in the list and exceeds them by `MaxSize` at most (`SizeInv`).

**Ring** (`CacheRingInv`). Members and clients are the same endpoints, each once,
whatever the events report; of a lookup under way, the pods that were up ever since are still to be asked.
The types rest on it: only members can be asked, and members are clients.

**Stress** (`StressInv`). An open call may still be applied, and one that is no longer
open was; when the phase of the batcher is over none of its workers records anything. The
recorded keys are puts of one list and deletions of the other, so that each position of an answer
counts as an error exactly if it is missed or a deletion.

`ListsAndSums` has what these share: lists that hold each element once (positions, appending,
removing, cutting), folds, and sums over finite sets. The library's induction theorems
are out of the provers' reach, so that a recursive function is shown to exist,
a sum not to depend on the order of its terms, and so on, by looking at a least number or a least
set for which it would fail. `UpFrom`, `DownFrom` and `AllNumbers` state induction that way once
and for all, about membership in a set of numbers.

Only model-checked is liveness (`EveryWALCompacted`, `EveryCallReturns`, `DrainsOnShutdown`,
`ShutdownCompletes`, `EveryBatchVisible`, `EveryGetReturns`, `RunningPodsJoin` and
`Terminates`), which is out of the prover's reach, as is `ENABLED`.

## 6. Plan

Done: all modules of section 2; proofs of every safety property a passing run checks and of
all types, three of them for behaviours in which no step is overtaken. Next:

1. Model: several batchers around one Compaction, so that `AckedIsDurable`
   meets `Durable` in one module.
2. Model: partitions with runs, once the code writes them.
3. Prove: which deployments have no overtaken step (one INSERT in flight, one executor, jobs
   without common rows and without failures), which compaction_serial checks on its instance.
