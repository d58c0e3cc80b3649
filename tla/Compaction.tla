------------------------------ MODULE Compaction ------------------------------
(***************************************************************************)
(* The durable state of SkyVault and every process that changes it:        *)
(*                                                                         *)
(*   - the goroutines of the batchers, which upload a batch of records as  *)
(*     a WAL object and insert a row for it into write_ahead_logs          *)
(*     (internal/batcher/handler.go, writeBatch);                          *)
(*   - the orchestrators, which mark the NEW rows as COMPACTING and, in    *)
(*     the same transaction, insert a river job that carries them          *)
(*     (internal/orchestrator/handler.go);                                 *)
(*   - the river executors of the workers, which merge the WAL objects of  *)
(*     a job into one run object and, in one transaction, insert the run   *)
(*     into shared_runs, delete the WAL rows and complete the job          *)
(*     (internal/background/compact_wals.go).                              *)
(*                                                                         *)
(* PostgreSQL runs the transactions at READ COMMITTED.  A statement is a   *)
(* step of its own when what it read can be stale by the time its          *)
(* transaction commits: a validating UPDATE or DELETE evaluates its        *)
(* "validation" CTE on the statement's snapshot, waits for the row locks   *)
(* of concurrent transactions and re-checks only the state of each row.    *)
(* BIGSERIAL numbers are handed out at the INSERT, in an order that need   *)
(* not be the order of the commits, and are never handed out again.        *)
(***************************************************************************)
EXTENDS Naturals, FiniteSets

CONSTANTS
    Keys,             \* the keys whose versions are tracked
    Batches,          \* batches of records; each is one object wal/<uuid>
    KeysOf,           \* the tracked keys a batch writes (puts or deletes)
    NoBatch,          \* "no version of this key"
    Orchestrators,    \* orchestrators: the chart enables one in every pod
    Executors,        \* river executors, over all worker processes
    Jobs,             \* bound: the ids of the river jobs ever inserted
    MinWALsToCompact, \* orchestrator.Config.MinWALsToCompact
    MaxInserts,       \* bound on WAL inserts in flight at once, over all
                      \* batchers (replicas * batcher.Config.MaxConcurrent)
    MaxAttempts,      \* attempts river grants a job before discarding it
    MaxFailures       \* bound: errors and crashes in a behaviour

ASSUME CompactionAssumption ==
    /\ KeysOf \in [Batches -> SUBSET Keys]
    /\ NoBatch \notin Batches
    /\ Jobs \subseteq Nat \ {0}
    /\ MinWALsToCompact \in Nat \ {0}
    /\ MaxInserts \in Nat \ {0}
    /\ MaxAttempts \in Nat \ {0}
    /\ MaxFailures \in Nat

VARIABLES
    walObjects,   \* the batches whose WAL object is in the object store
    row,          \* row[b]: the write_ahead_logs row of batch b
    seqNo,        \* seqNo[b]: the seq_no of that row; 0 before the INSERT
    nextSeqNo,    \* next value of write_ahead_logs_seq_no_seq
    orch,         \* orch[o]: the state of orchestrator o's processLoop
    job,          \* job[j]: row j of river_job
    exec,         \* exec[e]: the state of executor e's call of Work
    runObjects,   \* <<j, n>>: the run object attempt n of job j uploaded
    runs,         \* the rows of shared_runs
    nextRunNo,    \* next value of shared_runs_seq_no_seq
    failures      \* errors and crashes so far

walVars  == <<walObjects, row, seqNo, nextSeqNo>>
runVars  == <<runObjects, runs, nextRunNo>>
vars     == <<walVars, orch, job, exec, runVars, failures>>

-----------------------------------------------------------------------------
(* The rows and the in-memory state of the processes.                       *)

\* "none": never inserted, or rolled back; "inserting": an INSERT that has
\* its seq_no and is not committed; "gone": deleted by a merge.
RowState == {"none", "inserting", "NEW", "COMPACTING", "gone"}

\* river's available/running/retryable/completed/discarded; "none": not
\* inserted yet.
JobState == {"none", "available", "running", "retryable", "completed", "discarded"}

JobRow == [state : JobState, wals : SUBSET Batches, attempt : Nat]

RunRow == [seqNo : Nat, job : Jobs, attempt : Nat, wals : SUBSET Batches]

OrchState == [pc : {"idle", "listed", "marked"}, wals : SUBSET Batches, valid : BOOLEAN]

ExecState == [pc : {"idle", "fetched", "uploaded", "inserted", "deleted"},
              job : Jobs \cup {0}, runNo : Nat, valid : BOOLEAN]

IdleOrch == [pc |-> "idle", wals |-> {}, valid |-> FALSE]
IdleExec == [pc |-> "idle", job |-> 0, runNo |-> 0, valid |-> FALSE]

\* Mutant: only rows that no job was given yet.
GetNewWriteAheadLogs == {b \in Batches : row[b] = "NEW"}

\* The rows a query sees: committed and not deleted.
GetWriteAheadLogs == {b \in Batches : row[b] \in {"NEW", "COMPACTING"}}

GetWriteAheadLogsToCompact == {b \in Batches : row[b] = "NEW"}

TypeOK ==
    /\ walObjects \subseteq Batches
    /\ row \in [Batches -> RowState]
    /\ seqNo \in [Batches -> Nat]
    /\ nextSeqNo \in Nat \ {0}
    /\ orch \in [Orchestrators -> OrchState]
    /\ job \in [Jobs -> JobRow]
    /\ exec \in [Executors -> ExecState]
    /\ runObjects \subseteq Jobs \X Nat
    /\ runs \subseteq RunRow
    /\ nextRunNo \in Nat \ {0}
    /\ failures \in Nat

Init ==
    /\ walObjects = {}
    /\ row = [b \in Batches |-> "none"]
    /\ seqNo = [b \in Batches |-> 0]
    /\ nextSeqNo = 1
    /\ orch = [o \in Orchestrators |-> IdleOrch]
    /\ job = [j \in Jobs |-> [state |-> "none", wals |-> {}, attempt |-> 0]]
    /\ exec = [e \in Executors |-> IdleExec]
    /\ runObjects = {}
    /\ runs = {}
    /\ nextRunNo = 1
    /\ failures = 0

\* A failure is charged to the bound.
Fail == /\ failures < MaxFailures
        /\ failures' = failures + 1

-----------------------------------------------------------------------------
(* Batcher: writeBatch on batch b.                                          *)

\* The object is uploaded under a fresh uuid, before any row names it.
UploadWAL(b) ==
    /\ b \notin walObjects
    /\ walObjects' = walObjects \cup {b}
    /\ UNCHANGED <<row, seqNo, nextSeqNo, orch, job, exec, runVars, failures>>

\* The INSERT draws the next seq_no; its row is not visible yet.
InsertWAL(b) ==
    /\ b \in walObjects
    /\ seqNo[b] = 0
    /\ Cardinality({c \in Batches : row[c] = "inserting"}) < MaxInserts
    /\ row' = [row EXCEPT ![b] = "inserting"]
    /\ seqNo' = [seqNo EXCEPT ![b] = nextSeqNo]
    /\ nextSeqNo' = nextSeqNo + 1
    /\ UNCHANGED <<walObjects, orch, job, exec, runVars, failures>>

\* The INSERT commits: state DEFAULT 'NEW'.
CommitWAL(b) ==
    /\ row[b] = "inserting"
    /\ row' = [row EXCEPT ![b] = "NEW"]
    /\ UNCHANGED <<walObjects, seqNo, nextSeqNo, orch, job, exec, runVars, failures>>

\* The INSERT fails: writeBatch returns an error and never retries, the
\* object stays behind unreferenced and the seq_no is lost.
AbortWAL(b) ==
    /\ row[b] = "inserting"
    /\ Fail
    /\ row' = [row EXCEPT ![b] = "none"]
    /\ UNCHANGED <<walObjects, seqNo, nextSeqNo, orch, job, exec, runVars>>

AddWriteAheadLog(b) == InsertWAL(b) \/ CommitWAL(b) \/ AbortWAL(b)

-----------------------------------------------------------------------------
(* Orchestrator: one tick of processLoop.                                   *)

\* The tick reads the NEW rows; maybeCompactWAL returns at once when there
\* are too few of them.
ListWALs(o) ==
    /\ orch[o].pc = "idle"
    /\ Cardinality(GetWriteAheadLogsToCompact) >= MinWALsToCompact
    /\ orch' = [orch EXCEPT ![o] =
                  [pc |-> "listed", wals |-> GetWriteAheadLogsToCompact, valid |-> FALSE]]
    /\ UNCHANGED <<walVars, job, exec, runVars, failures>>

\* Mutant: the rows are marked outside of the transaction.
MarkOutsideTransaction(o) ==
    /\ orch[o].pc = "listed"
    /\ orch' = [orch EXCEPT ![o] = [pc |-> "marked", wals |-> orch[o].wals, valid |-> FALSE]]
    /\ row' = [b \in Batches |-> IF b \in orch[o].wals THEN "COMPACTING" ELSE row[b]]
    /\ UNCHANGED <<walObjects, seqNo, nextSeqNo, job, exec, runVars, failures>>

\* MarkWriteAheadLogsAsCompacting starts: the CTE compares the number of
\* NEW rows among seq_nos with the length of seq_nos.
MarkWriteAheadLogsAsCompacting(o) ==
    /\ orch[o].pc = "listed"
    /\ orch' = [orch EXCEPT ![o] =
                  [pc |-> "marked", wals |-> orch[o].wals,
                   valid |-> orch[o].wals \subseteq GetWriteAheadLogsToCompact]]
    /\ UNCHANGED <<walVars, job, exec, runVars, failures>>

\* The ids of river_job are handed out in order.
FreshJob(j) ==
    /\ job[j].state = "none"
    /\ \A i \in Jobs : i < j => job[i].state # "none"

\* The UPDATE re-checks each row once it has its lock.  Its boolean result
\* is discarded by maybeCompactWAL, which only looks at the error: the job
\* is inserted whether or not the rows were marked.
ScheduleJob(o) ==
    /\ orch[o].pc = "marked"
    /\ row' = [b \in Batches |->
                 IF orch[o].valid /\ b \in orch[o].wals /\ row[b] = "NEW"
                   THEN "COMPACTING" ELSE row[b]]
    /\ \E j \in Jobs :
         /\ FreshJob(j)
         /\ job' = [job EXCEPT ![j] =
                      [state |-> "available", wals |-> orch[o].wals, attempt |-> 0]]
    /\ orch' = [orch EXCEPT ![o] = IdleOrch]
    /\ UNCHANGED <<walObjects, seqNo, nextSeqNo, exec, runVars, failures>>

\* An error or a crash before the commit rolls the transaction back; the
\* next tick starts over.
TickFails(o) ==
    /\ orch[o].pc # "idle"
    /\ Fail
    /\ orch' = [orch EXCEPT ![o] = IdleOrch]
    /\ UNCHANGED <<walVars, job, exec, runVars>>

MaybeCompactWAL(o) ==
    \/ ListWALs(o)
    \/ MarkWriteAheadLogsAsCompacting(o)
    \/ ScheduleJob(o)
    \/ TickFails(o)

-----------------------------------------------------------------------------
(* Worker: river hands job j to executor e, which calls Work.               *)

\* river fetches untried jobs in the order of their ids; a job that failed
\* is scheduled anew, after a backoff.
Due(j) ==
    \/ job[j].state = "retryable"
    \/ /\ job[j].state = "available"
       /\ \A i \in Jobs : i < j => job[i].state # "available"

Fetch(e, j) ==
    /\ exec[e].pc = "idle"
    /\ Due(j)
    /\ job' = [job EXCEPT ![j] =
                 [state |-> "running", wals |-> job[j].wals, attempt |-> job[j].attempt + 1]]
    /\ exec' = [exec EXCEPT ![e] = [pc |-> "fetched", job |-> j, runNo |-> 0, valid |-> FALSE]]
    /\ UNCHANGED <<walVars, orch, runVars, failures>>

\* Work reads the WAL objects of the job, merges them and uploads the
\* result under a fresh uuid, here the attempt that made it.
UploadRun(e) ==
    LET j == exec[e].job IN
    /\ exec[e].pc = "fetched"
    /\ job[j].wals \subseteq walObjects
    /\ runObjects' = runObjects \cup {<<j, job[j].attempt>>}
    /\ exec' = [exec EXCEPT ![e] = [pc |-> "uploaded", job |-> j, runNo |-> 0, valid |-> FALSE]]
    /\ UNCHANGED <<walVars, orch, job, runs, nextRunNo, failures>>

\* AddSharedRun draws the next seq_no of shared_runs.
AddSharedRun(e) ==
    /\ exec[e].pc = "uploaded"
    /\ exec' = [exec EXCEPT ![e] =
                  [pc |-> "inserted", job |-> exec[e].job, runNo |-> nextRunNo, valid |-> FALSE]]
    /\ nextRunNo' = nextRunNo + 1
    /\ UNCHANGED <<walVars, orch, job, runObjects, runs, failures>>

\* Mutant: the rows are deleted outside of the transaction.
DeleteOutsideTransaction(e) ==
    /\ exec[e].pc = "inserted"
    /\ exec' = [exec EXCEPT ![e].pc = "deleted", ![e].valid = FALSE]
    /\ row' = [b \in Batches |-> IF b \in job[exec[e].job].wals THEN "gone" ELSE row[b]]
    /\ UNCHANGED <<walObjects, seqNo, nextSeqNo, orch, job, runVars, failures>>

\* Mutant: the validation expects the state from before the job.
DeleteExpectingNew(e) ==
    /\ exec[e].pc = "inserted"
    /\ exec' = [exec EXCEPT ![e].pc = "deleted",
                           ![e].valid = \A b \in job[exec[e].job].wals : row[b] = "NEW"]
    /\ UNCHANGED <<walVars, orch, job, runVars, failures>>

\* DeleteWriteAheadLogs starts: the CTE asks whether all rows of the job
\* are COMPACTING.
DeleteWriteAheadLogs(e) ==
    /\ exec[e].pc = "inserted"
    /\ exec' = [exec EXCEPT ![e] =
                  [pc |-> "deleted", job |-> exec[e].job, runNo |-> exec[e].runNo,
                   valid |-> \A b \in job[exec[e].job].wals : row[b] = "COMPACTING"]]
    /\ UNCHANGED <<walVars, orch, job, runVars, failures>>

\* Mutants: a field left at its zero value; a path drawn anew for the row.
NewRunWithoutJob(e) ==
    LET j == exec[e].job IN
    [seqNo |-> exec[e].runNo, job |-> 0, attempt |-> job[j].attempt, wals |-> job[j].wals]

NewRunAtFreshPath(e) ==
    LET j == exec[e].job IN
    [seqNo |-> exec[e].runNo, job |-> j, attempt |-> job[j].attempt + 1, wals |-> job[j].wals]

\* The row of shared_runs an executor inserts.
NewRun(e) ==
    LET j == exec[e].job IN
    [seqNo |-> exec[e].runNo, job |-> j, attempt |-> job[j].attempt, wals |-> job[j].wals]

\* Mutant: the DELETE forgets which rows the job carries.
RowsAfterDeleteOfAll(e) ==
    [b \in Batches |->
       IF exec[e].valid /\ row[b] = "COMPACTING" THEN "gone" ELSE row[b]]

\* Rows left by a validating DELETE that re-checks each row under its lock.
RowsAfterDelete(e) ==
    [b \in Batches |->
       IF exec[e].valid /\ b \in job[exec[e].job].wals /\ row[b] = "COMPACTING"
         THEN "gone" ELSE row[b]]

\* The transaction commits: run inserted, rows deleted, job completed.  The
\* boolean result of the DELETE is discarded too.
CommitMerge(e) ==
    /\ exec[e].pc = "deleted"
    /\ runs' = runs \cup {NewRun(e)}
    /\ row' = RowsAfterDelete(e)
    /\ job' = [job EXCEPT ![exec[e].job].state = "completed"]
    /\ exec' = [exec EXCEPT ![e] = IdleExec]
    /\ UNCHANGED <<walObjects, seqNo, nextSeqNo, orch, runObjects, nextRunNo, failures>>

\* Mutant: a job is given up one attempt early.
RetryTooFew(j) ==
    job' = [job EXCEPT ![j].state =
              IF job[j].attempt + 1 < MaxAttempts THEN "retryable" ELSE "discarded"]

\* river's verdict on an attempt that did not complete the job.
Retry(j) ==
    job' = [job EXCEPT ![j].state =
              IF job[j].attempt < MaxAttempts THEN "retryable" ELSE "discarded"]

\* Work returns an error: its transaction is rolled back.
WorkError(e) ==
    /\ exec[e].pc # "idle"
    /\ Fail
    /\ Retry(exec[e].job)
    /\ exec' = [exec EXCEPT ![e] = IdleExec]
    /\ UNCHANGED <<walVars, orch, runVars>>

\* The worker process dies: the job stays "running" until it is rescued.
Crash(e) ==
    /\ exec[e].pc # "idle"
    /\ Fail
    /\ exec' = [exec EXCEPT ![e] = IdleExec]
    /\ UNCHANGED <<walVars, orch, job, runVars>>

Work(e) ==
    \/ UploadRun(e)
    \/ AddSharedRun(e)
    \/ DeleteWriteAheadLogs(e)
    \/ CommitMerge(e)

\* Mutant: a job is rescued while an executor still works on it.
RescueEarly(j) ==
    /\ job[j].state = "running"
    /\ Retry(j)
    /\ UNCHANGED <<walVars, orch, exec, runVars, failures>>

\* river's job rescuer.  Jobs are timed out after a minute and rescued after
\* an hour, so no executor still works on a job that is rescued.
Rescue(j) ==
    /\ job[j].state = "running"
    /\ \A e \in Executors : exec[e].job # j
    /\ Retry(j)
    /\ UNCHANGED <<walVars, orch, exec, runVars, failures>>

-----------------------------------------------------------------------------
Next ==
    \/ \E b \in Batches : UploadWAL(b) \/ AddWriteAheadLog(b)
    \/ \E o \in Orchestrators : MaybeCompactWAL(o)
    \/ \E e \in Executors :
         \/ \E j \in Jobs : Fetch(e, j)
         \/ Work(e)
         \/ WorkError(e)
         \/ Crash(e)
    \/ \E j \in Jobs : Rescue(j)

Spec == Init /\ [][Next]_vars

(***************************************************************************)
(* Fairness.  A goroutine that can run does; the orchestrator's ticker     *)
(* keeps ticking; river's producers keep fetching and its elected leader   *)
(* keeps rescuing.  Failures are never forced, and clients need not write. *)
(***************************************************************************)
Fairness ==
    /\ \A b \in Batches : WF_vars(CommitWAL(b))
    /\ \A o \in Orchestrators :
         WF_vars(ListWALs(o) \/ MarkWriteAheadLogsAsCompacting(o) \/ ScheduleJob(o))
    /\ \A e \in Executors : WF_vars((\E j \in Jobs : Fetch(e, j)) \/ Work(e))
    /\ \A j \in Jobs : WF_vars(Rescue(j))

FairSpec == Spec /\ Fairness

-----------------------------------------------------------------------------
(* What a lookup of the whole database finds.                               *)

Writers(S, k) == {b \in S : k \in KeysOf[b]}

\* Work and the index both put the highest seq_no first and keep the first
\* record of a key.
Newest(S) == CHOOSE b \in S : \A c \in S : seqNo[c] =< seqNo[b]

\* Mutant: the objects are merged in the order the rows were listed.
MergedInOrder(S, k) == CHOOSE b \in Writers(S, k) : \A c \in Writers(S, k) : seqNo[b] =< seqNo[c]

\* The version of k in a run made from the WALs S.
Merged(S, k) == Newest(Writers(S, k))

\* Mutant: the runs in the order they were made.
OldestRun(R) == CHOOSE r \in R : \A q \in R : r.seqNo =< q.seqNo

NewestRun(R) == CHOOSE r \in R : \A q \in R : q.seqNo =< r.seqNo

RunsWith(R, k) == {r \in R : Writers(r.wals, k) # {}}

\* Mutant: the runs are searched before the WALs.
ResolveRunsFirst(W, R, k) ==
    IF RunsWith(R, k) # {} THEN Merged(NewestRun(RunsWith(R, k)).wals, k)
    ELSE IF Writers(W, k) # {} THEN Newest(Writers(W, k))
    ELSE NoBatch

\* The version of k that BatchGet finds with WALs W and runs R: the newest
\* WAL that has the key, else the newest run that has it.
Resolve(W, R, k) ==
    IF Writers(W, k) # {} THEN Newest(Writers(W, k))
    ELSE IF RunsWith(R, k) # {} THEN Merged(NewestRun(RunsWith(R, k)).wals, k)
    ELSE NoBatch

Lookup(k) == Resolve(GetWriteAheadLogs, runs, k)

-----------------------------------------------------------------------------
(* Safety, for any number of orchestrators, executors and failures.         *)

\* Batches whose INSERT committed: their writers may have been answered.
Committed == {b \in Batches : row[b] \in {"NEW", "COMPACTING", "gone"}}

\* Batches whose records a reader of both tables can reach.
Retrievable == GetWriteAheadLogs \cup UNION {r.wals : r \in runs}

\* An acknowledged batch is never lost: when a merge has deleted its row, a
\* committed run holds its records, whatever other merges of the same rows,
\* retries, crashes and rollbacks went on around it.
Durable == Committed \subseteq Retrievable

\* Nothing is read before it is written: every object a committed row, a job
\* or a run names has been uploaded, so that a merge or a lookup never meets
\* a missing object.
NoDanglingPath ==
    /\ Committed \subseteq walObjects
    /\ \A j \in Jobs : job[j].wals \subseteq Committed
    /\ \A r \in runs : <<r.job, r.attempt>> \in runObjects

\* A job commits at most one run, although river may run it again after an
\* error or a crash: the run and the completion of the job are one
\* transaction.  No two runs share a seq_no.
OneRunPerJob ==
    \A r, q \in runs : (r.job = q.job \/ r.seqNo = q.seqNo) => r = q

\* A WAL row disappears only in the step that commits a run made from it and
\* completes that run's job.
DeletedOnlyByMerge ==
    [][\A b \in GetWriteAheadLogs :
         b \notin GetWriteAheadLogs' =>
           \E r \in runs' \ runs : b \in r.wals /\ job'[r.job].state = "completed"]_vars

\* A row that is COMPACTING although every job that has it is over: no job
\* will look at it again.
Stranded(b) ==
    /\ row[b] = "COMPACTING"
    /\ \A j \in Jobs : b \in job[j].wals => job[j].state \in {"completed", "discarded"}

\* Rows are stranded in two ways only: all attempts of their job failed, or
\* another job had rows of it, so that the deletion of one of them found rows
\* of the other gone or not yet marked.  A job with rows of its own that
\* completes takes all its rows along, whatever it met on the way.
StrandedForCause ==
    \A b \in Batches : Stranded(b) =>
      \E j \in Jobs :
        /\ b \in job[j].wals
        /\ \/ job[j].state = "discarded" /\ job[j].attempt = MaxAttempts
           \/ \E i \in Jobs \ {j} : job[i].wals \cap job[j].wals # {}

\* Job j has no row in common with another job.
Alone(j) == \A i \in Jobs \ {j} : job[i].wals \cap job[j].wals = {}

\* Rows and jobs agree, however many orchestrators read and mark the rows
\* without locks: a row leaves NEW only for a job, is deleted only for a
\* completed one, and as long as no other job has been given rows of a job,
\* all its rows are COMPACTING until it completes and gone from then on.
OwnedRows ==
    /\ \A b \in Batches :
         /\ row[b] = "COMPACTING" => \E j \in Jobs : b \in job[j].wals
         /\ row[b] = "gone" => \E j \in Jobs : b \in job[j].wals /\ job[j].state = "completed"
    /\ \A j \in Jobs : Alone(j) =>
         \A b \in job[j].wals :
           row[b] = IF job[j].state = "completed" THEN "gone" ELSE "COMPACTING"

-----------------------------------------------------------------------------
(* What the code says of concurrent updates, and does not do.               *)

\* An orchestrator whose rows were marked by a concurrent update skips them,
\* so that no row is given to two jobs.
NoDoubleCompaction ==
    \A i, j \in Jobs : i # j => job[i].wals \cap job[j].wals = {}

\* A merge whose rows were deleted by a concurrent update is a no-op: a run
\* is committed only with the deletion of rows it was made from.
MergesTakeTheirRows ==
    [][\A r \in runs' \ runs :
         \E b \in r.wals : b \in GetWriteAheadLogs /\ b \notin GetWriteAheadLogs']_vars

-----------------------------------------------------------------------------
(* Progress, for any number of orchestrators.                               *)

\* NEW rows do not pile up: once there are MinWALsToCompact of them some are
\* given to a job.  Fewer than that stay NEW until more are written.  What is
\* COMPACTING ends up in a run, as long as a job fails fewer times than river
\* grants it attempts.
EveryWALCompacted ==
    /\ Cardinality(GetWriteAheadLogsToCompact) >= MinWALsToCompact
         ~> Cardinality(GetWriteAheadLogsToCompact) < MinWALsToCompact
    /\ \A b \in Batches : row[b] = "COMPACTING" ~> \E r \in runs : b \in r.wals

-----------------------------------------------------------------------------
(* What a lookup returns.                                                   *)

\* shared_runs read in the order of seq_no, highest first, is newest first:
\* the run that wins holds the newest version of any key it shares with a
\* run below it.
RunsNewestFirst ==
    \A r, q \in runs : \A k \in Keys :
      /\ q.seqNo < r.seqNo
      /\ Writers(r.wals, k) # {}
      /\ Writers(q.wals, k) # {}
      => seqNo[Merged(q.wals, k)] =< seqNo[Merged(r.wals, k)]

\* Newer values take precedence: a merge moves records from WALs to a run
\* without changing what any lookup returns.
MergePreservesLookups ==
    [][runs' # runs => \A k \in Keys : Lookup(k)' = Lookup(k)]_vars

\* Newer values take precedence: a key that was found with one version is
\* never found with a version of a lower seq_no later.
NewerTakesPrecedence ==
    [][\A k \in Keys : Writers(Committed, k) # {} => seqNo[Lookup(k)] =< seqNo'[Lookup(k)']]_vars

\* The batches that become visible in this step and write k.
Appearing(k) == Writers(Committed' \ Committed, k)

\* The step is overtaken by another one, for key k: it commits an INSERT
\* below a WAL of k, or a merge of a version of k that shares rows with
\* another job, leaves behind a WAL of k that drew a lower number and
\* committed late, or has a run of k numbered above it already.
Overtaken(k) ==
    \/ \E b \in Appearing(k), c \in Writers(GetWriteAheadLogs, k) : seqNo[b] < seqNo[c]
    \/ \E r \in runs' \ runs :
         /\ Writers(r.wals, k) # {}
         /\ \/ ~ Alone(r.job)
            \/ \E c \in Writers(GetWriteAheadLogs \ r.wals, k) : seqNo[c] < seqNo[Merged(r.wals, k)]
            \/ \E q \in runs : Writers(q.wals, k) # {} /\ r.seqNo < q.seqNo

\* In any deployment, whatever is read, merged, retried or lost around it, a
\* lookup changes in one way only: the batch whose INSERT commits is what its
\* keys are found with from then on, and every other key is found as before.
\* Only a step that is overtaken does anything else.
LookupsChangeForCause ==
    [][\A k \in Keys :
         \/ Appearing(k) = {} /\ Lookup(k)' = Lookup(k)
         \/ Lookup(k)' \in Appearing(k)
         \/ Overtaken(k)]_vars

-----------------------------------------------------------------------------
(* The abstract specifications.                                             *)

A == INSTANCE Archive WITH stored <- Retrievable

\* Any deployment implements the archive: no step makes a batch unreachable,
\* and only the commit of its INSERT makes a batch reachable.
ImplementsArchive == A!Spec

KVStore == INSTANCE Store WITH
       written <- Committed,
       value <- [k \in Keys |-> Lookup(k)]

\* A deployment none of whose steps is overtaken implements the store of a
\* client: the newest WAL, else the newest run, is the version the last
\* committed batch wrote.
ImplementsStore == KVStore!Spec

=============================================================================
