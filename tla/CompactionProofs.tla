--------------------------- MODULE CompactionProofs ---------------------------
(***************************************************************************)
(* Proofs about Compaction, for any sets of batches, keys, orchestrators,  *)
(* executors and jobs and any bounds: durability; which jobs have which    *)
(* rows, and whose fault a row is that no job will look at again; and what *)
(* may change what a lookup finds, from which it follows when the tables   *)
(* implement a key-value store.                                            *)
(***************************************************************************)
EXTENDS Compaction, ListsAndSums

(***************************************************************************)
(* The inductive invariant.  Durable, NoDanglingPath and OneRunPerJob are  *)
(* not inductive: they say nothing of what the transactions in progress    *)
(* hold in memory and will make visible when they commit.                  *)
(***************************************************************************)

\* A row exists only once its object is uploaded and its seq_no drawn.
RowsInv == \A b \in Batches : row[b] # "none" => b \in walObjects /\ seqNo[b] # 0

\* Whatever an orchestrator, a job or a run names has been committed.
SourcesInv ==
    /\ \A o \in Orchestrators : orch[o].wals \subseteq Committed
    /\ \A j \in Jobs : job[j].wals \subseteq Committed
    /\ \A r \in runs : r.wals \subseteq Committed

\* A deleted row has left its records in a run.
DeletedInv == \A b \in Batches : row[b] = "gone" => \E r \in runs : b \in r.wals

\* An executor holds a running job of its own, and has uploaded its run
\* before it inserts the row that names it.
ExecInv ==
    \A e \in Executors :
      /\ exec[e].job = 0 <=> exec[e].pc = "idle"
      /\ exec[e].job # 0 => job[exec[e].job].state = "running"
      /\ exec[e].pc \in {"uploaded", "inserted", "deleted"}
           => <<exec[e].job, job[exec[e].job].attempt>> \in runObjects
      /\ \A f \in Executors : exec[e].job = exec[f].job /\ exec[e].job # 0 => e = f

\* A run belongs to one completed job.
RunsInv ==
    /\ \A r \in runs : /\ job[r.job].state = "completed"
                       /\ <<r.job, r.attempt>> \in runObjects
    /\ \A r, q \in runs : r.job = q.job => r = q

\* The seq_nos of the runs, committed or about to be, are different.
RunNosInv ==
    /\ \A r \in runs : r.seqNo < nextRunNo
    /\ \A r, q \in runs : r.seqNo = q.seqNo => r = q
    /\ \A e \in Executors : exec[e].pc \in {"inserted", "deleted"} =>
         /\ exec[e].runNo < nextRunNo
         /\ \A r \in runs : r.seqNo # exec[e].runNo
         /\ \A f \in Executors :
              exec[f].pc \in {"inserted", "deleted"} /\ exec[f].runNo = exec[e].runNo => e = f

IInv == /\ TypeOK
        /\ RowsInv
        /\ SourcesInv
        /\ DeletedInv
        /\ ExecInv
        /\ RunsInv
        /\ RunNosInv

-----------------------------------------------------------------------------
(* Each action preserves the inductive invariant.                           *)

\* An executor that works holds a running job.
LEMMA HeldJob ==
    ASSUME TypeOK, ExecInv, NEW e \in Executors, exec[e].pc # "idle"
    PROVE  exec[e].job \in Jobs /\ job[exec[e].job].state = "running"
BY DEF TypeOK, ExecInv, ExecState

\* UploadWAL preserves the invariant.
LEMMA UploadWALStep ==
    ASSUME IInv, NEW b \in Batches, UploadWAL(b)
    PROVE  IInv'
<1> USE CompactionAssumption DEF IInv, UploadWAL
<1>1. TypeOK'
  BY DEF TypeOK, runVars
<1>2. RowsInv'
  BY DEF RowsInv
<1>3. SourcesInv' /\ DeletedInv' /\ ExecInv' /\ RunsInv' /\ RunNosInv'
  BY DEF SourcesInv, Committed, DeletedInv, ExecInv, RunsInv, RunNosInv, runVars
<1>4. QED
  BY <1>1, <1>2, <1>3

\* InsertWAL preserves the invariant.
LEMMA InsertWALStep ==
    ASSUME IInv, NEW b \in Batches, InsertWAL(b)
    PROVE  IInv'
<1> USE CompactionAssumption DEF IInv, InsertWAL
<1>1. TypeOK'
  BY DEF TypeOK, runVars, RowState
<1>2. RowsInv'
  BY DEF RowsInv, runVars, TypeOK
<1>3. SourcesInv'
  BY DEF SourcesInv, Committed, RowsInv, runVars
<1>4. DeletedInv' /\ ExecInv' /\ RunsInv' /\ RunNosInv'
  BY DEF DeletedInv, ExecInv, RunsInv, RunNosInv, runVars
<1>5. QED
  BY <1>1, <1>2, <1>3, <1>4

\* CommitWAL preserves the invariant.
LEMMA CommitWALStep ==
    ASSUME IInv, NEW b \in Batches, CommitWAL(b)
    PROVE  IInv'
<1> USE CompactionAssumption DEF IInv, CommitWAL
<1>1. TypeOK'
  BY DEF TypeOK, runVars, RowState
<1>2. RowsInv'
  BY DEF RowsInv
<1>3. SourcesInv'
  BY DEF SourcesInv, Committed, runVars
<1>4. DeletedInv' /\ ExecInv' /\ RunsInv' /\ RunNosInv'
  BY DEF DeletedInv, ExecInv, RunsInv, RunNosInv, runVars
<1>5. QED
  BY <1>1, <1>2, <1>3, <1>4

\* AbortWAL preserves the invariant.
LEMMA AbortWALStep ==
    ASSUME IInv, NEW b \in Batches, AbortWAL(b)
    PROVE  IInv'
<1> USE CompactionAssumption DEF IInv, AbortWAL, Fail
<1>1. TypeOK'
  BY DEF TypeOK, runVars, RowState
<1>2. RowsInv'
  BY DEF RowsInv
<1>3. SourcesInv'
  BY DEF SourcesInv, Committed, runVars
<1>4. DeletedInv' /\ ExecInv' /\ RunsInv' /\ RunNosInv'
  BY DEF DeletedInv, ExecInv, RunsInv, RunNosInv, runVars
<1>5. QED
  BY <1>1, <1>2, <1>3, <1>4

\* ListWALs preserves the invariant.
LEMMA ListWALsStep ==
    ASSUME IInv, NEW o \in Orchestrators, ListWALs(o)
    PROVE  IInv'
<1> USE CompactionAssumption DEF IInv, ListWALs, GetWriteAheadLogsToCompact
<1>1. TypeOK'
  BY DEF TypeOK, walVars, runVars, OrchState
<1>2. SourcesInv'
  BY DEF SourcesInv, Committed, walVars, runVars
<1>3. RowsInv' /\ DeletedInv' /\ ExecInv' /\ RunsInv' /\ RunNosInv'
  BY DEF RowsInv, DeletedInv, ExecInv, RunsInv, RunNosInv, walVars, runVars
<1>4. QED
  BY <1>1, <1>2, <1>3

\* MarkWriteAheadLogsAsCompacting preserves the invariant.
LEMMA MarkWriteAheadLogsAsCompactingStep ==
    ASSUME IInv, NEW o \in Orchestrators, MarkWriteAheadLogsAsCompacting(o)
    PROVE  IInv'
<1> USE CompactionAssumption DEF IInv, MarkWriteAheadLogsAsCompacting
<1>1. TypeOK'
  BY DEF TypeOK, walVars, runVars, OrchState
<1>2. SourcesInv'
  BY DEF SourcesInv, Committed, walVars, runVars
<1>3. RowsInv' /\ DeletedInv' /\ ExecInv' /\ RunsInv' /\ RunNosInv'
  BY DEF RowsInv, DeletedInv, ExecInv, RunsInv, RunNosInv, walVars, runVars
<1>4. QED
  BY <1>1, <1>2, <1>3

\* ScheduleJob preserves the invariant.
LEMMA ScheduleJobStep ==
    ASSUME IInv, NEW o \in Orchestrators, ScheduleJob(o)
    PROVE  IInv'
<1> USE CompactionAssumption DEF IInv, ScheduleJob, FreshJob
<1>1. TypeOK'
  BY DEF TypeOK, runVars, RowState, OrchState, IdleOrch, JobRow, JobState
<1>2. RowsInv'
  BY DEF RowsInv
<1>3. SourcesInv'
  BY DEF SourcesInv, Committed, runVars, IdleOrch
<1>4. DeletedInv'
  BY DEF DeletedInv, runVars
<1>5. ExecInv'
  BY DEF ExecInv, runVars, TypeOK, JobRow, ExecState
<1>6. RunsInv'
  BY DEF RunsInv, runVars
<1>7. RunNosInv'
  BY DEF RunNosInv, runVars
<1>8. QED
  BY <1>1, <1>2, <1>3, <1>4, <1>5, <1>6, <1>7

\* TickFails preserves the invariant.
LEMMA TickFailsStep ==
    ASSUME IInv, NEW o \in Orchestrators, TickFails(o)
    PROVE  IInv'
<1> USE CompactionAssumption DEF IInv, TickFails, Fail
<1>1. TypeOK'
  BY DEF TypeOK, walVars, runVars, OrchState, IdleOrch
<1>2. SourcesInv'
  BY DEF SourcesInv, Committed, walVars, runVars, IdleOrch
<1>3. RowsInv' /\ DeletedInv' /\ ExecInv' /\ RunsInv' /\ RunNosInv'
  BY DEF RowsInv, DeletedInv, ExecInv, RunsInv, RunNosInv, walVars, runVars
<1>4. QED
  BY <1>1, <1>2, <1>3

\* Fetch preserves the invariant.
LEMMA FetchStep ==
    ASSUME IInv, NEW e \in Executors, NEW j \in Jobs, Fetch(e, j)
    PROVE  IInv'
<1> USE CompactionAssumption DEF IInv, Fetch, Due
<1>1. TypeOK'
  BY DEF TypeOK, walVars, runVars, JobRow, JobState, ExecState
<1>2. SourcesInv'
  BY DEF SourcesInv, Committed, walVars, runVars
<1>3. ExecInv'
  <2>1. /\ exec'[e].pc = "fetched" /\ exec'[e].job = j
        /\ \A f \in Executors \ {e} : exec'[f] = exec[f]
        /\ job'[j].state = "running" /\ job[j].state # "running"
        /\ \A i \in Jobs \ {j} : job'[i] = job[i]
        /\ j # 0 /\ runObjects' = runObjects
    BY DEF TypeOK, JobRow, ExecState, runVars
  <2>2. \A f \in Executors : exec[f].job # 0 => exec[f].job \in Jobs \ {j}
    BY <2>1 DEF TypeOK, ExecState, ExecInv
  <2>3. QED
    BY <2>1, <2>2 DEF ExecInv
<1>4. RunsInv'
  BY DEF RunsInv, walVars, runVars
<1>5. RunNosInv'
  BY DEF RunNosInv, walVars, runVars
<1>6. RowsInv' /\ DeletedInv'
  BY DEF RowsInv, DeletedInv, walVars, runVars
<1>7. QED
  BY <1>1, <1>2, <1>3, <1>4, <1>5, <1>6

\* UploadRun preserves the invariant.
LEMMA UploadRunStep ==
    ASSUME IInv, NEW e \in Executors, UploadRun(e)
    PROVE  IInv'
<1> USE CompactionAssumption DEF IInv, UploadRun
<1>0. exec[e].job \in Jobs /\ job[exec[e].job].state = "running"
  BY HeldJob
<1>1. TypeOK'
  <2>1. job[exec[e].job].attempt \in Nat
    BY <1>0 DEF TypeOK, JobRow
  <2>2. runObjects' \subseteq Jobs \X Nat
    BY <1>0, <2>1 DEF TypeOK
  <2>3. exec' \in [Executors -> ExecState]
    BY <1>0 DEF TypeOK, ExecState
  <2>4. QED
    BY <2>2, <2>3 DEF TypeOK, walVars
<1>2. ExecInv'
  BY <1>0 DEF ExecInv
<1>3. RunsInv'
  BY <1>0 DEF RunsInv
<1>4. RunNosInv'
  BY <1>0 DEF RunNosInv
<1>5. RowsInv' /\ SourcesInv' /\ DeletedInv'
  BY <1>0 DEF RowsInv, SourcesInv, Committed, DeletedInv, walVars
<1>6. QED
  BY <1>1, <1>2, <1>3, <1>4, <1>5

\* AddSharedRun preserves the invariant.
LEMMA AddSharedRunStep ==
    ASSUME IInv, NEW e \in Executors, AddSharedRun(e)
    PROVE  IInv'
<1> USE CompactionAssumption DEF IInv, AddSharedRun
<1>0. exec[e].job \in Jobs /\ job[exec[e].job].state = "running"
  BY HeldJob
<1>1. TypeOK'
  BY <1>0 DEF TypeOK, walVars, ExecState
<1>2. ExecInv'
  BY <1>0 DEF ExecInv
<1>3. RunNosInv'
  BY <1>0 DEF RunNosInv, walVars, TypeOK, JobRow, ExecState, OrchState, RunRow
<1>4. RowsInv' /\ SourcesInv' /\ DeletedInv' /\ RunsInv'
  BY <1>0 DEF RowsInv, SourcesInv, Committed, DeletedInv, RunsInv, walVars
<1>5. QED
  BY <1>1, <1>2, <1>3, <1>4

\* DeleteWriteAheadLogs preserves the invariant.
LEMMA DeleteWriteAheadLogsStep ==
    ASSUME IInv, NEW e \in Executors, DeleteWriteAheadLogs(e)
    PROVE  IInv'
<1> USE CompactionAssumption DEF IInv, DeleteWriteAheadLogs
<1>0. exec[e].job \in Jobs /\ job[exec[e].job].state = "running"
  BY HeldJob
<1>1. TypeOK'
  BY <1>0 DEF TypeOK, walVars, runVars, ExecState
<1>2. ExecInv'
  BY <1>0 DEF ExecInv, walVars, runVars
<1>3. RunNosInv'
  BY <1>0 DEF RunNosInv, walVars, runVars
<1>4. RowsInv' /\ SourcesInv' /\ DeletedInv' /\ RunsInv'
  BY <1>0 DEF RowsInv, SourcesInv, Committed, DeletedInv, RunsInv, walVars, runVars
<1>5. QED
  BY <1>1, <1>2, <1>3, <1>4

\* WorkError preserves the invariant.
LEMMA WorkErrorStep ==
    ASSUME IInv, NEW e \in Executors, WorkError(e)
    PROVE  IInv'
<1> USE CompactionAssumption DEF IInv, WorkError, Fail, Retry
<1>0. exec[e].job \in Jobs /\ job[exec[e].job].state = "running"
  BY HeldJob
<1>1. TypeOK'
  BY <1>0 DEF TypeOK, walVars, runVars, JobRow, JobState, ExecState, IdleExec
<1>2. SourcesInv'
  BY <1>0 DEF SourcesInv, Committed, walVars, runVars
<1>3. ExecInv'
  BY <1>0 DEF ExecInv, walVars, runVars, TypeOK, IdleExec
<1>4. RunsInv'
  BY <1>0 DEF RunsInv, walVars, runVars
<1>5. RunNosInv'
  BY <1>0 DEF RunNosInv, walVars, runVars, IdleExec
<1>6. RowsInv' /\ DeletedInv'
  BY <1>0 DEF RowsInv, DeletedInv, walVars, runVars
<1>7. QED
  BY <1>1, <1>2, <1>3, <1>4, <1>5, <1>6

\* Crash preserves the invariant.
LEMMA CrashStep ==
    ASSUME IInv, NEW e \in Executors, Crash(e)
    PROVE  IInv'
<1> USE CompactionAssumption DEF IInv, Crash, Fail
<1>0. exec[e].job \in Jobs /\ job[exec[e].job].state = "running"
  BY HeldJob
<1>1. TypeOK'
  BY <1>0 DEF TypeOK, walVars, runVars, ExecState, IdleExec
<1>2. ExecInv'
  BY <1>0 DEF ExecInv, walVars, runVars, IdleExec
<1>3. RunNosInv'
  BY <1>0 DEF RunNosInv, walVars, runVars, IdleExec
<1>4. RowsInv' /\ SourcesInv' /\ DeletedInv' /\ RunsInv'
  BY <1>0 DEF RowsInv, SourcesInv, Committed, DeletedInv, RunsInv, walVars, runVars
<1>5. QED
  BY <1>1, <1>2, <1>3, <1>4

\* Rescue preserves the invariant.
LEMMA RescueStep ==
    ASSUME IInv, NEW j \in Jobs, Rescue(j)
    PROVE  IInv'
<1> USE CompactionAssumption DEF IInv, Rescue, Retry
<1>1. TypeOK'
  BY DEF TypeOK, walVars, runVars, JobRow, JobState
<1>2. SourcesInv'
  BY DEF SourcesInv, Committed, walVars, runVars
<1>3. ExecInv'
  BY DEF ExecInv, walVars, runVars
<1>4. RunsInv'
  BY DEF RunsInv, walVars, runVars
<1>5. RowsInv' /\ DeletedInv' /\ RunNosInv'
  BY DEF RowsInv, DeletedInv, RunNosInv, walVars, runVars
<1>6. QED
  BY <1>1, <1>2, <1>3, <1>4, <1>5

\* The rows a merge leaves: those it deletes were COMPACTING and in its job.
LEMMA MergedRows ==
    ASSUME TypeOK, NEW e \in Executors, CommitMerge(e)
    PROVE  /\ row' \in [Batches -> RowState]
           /\ \A b \in Batches :
                \/ row'[b] = row[b]
                \/ row[b] = "COMPACTING" /\ row'[b] = "gone" /\ b \in NewRun(e).wals
<1> DEFINE Hit(b) == exec[e].valid /\ b \in job[exec[e].job].wals /\ row[b] = "COMPACTING"
<1>1. NewRun(e).wals = job[exec[e].job].wals
  BY DEF NewRun
<1>2. \A b \in Batches : Hit(b) => row[b] = "COMPACTING" /\ b \in NewRun(e).wals
  BY <1>1
<1>3. row' = [b \in Batches |-> IF Hit(b) THEN "gone" ELSE row[b]]
  BY DEF CommitMerge, RowsAfterDelete
<1> HIDE DEF Hit
<1>4. row' \in [Batches -> RowState]
  BY <1>3 DEF TypeOK, RowState
<1>5. \A b \in Batches : \/ row'[b] = row[b]
                         \/ row[b] = "COMPACTING" /\ row'[b] = "gone" /\ b \in NewRun(e).wals
  BY <1>2, <1>3
<1>6. QED
  BY <1>4, <1>5

\* CommitMerge preserves the invariant: the run it commits has a job and a
\* seq_no no other run has, and holds the records of the rows it deletes.
LEMMA CommitMergeStep ==
    ASSUME IInv, NEW e \in Executors, CommitMerge(e)
    PROVE  IInv'
<1> DEFINE j == exec[e].job
           r == NewRun(e)
<1> USE DEF IInv
<1>1. /\ j \in Jobs /\ job[j] \in JobRow /\ job[j].state = "running"
      /\ exec[e] \in ExecState /\ exec[e].pc = "deleted"
  BY HeldJob DEF CommitMerge, TypeOK
<1>2. /\ r \in RunRow /\ r.job = j /\ r.wals = job[j].wals
      /\ r.attempt = job[j].attempt /\ r.seqNo = exec[e].runNo
  BY <1>1 DEF NewRun, RunRow, JobRow, ExecState
<1>3. /\ runs' = runs \cup {r}
      /\ job' = [job EXCEPT ![j].state = "completed"]
      /\ exec' = [exec EXCEPT ![e] = IdleExec]
      /\ UNCHANGED <<walObjects, seqNo, nextSeqNo, orch, runObjects, nextRunNo, failures>>
  BY DEF CommitMerge
<1> HIDE DEF r
<1>4. /\ row' \in [Batches -> RowState]
      /\ \A b \in Batches : \/ row'[b] = row[b]
                            \/ row[b] = "COMPACTING" /\ row'[b] = "gone" /\ b \in r.wals
  BY MergedRows DEF r
<1>5. TypeOK'
  BY <1>1, <1>2, <1>3, <1>4 DEF TypeOK, JobRow, JobState, ExecState, IdleExec
<1>6. RowsInv'
  BY <1>3, <1>4 DEF RowsInv
<1>7. SourcesInv'
  <2>1. Committed' = Committed
    BY <1>4 DEF Committed
  <2>2. \A i \in Jobs : job'[i].wals = job[i].wals
    BY <1>1, <1>3 DEF TypeOK, JobRow
  <2>3. QED
    BY <1>1, <1>2, <1>3, <2>1, <2>2 DEF SourcesInv
<1>8. DeletedInv'
  BY <1>3, <1>4 DEF DeletedInv
<1>9. ExecInv'
  <2>1. \A f \in Executors : exec'[f].job # 0 => f # e /\ exec'[f] = exec[f] /\ exec[f].job # j
    BY <1>1, <1>3 DEF ExecInv, TypeOK, IdleExec
  <2>2. \A f \in Executors : exec'[f].job = 0 => exec'[f].pc = "idle"
    BY <1>3 DEF ExecInv, TypeOK, IdleExec
  <2>3. \A i \in Jobs : /\ job'[i].attempt = job[i].attempt
                        /\ i # j => job'[i].state = job[i].state
    BY <1>1, <1>3 DEF TypeOK, JobRow
  <2>4. \A f \in Executors : exec[f].job # 0 => exec[f].job \in Jobs
    BY DEF TypeOK, ExecState
  <2>5. QED
    BY <1>3, <2>1, <2>2, <2>3, <2>4 DEF ExecInv
<1>10. RunsInv'
  <2>1. \A i \in Jobs : job'[i].state = "completed" <=> i = j \/ job[i].state = "completed"
    BY <1>1, <1>3 DEF TypeOK, JobRow
  <2>2. \A q \in runs : q.job \in Jobs /\ q.job # j
    BY <1>1 DEF RunsInv, TypeOK, RunRow
  <2>3. <<r.job, r.attempt>> \in runObjects
    BY <1>1, <1>2 DEF ExecInv
  <2>4. QED
    BY <1>1, <1>2, <1>3, <2>1, <2>2, <2>3 DEF RunsInv
<1>11. RunNosInv'
  <2>1. /\ r.seqNo < nextRunNo
        /\ \A q \in runs : q.seqNo # r.seqNo
        /\ \A f \in Executors : f # e /\ exec[f].pc \in {"inserted", "deleted"}
                                 => exec[f].runNo # r.seqNo
    BY <1>1, <1>2 DEF RunNosInv
  <2>2. \A f \in Executors : exec'[f].pc \in {"inserted", "deleted"}
                               => f # e /\ exec'[f] = exec[f]
    BY <1>3 DEF TypeOK, IdleExec
  <2>3. QED
    BY <1>3, <2>1, <2>2 DEF RunNosInv
<1>12. QED
  BY <1>5, <1>6, <1>7, <1>8, <1>9, <1>10, <1>11

-----------------------------------------------------------------------------
(* The invariants.                                                          *)

\* The initial states satisfy the invariant.
LEMMA InitIInv == Init => IInv
<1> SUFFICES ASSUME Init PROVE IInv
  OBVIOUS
<1>1. TypeOK
  BY CompactionAssumption DEF Init, TypeOK, RowState, JobRow, JobState, RunRow, OrchState,
       ExecState, IdleOrch, IdleExec
<1>2. RowsInv /\ DeletedInv /\ RunsInv /\ RunNosInv
  BY DEF Init, RowsInv, DeletedInv, RunsInv, RunNosInv, IdleExec
<1>3. SourcesInv
  BY DEF Init, SourcesInv, IdleOrch
<1>4. ExecInv
  BY DEF Init, ExecInv, IdleExec
<1>5. QED
  BY <1>1, <1>2, <1>3, <1>4 DEF IInv

\* Every step preserves the invariant.
LEMMA NextIInv == IInv /\ [Next]_vars => IInv'
<1> SUFFICES ASSUME IInv, [Next]_vars PROVE IInv'
  OBVIOUS
<1>1. CASE \E b \in Batches : UploadWAL(b) \/ AddWriteAheadLog(b)
  BY <1>1, UploadWALStep, InsertWALStep, CommitWALStep, AbortWALStep DEF AddWriteAheadLog
<1>2. CASE \E o \in Orchestrators : MaybeCompactWAL(o)
  BY <1>2, ListWALsStep, MarkWriteAheadLogsAsCompactingStep, ScheduleJobStep, TickFailsStep
     DEF MaybeCompactWAL
<1>3. CASE \E e \in Executors : \E j \in Jobs : Fetch(e, j)
  BY <1>3, FetchStep
<1>4. CASE \E e \in Executors : Work(e)
  BY <1>4, UploadRunStep, AddSharedRunStep, DeleteWriteAheadLogsStep, CommitMergeStep DEF Work
<1>5. CASE \E e \in Executors : WorkError(e) \/ Crash(e)
  BY <1>5, WorkErrorStep, CrashStep
<1>6. CASE \E j \in Jobs : Rescue(j)
  BY <1>6, RescueStep
<1>7. CASE UNCHANGED vars
  BY <1>7 DEF IInv, TypeOK, RowsInv, SourcesInv, Committed, DeletedInv, ExecInv, RunsInv,
       RunNosInv, vars, walVars, runVars
<1>8. QED
  BY <1>1, <1>2, <1>3, <1>4, <1>5, <1>6, <1>7 DEF Next

\* The inductive invariant holds in every reachable state.
THEOREM Invariance == Spec => []IInv
BY InitIInv, NextIInv, PTL DEF Spec

\* Type correctness of the database, the job queue and the processes.
THEOREM TypeCorrect == Spec => []TypeOK
<1>1. IInv => TypeOK
  BY DEF IInv
<1>2. QED
  BY Invariance, <1>1, PTL

\* No acknowledged batch is ever lost, with any number of orchestrators and
\* workers racing, retrying and crashing.
THEOREM Durability == Spec => []Durable
<1>1. IInv => Durable
  BY DEF IInv, DeletedInv, Durable, Committed, Retrievable, GetWriteAheadLogs
<1>2. QED
  BY Invariance, <1>1, PTL

\* Rows, jobs and runs never name an object that was not uploaded.
THEOREM ObjectsUploaded == Spec => []NoDanglingPath
<1>1. IInv => NoDanglingPath
  BY DEF IInv, NoDanglingPath, RowsInv, SourcesInv, RunsInv, Committed
<1>2. QED
  BY Invariance, <1>1, PTL

\* A job commits at most one run, however often river runs it, and the
\* seq_nos of the runs are distinct.
THEOREM CommitOnce == Spec => []OneRunPerJob
<1>1. IInv => OneRunPerJob
  BY DEF IInv, OneRunPerJob, RunsInv, RunNosInv
<1>2. QED
  BY Invariance, <1>1, PTL

-----------------------------------------------------------------------------
(* What a step may never do, and the abstract specification.                *)

\* The commit of the INSERT of batch b, as a change of the two tables.
Appears(b) == /\ row[b] = "inserting"
              /\ row' = [row EXCEPT ![b] = "NEW"]
              /\ runs' = runs

\* A step after which both tables hold the same batches as before.
Quiet == /\ \A b \in Batches :
              \/ row'[b] = row[b]
              \/ row[b] = "NEW" /\ row'[b] = "COMPACTING"
              \/ row[b] \in {"none", "inserting"} /\ row'[b] \in {"none", "inserting"}
         /\ runs' = runs

\* A step is the commit of an INSERT, or a merge, or changes neither table's
\* batches.
LEMMA TablesStep ==
    ASSUME IInv, Next
    PROVE  \/ \E b \in Batches : Appears(b)
           \/ \E e \in Executors : CommitMerge(e)
           \/ Quiet
<1>1. ASSUME NEW b \in Batches, UploadWAL(b) \/ InsertWAL(b) \/ AbortWAL(b) PROVE Quiet
  BY <1>1 DEF UploadWAL, InsertWAL, AbortWAL, IInv, RowsInv, TypeOK, runVars, Quiet
<1>2. ASSUME NEW b \in Batches, CommitWAL(b) PROVE Appears(b)
  BY <1>2 DEF CommitWAL, runVars, Appears
<1>3. ASSUME NEW o \in Orchestrators, ScheduleJob(o) PROVE Quiet
  BY <1>3 DEF ScheduleJob, IInv, TypeOK, runVars, Quiet
<1>4. ASSUME NEW o \in Orchestrators,
             ListWALs(o) \/ MarkWriteAheadLogsAsCompacting(o) \/ TickFails(o)
      PROVE  Quiet
  BY <1>4 DEF ListWALs, MarkWriteAheadLogsAsCompacting, TickFails, walVars, runVars, Quiet
<1>5. ASSUME NEW e \in Executors, (\E j \in Jobs : Fetch(e, j)) \/ WorkError(e) \/ Crash(e)
      PROVE  Quiet
  BY <1>5 DEF Fetch, WorkError, Crash, walVars, runVars, Quiet
<1>6. ASSUME NEW e \in Executors, UploadRun(e) \/ AddSharedRun(e) \/ DeleteWriteAheadLogs(e)
      PROVE  Quiet
  BY <1>6 DEF UploadRun, AddSharedRun, DeleteWriteAheadLogs, walVars, runVars, Quiet
<1>7. ASSUME NEW j \in Jobs, Rescue(j) PROVE Quiet
  BY <1>7 DEF Rescue, walVars, runVars, Quiet
<1>8. QED
  BY <1>1, <1>2, <1>3, <1>4, <1>5, <1>6, <1>7 DEF Next, AddWriteAheadLog, MaybeCompactWAL, Work

\* A merge commits a new run of a completed job, deletes only rows that run
\* holds, and leaves every other row alone.
LEMMA MergeStep ==
    ASSUME IInv, NEW e \in Executors, CommitMerge(e)
    PROVE  \E r \in RunRow :
             /\ r \notin runs /\ runs' = runs \cup {r}
             /\ r.wals \subseteq Committed
             /\ job'[r.job].state = "completed"
             /\ \A b \in Batches : \/ row'[b] = row[b]
                                   \/ row[b] = "COMPACTING" /\ row'[b] = "gone" /\ b \in r.wals
<1> DEFINE r == NewRun(e)
<1>1. /\ exec[e].job \in Jobs /\ job[exec[e].job] \in JobRow
      /\ job[exec[e].job].state = "running"
      /\ exec[e] \in ExecState
  BY HeldJob DEF CommitMerge, IInv, TypeOK
<1>2. r \in RunRow /\ r.job = exec[e].job /\ r.wals = job[exec[e].job].wals
  BY <1>1 DEF NewRun, RunRow, JobRow, ExecState
<1>3. r \notin runs
  BY <1>1, <1>2 DEF IInv, RunsInv
<1>4. runs' = runs \cup {r}
  BY DEF CommitMerge
<1>5. job'[r.job].state = "completed"
  BY <1>1, <1>2 DEF CommitMerge, IInv, TypeOK, JobRow
<1>6. r.wals \subseteq Committed
  BY <1>1, <1>2 DEF IInv, SourcesInv
<1>7. \A b \in Batches : \/ row'[b] = row[b]
                         \/ row[b] = "COMPACTING" /\ row'[b] = "gone" /\ b \in r.wals
  BY MergedRows DEF IInv
<1> HIDE DEF r
<1>8. QED
  BY <1>2, <1>3, <1>4, <1>5, <1>6, <1>7

\* A row leaves write_ahead_logs only together with the commit of a run made
\* from it, and with the completion of that run's job.
THEOREM DeletionIsMerge == Spec => DeletedOnlyByMerge
<1> DEFINE Step == \A b \in GetWriteAheadLogs :
                     b \notin GetWriteAheadLogs' =>
                       \E r \in runs' \ runs : b \in r.wals /\ job'[r.job].state = "completed"
<1>1. IInv /\ [Next]_vars => [Step]_vars
  <2> SUFFICES ASSUME IInv, Next, NEW b \in GetWriteAheadLogs, b \notin GetWriteAheadLogs'
               PROVE  \E r \in runs' \ runs : b \in r.wals /\ job'[r.job].state = "completed"
    OBVIOUS
  <2>1. b \in Batches /\ row[b] \in {"NEW", "COMPACTING"} /\ row'[b] \notin {"NEW", "COMPACTING"}
    BY DEF GetWriteAheadLogs
  <2>2. PICK e \in Executors : CommitMerge(e)
    BY <2>1, TablesStep DEF IInv, TypeOK, Appears, Quiet
  <2>3. PICK r \in RunRow :
             /\ r \notin runs /\ runs' = runs \cup {r}
             /\ job'[r.job].state = "completed"
             /\ \A c \in Batches : \/ row'[c] = row[c]
                                   \/ row[c] = "COMPACTING" /\ row'[c] = "gone" /\ c \in r.wals
    BY <2>2, MergeStep
  <2>4. QED
    BY <2>1, <2>3
<1> HIDE DEF Step
<1>2. Spec => [][Step]_vars
  BY Invariance, <1>1, PTL DEF Spec
<1>3. QED
  BY <1>2 DEF Step, DeletedOnlyByMerge

\* Every deployment implements the archive: merging is invisible to it, and
\* the commit of an INSERT stores one batch.
THEOREM ArchiveRefinement == Spec => ImplementsArchive
<1>1. Init => A!Init
  BY DEF Init, A!Init, Retrievable, GetWriteAheadLogs
<1>2. IInv /\ IInv' /\ [Next]_vars => [A!Next]_Retrievable
  <2> SUFFICES ASSUME IInv, IInv', [Next]_vars, Retrievable' # Retrievable
               PROVE  A!Next
    OBVIOUS
  <2>1. Retrievable = Committed /\ Retrievable' = Committed'
    BY DEF IInv, SourcesInv, DeletedInv, Retrievable, GetWriteAheadLogs, Committed
  <2>2. CASE UNCHANGED vars
    BY <2>1, <2>2 DEF vars, walVars, Committed
  <2>3. CASE Next
    <3>1. ASSUME NEW b \in Batches, Appears(b) PROVE A!Next
      <4>1. b \notin Committed /\ Committed' = Committed \cup {b}
        BY <3>1 DEF Appears, IInv, TypeOK, Committed
      <4>2. QED
        BY <2>1, <4>1 DEF A!Next, A!Store
    <3>2. CASE \E e \in Executors : CommitMerge(e)
      <4>1. \A b \in Batches : \/ row'[b] = row[b]
                               \/ row[b] = "COMPACTING" /\ row'[b] = "gone"
        BY <3>2, MergeStep
      <4>2. QED
        BY <2>1, <4>1 DEF Committed
    <3>3. CASE Quiet
      BY <2>1, <3>3 DEF Quiet, Committed
    <3>4. QED
      BY <2>3, <3>1, <3>2, <3>3, TablesStep
  <2>4. QED
    BY <2>2, <2>3
<1>3. QED
  BY Invariance, <1>1, <1>2, PTL DEF Spec, A!Spec, ImplementsArchive

-----------------------------------------------------------------------------
(***************************************************************************)
(* Which job owns which rows.  Orchestrators read and mark without locks,  *)
(* so that all there is to say in general is about jobs that share no row  *)
(* with another: they stay alone only if nobody interfered.                *)
(***************************************************************************)

\* A row that was marked has a job; a job that was not inserted has no rows.
OwnerInv ==
    /\ \A b \in Batches : row[b] \in {"COMPACTING", "gone"} => \E j \in Jobs : b \in job[j].wals
    /\ \A j \in Jobs : job[j].state = "none" => job[j].wals = {}

\* river runs a job MaxAttempts times at most, and gives up no earlier.
AttemptsInv ==
    \A j \in Jobs :
      /\ job[j].state = "available" => job[j].attempt = 0
      /\ job[j].state = "retryable" => job[j].attempt < MaxAttempts
      /\ job[j].state = "running" => job[j].attempt =< MaxAttempts
      /\ job[j].state = "discarded" => job[j].attempt = MaxAttempts

\* The validation of an UPDATE fails only because a job has some of the rows.
TakenInv ==
    \A o \in Orchestrators :
      orch[o].pc = "marked" /\ ~ orch[o].valid
        => \E j \in Jobs : job[j].wals \cap orch[o].wals # {}

\* A job that is alone owns its rows: they are COMPACTING until it completes,
\* gone from then on, and the validation of its DELETE succeeds.
AloneInv ==
    \A j \in Jobs : Alone(j) =>
      /\ job[j].state = "completed" => \A b \in job[j].wals : row[b] = "gone"
      /\ job[j].state # "completed" => \A b \in job[j].wals : row[b] = "COMPACTING"
      /\ \A e \in Executors : exec[e].job = j /\ exec[e].pc = "deleted" => exec[e].valid

OwnershipInv == /\ OwnerInv
                /\ AttemptsInv
                /\ TakenInv
                /\ AloneInv

-----------------------------------------------------------------------------
(* Each action preserves the invariant of any deployment.                   *)

\* The rows of a job are rows.
LEMMA JobRows ==
    ASSUME TypeOK, NEW j \in Jobs
    PROVE  job[j] \in JobRow /\ job[j].wals \subseteq Batches
BY DEF TypeOK, JobRow

\* A step that neither marks nor deletes a row, and changes no job and no
\* executor, keeps what is said of them.
LEMMA OtherRowsStep ==
    ASSUME TypeOK, OwnershipInv, UNCHANGED <<job, exec>>,
           \A b \in Batches :
             \/ row'[b] = row[b]
             \/ {row[b], row'[b]} \cap {"COMPACTING", "gone"} = {}
    PROVE  OwnerInv' /\ AttemptsInv' /\ AloneInv'
<1>1. OwnerInv' /\ AttemptsInv'
  BY DEF OwnershipInv, OwnerInv, AttemptsInv
<1>2. AloneInv'
  <2> SUFFICES ASSUME NEW j \in Jobs, Alone(j)
               PROVE  /\ job[j].state = "completed" => \A b \in job[j].wals : row'[b] = "gone"
                      /\ job[j].state # "completed" => \A b \in job[j].wals : row'[b] = "COMPACTING"
                      /\ \A e \in Executors :
                           exec[e].job = j /\ exec[e].pc = "deleted" => exec[e].valid
    BY DEF AloneInv, Alone
  <2>1. \A b \in job[j].wals : row[b] \in {"COMPACTING", "gone"} => row'[b] = row[b]
    BY JobRows
  <2>2. QED
    BY <2>1 DEF OwnershipInv, AloneInv
<1>3. QED
  BY <1>1, <1>2

\* A batcher's step preserves the invariant.
LEMMA WALOwnership ==
    ASSUME IInv, OwnershipInv, NEW b \in Batches, UploadWAL(b) \/ AddWriteAheadLog(b)
    PROVE  OwnershipInv'
<1>1. UNCHANGED <<job, exec, orch>>
  BY DEF UploadWAL, AddWriteAheadLog, InsertWAL, CommitWAL, AbortWAL
<1>2. \A c \in Batches : \/ row'[c] = row[c]
                         \/ {row[c], row'[c]} \cap {"COMPACTING", "gone"} = {}
  BY DEF UploadWAL, AddWriteAheadLog, InsertWAL, CommitWAL, AbortWAL, IInv, RowsInv, TypeOK
<1>3. TakenInv'
  BY <1>1 DEF OwnershipInv, TakenInv
<1>4. QED
  BY <1>1, <1>2, <1>3, OtherRowsStep DEF OwnershipInv, IInv

\* Listing, validating and rolling back preserve the invariant: a validation
\* that fails met a row that is not NEW any more, hence one a job has.
LEMMA TickOwnership ==
    ASSUME IInv, OwnershipInv, NEW o \in Orchestrators,
           ListWALs(o) \/ MarkWriteAheadLogsAsCompacting(o) \/ TickFails(o)
    PROVE  OwnershipInv'
<1>1. UNCHANGED <<row, job, exec>>
  BY DEF ListWALs, MarkWriteAheadLogsAsCompacting, TickFails, walVars
<1>2. OwnerInv' /\ AttemptsInv' /\ AloneInv'
  BY <1>1, OtherRowsStep DEF IInv
<1>3. CASE ListWALs(o) \/ TickFails(o)
  BY <1>1, <1>2, <1>3
     DEF ListWALs, TickFails, IdleOrch, IInv, TypeOK, OwnershipInv, TakenInv
<1>4. CASE MarkWriteAheadLogsAsCompacting(o)
  <2>1. ASSUME ~ orch[o].wals \subseteq GetWriteAheadLogsToCompact
        PROVE  \E j \in Jobs : job[j].wals \cap orch[o].wals # {}
    <3>1. PICK b \in orch[o].wals : b \in Committed /\ row[b] # "NEW"
      BY <2>1 DEF IInv, SourcesInv, Committed, GetWriteAheadLogsToCompact
    <3>2. \E j \in Jobs : b \in job[j].wals
      BY <3>1 DEF Committed, OwnershipInv, OwnerInv
    <3>3. QED
      BY <3>1, <3>2
  <2>2. TakenInv'
    BY <1>1, <1>4, <2>1
       DEF MarkWriteAheadLogsAsCompacting, IInv, TypeOK, OwnershipInv, TakenInv
  <2>3. QED
    BY <1>2, <2>2 DEF OwnershipInv
<1>5. QED
  BY <1>3, <1>4

\* Scheduling preserves the invariant.  If the new job shares no row with an
\* older one, all its rows were NEW up to the commit, and are marked by it.
LEMMA ScheduleOwnership ==
    ASSUME IInv, OwnershipInv, NEW o \in Orchestrators, ScheduleJob(o)
    PROVE  OwnershipInv'
<1>1. PICK n \in Jobs :
        /\ job[n].state = "none"
        /\ job' = [job EXCEPT ![n] =
                     [state |-> "available", wals |-> orch[o].wals, attempt |-> 0]]
  BY DEF ScheduleJob, FreshJob
<1>2. /\ orch[o].pc = "marked" /\ orch[o].wals \subseteq Committed
      /\ orch' = [orch EXCEPT ![o] = IdleOrch] /\ exec' = exec
      /\ row' = [b \in Batches |->
                   IF orch[o].valid /\ b \in orch[o].wals /\ row[b] = "NEW"
                     THEN "COMPACTING" ELSE row[b]]
  BY DEF ScheduleJob, IInv, SourcesInv
<1>3. /\ job[n].wals = {}
      /\ job'[n] = [state |-> "available", wals |-> orch[o].wals, attempt |-> 0]
      /\ \A j \in Jobs : j # n => job'[j] = job[j]
  BY <1>1 DEF OwnershipInv, OwnerInv, IInv, TypeOK
<1>4. \A j \in Jobs : job[j].wals \subseteq job'[j].wals
  BY <1>3
<1>5. OwnerInv'
  BY <1>2, <1>3, <1>4 DEF OwnershipInv, OwnerInv
<1>6. AttemptsInv'
  BY <1>3 DEF OwnershipInv, AttemptsInv
<1>7. TakenInv'
  <2> SUFFICES ASSUME NEW p \in Orchestrators, orch'[p].pc = "marked", ~ orch'[p].valid
               PROVE  \E j \in Jobs : job'[j].wals \cap orch'[p].wals # {}
    BY DEF TakenInv
  <2>1. orch'[p] = orch[p]
    BY <1>2 DEF IInv, TypeOK, IdleOrch
  <2>2. PICK j \in Jobs : job[j].wals \cap orch[p].wals # {}
    BY <2>1 DEF OwnershipInv, TakenInv
  <2>3. QED
    BY <1>4, <2>1, <2>2
<1>8. \A e \in Executors : exec[e].job # n
  BY <1>1, CompactionAssumption DEF IInv, ExecInv
<1>9. ASSUME NEW j \in Jobs, j # n, Alone(j)'
      PROVE  Alone(j) /\ \A b \in job[j].wals : row'[b] = row[b]
  <2>1. Alone(j)
    BY <1>3, <1>9 DEF Alone
  <2>2. job[j].wals \cap orch[o].wals = {}
    BY <1>3, <1>9 DEF Alone
  <2>3. QED
    BY <1>2, <2>1, <2>2, JobRows DEF IInv
<1>10. ASSUME Alone(n)' PROVE \A b \in orch[o].wals : row'[b] = "COMPACTING"
  <2>1. \A j \in Jobs : job[j].wals \cap orch[o].wals = {}
    BY <1>3, <1>10 DEF Alone
  <2>2. orch[o].valid
    BY <1>2, <2>1 DEF OwnershipInv, TakenInv
  <2>3. \A b \in orch[o].wals : b \in Batches /\ row[b] = "NEW"
    BY <1>2, <2>1 DEF Committed, OwnershipInv, OwnerInv
  <2>4. QED
    BY <1>2, <2>2, <2>3
<1>11. AloneInv'
  BY <1>2, <1>3, <1>8, <1>9, <1>10 DEF OwnershipInv, AloneInv
<1>12. QED
  BY <1>5, <1>6, <1>7, <1>11 DEF OwnershipInv

\* A step that changes the state of one job but not its rows, and no row,
\* keeps what is said of rows, orchestrators and other jobs.
LEMMA JobStateStep ==
    ASSUME IInv, OwnershipInv, UNCHANGED <<row, orch>>, NEW k \in Jobs,
           \A j \in Jobs : job'[j].wals = job[j].wals,
           job[k].state \notin {"none", "completed"}, job'[k].state \notin {"none", "completed"},
           \A j \in Jobs : j # k => job'[j] = job[j],
           \A e \in Executors : exec'[e].job # 0 /\ exec'[e].pc = "deleted" => exec'[e] = exec[e]
    PROVE  OwnerInv' /\ TakenInv' /\ AloneInv'
<1>1. OwnerInv'
  BY DEF OwnershipInv, OwnerInv
<1>2. TakenInv'
  BY DEF OwnershipInv, TakenInv
<1>3. \A j \in Jobs : Alone(j)' <=> Alone(j)
  BY DEF Alone
<1>4. \A j \in Jobs : job'[j].state = "completed" <=> job[j].state = "completed"
  OBVIOUS
<1>5. AloneInv'
  <2> SUFFICES ASSUME NEW j \in Jobs, Alone(j)
               PROVE  /\ job'[j].state = "completed" => \A b \in job'[j].wals : row'[b] = "gone"
                      /\ job'[j].state # "completed" => \A b \in job'[j].wals : row'[b] = "COMPACTING"
                      /\ \A e \in Executors :
                           exec'[e].job = j /\ exec'[e].pc = "deleted" => exec'[e].valid
    BY <1>3 DEF AloneInv
  <2>1. /\ job[j].state = "completed" => \A b \in job[j].wals : row[b] = "gone"
        /\ job[j].state # "completed" => \A b \in job[j].wals : row[b] = "COMPACTING"
        /\ \A e \in Executors : exec[e].job = j /\ exec[e].pc = "deleted" => exec[e].valid
    BY DEF OwnershipInv, AloneInv
  <2>2. j # 0
    BY CompactionAssumption
  <2>3. QED
    BY <1>4, <2>1, <2>2
<1>6. QED
  BY <1>1, <1>2, <1>5

\* An executor's fetch preserves the invariant.
LEMMA FetchOwnership ==
    ASSUME IInv, OwnershipInv, NEW e \in Executors, NEW k \in Jobs, Fetch(e, k)
    PROVE  OwnershipInv'
<1>1. /\ UNCHANGED <<row, orch>>
      /\ job' = [job EXCEPT ![k] = [state |-> "running", wals |-> job[k].wals,
                                    attempt |-> job[k].attempt + 1]]
      /\ exec' = [exec EXCEPT ![e] = [pc |-> "fetched", job |-> k, runNo |-> 0, valid |-> FALSE]]
      /\ job[k].state \in {"retryable", "available"}
  BY DEF Fetch, Due, walVars
<1>2. job'[k] = [state |-> "running", wals |-> job[k].wals, attempt |-> job[k].attempt + 1]
      /\ \A j \in Jobs : j # k => job'[j] = job[j]
  BY <1>1 DEF IInv, TypeOK
<1>3. \A f \in Executors : exec'[f].pc = "deleted" => exec'[f] = exec[f]
  BY <1>1 DEF IInv, TypeOK
<1>4. AttemptsInv'
  BY <1>1, <1>2, JobRows, CompactionAssumption DEF OwnershipInv, AttemptsInv, IInv, JobRow
<1>5. QED
  BY <1>1, <1>2, <1>3, <1>4, JobStateStep DEF OwnershipInv

\* river's verdict on a failed attempt preserves the invariant.
LEMMA RetryOwnership ==
    ASSUME IInv, OwnershipInv, NEW k \in Jobs, job[k].state = "running", Retry(k),
           UNCHANGED <<row, orch>>,
           \A e \in Executors : exec'[e].job # 0 /\ exec'[e].pc = "deleted" => exec'[e] = exec[e]
    PROVE  OwnershipInv'
<1>1. /\ job'[k].state = IF job[k].attempt < MaxAttempts THEN "retryable" ELSE "discarded"
      /\ job'[k].wals = job[k].wals /\ job'[k].attempt = job[k].attempt
      /\ \A j \in Jobs : j # k => job'[j] = job[j]
  BY JobRows DEF Retry, IInv, TypeOK, JobRow
<1>2. job[k].attempt \in Nat /\ job[k].attempt =< MaxAttempts /\ MaxAttempts \in Nat
  BY JobRows, CompactionAssumption DEF OwnershipInv, AttemptsInv, IInv, JobRow
<1>3. AttemptsInv'
  BY <1>1, <1>2 DEF OwnershipInv, AttemptsInv
<1>4. QED
  BY <1>1, <1>3, JobStateStep DEF OwnershipInv

\* The steps of Work before the commit preserve the invariant; the
\* validation of the DELETE of a job that is alone succeeds.
LEMMA WorkOwnership ==
    ASSUME IInv, OwnershipInv, NEW e \in Executors,
           UploadRun(e) \/ AddSharedRun(e) \/ DeleteWriteAheadLogs(e) \/ Crash(e)
    PROVE  OwnershipInv'
<1>1. UNCHANGED <<row, orch, job>>
  BY DEF UploadRun, AddSharedRun, DeleteWriteAheadLogs, Crash, walVars
<1>2. /\ exec[e].job \in Jobs /\ job[exec[e].job].state = "running"
      /\ \A f \in Executors : f # e => exec'[f] = exec[f]
  BY HeldJob DEF UploadRun, AddSharedRun, DeleteWriteAheadLogs, Crash, IInv, TypeOK
<1>3. exec'[e].pc = "deleted" =>
        /\ exec'[e].job = exec[e].job
        /\ (\A b \in job[exec[e].job].wals : row[b] = "COMPACTING") => exec'[e].valid
  BY DEF UploadRun, AddSharedRun, DeleteWriteAheadLogs, Crash, IdleExec, IInv, TypeOK
<1>4. OwnerInv' /\ AttemptsInv' /\ TakenInv'
  BY <1>1 DEF OwnershipInv, OwnerInv, AttemptsInv, TakenInv
<1>5. AloneInv'
  <2>1. \A j \in Jobs : Alone(j)' <=> Alone(j)
    BY <1>1 DEF Alone
  <2>2. QED
    BY <1>1, <1>2, <1>3, <2>1 DEF OwnershipInv, AloneInv
<1>6. QED
  BY <1>4, <1>5 DEF OwnershipInv

\* The commit of a merge preserves the invariant: a job that is alone takes
\* all its rows along, and no row of another job that is alone.
LEMMA MergeOwnership ==
    ASSUME IInv, OwnershipInv, NEW e \in Executors, CommitMerge(e)
    PROVE  OwnershipInv'
<1> DEFINE k == exec[e].job
<1>1. k \in Jobs /\ job[k].state = "running"
  BY HeldJob DEF CommitMerge, IInv
<1>2. /\ UNCHANGED orch
      /\ exec[e].pc = "deleted"
      /\ job' = [job EXCEPT ![k].state = "completed"]
      /\ exec' = [exec EXCEPT ![e] = IdleExec]
      /\ row' = [b \in Batches |->
                   IF exec[e].valid /\ b \in job[k].wals /\ row[b] = "COMPACTING"
                     THEN "gone" ELSE row[b]]
  BY DEF CommitMerge, RowsAfterDelete
<1>3. /\ job'[k].state = "completed" /\ job'[k].wals = job[k].wals
      /\ \A j \in Jobs : j # k => job'[j] = job[j]
  BY <1>1, <1>2, JobRows DEF IInv, TypeOK, JobRow
<1> HIDE DEF k
<1>4. \A f \in Executors : exec'[f].pc = "deleted" => exec'[f] = exec[f]
  BY <1>2 DEF IInv, TypeOK, IdleExec
<1>5. OwnerInv' /\ AttemptsInv' /\ TakenInv'
  <2>1. \A j \in Jobs : job'[j].wals = job[j].wals
    BY <1>1, <1>3
  <2>2. \A b \in Batches : row'[b] \in {"COMPACTING", "gone"} => row[b] \in {"COMPACTING", "gone"}
    BY <1>2
  <2>3. OwnerInv' /\ TakenInv'
    BY <1>1, <1>2, <1>3, <2>1, <2>2 DEF OwnershipInv, OwnerInv, TakenInv
  <2>4. AttemptsInv'
    BY <1>3 DEF OwnershipInv, AttemptsInv
  <2>5. QED
    BY <2>3, <2>4
<1>6. \A j \in Jobs : Alone(j)' <=> Alone(j)
  BY <1>1, <1>3 DEF Alone
<1>7. Alone(k) => \A b \in job[k].wals : row'[b] = "gone"
  BY <1>1, <1>2, JobRows DEF OwnershipInv, AloneInv, IInv, k
<1>8. \A j \in Jobs : j # k /\ Alone(j) => \A b \in job[j].wals : row'[b] = row[b]
  BY <1>1, <1>2, JobRows DEF Alone, IInv
<1>9. AloneInv'
  BY <1>1, <1>3, <1>4, <1>6, <1>7, <1>8 DEF OwnershipInv, AloneInv
<1>10. QED
  BY <1>5, <1>9 DEF OwnershipInv

-----------------------------------------------------------------------------
(* Any deployment.                                                          *)

\* The initial states satisfy the invariant.
LEMMA InitOwnership == Init => OwnershipInv
BY DEF Init, OwnershipInv, OwnerInv, AttemptsInv, TakenInv, AloneInv, IdleOrch, IdleExec

\* Every step preserves the invariant.
LEMMA NextOwnership == IInv /\ OwnershipInv /\ [Next]_vars => OwnershipInv'
<1> SUFFICES ASSUME IInv, OwnershipInv, [Next]_vars PROVE OwnershipInv'
  OBVIOUS
<1>1. CASE \E b \in Batches : UploadWAL(b) \/ AddWriteAheadLog(b)
  BY <1>1, WALOwnership
<1>2. CASE \E o \in Orchestrators : MaybeCompactWAL(o)
  BY <1>2, TickOwnership, ScheduleOwnership DEF MaybeCompactWAL
<1>3. CASE \E e \in Executors : \E j \in Jobs : Fetch(e, j)
  BY <1>3, FetchOwnership
<1>4. CASE \E e \in Executors : Work(e) \/ Crash(e)
  BY <1>4, WorkOwnership, MergeOwnership DEF Work
<1>5. ASSUME NEW e \in Executors, WorkError(e) PROVE OwnershipInv'
  <2>1. exec[e].job \in Jobs /\ job[exec[e].job].state = "running"
    BY <1>5, HeldJob DEF WorkError, IInv
  <2>2. \A f \in Executors : exec'[f].job # 0 => exec'[f] = exec[f]
    BY <1>5 DEF WorkError, IInv, TypeOK, IdleExec
  <2>3. QED
    BY <1>5, <2>1, <2>2, RetryOwnership DEF WorkError, walVars
<1>6. ASSUME NEW j \in Jobs, Rescue(j) PROVE OwnershipInv'
  BY <1>6, RetryOwnership DEF Rescue, walVars
<1>7. CASE UNCHANGED vars
  BY <1>7 DEF OwnershipInv, OwnerInv, AttemptsInv, TakenInv, AloneInv, Alone, vars, walVars
<1>8. QED
  BY <1>1, <1>2, <1>3, <1>4, <1>5, <1>6, <1>7 DEF Next

\* The ownership of rows by jobs, in any deployment.
THEOREM Ownership == Spec => [](IInv /\ OwnershipInv)
<1>1. Init => IInv /\ OwnershipInv
  BY InitIInv, InitOwnership
<1>2. IInv /\ OwnershipInv /\ [Next]_vars => (IInv /\ OwnershipInv)'
  BY NextIInv, NextOwnership
<1>3. QED
  BY <1>1, <1>2, PTL DEF Spec

\* A row whose jobs are all over and that is still COMPACTING was shared by
\* two jobs or belongs to a job that used up its attempts: a job that is
\* alone and completes leaves no row behind, whatever failed before.
THEOREM StrandedOnlyForCause == Spec => []StrandedForCause
<1>1. IInv /\ OwnershipInv => StrandedForCause
  <2> SUFFICES ASSUME IInv, OwnershipInv, NEW b \in Batches, Stranded(b)
               PROVE  \E j \in Jobs :
                        /\ b \in job[j].wals
                        /\ \/ job[j].state = "discarded" /\ job[j].attempt = MaxAttempts
                           \/ \E i \in Jobs \ {j} : job[i].wals \cap job[j].wals # {}
    BY DEF StrandedForCause
  <2>1. PICK j \in Jobs : b \in job[j].wals
    BY DEF Stranded, OwnershipInv, OwnerInv
  <2>2. row[b] = "COMPACTING" /\ job[j].state \in {"completed", "discarded"}
    BY <2>1 DEF Stranded
  <2>3. CASE job[j].state = "discarded"
    BY <2>1, <2>3 DEF OwnershipInv, AttemptsInv
  <2>4. CASE job[j].state = "completed"
    BY <2>1, <2>2, <2>4 DEF OwnershipInv, AloneInv, Alone
  <2>5. QED
    BY <2>2, <2>3, <2>4
<1>2. QED
  BY Ownership, <1>1, PTL

-----------------------------------------------------------------------------
(* Rows and jobs agree.                                                     *)

\* Only a scheduling step gives rows to a job, and none takes them away.
LEMMA JobWALsFrame ==
    ASSUME IInv, Next, \A o \in Orchestrators : ~ ScheduleJob(o), NEW j \in Jobs
    PROVE  job'[j].wals = job[j].wals
<1>1. ASSUME NEW e \in Executors, CommitMerge(e) PROVE job'[j].wals = job[j].wals
  BY <1>1, JobRows DEF CommitMerge, IInv, TypeOK, JobRow
<1>2. ASSUME NEW e \in Executors, WorkError(e) PROVE job'[j].wals = job[j].wals
  BY <1>2, JobRows DEF WorkError, Retry, IInv, TypeOK, JobRow
<1>3. ASSUME NEW i \in Jobs, Rescue(i) PROVE job'[j].wals = job[j].wals
  BY <1>3, JobRows DEF Rescue, Retry, IInv, TypeOK, JobRow
<1>4. ASSUME NEW e \in Executors, NEW i \in Jobs, Fetch(e, i) PROVE job'[j].wals = job[j].wals
  BY <1>4, JobRows DEF Fetch, IInv, TypeOK, JobRow
<1>5. ASSUME NEW b \in Batches, UploadWAL(b) \/ AddWriteAheadLog(b)
      PROVE  job'[j].wals = job[j].wals
  BY <1>5 DEF UploadWAL, AddWriteAheadLog, InsertWAL, CommitWAL, AbortWAL
<1>6. ASSUME NEW o \in Orchestrators, MaybeCompactWAL(o) PROVE job'[j].wals = job[j].wals
  BY <1>6 DEF MaybeCompactWAL, ListWALs, MarkWriteAheadLogsAsCompacting, TickFails
<1>7. ASSUME NEW e \in Executors, UploadRun(e) \/ AddSharedRun(e) \/ DeleteWriteAheadLogs(e) \/ Crash(e)
      PROVE  job'[j].wals = job[j].wals
  BY <1>7 DEF UploadRun, AddSharedRun, DeleteWriteAheadLogs, Crash
<1>8. QED
  BY <1>1, <1>2, <1>3, <1>4, <1>5, <1>6, <1>7 DEF Next, Work

\* A run holds the rows of its job.
RunWALsInv == \A r \in runs : r.wals = job[r.job].wals

\* Every step preserves that.
LEMMA NextRunWALs == IInv /\ RunWALsInv /\ [Next]_vars => RunWALsInv'
<1> SUFFICES ASSUME IInv, RunWALsInv, [Next]_vars PROVE RunWALsInv'
  OBVIOUS
<1>1. \A r \in runs : r.job \in Jobs /\ job[r.job].state = "completed"
  BY DEF IInv, TypeOK, RunRow, RunsInv
<1>2. CASE UNCHANGED vars
  BY <1>2 DEF RunWALsInv, vars, runVars
<1>3. CASE \E o \in Orchestrators : ScheduleJob(o)
  BY <1>1, <1>3 DEF ScheduleJob, FreshJob, RunWALsInv, runVars, IInv, TypeOK
<1>4. ASSUME Next, \A o \in Orchestrators : ~ ScheduleJob(o) PROVE RunWALsInv'
  <2>1. \A j \in Jobs : job'[j].wals = job[j].wals
    BY <1>4, JobWALsFrame
  <2>2. CASE runs' = runs
    BY <1>1, <2>1, <2>2 DEF RunWALsInv
  <2>3. ASSUME NEW e \in Executors, CommitMerge(e) PROVE RunWALsInv'
    <3>1. exec[e].job \in Jobs
      BY <2>3, HeldJob DEF CommitMerge, IInv
    <3>2. runs' = runs \cup {NewRun(e)}
      BY <2>3 DEF CommitMerge
    <3>3. NewRun(e).job = exec[e].job /\ NewRun(e).wals = job[exec[e].job].wals
      BY DEF NewRun
    <3>4. QED
      BY <1>1, <2>1, <3>1, <3>2, <3>3 DEF RunWALsInv
  <2>4. QED
    BY <1>4, <2>2, <2>3, TablesStep DEF Appears, Quiet
<1>5. QED
  BY <1>2, <1>3, <1>4

\* In any deployment a row leaves NEW only for a job, is deleted only for a
\* completed one, and goes the way of its job as long as no other job was
\* given rows of it, although no statement locks a row between the read of a
\* tick and the commit of its job.
THEOREM RowsAgreeWithJobs == Spec => []OwnedRows
<1>1. IInv /\ OwnershipInv /\ RunWALsInv => OwnedRows
  <2> SUFFICES ASSUME IInv, OwnershipInv, RunWALsInv PROVE OwnedRows
    OBVIOUS
  <2>1. ASSUME NEW b \in Batches, row[b] = "gone"
        PROVE  \E j \in Jobs : b \in job[j].wals /\ job[j].state = "completed"
    <3>1. PICK r \in runs : b \in r.wals
      BY <2>1 DEF IInv, DeletedInv
    <3>2. r.job \in Jobs /\ job[r.job].state = "completed" /\ r.wals = job[r.job].wals
      BY DEF IInv, TypeOK, RunRow, RunsInv, RunWALsInv
    <3>3. QED
      BY <3>1, <3>2
  <2>2. \A b \in Batches : row[b] = "COMPACTING" => \E j \in Jobs : b \in job[j].wals
    BY DEF OwnershipInv, OwnerInv
  <2>3. \A j \in Jobs : Alone(j) =>
          \A b \in job[j].wals :
            row[b] = IF job[j].state = "completed" THEN "gone" ELSE "COMPACTING"
    BY DEF OwnershipInv, AloneInv
  <2>4. QED
    BY <2>1, <2>2, <2>3 DEF OwnedRows
<1>2. Init => RunWALsInv
  BY DEF Init, RunWALsInv
<1>3. QED
  BY Ownership, NextRunWALs, <1>1, <1>2, PTL DEF Spec

-----------------------------------------------------------------------------
(***************************************************************************)
(* What a lookup finds.  The CHOOSEs of Resolve pick what they are meant   *)
(* to, since the numbers of WALs and of runs are different.                *)
(***************************************************************************)

\* The seq_nos of the WALs are different, and lower than the next one.
WALNosInv ==
    /\ \A b \in Batches : seqNo[b] < nextSeqNo
    /\ \A b, c \in Batches : seqNo[b] = seqNo[c] /\ seqNo[b] # 0 => b = c

\* v is the newest of the batches S.
IsNewest(v, S) == v \in S /\ \A c \in S : seqNo[c] =< seqNo[v]

\* v is what Resolve(W, R, k) chooses, said without CHOOSE.
Resolved(v, W, R, k) ==
    \/ IsNewest(v, Writers(W, k))
    \/ /\ Writers(W, k) = {}
       /\ \E r \in RunsWith(R, k) : /\ \A q \in RunsWith(R, k) : q.seqNo =< r.seqNo
                                    /\ IsNewest(v, Writers(r.wals, k))
    \/ /\ Writers(W, k) = {} /\ RunsWith(R, k) = {}
       /\ v = NoBatch

-----------------------------------------------------------------------------
(* The newest of a set.                                                     *)

\* A set whose members have numbers below n has a member with the highest.
LEMMA Highest ==
    ASSUME NEW S, S # {}, NEW f, NEW n \in Nat, \A x \in S : f[x] \in Nat /\ f[x] < n
    PROVE  \E m \in S : \A x \in S : f[x] =< f[m]
<1> DEFINE T == {n - f[x] : x \in S}
<1>1. T \subseteq Nat /\ T # {}
  OBVIOUS
<1>2. PICK t \in T : \A u \in T : t =< u
  <2> HIDE DEF T
  <2>1. QED
    BY <1>1, Least
<1>3. PICK m \in S : t = n - f[m]
  OBVIOUS
<1>4. \A x \in S : n - f[m] =< n - f[x]
  BY <1>2, <1>3
<1>5. QED
  BY <1>4

\* Newest picks the newest of a set of batches.
LEMMA NewestPicks ==
    ASSUME TypeOK, WALNosInv, NEW S, S \subseteq Batches, S # {}
    PROVE  IsNewest(Newest(S), S)
<1>1. \A b \in S : seqNo[b] \in Nat /\ seqNo[b] < nextSeqNo /\ nextSeqNo \in Nat
  BY DEF TypeOK, WALNosInv
<1>2. \E m \in S : \A x \in S : seqNo[x] =< seqNo[m]
  BY <1>1, Highest
<1>3. QED
  BY <1>2 DEF Newest, IsNewest

\* The newest of committed batches is the one Newest picks.
LEMMA NewestUnique ==
    ASSUME TypeOK, RowsInv, WALNosInv, NEW S, S \subseteq Committed, NEW v, IsNewest(v, S)
    PROVE  v = Newest(S)
<1>1. IsNewest(Newest(S), S)
  BY DEF Newest, IsNewest
<1>2. v \in Batches /\ Newest(S) \in Batches /\ seqNo[v] # 0
  BY <1>1 DEF IsNewest, Committed, RowsInv
<1>3. seqNo[v] = seqNo[Newest(S)]
  BY <1>1, <1>2 DEF IsNewest, TypeOK
<1>4. QED
  BY <1>2, <1>3 DEF WALNosInv

\* NewestRun picks the run with the highest seq_no of a set of runs.
LEMMA NewestRunPicks ==
    ASSUME TypeOK, RunNosInv, NEW R, R \subseteq runs, R # {}
    PROVE  NewestRun(R) \in R /\ \A q \in R : q.seqNo =< NewestRun(R).seqNo
<1> DEFINE f == [r \in R |-> r.seqNo]
<1>1. \A r \in R : r.seqNo \in Nat /\ r.seqNo < nextRunNo /\ nextRunNo \in Nat
  BY DEF TypeOK, RunNosInv, RunRow
<1>2. \A r \in R : f[r] = r.seqNo
  OBVIOUS
<1>3. \E m \in R : \A x \in R : f[x] =< f[m]
  <2> HIDE DEF f
  <2>1. QED
    BY <1>1, <1>2, Highest
<1>4. QED
  BY <1>2, <1>3 DEF NewestRun

\* What Resolved describes is what Resolve returns.
LEMMA ResolveFinds ==
    ASSUME IInv, WALNosInv, NEW W, W \subseteq Committed, NEW R, R \subseteq runs,
           NEW k, NEW v, Resolved(v, W, R, k)
    PROVE  v = Resolve(W, R, k)
<1> USE DEF IInv
<1>1. CASE IsNewest(v, Writers(W, k))
  <2>1. Writers(W, k) \subseteq Committed /\ Writers(W, k) # {}
    BY <1>1 DEF Writers, IsNewest
  <2>2. v = Newest(Writers(W, k))
    BY <1>1, <2>1, NewestUnique
  <2>3. QED
    BY <2>1, <2>2 DEF Resolve
<1>2. CASE /\ Writers(W, k) = {}
           /\ \E r \in RunsWith(R, k) : /\ \A q \in RunsWith(R, k) : q.seqNo =< r.seqNo
                                        /\ IsNewest(v, Writers(r.wals, k))
  <2>1. PICK r \in RunsWith(R, k) : /\ \A q \in RunsWith(R, k) : q.seqNo =< r.seqNo
                                    /\ IsNewest(v, Writers(r.wals, k))
    BY <1>2
  <2>2. RunsWith(R, k) \subseteq runs /\ RunsWith(R, k) # {}
    BY <2>1 DEF RunsWith
  <2>3. /\ NewestRun(RunsWith(R, k)) \in RunsWith(R, k)
        /\ \A q \in RunsWith(R, k) : q.seqNo =< NewestRun(RunsWith(R, k)).seqNo
    BY <2>2, NewestRunPicks
  <2>4. \A q \in runs : q.seqNo \in Nat
    BY DEF TypeOK, RunRow
  <2>5. NewestRun(RunsWith(R, k)).seqNo = r.seqNo
    BY <2>1, <2>2, <2>3, <2>4
  <2>6. NewestRun(RunsWith(R, k)) = r
    BY <2>1, <2>2, <2>3, <2>5 DEF RunNosInv
  <2>7. Writers(r.wals, k) \subseteq Committed
    BY <2>1, <2>2 DEF Writers, SourcesInv
  <2>8. v = Newest(Writers(r.wals, k))
    BY <2>1, <2>7, NewestUnique
  <2>9. QED
    BY <1>2, <2>2, <2>6, <2>8 DEF Resolve, Merged
<1>3. CASE Writers(W, k) = {} /\ RunsWith(R, k) = {} /\ v = NoBatch
  BY <1>3 DEF Resolve
<1>4. QED
  BY <1>1, <1>2, <1>3 DEF Resolved

\* What was committed stays, with its seq_no; no two WALs share a seq_no.
LEMMA DatabaseStep ==
    ASSUME IInv, WALNosInv, [Next]_vars
    PROVE  /\ IInv' /\ WALNosInv'
           /\ Committed \subseteq Committed' /\ runs \subseteq runs'
           /\ \A b \in Committed : seqNo'[b] = seqNo[b]
<1>1. IInv'
  BY NextIInv
<1>2. /\ WALNosInv'
      /\ \A b \in Committed : seqNo'[b] = seqNo[b]
  <2>1. ASSUME NEW b \in Batches, InsertWAL(b)
        PROVE  /\ WALNosInv'
               /\ \A c \in Committed : seqNo'[c] = seqNo[c]
    <3>1. /\ seqNo' = [seqNo EXCEPT ![b] = nextSeqNo] /\ nextSeqNo' = nextSeqNo + 1
          /\ seqNo[b] = 0
      BY <2>1 DEF InsertWAL
    <3>2. nextSeqNo \in Nat /\ seqNo \in [Batches -> Nat]
      BY DEF IInv, TypeOK
    <3>3. b \notin Committed
      BY <3>1 DEF IInv, RowsInv, Committed
    <3>4. QED
      BY <3>1, <3>2, <3>3 DEF WALNosInv, Committed
  <2>2. CASE UNCHANGED <<seqNo, nextSeqNo>>
    BY <2>2 DEF WALNosInv, Committed
  <2>3. \/ \E b \in Batches : InsertWAL(b)
        \/ UNCHANGED <<seqNo, nextSeqNo>>
    BY DEF Next, vars, walVars, UploadWAL, AddWriteAheadLog, CommitWAL, AbortWAL, MaybeCompactWAL,
         ListWALs, MarkWriteAheadLogsAsCompacting, ScheduleJob, TickFails, Fetch, Work, UploadRun,
         AddSharedRun, DeleteWriteAheadLogs, CommitMerge, WorkError, Crash, Rescue
  <2>4. QED
    BY <2>1, <2>2, <2>3
<1>3. Committed \subseteq Committed' /\ runs \subseteq runs'
  <2>1. CASE UNCHANGED vars
    BY <2>1 DEF vars, walVars, runVars, Committed
  <2>2. ASSUME NEW b \in Batches, Appears(b) PROVE Committed \subseteq Committed' /\ runs \subseteq runs'
    BY <2>2 DEF Appears, IInv, TypeOK, Committed
  <2>3. ASSUME NEW e \in Executors, CommitMerge(e)
        PROVE  Committed \subseteq Committed' /\ runs \subseteq runs'
    BY <2>3, MergeStep DEF Committed
  <2>4. CASE Quiet
    BY <2>4 DEF Quiet, Committed
  <2>5. QED
    BY <2>1, <2>2, <2>3, <2>4, TablesStep
<1>4. QED
  BY <1>1, <1>2, <1>3

\* A lookup finds the one batch, or none, that the two tables resolve to.
LookupsInv ==
    \A k \in Keys :
      /\ Lookup(k) \in Batches \cup {NoBatch}
      /\ \A v \in Batches \cup {NoBatch} :
           Resolved(v, GetWriteAheadLogs, runs, k) <=> v = Lookup(k)

LEMMA LookupResolves == IInv /\ WALNosInv => LookupsInv
<1> SUFFICES ASSUME IInv, WALNosInv, NEW k \in Keys
             PROVE  /\ Lookup(k) \in Batches \cup {NoBatch}
                    /\ \A v \in Batches \cup {NoBatch} :
                         Resolved(v, GetWriteAheadLogs, runs, k) <=> v = Lookup(k)
  BY DEF LookupsInv
<1> DEFINE W == Writers(GetWriteAheadLogs, k)
           R == RunsWith(runs, k)
<1>1. GetWriteAheadLogs \subseteq Committed
  BY DEF GetWriteAheadLogs, Committed
<1>2. ASSUME NEW v, Resolved(v, GetWriteAheadLogs, runs, k) PROVE v = Lookup(k)
  BY <1>1, <1>2, ResolveFinds DEF Lookup
<1>3. Resolved(Lookup(k), GetWriteAheadLogs, runs, k)
  <2>1. CASE W # {}
    <3>1. W \subseteq Batches
      BY DEF Writers, GetWriteAheadLogs
    <3>2. IsNewest(Newest(W), W)
      BY <2>1, <3>1, NewestPicks DEF IInv
    <3>3. QED
      BY <2>1, <3>2 DEF Lookup, Resolve, Resolved
  <2>2. CASE W = {} /\ R # {}
    <3>1. /\ NewestRun(R) \in R
          /\ \A q \in R : q.seqNo =< NewestRun(R).seqNo
      BY <2>2, NewestRunPicks DEF RunsWith, IInv
    <3> DEFINE r == NewestRun(R)
    <3>2. Writers(r.wals, k) # {} /\ Writers(r.wals, k) \subseteq Batches
      BY <3>1 DEF RunsWith, Writers, IInv, SourcesInv, Committed
    <3>3. IsNewest(Newest(Writers(r.wals, k)), Writers(r.wals, k))
      BY <3>2, NewestPicks DEF IInv
    <3>4. QED
      BY <2>2, <3>1, <3>3 DEF Lookup, Resolve, Merged, Resolved
  <2>3. CASE W = {} /\ R = {}
    BY <2>3 DEF Lookup, Resolve, Resolved
  <2>4. QED
    BY <2>1, <2>2, <2>3
<1>4. ASSUME NEW v, Resolved(v, GetWriteAheadLogs, runs, k) PROVE v \in Batches \cup {NoBatch}
  BY <1>4 DEF Resolved, IsNewest, Writers, RunsWith, GetWriteAheadLogs, IInv, SourcesInv, Committed
<1>5. QED
  BY <1>2, <1>3, <1>4

\* What the theorems about lookups need to know of a state.
StateInv == IInv /\ OwnershipInv /\ WALNosInv /\ LookupsInv

LEMMA States == Spec => []StateInv
<1>1. Init => WALNosInv
  BY DEF Init, WALNosInv
<1>2. IInv /\ WALNosInv /\ [Next]_vars => WALNosInv'
  BY DatabaseStep
<1>3. IInv /\ OwnershipInv /\ WALNosInv => StateInv
  BY LookupResolves DEF StateInv
<1>4. QED
  BY Ownership, <1>1, <1>2, <1>3, PTL DEF Spec

\* The version of a key stays when its rows and its runs do.
LEMMA LookupStays ==
    ASSUME StateInv, StateInv', NEW k \in Keys,
           Writers(GetWriteAheadLogs, k)' = Writers(GetWriteAheadLogs, k),
           RunsWith(runs, k)' = RunsWith(runs, k),
           \A b \in Committed : seqNo'[b] = seqNo[b]
    PROVE  Lookup(k)' = Lookup(k)
<1>1. PICK v \in Batches \cup {NoBatch} :
        v = Lookup(k) /\ Resolved(v, GetWriteAheadLogs, runs, k)
  BY DEF StateInv, LookupsInv
<1>2. /\ Writers(GetWriteAheadLogs, k) \subseteq Committed
      /\ \A r \in RunsWith(runs, k) : Writers(r.wals, k) \subseteq Committed
  BY DEF Writers, GetWriteAheadLogs, Committed, RunsWith, StateInv, IInv, SourcesInv
<1>3. Resolved(v, GetWriteAheadLogs, runs, k)'
  <2>1. CASE IsNewest(v, Writers(GetWriteAheadLogs, k))
    BY <1>2, <2>1 DEF IsNewest, Resolved
  <2>2. CASE Writers(GetWriteAheadLogs, k) = {} /\ RunsWith(runs, k) = {} /\ v = NoBatch
    BY <2>2 DEF Resolved
  <2>3. ASSUME Writers(GetWriteAheadLogs, k) = {}, NEW r \in RunsWith(runs, k),
               \A q \in RunsWith(runs, k) : q.seqNo =< r.seqNo,
               IsNewest(v, Writers(r.wals, k))
        PROVE  Resolved(v, GetWriteAheadLogs, runs, k)'
    <3>1. IsNewest(v, Writers(r.wals, k))'
      BY <1>2, <2>3 DEF IsNewest, Writers
    <3>2. QED
      BY <2>3, <3>1 DEF Resolved
  <2>4. QED
    BY <1>1, <2>1, <2>2, <2>3 DEF Resolved
<1>4. Lookup(k)' = v
  BY <1>3 DEF StateInv, LookupsInv
<1>5. QED
  BY <1>1, <1>4

\* The commit of an INSERT that is not overtaken makes its batch the version
\* of its keys, and leaves the other keys.
LEMMA CommitLookups ==
    ASSUME StateInv, StateInv', [Next]_vars, NEW b \in Batches, Appears(b),
           NEW k \in Keys, ~ Overtaken(k)
    PROVE  Lookup(k)' = IF k \in KeysOf[b] THEN b ELSE Lookup(k)
<1> DEFINE W == GetWriteAheadLogs
<1>1. \A c \in Committed : seqNo'[c] = seqNo[c]
  BY DatabaseStep DEF StateInv
<1>2. /\ row \in [Batches -> RowState] /\ runs' = runs
      /\ Committed' \ Committed = {b} /\ W' = W \cup {b} /\ W \subseteq Committed
  BY DEF Appears, StateInv, IInv, TypeOK, Committed, GetWriteAheadLogs
<1>3. seqNo'[b] = seqNo[b]
  BY <1>2 DEF Appears, Next, vars, walVars, UploadWAL, AddWriteAheadLog, InsertWAL, CommitWAL,
     AbortWAL, MaybeCompactWAL, ListWALs, MarkWriteAheadLogsAsCompacting, ScheduleJob, TickFails,
     Fetch, Work, UploadRun, AddSharedRun, DeleteWriteAheadLogs, CommitMerge, WorkError, Crash,
     Rescue
<1>4. CASE k \notin KeysOf[b]
  <2>1. Writers(W, k)' = Writers(W, k)
    BY <1>2, <1>4 DEF Writers
  <2>2. RunsWith(runs, k)' = RunsWith(runs, k)
    BY <1>2 DEF RunsWith, Writers
  <2>3. QED
    BY <1>1, <1>4, <2>1, <2>2, LookupStays
<1>5. CASE k \in KeysOf[b]
  <2>1. Writers(W, k)' = Writers(W, k) \cup {b}
    BY <1>2, <1>5 DEF Writers
  <2>2. b \in Appearing(k)
    BY <1>2, <1>5 DEF Appearing, Writers
  <2>3. \A c \in Writers(W, k) : seqNo[c] =< seqNo[b]
    <3>1. \A c \in Writers(W, k) : ~ seqNo[b] < seqNo[c]
      BY <2>2 DEF Overtaken
    <3>2. seqNo \in [Batches -> Nat] /\ Writers(W, k) \subseteq Batches
      BY DEF StateInv, IInv, TypeOK, Writers, GetWriteAheadLogs
    <3>3. QED
      BY <3>1, <3>2
  <2>4. seqNo[b] =< seqNo[b]
    BY DEF StateInv, IInv, TypeOK
  <2>5. IsNewest(b, Writers(W, k))'
    BY <1>1, <1>2, <1>3, <2>1, <2>3, <2>4 DEF IsNewest, Writers
  <2>6. Resolved(b, W, runs, k)'
    BY <2>5 DEF Resolved
  <2>7. QED
    BY <1>5, <2>6 DEF StateInv, LookupsInv
<1>6. QED
  BY <1>4, <1>5

\* The rows of a job that is alone are all there until it commits its merge,
\* which deletes them and no others.
LEMMA AloneMerge ==
    ASSUME IInv, OwnershipInv, NEW e \in Executors, CommitMerge(e), Alone(NewRun(e).job)
    PROVE  /\ NewRun(e).wals \subseteq GetWriteAheadLogs
           /\ GetWriteAheadLogs' = GetWriteAheadLogs \ NewRun(e).wals
<1> DEFINE j == exec[e].job
<1>1. /\ j \in Jobs /\ job[j].state = "running" /\ job[j].wals \subseteq Batches
      /\ NewRun(e).job = j /\ NewRun(e).wals = job[j].wals
  BY HeldJob, JobRows DEF CommitMerge, IInv, NewRun
<1>2. exec[e].valid /\ \A b \in job[j].wals : row[b] = "COMPACTING"
  BY <1>1 DEF CommitMerge, OwnershipInv, AloneInv
<1>3. row' = [b \in Batches |-> IF b \in job[j].wals THEN "gone" ELSE row[b]]
  BY <1>1, <1>2 DEF CommitMerge, RowsAfterDelete
<1> HIDE DEF j
<1>4. QED
  BY <1>1, <1>2, <1>3 DEF GetWriteAheadLogs

\* A merge that is not overtaken leaves the version of every key.
LEMMA MergeLookups ==
    ASSUME StateInv, StateInv', [Next]_vars, NEW e \in Executors, CommitMerge(e),
           NEW k \in Keys, ~ Overtaken(k)
    PROVE  Lookup(k)' = Lookup(k)
<1> DEFINE W == GetWriteAheadLogs
<1>1. UNCHANGED seqNo
  BY DEF CommitMerge
<1>2. PICK r : r = NewRun(e)
  OBVIOUS
<1>3. /\ runs' = runs \cup {r} /\ r \notin runs /\ r \in RunRow /\ r.wals \subseteq Committed
      /\ \A b \in Batches : row'[b] = row[b] \/ b \in r.wals
  <2>1. runs' = runs \cup {r}
    BY <1>2 DEF CommitMerge
  <2>2. PICK q \in RunRow :
             /\ q \notin runs /\ runs' = runs \cup {q} /\ q.wals \subseteq Committed
             /\ \A b \in Batches : row'[b] = row[b] \/ b \in q.wals
    BY MergeStep DEF StateInv
  <2>3. q = r
    BY <2>1, <2>2
  <2>4. QED
    BY <2>2, <2>3
<1>4. CASE Writers(r.wals, k) = {}
  <2>1. Writers(W, k)' = Writers(W, k)
    BY <1>3, <1>4 DEF Writers, GetWriteAheadLogs
  <2>2. RunsWith(runs, k)' = RunsWith(runs, k)
    BY <1>3, <1>4 DEF RunsWith, Writers
  <2>3. QED
    BY <1>1, <2>1, <2>2, LookupStays
<1>5. CASE Writers(r.wals, k) # {}
  <2>1. /\ Alone(r.job)
        /\ \A c \in Writers(W \ r.wals, k) : ~ seqNo[c] < seqNo[Merged(r.wals, k)]
        /\ \A q \in runs : Writers(q.wals, k) # {} => ~ r.seqNo < q.seqNo
    BY <1>3, <1>5 DEF Overtaken
  <2>2. r.wals \subseteq W /\ W' = W \ r.wals
    BY <1>2, <2>1, AloneMerge DEF StateInv
  <2>3. /\ seqNo \in [Batches -> Nat] /\ W \subseteq Batches /\ W \subseteq Committed
        /\ \A b \in W : seqNo[b] # 0
    BY DEF StateInv, IInv, TypeOK, RowsInv, GetWriteAheadLogs, Committed
  <2>4. PICK v \in Batches \cup {NoBatch} :
          v = Lookup(k) /\ Resolved(v, W, runs, k)
    BY DEF StateInv, LookupsInv
  <2>5. Writers(W, k) # {} /\ IsNewest(v, Writers(W, k))
    BY <1>5, <2>2, <2>4 DEF Resolved, Writers
  <2>6. CASE v \notin r.wals
    <3>1. IsNewest(v, Writers(W, k))'
      BY <1>1, <2>2, <2>5, <2>6 DEF IsNewest, Writers
    <3>2. QED
      BY <2>4, <3>1 DEF Resolved, StateInv, LookupsInv
  <2>7. CASE v \in r.wals
    <3>1. IsNewest(v, Writers(r.wals, k))
      BY <2>2, <2>5, <2>7 DEF IsNewest, Writers
    <3>2. v = Merged(r.wals, k)
      <4>1. Writers(r.wals, k) \subseteq Committed
        BY <1>3 DEF Writers
      <4>2. QED
        BY <3>1, <4>1, NewestUnique DEF Merged, StateInv, IInv
    <3>3. Writers(W, k)' = {}
      <4>1. ASSUME NEW c \in Writers(W \ r.wals, k) PROVE FALSE
        <5>1. c \in W /\ c \notin r.wals /\ c \in Writers(W, k)
          BY <4>1 DEF Writers
        <5>2. seqNo[c] =< seqNo[v] /\ ~ seqNo[c] < seqNo[v]
          BY <2>1, <2>5, <3>2, <4>1, <5>1 DEF IsNewest
        <5>3. seqNo[c] = seqNo[v] /\ seqNo[c] # 0 /\ v \in W
          BY <2>2, <2>3, <2>7, <5>1, <5>2
        <5>4. c = v
          BY <2>3, <5>1, <5>3 DEF StateInv, WALNosInv
        <5>5. QED
          BY <2>7, <5>1, <5>4
      <4>2. QED
        BY <2>2, <4>1 DEF Writers
    <3>4. /\ RunsWith(runs, k)' = RunsWith(runs, k) \cup {r}
          /\ \A q \in RunsWith(runs, k) \cup {r} : q.seqNo =< r.seqNo
      <4>1. \A q \in runs \cup {r} : q.seqNo \in Nat
        BY <1>3 DEF StateInv, IInv, TypeOK, RunRow
      <4>2. QED
        BY <1>3, <1>5, <2>1, <4>1 DEF RunsWith, Writers
    <3>5. IsNewest(v, Writers(r.wals, k))'
      BY <1>1, <3>1 DEF IsNewest, Writers
    <3>6. Resolved(v, W, runs, k)'
      BY <3>3, <3>4, <3>5 DEF Resolved
    <3>7. QED
      BY <2>4, <3>6 DEF StateInv, LookupsInv
  <2>8. QED
    BY <2>6, <2>7
<1>6. QED
  BY <1>4, <1>5

\* A step that is not overtaken changes no lookup, but for the commit of an
\* INSERT.
LEMMA LookupStep ==
    ASSUME StateInv, StateInv', [Next]_vars
    PROVE  \/ \E b \in Batches :
                /\ b \notin Committed /\ Committed' = Committed \cup {b}
                /\ runs' = runs
                /\ \A k \in Keys : Overtaken(k) \/
                     Lookup(k)' = IF k \in KeysOf[b] THEN b ELSE Lookup(k)
           \/ /\ Committed' = Committed
              /\ \A k \in Keys : Overtaken(k) \/ Lookup(k)' = Lookup(k)
<1>1. ASSUME NEW b \in Batches, Appears(b)
      PROVE  /\ b \notin Committed /\ Committed' = Committed \cup {b} /\ runs' = runs
             /\ \A k \in Keys : Overtaken(k) \/
                  Lookup(k)' = IF k \in KeysOf[b] THEN b ELSE Lookup(k)
  <2>1. b \notin Committed /\ Committed' = Committed \cup {b} /\ runs' = runs
    BY <1>1 DEF Appears, Committed, StateInv, IInv, TypeOK
  <2>2. QED
    BY <1>1, <2>1, CommitLookups
<1>2. ASSUME NEW e \in Executors, CommitMerge(e)
      PROVE  Committed' = Committed /\ \A k \in Keys : Overtaken(k) \/ Lookup(k)' = Lookup(k)
  <2>1. Committed' = Committed
    BY <1>2, MergeStep DEF Committed, StateInv
  <2>2. QED
    BY <1>2, <2>1, MergeLookups
<1>3. CASE Quiet \/ UNCHANGED vars
  <2>1. Committed' = Committed /\ GetWriteAheadLogs' = GetWriteAheadLogs /\ runs' = runs
    BY <1>3 DEF Quiet, Committed, GetWriteAheadLogs, vars, walVars, runVars
  <2>2. \A c \in Committed : seqNo'[c] = seqNo[c]
    BY DatabaseStep DEF StateInv
  <2>3. ASSUME NEW k \in Keys PROVE Lookup(k)' = Lookup(k)
    <3>1. /\ Writers(GetWriteAheadLogs, k)' = Writers(GetWriteAheadLogs, k)
          /\ RunsWith(runs, k)' = RunsWith(runs, k)
      BY <2>1 DEF Writers, RunsWith
    <3>2. QED
      BY <2>2, <3>1, LookupStays
  <2>4. QED
    BY <2>1, <2>3
<1>4. QED
  BY <1>1, <1>2, <1>3, TablesStep DEF StateInv

-----------------------------------------------------------------------------
(* The theorems about lookups.                                              *)

\* In any deployment, a lookup is changed by the commit of an INSERT alone,
\* and to the batch that commits, unless the step is overtaken: by a WAL with
\* a higher number, a job with common rows, a WAL that committed late or a
\* run with a higher number.
THEOREM LookupsFollowCommits == Spec => LookupsChangeForCause
<1> DEFINE Step == \A k \in Keys : \/ Appearing(k) = {} /\ Lookup(k)' = Lookup(k)
                                   \/ Lookup(k)' \in Appearing(k)
                                   \/ Overtaken(k)
<1>1. ASSUME StateInv, StateInv', [Next]_vars PROVE Step
  <2>1. ASSUME NEW b \in Batches,
               b \notin Committed, Committed' = Committed \cup {b}, NEW k \in Keys,
               Lookup(k)' = IF k \in KeysOf[b] THEN b ELSE Lookup(k)
        PROVE  (Appearing(k) = {} /\ Lookup(k)' = Lookup(k)) \/ Lookup(k)' \in Appearing(k)
    BY <2>1 DEF Appearing, Writers
  <2>2. ASSUME Committed' = Committed, NEW k \in Keys PROVE Appearing(k) = {}
    BY <2>2 DEF Appearing, Writers
  <2>3. QED
    BY <1>1, <2>1, <2>2, LookupStep
<1> HIDE DEF Step
<1>2. Spec => [][Step]_vars
  BY States, <1>1, PTL DEF Spec
<1>3. QED
  BY <1>2 DEF Step, LookupsChangeForCause

\* A merge that is not overtaken, which moves records from WALs to a run,
\* leaves what every lookup finds.
THEOREM MergesKeepLookups ==
    Spec /\ [][\A k \in Keys : ~ Overtaken(k)]_vars => MergePreservesLookups
<1>1. ASSUME StateInv, StateInv', [Next]_vars, [\A k \in Keys : ~ Overtaken(k)]_vars
      PROVE  [runs' # runs => \A k \in Keys : Lookup(k)' = Lookup(k)]_vars
  <2> SUFFICES ASSUME runs' # runs PROVE \A k \in Keys : Lookup(k)' = Lookup(k)
    OBVIOUS
  <2>1. \A k \in Keys : ~ Overtaken(k)
    BY <1>1 DEF vars, runVars
  <2>2. QED
    BY <1>1, <2>1, LookupStep
<1>2. QED
  BY States, <1>1, PTL DEF Spec, MergePreservesLookups

\* A deployment none of whose steps is overtaken implements the store of a
\* client: the tables, the jobs and the merges are invisible, whatever fails
\* and however many processes there are, and a lookup of the newest WAL, else
\* of the newest run, finds what the last committed batch wrote.
THEOREM StoreRefinement ==
    Spec /\ [][\A k \in Keys : ~ Overtaken(k)]_vars => ImplementsStore
<1>1. Init => KVStore!Init
  <2> SUFFICES ASSUME Init PROVE Committed = {} /\ \A k \in Keys : Lookup(k) = NoBatch
    BY DEF KVStore!Init
  <2>1. Committed = {} /\ GetWriteAheadLogs = {} /\ runs = {}
    BY DEF Init, Committed, GetWriteAheadLogs
  <2>2. QED
    BY <2>1 DEF Lookup, Resolve, Writers, RunsWith
<1>2. ASSUME StateInv, StateInv', [Next]_vars, [\A k \in Keys : ~ Overtaken(k)]_vars
      PROVE  [KVStore!Next]_<<Committed, [k \in Keys |-> Lookup(k)]>>
  <2>1. CASE UNCHANGED vars
    <3>1. Committed' = Committed /\ GetWriteAheadLogs' = GetWriteAheadLogs
      BY <2>1 DEF vars, walVars, Committed, GetWriteAheadLogs
    <3>2. \A k \in Keys : Lookup(k)' = Lookup(k)
      <4> SUFFICES ASSUME NEW k \in Keys PROVE Lookup(k)' = Lookup(k)
        OBVIOUS
      <4>1. /\ Writers(GetWriteAheadLogs, k)' = Writers(GetWriteAheadLogs, k)
            /\ RunsWith(runs, k)' = RunsWith(runs, k) /\ seqNo' = seqNo
        BY <2>1, <3>1 DEF Writers, RunsWith, vars, walVars, runVars
      <4>2. QED
        BY <1>2, <4>1, LookupStays
    <3>3. QED
      BY <3>1, <3>2
  <2>2. CASE \A k \in Keys : ~ Overtaken(k)
    <3>1. ASSUME NEW b \in Batches, b \notin Committed, Committed' = Committed \cup {b},
                 \A k \in Keys : Lookup(k)' = IF k \in KeysOf[b] THEN b ELSE Lookup(k)
          PROVE  KVStore!Write(b)
      BY <3>1 DEF KVStore!Write
    <3>2. ASSUME Committed' = Committed, \A k \in Keys : Lookup(k)' = Lookup(k)
          PROVE  UNCHANGED <<Committed, [k \in Keys |-> Lookup(k)]>>
      BY <3>2
    <3>3. QED
      BY <1>2, <2>2, <3>1, <3>2, LookupStep DEF KVStore!Next
  <2>3. QED
    BY <1>2, <2>1, <2>2
<1>3. QED
  BY States, <1>1, <1>2, PTL DEF Spec, ImplementsStore, KVStore!Spec

=============================================================================
