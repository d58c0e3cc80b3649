-------------------------------- MODULE Stress --------------------------------
(***************************************************************************)
(* The stress tool (cmd/stress/main.go): workers that write and delete     *)
(* through the batcher for some time, then workers that read through the   *)
(* index and check the answers against what was acknowledged.              *)
(*                                                                         *)
(* The services are seen from outside.  The batcher may apply a batch long *)
(* after its call has failed, and acknowledges none that is not applied.   *)
(* The index returns found puts only and may lag.  A key is its letter and *)
(* its number; the counters, latencies and the report are left out.        *)
(***************************************************************************)
EXTENDS Integers, Sequences, FiniteSets, SequencesExt

CONSTANTS
    BatchSize,     \* cfg.BatchSize
    Concurrency,   \* cfg.Concurrency
    MaxCalls       \* bound: the calls of one phase

ASSUME StressAssumption == BatchSize \in Nat \ {0} /\ Concurrency \in Nat /\ MaxCalls \in Nat

VARIABLES
    service, readMode,   \* the flags -service and -read-mode
    phase,               \* where main is
    cancelled,           \* ctx
    stopped,             \* stopped[p]: the channel stop of phase p is closed
    worker,              \* worker[p][id]: a goroutine of phase p
    written, deleted,    \* actualWrittenKeys and actualDeletedKeys
    lists,               \* writtenKeysList and deletedKeysList
    alarms,              \* verificationErrorCount
    open,                \* the workers whose last batch may still be applied
    applied,             \* the keys put or deleted by the system
    calls,               \* bound: the calls made
    missed,              \* history: positions whose answer left out an applied put
    deletionsRead        \* history: positions answered for a deleted key

config == <<service, readMode>>
tracked == <<written, deleted, lists>>
system == <<open, applied>>
answers == <<missed, deletionsRead>>
vars == <<config, phase, cancelled, stopped, worker, tracked, alarms, system, calls, answers>>

Phases == {"batcher", "index"}
Ids == 0..Concurrency - 1
Positions == 0..BatchSize - 1

TestDataSize == 3 * BatchSize
Keys == {"W", "D", "U"} \X (0..TestDataSize - 1)

\* Worker id uses this stretch of each list, modulo the length of the list.
Index(id, j) == id * BatchSize + j

StressTypeOK ==
    /\ service \in {"batcher", "index", "both"}
    /\ readMode \in {"written", "notwritten", "deleted", "mixed"}
    /\ phase \in Phases \cup {"between", "done"}
    /\ cancelled \in BOOLEAN
    /\ stopped \in [Phases -> BOOLEAN]
    /\ worker \in [Phases -> [Ids -> {"off", "idle", "calling", "doomed", "exited"}]]
    /\ written \subseteq Keys /\ deleted \subseteq Keys
    /\ DOMAIN lists = {"W", "D"}
    /\ \A l \in {"W", "D"} : lists[l] \in Seq(Keys) /\ IsInjective(lists[l])
    /\ alarms \in Nat
    /\ open \subseteq Ids /\ applied \subseteq Keys
    /\ calls \in [Phases -> 0..MaxCalls]
    /\ missed \in Nat /\ deletionsRead \in Nat

AllWorkers(pc) == [id \in Ids |-> pc]

Init ==
    /\ service \in {"batcher", "index", "both"}
    /\ readMode \in {"written", "notwritten", "deleted", "mixed"}
    /\ phase = IF service = "index" THEN "between" ELSE "batcher"
    /\ cancelled = FALSE
    /\ stopped = [p \in Phases |-> FALSE]
    /\ worker = [p \in Phases |-> AllWorkers(IF p = phase THEN "idle" ELSE "off")]
    /\ written = {} /\ deleted = {}
    /\ lists = [l \in {"W", "D"} |-> <<>>]
    /\ alarms = 0
    /\ open = {} /\ applied = {}
    /\ calls = [p \in Phases |-> 0]
    /\ missed = 0 /\ deletionsRead = 0

Inflight(p) == {id \in Ids : worker[p][id] \in {"calling", "doomed"}}

-----------------------------------------------------------------------------
(* main and the goroutines it starts.                                       *)

\* SIGINT or SIGTERM.
Interrupt ==
    /\ ~cancelled
    /\ phase # "done"
    /\ cancelled' = TRUE
    /\ UNCHANGED <<config, phase, stopped, worker, tracked, alarms, system, calls, answers>>

\* The duration is over or ctx is cancelled: stop is closed.
Stop(p) ==
    /\ phase = p
    /\ ~stopped[p]
    /\ stopped' = [stopped EXCEPT ![p] = TRUE]
    /\ UNCHANGED <<config, phase, cancelled, worker, tracked, alarms, system, calls, answers>>

\* Mutant: main waits for the first worker only.
EndAfterFirst(p) ==
    /\ phase = p
    /\ \E id \in Ids : worker[p][id] = "exited"
    /\ phase' = IF p = "batcher" /\ service = "both" THEN "between" ELSE "done"
    /\ UNCHANGED <<config, cancelled, stopped, worker, tracked, alarms, system, calls, answers>>

\* wg.Wait returns.
End(p) ==
    /\ phase = p
    /\ \A id \in Ids : worker[p][id] = "exited"
    /\ phase' = IF p = "batcher" /\ service = "both" THEN "between" ELSE "done"
    /\ UNCHANGED <<config, cancelled, stopped, worker, tracked, alarms, system, calls, answers>>

\* The maps are copied to lists, in any order.
StartIndex ==
    /\ phase = "between"
    /\ phase' = "index"
    /\ \E w \in SetToSeqs(written), d \in SetToSeqs(deleted) : lists' = [W |-> w, D |-> d]
    /\ worker' = [worker EXCEPT !["index"] = AllWorkers("idle")]
    /\ UNCHANGED <<config, cancelled, stopped, written, deleted, alarms, system, calls, answers>>

-----------------------------------------------------------------------------
(* Workers.                                                                 *)

\* Mutant: stop is sent to once, not closed.
ExitFirst(p, id) ==
    /\ worker[p][id] = "idle"
    /\ stopped[p]
    /\ \A other \in Ids : worker[p][other] # "exited"
    /\ worker' = [worker EXCEPT ![p][id] = "exited"]
    /\ UNCHANGED <<config, phase, cancelled, stopped, tracked, alarms, system, calls, answers>>

Exit(p, id) ==
    /\ worker[p][id] = "idle"
    /\ stopped[p]
    /\ worker' = [worker EXCEPT ![p][id] = "exited"]
    /\ UNCHANGED <<config, phase, cancelled, stopped, tracked, alarms, system, calls, answers>>

\* A call with a cancelled context never leaves the client.
Call(p, id) ==
    /\ worker[p][id] = "idle"
    /\ ~stopped[p]
    /\ calls[p] < MaxCalls
    /\ calls' = [calls EXCEPT ![p] = @ + 1]
    /\ worker' = [worker EXCEPT ![p][id] = IF cancelled THEN "doomed" ELSE "calling"]
    /\ open' = IF p = "batcher" /\ ~cancelled THEN open \cup {id} ELSE open
    /\ UNCHANGED <<config, phase, cancelled, stopped, tracked, alarms, applied, answers>>

\* The call of worker id returns, and the loop goes on.
Return(p, id) == worker' = [worker EXCEPT ![p][id] = "idle"]

\* Even workers put W keys, odd ones delete D keys.
BatchKeys(id) ==
    {<<IF id % 2 = 0 THEN "W" ELSE "D", Index(id, j) % TestDataSize>> : j \in Positions}

Track(id) ==
    IF id % 2 = 0 THEN written' = written \cup BatchKeys(id) /\ UNCHANGED deleted
                  ELSE deleted' = deleted \cup BatchKeys(id) /\ UNCHANGED written

\* The batch of the last call of worker id is committed.
Apply(id) ==
    /\ id \in open
    /\ open' = open \ {id}
    /\ applied' = applied \cup BatchKeys(id)
    /\ UNCHANGED <<config, phase, cancelled, stopped, worker, tracked, alarms, calls, answers>>

WriteAcked(id) ==
    /\ worker["batcher"][id] = "calling"
    /\ id \notin open
    /\ Track(id)
    /\ Return("batcher", id)
    /\ UNCHANGED <<config, phase, cancelled, stopped, lists, alarms, system, calls, answers>>

\* Mutant: the keys are recorded whatever the call returns.
WriteFailsTracked(id) ==
    /\ id \in Inflight("batcher")
    /\ Track(id)
    /\ Return("batcher", id)
    /\ UNCHANGED <<config, phase, cancelled, stopped, lists, alarms, system, calls, answers>>

WriteFails(id) ==
    /\ id \in Inflight("batcher")
    /\ Return("batcher", id)
    /\ UNCHANGED <<config, phase, cancelled, stopped, tracked, alarms, system, calls, answers>>

BatchWrite(id) == WriteAcked(id) \/ WriteFails(id)

\* The i-th key of list l, with a key that is never written in its place.
Pick(l, i) ==
    IF l = "U" \/ lists[l] = <<>> THEN <<"U", i % TestDataSize>>
    ELSE lists[l][(i % Len(lists[l])) + 1]

\* The list that position i of a request is read from.
ListFor(i) ==
    CASE readMode = "written" -> "W"
      [] readMode = "notwritten" -> "U"
      [] readMode = "deleted" -> "D"
      [] OTHER -> <<"W", "U", "D">>[(i % 3) + 1]

ReadKey(id, j) == Pick(ListFor(Index(id, j)), Index(id, j))

\* The puts an index whose views are up to date finds for worker id.
Found(id) == {k \in applied : k[1] = "W" /\ \E j \in Positions : ReadKey(id, j) = k}

\* The positions whose keys an answer leaves out although they are there, and
\* those whose keys were deleted.
MissedAt(id, results) == {j \in Positions : ReadKey(id, j) \in Found(id) \ results}
DeletedAt(id) == {j \in Positions : ReadKey(id, j)[1] = "D"}

\* Mutant: keys that were not written are expected, too.
ExpectAll(id, results) == {j \in Positions : ReadKey(id, j) \notin results}

\* The verification: every acknowledged key is expected in the results.
Incorrect(id, results) ==
    {j \in Positions : ReadKey(id, j) \in (written \cup deleted) \ results}

ReadAnswered(id) ==
    /\ worker["index"][id] = "calling"
    /\ \E results \in SUBSET Found(id) :
         /\ alarms' = alarms + Cardinality(Incorrect(id, results))
         /\ missed' = missed + Cardinality(MissedAt(id, results))
    /\ deletionsRead' = deletionsRead + Cardinality(DeletedAt(id))
    /\ Return("index", id)
    /\ UNCHANGED <<config, phase, cancelled, stopped, tracked, system, calls>>

ReadFails(id) ==
    /\ id \in Inflight("index")
    /\ Return("index", id)
    /\ UNCHANGED <<config, phase, cancelled, stopped, tracked, alarms, system, calls, answers>>

BatchGet(id) == ReadAnswered(id) \/ ReadFails(id)

Next ==
    \/ Interrupt
    \/ \E p \in Phases :
         \/ Stop(p) \/ End(p)
         \/ \E id \in Ids : Exit(p, id) \/ Call(p, id)
    \/ StartIndex
    \/ \E id \in Ids : Apply(id) \/ BatchWrite(id) \/ BatchGet(id)

Spec == Init /\ [][Next]_vars

\* Goroutines run, timers fire, and a call returns in the end; the services
\* may hold a batch for ever after its call has failed.
FairSpec ==
    /\ Spec
    /\ WF_vars(StartIndex)
    /\ \A p \in Phases :
         /\ WF_vars(Stop(p)) /\ WF_vars(End(p))
         /\ \A id \in Ids : WF_vars(Exit(p, id))
    /\ \A id \in Ids : WF_vars(BatchWrite(id)) /\ WF_vars(BatchGet(id))

-----------------------------------------------------------------------------
(* Properties.                                                              *)

\* What the workers record under keysMutex is what the system has: errors,
\* interrupts and batches applied late never put a key into the maps that was
\* not applied.
TrackedIsApplied == written \cup deleted \subseteq applied

\* The maps that the index workers read without a lock no longer change, and
\* the lists made from them hold the same keys.
ListsMatchMaps ==
    phase = "index" => /\ ToSet(lists["W"]) = written
                       /\ ToSet(lists["D"]) = deleted

\* The tool counts as verification errors exactly the puts that an answer
\* left out although they had been applied, and the deleted keys it read:
\* writes that failed or came late, read modes, empty lists and keys read
\* twice add none.
AlarmsAreExact == alarms = missed + deletionsRead

\* The results are verified as expected: an error means that the index left
\* out a put.
AlarmsMeanMisses == alarms > 0 => missed > 0

\* With both services or one, interrupted at any time, the tool comes to its
\* report.
Terminates == <>(phase = "done")

=============================================================================
