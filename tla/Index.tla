-------------------------------- MODULE Index --------------------------------
(***************************************************************************)
(* One index process (internal/index/handler.go) beside the database of    *)
(* Compaction.  It keeps a copy of write_ahead_logs, of shared_runs and of *)
(* partitions in memory, each refreshed by a watcher goroutine that waits  *)
(* for notifications (internal/database/watch.go), and answers BatchGet    *)
(* from the three copies, which it reads one after the other.              *)
(*                                                                         *)
(* The triggers of the tables fire once per INSERT or UPDATE               *)
(* statement, even one that changes no row, and not on DELETE; PostgreSQL  *)
(* delivers a notification when its transaction commits, to the sessions   *)
(* that LISTEN by then.  The partitions table has one row, which starts at *)
(* the empty key and has no runs, and nothing writes to it.                *)
(***************************************************************************)
EXTENDS Compaction

CONSTANTS
    DeletesOf,   \* DeletesOf[b]: the keys batch b deletes; it puts the others
    Gets,        \* bound: the calls of BatchGet
    IndexFirst   \* the index serves before the first write, or boots any time

ASSUME IndexAssumption ==
    /\ DeletesOf \in [Batches -> SUBSET Keys]
    /\ \A b \in Batches : DeletesOf[b] \subseteq KeysOf[b]
    /\ IndexFirst \in BOOLEAN

VARIABLES
    view,    \* view["wals"] and so on: h.wals, h.sharedRuns, h.partitions
    watch,   \* watch[t]: the watcher of table t and its connection
    get      \* get[g]: the state of a call of BatchGet

indexVars == <<vars, view, watch, get>>

Tables == {"wals", "runs", "partitions"}

\* The start keys of the partitions: the row that the migration inserts.
Partitions == {""}

\* "down": not started; "loaded": the initial callback has run, LISTEN has
\* not; "deaf": WaitForNotification fails again and again.
WatchState == [pc : {"down", "loaded", "waiting", "notified", "queried", "deaf"},
               pending : Nat, seen : (SUBSET Batches) \cup (SUBSET RunRow), lost : BOOLEAN]

\* lost is a history: since the last query the table may have changed without
\* a notification that the watcher will still act on.
Watching(pc, pending, seen, lost) ==
    [pc |-> pc, pending |-> pending, seen |-> seen, lost |-> lost]

GetState == [pc : {"idle", "wals", "runs", "done", "error"}, asked : SUBSET Keys,
             wals : SUBSET Batches, runs : SUBSET RunRow,
             todo : (SUBSET Batches) \cup (SUBSET RunRow),
             version : [Keys -> Batches \cup {NoBatch}]]

IdleGet == [pc |-> "idle", asked |-> {}, wals |-> {}, runs |-> {}, todo |-> {},
            version |-> [k \in Keys |-> NoBatch]]

IndexTypeOK ==
    /\ TypeOK
    /\ view["wals"] \subseteq Batches
    /\ view["runs"] \subseteq RunRow
    /\ view["partitions"] \subseteq Partitions
    /\ watch \in [Tables -> WatchState]
    /\ get \in [Gets -> GetState]

\* What GetWriteAheadLogs, GetSharedRuns and GetPartitions return.
Query(t) ==
    CASE t = "wals" -> GetWriteAheadLogs
      [] t = "runs" -> runs
      [] t = "partitions" -> Partitions

IndexInit ==
    /\ Init
    /\ view = [t \in Tables |-> IF IndexFirst THEN Query(t) ELSE {}]
    /\ watch = [t \in Tables |-> Watching(IF IndexFirst THEN "waiting" ELSE "down", 0, {}, ~ IndexFirst)]
    /\ get = [g \in Gets |-> IdleGet]

Up(t) == watch[t].pc \notin {"down", "loaded"}

Serving == \A t \in Tables : Up(t)

-----------------------------------------------------------------------------
(* database.Watch for table t: a callback, LISTEN, then a loop.             *)

\* NewHandler watches one table after the other.
Load(t) ==
    /\ watch[t].pc = "down"
    /\ t = "runs" => Up("wals")
    /\ t = "partitions" => Up("runs")
    /\ view' = [view EXCEPT ![t] = Query(t)]
    /\ watch' = [watch EXCEPT ![t] = Watching("loaded", 0, {}, FALSE)]
    /\ UNCHANGED <<vars, get>>

Listen(t) ==
    /\ watch[t].pc = "loaded"
    /\ watch' = [watch EXCEPT ![t] = Watching("waiting", 0, {}, watch[t].lost)]
    /\ UNCHANGED <<vars, view, get>>

WaitForNotification(t) ==
    /\ watch[t].pc = "waiting"
    /\ watch[t].pending > 0
    /\ watch' = [watch EXCEPT ![t] = Watching("notified", watch[t].pending - 1, {}, watch[t].lost)]
    /\ UNCHANGED <<vars, view, get>>

\* The callback: the query, then the sort and the store of the pointer.
QueryTable(t) ==
    /\ watch[t].pc = "notified"
    /\ watch' = [watch EXCEPT ![t] = Watching("queried", watch[t].pending, Query(t), FALSE)]
    /\ UNCHANGED <<vars, view, get>>

\* Mutant: what was notified in the meantime is taken for done.
StoreViewAndDrain(t) ==
    /\ watch[t].pc = "queried"
    /\ view' = [view EXCEPT ![t] = watch[t].seen]
    /\ watch' = [watch EXCEPT ![t] = Watching("waiting", 0, {}, FALSE)]
    /\ UNCHANGED <<vars, get>>

StoreView(t) ==
    /\ watch[t].pc = "queried"
    /\ view' = [view EXCEPT ![t] = watch[t].seen]
    /\ watch' = [watch EXCEPT ![t] = Watching("waiting", watch[t].pending, {}, FALSE)]
    /\ UNCHANGED <<vars, get>>

\* The query fails: the error is logged and the notification is spent.
RefreshFails(t) ==
    /\ watch[t].pc = "notified"
    /\ Fail
    /\ watch' = [watch EXCEPT ![t] = Watching("waiting", watch[t].pending, {}, TRUE)]
    /\ UNCHANGED <<walVars, orch, job, exec, runVars, view, get>>

\* The connection breaks: nothing acquires another one or listens again.
LoseConnection(t) ==
    /\ watch[t].pc = "waiting"
    /\ Fail
    /\ watch' = [watch EXCEPT ![t] = Watching("deaf", 0, {}, watch[t].lost \/ watch[t].pending > 0)]
    /\ UNCHANGED <<walVars, orch, job, exec, runVars, view, get>>

\* The process dies, or an error of the boot makes main exit; its calls break
\* off and it is started again.
Restart ==
    /\ Fail
    /\ view' = [t \in Tables |-> {}]
    /\ watch' = [t \in Tables |-> Watching("down", 0, {}, TRUE)]
    /\ get' = [g \in Gets |-> IF get[g].pc \in {"wals", "runs"}
                                THEN [IdleGet EXCEPT !.pc = "error"] ELSE get[g]]
    /\ UNCHANGED <<walVars, orch, job, exec, runVars>>

Watcher(t) ==
    \/ Load(t)
    \/ Listen(t)
    \/ WaitForNotification(t)
    \/ QueryTable(t)
    \/ StoreView(t)

-----------------------------------------------------------------------------
(* BatchGet.                                                                *)

\* A key is remaining until some object has a put or a delete of it.
Remaining(g) == {k \in get[g].asked : get[g].version[k] = NoBatch}

\* Mutant: the deleted keys of the answer stay in the map.
AnsweredFound(g, bs) ==
    [k \in Keys |-> IF /\ k \in Remaining(g)
                       /\ Writers(bs, k) # {}
                       /\ k \notin DeletesOf[Newest(Writers(bs, k))]
                      THEN Newest(Writers(bs, k)) ELSE get[g].version[k]]

\* The answer of the cache for an object with the records of batches bs: the
\* remaining keys it has, found or deleted, leave the map.
Answered(g, bs) ==
    [k \in Keys |-> IF k \in Remaining(g) /\ Writers(bs, k) # {}
                      THEN Newest(Writers(bs, k)) ELSE get[g].version[k]]

StartGet(g) ==
    /\ get[g].pc = "idle"
    /\ Serving
    /\ \E keys \in SUBSET Keys :
         get' = [get EXCEPT ![g] = [IdleGet EXCEPT !.pc = "wals", !.asked = keys,
                                      !.wals = view["wals"], !.todo = view["wals"]]]
    /\ UNCHANGED <<vars, view, watch>>

LookupWAL(g) ==
    /\ get[g].pc = "wals"
    /\ Remaining(g) # {}
    /\ get[g].todo # {}
    /\ LET b == Newest(get[g].todo) IN
         get' = [get EXCEPT ![g].version = Answered(g, {b}), ![g].todo = get[g].todo \ {b}]
    /\ UNCHANGED <<vars, view, watch>>

\* The WAL loop ends; h.sharedRuns is loaded now if a key is left.
LoadRuns(g) ==
    /\ get[g].pc = "wals"
    /\ Remaining(g) = {} \/ get[g].todo = {}
    /\ get' = [get EXCEPT ![g] =
                 IF Remaining(g) = {} THEN [get[g] EXCEPT !.pc = "done", !.todo = {}]
                 ELSE [get[g] EXCEPT !.pc = "runs", !.runs = view["runs"], !.todo = view["runs"]]]
    /\ UNCHANGED <<vars, view, watch>>

\* The loop over the runs goes on when no key is left, and the cache refuses
\* a request without keys.
LookupRun(g) ==
    /\ get[g].pc = "runs"
    /\ get[g].todo # {}
    /\ LET r == NewestRun(get[g].todo) IN
         get' = [get EXCEPT ![g] =
                   IF Remaining(g) = {} THEN [get[g] EXCEPT !.pc = "error", !.todo = {}]
                   ELSE [get[g] EXCEPT !.version = Answered(g, r.wals),
                                       !.todo = get[g].todo \ {r}]]
    /\ UNCHANGED <<vars, view, watch>>

\* The keys left go to the partition with the highest start key that is not
\* above them, whose runs are none; without a partition they are an error.
FinishGet(g) ==
    /\ get[g].pc = "runs"
    /\ get[g].todo = {}
    /\ get' = [get EXCEPT ![g].pc =
                 IF Remaining(g) = {} \/ view["partitions"] # {} THEN "done" ELSE "error"]
    /\ UNCHANGED <<vars, view, watch>>

\* No cache pod answers, or the cache cannot read the object.
CacheFails(g) ==
    /\ \/ get[g].pc = "wals" /\ Remaining(g) # {}
       \/ get[g].pc = "runs"
    /\ get[g].todo # {}
    /\ Fail
    /\ get' = [get EXCEPT ![g].pc = "error", ![g].todo = {}]
    /\ UNCHANGED <<walVars, orch, job, exec, runVars, view, watch>>

BatchGet(g) ==
    \/ StartGet(g)
    \/ LookupWAL(g)
    \/ LoadRuns(g)
    \/ LookupRun(g)
    \/ FinishGet(g)

\* The keys of the response: those whose record is not a tombstone.
Results(g) ==
    {k \in get[g].asked : get[g].version[k] # NoBatch /\ k \notin DeletesOf[get[g].version[k]]}

-----------------------------------------------------------------------------
(* The database, with its notifications.                                    *)

\* Mutant: a notification during the callback is lost.
NotifyWaiting(t) ==
    watch' = [watch EXCEPT ![t].pending = IF watch[t].pc = "waiting" THEN @ + 1 ELSE @,
                           ![t].lost = @ \/ watch[t].pc \in {"loaded", "deaf"}]

Listening(t) == watch[t].pc \in {"waiting", "notified", "queried"}

\* A commit that notifies the channel of table t; a session that does not
\* LISTEN, or whose connection is gone, is not told.
Notify(t) ==
    watch' = [watch EXCEPT ![t].pending = IF Listening(t) THEN @ + 1 ELSE @,
                           ![t].lost = @ \/ ~ Listening(t)]

\* write_ahead_logs is inserted into or updated.
ChangeWALs ==
    /\ \/ \E b \in Batches : CommitWAL(b)
       \/ \E o \in Orchestrators : ScheduleJob(o)
    /\ Notify("wals")
    /\ UNCHANGED <<view, get>>

\* Mutant: shared_runs has no trigger.
ChangeRunsQuietly ==
    /\ \E e \in Executors : CommitMerge(e)
    /\ UNCHANGED <<view, watch, get>>

\* shared_runs is inserted into; the deletion of WALs notifies nobody.
ChangeRuns ==
    /\ \E e \in Executors : CommitMerge(e)
    /\ Notify("runs")
    /\ UNCHANGED <<view, get>>

\* Every other step of the batchers, orchestrators and workers.
Elsewhere ==
    /\ \/ \E b \in Batches : UploadWAL(b) \/ InsertWAL(b) \/ AbortWAL(b)
       \/ \E o \in Orchestrators :
            ListWALs(o) \/ MarkWriteAheadLogsAsCompacting(o) \/ TickFails(o)
       \/ \E e \in Executors :
            \/ \E j \in Jobs : Fetch(e, j)
            \/ UploadRun(e) \/ AddSharedRun(e) \/ DeleteWriteAheadLogs(e)
            \/ WorkError(e) \/ Crash(e)
       \/ \E j \in Jobs : Rescue(j)
    /\ UNCHANGED <<view, watch, get>>

IndexNext ==
    \/ ChangeWALs \/ ChangeRuns \/ Elsewhere
    \/ \E t \in Tables : Watcher(t) \/ RefreshFails(t) \/ LoseConnection(t)
    \/ Restart
    \/ \E g \in Gets : BatchGet(g) \/ CacheFails(g)

IndexSpec == IndexInit /\ [][IndexNext]_indexVars

\* The watchers' goroutines run and PostgreSQL delivers notifications.
FairIndexSpec == IndexSpec /\ \A t \in Tables : WF_indexVars(Watcher(t))

-----------------------------------------------------------------------------
(* Properties.                                                              *)

\* The batches a BatchGet that loaded both views now would search.
Visible == view["wals"] \cup UNION {r.wals : r \in view["runs"]}

\* A refresh of view t is due or under way: a notification waits to be
\* delivered, or its query has still to run, or the query has returned x.
Refreshing(t, x) ==
    \/ watch[t].pending > 0
    \/ watch[t].pc = "notified"
    \/ watch[t].pc = "queried" /\ x \in watch[t].seen

\* No commit is missed unless its notification is: every row a query would
\* return is in the view or a refresh that will put it there is due, except
\* after a change between the initial query and LISTEN, a refresh that failed
\* or a connection that was lost, and then only until the next refresh.  A
\* notification that arrives while the callback runs is not absorbed by a
\* query that started too early.
NothingMissed ==
    \A t \in Tables :
      watch[t].lost \/ \A x \in Query(t) : x \in view[t] \/ Refreshing(t, x)

\* The watcher of table t has nothing to do, and no reason to doubt its view.
AtRest(t) == watch[t].pc = "waiting" /\ watch[t].pending = 0 /\ ~ watch[t].lost

\* Where the tables answer a key with its newest committed version, views that
\* have come to rest do so, too, although no deletion is ever notified: the
\* WALs that were merged since the last refresh are still in the view, and hide
\* nothing newer.  This is for one executor; two may commit their runs in the
\* wrong order, which the tables recover from and the view does not.
QuietViewsAreCurrent ==
    AtRest("wals") /\ AtRest("runs") =>
      \A k \in Keys :
        LET writers == Writers(Committed, k) IN
        writers # {} /\ Lookup(k) = Newest(writers)
          => Resolve(view["wals"], view["runs"], k) = Newest(writers)

\* An index that listened before the first write comes to show every committed
\* batch again and again, while WALs are merged under it, as long as nothing
\* fails.
EveryBatchVisible == []<>(Committed \subseteq Visible \/ failures > 0)

\* The watchers see every change of the tables, wherever the index was in its
\* boot: a committed batch is visible in the end.
ChangesAreSeen == \A b \in Batches : b \in Committed ~> b \in Visible

\* However the objects are visited one by one and the map of remaining keys
\* shrinks on the way, a BatchGet that succeeds gives each key the version
\* that the newest WAL that has it, or else the newest run, holds in the
\* views the call loaded; a tombstone hides all older puts.
LookupMatchesViews ==
    \A g \in Gets : get[g].pc = "done" =>
      \A k \in get[g].asked :
        LET b == Resolve(get[g].wals, get[g].runs, k) IN
        /\ get[g].version[k] = b
        /\ k \in Results(g) <=> b # NoBatch /\ k \notin DeletesOf[b]

\* BatchGet asks the cache only for at least one key.
CacheAskedForKeys ==
    \A g \in Gets : get[g].pc = "runs" /\ get[g].todo # {} => Remaining(g) # {}

\* A batch that could be found can be found from then on.
VisibleStays == [][Visible \subseteq Visible']_indexVars

=============================================================================
