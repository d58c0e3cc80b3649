------------------------------- MODULE Batcher -------------------------------
(***************************************************************************)
(* One batcher process (internal/batcher/handler.go): the goroutines that  *)
(* run BatchWrite for a client each, batchLoop, which gathers their        *)
(* requests into a batch, and the MaxConcurrent writers processLoop        *)
(* starts, which make a batch durable and answer the requests in it.  They *)
(* meet in four channels: writes (unbuffered), processing (capacity        *)
(* MaxConcurrent), a callback of capacity 1 per request, and done.         *)
(*                                                                         *)
(* A request that fails validation never reaches a channel and is left     *)
(* out.  What a batch holds is the set of its requests; which record of a  *)
(* key survives in it is not this module's subject.                        *)
(***************************************************************************)
EXTENDS Naturals, Sequences, FiniteSets, SequencesExt

CONSTANTS
    Requests,       \* the calls of BatchWrite, one request each
    Size,           \* Size[r]: bytes of keys and values in request r
    MaxBatchBytes,  \* Config.MaxBatchBytes
    MaxConcurrent,  \* Config.MaxConcurrent
    MaxFailures     \* bound: errors of the object store and the database

Writers == 1..MaxConcurrent

ASSUME BatcherAssumption ==
    /\ Size \in [Requests -> Nat \ {0}]
    /\ MaxBatchBytes \in Nat \ {0}
    /\ MaxConcurrent \in Nat \ {0}
    /\ MaxFailures \in Nat

VARIABLES
    call,        \* call[r]: where the goroutine of BatchWrite is
    callback,    \* callback[r]: the buffer of the request's callback channel
    loop,        \* batchLoop: "select", "flush", "failing" or "exited"
    current,     \* the batch being gathered; no requests: nil
    timer,       \* the age timer of current
    processing,  \* the buffer of the processing channel
    closed,      \* processing is closed
    writer,      \* writer[w]: goroutine w of processLoop
    done,        \* the done channel is closed
    ctxDone,     \* the handler's context is cancelled
    alive,       \* the process has neither exited nor crashed
    objects,     \* batches uploaded to the object store
    rows,        \* batches with a row in write_ahead_logs
    failures     \* errors so far

loopVars == <<loop, current, timer, closed>>
dbVars   == <<objects, rows, failures>>
vars     == <<call, callback, loopVars, processing, writer, done, ctxDone, alive, dbVars>>

-----------------------------------------------------------------------------
Pending  == {"sending", "waiting"}
Returned == {"ok", "error", "canceled", "lost"}

Batch == [reqs : SUBSET Requests, totalSize : Nat]

nil == [reqs |-> {}, totalSize |-> 0]

\* A writer keeps the batch it writes, the callbacks it has not yet answered
\* and the result it answers them with.
WriterState == [pc : {"unborn", "recv", "upload", "insert", "notify", "exited"},
                batch : SUBSET Requests, left : SUBSET Requests, result : {"nil", "err"}]

Receiving == [pc |-> "recv", batch |-> {}, left |-> {}, result |-> "nil"]

TypeOK ==
    /\ call \in [Requests -> {"idle"} \cup Pending \cup Returned]
    /\ callback \in [Requests -> {"empty", "nil", "err"}]
    /\ loop \in {"select", "flush", "failing", "exited"}
    /\ current \in Batch
    /\ timer \in {"nil", "armed", "fired"}
    /\ processing \in Seq(SUBSET Requests)
    /\ Len(processing) =< MaxConcurrent
    /\ closed \in BOOLEAN
    /\ writer \in [Writers -> WriterState]
    /\ done \in BOOLEAN
    /\ ctxDone \in BOOLEAN
    /\ alive \in BOOLEAN
    /\ objects \subseteq SUBSET Requests
    /\ rows \subseteq SUBSET Requests
    /\ failures \in Nat

Init ==
    /\ call = [r \in Requests |-> "idle"]
    /\ callback = [r \in Requests |-> "empty"]
    /\ loop = "select"
    /\ current = nil
    /\ timer = "nil"
    /\ processing = <<>>
    /\ closed = FALSE
    /\ writer = [w \in Writers |-> [Receiving EXCEPT !.pc = "unborn"]]
    /\ done = FALSE
    /\ ctxDone = FALSE
    /\ alive = TRUE
    /\ objects = {}
    /\ rows = {}
    /\ failures = 0

-----------------------------------------------------------------------------
(* BatchWrite, the goroutine of request r.                                  *)

\* The request is valid; the goroutine offers it on h.writes.
BatchWrite(r) ==
    /\ alive
    /\ call[r] = "idle"
    /\ call' = [call EXCEPT ![r] = "sending"]
    /\ UNCHANGED <<callback, loopVars, processing, writer, done, ctxDone, alive, dbVars>>

\* Mutant: the first select does not watch the handler's context.
NeverReject(r) == FALSE

\* The first select sees the handler's context done.
RejectOnShutdown(r) ==
    /\ call[r] = "sending"
    /\ ctxDone
    /\ call' = [call EXCEPT ![r] = "canceled"]
    /\ UNCHANGED <<callback, loopVars, processing, writer, done, ctxDone, alive, dbVars>>

\* Either select sees the client's own context done.
CancelCall(r) ==
    /\ call[r] \in Pending
    /\ call' = [call EXCEPT ![r] = "canceled"]
    /\ UNCHANGED <<callback, loopVars, processing, writer, done, ctxDone, alive, dbVars>>

\* The second select receives the result.
ReceiveResult(r) ==
    /\ call[r] = "waiting"
    /\ callback[r] # "empty"
    /\ call' = [call EXCEPT ![r] = IF callback[r] = "nil" THEN "ok" ELSE "error"]
    /\ callback' = [callback EXCEPT ![r] = "empty"]
    /\ UNCHANGED <<loopVars, processing, writer, done, ctxDone, alive, dbVars>>

-----------------------------------------------------------------------------
(* batchLoop.                                                               *)

\* Mutant: a batch that is exactly full is not flushed.
AcceptPastFull(r) ==
    LET size == current.totalSize + Size[r] IN
    /\ loop = "select"
    /\ call[r] = "sending"
    /\ call' = [call EXCEPT ![r] = "waiting"]
    /\ current' = [reqs |-> current.reqs \cup {r}, totalSize |-> size]
    /\ timer' = IF current = nil THEN "armed" ELSE timer
    /\ loop' = IF size > MaxBatchBytes THEN "flush" ELSE "select"
    /\ UNCHANGED <<callback, closed, processing, writer, done, ctxDone, alive, dbVars>>

\* wr := <-h.writes: the request joins the current batch, or a new one whose
\* timer starts.  A full batch is flushed at once.
Accept(r) ==
    LET size == current.totalSize + Size[r] IN
    /\ loop = "select"
    /\ call[r] = "sending"
    /\ call' = [call EXCEPT ![r] = "waiting"]
    /\ current' = [reqs |-> current.reqs \cup {r}, totalSize |-> size]
    /\ timer' = IF current = nil THEN "armed" ELSE timer
    /\ loop' = IF size >= MaxBatchBytes THEN "flush" ELSE "select"
    /\ UNCHANGED <<callback, closed, processing, writer, done, ctxDone, alive, dbVars>>

\* MaxBatchAge passes.
TimerFires ==
    /\ timer = "armed"
    /\ timer' = "fired"
    /\ UNCHANGED <<call, callback, loop, current, closed, processing, writer, done, ctxDone,
                   alive, dbVars>>

\* <-timer.  A batch that is not nil has records.
AgeOut ==
    /\ loop = "select"
    /\ timer = "fired"
    /\ current # nil
    /\ loop' = "flush"
    /\ UNCHANGED <<call, callback, current, timer, closed, processing, writer, done, ctxDone,
                   alive, dbVars>>

\* The channel was made with room for a batch per writer.
HasRoom == Len(processing) < MaxConcurrent

\* Mutants: the batch, or its timer, is not reset.
FlushKeepingBatch ==
    /\ loop = "flush"
    /\ HasRoom
    /\ processing' = Append(processing, current.reqs)
    /\ timer' = "nil"
    /\ loop' = "select"
    /\ UNCHANGED <<call, callback, current, closed, writer, done, ctxDone, alive, dbVars>>

FlushKeepingTimer ==
    /\ loop = "flush"
    /\ HasRoom
    /\ processing' = Append(processing, current.reqs)
    /\ current' = nil
    /\ loop' = "select"
    /\ UNCHANGED <<call, callback, timer, closed, writer, done, ctxDone, alive, dbVars>>

\* h.processing <- current blocks while the buffer is full; the select is
\* out of reach until then.
Flush ==
    /\ loop = "flush"
    /\ HasRoom
    /\ processing' = Append(processing, current.reqs)
    /\ current' = nil
    /\ timer' = "nil"
    /\ loop' = "select"
    /\ UNCHANGED <<call, callback, closed, writer, done, ctxDone, alive, dbVars>>

\* Mutant: the processing channel is left open.
StopLoopOnly ==
    /\ loop = "select"
    /\ ctxDone
    /\ loop' = IF current = nil THEN "exited" ELSE "failing"
    /\ UNCHANGED <<call, callback, current, timer, closed, processing, writer, done, ctxDone,
                   alive, dbVars>>

\* <-h.ctx.Done(): no more batches.
StopLoop ==
    /\ loop = "select"
    /\ ctxDone
    /\ closed' = TRUE
    /\ loop' = IF current = nil THEN "exited" ELSE "failing"
    /\ UNCHANGED <<call, callback, current, timer, processing, writer, done, ctxDone, alive, dbVars>>

\* cb <- context.Canceled for each pending request.  Clients wait apart from
\* each other, so the order of the answers within a batch does not matter.
FailPending(r) ==
    /\ loop = "failing"
    /\ r \in current.reqs
    /\ callback[r] = "empty"
    /\ callback' = [callback EXCEPT ![r] = "err"]
    /\ current' = [current EXCEPT !.reqs = current.reqs \ {r}]
    /\ loop' = IF current.reqs = {r} THEN "exited" ELSE "failing"
    /\ UNCHANGED <<call, timer, closed, processing, writer, done, ctxDone, alive, dbVars>>

-----------------------------------------------------------------------------
(* processLoop and its writers.                                             *)

\* processLoop starts the writers and returns: its deferred close(h.done)
\* runs when they have started, not when they have finished.
ProcessLoop ==
    /\ ~ done
    /\ writer' = [w \in Writers |-> Receiving]
    /\ done' = TRUE
    /\ UNCHANGED <<call, callback, loopVars, processing, ctxDone, alive, dbVars>>

\* for batch := range h.processing
TakeBatch(w) ==
    /\ writer[w].pc = "recv"
    /\ processing # <<>>
    /\ writer' = [writer EXCEPT ![w] = [pc |-> "upload", batch |-> Head(processing),
                                        left |-> Head(processing), result |-> "nil"]]
    /\ processing' = Tail(processing)
    /\ UNCHANGED <<call, callback, loopVars, done, ctxDone, alive, dbVars>>

ExitWriter(w) ==
    /\ writer[w].pc = "recv"
    /\ closed
    /\ processing = <<>>
    /\ writer' = [writer EXCEPT ![w].pc = "exited"]
    /\ UNCHANGED <<call, callback, loopVars, processing, done, ctxDone, alive, dbVars>>

\* An I/O call fails by itself, up to the bound, or because the handler's
\* context, which it runs under, is done.
IOFails ==
    \/ ctxDone /\ failures' = failures
    \/ failures < MaxFailures /\ failures' = failures + 1

\* Mutant: the error of the upload is not looked at.
UploadUnchecked(w) ==
    /\ writer[w].pc = "upload"
    /\ writer' = [writer EXCEPT ![w].pc = "insert"]
    /\ \/ objects' = objects \cup {writer[w].batch} /\ failures' = failures
       \/ IOFails /\ objects' = objects
    /\ UNCHANGED <<call, callback, loopVars, processing, done, ctxDone, alive, rows>>

\* h.store.Upload.  What a failed upload leaves behind, no row will name.
Upload(w) ==
    /\ writer[w].pc = "upload"
    /\ \/ /\ objects' = objects \cup {writer[w].batch}
          /\ writer' = [writer EXCEPT ![w].pc = "insert"]
          /\ failures' = failures
       \/ /\ IOFails
          /\ writer' = [writer EXCEPT ![w].pc = "notify", ![w].result = "err"]
          /\ objects' = objects
    /\ UNCHANGED <<call, callback, loopVars, processing, done, ctxDone, alive, rows>>

\* h.db.AddWriteAheadLog.  An error says nothing about the row: the INSERT
\* may have committed before the connection or the context failed.
AddWriteAheadLog(w) ==
    /\ writer[w].pc = "insert"
    /\ \/ /\ rows' = rows \cup {writer[w].batch}
          /\ writer' = [writer EXCEPT ![w].pc = "notify"]
          /\ failures' = failures
       \/ /\ IOFails
          /\ rows' \in {rows, rows \cup {writer[w].batch}}
          /\ writer' = [writer EXCEPT ![w].pc = "notify", ![w].result = "err"]
    /\ UNCHANGED <<call, callback, loopVars, processing, done, ctxDone, alive, objects>>

\* cb <- err; the channel holds one result, so a second send would block.
Notify(w, r) ==
    /\ writer[w].pc = "notify"
    /\ r \in writer[w].left
    /\ callback[r] = "empty"
    /\ callback' = [callback EXCEPT ![r] = writer[w].result]
    /\ writer' = [writer EXCEPT ![w] =
                    IF writer[w].left = {r} THEN Receiving
                    ELSE [writer[w] EXCEPT !.left = writer[w].left \ {r}]]
    /\ UNCHANGED <<call, loopVars, processing, done, ctxDone, alive, dbVars>>

-----------------------------------------------------------------------------
(* The process.                                                             *)

\* main receives a signal and cancels the context.
Shutdown ==
    /\ alive
    /\ ~ ctxDone
    /\ ctxDone' = TRUE
    /\ UNCHANGED <<call, callback, loopVars, processing, writer, done, alive, dbVars>>

\* main returns once server.Shutdown has, or the process crashes: whatever is
\* in memory is gone and the open calls break off.
Exit ==
    /\ alive
    /\ alive' = FALSE
    /\ call' = [r \in Requests |-> IF call[r] \in Pending THEN "lost" ELSE call[r]]
    /\ callback' = [r \in Requests |-> "empty"]
    /\ loop' = "exited"
    /\ current' = nil
    /\ timer' = "nil"
    /\ processing' = <<>>
    /\ closed' = TRUE
    /\ writer' = [w \in Writers |-> [Receiving EXCEPT !.pc = "exited"]]
    /\ done' = TRUE
    /\ ctxDone' = TRUE
    /\ UNCHANGED dbVars

BatchLoop ==
    \/ \E r \in Requests : Accept(r) \/ FailPending(r)
    \/ AgeOut
    \/ Flush
    \/ StopLoop

Writer(w) ==
    \/ TakeBatch(w)
    \/ ExitWriter(w)
    \/ Upload(w)
    \/ AddWriteAheadLog(w)
    \/ \E r \in Requests : Notify(w, r)

Next ==
    \/ \E r \in Requests :
         BatchWrite(r) \/ RejectOnShutdown(r) \/ CancelCall(r) \/ ReceiveResult(r)
    \/ BatchLoop
    \/ TimerFires
    \/ ProcessLoop
    \/ \E w \in Writers : Writer(w)
    \/ Shutdown
    \/ Exit

Spec == Init /\ [][Next]_vars

(***************************************************************************)
(* Fairness.  Goroutines that can run do, the timer fires, and calls of    *)
(* the object store and of the database return.  Nothing makes clients     *)
(* call or give up, or the process shut down or exit.                      *)
(***************************************************************************)
Fairness ==
    /\ \A r \in Requests : WF_vars(RejectOnShutdown(r) \/ ReceiveResult(r))
    /\ WF_vars(BatchLoop)
    /\ WF_vars(TimerFires)
    /\ WF_vars(ProcessLoop)
    /\ \A w \in Writers : WF_vars(Writer(w))

FairSpec == Spec /\ Fairness

-----------------------------------------------------------------------------
(* Properties.                                                              *)

\* A client is told its writes succeeded only when they are durable: a row of
\* write_ahead_logs names an uploaded object that holds them.  Errors,
\* cancellations, a shutdown or a crash at any moment do not change that.
AckedIsDurable ==
    \A r \in Requests :
      call[r] = "ok" => \E b \in rows \cap objects : r \in b

\* The places that owe request r an answer.
Owed(r) ==
    {<<"current", 0>> : x \in {r} \cap current.reqs}
      \cup {<<"processing", i>> : i \in {j \in DOMAIN processing : r \in processing[j]}}
      \cup {<<"writer", w>> : w \in {v \in Writers : r \in writer[v].left}}

\* Every accepted request is owed exactly one answer or has it: no batch is
\* dropped or answered twice on its way through the channels, so that no
\* client waits for an answer that will not come, and a send on a callback,
\* which holds one result, never blocks batchLoop or a writer.
OneAnswer ==
    \A r \in Requests :
      /\ Cardinality(Owed(r)) =< 1
      /\ Owed(r) # {} => /\ callback[r] = "empty"
                         /\ call[r] \in {"waiting", "canceled", "lost"}
      /\ call[r] = "waiting" => Owed(r) # {} \/ callback[r] # "empty"

\* A batch batchLoop holds on to has a timer that will flush it, and no timer
\* outlives its batch.
TimerGuardsBatch == loop = "select" => (current # nil <=> timer # "nil")

\* The batches that have left batchLoop and are not yet answered.
Flushed == (ToSet(processing) \cup {writer[w].batch : w \in Writers}) \ {{}}

\* MaxBatchBytes is when to flush, not a bound: whatever is flushed for its
\* size or for its age, a batch exceeds the limit by its last request alone,
\* so that without some one request it would not have been full.
OverfilledByOne ==
    \A b \in Flushed : \E r \in b : SumFunctionOnSet(Size, b \ {r}) < MaxBatchBytes

\* Every call returns, also when the processing channel is full, when I/O
\* fails, and when the batcher shuts down with batches in its channels.
EveryCallReturns == \A r \in Requests : call[r] \in Pending ~> call[r] \in Returned

\* After a shutdown the loop and the writers run off the channels and exit.
DrainsOnShutdown ==
    ctxDone ~> loop = "exited" /\ \A w \in Writers : writer[w].pc = "exited"

\* A shutdown that waits for the done channel waits for processing to
\* complete: no batch is left in the channel or with a writer.
DoneIsProcessed ==
    ctxDone /\ done => processing = <<>> /\ \A w \in Writers : writer[w].left = {}

=============================================================================
