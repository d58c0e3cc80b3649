----------------------------- MODULE BatcherProofs -----------------------------
(***************************************************************************)
(* Proofs about Batcher, for any requests of any sizes, any number of      *)
(* writers, any limits and any failures, and about the process it lives    *)
(* in, Server, which inherits what holds of a batcher.                     *)
(***************************************************************************)
EXTENDS Server, ListsAndSums

(***************************************************************************)
(* The inductive invariant.  A request is in one place at a time: offered, *)
(* in the current batch, in a batch of the processing channel, or with a   *)
(* writer.  AckedIsDurable and OneAnswer say nothing of what a writer      *)
(* holds in memory, which decides the answers it will give.                *)
(***************************************************************************)

\* Request r is in a place that will answer it.
Awaited(r) ==
    \/ r \in current.reqs
    \/ \E i \in DOMAIN processing : r \in processing[i]
    \/ \E w \in Writers : r \in writer[w].left

\* No two places hold the same request.
OnePlaceInv ==
    \A r \in Requests :
      /\ \A i, j \in DOMAIN processing : r \in processing[i] /\ r \in processing[j] => i = j
      /\ \A v, w \in Writers : r \in writer[v].left /\ r \in writer[w].left => v = w
      /\ r \in current.reqs => /\ \A i \in DOMAIN processing : r \notin processing[i]
                               /\ \A w \in Writers : r \notin writer[w].left
      /\ \A i \in DOMAIN processing, w \in Writers :
           r \in processing[i] => r \notin writer[w].left

\* A request that is to be answered was accepted and has no answer yet; one
\* that waits is to be answered or has its answer; none has one before.
AnswersInv ==
    \A r \in Requests :
      /\ Awaited(r) => callback[r] = "empty" /\ call[r] \in {"waiting", "canceled", "lost"}
      /\ call[r] = "waiting" => Awaited(r) \/ callback[r] # "empty"
      /\ call[r] \in {"idle", "sending"} => callback[r] = "empty"

\* A writer without a batch owes nothing; processLoop starts each once.
WritersInv ==
    /\ \A w \in Writers : writer[w].pc \in {"unborn", "recv", "exited"} => writer[w].left = {}
    /\ ~ done => \A w \in Writers : writer[w].pc = "unborn"

\* Requests r is in a batch that is durable.
Stored(r) == \E b \in rows \cap objects : r \in b

\* A writer inserts a row for an uploaded object, and announces success for
\* the requests of a durable batch; a success on its way was one.
DurableInv ==
    /\ \A w \in Writers :
         /\ writer[w].left \subseteq writer[w].batch
         /\ writer[w].pc = "insert" => writer[w].batch \in objects
         /\ writer[w].pc = "notify" /\ writer[w].result = "nil"
              => writer[w].batch \in rows \cap objects
    /\ \A r \in Requests : callback[r] = "nil" \/ call[r] = "ok" => Stored(r)

BatcherInv == /\ TypeOK
              /\ TimerGuardsBatch
              /\ OnePlaceInv
              /\ AnswersInv
              /\ WritersInv
              /\ DurableInv

-----------------------------------------------------------------------------
(* Each action preserves the inductive invariant.                           *)

\* BatchWrite preserves the invariant.
LEMMA BatchWriteStep ==
    ASSUME BatcherInv, NEW r \in Requests, BatchWrite(r)
    PROVE  BatcherInv'
<1> USE DEF BatcherInv, BatchWrite, loopVars, dbVars
<1>1. TypeOK' /\ TimerGuardsBatch'
  BY DEF TypeOK, TimerGuardsBatch, Pending, Returned, Batch
<1>2. OnePlaceInv' /\ WritersInv'
  BY DEF OnePlaceInv, WritersInv
<1>3. AnswersInv'
  BY DEF AnswersInv, Awaited, TypeOK
<1>4. DurableInv'
  BY DEF DurableInv, Stored, TypeOK
<1>5. QED
  BY <1>1, <1>2, <1>3, <1>4

\* RejectOnShutdown and CancelCall preserve the invariant.
LEMMA CancelStep ==
    ASSUME BatcherInv, NEW r \in Requests, RejectOnShutdown(r) \/ CancelCall(r)
    PROVE  BatcherInv'
<1> USE DEF BatcherInv, RejectOnShutdown, CancelCall, loopVars, dbVars, Pending
<1>1. TypeOK' /\ TimerGuardsBatch'
  BY DEF TypeOK, TimerGuardsBatch, Returned, Batch
<1>2. OnePlaceInv' /\ WritersInv'
  BY DEF OnePlaceInv, WritersInv
<1>3. AnswersInv'
  BY DEF AnswersInv, Awaited, TypeOK
<1>4. DurableInv'
  BY DEF DurableInv, Stored, TypeOK
<1>5. QED
  BY <1>1, <1>2, <1>3, <1>4

\* ReceiveResult preserves the invariant.
LEMMA ReceiveResultStep ==
    ASSUME BatcherInv, NEW r \in Requests, ReceiveResult(r)
    PROVE  BatcherInv'
<1> USE DEF BatcherInv, ReceiveResult, loopVars, dbVars
<1>1. TypeOK' /\ TimerGuardsBatch'
  BY DEF TypeOK, TimerGuardsBatch, Pending, Returned, Batch
<1>2. OnePlaceInv' /\ WritersInv'
  BY DEF OnePlaceInv, WritersInv
<1>3. AnswersInv'
  BY DEF AnswersInv, Awaited, TypeOK
<1>4. DurableInv'
  BY DEF DurableInv, Stored, TypeOK
<1>5. QED
  BY <1>1, <1>2, <1>3, <1>4

\* Accept preserves the invariant: the request was in no place before.
LEMMA AcceptStep ==
    ASSUME BatcherInv, NEW r \in Requests, Accept(r)
    PROVE  BatcherInv'
<1> USE BatcherAssumption DEF BatcherInv, Accept, loopVars, dbVars
<1>1. TypeOK'
  <2>1. current.reqs \in SUBSET Requests /\ current.totalSize \in Nat /\ Size[r] \in Nat
    BY DEF TypeOK, Batch
  <2>2. current' \in Batch
    BY <2>1 DEF Batch
  <2>3. QED
    BY <2>2 DEF TypeOK, Pending
<1>2. TimerGuardsBatch'
  BY DEF TypeOK, TimerGuardsBatch, Batch, nil
<1>3. ~ Awaited(r) /\ callback[r] = "empty"
  BY DEF AnswersInv
<1>4. OnePlaceInv'
  BY <1>3 DEF OnePlaceInv, Awaited, TypeOK, Batch
<1>5. AnswersInv'
  BY <1>3 DEF AnswersInv, Awaited, TypeOK, Batch
<1>6. WritersInv' /\ DurableInv'
  BY DEF WritersInv, DurableInv, Stored, TypeOK
<1>7. QED
  BY <1>1, <1>2, <1>4, <1>5, <1>6

\* TimerFires and AgeOut preserve the invariant.
LEMMA AgeStep ==
    ASSUME BatcherInv, TimerFires \/ AgeOut
    PROVE  BatcherInv'
<1> USE DEF BatcherInv, TimerFires, AgeOut, loopVars, dbVars
<1>1. TypeOK' /\ TimerGuardsBatch'
  BY DEF TypeOK, TimerGuardsBatch, Batch
<1>2. OnePlaceInv' /\ AnswersInv'
  BY DEF OnePlaceInv, AnswersInv, Awaited
<1>3. WritersInv' /\ DurableInv'
  BY DEF WritersInv, DurableInv, Stored
<1>4. QED
  BY <1>1, <1>2, <1>3

\* Flush preserves the invariant: it moves the batch as a whole.
LEMMA FlushStep ==
    ASSUME BatcherInv, Flush
    PROVE  BatcherInv'
<1> USE BatcherAssumption DEF BatcherInv, Flush, loopVars, dbVars
<1> DEFINE n == Len(processing)
<1>1. /\ processing \in Seq(SUBSET Requests) /\ current.reqs \in SUBSET Requests
      /\ n \in Nat
  BY DEF TypeOK, Batch
<1>2. /\ processing' \in Seq(SUBSET Requests)
      /\ DOMAIN processing' = 1..n + 1
      /\ DOMAIN processing = 1..n
      /\ \A i \in 1..n : processing'[i] = processing[i]
      /\ processing'[n + 1] = current.reqs
  BY <1>1
<1> HIDE DEF n
<1>3. current'.reqs = {}
  BY DEF nil
<1>4. TypeOK' /\ TimerGuardsBatch'
  BY <1>2 DEF TypeOK, TimerGuardsBatch, Batch, nil, HasRoom
<1>5. OnePlaceInv'
  BY <1>1, <1>2, <1>3 DEF OnePlaceInv
<1>6. \A r \in Requests : Awaited(r)' <=> Awaited(r)
  BY <1>1, <1>2, <1>3 DEF Awaited
<1>7. AnswersInv'
  BY <1>6 DEF AnswersInv
<1>8. WritersInv' /\ DurableInv'
  BY DEF WritersInv, DurableInv, Stored
<1>9. QED
  BY <1>4, <1>5, <1>7, <1>8

\* StopLoop preserves the invariant.
LEMMA StopLoopStep ==
    ASSUME BatcherInv, StopLoop
    PROVE  BatcherInv'
<1> USE DEF BatcherInv, StopLoop, loopVars, dbVars
<1>1. TypeOK' /\ TimerGuardsBatch'
  BY DEF TypeOK, TimerGuardsBatch, Batch
<1>2. OnePlaceInv' /\ AnswersInv'
  BY DEF OnePlaceInv, AnswersInv, Awaited
<1>3. WritersInv' /\ DurableInv'
  BY DEF WritersInv, DurableInv, Stored
<1>4. QED
  BY <1>1, <1>2, <1>3

\* FailPending preserves the invariant: the request leaves the batch with its
\* answer.
LEMMA FailPendingStep ==
    ASSUME BatcherInv, NEW r \in Requests, FailPending(r)
    PROVE  BatcherInv'
<1> USE DEF BatcherInv, FailPending, loopVars, dbVars
<1>1. TypeOK'
  BY DEF TypeOK, Batch
<1>2. TimerGuardsBatch'
  BY DEF TimerGuardsBatch
<1>3. OnePlaceInv'
  BY DEF OnePlaceInv, TypeOK, Batch
<1>4. AnswersInv'
  BY DEF AnswersInv, OnePlaceInv, Awaited, TypeOK, Batch
<1>5. WritersInv' /\ DurableInv'
  BY DEF WritersInv, DurableInv, Stored, TypeOK
<1>6. QED
  BY <1>1, <1>2, <1>3, <1>4, <1>5

\* ProcessLoop preserves the invariant: the writers have done nothing yet.
LEMMA ProcessLoopStep ==
    ASSUME BatcherInv, ProcessLoop
    PROVE  BatcherInv'
<1> USE DEF BatcherInv, ProcessLoop, Receiving, loopVars, dbVars
<1>1. TypeOK' /\ TimerGuardsBatch'
  BY DEF TypeOK, TimerGuardsBatch, Batch, WriterState
<1>2. \A w \in Writers : writer[w].left = {} /\ writer'[w].left = {}
  BY DEF WritersInv
<1>3. OnePlaceInv' /\ AnswersInv'
  BY <1>2 DEF OnePlaceInv, AnswersInv, Awaited
<1>4. WritersInv' /\ DurableInv'
  BY DEF WritersInv, DurableInv, Stored
<1>5. QED
  BY <1>1, <1>3, <1>4

\* TakeBatch preserves the invariant: it moves the batch as a whole.
LEMMA TakeBatchStep ==
    ASSUME BatcherInv, NEW w \in Writers, TakeBatch(w)
    PROVE  BatcherInv'
<1> USE DEF BatcherInv, TakeBatch, loopVars, dbVars
<1> DEFINE n == Len(processing)
<1>1. processing \in Seq(SUBSET Requests) /\ n \in Nat \ {0}
  BY DEF TypeOK
<1>2. /\ processing' \in Seq(SUBSET Requests)
      /\ Len(processing') = n - 1
      /\ DOMAIN processing' = 1..n - 1
      /\ DOMAIN processing = 1..n
      /\ \A i \in 1..n - 1 : processing'[i] = processing[i + 1]
      /\ processing[1] = Head(processing) /\ Head(processing) \in SUBSET Requests
  BY <1>1
<1> HIDE DEF n
<1>3. /\ writer[w].left = {}
      /\ writer'[w] = [pc |-> "upload", batch |-> processing[1], left |-> processing[1],
                       result |-> "nil"]
      /\ \A v \in Writers \ {w} : writer'[v] = writer[v]
  BY <1>2 DEF WritersInv, TypeOK
<1>4. TypeOK' /\ TimerGuardsBatch'
  BY <1>1, <1>2, BatcherAssumption DEF TypeOK, TimerGuardsBatch, WriterState
<1>5. OnePlaceInv'
  <2> SUFFICES ASSUME NEW r \in Requests
               PROVE  /\ \A i, j \in 1..n - 1 : r \in processing[i + 1] /\ r \in processing[j + 1]
                                                  => i = j
                      /\ \A u, v \in Writers : r \in writer'[u].left /\ r \in writer'[v].left => u = v
                      /\ r \in current.reqs => /\ \A i \in 1..n - 1 : r \notin processing[i + 1]
                                               /\ \A v \in Writers : r \notin writer'[v].left
                      /\ \A i \in 1..n - 1, v \in Writers :
                           r \in processing[i + 1] => r \notin writer'[v].left
    BY <1>2 DEF OnePlaceInv
  <2>1. /\ 1 \in DOMAIN processing
        /\ \A i \in 1..n - 1 : i + 1 \in DOMAIN processing /\ i + 1 # 1
        /\ \A i, j \in 1..n - 1 : i + 1 = j + 1 => i = j
    BY <1>1, <1>2
  <2>2. QED
    BY <2>1, <1>3 DEF OnePlaceInv
<1>6. \A r \in Requests : Awaited(r)' <=> Awaited(r)
  <2> TAKE r \in Requests
  <2>1. ASSUME NEW i \in 1..n PROVE i = 1 \/ (i - 1 \in 1..n - 1 /\ i = (i - 1) + 1)
    BY <1>1
  <2>2. (\E i \in DOMAIN processing : r \in processing[i])
          <=> r \in processing[1] \/ \E i \in DOMAIN processing' : r \in processing'[i]
    <3>1. ASSUME NEW i \in 1..n, r \in processing[i]
          PROVE  r \in processing[1] \/ \E k \in 1..n - 1 : r \in processing'[k]
      BY <1>2, <2>1, <3>1
    <3>2. ASSUME NEW k \in 1..n - 1, r \in processing'[k]
          PROVE  \E i \in 1..n : r \in processing[i]
      BY <1>1, <1>2, <3>2
    <3>3. 1 \in 1..n
      BY <1>1
    <3>4. QED
      BY <1>2, <3>1, <3>2, <3>3
  <2>3. (\E v \in Writers : r \in writer'[v].left)
          <=> r \in processing[1] \/ \E v \in Writers : r \in writer[v].left
    BY <1>3
  <2>4. QED
    BY <2>2, <2>3 DEF Awaited
<1>7. AnswersInv'
  BY <1>6 DEF AnswersInv
<1>8. WritersInv' /\ DurableInv'
  BY <1>3 DEF WritersInv, DurableInv, Stored
<1>9. QED
  BY <1>4, <1>5, <1>7, <1>8

\* ExitWriter preserves the invariant.
LEMMA ExitWriterStep ==
    ASSUME BatcherInv, NEW w \in Writers, ExitWriter(w)
    PROVE  BatcherInv'
<1> USE DEF BatcherInv, ExitWriter, loopVars, dbVars
<1>1. /\ writer'[w] = [writer[w] EXCEPT !.pc = "exited"]
      /\ writer'[w] \in WriterState
      /\ \A v \in Writers \ {w} : writer'[v] = writer[v]
      /\ \A v \in Writers : writer'[v].left = writer[v].left /\ writer'[v].batch = writer[v].batch
  BY DEF TypeOK, WriterState
<1>2. TypeOK' /\ TimerGuardsBatch'
  BY <1>1 DEF TypeOK, TimerGuardsBatch
<1>3. OnePlaceInv' /\ AnswersInv'
  BY <1>1 DEF OnePlaceInv, AnswersInv, Awaited
<1>4. WritersInv' /\ DurableInv'
  BY <1>1 DEF WritersInv, DurableInv, Stored, TypeOK, WriterState
<1>5. QED
  BY <1>2, <1>3, <1>4

\* Upload preserves the invariant.
LEMMA UploadStep ==
    ASSUME BatcherInv, NEW w \in Writers, Upload(w)
    PROVE  BatcherInv'
<1> USE DEF BatcherInv, Upload, IOFails, loopVars
<1>1. /\ \A v \in Writers \ {w} : writer'[v] = writer[v]
      /\ writer'[w] \in WriterState
      /\ \A v \in Writers : writer'[v].left = writer[v].left /\ writer'[v].batch = writer[v].batch
      /\ \/ writer'[w].pc = "insert" /\ writer[w].batch \in objects'
         \/ writer'[w].pc = "notify" /\ writer'[w].result = "err"
  <2>1. CASE writer' = [writer EXCEPT ![w].pc = "insert"] /\ objects' = objects \cup {writer[w].batch}
    BY <2>1 DEF TypeOK, WriterState
  <2>2. CASE writer' = [writer EXCEPT ![w].pc = "notify", ![w].result = "err"]
    BY <2>2 DEF TypeOK, WriterState
  <2>3. QED
    BY <2>1, <2>2
<1>2. objects \subseteq objects' /\ objects' \subseteq SUBSET Requests /\ failures' \in Nat
  BY DEF TypeOK, WriterState
<1>3. TypeOK' /\ TimerGuardsBatch'
  BY <1>1, <1>2 DEF TypeOK, TimerGuardsBatch
<1>4. OnePlaceInv' /\ AnswersInv'
  BY <1>1 DEF OnePlaceInv, AnswersInv, Awaited
<1>5. WritersInv'
  BY <1>1 DEF WritersInv
<1>6. DurableInv'
  BY <1>1, <1>2 DEF DurableInv, Stored
<1>7. QED
  BY <1>3, <1>4, <1>5, <1>6

\* AddWriteAheadLog preserves the invariant.
LEMMA AddWriteAheadLogStep ==
    ASSUME BatcherInv, NEW w \in Writers, AddWriteAheadLog(w)
    PROVE  BatcherInv'
<1> USE DEF BatcherInv, AddWriteAheadLog, IOFails, loopVars
<1>1. /\ \A v \in Writers \ {w} : writer'[v] = writer[v]
      /\ writer'[w] \in WriterState /\ writer'[w].pc = "notify"
      /\ \A v \in Writers : writer'[v].left = writer[v].left /\ writer'[v].batch = writer[v].batch
      /\ writer[w].batch \in rows' \/ writer'[w].result = "err"
  <2>1. CASE writer' = [writer EXCEPT ![w].pc = "notify"] /\ rows' = rows \cup {writer[w].batch}
    BY <2>1 DEF TypeOK, WriterState
  <2>2. CASE writer' = [writer EXCEPT ![w].pc = "notify", ![w].result = "err"]
    BY <2>2 DEF TypeOK, WriterState
  <2>3. QED
    BY <2>1, <2>2
<1>2. rows \subseteq rows' /\ rows' \subseteq SUBSET Requests /\ failures' \in Nat
  BY DEF TypeOK, WriterState
<1>3. TypeOK' /\ TimerGuardsBatch'
  BY <1>1, <1>2 DEF TypeOK, TimerGuardsBatch
<1>4. OnePlaceInv' /\ AnswersInv'
  BY <1>1 DEF OnePlaceInv, AnswersInv, Awaited
<1>5. WritersInv'
  BY <1>1 DEF WritersInv
<1>6. DurableInv'
  BY <1>1, <1>2 DEF DurableInv, Stored
<1>7. QED
  BY <1>3, <1>4, <1>5, <1>6

\* Notify preserves the invariant: the request leaves the writer with its
\* answer, which is a success only if the batch is durable.
LEMMA NotifyStep ==
    ASSUME BatcherInv, NEW w \in Writers, NEW r \in Requests, Notify(w, r)
    PROVE  BatcherInv'
<1> USE DEF BatcherInv, Notify, loopVars, dbVars
<1>1. /\ \A v \in Writers \ {w} : writer'[v] = writer[v]
      /\ writer'[w] \in WriterState
      /\ writer'[w].left = writer[w].left \ {r}
      /\ \/ writer'[w] = Receiving
         \/ /\ writer'[w].batch = writer[w].batch /\ writer'[w].pc = writer[w].pc
            /\ writer'[w].result = writer[w].result
  BY DEF TypeOK, WriterState, Receiving
<1>2. TypeOK' /\ TimerGuardsBatch'
  BY <1>1 DEF TypeOK, TimerGuardsBatch, WriterState
<1>3. OnePlaceInv'
  BY <1>1 DEF OnePlaceInv
<1>4. AnswersInv'
  <2>1. ~ Awaited(r)'
    BY <1>1 DEF OnePlaceInv, Awaited
  <2>2. \A q \in Requests \ {r} : (Awaited(q)' <=> Awaited(q)) /\ callback'[q] = callback[q]
    BY <1>1 DEF Awaited, TypeOK
  <2>3. callback'[r] # "empty" /\ call[r] \notin {"idle", "sending"}
    BY DEF AnswersInv, Awaited, TypeOK, WriterState
  <2>4. QED
    BY <2>1, <2>2, <2>3 DEF AnswersInv
<1>5. WritersInv'
  BY <1>1 DEF WritersInv, Receiving
<1>6. DurableInv'
  BY <1>1 DEF DurableInv, Stored, Receiving, TypeOK
<1>7. QED
  BY <1>2, <1>3, <1>4, <1>5, <1>6

\* Shutdown preserves the invariant.
LEMMA ShutdownStep ==
    ASSUME BatcherInv, Shutdown
    PROVE  BatcherInv'
BY DEF BatcherInv, Shutdown, loopVars, dbVars, TypeOK, TimerGuardsBatch, OnePlaceInv, AnswersInv,
       Awaited, WritersInv, DurableInv, Stored

\* Exit preserves the invariant: nobody is owed an answer any more.
LEMMA ExitStep ==
    ASSUME BatcherInv, Exit
    PROVE  BatcherInv'
<1> USE DEF BatcherInv, Exit, dbVars
<1>1. /\ current'.reqs = {} /\ DOMAIN processing' = {}
      /\ \A w \in Writers : /\ writer'[w].pc = "exited"
                             /\ writer'[w].left = {} /\ writer'[w].batch = {}
  BY DEF nil, Receiving
<1>2. TypeOK' /\ TimerGuardsBatch'
  <2>1. call' \in [Requests -> {"idle"} \cup Pending \cup Returned]
    BY DEF TypeOK, Pending, Returned
  <2>2. writer' \in [Writers -> WriterState] /\ current' \in Batch
    BY DEF WriterState, Receiving, Batch, nil
  <2>3. processing' \in Seq(SUBSET Requests) /\ Len(processing') =< MaxConcurrent
    BY BatcherAssumption
  <2>4. QED
    BY <2>1, <2>2, <2>3 DEF TypeOK, TimerGuardsBatch
<1>3. OnePlaceInv' /\ WritersInv'
  BY <1>1 DEF OnePlaceInv, WritersInv
<1>4. AnswersInv'
  BY <1>1 DEF AnswersInv, Awaited, Pending, TypeOK
<1>5. DurableInv'
  BY <1>1 DEF DurableInv, Stored, TypeOK
<1>6. QED
  BY <1>2, <1>3, <1>4, <1>5

-----------------------------------------------------------------------------
(* The invariants.                                                          *)

\* The initial states satisfy the invariant.
LEMMA InitBatcherInv == Init => BatcherInv
<1> SUFFICES ASSUME Init PROVE BatcherInv
  OBVIOUS
<1>1. TypeOK /\ TimerGuardsBatch
  <2>1. writer \in [Writers -> WriterState] /\ current \in Batch
    BY DEF Init, WriterState, Receiving, Batch, nil
  <2>2. processing \in Seq(SUBSET Requests) /\ Len(processing) =< MaxConcurrent
    BY BatcherAssumption DEF Init
  <2>3. QED
    BY <2>1, <2>2 DEF Init, TypeOK, TimerGuardsBatch
<1>2. /\ current.reqs = {} /\ DOMAIN processing = {}
      /\ \A w \in Writers : writer[w].left = {} /\ writer[w].pc = "unborn"
  BY DEF Init, nil, Receiving
<1>3. OnePlaceInv /\ AnswersInv /\ WritersInv
  BY <1>2 DEF Init, OnePlaceInv, AnswersInv, Awaited, WritersInv
<1>4. DurableInv
  BY <1>2 DEF Init, DurableInv, Stored
<1>5. QED
  BY <1>1, <1>3, <1>4 DEF BatcherInv

\* Every step preserves the invariant.
LEMMA NextBatcherInv == BatcherInv /\ [Next]_vars => BatcherInv'
<1> SUFFICES ASSUME BatcherInv, [Next]_vars PROVE BatcherInv'
  OBVIOUS
<1>1. CASE \E r \in Requests :
             BatchWrite(r) \/ RejectOnShutdown(r) \/ CancelCall(r) \/ ReceiveResult(r)
  BY <1>1, BatchWriteStep, CancelStep, ReceiveResultStep
<1>2. CASE BatchLoop
  BY <1>2, AcceptStep, FailPendingStep, AgeStep, FlushStep, StopLoopStep DEF BatchLoop
<1>3. CASE TimerFires \/ ProcessLoop
  BY <1>3, AgeStep, ProcessLoopStep
<1>4. CASE \E w \in Writers : Writer(w)
  BY <1>4, TakeBatchStep, ExitWriterStep, UploadStep, AddWriteAheadLogStep, NotifyStep DEF Writer
<1>5. CASE Shutdown \/ Exit
  BY <1>5, ShutdownStep, ExitStep
<1>6. CASE UNCHANGED vars
  BY <1>6 DEF vars, loopVars, dbVars, BatcherInv, TypeOK, TimerGuardsBatch, OnePlaceInv, AnswersInv,
       Awaited, WritersInv, DurableInv, Stored
<1>7. QED
  BY <1>1, <1>2, <1>3, <1>4, <1>5, <1>6 DEF Next

\* The inductive invariant holds in every reachable state.
THEOREM BatcherInvariance == Spec => []BatcherInv
BY InitBatcherInv, NextBatcherInv, PTL DEF Spec

\* Type correctness of the goroutines and channels: the processing channel
\* never holds more batches than it has room for.
THEOREM BatcherTypeCorrect == Spec => []TypeOK
<1>1. BatcherInv => TypeOK
  BY DEF BatcherInv
<1>2. QED
  BY BatcherInvariance, <1>1, PTL

\* A client that was told its writes succeeded finds them in a durable batch.
THEOREM Acknowledgement == Spec => []AckedIsDurable
<1>1. BatcherInv => AckedIsDurable
  BY DEF BatcherInv, DurableInv, Stored, AckedIsDurable
<1>2. QED
  BY BatcherInvariance, <1>1, PTL

\* The batch that batchLoop waits with has a timer, and no other has.
THEOREM TimerOfBatch == Spec => []TimerGuardsBatch
<1>1. BatcherInv => TimerGuardsBatch
  BY DEF BatcherInv
<1>2. QED
  BY BatcherInvariance, <1>1, PTL

\* A set any two members of which are the same has one member at most.
LEMMA AtMostOne ==
    ASSUME NEW S, \A x, y \in S : x = y
    PROVE  Cardinality(S) \in Nat /\ Cardinality(S) =< 1
<1>1. CASE S = {}
  BY <1>1, FS_EmptySet
<1>2. CASE S # {}
  <2>1. PICK x : S = {x}
    BY <1>2
  <2>2. QED
    BY <2>1, FS_Singleton
<1>3. QED
  BY <1>1, <1>2

\* Each accepted request is in one place that will answer it, or has its one
\* answer.
THEOREM AnsweredOnce == Spec => []OneAnswer
<1>1. BatcherInv => OneAnswer
  <2> SUFFICES ASSUME BatcherInv, NEW r \in Requests
               PROVE  /\ Cardinality(Owed(r)) =< 1
                      /\ Owed(r) # {} => /\ callback[r] = "empty"
                                         /\ call[r] \in {"waiting", "canceled", "lost"}
                      /\ call[r] = "waiting" => Owed(r) # {} \/ callback[r] # "empty"
    BY DEF OneAnswer
  <2>1. \A p : p \in Owed(r) <=>
          \/ p = <<"current", 0>> /\ r \in current.reqs
          \/ \E i \in DOMAIN processing : p = <<"processing", i>> /\ r \in processing[i]
          \/ \E w \in Writers : p = <<"writer", w>> /\ r \in writer[w].left
    BY DEF Owed
  <2>2. \A p, q \in Owed(r) : p = q
    BY <2>1 DEF BatcherInv, OnePlaceInv
  <2>3. Owed(r) # {} <=> Awaited(r)
    BY <2>1 DEF Awaited
  <2>4. Cardinality(Owed(r)) =< 1
    BY <2>2, AtMostOne
  <2>5. QED
    BY <2>3, <2>4 DEF BatcherInv, AnswersInv
<1>2. QED
  BY BatcherInvariance, <1>1, PTL

-----------------------------------------------------------------------------
(* The size of a batch.                                                     *)

\* The batch is empty without some one request, or below the limit.
FullByOne(b) == \E r \in b : SumFunctionOnSet(Size, b \ {r}) < MaxBatchBytes

(***************************************************************************)
(* batchLoop decides by totalSize, so OverfilledByOne takes an invariant   *)
(* of its own: the count is the size of the requests in the batch for as   *)
(* long as the loop gathers it, and below the limit while it waits.        *)
(***************************************************************************)
LimitInv ==
    /\ loop \in {"select", "flush"} => /\ IsFiniteSet(current.reqs)
                                       /\ current.totalSize = SumFunctionOnSet(Size, current.reqs)
    /\ loop = "select" => current.totalSize < MaxBatchBytes
    /\ loop = "flush" => FullByOne(current.reqs)
    /\ \A i \in DOMAIN processing : FullByOne(processing[i])
    /\ \A w \in Writers : writer[w].batch = {} \/ FullByOne(writer[w].batch)

\* Requests have sizes.
LEMMA Sizes == \A b \in SUBSET Requests : \A r \in b : Size[r] \in Nat
BY BatcherAssumption

\* Accept preserves the invariant: without the request that fills it, the
\* batch is the one the loop was waiting with.
LEMMA AcceptLimit ==
    ASSUME BatcherInv, LimitInv, NEW r \in Requests, Accept(r)
    PROVE  LimitInv'
<1> DEFINE reqs == current.reqs
<1>1. /\ reqs \subseteq Requests /\ r \notin reqs
      /\ IsFiniteSet(reqs) /\ current.totalSize = SumFunctionOnSet(Size, reqs)
      /\ current.totalSize < MaxBatchBytes /\ current.totalSize \in Nat
  BY DEF BatcherInv, AnswersInv, Awaited, TypeOK, Batch, LimitInv, Accept
<1>2. /\ current'.reqs = reqs \cup {r} /\ current'.totalSize = current.totalSize + Size[r]
      /\ loop' = "flush" \/ (loop' = "select" /\ ~ (current'.totalSize >= MaxBatchBytes))
      /\ UNCHANGED <<processing, writer>>
  BY DEF Accept
<1>3. Size[r] \in Nat /\ MaxBatchBytes \in Nat
  BY BatcherAssumption
<1> HIDE DEF reqs
<1>4. (reqs \cup {r}) \ {r} = reqs
  BY <1>1
<1>5. IsFiniteSet(reqs \cup {r})
  BY <1>1, FS_AddElement
<1>6. SumFunctionOnSet(Size, reqs \cup {r}) = SumFunctionOnSet(Size, reqs) + Size[r]
  BY <1>1, <1>3, Sizes, SumWith
<1>7. FullByOne(current'.reqs)
  BY <1>1, <1>2, <1>4 DEF FullByOne
<1>8. loop' = "select" => current'.totalSize < MaxBatchBytes
  BY <1>1, <1>2, <1>3
<1>9. QED
  BY <1>1, <1>2, <1>5, <1>6, <1>7, <1>8 DEF LimitInv, FullByOne

\* AgeOut preserves the invariant: the batch is below the limit with all its
\* requests, and it has some.
LEMMA AgeOutLimit ==
    ASSUME BatcherInv, LimitInv, AgeOut
    PROVE  LimitInv'
<1> DEFINE reqs == current.reqs
<1>1. /\ reqs \subseteq Requests /\ IsFiniteSet(reqs) /\ current \in Batch
      /\ current.totalSize = SumFunctionOnSet(Size, reqs)
      /\ SumFunctionOnSet(Size, reqs) < MaxBatchBytes /\ current # nil
  BY DEF BatcherInv, TypeOK, Batch, LimitInv, AgeOut
<1>2. /\ loop' = "flush" /\ UNCHANGED <<current, processing, writer>>
  BY DEF AgeOut
<1>3. reqs # {}
  BY <1>1, SumOfNone DEF Batch, nil
<1> HIDE DEF reqs
<1>4. PICK r : r \in reqs
  BY <1>3
<1>5. /\ SumFunctionOnSet(Size, reqs \ {r}) =< SumFunctionOnSet(Size, reqs)
      /\ SumFunctionOnSet(Size, reqs) \in Nat
      /\ SumFunctionOnSet(Size, reqs \ {r}) \in Nat
  <2>1. IsFiniteSet(reqs) /\ \A q \in reqs : Size[q] \in Nat
    BY <1>1, Sizes
  <2>2. IsFiniteSet(reqs \ {r}) /\ \A q \in reqs \ {r} : Size[q] \in Nat
    BY <2>1, FS_Subset
  <2>3. QED
    BY <2>1, <2>2, SumGrows, SumIsNat
<1>6. SumFunctionOnSet(Size, reqs \ {r}) < MaxBatchBytes
  BY <1>1, <1>5, BatcherAssumption
<1>7. FullByOne(reqs)
  BY <1>4, <1>6 DEF FullByOne
<1>8. QED
  BY <1>1, <1>2, <1>7 DEF LimitInv, FullByOne, reqs

\* Flush preserves the invariant: the next batch starts at nothing.
LEMMA FlushLimit ==
    ASSUME BatcherInv, LimitInv, Flush
    PROVE  LimitInv'
<1>1. processing \in Seq(SUBSET Requests) /\ current.reqs \in SUBSET Requests
  BY DEF BatcherInv, TypeOK, Batch
<1>2. processing' = Append(processing, current.reqs) /\ FullByOne(current.reqs)
  BY DEF Flush, LimitInv
<1>3. \A i \in DOMAIN processing' :
        processing'[i] = current.reqs \/ (i \in DOMAIN processing /\ processing'[i] = processing[i])
  BY <1>1, <1>2
<1>4. \A i \in DOMAIN processing' : FullByOne(processing'[i])
  BY <1>2, <1>3 DEF LimitInv
<1>5. /\ loop' = "select" /\ current'.reqs = {} /\ current'.totalSize = 0 /\ writer' = writer
  BY DEF Flush, nil
<1>6. IsFiniteSet({}) /\ SumFunctionOnSet(Size, {}) = 0 /\ 0 < MaxBatchBytes
  BY FS_EmptySet, SumOfNone, BatcherAssumption
<1>7. QED
  BY <1>4, <1>5, <1>6 DEF LimitInv, FullByOne

\* TakeBatch preserves the invariant: it moves a batch.
LEMMA TakeBatchLimit ==
    ASSUME BatcherInv, LimitInv, NEW w \in Writers, TakeBatch(w)
    PROVE  LimitInv'
<1>1. processing \in Seq(SUBSET Requests) /\ processing # <<>> /\ Len(processing) \in Nat
  BY DEF BatcherInv, TypeOK, TakeBatch
<1>2. /\ \A i \in DOMAIN processing' : i + 1 \in DOMAIN processing /\ processing'[i] = processing[i + 1]
      /\ 1 \in DOMAIN processing /\ Head(processing) = processing[1]
  BY <1>1 DEF TakeBatch
<1>3. /\ writer'[w].batch = Head(processing)
      /\ \A v \in Writers \ {w} : writer'[v] = writer[v]
  BY DEF TakeBatch, BatcherInv, TypeOK
<1>4. UNCHANGED <<loop, current>>
  BY DEF TakeBatch, loopVars
<1>5. /\ \A i \in DOMAIN processing' : FullByOne(processing'[i])
      /\ \A v \in Writers : writer'[v].batch = {} \/ FullByOne(writer'[v].batch)
  BY <1>2, <1>3 DEF LimitInv
<1>6. QED
  BY <1>4, <1>5 DEF LimitInv, FullByOne

\* A step that takes no part in gathering, and in which a writer keeps its
\* batch or is done with it.
LEMMA OtherLimit ==
    ASSUME LimitInv,
           \/ UNCHANGED <<loop, current, processing>>
           \/ loop' \in {"failing", "exited"},
           \A i \in DOMAIN processing' : i \in DOMAIN processing /\ processing'[i] = processing[i],
           \A w \in Writers : writer'[w].batch \in {writer[w].batch, {}}
    PROVE  LimitInv'
BY DEF LimitInv, FullByOne

\* The initial states satisfy the invariant.
LEMMA InitLimit == Init => LimitInv
<1> SUFFICES ASSUME Init PROVE LimitInv
  OBVIOUS
<1>1. /\ current.reqs = {} /\ current.totalSize = 0 /\ loop = "select" /\ DOMAIN processing = {}
      /\ \A w \in Writers : writer[w].batch = {}
  BY DEF Init, nil, Receiving
<1>2. IsFiniteSet({}) /\ SumFunctionOnSet(Size, {}) = 0 /\ 0 < MaxBatchBytes
  BY FS_EmptySet, SumOfNone, BatcherAssumption
<1>3. QED
  BY <1>1, <1>2 DEF LimitInv

\* Every step preserves the invariant.
LEMMA NextLimit == BatcherInv /\ LimitInv /\ [Next]_vars => LimitInv'
<1> SUFFICES ASSUME BatcherInv, LimitInv, [Next]_vars PROVE LimitInv'
  OBVIOUS
<1>1. CASE UNCHANGED <<loop, current, processing, writer>>
  BY <1>1, OtherLimit
<1>2. CASE \E r \in Requests : Accept(r)
  BY <1>2, AcceptLimit
<1>3. CASE AgeOut \/ Flush
  BY <1>3, AgeOutLimit, FlushLimit
<1>4. CASE StopLoop \/ \E r \in Requests : FailPending(r)
  <2>1. loop' \in {"failing", "exited"} /\ UNCHANGED <<processing, writer>>
    BY <1>4 DEF StopLoop, FailPending
  <2>2. QED
    BY <2>1, OtherLimit
<1>5. CASE ProcessLoop
  <2>1. \A w \in Writers : writer'[w].batch = {}
    BY <1>5 DEF ProcessLoop, Receiving
  <2>2. QED
    BY <1>5, <2>1, OtherLimit DEF ProcessLoop, loopVars
<1>6. ASSUME NEW w \in Writers, Writer(w) PROVE LimitInv'
  <2>1. CASE TakeBatch(w)
    BY <2>1, TakeBatchLimit
  <2>2. CASE ExitWriter(w) \/ Upload(w) \/ AddWriteAheadLog(w) \/ \E r \in Requests : Notify(w, r)
    <3>1. \A v \in Writers : writer'[v].batch \in {writer[v].batch, {}}
      BY <2>2 DEF ExitWriter, Upload, AddWriteAheadLog, Notify, Receiving, BatcherInv, TypeOK,
           WriterState
    <3>2. UNCHANGED <<loop, current, processing>>
      BY <2>2 DEF ExitWriter, Upload, AddWriteAheadLog, Notify, loopVars
    <3>3. QED
      BY <3>1, <3>2, OtherLimit
  <2>3. QED
    BY <1>6, <2>1, <2>2 DEF Writer
<1>7. CASE Exit
  <2>1. \A w \in Writers : writer'[w].batch = {}
    BY <1>7 DEF Exit, Receiving
  <2>2. loop' = "exited" /\ DOMAIN processing' = {}
    BY <1>7 DEF Exit
  <2>3. QED
    BY <2>1, <2>2, OtherLimit
<1>8. QED
  BY <1>1, <1>2, <1>3, <1>4, <1>5, <1>6, <1>7
  DEF Next, BatchLoop, BatchWrite, RejectOnShutdown, CancelCall, ReceiveResult, TimerFires,
      Shutdown, loopVars, vars

\* Whatever requests come and whenever the timer fires, a batch exceeds
\* MaxBatchBytes by its last request alone.
THEOREM BatchSize == Spec => []OverfilledByOne
<1>1. BatcherInv /\ LimitInv => OverfilledByOne
  <2> SUFFICES ASSUME BatcherInv, LimitInv, NEW b \in Flushed PROVE FullByOne(b)
    BY DEF OverfilledByOne, FullByOne
  <2>1. processing \in Seq(SUBSET Requests)
    BY DEF BatcherInv, TypeOK
  <2>2. \/ \E i \in DOMAIN processing : b = processing[i]
        \/ b # {} /\ \E w \in Writers : b = writer[w].batch
    BY <2>1 DEF Flushed, ToSet
  <2>3. QED
    BY <2>2 DEF LimitInv
<1>2. Spec => []LimitInv
  BY InitLimit, NextLimit, BatcherInvariance, PTL DEF Spec
<1>3. QED
  BY BatcherInvariance, <1>1, <1>2, PTL

-----------------------------------------------------------------------------
(* The process of the batcher.                                              *)

\* A step of the process is a step of the batcher, or leaves it alone.
LEMMA ServerStep == [ServerNext]_serverVars => [Next]_vars
<1> SUFFICES ASSUME [ServerNext]_serverVars PROVE [Next]_vars
  OBVIOUS
<1>1. CASE BuildHandler \/ ListenAndServe \/ ShutdownServer
  BY <1>1 DEF BuildHandler, ListenAndServe, ShutdownServer
<1>2. CASE BuildFails \/ Drained \/ TimesOut \/ Crash
  BY <1>2 DEF BuildFails, Drained, TimesOut, Crash, End, Next
<1>3. CASE Cancel
  BY <1>3 DEF Cancel, Next
<1>4. CASE BatcherStep
  BY <1>4 DEF BatcherStep, Next
<1>5. CASE UNCHANGED serverVars
  BY <1>5 DEF serverVars
<1>6. QED
  BY <1>1, <1>2, <1>3, <1>4, <1>5 DEF ServerNext

\* Every behaviour of the process is one of the batcher: its boot, its server
\* and its ends are among the callers, shutdowns and exits of Batcher.
THEOREM ServerImplementsBatcher == ServerSpec => Spec
<1>1. ServerInit => Init
  BY DEF ServerInit
<1>2. QED
  BY <1>1, ServerStep, PTL DEF ServerSpec, Spec

\* The acknowledgements of the process are of durable batches.
THEOREM ServerAcknowledgement == ServerSpec => []AckedIsDurable
BY ServerImplementsBatcher, Acknowledgement, PTL

\* The process answers each accepted request once.
THEOREM ServerAnswersOnce == ServerSpec => []OneAnswer
BY ServerImplementsBatcher, AnsweredOnce, PTL

\* The batch that batchLoop waits with has a timer, in every process.
THEOREM ServerTimerOfBatch == ServerSpec => []TimerGuardsBatch
BY ServerImplementsBatcher, TimerOfBatch, PTL

\* The batches of every process exceed the limit by one request at most.
THEOREM ServerBatchSize == ServerSpec => []OverfilledByOne
BY ServerImplementsBatcher, BatchSize, PTL

-----------------------------------------------------------------------------
(* The end of the process.                                                  *)

\* Where main is, and what it has still to build.
MainTypeOK ==
    /\ main \in {"boot", "serving", "cancelled", "draining", "exited"}
    /\ rest \in Seq({"cache", "index", "orchestrator", "worker"})
    /\ exit \in {"none", "broken", "returned"}
    /\ exit = "none" <=> alive

\* Type correctness of the process: a batcher lives in it until it exits,
\* which it does once, and main builds the services that are enabled.
THEOREM ServerTypeCorrect == ServerSpec => []ServerTypeOK
<1>1. ServerInit => MainTypeOK
  BY ServerAssumption DEF ServerInit, Init, MainTypeOK
<1>2. MainTypeOK /\ [ServerNext]_serverVars => MainTypeOK'
  <2> SUFFICES ASSUME MainTypeOK, [ServerNext]_serverVars PROVE MainTypeOK'
    OBVIOUS
  <2>1. CASE BuildHandler
    BY <2>1 DEF BuildHandler, vars, MainTypeOK
  <2>2. CASE BuildFails \/ Drained \/ TimesOut \/ Crash
    BY <2>2 DEF BuildFails, Drained, TimesOut, Crash, End, Exit, MainTypeOK
  <2>3. CASE ListenAndServe \/ Cancel \/ ShutdownServer
    BY <2>3 DEF ListenAndServe, Cancel, Shutdown, ShutdownServer, vars, MainTypeOK
  <2>4. CASE BatcherStep
    <3>1. UNCHANGED alive
      BY <2>4 DEF BatcherStep, BatchWrite, RejectOnShutdown, CancelCall, ReceiveResult, BatchLoop,
           Accept, FailPending, AgeOut, Flush, StopLoop, TimerFires, ProcessLoop, Writer,
           TakeBatch, ExitWriter, Upload, AddWriteAheadLog, Notify
    <3>2. QED
      BY <2>4, <3>1 DEF BatcherStep, mainVars, MainTypeOK
  <2>5. CASE UNCHANGED serverVars
    BY <2>5 DEF serverVars, mainVars, vars, MainTypeOK
  <2>6. QED
    BY <2>1, <2>2, <2>3, <2>4, <2>5 DEF ServerNext
<1>3. TypeOK /\ MainTypeOK => ServerTypeOK
  BY DEF MainTypeOK, ServerTypeOK
<1>4. ServerSpec => []TypeOK
  BY ServerImplementsBatcher, BatcherTypeCorrect, PTL
<1>5. QED
  BY <1>1, <1>2, <1>3, <1>4, PTL DEF ServerSpec

=============================================================================
