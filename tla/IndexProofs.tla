------------------------------ MODULE IndexProofs ------------------------------
(***************************************************************************)
(* Proofs about Index, for any database, any number of calls of BatchGet   *)
(* and any failures: that a call returns what its views say, that a        *)
(* refresh is due whenever a view lags, and what views at rest answer.     *)
(***************************************************************************)
EXTENDS Index, CompactionProofs

(***************************************************************************)
(* The inductive invariant.  The calls and the refreshes under way hold    *)
(* rows of earlier queries; these stay committed, and keep their seq_nos.  *)
(***************************************************************************)

\* Views and results of queries hold committed rows; nothing ever notifies
\* the watcher of the partitions.
ViewsInv ==
    /\ DOMAIN view = Tables /\ watch \in [Tables -> WatchState]
    /\ view["wals"] \subseteq Committed
    /\ view["runs"] \subseteq runs
    /\ view["partitions"] \subseteq Partitions
    /\ watch["wals"].pc = "queried" => watch["wals"].seen \subseteq Committed
    /\ watch["runs"].pc = "queried" => watch["runs"].seen \subseteq runs
    /\ watch["partitions"].pc \notin {"notified", "queried"}
    /\ watch["partitions"].pending = 0

\* What a call holds is committed, the objects it has still to visit are
\* older than those it has, and it has found what these resolve to.
GetInv(c) ==
    /\ c.wals \subseteq Committed /\ c.runs \subseteq runs
    /\ \A k \in Keys : c.version[k] # NoBatch => c.version[k] \in Writers(Committed, k)
    /\ c.pc = "wals" =>
         /\ c.todo \subseteq c.wals
         /\ \A b \in c.wals \ c.todo : \A a \in c.todo : seqNo[a] =< seqNo[b]
         /\ \A k \in c.asked : Resolved(c.version[k], c.wals \ c.todo, {}, k)
    /\ c.pc = "runs" =>
         /\ c.todo \subseteq c.runs
         /\ \A r \in c.runs \ c.todo : \A q \in c.todo : q.seqNo =< r.seqNo
         /\ \A k \in c.asked : Resolved(c.version[k], c.wals, c.runs \ c.todo, k)
    /\ c.pc = "done" => \A k \in c.asked : Resolved(c.version[k], c.wals, c.runs, k)

GetsInv == get \in [Gets -> GetState] /\ \A g \in Gets : GetInv(get[g])

IndexInv == /\ IInv
            /\ WALNosInv
            /\ ViewsInv
            /\ GetsInv

\* What a view lacks, or the query that will replace it, has a notification
\* behind it, unless a change was lost; a query leaves nothing lost.
LagInv ==
    \A t \in Tables :
      /\ watch[t].pc = "down" => watch[t].lost
      /\ watch[t].pc = "queried" =>
           ~ watch[t].lost /\ \A x \in Query(t) : x \in watch[t].seen \/ watch[t].pending > 0
      /\ watch[t].pc = "waiting" /\ ~ watch[t].lost =>
           \A x \in Query(t) : x \in view[t] \/ watch[t].pending > 0
      /\ watch[t].pc \in {"loaded", "deaf"} /\ ~ watch[t].lost => Query(t) \subseteq view[t]

-----------------------------------------------------------------------------
(* The database under the index.                                            *)

\* So it is when nothing but the number of failures changes.
LEMMA FailureStep ==
    ASSUME IInv, WALNosInv, Fail, UNCHANGED <<walVars, orch, job, exec, runVars>>
    PROVE  /\ IInv' /\ WALNosInv'
           /\ Committed' = Committed /\ runs' = runs /\ seqNo' = seqNo
BY DEF IInv, TypeOK, RowsInv, SourcesInv, Committed, DeletedInv, ExecInv, RunsInv, RunNosInv,
     WALNosInv, Fail, walVars, runVars

\* Views and calls that do not change stay true to a database that grows.
LEMMA ViewsFrame ==
    ASSUME ViewsInv, UNCHANGED <<view, watch>>,
           Committed \subseteq Committed', runs \subseteq runs'
    PROVE  ViewsInv'
BY DEF ViewsInv

LEMMA GetsFrame ==
    ASSUME IInv, GetsInv, UNCHANGED get,
           Committed \subseteq Committed', runs \subseteq runs',
           \A b \in Committed : seqNo'[b] = seqNo[b]
    PROVE  GetsInv'
<1> SUFFICES ASSUME NEW g \in Gets PROVE GetInv(get[g])'
  BY DEF GetsInv
<1> DEFINE c == get[g]
<1>1. GetInv(c) /\ c' = c
  BY DEF GetsInv
<1>2. c.wals \subseteq Committed /\ c.runs \subseteq runs
      /\ \A r \in runs : r.wals \subseteq Committed
  BY <1>1 DEF GetInv, IInv, SourcesInv
<1>3. ASSUME NEW k \in Keys, NEW W, W \subseteq Committed, NEW R, R \subseteq runs, NEW v,
             Resolved(v, W, R, k)
      PROVE  Resolved(v, W, R, k)'
  <2>1. \A S : S \subseteq Committed /\ IsNewest(v, S) => IsNewest(v, S)'
    BY DEF IsNewest
  <2>2. Writers(W, k) \subseteq Committed
    BY <1>3 DEF Writers
  <2>3. \A r \in R : Writers(r.wals, k) \subseteq Committed
    BY <1>2, <1>3 DEF Writers
  <2>4. QED
    BY <1>3, <2>1, <2>2, <2>3 DEF Resolved, RunsWith, Writers
<1>4. c \in GetState
  BY DEF GetsInv
<1>5. \A k \in c.asked : k \in Keys
  BY <1>4 DEF GetState
<1>6. /\ (c.pc = "wals" => \A k \in c.asked : Resolved(c.version[k], c.wals \ c.todo, {}, k))'
      /\ (c.pc = "runs" => \A k \in c.asked : Resolved(c.version[k], c.wals, c.runs \ c.todo, k))'
      /\ (c.pc = "done" => \A k \in c.asked : Resolved(c.version[k], c.wals, c.runs, k))'
  <2>1. c.wals \ c.todo \subseteq Committed /\ {} \subseteq runs /\ c.runs \ c.todo \subseteq runs
    BY <1>2
  <2> HIDE DEF c
  <2>2. QED
    BY <1>1, <1>2, <1>3, <1>5, <2>1 DEF GetInv
<1>7. /\ (c.wals \subseteq Committed /\ c.runs \subseteq runs)'
      /\ (\A k \in Keys : c.version[k] # NoBatch => c.version[k] \in Writers(Committed, k))'
  BY <1>1, <1>2 DEF GetInv, Writers
<1>8. /\ (c.pc = "wals" =>
            /\ c.todo \subseteq c.wals
            /\ \A b \in c.wals \ c.todo : \A a \in c.todo : seqNo[a] =< seqNo[b])'
      /\ (c.pc = "runs" =>
            /\ c.todo \subseteq c.runs
            /\ \A r \in c.runs \ c.todo : \A q \in c.todo : q.seqNo =< r.seqNo)'
  BY <1>1, <1>2 DEF GetInv
<1>9. QED
  BY <1>6, <1>7, <1>8 DEF GetInv

-----------------------------------------------------------------------------
(* The steps of BatchGet.                                                   *)

\* A step of call g that leaves the rest alone.
LEMMA GetStep ==
    ASSUME GetsInv, NEW g \in Gets, NEW c \in GetState, GetInv(c),
           get' = [get EXCEPT ![g] = c], UNCHANGED <<walVars, runVars>>
    PROVE  GetsInv'
<1>1. \A h \in Gets : get'[h] = IF h = g THEN c ELSE get[h]
  BY DEF GetsInv
<1>2. get' \in [Gets -> GetState]
  BY DEF GetsInv
<1>3. \A h \in Gets : GetInv(get'[h])
  BY <1>1 DEF GetsInv
<1>4. Committed' = Committed /\ seqNo' = seqNo /\ runs' = runs
  BY DEF walVars, runVars, Committed
<1>5. \A h \in Gets : GetInv(get[h])'
  <2> SUFFICES ASSUME NEW h \in Gets PROVE GetInv(get[h])'
    OBVIOUS
  <2>1. \A v, W, R, k : Resolved(v, W, R, k) => Resolved(v, W, R, k)'
    BY <1>4 DEF Resolved, IsNewest, Writers, RunsWith
  <2>2. GetInv(get'[h])
    BY <1>3
  <2>3. QED
    BY <1>4, <2>1, <2>2 DEF GetInv, Writers
<1>6. QED
  BY <1>2, <1>5 DEF GetsInv

\* The fields of a call when it starts.
LEMMA StartedCall ==
    ASSUME NEW keys, NEW w
    PROVE  [IdleGet EXCEPT !.pc = "wals", !.asked = keys, !.wals = w, !.todo = w] =
             [pc |-> "wals", asked |-> keys, wals |-> w, runs |-> {}, todo |-> w,
              version |-> [k \in Keys |-> NoBatch]]
<1> DEFINE none == [k \in Keys |-> NoBatch]
           c1 == [IdleGet EXCEPT !.pc = "wals"]
           c2 == [c1 EXCEPT !.asked = keys]
           c3 == [c2 EXCEPT !.wals = w]
<1>1. [IdleGet EXCEPT !.pc = "wals", !.asked = keys, !.wals = w, !.todo = w] =
        [c3 EXCEPT !.todo = w]
  OBVIOUS
<1> HIDE DEF none
<1>2. c1 = [pc |-> "wals", asked |-> {}, wals |-> {}, runs |-> {}, todo |-> {}, version |-> none]
  BY DEF IdleGet, none
<1> HIDE DEF c1
<1>3. c2 = [pc |-> "wals", asked |-> keys, wals |-> {}, runs |-> {}, todo |-> {}, version |-> none]
  BY <1>2
<1> HIDE DEF c2
<1>4. c3 = [pc |-> "wals", asked |-> keys, wals |-> w, runs |-> {}, todo |-> {}, version |-> none]
  BY <1>3
<1> HIDE DEF c3
<1>5. QED
  BY <1>1, <1>4 DEF none

\* The fields of a call after a lookup.
LEMMA VisitedCall ==
    ASSUME NEW c \in GetState, NEW v, NEW t
    PROVE  [c EXCEPT !.version = v, !.todo = t] =
             [pc |-> c.pc, asked |-> c.asked, wals |-> c.wals, runs |-> c.runs,
              todo |-> t, version |-> v]
<1> DEFINE d == [c EXCEPT !.version = v]
<1>1. [c EXCEPT !.version = v, !.todo = t] = [d EXCEPT !.todo = t]
  OBVIOUS
<1>2. d = [pc |-> c.pc, asked |-> c.asked, wals |-> c.wals, runs |-> c.runs,
           todo |-> c.todo, version |-> v]
  BY DEF GetState
<1> HIDE DEF d
<1>3. [d EXCEPT !.todo = t] =
        [pc |-> c.pc, asked |-> c.asked, wals |-> c.wals, runs |-> c.runs,
         todo |-> t, version |-> v]
  BY <1>2
<1>4. QED
  BY <1>1, <1>3

\* The fields of a call that goes on to the runs.
LEMMA CallOnRuns ==
    ASSUME NEW c \in GetState, NEW r
    PROVE  [c EXCEPT !.pc = "runs", !.runs = r, !.todo = r] =
             [pc |-> "runs", asked |-> c.asked, wals |-> c.wals, runs |-> r, todo |-> r,
              version |-> c.version]
<1> DEFINE d1 == [c EXCEPT !.pc = "runs"]
           d2 == [d1 EXCEPT !.runs = r]
<1>1. [c EXCEPT !.pc = "runs", !.runs = r, !.todo = r] = [d2 EXCEPT !.todo = r]
  OBVIOUS
<1>2. d1 = [pc |-> "runs", asked |-> c.asked, wals |-> c.wals, runs |-> c.runs,
            todo |-> c.todo, version |-> c.version]
  BY DEF GetState
<1> HIDE DEF d1
<1>3. d2 = [pc |-> "runs", asked |-> c.asked, wals |-> c.wals, runs |-> r,
            todo |-> c.todo, version |-> c.version]
  BY <1>2
<1> HIDE DEF d2
<1>4. QED
  BY <1>1, <1>3

\* The fields of a call that ends at pc.
LEMMA EndedCall ==
    ASSUME NEW c \in GetState, NEW pc
    PROVE  [c EXCEPT !.pc = pc, !.todo = {}] =
             [pc |-> pc, asked |-> c.asked, wals |-> c.wals, runs |-> c.runs, todo |-> {},
              version |-> c.version]
<1> DEFINE d == [c EXCEPT !.pc = pc]
<1>1. [c EXCEPT !.pc = pc, !.todo = {}] = [d EXCEPT !.todo = {}]
  OBVIOUS
<1>2. d = [pc |-> pc, asked |-> c.asked, wals |-> c.wals, runs |-> c.runs,
           todo |-> c.todo, version |-> c.version]
  BY DEF GetState
<1> HIDE DEF d
<1>3. QED
  BY <1>1, <1>2

\* A call that starts has found nothing, and nothing is visited yet.
LEMMA StartGetStep ==
    ASSUME IndexInv, NEW g \in Gets, StartGet(g)
    PROVE  GetsInv'
<1>1. PICK keys \in SUBSET Keys :
        get' = [get EXCEPT ![g] = [IdleGet EXCEPT !.pc = "wals", !.asked = keys,
                                     !.wals = view["wals"], !.todo = view["wals"]]]
  BY DEF StartGet
<1> DEFINE c == [IdleGet EXCEPT !.pc = "wals", !.asked = keys,
                                !.wals = view["wals"], !.todo = view["wals"]]
<1>2. view["wals"] \subseteq Committed /\ view["wals"] \subseteq Batches
  BY DEF IndexInv, ViewsInv, Committed
<1>3. c = [pc |-> "wals", asked |-> keys, wals |-> view["wals"], runs |-> {},
           todo |-> view["wals"], version |-> [k \in Keys |-> NoBatch]]
  BY StartedCall
<1> HIDE DEF c
<1>4. c \in GetState
  BY <1>2, <1>3 DEF GetState
<1>5. \A k \in keys : Resolved(c.version[k], c.wals \ c.todo, {}, k)
  BY <1>3 DEF Resolved, Writers, RunsWith
<1>6. GetInv(c)
  BY <1>2, <1>3, <1>5 DEF GetInv
<1>7. QED
  BY <1>1, <1>4, <1>6, GetStep DEF StartGet, IndexInv, vars, c

\* The answer for an object of batches bs: the remaining keys it has get the
\* newest of them, the others keep what they have.
LEMMA AnswerForObject ==
    ASSUME IInv, WALNosInv, GetsInv, NEW g \in Gets, NEW bs, bs \subseteq Committed
    PROVE  /\ Answered(g, bs) \in [Keys -> Batches \cup {NoBatch}]
           /\ \A k \in Keys : Answered(g, bs)[k] # NoBatch =>
                Answered(g, bs)[k] \in Writers(Committed, k)
           /\ \A k \in get[g].asked :
                \/ /\ Writers(bs, k) # {} /\ get[g].version[k] = NoBatch
                   /\ IsNewest(Answered(g, bs)[k], Writers(bs, k))
                \/ /\ Writers(bs, k) = {} \/ get[g].version[k] # NoBatch
                   /\ Answered(g, bs)[k] = get[g].version[k]
<1>1. get[g] \in GetState /\ GetInv(get[g])
  BY DEF GetsInv
<1>2. \A k \in Keys : Writers(bs, k) \subseteq Writers(Committed, k) /\ Writers(bs, k) \subseteq Batches
  BY DEF Writers, Committed
<1>3. \A k \in Keys : Writers(bs, k) # {} => IsNewest(Newest(Writers(bs, k)), Writers(bs, k))
  BY <1>2, NewestPicks DEF IInv
<1>4. \A k \in Keys : Writers(bs, k) # {} => Newest(Writers(bs, k)) \in Writers(bs, k)
  BY <1>3 DEF IsNewest
<1>5. get[g].asked \subseteq Keys /\ get[g].version \in [Keys -> Batches \cup {NoBatch}]
  BY <1>1 DEF GetState
<1>6. \A k \in Keys : get[g].version[k] # NoBatch => get[g].version[k] \in Writers(Committed, k)
  BY <1>1 DEF GetInv
<1>7. \A k \in Keys : Answered(g, bs)[k] =
        IF k \in Remaining(g) /\ Writers(bs, k) # {}
          THEN Newest(Writers(bs, k)) ELSE get[g].version[k]
  BY DEF Answered
<1>8. Answered(g, bs) \in [Keys -> Batches \cup {NoBatch}]
  <2>1. \A k \in Keys : Writers(bs, k) # {} => Newest(Writers(bs, k)) \in Batches
    BY <1>2, <1>4
  <2>2. QED
    BY <1>5, <2>1 DEF Answered
<1>9. QED
  BY <1>2, <1>3, <1>4, <1>5, <1>6, <1>7, <1>8 DEF Remaining

\* A lookup in the newest WAL left.
LEMMA LookupWALStep ==
    ASSUME IndexInv, NEW g \in Gets, LookupWAL(g)
    PROVE  GetsInv'
<1> DEFINE c == get[g]
           b == Newest(c.todo)
           d == [c EXCEPT !.version = Answered(g, {b}), !.todo = c.todo \ {b}]
<1>1. c \in GetState /\ GetInv(c) /\ c.pc = "wals" /\ c.todo # {}
  BY DEF IndexInv, GetsInv, LookupWAL
<1>2. /\ c.todo \subseteq c.wals /\ c.wals \subseteq Committed /\ c.runs \subseteq runs
      /\ \A x \in c.wals \ c.todo : \A a \in c.todo : seqNo[a] =< seqNo[x]
      /\ \A k \in c.asked : Resolved(c.version[k], c.wals \ c.todo, {}, k)
  BY <1>1 DEF GetInv
<1>3. IsNewest(b, c.todo)
  BY <1>1, <1>2, NewestPicks DEF IndexInv, IInv, Committed
<1>4. b \in c.todo /\ b \in Committed /\ b \in Batches /\ \A a \in c.todo : seqNo[a] =< seqNo[b]
  BY <1>2, <1>3 DEF IsNewest, Committed
<1>5. d = [pc |-> c.pc, asked |-> c.asked, wals |-> c.wals, runs |-> c.runs,
           todo |-> c.todo \ {b}, version |-> Answered(g, {b})]
  BY <1>1, VisitedCall
<1>6. get' = [get EXCEPT ![g] = d] /\ UNCHANGED <<walVars, runVars>>
  BY DEF LookupWAL, vars
<1>7. /\ Answered(g, {b}) \in [Keys -> Batches \cup {NoBatch}]
      /\ \A k \in Keys : Answered(g, {b})[k] # NoBatch => Answered(g, {b})[k] \in Writers(Committed, k)
      /\ \A k \in c.asked :
           \/ /\ Writers({b}, k) # {} /\ c.version[k] = NoBatch
              /\ IsNewest(Answered(g, {b})[k], Writers({b}, k))
           \/ /\ Writers({b}, k) = {} \/ c.version[k] # NoBatch
              /\ Answered(g, {b})[k] = c.version[k]
  BY <1>4, AnswerForObject DEF IndexInv
<1> HIDE DEF b, d
<1>8. d \in GetState
  BY <1>1, <1>2, <1>5, <1>7 DEF GetState
<1>9. ASSUME NEW k \in c.asked PROVE Resolved(d.version[k], d.wals \ d.todo, {}, k)
  <2> DEFINE old == Writers(c.wals \ c.todo, k)
             new == Writers(d.wals \ d.todo, k)
  <2>1. new = old \cup Writers({b}, k)
    BY <1>2, <1>4, <1>5 DEF Writers
  <2>2. RunsWith({}, k) = {}
    BY DEF RunsWith
  <2>3. \/ IsNewest(c.version[k], old)
        \/ old = {} /\ c.version[k] = NoBatch
    BY <1>2, <2>2 DEF Resolved
  <2>4. CASE old = {} /\ c.version[k] = NoBatch
    BY <1>5, <1>7, <2>1, <2>2, <2>4 DEF Resolved
  <2>5. CASE IsNewest(c.version[k], old)
    <3>1. c.version[k] \in c.wals \ c.todo /\ c.version[k] # NoBatch
      BY <1>2, <2>5, CompactionAssumption DEF IsNewest, Writers, Committed
    <3>2. d.version[k] = c.version[k]
      BY <1>5, <1>7, <3>1
    <3>3. \A x \in Writers({b}, k) : seqNo[x] =< seqNo[c.version[k]]
      BY <1>2, <1>4, <3>1 DEF Writers
    <3>4. IsNewest(d.version[k], new)
      BY <2>1, <2>5, <3>2, <3>3 DEF IsNewest
    <3>5. QED
      BY <3>4 DEF Resolved
  <2>6. QED
    BY <2>3, <2>4, <2>5
<1>10. GetInv(d)
  BY <1>1, <1>2, <1>4, <1>5, <1>7, <1>9 DEF GetInv
<1>11. QED
  BY <1>6, <1>8, <1>10, GetStep DEF IndexInv

\* The WAL loop ends: a key that was found has its newest WAL, since those
\* left are older, and a key that was not is in none of them.
LEMMA LoadRunsStep ==
    ASSUME IndexInv, NEW g \in Gets, LoadRuns(g)
    PROVE  GetsInv'
<1> DEFINE c == get[g]
<1>1. c \in GetState /\ GetInv(c) /\ c.pc = "wals"
  BY DEF IndexInv, GetsInv, LoadRuns
<1>2. UNCHANGED <<walVars, runVars>>
  BY DEF LoadRuns, vars
<1>3. /\ c.todo \subseteq c.wals /\ c.wals \subseteq Committed /\ c.runs \subseteq runs
      /\ \A x \in c.wals \ c.todo : \A a \in c.todo : seqNo[a] =< seqNo[x]
      /\ \A k \in c.asked : Resolved(c.version[k], c.wals \ c.todo, {}, k)
      /\ \A k \in Keys : c.version[k] # NoBatch => c.version[k] \in Writers(Committed, k)
  BY <1>1 DEF GetInv
<1>4. CASE Remaining(g) = {}
  <2> DEFINE d == [c EXCEPT !.pc = "done", !.todo = {}]
  <2>1. get' = [get EXCEPT ![g] = d]
    BY <1>4 DEF LoadRuns
  <2>2. d = [pc |-> "done", asked |-> c.asked, wals |-> c.wals, runs |-> c.runs, todo |-> {},
             version |-> c.version]
    BY <1>1, EndedCall
  <2> HIDE DEF d
  <2>3. d \in GetState
    BY <1>1, <2>2 DEF GetState
  <2>4. ASSUME NEW k \in c.asked PROVE Resolved(c.version[k], c.wals, c.runs, k)
    <3>1. c.version[k] # NoBatch
      BY <1>4, <2>4 DEF Remaining
    <3>2. IsNewest(c.version[k], Writers(c.wals \ c.todo, k))
      BY <1>3, <3>1 DEF Resolved, RunsWith
    <3>3. IsNewest(c.version[k], Writers(c.wals, k))
      BY <1>3, <3>2 DEF IsNewest, Writers
    <3>4. QED
      BY <3>3 DEF Resolved
  <2>5. GetInv(d)
    BY <1>3, <2>2, <2>4 DEF GetInv
  <2>6. QED
    BY <1>2, <2>1, <2>3, <2>5, GetStep DEF IndexInv
<1>5. CASE Remaining(g) # {}
  <2> DEFINE d == [c EXCEPT !.pc = "runs", !.runs = view["runs"], !.todo = view["runs"]]
  <2>1. get' = [get EXCEPT ![g] = d] /\ c.todo = {}
    BY <1>5 DEF LoadRuns
  <2>2. d = [pc |-> "runs", asked |-> c.asked, wals |-> c.wals, runs |-> view["runs"],
             todo |-> view["runs"], version |-> c.version]
    BY <1>1, CallOnRuns
  <2> HIDE DEF d
  <2>3. view["runs"] \subseteq runs /\ view["runs"] \subseteq RunRow
    BY DEF IndexInv, ViewsInv, IInv, TypeOK
  <2>4. d \in GetState
    BY <1>1, <2>2, <2>3 DEF GetState
  <2>5. c.wals \ c.todo = c.wals /\ view["runs"] \ view["runs"] = {}
    BY <2>1
  <2>6. GetInv(d)
    BY <1>3, <2>2, <2>3, <2>5 DEF GetInv
  <2>7. QED
    BY <1>2, <2>1, <2>4, <2>6, GetStep DEF IndexInv
<1>6. QED
  BY <1>4, <1>5

\* A call that ends without an answer.
LEMMA GetFailsStep ==
    ASSUME GetsInv, NEW g \in Gets, UNCHANGED <<walVars, runVars>>,
           get' = [get EXCEPT ![g] = [get[g] EXCEPT !.pc = "error", !.todo = {}]]
    PROVE  GetsInv'
<1> DEFINE d == [get[g] EXCEPT !.pc = "error", !.todo = {}]
<1>1. get[g] \in GetState /\ GetInv(get[g])
  BY DEF GetsInv
<1>2. d = [pc |-> "error", asked |-> get[g].asked, wals |-> get[g].wals, runs |-> get[g].runs,
           todo |-> {}, version |-> get[g].version]
  BY <1>1, EndedCall
<1>3. get' = [get EXCEPT ![g] = d]
  OBVIOUS
<1> HIDE DEF d
<1>4. d \in GetState
  BY <1>1, <1>2 DEF GetState
<1>5. GetInv(d)
  BY <1>1, <1>2 DEF GetInv
<1>6. QED
  BY <1>3, <1>4, <1>5, GetStep

\* A lookup in the newest run left.
LEMMA LookupRunStep ==
    ASSUME IndexInv, NEW g \in Gets, LookupRun(g)
    PROVE  GetsInv'
<1> DEFINE c == get[g]
           r == NewestRun(c.todo)
           d == [c EXCEPT !.version = Answered(g, r.wals), !.todo = c.todo \ {r}]
<1>1. c \in GetState /\ GetInv(c) /\ c.pc = "runs" /\ c.todo # {}
  BY DEF IndexInv, GetsInv, LookupRun
<1>2. UNCHANGED <<walVars, runVars>>
  BY DEF LookupRun, vars
<1>3. CASE Remaining(g) = {}
  <2>1. get' = [get EXCEPT ![g] = [get[g] EXCEPT !.pc = "error", !.todo = {}]]
    BY <1>3 DEF LookupRun
  <2>2. QED
    BY <1>2, <2>1, GetFailsStep DEF IndexInv
<1>4. CASE Remaining(g) # {}
  <2>1. /\ c.todo \subseteq c.runs /\ c.wals \subseteq Committed /\ c.runs \subseteq runs
        /\ \A x \in c.runs \ c.todo : \A q \in c.todo : q.seqNo =< x.seqNo
        /\ \A k \in c.asked : Resolved(c.version[k], c.wals, c.runs \ c.todo, k)
    BY <1>1 DEF GetInv
  <2>2. r \in c.todo /\ \A q \in c.todo : q.seqNo =< r.seqNo
    BY <1>1, <2>1, NewestRunPicks DEF IndexInv, IInv
  <2>3. r \in runs /\ r.wals \subseteq Committed /\ r.seqNo \in Nat
    BY <2>1, <2>2 DEF IndexInv, IInv, SourcesInv, TypeOK, RunRow
  <2>4. d = [pc |-> c.pc, asked |-> c.asked, wals |-> c.wals, runs |-> c.runs,
             todo |-> c.todo \ {r}, version |-> Answered(g, r.wals)]
    BY <1>1, VisitedCall
  <2>5. get' = [get EXCEPT ![g] = d]
    BY <1>4 DEF LookupRun
  <2>6. /\ Answered(g, r.wals) \in [Keys -> Batches \cup {NoBatch}]
        /\ \A k \in Keys :
             Answered(g, r.wals)[k] # NoBatch => Answered(g, r.wals)[k] \in Writers(Committed, k)
        /\ \A k \in c.asked :
             \/ /\ Writers(r.wals, k) # {} /\ c.version[k] = NoBatch
                /\ IsNewest(Answered(g, r.wals)[k], Writers(r.wals, k))
             \/ /\ Writers(r.wals, k) = {} \/ c.version[k] # NoBatch
                /\ Answered(g, r.wals)[k] = c.version[k]
    BY <2>3, AnswerForObject DEF IndexInv
  <2> HIDE DEF r, d
  <2>7. d \in GetState
    BY <1>1, <2>1, <2>4, <2>6 DEF GetState
  <2>8. ASSUME NEW k \in c.asked PROVE Resolved(d.version[k], d.wals, d.runs \ d.todo, k)
    <3> DEFINE old == RunsWith(c.runs \ c.todo, k)
               new == RunsWith(d.runs \ d.todo, k)
    <3>1. new = old \cup RunsWith({r}, k)
      BY <2>1, <2>2, <2>4 DEF RunsWith
    <3>2. k \in Keys /\ d.wals = c.wals
      BY <1>1, <2>4, <2>8 DEF GetState
    <3>3. CASE c.version[k] = NoBatch
      <4>1. \A S : S \subseteq Committed => ~ IsNewest(NoBatch, Writers(S, k))
        BY CompactionAssumption DEF IsNewest, Writers, Committed
      <4>2. \A q \in old : q.wals \subseteq Committed
        BY <2>1 DEF RunsWith, IndexInv, IInv, SourcesInv
      <4>3. Writers(c.wals, k) = {} /\ old = {}
        BY <2>1, <3>3, <4>1, <4>2 DEF Resolved
      <4>4. CASE Writers(r.wals, k) = {}
        <5>1. Writers(d.wals, k) = {} /\ new = {}
          BY <3>1, <3>2, <4>3, <4>4 DEF RunsWith
        <5>2. d.version[k] = NoBatch
          BY <2>4, <2>6, <3>2, <3>3, <4>4
        <5>3. QED
          BY <5>1, <5>2 DEF Resolved
      <4>5. CASE Writers(r.wals, k) # {}
        <5>1. new = {r}
          BY <3>1, <4>3, <4>5 DEF RunsWith
        <5>2. IsNewest(d.version[k], Writers(r.wals, k))
          BY <2>4, <2>6, <4>5, <3>3
        <5>3. r \in new /\ \A q \in new : q.seqNo =< r.seqNo
          <6> HIDE DEF new
          <6>1. QED
            BY <2>3, <5>1
        <5>4. QED
          BY <3>2, <4>3, <5>2, <5>3 DEF Resolved
      <4>6. QED
        BY <4>4, <4>5
    <3>4. CASE c.version[k] # NoBatch
      <4>1. d.version[k] = c.version[k]
        BY <2>4, <2>6, <3>4
      <4>2. CASE IsNewest(c.version[k], Writers(c.wals, k))
        BY <3>2, <4>1, <4>2 DEF Resolved
      <4>3. CASE ~ IsNewest(c.version[k], Writers(c.wals, k))
        <5>1. Writers(c.wals, k) = {}
          BY <2>1, <3>4, <4>3 DEF Resolved
        <5>2. PICK q \in old : /\ \A x \in old : x.seqNo =< q.seqNo
                               /\ IsNewest(c.version[k], Writers(q.wals, k))
          BY <2>1, <3>4, <4>3 DEF Resolved
        <5>3. \A x \in new : x.seqNo =< q.seqNo
          BY <2>1, <2>2, <3>1, <5>2 DEF RunsWith
        <5>4. QED
          BY <3>1, <3>2, <4>1, <5>1, <5>2, <5>3 DEF Resolved
      <4>4. QED
        BY <4>2, <4>3
    <3>5. QED
      BY <3>3, <3>4
  <2>9. GetInv(d)
    BY <1>1, <2>1, <2>2, <2>4, <2>6, <2>8 DEF GetInv
  <2>10. QED
    BY <1>2, <2>5, <2>7, <2>9, GetStep DEF IndexInv
<1>5. QED
  BY <1>3, <1>4

\* The fields of a call that has visited every object.
LEMMA FinishedCall ==
    ASSUME NEW c \in GetState, NEW pc
    PROVE  [c EXCEPT !.pc = pc] =
             [pc |-> pc, asked |-> c.asked, wals |-> c.wals, runs |-> c.runs, todo |-> c.todo,
              version |-> c.version]
BY DEF GetState

\* The call ends: every object has been visited.
LEMMA FinishGetStep ==
    ASSUME IndexInv, NEW g \in Gets, FinishGet(g)
    PROVE  GetsInv'
<1> DEFINE c == get[g]
           pc == IF Remaining(g) = {} \/ view["partitions"] # {} THEN "done" ELSE "error"
           d == [c EXCEPT !.pc = pc]
<1>1. c \in GetState /\ GetInv(c) /\ c.pc = "runs" /\ c.todo = {}
  BY DEF IndexInv, GetsInv, FinishGet
<1>2. get' = [get EXCEPT ![g] = d] /\ UNCHANGED <<walVars, runVars>>
  BY DEF FinishGet, IndexInv, GetsInv, vars
<1>3. pc \in {"done", "error"}
  OBVIOUS
<1> HIDE DEF pc
<1>4. d = [pc |-> pc, asked |-> c.asked, wals |-> c.wals, runs |-> c.runs, todo |-> c.todo,
           version |-> c.version]
  BY <1>1, FinishedCall
<1> HIDE DEF d
<1>5. d \in GetState
  BY <1>1, <1>3, <1>4 DEF GetState
<1>6. c.runs \ c.todo = c.runs
  BY <1>1
<1>7. GetInv(d)
  BY <1>1, <1>3, <1>4, <1>6 DEF GetInv
<1>8. QED
  BY <1>2, <1>5, <1>7, GetStep DEF IndexInv

-----------------------------------------------------------------------------
(* The steps of the watchers.                                               *)

\* Queries return committed rows.
LEMMA QueryResults ==
    ASSUME IInv
    PROVE  /\ Query("wals") \subseteq Committed /\ Query("wals") \in SUBSET Batches
           /\ Query("runs") = runs /\ Query("runs") \in SUBSET RunRow
           /\ Query("partitions") = Partitions
BY DEF Query, GetWriteAheadLogs, Committed, IInv, TypeOK

\* A watcher's step leaves the views true to the database.
LEMMA WatcherStep ==
    ASSUME IndexInv, NEW t \in Tables, Watcher(t)
    PROVE  ViewsInv'
<1>1. UNCHANGED vars /\ Committed' = Committed /\ runs' = runs
  BY DEF Watcher, Load, Listen, WaitForNotification, QueryTable, StoreView, vars, walVars, runVars,
       Committed
<1>2. /\ DOMAIN view = Tables /\ watch \in [Tables -> WatchState] /\ watch[t] \in WatchState
      /\ ViewsInv /\ IInv
  BY DEF IndexInv, ViewsInv
<1>3. CASE Load(t)
  BY <1>1, <1>2, <1>3, QueryResults DEF Load, ViewsInv, Watching, WatchState, Tables
<1>4. CASE Listen(t)
  BY <1>1, <1>2, <1>4 DEF Listen, ViewsInv, Watching, WatchState, Tables
<1>5. CASE WaitForNotification(t)
  BY <1>1, <1>2, <1>5 DEF WaitForNotification, ViewsInv, Watching, WatchState, Tables
<1>6. CASE QueryTable(t)
  BY <1>1, <1>2, <1>6, QueryResults DEF QueryTable, ViewsInv, Watching, WatchState, Tables
<1>7. CASE StoreView(t)
  BY <1>1, <1>2, <1>7 DEF StoreView, ViewsInv, Watching, WatchState, Tables
<1>8. QED
  BY <1>3, <1>4, <1>5, <1>6, <1>7 DEF Watcher

\* So does a watcher that fails.
LEMMA WatcherFailsStep ==
    ASSUME IndexInv, NEW t \in Tables, RefreshFails(t) \/ LoseConnection(t),
           Committed' = Committed, runs' = runs
    PROVE  ViewsInv'
<1>1. PICK pc \in {"waiting", "deaf"}, n \in {0, watch[t].pending}, l \in BOOLEAN :
        watch' = [watch EXCEPT ![t] = Watching(pc, n, {}, l)]
  <2>1. CASE RefreshFails(t)
    BY <2>1 DEF RefreshFails
  <2>2. CASE LoseConnection(t)
    <3>1. (watch[t].lost \/ watch[t].pending > 0) \in BOOLEAN
      OBVIOUS
    <3>2. QED
      BY <2>2, <3>1 DEF LoseConnection
  <2>3. QED
    BY <2>1, <2>2
<1>2. n \in Nat /\ (t = "partitions" => n = 0)
  BY DEF IndexInv, ViewsInv, WatchState
<1>3. /\ Watching(pc, n, {}, l) \in WatchState
      /\ Watching(pc, n, {}, l).pc = pc /\ Watching(pc, n, {}, l).pending = n
  BY <1>2 DEF Watching, WatchState
<1>4. view' = view
  BY DEF RefreshFails, LoseConnection
<1>5. QED
  BY <1>1, <1>2, <1>3, <1>4 DEF IndexInv, ViewsInv, Tables

\* A notification leaves the views alone.
LEMMA NotifyStep ==
    ASSUME IndexInv, NEW t \in {"wals", "runs"}, Notify(t), UNCHANGED view,
           Committed \subseteq Committed', runs \subseteq runs'
    PROVE  ViewsInv'
<1>1. watch' \in [Tables -> WatchState]
  <2>1. watch[t] \in WatchState /\ watch \in [Tables -> WatchState]
    BY DEF IndexInv, ViewsInv, Tables
  <2>2. watch[t].pending \in Nat /\ watch[t].pending + 1 \in Nat /\ watch[t].lost \in BOOLEAN
    BY <2>1 DEF WatchState
  <2>3. PICK n \in Nat, l \in BOOLEAN : watch' = [watch EXCEPT ![t].pending = n, ![t].lost = l]
    <3>1. CASE Listening(t)
      BY <2>2, <3>1 DEF Notify
    <3>2. CASE ~ Listening(t)
      BY <2>2, <3>2 DEF Notify
    <3>3. QED
      BY <3>1, <3>2
  <2>4. [watch[t] EXCEPT !.pending = n, !.lost = l] \in WatchState
    BY <2>1 DEF WatchState
  <2>5. QED
    BY <2>1, <2>3, <2>4
<1>2. \A u \in Tables : watch'[u].pc = watch[u].pc /\ watch'[u].seen = watch[u].seen
  BY DEF Notify, IndexInv, ViewsInv, WatchState
<1>3. \A u \in Tables \ {t} : watch'[u] = watch[u]
  BY DEF Notify, IndexInv, ViewsInv
<1>4. QED
  BY <1>1, <1>2, <1>3 DEF IndexInv, ViewsInv, Tables

\* A restart forgets the views and breaks off the calls.
LEMMA RestartStep ==
    ASSUME IndexInv, Restart, Committed' = Committed, runs' = runs, seqNo' = seqNo
    PROVE  ViewsInv' /\ GetsInv'
<1>1. ViewsInv'
  BY DEF Restart, ViewsInv, Watching, WatchState, Tables
<1>2. [IdleGet EXCEPT !.pc = "error"] =
        [pc |-> "error", asked |-> {}, wals |-> {}, runs |-> {}, todo |-> {},
         version |-> [k \in Keys |-> NoBatch]]
  BY DEF IdleGet
<1>3. ASSUME NEW g \in Gets PROVE get'[g] \in GetState /\ GetInv(get[g])'
  <2>1. CASE get[g].pc \in {"wals", "runs"}
    <3>1. get'[g] = [pc |-> "error", asked |-> {}, wals |-> {}, runs |-> {}, todo |-> {},
                     version |-> [k \in Keys |-> NoBatch]]
      BY <1>2, <2>1 DEF Restart
    <3>2. QED
      BY <3>1 DEF GetState, GetInv
  <2>2. CASE get[g].pc \notin {"wals", "runs"}
    <3>1. get'[g] = get[g]
      BY <2>2 DEF Restart
    <3>2. get[g] \in GetState /\ GetInv(get[g])
      BY DEF IndexInv, GetsInv
    <3>3. QED
      BY <3>1, <3>2 DEF GetInv, Resolved, IsNewest, Writers, RunsWith
  <2>3. QED
    BY <2>1, <2>2
<1>4. get' \in [Gets -> GetState]
  BY <1>3 DEF Restart
<1>5. QED
  BY <1>1, <1>3, <1>4 DEF GetsInv

-----------------------------------------------------------------------------
(* The invariants of the index.                                             *)

\* The initial states satisfy the invariant, also with views loaded.
LEMMA InitIndexInv == IndexInit => IndexInv
<1> SUFFICES ASSUME IndexInit PROVE IndexInv
  OBVIOUS
<1>1. IInv
  BY InitIInv DEF IndexInit
<1>2. WALNosInv
  BY DEF IndexInit, Init, WALNosInv
<1>3. ViewsInv
  BY <1>1, QueryResults DEF IndexInit, ViewsInv, Watching, WatchState, Tables
<1>4. GetsInv
  BY DEF IndexInit, IdleGet, GetsInv, GetState, GetInv
<1>5. QED
  BY <1>1, <1>2, <1>3, <1>4 DEF IndexInv

\* Every step preserves the invariant.
LEMMA NextIndexInv == IndexInv /\ [IndexNext]_indexVars => IndexInv'
<1> SUFFICES ASSUME IndexInv, [IndexNext]_indexVars PROVE IndexInv'
  OBVIOUS
<1> USE DEF IndexInv
<1>1. CASE ChangeWALs \/ ChangeRuns \/ Elsewhere
  <2>1. Next /\ UNCHANGED <<view, get>>
    BY <1>1 DEF ChangeWALs, ChangeRuns, Elsewhere, Next, AddWriteAheadLog, MaybeCompactWAL, Work
  <2>2. /\ IInv' /\ WALNosInv'
        /\ Committed \subseteq Committed' /\ runs \subseteq runs'
        /\ \A b \in Committed : seqNo'[b] = seqNo[b]
    BY <2>1, DatabaseStep
  <2>3. GetsInv'
    BY <2>1, <2>2, GetsFrame
  <2>4. ViewsInv'
    BY <1>1, <2>1, <2>2, NotifyStep, ViewsFrame DEF ChangeWALs, ChangeRuns, Elsewhere
  <2>5. QED
    BY <2>2, <2>3, <2>4
<1>2. ASSUME UNCHANGED vars
      PROVE  /\ IInv' /\ WALNosInv'
             /\ UNCHANGED <<view, watch>> => ViewsInv'
             /\ UNCHANGED get => GetsInv'
  <2>1. /\ IInv' /\ WALNosInv'
        /\ Committed \subseteq Committed' /\ runs \subseteq runs'
        /\ \A b \in Committed : seqNo'[b] = seqNo[b]
    BY <1>2, DatabaseStep
  <2>2. QED
    BY <2>1, ViewsFrame, GetsFrame
<1>3. ASSUME NEW t \in Tables, Watcher(t) PROVE IndexInv'
  <2>1. UNCHANGED <<vars, get>>
    BY <1>3 DEF Watcher, Load, Listen, WaitForNotification, QueryTable, StoreView
  <2>2. QED
    BY <1>2, <1>3, <2>1, WatcherStep
<1>4. ASSUME NEW g \in Gets, BatchGet(g) PROVE IndexInv'
  <2>1. UNCHANGED <<vars, view, watch>>
    BY <1>4 DEF BatchGet, StartGet, LookupWAL, LoadRuns, LookupRun, FinishGet
  <2>2. GetsInv'
    BY <1>4, StartGetStep, LookupWALStep, LoadRunsStep, LookupRunStep, FinishGetStep
       DEF BatchGet
  <2>3. QED
    BY <1>2, <2>1, <2>2
<1>5. ASSUME Fail, UNCHANGED <<walVars, orch, job, exec, runVars>>
      PROVE  /\ IInv' /\ WALNosInv'
             /\ Committed' = Committed /\ runs' = runs /\ seqNo' = seqNo
             /\ UNCHANGED <<view, watch>> => ViewsInv'
             /\ UNCHANGED get => GetsInv'
  BY <1>5, FailureStep, ViewsFrame, GetsFrame
<1>6. ASSUME NEW t \in Tables, RefreshFails(t) \/ LoseConnection(t) PROVE IndexInv'
  <2>1. Fail /\ UNCHANGED <<walVars, orch, job, exec, runVars>> /\ UNCHANGED get
    BY <1>6 DEF RefreshFails, LoseConnection
  <2>2. QED
    BY <1>5, <1>6, <2>1, WatcherFailsStep
<1>7. ASSUME Restart PROVE IndexInv'
  <2>1. Fail /\ UNCHANGED <<walVars, orch, job, exec, runVars>>
    BY <1>7 DEF Restart
  <2>2. QED
    BY <1>5, <1>7, <2>1, RestartStep
<1>8. ASSUME NEW g \in Gets, CacheFails(g) PROVE IndexInv'
  <2>1. /\ Fail /\ UNCHANGED <<walVars, orch, job, exec, runVars>> /\ UNCHANGED <<view, watch>>
        /\ get' = [get EXCEPT ![g] = [get[g] EXCEPT !.pc = "error", !.todo = {}]]
    BY <1>8 DEF CacheFails, GetsInv
  <2>2. GetsInv'
    BY <1>5, <2>1, GetFailsStep
  <2>3. QED
    BY <1>5, <2>1, <2>2
<1>9. CASE UNCHANGED indexVars
  BY <1>2, <1>9 DEF indexVars
<1>10. QED
  BY <1>1, <1>3, <1>4, <1>6, <1>7, <1>8, <1>9 DEF IndexNext

\* The invariant of the index and its database.
THEOREM IndexInvariance == IndexSpec => []IndexInv
BY InitIndexInv, NextIndexInv, PTL DEF IndexSpec

\* Type correctness of the views, the watchers and the calls: they hold rows
\* of the tables they stand for.
THEOREM IndexTypeCorrect == IndexSpec => []IndexTypeOK
<1>1. IndexInv => IndexTypeOK
  BY DEF IndexInv, IInv, TypeOK, ViewsInv, GetsInv, Committed, IndexTypeOK
<1>2. QED
  BY IndexInvariance, <1>1, PTL

\* A BatchGet that succeeds gives each key what one look at the views it
\* loaded would: the newest WAL, else the newest run, that has the key.
THEOREM LookupCorrect == IndexSpec => []LookupMatchesViews
<1>1. IndexInv => LookupMatchesViews
  <2> SUFFICES ASSUME IndexInv, NEW g \in Gets, get[g].pc = "done", NEW k \in get[g].asked
               PROVE  LET b == Resolve(get[g].wals, get[g].runs, k) IN
                      /\ get[g].version[k] = b
                      /\ k \in Results(g) <=> b # NoBatch /\ k \notin DeletesOf[b]
    BY DEF LookupMatchesViews
  <2>1. /\ get[g].wals \subseteq Committed /\ get[g].runs \subseteq runs
        /\ Resolved(get[g].version[k], get[g].wals, get[g].runs, k)
    BY DEF IndexInv, GetsInv, GetInv
  <2>2. get[g].version[k] = Resolve(get[g].wals, get[g].runs, k)
    BY <2>1, ResolveFinds DEF IndexInv
  <2>3. QED
    BY <2>2 DEF Results
<1>2. QED
  BY IndexInvariance, <1>1, PTL

-----------------------------------------------------------------------------
(* No notification is missed.                                               *)

\* What a query returns grows only by commits that notify.
LEMMA QueryGrows ==
    ASSUME IInv, ChangeRuns \/ ChangeWALs \/ Elsewhere, NEW t \in Tables, NEW x \in Query(t)',
           x \notin Query(t)
    PROVE  (t = "wals" /\ ChangeWALs) \/ (t = "runs" /\ ChangeRuns)
<1>1. ASSUME NEW b \in Batches, UploadWAL(b) \/ InsertWAL(b) \/ AbortWAL(b) PROVE FALSE
  BY <1>1 DEF UploadWAL, InsertWAL, AbortWAL, IInv, TypeOK, runVars, Query, GetWriteAheadLogs, Tables
<1>2. ASSUME NEW b \in Batches, CommitWAL(b) PROVE t = "wals"
  BY <1>2 DEF CommitWAL, runVars, Query, Tables
<1>3. ASSUME NEW o \in Orchestrators, MaybeCompactWAL(o) PROVE FALSE
  BY <1>3 DEF MaybeCompactWAL, ListWALs, MarkWriteAheadLogsAsCompacting, ScheduleJob, TickFails,
       walVars, runVars, Query, GetWriteAheadLogs, Tables
<1>4. ASSUME NEW e \in Executors, (\E j \in Jobs : Fetch(e, j)) \/ UploadRun(e) \/ AddSharedRun(e)
                                    \/ DeleteWriteAheadLogs(e) \/ WorkError(e) \/ Crash(e)
      PROVE  FALSE
  BY <1>4 DEF Fetch, UploadRun, AddSharedRun, DeleteWriteAheadLogs, WorkError, Crash,
       walVars, runVars, Query, GetWriteAheadLogs, Tables
<1>5. ASSUME NEW e \in Executors, CommitMerge(e) PROVE t = "runs"
  <2>1. \A b \in Batches : row'[b] = row[b] \/ row'[b] = "gone"
    BY <1>5, MergedRows DEF IInv
  <2>2. QED
    BY <2>1 DEF Query, GetWriteAheadLogs, Tables
<1>6. ASSUME NEW j \in Jobs, Rescue(j) PROVE FALSE
  BY <1>6 DEF Rescue, walVars, runVars, Query, GetWriteAheadLogs, Tables
<1>7. QED
  BY <1>1, <1>2, <1>3, <1>4, <1>5, <1>6 DEF ChangeWALs, ChangeRuns, Elsewhere, MaybeCompactWAL

\* What a notification does to the watcher of its table.
LEMMA Notified ==
    ASSUME ViewsInv, NEW t \in Tables, Notify(t)
    PROVE  /\ watch'[t].pc = watch[t].pc /\ watch'[t].seen = watch[t].seen
           /\ Listening(t) => watch'[t].pending > 0 /\ watch'[t].lost = watch[t].lost
           /\ ~ Listening(t) => watch'[t].lost
<1>1. watch[t] \in WatchState /\ watch \in [Tables -> WatchState]
  BY DEF ViewsInv
<1>2. watch[t].pending \in Nat /\ watch[t].lost \in BOOLEAN
  BY <1>1 DEF WatchState
<1>3. CASE Listening(t)
  <2>1. watch' = [watch EXCEPT ![t].pending = watch[t].pending + 1, ![t].lost = watch[t].lost]
    BY <1>2, <1>3 DEF Notify
  <2>2. QED
    BY <1>1, <1>2, <1>3, <2>1 DEF WatchState
<1>4. CASE ~ Listening(t)
  <2>1. watch' = [watch EXCEPT ![t].pending = watch[t].pending, ![t].lost = TRUE]
    BY <1>2, <1>4 DEF Notify
  <2>2. QED
    BY <1>1, <1>2, <1>4, <2>1 DEF WatchState
<1>5. QED
  BY <1>3, <1>4

\* A step of the database notifies the channel of a table or leaves it alone.
LEMMA NotifiesOrNot ==
    ASSUME ViewsInv, ChangeWALs \/ ChangeRuns \/ Elsewhere, NEW t \in Tables
    PROVE  Notify(t) \/ watch'[t] = watch[t]
BY DEF ViewsInv, ChangeWALs, ChangeRuns, Elsewhere, Notify, Tables

\* A step of the database keeps a refresh due for what a view lacks.
LEMMA DatabaseLag ==
    ASSUME IndexInv, LagInv, ChangeWALs \/ ChangeRuns \/ Elsewhere
    PROVE  LagInv'
<1> DEFINE Lag(t) ==
      /\ watch[t].pc = "down" => watch[t].lost
      /\ watch[t].pc = "queried" =>
           ~ watch[t].lost /\ \A x \in Query(t) : x \in watch[t].seen \/ watch[t].pending > 0
      /\ watch[t].pc = "waiting" /\ ~ watch[t].lost =>
           \A x \in Query(t) : x \in view[t] \/ watch[t].pending > 0
      /\ watch[t].pc \in {"loaded", "deaf"} /\ ~ watch[t].lost => Query(t) \subseteq view[t]
<1> SUFFICES ASSUME NEW t \in Tables PROVE Lag(t)'
  BY DEF LagInv
<1>1. Lag(t) /\ view' = view
  BY DEF LagInv, ChangeWALs, ChangeRuns, Elsewhere
<1>2. CASE Notify(t)
  BY <1>1, <1>2, Notified DEF IndexInv, Listening
<1>3. CASE watch'[t] = watch[t] /\ ~ Notify(t)
  <2>1. ~ (t = "wals" /\ ChangeWALs) /\ ~ (t = "runs" /\ ChangeRuns)
    BY <1>3 DEF ChangeWALs, ChangeRuns
  <2>2. \A x \in Query(t)' : x \in Query(t)
    BY <2>1, QueryGrows DEF IndexInv
  <2>3. QED
    BY <1>1, <1>3, <2>2
<1>4. QED
  BY <1>2, <1>3, NotifiesOrNot DEF IndexInv

\* A step of a watcher does, whether it goes well or not.
LEMMA WatcherLag ==
    ASSUME IndexInv, LagInv, NEW t \in Tables,
           Watcher(t) \/ RefreshFails(t) \/ LoseConnection(t)
    PROVE  LagInv'
<1>1. \A u \in Tables : Query(u)' = Query(u)
  BY DEF Watcher, Load, Listen, WaitForNotification, QueryTable, StoreView, RefreshFails,
     LoseConnection, vars, walVars, runVars, Query, GetWriteAheadLogs
<1>2. DOMAIN view = Tables /\ watch \in [Tables -> WatchState] /\ watch[t] \in WatchState
  BY DEF IndexInv, ViewsInv
<1>3. CASE Load(t)
  BY <1>1, <1>2, <1>3 DEF Load, Watching, LagInv
<1>4. CASE Listen(t)
  <2>1. /\ watch'[t].pc = "waiting" /\ watch'[t].lost = watch[t].lost
        /\ \A u \in Tables : u # t => watch'[u] = watch[u]
    BY <1>2, <1>4 DEF Listen, Watching
  <2>2. view' = view /\ watch[t].pc = "loaded"
    BY <1>4 DEF Listen
  <2>3. QED
    BY <1>1, <2>1, <2>2 DEF LagInv
<1>5. CASE WaitForNotification(t)
  BY <1>1, <1>2, <1>5 DEF WaitForNotification, Watching, LagInv
<1>6. CASE QueryTable(t)
  BY <1>1, <1>2, <1>6 DEF QueryTable, Watching, LagInv
<1>7. CASE StoreView(t)
  BY <1>1, <1>2, <1>7 DEF StoreView, Watching, LagInv
<1>8. CASE RefreshFails(t)
  BY <1>1, <1>2, <1>8 DEF RefreshFails, Watching, LagInv
<1>9. CASE LoseConnection(t)
  <2>1. watch' = [watch EXCEPT ![t] = Watching("deaf", 0, {}, watch[t].lost \/ watch[t].pending > 0)]
    BY <1>9 DEF LoseConnection
  <2>2. /\ watch'[t].pc = "deaf" /\ (watch'[t].lost <=> watch[t].lost \/ watch[t].pending > 0)
        /\ \A u \in Tables : u # t => watch'[u] = watch[u]
    BY <1>2, <2>1 DEF Watching
  <2>3. view' = view /\ watch[t].pc = "waiting"
    BY <1>9 DEF LoseConnection
  <2>4. QED
    BY <1>1, <2>2, <2>3 DEF LagInv
<1>10. QED
  BY <1>3, <1>4, <1>5, <1>6, <1>7, <1>8, <1>9 DEF Watcher

\* Every step keeps a refresh due for what a view lacks.
LEMMA NextLag == IndexInv /\ LagInv /\ [IndexNext]_indexVars => LagInv'
<1> SUFFICES ASSUME IndexInv, LagInv, [IndexNext]_indexVars PROVE LagInv'
  OBVIOUS
<1>1. CASE ChangeWALs \/ ChangeRuns \/ Elsewhere
  BY <1>1, DatabaseLag
<1>2. ASSUME NEW t \in Tables, Watcher(t) \/ RefreshFails(t) \/ LoseConnection(t) PROVE LagInv'
  BY <1>2, WatcherLag
<1>3. CASE Restart
  BY <1>3 DEF Restart, LagInv, Watching
<1>4. ASSUME UNCHANGED <<walVars, runVars, view, watch>> PROVE LagInv'
  BY <1>4 DEF LagInv, Query, GetWriteAheadLogs, walVars, runVars
<1>5. QED
  BY <1>1, <1>2, <1>3, <1>4 DEF IndexNext, BatchGet, StartGet, LookupWAL, LoadRuns, LookupRun,
     FinishGet, CacheFails, indexVars, vars

\* The index with its database, and what its views lack.
LEMMA Lags == IndexSpec => []LagInv
<1>1. IndexInit => LagInv
  <2> SUFFICES ASSUME IndexInit PROVE LagInv
    OBVIOUS
  <2>1. CASE IndexFirst
    BY <2>1 DEF IndexInit, LagInv, Watching
  <2>2. CASE ~ IndexFirst
    BY <2>2 DEF IndexInit, LagInv, Watching
  <2>3. QED
    BY <2>1, <2>2
<1>2. QED
  BY IndexInvariance, NextLag, <1>1, PTL DEF IndexSpec

\* Whenever and however often the index boots, every committed row is in its
\* view or a refresh that will put it there is due, unless a change came
\* between the initial query and LISTEN, a refresh failed or the connection
\* was lost, and no refresh has come since.
THEOREM NoMissedNotification == IndexSpec => []NothingMissed
<1>1. IndexInv /\ LagInv => NothingMissed
  BY DEF IndexInv, ViewsInv, WatchState, LagInv, NothingMissed, Refreshing
<1>2. QED
  BY IndexInvariance, Lags, <1>1, PTL

-----------------------------------------------------------------------------
(***************************************************************************)
(* What views at rest answer.  Nothing notifies a deletion, so that the    *)
(* WALs that a merge deletes stay in the view until the next refresh; they *)
(* hide no newer version of a key, for a WAL that was written since, or a  *)
(* run, would have made the view be refreshed.                             *)
(***************************************************************************)

\* The WALs W, and the runs of the database, resolve every key as it does.
Answers(W) == \A k \in Keys : Resolved(Lookup(k), W, runs, k)

\* A WAL view that has no change to wait for answers as the database.
FreshInv ==
    /\ watch["wals"].pc = "waiting" /\ watch["wals"].pending = 0 /\ ~ watch["wals"].lost =>
         Answers(view["wals"])
    /\ watch["wals"].pc = "loaded" /\ ~ watch["wals"].lost => Answers(view["wals"])
    /\ watch["wals"].pc = "queried" /\ watch["wals"].pending = 0 => Answers(watch["wals"].seen)

\* The invariant of the database holds beside an index that fails.
LEMMA IndexStates == IndexSpec => []StateInv
<1>1. IndexInit => OwnershipInv
  BY InitOwnership DEF IndexInit
<1>2. IndexInv /\ OwnershipInv /\ [IndexNext]_indexVars => OwnershipInv'
  <2> SUFFICES ASSUME IndexInv, OwnershipInv, [IndexNext]_indexVars PROVE OwnershipInv'
    OBVIOUS
  <2>1. CASE [Next]_vars
    BY <2>1, NextOwnership DEF IndexInv
  <2>2. CASE UNCHANGED <<walVars, orch, job, exec, runVars>>
    BY <2>2 DEF OwnershipInv, OwnerInv, AttemptsInv, TakenInv, AloneInv, Alone, walVars
  <2>3. QED
    BY <2>1, <2>2 DEF IndexNext, ChangeWALs, ChangeRuns, Elsewhere, Next, AddWriteAheadLog,
       MaybeCompactWAL, Work, Watcher, Load, Listen, WaitForNotification, QueryTable, StoreView,
       RefreshFails, LoseConnection, Restart, BatchGet, StartGet, LookupWAL, LoadRuns, LookupRun,
       FinishGet, CacheFails, indexVars
<1>3. IndexInv /\ OwnershipInv => StateInv
  BY LookupResolves DEF StateInv, IndexInv
<1>4. QED
  BY IndexInvariance, <1>1, <1>2, <1>3, PTL DEF IndexSpec

\* What a query returns answers as the database does.
LEMMA QueryAnswers == StateInv => Answers(GetWriteAheadLogs)
BY DEF StateInv, LookupsInv, Answers

\* WALs that answer as the database go on to while the tables stay.
LEMMA AnswersStay ==
    ASSUME StateInv, StateInv', NEW W, W \subseteq Committed, Answers(W),
           GetWriteAheadLogs' = GetWriteAheadLogs, runs' = runs,
           \A b \in Committed : seqNo'[b] = seqNo[b]
    PROVE  Answers(W)'
<1> SUFFICES ASSUME NEW k \in Keys PROVE Resolved(Lookup(k), W, runs, k)'
  BY DEF Answers
<1>1. Resolved(Lookup(k), W, runs, k)
  BY DEF Answers
<1>2. Lookup(k)' = Lookup(k)
  BY LookupStays DEF Writers, RunsWith
<1>3. /\ Writers(W, k) \subseteq Committed
      /\ \A r \in runs : Writers(r.wals, k) \subseteq Committed
  BY DEF Writers, StateInv, IInv, SourcesInv
<1>4. ASSUME NEW v, NEW S, S \subseteq Committed, IsNewest(v, S) PROVE IsNewest(v, S)'
  BY <1>4 DEF IsNewest
<1>5. ASSUME NEW v, Resolved(v, W, runs, k) PROVE Resolved(v, W, runs, k)'
  BY <1>3, <1>4, <1>5 DEF Resolved, RunsWith, Writers
<1>6. PICK v : v = Lookup(k)
  OBVIOUS
<1>7. QED
  BY <1>1, <1>2, <1>5, <1>6

\* So do WALs that miss none of the table's, through a merge that is not
\* overtaken.
LEMMA MergeAnswers ==
    ASSUME StateInv, StateInv', [Next]_vars, NEW e \in Executors, CommitMerge(e),
           \A k \in Keys : ~ Overtaken(k),
           NEW W, W \subseteq Committed, GetWriteAheadLogs \subseteq W, Answers(W)
    PROVE  Answers(W)'
<1> SUFFICES ASSUME NEW k \in Keys PROVE Resolved(Lookup(k), W, runs, k)'
  BY DEF Answers
<1>1. PICK v \in Batches \cup {NoBatch} :
        v = Lookup(k) /\ Resolved(v, W, runs, k)
  BY DEF Answers, StateInv, LookupsInv
<1>2. Lookup(k)' = v
  BY <1>1, MergeLookups
<1>3. seqNo' = seqNo /\ GetWriteAheadLogs' \subseteq GetWriteAheadLogs
  <2>1. \A b \in Batches : row'[b] = row[b] \/ row'[b] = "gone"
    BY MergedRows DEF StateInv, IInv
  <2>2. QED
    BY <2>1 DEF CommitMerge, GetWriteAheadLogs
<1>4. CASE Writers(W, k) # {}
  <2>1. IsNewest(v, Writers(W, k))
    BY <1>1, <1>4 DEF Resolved
  <2>2. IsNewest(v, Writers(W, k))'
    BY <1>3, <2>1 DEF IsNewest, Writers
  <2>3. QED
    BY <1>2, <2>2 DEF Resolved
<1>5. CASE Writers(W, k) = {}
  <2>1. Writers(GetWriteAheadLogs, k)' = {} /\ Writers(W, k)' = {}
    BY <1>3, <1>5 DEF Writers
  <2>2. Resolved(v, GetWriteAheadLogs, runs, k)'
    BY <1>2 DEF StateInv, LookupsInv
  <2>3. ~ IsNewest(v, Writers(GetWriteAheadLogs, k))'
    BY <2>1 DEF IsNewest
  <2>4. Resolved(v, W, runs, k)'
    BY <2>1, <2>2, <2>3 DEF Resolved
  <2>5. QED
    BY <1>2, <2>4
<1>6. QED
  BY <1>4, <1>5

\* Every step that is not overtaken keeps a WAL view fresh that has no change
\* to wait for.
LEMMA NextFresh ==
    ASSUME IndexInv, LagInv, FreshInv, StateInv, StateInv', [IndexNext]_indexVars,
           [\A k \in Keys : ~ Overtaken(k)]_vars
    PROVE  FreshInv'
<1> DEFINE w == watch["wals"]
<1>1. /\ view["wals"] \subseteq Committed /\ "wals" \in Tables
      /\ DOMAIN view = Tables /\ watch \in [Tables -> WatchState] /\ w \in WatchState
      /\ w.pc = "queried" => w.seen \subseteq Committed
      /\ Query("wals") = GetWriteAheadLogs
  BY DEF IndexInv, ViewsInv, Tables, Query
<1>2. /\ w.pc = "queried" /\ w.pending = 0 => GetWriteAheadLogs \subseteq w.seen
      /\ w.pc = "waiting" /\ w.pending = 0 /\ ~ w.lost => GetWriteAheadLogs \subseteq view["wals"]
      /\ w.pc = "loaded" /\ ~ w.lost => GetWriteAheadLogs \subseteq view["wals"]
  BY <1>1 DEF LagInv
<1>3. ASSUME NEW W, W \subseteq Committed, Answers(W),
             GetWriteAheadLogs' = GetWriteAheadLogs, runs' = runs,
             \A b \in Committed : seqNo'[b] = seqNo[b]
      PROVE  Answers(W)'
  BY <1>3, AnswersStay
<1>4. PICK W1 : W1 = view["wals"]
  OBVIOUS
<1>5. PICK W2 : W2 = w.seen
  OBVIOUS
<1>6. ASSUME UNCHANGED <<view, watch>>,
             GetWriteAheadLogs' = GetWriteAheadLogs, runs' = runs,
             \A b \in Committed : seqNo'[b] = seqNo[b]
      PROVE  FreshInv'
  <2>1. /\ W1 \subseteq Committed /\ Answers(W1) => Answers(W1)'
        /\ W2 \subseteq Committed /\ Answers(W2) => Answers(W2)'
    BY <1>3, <1>6
  <2>2. QED
    BY <1>1, <1>4, <1>5, <1>6, <2>1 DEF FreshInv
<1>7. CASE ChangeWALs
  BY <1>1, <1>7, Notified DEF ChangeWALs, IndexInv, Listening, FreshInv
<1>8. CASE ChangeRuns
  <2>1. PICK e \in Executors : CommitMerge(e)
    BY <1>8 DEF ChangeRuns
  <2>2. Next /\ \A k \in Keys : ~ Overtaken(k)
    <3>1. Next
      BY <2>1 DEF Next, Work
    <3>2. runs' # runs
      BY <2>1, MergeStep DEF StateInv
    <3>3. QED
      BY <3>1, <3>2 DEF vars, runVars
  <2>3. /\ W1 \subseteq Committed /\ GetWriteAheadLogs \subseteq W1 /\ Answers(W1) => Answers(W1)'
        /\ W2 \subseteq Committed /\ GetWriteAheadLogs \subseteq W2 /\ Answers(W2) => Answers(W2)'
    BY <2>1, <2>2, MergeAnswers
  <2>4. view' = view /\ watch'["wals"] = w
    BY <1>1, <1>8 DEF ChangeRuns, Notify
  <2>5. QED
    BY <1>1, <1>2, <1>4, <1>5, <2>3, <2>4 DEF FreshInv
<1>9. CASE Elsewhere
  <2>1. ASSUME NEW b \in Batches, UploadWAL(b) \/ InsertWAL(b) \/ AbortWAL(b)
        PROVE  GetWriteAheadLogs' = GetWriteAheadLogs /\ runs' = runs
    BY <2>1 DEF UploadWAL, InsertWAL, AbortWAL, StateInv, IInv, RowsInv, TypeOK, runVars,
       GetWriteAheadLogs
  <2>2. ASSUME UNCHANGED <<row, runs>>
        PROVE  GetWriteAheadLogs' = GetWriteAheadLogs /\ runs' = runs
    BY <2>2 DEF GetWriteAheadLogs
  <2>3. Next /\ UNCHANGED <<view, watch>>
    BY <1>9 DEF Elsewhere, Next, AddWriteAheadLog, MaybeCompactWAL, Work
  <2>4. \A b \in Committed : seqNo'[b] = seqNo[b]
    BY <2>3, DatabaseStep DEF StateInv
  <2>5. GetWriteAheadLogs' = GetWriteAheadLogs /\ runs' = runs
    BY <1>9, <2>1, <2>2 DEF Elsewhere, ListWALs, MarkWriteAheadLogsAsCompacting, TickFails, Fetch,
       UploadRun, AddSharedRun, DeleteWriteAheadLogs, WorkError, Crash, Rescue, walVars, runVars
  <2>6. QED
    BY <1>6, <2>3, <2>4, <2>5
<1>10. ASSUME UNCHANGED <<walVars, runVars>>
       PROVE  /\ GetWriteAheadLogs' = GetWriteAheadLogs /\ runs' = runs /\ seqNo' = seqNo
              /\ \A W : W \subseteq Committed /\ Answers(W) => Answers(W)'
  <2>1. GetWriteAheadLogs' = GetWriteAheadLogs /\ runs' = runs /\ seqNo' = seqNo
    BY <1>10 DEF walVars, runVars, GetWriteAheadLogs
  <2>2. QED
    BY <1>3, <2>1
<1>11. ASSUME NEW t \in Tables, Watcher(t) \/ RefreshFails(t) \/ LoseConnection(t) PROVE FreshInv'
  <2>1. UNCHANGED <<walVars, runVars>>
    BY <1>11 DEF Watcher, Load, Listen, WaitForNotification, QueryTable, StoreView, RefreshFails,
       LoseConnection, vars
  <2>2. PICK Q : Q = GetWriteAheadLogs
    OBVIOUS
  <2>3. Answers(Q)'
    <3>1. Answers(Q) /\ Q \subseteq Committed
      BY <2>2, QueryAnswers DEF GetWriteAheadLogs, Committed
    <3>2. QED
      BY <1>10, <2>1, <3>1
  <2>4. CASE t # "wals"
    <3>1. watch'["wals"] = w /\ view'["wals"] = view["wals"]
      BY <1>1, <1>11, <2>4 DEF Watcher, Load, Listen, WaitForNotification, QueryTable, StoreView,
         RefreshFails, LoseConnection
    <3>2. QED
      BY <1>1, <1>4, <1>5, <1>10, <2>1, <3>1 DEF FreshInv
  <2>5. CASE t = "wals" /\ Load("wals")
    BY <1>1, <2>2, <2>3, <2>5 DEF Load, Watching, FreshInv
  <2>6. CASE t = "wals" /\ Listen("wals")
    <3>1. watch'["wals"].pc = "waiting" /\ watch'["wals"].lost = w.lost /\ view' = view
      BY <1>1, <2>6 DEF Listen, Watching
    <3>2. w.pc = "loaded"
      BY <2>6 DEF Listen
    <3>3. QED
      BY <1>1, <1>4, <1>10, <2>1, <3>1, <3>2 DEF FreshInv
  <2>7. CASE t = "wals" /\ WaitForNotification("wals")
    BY <1>1, <2>7 DEF WaitForNotification, Watching, FreshInv
  <2>8. CASE t = "wals" /\ QueryTable("wals")
    BY <1>1, <2>2, <2>3, <2>8 DEF QueryTable, Watching, FreshInv
  <2>9. CASE t = "wals" /\ StoreView("wals")
    BY <1>1, <1>5, <1>10, <2>1, <2>9 DEF StoreView, Watching, FreshInv
  <2>10. CASE t = "wals" /\ RefreshFails("wals")
    BY <1>1, <2>10 DEF RefreshFails, Watching, FreshInv
  <2>11. CASE t = "wals" /\ LoseConnection("wals")
    BY <1>1, <2>11 DEF LoseConnection, Watching, FreshInv
  <2>12. QED
    BY <1>11, <2>4, <2>5, <2>6, <2>7, <2>8, <2>9, <2>10, <2>11 DEF Watcher
<1>12. CASE Restart
  BY <1>12 DEF Restart, Watching, FreshInv, Tables
<1>13. ASSUME UNCHANGED <<walVars, runVars>>, UNCHANGED <<view, watch>> PROVE FreshInv'
  BY <1>6, <1>10, <1>13
<1>14. QED
  BY <1>7, <1>8, <1>9, <1>11, <1>12, <1>13 DEF IndexNext, BatchGet, StartGet, LookupWAL, LoadRuns,
     LookupRun, FinishGet, CacheFails, indexVars, vars

\* Beside a database none of whose steps is overtaken, views that wait for no
\* notification and have lost none answer with the newest version where the
\* tables do, although the deletion of merged WALs is never notified.
THEOREM QuietViews ==
    IndexSpec /\ [][\A k \in Keys : ~ Overtaken(k)]_vars => []QuietViewsAreCurrent
<1>1. IndexInit => FreshInv
  <2> SUFFICES ASSUME IndexInit PROVE FreshInv
    OBVIOUS
  <2>1. IndexFirst => view["wals"] = GetWriteAheadLogs
    BY DEF IndexInit, Tables, Query
  <2>2. StateInv
    BY InitIndexInv, InitOwnership, LookupResolves DEF IndexInit, IndexInv, StateInv
  <2>3. QED
    BY <2>1, <2>2, QueryAnswers DEF IndexInit, Watching, FreshInv, Tables
<1>2. IndexInv /\ LagInv /\ FreshInv /\ StateInv => QuietViewsAreCurrent
  <2> SUFFICES ASSUME IndexInv, LagInv, FreshInv, StateInv, AtRest("wals"), AtRest("runs"),
                      NEW k \in Keys
               PROVE  Resolve(view["wals"], view["runs"], k) = Lookup(k)
    BY DEF QuietViewsAreCurrent
  <2>1. view["runs"] = runs
    <3>1. "runs" \in Tables /\ Query("runs") = runs /\ view["runs"] \subseteq runs
      BY DEF IndexInv, ViewsInv, Query, Tables
    <3>2. \A r \in runs : r \in view["runs"]
      BY <3>1 DEF LagInv, AtRest
    <3>3. QED
      BY <3>1, <3>2
  <2>2. Resolved(Lookup(k), view["wals"], runs, k) /\ view["wals"] \subseteq Committed
    BY DEF FreshInv, AtRest, Answers, IndexInv, ViewsInv
  <2>3. QED
    BY <2>1, <2>2, ResolveFinds DEF IndexInv
<1>3. QED
  BY IndexInvariance, Lags, IndexStates, NextFresh, <1>1, <1>2, PTL DEF IndexSpec

=============================================================================
