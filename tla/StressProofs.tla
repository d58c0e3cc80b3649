------------------------------ MODULE StressProofs ------------------------------
(***************************************************************************)
(* Proofs about the stress tool, for any size of a batch and any number of *)
(* workers: what it records was applied, its lists hold what it recorded,  *)
(* and its alarms are exact.                                               *)
(***************************************************************************)
EXTENDS Stress, ListsAndSums

(***************************************************************************)
(* The inductive invariant.  A call that is still to be answered and has   *)
(* no batch to be applied had it applied; once the phase of the batcher is *)
(* over none of its workers is left to record anything.                    *)
(***************************************************************************)
WorkersInv ==
    /\ \A id \in Ids : worker["batcher"][id] = "calling" /\ id \notin open
         => BatchKeys(id) \subseteq applied
    /\ phase # "batcher" => \A id \in Ids : worker["batcher"][id] \in {"off", "exited"}
    /\ phase # "index" => \A id \in Ids : worker["index"][id] \in {"off", "exited"}

\* Only W keys are recorded as written, only D keys as deleted.
PutsInv == /\ \A k \in written : k[1] = "W"
           /\ \A k \in deleted : k[1] = "D"

StressInv == /\ StressTypeOK
             /\ WorkersInv
             /\ PutsInv
             /\ TrackedIsApplied
             /\ ListsMatchMaps
             /\ AlarmsAreExact

-----------------------------------------------------------------------------
(* Keys and lists.                                                          *)

LEMMA Sizes ==
    /\ TestDataSize \in Nat \ {0}
    /\ \A i \in Nat : i % TestDataSize \in 0..TestDataSize - 1
    /\ \A id \in Ids, j \in Positions : Index(id, j) \in Nat
<1>1. TestDataSize \in Nat \ {0}
  BY StressAssumption DEF TestDataSize
<1>2. \A i \in Nat : i % TestDataSize \in 0..TestDataSize - 1
  BY <1>1
<1>3. ASSUME NEW id \in Ids, NEW j \in Positions PROVE Index(id, j) \in Nat
  <2>1. id \in Nat /\ j \in Nat /\ BatchSize \in Nat
    BY StressAssumption DEF Ids, Positions
  <2>2. id * BatchSize \in Nat
    BY <2>1
  <2>3. QED
    BY <2>1, <2>2 DEF Index
<1>4. QED
  BY <1>1, <1>2, <1>3

LEMMA BatchesHaveKeys ==
    ASSUME NEW id \in Ids
    PROVE  /\ BatchKeys(id) \subseteq Keys
           /\ \A k \in BatchKeys(id) : k[1] = IF id % 2 = 0 THEN "W" ELSE "D"
BY Sizes DEF BatchKeys, Keys

LEMMA KeysFinite == IsFiniteSet(Keys)
<1>1. IsFiniteSet({"W", "D", "U"})
  <2>1. IsFiniteSet({"W"}) /\ IsFiniteSet({"D"}) /\ IsFiniteSet({"U"})
    BY FS_Singleton
  <2>2. IsFiniteSet({"W"} \cup {"D"} \cup {"U"})
    BY <2>1, FS_Union
  <2>3. {"W", "D", "U"} = {"W"} \cup {"D"} \cup {"U"}
    OBVIOUS
  <2>4. QED
    BY <2>2, <2>3
<1>2. IsFiniteSet(0..TestDataSize - 1)
  BY Sizes, FS_Interval
<1>3. QED
  BY <1>1, <1>2, FS_Product DEF Keys

-----------------------------------------------------------------------------
(* Each action preserves the invariant.                                     *)

LEMMA StressInitially ==
    ASSUME Init
    PROVE  StressInv
<1>1. \A id \in Ids : worker["batcher"][id] # "calling"
  BY DEF Init, AllWorkers, Phases
<1>2. WorkersInv
  BY <1>1 DEF WorkersInv, Init, AllWorkers, Phases
<1>3. StressTypeOK
  <2>1. \A l \in {"W", "D"} : lists[l] = <<>>
    BY DEF Init
  <2>2. \A l \in {"W", "D"} : lists[l] \in Seq(Keys) /\ IsInjective(lists[l])
    <3>1. \A e : e = <<>> => e \in Seq(Keys)
      OBVIOUS
    <3>2. \A e : e = <<>> => IsInjective(e)
      BY DEF IsInjective
    <3>3. QED
      BY <2>1, <3>1, <3>2
  <2>3. worker \in [Phases -> [Ids -> {"off", "idle", "calling", "doomed", "exited"}]]
    BY DEF Init, AllWorkers
  <2>4. QED
    <3>1. DOMAIN lists = {"W", "D"} /\ alarms \in Nat /\ calls \in [Phases -> 0..MaxCalls]
      BY StressAssumption DEF Init
    <3>2. phase \in Phases \cup {"between", "done"} /\ stopped \in [Phases -> BOOLEAN]
      BY DEF Init, Phases
    <3>3. \A l \in {"W", "D"} : lists[l] \in Seq(Keys) /\ IsInjective(lists[l])
      BY <2>2
    <3>4. QED
      BY <2>3, <3>1, <3>2, <3>3 DEF StressTypeOK, Init
<1>4. ListsMatchMaps
  BY DEF ListsMatchMaps, Init
<1>5. QED
  BY <1>2, <1>3, <1>4 DEF StressInv, PutsInv, TrackedIsApplied, AlarmsAreExact, Init

\* Worker id of phase p moves to pc, and no other.
LEMMA WorkerMoves ==
    ASSUME StressTypeOK, NEW p \in Phases, NEW id \in Ids,
           NEW pc \in {"off", "idle", "calling", "doomed", "exited"},
           worker' = [worker EXCEPT ![p][id] = pc]
    PROVE  /\ worker' \in [Phases -> [Ids -> {"off", "idle", "calling", "doomed", "exited"}]]
           /\ worker'[p][id] = pc
           /\ \A q \in Phases, i \in Ids : q # p \/ i # id => worker'[q][i] = worker[q][i]
BY DEF StressTypeOK

\* main's own steps, as far as they touch no worker and no map.
LEMMA MainStep ==
    ASSUME StressInv,
           \/ Interrupt
           \/ \E p \in Phases : Stop(p) \/ End(p)
    PROVE  StressInv'
<1>1. UNCHANGED <<config, worker, tracked, alarms, system, calls, answers>>
  BY DEF Interrupt, Stop, End
<1>2. StressTypeOK'
  <2>1. StressTypeOK /\ UNCHANGED <<service, readMode, worker, written, deleted, lists,
                                    alarms, open, applied, calls, missed,
                                    deletionsRead>>
    BY <1>1 DEF StressInv, config, tracked, system, answers
  <2>2. /\ phase' \in Phases \cup {"between", "done"}
        /\ cancelled' \in BOOLEAN
        /\ stopped' \in [Phases -> BOOLEAN]
    BY <2>1 DEF StressTypeOK, Interrupt, Stop, End, Phases
  <2>3. QED
    BY <2>1, <2>2 DEF StressTypeOK
<1>3. /\ phase' # "batcher" => \/ phase # "batcher"
                               \/ \A id \in Ids : worker["batcher"][id] = "exited"
      /\ phase' = "index" => phase = "index"
      /\ phase' # "index" => \/ phase # "index"
                             \/ \A id \in Ids : worker["index"][id] = "exited"
  BY DEF Interrupt, Stop, End, Phases
<1>4. \A id \in Ids : BatchKeys(id)' = BatchKeys(id)
  BY DEF BatchKeys
<1>5. QED
  BY <1>1, <1>2, <1>3 DEF StressInv, WorkersInv, PutsInv, TrackedIsApplied, ListsMatchMaps,
     AlarmsAreExact, config, tracked, system, answers

\* The lists are made from the maps, which are finite.
LEMMA StartIndexStep ==
    ASSUME StressInv, StartIndex
    PROVE  StressInv'
<1>1. PICK w \in SetToSeqs(written), d \in SetToSeqs(deleted) : lists' = [W |-> w, D |-> d]
  BY DEF StartIndex
<1>2. IsFiniteSet(written) /\ IsFiniteSet(deleted)
  BY KeysFinite, FS_Subset DEF StressInv, StressTypeOK
<1>3. /\ w \in Seq(written) /\ ToSet(w) = written /\ IsInjective(w)
      /\ d \in Seq(deleted) /\ ToSet(d) = deleted /\ IsInjective(d)
  BY <1>2, ListOfSet
<1>4. /\ DOMAIN lists' = {"W", "D"} /\ lists'["W"] = w /\ lists'["D"] = d
      /\ UNCHANGED <<config, cancelled, stopped, written, deleted, alarms, system, calls, answers>>
      /\ phase = "between" /\ phase' = "index"
  BY <1>1 DEF StartIndex
<1>5. /\ worker' \in [Phases -> [Ids -> {"off", "idle", "calling", "doomed", "exited"}]]
      /\ worker'["batcher"] = worker["batcher"]
  BY DEF StartIndex, AllWorkers, StressInv, StressTypeOK, Phases
<1>6. StressTypeOK'
  <2>1. \A l \in {"W", "D"} : lists'[l] \in Seq(Keys) /\ IsInjective(lists'[l])
    <3>1. written \subseteq Keys /\ deleted \subseteq Keys
      BY DEF StressInv, StressTypeOK
    <3>2. w \in Seq(Keys) /\ d \in Seq(Keys)
      BY <1>3, <3>1, SeqMonotonic
    <3>3. QED
      BY <1>3, <1>4, <3>2
  <2>2. QED
    BY <1>4, <1>5, <2>1 DEF StressInv, StressTypeOK, Phases, config, system, answers
<1>7. ListsMatchMaps'
  BY <1>3, <1>4 DEF ListsMatchMaps
<1>8. WorkersInv'
  BY <1>4, <1>5 DEF StressInv, WorkersInv, system
<1>9. QED
  BY <1>4, <1>6, <1>7, <1>8 DEF StressInv, PutsInv, TrackedIsApplied, AlarmsAreExact, system, answers

\* A step of one worker that records nothing and after which it has no call.
LEMMA QuietStep ==
    ASSUME StressInv, NEW p \in Phases, NEW id \in Ids,
           NEW pc \in {"idle", "exited"},
           worker' = [worker EXCEPT ![p][id] = pc],
           worker[p][id] # "off",
           worker[p][id] = "exited" => pc = "exited",
           UNCHANGED <<config, phase, cancelled, stopped, tracked, alarms, system, calls, answers>>
    PROVE  StressInv'
<1>1. /\ worker' \in [Phases -> [Ids -> {"off", "idle", "calling", "doomed", "exited"}]]
      /\ worker'[p][id] = pc
      /\ \A q \in Phases, i \in Ids : q # p \/ i # id => worker'[q][i] = worker[q][i]
  BY DEF StressInv, StressTypeOK
<1>2. StressTypeOK'
  BY <1>1 DEF StressInv, StressTypeOK, config, tracked, system, answers
<1>3. WorkersInv'
  BY <1>1 DEF StressInv, WorkersInv, Phases, system
<1>4. QED
  BY <1>2, <1>3 DEF StressInv, PutsInv, TrackedIsApplied, ListsMatchMaps, AlarmsAreExact,
     tracked, system, answers

\* A call of a cancelled context brings no batch with it, and waits for none.
LEMMA CallStep ==
    ASSUME StressInv, NEW p \in Phases, NEW id \in Ids, Call(p, id)
    PROVE  StressInv'
<1> DEFINE pc == IF cancelled THEN "doomed" ELSE "calling"
<1>1. /\ worker' = [worker EXCEPT ![p][id] = pc]
      /\ worker[p][id] = "idle"
      /\ UNCHANGED <<config, phase, cancelled, stopped, tracked, alarms, applied, answers>>
  BY DEF Call
<1>2. /\ worker' \in [Phases -> [Ids -> {"off", "idle", "calling", "doomed", "exited"}]]
      /\ worker'[p][id] = pc
      /\ \A q \in Phases, i \in Ids : q # p \/ i # id => worker'[q][i] = worker[q][i]
  <2>1. StressTypeOK /\ pc \in {"off", "idle", "calling", "doomed", "exited"}
    BY DEF StressInv
  <2> HIDE DEF pc
  <2>2. QED
    BY <1>1, <2>1, WorkerMoves
<1>3. calls' \in [Phases -> 0..MaxCalls]
  BY StressAssumption DEF Call, StressInv, StressTypeOK
<1>4. /\ open \subseteq open' /\ open' \subseteq Ids
      /\ p = "batcher" /\ ~ cancelled => id \in open'
  BY DEF Call, StressInv, StressTypeOK
<1>5. StressTypeOK'
  BY <1>1, <1>2, <1>3, <1>4 DEF StressInv, StressTypeOK, config, tracked, answers
<1>6. WorkersInv'
  BY <1>1, <1>2, <1>4 DEF StressInv, WorkersInv, Phases
<1>7. QED
  BY <1>1, <1>5, <1>6 DEF StressInv, PutsInv, TrackedIsApplied, ListsMatchMaps, AlarmsAreExact,
     tracked, answers

LEMMA ApplyStep ==
    ASSUME StressInv, NEW id \in Ids, Apply(id)
    PROVE  StressInv'
<1>1. /\ open' = open \ {id}
      /\ applied' = applied \cup BatchKeys(id)
      /\ UNCHANGED <<config, phase, cancelled, stopped, worker, tracked, alarms, calls, answers>>
  BY DEF Apply
<1>2. StressTypeOK'
  BY <1>1, BatchesHaveKeys DEF StressInv, StressTypeOK, config, tracked, answers
<1>3. WorkersInv'
  BY <1>1 DEF StressInv, WorkersInv, BatchKeys
<1>4. QED
  BY <1>1, <1>2, <1>3 DEF StressInv, PutsInv, TrackedIsApplied, ListsMatchMaps, AlarmsAreExact,
     tracked, answers

\* The batch of an acknowledged call was applied while the call waited.
LEMMA WriteAckedStep ==
    ASSUME StressInv, NEW id \in Ids, WriteAcked(id)
    PROVE  StressInv'
<1>1. /\ worker' = [worker EXCEPT !["batcher"][id] = "idle"]
      /\ worker["batcher"][id] = "calling"
      /\ id \notin open
      /\ UNCHANGED <<config, phase, cancelled, stopped, lists, alarms, system, calls, answers>>
  BY DEF WriteAcked, Return
<1>2. /\ worker' \in [Phases -> [Ids -> {"off", "idle", "calling", "doomed", "exited"}]]
      /\ worker'["batcher"][id] = "idle"
      /\ \A i \in Ids : i # id => worker'["batcher"][i] = worker["batcher"][i]
  <2>1. StressTypeOK /\ "batcher" \in Phases
    BY DEF StressInv, Phases
  <2>2. QED
    <3>1. "idle" \in {"off", "idle", "calling", "doomed", "exited"}
      OBVIOUS
    <3> DEFINE W == worker' \in [Phases -> [Ids -> {"off", "idle", "calling", "doomed", "exited"}]]
    <3>2. /\ W /\ worker'["batcher"][id] = "idle"
          /\ \A q \in Phases, i \in Ids : q # "batcher" \/ i # id => worker'[q][i] = worker[q][i]
      BY <1>1, <2>1, <3>1, WorkerMoves, Zenon
    <3>3. QED
      BY <2>1, <3>2
<1>3. BatchKeys(id) \subseteq applied /\ phase = "batcher"
  BY <1>1 DEF StressInv, WorkersInv
<1>4. /\ written \subseteq written' /\ deleted \subseteq deleted'
      /\ written' \cup deleted' \subseteq written \cup deleted \cup BatchKeys(id)
      /\ \A k \in written' : k \in written \/ k[1] = "W"
      /\ \A k \in deleted' : k \in deleted \/ k[1] = "D"
  BY BatchesHaveKeys DEF WriteAcked, Track
<1>5. StressTypeOK'
  <2>1. StressTypeOK /\ UNCHANGED <<service, readMode, phase, cancelled, stopped, lists,
                                    alarms, open, applied, calls, missed,
                                    deletionsRead>>
    BY <1>1 DEF StressInv, config, system, answers
  <2>2. written' \subseteq Keys /\ deleted' \subseteq Keys
    BY <1>4, <2>1, BatchesHaveKeys DEF StressTypeOK
  <2>3. QED
    BY <1>2, <2>1, <2>2 DEF StressTypeOK
<1>6. WorkersInv'
  BY <1>1, <1>2, <1>3 DEF StressInv, WorkersInv, system
<1>7. TrackedIsApplied'
  BY <1>1, <1>3, <1>4 DEF StressInv, TrackedIsApplied, system
<1>8. ListsMatchMaps'
  BY <1>1, <1>3 DEF ListsMatchMaps
<1>9. QED
  BY <1>1, <1>4, <1>5, <1>6, <1>7, <1>8 DEF StressInv, PutsInv, AlarmsAreExact, answers

\* A key read from a list is one that was recorded, with the letter of the
\* list; the others are not written at all.
LEMMA KeysRead ==
    ASSUME StressInv, phase = "index", NEW id \in Ids, NEW j \in Positions
    PROVE  \/ ReadKey(id, j) \in written /\ ReadKey(id, j)[1] = "W"
           \/ ReadKey(id, j) \in deleted /\ ReadKey(id, j)[1] = "D"
           \/ ReadKey(id, j)[1] = "U"
<1> DEFINE i == Index(id, j)
<1>1. i \in Nat
  BY Sizes
<1> HIDE DEF i
<1>2. ListFor(i) \in {"W", "U", "D"}
  <2>1. i % 3 \in 0..2
    BY <1>1
  <2>2. (i % 3) + 1 \in 1..3
    BY <2>1
  <2>3. <<"W", "U", "D">>[(i % 3) + 1] \in {"W", "U", "D"}
    BY <2>2
  <2>4. QED
    BY <2>3 DEF ListFor
<1>3. ASSUME NEW l \in {"W", "D"}, lists[l] # <<>>
      PROVE  lists[l][(i % Len(lists[l])) + 1] \in ToSet(lists[l])
  <2>1. lists[l] \in Seq(Keys)
    BY DEF StressInv, StressTypeOK
  <2>2. Len(lists[l]) \in Nat \ {0}
    BY <1>3, <2>1
  <2>3. i % Len(lists[l]) \in 0..Len(lists[l]) - 1
    <3>1. \A n \in Nat \ {0} : i % n \in 0..n - 1
      BY <1>1
    <3>2. QED
      BY <2>2, <3>1
  <2>4. (i % Len(lists[l])) + 1 \in DOMAIN lists[l]
    BY <2>1, <2>2, <2>3
  <2>5. QED
    BY <2>4 DEF ToSet
<1>4. ToSet(lists["W"]) = written /\ ToSet(lists["D"]) = deleted
  BY DEF StressInv, ListsMatchMaps
<1>5. ReadKey(id, j) = Pick(ListFor(i), i)
  BY DEF ReadKey, i
<1>6. QED
  BY <1>2, <1>3, <1>4, <1>5 DEF Pick, StressInv, PutsInv

\* The incorrect positions are those of the puts left out and those of the
\* deleted keys.
LEMMA IncorrectPositions ==
    ASSUME StressInv, phase = "index", NEW id \in Ids, NEW results \in SUBSET Found(id)
    PROVE  /\ Incorrect(id, results) = MissedAt(id, results) \cup DeletedAt(id)
           /\ MissedAt(id, results) \cap DeletedAt(id) = {}
<1>1. \A j \in Positions : ReadKey(id, j) \in Found(id) =>
        ReadKey(id, j)[1] = "W"
  BY DEF Found
<1>2. \A j \in Positions : ReadKey(id, j) \in written => ReadKey(id, j) \in Found(id)
  BY DEF Found, StressInv, TrackedIsApplied, PutsInv
<1>3. \A j \in Positions : ReadKey(id, j) \in results => ReadKey(id, j) \in Found(id)
  OBVIOUS
<1>4. \A j \in Positions :
        \/ ReadKey(id, j) \in written /\ ReadKey(id, j)[1] = "W"
        \/ ReadKey(id, j) \in deleted /\ ReadKey(id, j)[1] = "D"
        \/ ReadKey(id, j)[1] = "U"
  BY KeysRead
<1>5. \A k \in written : k[1] = "W" /\ \A d \in deleted : d[1] = "D"
  BY DEF StressInv, PutsInv
<1>6. \A k \in deleted : k[1] = "D"
  BY DEF StressInv, PutsInv
<1>7. QED
  BY <1>1, <1>2, <1>3, <1>4, <1>5, <1>6 DEF Incorrect, MissedAt, DeletedAt

LEMMA ReadAnsweredStep ==
    ASSUME StressInv, NEW id \in Ids, ReadAnswered(id)
    PROVE  StressInv'
<1>1. PICK results \in SUBSET Found(id) :
         /\ alarms' = alarms + Cardinality(Incorrect(id, results))
         /\ missed' = missed + Cardinality(MissedAt(id, results))
         /\ deletionsRead' = deletionsRead + Cardinality(DeletedAt(id))
  BY DEF ReadAnswered
<1>2. /\ worker' = [worker EXCEPT !["index"][id] = "idle"]
      /\ worker["index"][id] = "calling"
      /\ UNCHANGED <<config, phase, cancelled, stopped, tracked, system, calls>>
  BY DEF ReadAnswered, Return
<1>3. phase = "index"
  BY <1>2 DEF StressInv, WorkersInv
<1>4. /\ worker' \in [Phases -> [Ids -> {"off", "idle", "calling", "doomed", "exited"}]]
      /\ \A i \in Ids : worker'["batcher"][i] = worker["batcher"][i]
  BY <1>2, WorkerMoves DEF StressInv, Phases
<1>5. /\ Cardinality(MissedAt(id, results)) \in Nat
      /\ Cardinality(DeletedAt(id)) \in Nat
      /\ Cardinality(Incorrect(id, results)) =
           Cardinality(MissedAt(id, results)) + Cardinality(DeletedAt(id))
  <2>1. IsFiniteSet(Positions)
    BY StressAssumption, FS_Interval DEF Positions
  <2>2. MissedAt(id, results) \subseteq Positions /\ DeletedAt(id) \subseteq Positions
    BY DEF MissedAt, DeletedAt
  <2>3. IsFiniteSet(MissedAt(id, results)) /\ IsFiniteSet(DeletedAt(id))
    BY <2>1, <2>2, FS_Subset
  <2>4. Cardinality(MissedAt(id, results)) \in Nat /\ Cardinality(DeletedAt(id)) \in Nat
    BY <2>3, FS_CardinalityType
  <2>5. Cardinality(MissedAt(id, results) \cup DeletedAt(id)) =
          Cardinality(MissedAt(id, results)) + Cardinality(DeletedAt(id))
            - Cardinality(MissedAt(id, results) \cap DeletedAt(id))
    BY <2>3, FS_Union
  <2>6. Cardinality(MissedAt(id, results) \cap DeletedAt(id)) = 0
    BY <1>3, IncorrectPositions, FS_EmptySet
  <2>7. Incorrect(id, results) = MissedAt(id, results) \cup DeletedAt(id)
    BY <1>3, IncorrectPositions
  <2>8. QED
    BY <2>4, <2>5, <2>6, <2>7
<1>6. /\ alarms \in Nat /\ missed \in Nat /\ deletionsRead \in Nat
      /\ alarms = missed + deletionsRead
  BY DEF StressInv, StressTypeOK, AlarmsAreExact
<1>7. /\ alarms' \in Nat /\ missed' \in Nat /\ deletionsRead' \in Nat
      /\ alarms' = missed' + deletionsRead'
  BY <1>1, <1>5, <1>6
<1>8. StressTypeOK'
  BY <1>2, <1>4, <1>7 DEF StressInv, StressTypeOK, config, tracked, system, answers
<1>9. WorkersInv'
  BY <1>2, <1>3, <1>4 DEF StressInv, WorkersInv, system
<1>10. QED
  BY <1>2, <1>7, <1>8, <1>9 DEF StressInv, PutsInv, TrackedIsApplied, ListsMatchMaps,
     AlarmsAreExact, tracked, system

LEMMA StressStep ==
    ASSUME StressInv, [Next]_vars
    PROVE  StressInv'
<1>1. CASE UNCHANGED vars
  BY <1>1 DEF vars, config, tracked, system, answers, StressInv, StressTypeOK, WorkersInv, PutsInv,
     TrackedIsApplied, ListsMatchMaps, AlarmsAreExact, BatchKeys
<1>2. CASE Interrupt \/ \E p \in Phases : Stop(p) \/ End(p)
  BY <1>2, MainStep
<1>3. CASE StartIndex
  BY <1>3, StartIndexStep
<1>4. ASSUME NEW p \in Phases, NEW id \in Ids, Exit(p, id)
      PROVE  StressInv'
  BY <1>4, QuietStep DEF Exit
<1>5. ASSUME NEW p \in Phases, NEW id \in Ids, Call(p, id)
      PROVE  StressInv'
  BY <1>5, CallStep
<1>6. ASSUME NEW id \in Ids, Apply(id)
      PROVE  StressInv'
  BY <1>6, ApplyStep
<1>7. ASSUME NEW id \in Ids, BatchWrite(id)
      PROVE  StressInv'
  <2>1. CASE WriteAcked(id)
    BY <2>1, WriteAckedStep
  <2>2. CASE WriteFails(id)
    BY <2>2, QuietStep DEF WriteFails, Return, Inflight, Phases
  <2>3. QED
    BY <1>7, <2>1, <2>2 DEF BatchWrite
<1>8. ASSUME NEW id \in Ids, BatchGet(id)
      PROVE  StressInv'
  <2>1. CASE ReadAnswered(id)
    BY <2>1, ReadAnsweredStep
  <2>2. CASE ReadFails(id)
    BY <2>2, QuietStep DEF ReadFails, Return, Inflight, Phases
  <2>3. QED
    BY <1>8, <2>1, <2>2 DEF BatchGet
<1>9. QED
  BY <1>1, <1>2, <1>3, <1>4, <1>5, <1>6, <1>7, <1>8 DEF Next

-----------------------------------------------------------------------------
(* The theorems.                                                            *)

\* StressInv holds in every reachable state: main waits for the workers of
\* the batcher before it copies the maps.
THEOREM StressInvariance == Spec => []StressInv
BY StressInitially, StressStep, PTL DEF Spec

\* The variables keep their types, the lists each key once.
THEOREM StressTypes == Spec => []StressTypeOK
<1>1. StressInv => StressTypeOK
  BY DEF StressInv
<1>2. QED
  BY <1>1, StressInvariance, PTL

\* batchWrite records only keys that the system has: for any number of
\* workers, whatever fails, is interrupted or is applied late.
THEOREM RecordsAreApplied == Spec => []TrackedIsApplied
<1>1. StressInv => TrackedIsApplied
  BY DEF StressInv
<1>2. QED
  BY <1>1, StressInvariance, PTL

\* The index workers read maps that no longer change, and lists that hold
\* the same keys.
THEOREM ListsAgree == Spec => []ListsMatchMaps
<1>1. StressInv => ListsMatchMaps
  BY DEF StressInv
<1>2. QED
  BY <1>1, StressInvariance, PTL

\* The verification errors are, for any sizes and any failures, as many as
\* the positions whose answer left out an applied put and those of deleted
\* keys: neither more nor fewer.
THEOREM NoFalseAlarms == Spec => []AlarmsAreExact
<1>1. StressInv => AlarmsAreExact
  BY DEF StressInv
<1>2. QED
  BY <1>1, StressInvariance, PTL

=============================================================================
