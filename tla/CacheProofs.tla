------------------------------- MODULE CacheProofs -------------------------------
(***************************************************************************)
(* Proofs about the cache of one process and the calls of Get that share   *)
(* it, for any number of callers and objects, of any sizes, and for any    *)
(* limits: an object in the cache is not downloaded, and the memory limit  *)
(* holds although the count of bytes drifts.                               *)
(***************************************************************************)
EXTENDS Cache, ListsAndSums

(***************************************************************************)
(* The inductive invariant.  The mutex is handed from one step to a later  *)
(* one, so that what it protects is an invariant of its own.  The count    *)
(* and the bytes it stands for come apart in one direction only, and by no *)
(* more than the memory limit.                                             *)
(***************************************************************************)

Downloading(c) == call[c].pc = "downloading"

CallsInv == call \in [Callers -> CallState] /\ locked \in BOOLEAN

\* The mutex is held for longer than a step by a download, and by one.
MutexInv ==
    /\ locked <=> \E c \in Callers : Downloading(c)
    /\ \A c, d \in Callers : Downloading(c) /\ Downloading(d) => c = d

MutualInv == CallsInv /\ MutexInv /\ DownloadsOnce

\* The list holds each object once.
ListInv == cache \in Seq(Paths) /\ IsInjective(cache)

SizeInv ==
    /\ currentSize \in Nat
    /\ BytesWithinLimit
    /\ currentSize =< MaxSize + Bytes

CacheInv == MutualInv /\ ListInv /\ SizeInv

-----------------------------------------------------------------------------
(* What a step does to the record of a call.                                *)

LEMMA ReturnedCall ==
  ASSUME NEW c \in Callers, CallsInv, Return(c)
  PROVE  /\ call' \in [Callers -> CallState]
         /\ call'[c].pc = "idle"
         /\ \A d \in Callers \ {c} : call'[d] = call[d]
  BY DEF CallsInv, CallState, Return

LEMMA MissedCall ==
  ASSUME NEW c \in Callers, CallsInv,
         call' = [call EXCEPT ![c].pc = "downloading"]
  PROVE  /\ call' \in [Callers -> CallState]
         /\ call'[c].pc = "downloading"
         /\ call'[c].path = call[c].path
         /\ \A d \in Callers \ {c} : call'[d] = call[d]
  BY DEF CallsInv, CallState

LEMMA RequestedCall ==
  ASSUME NEW c \in Callers, NEW p \in Paths, CallsInv, Request(c, p)
  PROVE  /\ call' \in [Callers -> CallState]
         /\ call'[c].pc = "locking"
         /\ \A d \in Callers \ {c} : call'[d] = call[d]
  BY DEF CallsInv, CallState, Request

-----------------------------------------------------------------------------
(* The invariant is inductive.                                              *)

LEMMA MutualInitially ==
  ASSUME Init PROVE MutualInv
<1>1. PICK p \in Paths : call = [c \in Callers |-> [pc |-> "idle", path |-> p]]
  BY DEF Init
<1>2. CallsInv
  BY <1>1 DEF Init, CallsInv, CallState
<1>3. \A c \in Callers : ~ Downloading(c)
  BY <1>1 DEF Downloading
<1>4. locked = FALSE
  BY DEF Init
<1> QED
  BY <1>2, <1>3, <1>4 DEF MutualInv, MutexInv, DownloadsOnce, Downloading

\* A request holds nothing yet.
LEMMA RequestStep ==
  ASSUME MutualInv, NEW c \in Callers, NEW p \in Paths, Request(c, p)
  PROVE  MutualInv'
<1>1. /\ call' \in [Callers -> CallState]
      /\ call'[c].pc = "locking"
      /\ \A d \in Callers \ {c} : call'[d] = call[d]
  BY RequestedCall DEF MutualInv
<1>2. UNCHANGED <<cache, locked>> /\ call[c].pc = "idle"
  BY DEF Request, cacheVars
<1>3. \A d \in Callers : Downloading(d)' <=> Downloading(d)
  BY <1>1, <1>2 DEF Downloading
<1>4. \A d \in Callers : Downloading(d)' => call'[d].path = call[d].path
  BY <1>1 DEF Downloading
<1> QED
  BY <1>1, <1>2, <1>3, <1>4
  DEF MutualInv, CallsInv, MutexInv, DownloadsOnce, Downloading, Cached

\* A hit finds the mutex free: nobody downloads while it reorders the list.
LEMMA HitStep ==
  ASSUME MutualInv, NEW c \in Callers, ~ locked, Hit(c)
  PROVE  MutualInv'
<1>1. /\ call' \in [Callers -> CallState]
      /\ call'[c].pc = "idle"
      /\ \A d \in Callers \ {c} : call'[d] = call[d]
  BY ReturnedCall DEF MutualInv, Hit
<1>2. \A d \in Callers : ~ Downloading(d) /\ ~ Downloading(d)'
  BY <1>1 DEF MutualInv, MutexInv, Downloading
<1>3. locked' = locked
  BY DEF Hit
<1> QED
  BY <1>1, <1>2, <1>3 DEF MutualInv, CallsInv, MutexInv, DownloadsOnce, Downloading

\* A miss takes the mutex and is the one that downloads from then on.
LEMMA MissStep ==
  ASSUME MutualInv, NEW c \in Callers, ~ locked, Miss(c)
  PROVE  MutualInv'
<1>1. /\ call' \in [Callers -> CallState]
      /\ call'[c].pc = "downloading"
      /\ call'[c].path = call[c].path
      /\ \A d \in Callers \ {c} : call'[d] = call[d]
  BY MissedCall DEF MutualInv, Miss
<1>2. \A d \in Callers : Downloading(d)' <=> d = c
  BY <1>1 DEF MutualInv, MutexInv, Downloading
<1>3. locked' = TRUE /\ cache' = cache /\ call[c].path \notin Cached
  BY DEF Miss, cacheVars
<1>4. CallsInv'
  BY <1>1, <1>3 DEF CallsInv
<1>5. MutexInv'
  BY <1>2, <1>3 DEF MutexInv
<1>6. DownloadsOnce'
  BY <1>1, <1>2, <1>3 DEF DownloadsOnce, Downloading, Cached
<1> QED
  BY <1>4, <1>5, <1>6 DEF MutualInv

\* The end of a download gives the mutex back, whatever became of the object:
\* nobody downloads after it.
LEMMA ReleaseStep ==
  ASSUME MutualInv, NEW c \in Callers,
         Downloading(c), locked' = FALSE, Return(c)
  PROVE  MutualInv'
<1>1. /\ call' \in [Callers -> CallState]
      /\ call'[c].pc = "idle"
      /\ \A d \in Callers \ {c} : call'[d] = call[d]
  BY ReturnedCall DEF MutualInv
<1>2. \A d \in Callers : ~ Downloading(d)'
  BY <1>1 DEF MutualInv, MutexInv, Downloading
<1> QED
  BY <1>1, <1>2 DEF MutualInv, CallsInv, MutexInv, DownloadsOnce, Downloading

LEMMA MutualStep ==
  ASSUME MutualInv, [Next]_vars PROVE MutualInv'
<1>1. CASE UNCHANGED vars
  BY <1>1 DEF vars, cacheVars, MutualInv, CallsInv, MutexInv, DownloadsOnce, Downloading, Cached
<1>2. CASE Next
  <2>1. PICK c \in Callers :
           \/ \E p \in Paths : Request(c, p)
           \/ Lookup(c)
           \/ Downloaded(c)
           \/ DownloadFails(c)
    BY <1>2 DEF Next
  <2>2. CASE \E p \in Paths : Request(c, p)
    BY <2>2, RequestStep
  <2>3. CASE Lookup(c)
    BY <2>3, HitStep, MissStep DEF Lookup
  <2>4. CASE Downloaded(c)
    BY <2>4, ReleaseStep DEF Downloaded, Downloading
  <2>5. CASE DownloadFails(c)
    BY <2>5, ReleaseStep DEF DownloadFails, Downloading
  <2> QED
    BY <2>1, <2>2, <2>3, <2>4, <2>5
<1> QED
  BY <1>1, <1>2

-----------------------------------------------------------------------------
(* Bytes.                                                                   *)

LEMMA TotalSizes ==
    ASSUME NEW S, IsFiniteSet(S), S \subseteq Paths
    PROVE  /\ TotalSize(S) \in Nat
           /\ \A P \in SUBSET S : /\ TotalSize(S) = TotalSize(P) + TotalSize(S \ P)
                                  /\ TotalSize(P) \in Nat
           /\ \A p \in Paths \ S : TotalSize(S \cup {p}) = TotalSize(S) + SizeOf[p]
<1>1. \A T : TotalSize(T) = SumFunctionOnSet(SizeOf, T)
  BY SumOfMap DEF TotalSize
<1>2. \A p \in Paths : SizeOf[p] \in Nat
  BY CacheAssumption
<1>3. TotalSize(S) \in Nat
  BY <1>1, <1>2, SumIsNat
<1>4. ASSUME NEW P \in SUBSET S
      PROVE  TotalSize(S) = TotalSize(P) + TotalSize(S \ P) /\ TotalSize(P) \in Nat
  <2>1. IsFiniteSet(P) /\ \A y \in S : SizeOf[y] \in Nat
    BY <1>2, FS_Subset
  <2>2. SumFunctionOnSet(SizeOf, S) = SumFunctionOnSet(SizeOf, P) + SumFunctionOnSet(SizeOf, S \ P)
    BY <2>1, SumOfParts
  <2>3. SumFunctionOnSet(SizeOf, P) \in Nat
    BY <2>1, SumIsNat
  <2>4. QED
    BY <1>1, <2>2, <2>3
<1>5. ASSUME NEW p \in Paths \ S
      PROVE  TotalSize(S \cup {p}) = TotalSize(S) + SizeOf[p]
  <2>1. \A y \in S : SizeOf[y] \in Nat
    BY <1>2
  <2>2. SumFunctionOnSet(SizeOf, S \cup {p}) = SumFunctionOnSet(SizeOf, S) + SizeOf[p]
    BY <1>2, <2>1, SumWith
  <2>3. QED
    BY <1>1, <2>2
<1>6. QED
  BY <1>3, <1>4, <1>5

LEMMA TotalOfNone == TotalSize({}) = 0
<1>1. TotalSize({}) = SumFunctionOnSet(SizeOf, {})
  BY SumOfMap DEF TotalSize
<1>2. QED
  BY <1>1, SumOfNone

\* An object that becomes the most recently used, new or not.
LEMMA MovedToFront ==
    ASSUME NEW list \in Seq(Paths), IsInjective(list), NEW p \in Paths
    PROVE  /\ MoveToFront(list, p) \in Seq(Paths)
           /\ IsInjective(MoveToFront(list, p))
           /\ ToSet(MoveToFront(list, p)) = ToSet(list) \cup {p}
<1> DEFINE rest == RemoveFirst(list, p)
<1>1. /\ rest \in Seq(Paths) /\ IsInjective(rest)
      /\ ToSet(rest) = ToSet(list) \ {p}
  <2>1. CASE p \in ToSet(list)
    BY <2>1, RemoveFromList
  <2>2. CASE p \notin ToSet(list)
    <3>1. ~ \E i \in 1..Len(list) : list[i] = p
      BY <2>2, ListDomain
    <3>2. rest = list
      BY <3>1 DEF RemoveFirst
    <3>3. QED
      BY <2>2, <3>2
  <2>3. QED
    BY <2>1, <2>2
<1> HIDE DEF rest
<1>2. /\ Append(rest, p) \in Seq(Paths \cup {p})
      /\ IsInjective(Append(rest, p))
      /\ ToSet(Append(rest, p)) = ToSet(rest) \cup {p}
  BY <1>1, AppendToList
<1>3. Paths \cup {p} = Paths
  OBVIOUS
<1>4. QED
  BY <1>1, <1>2, <1>3 DEF MoveToFront, rest

\* The loop of add stops at a number of evictions that makes room, or at an
\* empty list.
LEMMA EvictionsStop ==
    ASSUME NEW list \in Seq(Paths), NEW counted, NEW n
    PROVE  LET i == Evictions(list, counted, n) IN
           /\ i \in 0..Len(list)
           /\ \/ counted - TotalSize(ToSet(SubSeq(list, 1, i))) + n =< MaxSize
              \/ i = Len(list)
<1> DEFINE T == {i \in 0..Len(list) :
                   \/ counted - TotalSize(ToSet(SubSeq(list, 1, i))) + n =< MaxSize
                   \/ i = Len(list)}
<1>1. T \subseteq Nat /\ T # {}
  <2>1. Len(list) \in Nat
    BY ListDomain
  <2>2. Len(list) \in T
    BY <2>1
  <2>3. QED
    BY <2>2
<1>2. Min(T) \in T
  <2> HIDE DEF T
  <2>1. QED
    BY <1>1, MinIsLeast
<1>3. Evictions(list, counted, n) = Min(T)
  BY DEF Evictions
<1>4. QED
  BY <1>2, <1>3

\* add, for an object that is not in the list: the bytes stay within the
\* count and the limit, and only a list that was not evicted empty can make
\* the count drift.
LEMMA AddKeepsSizes ==
    ASSUME ListInv, SizeInv, NEW p \in Paths, p \notin Cached, Add(p)
    PROVE  /\ ListInv' /\ SizeInv'
           /\ SizeOf[p] =< MaxSize => p \in Cached'
<1> DEFINE n == SizeOf[p]
           i == Evictions(cache, currentSize, n)
           a == SubSeq(cache, 1, i)
           b == SubSeq(cache, i + 1, Len(cache))
           c == IF Len(b) >= MaxItems /\ ~ Contains(b, p) THEN Tail(b) ELSE b
<1>1. CASE n > MaxSize
  <2>1. n \in Nat /\ MaxSize \in Nat
    BY CacheAssumption
  <2>2. UNCHANGED cacheVars /\ ~ (n =< MaxSize)
    BY <1>1, <2>1 DEF Add
  <2>3. QED
    BY <2>2 DEF cacheVars, ListInv, SizeInv, BytesWithinLimit, Bytes, Cached
<1>2. CASE ~ (n > MaxSize)
  <2>1. n \in Nat /\ MaxSize \in Nat /\ MaxItems \in Nat \ {0} /\ n =< MaxSize
    BY <1>2, CacheAssumption
  <2>2. /\ cache' = MoveToFront(c, p)
        /\ currentSize' = currentSize + n - TotalSize(ToSet(a))
    BY <1>2 DEF Add, LRUAdd
  <2>3. cache \in Seq(Paths) /\ IsInjective(cache) /\ Cached = ToSet(cache)
    BY DEF ListInv, Cached
  <2>4. /\ i \in 0..Len(cache)
        /\ currentSize - TotalSize(ToSet(a)) + n =< MaxSize \/ i = Len(cache)
    BY <2>3, EvictionsStop
  <2> HIDE DEF i
  <2>5. /\ b \in Seq(Paths) /\ IsInjective(b)
        /\ ToSet(a) \cup ToSet(b) = Cached /\ ToSet(a) \cap ToSet(b) = {}
        /\ ToSet(b) # {} <=> i < Len(cache)
    BY <2>3, <2>4, CutList
  <2> HIDE DEF a, b
  <2>6. /\ c \in Seq(Paths) /\ IsInjective(c) /\ ToSet(c) \subseteq ToSet(b)
        /\ p \notin ToSet(c)
    <3>1. Len(b) >= MaxItems => b # <<>>
      BY <2>1, <2>5, ListDomain
    <3>2. QED
      BY <2>5, <3>1, TailOfList
  <2> HIDE DEF c
  <2>7. cache' \in Seq(Paths) /\ IsInjective(cache') /\ Cached' = ToSet(c) \cup {p}
    BY <2>2, <2>6, MovedToFront DEF Cached
  <2>8. /\ Bytes = TotalSize(ToSet(a)) + TotalSize(ToSet(b))
        /\ TotalSize(ToSet(a)) \in Nat /\ TotalSize(ToSet(b)) \in Nat
        /\ IsFiniteSet(ToSet(b)) /\ ToSet(b) \subseteq Paths
    <3>1. IsFiniteSet(Cached) /\ Cached \subseteq Paths
      BY <2>3, ListCounts, ListDomain
    <3>2. Cached \ ToSet(a) = ToSet(b) /\ ToSet(a) \in SUBSET Cached /\ ToSet(b) \in SUBSET Cached
      BY <2>5
    <3>3. TotalSize(Cached) = TotalSize(ToSet(a)) + TotalSize(Cached \ ToSet(a))
      BY <3>1, <3>2, TotalSizes
    <3>4. QED
      BY <3>1, <3>2, <3>3, TotalSizes, FS_Subset DEF Bytes
  <2>9. Bytes' \in Nat /\ n =< Bytes' /\ Bytes' =< TotalSize(ToSet(b)) + n
    <3>1. /\ IsFiniteSet(ToSet(c)) /\ ToSet(c) \subseteq Paths
          /\ TotalSize(ToSet(c)) \in Nat
          /\ TotalSize(ToSet(c)) =< TotalSize(ToSet(b))
      <4>1. ToSet(c) \in SUBSET ToSet(b)
        BY <2>6
      <4>2. /\ TotalSize(ToSet(b)) = TotalSize(ToSet(c)) + TotalSize(ToSet(b) \ ToSet(c))
            /\ TotalSize(ToSet(c)) \in Nat /\ TotalSize(ToSet(b) \ ToSet(c)) \in Nat
        BY <2>8, <4>1, TotalSizes
      <4>3. IsFiniteSet(ToSet(c)) /\ ToSet(c) \subseteq Paths
        BY <2>8, <4>1, FS_Subset
      <4>4. QED
        BY <4>2, <4>3
    <3>2. TotalSize(ToSet(c) \cup {p}) = TotalSize(ToSet(c)) + n
      BY <2>6, <3>1, TotalSizes
    <3>3. Bytes' = TotalSize(ToSet(c)) + n
      BY <2>7, <3>2 DEF Bytes
    <3>4. QED
      BY <2>1, <2>8, <3>1, <3>3
  <2>10. /\ currentSize \in Nat /\ Bytes =< currentSize
         /\ Bytes =< MaxSize /\ currentSize =< MaxSize + Bytes
    BY DEF SizeInv, BytesWithinLimit
  <2>11. /\ currentSize' \in Nat /\ Bytes' =< currentSize' /\ Bytes' =< MaxSize
         /\ currentSize' =< MaxSize + Bytes'
    <3> HIDE DEF n
    <3>1. CASE currentSize - TotalSize(ToSet(a)) + n =< MaxSize
      BY <2>1, <2>2, <2>8, <2>9, <2>10, <3>1
    <3>2. CASE i = Len(cache)
      <4>1. ToSet(b) = {}
        BY <2>3, <2>4, <2>5, <3>2, ListDomain
      <4>2. TotalSize(ToSet(b)) = 0
        BY <4>1, TotalOfNone
      <4>3. QED
        BY <2>1, <2>2, <2>8, <2>9, <2>10, <4>2
    <3>3. QED
      BY <2>4, <3>1, <3>2
  <2>12. QED
    BY <2>7, <2>11 DEF ListInv, SizeInv, BytesWithinLimit
<1>3. QED
  BY <1>1, <1>2

LEMMA CacheInitially ==
  ASSUME Init PROVE CacheInv
<1>1. cache = <<>> /\ currentSize = 0
  BY DEF Init
<1>2. cache \in Seq(Paths) /\ ToSet(cache) = {}
  BY <1>1 DEF ToSet
<1>3. IsInjective(cache)
  BY <1>1 DEF IsInjective
<1>4. Bytes = 0
  BY <1>2, TotalOfNone DEF Bytes, Cached
<1> QED
  BY <1>1, <1>2, <1>3, <1>4, MutualInitially, CacheAssumption
  DEF CacheInv, ListInv, SizeInv, BytesWithinLimit

\* A hit reorders the list and no more.
LEMMA HitKeepsSizes ==
  ASSUME CacheInv, NEW c \in Callers, Hit(c)
  PROVE  ListInv' /\ SizeInv'
<1>1. /\ cache \in Seq(Paths) /\ IsInjective(cache)
      /\ call[c].path \in ToSet(cache) /\ call[c].path \in Paths
  BY DEF CacheInv, MutualInv, CallsInv, CallState, ListInv, Hit, Cached
<1>2. cache' = MoveToFront(cache, call[c].path) /\ currentSize' = currentSize
  BY DEF Hit
<1>3. /\ cache' \in Seq(Paths) /\ IsInjective(cache')
      /\ ToSet(cache') = ToSet(cache) \cup {call[c].path}
  BY <1>1, <1>2, MovedToFront
<1>4. ToSet(cache') = ToSet(cache)
  BY <1>1, <1>3
<1>5. Bytes' = Bytes
  BY <1>4 DEF Bytes, Cached
<1> QED
  BY <1>2, <1>3, <1>5 DEF CacheInv, ListInv, SizeInv, BytesWithinLimit

\* The end of a download adds an object that is not in the list.
LEMMA DownloadedKeepsSizes ==
  ASSUME CacheInv, NEW c \in Callers, Downloaded(c)
  PROVE  /\ ListInv' /\ SizeInv'
         /\ SizeOf[call[c].path] =< MaxSize => call[c].path \in Cached'
<1>1. call[c].path \in Paths /\ call[c].path \notin Cached /\ Add(call[c].path)
  BY DEF Downloaded, CacheInv, MutualInv, CallsInv, CallState, DownloadsOnce
<1> QED
  BY <1>1, AddKeepsSizes DEF CacheInv

LEMMA CacheStep ==
  ASSUME CacheInv, [Next]_vars PROVE CacheInv'
<1>1. MutualInv'
  BY MutualStep DEF CacheInv
<1>2. ASSUME UNCHANGED cacheVars PROVE ListInv' /\ SizeInv'
  BY <1>2 DEF cacheVars, CacheInv, ListInv, SizeInv, BytesWithinLimit, Bytes, Cached
<1>3. CASE UNCHANGED vars
  BY <1>1, <1>2, <1>3 DEF vars, CacheInv
<1>4. CASE Next
  <2>1. PICK c \in Callers :
           \/ \E p \in Paths : Request(c, p)
           \/ Lookup(c)
           \/ Downloaded(c)
           \/ DownloadFails(c)
    BY <1>4 DEF Next
  <2>2. CASE \E p \in Paths : Request(c, p)
    BY <1>1, <1>2, <2>2 DEF Request, CacheInv
  <2>3. CASE Lookup(c)
    <3>1. CASE Hit(c)
      BY <1>1, <3>1, HitKeepsSizes DEF CacheInv
    <3>2. CASE Miss(c)
      BY <1>1, <1>2, <3>2 DEF Miss, CacheInv
    <3> QED
      BY <2>3, <3>1, <3>2 DEF Lookup
  <2>4. CASE Downloaded(c)
    BY <1>1, <2>4, DownloadedKeepsSizes DEF CacheInv
  <2>5. CASE DownloadFails(c)
    BY <1>1, <1>2, <2>5 DEF DownloadFails, CacheInv
  <2> QED
    BY <2>1, <2>2, <2>3, <2>4, <2>5
<1> QED
  BY <1>3, <1>4

-----------------------------------------------------------------------------
(* The theorems.                                                            *)

\* CacheInv holds in every reachable state: mu serialises what Get does
\* between its lookup in the cache and the end of its download, and every
\* object that add stores leaves the count between the bytes in the list and
\* the memory limit above them.
THEOREM CacheInvariance == Spec => []CacheInv
<1> QED
  BY CacheInitially, CacheStep, PTL DEF Spec

\* The variables keep their types: currentSize, which sizeAwareCache only
\* adds to and subtracts from, never becomes negative.
THEOREM CacheTypes == Spec => []TypeOK
<1>1. CacheInv => TypeOK
  BY DEF CacheInv, MutualInv, CallsInv, ListInv, SizeInv, TypeOK
<1> QED
  BY <1>1, CacheInvariance, PTL

\* Whatever the number of callers and objects, whatever the two limits evict
\* and whichever downloads fail, Get never downloads an object that is in the
\* cache: add is called for a new key only.
THEOREM Downloads == Spec => []DownloadsOnce
<1>1. CacheInv => DownloadsOnce
  BY DEF CacheInv, MutualInv
<1> QED
  BY <1>1, CacheInvariance, PTL

\* The memory limit: whatever the LRU list drops on its own, without
\* sizeAwareCache taking its bytes out of currentSize, the objects that are
\* left never take more than MaxSizeBytes, nor more than the count says.
THEOREM MemoryLimit == Spec => []BytesWithinLimit
<1>1. CacheInv => BytesWithinLimit
  BY DEF CacheInv, SizeInv
<1> QED
  BY <1>1, CacheInvariance, PTL

\* The count drifts by no more than the memory limit, and a download that
\* fits in the cache is in it when Get returns.
THEOREM Drift == Spec => DriftBounded
<1>1. ASSUME CacheInv, [Next]_vars
      PROVE  [/\ currentSize' =< 2 * MaxSize
              /\ \A c \in Callers :
                   Downloaded(c) /\ SizeOf[call[c].path] =< MaxSize
                     => call[c].path \in Cached']_vars
  <2>1. SizeInv'
    BY <1>1, CacheStep DEF CacheInv
  <2>2. /\ currentSize' \in Nat /\ Bytes' =< currentSize'
        /\ Bytes' =< MaxSize /\ currentSize' =< MaxSize + Bytes'
    BY <2>1 DEF SizeInv, BytesWithinLimit
  <2>3. Bytes' \in Nat
    <3>1. cache' \in Seq(Paths) /\ IsInjective(cache')
      BY <1>1, CacheStep DEF CacheInv, ListInv
    <3>2. IsFiniteSet(ToSet(cache')) /\ ToSet(cache') \subseteq Paths
      BY <3>1, ListCounts, ListDomain
    <3>3. TotalSize(ToSet(cache')) \in Nat
      BY <3>2, TotalSizes
    <3> QED
      BY <3>3 DEF Bytes, Cached
  <2>4. currentSize' =< 2 * MaxSize
    <3>1. \A n, b, m \in Nat : b =< m /\ n =< m + b => n =< 2 * m
      OBVIOUS
    <3>2. MaxSize \in Nat
      BY CacheAssumption
    <3> QED
      BY <2>2, <2>3, <3>1, <3>2
  <2>5. \A c \in Callers :
          Downloaded(c) /\ SizeOf[call[c].path] =< MaxSize => call[c].path \in Cached'
    BY <1>1, DownloadedKeepsSizes
  <2> QED
    BY <2>4, <2>5
<1> QED
  BY <1>1, CacheInvariance, PTL DEF Spec, DriftBounded

=============================================================================
