--------------------------------- MODULE Cache ---------------------------------
(***************************************************************************)
(* The cache of one cache process (internal/cache/handler.go): objects by  *)
(* path, limited in bytes by sizeAwareCache and, underneath, in number by  *)
(* the LRU list it is built on, and the calls of Get that share it.  A     *)
(* call holds the handler's mutex from the lookup until the object it      *)
(* downloaded is stored.  Objects never change and are never deleted.      *)
(***************************************************************************)
EXTENDS Integers, Sequences, FiniteSets, FiniteSetsExt, SequencesExt

CONSTANTS
    Callers,   \* the goroutines that run Get
    Paths,     \* the objects in the object store
    SizeOf,    \* SizeOf[p]: the bytes of object p
    MaxSize,   \* Config.MaxSizeBytes
    MaxItems   \* the item limit of the LRU list, 1024 in the code

ASSUME CacheAssumption ==
    /\ SizeOf \in [Paths -> Nat \ {0}]
    /\ MaxSize \in Nat
    /\ MaxItems \in Nat \ {0}

VARIABLES
    cache,         \* the paths in the LRU list, oldest first
    currentSize,   \* sizeAwareCache.currentSize
    locked,        \* handler.mu is held for longer than a step
    call           \* call[c]: where a call of Get is, and its object

cacheVars == <<cache, currentSize>>
vars == <<cacheVars, locked, call>>

Cached == ToSet(cache)

TotalSize(S) == MapThenSumSet(LAMBDA p : SizeOf[p], S)

\* The bytes the cached objects really take.
Bytes == TotalSize(Cached)

\* A call outside of Get is at any path.
CallState == [pc : {"idle", "locking", "downloading"}, path : Paths]

TypeOK ==
    /\ cache \in Seq(Paths)
    /\ currentSize \in Nat
    /\ locked \in BOOLEAN
    /\ call \in [Callers -> CallState]

Init ==
    /\ cache = <<>>
    /\ currentSize = 0
    /\ locked = FALSE
    /\ \E p \in Paths : call = [c \in Callers |-> [pc |-> "idle", path |-> p]]

-----------------------------------------------------------------------------
(* sizeAwareCache.add.                                                      *)

\* Mutant: the loop makes no room for the new object.
EvictionsBefore(list, counted, n) ==
    LET Left(i) == counted - TotalSize(ToSet(SubSeq(list, 1, i)))
    IN  Min({i \in 0..Len(list) : Left(i) =< MaxSize \/ i = Len(list)})

\* The number of oldest objects the loop removes before one of size n fits:
\* it stops as soon as the counted size allows, or at an empty list.
Evictions(list, counted, n) ==
    LET Left(i) == counted - TotalSize(ToSet(SubSeq(list, 1, i)))
    IN  Min({i \in 0..Len(list) : Left(i) + n =< MaxSize \/ i = Len(list)})

\* A path is in the list once at most.
MoveToFront(list, p) == Append(RemoveFirst(list, p), p)

\* Mutant: a full list refuses the object.
LRUAddIfRoom(list, p) == IF Len(list) >= MaxItems THEN list ELSE MoveToFront(list, p)

\* lru.Cache.Add: for a new key a full list drops its oldest entry, and the
\* size of that entry stays in currentSize.
LRUAdd(list, p) ==
    MoveToFront(IF Len(list) >= MaxItems /\ ~ Contains(list, p) THEN Tail(list) ELSE list, p)

\* An object that is in the list already is first taken out of the count.
Add(p) ==
    LET list == IF p \in Cached THEN MoveToFront(cache, p) ELSE cache
        counted == IF p \in Cached THEN currentSize - SizeOf[p] ELSE currentSize
        i == Evictions(list, counted, SizeOf[p])
    IN  IF SizeOf[p] > MaxSize
          THEN UNCHANGED cacheVars
          ELSE /\ cache' = LRUAdd(SubSeq(list, i + 1, Len(list)), p)
               /\ currentSize' = counted + SizeOf[p] - TotalSize(ToSet(SubSeq(list, 1, i)))

-----------------------------------------------------------------------------
(* Get.                                                                     *)

\* A request for object p: it asks for the mutex.
Request(c, p) ==
    /\ call[c].pc = "idle"
    /\ call' = [call EXCEPT ![c] = [pc |-> "locking", path |-> p]]
    /\ UNCHANGED <<cacheVars, locked>>

Return(c) == call' = [call EXCEPT ![c].pc = "idle"]

\* A hit makes the object the most recently used and is answered.
Hit(c) ==
    /\ call[c].path \in Cached
    /\ cache' = MoveToFront(cache, call[c].path)
    /\ Return(c)
    /\ UNCHANGED <<currentSize, locked>>

\* Mutant: the mutex is released before the download.
MissUnlocked(c) ==
    /\ call[c].path \notin Cached
    /\ call' = [call EXCEPT ![c].pc = "downloading"]
    /\ UNCHANGED <<cacheVars, locked>>

\* A miss keeps the mutex for the download.
Miss(c) ==
    /\ call[c].path \notin Cached
    /\ locked' = TRUE
    /\ call' = [call EXCEPT ![c].pc = "downloading"]
    /\ UNCHANGED cacheVars

\* The call gets the mutex.
Lookup(c) ==
    /\ call[c].pc = "locking"
    /\ ~ locked
    /\ Hit(c) \/ Miss(c)

\* Mutant: the object is looked up again once it is there.
DownloadedRetrying(c) ==
    /\ call[c].pc = "downloading"
    /\ Add(call[c].path)
    /\ locked' = FALSE
    /\ call' = [call EXCEPT ![c].pc = "locking"]

\* The object is added, also if add refuses it, and the call is answered.
Downloaded(c) ==
    /\ call[c].pc = "downloading"
    /\ Add(call[c].path)
    /\ locked' = FALSE
    /\ Return(c)

\* store.Get or the reader fails, or the call's context is done.
DownloadFails(c) ==
    /\ call[c].pc = "downloading"
    /\ locked' = FALSE
    /\ Return(c)
    /\ UNCHANGED cacheVars

Next ==
    \E c \in Callers :
      \/ \E p \in Paths : Request(c, p)
      \/ Lookup(c)
      \/ Downloaded(c)
      \/ DownloadFails(c)

Spec == Init /\ [][Next]_vars

\* A download ends, and a goroutine that waits for a mutex gets it in the end
\* although others keep taking it: sync.Mutex hands it to the first in line
\* after a millisecond.
FairSpec ==
    Spec /\ \A c \in Callers :
              SF_vars(Lookup(c)) /\ WF_vars(Downloaded(c) \/ DownloadFails(c))

-----------------------------------------------------------------------------
\* The memory limit holds whatever the item limit does to the count: after
\* the list has dropped entries behind its back, sizeAwareCache still never
\* keeps more bytes than it may.
BytesWithinLimit == Bytes =< MaxSize /\ Bytes =< currentSize

\* The count can drift away from the bytes it stands for, but not without
\* bound, and it never makes the cache refuse or drop the object it just
\* loaded.
DriftBounded ==
    [][/\ currentSize' =< 2 * MaxSize
       /\ \A c \in Callers :
            Downloaded(c) /\ SizeOf[call[c].path] =< MaxSize => call[c].path \in Cached']_vars

\* Calls that miss the same object download it once: no call downloads what
\* is in the list by now, so that add never meets a key it has to replace.
DownloadsOnce ==
    \A c \in Callers : call[c].pc = "downloading" => call[c].path \notin Cached

\* Every call is answered, behind the slow or failing downloads of others.
EveryGetReturns == \A c \in Callers : call[c].pc # "idle" ~> call[c].pc = "idle"

=============================================================================
