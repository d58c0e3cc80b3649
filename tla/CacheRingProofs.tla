----------------------------- MODULE CacheRingProofs -----------------------------
(***************************************************************************)
(* Proofs about the ring of cache pods, for any pods, whatever the watch   *)
(* reports: members and clients hold the same endpoints, each once, so     *)
(* that every path finds its pods, and a lookup fails only for a cause.    *)
(***************************************************************************)
EXTENDS CacheRing, ListsAndSums

(***************************************************************************)
(* The inductive invariant.  Nothing is assumed about the events: a pod    *)
(* may be reported late, twice, out of order or never.                     *)
(***************************************************************************)

\* The members are the endpoints with a client, each once.
RingInv ==
    /\ members \in Seq(clients)
    /\ IsInjective(members)
    /\ ToSet(members) = clients

\* A lookup has one or two endpoints still to ask, and the steady ones are
\* among them: a pod that failed is not steady.
LookupInv ==
    /\ lookup = [pc |-> lookup.pc, left |-> lookup.left, steady |-> lookup.steady]
    /\ lookup.pc = "asking" => \E a, b : lookup.left \in {<<a, b>>, <<a>>}
    /\ lookup.pc = "asking" => lookup.steady \subseteq ToSet(lookup.left)
    /\ lookup.pc # "asking" => lookup.steady = {}

CacheRingInv == RingInv /\ LookupInv

-----------------------------------------------------------------------------
(* Positions in the ring.                                                   *)

LEMMA DivMod ==
    ASSUME NEW h \in Nat, NEW n \in Nat \ {0}
    PROVE  /\ h % n \in 0..n - 1 /\ h \div n \in Nat
           /\ h = n * (h \div n) + (h % n)
<1>1. h % n \in 0..n - 1
  OBVIOUS
<1>2. h \div n \in Int
  OBVIOUS
<1>3. h = n * (h \div n) + (h % n)
  OBVIOUS
<1>4. h \div n \in Nat
  BY <1>1, <1>2, <1>3
<1>5. QED
  BY <1>1, <1>2, <1>3, <1>4

LEMMA NextPosition ==
    ASSUME NEW h \in Nat, NEW n \in Nat, n >= 2
    PROVE  h % n # (h + 1) % n
<1> DEFINE q == h \div n
           r == (h + 1) \div n
<1>1. /\ h = n * q + (h % n) /\ q \in Nat
      /\ h + 1 = n * r + ((h + 1) % n) /\ r \in Nat
      /\ h % n \in Nat /\ (h + 1) % n \in Nat
  BY DivMod
<1> HIDE DEF q, r
<1>2. SUFFICES ASSUME h % n = (h + 1) % n PROVE FALSE
  OBVIOUS
<1>3. n * r = n * q + 1
  <2>1. n * r \in Int /\ n * q \in Int
    BY <1>1
  <2>2. QED
    BY <1>1, <1>2, <2>1
<1>4. n * (r - q) = 1
  BY <1>1, <1>3
<1>5. r - q >= 1 \/ r - q =< 0
  BY <1>1
<1>6. r - q >= 1 => n * (r - q) >= 2
  BY <1>1
<1>7. r - q =< 0 => n * (r - q) =< 0
  BY <1>1
<1>8. QED
  BY <1>4, <1>5, <1>6, <1>7

-----------------------------------------------------------------------------
(* What a lookup picks.                                                     *)

\* There are as many members as clients.
LEMMA MembersCounted ==
    ASSUME RingInv
    PROVE  /\ Cardinality(clients) = Len(members)
           /\ Len(members) \in Nat /\ DOMAIN members = 1..Len(members)
           /\ members = <<>> <=> Len(members) = 0
BY ListDomain, ListCounts DEF RingInv

\* Two different members, unless the ring has one only.
LEMMA Located ==
    ASSUME RingInv, NEW h \in Nat
    PROVE  /\ Len(members) = 0 => locateKey(h) = <<>>
           /\ Len(members) = 1 => \E a \in clients : locateKey(h) = <<a>>
           /\ Len(members) >= 2 =>
                \E a, b \in clients : a # b /\ locateKey(h) = <<a, b>>
<1> DEFINE n == Len(members)
           primary == members[(h % n) + 1]
           fallback == members[((h + 1) % n) + 1]
<1>1. /\ n \in Nat /\ DOMAIN members = 1..n
      /\ members = <<>> <=> n = 0
      /\ \A i \in 1..n : members[i] \in clients
  BY ListDomain DEF RingInv
<1>2. CASE n = 0
  BY <1>1, <1>2 DEF locateKey
<1>3. ASSUME n # 0
      PROVE  /\ h % n \in 0..n - 1 /\ (h % n) + 1 \in 1..n
             /\ (h + 1) % n \in 0..n - 1 /\ ((h + 1) % n) + 1 \in 1..n
             /\ primary \in clients /\ fallback \in clients
             /\ locateKey(h) = IF fallback # primary THEN <<primary, fallback>> ELSE <<primary>>
  <2>1. h % n \in 0..n - 1 /\ (h + 1) % n \in 0..n - 1
    <3>1. n \in Nat \ {0} /\ h + 1 \in Nat
      BY <1>1, <1>3
    <3> HIDE DEF n
    <3>2. QED
      BY <3>1, DivMod
  <2>2. (h % n) + 1 \in 1..n /\ ((h + 1) % n) + 1 \in 1..n
    BY <1>1, <2>1
  <2>3. locateKey(h) = IF fallback # primary THEN <<primary, fallback>> ELSE <<primary>>
    BY <1>1, <1>3 DEF locateKey
  <2>4. QED
    BY <1>1, <2>1, <2>2, <2>3
<1>4. CASE n = 1
  <2>1. h % n = 0 /\ (h + 1) % n = 0
    BY <1>3, <1>4
  <2>2. primary = fallback
    BY <2>1
  <2>3. QED
    BY <1>3, <1>4, <2>2
<1>5. CASE n >= 2
  <2>1. h % n # (h + 1) % n
    <3> HIDE DEF n
    <3>1. QED
      BY <1>1, <1>5, NextPosition
  <2>2. (h % n) + 1 # ((h + 1) % n) + 1
    BY <1>3, <1>5, <2>1
  <2>3. primary # fallback
    BY <1>1, <1>3, <1>5, <2>2 DEF RingInv, IsInjective
  <2>4. QED
    BY <1>3, <1>5, <2>3
<1>6. QED
  BY <1>1, <1>2, <1>4, <1>5

LEMMA ClientsAreFound ==
    ASSUME RingInv
    PROVE  ClientsForEveryPath
<1>1. SUFFICES ASSUME NEW h \in Nat
               PROVE  /\ Len(locateKey(h)) = IF Cardinality(clients) < 2
                                               THEN Cardinality(clients) ELSE 2
                      /\ Range(locateKey(h)) \subseteq clients
  BY CacheRingAssumption DEF ClientsForEveryPath
<1>2. Cardinality(clients) = Len(members) /\ Len(members) \in Nat
  BY MembersCounted
<1>3. CASE Len(members) = 0
  <2>1. locateKey(h) = <<>>
    BY <1>3, Located
  <2>2. QED
    BY <1>2, <1>3, <2>1 DEF Range
<1>4. CASE Len(members) = 1
  <2>1. PICK a \in clients : locateKey(h) = <<a>>
    BY <1>4, Located
  <2>2. QED
    BY <1>2, <1>4, <2>1 DEF Range
<1>5. CASE Len(members) >= 2
  <2>1. PICK a, b \in clients : locateKey(h) = <<a, b>>
    BY <1>5, Located
  <2>2. QED
    BY <1>2, <1>5, <2>1 DEF Range
<1>6. QED
  BY <1>2, <1>3, <1>4, <1>5

-----------------------------------------------------------------------------
(* Each action preserves the invariant.                                     *)

LEMMA CacheRingInitially ==
    ASSUME Init
    PROVE  CacheRingInv
<1>1. RingInv
  BY DEF Init, RingInv, IsInjective, ToSet
<1>2. LookupInv
  BY DEF Init, LookupInv
<1>3. QED
  BY <1>1, <1>2 DEF CacheRingInv

\* The change of a pod under a lookup can only make it less steady.
LEMMA LookupGoesOnKeeps ==
    ASSUME LookupInv, LookupGoesOn
    PROVE  LookupInv'
<1>1. PICK S : S \subseteq lookup.steady /\ lookup' = [lookup EXCEPT !.steady = S]
  BY DEF LookupGoesOn
<1>2. lookup' = [pc |-> lookup.pc, left |-> lookup.left, steady |-> S]
  BY <1>1 DEF LookupInv
<1>3. lookup'.pc = lookup.pc /\ lookup'.left = lookup.left /\ lookup'.steady = S
  BY <1>2
<1>4. QED
  BY <1>1, <1>2, <1>3 DEF LookupInv, ToSet

\* An event of the watch, of whatever pod and with whatever delay.
LEMMA HandleEventStep ==
    ASSUME CacheRingInv, HandleEvent
    PROVE  CacheRingInv'
<1> DEFINE ip == Head(events).ip
<1>1. AddEndpoint(ip) \/ RemoveEndpoint(ip)
  BY DEF HandleEvent
<1>2. lookup' = lookup
  BY DEF HandleEvent, lookupVars
<1> HIDE DEF ip
<1>3. RingInv'
  <2>1. CASE UNCHANGED ringVars
    BY <2>1 DEF CacheRingInv, RingInv, ringVars
  <2>2. CASE AddEndpoint(ip) /\ ip \notin clients
    <3>1. members' = Append(members, ip) /\ clients' = clients \cup {ip}
      BY <2>2 DEF AddEndpoint
    <3>2. /\ Append(members, ip) \in Seq(clients \cup {ip})
          /\ IsInjective(Append(members, ip))
          /\ ToSet(Append(members, ip)) = clients \cup {ip}
      BY <2>2, AppendToList DEF CacheRingInv, RingInv
    <3>3. QED
      BY <3>1, <3>2 DEF RingInv
  <2>3. CASE RemoveEndpoint(ip) /\ ip \in clients
    <3>1. members' = RemoveFirst(members, ip) /\ clients' = clients \ {ip}
      BY <2>3 DEF RemoveEndpoint
    <3>2. /\ RemoveFirst(members, ip) \in Seq(clients)
          /\ IsInjective(RemoveFirst(members, ip))
          /\ ToSet(RemoveFirst(members, ip)) = clients \ {ip}
      BY <2>3, RemoveFromList DEF CacheRingInv, RingInv
    <3>3. RemoveFirst(members, ip) \in Seq(clients \ {ip})
      BY <3>2, ListOfItsElements
    <3>4. QED
      BY <3>1, <3>2, <3>3 DEF RingInv
  <2>4. QED
    BY <1>1, <2>1, <2>2, <2>3 DEF AddEndpoint, RemoveEndpoint
<1>4. QED
  BY <1>2, <1>3 DEF CacheRingInv, LookupInv

LEMMA GetClientsStep ==
    ASSUME CacheRingInv, NEW h \in Nat, GetClients(h)
    PROVE  LookupInv'
<1> DEFINE picked == locateKey(h)
<1>1. lookup.pc = "idle" /\ lookup.steady = {}
  BY DEF GetClients, CacheRingInv, LookupInv
<1>2. \/ lookup' = [lookup EXCEPT !.pc = "unavailable"]
      \/ /\ picked # <<>>
         /\ lookup' = [pc |-> "asking", left |-> picked,
                       steady |-> {ip \in ToSet(picked) : Up(ip)}]
  BY DEF GetClients
<1>3. CASE lookup' = [lookup EXCEPT !.pc = "unavailable"]
  <2>1. lookup' = [pc |-> "unavailable", left |-> lookup.left, steady |-> lookup.steady]
    BY <1>3 DEF CacheRingInv, LookupInv
  <2>2. QED
    BY <1>1, <2>1 DEF LookupInv
<1>4. CASE /\ picked # <<>>
           /\ lookup' = [pc |-> "asking", left |-> picked,
                         steady |-> {ip \in ToSet(picked) : Up(ip)}]
  <2>1. \E a, b : picked \in {<<a, b>>, <<a>>}
    BY <1>4, Located, MembersCounted DEF CacheRingInv
  <2>2. {ip \in ToSet(picked) : Up(ip)} \subseteq ToSet(picked)
    OBVIOUS
  <2> HIDE DEF picked
  <2>3. QED
    BY <1>4, <2>1, <2>2 DEF LookupInv
<1>5. QED
  BY <1>2, <1>3, <1>4

LEMMA AnsweredStep ==
    ASSUME LookupInv, Answered
    PROVE  LookupInv'
<1>1. lookup' = [pc |-> "found", left |-> <<>>, steady |-> {}]
  BY DEF Answered, LookupInv
<1>2. QED
  BY <1>1 DEF LookupInv

\* The pod that refused is not steady, and if it was the last one none is.
LEMMA RefusedStep ==
    ASSUME LookupInv, Refused
    PROVE  LookupInv'
<1>1. PICK a, b : lookup.left \in {<<a, b>>, <<a>>}
  BY DEF Refused, LookupInv
<1>2. lookup.steady \subseteq ToSet(lookup.left)
  BY DEF Refused, LookupInv
<1>3. lookup' = [pc |-> IF Tail(lookup.left) = <<>> THEN "unavailable" ELSE "asking",
                 left |-> Tail(lookup.left),
                 steady |-> lookup.steady \ {Head(lookup.left)}]
  BY DEF Refused
<1>4. CASE lookup.left = <<a, b>>
  <2>1. Head(lookup.left) = a /\ Tail(lookup.left) = <<b>> /\ ToSet(lookup.left) = {a, b}
    BY <1>4 DEF ToSet
  <2>2. Tail(lookup.left) # <<>> /\ ToSet(<<b>>) = {b}
    BY <2>1 DEF ToSet
  <2>3. lookup' = [pc |-> "asking", left |-> <<b>>, steady |-> lookup.steady \ {a}]
    BY <1>3, <2>1, <2>2
  <2>4. QED
    BY <1>2, <2>1, <2>2, <2>3 DEF LookupInv
<1>5. CASE lookup.left = <<a>>
  <2>1. Head(lookup.left) = a /\ Tail(lookup.left) = <<>> /\ ToSet(lookup.left) = {a}
    BY <1>5 DEF ToSet
  <2>2. lookup' = [pc |-> "unavailable", left |-> <<>>, steady |-> lookup.steady \ {a}]
    BY <1>3, <2>1
  <2>3. lookup.steady \ {a} = {}
    BY <1>2, <2>1
  <2>4. QED
    BY <2>2, <2>3 DEF LookupInv
<1>6. QED
  BY <1>1, <1>4, <1>5

LEMMA CacheRingStep ==
    ASSUME CacheRingInv, [Next]_vars
    PROVE  CacheRingInv'
<1>1. ASSUME UNCHANGED <<ringVars, lookup>> PROVE CacheRingInv'
  BY <1>1 DEF CacheRingInv, RingInv, LookupInv, ringVars
<1>2. ASSUME UNCHANGED ringVars, LookupInv' PROVE CacheRingInv'
  BY <1>2 DEF CacheRingInv, RingInv, ringVars
<1>3. CASE UNCHANGED vars
  BY <1>1, <1>3 DEF vars, lookupVars
<1>4. ASSUME NEW p \in Pods, CreatePod(p) \/ ChangePhase(p) \/ DeletePod(p)
      PROVE  CacheRingInv'
  <2>1. LookupGoesOn /\ UNCHANGED ringVars
    BY <1>4 DEF CreatePod, ChangePhase, DeletePod
  <2>2. QED
    BY <1>2, <2>1, LookupGoesOnKeeps DEF CacheRingInv
<1>5. ASSUME NEW p \in Pods, UpdatePod(p) PROVE CacheRingInv'
  BY <1>1, <1>5 DEF UpdatePod, lookupVars
<1>6. CASE CloseChannel \/ Rewatch \/ RewatchFails
  BY <1>1, <1>6 DEF CloseChannel, Rewatch, RewatchFails, lookupVars
<1>7. CASE HandleEvent
  BY <1>7, HandleEventStep
<1>8. ASSUME NEW h \in Hashes, GetClients(h) PROVE CacheRingInv'
  <2>1. h \in Nat /\ UNCHANGED ringVars
    BY <1>8, CacheRingAssumption DEF GetClients
  <2>2. QED
    BY <1>2, <1>8, <2>1, GetClientsStep
<1>9. CASE Answered
  <2>1. UNCHANGED ringVars
    BY <1>9 DEF Answered
  <2>2. QED
    BY <1>2, <1>9, <2>1, AnsweredStep DEF CacheRingInv
<1>10. CASE Refused
  <2>1. UNCHANGED ringVars
    BY <1>10 DEF Refused
  <2>2. QED
    BY <1>2, <1>10, <2>1, RefusedStep DEF CacheRingInv
<1>11. QED
  BY <1>3, <1>4, <1>5, <1>6, <1>7, <1>8, <1>9, <1>10 DEF Next, Watch, LookupSSTable

-----------------------------------------------------------------------------
(* Types.                                                                   *)

\* The change of a pod sends an event of it, or none.
LEMMA SentType ==
    ASSUME TypeOK, phase' \in [Pods -> Phase], NEW p \in Pods, phase'[p] # "none",
           NEW type \in {"Added", "Modified", "Deleted"}, Sent(type, p)
    PROVE  events' \in Seq(Event)
<1> DEFINE e == [type |-> type, ip |-> IPOf[p], phase |-> phase'[p]]
<1>1. e \in Event
  BY DEF Event, Endpoints
<1>2. events' = events \/ events' = Append(events, e)
  BY DEF Sent
<1>3. events \in Seq(Event)
  BY DEF TypeOK
<1> HIDE DEF e
<1>4. Append(events, e) \in Seq(Event)
  BY <1>1, <1>3, AppendProperties
<1>5. QED
  BY <1>2, <1>3, <1>4

\* It leaves a lookup with the endpoints it has.
LEMMA LookupGoesOnType ==
    ASSUME TypeOK, LookupGoesOn
    PROVE  lookup' \in LookupState /\ errors' \in 0..MaxErrors
<1>1. lookup' = [pc |-> lookup.pc, left |-> lookup.left,
                 steady |-> {ip \in lookup.steady : Up(ip)'}]
  BY DEF LookupGoesOn, TypeOK, LookupState
<1>2. {ip \in lookup.steady : Up(ip)'} \subseteq Endpoints
  BY DEF TypeOK, LookupState
<1>3. QED
  BY <1>1, <1>2 DEF LookupGoesOn, TypeOK, LookupState

LEMMA PodStepType ==
    ASSUME TypeOK, NEW p \in Pods, CreatePod(p) \/ ChangePhase(p) \/ UpdatePod(p) \/ DeletePod(p)
    PROVE  TypeOK'
<1>1. phase' \in [Pods -> Phase] /\ phase'[p] # "none"
  BY DEF CreatePod, ChangePhase, UpdatePod, DeletePod, TypeOK, Phase
<1>2. events' \in Seq(Event)
  BY <1>1, SentType DEF CreatePod, ChangePhase, UpdatePod, DeletePod
<1>3. updates' \in 0..MaxUpdates
  BY CacheRingAssumption DEF CreatePod, ChangePhase, UpdatePod, DeletePod, TypeOK
<1>4. lookup' \in LookupState /\ errors' \in 0..MaxErrors
  BY LookupGoesOnType DEF CreatePod, ChangePhase, UpdatePod, DeletePod, lookupVars, TypeOK
<1>5. QED
  BY <1>1, <1>2, <1>3, <1>4
     DEF CreatePod, ChangePhase, UpdatePod, DeletePod, ringVars, TypeOK

LEMMA HandleEventType ==
    ASSUME TypeOK, CacheRingInv', HandleEvent
    PROVE  TypeOK'
<1> DEFINE e == Head(events)
<1>1. e.ip \in Endpoints /\ events' \in Seq(Event)
  <2>1. Head(events) \in Event /\ Tail(events) \in Seq(Event)
    BY HeadTailProperties DEF HandleEvent, TypeOK
  <2>2. QED
    BY <2>1 DEF HandleEvent, Event
<1>2. AddEndpoint(e.ip) \/ RemoveEndpoint(e.ip)
  BY DEF HandleEvent
<1> HIDE DEF e
<1>3. clients' \subseteq Endpoints
  BY <1>1, <1>2 DEF AddEndpoint, RemoveEndpoint, ringVars, TypeOK
<1>4. members' \in Seq(Endpoints)
  BY <1>3 DEF CacheRingInv, RingInv
<1>5. QED
  BY <1>1, <1>3, <1>4 DEF HandleEvent, podVars, lookupVars, TypeOK

\* A new watch lists each pod that exists once.
LEMMA RewatchType ==
    ASSUME TypeOK, IsFiniteSet(Pods), Rewatch
    PROVE  TypeOK'
<1> DEFINE S == {p \in Pods : phase[p] \notin {"none", "deleted"}}
<1>1. IsFiniteSet(S)
  BY FS_Subset
<1>2. PICK s \in SetToSeqs(S) :
        events' = [i \in DOMAIN s |->
                     [type |-> "Added", ip |-> IPOf[s[i]], phase |-> phase[s[i]]]]
  BY DEF Rewatch
<1>3. Cardinality(S) \in Nat /\ s \in [1..Cardinality(S) -> S]
  BY <1>1, <1>2, FS_CardinalityType DEF SetToSeqs
<1>4. \A p \in S : [type |-> "Added", ip |-> IPOf[p], phase |-> phase[p]] \in Event
  BY DEF TypeOK, Event, Endpoints
<1> HIDE DEF S
<1>5. events' \in [1..Cardinality(S) -> Event]
  BY <1>2, <1>3, <1>4
<1>6. events' \in Seq(Event)
  BY <1>3, <1>5, SeqDef
<1>7. QED
  BY <1>6 DEF Rewatch, podVars, ringVars, lookupVars, TypeOK

\* A lookup asks members only.
LEMMA GetClientsType ==
    ASSUME TypeOK, CacheRingInv, NEW h \in Nat, GetClients(h)
    PROVE  TypeOK'
<1> DEFINE picked == locateKey(h)
<1>1. picked \in Seq(Endpoints)
  <2>1. clients \subseteq Endpoints /\ Len(members) \in Nat
    BY MembersCounted DEF CacheRingInv, TypeOK
  <2>2. \/ picked = <<>>
        \/ \E a \in Endpoints : picked = <<a>>
        \/ \E a, b \in Endpoints : picked = <<a, b>>
    <3>1. \A n \in Nat : n = 0 \/ n = 1 \/ n >= 2
      OBVIOUS
    <3>2. QED
      BY <2>1, <3>1, Located DEF CacheRingInv
  <2>3. <<>> \in Seq(Endpoints)
    OBVIOUS
  <2>4. \A a \in Endpoints : <<a>> \in Seq(Endpoints)
    OBVIOUS
  <2>5. \A a, b \in Endpoints : <<a, b>> \in Seq(Endpoints)
    OBVIOUS
  <2> HIDE DEF picked
  <2>6. QED
    BY <2>2, <2>3, <2>4, <2>5
<1>2. {ip \in ToSet(picked) : Up(ip)} \subseteq Endpoints
  BY <1>1, ListDomain
<1>3. \/ lookup' = [lookup EXCEPT !.pc = "unavailable"]
      \/ lookup' = [pc |-> "asking", left |-> picked,
                    steady |-> {ip \in ToSet(picked) : Up(ip)}]
  BY DEF GetClients
<1> HIDE DEF picked
<1>4. lookup' \in LookupState
  <2>1. [lookup EXCEPT !.pc = "unavailable"] =
          [pc |-> "unavailable", left |-> lookup.left, steady |-> lookup.steady]
    BY DEF LookupState, TypeOK
  <2>2. lookup.left \in Seq(Endpoints) /\ lookup.steady \subseteq Endpoints
    BY DEF LookupState, TypeOK
  <2>3. QED
    BY <1>1, <1>2, <1>3, <2>1, <2>2 DEF LookupState
<1>5. QED
  BY <1>4 DEF GetClients, podVars, ringVars, TypeOK

LEMMA AnsweredType ==
    ASSUME TypeOK, Answered
    PROVE  TypeOK'
<1>1. lookup' = [pc |-> "found", left |-> <<>>, steady |-> {}]
  BY DEF Answered, LookupState, TypeOK
<1>2. <<>> \in Seq(Endpoints)
  OBVIOUS
<1>3. lookup' \in LookupState
  BY <1>1, <1>2 DEF LookupState
<1>4. QED
  BY <1>3 DEF Answered, podVars, ringVars, TypeOK

LEMMA RefusedType ==
    ASSUME TypeOK, CacheRingInv, Refused
    PROVE  TypeOK'
<1>1. lookup.left \in Seq(Endpoints) /\ lookup.left # <<>> /\ lookup.steady \subseteq Endpoints
  BY DEF Refused, CacheRingInv, LookupInv, LookupState, TypeOK
<1>2. Tail(lookup.left) \in Seq(Endpoints)
  BY <1>1, HeadTailProperties
<1>3. lookup' \in LookupState
  BY <1>1, <1>2 DEF Refused, LookupState
<1>4. errors' \in 0..MaxErrors
  BY CacheRingAssumption DEF Refused, TypeOK
<1>5. QED
  BY <1>3, <1>4 DEF Refused, podVars, ringVars, TypeOK

LEMMA TypeStep ==
    ASSUME TypeOK, CacheRingInv, IsFiniteSet(Pods), [Next]_vars, CacheRingInv'
    PROVE  TypeOK'
<1>1. CASE CloseChannel
  BY <1>1, CacheRingAssumption DEF CloseChannel, podVars, ringVars, lookupVars, TypeOK
<1>2. CASE RewatchFails
  BY <1>2 DEF RewatchFails, podVars, ringVars, lookupVars, TypeOK
<1>3. ASSUME NEW h \in Hashes, GetClients(h) PROVE TypeOK'
  BY <1>3, GetClientsType, CacheRingAssumption
<1>4. CASE UNCHANGED vars
  BY <1>4 DEF vars, podVars, ringVars, lookupVars, TypeOK
<1>5. QED
  BY <1>1, <1>2, <1>3, <1>4, PodStepType, HandleEventType, RewatchType, AnsweredType, RefusedType
     DEF Next, Watch, LookupSSTable

-----------------------------------------------------------------------------
(* The theorems.                                                            *)

\* Ring and clients agree in every reachable state: addCacheServiceLocked and
\* ring.remove change them together.
THEOREM RingInvariance == Spec => []CacheRingInv
BY CacheRingInitially, CacheRingStep, PTL DEF Spec

\* Type correctness of the pods, the watch, the ring and the lookup, for
\* finitely many pods: a new watch lists those that exist.
THEOREM CacheRingTypeCorrect ==
    ASSUME IsFiniteSet(Pods)
    PROVE  Spec => []TypeOK
<1>1. Init => TypeOK
  BY CacheRingAssumption DEF Init, Phase, LookupState, TypeOK
<1>2. TypeOK /\ CacheRingInv /\ CacheRingInv' /\ [Next]_vars => TypeOK'
  BY TypeStep
<1>3. QED
  BY <1>1, <1>2, RingInvariance, PTL DEF Spec

\* getClients picks min(2, number of clients) members for every path, and
\* each has a client.
THEOREM PathsHaveClients == Spec => []ClientsForEveryPath
<1>1. CacheRingInv => ClientsForEveryPath
  BY ClientsAreFound DEF CacheRingInv
<1>2. QED
  BY <1>1, RingInvariance, PTL

\* lookupSSTable fails only if no pod it picked was up all along and able to
\* answer, whatever the watch does to the ring meanwhile.
THEOREM FallbackSuffices == Spec => []OneLivePodSuffices
<1>1. CacheRingInv => OneLivePodSuffices
  BY DEF CacheRingInv, LookupInv, OneLivePodSuffices
<1>2. QED
  BY <1>1, RingInvariance, PTL

=============================================================================
