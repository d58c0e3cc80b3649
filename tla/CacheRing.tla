------------------------------- MODULE CacheRing -------------------------------
(***************************************************************************)
(* The ring of cache pods one index process keeps                          *)
(* (internal/index/handler.go): a goroutine consumes the events of a       *)
(* Kubernetes watch and adds or removes the pod's endpoint, and BatchGet   *)
(* picks from the ring the two endpoints that serve an object and asks one *)
(* after the other, while pods and ring change.                            *)
(*                                                                         *)
(* The events of a watch arrive in the order of the changes of the pods; a *)
(* new watch starts with an Added event for each pod that exists.  An      *)
(* endpoint is the address of a pod: a pod gets it when it is scheduled    *)
(* and releases it when it stops running, which may be long before the pod *)
(* object is deleted.                                                      *)
(***************************************************************************)
EXTENDS Naturals, Sequences, FiniteSets, SequencesExt

CONSTANTS
    Pods,         \* cache pods, over the life of the index process
    IPOf,         \* IPOf[p]: the address pod p gets
    Hashes,       \* bound: the hashes of the object paths looked up
    MaxUpdates,   \* bound: updates of a pod that change none of this
    MaxLag,       \* bound: events sent and not yet consumed
    MaxClosures,  \* bound: watch channels that close
    MaxErrors     \* bound: calls of Get that a running pod fails

ASSUME CacheRingAssumption ==
    /\ Hashes \subseteq Nat
    /\ MaxUpdates \in Nat
    /\ MaxLag \in Nat \ {0}
    /\ MaxClosures \in Nat
    /\ MaxErrors \in Nat

VARIABLES
    phase,     \* phase[p]: the pod in the API server
    updates,   \* updates so far
    events,    \* events sent on the watch channel and not yet consumed
    watcher,   \* the goroutine: "watching", "closed" channel, or "stopped"
    closures,  \* channels closed so far
    members,   \* ring.members
    clients,   \* the endpoints with a client in cacheClients
    lookup,    \* one call of lookupSSTable
    errors     \* calls of Get failed so far

podVars  == <<phase, updates>>
ringVars == <<members, clients>>
lookupVars == <<lookup, errors>>
vars     == <<podVars, events, watcher, closures, ringVars, lookupVars>>

Endpoints == {IPOf[p] : p \in Pods}

Phase == {"none", "Pending", "Running", "Failed", "deleted"}

Event == [type : {"Added", "Modified", "Deleted"}, ip : Endpoints, phase : Phase \ {"none"}]

\* left: the endpoints still to be asked; steady: those of the picked ones
\* whose pod has been up and has failed no call since they were picked.
LookupState == [pc : {"idle", "asking", "found", "unavailable"},
                left : Seq(Endpoints), steady : SUBSET Endpoints]

TypeOK ==
    /\ phase \in [Pods -> Phase]
    /\ updates \in 0..MaxUpdates
    /\ events \in Seq(Event)
    /\ watcher \in {"watching", "closed", "stopped"}
    /\ closures \in 0..MaxClosures
    /\ members \in Seq(Endpoints)
    /\ clients \subseteq Endpoints
    /\ lookup \in LookupState
    /\ errors \in 0..MaxErrors

Init ==
    /\ phase = [p \in Pods |-> "none"]
    /\ updates = 0
    /\ events = <<>>
    /\ watcher = "watching"
    /\ closures = 0
    /\ members = <<>>
    /\ clients = {}
    /\ lookup = [pc |-> "idle", left |-> <<>>, steady |-> {}]
    /\ errors = 0

-----------------------------------------------------------------------------
(* Kubernetes: the pods, and the watch channel.                             *)

\* A running pod answers at its address.
Up(ip) == \E p \in Pods : IPOf[p] = ip /\ phase[p] = "Running"

\* The change of a pod under a lookup.
LookupGoesOn ==
    /\ lookup' = [lookup EXCEPT !.steady = {ip \in lookup.steady : Up(ip)'}]
    /\ UNCHANGED errors

Sent(type, p) ==
    IF watcher = "watching"
      THEN /\ Len(events) < MaxLag
           /\ events' = Append(events, [type |-> type, ip |-> IPOf[p], phase |-> phase'[p]])
      ELSE events' = events

\* An address belongs to one pod that holds it at a time.
Free(ip) == \A p \in Pods : IPOf[p] = ip => phase[p] \notin {"Pending", "Running"}

CreatePod(p) ==
    /\ phase[p] = "none"
    /\ Free(IPOf[p])
    /\ phase' = [phase EXCEPT ![p] = "Pending"]
    /\ Sent("Added", p)
    /\ LookupGoesOn
    /\ UNCHANGED <<updates, watcher, closures, ringVars>>

\* The pod starts to run, or stops, and keeps its status object.
ChangePhase(p) ==
    /\ \/ phase[p] = "Pending" /\ phase' = [phase EXCEPT ![p] = "Running"]
       \/ phase[p] = "Running" /\ phase' = [phase EXCEPT ![p] = "Failed"]
    /\ Sent("Modified", p)
    /\ LookupGoesOn
    /\ UNCHANGED <<updates, watcher, closures, ringVars>>

\* A label, a condition or a deletion timestamp changes.
UpdatePod(p) ==
    /\ phase[p] \in {"Running", "Failed"}
    /\ updates < MaxUpdates
    /\ updates' = updates + 1
    /\ phase' = phase
    /\ Sent("Modified", p)
    /\ UNCHANGED <<watcher, closures, ringVars, lookupVars>>

DeletePod(p) ==
    /\ phase[p] \in {"Pending", "Running", "Failed"}
    /\ phase' = [phase EXCEPT ![p] = "deleted"]
    /\ Sent("Deleted", p)
    /\ LookupGoesOn
    /\ UNCHANGED <<updates, watcher, closures, ringVars>>

\* The API server or a proxy ends the watch: events sent are still read, the
\* later ones are not.
CloseChannel ==
    /\ watcher = "watching"
    /\ closures < MaxClosures
    /\ watcher' = "closed"
    /\ closures' = closures + 1
    /\ UNCHANGED <<podVars, events, ringVars, lookupVars>>

-----------------------------------------------------------------------------
(* watchCacheServices: the goroutine.                                       *)

\* Mutant: the endpoint is added without a look at the clients.
AddEndpointAgain(ip) ==
    /\ members' = Append(members, ip)
    /\ clients' = clients \cup {ip}

\* addCacheServiceLocked, unless the endpoint has a client.
AddEndpoint(ip) ==
    IF ip \in clients THEN UNCHANGED ringVars
    ELSE /\ members' = Append(members, ip)
         /\ clients' = clients \cup {ip}

\* ring.remove takes out the first occurrence.
RemoveEndpoint(ip) ==
    IF ip \notin clients THEN UNCHANGED ringVars
    ELSE /\ members' = RemoveFirst(members, ip)
         /\ clients' = clients \ {ip}

\* Mutant: only the first event of a pod can make it a member.
JoinsIfAdded(e) == e.type = "Added" /\ e.phase = "Running"

Joins(e) == e.type # "Deleted" /\ e.phase = "Running"

HandleEvent ==
    /\ watcher # "stopped"
    /\ events # <<>>
    /\ LET e == Head(events) IN
         IF Joins(e) THEN AddEndpoint(e.ip) ELSE RemoveEndpoint(e.ip)
    /\ events' = Tail(events)
    /\ UNCHANGED <<podVars, watcher, closures, lookupVars>>

\* A closed channel is replaced by that of a new watch, which reports the
\* pods that exist, in any order.
Rewatch ==
    /\ watcher = "closed"
    /\ events = <<>>
    /\ watcher' = "watching"
    /\ \E s \in SetToSeqs({p \in Pods : phase[p] \notin {"none", "deleted"}}) :
         events' = [i \in DOMAIN s |->
                      [type |-> "Added", ip |-> IPOf[s[i]], phase |-> phase[s[i]]]]
    /\ UNCHANGED <<podVars, closures, ringVars, lookupVars>>

\* The new watch cannot be made: the goroutine returns for good.
RewatchFails ==
    /\ watcher = "closed"
    /\ events = <<>>
    /\ watcher' = "stopped"
    /\ UNCHANGED <<podVars, events, closures, ringVars, lookupVars>>

Watch == HandleEvent \/ Rewatch

-----------------------------------------------------------------------------
(* lookupSSTable.                                                           *)

\* The member a path hashes to and the next one, if that is another member.
locateKey(hash) ==
    IF members = <<>> THEN <<>>
    ELSE LET primary  == members[(hash % Len(members)) + 1]
             fallback == members[((hash + 1) % Len(members)) + 1]
         IN  IF fallback # primary THEN <<primary, fallback>> ELSE <<primary>>

\* getClients, under the read lock of the ring.  An empty ring is an error,
\* and so would be a member without a client.
GetClients(hash) ==
    /\ lookup.pc = "idle"
    /\ LET picked == locateKey(hash) IN
         lookup' = IF picked = <<>> \/ ~ ToSet(picked) \subseteq clients
                     THEN [lookup EXCEPT !.pc = "unavailable"]
                     ELSE [pc |-> "asking", left |-> picked,
                           steady |-> {ip \in ToSet(picked) : Up(ip)}]
    /\ UNCHANGED <<podVars, events, watcher, closures, ringVars, errors>>

\* The pod at the next endpoint answers.
Answered ==
    /\ lookup.pc = "asking"
    /\ Up(Head(lookup.left))
    /\ lookup' = [lookup EXCEPT !.pc = "found", !.left = <<>>, !.steady = {}]
    /\ UNCHANGED <<podVars, events, watcher, closures, ringVars, errors>>

\* Mutant: the first error ends the lookup.
RefusedAtOnce ==
    /\ lookup.pc = "asking"
    /\ LET ip == Head(lookup.left) IN
         /\ \/ ~ Up(ip) /\ UNCHANGED errors
            \/ Up(ip) /\ errors < MaxErrors /\ errors' = errors + 1
         /\ lookup' = [pc |-> "unavailable", left |-> <<>>, steady |-> lookup.steady \ {ip}]
    /\ UNCHANGED <<podVars, events, watcher, closures, ringVars>>

\* No pod is up at the next endpoint, or its call fails: the loop goes on to
\* the fallback, if there is one left.
Refused ==
    /\ lookup.pc = "asking"
    /\ LET ip == Head(lookup.left) IN
         /\ \/ ~ Up(ip) /\ UNCHANGED errors
            \/ Up(ip) /\ errors < MaxErrors /\ errors' = errors + 1
         /\ lookup' = [pc |-> IF Tail(lookup.left) = <<>> THEN "unavailable" ELSE "asking",
                       left |-> Tail(lookup.left), steady |-> lookup.steady \ {ip}]
    /\ UNCHANGED <<podVars, events, watcher, closures, ringVars>>

LookupSSTable == (\E h \in Hashes : GetClients(h)) \/ Answered \/ Refused

-----------------------------------------------------------------------------
Next ==
    \/ \E p \in Pods : CreatePod(p) \/ ChangePhase(p) \/ UpdatePod(p) \/ DeletePod(p)
    \/ CloseChannel
    \/ Watch
    \/ RewatchFails
    \/ LookupSSTable

Spec == Init /\ [][Next]_vars

\* The goroutine runs, and a watch that breaks off can be made again.
FairSpec == Spec /\ WF_vars(Watch)

-----------------------------------------------------------------------------
(* Properties.                                                              *)

\* Every object finds its cache pods: getClients fails only on an empty ring
\* and else returns a client for each member it picked, two different ones as
\* soon as the ring has two members, whatever order events came in.
ClientsForEveryPath ==
    \A h \in Hashes :
      /\ Len(locateKey(h)) = IF Cardinality(clients) < 2 THEN Cardinality(clients) ELSE 2
      /\ Range(locateKey(h)) \subseteq clients

\* Although members of the ring may be gone or fail, and the ring changes
\* under the lookup, a lookup fails only if none of the pods it picked was up
\* all the time and able to answer.
OneLivePodSuffices == lookup.pc = "unavailable" => lookup.steady = {}

OwnAddress(p) == \A q \in Pods \ {p} : IPOf[q] # IPOf[p]

\* A pod that runs at an address no other pod ever has joins the ring, even
\* when its events were lost with a watch that broke off and was made again.
RunningPodsJoin ==
    \A p \in Pods : OwnAddress(p) /\ phase[p] = "Running" ~>
      IPOf[p] \in clients \/ phase[p] # "Running" \/ watcher = "stopped"

=============================================================================
