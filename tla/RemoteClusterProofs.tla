------------------------- MODULE RemoteClusterProofs -------------------------
(***************************************************************************)
(* Proofs about the multicluster controllers for any number of clusters,   *)
(* edits, faults, periodic checks and restarts: no two RemoteClusters      *)
(* serve one remote cluster, no daemon runs that is not registered, and    *)
(* none is run twice.                                                      *)
(***************************************************************************)
EXTENDS RemoteCluster, FiniteSetTheorems, TLAPS

(***************************************************************************)
(* The inductive invariant.                                                *)
(***************************************************************************)
Jobs == [name : Names, uuid : UUIDs]
Events == [name : Names, value : Object \cup {None}]
Owners == Names \cup {LocalCluster}
StepFields == {"at", "seen", "todo", "uuid"}

\* The objects, their copies and the events between them.
APIOK ==
    /\ DOMAIN clusters \subseteq Names /\ \A n \in DOMAIN clusters : clusters[n] \in Object
    /\ DOMAIN cache \subseteq Names /\ \A n \in DOMAIN cache : cache[n] \in Object
    /\ feed \in Seq(Events) /\ Len(feed) <= MaxLag

\* The work queues and the channel.
QueuesOK ==
    /\ uuidQueue \subseteq Names /\ mainQueue \subseteq Names
    /\ channel \in Seq(Jobs) /\ Len(channel) <= Capacity

UUIDStepOK(s) ==
    /\ s.at \in {"idle", "resolve", "record"}
    /\ s.at = "resolve" => s.seen \in Object
    /\ s.at = "record" => s.uuid \in UUIDs

UUIDStepsOK ==
    /\ DOMAIN uuidStep = Names
    /\ \A n \in Names : UUIDStepOK(uuidStep[n])

CheckerOK ==
    /\ DOMAIN checker = {"at", "jobs", "job", "daemon"}
    /\ checker.jobs \subseteq Jobs
    /\ checker.at \notin {"idle", "next"} => checker.job \in Jobs

\* Both maps of the mutex: the latest UUID of a name is one it holds. The local
\* cluster keeps its own, which it locked before the controllers started.
MutexOK ==
    /\ DOMAIN idName \subseteq UUIDs /\ \A u \in DOMAIN idName : idName[u] \in Owners
    /\ DOMAIN latest \subseteq Owners
    /\ \A n \in DOMAIN latest : latest[n] \in DOMAIN idName /\ idName[latest[n]] = n
    /\ LocalUUID \in DOMAIN idName /\ idName[LocalUUID] = LocalCluster

\* The reconciler of a name that is about to register a daemon, or that
\* recycles other UUIDs before it does.
Serves(s) ==
    \/ s.at \in {"list", "construct", "addFinalizer", "guard", "replace", "register", "send"}
    \/ s.at \in {"recycle", "unregister"} /\ ~LetsGo(s.seen)

\* It holds the UUID it serves and those it recycles, until it unlocks them itself.
MainStepOK(s, held) ==
    /\ DOMAIN s = StepFields
    /\ Serves(s) => s.seen.uuid \in held
    /\ s.at \in {"recycle", "unregister"} =>
          /\ s.todo \subseteq held
          /\ Serves(s) => s.seen.uuid \notin s.todo
    /\ s.at = "unregister" => s.uuid \in s.todo

MainStepsOK ==
    /\ DOMAIN mainStep = Names
    /\ \A n \in Names : MainStepOK(mainStep[n], GetUUIDs(n))

HubOK ==
    /\ DOMAIN hub \subseteq UUIDs
    /\ \A u \in DOMAIN hub : hub[u] \in [daemon : DaemonIDs, name : Names]
    /\ DaemonHoldsUUID
    /\ RunningIsRegistered

\* The daemon the checker found is the registered one, or the registered one is
\* newer and does not run; before Run it does not run in any case.
ChecksOK ==
    /\ checker.at = "check" /\ checker.job.uuid \in DOMAIN hub =>
          \/ hub[checker.job.uuid].daemon = checker.daemon
          \/ hub[checker.job.uuid].daemon \notin running
    /\ RunsOnce

IInv ==
    /\ APIOK /\ QueuesOK /\ UUIDStepsOK /\ CheckerOK
    /\ MutexOK /\ MainStepsOK /\ HubOK /\ ChecksOK

(***************************************************************************)
(* Operators of the model.                                                 *)
(***************************************************************************)
\* A field of an object is set.
LEMMA ObjectFields ==
    ASSUME NEW o \in Object
    PROVE  /\ \A e \in Endpoints : [o EXCEPT !.endpoint = e] \in Object
           /\ \A u \in UUIDs \cup {None} : [o EXCEPT !.uuid = u] \in Object
           /\ \A b \in BOOLEAN : [o EXCEPT !.deleting = b] \in Object
           /\ \A b \in BOOLEAN : [o EXCEPT !.finalizer = b] \in Object
  BY DEF Object

LEMMA ObjectFlags ==
    ASSUME NEW o \in Object
    PROVE  /\ [o EXCEPT !.deleting = TRUE] \in Object
           /\ [o EXCEPT !.finalizer = TRUE] \in Object
           /\ [o EXCEPT !.finalizer = FALSE] \in Object
<1>1. TRUE \in BOOLEAN /\ FALSE \in BOOLEAN
  OBVIOUS
<1> QED
  BY <1>1, ObjectFields, Zenon

\* A step keeps what it holds when more is held.
LEMMA MainStepMonotone ==
    ASSUME NEW s, NEW held, NEW more, held \subseteq more, MainStepOK(s, held)
    PROVE  MainStepOK(s, more)
  BY DEF MainStepOK

LEMMA MainIdleOK ==
    ASSUME NEW held
    PROVE  MainStepOK(MainIdle, held)
  BY DEF MainStepOK, MainIdle, StepFields, Serves

\* Where the recycling of UUIDs leads to.
LEMMA RecyclingOK ==
    ASSUME NEW seen, NEW todo, NEW held, todo \subseteq held,
           ~LetsGo(seen) => seen.uuid \in held /\ seen.uuid \notin todo
    PROVE  MainStepOK(Recycling(seen, todo), held)
<1> DEFINE s == Recycling(seen, todo)
<1>1. CASE todo # {}
  <2>1. /\ DOMAIN s = StepFields /\ s.at = "recycle" /\ s.seen = seen /\ s.todo = todo
    BY <1>1 DEF Recycling, MainIdle, StepFields
  <2> QED
    BY <2>1 DEF MainStepOK, Serves
<1>2. CASE todo = {} /\ LetsGo(seen)
  <2>1. DOMAIN s = StepFields /\ s.at \in {"removeFinalizer", "idle"}
    <3>1. s = AfterRecycling(seen)
      BY <1>2 DEF Recycling
    <3>2. s \in {[MainIdle EXCEPT !.at = "removeFinalizer", !.seen = seen], MainIdle}
      BY <1>2, <3>1 DEF AfterRecycling
    <3> HIDE DEF s
    <3>3. CASE s = MainIdle
      BY <3>3 DEF MainIdle, StepFields
    <3>4. CASE s = [MainIdle EXCEPT !.at = "removeFinalizer", !.seen = seen]
      BY <3>4 DEF MainIdle, StepFields
    <3> QED
      BY <3>2, <3>3, <3>4
  <2> QED
    BY <2>1 DEF MainStepOK, Serves
<1>3. CASE todo = {} /\ ~LetsGo(seen)
  <2>1. DOMAIN s = StepFields /\ s.at = "construct" /\ s.seen = seen
    <3>1. s = [MainIdle EXCEPT !.at = "construct", !.seen = seen]
      BY <1>3 DEF Recycling, AfterRecycling
    <3> HIDE DEF s
    <3> QED
      BY <3>1 DEF MainIdle, StepFields
  <2> QED
    BY <1>3, <2>1 DEF MainStepOK, Serves
<1> QED
  BY <1>1, <1>2, <1>3

(***************************************************************************)
(* What leaves a part of the invariant alone.                              *)
(***************************************************************************)
LEMMA Frames ==
    /\ APIOK /\ UNCHANGED <<clusters, feed, cache>> => APIOK'
    /\ QueuesOK /\ UNCHANGED <<uuidQueue, mainQueue, channel>> => QueuesOK'
    /\ UUIDStepsOK /\ UNCHANGED uuidStep => UUIDStepsOK'
    /\ CheckerOK /\ UNCHANGED checker => CheckerOK'
    /\ MutexOK /\ UNCHANGED <<idName, latest>> => MutexOK'
    /\ MainStepsOK /\ UNCHANGED <<mainStep, idName>> => MainStepsOK'
    /\ HubOK /\ UNCHANGED <<hub, running, idName>> => HubOK'
    /\ ChecksOK /\ UNCHANGED <<hub, running, checker>> => ChecksOK'
<1>1. APIOK /\ UNCHANGED <<clusters, feed, cache>> => APIOK'
  BY DEF APIOK
<1>2. QueuesOK /\ UNCHANGED <<uuidQueue, mainQueue, channel>> => QueuesOK'
  BY DEF QueuesOK
<1>3. UUIDStepsOK /\ UNCHANGED uuidStep => UUIDStepsOK'
  BY DEF UUIDStepsOK
<1>4. CheckerOK /\ UNCHANGED checker => CheckerOK'
  BY DEF CheckerOK
<1>5. MutexOK /\ UNCHANGED <<idName, latest>> => MutexOK'
  BY DEF MutexOK
<1>6. MainStepsOK /\ UNCHANGED <<mainStep, idName>> => MainStepsOK'
  BY DEF MainStepsOK, GetUUIDs
<1>7. HubOK /\ UNCHANGED <<hub, running, idName>> => HubOK'
  BY DEF HubOK, DaemonHoldsUUID, RunningIsRegistered
<1>8. ChecksOK /\ UNCHANGED <<hub, running, checker>> => ChecksOK'
  BY DEF ChecksOK, RunsOnce
<1> QED
  BY <1>1, <1>2, <1>3, <1>4, <1>5, <1>6, <1>7, <1>8

\* An object is written, or nothing has to be.
LEMMA SetClusterOK ==
    ASSUME APIOK, NEW n \in Names, NEW v \in Object, SetCluster(n, v), UNCHANGED cache
    PROVE  APIOK'
<1>1. CASE UNCHANGED api
  BY <1>1, Frames DEF api
<1>2. CASE /\ Len(feed) < MaxLag
           /\ clusters' = With(clusters, n, v)
           /\ feed' = Append(feed, [name |-> n, value |-> v])
  <2>1. DOMAIN clusters' \subseteq Names /\ \A m \in DOMAIN clusters' : clusters'[m] \in Object
    BY <1>2 DEF With, APIOK
  <2>2. [name |-> n, value |-> v] \in Events
    BY DEF Events
  <2>3. feed' \in Seq(Events) /\ Len(feed') = Len(feed) + 1
    BY <1>2, <2>2 DEF APIOK
  <2>4. Len(feed') <= MaxLag
    BY <1>2, <2>3, RemoteClusterAssumption DEF APIOK
  <2> QED
    BY <2>1, <2>3, <2>4 DEF APIOK
<1> QED
  BY <1>1, <1>2 DEF SetCluster

LEMMA RemoveClusterOK ==
    ASSUME APIOK, NEW n \in Names, RemoveCluster(n), UNCHANGED cache
    PROVE  APIOK'
<1>1. DOMAIN clusters' \subseteq Names /\ \A m \in DOMAIN clusters' : clusters'[m] \in Object
  BY DEF Without, Restrict, APIOK, RemoveCluster
<1>2. [name |-> n, value |-> None] \in Events
  BY DEF Events
<1>3. feed' \in Seq(Events) /\ Len(feed') = Len(feed) + 1
  BY <1>2 DEF APIOK, RemoveCluster
<1>4. Len(feed') <= MaxLag
  BY <1>3, RemoteClusterAssumption DEF APIOK, RemoveCluster
<1> QED
  BY <1>1, <1>3, <1>4 DEF APIOK

\* One more name holds a UUID that no other name held.
LEMMA LockOK ==
    ASSUME MutexOK, MainStepsOK, HubOK, NEW u \in UUIDs, NEW n \in Names,
           CanLock(u, n), Lock(u, n), UNCHANGED <<mainStep, hub, running>>
    PROVE  MutexOK' /\ MainStepsOK' /\ HubOK'
<1>1. /\ DOMAIN idName' = DOMAIN idName \cup {u} /\ idName'[u] = n
      /\ \A x \in DOMAIN idName : idName'[x] = idName[x]
  BY DEF With, Lock, CanLock
<1>2. /\ DOMAIN latest' = DOMAIN latest \cup {n} /\ latest'[n] = u
      /\ \A m \in DOMAIN latest : m # n => latest'[m] = latest[m]
  BY DEF With, Lock
<1>3. MutexOK'
  BY <1>1, <1>2 DEF MutexOK, Owners
<1>4. MainStepsOK'
  <2>1. ASSUME NEW m \in Names PROVE GetUUIDs(m) \subseteq GetUUIDs(m)'
    BY <1>1 DEF GetUUIDs
  <2> QED
    BY <2>1, MainStepMonotone DEF MainStepsOK
<1>5. HubOK'
  BY <1>1 DEF HubOK, DaemonHoldsUUID, RunningIsRegistered
<1> QED
  BY <1>3, <1>4, <1>5

\* The effect of Unlock: only what was held with that UUID is lost.
LEMMA UnlockOK ==
    ASSUME MutexOK, NEW u, u # LocalUUID, Unlock(u)
    PROVE  /\ MutexOK'
           /\ DOMAIN idName' = DOMAIN idName \ {u}
           /\ \A x \in DOMAIN idName' : idName'[x] = idName[x]
<1>1. CASE u \notin DOMAIN idName
  BY <1>1, Frames DEF Unlock, mutex
<1>2. CASE u \in DOMAIN idName
  <2> DEFINE n == idName[u]
  <2>1. DOMAIN idName' = DOMAIN idName \ {u} /\ \A x \in DOMAIN idName' : idName'[x] = idName[x]
    BY <1>2 DEF Without, Restrict, Unlock
  <2>2. /\ DOMAIN latest' \subseteq DOMAIN latest
        /\ \A m \in DOMAIN latest' : latest'[m] = latest[m] /\ latest[m] # u
    <3>1. CASE n \in DOMAIN latest /\ latest[n] = u
      <4>1. latest' = Without(latest, n)
        BY <1>2, <3>1 DEF Unlock
      <4> QED
        BY <4>1 DEF Without, Restrict, MutexOK
    <3>2. CASE ~(n \in DOMAIN latest /\ latest[n] = u)
      <4>1. latest' = latest
        BY <1>2, <3>2 DEF Unlock
      <4> QED
        BY <3>2, <4>1 DEF MutexOK
    <3> QED
      BY <3>1, <3>2
  <2>3. MutexOK'
    BY <2>1, <2>2 DEF MutexOK
  <2> QED
    BY <2>1, <2>3
<1> QED
  BY <1>1, <1>2

\* The reconciler of n goes on with step s.
StepTo(n, s) == mainStep' = [mainStep EXCEPT ![n] = s]

\* The others lose nothing they hold.
LEMMA MainGoOK ==
    ASSUME MainStepsOK, NEW n \in Names, NEW s, NEW held, StepTo(n, s),
           held = GetUUIDs(n)', MainStepOK(s, held),
           \A m \in Names \ {n} : GetUUIDs(m) \subseteq GetUUIDs(m)'
    PROVE  MainStepsOK'
<1>1. DOMAIN mainStep' = Names /\ mainStep'[n] = s
      /\ \A m \in Names \ {n} : mainStep'[m] = mainStep[m]
  BY DEF MainStepsOK, StepTo
<1>2. ASSUME NEW m \in Names PROVE MainStepOK(mainStep'[m], GetUUIDs(m)')
  <2>1. CASE m = n
    BY <1>1, <2>1
  <2>2. CASE m # n
    BY <1>1, <2>2, MainStepMonotone DEF MainStepsOK
  <2> QED
    BY <2>1, <2>2
<1> QED
  BY <1>1, <1>2 DEF MainStepsOK

(***************************************************************************)
(* Users and the watch.                                                    *)
(***************************************************************************)
\* An edit touches the objects only.
LEMMA EditOK ==
    ASSUME IInv, Edit, APIOK'
    PROVE  IInv'
  BY Frames DEF IInv, Edit, uuidSide, mainSide, mutex, daemons

LEMMA UsersOK ==
    ASSUME IInv, NEW n \in Names, Users(n)
    PROVE  IInv'
<1> USE DEF IInv
<1>0. \A m \in DOMAIN clusters : clusters[m] \in Object
  BY DEF APIOK
<1>1. ASSUME NEW e \in Endpoints, CreateCluster(n, e) PROVE IInv'
  <2>1. [endpoint |-> e, uuid |-> None, deleting |-> FALSE, finalizer |-> FALSE] \in Object
    BY DEF Object
  <2>2. APIOK'
    BY <1>1, <2>1, SetClusterOK DEF CreateCluster, Edit
  <2> QED
    BY <1>1, <2>2, EditOK DEF CreateCluster
<1>2. ASSUME NEW e \in Endpoints, ChangeEndpoint(n, e) PROVE IInv'
  <2>1. [clusters[n] EXCEPT !.endpoint = e] \in Object
    BY <1>0, <1>2, ObjectFields DEF ChangeEndpoint
  <2>2. APIOK'
    BY <1>2, <2>1, SetClusterOK DEF ChangeEndpoint, Edit
  <2> QED
    BY <1>2, <2>2, EditOK DEF ChangeEndpoint
<1>3. ASSUME DeleteCluster(n) PROVE IInv'
  <2>1. [clusters[n] EXCEPT !.deleting = TRUE] \in Object
    BY <1>0, <1>3, ObjectFlags, Zenon DEF DeleteCluster
  <2>2. APIOK'
    BY <1>3, <2>1, SetClusterOK, RemoveClusterOK DEF DeleteCluster, Edit
  <2> QED
    BY <1>3, <2>2, EditOK DEF DeleteCluster
<1> QED
  BY <1>1, <1>2, <1>3 DEF Users

LEMMA DeliverOK ==
    ASSUME IInv, Deliver
    PROVE  IInv'
<1> DEFINE n == Head(feed).name
           new == Head(feed).value
<1>1. /\ feed # <<>> /\ feed' = Tail(feed)
      /\ cache' = IF new = None THEN Without(cache, n) ELSE With(cache, n, new)
      /\ uuidQueue' \in {uuidQueue, uuidQueue \cup {n}}
      /\ mainQueue' \in {mainQueue, mainQueue \cup {n}}
      /\ UNCHANGED <<clusters, uuidStep, mainStep, idName, latest, hub, running, channel, checker>>
  BY DEF Deliver, mutex, daemons
<1>2. feed \in Seq(Events) /\ Len(feed) <= MaxLag
  BY DEF IInv, APIOK
<1>3. Head(feed) \in Events
  BY <1>1, <1>2
<1>4. n \in Names /\ (new # None => new \in Object)
  BY <1>3 DEF Events
<1>5. feed' \in Seq(Events) /\ Len(feed') = Len(feed) - 1 /\ Len(feed) \in Nat
  BY <1>1, <1>2
<1>6. Len(feed') <= MaxLag
  BY <1>2, <1>5, RemoteClusterAssumption
<1> HIDE DEF n, new
<1>7. DOMAIN cache' \subseteq Names /\ \A m \in DOMAIN cache' : cache'[m] \in Object
  BY <1>1, <1>4 DEF IInv, APIOK, With, Without, Restrict
<1>8. APIOK'
  BY <1>1, <1>5, <1>6, <1>7 DEF IInv, APIOK
<1>9. QueuesOK'
  BY <1>1, <1>4 DEF IInv, QueuesOK
<1> QED
  BY <1>1, <1>8, <1>9, Frames DEF IInv

(***************************************************************************)
(* The UUID reconciler.                                                    *)
(***************************************************************************)
\* A step of it that keeps the mutex.
LEMMA UUIDWorkOK ==
    ASSUME IInv, UUIDWork, UNCHANGED mutex, APIOK', uuidQueue' \subseteq Names, UUIDStepsOK'
    PROVE  IInv'
<1>1. QueuesOK'
  BY DEF IInv, QueuesOK, UUIDWork, mainSide
<1> QED
  BY <1>1, Frames DEF IInv, UUIDWork, mainSide, mutex, daemons

\* It goes on with step s.
LEMMA UUIDGoOK ==
    ASSUME UUIDStepsOK, NEW n \in Names, NEW s, UUIDGo(n, s), UUIDStepOK(s)
    PROVE  UUIDStepsOK'
  BY DEF UUIDStepsOK, UUIDGo

LEMMA UUIDIdleOK == UUIDStepOK(UUIDIdle)
  BY DEF UUIDStepOK, UUIDIdle

\* It is done with n, or puts it back into the queue.
LEMMA UUIDEndOK ==
    ASSUME IInv, NEW n \in Names, UUIDRetry(n) \/ UUIDDone(n)
    PROVE  uuidQueue' \subseteq Names /\ UUIDStepsOK'
<1>1. UUIDGo(n, UUIDIdle)
  BY DEF UUIDRetry, UUIDDone
<1>2. UUIDStepsOK'
  BY <1>1, UUIDGoOK, UUIDIdleOK DEF IInv
<1>3. uuidQueue' \subseteq Names
  BY DEF UUIDRetry, UUIDDone, IInv, QueuesOK
<1> QED
  BY <1>2, <1>3

LEMMA StartUUIDOK ==
    ASSUME IInv, NEW n \in Names, StartUUID(n)
    PROVE  IInv'
<1> DEFINE s == [UUIDIdle EXCEPT !.at = "resolve", !.seen = cache[n]]
<1>1. APIOK' /\ uuidQueue' \subseteq Names
  BY Frames DEF StartUUID, UUIDWork, api, IInv, QueuesOK
<1>2. CASE n \in DOMAIN cache /\ ~cache[n].deleting
  <2>1. s.at = "resolve" /\ s.seen = cache[n]
    BY DEF UUIDIdle
  <2>2. UUIDStepOK(s)
    BY <1>2, <2>1 DEF UUIDStepOK, IInv, APIOK
  <2> HIDE DEF s
  <2>3. UUIDGo(n, s)
    BY <1>2 DEF StartUUID, s
  <2>4. UUIDStepsOK'
    BY <2>2, <2>3, UUIDGoOK DEF IInv
  <2> QED
    BY <1>1, <2>4, UUIDWorkOK DEF StartUUID, mutex
<1>3. CASE ~(n \in DOMAIN cache /\ ~cache[n].deleting)
  <2>1. UUIDStepsOK'
    BY <1>3, Frames DEF StartUUID, IInv
  <2> QED
    BY <1>1, <2>1, UUIDWorkOK DEF StartUUID, mutex
<1> QED
  BY <1>2, <1>3

LEMMA ClearUUIDOK ==
    ASSUME IInv, NEW n \in Names, ClearUUID(n)
    PROVE  IInv'
<1>1. n \in DOMAIN clusters => [clusters[n] EXCEPT !.uuid = None] \in Object
  BY ObjectFields, Zenon DEF IInv, APIOK
<1>2. UNCHANGED cache
  BY DEF ClearUUID, UUIDWork
<1>3. APIOK'
  BY <1>1, <1>2, SetClusterOK, Frames DEF ClearUUID, IInv, api
<1> QED
  BY <1>3, UUIDEndOK, UUIDWorkOK DEF ClearUUID

LEMMA ResolveOK ==
    ASSUME IInv, NEW n \in Names, Resolve(n)
    PROVE  IInv'
<1> DEFINE u == uuidStep[n].seen.endpoint
           s == [UUIDIdle EXCEPT !.at = "record", !.uuid = u]
<1>1. u \in UUIDs
  BY DEF Resolve, IInv, UUIDStepsOK, UUIDStepOK, Object, Endpoints
<1>2. UUIDWork /\ APIOK'
  BY Frames DEF Resolve, UUIDWork, api, IInv
<1>3. CASE (UUIDDone(n) \/ UUIDRetry(n)) /\ UNCHANGED mutex
  BY <1>2, <1>3, UUIDEndOK, UUIDWorkOK
<1>4. CASE CanLock(u, n) /\ Lock(u, n) /\ UUIDGo(n, s) /\ UNCHANGED uuidQueue
  <2>1. MutexOK' /\ MainStepsOK' /\ HubOK'
    BY <1>1, <1>2, <1>4, LockOK DEF IInv, UUIDWork, mainSide, daemons
  <2>2. s.at = "record" /\ s.uuid = u
    BY DEF UUIDIdle
  <2>3. UUIDStepOK(s)
    BY <1>1, <2>2 DEF UUIDStepOK
  <2> HIDE DEF s
  <2>4. UUIDStepsOK'
    BY <1>4, <2>3, UUIDGoOK DEF IInv
  <2>5. QueuesOK' /\ CheckerOK' /\ ChecksOK'
    BY <1>2, <1>4, Frames DEF IInv, UUIDWork, mainSide, daemons
  <2> QED
    BY <1>2, <2>1, <2>4, <2>5 DEF IInv
<1> QED
  BY <1>3, <1>4 DEF Resolve

LEMMA RecordUUIDOK ==
    ASSUME IInv, NEW n \in Names, RecordUUID(n)
    PROVE  IInv'
<1>1. n \in DOMAIN clusters => [clusters[n] EXCEPT !.uuid = uuidStep[n].uuid] \in Object
  BY ObjectFields DEF RecordUUID, IInv, APIOK, UUIDStepsOK, UUIDStepOK
<1>2. UNCHANGED cache
  BY DEF RecordUUID, UUIDWork
<1>3. APIOK'
  BY <1>1, <1>2, SetClusterOK, Frames DEF RecordUUID, IInv, api
<1> QED
  BY <1>3, UUIDEndOK, UUIDWorkOK DEF RecordUUID

LEMMA UUIDReconcilerOK ==
    ASSUME IInv, NEW n \in Names, UUIDReconciler(n)
    PROVE  IInv'
<1>1. CASE ResolveFails(n)
  <2>1. APIOK'
    BY <1>1, Frames, Zenon DEF ResolveFails, UUIDWork, api, IInv
  <2> QED
    BY <1>1, <2>1, UUIDEndOK, UUIDWorkOK DEF ResolveFails
<1> QED
  BY <1>1, StartUUIDOK, ClearUUIDOK, ResolveOK, RecordUUIDOK DEF UUIDReconciler

(***************************************************************************)
(* The RemoteCluster reconciler.                                           *)
(***************************************************************************)
\* A step of it that keeps the mutex, the hub and the channel.
LEMMA MainWorkOK ==
    ASSUME IInv, MainWork, UNCHANGED <<mutex, daemons, channel>>,
           APIOK', mainQueue' \subseteq Names, MainStepsOK'
    PROVE  IInv'
<1>1. QueuesOK'
  BY DEF IInv, QueuesOK, MainWork, uuidSide
<1> QED
  BY <1>1, Frames DEF IInv, MainWork, uuidSide, mutex, daemons

\* It goes on with step s while the mutex is kept.
LEMMA MainGoKeeps ==
    ASSUME MainStepsOK, NEW n \in Names, NEW s, UNCHANGED idName,
           StepTo(n, s), MainStepOK(s, GetUUIDs(n))
    PROVE  MainStepsOK'
<1>1. \A m : GetUUIDs(m)' = GetUUIDs(m)
  BY DEF GetUUIDs
<1> QED
  BY <1>1, MainGoOK

\* It is done with n, or puts it back into the queue.
LEMMA MainEndOK ==
    ASSUME IInv, NEW n \in Names, MainRetry(n) \/ MainDone(n), UNCHANGED idName
    PROVE  mainQueue' \subseteq Names /\ MainStepsOK'
<1>1. StepTo(n, MainIdle)
  BY DEF MainRetry, MainDone, MainGo, StepTo
<1>2. MainStepsOK'
  BY <1>1, MainIdleOK, MainGoKeeps DEF IInv
<1>3. mainQueue' \subseteq Names
  BY DEF MainRetry, MainDone, MainGo, IInv, QueuesOK
<1> QED
  BY <1>2, <1>3

\* A step that serves a UUID goes on to another one that does.
Moved(s, at) == [s EXCEPT !.at = at]

LEMMA ServingOK ==
    ASSUME NEW s, NEW held, MainStepOK(s, held), Serves(s),
           NEW at \in {"construct", "addFinalizer", "guard", "replace", "register", "send"}
    PROVE  MainStepOK(Moved(s, at), held)
<1> DEFINE t == Moved(s, at)
<1>1. DOMAIN t = StepFields /\ t.at = at /\ t.seen = s.seen
  BY DEF MainStepOK, StepFields, Moved
<1> HIDE DEF t
<1> QED
  BY <1>1, Zenon DEF MainStepOK, Serves, t

LEMMA StartMainOK ==
    ASSUME IInv, NEW n \in Names, StartMain(n)
    PROVE  IInv'
<1>1. APIOK' /\ mainQueue' \subseteq Names /\ UNCHANGED <<idName, latest>>
  BY Frames DEF StartMain, MainWork, api, mainSide, mutex, IInv, QueuesOK
<1>2. CASE UNCHANGED mainStep
  <2>1. MainStepsOK'
    BY <1>1, <1>2, Frames DEF IInv
  <2> QED
    BY <1>1, <2>1, MainWorkOK DEF StartMain, mutex
<1>3. CASE /\ n \in DOMAIN cache /\ LetsGo(cache[n])
           /\ StepTo(n, Recycling(cache[n], GetUUIDs(n)))
  <2>1. MainStepsOK'
    BY <1>1, <1>3, RecyclingOK, MainGoKeeps, Zenon DEF IInv
  <2> QED
    BY <1>1, <2>1, MainWorkOK DEF StartMain, mutex
<1>4. CASE /\ n \in DOMAIN latest /\ latest[n] = cache[n].uuid
           /\ StepTo(n, [MainIdle EXCEPT !.at = "list", !.seen = cache[n]])
  <2> DEFINE s == [MainIdle EXCEPT !.at = "list", !.seen = cache[n]]
  <2>1. DOMAIN s = StepFields /\ s.at = "list" /\ s.seen = cache[n]
    BY DEF MainIdle, StepFields
  <2>2. cache[n].uuid \in GetUUIDs(n)
    BY <1>4 DEF IInv, MutexOK, GetUUIDs
  <2> HIDE DEF s
  <2>3. MainStepOK(s, GetUUIDs(n))
    BY <2>1, <2>2, Zenon DEF MainStepOK
  <2>4. StepTo(n, s)
    BY <1>4 DEF s
  <2>5. MainStepsOK'
    BY <1>1, <2>3, <2>4, MainGoKeeps DEF IInv
  <2> QED
    BY <1>1, <2>5, MainWorkOK DEF StartMain, mutex
<1> QED
  BY <1>2, <1>3, <1>4 DEF StartMain, mainSide, StepTo

LEMMA ListOrphansOK ==
    ASSUME IInv, NEW n \in Names, ListOrphans(n)
    PROVE  IInv'
<1> DEFINE seen == mainStep[n].seen
<1>1. APIOK' /\ mainQueue' \subseteq Names /\ UNCHANGED idName
  BY Frames, Zenon DEF ListOrphans, MainGo, MainWork, api, mutex, IInv, QueuesOK
<1>2. seen.uuid \in GetUUIDs(n)
  BY Zenon DEF ListOrphans, IInv, MainStepsOK, MainStepOK, Serves
<1>3. MainStepOK(Recycling(seen, GetUUIDs(n) \ {seen.uuid}), GetUUIDs(n))
  BY <1>2, RecyclingOK
<1>4. StepTo(n, Recycling(seen, GetUUIDs(n) \ {seen.uuid}))
  BY Zenon DEF ListOrphans, MainGo, StepTo
<1> HIDE DEF seen
<1>5. MainStepsOK'
  BY <1>1, <1>3, <1>4, MainGoKeeps DEF IInv
<1> QED
  BY <1>1, <1>5, MainWorkOK DEF ListOrphans

\* A daemon is stopped: it is not missed by the checker.
LEMMA StopOK ==
    ASSUME HubOK, ChecksOK, UNCHANGED <<hub, idName, checker>>, running' \subseteq running
    PROVE  HubOK' /\ ChecksOK'
<1>1. HubOK'
  BY DEF HubOK, DaemonHoldsUUID, RunningIsRegistered
<1>2. ChecksOK'
  BY Zenon DEF ChecksOK, RunsOnce
<1> QED
  BY <1>1, <1>2

\* A daemon that does not run is unregistered.
LEMMA UnregisterOK ==
    ASSUME HubOK, ChecksOK, NEW u, CanUnregister(u), hub' = Without(hub, u),
           \A x \in DOMAIN hub \ {u} : x \in DOMAIN idName' /\ idName'[x] = idName[x],
           UNCHANGED <<running, checker>>
    PROVE  HubOK' /\ ChecksOK'
<1>1. DOMAIN hub' = DOMAIN hub \ {u} /\ \A x \in DOMAIN hub' : hub'[x] = hub[x]
  BY DEF Without, Restrict
<1>2. DaemonHoldsUUID'
  BY <1>1, Zenon DEF HubOK, DaemonHoldsUUID
<1>3. RunningIsRegistered'
  BY <1>1 DEF HubOK, RunningIsRegistered, CanUnregister
<1>4. HubOK'
  BY <1>1, <1>2, <1>3, Zenon DEF HubOK
<1>5. ChecksOK'
  BY <1>1, Zenon DEF ChecksOK, RunsOnce
<1> QED
  BY <1>4, <1>5

\* One of the UUIDs to recycle is unlocked.
LEMMA RecycledOK ==
    ASSUME NEW s, NEW held, NEW u \in s.todo, MainStepOK(s, held), s.at \in {"recycle", "unregister"}
    PROVE  MainStepOK(Recycling(s.seen, s.todo \ {u}), held \ {u})
<1>1. /\ s.todo \ {u} \subseteq held \ {u}
      /\ ~LetsGo(s.seen) => s.seen.uuid \in held \ {u} /\ s.seen.uuid \notin s.todo \ {u}
  BY Zenon DEF MainStepOK, Serves
<1> QED
  BY <1>1, RecyclingOK, Zenon

LEMMA UnlockedOK ==
    ASSUME IInv, NEW n \in Names, NEW u \in mainStep[n].todo,
           mainStep[n].at \in {"recycle", "unregister"}, Unlock(u),
           StepTo(n, Recycling(mainStep[n].seen, mainStep[n].todo \ {u}))
    PROVE  /\ MutexOK' /\ MainStepsOK'
           /\ \A x \in DOMAIN hub \ {u} : x \in DOMAIN idName' /\ idName'[x] = idName[x]
<1> DEFINE s == mainStep[n]
           t == Recycling(s.seen, s.todo \ {u})
<1>1. MutexOK /\ MainStepsOK /\ MainStepOK(s, GetUUIDs(n))
  BY Zenon DEF IInv, MainStepsOK
<1>2. /\ MutexOK'
      /\ DOMAIN idName' = DOMAIN idName \ {u}
      /\ \A x \in DOMAIN idName' : idName'[x] = idName[x]
  <2>1. u # LocalUUID
    BY <1>1, RemoteClusterAssumption DEF MainStepOK, GetUUIDs, MutexOK
  <2> QED
    BY <1>1, <2>1, UnlockOK, Zenon
<1>3. \A m : GetUUIDs(m)' = GetUUIDs(m) \ {u}
  BY <1>2, Zenon DEF GetUUIDs
<1>4. MainStepOK(t, GetUUIDs(n) \ {u})
  BY <1>1, RecycledOK, Zenon
<1>5. \A m \in Names \ {n} : GetUUIDs(m) \subseteq GetUUIDs(m)'
  BY <1>1, <1>3 DEF MainStepOK, GetUUIDs
<1>6. StepTo(n, t)
  OBVIOUS
<1> HIDE DEF t
<1>7. MainStepsOK'
  BY <1>1, <1>3, <1>4, <1>5, <1>6, MainGoOK, Zenon
<1>8. \A x \in DOMAIN hub \ {u} : x \in DOMAIN idName' /\ idName'[x] = idName[x]
  BY <1>2, Zenon DEF IInv, HubOK, DaemonHoldsUUID
<1> QED
  BY <1>2, <1>7, <1>8, Zenon

\* killDaemon up to Stop, or Unlock of a UUID without a daemon.
LEMMA RecycleOK ==
    ASSUME IInv, NEW n \in Names, NEW u \in UUIDs, Recycle(n, u)
    PROVE  IInv'
<1> DEFINE s == mainStep[n]
           t == [s EXCEPT !.at = "unregister", !.uuid = u]
<1>1. /\ s.at = "recycle" /\ u \in s.todo
      /\ MainStepOK(s, GetUUIDs(n))
  BY DEF Recycle, IInv, MainStepsOK
<1>2. APIOK' /\ UUIDStepsOK' /\ CheckerOK' /\ QueuesOK'
  BY Frames DEF Recycle, MainWork, MainGo, api, uuidSide, IInv, QueuesOK
<1>3. CASE u \in DOMAIN hub
  <2>1. /\ DOMAIN t = StepFields /\ t.at = "unregister"
        /\ t.uuid = u /\ t.seen = s.seen /\ t.todo = s.todo
    BY <1>1 DEF MainStepOK, StepFields
  <2>2. StepTo(n, t) /\ running' \subseteq running /\ UNCHANGED <<hub, idName, latest, checker>>
    BY <1>3 DEF Recycle, MainGo, StepTo, mutex, MainWork
  <2> HIDE DEF t
  <2>3. MainStepOK(t, GetUUIDs(n))
    BY <1>1, <2>1, Zenon DEF MainStepOK, Serves
  <2>4. MainStepsOK' /\ MutexOK'
    BY <2>2, <2>3, MainGoKeeps, Frames, Zenon DEF IInv
  <2>5. HubOK' /\ ChecksOK'
    BY <2>2, StopOK DEF IInv
  <2> QED
    BY <1>2, <2>4, <2>5 DEF IInv
<1>4. CASE u \notin DOMAIN hub
  <2>1. /\ Unlock(u) /\ StepTo(n, Recycling(s.seen, s.todo \ {u}))
        /\ UNCHANGED <<hub, running, checker>>
    BY <1>4 DEF Recycle, MainGo, StepTo, MainWork, daemons
  <2>2. /\ MutexOK' /\ MainStepsOK'
        /\ \A x \in DOMAIN hub \ {u} : x \in DOMAIN idName' /\ idName'[x] = idName[x]
    BY <1>1, <2>1, UnlockedOK, Zenon
  <2>3. HubOK'
    BY <1>4, <2>1, <2>2, Zenon DEF IInv, HubOK, DaemonHoldsUUID, RunningIsRegistered
  <2>4. ChecksOK'
    BY <2>1, Frames, Zenon DEF IInv
  <2> QED
    BY <1>2, <2>2, <2>3, <2>4 DEF IInv
<1> QED
  BY <1>3, <1>4

\* The rest of killDaemon, and Unlock.
LEMMA UnregisterOrphanOK ==
    ASSUME IInv, NEW n \in Names, UnregisterOrphan(n)
    PROVE  IInv'
<1> DEFINE s == mainStep[n]
           u == s.uuid
<1>1. /\ s.at = "unregister" /\ u \in s.todo
      /\ MainStepOK(s, GetUUIDs(n))
  BY Zenon DEF UnregisterOrphan, IInv, MainStepsOK, MainStepOK
<1>2. APIOK' /\ UUIDStepsOK' /\ CheckerOK' /\ QueuesOK'
  BY Frames, Zenon DEF UnregisterOrphan, MainWork, MainGo, MainRetry, api, uuidSide, IInv, QueuesOK
<1>3. CASE CanUnregister(u)
  <2>1. /\ hub' = Without(hub, u)
        /\ Unlock(u) /\ StepTo(n, Recycling(s.seen, s.todo \ {u}))
        /\ UNCHANGED <<running, checker>>
    BY <1>3, Zenon DEF UnregisterOrphan, MainGo, StepTo, MainWork
  <2>2. /\ MutexOK' /\ MainStepsOK'
        /\ \A x \in DOMAIN hub \ {u} : x \in DOMAIN idName' /\ idName'[x] = idName[x]
    BY <1>1, <2>1, UnlockedOK, Zenon
  <2>3. HubOK' /\ ChecksOK'
    BY <1>3, <2>1, <2>2, UnregisterOK, Zenon DEF IInv
  <2> QED
    BY <1>2, <2>2, <2>3 DEF IInv
<1>4. CASE ~CanUnregister(u)
  <2>1. MainRetry(n) /\ UNCHANGED <<hub, running, idName, latest, checker>>
    BY <1>4, Zenon DEF UnregisterOrphan, MainWork, mutex
  <2> QED
    BY <1>2, <2>1, MainEndOK, Frames DEF IInv
<1> QED
  BY <1>3, <1>4

LEMMA RemoveFinalizerOK ==
    ASSUME IInv, NEW n \in Names, RemoveFinalizer(n)
    PROVE  IInv'
<1>1. n \in DOMAIN clusters => [clusters[n] EXCEPT !.finalizer = FALSE] \in Object
  BY ObjectFlags, Zenon DEF IInv, APIOK
<1>2. UNCHANGED cache /\ UNCHANGED idName
  BY DEF RemoveFinalizer, MainWork, mutex
<1>3. APIOK'
  BY <1>1, <1>2, SetClusterOK, RemoveClusterOK, Frames DEF RemoveFinalizer, IInv, api
<1> QED
  BY <1>2, <1>3, MainEndOK, MainWorkOK DEF RemoveFinalizer

LEMMA ConstructOK ==
    ASSUME IInv, NEW n \in Names, Construct(n)
    PROVE  IInv'
<1> DEFINE s == mainStep[n]
           at == IF s.seen.finalizer THEN "guard" ELSE "addFinalizer"
<1>1. APIOK' /\ UNCHANGED idName
  BY Frames DEF Construct, MainWork, api, mutex, IInv
<1>2. CASE MainGo(n, [s EXCEPT !.at = at])
  <2>1. MainStepOK(s, GetUUIDs(n)) /\ Serves(s)
    BY DEF Construct, Serves, IInv, MainStepsOK
  <2>2. at \in {"guard", "addFinalizer"}
    OBVIOUS
  <2>3. StepTo(n, Moved(s, at)) /\ UNCHANGED mainQueue
    BY <1>2 DEF MainGo, StepTo, Moved
  <2> HIDE DEF at, s
  <2>4. MainStepOK(Moved(s, at), GetUUIDs(n))
    BY <2>1, <2>2, ServingOK
  <2>5. MainStepsOK' /\ mainQueue' \subseteq Names
    BY <1>1, <2>3, <2>4, MainGoKeeps DEF IInv, QueuesOK
  <2> QED
    BY <1>1, <2>5, MainWorkOK DEF Construct
<1>3. CASE MainRetry(n)
  BY <1>1, <1>3, MainEndOK, MainWorkOK DEF Construct
<1> QED
  BY <1>2, <1>3 DEF Construct

LEMMA AddFinalizerOK ==
    ASSUME IInv, NEW n \in Names, AddFinalizer(n)
    PROVE  IInv'
<1> DEFINE s == mainStep[n]
<1>1. n \in DOMAIN clusters => [clusters[n] EXCEPT !.finalizer = TRUE] \in Object
  BY ObjectFlags, Zenon DEF IInv, APIOK
<1>2. UNCHANGED cache /\ UNCHANGED idName
  BY DEF AddFinalizer, MainWork, mutex
<1>3. APIOK'
  BY <1>1, <1>2, SetClusterOK, Frames DEF AddFinalizer, IInv, api
<1>4. CASE MainGo(n, [s EXCEPT !.at = "guard"])
  <2>1. MainStepOK(s, GetUUIDs(n)) /\ Serves(s)
    BY DEF AddFinalizer, Serves, IInv, MainStepsOK
  <2>2. StepTo(n, Moved(s, "guard")) /\ UNCHANGED mainQueue
    BY <1>4 DEF MainGo, StepTo, Moved
  <2> HIDE DEF s
  <2>3. MainStepOK(Moved(s, "guard"), GetUUIDs(n))
    BY <2>1, ServingOK
  <2>4. MainStepsOK' /\ mainQueue' \subseteq Names
    BY <1>2, <2>2, <2>3, MainGoKeeps DEF IInv, QueuesOK
  <2> QED
    BY <1>3, <2>4, MainWorkOK DEF AddFinalizer
<1>5. CASE MainRetry(n)
  BY <1>2, <1>3, <1>5, MainEndOK, MainWorkOK DEF AddFinalizer
<1> QED
  BY <1>4, <1>5 DEF AddFinalizer

\* guardDaemon up to the call of Unregister.
LEMMA GuardDaemonOK ==
    ASSUME IInv, NEW n \in Names, GuardDaemon(n)
    PROVE  IInv'
<1> DEFINE s == mainStep[n]
           at == IF s.seen.uuid \in DOMAIN hub THEN "replace" ELSE "register"
<1>1. APIOK' /\ UUIDStepsOK' /\ CheckerOK' /\ QueuesOK' /\ MutexOK'
  BY Frames, Zenon DEF GuardDaemon, MainWork, MainGo, api, uuidSide, mutex, IInv, QueuesOK
<1>2. MainStepOK(s, GetUUIDs(n)) /\ Serves(s)
  BY DEF GuardDaemon, Serves, IInv, MainStepsOK
<1>3. /\ StepTo(n, Moved(s, at)) /\ at \in {"replace", "register"}
      /\ running' \subseteq running /\ UNCHANGED <<hub, idName, checker>>
  BY DEF GuardDaemon, MainGo, StepTo, Moved, MainWork, mutex
<1> HIDE DEF at, s
<1>4. MainStepOK(Moved(s, at), GetUUIDs(n))
  BY <1>2, <1>3, ServingOK
<1>5. MainStepsOK'
  BY <1>3, <1>4, MainGoKeeps, Zenon DEF IInv
<1>6. HubOK' /\ ChecksOK'
  BY <1>3, StopOK DEF IInv
<1> QED
  BY <1>1, <1>5, <1>6 DEF IInv

LEMMA ReplaceDaemonOK ==
    ASSUME IInv, NEW n \in Names, ReplaceDaemon(n)
    PROVE  IInv'
<1> DEFINE s == mainStep[n]
           u == s.seen.uuid
<1>1. APIOK' /\ UUIDStepsOK' /\ CheckerOK' /\ QueuesOK' /\ MutexOK'
  BY Frames DEF ReplaceDaemon, MainWork, MainGo, MainRetry, api, uuidSide, mutex, IInv, QueuesOK
<1>2. UNCHANGED <<idName, running, checker>>
  BY DEF ReplaceDaemon, MainWork, mutex
<1>3. CASE CanUnregister(u)
  <2>1. MainStepOK(s, GetUUIDs(n)) /\ Serves(s)
    BY DEF ReplaceDaemon, Serves, IInv, MainStepsOK
  <2>2. StepTo(n, Moved(s, "register")) /\ hub' = Without(hub, u)
    BY <1>3 DEF ReplaceDaemon, MainGo, StepTo, Moved
  <2> HIDE DEF s, u
  <2>3. MainStepOK(Moved(s, "register"), GetUUIDs(n))
    BY <2>1, ServingOK
  <2>4. MainStepsOK'
    BY <1>2, <2>2, <2>3, MainGoKeeps DEF IInv
  <2>5. \A x \in DOMAIN hub \ {u} : x \in DOMAIN idName' /\ idName'[x] = idName[x]
    BY <1>2, Zenon DEF IInv, HubOK, DaemonHoldsUUID
  <2>6. HubOK' /\ ChecksOK'
    BY <1>2, <1>3, <2>2, <2>5, UnregisterOK, Zenon DEF IInv
  <2> QED
    BY <1>1, <2>4, <2>6 DEF IInv
<1>4. CASE ~CanUnregister(u)
  <2>1. MainRetry(n) /\ UNCHANGED hub
    BY <1>4 DEF ReplaceDaemon
  <2> QED
    BY <1>1, <1>2, <2>1, MainEndOK, Frames, Zenon DEF IInv
<1> QED
  BY <1>3, <1>4

\* There is always a number for one more daemon: the daemons that run are
\* registered, and a UUID has one daemon.
LEMMA NewDaemonOK ==
    ASSUME IInv
    PROVE  NewDaemon \in DaemonIDs /\ NewDaemon \notin running
<1> DEFINE T == {hub[u].daemon : u \in DOMAIN hub}
           f == [u \in DOMAIN hub |-> hub[u].daemon]
           U == T \cup {checker.daemon}
<1>1. IsFiniteSet(DOMAIN hub) /\ Cardinality(DOMAIN hub) <= Cardinality(UUIDs)
  BY FS_Subset, RemoteClusterAssumption, Zenon DEF IInv, HubOK
<1>2. Cardinality(UUIDs) \in Nat /\ Cardinality(DOMAIN hub) \in Nat
  BY <1>1, FS_CardinalityType, RemoteClusterAssumption, Zenon
<1>3. f \in Surjection(DOMAIN hub, T)
  BY DEF Surjection
<1>4. IsFiniteSet(T) /\ Cardinality(T) <= Cardinality(DOMAIN hub)
  BY <1>1, <1>3, FS_Surjection, Zenon
<1>5. Cardinality(T) \in Nat
  BY <1>4, FS_CardinalityType, Zenon
<1> HIDE DEF T
<1>6. IsFiniteSet(U) /\ Cardinality(U) <= Cardinality(T) + 1 /\ Cardinality(U) \in Nat
  BY <1>4, <1>5, FS_AddElement, FS_CardinalityType
<1>7. IsFiniteSet(DaemonIDs) /\ Cardinality(DaemonIDs) = Cardinality(UUIDs) + 2
  <2> DEFINE k == Cardinality(UUIDs) + 2
  <2>1. k \in Int /\ 1 \in Int /\ ~(1 > k) /\ k - 1 + 1 = k
    BY <1>2
  <2> HIDE DEF k
  <2>2. IsFiniteSet(1 .. k) /\ Cardinality(1 .. k) = k
    BY <2>1, FS_Interval
  <2> QED
    BY <2>2 DEF DaemonIDs, k
<1> HIDE DEF U
<1>8. Cardinality(U) < Cardinality(DaemonIDs)
  BY <1>1, <1>2, <1>4, <1>5, <1>6, <1>7
<1>9. ~(DaemonIDs \subseteq U)
  <2>1. ASSUME DaemonIDs \in SUBSET U PROVE Cardinality(DaemonIDs) <= Cardinality(U)
    BY <1>6, <2>1, FS_Subset
  <2>2. Cardinality(DaemonIDs) \in Nat
    BY <1>7, FS_CardinalityType
  <2> QED
    BY <1>6, <1>8, <2>1, <2>2
<1>10. PICK d \in DaemonIDs : d \notin U
  BY <1>9
<1>11. (\A u \in DOMAIN hub : hub[u].daemon # d) /\ d # checker.daemon
  BY <1>10 DEF T, U
<1>12. d \notin running
  BY <1>11 DEF IInv, HubOK, RunningIsRegistered
<1> QED
  BY <1>11, <1>12 DEF NewDaemon

LEMMA RegisterDaemonOK ==
    ASSUME IInv, NEW n \in Names, RegisterDaemon(n)
    PROVE  IInv'
<1> DEFINE s == mainStep[n]
           u == s.seen.uuid
           d == NewDaemon
<1>1. APIOK' /\ UUIDStepsOK' /\ CheckerOK' /\ QueuesOK' /\ MutexOK'
  BY Frames DEF RegisterDaemon, MainWork, MainGo, MainRetry, api, uuidSide, mutex, IInv, QueuesOK
<1>2. UNCHANGED <<idName, running, checker>>
  BY DEF RegisterDaemon, MainWork, mutex
<1>3. CASE u \notin DOMAIN hub
  <2>1. MainStepOK(s, GetUUIDs(n)) /\ Serves(s)
    BY DEF RegisterDaemon, Serves, IInv, MainStepsOK
  <2>2. u \in DOMAIN idName /\ idName[u] = n /\ u \in UUIDs
    BY <2>1, Zenon DEF MainStepOK, GetUUIDs, IInv, MutexOK
  <2>3. d \in DaemonIDs /\ d \notin running
    BY NewDaemonOK
  <2>4. StepTo(n, Moved(s, "send")) /\ hub' = With(hub, u, [daemon |-> d, name |-> n])
    BY <1>3 DEF RegisterDaemon, MainGo, StepTo, Moved
  <2> HIDE DEF s, u, d
  <2>5. MainStepOK(Moved(s, "send"), GetUUIDs(n))
    BY <2>1, ServingOK
  <2>6. MainStepsOK'
    BY <1>2, <2>4, <2>5, MainGoKeeps, Zenon DEF IInv
  <2>7. /\ DOMAIN hub' = DOMAIN hub \cup {u} /\ hub'[u] = [daemon |-> d, name |-> n]
        /\ \A x \in DOMAIN hub : hub'[x] = hub[x]
    BY <1>3, <2>4, Zenon DEF With
  <2>8. hub'[u] \in [daemon : DaemonIDs, name : Names] /\ hub'[u].name = n /\ hub'[u].daemon = d
    BY <2>3, <2>7
  <2>9. DaemonHoldsUUID'
    BY <1>2, <2>2, <2>7, <2>8, Zenon DEF IInv, HubOK, DaemonHoldsUUID
  <2>10. RunningIsRegistered'
    BY <1>2, <2>7, Zenon DEF IInv, HubOK, RunningIsRegistered
  <2>11. HubOK'
    BY <2>2, <2>7, <2>8, <2>9, <2>10, Zenon DEF IInv, HubOK
  <2>12. ChecksOK'
    BY <1>2, <2>3, <2>7, <2>8, Zenon DEF IInv, ChecksOK, RunsOnce
  <2> QED
    BY <1>1, <2>6, <2>11, <2>12 DEF IInv
<1>4. CASE u \in DOMAIN hub
  <2>1. MainRetry(n) /\ UNCHANGED hub
    BY <1>4 DEF RegisterDaemon
  <2> QED
    BY <1>1, <1>2, <2>1, MainEndOK, Frames, Zenon DEF IInv
<1> QED
  BY <1>3, <1>4

LEMMA SendEventOK ==
    ASSUME IInv, NEW n \in Names, SendEvent(n)
    PROVE  IInv'
<1> DEFINE job == [name |-> n, uuid |-> mainStep[n].seen.uuid]
<1>1. UNCHANGED <<clusters, feed, cache, uuidQueue, uuidStep, idName, latest, hub, running, checker>>
  BY Zenon DEF SendEvent, MainWork, api, uuidSide, mutex, daemons
<1>2. mainQueue' \subseteq Names /\ MainStepsOK'
  BY <1>1, MainEndOK, Zenon DEF SendEvent
<1>3. job \in Jobs
  BY Zenon DEF SendEvent, IInv, MainStepsOK, MainStepOK, Serves, GetUUIDs, MutexOK, Jobs
<1>4. channel \in Seq(Jobs) /\ Len(channel) < Capacity /\ channel' = Append(channel, job)
  BY Zenon DEF IInv, QueuesOK, SendEvent
<1> HIDE DEF job
<1>5. channel' \in Seq(Jobs) /\ Len(channel') = Len(channel) + 1 /\ Len(channel) \in Nat
  BY <1>3, <1>4
<1>6. Len(channel') <= Capacity
  BY <1>4, <1>5, RemoteClusterAssumption
<1>7. QueuesOK'
  BY <1>1, <1>2, <1>5, <1>6 DEF IInv, QueuesOK
<1> QED
  BY <1>1, <1>2, <1>7, Frames, Zenon DEF IInv

LEMMA MainReconcilerOK ==
    ASSUME IInv, NEW n \in Names, MainReconciler(n)
    PROVE  IInv'
  BY StartMainOK, ListOrphansOK, RecycleOK, UnregisterOrphanOK, RemoveFinalizerOK, ConstructOK,
     AddFinalizerOK, GuardDaemonOK, ReplaceDaemonOK, RegisterDaemonOK, SendEventOK
  DEF MainReconciler

(***************************************************************************)
(* The status checker.                                                     *)
(***************************************************************************)
\* Between two checks, with the jobs that are left.
WithJobs(jobs) == [CheckerIdle EXCEPT !.at = "next", !.jobs = jobs]

LEMMA CheckerIdleOK ==
    ASSUME NEW jobs \in SUBSET Jobs, checker' = CheckerIdle \/ checker' = WithJobs(jobs)
    PROVE  CheckerOK' /\ ChecksOK'
<1>1. /\ DOMAIN checker' = {"at", "jobs", "job", "daemon"}
      /\ checker'.at \in {"idle", "next"} /\ checker'.jobs \subseteq Jobs
  <2>1. CASE checker' = CheckerIdle
    BY <2>1, Zenon DEF CheckerIdle
  <2>2. CASE checker' = WithJobs(jobs)
    BY <2>2 DEF CheckerIdle, WithJobs
  <2> QED
    BY <2>1, <2>2, Zenon
<1> QED
  BY <1>1, Zenon DEF CheckerOK, ChecksOK, RunsOnce

\* A step of the checker that keeps the objects and what runs.
LEMMA CheckerWorkOK ==
    ASSUME IInv, CheckerWork, UNCHANGED <<api, running>>, CheckerOK', ChecksOK',
           channel' \in Seq(Jobs), Len(channel') <= Capacity
    PROVE  IInv'
<1>1. QueuesOK'
  BY DEF IInv, QueuesOK, CheckerWork, uuidSide, mainSide
<1> QED
  BY <1>1, Frames, Zenon DEF IInv, CheckerWork, uuidSide, mainSide, mutex, api

LEMMA TickOK ==
    ASSUME IInv, Tick
    PROVE  IInv'
<1> DEFINE known == {m \in DOMAIN cache : cache[m].uuid # None}
           jobs == {[name |-> n, uuid |-> cache[n].uuid] : n \in known}
<1>1. \A n \in known : n \in Names /\ cache[n].uuid \in UUIDs
  BY Zenon DEF IInv, APIOK, Object
<1>2. jobs \in SUBSET Jobs
  BY <1>1 DEF Jobs
<1>3. checker' = WithJobs(jobs)
  BY DEF Tick, WithJobs
<1> HIDE DEF jobs
<1>4. CheckerOK' /\ ChecksOK'
  BY <1>2, <1>3, CheckerIdleOK
<1> QED
  BY <1>4, CheckerWorkOK DEF Tick, IInv, QueuesOK

LEMMA ReceiveEventOK ==
    ASSUME IInv, ReceiveEvent
    PROVE  IInv'
<1>1. channel \in Seq(Jobs) /\ channel # <<>> /\ channel' = Tail(channel) /\ Len(channel) <= Capacity
  BY DEF IInv, QueuesOK, ReceiveEvent
<1>2. /\ Head(channel) \in Jobs /\ channel' \in Seq(Jobs)
      /\ Len(channel') = Len(channel) - 1 /\ Len(channel) \in Nat
  BY <1>1
<1>3. Len(channel') <= Capacity
  BY <1>1, <1>2, RemoteClusterAssumption
<1>4. {Head(channel)} \in SUBSET Jobs
  BY <1>2
<1>5. checker' = WithJobs({Head(channel)})
  BY DEF ReceiveEvent, WithJobs
<1>6. CheckerOK' /\ ChecksOK'
  BY <1>4, <1>5, CheckerIdleOK
<1> QED
  BY <1>2, <1>3, <1>6, CheckerWorkOK DEF ReceiveEvent

LEMMA CheckClusterOK ==
    ASSUME IInv, NEW job \in checker.jobs, CheckCluster(job)
    PROVE  IInv'
<1> DEFINE rest == [checker EXCEPT !.jobs = @ \ {job}, !.job = job]
<1>1. /\ DOMAIN checker = {"at", "jobs", "job", "daemon"} /\ checker.jobs \subseteq Jobs
      /\ checker.at = "next" /\ job \in Jobs
  BY DEF IInv, CheckerOK, CheckCluster
<1>2. /\ DOMAIN rest = {"at", "jobs", "job", "daemon"} /\ rest.at = "next"
      /\ rest.jobs = checker.jobs \ {job} /\ rest.job = job
  BY <1>1
<1>3. UNCHANGED <<hub, running>>
  BY DEF CheckCluster, CheckerWork
<1>4. \/ checker' = CheckerIdle
      \/ checker' = [checker EXCEPT !.jobs = rest.jobs]
      \/ checker' = [rest EXCEPT !.at = "patch"]
      \/ /\ job.uuid \in DOMAIN hub
         /\ checker' = [rest EXCEPT !.at = "check", !.daemon = hub[job.uuid].daemon]
  BY DEF CheckCluster
<1> HIDE DEF rest
<1>5. CheckerOK' /\ ChecksOK'
  <2>1. CASE checker' = CheckerIdle
    BY <2>1, CheckerIdleOK
  <2>2. CASE checker' = [checker EXCEPT !.jobs = rest.jobs]
    <3>1. /\ DOMAIN checker' = {"at", "jobs", "job", "daemon"} /\ checker'.at = "next"
          /\ checker'.jobs \subseteq Jobs
      BY <1>1, <1>2, <2>2
    <3> QED
      BY <3>1, Zenon DEF CheckerOK, ChecksOK, RunsOnce
  <2>3. CASE checker' = [rest EXCEPT !.at = "patch"]
    <3>1. /\ DOMAIN checker' = {"at", "jobs", "job", "daemon"} /\ checker'.at = "patch"
          /\ checker'.jobs \subseteq Jobs /\ checker'.job = job
      BY <1>1, <1>2, <2>3
    <3> QED
      BY <1>1, <3>1, Zenon DEF CheckerOK, ChecksOK, RunsOnce
  <2>4. CASE /\ job.uuid \in DOMAIN hub
             /\ checker' = [rest EXCEPT !.at = "check", !.daemon = hub[job.uuid].daemon]
    <3>1. /\ DOMAIN checker' = {"at", "jobs", "job", "daemon"} /\ checker'.at = "check"
          /\ checker'.jobs \subseteq Jobs /\ checker'.job = job
          /\ checker'.daemon = hub[job.uuid].daemon
      BY <1>1, <1>2, <2>4
    <3> QED
      BY <1>1, <1>3, <3>1, Zenon DEF CheckerOK, ChecksOK, RunsOnce
  <2> QED
    BY <1>4, <2>1, <2>2, <2>3, <2>4
<1> QED
  BY <1>5, CheckerWorkOK DEF CheckCluster, IInv, QueuesOK

\* The checker goes on with the same job.
LEMMA CheckerGoOK ==
    ASSUME CheckerOK, NEW at \in {"run", "stop", "patch"}, CheckerGo(at),
           checker.at \notin {"idle", "next"}
    PROVE  CheckerOK' /\ checker'.at = at /\ checker'.job = checker.job
<1>1. /\ DOMAIN checker' = {"at", "jobs", "job", "daemon"} /\ checker'.at = at
      /\ checker'.jobs = checker.jobs /\ checker'.job = checker.job
  BY DEF CheckerOK, CheckerGo
<1> QED
  BY <1>1, Zenon DEF CheckerOK

LEMMA CheckAllOK ==
    ASSUME IInv, CheckAll
    PROVE  IInv'
<1>1. PICK at \in {"run", "stop", "patch"} :
          CheckerGo(at) /\ (at = "run" => checker.daemon \notin running)
  BY DEF CheckAll
<1>2. checker.at = "check" /\ UNCHANGED <<hub, running>>
  BY DEF CheckAll, CheckerWork
<1>3. CheckerOK' /\ checker'.at = at /\ checker'.job = checker.job
  BY <1>1, <1>2, CheckerGoOK, Zenon DEF IInv
<1>4. ChecksOK'
  BY <1>1, <1>2, <1>3, Zenon DEF IInv, ChecksOK, RunsOnce
<1> QED
  BY <1>3, <1>4, CheckerWorkOK DEF CheckAll, IInv, QueuesOK

\* The next job, or none.
LEMMA NextJobOK ==
    ASSUME IInv, NextJob
    PROVE  CheckerOK' /\ ChecksOK'
<1>1. checker.jobs \in SUBSET Jobs
  BY DEF IInv, CheckerOK
<1>2. checker' = CheckerIdle \/ checker' = WithJobs(checker.jobs)
  BY DEF NextJob, WithJobs
<1> QED
  BY <1>1, <1>2, CheckerIdleOK, Zenon

\* What RunDaemon, StopDaemon and PatchStatus leave alone.
LEMMA CheckerFrame ==
    ASSUME IInv, CheckerWork, UNCHANGED channel
    PROVE  /\ QueuesOK' /\ UUIDStepsOK' /\ MutexOK' /\ MainStepsOK'
           /\ UNCHANGED <<hub, idName>>
  BY Frames, Zenon DEF IInv, CheckerWork, uuidSide, mainSide, mutex

LEMMA RunDaemonOK ==
    ASSUME IInv, RunDaemon
    PROVE  IInv'
<1>1. /\ QueuesOK' /\ UUIDStepsOK' /\ MutexOK' /\ MainStepsOK' /\ APIOK'
      /\ UNCHANGED <<hub, idName>>
  BY CheckerFrame, Frames, Zenon DEF RunDaemon, IInv, CheckerWork, api
<1>2. CASE checker.job.uuid \in DOMAIN hub
  <2>1. running' = running \cup {hub[checker.job.uuid].daemon} /\ CheckerGo("patch")
    BY <1>2, Zenon DEF RunDaemon
  <2>2. CheckerOK' /\ checker'.at = "patch"
    BY <2>1, CheckerGoOK, Zenon DEF IInv, RunDaemon
  <2>3. HubOK'
    BY <1>1, <1>2, <2>1, Zenon DEF IInv, HubOK, DaemonHoldsUUID, RunningIsRegistered
  <2>4. ChecksOK'
    BY <2>2 DEF ChecksOK, RunsOnce
  <2> QED
    BY <1>1, <2>2, <2>3, <2>4 DEF IInv
<1>3. CASE checker.job.uuid \notin DOMAIN hub
  <2>1. NextJob /\ UNCHANGED running
    BY <1>3 DEF RunDaemon
  <2> QED
    BY <1>1, <2>1, NextJobOK, Frames, Zenon DEF IInv
<1> QED
  BY <1>2, <1>3

LEMMA StopDaemonOK ==
    ASSUME IInv, StopDaemon
    PROVE  IInv'
<1>1. /\ QueuesOK' /\ UUIDStepsOK' /\ MutexOK' /\ MainStepsOK' /\ APIOK'
      /\ UNCHANGED <<hub, idName>>
  BY CheckerFrame, Frames, Zenon DEF StopDaemon, IInv, CheckerWork, api
<1>2. CASE checker.job.uuid \in DOMAIN hub
  <2>1. running' = running \ {hub[checker.job.uuid].daemon} /\ CheckerGo("patch")
    BY <1>2, Zenon DEF StopDaemon
  <2>2. CheckerOK' /\ checker'.at = "patch"
    BY <2>1, CheckerGoOK, Zenon DEF IInv, StopDaemon
  <2>3. HubOK'
    BY <1>1, <2>1, Zenon DEF IInv, HubOK, DaemonHoldsUUID, RunningIsRegistered
  <2>4. ChecksOK'
    BY <2>2 DEF ChecksOK, RunsOnce
  <2> QED
    BY <1>1, <2>2, <2>3, <2>4 DEF IInv
<1>3. CASE checker.job.uuid \notin DOMAIN hub
  <2>1. NextJob /\ UNCHANGED running
    BY <1>3 DEF StopDaemon
  <2> QED
    BY <1>1, <2>1, NextJobOK, Frames, Zenon DEF IInv
<1> QED
  BY <1>2, <1>3, Zenon

LEMMA PatchStatusOK ==
    ASSUME IInv, PatchStatus
    PROVE  IInv'
<1> DEFINE n == checker.job.name
           event == [name |-> n, value |-> clusters[n]]
<1>1. /\ QueuesOK' /\ UUIDStepsOK' /\ MutexOK' /\ MainStepsOK'
      /\ UNCHANGED <<hub, idName, running, clusters, cache>>
  BY CheckerFrame, Zenon DEF PatchStatus, CheckerWork
<1>2. HubOK' /\ CheckerOK' /\ ChecksOK'
  BY <1>1, NextJobOK, Frames, Zenon DEF PatchStatus, IInv
<1>3. CASE n \in DOMAIN clusters /\ Len(feed) < MaxLag /\ feed' = Append(feed, event)
  <2>1. event \in Events
    BY <1>3, Zenon DEF IInv, APIOK, Events
  <2> HIDE DEF event
  <2>2. feed' \in Seq(Events) /\ Len(feed') = Len(feed) + 1 /\ Len(feed) \in Nat
    BY <1>3, <2>1 DEF IInv, APIOK
  <2>3. Len(feed') <= MaxLag
    BY <1>3, <2>2, RemoteClusterAssumption
  <2>4. APIOK'
    BY <1>1, <2>2, <2>3, Zenon DEF IInv, APIOK
  <2> QED
    BY <1>1, <1>2, <2>4 DEF IInv
<1>4. CASE UNCHANGED feed
  BY <1>1, <1>2, <1>4, Frames, Zenon DEF IInv
<1> QED
  BY <1>3, <1>4, Zenon DEF PatchStatus

LEMMA StatusCheckerOK ==
    ASSUME IInv, StatusChecker
    PROVE  IInv'
  BY ReceiveEventOK, CheckClusterOK, CheckAllOK, RunDaemonOK, StopDaemonOK, PatchStatusOK
  DEF StatusChecker

(***************************************************************************)
(* The start of the manager.                                               *)
(***************************************************************************)
LEMMA RestartOK ==
    ASSUME IInv, Restart
    PROVE  IInv'
<1> DEFINE byName == [n \in Recorded |-> clusters[n].uuid]
           uuids == {clusters[n].uuid : n \in Recorded}
           byUUID == [u \in uuids |-> CHOOSE n \in Recorded : clusters[n].uuid = u]
<1>1. /\ \A n \in Recorded : n \in Names /\ clusters[n].uuid \in UUIDs /\ clusters[n].uuid # LocalUUID
      /\ \A m, n \in Recorded : clusters[m].uuid = clusters[n].uuid => m = n
  BY Zenon DEF Restart, CanStart, Recorded, IInv, APIOK, Object
<1>2. \A n \in Recorded : clusters[n].uuid \in uuids /\ byUUID[clusters[n].uuid] = n
  BY <1>1, Zenon
<1>3. \A u \in uuids : byUUID[u] \in Recorded
  BY Zenon
<1>4. latest' = With(byName, LocalCluster, LocalUUID) /\ idName' = With(byUUID, LocalUUID, LocalCluster)
  BY Zenon DEF Restart
<1>5. uuids \subseteq UUIDs /\ LocalUUID \notin uuids /\ DOMAIN byUUID = uuids
  BY <1>1, Zenon
<1>6. DOMAIN byName = Recorded /\ \A n \in Recorded : byName[n] = clusters[n].uuid
  OBVIOUS
<1> HIDE DEF byName, byUUID, uuids
<1>7. /\ DOMAIN idName' = uuids \cup {LocalUUID} /\ idName'[LocalUUID] = LocalCluster
      /\ \A u \in uuids : idName'[u] = byUUID[u]
  BY <1>4, <1>5, Zenon DEF With
<1>8. /\ DOMAIN latest' = Recorded \cup {LocalCluster} /\ latest'[LocalCluster] = LocalUUID
      /\ \A n \in Recorded : latest'[n] = clusters[n].uuid
  BY <1>1, <1>4, <1>6, RemoteClusterAssumption, Zenon DEF With
<1>9. MutexOK'
  <2>1. DOMAIN idName' \subseteq UUIDs /\ DOMAIN latest' \subseteq Owners
    BY <1>1, <1>5, <1>7, <1>8, RemoteClusterAssumption, Zenon DEF Owners
  <2>2. \A u \in DOMAIN idName' : idName'[u] \in Owners
    BY <1>1, <1>3, <1>7, Zenon DEF Owners
  <2>3. \A n \in DOMAIN latest' : latest'[n] \in DOMAIN idName' /\ idName'[latest'[n]] = n
    BY <1>2, <1>7, <1>8, Zenon
  <2> QED
    BY <1>7, <2>1, <2>2, <2>3, Zenon DEF MutexOK
<1>10. APIOK'
  <2>1. UNCHANGED clusters /\ cache' = clusters /\ feed' = <<>>
    BY Zenon DEF Restart
  <2>2. feed' \in Seq(Events) /\ Len(feed') = 0
    BY <2>1
  <2>3. Len(feed') <= MaxLag
    BY <2>2, RemoteClusterAssumption
  <2> QED
    BY <2>1, <2>2, <2>3, Zenon DEF IInv, APIOK
<1>11. QueuesOK'
  <2>1. channel' = <<>> /\ uuidQueue' = DOMAIN clusters /\ mainQueue' = DOMAIN clusters
    BY Zenon DEF Restart
  <2>2. channel' \in Seq(Jobs) /\ Len(channel') = 0
    BY <2>1
  <2>3. Len(channel') <= Capacity
    BY <2>2, RemoteClusterAssumption
  <2> QED
    BY <2>1, <2>2, <2>3, Zenon DEF IInv, APIOK, QueuesOK
<1>12. UUIDStepsOK'
  BY UUIDIdleOK, Zenon DEF Restart, UUIDStepsOK
<1>13. MainStepsOK'
  BY MainIdleOK, Zenon DEF Restart, MainStepsOK
<1>14. CheckerOK' /\ ChecksOK'
  <2>1. {} \in SUBSET Jobs /\ checker' = CheckerIdle
    BY Zenon DEF Restart
  <2> QED
    BY <2>1, CheckerIdleOK
<1>15. HubOK'
  BY Zenon DEF Restart, HubOK, NoFunction, DaemonHoldsUUID, RunningIsRegistered
<1> QED
  BY <1>9, <1>10, <1>11, <1>12, <1>13, <1>14, <1>15 DEF IInv

(***************************************************************************)
(* The theorems.                                                           *)
(***************************************************************************)
LEMMA InitOK ==
    ASSUME Init
    PROVE  IInv
<1>1. APIOK
  <2>1. feed = <<>> /\ DOMAIN clusters = {} /\ DOMAIN cache = {}
    BY Zenon DEF Init, NoFunction
  <2>2. feed \in Seq(Events) /\ Len(feed) = 0
    BY <2>1
  <2>3. Len(feed) <= MaxLag
    BY <2>2, RemoteClusterAssumption
  <2> QED
    BY <2>1, <2>2, <2>3, Zenon DEF APIOK
<1>2. QueuesOK
  <2>1. channel = <<>> /\ uuidQueue = {} /\ mainQueue = {}
    BY Zenon DEF Init
  <2>2. channel \in Seq(Jobs) /\ Len(channel) = 0
    BY <2>1
  <2>3. Len(channel) <= Capacity
    BY <2>2, RemoteClusterAssumption
  <2> QED
    BY <2>1, <2>2, <2>3 DEF QueuesOK
<1>3. UUIDStepsOK
  BY UUIDIdleOK, Zenon DEF Init, UUIDStepsOK
<1>4. MainStepsOK
  BY MainIdleOK, Zenon DEF Init, MainStepsOK
<1>5. CheckerOK /\ ChecksOK
  BY Zenon DEF Init, CheckerOK, ChecksOK, CheckerIdle, RunsOnce
<1>6. MutexOK
  BY RemoteClusterAssumption, Zenon DEF Init, MutexOK, With, NoFunction, Owners
<1>7. HubOK
  BY Zenon DEF Init, HubOK, NoFunction, DaemonHoldsUUID, RunningIsRegistered
<1> QED
  BY <1>1, <1>2, <1>3, <1>4, <1>5, <1>6, <1>7 DEF IInv

LEMMA StutterOK ==
    ASSUME IInv, UNCHANGED vars
    PROVE  IInv'
<1>1. /\ UNCHANGED <<clusters, feed, cache, uuidQueue, uuidStep, mainQueue, mainStep>>
      /\ UNCHANGED <<idName, latest, hub, running, channel, checker>>
  BY DEF vars, api, uuidSide, mainSide, mutex, daemons
<1>2. APIOK' /\ QueuesOK' /\ UUIDStepsOK' /\ MutexOK' /\ HubOK' /\ MainStepsOK'
  BY <1>1, Frames, Zenon DEF IInv
<1>3. CheckerOK' /\ ChecksOK'
  BY <1>1, Zenon DEF IInv, CheckerOK, ChecksOK, RunsOnce
<1> QED
  BY <1>2, <1>3 DEF IInv

LEMMA NextOK ==
    ASSUME IInv, [Next]_vars
    PROVE  IInv'
<1>1. CASE UNCHANGED vars
  BY <1>1, StutterOK
<1>2. ASSUME NEW n \in Names, Users(n) \/ UUIDReconciler(n) \/ MainReconciler(n)
      PROVE  IInv'
  BY <1>2, UsersOK, UUIDReconcilerOK, MainReconcilerOK
<1>3. CASE Deliver \/ StatusChecker \/ Tick \/ Restart
  BY <1>3, DeliverOK, StatusCheckerOK, TickOK, RestartOK
<1> QED
  BY <1>1, <1>2, <1>3 DEF Next

\* The inductive invariant holds in every state of the controllers.
THEOREM Invariance == Spec => []IInv
<1>1. Init => IInv
  BY InitOK
<1>2. IInv /\ [Next]_vars => IInv'
  BY NextOK
<1> QED
  BY <1>1, <1>2, PTL DEF Spec

\* Type correctness, with what the two maps of the mutex say of each other: the
\* latest UUID Lock recorded for a name is one that name still holds.
THEOREM RemoteTypeCorrect == Spec => []TypeOK
<1>1. IInv => TypeOK
  <2> SUFFICES ASSUME IInv PROVE TypeOK
    OBVIOUS
  <2>1. /\ DOMAIN clusters \subseteq Names /\ Range(clusters) \subseteq Object
        /\ DOMAIN cache \subseteq Names /\ Range(cache) \subseteq Object
        /\ Len(feed) <= MaxLag
    BY Zenon DEF IInv, APIOK, Range
  <2>2. uuidQueue \cup mainQueue \subseteq Names /\ Len(channel) <= Capacity
    BY DEF IInv, QueuesOK
  <2>3. /\ DOMAIN idName \subseteq UUIDs /\ Range(idName) \subseteq Names \cup {LocalCluster}
        /\ DOMAIN latest \subseteq Names \cup {LocalCluster}
        /\ \A n \in DOMAIN latest : latest[n] \in DOMAIN idName /\ idName[latest[n]] = n
    BY Zenon DEF IInv, MutexOK, Owners, Range
  <2>4. DOMAIN hub \subseteq UUIDs /\ Range(hub) \subseteq [daemon : DaemonIDs, name : Names]
    BY Zenon DEF IInv, HubOK, Range
  <2>5. running \subseteq DaemonIDs
    BY Zenon DEF IInv, HubOK, RunningIsRegistered
  <2> QED
    BY <2>1, <2>2, <2>3, <2>4, <2>5, Zenon DEF TypeOK
<1> QED
  BY <1>1, Invariance, PTL

\* A daemon is registered only while its RemoteCluster holds the lock of the
\* UUID in uuidMutex: Reconcile locks before it registers, and whoever unlocks
\* has unregistered, or found nothing registered, before.
THEOREM DaemonsHoldUUIDs == Spec => []DaemonHoldsUUID
<1>1. IInv => DaemonHoldsUUID
  BY Zenon DEF IInv, HubOK
<1> QED
  BY <1>1, Invariance, PTL

\* A daemon that runs stays registered: Unregister refuses one that the checker
\* runs again after killDaemon stopped it.
THEOREM RunningRegistered == Spec => []RunningIsRegistered
<1>1. IInv => RunningIsRegistered
  BY Zenon DEF IInv, HubOK
<1> QED
  BY <1>1, Invariance, PTL

\* The status checker never runs a daemon that runs already, whatever the
\* reconcilers do between its IsRunning and its Run.
THEOREM RunsAtMostOnce == Spec => []RunsOnce
<1>1. IInv => RunsOnce
  BY Zenon DEF IInv, ChecksOK
<1> QED
  BY <1>1, Invariance, PTL

\* No daemon serves the cluster the manager itself runs in: SetupWithManager
\* locks its UUID under a name no RemoteCluster has, and nothing unlocks it.
THEOREM LocalNotServed == Spec => [](LocalUUID \notin DOMAIN hub)
<1>1. IInv => LocalUUID \notin DOMAIN hub
  BY RemoteClusterAssumption DEF IInv, HubOK, MutexOK, DaemonHoldsUUID
<1> QED
  BY <1>1, Invariance, PTL
==============================================================================
