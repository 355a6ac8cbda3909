---------------------------- MODULE RemoteCluster ----------------------------
(***************************************************************************)
(* How hybridnet-manager serves remote clusters: the reconciler that finds *)
(* out the UUID of a RemoteCluster and locks it, the reconciler that       *)
(* registers a daemon (a manager runtime) for the UUID, the status checker *)
(* that runs and stops the registered daemons, the UUID mutex and the      *)
(* daemon hub they share.                                                  *)
(*                                                                         *)
(* The methods of the mutex and of the hub hold a lock for their whole     *)
(* body, so each is atomic; a call of theirs is a step, together with what *)
(* the caller does in its own variables before the next call.              *)
(***************************************************************************)
EXTENDS Integers, FiniteSets, Sequences, Functions

CONSTANTS
    Names,          \* names of RemoteClusters
    UUIDs,          \* UUIDs of clusters: what an endpoint answers
    LocalUUID,      \* the UUID of the cluster the manager runs in
    LocalCluster,   \* the name that LocalUUID is locked with
    Invalid,        \* an endpoint whose certificates make no client
    None,           \* no UUID, no daemon
    Capacity,       \* of the channel of check events
    MaxEdits,       \* bound: what users create, change and delete
    MaxLag,         \* bound: API events that the cache has not seen yet
    MaxFaults,      \* bound: calls that answer with an error
    MaxTicks,       \* bound: periodic checks
    MaxRestarts,    \* bound: restarts of the manager
    MaxEvents       \* bound: all of these together

ASSUME RemoteClusterAssumption ==
    /\ IsFiniteSet(UUIDs) /\ LocalUUID \in UUIDs
    /\ LocalCluster \notin Names
    /\ {Invalid, None} \cap UUIDs = {}
    /\ Capacity \in Nat \ {0} /\ MaxLag \in Nat \ {0}
    /\ {MaxEdits, MaxFaults, MaxTicks, MaxRestarts} \subseteq Nat

VARIABLES
    clusters,   \* API: RemoteClusters by name
    feed,       \* their events on the way to the cache
    cache,      \* the informer's copy of clusters
    uuidQueue,  \* work queue of the UUID reconciler
    uuidStep,   \* where the UUID reconciler of a name is, and the UUID it locked
    mainQueue,  \* work queue of the RemoteCluster reconciler
    mainStep,   \* where it is with a name, and its local variables
    idName,     \* uuidMutex.idNameMap: UUID |-> name
    latest,     \* uuidMutex.nameLatestIDMap: name |-> UUID
    hub,        \* daemonHub.hub: UUID |-> daemon and its cluster
    running,    \* the daemons that run
    channel,    \* check events
    checker,    \* where the status checker is
    edits, faults, ticks, restarts      \* counters of the bounds

api == <<clusters, feed>>
uuidSide == <<uuidQueue, uuidStep>>
mainSide == <<mainQueue, mainStep>>
mutex == <<idName, latest>>
daemons == <<hub, running>>
counters == <<edits, faults, ticks, restarts>>

Room == edits + faults + ticks + restarts < MaxEvents
vars == <<api, cache, uuidSide, mainSide, mutex, daemons, channel, checker, counters>>

With(f, x, v) == [y \in DOMAIN f \cup {x} |-> IF y = x THEN v ELSE f[y]]
Without(f, x) == Restrict(f, DOMAIN f \ {x})
NoFunction == [x \in {} |-> x]

Endpoints == UUIDs \cup {Invalid}
Object == [endpoint : Endpoints, uuid : UUIDs \cup {None}, deleting : BOOLEAN, finalizer : BOOLEAN]

UUIDIdle == [at |-> "idle", seen |-> None, uuid |-> None]
MainIdle == [at |-> "idle", seen |-> None, todo |-> {}, uuid |-> None]
CheckerIdle == [at |-> "idle", jobs |-> {}, job |-> None, daemon |-> None]

\* A daemon is told from the ones still referred to by its number.
DaemonIDs == 1 .. (Cardinality(UUIDs) + 2)
NewDaemon ==
    CHOOSE d \in DaemonIDs : /\ \A u \in DOMAIN hub : hub[u].daemon # d
                             /\ d \notin running
                             /\ d # checker.daemon

(***************************************************************************)
(* The API server (external).                                              *)
(***************************************************************************)
SetCluster(n, v) ==
    IF n \in DOMAIN clusters /\ clusters[n] = v
    THEN UNCHANGED api
    ELSE /\ Len(feed) < MaxLag
         /\ clusters' = With(clusters, n, v)
         /\ feed' = Append(feed, [name |-> n, value |-> v])

RemoveCluster(n) ==
    /\ Len(feed) < MaxLag
    /\ clusters' = Without(clusters, n)
    /\ feed' = Append(feed, [name |-> n, value |-> None])

Fault ==
    /\ faults < MaxFaults /\ Room
    /\ faults' = faults + 1

\* Users create, change and delete RemoteClusters.
Edit ==
    /\ edits < MaxEdits /\ Room
    /\ edits' = edits + 1
    /\ UNCHANGED <<cache, uuidSide, mainSide, mutex, daemons, channel, checker, faults, ticks, restarts>>

CreateCluster(n, e) ==
    /\ n \notin DOMAIN clusters
    /\ SetCluster(n, [endpoint |-> e, uuid |-> None, deleting |-> FALSE, finalizer |-> FALSE])
    /\ Edit

ChangeEndpoint(n, e) ==
    /\ n \in DOMAIN clusters
    /\ ~clusters[n].deleting /\ clusters[n].endpoint # e
    /\ SetCluster(n, [clusters[n] EXCEPT !.endpoint = e])
    /\ Edit

DeleteCluster(n) ==
    /\ n \in DOMAIN clusters
    /\ ~clusters[n].deleting
    /\ IF clusters[n].finalizer THEN SetCluster(n, [clusters[n] EXCEPT !.deleting = TRUE])
                                ELSE RemoveCluster(n)
    /\ Edit

(***************************************************************************)
(* The watch, and the predicates of the two reconcilers.                   *)
(***************************************************************************)
\* A generation changes with the spec and with the deletion mark.
GenerationChangedPredicate(old, new) ==
    old.endpoint # new.endpoint \/ old.deleting # new.deleting

\* Mutant: without the predicate for terminating objects.
UUIDChangeOnly(old, new) == old.uuid # new.uuid

RemoteClusterPredicate(old, new) == old.uuid # new.uuid \/ new.deleting

Deliver ==
    /\ feed # <<>>
    /\ feed' = Tail(feed)
    /\ LET n == Head(feed).name
           new == Head(feed).value
           created == n \notin DOMAIN cache
       IN  /\ cache' = IF new = None THEN Without(cache, n) ELSE With(cache, n, new)
           /\ uuidQueue' =
                IF new = None \/ created \/ GenerationChangedPredicate(cache[n], new)
                THEN uuidQueue \cup {n} ELSE uuidQueue
           /\ mainQueue' =
                IF new # None /\ (created \/ RemoteClusterPredicate(cache[n], new))
                THEN mainQueue \cup {n} ELSE mainQueue
    /\ UNCHANGED <<clusters, uuidStep, mainStep, mutex, daemons, channel, checker, counters>>

(***************************************************************************)
(* The UUID mutex.                                                         *)
(***************************************************************************)
\* Mutant: a UUID locked by another name is taken over.
CanLockAnyone(u, n) == u # LocalUUID

CanLock(u, n) == u \in DOMAIN idName => idName[u] = n

Lock(u, n) ==
    /\ idName' = With(idName, u, n)
    /\ latest' = With(latest, n, u)

\* Mutant: nameLatestIDMap is not cleaned.
UnlockKeepingLatest(u) == idName' = Without(idName, u) /\ UNCHANGED latest

Unlock(u) ==
    IF u \in DOMAIN idName
    THEN /\ idName' = Without(idName, u)
         /\ latest' = LET n == idName[u]
                      IN  IF n \in DOMAIN latest /\ latest[n] = u THEN Without(latest, n) ELSE latest
    ELSE UNCHANGED mutex

GetUUIDs(n) == {u \in DOMAIN idName : idName[u] = n}

(***************************************************************************)
(* The UUID reconciler.                                                    *)
(***************************************************************************)
UUIDWork == UNCHANGED <<cache, mainSide, daemons, channel, checker, edits, ticks, restarts>>

UUIDGo(n, s) == uuidStep' = [uuidStep EXCEPT ![n] = s]
UUIDRetry(n) == UUIDGo(n, UUIDIdle) /\ uuidQueue' = uuidQueue \cup {n}
UUIDDone(n) == UUIDGo(n, UUIDIdle) /\ UNCHANGED uuidQueue

StartUUID(n) ==
    /\ n \in uuidQueue /\ uuidStep[n].at = "idle"
    /\ uuidQueue' = uuidQueue \ {n}
    /\ IF n \in DOMAIN cache /\ ~cache[n].deleting
       THEN UUIDGo(n, [UUIDIdle EXCEPT !.at = "resolve", !.seen = cache[n]])
       ELSE UNCHANGED uuidStep
    /\ UUIDWork /\ UNCHANGED <<api, mutex, faults>>

\* No client can be made: the UUID is cleared, whose error is ignored.
ClearUUID(n) ==
    /\ uuidStep[n].at = "resolve" /\ uuidStep[n].seen.endpoint = Invalid
    /\ \/ n \in DOMAIN clusters /\ SetCluster(n, [clusters[n] EXCEPT !.uuid = None]) /\ UNCHANGED faults
       \/ n \notin DOMAIN clusters /\ UNCHANGED <<api, faults>>
       \/ Fault /\ UNCHANGED api
    /\ UUIDRetry(n)
    /\ UUIDWork /\ UNCHANGED mutex

\* The remote cluster answers with its UUID, which is locked if it is new.
Resolve(n) ==
    LET u == uuidStep[n].seen.endpoint
    IN  /\ uuidStep[n].at = "resolve" /\ u # Invalid
        /\ IF u = uuidStep[n].seen.uuid THEN UUIDDone(n) /\ UNCHANGED mutex
           ELSE IF CanLock(u, n)
           THEN /\ Lock(u, n)
                /\ UUIDGo(n, [UUIDIdle EXCEPT !.at = "record", !.uuid = u])
                /\ UNCHANGED uuidQueue
           ELSE UUIDRetry(n) /\ UNCHANGED mutex
        /\ UUIDWork /\ UNCHANGED <<api, faults>>

ResolveFails(n) ==
    /\ uuidStep[n].at = "resolve" /\ uuidStep[n].seen.endpoint # Invalid
    /\ Fault /\ UUIDRetry(n)
    /\ UUIDWork /\ UNCHANGED <<api, mutex>>

\* The patch, or the answer to it, may be lost.
RecordUUID(n) ==
    LET recorded == n \in DOMAIN clusters
                    /\ SetCluster(n, [clusters[n] EXCEPT !.uuid = uuidStep[n].uuid])
    IN  /\ uuidStep[n].at = "record"
        /\ \/ recorded /\ UUIDDone(n) /\ UNCHANGED faults
           \/ n \notin DOMAIN clusters /\ UNCHANGED <<api, faults>> /\ UUIDRetry(n)
           \/ (recorded \/ UNCHANGED api) /\ Fault /\ UUIDRetry(n)
        /\ UUIDWork /\ UNCHANGED mutex

(***************************************************************************)
(* The RemoteCluster reconciler.                                           *)
(***************************************************************************)
MainWork == UNCHANGED <<cache, uuidSide, checker, edits, ticks, restarts>>

MainGo(n, s) == mainStep' = [mainStep EXCEPT ![n] = s] /\ UNCHANGED mainQueue
MainDone(n) == MainGo(n, MainIdle)
MainRetry(n) == mainStep' = [mainStep EXCEPT ![n] = MainIdle] /\ mainQueue' = mainQueue \cup {n}

\* The object is to be let go: it is terminating, or its UUID is not known.
LetsGo(seen) == seen.deleting \/ seen.uuid = None

\* Where to go once the orphan UUIDs are recycled.
AfterRecycling(seen) ==
    CASE LetsGo(seen) /\ seen.finalizer -> [MainIdle EXCEPT !.at = "removeFinalizer", !.seen = seen]
      [] LetsGo(seen) /\ ~seen.finalizer -> MainIdle
      [] OTHER -> [MainIdle EXCEPT !.at = "construct", !.seen = seen]

Recycling(seen, todo) ==
    IF todo = {} THEN AfterRecycling(seen)
    ELSE [MainIdle EXCEPT !.at = "recycle", !.seen = seen, !.todo = todo]

StartMain(n) ==
    /\ n \in mainQueue /\ mainStep[n].at = "idle"
    /\ IF n \notin DOMAIN cache
       THEN mainQueue' = mainQueue \ {n} /\ UNCHANGED mainStep
       ELSE IF LetsGo(cache[n])
       THEN /\ mainQueue' = mainQueue \ {n}
            /\ mainStep' = [mainStep EXCEPT ![n] = Recycling(cache[n], GetUUIDs(n))]
       ELSE IF n \in DOMAIN latest /\ latest[n] = cache[n].uuid
       THEN /\ mainQueue' = mainQueue \ {n}
            /\ mainStep' = [mainStep EXCEPT ![n] = [MainIdle EXCEPT !.at = "list", !.seen = cache[n]]]
       ELSE UNCHANGED mainSide     \* an error: the key goes back to the queue
    /\ MainWork /\ UNCHANGED <<api, mutex, daemons, channel, faults>>

ListOrphans(n) ==
    LET seen == mainStep[n].seen
    IN  /\ mainStep[n].at = "list"
        /\ MainGo(n, Recycling(seen, GetUUIDs(n) \ {seen.uuid}))
        /\ MainWork /\ UNCHANGED <<api, mutex, daemons, channel, faults>>

\* killDaemon up to Stop, or Unlock when there is no daemon to kill.
Recycle(n, u) ==
    /\ mainStep[n].at = "recycle" /\ u \in mainStep[n].todo
    /\ IF u \in DOMAIN hub
       THEN /\ running' = running \ {hub[u].daemon}
            /\ MainGo(n, [mainStep[n] EXCEPT !.at = "unregister", !.uuid = u])
            /\ UNCHANGED <<hub, mutex>>
       ELSE /\ Unlock(u)
            /\ MainGo(n, Recycling(mainStep[n].seen, mainStep[n].todo \ {u}))
            /\ UNCHANGED daemons
    /\ MainWork /\ UNCHANGED <<api, channel, faults>>

\* Mutant: Unregister does not look at the daemon's status.
CanUnregisterAny(u) == u \in UUIDs

\* daemonHub.Unregister refuses a daemon that runs.
CanUnregister(u) == u \in DOMAIN hub => hub[u].daemon \notin running

\* The rest of killDaemon, and Unlock.
UnregisterOrphan(n) ==
    LET u == mainStep[n].uuid
    IN  /\ mainStep[n].at = "unregister"
        /\ IF CanUnregister(u)
           THEN /\ hub' = Without(hub, u)
                /\ Unlock(u)
                /\ MainGo(n, Recycling(mainStep[n].seen, mainStep[n].todo \ {u}))
           ELSE MainRetry(n) /\ UNCHANGED <<hub, mutex>>
        /\ MainWork /\ UNCHANGED <<api, running, channel, faults>>

\* The last finalizer of a terminating object takes it away.
RemoveFinalizer(n) ==
    LET removed == /\ n \in DOMAIN clusters
                   /\ IF clusters[n].deleting THEN RemoveCluster(n)
                      ELSE SetCluster(n, [clusters[n] EXCEPT !.finalizer = FALSE])
    IN  /\ mainStep[n].at = "removeFinalizer"
        /\ \/ removed /\ MainDone(n) /\ UNCHANGED faults
           \/ n \notin DOMAIN clusters /\ UNCHANGED <<api, faults>> /\ MainRetry(n)
           \/ (removed \/ UNCHANGED api) /\ Fault /\ MainRetry(n)
        /\ MainWork /\ UNCHANGED <<mutex, daemons, channel>>

\* The rest config and the manager runtime; the endpoint may have become invalid.
Construct(n) ==
    LET seen == mainStep[n].seen
    IN  /\ mainStep[n].at = "construct"
        /\ \/ /\ seen.endpoint # Invalid
              /\ MainGo(n, [mainStep[n] EXCEPT !.at = IF seen.finalizer THEN "guard" ELSE "addFinalizer"])
              /\ UNCHANGED faults
           \/ seen.endpoint = Invalid /\ MainRetry(n) /\ UNCHANGED faults
           \/ Fault /\ MainRetry(n)
        /\ MainWork /\ UNCHANGED <<api, mutex, daemons, channel>>

\* No finalizer can be added to a terminating object.
AddFinalizer(n) ==
    LET accepts == n \in DOMAIN clusters /\ ~clusters[n].deleting
        added == accepts /\ SetCluster(n, [clusters[n] EXCEPT !.finalizer = TRUE])
    IN  /\ mainStep[n].at = "addFinalizer"
        /\ \/ added /\ MainGo(n, [mainStep[n] EXCEPT !.at = "guard"]) /\ UNCHANGED faults
           \/ ~accepts /\ UNCHANGED <<api, faults>> /\ MainRetry(n)
           \/ (added \/ UNCHANGED api) /\ Fault /\ MainRetry(n)
        /\ MainWork /\ UNCHANGED <<mutex, daemons, channel>>

\* guardDaemon: a daemon registered before is stopped.
GuardDaemon(n) ==
    LET u == mainStep[n].seen.uuid
    IN  /\ mainStep[n].at = "guard"
        /\ running' = IF u \in DOMAIN hub THEN running \ {hub[u].daemon} ELSE running
        /\ MainGo(n, [mainStep[n] EXCEPT !.at = IF u \in DOMAIN hub THEN "replace" ELSE "register"])
        /\ MainWork /\ UNCHANGED <<api, mutex, hub, channel, faults>>

\* guardDaemon: and unregistered.
ReplaceDaemon(n) ==
    LET u == mainStep[n].seen.uuid
    IN  /\ mainStep[n].at = "replace"
        /\ IF CanUnregister(u)
           THEN hub' = Without(hub, u) /\ MainGo(n, [mainStep[n] EXCEPT !.at = "register"])
           ELSE MainRetry(n) /\ UNCHANGED hub
        /\ MainWork /\ UNCHANGED <<api, mutex, running, channel, faults>>

RegisterDaemon(n) ==
    LET u == mainStep[n].seen.uuid
    IN  /\ mainStep[n].at = "register"
        /\ IF u \in DOMAIN hub
           THEN MainRetry(n) /\ UNCHANGED hub
           ELSE /\ hub' = With(hub, u, [daemon |-> NewDaemon, name |-> n])
                /\ MainGo(n, [mainStep[n] EXCEPT !.at = "send"])
        /\ MainWork /\ UNCHANGED <<api, mutex, running, channel, faults>>

\* guardDaemon: the reconciler waits while the channel is full.
SendEvent(n) ==
    /\ mainStep[n].at = "send"
    /\ Len(channel) < Capacity
    /\ channel' = Append(channel, [name |-> n, uuid |-> mainStep[n].seen.uuid])
    /\ MainDone(n)
    /\ MainWork /\ UNCHANGED <<api, mutex, daemons, faults>>

(***************************************************************************)
(* The status checker: one goroutine, which checks one cluster at a time.  *)
(***************************************************************************)
CheckerWork == UNCHANGED <<cache, uuidSide, mainSide, mutex, hub, edits, restarts>>

NextJob == checker' = IF checker.jobs = {} THEN CheckerIdle
                      ELSE [CheckerIdle EXCEPT !.at = "next", !.jobs = checker.jobs]
CheckerGo(at) == checker' = [checker EXCEPT !.at = at]

\* crontab: all clusters whose UUID is known, in any order.
Tick ==
    LET jobs == {[name |-> n, uuid |-> cache[n].uuid] : n \in {m \in DOMAIN cache : cache[m].uuid # None}}
    IN  /\ checker.at = "idle" /\ jobs # {}
        /\ ticks < MaxTicks /\ Room /\ ticks' = ticks + 1
        /\ checker' = [CheckerIdle EXCEPT !.at = "next", !.jobs = jobs]
        /\ CheckerWork /\ UNCHANGED <<api, running, channel, faults>>

ReceiveEvent ==
    /\ checker.at = "idle" /\ channel # <<>>
    /\ channel' = Tail(channel)
    /\ checker' = [CheckerIdle EXCEPT !.at = "next", !.jobs = {Head(channel)}]
    /\ CheckerWork /\ UNCHANGED <<api, running, faults, ticks>>

\* checkClusterStatus up to the look at the hub.
CheckCluster(job) ==
    /\ checker.at = "next" /\ job \in checker.jobs
    /\ LET rest == [checker EXCEPT !.jobs = @ \ {job}, !.job = job]
       IN  checker' =
            IF job.name \notin DOMAIN cache
            THEN IF rest.jobs = {} THEN CheckerIdle ELSE [checker EXCEPT !.jobs = rest.jobs]
            ELSE IF job.uuid \notin DOMAIN hub THEN [rest EXCEPT !.at = "patch"]
            ELSE [rest EXCEPT !.at = "check", !.daemon = hub[job.uuid].daemon]
    /\ CheckerWork /\ UNCHANGED <<api, running, channel, faults, ticks>>

\* Mutant: a daemon that runs is run again.
CheckAllRunning ==
    /\ checker.at = "check"
    /\ \E ready \in BOOLEAN : CheckerGo(IF ready THEN "run" ELSE "stop")
    /\ CheckerWork /\ UNCHANGED <<api, running, channel, faults, ticks>>

\* The checks pass and the daemon found before does not run: it will be run;
\* a check fails and the daemon runs: it will be stopped.
CheckAll ==
    /\ checker.at = "check"
    /\ \E ready \in BOOLEAN :
          CheckerGo(CASE ready /\ checker.daemon \notin running -> "run"
                      [] ~ready /\ checker.daemon \in running -> "stop"
                      [] OTHER -> "patch")
    /\ CheckerWork /\ UNCHANGED <<api, running, channel, faults, ticks>>

\* daemonHub.Run runs the daemon that is registered now.  Without one there is
\* an error, and no patch.
RunDaemon ==
    /\ checker.at = "run"
    /\ IF checker.job.uuid \in DOMAIN hub
       THEN running' = running \cup {hub[checker.job.uuid].daemon} /\ CheckerGo("patch")
       ELSE NextJob /\ UNCHANGED running
    /\ CheckerWork /\ UNCHANGED <<api, channel, faults, ticks>>

StopDaemon ==
    /\ checker.at = "stop"
    /\ IF checker.job.uuid \in DOMAIN hub
       THEN running' = running \ {hub[checker.job.uuid].daemon} /\ CheckerGo("patch")
       ELSE NextJob /\ UNCHANGED running
    /\ CheckerWork /\ UNCHANGED <<api, channel, faults, ticks>>

\* State and conditions change, which only the predicate for terminating
\* objects lets through; an error is logged.
PatchStatus ==
    /\ checker.at = "patch"
    /\ LET n == checker.job.name
       IN  \/ /\ n \in DOMAIN clusters /\ clusters[n].deleting /\ Len(feed) < MaxLag
              /\ feed' = Append(feed, [name |-> n, value |-> clusters[n]])
              /\ UNCHANGED faults
           \/ (n \in DOMAIN clusters => ~clusters[n].deleting) /\ UNCHANGED <<feed, faults>>
           \/ Fault /\ UNCHANGED feed
    /\ NextJob
    /\ CheckerWork /\ UNCHANGED <<clusters, running, channel, ticks>>

(***************************************************************************)
(* A restart: NewUUIDMutexFromClient locks the UUIDs the statuses record,  *)
(* and the manager exits if two record the same one.                       *)
(***************************************************************************)
Recorded == {n \in DOMAIN clusters : clusters[n].uuid # None}

CanStart ==
    /\ \A n \in Recorded : clusters[n].uuid # LocalUUID
    /\ \A m, n \in Recorded : clusters[m].uuid = clusters[n].uuid => m = n

Restart ==
    /\ CanStart
    /\ restarts < MaxRestarts /\ Room
    /\ restarts' = restarts + 1
    /\ latest' = With([n \in Recorded |-> clusters[n].uuid], LocalCluster, LocalUUID)
    /\ idName' = With([u \in {clusters[n].uuid : n \in Recorded} |->
                          CHOOSE n \in Recorded : clusters[n].uuid = u], LocalUUID, LocalCluster)
    /\ hub' = NoFunction /\ running' = {} /\ channel' = <<>> /\ checker' = CheckerIdle
    /\ cache' = clusters /\ feed' = <<>>
    /\ uuidQueue' = DOMAIN clusters /\ uuidStep' = [n \in Names |-> UUIDIdle]
    /\ mainQueue' = DOMAIN clusters /\ mainStep' = [n \in Names |-> MainIdle]
    /\ UNCHANGED <<clusters, edits, faults, ticks>>

Init ==
    /\ clusters = NoFunction /\ feed = <<>> /\ cache = NoFunction
    /\ uuidQueue = {} /\ uuidStep = [n \in Names |-> UUIDIdle]
    /\ mainQueue = {} /\ mainStep = [n \in Names |-> MainIdle]
    /\ idName = With(NoFunction, LocalUUID, LocalCluster)
    /\ latest = With(NoFunction, LocalCluster, LocalUUID)
    /\ hub = NoFunction /\ running = {} /\ channel = <<>> /\ checker = CheckerIdle
    /\ edits = 0 /\ faults = 0 /\ ticks = 0 /\ restarts = 0

UUIDReconciler(n) == StartUUID(n) \/ ClearUUID(n) \/ Resolve(n) \/ ResolveFails(n) \/ RecordUUID(n)

MainReconciler(n) ==
    \/ StartMain(n) \/ ListOrphans(n)
    \/ \E u \in UUIDs : Recycle(n, u)
    \/ UnregisterOrphan(n) \/ RemoveFinalizer(n)
    \/ Construct(n) \/ AddFinalizer(n)
    \/ GuardDaemon(n) \/ ReplaceDaemon(n) \/ RegisterDaemon(n) \/ SendEvent(n)

StatusChecker ==
    \/ ReceiveEvent
    \/ \E job \in checker.jobs : CheckCluster(job)
    \/ CheckAll \/ RunDaemon \/ StopDaemon \/ PatchStatus

Users(n) ==
    \/ \E e \in Endpoints : CreateCluster(n, e) \/ ChangeEndpoint(n, e)
    \/ DeleteCluster(n)

Next ==
    \/ \E n \in Names : Users(n) \/ UUIDReconciler(n) \/ MainReconciler(n)
    \/ Deliver \/ StatusChecker \/ Tick \/ Restart

Spec == Init /\ [][Next]_vars

\* The watch delivers, the workers and the checker go on.
FairSpec ==
    /\ Spec
    /\ WF_vars(Deliver) /\ WF_vars(StatusChecker)
    /\ \A n \in Names : WF_vars(UUIDReconciler(n)) /\ WF_vars(MainReconciler(n))

(***************************************************************************)
(* Properties.                                                             *)
(***************************************************************************)
\* The type invariant: every variable holds what the code can put there.
TypeOK ==
    /\ DOMAIN clusters \subseteq Names /\ Range(clusters) \subseteq Object
    /\ DOMAIN cache \subseteq Names /\ Range(cache) \subseteq Object
    /\ uuidQueue \cup mainQueue \subseteq Names
    /\ DOMAIN idName \subseteq UUIDs /\ Range(idName) \subseteq Names \cup {LocalCluster}
    /\ DOMAIN latest \subseteq Names \cup {LocalCluster}
    /\ \A n \in DOMAIN latest : latest[n] \in DOMAIN idName /\ idName[latest[n]] = n
    /\ DOMAIN hub \subseteq UUIDs /\ Range(hub) \subseteq [daemon : DaemonIDs, name : Names]
    /\ running \subseteq DaemonIDs
    /\ Len(channel) <= Capacity /\ Len(feed) <= MaxLag

\* A daemon that runs is registered, so that it can be stopped: killDaemon stops
\* and unregisters in two calls, between which the checker may run it again
\* (Unregister refuses a running daemon).
RunningIsRegistered == \A d \in running : \E u \in DOMAIN hub : hub[u].daemon = d

\* A daemon is registered only while its cluster holds the lock of the UUID, so
\* that no two RemoteClusters serve one remote cluster, and none the local one.
DaemonHoldsUUID == \A u \in DOMAIN hub : u \in DOMAIN idName /\ idName[u] = hub[u].name

\* The checker runs no daemon that runs: managerRuntime.Run would return with its
\* lock held, and everyone who asks for its status would wait forever.
RunsOnce ==
    checker.at = "run" /\ checker.job.uuid \in DOMAIN hub
        => hub[checker.job.uuid].daemon \notin running

\* A terminating RemoteCluster goes away, with no daemon and no UUID left to it,
\* unless it is created anew.
Dismantled ==
    \A n \in Names :
        (n \in DOMAIN clusters /\ clusters[n].deleting)
            ~> \/ n \notin DOMAIN clusters /\ \A u \in DOMAIN hub : hub[u].name # n
               \/ n \in DOMAIN clusters /\ ~clusters[n].deleting
==============================================================================
