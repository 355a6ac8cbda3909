------------------------------- MODULE PodIPAM -------------------------------
(***************************************************************************)
(* How hybridnet-manager gives addresses to pods: the pod reconciler and   *)
(* its store of IPInstances, the IPInstance reconciler, the refresh of the *)
(* allocator's memory, and the informer cache and work queues between them *)
(* and the API server.  The allocator is used by its promise, IPPool; one  *)
(* network and one subnet, whose addresses are IPs, and one address family.*)
(* Pods of a stateful workload retain their addresses, or are allocated    *)
(* anew, or name an address of a pool, as their annotations say.           *)
(*                                                                         *)
(* The API server runs one call at a time, and every call is a step of the *)
(* reconciler that makes it; a read of the cache belongs to the step that  *)
(* follows from it, since what it returns may be stale anyway.             *)
(***************************************************************************)
EXTENDS Integers, FiniteSets, Sequences

CONSTANTS
    Pods,               \* pod keys: a namespace and a name
    NamespaceOf,        \* Pods -> namespaces
    IPs, ReservedIPs,   \* the addresses, and those given only to pods that name them
    Strategies,         \* Pods -> "plain", or what annotations of a stateful pod may ask for
    IPPoolOf,           \* Pods -> the address that a pod finds in its pool annotation
    NoPod, None,
    MaxUID,             \* bound: pods ever created
    MaxLag,             \* bound: API events that the cache has not seen yet
    MaxFaults,          \* bound: API calls that answer with an error
    MaxRefreshes,       \* bound: refreshes of the allocator
    MaxCrashes,         \* bound: restarts of the manager
    MayComplete,        \* whether containers may end, or pods be evicted
    RemovalAnyTime      \* whether an owner may go while a reconciler works for it

\* An IPInstance: the pod of its label, the uid of its owner, its status and its metadata.
Instance ==
    [pod : Pods, uid : Nat, deleting : BOOLEAN, finalizer : BOOLEAN,
     status : [Pod : Pods \cup {NoPod}, Status : {"", "Using", "Reserved"}]]

ASSUME PodIPAMAssumption ==
    /\ NoPod \notin Pods /\ None \notin Instance
    /\ None \notin IPs /\ ReservedIPs \subseteq IPs
    /\ \A p \in Pods : Strategies[p] \in {{"plain"}} \cup SUBSET {"retain", "reallocate", "preassign"}
    /\ {MayComplete, RemovalAnyTime} \subseteq BOOLEAN
    /\ {MaxUID, MaxLag, MaxFaults, MaxRefreshes, MaxCrashes} \subseteq Nat

VARIABLES
    pods,       \* API: pods by key, with uid, annotations, completion, deletion and finalizer
    workload,   \* API: whether the stateful workload exists
    instances,  \* API: IPInstances by namespace and address
    feed,       \* events of IPInstances on their way to the cache
    cache,      \* the informer's copy of instances
    memory,     \* the allocator: address in use |-> pod and status
    podQueue,   \* work queue of the pod reconciler
    podStep,    \* where the reconciler of a pod is, and its local variables
    ipQueue,    \* work queue of the IPInstance reconciler
    ipStep,     \* where the reconciler of an IPInstance is
    uids, faults, refreshes, crashes    \* counters of the bounds

api == <<pods, workload, instances, feed>>
podSide == <<podQueue, podStep>>
ipSide == <<ipQueue, ipStep>>
counters == <<uids, faults, refreshes, crashes>>
vars == <<api, cache, memory, podSide, ipSide, counters>>

Namespaces == {NamespaceOf[p] : p \in Pods}
Keys == Namespaces \X IPs
Key(p, ip) == <<NamespaceOf[p], ip>>
NoFunction == [x \in {} |-> x]
With(f, x, v) == [y \in DOMAIN f \cup {x} |-> IF y = x THEN v ELSE f[y]]
Without(f, x) == [y \in DOMAIN f \ {x} |-> f[y]]

Pool == INSTANCE IPPool WITH allocatable <- IPs, reserved <- ReservedIPs, owner <- memory

OwnByStatefulWorkload(p) == Strategies[p] # {"plain"}

\* Whose deletion takes the IPInstances of a pod with it: the workload (0), or the pod itself.
GetKnownOwnReference(p, uid) == IF OwnByStatefulWorkload(p) THEN 0 ELSE uid

Idle == [at |-> "idle", uid |-> 0, strategy |-> "plain", ip |-> None, keys |-> {}]

\* Reserved addresses are recorded whether or not an IPInstance exists.
InReserve == [ip \in ReservedIPs |-> [Pod |-> NoPod, Status |-> "Reserved"]]

Init ==
    /\ pods = NoFunction /\ instances = NoFunction /\ feed = <<>> /\ cache = NoFunction
    /\ workload = TRUE
    /\ memory = InReserve
    /\ podQueue = {} /\ podStep = [p \in Pods |-> Idle]
    /\ ipQueue = {} /\ ipStep = [k \in Keys |-> "idle"]
    /\ uids = 0 /\ faults = 0 /\ refreshes = 0 /\ crashes = 0

(***************************************************************************)
(* The API server (external): what a write does to an IPInstance.          *)
(***************************************************************************)
SetInstance(k, v) ==
    /\ instances' = With(instances, k, v)
    /\ feed' = Append(feed, [key |-> k, value |-> v])

RemoveInstance(k) ==
    /\ instances' = Without(instances, k)
    /\ feed' = Append(feed, [key |-> k, value |-> None])

\* An object with a finalizer stays, marked, until the finalizer is gone.
DeleteInstance(k) ==
    CASE k \notin DOMAIN instances \/ instances[k].deleting -> UNCHANGED <<instances, feed>>
      [] instances[k].finalizer -> SetInstance(k, [instances[k] EXCEPT !.deleting = TRUE])
      [] OTHER -> RemoveInstance(k)

(***************************************************************************)
(* The cluster around the manager (external).                              *)
(***************************************************************************)
\* The predicate of the controller: annotated pods are filtered, unless they
\* are terminating pods of a stateful workload.
Noticed(p, pod) ==
    IF IF pod.deleting THEN OwnByStatefulWorkload(p) ELSE pod.ip = None THEN {p} ELSE {}

CreatePod(p) ==
    /\ p \notin DOMAIN pods
    /\ OwnByStatefulWorkload(p) => workload
    /\ uids < MaxUID
    /\ uids' = uids + 1
    /\ \E s \in Strategies[p] :
          pods' = With(pods, p, [uid |-> uids + 1, strategy |-> s, ip |-> None, completed |-> FALSE,
                                 deleting |-> FALSE, finalizer |-> FALSE])
    /\ podQueue' = podQueue \cup {p}
    /\ UNCHANGED <<workload, instances, feed, cache, memory, podStep, ipSide, faults, refreshes, crashes>>

\* An update that does not concern the manager.
TouchPod(p) ==
    /\ p \in DOMAIN pods
    /\ Noticed(p, pods[p]) # {}
    /\ p \notin podQueue
    /\ podQueue' = podQueue \cup {p}
    /\ UNCHANGED <<api, cache, memory, podStep, ipSide, counters>>

\* The containers end, or the pod is evicted.
CompletePod(p) ==
    /\ MayComplete
    /\ p \in DOMAIN pods
    /\ ~pods[p].completed
    /\ pods' = [pods EXCEPT ![p].completed = TRUE]
    /\ podQueue' = podQueue \cup Noticed(p, pods'[p])
    /\ UNCHANGED <<workload, instances, feed, cache, memory, podStep, ipSide, counters>>

\* The pod of a stateful workload is deleted, at any time.
DeletePod(p) ==
    /\ p \in DOMAIN pods
    /\ OwnByStatefulWorkload(p) /\ ~pods[p].deleting
    /\ pods' = [pods EXCEPT ![p].deleting = TRUE]
    /\ podQueue' = podQueue \cup {p}
    /\ UNCHANGED <<workload, instances, feed, cache, memory, podStep, ipSide, counters>>

\* A pod goes, with its containers; a finalizer must have been removed.
RemovePod(p) ==
    /\ p \in DOMAIN pods
    /\ IF OwnByStatefulWorkload(p)
       THEN pods[p].deleting /\ ~pods[p].finalizer
       ELSE RemovalAnyTime \/ podStep[p].at = "idle"
    /\ pods' = Without(pods, p)
    /\ UNCHANGED <<workload, instances, feed, cache, memory, podSide, ipSide, counters>>

\* The workload is deleted, and its pods with it.
DeleteWorkload ==
    LET its == {p \in Pods : OwnByStatefulWorkload(p)}
    IN  /\ workload /\ its # {}
        /\ RemovalAnyTime \/ \A p \in its : podStep[p].at = "idle"
        /\ workload' = FALSE
        /\ pods' = [p \in DOMAIN pods |->
                      IF p \in its THEN [pods[p] EXCEPT !.deleting = TRUE] ELSE pods[p]]
        /\ podQueue' = podQueue \cup (its \cap DOMAIN pods)
        /\ UNCHANGED <<instances, feed, cache, memory, podStep, ipSide, counters>>

\* The garbage collector deletes an IPInstance whose owner is gone.
CollectGarbage(k) ==
    /\ k \in DOMAIN instances
    /\ ~instances[k].deleting
    /\ IF instances[k].uid = 0 THEN ~workload ELSE \A p \in DOMAIN pods : pods[p].uid # instances[k].uid
    /\ DeleteInstance(k)
    /\ UNCHANGED <<pods, workload, cache, memory, podSide, ipSide, counters>>

\* The watch: one event reaches the cache; all but deletions are queued.
Deliver ==
    /\ feed # <<>>
    /\ LET e == Head(feed)
       IN  /\ cache' = IF e.value = None THEN Without(cache, e.key) ELSE With(cache, e.key, e.value)
           /\ ipQueue' = IF e.value = None THEN ipQueue ELSE ipQueue \cup {e.key}
    /\ feed' = Tail(feed)
    /\ UNCHANGED <<pods, workload, instances, memory, podSide, ipStep, counters>>

(***************************************************************************)
(* The pod reconciler.  A call that answers with an error, whether it took *)
(* effect or not, leads to the step that the deferred functions make next; *)
(* their own errors are ignored.                                           *)
(***************************************************************************)
\* Mutant of OnError: a failed annotation is not taken back.
OnErrorKeepingAnnotation ==
    [create     |-> "giveback",
     status     |-> "delete",
     annotate   |-> "delete",
     unannotate |-> "delete",
     delete     |-> "giveback",
     decouple   |-> "retry",
     clear      |-> "retry",
     finalizer  |-> "retry",
     recycle    |-> "retry",
     recouple   |-> "giveback",
     restatus   |-> "giveback",
     reannotate |-> "giveback",
     reserve    |-> "retry",
     release    |-> "retry",
     unfinalize |-> "retry"]

OnError == [create     |-> "giveback",
            status     |-> "delete",
            annotate   |-> "unannotate",
            unannotate |-> "delete",
            delete     |-> "giveback",
            decouple   |-> "retry",
            clear      |-> "retry",
            finalizer  |-> "retry",
            recycle    |-> "retry",
            recouple   |-> "giveback",
            restatus   |-> "giveback",
            reannotate |-> "giveback",
            reserve    |-> "retry",
            release    |-> "retry",
            unfinalize |-> "retry"]

\* The reconciler of p goes on at a step, or ends, or ends with an error and
\* is queued again.  events are the pods that a write makes the watch queue.
Goto(p, at, events) ==
    /\ podStep' = [podStep EXCEPT ![p] = IF at \in {"done", "retry"} THEN Idle ELSE [@ EXCEPT !.at = at]]
    /\ podQueue' = podQueue \cup events \cup IF at = "retry" THEN {p} ELSE {}

\* A call took effect.  Its answer may be lost, which is an error here.
Reply(p, at, next, events) ==
    \/ Goto(p, next, events) /\ UNCHANGED faults
    \/ /\ faults < MaxFaults
       /\ faults' = faults + 1
       /\ Goto(p, OnError[at], events)

CallFails(p) ==
    /\ podStep[p].at \in DOMAIN OnError
    /\ faults < MaxFaults
    /\ faults' = faults + 1
    /\ Goto(p, OnError[podStep[p].at], {})
    /\ UNCHANGED <<api, cache, memory, ipSide, uids, refreshes, crashes>>

\* Mutant of StartPod: the annotation of the pod is not looked at.
StartPodUnchecked(p) ==
    /\ p \in podQueue
    /\ podStep[p].at = "idle"
    /\ podQueue' = podQueue \ {p}
    /\ podStep' = [podStep EXCEPT ![p] =
         IF p \in DOMAIN pods /\ ~pods[p].completed
         THEN [Idle EXCEPT !.at = "allocate", !.uid = pods[p].uid]
         ELSE Idle]
    /\ UNCHANGED <<api, cache, memory, ipSide, counters>>

\* The worker takes p and reads the pod from the API server.
StartPod(p) ==
    /\ p \in podQueue
    /\ podStep[p].at = "idle"
    /\ podQueue' = podQueue \ {p}
    /\ podStep' = [podStep EXCEPT ![p] =
         IF p \notin DOMAIN pods THEN Idle
         ELSE LET listed == {k \in DOMAIN cache : cache[k].pod = p}
                  pod    == pods[p]
              IN  CASE pod.deleting /\ pod.ip # None ->
                         [Idle EXCEPT !.at = IF listed = {} THEN "release" ELSE "reserve", !.keys = listed]
                    [] pod.deleting /\ pod.ip = None /\ pod.finalizer -> [Idle EXCEPT !.at = "unfinalize"]
                    [] ~pod.deleting /\ pod.completed /\ pod.ip # None ->
                         [Idle EXCEPT !.at = IF listed = {} THEN "clear" ELSE "decouple", !.keys = listed]
                    [] ~pod.deleting /\ ~pod.completed /\ pod.ip = None ->
                         [Idle EXCEPT !.at = CASE ~OwnByStatefulWorkload(p) -> "allocate"
                                               [] OwnByStatefulWorkload(p) /\ ~pod.finalizer -> "finalizer"
                                               [] OTHER -> "stateful",
                                      !.uid = pod.uid, !.strategy = pod.strategy]
                    [] OTHER -> Idle]
    /\ UNCHANGED <<api, cache, memory, ipSide, counters>>

\* allocate: the allocator hands out a free address, if there is one.
Allocate(p) ==
    /\ podStep[p].at = "allocate"
    /\ IF Pool!Free = {}
       THEN Goto(p, "retry", {}) /\ UNCHANGED memory
       ELSE \E ip \in Pool!Free :
              /\ Pool!Grant({ip}, p)
              /\ podStep' = [podStep EXCEPT ![p].at = "create", ![p].ip = ip]
              /\ UNCHANGED podQueue
    /\ UNCHANGED <<api, cache, ipSide, counters>>

\* Mutant of CreateIP: an IPInstance that exists already will do.
CreateIPOrAdopt(p) ==
    LET k == Key(p, podStep[p].ip)
    IN  /\ podStep[p].at = "create"
        /\ IF k \in DOMAIN instances
           THEN Goto(p, "status", {}) /\ UNCHANGED <<instances, feed, faults>>
           ELSE /\ SetInstance(k, [pod       |-> p,
                                   uid       |-> GetKnownOwnReference(p, podStep[p].uid),
                                   status    |-> [Pod |-> NoPod, Status |-> ""],
                                   deleting  |-> FALSE,
                                   finalizer |-> TRUE])
                /\ Reply(p, "create", "status", {})
        /\ UNCHANGED <<pods, workload, cache, memory, ipSide, uids, refreshes, crashes>>

\* Couple.  The name of an IPInstance is its address.
CreateIP(p) ==
    LET k == Key(p, podStep[p].ip)
    IN  /\ podStep[p].at = "create"
        /\ IF k \in DOMAIN instances
           THEN Goto(p, "giveback", {}) /\ UNCHANGED <<instances, feed, faults>>
           ELSE /\ SetInstance(k, [pod       |-> p,
                                   uid       |-> GetKnownOwnReference(p, podStep[p].uid),
                                   status    |-> [Pod |-> NoPod, Status |-> ""],
                                   deleting  |-> FALSE,
                                   finalizer |-> TRUE])
                /\ Reply(p, "create", "status", {})
        /\ UNCHANGED <<pods, workload, cache, memory, ipSide, uids, refreshes, crashes>>

\* Of Couple, and of ReCouple, which rolls nothing back.
UpdateIPStatus(p) ==
    LET k  == Key(p, podStep[p].ip)
        at == podStep[p].at
    IN  /\ at \in {"status", "restatus"}
        /\ IF k \in DOMAIN instances
           THEN /\ SetInstance(k, [instances[k] EXCEPT !.status = [Pod |-> p, Status |-> "Using"]])
                /\ Reply(p, at, IF at = "status" THEN "annotate" ELSE "reannotate", {})
           ELSE Goto(p, OnError[at], {}) /\ UNCHANGED <<instances, feed, faults>>
        /\ UNCHANGED <<pods, workload, cache, memory, ipSide, uids, refreshes, crashes>>

\* Mutant of PatchIPtoPod: the deferred Release runs after a success too.
PatchIPtoPodThenRelease(p) ==
    /\ podStep[p].at \in {"annotate", "reannotate"}
    /\ IF p \in DOMAIN pods
       THEN /\ pods' = [pods EXCEPT ![p].ip = podStep[p].ip]
            /\ Reply(p, podStep[p].at, "giveback", Noticed(p, pods'[p]))
       ELSE Goto(p, OnError[podStep[p].at], {}) /\ UNCHANGED <<pods, faults>>
    /\ UNCHANGED <<workload, instances, feed, cache, memory, ipSide, uids, refreshes, crashes>>

\* The patches of a pod go by its name: a pod created again gets them too.
PatchIPtoPod(p) ==
    /\ podStep[p].at \in {"annotate", "reannotate"}
    /\ IF p \in DOMAIN pods
       THEN /\ pods' = [pods EXCEPT ![p].ip = podStep[p].ip]
            /\ Reply(p, podStep[p].at, "done", Noticed(p, pods'[p]))
       ELSE Goto(p, OnError[podStep[p].at], {}) /\ UNCHANGED <<pods, faults>>
    /\ UNCHANGED <<workload, instances, feed, cache, memory, ipSide, uids, refreshes, crashes>>

\* releaseIPFromPod, undoing Couple, or ending DeCouple or IPReserve.
ReleaseIPFromPod(p) ==
    LET at   == podStep[p].at
        next == [unannotate |-> "delete", clear |-> "done", release |-> "unfinalize"]
    IN  /\ at \in DOMAIN next
        /\ IF p \in DOMAIN pods
           THEN /\ pods' = [pods EXCEPT ![p].ip = None]
                /\ Reply(p, at, next[at], Noticed(p, pods'[p]))
           ELSE Goto(p, OnError[at], {}) /\ UNCHANGED <<pods, faults>>
        /\ UNCHANGED <<workload, instances, feed, cache, memory, ipSide, uids, refreshes, crashes>>

DeleteIP(p) ==
    /\ podStep[p].at = "delete"
    /\ DeleteInstance(Key(p, podStep[p].ip))
    /\ Reply(p, "delete", "giveback", {})
    /\ UNCHANGED <<pods, workload, cache, memory, ipSide, uids, refreshes, crashes>>

\* The deferred Release of allocate.
GiveBack(p) ==
    /\ podStep[p].at = "giveback"
    /\ Pool!Yield({podStep[p].ip})
    /\ Goto(p, "retry", {})
    /\ UNCHANGED <<api, cache, ipSide, counters>>

(***************************************************************************)
(* The pod reconciler, for pods of a stateful workload.                    *)
(***************************************************************************)
\* addFinalizer and removeFinalizer: patches by name; the API server refuses
\* new finalizers on a terminating object.
PatchFinalizer(p) ==
    LET at   == podStep[p].at
        next == [finalizer |-> "stateful", unfinalize |-> "done"]
    IN  /\ at \in DOMAIN next
        /\ IF p \in DOMAIN pods /\ (at = "finalizer" => ~pods[p].deleting)
           THEN /\ pods' = [pods EXCEPT ![p].finalizer = (at = "finalizer")]
                /\ Reply(p, at, next[at], Noticed(p, pods'[p]))
           ELSE Goto(p, "retry", {}) /\ UNCHANGED <<pods, faults>>
        /\ UNCHANGED <<workload, instances, feed, cache, memory, ipSide, uids, refreshes, crashes>>

\* Mutant of ListAllocatedIPInstancesOfPod: addresses that are not in use at
\* the moment are passed over.
ListIPInstancesInUse(p) ==
    {k \in DOMAIN cache : k[1] = NamespaceOf[p] /\ cache[k].status = [Pod |-> p, Status |-> "Using"]
                             /\ ~cache[k].deleting}

\* The IPInstances that are not terminating and whose status names the pod,
\* as the cache shows them.
ListAllocatedIPInstancesOfPod(p) ==
    {k \in DOMAIN cache : k[1] = NamespaceOf[p] /\ cache[k].status.Pod = p /\ ~cache[k].deleting}

StatefulAllocate(p) ==
    LET allocated == ListAllocatedIPInstancesOfPod(p)
        strategy  == podStep[p].strategy
    IN  /\ podStep[p].at = "stateful"
        /\ \/ /\ strategy = "preassign"
              /\ podStep' = [podStep EXCEPT ![p].at = "assign", ![p].ip = IPPoolOf[p]]
           \/ /\ strategy = "retain" /\ allocated # {}
              /\ \E k \in allocated : podStep' = [podStep EXCEPT ![p].at = "assign", ![p].ip = k[2]]
           \/ /\ strategy = "reallocate" /\ allocated # {}
              /\ podStep' = [podStep EXCEPT ![p].at = "recycle", ![p].keys = allocated]
           \/ /\ strategy \in {"retain", "reallocate"} /\ allocated = {}
              /\ podStep' = [podStep EXCEPT ![p].at = "allocate"]
        /\ UNCHANGED <<api, cache, memory, podQueue, ipSide, counters>>

\* assign: an address that is free, the pod's own or retained.
Assign(p) ==
    LET ip == podStep[p].ip
    IN  /\ podStep[p].at = "assign"
        /\ IF ip \in DOMAIN memory => memory[ip].Pod = p \/ memory[ip].Status = "Reserved"
           THEN /\ Pool!Claim({ip}, p)
                /\ Goto(p, "recouple", {})
           ELSE Goto(p, "retry", {}) /\ UNCHANGED memory
        /\ UNCHANGED <<api, cache, ipSide, counters>>

\* ReCouple labels the IPInstance that the cache shows, or couples as if new.
ReCouple(p) ==
    LET k == Key(p, podStep[p].ip)
    IN  /\ podStep[p].at = "recouple"
        /\ CASE k \notin DOMAIN cache ->
                  Goto(p, "create", {}) /\ UNCHANGED <<instances, feed, faults>>
             [] k \in DOMAIN cache /\ k \in DOMAIN instances ->
                  SetInstance(k, [instances[k] EXCEPT !.pod = p]) /\ Reply(p, "recouple", "restatus", {})
             [] OTHER -> Goto(p, OnError["recouple"], {}) /\ UNCHANGED <<instances, feed, faults>>
        /\ UNCHANGED <<pods, workload, cache, memory, ipSide, uids, refreshes, crashes>>

\* One of the IPInstances that DeCouple, release or IPReserve has listed: it
\* is deleted, or its status says that the address is retained.
DoListed(p) ==
    LET at   == podStep[p].at
        keys == podStep[p].keys
        next == [decouple |-> "clear", recycle |-> "allocate", reserve |-> "release"]
    IN  /\ at \in DOMAIN next
        /\ \E k \in keys :
              IF k \in DOMAIN instances
              THEN /\ IF at = "reserve"
                      THEN SetInstance(k, [instances[k] EXCEPT !.status = [Pod |-> p, Status |-> "Reserved"]])
                      ELSE DeleteInstance(k)
                   /\ \/ /\ podStep' = [podStep EXCEPT ![p].keys = keys \ {k},
                                                      ![p].at = IF keys = {k} THEN next[at] ELSE @]
                         /\ UNCHANGED <<podQueue, faults>>
                      \/ /\ faults < MaxFaults
                         /\ faults' = faults + 1
                         /\ Goto(p, "retry", {})
              ELSE Goto(p, "retry", {}) /\ UNCHANGED <<instances, feed, faults>>
        /\ UNCHANGED <<pods, workload, cache, memory, ipSide, uids, refreshes, crashes>>

(***************************************************************************)
(* The IPInstance reconciler.                                              *)
(***************************************************************************)
StartIP(k) ==
    /\ k \in ipQueue
    /\ ipStep[k] = "idle"
    /\ ipQueue' = ipQueue \ {k}
    /\ ipStep' = [ipStep EXCEPT ![k] = "get"]
    /\ UNCHANGED <<api, cache, memory, podSide, counters>>

\* Mutant of ReconcileIP: any IPInstance is released, terminating or not.
ReconcileIPAlways(k) ==
    /\ ipStep[k] = "get"
    /\ IF k \in DOMAIN cache
       THEN Pool!Yield({k[2]}) /\ ipStep' = [ipStep EXCEPT ![k] = "unbind"]
       ELSE UNCHANGED memory /\ ipStep' = [ipStep EXCEPT ![k] = "idle"]
    /\ UNCHANGED <<api, cache, podSide, ipQueue, counters>>

\* Mutant of ReconcileIP: the finalizer goes, the address stays allocated.
ReconcileIPUnbindOnly(k) ==
    /\ ipStep[k] = "get"
    /\ ipStep' = [ipStep EXCEPT ![k] =
                    IF k \in DOMAIN cache /\ cache[k].deleting THEN "unbind" ELSE "idle"]
    /\ UNCHANGED <<api, cache, memory, podSide, ipQueue, counters>>

\* It reads the cache, and releases the address of a terminating IPInstance.
ReconcileIP(k) ==
    /\ ipStep[k] = "get"
    /\ IF k \in DOMAIN cache /\ cache[k].deleting
       THEN Pool!Yield({k[2]}) /\ ipStep' = [ipStep EXCEPT ![k] = "unbind"]
       ELSE UNCHANGED memory /\ ipStep' = [ipStep EXCEPT ![k] = "idle"]
    /\ UNCHANGED <<api, cache, podSide, ipQueue, counters>>

\* Mutant of DoneIP: errors are swallowed.
DoneIPNoRetry(k, failed) ==
    /\ ipStep' = [ipStep EXCEPT ![k] = "idle"]
    /\ UNCHANGED ipQueue

\* The end of a reconciliation of k, with or without an error.
DoneIP(k, failed) ==
    /\ ipStep' = [ipStep EXCEPT ![k] = "idle"]
    /\ ipQueue' = IF failed THEN ipQueue \cup {k} ELSE ipQueue

\* The patch that removes the finalizers goes by name and has no precondition.
IPUnBind(k) ==
    /\ ipStep[k] = "unbind"
    /\ CASE k \notin DOMAIN instances ->
              DoneIP(k, TRUE) /\ UNCHANGED <<instances, feed, faults>>
         [] k \in DOMAIN instances ->
              /\ IF instances[k].deleting
                 THEN RemoveInstance(k)
                 ELSE SetInstance(k, [instances[k] EXCEPT !.finalizer = FALSE])
              /\ \/ DoneIP(k, FALSE) /\ UNCHANGED faults
                 \/ faults < MaxFaults /\ faults' = faults + 1 /\ DoneIP(k, TRUE)
    /\ UNCHANGED <<pods, workload, cache, memory, podSide, uids, refreshes, crashes>>

UnBindFails(k) ==
    /\ ipStep[k] = "unbind"
    /\ faults < MaxFaults
    /\ faults' = faults + 1
    /\ DoneIP(k, TRUE)
    /\ UNCHANGED <<api, cache, memory, podSide, uids, refreshes, crashes>>

(***************************************************************************)
(* The allocator's memory is rebuilt from the IPInstances.                 *)
(***************************************************************************)
\* IPSetGetter: of two IPInstances of an address, the last one listed counts.
ReadMemory(list) ==
    LET listed == {k[2] : k \in DOMAIN list}
    IN  \E last \in [listed -> DOMAIN list] :
            /\ \A ip \in listed : last[ip][2] = ip
            /\ memory' = [ip \in listed \cup ReservedIPs |->
                             IF ip \in listed THEN list[last[ip]].status ELSE InReserve[ip]]

\* The IPAM reconciler, after any change of the Network or of its Subnets.
Refresh ==
    /\ refreshes < MaxRefreshes
    /\ refreshes' = refreshes + 1
    /\ ReadMemory(cache)
    /\ UNCHANGED <<api, cache, podSide, ipSide, uids, faults, crashes>>

\* The manager restarts: a synced cache, a memory read from it, empty queues
\* that the first listing fills.
Crash ==
    /\ crashes < MaxCrashes
    /\ crashes' = crashes + 1
    /\ cache' = instances /\ feed' = <<>>
    /\ ReadMemory(instances)
    /\ podStep' = [p \in Pods |-> Idle]
    /\ podQueue' = UNION {Noticed(p, pods[p]) : p \in DOMAIN pods}
    /\ ipStep' = [k \in Keys |-> "idle"]
    /\ ipQueue' = DOMAIN instances
    /\ UNCHANGED <<pods, workload, instances, uids, faults, refreshes>>

(***************************************************************************)
(* The specification.                                                      *)
(***************************************************************************)
PodWork(p) ==
    \/ StartPod(p) \/ Allocate(p) \/ CreateIP(p) \/ UpdateIPStatus(p) \/ PatchIPtoPod(p)
    \/ ReleaseIPFromPod(p) \/ DeleteIP(p) \/ GiveBack(p) \/ DoListed(p)
    \/ PatchFinalizer(p) \/ StatefulAllocate(p) \/ Assign(p) \/ ReCouple(p)

IPWork(k) == StartIP(k) \/ ReconcileIP(k) \/ IPUnBind(k)

Cluster(p) == CreatePod(p) \/ TouchPod(p) \/ CompletePod(p) \/ DeletePod(p) \/ RemovePod(p)

Next ==
    \/ Deliver
    \/ /\ Len(feed) <= MaxLag
       /\ \/ \E p \in Pods : Cluster(p) \/ PodWork(p) \/ CallFails(p)
          \/ \E k \in Keys : CollectGarbage(k) \/ IPWork(k) \/ UnBindFails(k)
          \/ DeleteWorkload
          \/ Refresh
          \/ Crash

Spec == Init /\ [][Next]_vars

\* A terminating pod goes in the end.
Terminate(p) == OwnByStatefulWorkload(p) /\ RemovePod(p)

\* The workers, the watch, the garbage collector and the kubelet make progress.
FairSpec ==
    /\ Spec
    /\ WF_vars(Deliver)
    /\ \A p \in Pods : WF_vars(Len(feed) <= MaxLag /\ PodWork(p)) /\ WF_vars(Len(feed) <= MaxLag /\ Terminate(p))
    /\ \A k \in Keys : WF_vars(Len(feed) <= MaxLag /\ (IPWork(k) \/ CollectGarbage(k)))

(***************************************************************************)
(* Properties.                                                             *)
(***************************************************************************)
\* Annotated pods; those of a deleted workload are about to be deleted.
Running ==
    {p \in DOMAIN pods : ~pods[p].completed /\ pods[p].ip # None /\ (OwnByStatefulWorkload(p) => workload)}

\* No two running pods have the same address: the annotation that the CNI
\* plugin acts on is written by a reconciler whose address is its own.
NoDuplicateAddress ==
    \A p, q \in Running : p # q => pods[p].ip # pods[q].ip

\* The IPInstances of the workload: they outlive the pods that they name.
Retained == {k \in DOMAIN instances : instances[k].uid = 0 /\ ~instances[k].deleting}

\* The allocator never counts the address of a running pod, or one retained
\* for a pod of a stateful workload, as free.
MemoryCoversPods ==
    {pods[p].ip : p \in Running} \cup {k[2] : k \in Retained} \subseteq DOMAIN memory

\* A running pod's annotation is backed by an IPInstance that is its own and
\* stays: the node's daemon looks the address up there, and the object's name
\* keeps the address from other pods of the namespace.
InstanceBacksPod ==
    \A p \in Running :
        LET k == Key(p, pods[p].ip)
        IN  k \in DOMAIN instances /\ ~instances[k].deleting
               /\ instances[k].uid = GetKnownOwnReference(p, pods[p].uid)

\* As long as no call fails and the manager is not restarted, a pod is
\* allocated one address only, although it is reconciled again for every
\* update and the cache does not show its IPInstance yet.
OneInstancePerPod ==
    faults = 0 /\ crashes = 0 =>
        \A k, l \in DOMAIN instances :
            k # l /\ instances[k].uid = instances[l].uid /\ instances[k].pod = instances[l].pod
                => instances[k].deleting \/ instances[l].deleting

\* Of a step: a pod whose addresses are retained is given no second one while
\* an IPInstance holds one for it, and what is held is let go only by a pod
\* that is reallocated, or completed, or when the workload is deleted.
Retention ==
    /\ \A k \in DOMAIN instances' \ DOMAIN instances :
          LET p == instances'[k].pod
          IN  podStep[p].strategy = "retain" => \A l \in Retained : instances[l].status.Pod # p
    /\ \A k \in Retained \ Retained' :
          LET p == instances[k].pod
          IN  \/ ~workload
              \/ podStep[p].strategy = "reallocate"
              \/ p \in DOMAIN pods /\ pods[p].completed

\* Every step keeps what is retained for the pods of a stateful workload.
RetainsAddress == [][Retention]_vars

\* When pods stop coming and going, every pod has an address of its own and
\* the allocator counts exactly these addresses, and the retained and reserved
\* ones, as used: none leaks.
Converges ==
    <>[](/\ \A p \in DOMAIN pods : pods[p].ip # None \/ pods[p].completed
         /\ DOMAIN memory = ({pods[p].ip : p \in DOMAIN pods} \ {None})
                              \cup {k[2] : k \in Retained} \cup ReservedIPs)

\* Nothing is left behind: once the last pod is gone for good, its IPInstances
\* go and the allocator counts every address as free.
Reclaimed ==
    <>[](pods = NoFunction) => <>[](instances = NoFunction /\ memory = InReserve)
==============================================================================
