-------------------------------- MODULE Overlay --------------------------------
(***************************************************************************)
(* The overlay of one node: the node reconciler, which publishes the vtep  *)
(* of the node and writes the vxlan device and its forwarding entries, and *)
(* the handler of neighbour events, which answers, from the caches of the  *)
(* daemon, what the kernel asks about the addresses behind the device.     *)
(*                                                                         *)
(* Neighbour entries of different addresses have nothing to do with each   *)
(* other, so the model has one destination, whichever it is.               *)
(***************************************************************************)
EXTENDS Integers, FiniteSets, Functions

CONSTANTS
    Nodes, This,    \* names of the nodes, and the one modelled
    Pods,           \* addresses of pods of this cluster
    Remotes,        \* names of RemoteVteps
    AddrsOf,        \* node or RemoteVtep |-> the [ip, mac] that it may have
    EndpointsOf,    \* RemoteVtep |-> the sets of endpoints that it may have
    Dests,          \* addresses that may be asked for
    None,
    MaxChanges      \* bound: changes of addresses, places of pods, RemoteVteps and the network,
                    \* failing requests and restarts

ASSUME OverlayAssumption ==
    /\ This \in Nodes /\ None \notin Nodes
    /\ \A x \in Nodes \cup Remotes : /\ AddrsOf[x] # {} /\ None \notin AddrsOf[x]
                                    /\ \A a \in AddrsOf[x] : a = [ip |-> a.ip, mac |-> a.mac]
    /\ \A x, y \in Nodes \cup Remotes : \A a \in AddrsOf[x], b \in AddrsOf[y] :
            x # y => a.ip # b.ip /\ a.mac # b.mac
    /\ MaxChanges \in Nat

VARIABLES
    dest,       \* the destination: one of Dests
    addr,       \* the addresses of the nodes' parent interfaces
    api,        \* API: annotations of nodes, nodes of pods, RemoteVteps, the overlay network
    cache,      \* the daemon's copy, one kind of object at a time
    queued,     \* the one key of the reconciler's queue
    worker,     \* the reconciler: where it is, and the vtep it has selected
    dev,        \* kernel: the source of the vxlan device, or None
    unicast,    \* kernel: forwarding entries of the device, MAC |-> IP
    flood,      \* kernel: where it sends frames without a forwarding entry
    nodeIPMap,  \* NodeIPCache: IP |-> MAC
    neigh,      \* kernel: the neighbour entry of dest on the device
    found,      \* MACs that searches have found and not set yet
    changes     \* counter of the bound

kernel == <<dev, unicast, flood, neigh>>
vars == <<dest, addr, api, cache, queued, worker, kernel, nodeIPMap, found, changes>>

Empty == [x \in {} |-> None]
NoNeigh == [state |-> "none", mac |-> None]
Idle == [at |-> "idle", vtep |-> None, nodes |-> Empty]

(***************************************************************************)
(* The cluster: other nodes, the pods, the other clusters, the watches.    *)
(***************************************************************************)
Kinds == {"nodes", "pods", "vteps", "overlay"}

Change ==
    /\ changes < MaxChanges
    /\ changes' = changes + 1

\* A node gets another address; the daemon of this one is told by the kernel.
ChangeAddress(n) ==
    /\ Change
    /\ \E a \in AddrsOf[n] \ {addr[n]} :
        /\ addr' = [addr EXCEPT ![n] = a]
        /\ queued' = (queued \/ (n = This /\ a.ip # addr[n].ip))
    /\ UNCHANGED <<dest, api, cache, worker, kernel, nodeIPMap, found>>

\* The daemon of another node, and its annotations.
Report(n) ==
    /\ n # This /\ api.overlay /\ api.nodes[n] # addr[n]
    /\ api' = [api EXCEPT !.nodes[n] = addr[n]]
    /\ UNCHANGED <<dest, addr, cache, queued, worker, kernel, nodeIPMap, found, changes>>

\* Where other addresses are does not matter.
MovePod(p, n) ==
    /\ Change /\ p = dest /\ api.pods[p] # n
    /\ api' = [api EXCEPT !.pods[p] = n]
    /\ UNCHANGED <<dest, addr, cache, queued, worker, kernel, nodeIPMap, found>>

SetEndpoints(r, eps) ==
    /\ Change /\ dest \in eps \cup api.vteps[r].endpoints /\ api.vteps[r].endpoints # eps
    /\ api' = [api EXCEPT !.vteps[r].endpoints = eps]
    /\ UNCHANGED <<dest, addr, cache, queued, worker, kernel, nodeIPMap, found>>

SetVtepInfo(r, a) ==
    /\ Change /\ api.vteps[r].info # a
    /\ api' = [api EXCEPT !.vteps[r].info = a]
    /\ UNCHANGED <<dest, addr, cache, queued, worker, kernel, nodeIPMap, found>>

SetOverlay(exists) ==
    /\ Change /\ api.overlay # exists
    /\ api' = [api EXCEPT !.overlay = exists]
    /\ UNCHANGED <<dest, addr, cache, queued, worker, kernel, nodeIPMap, found>>

\* The watches of the node controller; every change of these objects in the model is one that
\* checkNodeUpdate and the other predicates let through.
Triggers(kind) == kind \in {"nodes", "vteps", "overlay"}

Deliver(kind) ==
    /\ cache[kind] # api[kind]
    /\ cache' = [cache EXCEPT ![kind] = api[kind]]
    /\ queued' = (queued \/ Triggers(kind))
    /\ UNCHANGED <<dest, addr, api, worker, kernel, nodeIPMap, found, changes>>

(***************************************************************************)
(* The node reconciler.                                                    *)
(***************************************************************************)
Requeue ==
    /\ worker' = Idle
    /\ queued' = TRUE

\* The first address of the parent interface within the configured ranges.
selectVtepAddressFromLink == addr[This]

\* Without an overlay network there is nothing to do.
StartReconcile ==
    /\ worker.at = "idle" /\ queued
    /\ queued' = FALSE
    /\ worker' = IF cache.overlay THEN [Idle EXCEPT !.at = "annotate", !.vtep = selectVtepAddressFromLink]
                               ELSE Idle
    /\ UNCHANGED <<dest, addr, api, cache, kernel, nodeIPMap, found, changes>>

updateNodeVxlanAnnotations ==
    /\ worker.at = "annotate"
    /\ api' = [api EXCEPT !.nodes[This] = worker.vtep]
    /\ worker' = [worker EXCEPT !.at = "device"]
    /\ UNCHANGED <<dest, addr, cache, queued, kernel, nodeIPMap, found, changes>>

\* The device has the selected address, and the MAC that the parent interface has by now.
vxlanLinksIncompat(new) == dev # new

\* The nodes are listed; then a device that is not as it should be is deleted and created: its
\* entries go with it, and so does what a search was about to set on it.
NewVxlanDevice ==
    /\ worker.at = "device"
    /\ LET new == [ip |-> worker.vtep.ip, mac |-> addr[This].mac]
       IN  IF dev = None \/ vxlanLinksIncompat(new)
           THEN /\ dev' = new
                /\ unicast' = Empty /\ flood' = {} /\ neigh' = NoNeigh
                /\ found' = {}
           ELSE UNCHANGED <<kernel, found>>
    /\ worker' = [worker EXCEPT !.at = "sync", !.nodes = cache.nodes]
    /\ UNCHANGED <<dest, addr, api, cache, queued, nodeIPMap, changes>>

Complete == {n \in Nodes : worker.nodes[n] # None}

\* Mutant of UpdateNodeIPs: entries are added to the map that is there.
KeepsOldIPs ==
    LET new == {worker.nodes[n] : n \in Complete \ {This}}
    IN  [ip \in {a.ip : a \in new} \cup DOMAIN nodeIPMap |->
            IF \E a \in new : a.ip = ip THEN (CHOOSE a \in new : a.ip = ip).mac ELSE nodeIPMap[ip]]

\* The other nodes.  RemoteVteps are never passed in: the list that is filled is not the one
\* that is handed over.
UpdateNodeIPs ==
    LET new == {worker.nodes[n] : n \in Complete \ {This}}
    IN  [ip \in {a.ip : a \in new} |-> (CHOOSE a \in new : a.ip = ip).mac]

RecordVtepInfo == {worker.nodes[n] : n \in Complete} \cup {cache.vteps[r].info : r \in Remotes}

\* Mutant of Invalid: an entry is invalid if nobody has its address.
AddressGone(ip, mac, vteps) == ~\E v \in vteps : v.ip = ip

\* The entry belongs to no vtep as it is now.
Invalid(ip, mac, vteps) == ~\E v \in vteps : v.ip = ip /\ v.mac = mac

\* The RemoteVteps are listed, and the map is replaced.  Entries are appended, which the kernel
\* ignores for a MAC that has one, and then those that belong to no vtep are deleted.
SyncVtepInfo ==
    /\ worker.at = "sync"
    /\ nodeIPMap' = UpdateNodeIPs
    /\ LET vteps == RecordVtepInfo
           added == [mac \in DOMAIN unicast \cup {v.mac : v \in vteps} |->
                       IF mac \in DOMAIN unicast THEN unicast[mac] ELSE (CHOOSE v \in vteps : v.mac = mac).ip]
       IN  /\ unicast' = Restrict(added, {mac \in DOMAIN added : ~Invalid(added[mac], mac, vteps)})
           /\ flood' = {v.ip : v \in vteps}
    /\ IF Complete = Nodes THEN worker' = Idle /\ UNCHANGED queued ELSE Requeue
    /\ UNCHANGED <<dest, addr, api, cache, dev, neigh, found, changes>>

ReconcileStep ==
    \/ StartReconcile \/ updateNodeVxlanAnnotations \/ NewVxlanDevice \/ SyncVtepInfo

\* A request of the reconciler fails, before it has changed anything.
ReconcileFails ==
    /\ worker.at # "idle" /\ Change
    /\ Requeue
    /\ UNCHANGED <<dest, addr, api, cache, kernel, nodeIPMap, found>>

\* The caches are filled and every object in them is an event; kernel state stays.
Restart ==
    /\ Change
    /\ cache' = api
    /\ Requeue
    /\ nodeIPMap' = Empty /\ found' = {}
    /\ UNCHANGED <<dest, addr, api, kernel>>

(***************************************************************************)
(* Neighbours.                                                             *)
(***************************************************************************)
MacOf(n) == IF cache.nodes[n] = None THEN {} ELSE {cache.nodes[n].mac}

SearchIP == IF dest \in DOMAIN nodeIPMap THEN {nodeIPMap[dest]} ELSE {}

getIPInstanceByAddress == {p \in Pods : p = dest /\ cache.pods[p] # None}

\* One, or any of several: those of clusters whose RemoteSubnets hold the address, which in the
\* model all do.
getRemoteVtepByEndpointAddress == {r \in Remotes : dest \in cache.vteps[r].endpoints}

\* What a search may find now, if anything: nodes come before pods, and pods before endpoints.
ipSearch ==
    IF SearchIP # {} THEN SearchIP
    ELSE IF getIPInstanceByAddress # {} THEN MacOf(cache.pods[dest])
    ELSE {cache.vteps[r].info.mac : r \in getRemoteVtepByEndpointAddress}

\* There is traffic to dest and no usable entry, so the kernel asks and the handler starts a
\* search; the search may start late, when there is an entry again.  One that finds nobody with the
\* address removes a stale entry; one that finds a pod whose node has no MAC changes nothing.
Search ==
    /\ dev # None /\ neigh.state # "reachable"
    /\ \/ /\ \E mac \in ipSearch : found' = found \cup {mac}
          /\ UNCHANGED neigh
       \/ /\ ipSearch = {} /\ getIPInstanceByAddress = {}
          /\ neigh' = NoNeigh
          /\ UNCHANGED found
    /\ UNCHANGED <<dest, addr, api, cache, queued, worker, dev, unicast, flood, nodeIPMap, changes>>

\* ... and sets what it has found, however old that is.
NeighSet(mac) ==
    /\ mac \in found
    /\ found' = found \ {mac}
    /\ neigh' = [state |-> "reachable", mac |-> mac]
    /\ UNCHANGED <<dest, addr, api, cache, queued, worker, dev, unicast, flood, nodeIPMap, changes>>

\* The kernel: an entry that nothing confirms becomes stale.
Age ==
    /\ neigh.state = "reachable"
    /\ neigh' = [neigh EXCEPT !.state = "stale"]
    /\ UNCHANGED <<dest, addr, api, cache, queued, worker, dev, unicast, flood, nodeIPMap, found, changes>>

\* Mutant of ClearStaleAddFailedNeighEntries: only failed entries, none of the model's, are cleared.
FailedOnly == FALSE

ClearStaleAddFailedNeighEntries == neigh.state = "stale"

\* On a timer, and whenever the subscription is renewed.
clearVxlanExpiredNeighCaches ==
    /\ ClearStaleAddFailedNeighEntries
    /\ neigh' = NoNeigh
    /\ UNCHANGED <<dest, addr, api, cache, queued, worker, dev, unicast, flood, nodeIPMap, found, changes>>

(***************************************************************************)
(* The specification.                                                      *)
(***************************************************************************)
Init ==
    /\ dest \in Dests
    /\ addr = [n \in Nodes |-> CHOOSE a \in AddrsOf[n] : TRUE]
    /\ api = [nodes |-> [addr EXCEPT ![This] = None], pods |-> [p \in Pods |-> CHOOSE n \in Nodes \ {This} : TRUE],
              vteps |-> [r \in Remotes |-> [info |-> CHOOSE a \in AddrsOf[r] : TRUE,
                                            endpoints |-> IF {dest} \in EndpointsOf[r] THEN {dest} ELSE {}]],
              overlay |-> TRUE]
    /\ cache = api
    /\ queued = TRUE /\ worker = Idle
    /\ dev = None /\ unicast = Empty /\ flood = {} /\ neigh = NoNeigh
    /\ nodeIPMap = Empty /\ found = {}
    /\ changes = 0

Environment ==
    \/ \E n \in Nodes : ChangeAddress(n)
    \/ \E p \in Pods, n \in Nodes \cup {None} : MovePod(p, n)
    \/ \E r \in Remotes : \/ \E eps \in EndpointsOf[r] : SetEndpoints(r, eps)
                          \/ \E a \in AddrsOf[r] : SetVtepInfo(r, a)
    \/ \E exists \in BOOLEAN : SetOverlay(exists)

Daemon ==
    \/ ReconcileStep
    \/ Search
    \/ \E mac \in found : NeighSet(mac)
    \/ clearVxlanExpiredNeighCaches

Next ==
    \/ Environment
    \/ \E n \in Nodes : Report(n)
    \/ \E kind \in Kinds : Deliver(kind)
    \/ Daemon \/ Age
    \/ ReconcileFails \/ Restart

Spec == Init /\ [][Next]_vars

\* The daemons and the watches keep working; traffic to dest goes on; entries age, searches end
\* and the timer of the clearing fires.
FairSpec ==
    /\ Spec
    /\ \A n \in Nodes : WF_vars(Report(n))
    /\ \A kind \in Kinds : WF_vars(Deliver(kind))
    /\ WF_vars(ReconcileStep) /\ WF_vars(neigh = NoNeigh /\ Search)
    /\ WF_vars(\E mac \in found : NeighSet(mac))
    /\ WF_vars(Age)
    /\ WF_vars(clearVxlanExpiredNeighCaches)

(***************************************************************************)
(* Properties.                                                             *)
(***************************************************************************)
Settled ==
    /\ api.overlay /\ cache = api /\ ~queued /\ worker = Idle
    /\ \A n \in Nodes \ {This} : api.nodes[n] = addr[n]

\* Once the reconciler has nothing to do, the node has published the address that it has, its
\* device uses that address, and a frame to the MAC of any vtep, of a node or of another
\* cluster, reaches that vtep: its forwarding entry is right, or it has none and the frame is
\* sent to every vtep and to nobody else.  No entry is left of a MAC or an address that is gone.
\* (SyncVtepInfo, whose append does not replace.)
FramesReach ==
    Settled =>
        LET vteps == {addr[n] : n \in Nodes} \cup {api.vteps[r].info : r \in Remotes}
        IN  /\ api.nodes[This] = addr[This] /\ dev = addr[This]
            /\ flood = {v.ip : v \in vteps}
            /\ \A mac \in DOMAIN unicast : \E v \in vteps : v.mac = mac /\ v.ip = unicast[mac]

\* The MACs that dest is behind, by the objects of the API.
Holders ==
    LET nodes == {n \in Nodes \ {This} : api.nodes[n] # None /\ api.nodes[n].ip = dest}
        pods  == {n \in Nodes : dest \in Pods /\ api.pods[dest] = n /\ api.nodes[n] # None}
    IN  IF nodes # {} THEN {api.nodes[n].mac : n \in nodes}
        ELSE IF pods # {} THEN {api.nodes[n].mac : n \in pods}
        ELSE {api.vteps[r].info.mac : r \in {r \in Remotes : dest \in api.vteps[r].endpoints}}

\* Searches race with the movement of the pod, with the reconciler that replaces the map of node
\* addresses, and with each other, and what one of them found before may be set after; but a
\* wrong entry is not there for good: it ages, is cleared, and is asked for again.
WrongEntriesGo == <>[](api.overlay /\ neigh.state \in {"reachable", "stale"} => neigh.mac \in Holders)

\* Traffic to an address that somebody has is answered again and again.
Answered == []<>(api.overlay /\ Holders # {} => neigh.state = "reachable")
====
