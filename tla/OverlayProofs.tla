---------------------------- MODULE OverlayProofs ----------------------------
(***************************************************************************)
(* Theorems about Overlay: once the node reconciler has nothing to do, the *)
(* device, its forwarding entries and its flood list are those of the      *)
(* addresses that the nodes and the other clusters have.                   *)
(***************************************************************************)
EXTENDS Overlay, TLAPS

\* The daemon is told when an address of the parent interface changes, not when its MAC does.
SteadyMAC == \A a, b \in AddrsOf[This] : a.ip = b.ip => a = b

Addrs == UNION {AddrsOf[x] : x \in Nodes \cup Remotes}

ObjectsOK(o) ==
    /\ o = [nodes |-> o.nodes, pods |-> o.pods, vteps |-> o.vteps, overlay |-> o.overlay]
    /\ o.nodes \in [Nodes -> Addrs \cup {None}]
    /\ o.overlay \in BOOLEAN

WorkerOK(w) ==
    /\ w = [at |-> w.at, vtep |-> w.vtep, nodes |-> w.nodes]
    /\ w.at \in {"idle", "annotate", "device", "sync"}
    /\ w.at # "idle" => w.vtep \in AddrsOf[This]

TypeInv ==
    /\ addr \in [Nodes -> Addrs] /\ \A n \in Nodes : addr[n] \in AddrsOf[n]
    /\ ObjectsOK(api) /\ ObjectsOK(cache)
    /\ queued \in BOOLEAN
    /\ WorkerOK(worker)

\* The vteps that the reconciler writes when it lists these nodes and RemoteVteps.
Vteps(nodes, vteps) ==
    {nodes[n] : n \in {m \in Nodes : nodes[m] # None}} \cup {vteps[r].info : r \in Remotes}

\* The kernel floods to these vteps, and forwards to none but these.
Written(set) ==
    /\ flood = {v.ip : v \in set}
    /\ \A mac \in DOMAIN unicast : \E v \in set : v.mac = mac /\ v.ip = unicast[mac]

\* What holds while no key is queued: nothing that the reconciler has read has changed since.
Fresh ==
    /\ worker.at # "idle" => worker.vtep = addr[This]
    /\ worker.at = "sync" => dev = addr[This] /\ worker.nodes = cache.nodes
    /\ worker.at = "idle" /\ cache.overlay =>
           /\ api.nodes[This] = addr[This] /\ dev = addr[This]
           /\ Written(Vteps(cache.nodes, cache.vteps))

Published == worker.at \in {"device", "sync"} => api.nodes[This] = worker.vtep

\* The inductive invariant.
IInv == TypeInv /\ Published /\ (~queued => Fresh)

-------------------------------------------------------------------------------
LEMMA ChosenAddr ==
    ASSUME NEW x \in Nodes \cup Remotes
    PROVE  (CHOOSE a \in AddrsOf[x] : TRUE) \in AddrsOf[x]
  BY OverlayAssumption

LEMMA AddrIn ==
    ASSUME NEW x \in Nodes \cup Remotes, NEW a \in AddrsOf[x]
    PROVE  a \in Addrs /\ a # None /\ a = [ip |-> a.ip, mac |-> a.mac]
  BY OverlayAssumption DEF Addrs

LEMMA InitInv == Init => IInv
  <1> SUFFICES ASSUME Init PROVE IInv
    OBVIOUS
  <1>1. addr \in [Nodes -> Addrs] /\ \A n \in Nodes : addr[n] \in AddrsOf[n]
    BY ChosenAddr, AddrIn DEF Init
  <1>2. [addr EXCEPT ![This] = None] \in [Nodes -> Addrs \cup {None}]
    BY <1>1, OverlayAssumption
  <1>3. ObjectsOK(api)
    BY <1>2 DEF Init, ObjectsOK
  <1>4. WorkerOK(worker)
    BY DEF Init, Idle, WorkerOK
  <1>5. cache = api /\ queued = TRUE /\ worker.at = "idle"
    BY DEF Init, Idle
  <1> QED
    BY <1>1, <1>3, <1>4, <1>5 DEF IInv, TypeInv, Published

\* Steps of the cluster and of the neighbour entries leave alone what the reconciler reads and writes.
LEMMA ElsewhereInv ==
    ASSUME IInv, ObjectsOK(api'), api'.nodes[This] = api.nodes[This],
           UNCHANGED <<addr, cache, queued, worker, dev, unicast, flood>>
    PROVE  IInv'
  BY DEF IInv, TypeInv, Published, Fresh, Written

\* A step that queues the key leaves nothing to show about what was read.
LEMMA QueuedInv ==
    ASSUME IInv, queued' = TRUE, TypeInv', Published'
    PROVE  IInv'
  BY DEF IInv

LEMMA ReportInv ==
    ASSUME IInv, NEW n \in Nodes, Report(n)
    PROVE  IInv'
  <1>1. addr[n] \in Addrs /\ n # This
    BY DEF Report, IInv, TypeInv
  <1>2. ObjectsOK(api') /\ api'.nodes[This] = api.nodes[This]
    BY <1>1, OverlayAssumption, ZenonT(30) DEF Report, IInv, TypeInv, ObjectsOK
  <1> QED
    BY <1>2, ElsewhereInv DEF Report, kernel

LEMMA ObjectsInv ==
    ASSUME IInv,
           \/ \E p \in Pods, n \in Nodes \cup {None} : MovePod(p, n)
           \/ \E r \in Remotes : \/ \E eps \in EndpointsOf[r] : SetEndpoints(r, eps)
                                 \/ \E a \in AddrsOf[r] : SetVtepInfo(r, a)
           \/ \E exists \in BOOLEAN : SetOverlay(exists)
    PROVE  IInv'
  <1>1. ASSUME NEW p \in Pods, NEW n, MovePod(p, n) PROVE ObjectsOK(api') /\ api'.nodes = api.nodes
    BY <1>1 DEF MovePod, IInv, TypeInv, ObjectsOK
  <1>2. ASSUME NEW r \in Remotes, NEW eps, SetEndpoints(r, eps) PROVE ObjectsOK(api') /\ api'.nodes = api.nodes
    BY <1>2 DEF SetEndpoints, IInv, TypeInv, ObjectsOK
  <1>3. ASSUME NEW r \in Remotes, NEW a, SetVtepInfo(r, a) PROVE ObjectsOK(api') /\ api'.nodes = api.nodes
    BY <1>3, Zenon DEF SetVtepInfo, IInv, TypeInv, ObjectsOK
  <1>4. ASSUME NEW exists \in BOOLEAN, SetOverlay(exists) PROVE ObjectsOK(api') /\ api'.nodes = api.nodes
    BY <1>4 DEF SetOverlay, IInv, TypeInv, ObjectsOK
  <1>5. ObjectsOK(api') /\ api'.nodes = api.nodes
    BY <1>1, <1>2, <1>3, <1>4
  <1>6. UNCHANGED <<addr, cache, queued, worker, dev, unicast, flood>>
    BY DEF MovePod, SetEndpoints, SetVtepInfo, SetOverlay, kernel
  <1> QED
    BY <1>5, <1>6, ElsewhereInv

LEMMA NeighbourInv ==
    ASSUME IInv, Search \/ (\E mac \in found : NeighSet(mac)) \/ Age \/ clearVxlanExpiredNeighCaches
    PROVE  IInv'
  <1>1. UNCHANGED <<addr, api, cache, queued, worker, dev, unicast, flood>>
    BY DEF Search, NeighSet, Age, clearVxlanExpiredNeighCaches
  <1>2. ObjectsOK(api')
    BY <1>1 DEF IInv, TypeInv
  <1> QED
    BY <1>1, <1>2, ElsewhereInv

LEMMA AddressInv ==
    ASSUME SteadyMAC, IInv, NEW n \in Nodes, ChangeAddress(n)
    PROVE  IInv'
  <1>1. PICK a \in AddrsOf[n] \ {addr[n]} :
            /\ addr' = [addr EXCEPT ![n] = a]
            /\ queued' = (queued \/ (n = This /\ a.ip # addr[n].ip))
    BY Zenon DEF ChangeAddress
  <1>2. UNCHANGED <<api, cache, worker, dev, unicast, flood>>
    BY DEF ChangeAddress, kernel
  <1>3. addr' \in [Nodes -> Addrs] /\ \A m \in Nodes : addr'[m] \in AddrsOf[m]
    BY <1>1, AddrIn DEF IInv, TypeInv
  <1>4. TypeInv'
    BY <1>1, <1>2, <1>3 DEF IInv, TypeInv
  <1>5. Published'
    BY <1>2 DEF IInv, Published
  <1>6. CASE n = This
    <2>1. a.ip # addr[n].ip
      BY <1>1, <1>6 DEF SteadyMAC, IInv, TypeInv
    <2> QED
      BY <1>1, <1>4, <1>5, <1>6, <2>1, QueuedInv, Zenon
  <1>7. CASE n # This
    <2>1. addr'[This] = addr[This] /\ queued' = queued
      BY <1>1, <1>7, OverlayAssumption DEF IInv, TypeInv
    <2>2. ~queued' => Fresh'
      BY <1>2, <2>1, SMTT(30) DEF IInv, Fresh, Written
    <2> QED
      BY <1>4, <1>5, <2>2 DEF IInv
  <1> QED
    BY <1>6, <1>7

LEMMA DeliverInv ==
    ASSUME IInv, NEW kind \in Kinds, Deliver(kind)
    PROVE  IInv'
  <1>1. cache' = [cache EXCEPT ![kind] = api[kind]] /\ queued' = (queued \/ Triggers(kind))
    BY DEF Deliver
  <1>2. UNCHANGED <<addr, api, worker, dev, unicast, flood>>
    BY DEF Deliver, kernel
  <1>3. ObjectsOK(cache')
    <2>1. CASE kind = "nodes"
      BY <1>1, <2>1, Zenon DEF IInv, TypeInv, ObjectsOK
    <2>2. CASE kind = "pods"
      BY <1>1, <2>2, Zenon DEF IInv, TypeInv, ObjectsOK
    <2>3. CASE kind = "vteps"
      BY <1>1, <2>3, Zenon DEF IInv, TypeInv, ObjectsOK
    <2>4. CASE kind = "overlay"
      BY <1>1, <2>4, Zenon DEF IInv, TypeInv, ObjectsOK
    <2> QED
      BY <2>1, <2>2, <2>3, <2>4 DEF Kinds
  <1>4. TypeInv' /\ Published'
    BY <1>1, <1>2, <1>3, Zenon DEF IInv, TypeInv, Published
  <1>5. CASE kind = "pods"
    <2>1. queued' = queued
      BY <1>1, <1>5 DEF Triggers, IInv, TypeInv
    <2>2. cache'.nodes = cache.nodes /\ cache'.vteps = cache.vteps /\ cache'.overlay = cache.overlay
      BY <1>1, <1>5, Zenon DEF IInv, TypeInv, ObjectsOK
    <2>3. ~queued' => Fresh'
      BY <1>2, <2>1, <2>2, SMTT(30) DEF IInv, Fresh, Written
    <2> QED
      BY <1>4, <2>3 DEF IInv
  <1>6. CASE kind # "pods"
    <2>1. queued' = TRUE
      BY <1>1, <1>6, Zenon DEF Triggers, Kinds
    <2> QED
      BY <1>4, <2>1, QueuedInv
  <1> QED
    BY <1>5, <1>6

\* Errors and restarts queue the key again and forget what was read.
LEMMA RequeueInv ==
    ASSUME IInv, Requeue, ObjectsOK(cache'), UNCHANGED <<addr, api>>
    PROVE  IInv'
  <1>1. WorkerOK(worker') /\ worker'.at = "idle" /\ queued' = TRUE
    BY Zenon DEF Requeue, Idle, WorkerOK
  <1>2. TypeInv' /\ Published'
    BY <1>1, Zenon DEF IInv, TypeInv, Published
  <1> QED
    BY <1>1, <1>2, QueuedInv

LEMMA FaultInv ==
    ASSUME IInv, ReconcileFails \/ Restart
    PROVE  IInv'
  <1>1. Requeue /\ UNCHANGED <<addr, api>>
    BY DEF ReconcileFails, Restart
  <1>2. ObjectsOK(cache')
    BY Zenon DEF ReconcileFails, Restart, IInv, TypeInv
  <1> QED
    BY <1>1, <1>2, RequeueInv

LEMMA StartInv ==
    ASSUME IInv, StartReconcile
    PROVE  IInv'
  <1>1. UNCHANGED <<addr, api, cache, dev, unicast, flood>> /\ queued' = FALSE
    BY DEF StartReconcile, kernel
  <1>2. CASE cache.overlay
    <2>1. worker' = [at |-> "annotate", vtep |-> addr[This], nodes |-> Empty]
      BY <1>2, Zenon DEF StartReconcile, Idle, selectVtepAddressFromLink
    <2>2. WorkerOK(worker') /\ worker'.at = "annotate" /\ worker'.vtep = addr[This]
      BY <2>1, OverlayAssumption, Zenon DEF WorkerOK, IInv, TypeInv
    <2>3. TypeInv' /\ Published'
      BY <1>1, <2>2, Zenon DEF IInv, TypeInv, Published
    <2>4. Fresh'
      BY <1>1, <2>2, Zenon DEF Fresh
    <2> QED
      BY <2>3, <2>4 DEF IInv
  <1>3. CASE ~cache.overlay
    <2>1. worker' = Idle
      BY <1>3 DEF StartReconcile
    <2>2. WorkerOK(worker') /\ worker'.at = "idle"
      BY <2>1, Zenon DEF WorkerOK, Idle
    <2>3. TypeInv' /\ Published'
      BY <1>1, <2>2, Zenon DEF IInv, TypeInv, Published
    <2>4. Fresh'
      BY <1>1, <1>3, <2>2, Zenon DEF Fresh
    <2> QED
      BY <2>3, <2>4 DEF IInv
  <1> QED
    BY <1>2, <1>3

LEMMA AnnotateInv ==
    ASSUME IInv, updateNodeVxlanAnnotations
    PROVE  IInv'
  <1>1. /\ worker.at = "annotate"
        /\ api' = [api EXCEPT !.nodes[This] = worker.vtep]
        /\ worker' = [worker EXCEPT !.at = "device"]
        /\ UNCHANGED <<addr, cache, queued, dev, unicast, flood>>
    BY Zenon DEF updateNodeVxlanAnnotations, kernel
  <1>2. worker.vtep \in Addrs
    BY <1>1, AddrIn, OverlayAssumption, Zenon DEF IInv, TypeInv, WorkerOK
  <1>3. ObjectsOK(api') /\ api'.nodes[This] = worker.vtep
    BY <1>1, <1>2, OverlayAssumption, SMTT(30) DEF IInv, TypeInv, ObjectsOK
  <1>4. WorkerOK(worker') /\ worker'.at = "device" /\ worker'.vtep = worker.vtep
    BY <1>1, Zenon DEF IInv, TypeInv, WorkerOK
  <1>5. TypeInv' /\ Published'
    BY <1>1, <1>3, <1>4, Zenon DEF IInv, TypeInv, Published
  <1>6. ~queued' => Fresh'
    BY <1>1, <1>4, Zenon DEF IInv, Fresh
  <1> QED
    BY <1>5, <1>6, Zenon DEF IInv

LEMMA DeviceInv ==
    ASSUME IInv, NewVxlanDevice
    PROVE  IInv'
  <1> DEFINE new == [ip |-> worker.vtep.ip, mac |-> addr[This].mac]
  <1>1. /\ worker.at = "device"
        /\ worker' = [worker EXCEPT !.at = "sync", !.nodes = cache.nodes]
        /\ UNCHANGED <<addr, api, cache, queued>>
    BY Zenon DEF NewVxlanDevice
  <1>2. dev' = new
    BY Zenon DEF NewVxlanDevice, vxlanLinksIncompat, kernel
  <1>3. worker' = [at |-> "sync", vtep |-> worker.vtep, nodes |-> cache.nodes]
    BY <1>1, Zenon DEF IInv, TypeInv, WorkerOK
  <1>4. WorkerOK(worker') /\ worker'.at = "sync" /\ worker'.vtep = worker.vtep /\ worker'.nodes = cache.nodes
    BY <1>1, <1>3, Zenon DEF IInv, TypeInv, WorkerOK
  <1>5. TypeInv' /\ Published'
    BY <1>1, <1>4, Zenon DEF IInv, TypeInv, Published
  <1>6. ~queued' => Fresh'
    <2> SUFFICES ASSUME ~queued' PROVE Fresh'
      BY Zenon
    <2>1. worker.vtep = addr[This]
      BY <1>1, Zenon DEF IInv, Fresh
    <2>2. new = addr[This]
      BY <2>1, AddrIn, OverlayAssumption, Zenon DEF IInv, TypeInv
    <2> QED
      BY <1>1, <1>2, <1>4, <2>1, <2>2, Zenon DEF Fresh
  <1> QED
    BY <1>5, <1>6, Zenon DEF IInv

\* SyncVtepInfo leaves exactly what it has listed: what is appended for a MAC that has an entry
\* is ignored, but entries that belong to no vtep are deleted after that.
LEMMA SyncWrites ==
    ASSUME IInv, SyncVtepInfo
    PROVE  LET vteps == Vteps(worker.nodes, cache.vteps)
           IN  /\ flood' = {v.ip : v \in vteps}
               /\ \A mac \in DOMAIN unicast' : \E v \in vteps : v.mac = mac /\ v.ip = unicast'[mac]
  <1> DEFINE vteps == RecordVtepInfo
             added == [mac \in DOMAIN unicast \cup {v.mac : v \in vteps} |->
                         IF mac \in DOMAIN unicast THEN unicast[mac] ELSE (CHOOSE v \in vteps : v.mac = mac).ip]
             valid == {mac \in DOMAIN added : ~Invalid(added[mac], mac, vteps)}
  <1>1. vteps = Vteps(worker.nodes, cache.vteps)
    BY Zenon DEF RecordVtepInfo, Vteps, Complete
  <1>2. unicast' = Restrict(added, valid) /\ flood' = {v.ip : v \in vteps}
    BY Zenon DEF SyncVtepInfo
  <1> HIDE DEF vteps, added
  <1>3. unicast' = [mac \in valid |-> added[mac]]
    BY <1>2, Zenon DEF Restrict
  <1>4. ASSUME NEW mac \in DOMAIN unicast' PROVE \E v \in vteps : v.mac = mac /\ v.ip = unicast'[mac]
    BY <1>3, Zenon DEF Invalid
  <1> QED
    BY <1>1, <1>2, <1>4, Zenon

LEMMA SyncInv ==
    ASSUME IInv, SyncVtepInfo
    PROVE  IInv'
  <1>1. worker.at = "sync" /\ UNCHANGED <<addr, api, cache, dev>>
    BY Zenon DEF SyncVtepInfo
  <1>2. CASE Requeue
    <2>1. ObjectsOK(cache')
      BY <1>1, Zenon DEF IInv, TypeInv
    <2> QED
      BY <1>1, <1>2, <2>1, RequeueInv, Zenon
  <1>3. CASE worker' = Idle /\ queued' = queued
    <2>1. WorkerOK(worker') /\ worker'.at = "idle"
      BY <1>3, Zenon DEF WorkerOK, Idle
    <2>2. TypeInv' /\ Published'
      BY <1>1, <1>3, <2>1, Zenon DEF IInv, TypeInv, Published
    <2>3. ASSUME ~queued' PROVE Fresh'
      <3>1. worker.nodes = cache.nodes /\ worker.vtep = addr[This] /\ dev = addr[This]
        BY <1>1, <1>3, <2>3, Zenon DEF IInv, Fresh
      <3>2. api.nodes[This] = addr[This]
        BY <1>1, <3>1, Zenon DEF IInv, Published
      <3>3. Written(Vteps(cache.nodes, cache.vteps))'
        BY <1>1, <3>1, SyncWrites, Zenon DEF Written
      <3> QED
        BY <1>1, <2>1, <3>1, <3>2, <3>3, Zenon DEF Fresh
    <2> QED
      BY <2>2, <2>3, Zenon DEF IInv
  <1> QED
    BY <1>2, <1>3, Zenon DEF SyncVtepInfo

LEMMA NextInv ==
    ASSUME SteadyMAC, IInv, [Next]_vars
    PROVE  IInv'
  <1>1. CASE \E n \in Nodes : ChangeAddress(n)
    BY <1>1, AddressInv, Zenon
  <1>2. CASE Environment /\ ~\E n \in Nodes : ChangeAddress(n)
    BY <1>2, ObjectsInv, Zenon DEF Environment
  <1>3. CASE \E n \in Nodes : Report(n)
    BY <1>3, ReportInv, Zenon
  <1>4. CASE \E kind \in Kinds : Deliver(kind)
    BY <1>4, DeliverInv, Zenon
  <1>5. CASE ReconcileStep
    BY <1>5, StartInv, AnnotateInv, DeviceInv, SyncInv, Zenon DEF ReconcileStep
  <1>6. CASE Search \/ (\E mac \in found : NeighSet(mac)) \/ Age \/ clearVxlanExpiredNeighCaches
    BY <1>6, NeighbourInv, Zenon
  <1>7. CASE ReconcileFails \/ Restart
    BY <1>7, FaultInv, Zenon
  <1>8. CASE UNCHANGED vars
    <2>1. UNCHANGED <<addr, api, cache, queued, worker, dev, unicast, flood>>
      BY <1>8, Zenon DEF vars, kernel
    <2>2. ObjectsOK(api')
      BY <2>1, Zenon DEF IInv, TypeInv
    <2> QED
      BY <2>1, <2>2, ElsewhereInv, Zenon
  <1> QED
    BY <1>1, <1>2, <1>3, <1>4, <1>5, <1>6, <1>7, <1>8, Zenon DEF Next, Daemon

LEMMA InvImplies == IInv => FramesReach
  <1> SUFFICES ASSUME IInv, Settled PROVE FramesReach
    BY Zenon DEF FramesReach
  <1>1. ~queued /\ worker.at = "idle" /\ cache = api /\ api.overlay
    BY Zenon DEF Settled, Idle
  <1>2. Fresh
    BY <1>1 DEF IInv
  <1>3. api.nodes[This] = addr[This] /\ dev = addr[This] /\ Written(Vteps(api.nodes, api.vteps))
    BY <1>1, <1>2, Zenon DEF Fresh
  <1>4. \A n \in Nodes : api.nodes[n] = addr[n] /\ addr[n] # None
    BY <1>3, AddrIn, Zenon DEF Settled, IInv, TypeInv
  <1>5. Vteps(api.nodes, api.vteps) = {addr[n] : n \in Nodes} \cup {api.vteps[r].info : r \in Remotes}
    BY <1>4, Zenon DEF Vteps
  <1> QED
    BY <1>3, <1>5, Zenon DEF FramesReach, Written

\* For any nodes, pods and other clusters, and any number of changes, faults and restarts: once
\* the node reconciler (Reconcile of node_controller.go) has nothing to do, the address of the
\* node is published, the device has it, and frames reach the vteps that there are and no others.
\* The MAC of the parent interface has to stay while its address does: nobody is told otherwise.
THEOREM FramesReachCorrect ==
    ASSUME SteadyMAC
    PROVE  Spec => []FramesReach
  <1>1. Init => IInv
    BY InitInv, Zenon
  <1>2. IInv /\ [Next]_vars => IInv'
    BY NextInv
  <1>3. IInv => FramesReach
    BY InvImplies
  <1> QED
    BY <1>1, <1>2, <1>3, PTL DEF Spec
==============================================================================
