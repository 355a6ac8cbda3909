---------------------------- MODULE NodePodsProofs ----------------------------
(***************************************************************************)
(* Theorems about NodePods: what the IPInstance reconciler has published   *)
(* when it has nothing to do, and where traffic to a running pod goes, for *)
(* any pods, addresses, interfaces, sandboxes and bounds.                  *)
(***************************************************************************)
EXTENDS NodePods, TLAPS

(***************************************************************************)
(* The reconciler.  With an empty queue it works on the addresses that the *)
(* cache has now: whatever changes them fills the queue.                   *)
(***************************************************************************)
Families == Devs \X {4, 6}
Steps == {"idle", "neigh", "addr", "swap", "strip"}

WorkerOK ==
    /\ worker = [at |-> worker.at, ips |-> worker.ips, todo |-> worker.todo, addr |-> worker.addr]
    /\ worker.at \in Steps /\ worker.ips \subseteq IPs
    /\ worker.at = "neigh" => worker.todo \subseteq Families

TypeInv ==
    /\ plan \in Plans
    /\ queued \in BOOLEAN
    /\ WorkerOK
    /\ DOMAIN proxies = Devs

\* The addresses that the reconciler works on, or has worked on last.
Working == IF worker.at = "idle" THEN Listed ELSE worker.ips

\* The proxy neighbours of one interface and address family are those of ips.
NeighsOf(ips, d) ==
    IPsOn(ips, d[1], d[2]) # {} => {i \in proxies[d[1]] : plan[i].version = d[2]} = IPsOn(ips, d[1], d[2])

\* What SyncNeighs has done so far, and what SyncIPInfos did in the end.
Published ==
    /\ Working = Listed
    /\ \A d \in Families : (worker.at = "neigh" => d \notin worker.todo) => NeighsOf(Listed, d)
    /\ worker.at = "idle" /\ bgp.asn # 0 => bgp.paths = BGPIPs(Listed)

PublishedInv == TypeInv /\ (~queued => Published)

(***************************************************************************)
(* Enhanced addresses.                                                     *)
(***************************************************************************)
\* The daemon does not stop, and no request fails, between adding an address and deleting its routes.
NoTornAddress == FaultPoints \cap {"swap", "strip"} = {}

Outside == {"idle", "neigh", "addr"}

PlaceOf(pl, ip) == <<pl[ip].dev, pl[ip].subnet>>

AddrOK(pl, a) ==
    /\ a.ip \in IPs /\ a.dev = pl[a.ip].dev /\ a.subnet = pl[a.ip].subnet
    /\ PlaceOf(pl, a.ip) \notin Manual

NewAddr(pl, new, local, secondary) ==
    [dev |-> pl[new].dev, subnet |-> pl[new].subnet, ip |-> new, local |-> local, secondary |-> secondary]

\* The addresses that are not being changed are enhanced, one per subnet.
Tidy(pl, set) ==
    /\ \A a \in set : Enhanced(a)
    /\ \A a, b \in set : PlaceOf(pl, a.ip) = PlaceOf(pl, b.ip) => a = b

\* The new address is secondary while there is an old one, and the first of its subnet then.
Swapping(pl, new, old, set) ==
    LET a == NewAddr(pl, new, old = {}, old # {})
    IN  /\ a \in set /\ Tidy(pl, set \ {a})
        /\ old = {b \in set \ {a} : PlaceOf(pl, b.ip) = PlaceOf(pl, new)}

Stripping(pl, new, set) ==
    LET a == NewAddr(pl, new, TRUE, FALSE)
    IN  /\ a \in set /\ Tidy(pl, set \ {a})
        /\ \A b \in set \ {a} : PlaceOf(pl, b.ip) # PlaceOf(pl, new)

AddrsOK(pl, w, set) ==
    /\ \A a \in set : AddrOK(pl, a)
    /\ w.at \in Outside => Tidy(pl, set)
    /\ w.at \in {"swap", "strip"} => w.addr.ip \in w.ips
    /\ w.at = "swap" => Swapping(pl, w.addr.ip, w.addr.old, set)
    /\ w.at = "strip" => Stripping(pl, w.addr.ip, set)

TodoOK == worker.at \in {"addr", "swap", "strip"} => worker.todo \subseteq AddrTargets(worker.ips)

\* Once ClearAddresses is done, the addresses are those of subnets with pods, and the subnets that
\* have been dealt with have one of a pod.
KeptIn(pl, w, set, listed, targets) ==
    /\ \A a \in set : PlaceOf(pl, a.ip) \in targets
    /\ \A t \in targets \ Manual :
         (w.at # "idle" => t \notin w.todo) =>
            \E a \in set : /\ PlaceOf(pl, a.ip) = t /\ a.ip \in listed
                           /\ w.at = "swap" => a \notin w.addr.old

Kept == worker.at # "neigh" => KeptIn(plan, worker, addrs, Listed, AddrTargets(Listed))

AddrsInv == AddrsOK(plan, worker, addrs) /\ TodoOK

EnhancedInv == AddrsInv /\ (~queued => Kept)

(***************************************************************************)
(* Sandboxes.                                                              *)
(***************************************************************************)
Live(r) == r.run # "gone"

\* The handler of a request that the kubelet waits for has made the veth pair.
Wired(r) == \/ r.run = "running"
            \/ r.run = "starting" /\ r.at \in {"ready", "container", "status"}

SandboxFields == {"pod", "num", "run", "at", "netns", "ips", "left", "last", "updates"}

SandboxOK(r) ==
    /\ DOMAIN r = SandboxFields
    /\ r.run \in {"gone", "starting", "running", "stopping", "removing"}
    /\ r.at \in {"over", "wait", "veth", "ready", "container", "status"}
    /\ (Live(r) \/ r.at # "over") => r.pod \in Pods
    /\ r.netns => Live(r)
    /\ r.run = "running" => r.at = "over"
    /\ r.ips \subseteq IPs

PodRecord == [num : Nat, annotated : BOOLEAN, deleting : BOOLEAN]

SandboxType ==
    /\ created \in Nat
    /\ pods \in [Pods -> PodRecord \cup {None}]
    /\ DOMAIN sandbox = Sandboxes /\ \A s \in Sandboxes : SandboxOK(sandbox[s])
    /\ veth \in [Pods -> Sandboxes \cup {None}]
    /\ DOMAIN direct = IPs

\* Pods have numbers of their own.
Numbers ==
    /\ \A p \in Pods : pods[p] # None => pods[p].num <= created
    /\ \A p, q \in Pods : pods[p] # None /\ pods[q] # None /\ pods[p].num = pods[q].num => p = q

\* A pod has one sandbox at a time, and stays while it has it.
OneSandbox ==
    /\ \A s \in Sandboxes : Live(sandbox[s]) =>
         pods[sandbox[s].pod] # None /\ pods[sandbox[s].pod].num = sandbox[s].num
    /\ \A s, t \in Sandboxes :
         Live(sandbox[s]) /\ Live(sandbox[t]) /\ sandbox[s].pod = sandbox[t].pod => s = t

\* A veth pair goes with its sandbox.
VethsLive == \A p \in Pods : veth[p] # None => Live(sandbox[veth[p]]) /\ sandbox[veth[p]].pod = p

WiredUp == \A s \in Sandboxes : Wired(sandbox[s]) =>
    veth[sandbox[s].pod] = s /\ \A i \in sandbox[s].ips : direct[i] = sandbox[s].pod

SandboxInv == SandboxType /\ Numbers /\ OneSandbox /\ VethsLive /\ WiredUp

\* One pod name, used again and again; or ADD has found the IPInstances of its own pod, and not
\* those of another one of that name.
OnePod == \A p, q \in Pods : p = q
ListsOwn == \A s \in Sandboxes : Live(sandbox[s]) =>
    \A i \in sandbox[s].ips : api[i] # None /\ api[i].num = sandbox[s].num

(***************************************************************************)
(* Who changes what.                                                       *)
(***************************************************************************)
published == <<plan, cache, queued, worker, proxies, addrs, bgp>>

\* The manager, the kubelet, the handlers and the other reconcilers leave the IPInstance reconciler
\* alone, and all that it reads and writes.
OtherStep ==
    \/ Manager \/ Kubelet
    \/ \E p \in Pods : CreatePod(p) \/ DeletePod(p)
    \/ \E i \in IPs : MoveIP(i)
    \/ \E s \in Sandboxes : Handler(s) \/ Abandon(s) \/ ProbeFails(s) \/ AddFails(s)
    \/ \E n \in SubnetNames : SubnetReady(n)

\* No handler and no action of the kubelet or the manager writes what the reconciler publishes.
LEMMA OthersPublishNothing == OtherStep => UNCHANGED published
<1>1. Manager => UNCHANGED published
  BY DEF Manager, Annotate, Couple, FreeIP, published, node
<1>2. Kubelet => UNCHANGED published
  BY Zenon DEF Kubelet, RunSandbox, RemovePod, StopSandbox, HandleDel, RemoveNetns, published, node
<1>3. ASSUME NEW s \in Sandboxes, Handler(s) PROVE UNCHANGED published
  BY <1>3, Zenon DEF Handler, ListIPInstances, NotCoupled, ConfigureHostNic, CheckReady, NotReady,
     ConfigureContainerNic, UpdateStatus, published, node
<1>4. ASSUME NEW s \in Sandboxes, Abandon(s) \/ ProbeFails(s) \/ AddFails(s) PROVE UNCHANGED published
  BY <1>4, Zenon DEF Abandon, ProbeFails, AddFails, AbortAdd, published, node
<1>5. ASSUME NEW p \in Pods, CreatePod(p) \/ DeletePod(p) PROVE UNCHANGED published
  BY <1>5 DEF CreatePod, DeletePod, published, node
<1>6. ASSUME NEW i \in IPs, MoveIP(i) PROVE UNCHANGED published
  BY <1>6 DEF MoveIP, published, node
<1>7. ASSUME NEW n \in SubnetNames, SubnetReady(n) PROVE UNCHANGED published
  BY <1>7 DEF SubnetReady, published
<1> QED
  BY <1>1, <1>2, <1>3, <1>4, <1>5, <1>6, <1>7 DEF OtherStep

\* The steps of the specification, for the reconciler.
LEMMA StepCases ==
    ASSUME Next
    PROVE  \/ UNCHANGED published
           \/ Deliver \/ StartReconcile
           \/ \E d \in worker.todo : worker.at = "neigh" /\ SyncNeighs(d[1], d[2])
           \/ ClearAddresses
           \/ \E d \in worker.todo : worker.at = "addr" /\ EnsureAddress(d[1], d[2])
           \/ SwapAddress \/ StripAddress \/ FinishReconcile
           \/ \E d \in Devs : LinkFlap(d)
           \/ Fail \/ StartFails \/ Restart
  BY OthersPublishNothing, Zenon DEF Next, ReconcileStep, OtherStep

(***************************************************************************)
(* Proxy neighbours and BGP paths.                                         *)
(***************************************************************************)
\* Before the first sync nothing is published, and the queue is filled.
LEMMA PublishedInit == Init => PublishedInv
  BY DEF Init, Idle, PublishedInv, TypeInv, WorkerOK, Steps

\* What is published is a matter of the objects listed and of what the reconciler writes.
LEMMA PublishedStutter == PublishedInv /\ UNCHANGED published => PublishedInv'
  BY DEF published, PublishedInv, TypeInv, WorkerOK, Published, Working, Listed, NeighsOf, IPsOn,
     ForwardIfs, BGPIPs

\* Deliver: the predicate lets through every event that changes what is listed.
LEMMA DeliverListed == Deliver /\ ~queued' => Listed' = Listed /\ ~queued
  BY Zenon DEF Deliver, IPInstancePredicate, Listed, Here

LEMMA PublishedDeliver == PublishedInv /\ Deliver => PublishedInv'
<1> SUFFICES ASSUME PublishedInv, Deliver PROVE PublishedInv'
  OBVIOUS
<1>1. UNCHANGED <<plan, worker, proxies, bgp>>
  BY DEF Deliver, node
<1>2. TypeInv'
  BY <1>1 DEF PublishedInv, TypeInv, WorkerOK, Deliver
<1>3. ASSUME ~queued' PROVE Published'
  BY <1>1, <1>3, DeliverListed, SMTT(30) DEF PublishedInv, Published, Working, NeighsOf, IPsOn, ForwardIfs, BGPIPs
<1> QED
  BY <1>2, <1>3 DEF PublishedInv

\* A reconciliation starts from the addresses that the cache has; interfaces without a pod of the
\* address family are passed over.
LEMMA PublishedStart == PublishedInv /\ StartReconcile => PublishedInv'
<1> SUFFICES ASSUME PublishedInv, StartReconcile PROVE PublishedInv'
  OBVIOUS
<1>1. UNCHANGED <<plan, cache, proxies>> /\ worker.at = "idle"
  BY DEF StartReconcile
<1>2. worker' = [at |-> "neigh", ips |-> Listed, addr |-> None,
                 todo |-> {d \in Devs \X {4, 6} : IPsOn(Listed, d[1], d[2]) # {}}]
  BY Zenon DEF StartReconcile, Idle
<1>3. TypeInv'
  <2>1. worker'.at = "neigh" /\ worker'.ips \subseteq IPs /\ worker'.todo \subseteq Families
    BY <1>2 DEF Families, Listed
  <2>2. worker' = [at |-> worker'.at, ips |-> worker'.ips, todo |-> worker'.todo, addr |-> worker'.addr]
    BY <1>2
  <2> QED
    BY <1>1, <2>1, <2>2, Zenon DEF PublishedInv, TypeInv, WorkerOK, Steps, StartReconcile
<1>4. Published'
  BY <1>1, <1>2, Zenon DEF Published, Working, NeighsOf, IPsOn, ForwardIfs, Families, Listed
<1> QED
  BY <1>3, <1>4 DEF PublishedInv

\* The sync of one interface and address family leaves the neighbours of the other one there.
LEMMA PublishedNeighs ==
    ASSUME PublishedInv, NEW d \in worker.todo, worker.at = "neigh", SyncNeighs(d[1], d[2])
    PROVE  PublishedInv'
<1>1. d \in Families /\ d = <<d[1], d[2]>> /\ d[1] \in Devs
  BY DEF PublishedInv, TypeInv, WorkerOK, Families
<1>2. UNCHANGED <<plan, cache, bgp>>
  BY DEF SyncNeighs
<1>3. CASE d[1] \notin links
  BY <1>2, <1>3 DEF SyncNeighs, Requeue, Idle, PublishedInv, TypeInv, WorkerOK, Steps
<1>4. CASE d[1] \in links
  <2>1. worker' = [worker EXCEPT !.todo = @ \ {d}] /\ UNCHANGED queued
    BY <1>1, <1>4 DEF SyncNeighs
  <2>2. proxies' = [proxies EXCEPT ![d[1]] = ProxiesOf(d[1], d[2])]
    BY <1>4 DEF SyncNeighs
  <2>3. TypeInv'
    BY <1>2, <2>1, <2>2, Zenon DEF PublishedInv, TypeInv, WorkerOK, Steps
  <2>4. worker'.at = "neigh" /\ worker'.ips = worker.ips /\ worker'.todo = worker.todo \ {d}
    BY <2>1 DEF PublishedInv, TypeInv, WorkerOK
  <2>5. ASSUME ~queued' PROVE Published'
    <3>1. Published /\ worker.ips = Listed
      BY <2>1, <2>5 DEF PublishedInv, Published, Working
    <3>2. Working' = Listed' /\ Listed' = Listed
      BY <1>2, <2>4, <3>1 DEF Working, Listed
    <3>3. ASSUME NEW e \in Families, e \notin worker'.todo PROVE NeighsOf(Listed, e)'
      <4>1. NeighsOf(Listed, e)' <=>
              (IPsOn(Listed, e[1], e[2]) # {} =>
                 {i \in proxies'[e[1]] : plan[i].version = e[2]} = IPsOn(Listed, e[1], e[2]))
        BY <1>2, Zenon DEF NeighsOf, IPsOn, ForwardIfs, Listed
      <4>2. CASE e = d
        BY <1>1, <2>2, <3>1, <4>1, <4>2, Zenon DEF ProxiesOf, IPsOn, PublishedInv, TypeInv
      <4>3. CASE e # d /\ e[1] # d[1]
        BY <1>1, <2>2, <2>4, <3>1, <3>3, <4>1, <4>3, Zenon DEF Published, NeighsOf, PublishedInv, TypeInv, Families
      <4>4. CASE e # d /\ e[1] = d[1]
        <5>1. e[2] # d[2] /\ e \notin worker.todo
          BY <1>1, <2>4, <3>3, <4>4, SMTT(30) DEF Families
        <5>2. {i \in proxies'[e[1]] : plan[i].version = e[2]} = {i \in proxies[e[1]] : plan[i].version = e[2]}
          BY <1>1, <2>2, <4>4, <5>1, Zenon DEF ProxiesOf, IPsOn, PublishedInv, TypeInv
        <5> QED
          BY <3>1, <4>1, <5>1, <5>2, Zenon DEF Published, NeighsOf
      <4> QED
        BY <4>2, <4>3, <4>4
    <3> QED
      BY <2>4, <3>2, <3>3, Zenon DEF Published
  <2> QED
    BY <2>3, <2>5 DEF PublishedInv
<1> QED
  BY <1>3, <1>4

\* A sync that ends in an error is queued again.
LEMMA PublishedRequeue ==
    ASSUME PublishedInv, UNCHANGED plan, queued' = TRUE, DOMAIN proxies' = Devs, worker' = Idle \/ UNCHANGED worker
    PROVE  PublishedInv'
  BY SMTT(30) DEF Idle, PublishedInv, TypeInv, WorkerOK, Steps

\* The steps that write enhanced addresses come after the neighbours and leave them alone.
AddrStep ==
    /\ UNCHANGED <<plan, cache, queued, proxies, bgp>>
    /\ worker.at # "idle" /\ (worker.at = "neigh" => worker.todo = {})
    /\ worker'.at \in {"addr", "swap", "strip"} /\ worker'.ips = worker.ips
    /\ worker' = [at |-> worker'.at, ips |-> worker'.ips, todo |-> worker'.todo, addr |-> worker'.addr]

LEMMA PublishedAddr == PublishedInv /\ AddrStep => PublishedInv'
<1> SUFFICES ASSUME PublishedInv, AddrStep PROVE PublishedInv'
  OBVIOUS
<1>1. TypeInv'
  BY Zenon DEF PublishedInv, TypeInv, WorkerOK, Steps, AddrStep
<1>2. ASSUME ~queued' PROVE Published'
  <2>1. Published /\ worker.ips = Listed
    BY <1>2, Zenon DEF PublishedInv, Published, Working, AddrStep
  <2>2. \A d \in Families : NeighsOf(Listed, d)
    BY <2>1 DEF Published, AddrStep
  <2>3. \A d \in Families : NeighsOf(Listed, d)'
    BY <2>2, SMTT(30) DEF NeighsOf, IPsOn, ForwardIfs, Listed, AddrStep
  <2> QED
    BY <2>1, <2>3, Zenon DEF Published, Working, Listed, AddrStep
<1> QED
  BY <1>1, <1>2 DEF PublishedInv

LEMMA AddrSteps == WorkerOK /\ (ClearAddresses \/ SwapAddress \/ StripAddress) => AddrStep
  BY Zenon DEF ClearAddresses, SwapAddress, StripAddress, AddrStep, WorkerOK

LEMMA EnsureSteps ==
    ASSUME WorkerOK, NEW d \in worker.todo, worker.at = "addr", EnsureAddress(d[1], d[2])
    PROVE  AddrStep \/ (Requeue /\ UNCHANGED <<plan, cache, proxies, addrs, bgp>>)
<1>1. UNCHANGED <<plan, cache, proxies, bgp>>
  BY DEF EnsureAddress
<1>2. \/ Requeue /\ UNCHANGED addrs
      \/ /\ UNCHANGED queued
         /\ \/ worker' = [worker EXCEPT !.todo = @ \ {<<d[1], d[2]>>}]
            \/ \E n : worker' = [worker EXCEPT !.at = "swap", !.todo = @ \ {<<d[1], d[2]>>}, !.addr = n]
  BY Zenon DEF EnsureAddress
<1> QED
  BY <1>1, <1>2, Zenon DEF AddrStep, WorkerOK

\* SyncIPInfos: the paths announced are those of the addresses that were listed.
LEMMA PublishedFinish == PublishedInv /\ FinishReconcile => PublishedInv'
<1> SUFFICES ASSUME PublishedInv, FinishReconcile PROVE PublishedInv'
  OBVIOUS
<1>1. UNCHANGED <<plan, cache, proxies>> /\ worker.at = "addr" /\ worker' = Idle
  BY DEF FinishReconcile, Requeue
<1>2. TypeInv'
  BY <1>1, Zenon DEF PublishedInv, TypeInv, WorkerOK, Steps, Idle, FinishReconcile, Requeue
<1>3. ASSUME ~queued' PROVE Published'
  <2>1. UNCHANGED queued /\ bgp' = IF bgp.asn = 0 THEN bgp ELSE [bgp EXCEPT !.paths = SyncIPInfos]
    BY <1>3 DEF FinishReconcile, Requeue
  <2>2. Published /\ worker.ips = Listed
    BY <1>1, <1>3, <2>1 DEF PublishedInv, Published, Working
  <2>3. \A d \in Families : NeighsOf(Listed, d)'
    BY <1>1, <2>2, SMTT(30) DEF Published, NeighsOf, IPsOn, ForwardIfs, Listed
  <2>4. bgp'.asn # 0 => bgp'.paths = BGPIPs(Listed)'
    BY <1>1, <2>1, <2>2 DEF SyncIPInfos, BGPIPs, Listed
  <2> QED
    BY <1>1, <2>3, <2>4, Zenon DEF Published, Working, Idle
<1> QED
  BY <1>2, <1>3 DEF PublishedInv

\* Every step keeps it: a link that flaps, a failing request and a restart fill the queue.
LEMMA PublishedNext == PublishedInv /\ [Next]_vars => PublishedInv'
<1> SUFFICES ASSUME PublishedInv, [Next]_vars PROVE PublishedInv'
  OBVIOUS
<1>0. WorkerOK /\ DOMAIN proxies = Devs
  BY DEF PublishedInv, TypeInv
<1>1. CASE UNCHANGED published
  BY <1>1, PublishedStutter
<1>2. CASE Deliver \/ StartReconcile \/ FinishReconcile
  BY <1>2, PublishedDeliver, PublishedStart, PublishedFinish
<1>3. ASSUME NEW d \in worker.todo, worker.at = "neigh", SyncNeighs(d[1], d[2]) PROVE PublishedInv'
  BY <1>3, PublishedNeighs, Zenon
<1>4. CASE ClearAddresses \/ SwapAddress \/ StripAddress
  BY <1>0, <1>4, AddrSteps, PublishedAddr
<1>5. ASSUME NEW d \in worker.todo, worker.at = "addr", EnsureAddress(d[1], d[2]) PROVE PublishedInv'
  BY <1>0, <1>5, EnsureSteps, PublishedAddr, PublishedRequeue, Zenon DEF Requeue
<1>6. ASSUME NEW d \in Devs, LinkFlap(d) PROVE PublishedInv'
  BY <1>0, <1>6, PublishedRequeue, Zenon DEF LinkFlap
<1>7. CASE Fail \/ Restart
  BY <1>0, <1>7, PublishedRequeue, Zenon DEF Fail, Restart, Requeue, node
<1>8. CASE StartFails
  BY <1>0, <1>8, PublishedRequeue, Zenon DEF StartFails
<1>9. CASE UNCHANGED vars
  BY <1>1, <1>9, Zenon DEF vars, node, published
<1> QED
  BY <1>1, <1>2, <1>3, <1>4, <1>5, <1>6, <1>7, <1>8, <1>9, StepCases, Zenon

\* For any interfaces, addresses, pods and faults: once the IPInstance reconciler has nothing to do,
\* the node answers for the addresses of its pods and announces them over BGP, and no others.
THEOREM AnnouncesCorrect == Spec => []AnnouncesOwnPods
<1>1. Init => PublishedInv
  BY PublishedInit
<1>2. PublishedInv /\ [Next]_vars => PublishedInv'
  BY PublishedNext
<1>3. PublishedInv => AnnouncesOwnPods
  <2> SUFFICES ASSUME PublishedInv, Settled PROVE AnnouncesOwnPods
    BY DEF AnnouncesOwnPods
  <2>1. Published /\ worker.at = "idle" /\ LocalIPs = Listed
    BY DEF PublishedInv, Settled, LocalIPs, Listed
  <2>2. ASSUME NEW d \in Devs, NEW v \in {4, 6}, IPsOn(Listed, d, v) # {}
        PROVE  {i \in proxies[d] : plan[i].version = v} = IPsOn(Listed, d, v)
    <3>1. PICK e \in Families : e = <<d, v>>
      BY Zenon DEF Families
    <3>2. e[1] = d /\ e[2] = v
      BY <3>1
    <3>3. NeighsOf(Listed, e)
      BY <2>1 DEF Published
    <3> QED
      BY <2>2, <3>2, <3>3 DEF NeighsOf
  <2> QED
    BY <2>1, <2>2 DEF AnnouncesOwnPods, Published
<1> QED
  BY <1>1, <1>2, <1>3, PTL DEF Spec

(***************************************************************************)
(* Enhanced addresses.                                                     *)
(***************************************************************************)
LEMMA EnhancedInit == Init => EnhancedInv
  BY DEF Init, Idle, EnhancedInv, AddrsInv, AddrsOK, Tidy, TodoOK

\* Between the subnets nothing depends on where the reconciler is.
LEMMA AddrsFrame ==
    ASSUME AddrsInv, UNCHANGED <<plan, addrs>>, worker.at \in Outside, worker'.at \in {"idle", "neigh"}
    PROVE  AddrsInv'
  BY DEF AddrsInv, AddrsOK, Outside, TodoOK

\* A sync that ends in an error between two subnets leaves enhanced addresses only.
LEMMA EnhancedRequeue ==
    ASSUME AddrsInv, UNCHANGED <<plan, addrs>>, worker.at \in Outside, worker' = Idle, queued'
    PROVE  EnhancedInv'
<1>1. worker'.at = "idle"
  BY DEF Idle
<1> QED
  BY <1>1, AddrsFrame DEF EnhancedInv, Outside

LEMMA AddrsStutter == AddrsInv /\ UNCHANGED <<plan, addrs, worker>> => AddrsInv'
  BY DEF AddrsInv, TodoOK, AddrTargets

LEMMA KeptStutter == Kept /\ UNCHANGED <<plan, addrs, worker>> /\ Listed' = Listed => Kept'
  BY DEF Kept, AddrTargets

LEMMA EnhancedStutter == EnhancedInv /\ UNCHANGED published => EnhancedInv'
<1> SUFFICES ASSUME EnhancedInv, UNCHANGED published PROVE EnhancedInv'
  OBVIOUS
<1>1. UNCHANGED <<plan, addrs, worker, queued>> /\ Listed' = Listed
  BY DEF published, Listed
<1> QED
  BY <1>1, AddrsStutter, KeptStutter DEF EnhancedInv

LEMMA EnhancedDeliver == EnhancedInv /\ Deliver => EnhancedInv'
<1> SUFFICES ASSUME EnhancedInv, Deliver PROVE EnhancedInv'
  OBVIOUS
<1>1. UNCHANGED <<plan, worker, addrs>>
  BY DEF Deliver, node
<1>2. AddrsInv'
  BY <1>1, AddrsStutter DEF EnhancedInv
<1>3. ASSUME ~queued' PROVE Kept'
  BY <1>1, <1>3, DeliverListed, KeptStutter DEF EnhancedInv
<1> QED
  BY <1>2, <1>3 DEF EnhancedInv

LEMMA EnhancedStart == EnhancedInv /\ StartReconcile => EnhancedInv'
<1> SUFFICES ASSUME EnhancedInv, StartReconcile PROVE EnhancedInv'
  OBVIOUS
<1>1. UNCHANGED <<plan, addrs>> /\ worker.at = "idle" /\ worker'.at = "neigh"
  BY DEF StartReconcile, Idle
<1> QED
  BY <1>1, AddrsFrame DEF EnhancedInv, Outside, Kept

LEMMA EnhancedNeighs ==
    ASSUME PublishedInv, EnhancedInv, NEW d \in worker.todo, worker.at = "neigh", SyncNeighs(d[1], d[2])
    PROVE  EnhancedInv'
<1>1. UNCHANGED <<plan, addrs>> /\ (worker'.at = "neigh" \/ (worker' = Idle /\ queued'))
  BY DEF SyncNeighs, Requeue, PublishedInv, TypeInv, WorkerOK
<1> QED
  BY <1>1, AddrsFrame, EnhancedRequeue DEF EnhancedInv, Outside, Kept

\* ClearAddresses deletes the addresses of subnets without pods.
LEMMA EnhancedClear == PublishedInv /\ EnhancedInv /\ ClearAddresses => EnhancedInv'
<1> SUFFICES ASSUME PublishedInv, EnhancedInv, ClearAddresses PROVE EnhancedInv'
  OBVIOUS
<1>1. UNCHANGED <<plan, cache, queued>> /\ worker.at = "neigh"
  BY DEF ClearAddresses
<1>2. worker'.at = "addr" /\ worker'.ips = worker.ips /\ worker'.todo = AddrTargets(worker.ips)
  BY DEF ClearAddresses, PublishedInv, TypeInv, WorkerOK
<1>3. addrs' \subseteq addrs /\ \A a \in addrs' : PlaceOf(plan, a.ip) \in AddrTargets(worker.ips)
  BY <1>1 DEF ClearAddresses, EnhancedInv, AddrsInv, AddrsOK, Outside, Tidy, AddrOK, PlaceOf
<1>4. AddrsOK(plan, worker, addrs)'
  BY <1>1, <1>2, <1>3, Zenon DEF EnhancedInv, AddrsInv, AddrsOK, Outside, Tidy
<1>5. TodoOK'
  BY <1>1, <1>2 DEF TodoOK, AddrTargets
<1>6. ASSUME ~queued' PROVE Kept'
  <2>1. worker.ips = Listed
    BY <1>1, <1>6 DEF PublishedInv, Published, Working
  <2>2. AddrTargets(Listed)' = AddrTargets(worker.ips)
    BY <1>1, <2>1 DEF AddrTargets, Listed
  <2> QED
    BY <1>1, <1>2, <1>3, <2>2 DEF Kept, KeptIn
<1> QED
  BY <1>4, <1>5, <1>6 DEF EnhancedInv, AddrsInv

LEMMA EnhancedFinish == PublishedInv /\ EnhancedInv /\ FinishReconcile => EnhancedInv'
<1> SUFFICES ASSUME PublishedInv, EnhancedInv, FinishReconcile PROVE EnhancedInv'
  OBVIOUS
<1>1. UNCHANGED <<plan, cache, addrs>> /\ worker.at = "addr" /\ worker.todo = {} /\ worker' = Idle
  BY DEF FinishReconcile, Requeue
<1>2. CASE queued'
  BY <1>1, <1>2, EnhancedRequeue DEF EnhancedInv, Outside
<1>3. CASE ~queued'
  <2>1. UNCHANGED queued
    BY <1>3 DEF FinishReconcile, Requeue
  <2>2. Kept /\ worker'.at = "idle"
    BY <1>1, <1>3, <2>1 DEF EnhancedInv, Idle
  <2>3. AddrTargets(Listed)' = AddrTargets(Listed) /\ Listed' = Listed
    BY <1>1 DEF AddrTargets, Listed
  <2>4. Kept'
    BY <1>1, <2>2, <2>3 DEF Kept, KeptIn
  <2> QED
    BY <1>1, <2>2, <2>4, AddrsFrame DEF EnhancedInv, Outside
<1> QED
  BY <1>2, <1>3

\* An address is where the plan has it.
LEMMA AddrAt ==
    ASSUME NEW pl, NEW a, AddrOK(pl, a), NEW d, d = <<d[1], d[2]>>
    PROVE  (a.dev = d[1] /\ a.subnet = d[2]) <=> PlaceOf(pl, a.ip) = d
<1>1. a.dev = pl[a.ip].dev /\ a.subnet = pl[a.ip].subnet
  BY DEF AddrOK
<1> QED
  BY <1>1 DEF PlaceOf

\* EnsureAddress leaves a subnet alone that an administrator has given an address, or whose address
\* is still that of a pod.
LEMMA EnhancedEnsured ==
    ASSUME PublishedInv, EnhancedInv, worker.at = "addr", NEW d \in worker.todo, NEW ip \in worker.ips,
           d = PlaceOf(plan, ip),
           ManualOn(d[1], d[2]) \/ \E a \in EnhancedOn(d[1], d[2]) : StillValid(a, ip),
           worker' = [worker EXCEPT !.todo = @ \ {d}], UNCHANGED <<plan, cache, queued, addrs>>
    PROVE  EnhancedInv'
<1>1. worker'.at = "addr" /\ worker'.ips = worker.ips /\ worker'.todo = worker.todo \ {d}
  BY DEF PublishedInv, TypeInv, WorkerOK
<1>2. AddrsInv'
  BY <1>1 DEF EnhancedInv, AddrsInv, AddrsOK, TodoOK, AddrTargets
<1>3. d \in Manual \/ \E a \in addrs : PlaceOf(plan, a.ip) = d /\ (a.ip = ip \/ Here(cache[a.ip])) /\ a.ip \in IPs
  <2>1. d = <<d[1], d[2]>>
    BY DEF PlaceOf
  <2>2. \A a \in addrs : AddrOK(plan, a) /\ Enhanced(a) /\ a.ip \in IPs
    BY DEF EnhancedInv, AddrsInv, AddrsOK, Outside, Tidy, AddrOK
  <2>3. \A a \in addrs : a.dev = d[1] /\ a.subnet = d[2] => PlaceOf(plan, a.ip) = d
    BY <2>1, <2>2, AddrAt
  <2> QED
    BY <2>1, <2>2, <2>3 DEF ManualOn, EnhancedOn, StillValid
<1>4. ASSUME ~queued' PROVE Kept'
  <2>1. worker.ips = Listed /\ KeptIn(plan, worker, addrs, Listed, AddrTargets(Listed))
    BY <1>4 DEF PublishedInv, Published, Working, EnhancedInv, Kept
  <2>2. AddrTargets(Listed)' = AddrTargets(Listed) /\ Listed' = Listed
    BY DEF AddrTargets, Listed
  <2>3. d \in Manual \/ \E a \in addrs : PlaceOf(plan, a.ip) = d /\ a.ip \in Listed
    BY <1>3, <2>1 DEF Listed
  <2>4. KeptIn(plan, worker', addrs, Listed, AddrTargets(Listed))
    BY <1>1, <2>1, <2>3 DEF KeptIn
  <2> QED
    BY <2>2, <2>4 DEF Kept
<1> QED
  BY <1>2, <1>4 DEF EnhancedInv

\* EnsureAddress adds the address of a pod next to the one that is out of date.
LEMMA EnhancedAdded ==
    ASSUME PublishedInv, EnhancedInv, worker.at = "addr", NEW d \in worker.todo, NEW ip \in worker.ips,
           d = PlaceOf(plan, ip),
           ~ManualOn(d[1], d[2]), ~\E a \in EnhancedOn(d[1], d[2]) : StillValid(a, ip),
           addrs' = AddrAdd(addrs, d[1], d[2], ip),
           worker' = [worker EXCEPT !.at = "swap", !.todo = @ \ {d},
                        !.addr = [ip |-> ip, old |-> EnhancedOn(d[1], d[2])]],
           UNCHANGED <<plan, cache, queued>>
    PROVE  EnhancedInv'
<1> DEFINE old == EnhancedOn(d[1], d[2])
           new == NewAddr(plan, ip, old = {}, old # {})
<1>1. /\ worker'.at = "swap" /\ worker'.ips = worker.ips /\ worker'.todo = worker.todo \ {d}
      /\ worker'.addr.ip = ip /\ worker'.addr.old = old
  BY DEF PublishedInv, TypeInv, WorkerOK
<1>2. d \notin Manual /\ ip \in IPs /\ d[1] = plan[ip].dev /\ d[2] = plan[ip].subnet
  BY DEF ManualOn, PlaceOf, PublishedInv, TypeInv, WorkerOK
<1>3. (\A a \in addrs : AddrOK(plan, a)) /\ Tidy(plan, addrs)
  BY DEF EnhancedInv, AddrsInv, AddrsOK, Outside
<1>4. old = {b \in addrs : PlaceOf(plan, b.ip) = d}
  <2>1. d = <<d[1], d[2]>>
    BY DEF PlaceOf
  <2>2. \A a \in addrs : (a.dev = d[1] /\ a.subnet = d[2]) <=> PlaceOf(plan, a.ip) = d
    BY <1>3, <2>1, AddrAt
  <2> QED
    BY <1>3, <2>2 DEF EnhancedOn, Tidy
<1>5. addrs' = addrs \cup {new}
  <2>1. (\E a \in addrs : a.dev = d[1] /\ a.subnet = d[2]) <=> old # {}
    BY <1>3 DEF EnhancedOn, Tidy
  <2> QED
    BY <1>2, <2>1, Zenon DEF AddrAdd, NewAddr
<1>6. AddrOK(plan, new) /\ new.ip = ip
  BY <1>2 DEF AddrOK, NewAddr, PlaceOf
<1>7. new \notin addrs
  BY <1>4, <1>6 DEF StillValid
<1>8. Swapping(plan, ip, old, addrs')
  <2>1. addrs' \ {new} = addrs
    BY <1>5, <1>7
  <2> QED
    BY <1>3, <1>4, <1>5, <2>1, Zenon DEF Swapping
<1>9. AddrsInv'
  <2>1. AddrsOK(plan, worker, addrs)'
    BY <1>1, <1>3, <1>5, <1>6, <1>8, Zenon DEF AddrsOK, Outside
  <2>2. TodoOK'
    BY <1>1, SMTT(30) DEF EnhancedInv, AddrsInv, TodoOK, AddrTargets
  <2> QED
    BY <2>1, <2>2 DEF AddrsInv
<1>10. ASSUME ~queued' PROVE Kept'
  <2>1. worker.ips = Listed /\ KeptIn(plan, worker, addrs, Listed, AddrTargets(Listed))
    BY <1>10 DEF PublishedInv, Published, Working, EnhancedInv, Kept
  <2>2. AddrTargets(Listed)' = AddrTargets(Listed) /\ Listed' = Listed
    BY DEF AddrTargets, Listed
  <2>3. d \in AddrTargets(Listed)
    BY <2>1 DEF EnhancedInv, AddrsInv, TodoOK
  <2>4. \A a \in addrs' : PlaceOf(plan, a.ip) \in AddrTargets(Listed)
    BY <1>5, <1>6, <2>1, <2>3, Zenon DEF KeptIn
  <2>5. ASSUME NEW t \in AddrTargets(Listed) \ Manual, t \notin worker'.todo
        PROVE  \E a \in addrs' : PlaceOf(plan, a.ip) = t /\ a.ip \in Listed /\ a \notin old
    <3>1. CASE t = d
      BY <1>4, <1>5, <1>6, <1>7, <2>1, <3>1, SMTT(30)
    <3>2. CASE t # d
      <4>1. PICK a \in addrs : PlaceOf(plan, a.ip) = t /\ a.ip \in Listed
        BY <1>1, <2>1, <2>5, <3>2 DEF KeptIn
      <4> QED
        BY <1>4, <1>5, <3>2, <4>1
    <3> QED
      BY <3>1, <3>2
  <2>6. KeptIn(plan, worker', addrs', Listed, AddrTargets(Listed))
    BY <1>1, <2>4, <2>5 DEF KeptIn
  <2> QED
    BY <2>2, <2>6 DEF Kept
<1> QED
  BY <1>9, <1>10 DEF EnhancedInv

LEMMA EnhancedEnsure ==
    ASSUME PublishedInv, EnhancedInv, NEW d \in worker.todo, worker.at = "addr", EnsureAddress(d[1], d[2])
    PROVE  EnhancedInv'
<1>1. d = <<d[1], d[2]>>
  BY DEF EnhancedInv, AddrsInv, TodoOK, AddrTargets
<1>2. UNCHANGED <<plan, cache>>
  BY DEF EnsureAddress
<1>3. PICK ip \in {i \in worker.ips : plan[i].dev = d[1] /\ plan[i].subnet = d[2]} :
         IF d[1] \notin links THEN Requeue /\ UNCHANGED addrs
         ELSE IF ManualOn(d[1], d[2]) \/ \E a \in EnhancedOn(d[1], d[2]) : StillValid(a, ip)
              THEN /\ worker' = [worker EXCEPT !.todo = @ \ {<<d[1], d[2]>>}]
                   /\ UNCHANGED <<queued, addrs>>
              ELSE /\ addrs' = AddrAdd(addrs, d[1], d[2], ip)
                   /\ worker' = [worker EXCEPT !.at = "swap", !.todo = @ \ {<<d[1], d[2]>>},
                                   !.addr = [ip |-> ip, old |-> EnhancedOn(d[1], d[2])]]
                   /\ UNCHANGED queued
  BY Zenon DEF EnsureAddress
<1>4. ip \in worker.ips /\ d = PlaceOf(plan, ip)
  BY <1>1, <1>3 DEF PlaceOf
<1>5. CASE d[1] \notin links
  BY <1>2, <1>3, <1>5, EnhancedRequeue DEF Requeue, EnhancedInv, Outside
<1>6. CASE d[1] \in links /\ (ManualOn(d[1], d[2]) \/ \E a \in EnhancedOn(d[1], d[2]) : StillValid(a, ip))
  BY <1>1, <1>2, <1>3, <1>4, <1>6, EnhancedEnsured
<1>7. CASE d[1] \in links /\ ~(ManualOn(d[1], d[2]) \/ \E a \in EnhancedOn(d[1], d[2]) : StillValid(a, ip))
  BY <1>1, <1>2, <1>3, <1>4, <1>7, EnhancedAdded, Zenon
<1> QED
  BY <1>5, <1>6, <1>7, Zenon

\* The address out of date goes; the kernel makes the new one the first of its subnet, with routes.
LEMMA SwapResult ==
    ASSUME SwapAddress, EnhancedInv
    PROVE  LET ip == worker.addr.ip
               old == worker.addr.old
               new == NewAddr(plan, ip, old = {}, old # {})
           IN  addrs' = (addrs \ (old \cup {new})) \cup {NewAddr(plan, ip, TRUE, FALSE)}
<1> DEFINE ip == worker.addr.ip
           old == worker.addr.old
           new == NewAddr(plan, ip, old = {}, old # {})
           first == NewAddr(plan, ip, TRUE, FALSE)
           Promoted(a) == a.secondary /\ \E o \in old : o.dev = a.dev /\ o.subnet = a.subnet
           Swapped(a) == IF Promoted(a) THEN [a EXCEPT !.secondary = FALSE, !.local = TRUE] ELSE a
<1>1. addrs' = {Swapped(a) : a \in addrs \ old}
  BY Zenon DEF SwapAddress
<1>2. /\ \A a \in addrs : AddrOK(plan, a)
      /\ new \in addrs /\ Tidy(plan, addrs \ {new})
      /\ old = {b \in addrs \ {new} : PlaceOf(plan, b.ip) = PlaceOf(plan, ip)}
  BY Zenon DEF SwapAddress, EnhancedInv, AddrsInv, AddrsOK, Swapping
<1>3. ASSUME NEW a \in addrs \ old, a # new PROVE Swapped(a) = a
  BY <1>2, <1>3, Zenon DEF Tidy, Enhanced
<1>4. Swapped(new) = first
  <2>1. CASE old = {}
    BY <2>1, Zenon DEF NewAddr
  <2>2. CASE old # {}
    <3>1. PICK o \in old : TRUE
      BY <2>2
    <3>2. o.dev = plan[o.ip].dev /\ o.subnet = plan[o.ip].subnet /\ PlaceOf(plan, o.ip) = PlaceOf(plan, ip)
      BY <1>2, <3>1, Zenon DEF AddrOK
    <3>3. Promoted(new)
      BY <2>2, <3>1, <3>2, Zenon DEF NewAddr, PlaceOf
    <3> QED
      BY <2>2, <3>3, Zenon DEF NewAddr
  <2> QED
    BY <2>1, <2>2, Zenon
<1>5. new \notin old
  BY <1>2, Zenon
<1> HIDE DEF Swapped, new, first, old
<1>6. {Swapped(a) : a \in addrs \ old} = (addrs \ (old \cup {new})) \cup {first}
  BY <1>2, <1>3, <1>4, <1>5, SMTT(30)
<1> QED
  BY <1>1, <1>6, Zenon DEF new, first, old

LEMMA EnhancedSwap == PublishedInv /\ EnhancedInv /\ SwapAddress => EnhancedInv'
<1> SUFFICES ASSUME PublishedInv, EnhancedInv, SwapAddress PROVE EnhancedInv'
  OBVIOUS
<1> DEFINE ip == worker.addr.ip
           old == worker.addr.old
           new == NewAddr(plan, ip, old = {}, old # {})
           first == NewAddr(plan, ip, TRUE, FALSE)
<1>1. UNCHANGED <<plan, cache, queued>> /\ worker.at = "swap"
  BY Zenon DEF SwapAddress
<1>2. worker'.at = "strip" /\ worker'.ips = worker.ips /\ worker'.todo = worker.todo /\ worker'.addr = worker.addr
  BY Zenon DEF SwapAddress, PublishedInv, TypeInv, WorkerOK
<1>3. /\ \A a \in addrs : AddrOK(plan, a)
      /\ new \in addrs /\ Tidy(plan, addrs \ {new})
      /\ old = {b \in addrs \ {new} : PlaceOf(plan, b.ip) = PlaceOf(plan, ip)}
      /\ ip \in worker.ips
  BY <1>1, Zenon DEF EnhancedInv, AddrsInv, AddrsOK, Swapping
<1>4. addrs' = (addrs \ (old \cup {new})) \cup {first}
  BY SwapResult, Zenon
<1>5. AddrOK(plan, first) /\ first.ip = ip /\ new.ip = ip
  <2>1. AddrOK(plan, new)
    BY <1>3, Zenon
  <2> QED
    BY <2>1, Zenon DEF AddrOK, NewAddr
<1>6. \A b \in addrs' \ {first} : b \in addrs \ {new} /\ PlaceOf(plan, b.ip) # PlaceOf(plan, ip)
  BY <1>3, <1>4, Zenon
<1>7. Stripping(plan, ip, addrs')
  <2>1. Tidy(plan, addrs' \ {first})
    BY <1>3, <1>6, Zenon DEF Tidy
  <2> QED
    BY <1>4, <1>6, <2>1, Zenon DEF Stripping
<1>8. AddrsInv'
  <2>1. AddrsOK(plan, worker, addrs)'
    BY <1>1, <1>2, <1>3, <1>4, <1>5, <1>7, Zenon DEF AddrsOK, Outside
  <2>2. TodoOK'
    BY <1>1, <1>2, ZenonT(30) DEF EnhancedInv, AddrsInv, TodoOK, AddrTargets
  <2> QED
    BY <2>1, <2>2 DEF AddrsInv
<1>9. ASSUME ~queued' PROVE Kept'
  <2>1. KeptIn(plan, worker, addrs, Listed, AddrTargets(Listed))
    BY <1>1, <1>9, Zenon DEF EnhancedInv, Kept
  <2>2. AddrTargets(Listed)' = AddrTargets(Listed) /\ Listed' = Listed
    BY <1>1, Zenon DEF AddrTargets, Listed
  <2>3. \A a \in addrs' : PlaceOf(plan, a.ip) \in AddrTargets(Listed)
    BY <1>3, <1>4, <1>5, <2>1, ZenonT(30) DEF KeptIn
  <2>4. ASSUME NEW t \in AddrTargets(Listed) \ Manual, t \notin worker'.todo
        PROVE  \E a \in addrs' : PlaceOf(plan, a.ip) = t /\ a.ip \in Listed
    <3>1. PICK a \in addrs : PlaceOf(plan, a.ip) = t /\ a.ip \in Listed /\ a \notin old
      BY <1>1, <1>2, <2>1, <2>4 DEF KeptIn
    <3> QED
      BY <1>4, <1>5, <3>1, Zenon
  <2>5. KeptIn(plan, worker', addrs', Listed, AddrTargets(Listed))
    BY <1>2, <2>3, <2>4 DEF KeptIn
  <2> QED
    BY <1>1, <2>2, <2>5 DEF Kept
<1> QED
  BY <1>8, <1>9 DEF EnhancedInv

\* The local routes of the new address go, and no other address is that of the pod.
LEMMA EnhancedStrip == PublishedInv /\ EnhancedInv /\ StripAddress => EnhancedInv'
<1> SUFFICES ASSUME PublishedInv, EnhancedInv, StripAddress PROVE EnhancedInv'
  OBVIOUS
<1> DEFINE ip == worker.addr.ip
           first == NewAddr(plan, ip, TRUE, FALSE)
           Strip(a) == [a EXCEPT !.local = FALSE]
           bare == Strip(first)
<1>1. UNCHANGED <<plan, cache, queued>> /\ worker.at = "strip"
  BY DEF StripAddress
<1>2. worker'.at = "addr" /\ worker'.ips = worker.ips /\ worker'.todo = worker.todo
  BY DEF StripAddress, PublishedInv, TypeInv, WorkerOK
<1>3. /\ \A a \in addrs : AddrOK(plan, a)
      /\ first \in addrs /\ Tidy(plan, addrs \ {first})
      /\ \A b \in addrs \ {first} : PlaceOf(plan, b.ip) # PlaceOf(plan, ip)
  BY <1>1, Zenon DEF EnhancedInv, AddrsInv, AddrsOK, Stripping
<1>4. first.ip = ip /\ bare.ip = ip /\ Enhanced(bare)
  BY DEF NewAddr, Enhanced
<1>5. \A a \in addrs : a.ip = ip <=> a = first
  BY <1>3, <1>4, Zenon
<1>6. addrs' = (addrs \ {first}) \cup {bare}
  <2>1. addrs' = {IF a.ip = ip THEN Strip(a) ELSE a : a \in addrs}
    BY DEF StripAddress, StripRoutes
  <2> HIDE DEF Strip, first
  <2>2. addrs' = {IF a = first THEN Strip(first) ELSE a : a \in addrs}
    BY <1>5, <2>1
  <2> QED
    BY <1>3, <2>2
<1>7. AddrOK(plan, bare)
  <2>1. AddrOK(plan, first)
    BY <1>3, Zenon
  <2> QED
    BY <2>1 DEF AddrOK, NewAddr
<1>8. Tidy(plan, addrs')
  <2> HIDE DEF first, bare
  <2>1. \A a \in addrs' : Enhanced(a)
    BY <1>3, <1>4, <1>6, Zenon DEF Tidy
  <2>2. \A a \in addrs' : a = bare \/ (a \in addrs \ {first} /\ PlaceOf(plan, a.ip) # PlaceOf(plan, bare.ip))
    BY <1>3, <1>4, <1>6, Zenon
  <2>3. \A a, b \in addrs' : PlaceOf(plan, a.ip) = PlaceOf(plan, b.ip) => a = b
    BY <1>3, <2>2, Zenon DEF Tidy
  <2> QED
    BY <2>1, <2>3 DEF Tidy
<1>9. AddrsInv'
  <2>1. AddrsOK(plan, worker, addrs)'
    BY <1>1, <1>2, <1>3, <1>6, <1>7, <1>8, Zenon DEF AddrsOK, Outside
  <2>2. TodoOK'
    BY <1>1, <1>2, Zenon DEF EnhancedInv, AddrsInv, TodoOK, AddrTargets
  <2> QED
    BY <2>1, <2>2 DEF AddrsInv
<1>10. ASSUME ~queued' PROVE Kept'
  <2>1. KeptIn(plan, worker, addrs, Listed, AddrTargets(Listed))
    BY <1>1, <1>10, Zenon DEF EnhancedInv, Kept
  <2>2. AddrTargets(Listed)' = AddrTargets(Listed) /\ Listed' = Listed
    BY <1>1, Zenon DEF AddrTargets, Listed
  <2>3. \A a \in addrs' : PlaceOf(plan, a.ip) \in AddrTargets(Listed)
    BY <1>3, <1>4, <1>6, <2>1, Zenon DEF KeptIn
  <2>4. ASSUME NEW t \in AddrTargets(Listed) \ Manual, t \notin worker'.todo
        PROVE  \E a \in addrs' : PlaceOf(plan, a.ip) = t /\ a.ip \in Listed
    <3>1. PICK a \in addrs : PlaceOf(plan, a.ip) = t /\ a.ip \in Listed
      BY <1>1, <1>2, <2>1, <2>4, Zenon DEF KeptIn
    <3> QED
      BY <1>4, <1>6, <3>1, Zenon
  <2>5. KeptIn(plan, worker', addrs', Listed, AddrTargets(Listed))
    BY <1>2, <2>3, <2>4, Zenon DEF KeptIn
  <2> QED
    BY <1>1, <2>2, <2>5, Zenon DEF Kept
<1> QED
  BY <1>9, <1>10 DEF EnhancedInv

\* Every step keeps it, as long as the three requests for an address are not torn apart.
LEMMA EnhancedNext ==
    ASSUME NoTornAddress, PublishedInv, EnhancedInv, [Next]_vars
    PROVE  EnhancedInv'
<1>0. WorkerOK /\ worker.at \in Steps
  BY Zenon DEF PublishedInv, TypeInv, WorkerOK
<1>1. CASE UNCHANGED published
  BY <1>1, EnhancedStutter, Zenon
<1>2. CASE Deliver \/ StartReconcile \/ FinishReconcile
  BY <1>2, EnhancedDeliver, EnhancedStart, EnhancedFinish, Zenon
<1>3. ASSUME NEW d \in worker.todo, worker.at = "neigh", SyncNeighs(d[1], d[2]) PROVE EnhancedInv'
  BY <1>3, EnhancedNeighs, Zenon
<1>4. CASE ClearAddresses \/ SwapAddress \/ StripAddress
  BY <1>4, EnhancedClear, EnhancedSwap, EnhancedStrip, Zenon
<1>5. ASSUME NEW d \in worker.todo, worker.at = "addr", EnsureAddress(d[1], d[2]) PROVE EnhancedInv'
  BY <1>5, EnhancedEnsure, Zenon
<1>6. ASSUME NEW d \in Devs, LinkFlap(d) PROVE EnhancedInv'
  BY <1>6, AddrsStutter, Zenon DEF LinkFlap, EnhancedInv
<1>7. CASE Fail \/ Restart
  <2>1. worker.at \in Outside
    BY <1>0, <1>7, Zenon DEF Fail, Restart, NoTornAddress, Steps, Outside
  <2> QED
    BY <1>7, <2>1, EnhancedRequeue, Zenon DEF Fail, Restart, Requeue, node, EnhancedInv
<1>8. CASE StartFails
  BY <1>8, AddrsStutter, Zenon DEF StartFails, EnhancedInv
<1>9. CASE UNCHANGED vars
  BY <1>1, <1>9, Zenon DEF vars, node, published
<1> QED
  BY <1>1, <1>2, <1>3, <1>4, <1>5, <1>6, <1>7, <1>8, <1>9, StepCases, Zenon

\* For any interfaces, subnets, pods and faults: once the reconciler has nothing to do, a vlan
\* interface has exactly one address of a local pod for every subnet with pods, without local routes,
\* and none for other subnets (SyncAddresses), provided that it is never stopped between adding an
\* address and deleting its routes.
THEOREM EnhancedCorrect ==
    ASSUME NoTornAddress
    PROVE  Spec => []EnhancedAddresses
<1>1. Init => PublishedInv /\ EnhancedInv
  BY PublishedInit, EnhancedInit
<1>2. PublishedInv /\ EnhancedInv /\ [Next]_vars => (PublishedInv /\ EnhancedInv)'
  BY PublishedNext, EnhancedNext
<1>3. PublishedInv /\ EnhancedInv => EnhancedAddresses
  <2> SUFFICES ASSUME PublishedInv, EnhancedInv, Settled, NEW d \in Devs, NEW n \in SubnetNames
               PROVE  LET here == {a \in addrs : a.dev = d /\ a.subnet = n}
                      IN  IF <<d, n>> \in AddrTargets(LocalIPs) \ Manual
                          THEN \E a \in here : here = {a} /\ Enhanced(a) /\ Here(api[a.ip])
                          ELSE here = {}
    BY Zenon DEF EnhancedAddresses
  <2> DEFINE here == {a \in addrs : a.dev = d /\ a.subnet = n}
  <2>1. worker.at = "idle" /\ LocalIPs = Listed /\ cache = api
    BY Zenon DEF Settled, LocalIPs, Listed
  <2>2. KeptIn(plan, worker, addrs, Listed, AddrTargets(Listed)) /\ Tidy(plan, addrs)
    BY <2>1, Zenon DEF EnhancedInv, Kept, Settled, AddrsInv, AddrsOK, Outside
  <2>3. \A a \in addrs : AddrOK(plan, a) /\ PlaceOf(plan, a.ip) \notin Manual
    BY Zenon DEF EnhancedInv, AddrsInv, AddrsOK, AddrOK
  <2>4. PICK t : t = <<d, n>>
    BY Zenon
  <2>5. t = <<t[1], t[2]>> /\ t[1] = d /\ t[2] = n
    BY <2>4, Zenon
  <2>6. here = {a \in addrs : PlaceOf(plan, a.ip) = t}
    BY <2>3, <2>5, AddrAt, SMTT(30)
  <2>7. CASE t \in AddrTargets(Listed) \ Manual
    <3>1. PICK a \in addrs : PlaceOf(plan, a.ip) = t /\ a.ip \in Listed
      BY <2>1, <2>2, <2>7, Zenon DEF KeptIn
    <3>2. here = {a}
      BY <2>2, <2>6, <3>1, Zenon DEF Tidy
    <3>3. Enhanced(a) /\ Here(api[a.ip])
      BY <2>1, <2>2, <3>1, Zenon DEF Tidy, Listed
    <3> QED
      BY <2>1, <2>4, <2>7, <3>2, <3>3, Zenon
  <2>8. CASE t \notin AddrTargets(Listed) \ Manual
    <3>1. here = {}
      BY <2>2, <2>3, <2>6, <2>8, Zenon DEF KeptIn
    <3> QED
      BY <2>1, <2>4, <2>8, <3>1, Zenon
  <2> QED
    BY <2>7, <2>8, Zenon
<1> QED
  BY <1>1, <1>2, <1>3, PTL DEF Spec

(***************************************************************************)
(* Sandboxes: one of them changes.                                         *)
(***************************************************************************)
LEMMA SandboxInit == Init => SandboxInv
<1> SUFFICES ASSUME Init PROVE SandboxInv
  OBVIOUS
<1>1. SandboxOK(NoSandbox) /\ ~Live(NoSandbox) /\ ~Wired(NoSandbox)
  BY Zenon DEF NoSandbox, SandboxOK, SandboxFields, Live, Wired
<1> QED
  BY <1>1, Zenon DEF Init, SandboxInv, SandboxType, Numbers, OneSandbox, VethsLive, WiredUp

\* Sandbox s goes on, is the same for its pod, and is no nearer to running.
GoesOn(s, r) ==
    /\ sandbox' = [sandbox EXCEPT ![s] = r]
    /\ UNCHANGED <<pods, created>>
    /\ SandboxOK(r)
    /\ Live(r) => Live(sandbox[s]) /\ r.pod = sandbox[s].pod /\ r.num = sandbox[s].num

LEMMA GoesOnKeeps ==
    ASSUME SandboxInv, NEW s \in Sandboxes, NEW r, GoesOn(s, r)
    PROVE  /\ \A t \in Sandboxes : sandbox'[t] = IF t = s THEN r ELSE sandbox[t]
           /\ veth' \in [Pods -> Sandboxes \cup {None}] /\ DOMAIN direct' = IPs => SandboxType'
           /\ Numbers' /\ OneSandbox'
<1>1. \A t \in Sandboxes : sandbox'[t] = IF t = s THEN r ELSE sandbox[t]
  BY Zenon DEF GoesOn, SandboxInv, SandboxType
<1>2. DOMAIN sandbox' = Sandboxes /\ \A t \in Sandboxes : SandboxOK(sandbox'[t])
  BY <1>1, Zenon DEF GoesOn, SandboxInv, SandboxType
<1>3. Numbers'
  BY Zenon DEF GoesOn, SandboxInv, Numbers
<1>4. OneSandbox'
  BY <1>1, SMTT(30) DEF GoesOn, SandboxInv, OneSandbox
<1> QED
  BY <1>1, <1>2, <1>3, <1>4, Zenon DEF GoesOn, SandboxInv, SandboxType

\* The veth pairs and the routes stay.
LEMMA KeepsVeth ==
    ASSUME SandboxInv, NEW s \in Sandboxes, NEW r, GoesOn(s, r), UNCHANGED <<veth, direct>>,
           Live(sandbox[s]) => Live(r),
           Wired(r) => Wired(sandbox[s]) /\ r.ips = sandbox[s].ips
    PROVE  SandboxInv'
<1>1. \A t \in Sandboxes : sandbox'[t] = IF t = s THEN r ELSE sandbox[t]
  BY GoesOnKeeps, Zenon
<1>2. SandboxType' /\ Numbers' /\ OneSandbox'
  BY GoesOnKeeps, Zenon DEF SandboxInv, SandboxType
<1>3. VethsLive'
  BY <1>1, Zenon DEF GoesOn, SandboxInv, SandboxType, VethsLive
<1>4. WiredUp'
  <2>1. Wired(r) => Live(r)
    BY Zenon DEF Wired, Live
  <2> QED
    BY <1>1, <2>1, SMTT(30) DEF GoesOn, SandboxInv, WiredUp
<1> QED
  BY <1>2, <1>3, <1>4, Zenon DEF SandboxInv

\* The veth pair of s goes, if it has one, and not that of another sandbox of the pod.
LEMMA DropsVeth ==
    ASSUME SandboxInv, NEW s \in Sandboxes, NEW r, GoesOn(s, r), VethGone(s), sandbox[s].pod \in Pods, ~Wired(r)
    PROVE  SandboxInv'
<1>1. \A t \in Sandboxes : sandbox'[t] = IF t = s THEN r ELSE sandbox[t]
  BY GoesOnKeeps, Zenon
<1>2. /\ veth' \in [Pods -> Sandboxes \cup {None}] /\ DOMAIN direct' = IPs
      /\ \A p \in Pods : veth'[p] = IF veth[p] = s /\ p = sandbox[s].pod THEN None ELSE veth[p]
  BY Zenon DEF VethGone, SandboxInv, SandboxType
<1>3. SandboxType' /\ Numbers' /\ OneSandbox'
  BY <1>2, GoesOnKeeps, Zenon
<1>4. VethsLive'
  BY <1>1, <1>2, SMTT(30) DEF SandboxInv, SandboxType, VethsLive
<1>5. ASSUME NEW t \in Sandboxes, Wired(sandbox'[t])
      PROVE  veth'[sandbox'[t].pod] = t /\ \A i \in sandbox'[t].ips : direct'[i] = sandbox'[t].pod
  <2>1. t # s /\ sandbox'[t] = sandbox[t]
    BY <1>1, <1>5, Zenon
  <2>2. sandbox[t].pod \in Pods /\ sandbox[t].ips \subseteq IPs
    BY <1>5, <2>1, Zenon DEF SandboxInv, SandboxType, SandboxOK, Wired, Live
  <2>3. veth[sandbox[t].pod] = t /\ \A i \in sandbox[t].ips : direct[i] = sandbox[t].pod
    BY <1>5, <2>1, Zenon DEF SandboxInv, WiredUp
  <2>4. veth'[sandbox[t].pod] = t
    BY <1>2, <2>1, <2>2, <2>3, Zenon
  <2>5. ASSUME NEW i \in sandbox[t].ips PROVE direct'[i] = sandbox[t].pod
    BY <2>1, <2>2, <2>3, <2>5, SMTT(30) DEF VethGone
  <2> QED
    BY <2>1, <2>4, <2>5, Zenon
<1> QED
  BY <1>3, <1>4, <1>5, Zenon DEF SandboxInv, WiredUp

(***************************************************************************)
(* Sandboxes: the handlers.                                                *)
(***************************************************************************)
\* The handler ends: the sandbox is forgotten, or is as it was for the kubelet unless the kubelet
\* waits for the answer.
LEMMA Answered ==
    ASSUME SandboxInv, NEW s \in Sandboxes, sandbox[s].at # "over", NEW ok \in BOOLEAN,
           sandbox' = Answer(s, ok), UNCHANGED <<pods, created>>
    PROVE  \E r : /\ GoesOn(s, r)
                  /\ Live(sandbox[s]) => Live(r)
                  /\ Wired(r) => ok /\ sandbox[s].run = "starting" /\ r.ips = sandbox[s].ips
<1> DEFINE a == [sandbox[s] EXCEPT !.at = "over", !.left = {}, !.last = None, !.updates = 0,
                       !.ips = IF ok THEN sandbox[s].ips ELSE {},
                       !.run = IF sandbox[s].run # "starting" THEN sandbox[s].run
                               ELSE IF ok THEN "running" ELSE "stopping"]
           r == Over(a)
<1>1. SandboxOK(sandbox[s]) /\ sandbox[s].run # "running" /\ sandbox[s].pod \in Pods
  BY Zenon DEF SandboxInv, SandboxType, SandboxOK
<1>2. /\ DOMAIN a = SandboxFields /\ a.at = "over" /\ a.ips \subseteq IPs
      /\ a.pod = sandbox[s].pod /\ a.num = sandbox[s].num /\ a.netns = sandbox[s].netns
      /\ a.run = IF sandbox[s].run # "starting" THEN sandbox[s].run ELSE IF ok THEN "running" ELSE "stopping"
      /\ ok => a.ips = sandbox[s].ips
  BY <1>1, Zenon DEF SandboxOK, SandboxFields
<1>3. sandbox' = [sandbox EXCEPT ![s] = r]
  BY DEF Answer, SandboxInv, SandboxType
<1> HIDE DEF a
<1>4. CASE a.run = "gone"
  <2>1. r = NoSandbox
    BY <1>2, <1>4, Zenon DEF Over
  <2>2. SandboxOK(NoSandbox) /\ ~Live(NoSandbox) /\ ~Wired(NoSandbox)
    BY Zenon DEF NoSandbox, SandboxOK, SandboxFields, Live, Wired
  <2>3. ~Live(sandbox[s])
    BY <1>2, <1>4, Zenon DEF Live
  <2> QED
    BY <1>3, <2>1, <2>2, <2>3, Zenon DEF GoesOn
<1>5. CASE a.run # "gone"
  <2>1. r = a
    BY <1>5 DEF Over
  <2>2. Live(sandbox[s]) /\ Live(a)
    BY <1>2, <1>5 DEF Live
  <2>3. SandboxOK(a)
    BY <1>1, <1>2, <2>2 DEF SandboxOK
  <2>4. Wired(a) => ok /\ sandbox[s].run = "starting"
    BY <1>1, <1>2 DEF Wired
  <2> QED
    BY <1>2, <1>3, <2>1, <2>2, <2>3, <2>4, Zenon DEF GoesOn
<1> QED
  BY <1>4, <1>5, Zenon

\* An ADD that fails, with and without the deletion of the interface.
LEMMA AnsweredKeeps ==
    ASSUME SandboxInv, NEW s \in Sandboxes, sandbox[s].at # "over", sandbox' = Answer(s, FALSE),
           UNCHANGED <<pods, created>>, VethGone(s) \/ UNCHANGED <<veth, direct>>
    PROVE  SandboxInv'
<1>1. PICK r : /\ GoesOn(s, r) /\ (Live(sandbox[s]) => Live(r)) /\ ~Wired(r)
  BY Answered, Zenon
<1>2. sandbox[s].pod \in Pods
  BY Zenon DEF SandboxInv, SandboxType, SandboxOK
<1> QED
  BY <1>1, <1>2, KeepsVeth, DropsVeth

\* The handler goes on to another place.
LEMMA MovesOn ==
    ASSUME SandboxInv, NEW s \in Sandboxes, NEW at \in {"wait", "veth", "ready", "container", "status"},
           NEW r, sandbox' = [sandbox EXCEPT ![s] = r], UNCHANGED <<pods, created>>,
           DOMAIN r = SandboxFields, r.at = at, r.run = sandbox[s].run, r.pod = sandbox[s].pod,
           r.num = sandbox[s].num, r.netns = sandbox[s].netns, r.ips \subseteq IPs, sandbox[s].at # "over"
    PROVE  GoesOn(s, r) /\ (Live(sandbox[s]) => Live(r))
  BY Zenon DEF GoesOn, SandboxOK, Live, SandboxInv, SandboxType

LEMMA ListKeeps == ASSUME SandboxInv, NEW s \in Sandboxes, ListIPInstances(s) PROVE SandboxInv'
<1>1. sandbox[s].at = "wait" /\ UNCHANGED <<pods, created, veth, direct>> /\ SandboxOK(sandbox[s])
  BY Zenon DEF ListIPInstances, SandboxInv, SandboxType
<1>2. CASE sandbox' = Answer(s, FALSE)
  BY <1>1, <1>2, AnsweredKeeps, Zenon
<1>3. CASE sandbox' # Answer(s, FALSE)
  <2>1. PICK own, last, n : /\ own \in SUBSET IPs
                            /\ sandbox' = [sandbox EXCEPT ![s] = [@ EXCEPT !.at = "veth", !.ips = own,
                                                               !.left = own, !.last = last, !.updates = n]]
    <3>1. PICK i : sandbox' = [sandbox EXCEPT ![s] = [@ EXCEPT !.at = "veth",
                     !.ips = {j \in Listed : cache[j].pod = sandbox[s].pod},
                     !.left = {j \in Listed : cache[j].pod = sandbox[s].pod},
                     !.last = [ip |-> i, inst |-> cache[i]],
                     !.updates = Cardinality({j \in Listed : cache[j].pod = sandbox[s].pod})]]
      BY <1>3, Zenon DEF ListIPInstances
    <3>2. {j \in Listed : cache[j].pod = sandbox[s].pod} \in SUBSET IPs
      BY Zenon DEF Listed
    <3> QED
      BY <3>1, <3>2, Zenon
  <2> DEFINE r == [sandbox[s] EXCEPT !.at = "veth", !.ips = own, !.left = own, !.last = last, !.updates = n]
  <2>2. sandbox' = [sandbox EXCEPT ![s] = r]
    BY <2>1, Zenon DEF SandboxInv, SandboxType
  <2>3. /\ DOMAIN r = SandboxFields /\ r.at = "veth" /\ r.run = sandbox[s].run /\ r.pod = sandbox[s].pod
        /\ r.num = sandbox[s].num /\ r.netns = sandbox[s].netns /\ r.ips \subseteq IPs
    BY <1>1, <2>1, Zenon DEF SandboxOK, SandboxFields
  <2> HIDE DEF r
  <2>4. GoesOn(s, r) /\ (Live(sandbox[s]) => Live(r))
    BY <1>1, <2>2, <2>3, MovesOn, Zenon
  <2>5. ~Wired(r)
    BY <1>1, <2>3, Zenon DEF Wired, SandboxOK
  <2> QED
    BY <1>1, <2>4, <2>5, KeepsVeth, Zenon
<1> QED
  BY <1>2, <1>3, Zenon

\* ADD makes the veth pair and its routes.  It takes no route from another sandbox that runs.
LEMMA HostNicKeeps ==
    ASSUME SandboxInv, OnePod \/ ListsOwn, NEW s \in Sandboxes, ConfigureHostNic(s) PROVE SandboxInv'
<1>1. sandbox[s].at = "veth" /\ UNCHANGED <<pods, created>> /\ SandboxOK(sandbox[s]) /\ sandbox[s].pod \in Pods
  BY Zenon DEF ConfigureHostNic, SandboxInv, SandboxType, SandboxOK
<1> DEFINE p == sandbox[s].pod
<1>2. CASE ~(sandbox[s].netns /\ veth[p] = None)
  BY <1>1, <1>2, AnsweredKeeps, Zenon DEF ConfigureHostNic
<1>3. CASE sandbox[s].netns /\ veth[p] = None
  <2> DEFINE r == [sandbox[s] EXCEPT !.at = "ready"]
  <2>1. /\ veth' = [veth EXCEPT ![p] = s] /\ direct' = VethRoutes(sandbox[s].ips, p)
        /\ sandbox' = [sandbox EXCEPT ![s] = r]
    BY <1>3, Zenon DEF ConfigureHostNic, SandboxInv, SandboxType
  <2>2. /\ DOMAIN r = SandboxFields /\ r.at = "ready" /\ r.run = sandbox[s].run /\ r.pod = p
        /\ r.num = sandbox[s].num /\ r.netns = sandbox[s].netns /\ r.ips = sandbox[s].ips /\ r.ips \subseteq IPs
    BY <1>1 DEF SandboxOK, SandboxFields
  <2> HIDE DEF r
  <2>3. GoesOn(s, r) /\ Live(r) /\ Live(sandbox[s])
    BY <1>1, <1>3, <2>1, <2>2, MovesOn, Zenon DEF SandboxOK
  <2>4. \A t \in Sandboxes : sandbox'[t] = IF t = s THEN r ELSE sandbox[t]
    BY <2>3, GoesOnKeeps, Zenon
  <2>5. veth' \in [Pods -> Sandboxes \cup {None}] /\ DOMAIN direct' = IPs
    BY <1>1, <2>1, Zenon DEF SandboxInv, SandboxType, VethRoutes
  <2>6. SandboxType' /\ Numbers' /\ OneSandbox'
    BY <2>3, <2>5, GoesOnKeeps, Zenon
  <2>7. VethsLive'
    BY <1>1, <2>1, <2>2, <2>3, <2>4, Zenon DEF SandboxInv, SandboxType, VethsLive
  <2>8. ASSUME NEW t \in Sandboxes, Wired(sandbox'[t])
        PROVE  veth'[sandbox'[t].pod] = t /\ \A i \in sandbox'[t].ips : direct'[i] = sandbox'[t].pod
    <3>1. CASE t = s
      BY <1>1, <2>1, <2>2, <2>4, <3>1, Zenon DEF SandboxInv, SandboxType, VethRoutes
    <3>2. CASE t # s
      <4>1. sandbox'[t] = sandbox[t] /\ Wired(sandbox[t])
        BY <2>4, <2>8, <3>2, Zenon
      <4>2. sandbox[t].pod \in Pods /\ sandbox[t].ips \subseteq IPs /\ Live(sandbox[t])
        BY <4>1, Zenon DEF SandboxInv, SandboxType, SandboxOK, Wired, Live
      <4>3. veth[sandbox[t].pod] = t /\ \A i \in sandbox[t].ips : direct[i] = sandbox[t].pod
        BY <4>1, Zenon DEF SandboxInv, WiredUp
      <4>4. sandbox[t].pod # p
        BY <1>3, <4>3, NodePodsAssumption, Zenon
      <4>5. veth'[sandbox[t].pod] = t
        BY <1>1, <2>1, <4>2, <4>3, <4>4, Zenon DEF SandboxInv, SandboxType
      <4>6. ASSUME NEW i \in sandbox[t].ips, i \in sandbox[s].ips PROVE FALSE
        <5>1. ListsOwn
          BY <1>1, <4>2, <4>4, Zenon DEF OnePod
        <5>2. sandbox[t].num = sandbox[s].num
          BY <2>3, <4>2, <4>6, <5>1, Zenon DEF ListsOwn
        <5>3. /\ pods[p] # None /\ pods[p].num = sandbox[s].num
              /\ pods[sandbox[t].pod] # None /\ pods[sandbox[t].pod].num = sandbox[t].num
          BY <2>3, <4>2, Zenon DEF SandboxInv, OneSandbox
        <5> QED
          BY <1>1, <4>2, <4>4, <5>2, <5>3, Zenon DEF SandboxInv, Numbers
      <4>7. \A i \in sandbox[t].ips : direct'[i] = sandbox[t].pod
        BY <2>1, <4>2, <4>3, <4>6, Zenon DEF VethRoutes
      <4> QED
        BY <4>1, <4>5, <4>7, Zenon
    <3> QED
      BY <3>1, <3>2, Zenon
  <2> QED
    BY <2>6, <2>7, <2>8, Zenon DEF SandboxInv, WiredUp
<1> QED
  BY <1>2, <1>3, Zenon

LEMMA ReadyKeeps ==
    ASSUME SandboxInv, NEW s \in Sandboxes, NEW i \in sandbox[s].left, CheckReady(s, i) PROVE SandboxInv'
<1>1. sandbox[s].at = "ready" /\ UNCHANGED <<pods, created, veth, direct>> /\ SandboxOK(sandbox[s])
  BY DEF CheckReady, SandboxInv, SandboxType
<1>2. PICK at \in {"container", "ready"} :
        sandbox' = [sandbox EXCEPT ![s].left = @ \ {i}, ![s].at = at]
  BY Zenon DEF CheckReady
<1> DEFINE r == [sandbox[s] EXCEPT !.left = @ \ {i}, !.at = at]
<1>3. sandbox' = [sandbox EXCEPT ![s] = r]
  BY <1>2, Zenon DEF SandboxInv, SandboxType
<1>4. /\ DOMAIN r = SandboxFields /\ r.at = at /\ r.run = sandbox[s].run /\ r.pod = sandbox[s].pod
      /\ r.num = sandbox[s].num /\ r.netns = sandbox[s].netns /\ r.ips = sandbox[s].ips /\ r.ips \subseteq IPs
  BY <1>1, Zenon DEF SandboxOK, SandboxFields
<1> HIDE DEF r
<1>5. GoesOn(s, r) /\ (Live(sandbox[s]) => Live(r))
  BY <1>1, <1>3, <1>4, MovesOn, Zenon
<1>6. Wired(r) => Wired(sandbox[s])
  BY <1>1, <1>4, Zenon DEF Wired
<1> QED
  BY <1>1, <1>4, <1>5, <1>6, KeepsVeth, Zenon

LEMMA ContainerNicKeeps == ASSUME SandboxInv, NEW s \in Sandboxes, ConfigureContainerNic(s) PROVE SandboxInv'
<1>1. sandbox[s].at = "container" /\ UNCHANGED <<pods, created>> /\ SandboxOK(sandbox[s])
  BY Zenon DEF ConfigureContainerNic, SandboxInv, SandboxType
<1>2. CASE sandbox' = Answer(s, FALSE) /\ deleteContainerNic(s)
  BY <1>1, <1>2, AnsweredKeeps, Zenon DEF deleteContainerNic
<1>3. CASE sandbox' = [sandbox EXCEPT ![s].at = "status"] /\ UNCHANGED <<veth, direct>>
  <2> DEFINE r == [sandbox[s] EXCEPT !.at = "status"]
  <2>1. sandbox' = [sandbox EXCEPT ![s] = r]
    BY <1>3, Zenon DEF SandboxInv, SandboxType
  <2>2. /\ DOMAIN r = SandboxFields /\ r.at = "status" /\ r.run = sandbox[s].run /\ r.pod = sandbox[s].pod
        /\ r.num = sandbox[s].num /\ r.netns = sandbox[s].netns /\ r.ips = sandbox[s].ips /\ r.ips \subseteq IPs
    BY <1>1, Zenon DEF SandboxOK, SandboxFields
  <2> HIDE DEF r
  <2>3. GoesOn(s, r) /\ (Live(sandbox[s]) => Live(r))
    BY <1>1, <2>1, <2>2, MovesOn, Zenon
  <2>4. Wired(r) => Wired(sandbox[s])
    BY <1>1, <2>2, Zenon DEF Wired
  <2> QED
    BY <1>3, <2>2, <2>3, <2>4, KeepsVeth, Zenon
<1> QED
  BY <1>2, <1>3, Zenon DEF ConfigureContainerNic

\* UpdateStatus: an ADD that succeeds has had its veth pair since ConfigureHostNic.
LEMMA StatusKeeps == ASSUME SandboxInv, NEW s \in Sandboxes, UpdateStatus(s) PROVE SandboxInv'
<1>1. sandbox[s].at = "status" /\ UNCHANGED <<pods, created, veth, direct>> /\ SandboxOK(sandbox[s])
  BY Zenon DEF UpdateStatus, SandboxInv, SandboxType
<1>2. CASE sandbox' = Answer(s, FALSE)
  BY <1>1, <1>2, AnsweredKeeps, Zenon
<1>3. CASE sandbox' = Answer(s, TRUE)
  <2>1. PICK r : /\ GoesOn(s, r) /\ (Live(sandbox[s]) => Live(r))
                 /\ Wired(r) => sandbox[s].run = "starting" /\ r.ips = sandbox[s].ips
    BY <1>1, <1>3, Answered, Zenon
  <2>2. Wired(r) => Wired(sandbox[s])
    BY <1>1, <2>1, Zenon DEF Wired
  <2> QED
    BY <1>1, <2>1, <2>2, KeepsVeth, Zenon
<1>4. CASE sandbox' = [sandbox EXCEPT ![s].updates = @ - 1]
  <2> DEFINE r == [sandbox[s] EXCEPT !.updates = @ - 1]
  <2>1. sandbox' = [sandbox EXCEPT ![s] = r]
    BY <1>4, Zenon DEF SandboxInv, SandboxType
  <2>2. /\ DOMAIN r = SandboxFields /\ r.at = "status" /\ r.run = sandbox[s].run /\ r.pod = sandbox[s].pod
        /\ r.num = sandbox[s].num /\ r.netns = sandbox[s].netns /\ r.ips = sandbox[s].ips /\ r.ips \subseteq IPs
    BY <1>1, Zenon DEF SandboxOK, SandboxFields
  <2> HIDE DEF r
  <2>3. GoesOn(s, r) /\ (Live(sandbox[s]) => Live(r))
    BY <1>1, <2>1, <2>2, MovesOn, Zenon
  <2>4. Wired(r) => Wired(sandbox[s])
    BY <1>1, <2>2, Zenon DEF Wired
  <2> QED
    BY <1>1, <2>2, <2>3, <2>4, KeepsVeth, Zenon
<1> QED
  BY <1>2, <1>3, <1>4, Zenon DEF UpdateStatus

LEMMA HandlerKeeps ==
    ASSUME SandboxInv, OnePod \/ ListsOwn, NEW s \in Sandboxes, Handler(s) PROVE SandboxInv'
<1>1. CASE NotCoupled(s)
  BY <1>1, AnsweredKeeps, Zenon DEF NotCoupled
<1>2. CASE NotReady(s)
  BY <1>2, AnsweredKeeps, Zenon DEF NotReady, deleteContainerNic
<1> QED
  BY <1>1, <1>2, ListKeeps, HostNicKeeps, ReadyKeeps, ContainerNicKeeps, StatusKeeps, Zenon DEF Handler

\* A probe or a request that fails in ADD: the interface is deleted.
LEMMA AbortKeeps ==
    ASSUME SandboxInv, NEW s \in Sandboxes, ProbeFails(s) \/ AddFails(s) PROVE SandboxInv'
<1>1. sandbox[s].at # "over" /\ AbortAdd(s)
  BY Zenon DEF ProbeFails, AddFails
<1> QED
  BY <1>1, AnsweredKeeps, Zenon DEF AbortAdd, deleteContainerNic

(***************************************************************************)
(* Sandboxes: the kubelet and the runtime.                                 *)
(***************************************************************************)
\* The sandbox is stopped or removed, with its namespace or without.
LEMMA Ends ==
    ASSUME SandboxInv, NEW s \in Sandboxes, NEW run \in {"stopping", "removing"}, Live(sandbox[s]),
           sandbox' = [sandbox EXCEPT ![s].run = run], UNCHANGED <<pods, created>>,
           VethGone(s) \/ UNCHANGED <<veth, direct>>
    PROVE  SandboxInv'
<1> DEFINE r == [sandbox[s] EXCEPT !.run = run]
<1>1. sandbox' = [sandbox EXCEPT ![s] = r] /\ SandboxOK(sandbox[s]) /\ sandbox[s].pod \in Pods
  BY Zenon DEF SandboxInv, SandboxType, SandboxOK
<1>2. /\ DOMAIN r = SandboxFields /\ r.at = sandbox[s].at /\ r.run = run /\ r.pod = sandbox[s].pod
      /\ r.num = sandbox[s].num /\ r.netns = sandbox[s].netns /\ r.ips = sandbox[s].ips
  BY <1>1, Zenon DEF SandboxOK, SandboxFields
<1> HIDE DEF r
<1>3. Live(r) /\ ~Wired(r)
  BY <1>2, Zenon DEF Live, Wired
<1>4. SandboxOK(r)
  BY <1>1, <1>2, <1>3, Zenon DEF SandboxOK
<1>5. GoesOn(s, r)
  BY <1>1, <1>2, <1>4, Zenon DEF GoesOn
<1> QED
  BY <1>1, <1>3, <1>5, KeepsVeth, DropsVeth, Zenon

LEMMA RemoveNetnsKeeps == ASSUME SandboxInv, NEW s \in Sandboxes, RemoveNetns(s) PROVE SandboxInv'
<1> DEFINE a == [sandbox[s] EXCEPT !.run = "gone", !.netns = FALSE]
           r == Over(a)
<1>1. /\ sandbox[s].run = "removing" /\ SandboxOK(sandbox[s]) /\ sandbox[s].pod \in Pods
      /\ sandbox' = [sandbox EXCEPT ![s] = r] /\ VethGone(s) /\ UNCHANGED <<pods, created>>
  BY Zenon DEF RemoveNetns, SandboxInv, SandboxType, SandboxOK, Live
<1>2. /\ DOMAIN a = SandboxFields /\ a.at = sandbox[s].at /\ a.run = "gone" /\ a.pod = sandbox[s].pod
      /\ ~a.netns /\ a.ips = sandbox[s].ips
  BY <1>1, Zenon DEF SandboxOK, SandboxFields
<1> HIDE DEF a
<1>3. SandboxOK(NoSandbox) /\ ~Live(NoSandbox) /\ ~Wired(NoSandbox)
  BY Zenon DEF NoSandbox, SandboxOK, SandboxFields, Live, Wired
<1>4. SandboxOK(a) /\ ~Live(a) /\ ~Wired(a)
  BY <1>1, <1>2, Zenon DEF SandboxOK, Live, Wired
<1>5. r = a \/ r = NoSandbox
  BY DEF Over
<1> HIDE DEF r
<1>6. GoesOn(s, r) /\ ~Wired(r)
  BY <1>1, <1>3, <1>4, <1>5, Zenon DEF GoesOn
<1> QED
  BY <1>1, <1>6, DropsVeth, Zenon

\* RunSandbox: the sandbox that is taken was forgotten, and the pod has no other.
LEMMA RunSandboxKeeps ==
    ASSUME SandboxInv, NEW p \in Pods, NEW s \in Sandboxes, RunSandbox(p, s) PROVE SandboxInv'
<1> DEFINE r == [NoSandbox EXCEPT !.pod = p, !.num = pods[p].num, !.run = "starting", !.at = "wait", !.netns = TRUE]
<1>1. /\ pods[p] # None /\ sandbox[s].run = "gone" /\ UNCHANGED <<pods, created, veth, direct>>
      /\ \A t \in Sandboxes : Live(sandbox[t]) => sandbox[t].pod # p
  BY NodePodsAssumption, SMTT(30) DEF RunSandbox, SandboxesOf, Live
<1>2. \A t \in Sandboxes : sandbox'[t] = IF t = s THEN r ELSE sandbox[t]
  BY DEF RunSandbox, SandboxInv, SandboxType
<1>3. DOMAIN sandbox' = Sandboxes
  BY Zenon DEF RunSandbox, SandboxInv, SandboxType
<1>4. /\ DOMAIN r = SandboxFields /\ r.at = "wait" /\ r.run = "starting" /\ r.pod = p
      /\ r.num = pods[p].num /\ r.ips = {}
  BY DEF NoSandbox, SandboxFields
<1> HIDE DEF r
<1>5. SandboxOK(r) /\ Live(r) /\ ~Wired(r) /\ ~Live(sandbox[s])
  BY <1>1, <1>4, Zenon DEF SandboxOK, Live, Wired
<1>6. SandboxType'
  BY <1>1, <1>2, <1>3, <1>5, Zenon DEF SandboxInv, SandboxType
<1>7. Numbers'
  BY <1>1, Zenon DEF SandboxInv, Numbers
<1>8. OneSandbox'
  BY <1>1, <1>2, <1>4, <1>5, SMTT(30) DEF SandboxInv, OneSandbox
<1>9. VethsLive'
  BY <1>1, <1>2, <1>5, SMTT(30) DEF SandboxInv, SandboxType, VethsLive
<1>10. WiredUp'
  BY <1>1, <1>2, <1>5, SMTT(30) DEF SandboxInv, WiredUp
<1> QED
  BY <1>6, <1>7, <1>8, <1>9, <1>10, Zenon DEF SandboxInv

\* A restart of the daemon ends every handler; what the sandboxes that run have on the node stays.
LEMMA RestartKeeps == ASSUME SandboxInv, Restart PROVE SandboxInv'
<1>1. UNCHANGED <<pods, created, veth, direct>>
  BY Zenon DEF Restart
<1>2. DOMAIN sandbox' = Sandboxes
  BY Zenon DEF Restart
<1>3. ASSUME NEW t \in Sandboxes
      PROVE  /\ SandboxOK(sandbox'[t])
             /\ Live(sandbox'[t]) <=> Live(sandbox[t])
             /\ Live(sandbox'[t]) => sandbox'[t].pod = sandbox[t].pod /\ sandbox'[t].num = sandbox[t].num
             /\ Wired(sandbox'[t]) => sandbox'[t] = sandbox[t]
  <2> DEFINE run == IF sandbox[t].run = "starting" THEN "stopping" ELSE sandbox[t].run
             a == [sandbox[t] EXCEPT !.at = "over", !.ips = {}, !.left = {}, !.last = None,
                                     !.updates = 0, !.run = run]
  <2>1. SandboxOK(sandbox[t])
    BY Zenon DEF SandboxInv, SandboxType
  <2>2. sandbox'[t] = IF sandbox[t].at = "over" THEN sandbox[t] ELSE Over(a)
    BY <2>1, Zenon DEF Restart, SandboxOK, SandboxFields
  <2>3. CASE sandbox[t].at = "over"
    BY <2>1, <2>2, <2>3
  <2>4. CASE sandbox[t].at # "over"
    <3>1. /\ DOMAIN a = SandboxFields /\ a.at = "over" /\ a.run = run /\ a.pod = sandbox[t].pod
          /\ a.num = sandbox[t].num /\ a.netns = sandbox[t].netns /\ a.ips = {}
      BY <2>1 DEF SandboxOK, SandboxFields
    <3> HIDE DEF a
    <3>2. Live(a) <=> Live(sandbox[t])
      BY <3>1, Zenon DEF Live
    <3>3. ~Wired(a) /\ SandboxOK(a)
      BY <2>1, <2>4, <3>1, <3>2, Zenon DEF Wired, SandboxOK
    <3>4. SandboxOK(NoSandbox) /\ ~Live(NoSandbox) /\ ~Wired(NoSandbox)
      BY Zenon DEF NoSandbox, SandboxOK, SandboxFields, Live, Wired
    <3>5. Over(a) = IF Live(a) THEN a ELSE NoSandbox
      BY <3>1, Zenon DEF Over, Live
    <3> QED
      BY <2>2, <2>4, <3>1, <3>2, <3>3, <3>4, <3>5, Zenon
  <2> QED
    BY <2>3, <2>4, Zenon
<1>4. SandboxType'
  BY <1>1, <1>2, <1>3, Zenon DEF SandboxInv, SandboxType
<1>5. Numbers'
  BY <1>1, Zenon DEF SandboxInv, Numbers
<1>6. OneSandbox'
  BY <1>1, <1>3 DEF SandboxInv, OneSandbox
<1>7. VethsLive'
  BY <1>1, <1>3, Zenon DEF SandboxInv, SandboxType, VethsLive
<1>8. WiredUp'
  BY <1>1, <1>3 DEF SandboxInv, WiredUp
<1> QED
  BY <1>4, <1>5, <1>6, <1>7, <1>8, Zenon DEF SandboxInv

(***************************************************************************)
(* Sandboxes: the pods.                                                    *)
(***************************************************************************)
\* A pod object changes, and every pod that has a sandbox keeps its number.
LEMMA PodKeeps ==
    ASSUME SandboxInv, UNCHANGED cni, created' \in Nat, created' >= created,
           pods' \in [Pods -> PodRecord \cup {None}], NEW p \in Pods,
           \A q \in Pods : q # p => pods'[q] = pods[q],
           \/ pods[p] # None /\ pods'[p] # None /\ pods'[p].num = pods[p].num
           \/ pods'[p] = None /\ SandboxesOf(p) = {}
           \/ pods[p] = None /\ pods'[p].num = created' /\ created' > created
    PROVE  SandboxInv'
<1>1. UNCHANGED <<sandbox, veth, direct>>
  BY Zenon DEF cni
<1>2. SandboxType'
  BY <1>1, Zenon DEF SandboxInv, SandboxType
<1>3. created \in Nat /\ \A q \in Pods : pods[q] # None => pods[q].num \in Nat
  BY Zenon DEF SandboxInv, SandboxType, PodRecord
<1>4. Numbers'
  BY <1>3 DEF SandboxInv, Numbers
<1>5. ASSUME NEW s \in Sandboxes, Live(sandbox[s])
      PROVE  pods'[sandbox[s].pod] # None /\ pods'[sandbox[s].pod].num = sandbox[s].num
  <2>1. pods[sandbox[s].pod] # None /\ pods[sandbox[s].pod].num = sandbox[s].num /\ sandbox[s].pod \in Pods
    BY <1>5, Zenon DEF SandboxInv, OneSandbox, SandboxType, SandboxOK
  <2>2. sandbox[s].pod = p => SandboxesOf(p) # {}
    BY <1>5, Zenon DEF SandboxesOf, Live
  <2> QED
    BY <2>1, <2>2, Zenon
<1>6. OneSandbox'
  BY <1>1, <1>5, Zenon DEF SandboxInv, OneSandbox
<1>7. VethsLive' /\ WiredUp'
  BY <1>1, Zenon DEF SandboxInv, VethsLive, WiredUp
<1> QED
  BY <1>2, <1>4, <1>6, <1>7, Zenon DEF SandboxInv

LEMMA PodsKeep ==
    ASSUME SandboxInv, NEW p \in Pods, CreatePod(p) \/ Annotate(p) \/ DeletePod(p) \/ RemovePod(p)
    PROVE  SandboxInv'
<1>1. created \in Nat /\ pods \in [Pods -> PodRecord \cup {None}]
  BY DEF SandboxInv, SandboxType
<1>2. CASE CreatePod(p)
  <2>1. UNCHANGED cni /\ created' = created + 1 /\ pods[p] = None
    BY <1>2, Zenon DEF CreatePod
  <2>2. [num |-> created', annotated |-> FALSE, deleting |-> FALSE] \in PodRecord
    BY <1>1, <2>1 DEF PodRecord
  <2>3. pods' \in [Pods -> PodRecord \cup {None}] /\ pods'[p].num = created' /\ \A q \in Pods : q # p => pods'[q] = pods[q]
    BY <1>1, <1>2, <2>2, Zenon DEF CreatePod
  <2> QED
    BY <1>1, <2>1, <2>3, PodKeeps
<1>3. CASE Annotate(p) \/ DeletePod(p)
  <2>1. UNCHANGED <<cni, created>> /\ pods[p] # None /\ pods[p] \in PodRecord
    BY <1>1, <1>3 DEF Annotate, DeletePod, OwnIPs
  <2>2. pods' = [pods EXCEPT ![p].annotated = TRUE] \/ pods' = [pods EXCEPT ![p].deleting = TRUE]
    BY <1>3 DEF Annotate, DeletePod
  <2>3. /\ [pods[p] EXCEPT !.annotated = TRUE] \in PodRecord /\ [pods[p] EXCEPT !.deleting = TRUE] \in PodRecord
        /\ [pods[p] EXCEPT !.annotated = TRUE].num = pods[p].num /\ [pods[p] EXCEPT !.deleting = TRUE].num = pods[p].num
    BY <2>1, Zenon DEF PodRecord
  <2>4. None \notin PodRecord
    BY NodePodsAssumption, Zenon DEF PodRecord
  <2>5. /\ pods' \in [Pods -> PodRecord \cup {None}] /\ \A q \in Pods : q # p => pods'[q] = pods[q]
        /\ pods'[p] \in PodRecord /\ pods'[p].num = pods[p].num
    BY <1>1, <2>2, <2>3, Zenon
  <2> QED
    BY <1>1, <2>1, <2>4, <2>5, PodKeeps
<1>4. CASE RemovePod(p)
  <2>1. UNCHANGED <<cni, created>> /\ pods' = [pods EXCEPT ![p] = None] /\ SandboxesOf(p) = {}
    BY <1>4, Zenon DEF RemovePod
  <2> QED
    BY <1>1, <2>1, PodKeeps
<1> QED
  BY <1>2, <1>3, <1>4

(***************************************************************************)
(* Sandboxes: every step.                                                  *)
(***************************************************************************)
LEMMA SandboxStutter == SandboxInv /\ UNCHANGED <<cni, pods, created>> => SandboxInv'
<1> SUFFICES ASSUME SandboxInv, UNCHANGED <<cni, pods, created>> PROVE SandboxInv'
  OBVIOUS
<1>1. sandbox' = sandbox /\ veth' = veth /\ direct' = direct /\ pods' = pods /\ created' = created
  BY DEF cni
<1>2. SandboxType'
  BY <1>1, Zenon DEF SandboxInv, SandboxType
<1>3. Numbers'
  BY <1>1, Zenon DEF SandboxInv, Numbers
<1>4. OneSandbox'
  BY <1>1, Zenon DEF SandboxInv, OneSandbox
<1>5. VethsLive'
  BY <1>1, Zenon DEF SandboxInv, VethsLive
<1>6. WiredUp'
  BY <1>1, Zenon DEF SandboxInv, WiredUp
<1> QED
  BY <1>2, <1>3, <1>4, <1>5, <1>6, Zenon DEF SandboxInv

\* The reconcilers and the manager leave the sandboxes alone.
LEMMA ReconcileKeeps ==
    ASSUME Deliver \/ ReconcileStep \/ Fail \/ StartFails \/ (\E i \in IPs : FreeIP(i) \/ MoveIP(i))
             \/ (\E p \in Pods, ips \in PodIPs : Couple(p, ips)) \/ (\E n \in SubnetNames : SubnetReady(n))
             \/ (\E d \in Devs : LinkFlap(d))
    PROVE  UNCHANGED <<cni, pods, created>>
<1>1. CASE Deliver \/ Fail \/ StartFails
  BY <1>1, Zenon DEF Deliver, Fail, StartFails
<1>2. CASE ReconcileStep
  BY <1>2, Zenon DEF ReconcileStep, StartReconcile, SyncNeighs, ClearAddresses, EnsureAddress, SwapAddress,
     StripAddress, FinishReconcile
<1>3. ASSUME NEW i \in IPs, FreeIP(i) \/ MoveIP(i) PROVE UNCHANGED <<cni, pods, created>>
  BY <1>3 DEF FreeIP, MoveIP
<1>4. ASSUME NEW p \in Pods, NEW ips \in PodIPs, Couple(p, ips) PROVE UNCHANGED <<cni, pods, created>>
  BY <1>4, Zenon DEF Couple
<1>5. ASSUME NEW n \in SubnetNames, SubnetReady(n) PROVE UNCHANGED <<cni, pods, created>>
  BY <1>5, Zenon DEF SubnetReady
<1>6. ASSUME NEW d \in Devs, LinkFlap(d) PROVE UNCHANGED <<cni, pods, created>>
  BY <1>6, Zenon DEF LinkFlap
<1> QED
  BY <1>1, <1>2, <1>3, <1>4, <1>5, <1>6, Zenon

LEMMA SandboxNext == SandboxInv /\ (OnePod \/ ListsOwn) /\ [Next]_vars => SandboxInv'
<1> SUFFICES ASSUME SandboxInv, OnePod \/ ListsOwn, [Next]_vars PROVE SandboxInv'
  OBVIOUS
<1>1. ASSUME NEW p \in Pods, CreatePod(p) \/ Annotate(p) \/ DeletePod(p) \/ RemovePod(p) PROVE SandboxInv'
  BY <1>1, PodsKeep
<1>2. ASSUME NEW s \in Sandboxes, Handler(s) \/ ProbeFails(s) \/ AddFails(s) PROVE SandboxInv'
  BY <1>2, HandlerKeeps, AbortKeeps
<1>3. ASSUME NEW s \in Sandboxes, StopSandbox(s) \/ Abandon(s) PROVE SandboxInv'
  <2>1. sandbox' = [sandbox EXCEPT ![s].run = "stopping"] /\ Live(sandbox[s]) /\ UNCHANGED <<pods, created, veth, direct>>
    BY <1>3 DEF StopSandbox, Abandon, Live
  <2> QED
    BY <2>1, Ends, Zenon
<1>4. ASSUME NEW s \in Sandboxes, HandleDel(s) PROVE SandboxInv'
  <2>1. sandbox' = [sandbox EXCEPT ![s].run = "removing"] /\ Live(sandbox[s]) /\ UNCHANGED <<pods, created>> /\ VethGone(s)
    BY <1>4 DEF HandleDel, deleteContainerNic, Live
  <2> QED
    BY <2>1, Ends, Zenon
<1>5. ASSUME NEW s \in Sandboxes, RemoveNetns(s) PROVE SandboxInv'
  BY <1>5, RemoveNetnsKeeps
<1>6. ASSUME NEW p \in Pods, NEW s \in Sandboxes, RunSandbox(p, s) PROVE SandboxInv'
  BY <1>6, RunSandboxKeeps
<1>7. CASE Kubelet
  BY <1>1, <1>3, <1>4, <1>5, <1>6, <1>7, Zenon DEF Kubelet
<1>8. CASE Restart
  BY <1>8, RestartKeeps
<1>9. CASE Manager
  BY <1>1, <1>9, ReconcileKeeps, SandboxStutter, Zenon DEF Manager
<1>10. CASE UNCHANGED vars
  BY <1>10, SandboxStutter DEF vars
<1> QED
  BY <1>1, <1>2, <1>3, <1>7, <1>8, <1>9, <1>10, ReconcileKeeps, SandboxStutter, Zenon DEF Next

LEMMA SandboxReachable == SandboxInv => RunningReachable
  BY Zenon DEF SandboxInv, WiredUp, Wired, RunningReachable, Serves

\* handleAdd and handleDel, for any pods, sandboxes and faults: as long as every ADD has listed the
\* IPInstances of its own pod, traffic to the addresses of a running pod goes to the sandbox that it
\* runs in.  Handlers of abandoned requests, of removed sandboxes and of earlier daemons take nothing
\* from it.
THEOREM ReachableCorrect == Spec /\ []ListsOwn => []RunningReachable
<1>1. Init => SandboxInv
  BY SandboxInit
<1>2. SandboxInv /\ ListsOwn /\ [Next]_vars => SandboxInv'
  BY SandboxNext
<1> QED
  BY <1>1, <1>2, SandboxReachable, PTL DEF Spec

\* A pod name that is used again and again has no such condition: what its old IPInstances route
\* leads to the name.
THEOREM ReachableOnePod == ASSUME OnePod PROVE Spec => []RunningReachable
<1>1. Init => SandboxInv
  BY SandboxInit
<1>2. SandboxInv /\ [Next]_vars => SandboxInv'
  BY SandboxNext
<1> QED
  BY <1>1, <1>2, SandboxReachable, PTL DEF Spec
====
