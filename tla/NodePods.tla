------------------------------- MODULE NodePods -------------------------------
(***************************************************************************)
(* The pods of one node: the CNI server, one handler per request, and the  *)
(* IPInstance reconciler, which publishes the addresses of the pods (proxy *)
(* neighbours, enhanced addresses, BGP paths) that a handler waits for.    *)
(*                                                                         *)
(* A sandbox is one attempt of the kubelet to run a pod, with a network    *)
(* namespace and one ADD.  The kernel is what these two write: the proxy   *)
(* neighbours and addresses of the forward interfaces, the host ends of    *)
(* the veth pairs and the routes of the local-pod-direct table.            *)
(***************************************************************************)
EXTENDS Integers, FiniteSets

CONSTANTS
    Pods,           \* names of pods
    IPs,            \* addresses; an IPInstance is named after its address
    Plans,          \* what the addresses may be: IP |-> [version, mode, dev, subnet]
    PodIPs,         \* the sets of addresses that the manager may give to a pod
    OverlayIf,      \* the vxlan interface if there is an overlay network, else None
    Manual,         \* <<dev, subnet>> with an address that an administrator has set
    Sandboxes,      \* bound: identifiers of sandboxes, used again in the end
    LateGC,         \* whether a name may be used again before its old IPInstances are collected
    FaultPoints,    \* where a request of the reconciler may fail, or the daemon stop with it
    None,
    MaxPods,        \* bound: pods created, names used again included
    MaxFaults       \* bound: failing requests, abandoned ADDs, restarts, interfaces that go down

ASSUME NodePodsAssumption ==
    /\ \A s \in PodIPs : s \subseteq IPs
    /\ {MaxPods, MaxFaults} \subseteq Nat
    /\ Sandboxes \subseteq Nat \ {0}
    /\ None \notin Sandboxes \cup [num : Nat, annotated : BOOLEAN, deleting : BOOLEAN]

VARIABLES
    plan,       \* one of Plans
    pods,       \* API: Pod |-> None, or its number, whether it is annotated with its IPs, and deleted
    api,        \* API: IPInstances by address
    cache,      \* the daemon's copy of the IPInstances
    queued,     \* the one key of the reconciler's queue
    worker,     \* the reconciler: where it is, the addresses it has listed, what is left
    proxies,    \* kernel: interface |-> addresses with a proxy neighbour
    addrs,      \* kernel: enhanced addresses of the forward interfaces
    links,      \* kernel: forward interfaces that exist
    rules,      \* kernel: subnets with a policy rule (module Routes)
    bgp,        \* the BGP manager and its server
    sandbox,    \* sandboxes and the state of their ADD
    veth,       \* kernel: Pod |-> the sandbox at the other end of its veth pair
    direct,     \* kernel: IP |-> the pod whose veth its direct route leads to
    created, faults      \* counters of the bounds

node == <<proxies, addrs, links, rules, bgp>>
cni == <<sandbox, veth, direct>>
vars == <<plan, pods, api, cache, queued, worker, node, cni, created, faults>>

Devs == {p[i].dev : p \in Plans, i \in IPs} \cup ({OverlayIf} \ {None})
SubnetNames == {p[i].subnet : p \in Plans, i \in IPs}

(***************************************************************************)
(* The manager (module PodIPAM), the kubelet's pods, and the watch.        *)
(***************************************************************************)
\* The number of a pod tells apart pods of one name.
CreatePod(p) ==
    /\ pods[p] = None /\ created < MaxPods
    /\ ~LateGC => ~\E i \in IPs : api[i] # None /\ api[i].pod = p
    /\ created' = created + 1
    /\ pods' = [pods EXCEPT ![p] = [num |-> created', annotated |-> FALSE, deleting |-> FALSE]]
    /\ UNCHANGED <<plan, api, cache, queued, worker, node, cni, faults>>

\* IPInstances are created with the label of the node, their status is set, and then the pod is
\* annotated; the time without a status is left out.
Couple(p, ips) ==
    /\ pods[p] # None /\ ~pods[p].deleting /\ ~\E i \in IPs : api[i] # None /\ api[i].num = pods[p].num
    /\ \A i \in ips : api[i] = None
    /\ api' = [i \in IPs |-> IF i \in ips
                  THEN [pod |-> p, num |-> pods[p].num, here |-> TRUE, sandbox |-> None, ver |-> 0]
                  ELSE api[i]]
    /\ UNCHANGED <<plan, pods, cache, queued, worker, node, cni, created, faults>>

OwnIPs(p) == {i \in IPs : api[i] # None /\ pods[p] # None /\ api[i].num = pods[p].num}

Annotate(p) ==
    /\ OwnIPs(p) # {} /\ ~pods[p].annotated /\ ~pods[p].deleting
    /\ pods' = [pods EXCEPT ![p].annotated = TRUE]
    /\ UNCHANGED <<plan, api, cache, queued, worker, node, cni, created, faults>>

DeletePod(p) ==
    /\ pods[p] # None /\ ~pods[p].deleting
    /\ pods' = [pods EXCEPT ![p].deleting = TRUE]
    /\ UNCHANGED <<plan, api, cache, queued, worker, node, cni, created, faults>>

PodGone(i) == api[i] # None /\ ~\E p \in Pods : pods[p] # None /\ pods[p].num = api[i].num

FreeIP(i) ==
    /\ PodGone(i)
    /\ api' = [api EXCEPT ![i] = None]
    /\ UNCHANGED <<plan, pods, cache, queued, worker, node, cni, created, faults>>

\* A stateful pod takes its address to another node.
MoveIP(i) ==
    /\ PodGone(i) /\ api[i].here
    /\ api' = [api EXCEPT ![i].here = FALSE]
    /\ UNCHANGED <<plan, pods, cache, queued, worker, node, cni, created, faults>>

Here(inst) == inst # None /\ inst.here

\* Mutant of IPInstancePredicate: only the old object is looked at.
OldLabelOnly(old, new) == Here(old)

\* Events of instances that are, or were, labelled with this node.
IPInstancePredicate(old, new) == Here(old) \/ Here(new)

Deliver ==
    /\ cache # api
    /\ cache' = api
    /\ queued' = (queued \/ \E i \in IPs : cache[i] # api[i] /\ IPInstancePredicate(cache[i], api[i]))
    /\ UNCHANGED <<plan, pods, api, worker, node, cni, created, faults>>

(***************************************************************************)
(* The IPInstance reconciler.                                              *)
(***************************************************************************)
Idle == [at |-> "idle", ips |-> {}, todo |-> {}, addr |-> None]

Listed == {i \in IPs : Here(cache[i])}

\* The interfaces with a proxy neighbour for i: its own, and that of the overlay.
ForwardIfs(i) == ((IF plan[i].mode = "BGP" THEN {} ELSE {plan[i].dev}) \cup {OverlayIf}) \ {None}
IPsOn(ips, dev, version) == {i \in ips : dev \in ForwardIfs(i) /\ plan[i].version = version}

\* The manager counts as started from here on, whether or not the server has started.
TryStart(ok) ==
    IF bgp.asn # 0 \/ ~\E i \in IPs : plan[i].mode = "BGP" THEN bgp
    ELSE [bgp EXCEPT !.asn = 1, !.running = ok]

Requeue ==
    /\ worker' = Idle
    /\ queued' = TRUE

StartReconcile ==
    /\ worker.at = "idle" /\ queued
    /\ queued' = FALSE
    /\ bgp' = TryStart(TRUE)
    /\ worker' = [Idle EXCEPT !.at = "neigh", !.ips = Listed,
                    !.todo = {d \in Devs \X {4, 6} : IPsOn(Listed, d[1], d[2]) # {}}]
    /\ UNCHANGED <<plan, pods, api, cache, proxies, addrs, links, rules, cni, created, faults>>

\* Mutant of ProxiesOf: neighbours are added, never deleted.
ProxiesAdded(dev, version) == proxies[dev] \cup IPsOn(worker.ips, dev, version)

ProxiesOf(dev, version) ==
    {i \in proxies[dev] : plan[i].version # version} \cup IPsOn(worker.ips, dev, version)

\* One interface of one address family, IPv4 first; an interface without pods is passed over.
SyncNeighs(dev, version) ==
    /\ worker.at = "neigh" /\ <<dev, version>> \in worker.todo
    /\ version = 6 => \A d \in worker.todo : d[2] = 6
    /\ IF dev \in links
       THEN /\ proxies' = [proxies EXCEPT ![dev] = ProxiesOf(dev, version)]
            /\ worker' = [worker EXCEPT !.todo = @ \ {<<dev, version>>}]
            /\ UNCHANGED queued
       ELSE Requeue /\ UNCHANGED proxies
    /\ UNCHANGED <<plan, pods, api, cache, addrs, links, rules, bgp, cni, created, faults>>

(***************************************************************************)
(* Enhanced addresses: on a vlan interface, one address of a local pod per *)
(* subnet, without its local routes.  The second address of a subnet is    *)
(* secondary, and has local routes once the first one is deleted.          *)
(***************************************************************************)
Enhanced(a) == ~a.local /\ ~a.secondary
EnhancedOn(dev, subnet) == {a \in addrs : a.dev = dev /\ a.subnet = subnet /\ Enhanced(a)}

\* An address with local routes is taken for one that an administrator has set.
ManualOn(dev, subnet) ==
    <<dev, subnet>> \in Manual \/ \E a \in addrs : a.dev = dev /\ a.subnet = subnet /\ ~Enhanced(a)

\* TryAddPodInfo: the vlan interfaces and subnets with a local pod, and the first such pod.
AddrTargets(ips) == {<<plan[i].dev, plan[i].subnet>> : i \in {j \in ips : plan[j].mode = "Vlan" /\ plan[j].version = 4}}

ClearAddresses ==
    /\ worker.at = "neigh" /\ worker.todo = {}
    /\ addrs' = {a \in addrs : Enhanced(a) => <<a.dev, a.subnet>> \in AddrTargets(worker.ips)}
    /\ worker' = [worker EXCEPT !.at = "addr", !.todo = AddrTargets(worker.ips)]
    /\ UNCHANGED <<plan, pods, api, cache, queued, proxies, links, rules, bgp, cni, created, faults>>

\* The address that is there stays while it is that of a pod of this node.
StillValid(a, ip) == a.ip = ip \/ Here(cache[a.ip])

AddrAdd(set, dev, subnet, ip) ==
    LET second == \E a \in set : a.dev = dev /\ a.subnet = subnet
    IN  set \cup {[dev |-> dev, subnet |-> subnet, ip |-> ip, local |-> ~second, secondary |-> second]}

EnsureAddress(dev, subnet) ==
    /\ worker.at = "addr" /\ <<dev, subnet>> \in worker.todo
    /\ \E ip \in {i \in worker.ips : plan[i].dev = dev /\ plan[i].subnet = subnet} :
         IF dev \notin links THEN Requeue /\ UNCHANGED addrs
         ELSE IF ManualOn(dev, subnet) \/ \E a \in EnhancedOn(dev, subnet) : StillValid(a, ip)
              THEN /\ worker' = [worker EXCEPT !.todo = @ \ {<<dev, subnet>>}]
                   /\ UNCHANGED <<queued, addrs>>
              ELSE /\ addrs' = AddrAdd(addrs, dev, subnet, ip)
                   /\ worker' = [worker EXCEPT !.at = "swap", !.todo = @ \ {<<dev, subnet>>},
                                   !.addr = [ip |-> ip, old |-> EnhancedOn(dev, subnet)]]
                   /\ UNCHANGED queued
    /\ UNCHANGED <<plan, pods, api, cache, proxies, links, rules, bgp, cni, created, faults>>

\* The address out of date goes, and the new one becomes the first of its subnet.
SwapAddress ==
    /\ worker.at = "swap"
    /\ LET Promoted(a) == a.secondary /\ \E old \in worker.addr.old : old.dev = a.dev /\ old.subnet = a.subnet
       IN  addrs' = {IF Promoted(a) THEN [a EXCEPT !.secondary = FALSE, !.local = TRUE] ELSE a :
                       a \in addrs \ worker.addr.old}
    /\ worker' = [worker EXCEPT !.at = "strip"]
    /\ UNCHANGED <<plan, pods, api, cache, queued, proxies, links, rules, bgp, cni, created, faults>>

\* Mutant of StripRoutes: the local routes go only if an old address went.
StripAfterSwap(a) == a.ip = worker.addr.ip /\ worker.addr.old # {}

StripRoutes(a) == a.ip = worker.addr.ip

StripAddress ==
    /\ worker.at = "strip"
    /\ addrs' = {IF StripRoutes(a) THEN [a EXCEPT !.local = FALSE] ELSE a : a \in addrs}
    /\ worker' = [worker EXCEPT !.at = "addr", !.addr = None]
    /\ UNCHANGED <<plan, pods, api, cache, queued, proxies, links, rules, bgp, cni, created, faults>>

BGPIPs(ips) == {i \in ips : plan[i].mode = "BGP"}

SyncIPInfos == BGPIPs(worker.ips)

\* Ends with the trigger of the iptables loop.
FinishReconcile ==
    /\ worker.at = "addr" /\ worker.todo = {}
    /\ IF bgp.asn # 0 /\ ~bgp.running
       THEN Requeue /\ UNCHANGED bgp
       ELSE /\ bgp' = IF bgp.asn = 0 THEN bgp ELSE [bgp EXCEPT !.paths = SyncIPInfos]
            /\ worker' = Idle
            /\ UNCHANGED queued
    /\ UNCHANGED <<plan, pods, api, cache, proxies, addrs, links, rules, cni, created, faults>>

ReconcileStep ==
    \/ StartReconcile
    \/ \E d \in worker.todo : worker.at = "neigh" /\ SyncNeighs(d[1], d[2])
    \/ ClearAddresses
    \/ \E d \in worker.todo : worker.at = "addr" /\ EnsureAddress(d[1], d[2])
    \/ SwapAddress \/ StripAddress \/ FinishReconcile
(***************************************************************************)
(* The kubelet and the CNI server.  run is what the kubelet sees of a      *)
(* sandbox, at is where the handler of its ADD is.                         *)
(***************************************************************************)
NoSandbox == [pod |-> None, num |-> 0, run |-> "gone", at |-> "over", netns |-> FALSE,
              ips |-> {}, left |-> {}, last |-> None, updates |-> 0]

SandboxesOf(p) == {s \in Sandboxes : sandbox[s].pod = p /\ sandbox[s].run # "gone"}

\* cmdAdd of the plugin sends the one request of a sandbox.
RunSandbox(p, s) ==
    /\ pods[p] # None /\ ~pods[p].deleting /\ SandboxesOf(p) = {}
    /\ \A t \in 1..s : (sandbox[t].run = "gone" /\ sandbox[t].at = "over") <=> t = s
    /\ sandbox' = [sandbox EXCEPT ![s] = [NoSandbox EXCEPT !.pod = p, !.num = pods[p].num,
                      !.run = "starting", !.at = "wait", !.netns = TRUE]]
    /\ UNCHANGED <<plan, pods, api, cache, queued, worker, node, veth, direct, created, faults>>

Over(r) == IF r.run = "gone" /\ r.at = "over" THEN NoSandbox ELSE r

\* The handler is done; the answer to an abandoned request reaches no one.
Answer(s, ok) ==
    LET r == sandbox[s]
    IN  [sandbox EXCEPT ![s] =
            Over([r EXCEPT !.at = "over", !.left = {}, !.last = None, !.updates = 0,
                           !.ips = IF ok THEN r.ips ELSE {},
                           !.run = IF r.run # "starting" THEN r.run ELSE IF ok THEN "running" ELSE "stopping"])]

\* The IPInstances of the pod in the cache, one per address family, and the one that the loop
\* variable is left with: the pointers to it that the loop has collected all lead there.
ListIPInstances(s) ==
    /\ sandbox[s].at = "wait" /\ pods[sandbox[s].pod] # None /\ pods[sandbox[s].pod].annotated
    /\ LET p == sandbox[s].pod
           own == {i \in Listed : cache[i].pod = p}
           oneEach == \A i, j \in own : i # j => plan[i].version # plan[j].version
       IN  IF own = {} \/ ~oneEach THEN sandbox' = Answer(s, FALSE)
           ELSE \E i \in own :
                  sandbox' = [sandbox EXCEPT ![s] = [@ EXCEPT !.at = "veth", !.ips = own, !.left = own,
                                !.last = [ip |-> i, inst |-> cache[i]], !.updates = Cardinality(own)]]
    /\ UNCHANGED <<plan, pods, api, cache, queued, worker, node, veth, direct, created, faults>>

\* The pod is not found, or eleven reads of it find no annotation.
NotCoupled(s) ==
    /\ sandbox[s].at = "wait"
    /\ pods[sandbox[s].pod] # None => ~pods[sandbox[s].pod].annotated
    /\ sandbox' = Answer(s, FALSE)
    /\ UNCHANGED <<plan, pods, api, cache, queued, worker, node, veth, direct, created, faults>>

\* The routes of the local-pod-direct table that lead to the host end.
VethRoutes(ips, p) == [i \in IPs |-> IF i \in ips THEN p ELSE direct[i]]

\* initContainerNic and ConfigureHostNic: the host end is named after the pod, so it cannot
\* exist twice; a pair that cannot be made is not cleaned up.
ConfigureHostNic(s) ==
    /\ sandbox[s].at = "veth"
    /\ LET p == sandbox[s].pod
       IN  IF sandbox[s].netns /\ veth[p] = None
           THEN /\ veth' = [veth EXCEPT ![p] = s]
                /\ direct' = VethRoutes(sandbox[s].ips, p)
                /\ sandbox' = [sandbox EXCEPT ![s].at = "ready"]
           ELSE sandbox' = Answer(s, FALSE) /\ UNCHANGED <<veth, direct>>
    /\ UNCHANGED <<plan, pods, api, cache, queued, worker, node, created, faults>>

CheckPodNeighExist(i) == i \in proxies[plan[i].dev]
CheckPodRuleExist(i) == plan[i].subnet \in rules
CheckIfIPInfoPathAdded(i) == i \in bgp.paths

\* The peers of the BGP server are taken to be established.
checkPodNetConfigReady(i) ==
    /\ plan[i].dev \in links /\ CheckPodRuleExist(i)
    /\ IF plan[i].mode = "BGP" THEN CheckIfIPInfoPathAdded(i) ELSE CheckPodNeighExist(i)

\* IPv4 before IPv6; the last check is followed by the addresses in the container.
CheckReady(s, i) ==
    /\ sandbox[s].at = "ready" /\ i \in sandbox[s].left
    /\ plan[i].version = 6 => \A j \in sandbox[s].left : plan[j].version = 6
    /\ checkPodNetConfigReady(i)
    /\ sandbox' = [sandbox EXCEPT ![s].left = @ \ {i},
                     ![s].at = IF sandbox[s].left = {i} THEN "container" ELSE "ready"]
    /\ UNCHANGED <<plan, pods, api, cache, queued, worker, node, veth, direct, created, faults>>

\* The pair goes with its namespace end, and the kernel drops the routes to its host end.
VethGone(s) ==
    IF veth[sandbox[s].pod] = s
    THEN /\ veth' = [veth EXCEPT ![sandbox[s].pod] = None]
         /\ direct' = [i \in IPs |-> IF direct[i] = sandbox[s].pod THEN None ELSE direct[i]]
    ELSE UNCHANGED <<veth, direct>>

\* Mutant of deleteContainerNic: the veth pair goes by its name, not by its namespace.
DeleteByName(s) ==
    /\ veth' = [veth EXCEPT ![sandbox[s].pod] = None]
    /\ direct' = [i \in IPs |-> IF direct[i] = sandbox[s].pod THEN None ELSE direct[i]]

deleteContainerNic(s) == VethGone(s)

\* Five checks, and something was missing in each.
NotReady(s) ==
    /\ sandbox[s].at = "ready"
    /\ \E i \in sandbox[s].left : ~checkPodNetConfigReady(i)
    /\ sandbox' = Answer(s, FALSE)
    /\ deleteContainerNic(s)
    /\ UNCHANGED <<plan, pods, api, cache, queued, worker, node, created, faults>>

ConfigureContainerNic(s) ==
    /\ sandbox[s].at = "container"
    /\ IF sandbox[s].netns /\ veth[sandbox[s].pod] = s
       THEN sandbox' = [sandbox EXCEPT ![s].at = "status"] /\ UNCHANGED <<veth, direct>>
       ELSE sandbox' = Answer(s, FALSE) /\ deleteContainerNic(s)
    /\ UNCHANGED <<plan, pods, api, cache, queued, worker, node, created, faults>>

\* Mutant of Updatable: the update is not conditional on the version read.
AnyVersion(last) == api[last.ip] # None

\* The API server takes an update of the version it has.
Updatable(last) == api[last.ip] = last.inst

\* One update per pointer, all of the IPInstance that the loop variable was left with.
UpdateStatus(s) ==
    /\ sandbox[s].at = "status"
    /\ LET last == sandbox[s].last
       IN  IF Updatable(last)
           THEN /\ api' = [api EXCEPT ![last.ip].sandbox = s, ![last.ip].ver = (@ + 1) % 3]
                /\ sandbox' = IF sandbox[s].updates = 1 THEN Answer(s, TRUE)
                              ELSE [sandbox EXCEPT ![s].updates = @ - 1]
           ELSE sandbox' = Answer(s, FALSE) /\ UNCHANGED api
    /\ UNCHANGED <<plan, pods, cache, queued, worker, node, veth, direct, created, faults>>

\* The pod is deleted; it is gone once it has no sandbox.
StopSandbox(s) ==
    /\ sandbox[s].run = "running" /\ pods[sandbox[s].pod].deleting
    /\ sandbox' = [sandbox EXCEPT ![s].run = "stopping"]
    /\ UNCHANGED <<plan, pods, api, cache, queued, worker, node, veth, direct, created, faults>>

RemovePod(p) ==
    /\ pods[p] # None /\ pods[p].deleting /\ SandboxesOf(p) = {}
    /\ pods' = [pods EXCEPT ![p] = None]
    /\ UNCHANGED <<plan, api, cache, queued, worker, node, cni, created, faults>>

\* The kubelet does not wait any longer for the answer.
Abandon(s) ==
    /\ sandbox[s].run = "starting" /\ faults < MaxFaults
    /\ faults' = faults + 1
    /\ sandbox' = [sandbox EXCEPT ![s].run = "stopping"]
    /\ UNCHANGED <<plan, pods, api, cache, queued, worker, node, veth, direct, created>>

\* handleDel, and then the runtime removes the namespace, with what is left in it.
HandleDel(s) ==
    /\ sandbox[s].run = "stopping"
    /\ sandbox' = [sandbox EXCEPT ![s].run = "removing"]
    /\ deleteContainerNic(s)
    /\ UNCHANGED <<plan, pods, api, cache, queued, worker, node, created, faults>>

RemoveNetns(s) ==
    /\ sandbox[s].run = "removing"
    /\ sandbox' = [sandbox EXCEPT ![s] = Over([@ EXCEPT !.run = "gone", !.netns = FALSE])]
    /\ VethGone(s)
    /\ UNCHANGED <<plan, pods, api, cache, queued, worker, node, created, faults>>

Handler(s) ==
    \/ ListIPInstances(s) \/ NotCoupled(s) \/ ConfigureHostNic(s)
    \/ \E i \in sandbox[s].left : CheckReady(s, i)
    \/ NotReady(s) \/ ConfigureContainerNic(s) \/ UpdateStatus(s)

Kubelet ==
    \/ \E p \in Pods, s \in Sandboxes : RunSandbox(p, s)
    \/ \E p \in Pods : RemovePod(p)
    \/ \E s \in Sandboxes : StopSandbox(s) \/ HandleDel(s) \/ RemoveNetns(s)

(***************************************************************************)
(* The rest of the node, and faults.                                       *)
(***************************************************************************)
\* The subnet reconciler creates the interface and the rule of a subnet.
SubnetReady(subnet) ==
    /\ subnet \notin rules
    /\ rules' = rules \cup {subnet}
    /\ links' = links \cup {plan[i].dev : i \in {j \in IPs : plan[j].subnet = subnet}}
    /\ UNCHANGED <<plan, pods, api, cache, queued, worker, proxies, addrs, bgp, cni, created, faults>>

\* Down and up again: the proxy neighbours are lost, and the way up triggers the reconciler.
LinkFlap(dev) ==
    /\ dev \in links /\ faults < MaxFaults
    /\ faults' = faults + 1
    /\ proxies' = [proxies EXCEPT ![dev] = {}]
    /\ queued' = TRUE
    /\ UNCHANGED <<plan, pods, api, cache, worker, addrs, links, rules, bgp, cni, created>>

\* A request of the reconciler fails, be it the start of the BGP server.
Fail ==
    /\ worker.at \in FaultPoints /\ faults < MaxFaults
    /\ faults' = faults + 1
    /\ Requeue
    /\ UNCHANGED <<plan, pods, api, cache, node, cni, created>>

StartFails ==
    /\ "bgp" \in FaultPoints /\ faults < MaxFaults
    /\ worker.at = "idle" /\ queued /\ bgp.asn = 0 /\ TryStart(FALSE) # bgp
    /\ faults' = faults + 1
    /\ bgp' = TryStart(FALSE)
    /\ UNCHANGED <<plan, pods, api, cache, queued, worker, proxies, addrs, links, rules, cni, created>>

AbortAdd(s) ==
    /\ faults < MaxFaults
    /\ faults' = faults + 1
    /\ sandbox' = Answer(s, FALSE)
    /\ deleteContainerNic(s)
    /\ UNCHANGED <<plan, pods, api, cache, queued, worker, node, created>>

\* The gateway does not answer, or someone else answers for the address of a vlan pod.
ProbeFails(s) ==
    /\ sandbox[s].at = "ready" /\ \E i \in sandbox[s].left : plan[i].mode = "Vlan"
    /\ AbortAdd(s)

\* The addresses or routes in the container cannot be set.
AddFails(s) ==
    /\ sandbox[s].at = "container"
    /\ AbortAdd(s)

\* The handlers and the BGP server end with the daemon; the next one lists everything.
Restart ==
    /\ faults < MaxFaults
    /\ worker.at \in {"swap", "strip"} => worker.at \in FaultPoints
    /\ faults' = faults + 1
    /\ worker' = Idle /\ queued' = TRUE /\ cache' = api
    /\ bgp' = [asn |-> 0, running |-> FALSE, paths |-> {}]
    /\ sandbox' = [s \in Sandboxes |-> IF sandbox[s].at = "over" THEN sandbox[s]
                     ELSE Over([sandbox[s] EXCEPT !.at = "over", !.ips = {}, !.left = {}, !.last = None,
                                !.updates = 0, !.run = IF @ = "starting" THEN "stopping" ELSE @])]
    /\ UNCHANGED <<plan, pods, api, proxies, addrs, links, rules, veth, direct, created>>

(***************************************************************************)
(* The specification.                                                      *)
(***************************************************************************)
Init ==
    /\ plan \in Plans
    /\ pods = [p \in Pods |-> None]
    /\ api = [i \in IPs |-> None] /\ cache = api
    /\ queued = TRUE /\ worker = Idle
    /\ proxies = [d \in Devs |-> {}] /\ addrs = {} /\ links = {OverlayIf} \ {None} /\ rules = {}
    /\ bgp = [asn |-> 0, running |-> FALSE, paths |-> {}]
    /\ sandbox = [s \in Sandboxes |-> NoSandbox]
    /\ veth = [p \in Pods |-> None] /\ direct = [i \in IPs |-> None]
    /\ created = 0 /\ faults = 0

Manager ==
    \/ \E p \in Pods : Annotate(p) \/ \E ips \in PodIPs : Couple(p, ips)
    \/ \E i \in IPs : FreeIP(i)

Next ==
    \/ Manager \/ Deliver \/ ReconcileStep \/ Kubelet
    \/ \E p \in Pods : CreatePod(p) \/ DeletePod(p)
    \/ \E i \in IPs : MoveIP(i)
    \/ \E s \in Sandboxes : Handler(s) \/ Abandon(s) \/ ProbeFails(s) \/ AddFails(s)
    \/ \E n \in SubnetNames : SubnetReady(n)
    \/ \E d \in Devs : LinkFlap(d)
    \/ Fail \/ StartFails \/ Restart

Spec == Init /\ [][Next]_vars

\* The manager, the watch, both reconcilers, the kubelet and every handler go on.
FairSpec ==
    /\ Spec
    /\ WF_vars(Manager) /\ WF_vars(Deliver) /\ WF_vars(ReconcileStep) /\ WF_vars(Kubelet)
    /\ \A s \in Sandboxes : WF_vars(Handler(s))
    /\ \A n \in SubnetNames : WF_vars(SubnetReady(n))

(***************************************************************************)
(* Properties.                                                             *)
(***************************************************************************)
Serves(s) == sandbox[s].run = "running"

\* handleAdd and handleDel: whatever other sandboxes of the pod do or leave behind, traffic to
\* the addresses of a running pod goes to the sandbox it runs in.
RunningReachable ==
    \A s \in Sandboxes : Serves(s) =>
      /\ veth[sandbox[s].pod] = s
      /\ \A i \in sandbox[s].ips : direct[i] = sandbox[s].pod

\* handleAdd: a pod never runs with an address that is not its own, or without one that is,
\* and its IPInstances name the sandbox it runs in.
RunsWithOwnIPs ==
    \A s \in Sandboxes : Serves(s) =>
      /\ sandbox[s].ips = {i \in IPs : api[i] # None /\ api[i].num = sandbox[s].num}
      /\ \A i \in sandbox[s].ips : api[i].sandbox = s

Settled == cache = api /\ worker.at = "idle" /\ ~queued
LocalIPs == {i \in IPs : Here(api[i])}

\* SyncAddresses: "we will always keep an valid local pod address in the vlan interface without
\* local routes" (addr.go), one per subnet with pods, none for other subnets.
EnhancedAddresses ==
    Settled => \A d \in Devs, n \in SubnetNames :
      LET here == {a \in addrs : a.dev = d /\ a.subnet = n}
      IN  IF <<d, n>> \in AddrTargets(LocalIPs) \ Manual
          THEN \E a \in here : here = {a} /\ Enhanced(a) /\ Here(api[a.ip])
          ELSE here = {}

\* SyncNeighs and SyncIPInfos: on every interface that still has a pod of an address family, the
\* node answers for the addresses of its pods and for no other, and the paths that it announces
\* are the addresses of its BGP pods.
AnnouncesOwnPods ==
    Settled =>
      /\ \A d \in Devs, v \in {4, 6} :
           IPsOn(LocalIPs, d, v) # {} => {i \in proxies[d] : plan[i].version = v} = IPsOn(LocalIPs, d, v)
      /\ bgp.asn # 0 => bgp.paths = BGPIPs(LocalIPs)

\* handleAdd with the retries of the kubelet: a pod that has its addresses runs in the end,
\* unless it is deleted, or the BGP server has failed to start, which is never tried again.
PodsStart ==
    \A p \in Pods : (pods[p] # None /\ pods[p].annotated)
                       ~> \/ pods[p] = None \/ pods[p].deleting \/ (bgp.asn # 0 /\ ~bgp.running)
                          \/ \E s \in Sandboxes : Serves(s) /\ sandbox[s].pod = p
====
