-------------------------------- MODULE Routes --------------------------------
(***************************************************************************)
(* The policy routes of a node: the subnet reconciler of hybridnet-daemon  *)
(* (its watches, predicates and queue), the route manager of one address   *)
(* family, and the rules and tables of the kernel, read the way the kernel *)
(* looks up a packet.                                                      *)
(*                                                                         *)
(* The reconciler is the only writer of these rules and tables.  It works  *)
(* one netlink request after the other, and traffic meets whatever is      *)
(* there in between; a step below is one rule, or the routes of one table. *)
(***************************************************************************)
EXTENDS IPRange, FiniteSets, Functions

CONSTANTS
    Networks, Subnets, RemoteSubnets,   \* names
    Mode,           \* Network |-> "Vxlan", "Vlan" or "BGP" (GetNetworkMode)
    Spec0s,         \* what Subnets may exist at first, with their specs
    Remote0,        \* the RemoteSubnets that exist at first, with their specs
    Permanent,      \* the Subnets that are never deleted
    Labels0,        \* Network |-> does this node match its selector at first
    Relabelled,     \* the Networks for which that may change
    Specs,          \* Subnet |-> the specs it may have
    RemoteSpecs,    \* RemoteSubnet |-> the specs it may have
    VlanIf,         \* Subnet |-> the vlan interface of its net ID
    Peer,           \* the BGP peer, gateway of every BGP subnet
    LocalPods,      \* addresses of the pods on this node
    Destinations,   \* bound: the destinations that lookups are made for
    ForeignRules,   \* priorities that rules of others occupy
    TableCount,     \* bound: route tables for subnets (30000 in the code), never used up
    MaxRulePriority,    \* bound: priorities of rules (32767 in the code)
    None,
    MaxEdits,       \* bound: changes of Subnets and RemoteSubnets
    MaxRelabels,    \* bound: changes of the labels of the node
    MaxFaults,      \* bound: requests that fail, restarts
    MaxFlaps        \* bound: flaps of a link

ASSUME RoutesAssumption ==
    /\ \A s \in Spec0s : DOMAIN s \subseteq Subnets
    /\ Peer \in Address /\ LocalPods \cup Destinations \subseteq Address
    /\ {TableCount, MaxEdits, MaxRelabels, MaxFaults, MaxFlaps} \cup ForeignRules \subseteq Nat
    /\ MaxRulePriority \in Nat \ {0}
    \* A table that an interrupted sync has filled is never found empty again.
    /\ TableCount >= Cardinality(Subnets) + MaxFaults

VARIABLES
    subnets,    \* API: Subnets by name
    remotes,    \* API: RemoteSubnets by name
    networks,   \* API: Network |-> is this node in Status.NodeList, and Status.SubnetList
    labels,     \* Network |-> does this node match its node selector
    cache,      \* the informers' copies of the three
    queued,     \* the one key of the work queue
    worker,     \* where the reconciler is, and the managers' maps it has filled
    overlayIf,  \* Manager.overlayIfName
    kernel,     \* rules, tables and links
    synced,     \* history: what the last complete sync was asked for
    current,    \* history: the objects that it had listed
    tried,      \* history: what unfinished syncs since then were asked for
    edits, relabels, faults, flaps      \* counters of the bounds

api == <<subnets, remotes, networks, labels>>
agent == <<queued, worker, overlayIf, synced, current, tried>>
counters == <<edits, relabels, faults, flaps>>
vars == <<api, cache, agent, kernel, counters>>

With(f, x, v) == [y \in DOMAIN f \cup {x} |-> IF y = x THEN v ELSE f[y]]
Without(f, x) == Restrict(f, DOMAIN f \ {x})

(***************************************************************************)
(* The kernel (external): rules by priority, longest prefix first within a *)
(* table, and a throw route ends the search in its table.                  *)
(***************************************************************************)
VxlanIf == "vxlan"
BGPIf == "bgp"
Default == [ip |-> 0, len |-> 0]

NodeLocalTableNum == 255
MainTableNum == 254
ForeignTableNum == 100      \* of others, empty
MinRouteTableNum == 10000
MaxRouteTableNum == MinRouteTableNum + TableCount
localDirectTableNum == 39999
toOverlaySubnetTableNum == 40000
overlayMarkTableNum == 40001

SubnetTables == MinRouteTableNum .. (MaxRouteTableNum - 1)
FixedTables == {NodeLocalTableNum, MainTableNum, ForeignTableNum, localDirectTableNum,
                toOverlaySubnetTableNum, overlayMarkTableNum}

Via(dst, dev, gw) == [dst |-> dst, type |-> "unicast", dev |-> dev, gw |-> gw]
Throw(dst) == [dst |-> dst, type |-> "throw", dev |-> "", gw |-> NoIP]

RouteReplace(table, route) == {r \in table : r.dst # route.dst} \cup {route}
RouteReplaceAll(table, routes) ==
    {r \in table : \A s \in routes : r.dst # s.dst} \cup routes

Rule(prio, src, table, mark) == [prio |-> prio, src |-> src, table |-> table, mark |-> mark]

\* The interface and gateway for packets from src, by destination.
Lookup(k, src, mark) ==
    LET rules == {r \in k.rules : (r.src = None \/ src \in Members(r.src)) /\ (r.mark => mark)}
        Candidates(t, dst) == {r \in k.tables[t] : dst \in Members(r.dst)}
        Best(t, dst) == CHOOSE r \in Candidates(t, dst) : \A s \in Candidates(t, dst) : r.dst.len >= s.dst.len
        Hits(dst) == {r \in rules : Candidates(r.table, dst) # {} /\ Best(r.table, dst).type # "throw"}
        First(dst) == CHOOSE r \in Hits(dst) : \A s \in Hits(dst) : r.prio <= s.prio
    IN  [dst \in Destinations |-> LET route == Best(First(dst).table, dst) IN <<route.dev, route.gw>>]

Objects == [subnets |-> subnets, remotes |-> remotes, networks |-> networks]

(***************************************************************************)
(* Users, the Network status controller, and the watches.  A kind of       *)
(* object changes again only when the cache has seen its last change.      *)
(***************************************************************************)
Edit ==
    /\ edits < MaxEdits
    /\ edits' = edits + 1
    /\ UNCHANGED <<cache, agent, kernel, relabels, faults, flaps>>

\* The webhook admits an update of nothing but the NAT setting.
SetSubnet(s, spec) ==
    /\ cache.subnets = subnets
    /\ s \in DOMAIN subnets => subnets[s].nat # spec.nat /\ [subnets[s] EXCEPT !.nat = spec.nat] = spec
    /\ subnets' = With(subnets, s, spec)
    /\ Edit
    /\ UNCHANGED <<remotes, networks, labels>>

DeleteSubnet(s) ==
    /\ cache.subnets = subnets
    /\ s \in DOMAIN subnets \ Permanent
    /\ subnets' = Without(subnets, s)
    /\ Edit
    /\ UNCHANGED <<remotes, networks, labels>>

SetRemoteSubnet(s, spec) ==
    /\ cache.remotes = remotes
    /\ s \in DOMAIN remotes => remotes[s] # spec
    /\ remotes' = With(remotes, s, spec)
    /\ Edit
    /\ UNCHANGED <<subnets, networks, labels>>

DeleteRemoteSubnet(s) ==
    /\ cache.remotes = remotes
    /\ s \in DOMAIN remotes
    /\ remotes' = Without(remotes, s)
    /\ Edit
    /\ UNCHANGED <<subnets, networks, labels>>

LabelNode(n) ==
    /\ relabels < MaxRelabels
    /\ relabels' = relabels + 1
    /\ labels' = [labels EXCEPT ![n] = ~@]
    /\ UNCHANGED <<subnets, remotes, networks, cache, agent, kernel, edits, faults, flaps>>

\* The status controller writes both lists of a Network in one patch.
PatchNetworkStatus(n) ==
    /\ cache.networks = networks
    /\ LET status == [member |-> labels[n],
                      subnets |-> {s \in DOMAIN subnets : subnets[s].net = n}]
       IN  /\ networks[n] # status
           /\ networks' = [networks EXCEPT ![n] = status]
    /\ UNCHANGED <<subnets, remotes, labels, cache, agent, kernel, counters>>

\* Mutant of NetworkPredicate: a status update wakes no one.
ConfigOnly(old, new) == FALSE

\* As written: an update passes if one of the lists stayed the same.
NetworkPredicate(old, new) == old.subnets = new.subnets \/ old.member = new.member

\* The predicate compares every field of a spec, so a change always passes.
DeliverSubnet ==
    /\ cache.subnets # subnets
    /\ cache' = [cache EXCEPT !.subnets = subnets]
    /\ queued' = TRUE
    /\ UNCHANGED <<api, worker, overlayIf, synced, current, tried, kernel, counters>>

DeliverRemoteSubnet ==
    /\ cache.remotes # remotes
    /\ cache' = [cache EXCEPT !.remotes = remotes]
    /\ queued' = TRUE
    /\ UNCHANGED <<api, worker, overlayIf, synced, current, tried, kernel, counters>>

DeliverNetwork(n) ==
    /\ cache.networks[n] # networks[n]
    /\ cache' = [cache EXCEPT !.networks = networks]
    /\ queued' = (queued \/ NetworkPredicate(cache.networks[n], networks[n]))
    /\ UNCHANGED <<api, worker, overlayIf, synced, current, tried, kernel, counters>>

\* The periodic resync delivers every Network as an update of itself; one that finds the
\* reconciler busy is one that comes right after.
Resync ==
    /\ worker.at = "idle" /\ ~queued
    /\ queued' = \E n \in Networks : NetworkPredicate(cache.networks[n], cache.networks[n])
    /\ UNCHANGED <<api, cache, worker, overlayIf, synced, current, tried, kernel, counters>>

(***************************************************************************)
(* What the managers are asked for.  AddSubnetInfo keys by CIDR: the first *)
(* Subnet of a CIDR in the list decides, the others add their ranges.      *)
(***************************************************************************)
SubnetsOf(c, cidr) == {s \in DOMAIN c.subnets : c.subnets[s].cidr = cidr}

\* The included range of a spec, none if it names neither end.
IncludedRange(spec) ==
    IF spec.start = NoIP /\ spec.end = NoIP THEN <<>>
    ELSE CreateIPRange(IF spec.start = NoIP THEN spec.cidr.ip ELSE spec.start,
                       IF spec.end = NoIP THEN LastIP(spec.cidr) ELSE spec.end)

ForwardIf(s, mode, onHost) ==
    CASE mode = "Vxlan" -> VxlanIf
      [] mode = "Vlan" /\ onHost -> VlanIf[s]
      [] mode = "BGP" /\ onHost -> BGPIf
      [] OTHER -> ""

AddSubnetInfo(c, cidr, first) ==
    LET spec == c.subnets[first]
        mode == Mode[spec.net]
        onHost == c.networks[spec.net].member
        names == SetToSeq(SubnetsOf(c, cidr))
        gateway == IF mode = "BGP" /\ onHost THEN Peer ELSE spec.gateway
        ranges == FlattenSeq([i \in DOMAIN names |-> IncludedRange(c.subnets[names[i]])])
        exclude == FlattenSeq([i \in DOMAIN names |-> c.subnets[names[i]].exclude])
    IN  [cidr |-> cidr, mode |-> mode, onHost |-> onHost, dev |-> ForwardIf(first, mode, onHost),
         nat |-> mode = "Vxlan" /\ spec.nat, gateway |-> gateway, ranges |-> ranges, exclude |-> exclude]

AddRemoteSubnetInfo(c, s) ==
    LET spec == c.remotes[s]
    IN  [cidr |-> spec.cidr, gateway |-> spec.gateway, overlay |-> spec.overlay,
         ranges |-> IncludedRange(spec), exclude |-> spec.exclude]

\* What a list of the objects in c may ask for: which Subnet of a CIDR comes first is open.
InfosOf(c) ==
    LET cidrs == {c.subnets[s].cidr : s \in DOMAIN c.subnets}
    IN  {[local |-> {AddSubnetInfo(c, d, first[d]) : d \in cidrs},
          remote |-> {AddRemoteSubnetInfo(c, s) : s \in DOMAIN c.remotes}] :
            first \in {f \in [cidrs -> DOMAIN c.subnets] : \A d \in cidrs : f[d] \in SubnetsOf(c, d)}}

Overlays(infos) == {i \in infos.local : i.mode = "Vxlan"}
Underlays(infos) == infos.local \ Overlays(infos)
RemoteOverlays(infos) == {i \in infos.remote : i.overlay}
RemoteUnderlays(infos) == infos.remote \ RemoteOverlays(infos)
Cidrs(set) == {i.cidr : i \in set}

Blocks(i) == FindSubnetExcludeIPBlocks(i.cidr, i.ranges, i.gateway, i.exclude)
findExcludeIPBlockMap(set) == UNION {Blocks(i).blocks : i \in set}

Idle == [at |-> "idle", listed |-> None, infos |-> None, todo |-> {}, table |-> 0, cidr |-> None]

\* The sync ends in an error, and the key goes back to the queue.
Requeue ==
    /\ worker' = Idle
    /\ queued' = TRUE
    /\ tried' = tried \cup {worker.infos}
    /\ UNCHANGED <<overlayIf, synced, current>>

OverlayIfName(infos) == IF Overlays(infos) = {} THEN overlayIf ELSE VxlanIf

\* The reconciler lists the Subnets, creates missing vlan interfaces and fills the maps.
StartReconcile ==
    /\ worker.at = "idle" /\ queued
    /\ queued' = FALSE
    /\ \E infos \in InfosOf(cache) :
         /\ worker' = [Idle EXCEPT !.at = "basic", !.listed = cache, !.infos = infos]
         /\ kernel' = [kernel EXCEPT !.links = @ \cup
                {i.dev : i \in {j \in infos.local : j.mode = "Vlan" /\ j.onHost}}]
         /\ overlayIf' = OverlayIfName(infos)
    /\ UNCHANGED <<api, cache, synced, current, tried, counters>>

(***************************************************************************)
(* SyncRoutes: the basic rules.                                            *)
(***************************************************************************)
findHighestUnusedRulePriority(rules) ==
    Min({p \in 0 .. MaxRulePriority :
           /\ \A r \in rules : r.prio # p
           /\ \A r \in rules : r.table = NodeLocalTableNum => p > r.prio})

\* Mutant of BasicRules: the overlay-mark rule comes before the to-overlay rule.
MarkBeforeOverlay == <<localDirectTableNum, overlayMarkTableNum, toOverlaySubnetTableNum>>

BasicRules == <<localDirectTableNum, toOverlaySubnetTableNum, overlayMarkTableNum>>

MissingBasic == {i \in DOMAIN BasicRules :
                   ~\E r \in kernel.rules : r.src = None /\ r.table = BasicRules[i]}

AppendBasicRule ==
    /\ worker.at = "basic" /\ MissingBasic # {}
    /\ LET table == BasicRules[Min(MissingBasic)]
       IN  kernel' = [kernel EXCEPT !.rules = @ \cup
             {Rule(findHighestUnusedRulePriority(@), None, table, table = overlayMarkTableNum)}]
    /\ UNCHANGED <<api, cache, agent, counters>>

(***************************************************************************)
(* SyncRoutes: the to-overlay-pod-subnet and the overlay-mark table.       *)
(***************************************************************************)
ensureExcludedIPBlockRoutes(table, blocks) ==
    RouteReplaceAll({r \in table : r.type = "throw" => r.dst \in blocks}, {Throw(b) : b \in blocks})

\* Routes of subnets that still exist, and every throw route.
KeptOverlayRoutes(infos) ==
    {r \in kernel.tables[toOverlaySubnetTableNum] :
        \/ r.type = "throw"
        \/ r.dst \in Cidrs(Overlays(infos) \cup RemoteOverlays(infos))}

MissingOverlayRoutes(infos) ==
    {c \in Cidrs(Overlays(infos) \cup RemoteOverlays(infos)) :
       ~\E r \in KeptOverlayRoutes(infos) : r.type # "throw" /\ r.dst = c}

RangesValid(infos) == \A i \in infos.local \cup infos.remote : Blocks(i).ok

\* Both tables need the one link of the overlay.
OverlayLinkThere(infos) ==
    /\ MissingOverlayRoutes(infos) # {} => overlayIf \in kernel.links
    /\ overlayIf # "" => overlayIf \in kernel.links

ensureToOverlaySubnetRoutes ==
    /\ worker.at = "basic" /\ MissingBasic = {}
    /\ LET infos == worker.infos
           routes == {Via(c, VxlanIf, NoIP) : c \in MissingOverlayRoutes(infos)}
           blocks == findExcludeIPBlockMap(Overlays(infos) \cup RemoteOverlays(infos))
       IN  /\ RangesValid(infos) /\ OverlayLinkThere(infos)
           /\ kernel' = [kernel EXCEPT
                !.tables[toOverlaySubnetTableNum] =
                    ensureExcludedIPBlockRoutes(RouteReplaceAll(KeptOverlayRoutes(infos), routes), blocks),
                !.tables[overlayMarkTableNum] =
                    IF overlayIf = "" THEN @ ELSE RouteReplace(@, Via(Default, overlayIf, NoIP))]
    /\ worker' = [worker EXCEPT !.at = "prune", !.todo = kernel.rules]
    /\ UNCHANGED <<api, cache, queued, overlayIf, synced, current, tried, counters>>

\* Invalid ranges end the sync at once, a missing link after the deletions.
OverlaySyncFails ==
    /\ worker.at = "basic" /\ MissingBasic = {}
    /\ ~(RangesValid(worker.infos) /\ OverlayLinkThere(worker.infos))
    /\ kernel' = IF RangesValid(worker.infos)
                 THEN [kernel EXCEPT !.tables[toOverlaySubnetTableNum] = KeptOverlayRoutes(worker.infos)]
                 ELSE kernel
    /\ Requeue
    /\ UNCHANGED <<api, cache, counters>>

(***************************************************************************)
(* SyncRoutes: rules of subnets that are gone.                             *)
(***************************************************************************)
\* Mutant of checkIsFromPodSubnetRule: only tables of underlay subnets are recognised.
UnderlayTableOnly(rule) ==
    LET routes == kernel.tables[rule.table]
    IN  /\ rule.src # None /\ rule.table \in SubnetTables
        /\ \E r \in routes : r.dst = Default /\ Cardinality(routes) = 2

checkIsFromPodSubnetRule(rule) ==
    LET routes == kernel.tables[rule.table]
    IN  /\ rule.src # None /\ rule.table \in SubnetTables
        /\ \E r \in routes : /\ r.type # "throw"
                             /\ \/ r.dst = Default /\ Cardinality(routes) = 2
                                \/ r.dev = VxlanIf

\* Mutant of Stale: rules of underlay subnets that are not on the host go as well.
NotOnHost(rule) ==
    /\ checkIsFromPodSubnetRule(rule)
    /\ rule.src \notin Cidrs({i \in worker.infos.local : i.mode = "Vxlan"})

Stale(rule) ==
    /\ checkIsFromPodSubnetRule(rule)
    /\ rule.src \notin Cidrs(worker.infos.local)

\* The loop over the rules listed, from one stale rule to the next.
PruneRule ==
    /\ worker.at = "prune"
    /\ \E rule \in worker.todo :
         /\ Stale(rule)
         /\ \A r \in worker.todo : Stale(r) => rule.prio <= r.prio
         /\ worker' = [worker EXCEPT !.todo = {r \in @ : r.prio > rule.prio}]
         /\ kernel' = [kernel EXCEPT !.rules = @ \ {rule}, !.tables[rule.table] = {}]
    /\ UNCHANGED <<api, cache, queued, overlayIf, synced, current, tried, counters>>

PruneDone ==
    /\ worker.at = "prune" /\ ~\E r \in worker.todo : Stale(r)
    /\ worker' = [worker EXCEPT !.at = "from",
                    !.todo = Overlays(worker.infos) \cup {i \in Underlays(worker.infos) : i.onHost}]
    /\ UNCHANGED <<api, cache, queued, overlayIf, synced, current, tried, kernel, counters>>

(***************************************************************************)
(* SyncRoutes: the table and the rule of every subnet, overlay ones first, *)
(* else in the order of a Go map.                                          *)
(***************************************************************************)
RulesFrom(cidr) == {r \in kernel.rules : r.src = cidr}
EmptyTables == {t \in SubnetTables : kernel.tables[t] = {}}
TableFor(cidr) ==
    IF RulesFrom(cidr) # {}
    THEN (CHOOSE r \in RulesFrom(cidr) : \A s \in RulesFrom(cidr) : r.prio <= s.prio).table
    ELSE Min(EmptyTables)

\* Mutant of ensureRoutesForVxlanSubnet: the throw routes of an earlier range stay.
KeepsOldBlocks(table, i, infos) ==
    LET under == Underlays(infos) \cup RemoteUnderlays(infos)
    IN  IF ~i.nat THEN {Via(Default, i.dev, NoIP)}
        ELSE RouteReplaceAll({r \in table : r.type = "throw" \/ r.dst \in Cidrs(under)},
                             {Via(c, i.dev, NoIP) : c \in Cidrs(under)}
                             \cup {Throw(b) : b \in findExcludeIPBlockMap(under)})

\* Without NAT all traffic leaves through the overlay, with NAT that to underlay pods.
ensureRoutesForVxlanSubnet(table, i, infos) ==
    LET under == Underlays(infos) \cup RemoteUnderlays(infos)
        kept == {r \in table : r.type = "throw" \/ r.dst \in Cidrs(under)}
    IN  IF ~i.nat THEN {Via(Default, i.dev, NoIP)}
        ELSE ensureExcludedIPBlockRoutes(
                RouteReplaceAll(kept, {Via(c, i.dev, NoIP) : c \in Cidrs(under)}),
                findExcludeIPBlockMap(under))

ensureRoutesForVlanSubnet(table, i) ==
    RouteReplaceAll(table, {Via(i.cidr, i.dev, NoIP), Via(Default, i.dev, i.gateway)})

ensureRoutesForBGPSubnet(table, i) == RouteReplace(table, Via(Default, i.dev, i.gateway))

NextInfo(i) == i \in worker.todo /\ (i.mode = "Vxlan" \/ Overlays([local |-> worker.todo]) = {})

ensureFromPodSubnetRoutes(i) ==
    /\ worker.at = "from" /\ NextInfo(i)
    /\ i.dev \in kernel.links
    /\ LET t == TableFor(i.cidr)
       IN  /\ kernel' = [kernel EXCEPT !.tables[t] =
                            CASE i.mode = "Vxlan" -> ensureRoutesForVxlanSubnet(@, i, worker.infos)
                              [] i.mode = "Vlan" -> ensureRoutesForVlanSubnet(@, i)
                              [] i.mode = "BGP" -> ensureRoutesForBGPSubnet(@, i)]
           /\ worker' = IF RulesFrom(i.cidr) # {} THEN [worker EXCEPT !.todo = @ \ {i}]
                        ELSE [worker EXCEPT !.at = "rule", !.todo = @ \ {i}, !.table = t, !.cidr = i.cidr]
    /\ UNCHANGED <<api, cache, queued, overlayIf, synced, current, tried, counters>>

\* The rule comes last, once its table is complete.
AddFromPodSubnetRule ==
    /\ worker.at = "rule"
    /\ kernel' = [kernel EXCEPT !.rules = @ \cup
         {Rule(findHighestUnusedRulePriority(@), worker.cidr, worker.table, FALSE)}]
    /\ worker' = [worker EXCEPT !.at = "from", !.table = 0, !.cidr = None]
    /\ UNCHANGED <<api, cache, queued, overlayIf, synced, current, tried, counters>>

FinishReconcile ==
    /\ worker.at = "from" /\ worker.todo = {}
    /\ worker' = Idle
    /\ synced' = worker.infos /\ current' = worker.listed
    /\ tried' = {}
    /\ UNCHANGED <<api, cache, queued, overlayIf, kernel, counters>>

(***************************************************************************)
(* Faults: a request fails (netlink, the BGP server, a missing link), the  *)
(* daemon restarts, a link goes down and up again.                         *)
(***************************************************************************)
Fail ==
    /\ worker.at # "idle" /\ faults < MaxFaults
    /\ faults' = faults + 1
    /\ Requeue
    /\ UNCHANGED <<api, cache, kernel, edits, relabels, flaps>>

\* CreateRouteManager starts with empty maps; the first list fills the queue.
Restart ==
    /\ faults < MaxFaults
    /\ faults' = faults + 1
    /\ worker' = Idle /\ overlayIf' = "" /\ queued' = TRUE
    /\ tried' = IF worker.at = "idle" THEN tried ELSE tried \cup {worker.infos}
    /\ cache' = Objects
    /\ UNCHANGED <<api, synced, current, kernel, edits, relabels, flaps>>

\* The node reconciler creates the vxlan interface and triggers this one.
VxlanReady ==
    /\ VxlanIf \notin kernel.links
    /\ kernel' = [kernel EXCEPT !.links = @ \cup {VxlanIf}]
    /\ queued' = TRUE
    /\ UNCHANGED <<api, cache, worker, overlayIf, synced, current, tried, counters>>

Settled == cache = Objects /\ worker.at = "idle" /\ ~queued

\* The kernel drops the routes of the link; its way up triggers the reconciler.
LinkFlap(dev) ==
    /\ flaps < MaxFlaps /\ edits = MaxEdits /\ relabels = MaxRelabels /\ Settled /\ current = Objects
    /\ \A n \in Networks : networks[n].member = labels[n]
    /\ dev \in kernel.links
    /\ flaps' = flaps + 1
    /\ kernel' = [kernel EXCEPT !.tables = [t \in DOMAIN @ |-> {r \in @[t] : r.dev # dev}]]
    /\ queued' = TRUE /\ synced' = None /\ current' = None /\ tried' = {}
    /\ UNCHANGED <<api, cache, worker, overlayIf, edits, relabels, faults>>

(***************************************************************************)
(* The specification.                                                      *)
(***************************************************************************)
Init ==
    /\ subnets \in Spec0s /\ remotes = Remote0
    /\ labels = Labels0
    /\ networks = [n \in Networks |-> [member |-> labels[n],
                                       subnets |-> {s \in DOMAIN subnets : subnets[s].net = n}]]
    /\ cache = Objects
    /\ queued = TRUE /\ worker = Idle /\ overlayIf = ""
    /\ kernel = [rules |-> {Rule(0, None, NodeLocalTableNum, FALSE),
                            Rule(MaxRulePriority - 1, None, MainTableNum, FALSE)}
                           \cup {Rule(p, None, ForeignTableNum, FALSE) : p \in ForeignRules},
                 tables |-> [t \in SubnetTables \cup FixedTables |->
                               CASE t = MainTableNum -> {Via(Default, "host", NoIP)}
                                 [] t = localDirectTableNum ->
                                      {Via([ip |-> p, len |-> Width], "veth", NoIP) : p \in LocalPods}
                                 [] OTHER -> {}],
                 links |-> {BGPIf} \cup {VxlanIf : s \in {t \in DOMAIN subnets : Mode[subnets[t].net] = "Vxlan"}}]
    /\ synced = None /\ current = None /\ tried = {}
    /\ edits = 0 /\ relabels = 0 /\ faults = 0 /\ flaps = 0

Environment ==
    \/ \E s \in Subnets : DeleteSubnet(s) \/ \E spec \in Specs[s] : SetSubnet(s, spec)
    \/ \E s \in RemoteSubnets : DeleteRemoteSubnet(s) \/ \E spec \in RemoteSpecs[s] : SetRemoteSubnet(s, spec)
    \/ \E n \in Networks : (n \in Relabelled /\ LabelNode(n)) \/ PatchNetworkStatus(n)
    \/ VxlanReady
    \/ \E dev \in kernel.links : LinkFlap(dev)

Deliver == DeliverSubnet \/ DeliverRemoteSubnet \/ \E n \in Networks : DeliverNetwork(n)

SyncStep ==
    \/ StartReconcile \/ AppendBasicRule \/ ensureToOverlaySubnetRoutes \/ OverlaySyncFails
    \/ PruneRule \/ PruneDone
    \/ \E i \in worker.todo : worker.at = "from" /\ ensureFromPodSubnetRoutes(i)
    \/ AddFromPodSubnetRule \/ FinishReconcile

Next == Environment \/ Deliver \/ Resync \/ SyncStep \/ Fail \/ Restart

Spec == Init /\ [][Next]_vars

\* The watches deliver, the worker goes on, the Network status controller and the node
\* reconciler get there in the end, and the informers resync.
FairSpec ==
    /\ Spec
    /\ WF_vars(Deliver) /\ WF_vars(SyncStep) /\ WF_vars(VxlanReady) /\ WF_vars(Resync)
    /\ WF_vars(\E n \in Networks : PatchNetworkStatus(n))

(***************************************************************************)
(* Properties.                                                             *)
(***************************************************************************)
\* The addresses that FindSubnetExcludeIPBlocks should cover, without any blocks.
ExcludedAddresses(i) ==
    (IF i.ranges = <<>> THEN {}
     ELSE Members(i.cidr) \ UNION {r.start .. r.end : r \in ToSet(i.ranges)})
    \cup ToSet(i.exclude) \cup ({i.gateway} \ {NoIP})

PodAddresses(i) == Members(i.cidr) \ ExcludedAddresses(i)
PodsOf(infos) == UNION {PodAddresses(i) : i \in infos}

\* Where packets of the pods of a subnet should go, by destination: the rules in the order of
\* the diagram of route.go.
Expected(infos, me, mark) ==
    LET overlay == PodsOf(Overlays(infos) \cup RemoteOverlays(infos))
        underlay == PodsOf(Underlays(infos) \cup RemoteUnderlays(infos))
    IN  [dst \in Destinations |->
           IF dst \in LocalPods THEN <<"veth", NoIP>>
           ELSE IF mark \/ dst \in overlay THEN <<VxlanIf, NoIP>>
           ELSE CASE me.mode = "Vxlan" -> IF ~me.nat \/ dst \in underlay THEN <<VxlanIf, NoIP>>
                                          ELSE <<"host", NoIP>>
                  [] me.mode = "Vlan" -> <<me.dev, IF dst \in Members(me.cidr) THEN NoIP ELSE me.gateway>>
                  [] me.mode = "BGP" -> <<me.dev, Peer>>]

\* Subnets whose pods may be on this node, and a pod of each.
Hosted(infos) == {i \in infos.local : i.mode = "Vxlan" \/ i.onHost}
PodOf(i) == Min(PodAddresses(i))

Complete == worker.at = "idle" /\ synced # None /\ tried = {}

\* SyncRoutes: once it has succeeded, the kernel sends every packet of a pod of every subnet
\* where the subnets, their excluded addresses and their NAT setting say.
LookupAsSpecified ==
    Complete =>
      \A i \in Hosted(synced), mark \in BOOLEAN :
        (mark => Overlays(synced) # {}) =>
          Lookup(kernel, PodOf(i), mark) = Expected(synced, i, mark)

Configs == ({synced, worker.infos} \cup tried) \ {None}

\* SyncRoutes in progress, failed or interrupted: traffic that the old and the new subnets
\* route alike is routed so at every moment in between.
FlowsUndisturbed ==
    synced # None =>
      LET excluded == UNION {ExcludedAddresses(j) : j \in UNION {c.local \cup c.remote : c \in Configs}}
      IN  \A i \in {j \in Hosted(synced) : \A c \in Configs : j \in c.local} :
            LET expected == {Expected(c, i, FALSE) : c \in Configs}
                found == Lookup(kernel, PodOf(i), FALSE)
            IN  \A dst \in Destinations \ excluded :
                  Cardinality({e[dst] : e \in expected}) = 1 => found[dst] \in {e[dst] : e \in expected}

\* The diagram of route.go: local-pod-direct, to-overlay, overlay-mark, then the rules from
\* pod subnets.
RuleOrder ==
    LET Prios(t) == {r.prio : r \in {q \in kernel.rules : q.table = t}}
        from == {r \in kernel.rules : r.src # None}
    IN  from # {} =>
          \A a \in Prios(localDirectTableNum), b \in Prios(toOverlaySubnetTableNum),
             c \in Prios(overlayMarkTableNum), r \in from : a < b /\ b < c /\ c < r.prio

\* SyncRoutes deletes the rules of subnets that are gone, those of BGP subnets excepted.
NoStaleRules ==
    Complete =>
      \A r \in kernel.rules :
        (\E s \in Subnets : \E spec \in Specs[s] : spec.cidr = r.src /\ Mode[spec.net] # "BGP")
        => r.src \in Cidrs(synced.local)

\* However subnets, node lists, links and the daemon change: in the end the node is synced
\* with the objects as they are.
Converges == <>[](current = Objects)
====
