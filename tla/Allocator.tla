------------------------------ MODULE Allocator ------------------------------
(***************************************************************************)
(* The in-memory allocator of hybridnet-manager, pkg/ipam/allocator: the   *)
(* DualStackAllocator, or the Allocator when the dual-stack feature is     *)
(* off.  Every method runs under the allocator's mutex, so each one is a   *)
(* single step.  A call that returns an error before it changed anything   *)
(* is a stuttering step and has no action: its conditions are the guards.  *)
(***************************************************************************)
EXTENDS IPAMTypes

CONSTANTS
    NetworkNames,
    SubnetNames,
    Pods,
    Addresses,          \* the addresses that callers name
    DualStackEnabled,   \* the feature gate: which of the two allocators runs
    NetworkSpecs,       \* what the getter of a network may answer
    SubnetLists,        \* the lists of subnets that the subnet getter may answer
    IPSets              \* name of a subnet |-> the sets the IPSetGetter may answer

ASSUME NamesAssumption == NoName \notin SubnetNames /\ NoPod \notin Pods

SubnetSpecs ==
    [Name : SubnetNames, NetID : Int, CIDR : [First : Nat, Last : Nat], Start : Int,
     End : Int, Gateway : Int, ReservedList : SUBSET Nat, BlackList : SUBSET Nat,
     LastAllocatedIP : Int, Private : BOOLEAN, IPv6 : BOOLEAN]

IPSetOK(set) ==
    set \in [DOMAIN set -> [Pod    : Pods \cup {NoPod},
                            Status : {IPStatusUsing, IPStatusReserved, IPStatusUnset}]]

\* A subnet object's name is unique, and an address is a number.
ASSUME InputsAssumption ==
    /\ SubnetLists \subseteq Seq(SubnetSpecs)
    /\ \A subnets \in SubnetLists : \A i, j \in DOMAIN subnets :
          subnets[i].Name = subnets[j].Name => i = j
    /\ Addresses \subseteq Nat
    /\ \A s \in SubnetNames : \A set \in IPSets[s] :
          DOMAIN set \subseteq Nat /\ IPSetOK(set)

VARIABLE
    Networks            \* the NetworkSet: the networks that are known, by name

vars == <<Networks>>

Init == Networks = [n \in {} |-> {}]

(***************************************************************************)
(* refreshNetwork rebuilds one network from the three getters.  A getter   *)
(* that fails, or a subnet that is not valid, leaves the old one.          *)
(***************************************************************************)
RefreshNetwork(n) ==
    \E spec \in NetworkSpecs, subnets \in SubnetLists :
        /\ \A i \in DOMAIN subnets : Validate(subnets[i])
        /\ \E ipSets \in [SubnetNames -> UNION {IPSets[s] : s \in SubnetNames}] :
              /\ \A s \in SubnetNames : ipSets[s] \in IPSets[s]
              /\ Networks' = [m \in DOMAIN Networks \cup {n} |->
                                IF m = n
                                THEN NewNetwork(spec, subnets, ipSets)
                                ELSE Networks[m]]

RemoveNetwork(n) ==
    /\ n \in DOMAIN Networks
    /\ Networks' = [m \in DOMAIN Networks \ {n} |-> Networks[m]]

(***************************************************************************)
(* Allocate.                                                               *)
(***************************************************************************)
\* Subnet s of network n becomes t, after the selection that moved the index.
SetSubnet(n, network, s, t) ==
    Networks' = [Networks EXCEPT ![n] = WithSubnet(network, s, t)]

AllocateFrom(n, name, s, pod) ==
    /\ s # NoName
    /\ SetSubnet(n, MoveIndex(Networks[n], name, s), s,
                 AllocateNext(Networks[n].Subnets[s], pod))

\* allocateIPv4Only and allocateIPv6Only; name is NoName when the list of
\* subnets is empty, and a longer list is refused.
AllocateOf(n, name, ipv6, pod) ==
    /\ n \in DOMAIN Networks
    /\ AllocateFrom(n, name, GetSubnetOf(Networks[n], name, ipv6), pod)

\* The Allocate of the single-stack allocator.
AllocateAny(n, name, pod) ==
    /\ n \in DOMAIN Networks
    /\ AllocateFrom(n, name, GetSubnet(Networks[n], name), pod)

\* Mutant: the IPv4 address is kept when no IPv6 address is left.
AllocatePairKeepingIPv4(network, pair, pod) ==
    LET v4 == network.Subnets[pair[1]]
        v6 == network.Subnets[pair[2]]
    IN  WithSubnet(WithSubnet(network, pair[1], AllocateNext(v4, pod)),
                   pair[2], AllocateNext(v6, pod))

\* What a dual-stack allocation makes of a network, given the pair of subnets
\* <<IPv4, IPv6>>.  An IPv4 address without an IPv6 one is given back.
AllocatePair(network, pair, pod) ==
    LET v4 == network.Subnets[pair[1]]
        v6 == network.Subnets[pair[2]]
    IN  IF FreeIPs(v4) = {}
        THEN WithSubnet(network, pair[1], AllocateNext(v4, pod))
        ELSE WithSubnet(WithSubnet(network, pair[1],
                                   IF FreeIPs(v6) = {}
                                   THEN Release(AllocateNext(v4, pod), NextIP(v4))
                                   ELSE AllocateNext(v4, pod)),
                        pair[2], AllocateNext(v6, pod))

AllocateDualStack(n, v4Name, v6Name, pod) ==
    /\ n \in DOMAIN Networks
    /\ LET pair == GetPairedDualStackSubnets(Networks[n], v4Name, v6Name)
           auto == v4Name = NoName \/ v6Name = NoName
       IN  /\ pair # <<>>
           /\ Networks' = [Networks EXCEPT ![n] =
                             AllocatePair(MoveIndex(@, IF auto THEN NoName ELSE v4Name, pair[1]),
                                          pair, pod)]

(***************************************************************************)
(* Assign.                                                                 *)
(***************************************************************************)
\* assignIPv4Only, assignIPv6Only and the Assign of the single-stack allocator.
AssignOne(n, name, ip, pod, forced) ==
    /\ n \in DOMAIN Networks
    /\ LET s == GetSubnetByIP(Networks[n], name, ip)
       IN  /\ s # NoName
           /\ Assignable(Networks[n].Subnets[s], pod, ip, forced)
           /\ SetSubnet(n, Networks[n], s, Assign(Networks[n].Subnets[s], pod, ip))

\* The IPv4 address stays assigned when the IPv6 one cannot be.
AssignDualStack(n, v4Name, v6Name, ipv4, ipv6, pod, forced) ==
    /\ n \in DOMAIN Networks
    /\ LET s4   == GetSubnetByIP(Networks[n], v4Name, ipv4)
           s6   == GetSubnetByIP(Networks[n], v6Name, ipv6)
           next == WithSubnet(Networks[n], s4, Assign(Networks[n].Subnets[s4], pod, ipv4))
       IN  /\ s4 # NoName /\ s6 # NoName
           /\ Assignable(Networks[n].Subnets[s4], pod, ipv4, forced)
           /\ SetSubnet(n, next, s6,
                        IF Assignable(next.Subnets[s6], pod, ipv6, forced)
                        THEN Assign(next.Subnets[s6], pod, ipv6)
                        ELSE next.Subnets[s6])

(***************************************************************************)
(* Release.                                                                *)
(***************************************************************************)
\* releaseIP and the Release of the single-stack allocator.
ReleaseIP(n, s, ip) ==
    /\ n \in DOMAIN Networks
    /\ s \in DOMAIN Networks[n].Subnets
    /\ SetSubnet(n, Networks[n], s, Release(Networks[n].Subnets[s], ip))

\* releaseIPs on two addresses stops at the first subnet it does not find.
ReleaseIPs(n, s, ip, t, jp) ==
    /\ n \in DOMAIN Networks
    /\ s \in DOMAIN Networks[n].Subnets
    /\ LET next == WithSubnet(Networks[n], s, Release(Networks[n].Subnets[s], ip))
       IN  IF t \in DOMAIN next.Subnets
           THEN SetSubnet(n, next, t, Release(next.Subnets[t], jp))
           ELSE Networks' = [Networks EXCEPT ![n] = next]

(***************************************************************************)
(* The callers: the pod reconciler, the IPInstance reconciler and the IPAM *)
(* reconciler, in any order.  A caller names subnets or leaves the choice  *)
(* to the allocator.                                                       *)
(***************************************************************************)
Requested == SubnetNames \cup {NoName}

\* assign and multiAssign let the allocator find the subnets; they force.
AssignCall(n) ==
    \E ip \in Addresses, pod \in Pods, forced \in BOOLEAN : AssignOne(n, NoName, ip, pod, forced)

ReleaseCall(n) == \E s \in SubnetNames, ip \in Addresses : ReleaseIP(n, s, ip)

SingleStackCall(n) ==
    \/ \E name \in Requested, pod \in Pods : AllocateAny(n, name, pod)
    \/ AssignCall(n)
    \/ ReleaseCall(n)

DualStackCall(n) ==
    \/ \E name \in Requested, ipv6 \in BOOLEAN, pod \in Pods : AllocateOf(n, name, ipv6, pod)
    \/ AssignCall(n)
    \/ ReleaseCall(n)
    \/ \E v4Name, v6Name \in Requested, pod \in Pods : AllocateDualStack(n, v4Name, v6Name, pod)
    \/ \E ipv4, ipv6 \in Addresses, pod \in Pods :
          AssignDualStack(n, NoName, NoName, ipv4, ipv6, pod, TRUE)
    \/ \E s, t \in SubnetNames, ip, jp \in Addresses : s # t /\ ReleaseIPs(n, s, ip, t, jp)

Call(n) == IF DualStackEnabled THEN DualStackCall(n) ELSE SingleStackCall(n)

Next ==
    \E n \in NetworkNames :
        RefreshNetwork(n) \/ RemoveNetwork(n) \/ Call(n)

Spec == Init /\ [][Next]_vars

(***************************************************************************)
(* Properties.                                                             *)
(***************************************************************************)
SubnetTypeOK(s) ==
    /\ IPSetOK(s.UsingIPs)
    /\ s.Current \in s.AvailableIPs \cup {Nil}

NetworkTypeOK(n) ==
    /\ DOMAIN n.Subnets \subseteq SubnetNames
    /\ \A s \in DOMAIN n.Subnets : SubnetTypeOK(n.Subnets[s])
    /\ \A i \in DOMAIN n.Order : n.Order[i] \in DOMAIN n.Subnets
    /\ n.SubnetIndex \in DOMAIN n.Order \/ n.Order = <<>>

\* The types, and that both round-robin indexes stay inside their slices.
TypeOK ==
    /\ DOMAIN Networks \subseteq NetworkNames
    /\ \A n \in DOMAIN Networks : NetworkTypeOK(Networks[n])

EverySubnet(P(_)) ==
    \A n \in DOMAIN Networks : \A s \in DOMAIN Networks[n].Subnets : P(Networks[n].Subnets[s])

\* An address is recorded as in use only if the subnet may hand it out: in
\* its range, not the gateway, not excluded.  Every reserved address is
\* recorded all the time, which is what keeps AllocateNext away from it.
UsageInRange(s) ==
    /\ \A ip \in DOMAIN s.UsingIPs : Contains(s, ip)
    /\ s.ReservedList \subseteq DOMAIN s.UsingIPs

OnlyContainedIPsInUse == EverySubnet(UsageInRange)

\* IsAvailable compares two counters.  It is true exactly when a subnet that
\* is not private still has a free address, and the count of used addresses
\* is the number of non-reserved ones in use: the unsigned subtractions of
\* Usage never wrap around.
AccountingExact(s) ==
    /\ IsAvailable(s) <=> (FreeIPs(s) # {} /\ ~s.Private)
    /\ UsingIPCount(s) = Cardinality(DOMAIN s.UsingIPs \cap s.AvailableIPs)
    /\ UsingIPCount(s) \in 0 .. Cardinality(s.AvailableIPs)

AvailabilityExact == EverySubnet(AccountingExact)

\* A subnet that the allocator picks by itself always has a free address, so
\* that only a call that names its subnets can fail for want of an address;
\* and it picks one whenever a subnet of the family is available.
SelectionOf(n, ipv6) ==
    LET i == GetAvailableSubnetOf(n, ipv6)
    IN  IF i = 0
        THEN OfFamily(n, AvailableSubnets(n), ipv6) = {}
        ELSE At(n, i).IPv6 = ipv6 /\ FreeIPs(At(n, i)) # {} /\ ~At(n, i).Private

SelectionFindsFreeIP == \A n \in DOMAIN Networks, ipv6 \in BOOLEAN : SelectionOf(Networks[n], ipv6)

\* The two subnets of a dual-stack allocation are an IPv4 and an IPv6 one of
\* the same net ID, both with a free address, and they are found whenever
\* some net ID has two such subnets.
PairSelection(n) ==
    LET pair == GetPairedDualStackSubnets(n, NoName, NoName)
    IN  IF pair = <<>>
        THEN \A i, j \in AvailableSubnets(n) : SameNetID(n, i, j) => At(n, i).IPv6 = At(n, j).IPv6
        ELSE LET v4 == n.Subnets[pair[1]]
                 v6 == n.Subnets[pair[2]]
             IN  /\ ~v4.IPv6 /\ v6.IPv6
                 /\ UnifyNetID(v4.NetID) = UnifyNetID(v6.NetID)
                 /\ FreeIPs(v4) # {} /\ FreeIPs(v6) # {}

PairSelectionFindsFreeIPs == \A n \in DOMAIN Networks : PairSelection(Networks[n])

\* A dual-stack allocation hands out an address of both families or none,
\* although the subnets it is told to use may run out one after the other.
PairAllOrNothing(n, pair, pod) ==
    LET new     == AllocatePair(n, pair, pod)
        Gains(s) == \E ip \in DOMAIN new.Subnets[s].UsingIPs :
                       /\ new.Subnets[s].UsingIPs[ip].Pod = pod
                       /\ ip \notin DOMAIN n.Subnets[s].UsingIPs
    IN  /\ Gains(pair[1]) <=> Gains(pair[2])
        /\ ~Gains(pair[1]) => \A s \in DOMAIN n.Subnets : new.Subnets[s].UsingIPs = n.Subnets[s].UsingIPs

DualStackAllOrNothing ==
    \A n \in DOMAIN Networks, v4Name, v6Name \in Requested, pod \in Pods :
        LET pair == GetPairedDualStackSubnets(Networks[n], v4Name, v6Name)
        IN  pair # <<>> => PairAllOrNothing(Networks[n], pair, pod)

\* Whatever the order of the calls, an address in use passes from one pod to
\* another only if it was retained (Reserved) or its network was read again.
NoSteal ==
    [][\A n \in DOMAIN Networks \cap DOMAIN Networks' :
         \/ \A s \in DOMAIN Networks[n].Subnets \cap DOMAIN Networks'[n].Subnets :
              LET old == Networks[n].Subnets[s].UsingIPs
                  new == Networks'[n].Subnets[s].UsingIPs
              IN  \A ip \in DOMAIN old \cap DOMAIN new :
                    new[ip].Pod = old[ip].Pod \/ old[ip].Status = IPStatusReserved
         \/ RefreshNetwork(n)]_vars

(***************************************************************************)
(* The allocator implements IPPool: the slots are the addresses that the   *)
(* subnets contain.                                                        *)
(***************************************************************************)
Slots(In(_)) ==
    UNION {UNION {{<<n, s, ip>> : ip \in In(Networks[n].Subnets[s])}
                    : s \in DOMAIN Networks[n].Subnets} : n \in DOMAIN Networks}

UsedIPs(s) == DOMAIN s.UsingIPs

ReservedIPs(s) == s.ReservedList

AllocatableSlots == Slots(ContainedIPs)

ReservedSlots == Slots(ReservedIPs)

SlotOwner == [x \in Slots(UsedIPs) |-> Networks[x[1]].Subnets[x[2]].UsingIPs[x[3]]]

Pool == INSTANCE IPPool WITH
            allocatable <- AllocatableSlots,
            reserved    <- ReservedSlots,
            owner       <- SlotOwner

\* Every step of the allocator is a step its callers may expect of IPPool.
ImplementsPool == Pool!PoolSpec
=============================================================================
