------------------------------ MODULE IPAMTypes ------------------------------
(***************************************************************************)
(* The data types of the IP address manager, package pkg/ipam/types: sets  *)
(* and slices of addresses, subnets, the slice of subnets of a network.    *)
(* Every Go method becomes an operator from the old value to the new one.  *)
(*                                                                         *)
(* Addresses are numbers, ordered as ip.Cmp orders them, the IPv4 ones and *)
(* the IPv6 ones disjoint.  A pod stands for the pair of a pod's name and  *)
(* its namespace, which the package always passes and compares together.   *)
(***************************************************************************)
EXTENDS Integers, FiniteSets, Sequences, FiniteSetsExt

CONSTANT NoPod          \* the pod of an address that names none ("" and "")

Nil == -1               \* a nil address and a nil net ID

IPStatusUsing == "Using"
IPStatusReserved == "Reserved"
IPStatusUnset == ""     \* an IPInstance whose status is not written yet

(***************************************************************************)
(* IPSet: a map from an address to the pod that has it and its status.     *)
(***************************************************************************)
EmptyIPSet == [ip \in {} |-> [Pod |-> NoPod, Status |-> IPStatusUnset]]

Add(set, ip, content) ==
    [x \in DOMAIN set \cup {ip} |-> IF x = ip THEN content ELSE set[x]]

Delete(set, ip) == [x \in DOMAIN set \ {ip} |-> set[x]]

\* An empty name leaves the old one in place.
Update(set, ip, pod, status) ==
    IF ip \in DOMAIN set
    THEN [set EXCEPT ![ip] = [Pod    |-> IF pod = NoPod THEN @.Pod ELSE pod,
                              Status |-> status]]
    ELSE set

(***************************************************************************)
(* Subnet.  A subnet's specification has the fields Name, NetID, CIDR (a   *)
(* record of its First and Last address), Start, End, Gateway,             *)
(* ReservedList, BlackList, LastAllocatedIP, Private and IPv6.  Sync adds  *)
(* UsingIPs, ReservedIPCount and the slice of the addresses to hand out,   *)
(* which is sorted and never changes afterwards: it is kept as the set     *)
(* AvailableIPs and, for the slice's index, the address Current (Nil when  *)
(* the index is -1).                                                       *)
(***************************************************************************)
InCIDR(s, ip) == s.CIDR.First <= ip /\ ip <= s.CIDR.Last

Validate(s) ==
    /\ s.CIDR.Last - s.CIDR.First >= 3
    /\ \A ip \in {s.Gateway, s.Start, s.End} \ {Nil} : InCIDR(s, ip)

\* The last address of the CIDR, without the broadcast address of IPv4.
LastIP(s) == IF s.IPv6 THEN s.CIDR.Last ELSE s.CIDR.Last - 1

Canonicalize(s) ==
    [s EXCEPT !.Start = IF @ = Nil THEN s.CIDR.First + 1 ELSE @,
              !.End   = IF @ = Nil THEN LastIP(s) ELSE @]

Contains(s, ip) ==
    /\ InCIDR(s, ip)
    /\ s.Start <= ip
    /\ ip <= s.End
    /\ ip # s.Gateway
    /\ ip \notin s.BlackList

ContainedIPs(s) == {ip \in s.Start .. s.End : Contains(s, ip)}

\* ipSet is what the IPInstances labelled with this subnet say.
Sync(s, parentNetID, ipSet) ==
    LET reserved  == {ip \in s.ReservedList : Contains(s, ip)}
        inUse     == {ip \in DOMAIN ipSet : Contains(s, ip)}
        available == ContainedIPs(s) \ reserved
    IN  [Name            |-> s.Name,
         NetID           |-> IF s.NetID = Nil THEN parentNetID ELSE s.NetID,
         CIDR            |-> s.CIDR,
         Start           |-> s.Start,
         End             |-> s.End,
         Gateway         |-> s.Gateway,
         BlackList       |-> s.BlackList,
         Private         |-> s.Private,
         IPv6            |-> s.IPv6,
         ReservedList    |-> reserved,
         ReservedIPCount |-> Cardinality(reserved),
         UsingIPs        |-> [ip \in inUse \cup reserved |->
                                IF ip \in inUse
                                THEN ipSet[ip]
                                ELSE [Pod |-> NoPod, Status |-> IPStatusReserved]],
         AvailableIPs    |-> available,
         Current         |-> IF s.LastAllocatedIP \in available
                             THEN s.LastAllocatedIP
                             ELSE Nil]

\* Both subnets are canonical.
Overlap(s, t) ==
    /\ s.IPv6 = t.IPv6
    /\ \/ Contains(s, t.Start)
       \/ Contains(s, t.End)
       \/ Contains(t, s.Start)
       \/ Contains(t, s.End)

\* Mutant: the reserved addresses are counted as used.
CountReserved(s) == Cardinality(DOMAIN s.UsingIPs)

UsingIPCount(s) == Cardinality(DOMAIN s.UsingIPs) - s.ReservedIPCount

\* Mutant: a full subnet counts as available.
AvailableWhenFull(s) == Cardinality(s.AvailableIPs) >= UsingIPCount(s) /\ ~s.Private

IsAvailable(s) == Cardinality(s.AvailableIPs) > UsingIPCount(s) /\ ~s.Private

FreeIPs(s) == s.AvailableIPs \ DOMAIN s.UsingIPs

\* Mutant: always the lowest free address.
LowestIP(s) == Min(FreeIPs(s))

\* The loop of AllocateNext: the first free address after Current, cyclically.
NextIP(s) ==
    LET after == {ip \in FreeIPs(s) : ip > s.Current}
    IN  Min(IF after = {} THEN FreeIPs(s) ELSE after)

\* The slice's index moves to an address; an address gets a pod.
Turn(s, ip) == [s EXCEPT !.Current = ip]

Use(s, pod, ip) ==
    [s EXCEPT !.UsingIPs = Add(@, ip, [Pod |-> pod, Status |-> IPStatusUsing])]

\* With no free address the loop only turns the slice's index once around.
AllocateNext(s, pod) ==
    CASE FreeIPs(s) # {} -> Use(Turn(s, NextIP(s)), pod, NextIP(s))
      [] FreeIPs(s) = {} /\ s.Current = Nil /\ s.AvailableIPs # {} -> Turn(s, Max(s.AvailableIPs))
      [] OTHER -> s

\* Mutant: a reserved address is forgotten like any other.
ReleaseReserved(s, ip) == [s EXCEPT !.UsingIPs = Delete(@, ip)]

Release(s, ip) ==
    [s EXCEPT !.UsingIPs = IF ip \in s.ReservedList
                           THEN Update(@, ip, NoPod, IPStatusReserved)
                           ELSE Delete(@, ip)]

\* Mutant: force takes an address from whoever has it.
AssignableByForce(s, pod, ip, forced) ==
    Contains(s, ip) /\ (ip \in DOMAIN s.UsingIPs => forced \/ s.UsingIPs[ip].Pod = pod)

Assignable(s, pod, ip, forced) ==
    /\ Contains(s, ip)
    /\ ip \in DOMAIN s.UsingIPs =>
          \/ s.UsingIPs[ip].Pod = pod
          \/ forced /\ s.UsingIPs[ip].Status = IPStatusReserved

Assign(s, pod, ip) == Use(s, pod, ip)

UnifyNetID(netID) == IF netID = Nil THEN 0 ELSE netID

(***************************************************************************)
(* Network and its SubnetSlice: NetID, Type, the subnets by name, their    *)
(* Order in the slice and the SubnetIndex, a position of that order.       *)
(***************************************************************************)
NoName == ""

At(n, i) == n.Subnets[n.Order[i]]

PositionOf(n, name) == CHOOSE i \in DOMAIN n.Order : n.Order[i] = name

\* subnets is the list of specifications, all of them valid; ipSets gives
\* the addresses in use by name of subnet.
NewNetwork(spec, subnets, ipSets) ==
    LET Named(name) == CHOOSE i \in DOMAIN subnets : subnets[i].Name = name
        names       == {subnets[i].Name : i \in DOMAIN subnets}
    IN  [NetID       |-> spec.NetID,
         Type        |-> spec.Type,
         Order       |-> [i \in DOMAIN subnets |-> subnets[i].Name],
         Subnets     |-> [name \in names |->
                            Sync(Canonicalize(subnets[Named(name)]),
                                 spec.NetID, ipSets[name])],
         SubnetIndex |-> IF spec.LastAllocatedSubnet \in names
                         THEN Named(spec.LastAllocatedSubnet)
                         ELSE 1]

\* The rotation every selection walks: from SubnetIndex on, cyclically.
Distance(n, i) == (i - n.SubnetIndex) % Len(n.Order)

FirstOf(n, I) == CHOOSE i \in I : \A j \in I : Distance(n, i) <= Distance(n, j)

AvailableSubnets(n) == {i \in DOMAIN n.Order : IsAvailable(At(n, i))}

\* Mutant: subnets are paired across net IDs.
AnyNetID(n, i, j) == TRUE

SameNetID(n, i, j) == UnifyNetID(At(n, i).NetID) = UnifyNetID(At(n, j).NetID)

\* classify: the available subnets whose net ID has no available subnet of
\* the other family, and those whose net ID has.
Unpaired(n) == {i \in AvailableSubnets(n) :
                  \A j \in AvailableSubnets(n) :
                     SameNetID(n, i, j) => At(n, j).IPv6 = At(n, i).IPv6}

Paired(n) == AvailableSubnets(n) \ Unpaired(n)

\* The head of pairedIPv4 (pairedIPv6): the first subnet of the family in
\* the net ID that comes first among the paired ones.
PairedHead(n, ipv6) ==
    FirstOf(n, {i \in Paired(n) : /\ At(n, i).IPv6 = ipv6
                                  /\ SameNetID(n, i, FirstOf(n, Paired(n)))})

OfFamily(n, I, ipv6) == {i \in I : At(n, i).IPv6 = ipv6}

\* GetAvailableIPv4Subnet and GetAvailableIPv6Subnet; 0 for no subnet.
GetAvailableSubnetOf(n, ipv6) ==
    CASE OfFamily(n, Unpaired(n), ipv6) # {} -> FirstOf(n, OfFamily(n, Unpaired(n), ipv6))
      [] OfFamily(n, Unpaired(n), ipv6) = {} /\ Paired(n) # {} -> PairedHead(n, ipv6)
      [] OTHER -> 0

GetAvailableSubnet(n) ==
    IF AvailableSubnets(n) = {} THEN 0 ELSE FirstOf(n, AvailableSubnets(n))

\* The name at position i, or no name for position 0.
NameAt(n, i) == IF i = 0 THEN NoName ELSE n.Order[i]

\* GetIPv4Subnet and GetIPv6Subnet.
GetSubnetOf(n, name, ipv6) ==
    CASE name = NoName -> NameAt(n, GetAvailableSubnetOf(n, ipv6))
      [] name \in DOMAIN n.Subnets -> IF n.Subnets[name].IPv6 = ipv6 THEN name ELSE NoName
      [] OTHER -> NoName

GetSubnet(n, name) ==
    CASE name = NoName -> NameAt(n, GetAvailableSubnet(n))
      [] name \in DOMAIN n.Subnets -> name
      [] OTHER -> NoName

\* The pair of names <<IPv4, IPv6>>, or the empty sequence.
GetPairedDualStackSubnets(n, v4, v6) ==
    IF v4 # NoName /\ v6 # NoName
    THEN IF /\ {v4, v6} \subseteq DOMAIN n.Subnets
            /\ ~n.Subnets[v4].IPv6
            /\ n.Subnets[v6].IPv6
            /\ UnifyNetID(n.Subnets[v4].NetID) = UnifyNetID(n.Subnets[v6].NetID)
         THEN <<v4, v6>>
         ELSE <<>>
    ELSE IF Paired(n) # {}
         THEN <<n.Order[PairedHead(n, FALSE)], n.Order[PairedHead(n, TRUE)]>>
         ELSE <<>>

\* The subnet of an address: the named one, or the first that contains it.
GetSubnetByIP(n, name, ip) ==
    LET I == {i \in DOMAIN n.Order : Contains(At(n, i), ip)}
    IN  CASE name \in DOMAIN n.Subnets -> name
          [] name = NoName /\ I # {} -> n.Order[Min(I)]
          [] OTHER -> NoName

WithSubnet(n, name, s) == [n EXCEPT !.Subnets[name] = s]

\* Mutant: the index moves past the subnet that was picked.
MoveIndexPast(n, name, chosen) ==
    [n EXCEPT !.SubnetIndex = IF name = NoName THEN PositionOf(n, chosen) + 1 ELSE @]

\* A selection without a name moves SubnetIndex to the subnet it picked.
MoveIndex(n, name, chosen) ==
    [n EXCEPT !.SubnetIndex = IF name = NoName THEN PositionOf(n, chosen) ELSE @]
=============================================================================
