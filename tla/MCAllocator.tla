----------------------------- MODULE MCAllocator -----------------------------
(***************************************************************************)
(* Instances of Allocator for TLC: one network with an IPv4 subnet (a      *)
(* gateway, an excluded and a reserved address), an IPv6 subnet of the     *)
(* same net ID and a small IPv4 subnet of another net ID.                  *)
(***************************************************************************)
EXTENDS Allocator

SpecOf(name, netID, first, last, start, end, gateway, reserved, black, lastIP, private, ipv6) ==
    [Name |-> name, NetID |-> netID, CIDR |-> [First |-> first, Last |-> last],
     Start |-> start, End |-> end, Gateway |-> gateway,
     ReservedList |-> reserved, BlackList |-> black, LastAllocatedIP |-> lastIP,
     Private |-> private, IPv6 |-> ipv6]

\* Addresses 2 and 4, reserved or not, and up to end, of 0 .. 7; 3 is excluded, 1 the gateway.
V4(end, reserved, lastIP) == SpecOf("v4", Nil, 0, 7, Nil, end, 1, reserved, {3}, lastIP, FALSE, FALSE)

\* Address 17 of 16 .. 31.
V6(private) == SpecOf("v6", Nil, 16, 31, Nil, 17, Nil, {}, {}, Nil, private, TRUE)

\* Address 9 of 8 .. 11, whose gateway is 10.
Small == SpecOf("small", 7, 8, 11, Nil, Nil, 10, {}, {}, Nil, FALSE, FALSE)

MCSubnetNames == {"v4", "v6", "small"}

MCNetworkSpecs == {[NetID |-> 5, Type |-> "Underlay", LastAllocatedSubnet |-> "v6"]}

MCSubnetLists == {<<V4(4, {4}, Nil), V6(FALSE)>>,
                  <<V6(FALSE), Small, V4(4, {}, 2)>>,
                  <<V6(TRUE), V4(5, {2, 3}, 5)>>}

One(ip, pod, status) == [x \in {ip} |-> [Pod |-> pod, Status |-> status]]

\* What the cache may list: nothing, an address retained for a stateful pod,
\* one whose status is still empty, and one that the subnet excludes.
MCIPSets ==
    [s \in MCSubnetNames |->
        CASE s = "v4" -> {EmptyIPSet,
                          One(4, "p", IPStatusReserved),
                          One(3, "p", IPStatusUsing)}
          [] s = "v6" -> {EmptyIPSet, One(17, NoPod, IPStatusUnset)}
          [] OTHER -> {EmptyIPSet}]
==============================================================================
