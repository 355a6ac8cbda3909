----------------------------- MODULE MCRotation -----------------------------
(***************************************************************************)
(* AllocatorRotation for TLC: the single-stack allocator, a network of two *)
(* IPv4 subnets, the larger one watched.                                   *)
(***************************************************************************)
EXTENDS AllocatorRotation

SpecOf(name, first, last, reserved, lastIP) ==
    [Name |-> name, NetID |-> 5, CIDR |-> [First |-> first, Last |-> last],
     Start |-> Nil, End |-> Nil, Gateway |-> first + 1,
     ReservedList |-> reserved, BlackList |-> {}, LastAllocatedIP |-> lastIP,
     Private |-> FALSE, IPv6 |-> FALSE]

MCNetworkSpecs == {[NetID |-> Nil, Type |-> "Underlay", LastAllocatedSubnet |-> NoName]}

\* Addresses 2 .. 6 of the watched subnet, and 10 of the other one.
MCSubnetLists == {<<SpecOf("large", 0, 7, {6}, lastIP), SpecOf("small", 8, 11, {}, Nil)>>
                    : lastIP \in {Nil, 4}}

MCIPSets == [s \in {"large", "small"} |->
               {EmptyIPSet} \cup IF s = "large"
                                 THEN {[x \in {3} |-> [Pod |-> "p", Status |-> IPStatusReserved]]}
                                 ELSE {}]
=============================================================================
