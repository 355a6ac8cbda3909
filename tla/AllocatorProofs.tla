--------------------------- MODULE AllocatorProofs ---------------------------
(***************************************************************************)
(* Proofs about Allocator, for all constants that satisfy its assumptions: *)
(*   1. type correctness, that only contained addresses are in use, and    *)
(*      that the counters the allocator selects subnets with are exact;    *)
(*   2. that the allocator implements IPPool, that no call takes an        *)
(*      address from the pod that uses it, and that a dual-stack           *)
(*      allocation hands out both addresses or none;                       *)
(*   3. that the single-stack allocator hands out no address twice while   *)
(*      another one stays free in between.                                 *)
(***************************************************************************)
EXTENDS AllocatorRotation, TLAPS, FiniteSetTheorems, WellFoundedInduction

(***************************************************************************)
(* 1. The invariant.  Least and greatest elements.                         *)
(***************************************************************************)
\* A nonempty set of natural numbers has a least element: Min is one.
LEMMA NatMin ==
    ASSUME NEW S \in SUBSET Nat, S # {}
    PROVE  Min(S) \in S /\ \A y \in S : Min(S) <= y
<1>1. PICK x \in S : \A y \in S : ~(<<y, x>> \in OpToRel(<, Nat))
  BY NatLessThanWellFounded, WFMin, Zenon
<1>2. \A y \in S : ~(y < x)
  BY <1>1, Zenon DEF OpToRel
<1>3. \A y \in S : x <= y
  BY <1>2
<1> QED
  BY <1>3, Zenon DEF Min

\* A nonempty bounded set of natural numbers has a greatest element.
LEMMA NatMax ==
    ASSUME NEW S \in SUBSET Nat, S # {}, NEW b \in Int, \A y \in S : y <= b
    PROVE  Max(S) \in S /\ \A y \in S : y <= Max(S)
<1> DEFINE T == {b - y : y \in S}
<1>1. T \in SUBSET Nat /\ T # {}
  <2>1. \A y \in S : b - y \in Nat
    BY SMTT(20)
  <2> QED
    BY <2>1, Zenon
<1>2. PICK x \in S : Min(T) = b - x
  BY <1>1, NatMin, Zenon
<1>3. \A y \in S : b - x <= b - y
  BY <1>1, <1>2, NatMin
<1>4. \A y \in S : x >= y
  BY <1>3
<1> QED
  BY <1>4, Zenon DEF Max

(***************************************************************************)
(* The invariant of one subnet.                                            *)
(***************************************************************************)
SubnetFields ==
    {"Name", "NetID", "CIDR", "Start", "End", "Gateway", "BlackList", "Private", "IPv6",
     "ReservedList", "ReservedIPCount", "UsingIPs", "AvailableIPs", "Current"}

RangeOK(s) ==
    /\ s.Start \in Int /\ s.End \in Int
    /\ s.CIDR.First \in Nat /\ s.CIDR.Last \in Nat
    /\ s.Private \in BOOLEAN /\ s.IPv6 \in BOOLEAN

SubnetInv(s) ==
    /\ DOMAIN s = SubnetFields
    /\ RangeOK(s)
    /\ s.ReservedList \subseteq ContainedIPs(s)
    /\ s.AvailableIPs = ContainedIPs(s) \ s.ReservedList
    /\ s.ReservedIPCount = Cardinality(s.ReservedList)
    /\ s.ReservedList \subseteq DOMAIN s.UsingIPs
    /\ DOMAIN s.UsingIPs \subseteq ContainedIPs(s)
    /\ SubnetTypeOK(s)

\* The addresses of a subnet are finitely many natural numbers.
LEMMA ContainedIPsFinite ==
    ASSUME NEW s, RangeOK(s)
    PROVE  /\ IsFiniteSet(ContainedIPs(s))
           /\ ContainedIPs(s) \subseteq Nat
           /\ \A ip \in Int : ip \in ContainedIPs(s) <=> Contains(s, ip)
<1>1. IsFiniteSet(s.Start .. s.End)
  BY FS_Interval, Zenon DEF RangeOK
<1>2. ContainedIPs(s) \subseteq s.Start .. s.End
  BY DEF ContainedIPs
<1>3. IsFiniteSet(ContainedIPs(s))
  BY <1>1, <1>2, FS_Subset, Zenon
<1>4. \A ip \in ContainedIPs(s) : ip \in Nat
  BY DEF ContainedIPs, Contains, InCIDR, RangeOK
<1>5. \A ip \in Int : ip \in ContainedIPs(s) <=> Contains(s, ip)
  BY DEF ContainedIPs, Contains, RangeOK
<1> QED
  BY <1>3, <1>4, <1>5

\* A new index inside the slice keeps the invariant.
LEMMA TurnInv ==
    ASSUME NEW s, SubnetInv(s), NEW ip \in s.AvailableIPs
    PROVE  /\ SubnetInv(Turn(s, ip))
           /\ Turn(s, ip).UsingIPs = s.UsingIPs
           /\ ContainedIPs(Turn(s, ip)) = ContainedIPs(s)
<1> DEFINE t == Turn(s, ip)
<1>1. /\ DOMAIN t = SubnetFields
      /\ t.Current = ip
      /\ \A f \in SubnetFields \ {"Current"} : t[f] = s[f]
  BY DEF Turn, SubnetInv, SubnetFields
<1>2. ContainedIPs(t) = ContainedIPs(s) /\ RangeOK(t)
  BY <1>1 DEF ContainedIPs, Contains, InCIDR, RangeOK, SubnetInv, SubnetFields
<1> HIDE DEF t
<1>3. SubnetInv(t) /\ t.UsingIPs = s.UsingIPs
  BY <1>1, <1>2 DEF SubnetInv, SubnetFields, SubnetTypeOK
<1> QED
  BY <1>2, <1>3 DEF t

\* So does a new set of addresses in use that keeps to the range.
LEMMA UsingIPsInv ==
    ASSUME NEW s, SubnetInv(s), NEW used, IPSetOK(used),
           DOMAIN used \subseteq ContainedIPs(s), s.ReservedList \subseteq DOMAIN used
    PROVE  SubnetInv([s EXCEPT !.UsingIPs = used])
<1> DEFINE t == [s EXCEPT !.UsingIPs = used]
<1>1. /\ DOMAIN t = SubnetFields
      /\ t.UsingIPs = used
      /\ \A f \in SubnetFields \ {"UsingIPs"} : t[f] = s[f]
  BY DEF SubnetInv, SubnetFields
<1>2. ContainedIPs(t) = ContainedIPs(s) /\ RangeOK(t)
  BY <1>1 DEF ContainedIPs, Contains, InCIDR, RangeOK, SubnetInv, SubnetFields
<1> HIDE DEF t
<1>3. SubnetInv(t)
  BY <1>1, <1>2 DEF SubnetInv, SubnetFields, SubnetTypeOK
<1> QED
  BY <1>3 DEF t

\* An address of the subnet gets a pod.
LEMMA UseInv ==
    ASSUME NEW s, SubnetInv(s), NEW pod \in Pods, NEW ip \in ContainedIPs(s)
    PROVE  SubnetInv(Use(s, pod, ip))
<1> DEFINE used == Add(s.UsingIPs, ip, [Pod |-> pod, Status |-> IPStatusUsing])
<1>1. DOMAIN used = DOMAIN s.UsingIPs \cup {ip}
  BY DEF Add
<1>2. IPSetOK(used)
  BY DEF Add, IPSetOK, SubnetInv, SubnetTypeOK
<1>3. Use(s, pod, ip) = [s EXCEPT !.UsingIPs = used]
  BY DEF Use
<1> HIDE DEF used
<1>4. DOMAIN used \subseteq ContainedIPs(s) /\ s.ReservedList \subseteq DOMAIN used
  BY <1>1 DEF SubnetInv
<1> QED
  BY <1>2, <1>3, <1>4, UsingIPsInv

\* An address is released; one that is on the reserved list stays recorded.
LEMMA ReleaseInv ==
    ASSUME NEW s, SubnetInv(s), NEW ip
    PROVE  SubnetInv(Release(s, ip))
<1> DEFINE used == IF ip \in s.ReservedList
                   THEN Update(s.UsingIPs, ip, NoPod, IPStatusReserved)
                   ELSE Delete(s.UsingIPs, ip)
<1>1. /\ DOMAIN used \subseteq DOMAIN s.UsingIPs
      /\ DOMAIN s.UsingIPs \ DOMAIN used \subseteq {ip} \ s.ReservedList
  BY DEF Update, Delete
<1>2. IPSetOK(used)
  BY DEF Update, Delete, IPSetOK, SubnetInv, SubnetTypeOK
<1>3. Release(s, ip) = [s EXCEPT !.UsingIPs = used]
  BY DEF Release
<1> HIDE DEF used
<1>4. DOMAIN used \subseteq ContainedIPs(s) /\ s.ReservedList \subseteq DOMAIN used
  BY <1>1 DEF SubnetInv
<1> QED
  BY <1>2, <1>3, <1>4, UsingIPsInv

\* While there is a free address, NextIP is one.
LEMMA NextIPFree ==
    ASSUME NEW s, SubnetInv(s), FreeIPs(s) # {}
    PROVE  NextIP(s) \in FreeIPs(s)
<1>1. FreeIPs(s) \in SUBSET Nat
  BY ContainedIPsFinite DEF FreeIPs, SubnetInv
<1> DEFINE after == {ip \in FreeIPs(s) : ip > s.Current}
           S == IF after = {} THEN FreeIPs(s) ELSE after
<1>2. S \in SUBSET Nat /\ S # {} /\ S \subseteq FreeIPs(s)
  BY <1>1
<1>3. NextIP(s) = Min(S)
  BY DEF NextIP
<1> HIDE DEF S
<1> QED
  BY <1>2, <1>3, NatMin, Zenon

\* The slice of a subnet ends at its greatest address.
LEMMA LastOfSlice ==
    ASSUME NEW s, SubnetInv(s), s.AvailableIPs # {}
    PROVE  Max(s.AvailableIPs) \in s.AvailableIPs
<1>1. s.AvailableIPs \subseteq ContainedIPs(s) /\ RangeOK(s)
  BY DEF SubnetInv
<1>2. s.AvailableIPs \in SUBSET Nat
  BY <1>1, ContainedIPsFinite
<1>3. s.End \in Int /\ \A ip \in s.AvailableIPs : ip <= s.End
  BY <1>1 DEF ContainedIPs, RangeOK
<1> QED
  BY <1>2, <1>3, NatMax

\* AllocateNext, whether or not it finds an address.
LEMMA AllocateNextInv ==
    ASSUME NEW s, SubnetInv(s), NEW pod \in Pods
    PROVE  SubnetInv(AllocateNext(s, pod))
<1>1. CASE FreeIPs(s) # {}
  <2>1. NextIP(s) \in s.AvailableIPs /\ NextIP(s) \in ContainedIPs(s)
    BY <1>1, NextIPFree DEF FreeIPs, SubnetInv
  <2>2. /\ SubnetInv(Turn(s, NextIP(s)))
        /\ NextIP(s) \in ContainedIPs(Turn(s, NextIP(s)))
    BY <2>1, TurnInv
  <2>3. AllocateNext(s, pod) = Use(Turn(s, NextIP(s)), pod, NextIP(s))
    BY <1>1 DEF AllocateNext
  <2> QED
    BY <2>2, <2>3, UseInv
<1>2. CASE FreeIPs(s) = {} /\ s.Current = Nil /\ s.AvailableIPs # {}
  <2>1. Max(s.AvailableIPs) \in s.AvailableIPs
    BY <1>2, LastOfSlice
  <2>2. AllocateNext(s, pod) = Turn(s, Max(s.AvailableIPs))
    BY <1>2 DEF AllocateNext
  <2> QED
    BY <2>1, <2>2, TurnInv
<1>3. CASE FreeIPs(s) = {} /\ ~(s.Current = Nil /\ s.AvailableIPs # {})
  BY <1>3 DEF AllocateNext
<1> QED
  BY <1>1, <1>2, <1>3

\* Sync establishes the invariant, whatever the getters answered.
LEMMA SyncInv ==
    ASSUME NEW spec \in SubnetSpecs, NEW netID, NEW ipSet,
           DOMAIN ipSet \subseteq Nat, IPSetOK(ipSet)
    PROVE  SubnetInv(Sync(Canonicalize(spec), netID, ipSet))
<1> DEFINE s == Canonicalize(spec)
           t == Sync(s, netID, ipSet)
           reserved == {ip \in s.ReservedList : Contains(s, ip)}
           inUse == {ip \in DOMAIN ipSet : Contains(s, ip)}
<1>1. RangeOK(s) /\ s.ReservedList \in SUBSET Nat
  BY DEF Canonicalize, SubnetSpecs, RangeOK, LastIP
<1> HIDE DEF s
<1>2. reserved \subseteq ContainedIPs(s) /\ inUse \subseteq ContainedIPs(s)
  BY <1>1, ContainedIPsFinite
<1>3. /\ DOMAIN t = SubnetFields
      /\ t.ReservedList = reserved
      /\ t.ReservedIPCount = Cardinality(reserved)
      /\ t.AvailableIPs = ContainedIPs(s) \ reserved
      /\ DOMAIN t.UsingIPs = inUse \cup reserved
  BY Zenon DEF Sync, SubnetFields
<1>4. ContainedIPs(t) = ContainedIPs(s) /\ RangeOK(t)
  BY <1>1, ZenonT(30) DEF Sync, ContainedIPs, Contains, InCIDR, RangeOK
<1>5. IPSetOK(t.UsingIPs)
  BY Zenon DEF Sync, IPSetOK
<1>6. t.Current \in t.AvailableIPs \cup {Nil}
  BY Zenon DEF Sync
<1> HIDE DEF t, reserved, inUse
<1>7. SubnetInv(t)
  BY <1>2, <1>3, <1>4, <1>5, <1>6, Zenon DEF SubnetInv, SubnetTypeOK
<1> QED
  BY <1>7 DEF s, t

(***************************************************************************)
(* What the invariant says of one subnet.                                  *)
(***************************************************************************)
\* The reserved addresses are in use and the others in use are available
\* ones, so the two counters of IsAvailable count what they should.
LEMMA SubnetInvImplies ==
    ASSUME NEW s, SubnetInv(s)
    PROVE  UsageInRange(s) /\ AccountingExact(s)
<1> DEFINE U == DOMAIN s.UsingIPs
           A == s.AvailableIPs
           R == s.ReservedList
           C == ContainedIPs(s)
<1>1. /\ IsFiniteSet(C) /\ C \subseteq Nat
      /\ \A ip \in C : Contains(s, ip)
      /\ R \subseteq C /\ A = C \ R /\ R \subseteq U /\ U \subseteq C
      /\ s.ReservedIPCount = Cardinality(R)
  BY ContainedIPsFinite DEF SubnetInv
<1>2. UsageInRange(s)
  BY <1>1, Zenon DEF UsageInRange
<1>3. IsFiniteSet(U) /\ IsFiniteSet(A) /\ IsFiniteSet(R) /\ IsFiniteSet(U \cap A)
  BY <1>1, FS_Subset, Zenon
<1>4. U = (U \cap A) \cup R /\ (U \cap A) \cap R = {}
  BY <1>1, Zenon
<1>5. /\ Cardinality(U) \in Nat /\ Cardinality(A) \in Nat
      /\ Cardinality(R) \in Nat /\ Cardinality(U \cap A) \in Nat
  BY <1>3, FS_CardinalityType, Zenon
<1>6. Cardinality(U) = Cardinality(U \cap A) + Cardinality(R)
  <2>1. Cardinality((U \cap A) \cup R)
          = Cardinality(U \cap A) + Cardinality(R) - Cardinality((U \cap A) \cap R)
    BY <1>3, FS_Union, Zenon
  <2>2. Cardinality((U \cap A) \cup R) = Cardinality(U)
    BY <1>4, Zenon
  <2>3. Cardinality((U \cap A) \cap R) = 0
    BY <1>4, FS_EmptySet, Zenon
  <2> QED
    BY <1>5, <2>1, <2>2, <2>3
<1>7. UsingIPCount(s) = Cardinality(U \cap A)
  BY <1>1, <1>5, <1>6 DEF UsingIPCount
<1>8. /\ Cardinality(U \cap A) <= Cardinality(A)
      /\ Cardinality(U \cap A) = Cardinality(A) => U \cap A = A
  BY <1>3, FS_Subset, Zenon
<1>9. Cardinality(A) > Cardinality(U \cap A) <=> A \ U # {}
  <2>1. CASE A \ U = {}
    <3>1. U \cap A = A
      BY <2>1
    <3> QED
      BY <2>1, <3>1, <1>5
  <2>2. CASE A \ U # {}
    <3>1. U \cap A # A
      BY <2>2
    <3> QED
      BY <2>2, <3>1, <1>5, <1>8
  <2> QED
    BY <2>1, <2>2, Zenon
<1>10. IsAvailable(s) <=> FreeIPs(s) # {} /\ ~s.Private
  BY <1>7, <1>9, Zenon DEF IsAvailable, FreeIPs
<1> QED
  BY <1>2, <1>5, <1>7, <1>8, <1>10 DEF AccountingExact

(***************************************************************************)
(* The invariant of one network.                                           *)
(***************************************************************************)
NetworkFields == {"NetID", "Type", "Order", "Subnets", "SubnetIndex"}

NetworkInv(n) ==
    /\ DOMAIN n = NetworkFields
    /\ n.Order \in Seq(SubnetNames)
    /\ DOMAIN n.Subnets = {n.Order[i] : i \in DOMAIN n.Order}
    /\ n.SubnetIndex \in Nat
    /\ n.Order # <<>> => n.SubnetIndex \in DOMAIN n.Order
    /\ \A s \in DOMAIN n.Subnets : SubnetInv(n.Subnets[s])

\* refreshNetwork builds a network that satisfies it.
LEMMA NewNetworkInv ==
    ASSUME NEW spec, NEW subnets \in SubnetLists, NEW ipSets,
           \A s \in SubnetNames : ipSets[s] \in IPSets[s]
    PROVE  NetworkInv(NewNetwork(spec, subnets, ipSets))
<1> DEFINE n == NewNetwork(spec, subnets, ipSets)
           Named(name) == CHOOSE i \in DOMAIN subnets : subnets[i].Name = name
           names == {subnets[i].Name : i \in DOMAIN subnets}
<1>1. subnets \in Seq(SubnetSpecs)
  BY InputsAssumption
<1>2. \A i \in DOMAIN subnets : subnets[i] \in SubnetSpecs /\ subnets[i].Name \in SubnetNames
  <2>1. \A i \in DOMAIN subnets : subnets[i] \in SubnetSpecs
    BY <1>1
  <2>2. \A spec1 \in SubnetSpecs : spec1.Name \in SubnetNames
    BY DEF SubnetSpecs
  <2> QED
    BY <2>1, <2>2
<1>3. \A name \in names : Named(name) \in DOMAIN subnets /\ name \in SubnetNames
  BY <1>2
<1>4. /\ DOMAIN n = NetworkFields
      /\ n.Order = [i \in DOMAIN subnets |-> subnets[i].Name]
      /\ DOMAIN n.Subnets = names
      /\ n.SubnetIndex = IF spec.LastAllocatedSubnet \in names
                         THEN Named(spec.LastAllocatedSubnet) ELSE 1
      /\ \A name \in names :
            n.Subnets[name] = Sync(Canonicalize(subnets[Named(name)]), spec.NetID, ipSets[name])
  BY Zenon DEF NewNetwork, NetworkFields
<1> HIDE DEF n, Named
<1>5. n.Order \in Seq(SubnetNames) /\ DOMAIN n.Order = DOMAIN subnets
  <2>1. n.Order = [i \in 1 .. Len(subnets) |-> subnets[i].Name]
    BY <1>1, <1>4
  <2>2. Len(subnets) \in Nat /\ \A i \in 1 .. Len(subnets) : subnets[i].Name \in SubnetNames
    BY <1>1, <1>2
  <2>3. n.Order \in Seq(SubnetNames)
    BY <2>1, <2>2
  <2> QED
    BY <1>4, <2>3, Zenon
<1>6. DOMAIN n.Subnets = {n.Order[i] : i \in DOMAIN n.Order}
  BY <1>4, <1>5
<1>7. n.SubnetIndex \in Nat /\ (n.Order # <<>> => n.SubnetIndex \in DOMAIN n.Order)
  BY <1>1, <1>3, <1>4, <1>5
<1>8. ASSUME NEW s \in names PROVE SubnetInv(n.Subnets[s])
  <2>1. DOMAIN ipSets[s] \subseteq Nat /\ IPSetOK(ipSets[s])
    BY <1>3, InputsAssumption, Zenon
  <2>2. subnets[Named(s)] \in SubnetSpecs
    BY <1>2, <1>3, Zenon
  <2> QED
    BY <1>4, <2>1, <2>2, SyncInv
<1>9. NetworkInv(n)
  BY <1>4, <1>5, <1>6, <1>7, <1>8, Zenon DEF NetworkInv
<1> QED
  BY <1>9 DEF n

\* A change of one subnet adds none.
LEMMA WithSubnetDomain ==
    ASSUME NEW n, NetworkInv(n), NEW s, NEW t
    PROVE  DOMAIN WithSubnet(n, s, t).Subnets = DOMAIN n.Subnets
<1>1. WithSubnet(n, s, t).Subnets = [n.Subnets EXCEPT ![s] = t]
  BY DEF WithSubnet, NetworkInv, NetworkFields
<1> QED
  BY <1>1, Zenon

\* It keeps the invariant.
LEMMA WithSubnetInv ==
    ASSUME NEW n, NetworkInv(n), NEW s \in DOMAIN n.Subnets, NEW t, SubnetInv(t)
    PROVE  /\ NetworkInv(WithSubnet(n, s, t))
           /\ DOMAIN WithSubnet(n, s, t).Subnets = DOMAIN n.Subnets
           /\ WithSubnet(n, s, t).Subnets = [n.Subnets EXCEPT ![s] = t]
<1> DEFINE m == WithSubnet(n, s, t)
<1>1. /\ DOMAIN m = NetworkFields
      /\ m.Subnets = [n.Subnets EXCEPT ![s] = t]
      /\ \A f \in NetworkFields \ {"Subnets"} : m[f] = n[f]
  BY DEF WithSubnet, NetworkInv, NetworkFields
<1> HIDE DEF m
<1>2. DOMAIN m.Subnets = DOMAIN n.Subnets
  BY <1>1
<1>3. \A x \in DOMAIN n.Subnets : SubnetInv(m.Subnets[x])
  BY <1>1, Zenon DEF NetworkInv
<1>4. NetworkInv(m)
  BY <1>1, <1>2, <1>3 DEF NetworkInv, NetworkFields
<1> QED
  BY <1>1, <1>2, <1>4, Zenon DEF m

\* So does a move of the round-robin index to the subnet that was picked.
LEMMA MoveIndexInv ==
    ASSUME NEW n, NetworkInv(n), NEW name, NEW chosen \in DOMAIN n.Subnets
    PROVE  /\ NetworkInv(MoveIndex(n, name, chosen))
           /\ MoveIndex(n, name, chosen).Subnets = n.Subnets
<1> DEFINE m == MoveIndex(n, name, chosen)
<1>1. /\ DOMAIN m = NetworkFields
      /\ m.SubnetIndex = IF name = NoName THEN PositionOf(n, chosen) ELSE n.SubnetIndex
      /\ \A f \in NetworkFields \ {"SubnetIndex"} : m[f] = n[f]
  BY DEF MoveIndex, NetworkInv, NetworkFields
<1>2. PositionOf(n, chosen) \in DOMAIN n.Order
  BY Zenon DEF PositionOf, NetworkInv
<1>3. PositionOf(n, chosen) \in Nat
  BY <1>2 DEF NetworkInv
<1> HIDE DEF m
<1>4. NetworkInv(m) /\ m.Subnets = n.Subnets
  BY <1>1, <1>2, <1>3 DEF NetworkInv, NetworkFields
<1> QED
  BY <1>4, Zenon DEF m

(***************************************************************************)
(* Selecting a subnet.                                                     *)
(***************************************************************************)
\* Walking the rotation over a nonempty set of positions ends at one of them.
LEMMA FirstOfIn ==
    ASSUME NEW n, NetworkInv(n), NEW I \in SUBSET DOMAIN n.Order, I # {}
    PROVE  FirstOf(n, I) \in I
<1> DEFINE D == {Distance(n, i) : i \in I}
<1>1. Len(n.Order) \in Nat /\ Len(n.Order) > 0 /\ I \subseteq Nat /\ n.SubnetIndex \in Nat
  BY DEF NetworkInv
<1>2. \A i \in I : Distance(n, i) \in Nat
  BY <1>1 DEF Distance
<1>3. D \in SUBSET Nat /\ D # {}
  BY <1>2, Zenon
<1>4. Min(D) \in D /\ \A d \in D : Min(D) <= d
  BY <1>3, NatMin, Zenon
<1>5. PICK i \in I : Distance(n, i) = Min(D)
  BY <1>4, Zenon
<1>6. \A j \in I : Distance(n, i) <= Distance(n, j)
  BY <1>4, <1>5, Zenon
<1> QED
  BY <1>6, Zenon DEF FirstOf

\* classify pairs a net ID exactly when it has available subnets of both
\* families: the head of each list of pairs is a subnet of that family.
LEMMA PairedHeadOK ==
    ASSUME NEW n, NetworkInv(n), Paired(n) # {}, NEW ipv6 \in BOOLEAN
    PROVE  /\ PairedHead(n, ipv6) \in Paired(n)
           /\ At(n, PairedHead(n, ipv6)).IPv6 = ipv6
           /\ SameNetID(n, PairedHead(n, ipv6), FirstOf(n, Paired(n)))
<1> DEFINE h == FirstOf(n, Paired(n))
           I == {i \in Paired(n) : At(n, i).IPv6 = ipv6 /\ SameNetID(n, i, h)}
<1>1. Paired(n) \in SUBSET DOMAIN n.Order /\ AvailableSubnets(n) \subseteq DOMAIN n.Order
  BY Zenon DEF Paired, AvailableSubnets
<1>2. h \in Paired(n)
  BY <1>1, FirstOfIn, Zenon
<1> HIDE DEF h
<1>3. PICK j \in AvailableSubnets(n) : SameNetID(n, h, j) /\ At(n, j).IPv6 # At(n, h).IPv6
  BY <1>2, Zenon DEF Paired, Unpaired
<1>4. j \in Paired(n) /\ SameNetID(n, j, h) /\ SameNetID(n, h, h)
  BY <1>2, <1>3, Zenon DEF Paired, Unpaired, SameNetID
<1>5. At(n, j).IPv6 \in BOOLEAN /\ At(n, h).IPv6 \in BOOLEAN
  BY <1>1, <1>2, <1>3, Zenon DEF At, NetworkInv, SubnetInv, RangeOK
<1>6. h \in I \/ j \in I
  BY <1>2, <1>3, <1>4, <1>5, Zenon
<1>7. FirstOf(n, I) \in I
  BY <1>1, <1>6, FirstOfIn, Zenon
<1>8. PairedHead(n, ipv6) = FirstOf(n, I)
  BY Zenon DEF PairedHead, h
<1> QED
  BY <1>7, <1>8, Zenon DEF h

\* The two lists of candidates of a family leave none of its subnets out.
LEMMA GetAvailableSubnetOfOK ==
    ASSUME NEW n, NetworkInv(n), NEW ipv6 \in BOOLEAN,
           NEW i, i = GetAvailableSubnetOf(n, ipv6)
    PROVE  \/ i = 0 /\ OfFamily(n, AvailableSubnets(n), ipv6) = {}
           \/ i # 0 /\ i \in OfFamily(n, AvailableSubnets(n), ipv6)
<1> DEFINE only == OfFamily(n, Unpaired(n), ipv6)
<1>1. /\ only \in SUBSET DOMAIN n.Order
      /\ only \subseteq OfFamily(n, AvailableSubnets(n), ipv6)
      /\ OfFamily(n, AvailableSubnets(n), ipv6) \subseteq only \cup Paired(n)
      /\ Paired(n) \subseteq AvailableSubnets(n)
  BY Zenon DEF OfFamily, Unpaired, Paired, AvailableSubnets
<1>2. \A j \in AvailableSubnets(n) : j # 0
  BY DEF AvailableSubnets, NetworkInv
<1>3. CASE only # {}
  <2>1. i = FirstOf(n, only)
    BY <1>3 DEF GetAvailableSubnetOf
  <2>2. i \in only
    BY <1>1, <1>3, <2>1, FirstOfIn, Zenon
  <2> QED
    BY <1>1, <1>2, <2>2, Zenon DEF OfFamily
<1>4. CASE only = {} /\ Paired(n) # {}
  <2>1. i = PairedHead(n, ipv6)
    BY <1>4 DEF GetAvailableSubnetOf
  <2> QED
    BY <1>1, <1>2, <1>4, <2>1, PairedHeadOK, Zenon DEF OfFamily
<1>5. CASE only = {} /\ Paired(n) = {}
  <2>1. i = 0
    BY <1>5 DEF GetAvailableSubnetOf
  <2> QED
    BY <1>1, <1>5, <2>1, Zenon
<1> QED
  BY <1>3, <1>4, <1>5, Zenon

\* A getter that answers with a subnet answers with one of the network.
LEMMA GettersOK ==
    ASSUME NEW n, NetworkInv(n), NEW name, NEW ip, NEW ipv6 \in BOOLEAN
    PROVE  /\ GetSubnetOf(n, name, ipv6) \in DOMAIN n.Subnets \cup {NoName}
           /\ GetSubnet(n, name) \in DOMAIN n.Subnets \cup {NoName}
           /\ GetSubnetByIP(n, name, ip) \in DOMAIN n.Subnets \cup {NoName}
<1>1. \A i \in DOMAIN n.Order : n.Order[i] \in DOMAIN n.Subnets
  BY Zenon DEF NetworkInv
<1>2. GetSubnetOf(n, name, ipv6) \in DOMAIN n.Subnets \cup {NoName}
  <2>1. NameAt(n, GetAvailableSubnetOf(n, ipv6)) \in DOMAIN n.Subnets \cup {NoName}
    BY <1>1, GetAvailableSubnetOfOK, Zenon DEF NameAt, OfFamily, AvailableSubnets
  <2> QED
    BY <2>1 DEF GetSubnetOf
<1>3. GetSubnet(n, name) \in DOMAIN n.Subnets \cup {NoName}
  <2>1. AvailableSubnets(n) # {} => FirstOf(n, AvailableSubnets(n)) \in AvailableSubnets(n)
    BY FirstOfIn, Zenon DEF AvailableSubnets
  <2>2. NameAt(n, GetAvailableSubnet(n)) \in DOMAIN n.Subnets \cup {NoName}
    BY <1>1, <2>1, Zenon DEF NameAt, GetAvailableSubnet, AvailableSubnets
  <2> QED
    BY <2>2 DEF GetSubnet
<1>4. GetSubnetByIP(n, name, ip) \in DOMAIN n.Subnets \cup {NoName}
  <2> DEFINE I == {i \in DOMAIN n.Order : Contains(At(n, i), ip)}
  <2>1. I \in SUBSET Nat
    BY DEF NetworkInv
  <2>2. I # {} => n.Order[Min(I)] \in DOMAIN n.Subnets
    BY <1>1, <2>1, NatMin, Zenon
  <2> QED
    BY <2>2 DEF GetSubnetByIP
<1> QED
  BY <1>2, <1>3, <1>4, Zenon

\* A pair of subnets is an IPv4 and an IPv6 subnet of the network.
LEMMA PairOK ==
    ASSUME NEW n, NetworkInv(n), NEW v4, NEW v6,
           NEW pair, pair = GetPairedDualStackSubnets(n, v4, v6), pair # <<>>
    PROVE  /\ pair[1] \in DOMAIN n.Subnets /\ pair[2] \in DOMAIN n.Subnets
           /\ ~n.Subnets[pair[1]].IPv6 /\ n.Subnets[pair[2]].IPv6
           /\ UnifyNetID(n.Subnets[pair[1]].NetID) = UnifyNetID(n.Subnets[pair[2]].NetID)
<1>1. CASE v4 # NoName /\ v6 # NoName
  BY <1>1, Zenon DEF GetPairedDualStackSubnets
<1>2. CASE ~(v4 # NoName /\ v6 # NoName)
  <2> DEFINE i == PairedHead(n, FALSE)
             j == PairedHead(n, TRUE)
  <2>1. Paired(n) # {} /\ pair = <<n.Order[i], n.Order[j]>>
    BY <1>2, Zenon DEF GetPairedDualStackSubnets
  <2>2. /\ i \in Paired(n) /\ At(n, i).IPv6 = FALSE
        /\ j \in Paired(n) /\ At(n, j).IPv6 = TRUE
        /\ SameNetID(n, i, FirstOf(n, Paired(n))) /\ SameNetID(n, j, FirstOf(n, Paired(n)))
    BY <2>1, PairedHeadOK, Zenon
  <2> HIDE DEF i, j
  <2>3. i \in DOMAIN n.Order /\ j \in DOMAIN n.Order
    BY <2>2, Zenon DEF Paired, AvailableSubnets
  <2>4. n.Order[i] \in DOMAIN n.Subnets /\ n.Order[j] \in DOMAIN n.Subnets
    BY <2>3, Zenon DEF NetworkInv
  <2>5. pair[1] = n.Order[i] /\ pair[2] = n.Order[j]
    BY <2>1
  <2> QED
    BY <2>2, <2>4, <2>5, Zenon DEF At, SameNetID
<1> QED
  BY <1>1, <1>2, Zenon

\* What the invariant says of selections in one network.
LEMMA NetworkInvImplies ==
    ASSUME NEW n, NetworkInv(n)
    PROVE  /\ NetworkTypeOK(n)
           /\ \A ipv6 \in BOOLEAN : SelectionOf(n, ipv6)
           /\ PairSelection(n)
<1>1. NetworkTypeOK(n)
  BY DEF NetworkInv, NetworkTypeOK, SubnetInv
<1>2. ASSUME NEW i \in AvailableSubnets(n)
      PROVE  FreeIPs(At(n, i)) # {} /\ ~At(n, i).Private
  <2>1. SubnetInv(At(n, i)) /\ IsAvailable(At(n, i))
    BY Zenon DEF AvailableSubnets, At, NetworkInv
  <2> QED
    BY <2>1, SubnetInvImplies, Zenon DEF AccountingExact
<1>3. ASSUME NEW ipv6 \in BOOLEAN PROVE SelectionOf(n, ipv6)
  BY <1>2, GetAvailableSubnetOfOK, Zenon DEF SelectionOf, OfFamily
<1>4. PairSelection(n)
  <2> DEFINE pair == GetPairedDualStackSubnets(n, NoName, NoName)
  <2>1. CASE pair = <<>>
    <3>1. Paired(n) = {}
      BY <2>1, Zenon DEF GetPairedDualStackSubnets
    <3> QED
      BY <2>1, <3>1, Zenon DEF PairSelection, Paired, Unpaired
  <2>2. CASE pair # <<>>
    <3>1. Paired(n) # {} /\ pair = <<n.Order[PairedHead(n, FALSE)], n.Order[PairedHead(n, TRUE)]>>
      BY <2>2, Zenon DEF GetPairedDualStackSubnets
    <3>2. \A ipv6 \in BOOLEAN : PairedHead(n, ipv6) \in AvailableSubnets(n)
      BY <3>1, PairedHeadOK, Zenon DEF Paired
    <3>3. /\ FreeIPs(At(n, PairedHead(n, FALSE))) # {}
          /\ FreeIPs(At(n, PairedHead(n, TRUE))) # {}
      BY <3>2, <1>2, Zenon
    <3>4. /\ n.Subnets[pair[1]] = At(n, PairedHead(n, FALSE))
          /\ n.Subnets[pair[2]] = At(n, PairedHead(n, TRUE))
      BY <3>1 DEF At
    <3> QED
      BY <2>2, <3>3, <3>4, PairOK, Zenon DEF PairSelection
  <2> QED
    BY <2>1, <2>2
<1> QED
  BY <1>1, <1>3, <1>4, Zenon

(***************************************************************************)
(* The inductive invariant, and one lemma for each action.                 *)
(***************************************************************************)
IInv ==
    /\ DOMAIN Networks \subseteq NetworkNames
    /\ \A n \in DOMAIN Networks : NetworkInv(Networks[n])

\* A step that replaces one network by one that satisfies its invariant.
LEMMA SetNetworkInv ==
    ASSUME IInv, NEW n \in DOMAIN Networks, NEW m, NetworkInv(m),
           Networks' = [Networks EXCEPT ![n] = m]
    PROVE  IInv'
  BY Zenon DEF IInv

\* The steps that change a single subnet end with SetSubnet.
LEMMA SetSubnetInv ==
    ASSUME IInv, NEW n \in DOMAIN Networks, NEW m, NetworkInv(m),
           NEW s \in DOMAIN m.Subnets, NEW t, SubnetInv(t), SetSubnet(n, m, s, t)
    PROVE  IInv'
  BY WithSubnetInv, SetNetworkInv, Zenon DEF SetSubnet

\* refreshNetwork, with whatever the getters answer.
LEMMA RefreshNetworkInv ==
    ASSUME IInv, NEW n \in NetworkNames, RefreshNetwork(n)
    PROVE  IInv'
<1>1. PICK spec \in NetworkSpecs, subnets \in SubnetLists,
           ipSets \in [SubnetNames -> UNION {IPSets[s] : s \in SubnetNames}] :
        /\ \A s \in SubnetNames : ipSets[s] \in IPSets[s]
        /\ Networks' = [m \in DOMAIN Networks \cup {n} |->
                          IF m = n THEN NewNetwork(spec, subnets, ipSets) ELSE Networks[m]]
  BY Zenon DEF RefreshNetwork
<1>2. NetworkInv(NewNetwork(spec, subnets, ipSets))
  BY <1>1, NewNetworkInv, Zenon
<1> QED
  BY <1>1, <1>2, Zenon DEF IInv

\* RemoveNetwork forgets a network.
LEMMA RemoveNetworkInv ==
    ASSUME IInv, NEW n, RemoveNetwork(n)
    PROVE  IInv'
  BY DEF IInv, RemoveNetwork

\* An allocation from a subnet that was named or picked.
LEMMA AllocateFromInv ==
    ASSUME IInv, NEW n \in DOMAIN Networks, NEW name, NEW pod \in Pods,
           NEW s \in DOMAIN Networks[n].Subnets \cup {NoName}, AllocateFrom(n, name, s, pod)
    PROVE  IInv'
<1>1. s \in DOMAIN Networks[n].Subnets
  BY Zenon DEF AllocateFrom
<1>2. NetworkInv(Networks[n]) /\ SubnetInv(Networks[n].Subnets[s])
  BY <1>1, Zenon DEF IInv, NetworkInv
<1>3. SubnetInv(AllocateNext(Networks[n].Subnets[s], pod))
  BY <1>2, AllocateNextInv, Zenon
<1>4. /\ NetworkInv(MoveIndex(Networks[n], name, s))
      /\ s \in DOMAIN MoveIndex(Networks[n], name, s).Subnets
  BY <1>1, <1>2, MoveIndexInv, Zenon
<1> QED
  BY <1>3, <1>4, SetSubnetInv, Zenon DEF AllocateFrom

\* Allocate of one family, and of the single-stack allocator.
LEMMA AllocateOneInv ==
    ASSUME IInv, NEW n, NEW name, NEW ipv6 \in BOOLEAN, NEW pod \in Pods,
           AllocateOf(n, name, ipv6, pod) \/ AllocateAny(n, name, pod)
    PROVE  IInv'
<1>1. n \in DOMAIN Networks /\ NetworkInv(Networks[n])
  BY Zenon DEF AllocateOf, AllocateAny, IInv
<1>2. CASE AllocateOf(n, name, ipv6, pod)
  BY <1>1, <1>2, GettersOK, AllocateFromInv, Zenon DEF AllocateOf
<1>3. CASE AllocateAny(n, name, pod)
  BY <1>1, <1>3, GettersOK, AllocateFromInv, Zenon DEF AllocateAny
<1> QED
  BY <1>2, <1>3, Zenon

\* The effect of a dual-stack allocation on its two subnets.
LEMMA AllocatePairInv ==
    ASSUME NEW n, NetworkInv(n), NEW pair, NEW pod \in Pods,
           pair[1] \in DOMAIN n.Subnets, pair[2] \in DOMAIN n.Subnets
    PROVE  NetworkInv(AllocatePair(n, pair, pod))
<1> DEFINE v4 == n.Subnets[pair[1]]
           v6 == n.Subnets[pair[2]]
           new4 == IF FreeIPs(v6) = {}
                   THEN Release(AllocateNext(v4, pod), NextIP(v4))
                   ELSE AllocateNext(v4, pod)
<1>1. SubnetInv(v4) /\ SubnetInv(v6)
  BY Zenon DEF NetworkInv
<1>2. SubnetInv(AllocateNext(v4, pod)) /\ SubnetInv(AllocateNext(v6, pod))
  BY <1>1, AllocateNextInv, Zenon
<1>3. SubnetInv(new4)
  BY <1>2, ReleaseInv, Zenon
<1>4. AllocatePair(n, pair, pod)
        = IF FreeIPs(v4) = {}
          THEN WithSubnet(n, pair[1], AllocateNext(v4, pod))
          ELSE WithSubnet(WithSubnet(n, pair[1], new4), pair[2], AllocateNext(v6, pod))
  BY Zenon DEF AllocatePair
<1> HIDE DEF new4, v4, v6
<1>5. NetworkInv(WithSubnet(n, pair[1], AllocateNext(v4, pod)))
  BY <1>2, WithSubnetInv, Zenon
<1>6. /\ NetworkInv(WithSubnet(n, pair[1], new4))
      /\ pair[2] \in DOMAIN WithSubnet(n, pair[1], new4).Subnets
  <2>1. NetworkInv(WithSubnet(n, pair[1], new4))
    BY <1>3, WithSubnetInv, Zenon
  <2>2. DOMAIN WithSubnet(n, pair[1], new4).Subnets = DOMAIN n.Subnets
    BY WithSubnetDomain, Zenon
  <2> QED
    BY <2>1, <2>2, Zenon
<1>7. NetworkInv(WithSubnet(WithSubnet(n, pair[1], new4), pair[2], AllocateNext(v6, pod)))
  BY <1>2, <1>6, WithSubnetInv, Zenon
<1> QED
  BY <1>4, <1>5, <1>7, Zenon

\* allocateDualStack.
LEMMA AllocateDualStackInv ==
    ASSUME IInv, NEW n, NEW v4Name, NEW v6Name, NEW pod \in Pods,
           AllocateDualStack(n, v4Name, v6Name, pod)
    PROVE  IInv'
<1> DEFINE pair == GetPairedDualStackSubnets(Networks[n], v4Name, v6Name)
           name == IF v4Name = NoName \/ v6Name = NoName THEN NoName ELSE v4Name
           moved == MoveIndex(Networks[n], name, pair[1])
<1>1. /\ n \in DOMAIN Networks /\ NetworkInv(Networks[n])
      /\ pair # <<>>
      /\ Networks' = [Networks EXCEPT ![n] = AllocatePair(moved, pair, pod)]
  BY Zenon DEF AllocateDualStack, IInv
<1>2. /\ pair[1] \in DOMAIN Networks[n].Subnets
      /\ pair[2] \in DOMAIN Networks[n].Subnets
  BY <1>1, PairOK, Zenon
<1> HIDE DEF pair, name
<1>3. NetworkInv(moved) /\ moved.Subnets = Networks[n].Subnets
  BY <1>1, <1>2, MoveIndexInv, Zenon
<1> HIDE DEF moved
<1>4. NetworkInv(AllocatePair(moved, pair, pod))
  BY <1>2, <1>3, AllocatePairInv
<1> QED
  BY <1>1, <1>4, SetNetworkInv, Zenon

\* An address that may be assigned lies in the range of its subnet.
LEMMA AssignInv ==
    ASSUME NEW s, SubnetInv(s), NEW pod \in Pods, NEW ip \in Nat, NEW forced,
           Assignable(s, pod, ip, forced)
    PROVE  SubnetInv(Assign(s, pod, ip))
<1>1. RangeOK(s) /\ Contains(s, ip)
  BY DEF Assignable, SubnetInv
<1>2. ip \in ContainedIPs(s)
  BY <1>1, ContainedIPsFinite
<1> QED
  BY <1>2, UseInv DEF Assign

\* Assign of one address.
LEMMA AssignOneInv ==
    ASSUME IInv, NEW n, NEW name, NEW ip \in Nat, NEW pod \in Pods, NEW forced,
           AssignOne(n, name, ip, pod, forced)
    PROVE  IInv'
<1> DEFINE s == GetSubnetByIP(Networks[n], name, ip)
<1>1. /\ n \in DOMAIN Networks /\ NetworkInv(Networks[n])
      /\ s # NoName
      /\ Assignable(Networks[n].Subnets[s], pod, ip, forced)
      /\ SetSubnet(n, Networks[n], s, Assign(Networks[n].Subnets[s], pod, ip))
  BY DEF AssignOne, IInv
<1>2. s \in DOMAIN Networks[n].Subnets
  BY <1>1, GettersOK, Zenon
<1> HIDE DEF s
<1>3. SubnetInv(Networks[n].Subnets[s])
  BY <1>1, <1>2, Zenon DEF NetworkInv
<1>4. SubnetInv(Assign(Networks[n].Subnets[s], pod, ip))
  BY <1>1, <1>3, AssignInv
<1> QED
  BY <1>1, <1>2, <1>4, SetSubnetInv

\* assignDualStack, whether or not the IPv6 address can be assigned.
LEMMA AssignDualStackInv ==
    ASSUME IInv, NEW n, NEW v4Name, NEW v6Name, NEW ipv4 \in Nat, NEW ipv6 \in Nat,
           NEW pod \in Pods, NEW forced,
           AssignDualStack(n, v4Name, v6Name, ipv4, ipv6, pod, forced)
    PROVE  IInv'
<1> DEFINE s4 == GetSubnetByIP(Networks[n], v4Name, ipv4)
           s6 == GetSubnetByIP(Networks[n], v6Name, ipv6)
           new4 == Assign(Networks[n].Subnets[s4], pod, ipv4)
           next == WithSubnet(Networks[n], s4, new4)
           new6 == IF Assignable(next.Subnets[s6], pod, ipv6, forced)
                   THEN Assign(next.Subnets[s6], pod, ipv6)
                   ELSE next.Subnets[s6]
<1>1. /\ n \in DOMAIN Networks /\ NetworkInv(Networks[n])
      /\ s4 # NoName /\ s6 # NoName
      /\ Assignable(Networks[n].Subnets[s4], pod, ipv4, forced)
      /\ SetSubnet(n, next, s6, new6)
  BY Zenon DEF AssignDualStack, IInv
<1>2. s4 \in DOMAIN Networks[n].Subnets /\ s6 \in DOMAIN Networks[n].Subnets
  BY <1>1, GettersOK, Zenon
<1> HIDE DEF s4, s6
<1>3. SubnetInv(new4)
  BY <1>1, <1>2, AssignInv, Zenon DEF NetworkInv
<1> HIDE DEF new4
<1>4. NetworkInv(next) /\ s6 \in DOMAIN next.Subnets
  <2>1. NetworkInv(Networks[n])
    BY <1>1
  <2>2. NetworkInv(WithSubnet(Networks[n], s4, new4))
    BY <2>1, <1>2, <1>3, WithSubnetInv, Zenon
  <2>3. DOMAIN WithSubnet(Networks[n], s4, new4).Subnets = DOMAIN Networks[n].Subnets
    BY <2>1, WithSubnetDomain
  <2> QED
    BY <1>2, <2>2, <2>3
<1> HIDE DEF next
<1>5. SubnetInv(next.Subnets[s6])
  BY <1>4, Zenon DEF NetworkInv
<1>6. SubnetInv(new6)
  BY <1>5, AssignInv
<1> HIDE DEF new6
<1> QED
  BY <1>1, <1>4, <1>6, SetSubnetInv

\* Release of one address.
LEMMA ReleaseIPInv ==
    ASSUME IInv, NEW n, NEW s, NEW ip, ReleaseIP(n, s, ip)
    PROVE  IInv'
<1>1. /\ n \in DOMAIN Networks /\ NetworkInv(Networks[n])
      /\ s \in DOMAIN Networks[n].Subnets
      /\ SetSubnet(n, Networks[n], s, Release(Networks[n].Subnets[s], ip))
  BY DEF ReleaseIP, IInv
<1>2. SubnetInv(Release(Networks[n].Subnets[s], ip))
  BY <1>1, ReleaseInv, Zenon DEF NetworkInv
<1> QED
  BY <1>1, <1>2, SetSubnetInv

\* releaseIPs, whether or not it finds the second subnet.
LEMMA ReleaseIPsInv ==
    ASSUME IInv, NEW n, NEW s, NEW ip, NEW t, NEW jp, ReleaseIPs(n, s, ip, t, jp)
    PROVE  IInv'
<1> DEFINE next == WithSubnet(Networks[n], s, Release(Networks[n].Subnets[s], ip))
<1>1. /\ n \in DOMAIN Networks /\ NetworkInv(Networks[n])
      /\ s \in DOMAIN Networks[n].Subnets
      /\ IF t \in DOMAIN next.Subnets
         THEN SetSubnet(n, next, t, Release(next.Subnets[t], jp))
         ELSE Networks' = [Networks EXCEPT ![n] = next]
  BY Zenon DEF ReleaseIPs, IInv
<1>2. NetworkInv(next)
  <2>1. SubnetInv(Release(Networks[n].Subnets[s], ip))
    BY <1>1, ReleaseInv, Zenon DEF NetworkInv
  <2> QED
    BY <1>1, <2>1, WithSubnetInv, Zenon
<1> HIDE DEF next
<1>3. CASE t \in DOMAIN next.Subnets
  <2>1. SubnetInv(Release(next.Subnets[t], jp))
    BY <1>2, <1>3, ReleaseInv, Zenon DEF NetworkInv
  <2> QED
    BY <1>1, <1>2, <1>3, <2>1, SetSubnetInv
<1>4. CASE t \notin DOMAIN next.Subnets
  BY <1>1, <1>2, <1>4, SetNetworkInv
<1> QED
  BY <1>3, <1>4

\* Every step of the allocator keeps the invariant.
LEMMA NextInv ==
    ASSUME IInv, [Next]_vars
    PROVE  IInv'
<1>1. CASE UNCHANGED vars
  BY <1>1 DEF vars, IInv
<1>2. ASSUME NEW n \in NetworkNames, RefreshNetwork(n) \/ RemoveNetwork(n)
      PROVE  IInv'
  BY <1>2, RefreshNetworkInv, RemoveNetworkInv
<1>3. ASSUME NEW n \in NetworkNames, AssignCall(n) \/ ReleaseCall(n)
      PROVE  IInv'
  BY <1>3, InputsAssumption, AssignOneInv, ReleaseIPInv DEF AssignCall, ReleaseCall
<1>4. ASSUME NEW n \in NetworkNames, SingleStackCall(n)
      PROVE  IInv'
  <2>1. CASE \E name \in Requested, pod \in Pods : AllocateAny(n, name, pod)
    <3>1. FALSE \in BOOLEAN
      OBVIOUS
    <3> QED
      BY <2>1, <3>1, AllocateOneInv, Zenon
  <2> QED
    BY <1>3, <1>4, <2>1 DEF SingleStackCall
<1>5. ASSUME NEW n \in NetworkNames, DualStackCall(n)
      PROVE  IInv'
  <2>1. CASE \E name \in Requested, ipv6 \in BOOLEAN, pod \in Pods : AllocateOf(n, name, ipv6, pod)
    BY <2>1, AllocateOneInv
  <2>2. CASE \E v4Name, v6Name \in Requested, pod \in Pods : AllocateDualStack(n, v4Name, v6Name, pod)
    BY <2>2, AllocateDualStackInv
  <2>3. CASE \E ipv4, ipv6 \in Addresses, pod \in Pods :
               AssignDualStack(n, NoName, NoName, ipv4, ipv6, pod, TRUE)
    BY <2>3, InputsAssumption, AssignDualStackInv, Zenon
  <2>4. CASE \E s, t \in SubnetNames, ip, jp \in Addresses : s # t /\ ReleaseIPs(n, s, ip, t, jp)
    BY <2>4, ReleaseIPsInv
  <2> QED
    BY <1>3, <1>5, <2>1, <2>2, <2>3, <2>4, Zenon DEF DualStackCall
<1> QED
  BY <1>1, <1>2, <1>4, <1>5 DEF Next, Call

(***************************************************************************)
(* The theorems.                                                           *)
(***************************************************************************)
\* The invariant holds in every state the allocator reaches.
THEOREM InvariantHolds == Spec => []IInv
<1>1. Init => IInv
  BY DEF Init, IInv
<1>2. IInv /\ [Next]_vars => IInv'
  BY NextInv
<1> QED
  BY <1>1, <1>2, PTL DEF Spec

\* Both round-robin indexes stay inside their slices, and every address in
\* use has a known pod and status, under any sequence of calls.
THEOREM TypeCorrect == Spec => []TypeOK
<1>1. IInv => TypeOK
  BY NetworkInvImplies DEF IInv, TypeOK
<1> QED
  BY <1>1, InvariantHolds, PTL

\* No gateway, excluded or out-of-range address is ever recorded as in use,
\* and no reserved one is ever forgotten.
THEOREM UsageCorrect == Spec => []OnlyContainedIPsInUse
<1>1. IInv => OnlyContainedIPsInUse
  BY SubnetInvImplies, Zenon DEF IInv, NetworkInv, OnlyContainedIPsInUse, EverySubnet
<1> QED
  BY <1>1, InvariantHolds, PTL

\* IsAvailable, which only compares counters, is true exactly of the public
\* subnets that have a free address, and no usage count is negative.
THEOREM AccountingCorrect == Spec => []AvailabilityExact
<1>1. IInv => AvailabilityExact
  BY SubnetInvImplies, Zenon DEF IInv, NetworkInv, AvailabilityExact, EverySubnet
<1> QED
  BY <1>1, InvariantHolds, PTL

\* An allocation of one family without a named subnet finds a free address
\* whenever an available subnet of the family exists.
THEOREM SelectionCorrect == Spec => []SelectionFindsFreeIP
<1>1. IInv => SelectionFindsFreeIP
  BY NetworkInvImplies DEF IInv, SelectionFindsFreeIP
<1> QED
  BY <1>1, InvariantHolds, PTL

\* A dual-stack allocation without named subnets finds two free addresses of
\* one net ID whenever a net ID has available subnets of both families.
THEOREM PairSelectionCorrect == Spec => []PairSelectionFindsFreeIPs
<1>1. IInv => PairSelectionFindsFreeIPs
  BY NetworkInvImplies DEF IInv, PairSelectionFindsFreeIPs
<1> QED
  BY <1>1, InvariantHolds, PTL

(***************************************************************************)
(* 2. The pool and its owners.  One subnet.                                *)
(***************************************************************************)
UsedBy(pod) == [Pod |-> pod, Status |-> IPStatusUsing]

\* The addresses of the subnet stay the same.
SameRange(s, t) == t.ReservedList = s.ReservedList /\ ContainedIPs(t) = ContainedIPs(s)

LEMMA UseEffect ==
    ASSUME NEW s, SubnetInv(s), NEW pod, NEW ip
    PROVE  /\ SameRange(s, Use(s, pod, ip))
           /\ Use(s, pod, ip).UsingIPs = Add(s.UsingIPs, ip, UsedBy(pod))
<1> DEFINE t == Use(s, pod, ip)
<1>1. /\ t.UsingIPs = Add(s.UsingIPs, ip, UsedBy(pod))
      /\ \A f \in SubnetFields \ {"UsingIPs"} : t[f] = s[f]
  BY DEF Use, UsedBy, SubnetInv, SubnetFields
<1> HIDE DEF t
<1>2. SameRange(s, t)
  BY <1>1, Zenon DEF SameRange, ContainedIPs, Contains, InCIDR, SubnetFields
<1> QED
  BY <1>1, <1>2, Zenon DEF t

\* A reserved address keeps its record, and the others are forgotten.
LEMMA ReleaseEffect ==
    ASSUME NEW s, SubnetInv(s), NEW ip
    PROVE  /\ SameRange(s, Release(s, ip))
           /\ Release(s, ip).UsingIPs = IF ip \in s.ReservedList
                                        THEN Update(s.UsingIPs, ip, NoPod, IPStatusReserved)
                                        ELSE Delete(s.UsingIPs, ip)
<1> DEFINE t == Release(s, ip)
<1>1. /\ t.UsingIPs = IF ip \in s.ReservedList
                      THEN Update(s.UsingIPs, ip, NoPod, IPStatusReserved)
                      ELSE Delete(s.UsingIPs, ip)
      /\ \A f \in SubnetFields \ {"UsingIPs"} : t[f] = s[f]
  BY DEF Release, SubnetInv, SubnetFields
<1> HIDE DEF t
<1>2. SameRange(s, t)
  BY <1>1, Zenon DEF SameRange, ContainedIPs, Contains, InCIDR, SubnetFields
<1> QED
  BY <1>1, <1>2, Zenon DEF t

\* AllocateNext takes a free address if there is one, and a release of it restores the set.
LEMMA AllocateNextEffect ==
    ASSUME NEW s, SubnetInv(s), NEW pod \in Pods
    PROVE  /\ SameRange(s, AllocateNext(s, pod))
           /\ FreeIPs(s) = {} => AllocateNext(s, pod).UsingIPs = s.UsingIPs
           /\ FreeIPs(s) # {} =>
                /\ NextIP(s) \in ContainedIPs(s) \ DOMAIN s.UsingIPs
                /\ AllocateNext(s, pod).UsingIPs = Add(s.UsingIPs, NextIP(s), UsedBy(pod))
                /\ SameRange(s, Release(AllocateNext(s, pod), NextIP(s)))
                /\ Release(AllocateNext(s, pod), NextIP(s)).UsingIPs = s.UsingIPs
<1>1. ASSUME NEW ip \in s.AvailableIPs
      PROVE  SubnetInv(Turn(s, ip)) /\ SameRange(s, Turn(s, ip)) /\ Turn(s, ip).UsingIPs = s.UsingIPs
  <2>1. Turn(s, ip).ReservedList = s.ReservedList
    BY DEF Turn, SubnetInv, SubnetFields
  <2> QED
    BY <2>1, TurnInv, Zenon DEF SameRange
<1>2. CASE FreeIPs(s) # {}
  <2> DEFINE ip == NextIP(s)
             t  == Turn(s, ip)
             a  == AllocateNext(s, pod)
             r  == Release(a, ip)
  <2>1. ip \in s.AvailableIPs /\ ip \notin DOMAIN s.UsingIPs
    BY <1>2, NextIPFree, Zenon DEF FreeIPs
  <2>2. ip \in ContainedIPs(s) /\ ip \notin s.ReservedList
    BY <2>1, Zenon DEF SubnetInv
  <2>3. a = Use(t, pod, ip)
    BY <1>2 DEF AllocateNext
  <2>4. SubnetInv(t) /\ SameRange(s, t) /\ t.UsingIPs = s.UsingIPs
    BY <1>1, <2>1, Zenon
  <2>5. SubnetInv(a)
    BY AllocateNextInv
  <2> HIDE DEF t, ip
  <2>6. SameRange(t, a) /\ a.UsingIPs = Add(s.UsingIPs, ip, UsedBy(pod))
    BY <2>3, <2>4, UseEffect, Zenon
  <2> HIDE DEF a
  <2>7. SameRange(a, r) /\ r.UsingIPs = Delete(a.UsingIPs, ip)
    BY <2>2, <2>4, <2>5, <2>6, ReleaseEffect, Zenon DEF SameRange
  <2>8. Delete(a.UsingIPs, ip) = s.UsingIPs
    <3>1. s.UsingIPs = [x \in DOMAIN s.UsingIPs |-> s.UsingIPs[x]]
      BY Zenon DEF SubnetInv, SubnetTypeOK, IPSetOK
    <3> QED
      BY <2>1, <2>6, <3>1 DEF Delete, Add
  <2> QED
    BY <1>2, <2>1, <2>2, <2>4, <2>6, <2>7, <2>8, Zenon DEF SameRange, a, ip
<1>3. CASE FreeIPs(s) = {} /\ s.Current = Nil /\ s.AvailableIPs # {}
  <2>1. Max(s.AvailableIPs) \in s.AvailableIPs
    BY <1>3, LastOfSlice, Zenon
  <2>2. AllocateNext(s, pod) = Turn(s, Max(s.AvailableIPs))
    BY <1>3 DEF AllocateNext
  <2> QED
    BY <1>1, <1>3, <2>1, <2>2, Zenon
<1>4. CASE FreeIPs(s) = {} /\ ~(s.Current = Nil /\ s.AvailableIPs # {})
  BY <1>4 DEF AllocateNext, SameRange
<1> QED
  BY <1>2, <1>3, <1>4, Zenon

(***************************************************************************)
(* The slots.  A slot is <<network, subnet, address>>.                     *)
(***************************************************************************)
IsSlot(N, x) ==
    /\ x = <<x[1], x[2], x[3]>>
    /\ x[1] \in DOMAIN N /\ x[2] \in DOMAIN N[x[1]].Subnets

SubnetOf(N, x) == N[x[1]].Subnets[x[2]]

\* What is in the three variables of the pool.
SlotsAre ==
    /\ \A x : x \in AllocatableSlots <=> IsSlot(Networks, x) /\ x[3] \in ContainedIPs(SubnetOf(Networks, x))
    /\ \A x : x \in ReservedSlots <=> IsSlot(Networks, x) /\ x[3] \in SubnetOf(Networks, x).ReservedList
    /\ \A x : x \in DOMAIN SlotOwner <=> IsSlot(Networks, x) /\ x[3] \in DOMAIN SubnetOf(Networks, x).UsingIPs
    /\ \A x \in DOMAIN SlotOwner : SlotOwner[x] = SubnetOf(Networks, x).UsingIPs[x[3]]
    /\ SlotOwner = [x \in DOMAIN SlotOwner |-> SlotOwner[x]]

LEMMA SlotsNow == SlotsAre
<1>1. ASSUME NEW x PROVE x \in AllocatableSlots <=> IsSlot(Networks, x) /\ x[3] \in ContainedIPs(SubnetOf(Networks, x))
  BY DEF AllocatableSlots, Slots, IsSlot, SubnetOf
<1>2. ASSUME NEW x PROVE x \in ReservedSlots <=> IsSlot(Networks, x) /\ x[3] \in SubnetOf(Networks, x).ReservedList
  BY DEF ReservedSlots, ReservedIPs, Slots, IsSlot, SubnetOf
<1>3. ASSUME NEW x
      PROVE  x \in Slots(UsedIPs) <=> IsSlot(Networks, x) /\ x[3] \in DOMAIN SubnetOf(Networks, x).UsingIPs
  BY DEF UsedIPs, Slots, IsSlot, SubnetOf
<1> DEFINE used == Slots(UsedIPs)
<1>4. SlotOwner = [x \in used |-> SubnetOf(Networks, x).UsingIPs[x[3]]]
  BY DEF SlotOwner, SubnetOf
<1> HIDE DEF used
<1>5. DOMAIN SlotOwner = used /\ \A x \in used : SlotOwner[x] = SubnetOf(Networks, x).UsingIPs[x[3]]
  BY <1>4
<1>6. SlotOwner = [x \in DOMAIN SlotOwner |-> SlotOwner[x]]
  BY <1>4, <1>5
<1> QED
  BY <1>1, <1>2, <1>3, <1>5, <1>6, Zenon DEF used, SlotsAre

LEMMA SlotsNext == SlotsAre'
BY SlotsNow, PTL

LEMMA PoolIs ==
    /\ Pool!PoolInit <=> AllocatableSlots = {} /\ ReservedSlots = {} /\ SlotOwner = [x \in {} |-> {}]
    /\ UNCHANGED Pool!poolVars <=> Pool!SameSlots /\ SlotOwner' = SlotOwner
BY DEF Pool!PoolInit, Pool!poolVars, Pool!SameSlots

(***************************************************************************)
(* A call replaces network k by m.                                         *)
(***************************************************************************)
Replaces(k, m) == Networks' = [Networks EXCEPT ![k] = m]

\* The slots of network k keep to the ranges of its subnets.
SameRanges(n, m) ==
    /\ DOMAIN m.Subnets = DOMAIN n.Subnets
    /\ \A s \in DOMAIN n.Subnets : SameRange(n.Subnets[s], m.Subnets[s])

\* The slots S of network k, which is n before and m after, go to pod.
Claims(k, n, m, S, pod) ==
    \A s \in DOMAIN n.Subnets :
        LET old == n.Subnets[s].UsingIPs
            new == m.Subnets[s].UsingIPs
        IN  /\ \A ip : ip \in DOMAIN new <=> ip \in DOMAIN old \/ <<k, s, ip>> \in S
            /\ \A ip \in DOMAIN new : new[ip] = IF <<k, s, ip>> \in S THEN UsedBy(pod) ELSE old[ip]

\* The slots S of network k are given back.
Yields(k, n, m, S) ==
    \A s \in DOMAIN n.Subnets :
        LET old  == n.Subnets[s].UsingIPs
            new  == m.Subnets[s].UsingIPs
            kept == n.Subnets[s].ReservedList
        IN  /\ \A ip : ip \in DOMAIN new <=> ip \in DOMAIN old /\ (<<k, s, ip>> \in S => ip \in kept)
            /\ \A ip \in DOMAIN new :
                  new[ip] = IF <<k, s, ip>> \in S THEN [old[ip] EXCEPT !.Status = "Reserved"] ELSE old[ip]

LEMMA ReplacesSlots ==
    ASSUME NEW k \in DOMAIN Networks, NEW m, Replaces(k, m), SameRanges(Networks[k], m)
    PROVE  /\ \A x : IsSlot(Networks', x) <=> IsSlot(Networks, x)
           /\ \A x : IsSlot(Networks, x) /\ x[1] # k => SubnetOf(Networks', x) = SubnetOf(Networks, x)
           /\ \A x : IsSlot(Networks, x) /\ x[1] = k => SubnetOf(Networks', x) = m.Subnets[x[2]]
           /\ Pool!SameSlots
<1>1. /\ DOMAIN Networks' = DOMAIN Networks /\ Networks'[k] = m
      /\ \A n \in DOMAIN Networks : n # k => Networks'[n] = Networks[n]
  BY DEF Replaces
<1>2. \A x : IsSlot(Networks', x) <=> IsSlot(Networks, x)
  BY <1>1 DEF IsSlot, SameRanges
<1>3. /\ \A x : IsSlot(Networks, x) /\ x[1] # k => SubnetOf(Networks', x) = SubnetOf(Networks, x)
      /\ \A x : IsSlot(Networks, x) /\ x[1] = k => SubnetOf(Networks', x) = m.Subnets[x[2]]
  BY <1>1 DEF IsSlot, SubnetOf
<1>4. \A x : IsSlot(Networks, x) => SameRange(SubnetOf(Networks, x), SubnetOf(Networks', x))
  BY <1>3, Zenon DEF IsSlot, SubnetOf, SameRanges, SameRange
<1>5. \A x : x \in AllocatableSlots' <=> x \in AllocatableSlots
  BY <1>2, <1>4, SlotsNow, SlotsNext DEF SlotsAre, SameRange
<1>6. \A x : x \in ReservedSlots' <=> x \in ReservedSlots
  BY <1>2, <1>4, SlotsNow, SlotsNext DEF SlotsAre, SameRange
<1>7. Pool!SameSlots
  BY <1>5, <1>6, Zenon DEF Pool!SameSlots
<1> QED
  BY <1>2, <1>3, <1>7

\* A set of at most two slots, of which one at least is meant.
LEMMA OneOrTwoOK ==
    ASSUME NEW a, NEW b, NEW S \in SUBSET {a, b}, S # {}
    PROVE  Pool!OneOrTwo(S)
BY DEF Pool!OneOrTwo

\* What the callers may expect of a step that gives slots to a pod.
LEMMA ClaimStep ==
    ASSUME NEW a, NEW b, NEW S \in SUBSET {a, b}, NEW pod \in Pods, Pool!SameSlots,
           S \subseteq AllocatableSlots,
           \A x \in S \cap DOMAIN SlotOwner : SlotOwner[x].Pod = pod \/ SlotOwner[x].Status = "Reserved",
           DOMAIN SlotOwner' = DOMAIN SlotOwner \cup S,
           \A x \in DOMAIN SlotOwner' : SlotOwner'[x] = IF x \in S THEN UsedBy(pod) ELSE SlotOwner[x]
    PROVE  Pool!PoolNext \/ UNCHANGED Pool!poolVars
<1> DEFINE G == Pool!Given
<1>1. G = {x \in DOMAIN SlotOwner' : x \in DOMAIN SlotOwner => SlotOwner[x] # SlotOwner'[x]}
  BY DEF Pool!Given
<1> HIDE DEF G
<1>2. G \subseteq S /\ \A x \in S \ G : x \in DOMAIN SlotOwner /\ SlotOwner[x] = SlotOwner'[x]
  BY <1>1
<1>3. /\ DOMAIN SlotOwner' = DOMAIN SlotOwner \cup G
      /\ \A x \in DOMAIN SlotOwner' : SlotOwner'[x] = IF x \in G THEN UsedBy(pod) ELSE SlotOwner[x]
  BY <1>2
<1>4. /\ SlotOwner = [x \in DOMAIN SlotOwner |-> SlotOwner[x]]
      /\ SlotOwner' = [x \in DOMAIN SlotOwner' |-> SlotOwner'[x]]
  BY SlotsNow, SlotsNext, Zenon DEF SlotsAre
<1>5. CASE G = {}
  <2>1. SlotOwner' = SlotOwner
    BY <1>3, <1>4, <1>5, Zenon
  <2> QED
    BY <2>1, PoolIs
<1>6. CASE G # {}
  <2>1. Pool!OneOrTwo(G)
    BY <1>2, <1>6, OneOrTwoOK, Zenon
  <2>2. Pool!Give(G, pod)
    <3>1. SlotOwner' = [x \in DOMAIN SlotOwner \cup G |-> IF x \in G THEN UsedBy(pod) ELSE SlotOwner[x]]
      BY <1>3, <1>4
    <3> QED
      BY <3>1 DEF Pool!Give, UsedBy, IPStatusUsing
  <2>3. Pool!Claim(G, pod)
    BY <1>2, <2>2 DEF Pool!Claim
  <2> QED
    BY <2>1, <2>3 DEF Pool!PoolNext, G
<1> QED
  BY <1>5, <1>6

\* What they may expect of one that takes slots back.
LEMMA YieldStep ==
    ASSUME NEW a, NEW b, NEW S \in SUBSET {a, b}, Pool!SameSlots,
           \A x : x \in DOMAIN SlotOwner' <=> x \in DOMAIN SlotOwner /\ (x \in S => x \in ReservedSlots),
           \A x \in DOMAIN SlotOwner' :
               SlotOwner'[x] = IF x \in S THEN [SlotOwner[x] EXCEPT !.Status = "Reserved"] ELSE SlotOwner[x]
    PROVE  Pool!PoolNext \/ UNCHANGED Pool!poolVars
<1> DEFINE T == Pool!Taken
           back == [x \in DOMAIN SlotOwner |-> [SlotOwner[x] EXCEPT !.Status = "Reserved"]]
<1>1. T = {x \in DOMAIN SlotOwner : x \in DOMAIN SlotOwner' => SlotOwner[x] # SlotOwner'[x]}
  BY DEF Pool!Taken
<1>2. \A x \in DOMAIN SlotOwner : back[x] = [SlotOwner[x] EXCEPT !.Status = "Reserved"]
  OBVIOUS
<1>3. \A x \in DOMAIN SlotOwner' : SlotOwner'[x] = IF x \in S THEN back[x] ELSE SlotOwner[x]
  BY <1>2
<1> HIDE DEF T, back
<1>4. T \subseteq S /\ \A x \in S \cap DOMAIN SlotOwner : x \notin T => x \in DOMAIN SlotOwner' /\ SlotOwner[x] = SlotOwner'[x]
  BY <1>1, <1>3
<1>5. /\ DOMAIN SlotOwner' = DOMAIN SlotOwner \ (T \ ReservedSlots)
      /\ \A x \in DOMAIN SlotOwner' : SlotOwner'[x] = IF x \in T THEN back[x] ELSE SlotOwner[x]
  BY <1>1, <1>3, <1>4, Zenon
<1>6. /\ SlotOwner = [x \in DOMAIN SlotOwner |-> SlotOwner[x]]
      /\ SlotOwner' = [x \in DOMAIN SlotOwner' |-> SlotOwner'[x]]
  BY SlotsNow, SlotsNext DEF SlotsAre
<1>7. CASE T = {}
  <2>1. SlotOwner' = SlotOwner
    BY <1>5, <1>6, <1>7
  <2> QED
    BY <2>1, PoolIs
<1>8. CASE T # {}
  <2>1. Pool!OneOrTwo(T)
    BY <1>4, <1>8, OneOrTwoOK, Zenon
  <2>2. SlotOwner' = [x \in DOMAIN SlotOwner \ (T \ ReservedSlots) |-> IF x \in T THEN back[x] ELSE SlotOwner[x]]
    BY <1>5, <1>6
  <2>3. SlotOwner' = [x \in DOMAIN SlotOwner \ (T \ ReservedSlots) |->
                        IF x \in T THEN [SlotOwner[x] EXCEPT !.Status = "Reserved"] ELSE SlotOwner[x]]
    BY <1>2, <2>2, Zenon
  <2>4. Pool!Yield(T)
    BY <2>3 DEF Pool!Yield
  <2> QED
    BY <2>1, <2>4 DEF Pool!PoolNext, T
<1> QED
  BY <1>7, <1>8

\* A slot of network k that the step may give to pod.
MayClaim(k, n, pod, x) ==
    /\ x = <<k, x[2], x[3]>> /\ x[2] \in DOMAIN n.Subnets
    /\ x[3] \in ContainedIPs(n.Subnets[x[2]])
    /\ x[3] \in DOMAIN n.Subnets[x[2]].UsingIPs =>
          \/ n.Subnets[x[2]].UsingIPs[x[3]].Pod = pod
          \/ n.Subnets[x[2]].UsingIPs[x[3]].Status = "Reserved"

LEMMA ClaimsStep ==
    ASSUME NEW k \in DOMAIN Networks, NEW m, Replaces(k, m), SameRanges(Networks[k], m),
           NEW a, NEW b, NEW S \in SUBSET {a, b}, NEW pod \in Pods,
           \A x \in S : MayClaim(k, Networks[k], pod, x), Claims(k, Networks[k], m, S, pod)
    PROVE  Pool!PoolNext \/ UNCHANGED Pool!poolVars
<1>1. /\ \A x : IsSlot(Networks', x) <=> IsSlot(Networks, x)
      /\ \A x : IsSlot(Networks, x) /\ x[1] # k => SubnetOf(Networks', x) = SubnetOf(Networks, x)
      /\ \A x : IsSlot(Networks, x) /\ x[1] = k => SubnetOf(Networks', x) = m.Subnets[x[2]]
      /\ Pool!SameSlots
  BY ReplacesSlots
<1>2. \A x \in S : x[1] = k /\ IsSlot(Networks, x) /\ SubnetOf(Networks, x) = Networks[k].Subnets[x[2]]
  BY SMTT(20) DEF MayClaim, IsSlot, SubnetOf
<1>3. S \subseteq AllocatableSlots
  BY <1>2, SlotsNow, Zenon DEF SlotsAre, MayClaim
<1>4. \A x \in S \cap DOMAIN SlotOwner : SlotOwner[x].Pod = pod \/ SlotOwner[x].Status = "Reserved"
  BY <1>2, SlotsNow, SMTT(20) DEF SlotsAre, MayClaim
<1>5. ASSUME NEW x, IsSlot(Networks, x)
      PROVE  /\ x \in DOMAIN SlotOwner' <=> x \in DOMAIN SlotOwner \/ x \in S
             /\ x \in DOMAIN SlotOwner' => SlotOwner'[x] = IF x \in S THEN UsedBy(pod) ELSE SlotOwner[x]
  <2>1. /\ x \in DOMAIN SlotOwner <=> x[3] \in DOMAIN SubnetOf(Networks, x).UsingIPs
        /\ x \in DOMAIN SlotOwner' <=> x[3] \in DOMAIN SubnetOf(Networks', x).UsingIPs
        /\ x \in DOMAIN SlotOwner => SlotOwner[x] = SubnetOf(Networks, x).UsingIPs[x[3]]
        /\ x \in DOMAIN SlotOwner' => SlotOwner'[x] = SubnetOf(Networks', x).UsingIPs[x[3]]
    BY <1>1, <1>5, SlotsNow, SlotsNext, Zenon DEF SlotsAre
  <2>2. CASE x[1] # k
    BY <1>1, <1>2, <1>5, <2>1, <2>2, Zenon
  <2>3. CASE x[1] = k
    <3>1. /\ x[2] \in DOMAIN Networks[k].Subnets /\ <<k, x[2], x[3]>> = x
          /\ SubnetOf(Networks, x) = Networks[k].Subnets[x[2]] /\ SubnetOf(Networks', x) = m.Subnets[x[2]]
      BY <1>1, <1>5, <2>3, Zenon DEF IsSlot, SubnetOf
    <3>2. /\ x[3] \in DOMAIN m.Subnets[x[2]].UsingIPs
               <=> x[3] \in DOMAIN Networks[k].Subnets[x[2]].UsingIPs \/ x \in S
          /\ x[3] \in DOMAIN m.Subnets[x[2]].UsingIPs =>
               m.Subnets[x[2]].UsingIPs[x[3]]
                 = IF x \in S THEN UsedBy(pod) ELSE Networks[k].Subnets[x[2]].UsingIPs[x[3]]
      BY <3>1, SMTT(20) DEF Claims
    <3> QED
      BY <2>1, <3>1, <3>2, Zenon
  <2> QED
    BY <2>2, <2>3, Zenon
<1>6. \A x : (x \in DOMAIN SlotOwner \/ x \in DOMAIN SlotOwner' \/ x \in S) => IsSlot(Networks, x)
  BY <1>1, <1>2, SlotsNow, SlotsNext, Zenon DEF SlotsAre
<1>7. DOMAIN SlotOwner' = DOMAIN SlotOwner \cup S
  BY <1>5, <1>6, Zenon
<1>8. \A x \in DOMAIN SlotOwner' : SlotOwner'[x] = IF x \in S THEN UsedBy(pod) ELSE SlotOwner[x]
  BY <1>5, <1>6, Zenon
<1> QED
  BY <1>1, <1>3, <1>4, <1>7, <1>8, ClaimStep, Zenon

LEMMA YieldsStep ==
    ASSUME NEW k \in DOMAIN Networks, NEW m, Replaces(k, m), SameRanges(Networks[k], m),
           NEW a, NEW b, NEW S \in SUBSET {a, b}, \A x \in S : x[1] = k, Yields(k, Networks[k], m, S)
    PROVE  Pool!PoolNext \/ UNCHANGED Pool!poolVars
<1> DEFINE Back(c) == [c EXCEPT !.Status = "Reserved"]
<1>1. /\ \A x : IsSlot(Networks', x) <=> IsSlot(Networks, x)
      /\ \A x : IsSlot(Networks, x) /\ x[1] # k => SubnetOf(Networks', x) = SubnetOf(Networks, x)
      /\ \A x : IsSlot(Networks, x) /\ x[1] = k => SubnetOf(Networks', x) = m.Subnets[x[2]]
      /\ Pool!SameSlots
  BY ReplacesSlots, Zenon
<1>2. ASSUME NEW x, IsSlot(Networks, x)
      PROVE  /\ x \in DOMAIN SlotOwner' <=> x \in DOMAIN SlotOwner /\ (x \in S => x \in ReservedSlots)
             /\ x \in DOMAIN SlotOwner' => SlotOwner'[x] = IF x \in S THEN Back(SlotOwner[x]) ELSE SlotOwner[x]
  <2>1. /\ x \in DOMAIN SlotOwner <=> x[3] \in DOMAIN SubnetOf(Networks, x).UsingIPs
        /\ x \in DOMAIN SlotOwner' <=> x[3] \in DOMAIN SubnetOf(Networks', x).UsingIPs
        /\ x \in ReservedSlots <=> x[3] \in SubnetOf(Networks, x).ReservedList
        /\ x \in DOMAIN SlotOwner => SlotOwner[x] = SubnetOf(Networks, x).UsingIPs[x[3]]
        /\ x \in DOMAIN SlotOwner' => SlotOwner'[x] = SubnetOf(Networks', x).UsingIPs[x[3]]
    BY <1>1, <1>2, SlotsNow, SlotsNext, Zenon DEF SlotsAre
  <2>2. CASE x[1] # k
    BY <1>1, <1>2, <2>1, <2>2, Zenon
  <2>3. CASE x[1] = k
    <3>1. /\ x[2] \in DOMAIN Networks[k].Subnets /\ <<k, x[2], x[3]>> = x
          /\ SubnetOf(Networks, x) = Networks[k].Subnets[x[2]] /\ SubnetOf(Networks', x) = m.Subnets[x[2]]
      BY <1>1, <1>2, <2>3, Zenon DEF IsSlot, SubnetOf
    <3>2. /\ x[3] \in DOMAIN m.Subnets[x[2]].UsingIPs
               <=> /\ x[3] \in DOMAIN Networks[k].Subnets[x[2]].UsingIPs
                   /\ x \in S => x[3] \in Networks[k].Subnets[x[2]].ReservedList
          /\ x[3] \in DOMAIN m.Subnets[x[2]].UsingIPs =>
               m.Subnets[x[2]].UsingIPs[x[3]]
                 = IF x \in S
                   THEN Back(Networks[k].Subnets[x[2]].UsingIPs[x[3]])
                   ELSE Networks[k].Subnets[x[2]].UsingIPs[x[3]]
      BY <3>1, SMTT(20) DEF Yields
    <3> HIDE DEF Back
    <3> QED
      BY <2>1, <3>1, <3>2, Zenon
  <2> QED
    BY <2>2, <2>3
<1>3. \A x : (x \in DOMAIN SlotOwner \/ x \in DOMAIN SlotOwner') => IsSlot(Networks, x)
  BY <1>1, SlotsNow, SlotsNext, Zenon DEF SlotsAre
<1>4. \A x : x \in DOMAIN SlotOwner' <=> x \in DOMAIN SlotOwner /\ (x \in S => x \in ReservedSlots)
  BY <1>2, <1>3, Zenon
<1>5. \A x \in DOMAIN SlotOwner' : SlotOwner'[x] = IF x \in S THEN Back(SlotOwner[x]) ELSE SlotOwner[x]
  BY <1>2, <1>3, Zenon
<1> QED
  BY <1>1, <1>4, <1>5, YieldStep, Zenon

(***************************************************************************)
(* What the methods of the allocator make of one network.                  *)
(***************************************************************************)
Claimed(k, n, m, S, pod) ==
    /\ SameRanges(n, m)
    /\ \A x \in S : MayClaim(k, n, pod, x)
    /\ Claims(k, n, m, S, pod)

Yielded(k, n, m, S) == SameRanges(n, m) /\ Yields(k, n, m, S)

\* Addresses are given to one pod, one after the other.
LEMMA ClaimedTwice ==
    ASSUME NEW k, NEW n, NEW m, NEW r, NEW S, NEW T, NEW pod,
           Claimed(k, n, m, S, pod), Claimed(k, m, r, T, pod)
    PROVE  Claimed(k, n, r, S \cup T, pod)
<1>1. SameRanges(n, r)
  BY Zenon DEF Claimed, SameRanges, SameRange
<1>2. ASSUME NEW s \in DOMAIN n.Subnets
      PROVE  LET old == n.Subnets[s].UsingIPs
                 mid == m.Subnets[s].UsingIPs
                 new == r.Subnets[s].UsingIPs
             IN  /\ \A ip : ip \in DOMAIN mid <=> ip \in DOMAIN old \/ <<k, s, ip>> \in S
                 /\ \A ip \in DOMAIN mid : mid[ip] = IF <<k, s, ip>> \in S THEN UsedBy(pod) ELSE old[ip]
                 /\ \A ip : ip \in DOMAIN new <=> ip \in DOMAIN mid \/ <<k, s, ip>> \in T
                 /\ \A ip \in DOMAIN new : new[ip] = IF <<k, s, ip>> \in T THEN UsedBy(pod) ELSE mid[ip]
  <2>1. s \in DOMAIN m.Subnets
    BY Zenon DEF Claimed, SameRanges
  <2> QED
    BY <2>1, Zenon DEF Claimed, Claims
<1>3. Claims(k, n, r, S \cup T, pod)
  BY <1>2, SMTT(20) DEF Claims
<1>4. ASSUME NEW x \in T, x \notin S PROVE MayClaim(k, n, pod, x)
  <2>1. MayClaim(k, m, pod, x) /\ x[2] \in DOMAIN n.Subnets
    BY Zenon DEF Claimed, SameRanges, MayClaim
  <2>2. ContainedIPs(m.Subnets[x[2]]) = ContainedIPs(n.Subnets[x[2]])
    BY <2>1, Zenon DEF Claimed, SameRanges, SameRange
  <2>3. <<k, x[2], x[3]>> \notin S
    BY <1>4, <2>1, Zenon DEF MayClaim
  <2>4. x[3] \in DOMAIN n.Subnets[x[2]].UsingIPs =>
          /\ x[3] \in DOMAIN m.Subnets[x[2]].UsingIPs
          /\ m.Subnets[x[2]].UsingIPs[x[3]] = n.Subnets[x[2]].UsingIPs[x[3]]
    BY <1>2, <2>1, <2>3, Zenon
  <2> QED
    BY <2>1, <2>2, <2>4, Zenon DEF MayClaim
<1> QED
  BY <1>1, <1>3, <1>4, Zenon DEF Claimed

\* A change of one subnet that gives no address.
LEMMA WithSubnetSame ==
    ASSUME NEW k, NEW n, NEW m, NetworkInv(m), m.Subnets = n.Subnets, NEW s \in DOMAIN n.Subnets,
           NEW t, SubnetInv(t), SameRange(n.Subnets[s], t), t.UsingIPs = n.Subnets[s].UsingIPs, NEW pod
    PROVE  Claimed(k, n, WithSubnet(m, s, t), {}, pod)
<1> DEFINE r == WithSubnet(m, s, t)
<1>1. r.Subnets = [n.Subnets EXCEPT ![s] = t]
  BY WithSubnetInv
<1> HIDE DEF r
<1>2. /\ DOMAIN r.Subnets = DOMAIN n.Subnets
      /\ \A x \in DOMAIN n.Subnets :
            SameRange(n.Subnets[x], r.Subnets[x]) /\ r.Subnets[x].UsingIPs = n.Subnets[x].UsingIPs
  BY <1>1, Zenon DEF SameRange
<1>3. SameRanges(n, r) /\ Claims(k, n, r, {}, pod)
  BY <1>2, Zenon DEF SameRanges, Claims
<1> QED
  BY <1>3, Zenon DEF Claimed, r

\* One that gives an address.
LEMMA WithSubnetClaimed ==
    ASSUME NEW k, NEW n, NEW m, NetworkInv(m), m.Subnets = n.Subnets, NEW s \in DOMAIN n.Subnets,
           NEW t, SubnetInv(t), SameRange(n.Subnets[s], t), NEW pod, NEW ip,
           t.UsingIPs = Add(n.Subnets[s].UsingIPs, ip, UsedBy(pod)), MayClaim(k, n, pod, <<k, s, ip>>)
    PROVE  Claimed(k, n, WithSubnet(m, s, t), {<<k, s, ip>>}, pod)
<1> DEFINE r == WithSubnet(m, s, t)
<1>1. r.Subnets = [n.Subnets EXCEPT ![s] = t]
  BY WithSubnetInv, SMTT(20)
<1> HIDE DEF r
<1>2. /\ DOMAIN r.Subnets = DOMAIN n.Subnets /\ r.Subnets[s] = t
      /\ \A x \in DOMAIN n.Subnets : x # s => r.Subnets[x] = n.Subnets[x]
  BY <1>1, Zenon
<1>3. SameRanges(n, r)
  BY <1>2, Zenon DEF SameRanges, SameRange
<1>4. /\ \A y : y \in DOMAIN t.UsingIPs <=> y \in DOMAIN n.Subnets[s].UsingIPs \/ y = ip
      /\ \A y \in DOMAIN t.UsingIPs : t.UsingIPs[y] = IF y = ip THEN UsedBy(pod) ELSE n.Subnets[s].UsingIPs[y]
  BY Zenon DEF Add
<1>5. \A x, y : <<k, x, y>> \in {<<k, s, ip>>} <=> x = s /\ y = ip
  BY Zenon
<1>6. Claims(k, n, r, {<<k, s, ip>>}, pod)
  BY <1>2, <1>4, <1>5, Zenon DEF Claims
<1> QED
  BY <1>3, <1>6, Zenon DEF Claimed, r

\* An address is given back.
LEMMA WithSubnetYielded ==
    ASSUME NEW k, NEW n, NetworkInv(n), NEW s \in DOMAIN n.Subnets, NEW ip
    PROVE  Yielded(k, n, WithSubnet(n, s, Release(n.Subnets[s], ip)), {<<k, s, ip>>})
<1> DEFINE t == Release(n.Subnets[s], ip)
           r == WithSubnet(n, s, t)
           used == n.Subnets[s].UsingIPs
<1>1. SubnetInv(n.Subnets[s])
  BY Zenon DEF NetworkInv
<1>2. /\ SubnetInv(t) /\ SameRange(n.Subnets[s], t)
      /\ t.UsingIPs = IF ip \in n.Subnets[s].ReservedList
                      THEN Update(used, ip, NoPod, IPStatusReserved)
                      ELSE Delete(used, ip)
  BY <1>1, ReleaseInv, ReleaseEffect, Zenon
<1> HIDE DEF t
<1>3. r.Subnets = [n.Subnets EXCEPT ![s] = t]
  BY <1>2, WithSubnetInv, ZenonT(30)
<1> HIDE DEF r
<1>4. /\ DOMAIN r.Subnets = DOMAIN n.Subnets /\ r.Subnets[s] = t
      /\ \A x \in DOMAIN n.Subnets : x # s => r.Subnets[x] = n.Subnets[x]
  BY <1>3, Zenon
<1>5. SameRanges(n, r)
  BY <1>2, <1>4, Zenon DEF SameRanges, SameRange
<1>6. ip \in DOMAIN used => [used[ip] EXCEPT !.Status = "Reserved"] = [Pod |-> used[ip].Pod, Status |-> "Reserved"]
  BY <1>1, SMTT(20) DEF SubnetInv, SubnetTypeOK, IPSetOK
<1>7. /\ \A y : y \in DOMAIN t.UsingIPs <=> y \in DOMAIN used /\ (y = ip => y \in n.Subnets[s].ReservedList)
      /\ \A y \in DOMAIN t.UsingIPs : y # ip => t.UsingIPs[y] = used[y]
      /\ ip \in DOMAIN t.UsingIPs => t.UsingIPs[ip] = [Pod |-> used[ip].Pod, Status |-> "Reserved"]
  <2>1. CASE ip \in n.Subnets[s].ReservedList
    <3>1. t.UsingIPs = [used EXCEPT ![ip] = [Pod |-> used[ip].Pod, Status |-> "Reserved"]]
      BY <1>1, <1>2, <2>1, Zenon DEF Update, IPStatusReserved, SubnetInv
    <3> QED
      BY <2>1, <3>1, Zenon
  <2>2. CASE ip \notin n.Subnets[s].ReservedList
    BY <1>2, <2>2, Zenon DEF Delete
  <2> QED
    BY <2>1, <2>2, Zenon
<1>8. \A x, y : <<k, x, y>> \in {<<k, s, ip>>} <=> x = s /\ y = ip
  OBVIOUS
<1>9. ASSUME NEW x \in DOMAIN n.Subnets
      PROVE  LET old  == n.Subnets[x].UsingIPs
                 new  == r.Subnets[x].UsingIPs
                 kept == n.Subnets[x].ReservedList
             IN  /\ \A y : y \in DOMAIN new <=> y \in DOMAIN old /\ (<<k, x, y>> \in {<<k, s, ip>>} => y \in kept)
                 /\ \A y \in DOMAIN new :
                      new[y] = IF <<k, x, y>> \in {<<k, s, ip>>} THEN [old[y] EXCEPT !.Status = "Reserved"] ELSE old[y]
  <2>1. CASE x # s
    BY <1>4, <1>8, <2>1, Zenon
  <2>2. CASE x = s
    <3>1. r.Subnets[x].UsingIPs = t.UsingIPs /\ n.Subnets[x].UsingIPs = used
      BY <1>4, <2>2, Zenon
    <3>2. \A y \in DOMAIN t.UsingIPs :
             t.UsingIPs[y] = IF y = ip THEN [used[y] EXCEPT !.Status = "Reserved"] ELSE used[y]
      BY <1>6, <1>7, Zenon
    <3> HIDE DEF used
    <3> QED
      BY <1>7, <1>8, <2>2, <3>1, <3>2
  <2> QED
    BY <2>1, <2>2, Zenon
<1>10. Yields(k, n, r, {<<k, s, ip>>})
  BY <1>9, Zenon DEF Yields
<1> QED
  BY <1>5, <1>10, Zenon DEF Yielded, r, t

\* Two addresses are given back.
LEMMA YieldedTwice ==
    ASSUME NEW k, NEW n, NEW m, NEW r, NEW S, NEW T, S \cap T = {},
           Yielded(k, n, m, S), Yielded(k, m, r, T)
    PROVE  Yielded(k, n, r, S \cup T)
<1>1. SameRanges(n, r)
  BY Zenon DEF Yielded, SameRanges, SameRange
<1>2. ASSUME NEW s \in DOMAIN n.Subnets
      PROVE  LET old  == n.Subnets[s].UsingIPs
                 new  == r.Subnets[s].UsingIPs
                 kept == n.Subnets[s].ReservedList
             IN  /\ \A ip : ip \in DOMAIN new <=> ip \in DOMAIN old /\ (<<k, s, ip>> \in S \cup T => ip \in kept)
                 /\ \A ip \in DOMAIN new :
                      new[ip] = IF <<k, s, ip>> \in S \cup T THEN [old[ip] EXCEPT !.Status = "Reserved"] ELSE old[ip]
  <2> DEFINE old  == n.Subnets[s].UsingIPs
             mid  == m.Subnets[s].UsingIPs
             new  == r.Subnets[s].UsingIPs
             kept == n.Subnets[s].ReservedList
             Back(c) == [c EXCEPT !.Status = "Reserved"]
  <2>1. s \in DOMAIN m.Subnets /\ m.Subnets[s].ReservedList = kept
    BY Zenon DEF Yielded, SameRanges, SameRange
  <2>2. /\ \A ip : ip \in DOMAIN mid <=> ip \in DOMAIN old /\ (<<k, s, ip>> \in S => ip \in kept)
        /\ \A ip \in DOMAIN mid : mid[ip] = IF <<k, s, ip>> \in S THEN Back(old[ip]) ELSE old[ip]
    BY Zenon DEF Yielded, Yields
  <2>3. /\ \A ip : ip \in DOMAIN new <=> ip \in DOMAIN mid /\ (<<k, s, ip>> \in T => ip \in kept)
        /\ \A ip \in DOMAIN new : new[ip] = IF <<k, s, ip>> \in T THEN Back(mid[ip]) ELSE mid[ip]
    BY <2>1, Zenon DEF Yielded, Yields
  <2>4. /\ \A ip : ip \in DOMAIN new <=> ip \in DOMAIN old /\ (<<k, s, ip>> \in S \cup T => ip \in kept)
        /\ \A ip \in DOMAIN new : new[ip] = IF <<k, s, ip>> \in S \cup T THEN Back(old[ip]) ELSE old[ip]
    <3> HIDE DEF Back, old, mid, new, kept
    <3> QED
      BY <2>2, <2>3, Zenon
  <2> QED
    BY <2>4, Zenon
<1>3. Yields(k, n, r, S \cup T)
  BY <1>2, Zenon DEF Yields
<1> QED
  BY <1>1, <1>3, Zenon DEF Yielded

\* The slots AllocateNext takes from subnet s of network k.
NextSlots(k, n, s) == IF FreeIPs(n.Subnets[s]) = {} THEN {} ELSE {<<k, s, NextIP(n.Subnets[s])>>}

LEMMA NextClaimed ==
    ASSUME NEW k, NEW n, NEW m, NetworkInv(m), m.Subnets = n.Subnets, NEW s \in DOMAIN n.Subnets, NEW pod \in Pods
    PROVE  /\ Claimed(k, n, WithSubnet(m, s, AllocateNext(n.Subnets[s], pod)), NextSlots(k, n, s), pod)
           /\ FreeIPs(n.Subnets[s]) # {} =>
                Claimed(k, n, WithSubnet(m, s, Release(AllocateNext(n.Subnets[s], pod), NextIP(n.Subnets[s]))), {}, pod)
<1> DEFINE v == n.Subnets[s]
           a == AllocateNext(v, pod)
           ip == NextIP(v)
           r == Release(a, ip)
<1>1. SubnetInv(v)
  BY Zenon DEF NetworkInv
<1>2. SubnetInv(a) /\ SubnetInv(r) /\ SameRange(v, a)
  BY <1>1, AllocateNextInv, ReleaseInv, AllocateNextEffect, Zenon
<1>3. CASE FreeIPs(v) = {}
  <2>1. a.UsingIPs = v.UsingIPs
    BY <1>1, <1>3, AllocateNextEffect, Zenon
  <2> HIDE DEF a
  <2> QED
    BY <1>2, <1>3, <2>1, WithSubnetSame, Zenon DEF NextSlots, a
<1>4. CASE FreeIPs(v) # {}
  <2>1. /\ ip \in ContainedIPs(v) \ DOMAIN v.UsingIPs
        /\ a.UsingIPs = Add(v.UsingIPs, ip, UsedBy(pod))
        /\ SameRange(v, r) /\ r.UsingIPs = v.UsingIPs
    BY <1>1, <1>4, AllocateNextEffect, Zenon
  <2> HIDE DEF a, r, ip
  <2>2. MayClaim(k, n, pod, <<k, s, ip>>)
    BY <2>1, Zenon DEF MayClaim
  <2>3. Claimed(k, n, WithSubnet(m, s, a), {<<k, s, ip>>}, pod)
    BY <1>2, <2>1, <2>2, WithSubnetClaimed, Zenon
  <2>4. Claimed(k, n, WithSubnet(m, s, r), {}, pod)
    BY <1>2, <2>1, WithSubnetSame, Zenon
  <2> QED
    BY <1>4, <2>3, <2>4, Zenon DEF NextSlots, a, r, ip
<1> QED
  BY <1>3, <1>4, Zenon

\* The slots a dual-stack allocation takes: one of both families, or none.
PairSlots(k, n, pair) ==
    IF FreeIPs(n.Subnets[pair[1]]) = {} \/ FreeIPs(n.Subnets[pair[2]]) = {}
    THEN {}
    ELSE {<<k, pair[1], NextIP(n.Subnets[pair[1]])>>, <<k, pair[2], NextIP(n.Subnets[pair[2]])>>}

LEMMA PairClaimed ==
    ASSUME NEW k, NEW n, NEW m, NetworkInv(m), m.Subnets = n.Subnets, NEW pair, NEW pod \in Pods,
           pair[1] \in DOMAIN n.Subnets, pair[2] \in DOMAIN n.Subnets, pair[1] # pair[2]
    PROVE  Claimed(k, n, AllocatePair(m, pair, pod), PairSlots(k, n, pair), pod)
<1> DEFINE p == pair[1]
           q == pair[2]
           v4 == n.Subnets[p]
           v6 == n.Subnets[q]
           new4 == IF FreeIPs(v6) = {}
                   THEN Release(AllocateNext(v4, pod), NextIP(v4))
                   ELSE AllocateNext(v4, pod)
           mid == WithSubnet(m, p, new4)
           last == WithSubnet(mid, q, AllocateNext(v6, pod))
<1>1. AllocatePair(m, pair, pod) = IF FreeIPs(v4) = {} THEN WithSubnet(m, p, AllocateNext(v4, pod)) ELSE last
  BY Zenon DEF AllocatePair
<1>2. CASE FreeIPs(v4) = {}
  <2>1. Claimed(k, n, WithSubnet(m, p, AllocateNext(v4, pod)), {}, pod)
    BY <1>2, NextClaimed, Zenon DEF NextSlots
  <2> QED
    BY <1>1, <1>2, <2>1, Zenon DEF PairSlots
<1>3. CASE FreeIPs(v4) # {}
  <2> DEFINE S == IF FreeIPs(v6) = {} THEN {} ELSE {<<k, p, NextIP(v4)>>}
  <2>1. Claimed(k, n, mid, S, pod)
    BY <1>3, NextClaimed, Zenon DEF NextSlots
  <2>2. SubnetInv(new4)
    <3>1. SubnetInv(v4)
      BY Zenon DEF NetworkInv
    <3> QED
      BY <3>1, AllocateNextInv, ReleaseInv, Zenon
  <2> HIDE DEF new4
  <2>3. NetworkInv(mid) /\ mid.Subnets = [n.Subnets EXCEPT ![p] = new4]
    BY <2>2, WithSubnetInv
  <2> HIDE DEF mid
  <2>4. q \in DOMAIN mid.Subnets /\ mid.Subnets[q] = v6
    BY <2>3, Zenon
  <2>5. Claimed(k, mid, last, NextSlots(k, mid, q), pod)
    BY <2>3, <2>4, NextClaimed, Zenon
  <2>6. Claimed(k, n, last, S \cup NextSlots(k, mid, q), pod)
    BY <2>1, <2>5, ClaimedTwice, Zenon
  <2>7. S \cup NextSlots(k, mid, q) = PairSlots(k, n, pair)
    <3>1. CASE FreeIPs(v6) = {}
      BY <2>4, <3>1, Zenon DEF NextSlots, PairSlots
    <3>2. CASE FreeIPs(v6) # {}
      BY <1>3, <2>4, <3>2, Zenon DEF NextSlots, PairSlots
    <3> QED
      BY <3>1, <3>2, Zenon
  <2> QED
    BY <1>1, <1>3, <2>6, <2>7, Zenon
<1> QED
  BY <1>2, <1>3, Zenon

\* The subnets of a pair are different ones.
LEMMA PairDistinct ==
    ASSUME NEW n, NetworkInv(n), NEW v4, NEW v6,
           NEW pair, pair = GetPairedDualStackSubnets(n, v4, v6), pair # <<>>
    PROVE  pair[1] \in DOMAIN n.Subnets /\ pair[2] \in DOMAIN n.Subnets /\ pair[1] # pair[2]
BY PairOK, Zenon

LEMMA PairAllOrNothingOK ==
    ASSUME NEW n, NetworkInv(n), NEW pair, NEW pod \in Pods,
           pair[1] \in DOMAIN n.Subnets, pair[2] \in DOMAIN n.Subnets, pair[1] # pair[2]
    PROVE  PairAllOrNothing(n, pair, pod)
<1> DEFINE k == "network"
           new == AllocatePair(n, pair, pod)
           S == PairSlots(k, n, pair)
           Gains(s) == \E ip \in DOMAIN new.Subnets[s].UsingIPs :
                          /\ new.Subnets[s].UsingIPs[ip].Pod = pod
                          /\ ip \notin DOMAIN n.Subnets[s].UsingIPs
<1>1. Claimed(k, n, new, S, pod)
  BY PairClaimed, Zenon
<1>2. NetworkInv(new)
  BY AllocatePairInv, Zenon
<1> HIDE DEF new
<1>3. ASSUME NEW s \in DOMAIN n.Subnets
      PROVE  /\ \A ip : ip \in DOMAIN new.Subnets[s].UsingIPs <=> ip \in DOMAIN n.Subnets[s].UsingIPs \/ <<k, s, ip>> \in S
             /\ \A ip \in DOMAIN new.Subnets[s].UsingIPs :
                   new.Subnets[s].UsingIPs[ip] = IF <<k, s, ip>> \in S THEN UsedBy(pod) ELSE n.Subnets[s].UsingIPs[ip]
  BY <1>1, Zenon DEF Claimed, Claims
<1>4. CASE FreeIPs(n.Subnets[pair[1]]) = {} \/ FreeIPs(n.Subnets[pair[2]]) = {}
  <2>1. S = {}
    BY <1>4, Zenon DEF PairSlots
  <2>2. ~Gains(pair[1]) /\ ~Gains(pair[2])
    BY <1>3, <2>1, Zenon
  <2>3. ASSUME NEW s \in DOMAIN n.Subnets PROVE new.Subnets[s].UsingIPs = n.Subnets[s].UsingIPs
    <3>1. SubnetInv(n.Subnets[s]) /\ SubnetInv(new.Subnets[s])
      BY <1>1, <1>2, Zenon DEF NetworkInv, Claimed, SameRanges
    <3>2. /\ n.Subnets[s].UsingIPs = [ip \in DOMAIN n.Subnets[s].UsingIPs |-> n.Subnets[s].UsingIPs[ip]]
          /\ new.Subnets[s].UsingIPs = [ip \in DOMAIN new.Subnets[s].UsingIPs |-> new.Subnets[s].UsingIPs[ip]]
      BY <3>1, Zenon DEF SubnetInv, SubnetTypeOK, IPSetOK
    <3>3. DOMAIN new.Subnets[s].UsingIPs = DOMAIN n.Subnets[s].UsingIPs
      BY <1>3, <2>1, Zenon
    <3> QED
      BY <1>3, <2>1, <3>2, <3>3, ZenonT(30)
  <2> QED
    BY <2>2, <2>3, Zenon DEF PairAllOrNothing, new
<1>5. CASE FreeIPs(n.Subnets[pair[1]]) # {} /\ FreeIPs(n.Subnets[pair[2]]) # {}
  <2> DEFINE ip4 == NextIP(n.Subnets[pair[1]])
             ip6 == NextIP(n.Subnets[pair[2]])
  <2>1. <<k, pair[1], ip4>> \in S /\ <<k, pair[2], ip6>> \in S
    BY <1>5, Zenon DEF PairSlots
  <2>2. ip4 \notin DOMAIN n.Subnets[pair[1]].UsingIPs /\ ip6 \notin DOMAIN n.Subnets[pair[2]].UsingIPs
    BY <1>5, NextIPFree, Zenon DEF NetworkInv, FreeIPs
  <2> HIDE DEF ip4, ip6, S
  <2>3. UsedBy(pod).Pod = pod
    BY Zenon DEF UsedBy
  <2>4. Gains(pair[1]) /\ Gains(pair[2])
    BY <1>3, <2>1, <2>2, <2>3, Zenon
  <2> QED
    BY <2>4, Zenon DEF PairAllOrNothing, new
<1> QED
  BY <1>4, <1>5, Zenon

(***************************************************************************)
(* One lemma for each action.                                              *)
(***************************************************************************)
PoolStep == Pool!PoolNext \/ UNCHANGED Pool!poolVars

\* An address that stays in use stays with its pod, unless it was only retained.
NetKept(n, m) ==
    \A s \in DOMAIN n.Subnets \cap DOMAIN m.Subnets :
        LET old == n.Subnets[s].UsingIPs
            new == m.Subnets[s].UsingIPs
        IN  \A ip \in DOMAIN old \cap DOMAIN new : new[ip].Pod = old[ip].Pod \/ old[ip].Status = IPStatusReserved

\* A network keeps the pods of its addresses unless it was read again.
AllKept ==
    \A m \in DOMAIN Networks \cap DOMAIN Networks' : NetKept(Networks[m], Networks'[m]) \/ RefreshNetwork(m)

\* What every call is shown to be.
CallStep == PoolStep /\ AllKept

\* A step that leaves all networks alone but one.
LEMMA OthersKept ==
    ASSUME NEW k, \A n \in DOMAIN Networks : n # k => Networks'[n] = Networks[n],
           k \in DOMAIN Networks \cap DOMAIN Networks' => NetKept(Networks[k], Networks'[k]) \/ RefreshNetwork(k)
    PROVE  AllKept
<1> SUFFICES ASSUME NEW m \in DOMAIN Networks \cap DOMAIN Networks', m # k
             PROVE  NetKept(Networks[m], Networks'[m])
  BY Zenon DEF AllKept
<1>1. Networks'[m] = Networks[m]
  BY Zenon
<1> QED
  BY <1>1, Zenon DEF NetKept

LEMMA ReplacesKept ==
    ASSUME NEW k \in DOMAIN Networks, NEW m, Replaces(k, m), NetKept(Networks[k], m)
    PROVE  AllKept
<1>1. Networks'[k] = m /\ \A n \in DOMAIN Networks : n # k => Networks'[n] = Networks[n]
  BY Zenon DEF Replaces
<1> QED
  BY <1>1, OthersKept, Zenon

LEMMA ClaimedStep ==
    ASSUME NEW k \in DOMAIN Networks, NEW m, Replaces(k, m), NEW a, NEW b, NEW S \in SUBSET {a, b},
           NEW pod \in Pods, Claimed(k, Networks[k], m, S, pod)
    PROVE  CallStep
<1>1. PoolStep
  BY ClaimsStep, Zenon DEF Claimed, PoolStep
<1>2. PICK n : n = Networks[k]
  BY Zenon
<1>3. NetKept(n, m)
  <2> SUFFICES ASSUME NEW s \in DOMAIN n.Subnets, NEW ip \in DOMAIN n.Subnets[s].UsingIPs,
                      ip \in DOMAIN m.Subnets[s].UsingIPs
               PROVE  \/ m.Subnets[s].UsingIPs[ip].Pod = n.Subnets[s].UsingIPs[ip].Pod
                      \/ n.Subnets[s].UsingIPs[ip].Status = IPStatusReserved
    BY Zenon DEF NetKept
  <2>1. m.Subnets[s].UsingIPs[ip] = IF <<k, s, ip>> \in S THEN UsedBy(pod) ELSE n.Subnets[s].UsingIPs[ip]
    BY <1>2, Zenon DEF Claimed, Claims
  <2>2. CASE <<k, s, ip>> \in S
    <3>1. MayClaim(k, n, pod, <<k, s, ip>>)
      BY <1>2, <2>2, Zenon DEF Claimed
    <3>2. n.Subnets[s].UsingIPs[ip].Pod = pod \/ n.Subnets[s].UsingIPs[ip].Status = "Reserved"
      BY <3>1 DEF MayClaim
    <3>3. m.Subnets[s].UsingIPs[ip].Pod = pod
      BY <2>1, <2>2 DEF UsedBy
    <3> QED
      BY <3>2, <3>3, Zenon DEF IPStatusReserved
  <2> QED
    BY <2>1, <2>2, Zenon
<1> QED
  BY <1>1, <1>2, <1>3, ReplacesKept, Zenon DEF CallStep

LEMMA YieldedStep ==
    ASSUME NEW k \in DOMAIN Networks, NetworkInv(Networks[k]), NEW m, Replaces(k, m), NEW a, NEW b,
           NEW S \in SUBSET {a, b}, \A x \in S : x[1] = k, Yielded(k, Networks[k], m, S)
    PROVE  CallStep
<1>1. PoolStep
  BY YieldsStep, Zenon DEF Yielded, PoolStep
<1>2. PICK n : n = Networks[k]
  BY Zenon
<1>3. NetKept(n, m)
  <2> SUFFICES ASSUME NEW s \in DOMAIN n.Subnets, NEW ip \in DOMAIN n.Subnets[s].UsingIPs,
                      ip \in DOMAIN m.Subnets[s].UsingIPs
               PROVE  m.Subnets[s].UsingIPs[ip].Pod = n.Subnets[s].UsingIPs[ip].Pod
    BY Zenon DEF NetKept
  <2>1. PICK old : old = n.Subnets[s].UsingIPs[ip]
    BY Zenon
  <2>2. m.Subnets[s].UsingIPs[ip] = IF <<k, s, ip>> \in S THEN [old EXCEPT !.Status = "Reserved"] ELSE old
    BY <1>2, <2>1, Zenon DEF Yielded, Yields
  <2>3. "Pod" \in DOMAIN old
    <3>1. IPSetOK(n.Subnets[s].UsingIPs)
      BY <1>2, Zenon DEF NetworkInv, SubnetInv, SubnetTypeOK
    <3> QED
      BY <2>1, <3>1 DEF IPSetOK
  <2>4. [old EXCEPT !.Status = "Reserved"].Pod = old.Pod
    BY <2>3
  <2> QED
    BY <2>1, <2>2, <2>4, Zenon
<1> QED
  BY <1>1, <1>2, <1>3, ReplacesKept, Zenon DEF CallStep

\* Allocate of one family, and of the single-stack allocator.
LEMMA AllocateOneStep ==
    ASSUME IInv, NEW n, NEW name, NEW ipv6 \in BOOLEAN, NEW pod \in Pods,
           AllocateOf(n, name, ipv6, pod) \/ AllocateAny(n, name, pod)
    PROVE  CallStep
<1>1. n \in DOMAIN Networks /\ NetworkInv(Networks[n])
  BY DEF AllocateOf, AllocateAny, IInv
<1>2. ASSUME NEW s \in DOMAIN Networks[n].Subnets \cup {NoName}, AllocateFrom(n, name, s, pod)
      PROVE  CallStep
  <2> DEFINE moved == MoveIndex(Networks[n], name, s)
             m == WithSubnet(moved, s, AllocateNext(Networks[n].Subnets[s], pod))
             x == <<n, s, NextIP(Networks[n].Subnets[s])>>
  <2>1. s \in DOMAIN Networks[n].Subnets /\ Replaces(n, m)
    BY <1>2 DEF AllocateFrom, SetSubnet, Replaces
  <2>2. NetworkInv(moved) /\ moved.Subnets = Networks[n].Subnets
    BY <1>1, <2>1, MoveIndexInv
  <2> HIDE DEF moved
  <2>3. Claimed(n, Networks[n], m, NextSlots(n, Networks[n], s), pod)
    BY <2>1, <2>2, NextClaimed, Zenon
  <2>4. NextSlots(n, Networks[n], s) \in SUBSET {x, x}
    BY DEF NextSlots
  <2> HIDE DEF m, x
  <2> QED
    BY <1>1, <2>1, <2>3, <2>4, ClaimedStep, Zenon
<1>3. CASE AllocateOf(n, name, ipv6, pod)
  BY <1>1, <1>2, <1>3, GettersOK DEF AllocateOf
<1>4. CASE AllocateAny(n, name, pod)
  BY <1>1, <1>2, <1>4, GettersOK DEF AllocateAny
<1> QED
  BY <1>3, <1>4

\* allocateDualStack.
LEMMA AllocateDualStackStep ==
    ASSUME IInv, NEW n, NEW v4Name, NEW v6Name, NEW pod \in Pods, AllocateDualStack(n, v4Name, v6Name, pod)
    PROVE  CallStep
<1> DEFINE pair == GetPairedDualStackSubnets(Networks[n], v4Name, v6Name)
           name == IF v4Name = NoName \/ v6Name = NoName THEN NoName ELSE v4Name
           moved == MoveIndex(Networks[n], name, pair[1])
           m == AllocatePair(moved, pair, pod)
<1>1. /\ n \in DOMAIN Networks /\ NetworkInv(Networks[n])
      /\ pair # <<>> /\ Replaces(n, m)
  BY DEF AllocateDualStack, IInv, Replaces
<1>2. pair[1] \in DOMAIN Networks[n].Subnets /\ pair[2] \in DOMAIN Networks[n].Subnets /\ pair[1] # pair[2]
  BY <1>1, PairDistinct
<1> HIDE DEF pair, name
<1>3. NetworkInv(moved) /\ moved.Subnets = Networks[n].Subnets
  BY <1>1, <1>2, MoveIndexInv
<1> HIDE DEF moved
<1>4. Claimed(n, Networks[n], m, PairSlots(n, Networks[n], pair), pod)
  BY <1>2, <1>3, PairClaimed, Zenon
<1> DEFINE a == <<n, pair[1], NextIP(Networks[n].Subnets[pair[1]])>>
           b == <<n, pair[2], NextIP(Networks[n].Subnets[pair[2]])>>
<1>5. PairSlots(n, Networks[n], pair) \in SUBSET {a, b}
  BY DEF PairSlots
<1> HIDE DEF m, a, b
<1> QED
  BY <1>1, <1>4, <1>5, ClaimedStep, Zenon

\* What Assign makes of a network.
LEMMA AssignClaimed ==
    ASSUME NEW k, NEW n, NetworkInv(n), NEW s \in DOMAIN n.Subnets, NEW ip \in Nat, NEW pod \in Pods, NEW forced,
           Assignable(n.Subnets[s], pod, ip, forced)
    PROVE  /\ NetworkInv(WithSubnet(n, s, Assign(n.Subnets[s], pod, ip)))
           /\ Claimed(k, n, WithSubnet(n, s, Assign(n.Subnets[s], pod, ip)), {<<k, s, ip>>}, pod)
<1> DEFINE v == n.Subnets[s]
           t == Assign(v, pod, ip)
<1>1. SubnetInv(v)
  BY Zenon DEF NetworkInv
<1>2. SubnetInv(t)
  BY <1>1, AssignInv
<1>3. SameRange(v, t) /\ t.UsingIPs = Add(v.UsingIPs, ip, UsedBy(pod))
  BY <1>1, UseEffect, Zenon DEF Assign
<1>4. ip \in ContainedIPs(v)
  <2>1. RangeOK(v) /\ Contains(v, ip)
    BY <1>1, Zenon DEF Assignable, SubnetInv
  <2> QED
    BY <2>1, ContainedIPsFinite
<1>5. MayClaim(k, n, pod, <<k, s, ip>>)
  BY <1>4, Zenon DEF MayClaim, Assignable, IPStatusReserved
<1> HIDE DEF t
<1>6. NetworkInv(WithSubnet(n, s, t)) /\ Claimed(k, n, WithSubnet(n, s, t), {<<k, s, ip>>}, pod)
  BY <1>2, <1>3, <1>5, WithSubnetInv, WithSubnetClaimed, Zenon
<1> QED
  BY <1>6 DEF t

\* Assign of one address.
LEMMA AssignOneStep ==
    ASSUME IInv, NEW n, NEW name, NEW ip \in Nat, NEW pod \in Pods, NEW forced, AssignOne(n, name, ip, pod, forced)
    PROVE  CallStep
<1> DEFINE s == GetSubnetByIP(Networks[n], name, ip)
           m == WithSubnet(Networks[n], s, Assign(Networks[n].Subnets[s], pod, ip))
           x == <<n, s, ip>>
<1>1. /\ n \in DOMAIN Networks /\ NetworkInv(Networks[n])
      /\ s # NoName
      /\ Assignable(Networks[n].Subnets[s], pod, ip, forced)
      /\ Replaces(n, m)
  BY Zenon DEF AssignOne, IInv, SetSubnet, Replaces
<1>2. s \in DOMAIN Networks[n].Subnets
  BY <1>1, GettersOK, Zenon
<1> HIDE DEF s
<1>3. Claimed(n, Networks[n], m, {x}, pod)
  BY <1>1, <1>2, AssignClaimed, Zenon
<1>4. {x} \in SUBSET {x, x}
  OBVIOUS
<1> HIDE DEF m, x
<1> QED
  BY <1>1, <1>3, <1>4, ClaimedStep, Zenon

\* assignDualStack, whether or not the IPv6 address can be assigned, and whether or not both
\* addresses are of one subnet.
LEMMA AssignDualStackStep ==
    ASSUME IInv, NEW n, NEW v4Name, NEW v6Name, NEW ipv4 \in Nat, NEW ipv6 \in Nat, NEW pod \in Pods, NEW forced,
           AssignDualStack(n, v4Name, v6Name, ipv4, ipv6, pod, forced)
    PROVE  CallStep
<1> DEFINE s4 == GetSubnetByIP(Networks[n], v4Name, ipv4)
           s6 == GetSubnetByIP(Networks[n], v6Name, ipv6)
           next == WithSubnet(Networks[n], s4, Assign(Networks[n].Subnets[s4], pod, ipv4))
           both == WithSubnet(next, s6, Assign(next.Subnets[s6], pod, ipv6))
           only == WithSubnet(next, s6, next.Subnets[s6])
           a == <<n, s4, ipv4>>
           b == <<n, s6, ipv6>>
<1>1. /\ n \in DOMAIN Networks /\ NetworkInv(Networks[n])
      /\ s4 # NoName /\ s6 # NoName
      /\ Assignable(Networks[n].Subnets[s4], pod, ipv4, forced)
      /\ IF Assignable(next.Subnets[s6], pod, ipv6, forced) THEN Replaces(n, both) ELSE Replaces(n, only)
  BY Zenon DEF AssignDualStack, IInv, SetSubnet, Replaces
<1>2. s4 \in DOMAIN Networks[n].Subnets /\ s6 \in DOMAIN Networks[n].Subnets
  BY <1>1, GettersOK, Zenon
<1> HIDE DEF s4, s6
<1>3. NetworkInv(next) /\ Claimed(n, Networks[n], next, {a}, pod)
  BY <1>1, <1>2, AssignClaimed, Zenon
<1>4. s6 \in DOMAIN next.Subnets
  BY <1>2, <1>3, Zenon DEF Claimed, SameRanges
<1> HIDE DEF next
<1>5. CASE Assignable(next.Subnets[s6], pod, ipv6, forced)
  <2>1. Claimed(n, next, both, {b}, pod)
    BY <1>3, <1>4, <1>5, AssignClaimed, Zenon
  <2>2. Claimed(n, Networks[n], both, {a} \cup {b}, pod) /\ {a} \cup {b} \in SUBSET {a, b}
    BY <1>3, <2>1, ClaimedTwice, Zenon
  <2>3. Replaces(n, both)
    BY <1>1, <1>5, Zenon
  <2> HIDE DEF both, a, b
  <2> QED
    BY <1>1, <2>2, <2>3, ClaimedStep, Zenon
<1>6. CASE ~Assignable(next.Subnets[s6], pod, ipv6, forced)
  <2>1. SubnetInv(next.Subnets[s6]) /\ SameRange(next.Subnets[s6], next.Subnets[s6])
    BY <1>3, <1>4, Zenon DEF NetworkInv, SameRange
  <2>2. Claimed(n, next, only, {}, pod)
    BY <1>3, <1>4, <2>1, WithSubnetSame, Zenon
  <2>3. Claimed(n, Networks[n], only, {a} \cup {}, pod) /\ {a} \cup {} \in SUBSET {a, a}
    BY <1>3, <2>2, ClaimedTwice, Zenon
  <2>4. Replaces(n, only)
    BY <1>1, <1>6, Zenon
  <2> HIDE DEF only, a
  <2> QED
    BY <1>1, <2>3, <2>4, ClaimedStep, Zenon
<1> QED
  BY <1>5, <1>6

\* Release of one address.
LEMMA ReleaseIPStep ==
    ASSUME IInv, NEW n, NEW s, NEW ip, ReleaseIP(n, s, ip)
    PROVE  CallStep
<1> DEFINE m == WithSubnet(Networks[n], s, Release(Networks[n].Subnets[s], ip))
           x == <<n, s, ip>>
<1>1. /\ n \in DOMAIN Networks /\ NetworkInv(Networks[n])
      /\ s \in DOMAIN Networks[n].Subnets /\ Replaces(n, m)
  BY Zenon DEF ReleaseIP, IInv, SetSubnet, Replaces
<1>2. Yielded(n, Networks[n], m, {x})
  BY <1>1, WithSubnetYielded, Zenon
<1>3. {x} \in SUBSET {x, x} /\ \A y \in {x} : y[1] = n
  OBVIOUS
<1> HIDE DEF m, x
<1> QED
  BY <1>1, <1>2, <1>3, YieldedStep

\* releaseIPs on two subnets, whether or not it finds the second.
LEMMA ReleaseIPsStep ==
    ASSUME IInv, NEW n, NEW s, NEW ip, NEW t, NEW jp, s # t, ReleaseIPs(n, s, ip, t, jp)
    PROVE  CallStep
<1> DEFINE next == WithSubnet(Networks[n], s, Release(Networks[n].Subnets[s], ip))
           both == WithSubnet(next, t, Release(next.Subnets[t], jp))
           a == <<n, s, ip>>
           b == <<n, t, jp>>
<1>1. /\ n \in DOMAIN Networks /\ NetworkInv(Networks[n])
      /\ s \in DOMAIN Networks[n].Subnets
      /\ IF t \in DOMAIN next.Subnets THEN Replaces(n, both) ELSE Replaces(n, next)
  BY Zenon DEF ReleaseIPs, IInv, SetSubnet, Replaces
<1>2. Yielded(n, Networks[n], next, {a})
  BY <1>1, WithSubnetYielded, Zenon
<1>3. NetworkInv(next)
  <2>1. SubnetInv(Networks[n].Subnets[s])
    BY <1>1, Zenon DEF NetworkInv
  <2>2. SubnetInv(Release(Networks[n].Subnets[s], ip))
    BY <2>1, ReleaseInv
  <2> QED
    BY <1>1, <2>2, WithSubnetInv, Zenon
<1> HIDE DEF next
<1>4. CASE t \in DOMAIN next.Subnets
  <2>1. Yielded(n, next, both, {b})
    BY <1>3, <1>4, WithSubnetYielded, Zenon
  <2>2. /\ {a} \cap {b} = {} /\ {a} \cup {b} \in SUBSET {a, b}
        /\ \A y \in {a} \cup {b} : y[1] = n
    OBVIOUS
  <2>3. Replaces(n, both)
    BY <1>1, <1>4, Zenon
  <2> HIDE DEF both, a, b
  <2>4. Yielded(n, Networks[n], both, {a} \cup {b})
    BY <1>2, <2>1, <2>2, YieldedTwice, Zenon
  <2> QED
    BY <1>1, <2>2, <2>3, <2>4, YieldedStep
<1>5. CASE t \notin DOMAIN next.Subnets
  <2>1. {a} \in SUBSET {a, a} /\ \A y \in {a} : y[1] = n
    OBVIOUS
  <2>2. Replaces(n, next)
    BY <1>1, <1>5, Zenon
  <2> HIDE DEF a
  <2> QED
    BY <1>1, <1>2, <2>1, <2>2, YieldedStep
<1> QED
  BY <1>4, <1>5

\* No reserved slot is free, and every slot in use exists.
LEMMA PoolOKNow == IInv => Pool!PoolOK
<1> SUFFICES ASSUME IInv PROVE Pool!PoolOK
  OBVIOUS
<1>1. \A x : IsSlot(Networks, x) => SubnetInv(SubnetOf(Networks, x))
  BY Zenon DEF IInv, NetworkInv, IsSlot, SubnetOf
<1> QED
  BY <1>1, SlotsNow, Zenon DEF SlotsAre, SubnetInv, Pool!PoolOK

LEMMA PoolOKNext == IInv' => Pool!PoolOK'
BY PoolOKNow, PTL

\* A network is read again, or removed.
LEMMA ReloadStep ==
    ASSUME IInv, IInv', NEW k,
           \A n : n # k => (n \in DOMAIN Networks' <=> n \in DOMAIN Networks),
           \A n \in DOMAIN Networks : n # k => Networks'[n] = Networks[n]
    PROVE  PoolStep
<1>1. \A x : x[1] # k => /\ IsSlot(Networks', x) <=> IsSlot(Networks, x)
                         /\ IsSlot(Networks, x) => SubnetOf(Networks', x) = SubnetOf(Networks, x)
  BY Zenon DEF IsSlot, SubnetOf
<1>2. /\ \A x : x[1] # k => (x \in AllocatableSlots' <=> x \in AllocatableSlots)
      /\ \A x : x[1] # k => (x \in ReservedSlots' <=> x \in ReservedSlots)
      /\ \A x : x[1] # k => (x \in DOMAIN SlotOwner' <=> x \in DOMAIN SlotOwner)
      /\ \A x \in DOMAIN SlotOwner' : x[1] # k => SlotOwner'[x] = SlotOwner[x]
  BY <1>1, SlotsNow, SlotsNext DEF SlotsAre
<1>3. /\ ReservedSlots \subseteq DOMAIN SlotOwner /\ DOMAIN SlotOwner \subseteq AllocatableSlots
      /\ ReservedSlots' \subseteq DOMAIN SlotOwner' /\ DOMAIN SlotOwner' \subseteq AllocatableSlots'
  BY PoolOKNow, PoolOKNext, Zenon DEF Pool!PoolOK
<1>4. CASE \E x \in AllocatableSlots \cup AllocatableSlots' : x[1] = k
  <2>1. Pool!Reload(k)
    BY <1>2, <1>3, Zenon DEF Pool!Reload, Pool!Network
  <2>2. \E x \in AllocatableSlots \cup AllocatableSlots' : Pool!Network(x) = k
    BY <1>4, Zenon DEF Pool!Network
  <2>3. Pool!PoolNext
    BY <2>1, <2>2, Zenon DEF Pool!PoolNext
  <2> QED
    BY <2>3, Zenon DEF PoolStep
<1>5. CASE \A x \in AllocatableSlots \cup AllocatableSlots' : x[1] # k
  <2>1. Pool!SameSlots /\ DOMAIN SlotOwner' = DOMAIN SlotOwner
    BY <1>2, <1>3, <1>5, ZenonT(30) DEF Pool!SameSlots
  <2>2. \A x \in DOMAIN SlotOwner : SlotOwner'[x] = SlotOwner[x]
    BY <1>2, <1>3, <1>5, <2>1, Zenon
  <2>3. SlotOwner' = SlotOwner
    BY <2>1, <2>2, SlotsNow, SlotsNext, Zenon DEF SlotsAre
  <2> QED
    BY <2>1, <2>3, PoolIs, Zenon DEF PoolStep
<1> QED
  BY <1>4, <1>5, Zenon

\* Every step of the allocator.
LEMMA NextStep ==
    ASSUME IInv, Next
    PROVE  CallStep
<1>1. IInv'
  BY NextInv
<1>2. ASSUME NEW n \in NetworkNames, RefreshNetwork(n)
      PROVE  CallStep
  <2>1. /\ \A m : m # n => (m \in DOMAIN Networks' <=> m \in DOMAIN Networks)
        /\ \A m \in DOMAIN Networks : m # n => Networks'[m] = Networks[m]
    BY <1>2, Zenon DEF RefreshNetwork
  <2> QED
    BY <1>1, <1>2, <2>1, ReloadStep, OthersKept, Zenon DEF CallStep
<1>3. ASSUME NEW n \in NetworkNames, RemoveNetwork(n)
      PROVE  CallStep
  <2>1. /\ \A m : m # n => (m \in DOMAIN Networks' <=> m \in DOMAIN Networks)
        /\ \A m \in DOMAIN Networks : m # n => Networks'[m] = Networks[m]
    BY <1>3, Zenon DEF RemoveNetwork
  <2>2. n \notin DOMAIN Networks'
    BY <1>3, Zenon DEF RemoveNetwork
  <2> QED
    BY <1>1, <2>1, <2>2, ReloadStep, OthersKept, Zenon DEF CallStep
<1>4. ASSUME NEW n \in NetworkNames, AssignCall(n) \/ ReleaseCall(n)
      PROVE  CallStep
  BY <1>4, InputsAssumption, AssignOneStep, ReleaseIPStep, Zenon DEF AssignCall, ReleaseCall
<1>5. ASSUME NEW n \in NetworkNames, SingleStackCall(n)
      PROVE  CallStep
  <2>1. CASE \E name \in Requested, pod \in Pods : AllocateAny(n, name, pod)
    <3>1. FALSE \in BOOLEAN
      BY Zenon
    <3> QED
      BY <2>1, <3>1, AllocateOneStep, Zenon
  <2> QED
    BY <1>4, <1>5, <2>1 DEF SingleStackCall
<1>6. ASSUME NEW n \in NetworkNames, DualStackCall(n)
      PROVE  CallStep
  <2>1. CASE \E name \in Requested, ipv6 \in BOOLEAN, pod \in Pods : AllocateOf(n, name, ipv6, pod)
    BY <2>1, AllocateOneStep, Zenon
  <2>2. CASE \E v4Name, v6Name \in Requested, pod \in Pods : AllocateDualStack(n, v4Name, v6Name, pod)
    BY <2>2, AllocateDualStackStep, Zenon
  <2>3. CASE \E ipv4, ipv6 \in Addresses, pod \in Pods :
               AssignDualStack(n, NoName, NoName, ipv4, ipv6, pod, TRUE)
    BY <2>3, InputsAssumption, AssignDualStackStep, Zenon
  <2>4. CASE \E s, t \in SubnetNames, ip, jp \in Addresses : s # t /\ ReleaseIPs(n, s, ip, t, jp)
    BY <2>4, ReleaseIPsStep, Zenon
  <2> QED
    BY <1>4, <1>6, <2>1, <2>2, <2>3, <2>4, Zenon DEF DualStackCall
<1> QED
  BY <1>2, <1>3, <1>5, <1>6, Zenon DEF Next, Call

(***************************************************************************)
(* The theorems.                                                           *)
(***************************************************************************)
\* Whatever calls are made, in any order, an address in use passes to another pod only if it was
\* retained or its network was read again: no allocation, assignment or rollback of the allocator
\* takes an address from the pod that uses it.
THEOREM OwnersKept == Spec => NoSteal
<1>1. AllKept => \A n \in DOMAIN Networks \cap DOMAIN Networks' :
                   \/ \A s \in DOMAIN Networks[n].Subnets \cap DOMAIN Networks'[n].Subnets :
                        LET old == Networks[n].Subnets[s].UsingIPs
                            new == Networks'[n].Subnets[s].UsingIPs
                        IN  \A ip \in DOMAIN old \cap DOMAIN new :
                              new[ip].Pod = old[ip].Pod \/ old[ip].Status = IPStatusReserved
                   \/ RefreshNetwork(n)
  BY Zenon DEF AllKept, NetKept
<1>2. IInv /\ Next => AllKept
  BY NextStep, Zenon DEF CallStep
<1> QED
  BY <1>1, <1>2, InvariantHolds, PTL DEF Spec, NoSteal

\* A dual-stack allocation (allocateDualStack) hands out an address of both families or none, in
\* every state the calls of the allocator lead to and for every pair of subnets it may be told to
\* use: the IPv4 address is given back when the IPv6 subnet has run out.
THEOREM PairsAllOrNothing == Spec => []DualStackAllOrNothing
<1>1. IInv => DualStackAllOrNothing
  BY PairDistinct, PairAllOrNothingOK, Zenon DEF IInv, DualStackAllOrNothing
<1> QED
  BY <1>1, InvariantHolds, PTL

\* The allocator implements IPPool: whatever its ranges, round-robin indexes and selections, each
\* of its methods is, for its callers, a grant, a claim or a release of at most two slots, or the
\* reload of one network that leaves the others alone.
THEOREM AllocatorRefinesPool == Spec => ImplementsPool
<1>1. Init => Pool!PoolInit
  <2> SUFFICES ASSUME Init PROVE Pool!PoolInit
    BY Zenon
  <2>1. \A x : ~IsSlot(Networks, x)
    BY Zenon DEF Init, IsSlot
  <2>2. AllocatableSlots = {} /\ ReservedSlots = {} /\ DOMAIN SlotOwner = {}
    BY <2>1, SlotsNow, Zenon DEF SlotsAre
  <2>3. SlotOwner = [x \in {} |-> {}]
    BY <2>2, SlotsNow, Zenon DEF SlotsAre
  <2> QED
    BY <2>2, <2>3, PoolIs, Zenon
<1>2. IInv /\ [Next]_vars => [Pool!PoolNext]_(Pool!poolVars)
  <2> SUFFICES ASSUME IInv, [Next]_vars PROVE Pool!PoolNext \/ UNCHANGED Pool!poolVars
    OBVIOUS
  <2>1. CASE Next
    BY <2>1, NextStep DEF CallStep, PoolStep
  <2>2. CASE UNCHANGED vars
    <3>1. Networks' = Networks
      BY <2>2, Zenon DEF vars
    <3>2. /\ AllocatableSlots' = AllocatableSlots /\ ReservedSlots' = ReservedSlots
          /\ DOMAIN SlotOwner' = DOMAIN SlotOwner
      BY <3>1, SlotsNow, SlotsNext, Zenon DEF SlotsAre
    <3>3. SlotOwner' = SlotOwner
      BY <3>1, <3>2, SlotsNow, SlotsNext DEF SlotsAre
    <3> QED
      BY <3>2, <3>3, PoolIs, Zenon DEF Pool!SameSlots
  <2> QED
    BY <2>1, <2>2, Zenon
<1> QED
  BY <1>1, <1>2, InvariantHolds, PTL DEF Spec, ImplementsPool, Pool!PoolSpec

(***************************************************************************)
(* 3. The rotation of a subnet.                                            *)
(***************************************************************************)
\* Address y comes before x when the addresses after c are gone through, and then the others.
Before(c, y, x) ==
    \/ y > c /\ x > c /\ y < x
    \/ y > c /\ x <= c
    \/ y <= c /\ x <= c /\ y < x

\* What waits behind an address is free, and its turn comes first.
WaitingOK(s, w) ==
    \A x \in DOMAIN w : x \in Nat /\ \A y \in w[x] : y \in FreeIPs(s) /\ Before(s.Current, y, x)

\* A call leaves the index where it is, or moves it to the address that it puts in use, or finds no
\* free address.
Rotates(s, t) ==
    \/ t.Current = s.Current
    \/ FreeIPs(s) # {} /\ t.Current = NextIP(s) /\ t.Current \notin FreeIPs(t) /\ FreeIPs(t) \subseteq FreeIPs(s)
    \/ FreeIPs(t) = {}

LEMMA SubnetNumbers ==
    ASSUME NEW s, SubnetInv(s)
    PROVE  FreeIPs(s) \in SUBSET Nat /\ s.Current \in Int /\ DOMAIN s.UsingIPs \subseteq Nat
  BY ContainedIPsFinite DEF FreeIPs, SubnetInv, SubnetTypeOK, Nil

\* The loop of AllocateNext stops at the first free address of the rotation.
LEMMA NextIPFirst ==
    ASSUME NEW s, SubnetInv(s), NEW y \in FreeIPs(s)
    PROVE  /\ NextIP(s) \in FreeIPs(s)
           /\ y > s.Current => NextIP(s) > s.Current
           /\ (y > s.Current \/ NextIP(s) <= s.Current) => NextIP(s) <= y
<1>1. FreeIPs(s) \in SUBSET Nat /\ s.Current \in Int
  BY SubnetNumbers, Zenon
<1> DEFINE after == {ip \in FreeIPs(s) : ip > s.Current}
           S == IF after = {} THEN FreeIPs(s) ELSE after
<1>2. S \in SUBSET Nat /\ S # {} /\ S \subseteq FreeIPs(s)
  BY <1>1, Zenon
<1>3. NextIP(s) = Min(S)
  BY Zenon DEF NextIP
<1>4. NextIP(s) \in S /\ \A z \in S : NextIP(s) <= z
  BY <1>2, <1>3, NatMin, Zenon
<1>5. CASE after = {}
  BY <1>1, <1>4, <1>5, Zenon
<1>6. CASE after # {}
  BY <1>1, <1>4, <1>6
<1> QED
  BY <1>5, <1>6, Zenon

\* An address that is put in use goes to the end of the rotation; the others keep their order.
LEMMA RotatesKeeps ==
    ASSUME NEW s, NEW t, SubnetInv(s), SubnetInv(t), Rotates(s, t), NEW w, WaitingOK(s, w), NEW H,
           H = {t.Current} \cap (DOMAIN t.UsingIPs \ DOMAIN s.UsingIPs)
    PROVE  WaitingOK(t, [x \in DOMAIN w \cup H |-> IF x \in H THEN FreeIPs(t) ELSE w[x] \cap FreeIPs(t)])
<1>1. /\ FreeIPs(s) \in SUBSET Nat /\ s.Current \in Int
      /\ FreeIPs(t) \in SUBSET Nat /\ t.Current \in Int /\ DOMAIN t.UsingIPs \subseteq Nat
  BY SubnetNumbers, Zenon
<1> SUFFICES ASSUME NEW x \in DOMAIN w \cup H
             PROVE  /\ x \in Nat
                    /\ \A y \in IF x \in H THEN FreeIPs(t) ELSE w[x] \cap FreeIPs(t) :
                          y \in FreeIPs(t) /\ Before(t.Current, y, x)
  BY Zenon DEF WaitingOK
<1>2. x \in Nat
  BY <1>1, Zenon DEF WaitingOK
<1>3. ASSUME x \in H, NEW y \in FreeIPs(t) PROVE Before(t.Current, y, x)
  <2>1. x = t.Current /\ y # x
    BY <1>3, Zenon DEF FreeIPs
  <2> QED
    BY <1>1, <2>1 DEF Before
<1>4. ASSUME x \notin H, NEW y \in w[x] \cap FreeIPs(t) PROVE Before(t.Current, y, x)
  <2>1. y \in FreeIPs(s) /\ Before(s.Current, y, x) /\ y \in Nat
    BY <1>1, <1>4, Zenon DEF WaitingOK
  <2>2. CASE t.Current = s.Current
    BY <2>1, <2>2, Zenon
  <2>3. CASE t.Current = NextIP(s) /\ t.Current \notin FreeIPs(t)
    <3>1. y # t.Current
      BY <1>4, <2>3, Zenon
    <3>2. /\ y > s.Current => t.Current > s.Current
          /\ (y > s.Current \/ t.Current <= s.Current) => t.Current <= y
      BY <2>1, <2>3, NextIPFirst, Zenon
    <3> QED
      BY <1>1, <1>2, <2>1, <3>1, <3>2 DEF Before
  <2> QED
    BY <1>4, <2>2, <2>3, Zenon DEF Rotates
<1> QED
  BY <1>2, <1>3, <1>4, Zenon

LEMMA AllocateNextRotates ==
    ASSUME NEW s, SubnetInv(s), NEW pod \in Pods PROVE Rotates(s, AllocateNext(s, pod))
<1> DEFINE a == AllocateNext(s, pod)
<1>1. CASE FreeIPs(s) # {}
  <2>1. a = Use(Turn(s, NextIP(s)), pod, NextIP(s))
    BY <1>1, Zenon DEF AllocateNext
  <2>2. a.Current = NextIP(s) /\ a.AvailableIPs = s.AvailableIPs /\ DOMAIN a.UsingIPs = DOMAIN s.UsingIPs \cup {NextIP(s)}
    BY <2>1, Zenon DEF Use, Turn, Add, SubnetInv, SubnetFields
  <2> HIDE DEF a
  <2>3. a.Current \notin FreeIPs(a) /\ FreeIPs(a) \subseteq FreeIPs(s)
    BY <2>2, Zenon DEF FreeIPs
  <2> QED
    BY <1>1, <2>2, <2>3, Zenon DEF Rotates, a
<1>2. CASE FreeIPs(s) = {} /\ s.Current = Nil /\ s.AvailableIPs # {}
  <2>1. a = Turn(s, Max(s.AvailableIPs))
    BY <1>2, Zenon DEF AllocateNext
  <2>2. FreeIPs(a) = FreeIPs(s)
    BY <2>1, Zenon DEF Turn, FreeIPs, SubnetInv, SubnetFields
  <2> QED
    BY <1>2, <2>2, Zenon DEF Rotates
<1>3. CASE FreeIPs(s) = {} /\ ~(s.Current = Nil /\ s.AvailableIPs # {})
  BY <1>3, Zenon DEF AllocateNext, Rotates
<1> QED
  BY <1>1, <1>2, <1>3, Zenon

LEMMA OthersRotate ==
    ASSUME NEW s, SubnetInv(s), NEW pod, NEW ip PROVE Rotates(s, Assign(s, pod, ip)) /\ Rotates(s, Release(s, ip))
  BY Zenon DEF Rotates, Assign, Use, Release, SubnetInv, SubnetFields

(***************************************************************************)
(* The steps of the single-stack allocator.                                *)
(***************************************************************************)
\* Networks and subnets stay, and the indexes turn as they should.
AllRotate ==
    /\ DOMAIN Networks' = DOMAIN Networks
    /\ \A n \in DOMAIN Networks :
         /\ DOMAIN Networks'[n].Subnets = DOMAIN Networks[n].Subnets
         /\ \A s \in DOMAIN Networks[n].Subnets : Rotates(Networks[n].Subnets[s], Networks'[n].Subnets[s])

LEMMA SetSubnetRotates ==
    ASSUME IInv, NEW n \in DOMAIN Networks, NEW m, DOMAIN m = NetworkFields, m.Subnets = Networks[n].Subnets,
           NEW s \in DOMAIN m.Subnets, NEW t, Rotates(m.Subnets[s], t), SetSubnet(n, m, s, t)
    PROVE  AllRotate
<1>1. Networks' = [Networks EXCEPT ![n] = WithSubnet(m, s, t)]
  BY Zenon DEF SetSubnet
<1>2. WithSubnet(m, s, t).Subnets = [m.Subnets EXCEPT ![s] = t]
  BY Zenon DEF WithSubnet, NetworkFields
<1>3. \A r : Rotates(r, r)
  BY Zenon DEF Rotates
<1> QED
  BY <1>1, <1>2, <1>3, Zenon DEF AllRotate

LEMMA CallRotates ==
    ASSUME IInv, NEW n, SingleStackCall(n) PROVE AllRotate
<1> USE DEF IInv
<1>1. ASSUME NEW name, NEW pod \in Pods, AllocateAny(n, name, pod) PROVE AllRotate
  <2> DEFINE s == GetSubnet(Networks[n], name)
  <2>1. n \in DOMAIN Networks /\ NetworkInv(Networks[n]) /\ s # NoName
    BY <1>1, Zenon DEF AllocateAny, AllocateFrom
  <2>2. s \in DOMAIN Networks[n].Subnets
    <3>1. FALSE \in BOOLEAN
      BY Zenon
    <3> QED
      BY <2>1, <3>1, GettersOK, Zenon
  <2>3. SetSubnet(n, MoveIndex(Networks[n], name, s), s, AllocateNext(Networks[n].Subnets[s], pod))
    BY <1>1, Zenon DEF AllocateAny, AllocateFrom
  <2> HIDE DEF s
  <2>4. /\ MoveIndex(Networks[n], name, s).Subnets = Networks[n].Subnets
        /\ DOMAIN MoveIndex(Networks[n], name, s) = NetworkFields
    BY <2>1, <2>2, MoveIndexInv, Zenon DEF NetworkInv
  <2>5. Rotates(Networks[n].Subnets[s], AllocateNext(Networks[n].Subnets[s], pod))
    BY <2>1, <2>2, AllocateNextRotates, Zenon DEF NetworkInv
  <2> QED
    BY <2>1, <2>2, <2>3, <2>4, <2>5, SetSubnetRotates, Zenon
<1>2. ASSUME NEW ip, NEW pod, NEW forced, AssignOne(n, NoName, ip, pod, forced) PROVE AllRotate
  <2> DEFINE s == GetSubnetByIP(Networks[n], NoName, ip)
  <2>1. /\ n \in DOMAIN Networks /\ NetworkInv(Networks[n]) /\ s # NoName
        /\ SetSubnet(n, Networks[n], s, Assign(Networks[n].Subnets[s], pod, ip))
    BY <1>2, Zenon DEF AssignOne
  <2>2. s \in DOMAIN Networks[n].Subnets
    <3>1. FALSE \in BOOLEAN
      BY Zenon
    <3> QED
      BY <2>1, <3>1, GettersOK, Zenon
  <2> HIDE DEF s
  <2>3. Rotates(Networks[n].Subnets[s], Assign(Networks[n].Subnets[s], pod, ip))
    BY <2>1, <2>2, OthersRotate, Zenon DEF NetworkInv
  <2>4. DOMAIN Networks[n] = NetworkFields
    BY <2>1, Zenon DEF NetworkInv
  <2> QED
    BY <2>1, <2>2, <2>3, <2>4, SetSubnetRotates, Zenon
<1>3. ASSUME NEW s, NEW ip, ReleaseIP(n, s, ip) PROVE AllRotate
  <2>1. /\ n \in DOMAIN Networks /\ NetworkInv(Networks[n]) /\ s \in DOMAIN Networks[n].Subnets
        /\ SetSubnet(n, Networks[n], s, Release(Networks[n].Subnets[s], ip))
    BY <1>3, Zenon DEF ReleaseIP
  <2>2. Rotates(Networks[n].Subnets[s], Release(Networks[n].Subnets[s], ip))
    BY <2>1, OthersRotate, Zenon DEF NetworkInv
  <2>3. DOMAIN Networks[n] = NetworkFields
    BY <2>1, Zenon DEF NetworkInv
  <2> QED
    BY <2>1, <2>2, <2>3, SetSubnetRotates, Zenon
<1> QED
  BY <1>1, <1>2, <1>3, Zenon DEF SingleStackCall, AssignCall, ReleaseCall

(***************************************************************************)
(* The invariant of the rotation.                                          *)
(***************************************************************************)
RotationInv ==
    /\ IInv
    /\ IsWatched => WaitingOK(Watched, waiting)
    /\ ~IsWatched => DOMAIN waiting = {}

\* A call hands out the address whose turn it is, and what waited behind another one still does.
LEMMA CallKeepsWaiting ==
    ASSUME RotationInv, IInv', NEW n, SingleStackCall(n), StillWaiting PROVE RotationInv'
<1>1. AllRotate
  BY CallRotates, Zenon DEF RotationInv
<1>2. IsWatched' <=> IsWatched
  BY <1>1, Zenon DEF AllRotate, IsWatched
<1>3. CASE ~IsWatched
  <2>1. DOMAIN waiting = {} /\ HandedOut = {}
    BY <1>3, Zenon DEF RotationInv, HandedOut
  <2>2. DOMAIN waiting' = {}
    BY <2>1, Zenon DEF StillWaiting
  <2> QED
    BY <1>2, <1>3, <2>2, Zenon DEF RotationInv
<1>4. CASE IsWatched
  <2>1. SubnetInv(Watched) /\ SubnetInv(Watched') /\ Rotates(Watched, Watched')
    BY <1>1, <1>2, <1>4, Zenon DEF RotationInv, IInv, NetworkInv, Watched, IsWatched, AllRotate
  <2>2. HandedOut = {Watched'.Current} \cap (DOMAIN Watched'.UsingIPs \ DOMAIN Watched.UsingIPs)
    BY <1>4, Zenon DEF HandedOut
  <2>3. FreeIPs(Watched)' = FreeIPs(Watched')
    BY Zenon DEF FreeIPs
  <2>4. waiting' = [x \in DOMAIN waiting \cup HandedOut |->
                      IF x \in HandedOut THEN FreeIPs(Watched') ELSE waiting[x] \cap FreeIPs(Watched')]
    BY <2>3, Zenon DEF StillWaiting
  <2>5. WaitingOK(Watched, waiting)
    BY <1>4, Zenon DEF RotationInv
  <2>6. PICK s, t, w, H : s = Watched /\ t = Watched' /\ w = waiting /\ H = HandedOut
    BY Zenon
  <2>7. WaitingOK(t, [x \in DOMAIN w \cup H |-> IF x \in H THEN FreeIPs(t) ELSE w[x] \cap FreeIPs(t)])
    <3>1. SubnetInv(s) /\ SubnetInv(t) /\ Rotates(s, t)
      BY <2>1, <2>6, Zenon
    <3>2. WaitingOK(s, w)
      BY <2>5, <2>6, Zenon
    <3>3. H = {t.Current} \cap (DOMAIN t.UsingIPs \ DOMAIN s.UsingIPs)
      BY <2>2, <2>6, Zenon
    <3> QED
      BY <3>1, <3>2, <3>3, RotatesKeeps
  <2>8. WaitingOK(t, waiting')
    BY <2>4, <2>6, <2>7, Zenon
  <2>9. WaitingOK(Watched, waiting)'
    BY <2>6, <2>8, Zenon DEF WaitingOK, FreeIPs
  <2> QED
    BY <1>2, <1>4, <2>9, Zenon DEF RotationInv
<1> QED
  BY <1>3, <1>4, Zenon

LEMMA RotationKeeps ==
    ASSUME ~DualStackEnabled, RotationInv, [RotationNext]_<<vars, waiting>> PROVE RotationInv'
<1>1. [Next]_vars
  BY Zenon DEF RotationNext, Next
<1>2. IInv'
  BY <1>1, NextInv, Zenon DEF RotationInv
<1>3. CASE UNCHANGED <<vars, waiting>>
  BY <1>2, <1>3, Zenon DEF vars, RotationInv, IsWatched, Watched, WaitingOK, FreeIPs
<1>4. ASSUME NEW n, Call(n), StillWaiting PROVE RotationInv'
  BY <1>2, <1>4, CallKeepsWaiting, Zenon DEF Call
<1>5. CASE waiting' = [x \in {} |-> {}]
  BY <1>2, <1>5, Zenon DEF RotationInv, WaitingOK
<1> QED
  BY <1>3, <1>4, <1>5, Zenon DEF RotationNext

\* What is free and would be handed out later than an address that is in its turn does not wait for it.
LEMMA RotationImplies ==
    ASSUME RotationInv PROVE NoAddressPassedOver
<1> SUFFICES ASSUME IsWatched, NextIP(Watched) \in DOMAIN waiting, NEW y \in waiting[NextIP(Watched)] PROVE FALSE
  BY Zenon DEF NoAddressPassedOver
<1> DEFINE x == NextIP(Watched)
           c == Watched.Current
<1>1. SubnetInv(Watched)
  BY Zenon DEF RotationInv, IInv, NetworkInv, Watched, IsWatched
<1>2. y \in FreeIPs(Watched) /\ Before(c, y, x) /\ x \in Nat
  BY Zenon DEF RotationInv, WaitingOK
<1>3. y \in Nat /\ c \in Int
  BY <1>1, <1>2, SubnetNumbers, Zenon
<1>4. (y > c => x > c) /\ ((y > c \/ x <= c) => x <= y)
  BY <1>1, <1>2, NextIPFirst, Zenon
<1> HIDE DEF x, c
<1> QED
  BY <1>2, <1>3, <1>4 DEF Before

\* The single-stack allocator hands out no address of a subnet twice while another one stays free in
\* between, whatever the sequence of Allocate, Assign and Release calls since the network was read.
THEOREM RotationCorrect == ASSUME ~DualStackEnabled PROVE RotationSpec => []NoAddressPassedOver
<1>1. RotationInit => RotationInv
  BY Zenon DEF RotationInit, Init, RotationInv, IInv, IsWatched
<1>2. RotationInv /\ [RotationNext]_<<vars, waiting>> => RotationInv'
  BY RotationKeeps, Zenon
<1>3. RotationInv => NoAddressPassedOver
  BY RotationImplies, Zenon
<1> QED
  BY <1>1, <1>2, <1>3, PTL DEF RotationSpec
==============================================================================
