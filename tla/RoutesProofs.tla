----------------------------- MODULE RoutesProofs -----------------------------
(***************************************************************************)
(* A proof that the rules of hybridnet-daemon stand in the order of the    *)
(* diagram of route.go, whatever the subnets, the rules of others, the     *)
(* faults and the restarts.                                                *)
(***************************************************************************)
EXTENDS Routes, NaturalsInduction, WellFoundedInduction, TLAPS

\* The limits of the kernel are not met: some rule priority is not in use, and some table below the
\* fixed ones is empty.  The daemon gives up the sync with an error otherwise.
Room ==
    /\ \E p \in 1 .. MaxRulePriority : \A r \in kernel.rules : r.prio # p
    /\ \E t \in EmptyTables : t < localDirectTableNum

Basics == 1 .. 3
OwnTables == {t \in Nat : MinRouteTableNum <= t /\ t < localDirectTableNum}
TableOf(i) == BasicRules[i]
InPlace(rules, i) == \E r \in rules : r.src = None /\ r.table = TableOf(i)

\* Rules from pod subnets have tables of their own, and come once the basic ones are there.
RulesOK(rules) ==
    /\ \A r \in rules : r.prio \in Nat /\ (r.table = NodeLocalTableNum => r.prio = 0)
    /\ \E r \in rules : r.src = None /\ r.prio = 0
    /\ \A r \in rules : r.src # None => r.table \in OwnTables
    /\ (\E r \in rules : r.src # None) => \A i \in Basics : InPlace(rules, i)

\* The priorities before a basic rule are occupied for good: only rules with a source are deleted.
Packed(rules) ==
    \A i \in Basics, r \in rules : r.table = TableOf(i) =>
      \A p \in 0 .. r.prio : \E q \in rules : q.src = None /\ q.prio = p

\* The basic rules come one after the other.
Ordered(rules) ==
    \A i, j \in Basics, r \in rules : i < j /\ r.table = TableOf(j) =>
      /\ InPlace(rules, i)
      /\ \A q \in rules : q.table = TableOf(i) => q.prio < r.prio

FromLast(rules) ==
    \A i \in Basics, r, q \in rules : r.table = TableOf(i) /\ q.src # None => r.prio < q.prio

AllInOrder(rules) == RulesOK(rules) /\ Packed(rules) /\ Ordered(rules) /\ FromLast(rules)

OrderInv ==
    /\ kernel = [rules |-> kernel.rules, tables |-> kernel.tables, links |-> kernel.links]
    /\ DOMAIN worker = {"at", "listed", "infos", "todo", "table", "cidr"}
    /\ AllInOrder(kernel.rules)
    /\ worker.at \in {"prune", "from", "rule"} => \A i \in Basics : InPlace(kernel.rules, i)
    /\ worker.at = "rule" => worker.table \in OwnTables

\* A nonempty set of natural numbers has a least element: Min is one.
LEMMA NatMin ==
    ASSUME NEW S \in SUBSET Nat, S # {}
    PROVE  Min(S) \in S /\ \A y \in S : Min(S) <= y
<1>1. PICK x \in S : \A y \in S : ~(<<y, x>> \in OpToRel(<, Nat))
  BY NatLessThanWellFounded, WFMin, Zenon
<1>2. \A y \in S : ~(y < x)
  BY <1>1, Zenon DEF OpToRel
<1>3. \A y \in S : x <= y
  BY <1>2
<1> QED
  BY <1>3, Zenon DEF Min

LEMMA Tables ==
    /\ DOMAIN BasicRules = Basics
    /\ \A i \in Basics : TableOf(i) \in Nat /\ TableOf(i) \notin OwnTables /\ TableOf(i) # NodeLocalTableNum
    /\ \A i, j \in Basics : TableOf(i) = TableOf(j) => i = j
    /\ \A t \in OwnTables : t # NodeLocalTableNum
    /\ TableOf(1) = localDirectTableNum /\ TableOf(2) = toOverlaySubnetTableNum /\ TableOf(3) = overlayMarkTableNum
<1>1. DOMAIN BasicRules = Basics
  BY DEF BasicRules, Basics
<1>2. TableOf(1) = 39999 /\ TableOf(2) = 40000 /\ TableOf(3) = 40001
  BY DEF TableOf, BasicRules, localDirectTableNum, toOverlaySubnetTableNum, overlayMarkTableNum
<1>3. \A i \in Basics : i = 1 \/ i = 2 \/ i = 3
  BY DEF Basics
<1>4. \A t \in OwnTables : t < 39999 /\ t >= 10000
  BY DEF OwnTables, MinRouteTableNum, localDirectTableNum
<1> QED
  BY <1>1, <1>2, <1>3, <1>4 DEF NodeLocalTableNum, localDirectTableNum, toOverlaySubnetTableNum, overlayMarkTableNum

\* findHighestUnusedRulePriority: every priority before the one it finds is in use.
LEMMA HighestUnused ==
    ASSUME NEW rules, RulesOK(rules), \E p \in 1 .. MaxRulePriority : \A r \in rules : r.prio # p
    PROVE  LET p == findHighestUnusedRulePriority(rules)
           IN  /\ p \in Nat \ {0}
               /\ \A r \in rules : r.prio # p
               /\ \A k \in 0 .. (p - 1) : \E r \in rules : r.prio = k
<1> DEFINE S == {p \in 0 .. MaxRulePriority :
                   /\ \A r \in rules : r.prio # p
                   /\ \A r \in rules : r.table = NodeLocalTableNum => p > r.prio}
           m == findHighestUnusedRulePriority(rules)
<1>1. S \in SUBSET Nat
  BY RoutesAssumption
<1>2. S # {}
  <2>1. PICK p \in 1 .. MaxRulePriority : \A r \in rules : r.prio # p
    OBVIOUS
  <2>2. p \in S
    BY <2>1, RoutesAssumption DEF RulesOK
  <2> QED
    BY <2>2
<1>3. m = Min(S)
  BY DEF findHighestUnusedRulePriority
<1>4. m \in S /\ \A y \in S : m <= y
  BY <1>1, <1>2, <1>3, NatMin
<1>5. PICK z \in rules : z.prio = 0
  BY DEF RulesOK
<1>6. m \in Nat /\ m # 0
  BY <1>1, <1>4, <1>5
<1>7. ASSUME NEW k \in 0 .. (m - 1) PROVE \E r \in rules : r.prio = k
  <2>1. CASE k = 0
    BY <1>5, <2>1
  <2>2. CASE k # 0
    <3>1. k \notin S /\ k \in 0 .. MaxRulePriority
      BY <1>4, <1>6, <1>7, RoutesAssumption
    <3>2. \A r \in rules : r.table = NodeLocalTableNum => k > r.prio
      BY <2>2, <1>6, <1>7 DEF RulesOK
    <3> QED
      BY <3>1, <3>2
  <2> QED
    BY <2>1, <2>2
<1> HIDE DEF m
<1>8. \A r \in rules : r.prio # m
  BY <1>4
<1> QED
  BY <1>6, <1>7, <1>8 DEF m

(***************************************************************************)
(* One rule more or less.                                                  *)
(***************************************************************************)
\* A priority is free, and none before it.
Lowest(rules, p) ==
    /\ p \in Nat \ {0}
    /\ \A r \in rules : r.prio # p
    /\ \A k \in 0 .. (p - 1) : \E r \in rules : r.prio = k

\* A rule at the lowest free priority comes after every basic rule.
LEMMA AfterBasics ==
    ASSUME NEW rules, AllInOrder(rules), NEW p, Lowest(rules, p), NEW i \in Basics, NEW r \in rules, r.table = TableOf(i)
    PROVE  r.prio < p
<1>1. r.prio \in Nat /\ p \in Nat
  BY DEF AllInOrder, RulesOK, Lowest
<1>2. p \notin 0 .. r.prio
  BY DEF AllInOrder, Packed, Lowest
<1> QED
  BY <1>1, <1>2

\* The next basic rule is appended: there is no rule from a pod subnet yet.
LEMMA AppendBasic ==
    ASSUME NEW rules, AllInOrder(rules), NEW p, Lowest(rules, p), NEW m \in Basics, ~InPlace(rules, m),
           \A i \in Basics : i < m => InPlace(rules, i),
           NEW new, new.prio = p, new.src = None, new.table = TableOf(m)
    PROVE  AllInOrder(rules \cup {new})
<1> DEFINE all == rules \cup {new}
<1>1. /\ \A r \in rules : r.src = None /\ r.prio \in Nat
      /\ \A i \in Basics : InPlace(rules, i) => InPlace(all, i)
  BY DEF AllInOrder, RulesOK, InPlace
<1>2. \A r \in rules : r.table # TableOf(m)
  BY <1>1 DEF InPlace
<1>3. RulesOK(all)
  BY <1>1, Tables DEF AllInOrder, RulesOK, Lowest
<1>4. Packed(all)
  <2> SUFFICES ASSUME NEW i \in Basics, NEW r \in all, r.table = TableOf(i), NEW k \in 0 .. r.prio
               PROVE  \E q \in all : q.src = None /\ q.prio = k
    BY DEF Packed
  <2>1. CASE r \in rules
    BY <2>1 DEF AllInOrder, Packed
  <2>2. CASE r = new /\ k = p
    BY <2>2
  <2>3. CASE r = new /\ k # p
    <3>1. k \in 0 .. (p - 1)
      BY <2>3 DEF Lowest
    <3> QED
      BY <1>1, <3>1 DEF Lowest
  <2> QED
    BY <2>1, <2>2, <2>3
<1>5. Ordered(all)
  <2> SUFFICES ASSUME NEW i \in Basics, NEW j \in Basics, NEW r \in all, i < j, r.table = TableOf(j)
               PROVE  InPlace(all, i) /\ \A q \in all : q.table = TableOf(i) => q.prio < r.prio
    BY DEF Ordered
  <2>1. CASE r \in rules
    <3>1. InPlace(rules, i) /\ \A q \in rules : q.table = TableOf(i) => q.prio < r.prio
      BY <2>1 DEF AllInOrder, Ordered
    <3>2. i # m
      BY <3>1
    <3> QED
      BY <1>1, <3>1, <3>2, Tables, Zenon
  <2>2. CASE r = new
    <3>1. j = m
      BY <2>2, Tables
    <3>2. InPlace(all, i)
      BY <1>1, <3>1
    <3>3. ASSUME NEW q \in all, q.table = TableOf(i) PROVE q.prio < r.prio
      <4>1. i # m
        BY <3>1 DEF Basics
      <4>2. q \in rules
        BY <3>3, <4>1, Tables
      <4> QED
        BY <2>2, <3>3, <4>2, AfterBasics
    <3> QED
      BY <3>2, <3>3
  <2> QED
    BY <2>1, <2>2
<1>6. FromLast(all)
  BY <1>1 DEF FromLast
<1> QED
  BY <1>3, <1>4, <1>5, <1>6 DEF AllInOrder

\* A rule from a pod subnet is appended, with a table of its own.
LEMMA AppendFrom ==
    ASSUME NEW rules, AllInOrder(rules), NEW p, Lowest(rules, p), \A i \in Basics : InPlace(rules, i),
           NEW new, new.prio = p, new.table \in OwnTables
    PROVE  AllInOrder(rules \cup {new})
<1> DEFINE all == rules \cup {new}
<1>1. \A i \in Basics : InPlace(all, i) /\ new.table # TableOf(i)
  BY Tables DEF InPlace
<1>2. RulesOK(all)
  BY <1>1, Tables DEF AllInOrder, RulesOK, Lowest
<1>3. Packed(all)
  BY <1>1 DEF AllInOrder, Packed
<1>4. Ordered(all)
  BY <1>1 DEF AllInOrder, Ordered
<1>5. FromLast(all)
  <2> SUFFICES ASSUME NEW i \in Basics, NEW r \in all, NEW q \in all, r.table = TableOf(i), q.src # None
               PROVE  r.prio < q.prio
    BY DEF FromLast
  <2>1. r \in rules
    BY <1>1
  <2>2. r.prio < p
    BY <2>1, AfterBasics
  <2> QED
    BY <2>1, <2>2 DEF AllInOrder, FromLast
<1> QED
  BY <1>2, <1>3, <1>4, <1>5 DEF AllInOrder

\* A rule from a pod subnet is deleted; the others stay in their order.
LEMMA DeleteFrom ==
    ASSUME NEW rules, AllInOrder(rules), NEW rule, rule.src # None
    PROVE  /\ AllInOrder(rules \ {rule})
           /\ \A i \in Basics : InPlace(rules, i) => InPlace(rules \ {rule}, i)
<1> DEFINE rest == rules \ {rule}
<1>1. \A i \in Basics : InPlace(rules, i) => InPlace(rest, i)
  BY DEF InPlace
<1>2. RulesOK(rest)
  BY <1>1, Zenon DEF AllInOrder, RulesOK
<1>3. Packed(rest)
  BY DEF AllInOrder, Packed
<1>4. Ordered(rest)
  BY <1>1 DEF AllInOrder, Ordered
<1>5. FromLast(rest)
  BY DEF AllInOrder, FromLast
<1> QED
  BY <1>1, <1>2, <1>3, <1>4, <1>5 DEF AllInOrder

(***************************************************************************)
(* The steps.                                                              *)
(***************************************************************************)
\* At first the rules are those of the kernel and of others.
LEMMA OrderInit == Init => OrderInv
<1> SUFFICES ASSUME Init PROVE OrderInv
  OBVIOUS
<1> DEFINE rules0 == {Rule(0, None, NodeLocalTableNum, FALSE), Rule(MaxRulePriority - 1, None, MainTableNum, FALSE)}
                       \cup {Rule(p, None, ForeignTableNum, FALSE) : p \in ForeignRules}
<1>1. kernel = [rules |-> kernel.rules, tables |-> kernel.tables, links |-> kernel.links] /\ kernel.rules = rules0
  BY Zenon DEF Init
<1>2. \A r \in rules0 : /\ r.src = None /\ r.prio \in Nat /\ (r.table = NodeLocalTableNum => r.prio = 0)
                        /\ r.table \in {NodeLocalTableNum, MainTableNum, ForeignTableNum}
  BY RoutesAssumption DEF Rule, NodeLocalTableNum, MainTableNum, ForeignTableNum
<1>3. \E r \in rules0 : r.src = None /\ r.prio = 0
  <2>1. Rule(0, None, NodeLocalTableNum, FALSE) \in rules0
    OBVIOUS
  <2> QED
    BY <2>1, Zenon DEF Rule
<1> HIDE DEF rules0
<1>4. \A r \in rules0, i \in Basics : r.table # TableOf(i)
  BY <1>2, Tables DEF NodeLocalTableNum, MainTableNum, ForeignTableNum, localDirectTableNum,
     toOverlaySubnetTableNum, overlayMarkTableNum, Basics
<1>5. AllInOrder(rules0)
  BY <1>2, <1>3, <1>4 DEF AllInOrder, RulesOK, Packed, Ordered, FromLast
<1>6. worker.at = "idle" /\ DOMAIN worker = {"at", "listed", "infos", "todo", "table", "cidr"}
  BY Zenon DEF Init, Idle
<1> QED
  BY <1>1, <1>5, <1>6 DEF OrderInv

\* The rules stay, and the reconciler gets past the basic rules only when they are there.
RulesStay ==
    /\ UNCHANGED kernel \/ \E tables, links : kernel' = [kernel EXCEPT !.tables = tables, !.links = links]
    /\ \/ UNCHANGED worker
       \/ /\ DOMAIN worker' = {"at", "listed", "infos", "todo", "table", "cidr"}
          /\ \/ worker'.at \in {"idle", "basic"}
             \/ /\ worker'.at \in {"prune", "from", "rule"}
                /\ MissingBasic = {} \/ worker.at \in {"prune", "from", "rule"}
                /\ worker'.at = "rule" => worker'.table \in OwnTables

LEMMA NoneMissing == MissingBasic = {} => \A i \in Basics : InPlace(kernel.rules, i)
  BY Tables DEF MissingBasic, InPlace, TableOf

LEMMA RulesStayKeeps == OrderInv /\ RulesStay => OrderInv'
<1> SUFFICES ASSUME OrderInv, RulesStay PROVE OrderInv'
  OBVIOUS
<1>1. /\ kernel' = [rules |-> kernel'.rules, tables |-> kernel'.tables, links |-> kernel'.links]
      /\ kernel'.rules = kernel.rules
  BY Zenon DEF OrderInv, RulesStay
<1>2. DOMAIN worker' = {"at", "listed", "infos", "todo", "table", "cidr"}
  BY Zenon DEF OrderInv, RulesStay
<1>3. worker'.at \in {"prune", "from", "rule"} => \A i \in Basics : InPlace(kernel.rules, i)
  BY NoneMissing, Zenon DEF OrderInv, RulesStay
<1>4. worker'.at = "rule" => worker'.table \in OwnTables
  BY Zenon DEF OrderInv, RulesStay
<1> QED
  BY <1>1, <1>2, <1>3, <1>4 DEF OrderInv

\* Users, the watches, failing requests, restarts and flapping links touch no rule.
LEMMA OthersStay ==
    ASSUME OrderInv, Environment \/ Deliver \/ Resync \/ Fail \/ Restart \/ UNCHANGED vars PROVE RulesStay
<1>0. kernel = [kernel EXCEPT !.tables = kernel.tables, !.links = kernel.links]
  BY Zenon DEF OrderInv
<1>1. CASE UNCHANGED <<kernel, worker>>
  BY <1>1 DEF RulesStay
<1>2. CASE Fail \/ Restart
  <2>1. worker' = Idle /\ UNCHANGED kernel
    BY <1>2, Zenon DEF Fail, Restart, Requeue
  <2>2. Idle.at = "idle" /\ DOMAIN Idle = {"at", "listed", "infos", "todo", "table", "cidr"}
    BY DEF Idle
  <2> QED
    BY <2>1, <2>2 DEF RulesStay
<1>3. CASE VxlanReady
  <2>1. UNCHANGED worker /\ kernel' = [kernel EXCEPT !.links = kernel.links \cup {VxlanIf}]
    BY <1>3 DEF VxlanReady
  <2>2. kernel' = [kernel EXCEPT !.tables = kernel.tables, !.links = kernel.links \cup {VxlanIf}]
    BY <2>1, Zenon DEF OrderInv
  <2> QED
    BY <2>1, <2>2, Zenon DEF RulesStay
<1>4. ASSUME NEW dev, LinkFlap(dev) PROVE RulesStay
  <2> DEFINE tables == [t \in DOMAIN kernel.tables |-> {r \in kernel.tables[t] : r.dev # dev}]
  <2>1. UNCHANGED worker /\ kernel' = [kernel EXCEPT !.tables = tables]
    BY <1>4 DEF LinkFlap
  <2> HIDE DEF tables
  <2>2. kernel' = [kernel EXCEPT !.tables = tables, !.links = kernel.links]
    BY <2>1, Zenon DEF OrderInv
  <2> QED
    BY <2>1, <2>2, Zenon DEF RulesStay
<1>5. CASE Deliver \/ Resync
  BY <1>1, <1>5, Zenon DEF Deliver, DeliverSubnet, DeliverRemoteSubnet, DeliverNetwork, Resync
<1>6. CASE Environment
  <2>1. ASSUME NEW s, DeleteSubnet(s) \/ DeleteRemoteSubnet(s) PROVE UNCHANGED <<kernel, worker>>
    BY <2>1, Zenon DEF DeleteSubnet, DeleteRemoteSubnet, Edit, agent
  <2>2. ASSUME NEW s, NEW spec, SetSubnet(s, spec) \/ SetRemoteSubnet(s, spec) PROVE UNCHANGED <<kernel, worker>>
    BY <2>2 DEF SetSubnet, SetRemoteSubnet, Edit, agent
  <2>3. ASSUME NEW n, LabelNode(n) \/ PatchNetworkStatus(n) PROVE UNCHANGED <<kernel, worker>>
    BY <2>3 DEF LabelNode, PatchNetworkStatus, agent
  <2> QED
    BY <1>1, <1>3, <1>4, <1>6, <2>1, <2>2, <2>3, Zenon DEF Environment
<1>7. CASE UNCHANGED vars
  BY <1>1, <1>7 DEF vars, agent
<1> QED
  BY <1>2, <1>5, <1>6, <1>7

\* appendHighestUnusedPriorityRuleIfNotExist for the basic rules.
LEMMA AppendBasicKeeps == ASSUME OrderInv, Room, AppendBasicRule PROVE OrderInv'
<1> DEFINE m == Min(MissingBasic)
           p == findHighestUnusedRulePriority(kernel.rules)
           new == Rule(p, None, TableOf(m), TableOf(m) = overlayMarkTableNum)
<1>1. AllInOrder(kernel.rules) /\ Lowest(kernel.rules, p)
  BY HighestUnused DEF OrderInv, AllInOrder, Room, Lowest
<1>2. kernel' = [kernel EXCEPT !.rules = kernel.rules \cup {new}] /\ UNCHANGED worker /\ worker.at = "basic"
  BY DEF AppendBasicRule, TableOf, agent
<1>3. MissingBasic \in SUBSET Nat /\ MissingBasic \subseteq Basics /\ MissingBasic # {}
  BY Tables DEF AppendBasicRule, MissingBasic, Basics
<1>4. m \in MissingBasic /\ \A i \in MissingBasic : m <= i
  BY <1>3, NatMin
<1>5. m \in Basics /\ ~InPlace(kernel.rules, m)
  BY <1>3, <1>4, Zenon DEF MissingBasic, InPlace, TableOf
<1>6. ASSUME NEW i \in Basics, i < m PROVE InPlace(kernel.rules, i)
  <2>1. i \notin MissingBasic
    BY <1>4, <1>5, <1>6 DEF Basics
  <2> QED
    BY <2>1, Tables DEF MissingBasic, InPlace, TableOf
<1>7. new.prio = p /\ new.src = None /\ new.table = TableOf(m)
  BY DEF Rule
<1> HIDE DEF m, p, new
<1>8. AllInOrder(kernel.rules \cup {new})
  BY <1>1, <1>5, <1>6, <1>7, AppendBasic
<1>9. /\ kernel' = [rules |-> kernel'.rules, tables |-> kernel'.tables, links |-> kernel'.links]
      /\ kernel'.rules = kernel.rules \cup {new}
  BY <1>2 DEF OrderInv
<1> QED
  BY <1>2, <1>8, <1>9 DEF OrderInv

\* The rule of a subnet, once its table is complete.
LEMMA AddFromKeeps == ASSUME OrderInv, Room, AddFromPodSubnetRule PROVE OrderInv'
<1> DEFINE p == findHighestUnusedRulePriority(kernel.rules)
           new == Rule(p, worker.cidr, worker.table, FALSE)
<1>1. AllInOrder(kernel.rules) /\ Lowest(kernel.rules, p)
  BY HighestUnused DEF OrderInv, AllInOrder, Room, Lowest
<1>2. kernel' = [kernel EXCEPT !.rules = kernel.rules \cup {new}] /\ worker.at = "rule"
  BY DEF AddFromPodSubnetRule
<1>3. worker'.at = "from" /\ DOMAIN worker' = {"at", "listed", "infos", "todo", "table", "cidr"}
  BY DEF AddFromPodSubnetRule, OrderInv
<1>4. new.prio = p /\ new.table \in OwnTables
  BY <1>2 DEF Rule, OrderInv
<1> HIDE DEF p, new
<1>5. \A i \in Basics : InPlace(kernel.rules, i)
  BY <1>2 DEF OrderInv
<1>6. AllInOrder(kernel.rules \cup {new})
  BY <1>1, <1>4, <1>5, AppendFrom
<1>7. /\ kernel' = [rules |-> kernel'.rules, tables |-> kernel'.tables, links |-> kernel'.links]
      /\ kernel'.rules = kernel.rules \cup {new}
  BY <1>2 DEF OrderInv
<1>8. \A i \in Basics : InPlace(kernel'.rules, i)
  BY <1>5, <1>7 DEF InPlace
<1> QED
  BY <1>3, <1>6, <1>7, <1>8 DEF OrderInv

LEMMA PruneKeeps == ASSUME OrderInv, PruneRule PROVE OrderInv'
<1>1. PICK rule \in worker.todo :
        /\ Stale(rule)
        /\ worker' = [worker EXCEPT !.todo = {r \in @ : r.prio > rule.prio}]
        /\ kernel' = [kernel EXCEPT !.rules = @ \ {rule}, !.tables[rule.table] = {}]
  BY Zenon DEF PruneRule
<1>2. rule.src # None
  BY <1>1 DEF Stale, checkIsFromPodSubnetRule
<1>3. worker.at = "prune" /\ worker'.at = "prune" /\ DOMAIN worker' = {"at", "listed", "infos", "todo", "table", "cidr"}
  BY <1>1 DEF PruneRule, OrderInv
<1>4. /\ kernel' = [rules |-> kernel'.rules, tables |-> kernel'.tables, links |-> kernel'.links]
      /\ kernel'.rules = kernel.rules \ {rule}
  BY <1>1, Zenon DEF OrderInv
<1> QED
  BY <1>2, <1>3, <1>4, DeleteFrom, Zenon DEF OrderInv

\* ensureFromPodSubnetRoutes: the table of a subnet without a rule is an empty one below the fixed tables.
LEMMA FromRoutesStay ==
    ASSUME OrderInv, Room, NEW i, ensureFromPodSubnetRoutes(i) PROVE RulesStay
<1> DEFINE t == TableFor(i.cidr)
<1>1. PICK routes : kernel' = [kernel EXCEPT !.tables[t] = routes]
  BY Zenon DEF ensureFromPodSubnetRoutes
<1>2. kernel' = [kernel EXCEPT !.tables = [kernel.tables EXCEPT ![t] = routes], !.links = kernel.links]
  BY <1>1, Zenon DEF OrderInv
<1>3. CASE RulesFrom(i.cidr) # {}
  <2>1. worker.at = "from" /\ worker' = [worker EXCEPT !.todo = @ \ {i}]
    BY <1>3 DEF ensureFromPodSubnetRoutes
  <2>2. worker'.at = "from" /\ DOMAIN worker' = {"at", "listed", "infos", "todo", "table", "cidr"}
    BY <2>1 DEF OrderInv
  <2> QED
    BY <1>2, <2>1, <2>2, Zenon DEF RulesStay
<1>4. CASE RulesFrom(i.cidr) = {}
  <2>1. worker.at = "from" /\ worker' = [worker EXCEPT !.at = "rule", !.todo = @ \ {i}, !.table = t, !.cidr = i.cidr]
    BY <1>4 DEF ensureFromPodSubnetRoutes
  <2>2. t = Min(EmptyTables)
    BY <1>4 DEF TableFor
  <2>3. EmptyTables \in SUBSET Nat /\ \A u \in EmptyTables : u >= MinRouteTableNum
    BY RoutesAssumption DEF EmptyTables, SubnetTables, MinRouteTableNum, MaxRouteTableNum
  <2>4. PICK e \in EmptyTables : e < localDirectTableNum
    BY DEF Room
  <2>5. t \in EmptyTables /\ t <= e
    BY <2>2, <2>3, <2>4, NatMin
  <2> HIDE DEF t
  <2>6. t \in OwnTables
    <3>1. e \in Nat /\ t \in Nat /\ t >= MinRouteTableNum
      BY <2>3, <2>4, <2>5
    <3> QED
      BY <2>4, <2>5, <3>1 DEF OwnTables, MinRouteTableNum, localDirectTableNum
  <2>7. /\ worker'.at = "rule" /\ worker'.table = t
        /\ DOMAIN worker' = {"at", "listed", "infos", "todo", "table", "cidr"}
    BY <2>1 DEF OrderInv
  <2> QED
    BY <1>2, <2>1, <2>6, <2>7, Zenon DEF RulesStay
<1> QED
  BY <1>3, <1>4

LEMMA OrderNext == OrderInv /\ Room /\ [Next]_vars => OrderInv'
<1> SUFFICES ASSUME OrderInv, Room, [Next]_vars PROVE OrderInv'
  OBVIOUS
<1>0. Idle.at = "idle" /\ DOMAIN Idle = {"at", "listed", "infos", "todo", "table", "cidr"}
  BY DEF Idle
<1>1. CASE StartReconcile
  <2>1. PICK infos, links : /\ worker' = [Idle EXCEPT !.at = "basic", !.listed = cache, !.infos = infos]
                            /\ kernel' = [kernel EXCEPT !.links = links]
    BY <1>1, Zenon DEF StartReconcile
  <2>2. worker'.at = "basic" /\ DOMAIN worker' = {"at", "listed", "infos", "todo", "table", "cidr"}
    BY <1>0, <2>1
  <2>3. kernel' = [kernel EXCEPT !.tables = kernel.tables, !.links = links]
    BY <2>1, Zenon DEF OrderInv
  <2> QED
    BY <2>2, <2>3, RulesStayKeeps, Zenon DEF RulesStay
<1>2. CASE ensureToOverlaySubnetRoutes
  <2>1. PICK a, b : kernel' = [kernel EXCEPT !.tables[toOverlaySubnetTableNum] = a, !.tables[overlayMarkTableNum] = b]
    BY <1>2, Zenon DEF ensureToOverlaySubnetRoutes
  <2>2. \E tables : kernel' = [kernel EXCEPT !.tables = tables, !.links = kernel.links]
    BY <2>1, Zenon DEF OrderInv
  <2>3. MissingBasic = {} /\ worker' = [worker EXCEPT !.at = "prune", !.todo = kernel.rules]
    BY <1>2 DEF ensureToOverlaySubnetRoutes
  <2>4. worker'.at = "prune" /\ DOMAIN worker' = {"at", "listed", "infos", "todo", "table", "cidr"}
    BY <2>3 DEF OrderInv
  <2> QED
    BY <2>2, <2>3, <2>4, RulesStayKeeps, Zenon DEF RulesStay
<1>3. CASE OverlaySyncFails
  <2> DEFINE n == toOverlaySubnetTableNum
  <2>1. worker' = Idle
    BY <1>3 DEF OverlaySyncFails, Requeue
  <2>2. PICK t : kernel' = kernel \/ kernel' = [kernel EXCEPT !.tables[n] = t]
    BY <1>3, Zenon DEF OverlaySyncFails
  <2> HIDE DEF n
  <2>3. CASE kernel' = [kernel EXCEPT !.tables[n] = t]
    <3>1. kernel' = [kernel EXCEPT !.tables = [kernel.tables EXCEPT ![n] = t], !.links = kernel.links]
      BY <2>3, Zenon DEF OrderInv
    <3> QED
      BY <1>0, <2>1, <3>1, RulesStayKeeps, Zenon DEF RulesStay
  <2>4. CASE kernel' = kernel
    BY <1>0, <2>1, <2>4, RulesStayKeeps DEF RulesStay
  <2> QED
    BY <2>2, <2>3, <2>4
<1>4. CASE PruneDone
  <2>1. UNCHANGED kernel /\ worker.at = "prune" /\ \E todo : worker' = [worker EXCEPT !.at = "from", !.todo = todo]
    BY <1>4, Zenon DEF PruneDone
  <2>2. worker'.at = "from" /\ DOMAIN worker' = {"at", "listed", "infos", "todo", "table", "cidr"}
    BY <2>1 DEF OrderInv
  <2> QED
    BY <2>1, <2>2, RulesStayKeeps DEF RulesStay
<1>5. CASE FinishReconcile
  <2>1. UNCHANGED kernel /\ worker' = Idle
    BY <1>5 DEF FinishReconcile
  <2> QED
    BY <1>0, <2>1, RulesStayKeeps DEF RulesStay
<1>6. ASSUME NEW i, ensureFromPodSubnetRoutes(i) PROVE OrderInv'
  BY <1>6, FromRoutesStay, RulesStayKeeps
<1>7. CASE AppendBasicRule \/ AddFromPodSubnetRule \/ PruneRule
  BY <1>7, AppendBasicKeeps, AddFromKeeps, PruneKeeps
<1>8. CASE SyncStep
  BY <1>1, <1>2, <1>3, <1>4, <1>5, <1>6, <1>7, <1>8 DEF SyncStep
<1> QED
  BY <1>8, OthersStay, RulesStayKeeps DEF Next

\* SyncRoutes, for any subnets, rules of others, faults and restarts, as long as the kernel has a rule
\* priority and a table to give: the rules stand in the order of the diagram of route.go.
THEOREM OrderCorrect == Spec /\ []Room => []RuleOrder
<1>1. Init => OrderInv
  BY OrderInit
<1>2. OrderInv /\ Room /\ [Next]_vars => OrderInv'
  BY OrderNext
<1>3. OrderInv => RuleOrder
  <2> SUFFICES ASSUME OrderInv PROVE RuleOrder
    OBVIOUS
  <2>1. ASSUME NEW x \in kernel.rules, NEW y \in kernel.rules, NEW z \in kernel.rules, NEW r \in kernel.rules,
               x.table = TableOf(1), y.table = TableOf(2), z.table = TableOf(3), r.src # None
        PROVE  x.prio < y.prio /\ y.prio < z.prio /\ z.prio < r.prio
    <3>1. 1 \in Basics /\ 2 \in Basics /\ 3 \in Basics /\ 1 < 2 /\ 2 < 3
      BY DEF Basics
    <3> QED
      BY <2>1, <3>1, Zenon DEF OrderInv, AllInOrder, Ordered, FromLast
  <2> QED
    BY <2>1, Tables, SMTT(30) DEF RuleOrder
<1> QED
  BY <1>1, <1>2, <1>3, PTL DEF Spec
===============================================================================
