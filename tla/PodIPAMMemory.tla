---------------------------- MODULE PodIPAMMemory ----------------------------
(***************************************************************************)
(* What the allocator's memory achieves when nothing disturbs it: for any  *)
(* number of pods, plain and stateful ones, namespaces and addresses, no   *)
(* address is shared, lost, or given up by the workload that retains it.   *)
(***************************************************************************)
EXTENDS PodIPAM, TLAPS

\* No call fails, the cache is up to date, the memory is not read again, pods do not complete and do
\* not go while a reconciler works for them.  Pods of a workload retain their addresses or name them.
Quiet ==
    /\ MaxLag = 0 /\ MaxFaults = 0 /\ MaxRefreshes = 0 /\ MaxCrashes = 0
    /\ ~MayComplete /\ ~RemovalAnyTime
    /\ \A p \in Pods : /\ "reallocate" \notin Strategies[p]
                       /\ "preassign" \in Strategies[p] => IPPoolOf[p] \in IPs

(***************************************************************************)
(* The inductive invariant.                                                *)
(***************************************************************************)
\* Where the reconciler of a pod has an address for it that is not annotated yet, where it gives a
\* pod an address, where only that of a stateful pod can be, and where it deals with a terminating one.
HoldSteps == {"create", "status", "annotate", "recouple", "restatus", "reannotate", "giveback"}
WorkSteps == {"stateful", "allocate", "assign"} \cup HoldSteps
StatefulSteps == {"finalizer", "stateful", "assign", "recouple", "restatus", "reannotate"}
EndSteps == {"reserve", "release", "unfinalize"}
Steps == {"idle", "finalizer"} \cup WorkSteps \cup EndSteps

Shape ==
    /\ DOMAIN pods \subseteq Pods /\ DOMAIN instances \subseteq Keys
    /\ DOMAIN podStep = Pods /\ DOMAIN ipStep = Keys
    /\ uids \in Nat /\ faults = 0 /\ refreshes = 0 /\ crashes = 0

\* Pods of a workload that is gone are terminating.
PodOK(p) ==
    p \in DOMAIN pods =>
        /\ DOMAIN pods[p] = {"uid", "strategy", "ip", "completed", "deleting", "finalizer"}
        /\ pods[p].uid \in Nat \ {0} /\ pods[p].strategy \in Strategies[p] /\ ~pods[p].completed
        /\ pods[p].deleting => OwnByStatefulWorkload(p)
        /\ OwnByStatefulWorkload(p) /\ ~workload => pods[p].deleting

\* An IPInstance is in the namespace of the pods that it names.
InstanceOK(k) ==
    k \in DOMAIN instances =>
        /\ instances[k] \in Instance /\ instances[k].finalizer
        /\ k[1] = NamespaceOf[instances[k].pod]
        /\ \A p \in Pods : instances[k].status.Pod = p => k[1] = NamespaceOf[p]

StepOK(p) ==
    /\ DOMAIN podStep[p] = {"at", "uid", "strategy", "ip", "keys"}
    /\ podStep[p].at \in Steps
    /\ podStep[p].strategy \in Strategies[p] \cup {"plain"}
    /\ \A k \in podStep[p].keys : k[1] = NamespaceOf[p]

\* The cache misses at most the last event.
Applied(old, e) == IF e.value = None THEN Without(old, e.key) ELSE With(old, e.key, e.value)

CacheOK ==
    \/ feed = <<>> /\ cache = instances
    \/ \E e : feed = <<e>> /\ instances = Applied(cache, e)

\* The allocator counts the address as used by the pod.
Held(used, ip, p) == ip \in DOMAIN used /\ used[ip] = [Pod |-> p, Status |-> "Using"]

\* The address of the IPInstance has not been released yet.
Live(objects, step, k) == k \in DOMAIN objects /\ step[k] # "unbind"

\* It keeps the address from others: as long as it has not released it, or again for a stateful pod
\* that has been coupled to it since.
Occupies(objects, step, alive, k) ==
    \/ Live(objects, step, k)
    \/ k \in DOMAIN objects /\ OwnByStatefulWorkload(objects[k].pod) /\ alive

\* The IPInstance is there to stay, and is that of the pod.
Backs(objects, step, k, p, uid) ==
    /\ Live(objects, step, k) /\ ~objects[k].deleting
    /\ objects[k].pod = p /\ objects[k].uid = GetKnownOwnReference(p, uid)

\* The reconciler works for a pod that exists and has no annotation.
WorkOK(p) ==
    /\ podStep[p].at \in StatefulSteps => OwnByStatefulWorkload(p) /\ workload
    /\ podStep[p].at = "reserve" => OwnByStatefulWorkload(p)
    /\ podStep[p].at = "finalizer" /\ p \in DOMAIN pods => pods[p].ip = None
    /\ podStep[p].at \in WorkSteps =>
          /\ p \in DOMAIN pods /\ pods[p].ip = None
          /\ IF OwnByStatefulWorkload(p)
             THEN pods[p].finalizer /\ workload
             ELSE podStep[p].uid = pods[p].uid

\* An address in its hands is the pod's own for the allocator, and no IPInstance will release it.
HoldOK(p) ==
    LET ip == podStep[p].ip
    IN  /\ podStep[p].at \in HoldSteps => ip \in IPs /\ Held(memory, ip, p)
        /\ podStep[p].at = "assign" => ip \in IPs
        /\ podStep[p].at \in {"create", "giveback"} => \A k \in DOMAIN instances : k[2] = ip => ~Occupies(instances, ipStep, workload, k)
        /\ podStep[p].at \in {"status", "annotate"} => Backs(instances, ipStep, Key(p, ip), p, podStep[p].uid)
        /\ podStep[p].at = "reserve" /\ workload => \A k \in podStep[p].keys : Held(memory, k[2], p)

\* An address is looked for only if none is retained.
RetainOK(p) ==
    podStep[p].strategy = "retain" =>
        /\ podStep[p].at \in {"allocate", "create"} => \A k \in Retained : instances[k].status.Pod # p
        /\ podStep[p].at \in {"assign", "recouple"} => Key(p, podStep[p].ip) \in Retained

\* The address of an IPInstance is held by its pod until the IPInstance reconciler releases it.
LiveOK(k) ==
    /\ ipStep[k] \in {"idle", "get", "unbind"}
    /\ Occupies(instances, ipStep, workload, k) => Held(memory, k[2], instances[k].pod)
    /\ Live(instances, ipStep, k) =>
          /\ workload => \A p \in Pods : instances[k].status.Pod = p => instances[k].pod = p
          /\ OwnByStatefulWorkload(instances[k].pod) <=> instances[k].uid = 0
          /\ instances[k].deleting /\ instances[k].uid = 0 => ~workload
    /\ ipStep[k] = "unbind" => k \in DOMAIN instances /\ instances[k].deleting

\* A running pod holds its address, and a plain one has an IPInstance.
RunOK(p) ==
    p \in Running =>
        /\ Held(memory, pods[p].ip, p)
        /\ ~OwnByStatefulWorkload(p) => Backs(instances, ipStep, Key(p, pods[p].ip), p, pods[p].uid)

ForPod(p) == PodOK(p) /\ StepOK(p) /\ WorkOK(p) /\ HoldOK(p) /\ RetainOK(p) /\ RunOK(p)

ForKey(k) == InstanceOK(k) /\ LiveOK(k)

MemoryInv ==
    /\ Shape /\ CacheOK
    /\ \A p \in Pods : ForPod(p)
    /\ \A k \in Keys : ForKey(k)

(***************************************************************************)
(* What a step does not touch.                                             *)
(***************************************************************************)
\* At most the reconcilers of the pods in M move.
Moves(M) ==
    /\ DOMAIN podStep' = Pods
    /\ \A q \in Pods \ M : podStep'[q] = podStep[q]

Counters == uids' \in Nat /\ UNCHANGED <<faults, refreshes, crashes>>

ForPods(M) == \A q \in M : ForPod(q)

\* Only the pod p and its reconciler change.
LEMMA PodSide ==
    ASSUME MemoryInv, NEW p \in Pods, Moves({p}), Counters,
           UNCHANGED <<workload, instances, feed, cache, memory, ipStep>>,
           DOMAIN pods' \ {p} = DOMAIN pods \ {p},
           \A q \in DOMAIN pods \ {p} : pods'[q] = pods[q],
           ForPods({p})'
    PROVE  MemoryInv'
<1>1. Shape'
  <2>1. DOMAIN pods' \subseteq Pods
    BY DEF MemoryInv, Shape
  <2> QED
    BY <2>1 DEF MemoryInv, Shape, Moves, Counters
<1>2. CacheOK'
  BY DEF MemoryInv, CacheOK
<1>3. ASSUME NEW q \in Pods \ {p} PROVE ForPod(q)'
  <2>1. ForPod(q) /\ podStep'[q] = podStep[q]
    BY DEF MemoryInv, Moves
  <2>2. (q \in DOMAIN pods' <=> q \in DOMAIN pods) /\ (q \in DOMAIN pods => pods'[q] = pods[q])
    OBVIOUS
  <2>3. PodOK(q)' /\ StepOK(q)' /\ WorkOK(q)'
    BY <2>1, <2>2, Zenon DEF ForPod, PodOK, StepOK, WorkOK
  <2>4. HoldOK(q)' /\ RetainOK(q)'
    BY <2>1, Zenon DEF ForPod, HoldOK, RetainOK, Held, Backs, Live, Retained
  <2>5. RunOK(q)'
    BY <2>1, <2>2, Zenon DEF ForPod, RunOK, Running, Held, Backs, Live
  <2> QED
    BY <2>3, <2>4, <2>5 DEF ForPod
<1>4. ASSUME NEW k \in Keys PROVE ForKey(k)'
  <2>1. ForKey(k)
    BY DEF MemoryInv
  <2> QED
    BY <2>1, Zenon DEF ForKey, InstanceOK, LiveOK
<1> QED
  BY <1>1, <1>2, <1>3, <1>4, Zenon DEF MemoryInv, ForPods

\* Only the IPInstance k and its reconciler change, and the reconcilers of the pods in M.
OnlyKey(k) ==
    /\ DOMAIN instances' \ {k} = DOMAIN instances \ {k}
    /\ \A l \in DOMAIN instances \ {k} : instances'[l] = instances[l]
    /\ DOMAIN ipStep' = Keys
    /\ \A l \in Keys \ {k} : ipStep'[l] = ipStep[l]

\* What pods count on: their IPInstance, unless the workload is gone.
Needed(q, uid) == q \in DOMAIN pods /\ IF OwnByStatefulWorkload(q) THEN workload ELSE uid = pods[q].uid

\* No address that another reconciler is about to create an IPInstance for, or to give back, gets
\* occupied; pods keep what they count on; and so do those who look for what is retained for them.
OccupiesNone(M, k) ==
    Occupies(instances', ipStep', workload', k) =>
        \/ Occupies(instances, ipStep, workload, k)
        \/ \A q \in Pods \ M : podStep[q].at \in {"create", "giveback"} => podStep[q].ip # k[2]

StillBacks(k) ==
    \A q \in Pods : \A uid :
        Needed(q, uid) /\ Backs(instances, ipStep, k, q, uid) => Backs(instances', ipStep', k, q, uid)

StillRetained(M, k) ==
    /\ workload /\ k \in Retained => k \in Retained'
    /\ k \in Retained' => \A q \in Pods \ M : instances'[k].status.Pod = q
                                                 => k \in Retained /\ instances[k].status.Pod = q

LEMMA InstanceSide ==
    ASSUME MemoryInv, NEW M \in SUBSET Pods, NEW k \in Keys, Moves(M), OnlyKey(k), Counters,
           UNCHANGED <<pods, workload, memory>>, CacheOK', ForKey(k)', ForPods(M)',
           OccupiesNone(M, k), StillBacks(k), StillRetained(M, k)
    PROVE  MemoryInv'
<1>1. Shape'
  BY DEF MemoryInv, Shape, Moves, Counters, OnlyKey
<1>2. \A l \in DOMAIN instances' \ {k} : l \in DOMAIN instances /\ instances'[l] = instances[l]
  BY DEF OnlyKey
<1>3. ASSUME NEW l \in Keys \ {k}
      PROVE  /\ Live(instances', ipStep', l) = Live(instances, ipStep, l)
             /\ Occupies(instances', ipStep', workload', l) <=> Occupies(instances, ipStep, workload, l)
  BY DEF OnlyKey, Live, Occupies
<1>4. ASSUME NEW q \in Pods, NEW uid, NEW l \in Keys, Needed(q, uid), Backs(instances, ipStep, l, q, uid)
      PROVE  Backs(instances', ipStep', l, q, uid)
  <2>1. CASE l = k
    BY <1>4, <2>1 DEF StillBacks
  <2>2. CASE l # k
    BY <1>3, <1>4, <2>2 DEF Backs, Live, OnlyKey
  <2> QED
    BY <2>1, <2>2
<1>5. ASSUME NEW q \in Pods \ M PROVE ForPod(q)'
  <2>1. ForPod(q) /\ podStep'[q] = podStep[q]
    BY DEF MemoryInv, Moves
  <2>2. PodOK(q)' /\ StepOK(q)' /\ WorkOK(q)'
    BY <2>1, Zenon DEF ForPod, PodOK, StepOK, WorkOK
  <2>3. HoldOK(q)'
    <3> DEFINE ip == podStep[q].ip
    <3>1. podStep[q].at \in HoldSteps => ip \in IPs /\ Held(memory', ip, q)
      BY <2>1, Zenon DEF ForPod, HoldOK, Held
    <3>2. podStep[q].at = "assign" => ip \in IPs
      BY <2>1, Zenon DEF ForPod, HoldOK
    <3>3. ASSUME podStep[q].at \in {"create", "giveback"}, NEW l \in DOMAIN instances', l[2] = ip
          PROVE  ~Occupies(instances', ipStep', workload', l)
      <4>1. l \in Keys
        BY <1>1 DEF Shape
      <4>2. ~Occupies(instances, ipStep, workload, l)
        BY <2>1, <3>3, Zenon DEF ForPod, HoldOK, Live, Occupies
      <4> QED
        BY <1>3, <3>3, <4>1, <4>2 DEF OccupiesNone
    <3>4. ASSUME podStep[q].at \in {"status", "annotate"} PROVE Backs(instances', ipStep', Key(q, ip), q, podStep[q].uid)
      <4>1. Needed(q, podStep[q].uid)
        BY <2>1, <3>4, Zenon DEF ForPod, WorkOK, Needed, WorkSteps, HoldSteps
      <4>2. Backs(instances, ipStep, Key(q, ip), q, podStep[q].uid) /\ ip \in IPs
        BY <2>1, <3>4, Zenon DEF ForPod, HoldOK, HoldSteps
      <4>3. Key(q, ip) \in Keys
        BY <4>2, Zenon DEF Key, Keys, Namespaces
      <4> QED
        BY <1>4, <2>1, <4>1, <4>2, <4>3, Zenon
    <3>5. podStep[q].at = "reserve" /\ workload => \A l \in podStep[q].keys : Held(memory, l[2], q)
      BY <2>1, Zenon DEF ForPod, HoldOK
    <3> QED
      BY <2>1, <3>1, <3>2, <3>3, <3>4, <3>5, Zenon DEF HoldOK
  <2>4. RetainOK(q)'
    <3>1. ASSUME podStep[q].strategy = "retain", podStep[q].at \in {"allocate", "create"}, NEW l \in Retained'
          PROVE  instances'[l].status.Pod # q
      <4>1. CASE l = k
        BY <2>1, <3>1, <4>1, Zenon DEF ForPod, RetainOK, StillRetained
      <4>2. CASE l # k
        <5>1. l \in Retained /\ instances'[l] = instances[l]
          BY <1>2, <3>1, <4>2, Zenon DEF Retained
        <5> QED
          BY <2>1, <3>1, <5>1 DEF ForPod, RetainOK
      <4> QED
        BY <4>1, <4>2
    <3>2. ASSUME podStep[q].strategy = "retain", podStep[q].at \in {"assign", "recouple"}
          PROVE  Key(q, podStep[q].ip) \in Retained'
      <4>1. Key(q, podStep[q].ip) \in Retained
        BY <2>1, <3>2, Zenon DEF ForPod, RetainOK
      <4>2. workload
        BY <2>1, <3>2, Zenon DEF ForPod, WorkOK, StatefulSteps
      <4>3. CASE Key(q, podStep[q].ip) = k
        BY <4>1, <4>2, <4>3, Zenon DEF StillRetained
      <4>4. CASE Key(q, podStep[q].ip) # k
        BY <4>1, <4>4, Zenon DEF Retained, OnlyKey
      <4> QED
        BY <4>3, <4>4
    <3> QED
      BY <2>1, <3>1, <3>2, Zenon DEF RetainOK
  <2>5. RunOK(q)'
    <3>1. SUFFICES ASSUME q \in Running
                   PROVE  /\ Held(memory', pods[q].ip, q)
                          /\ ~OwnByStatefulWorkload(q) =>
                                Backs(instances', ipStep', Key(q, pods[q].ip), q, pods[q].uid)
      BY DEF RunOK, Running
    <3>2. Held(memory', pods[q].ip, q)
      BY <2>1, <3>1, Zenon DEF ForPod, RunOK, Held
    <3>3. ASSUME ~OwnByStatefulWorkload(q)
          PROVE  Backs(instances', ipStep', Key(q, pods[q].ip), q, pods[q].uid)
      <4>1. Backs(instances, ipStep, Key(q, pods[q].ip), q, pods[q].uid)
        BY <2>1, <3>1, <3>3, Zenon DEF ForPod, RunOK
      <4>2. Key(q, pods[q].ip) \in Keys
        BY <4>1, Zenon DEF Backs, Live, MemoryInv, Shape
      <4>3. Needed(q, pods[q].uid)
        BY <3>1, <3>3 DEF Needed, Running
      <4> QED
        BY <1>4, <4>1, <4>2, <4>3
    <3> QED
      BY <3>2, <3>3
  <2> QED
    BY <2>2, <2>3, <2>4, <2>5 DEF ForPod
<1>6. ASSUME NEW l \in Keys \ {k} PROVE ForKey(l)'
  <2>1. ForKey(l)
    BY DEF MemoryInv
  <2>2. ipStep'[l] = ipStep[l] /\ (l \in DOMAIN instances' <=> l \in DOMAIN instances)
           /\ (l \in DOMAIN instances => instances'[l] = instances[l])
    BY DEF OnlyKey
  <2>3. InstanceOK(l)'
    BY <2>1, <2>2, Zenon DEF ForKey, InstanceOK
  <2>4. Occupies(instances, ipStep, workload, l) => l \in DOMAIN instances
    BY Zenon DEF Occupies, Live
  <2>5. LiveOK(l)'
    BY <1>3, <2>1, <2>2, <2>4, Zenon DEF ForKey, LiveOK, Live
  <2> QED
    BY <2>3, <2>5 DEF ForKey
<1> QED
  BY <1>1, <1>5, <1>6 DEF MemoryInv, ForPods

\* An address is given to a pod: nobody else's was.
AllHold == \A q \in Pods : \A x : Held(memory, x, q) => Held(memory', x, q)

LEMMA GiveSide ==
    ASSUME MemoryInv, NEW p \in Pods, Moves({p}), Counters,
           UNCHANGED <<pods, workload, instances, feed, cache, ipStep>>,
           AllHold,
           ForPods({p})'
    PROVE  MemoryInv'
<1>1. Shape'
  BY DEF MemoryInv, Shape, Moves, Counters
<1>2. CacheOK'
  BY DEF MemoryInv, CacheOK
<1>3. ASSUME NEW q \in Pods \ {p} PROVE ForPod(q)'
  <2>1. ForPod(q) /\ podStep'[q] = podStep[q]
    BY DEF MemoryInv, Moves
  <2>2. PodOK(q)' /\ StepOK(q)' /\ WorkOK(q)' /\ RetainOK(q)'
    <3>1. PodOK(q)' /\ StepOK(q)' /\ WorkOK(q)'
      BY <2>1, Zenon DEF ForPod, PodOK, StepOK, WorkOK
    <3>2. RetainOK(q)'
      BY <2>1, Zenon DEF ForPod, RetainOK, Retained
    <3> QED
      BY <3>1, <3>2
  <2>3. HoldOK(q)'
    BY <2>1, Zenon DEF ForPod, HoldOK, AllHold
  <2>4. RunOK(q)'
    BY <2>1, Zenon DEF ForPod, RunOK, Running, AllHold
  <2> QED
    BY <2>2, <2>3, <2>4 DEF ForPod
<1>4. ASSUME NEW k \in Keys PROVE ForKey(k)'
  <2>1. ForKey(k)
    BY DEF MemoryInv
  <2>2. InstanceOK(k)'
    BY <2>1, Zenon DEF ForKey, InstanceOK
  <2>3. k \in DOMAIN instances => instances[k].pod \in Pods
    BY <2>1, Zenon DEF ForKey, InstanceOK, Instance
  <2>4. Occupies(instances, ipStep, workload, k) => Held(memory', k[2], instances[k].pod)
    <3>1. Occupies(instances, ipStep, workload, k) => Held(memory, k[2], instances[k].pod) /\ k \in DOMAIN instances
      BY <2>1, Zenon DEF ForKey, LiveOK, Live, Occupies
    <3> QED
      BY <2>3, <3>1, Zenon DEF AllHold
  <2>5. LiveOK(k)'
    BY <2>1, <2>4, Zenon DEF ForKey, LiveOK
  <2> QED
    BY <2>2, <2>5 DEF ForKey
<1> QED
  BY <1>1, <1>2, <1>3, <1>4 DEF MemoryInv, ForPods

\* An address is taken back that nobody uses any more.
UnbindsAt(ip) ==
    /\ DOMAIN ipStep' = Keys
    /\ \A k \in Keys : ipStep'[k] # ipStep[k] =>
          /\ ipStep'[k] = "unbind" /\ k[2] = ip
          /\ Live(instances, ipStep, k) /\ instances[k].deleting

OthersHold(ip) == \A q \in Pods : \A x : x # ip /\ Held(memory, x, q) => Held(memory', x, q)

UsedByNone(M, ip) ==
    /\ \A q \in Pods \ M : podStep[q].at \in HoldSteps => podStep[q].ip # ip
    /\ \A q \in Running : pods[q].ip # ip
    /\ \A q \in Pods \ M : podStep[q].at = "reserve" /\ workload => \A k \in podStep[q].keys : k[2] # ip

OccupiedByNone(ip) == \A k \in Keys : k[2] = ip => ~Occupies(instances', ipStep', workload', k)

LEMMA YieldSide ==
    ASSUME MemoryInv, NEW M \in SUBSET Pods, NEW ip, Moves(M), Counters,
           UNCHANGED <<pods, workload, instances, feed, cache>>, ForPods(M)',
           UnbindsAt(ip), OthersHold(ip), UsedByNone(M, ip), OccupiedByNone(ip)
    PROVE  MemoryInv'
<1>1. Shape'
  BY Zenon DEF MemoryInv, Shape, Moves, Counters, UnbindsAt
<1>2. CacheOK'
  BY DEF MemoryInv, CacheOK
<1>3. ASSUME NEW k \in Keys, k[2] # ip PROVE ipStep'[k] = ipStep[k]
  BY <1>3, Zenon DEF UnbindsAt
<1>4. \A k \in Keys : /\ Live(instances', ipStep', k) => Live(instances, ipStep, k)
                      /\ Occupies(instances', ipStep', workload', k) => Occupies(instances, ipStep, workload, k)
                      /\ Live(instances', ipStep', k) => Occupies(instances', ipStep', workload', k)
  BY Zenon DEF Live, Occupies, UnbindsAt
<1>5. ASSUME NEW q \in Pods \ M PROVE ForPod(q)'
  <2>1. ForPod(q) /\ podStep'[q] = podStep[q]
    BY Zenon DEF MemoryInv, Moves
  <2>2. PodOK(q)' /\ StepOK(q)' /\ WorkOK(q)' /\ RetainOK(q)'
    <3>1. PodOK(q)' /\ StepOK(q)' /\ WorkOK(q)'
      BY <2>1, Zenon DEF ForPod, PodOK, StepOK, WorkOK
    <3>2. RetainOK(q)'
      BY <2>1, Zenon DEF ForPod, RetainOK, Retained
    <3> QED
      BY <3>1, <3>2
  <2>3. HoldOK(q)'
    <3>1. podStep[q].at \in HoldSteps => podStep[q].ip \in IPs /\ Held(memory', podStep[q].ip, q)
      BY <2>1, Zenon DEF ForPod, HoldOK, UsedByNone, OthersHold
    <3>2. podStep[q].at = "assign" => podStep[q].ip \in IPs
      BY <2>1, Zenon DEF ForPod, HoldOK
    <3>3. podStep[q].at \in {"create", "giveback"} =>
             \A k \in DOMAIN instances : k[2] = podStep[q].ip => ~Occupies(instances', ipStep', workload', k)
      BY <1>4, <2>1, Zenon DEF ForPod, HoldOK, MemoryInv, Shape
    <3>4. ASSUME podStep[q].at \in {"status", "annotate"}
          PROVE  Backs(instances, ipStep', Key(q, podStep[q].ip), q, podStep[q].uid)
      <4>1. Backs(instances, ipStep, Key(q, podStep[q].ip), q, podStep[q].uid) /\ podStep[q].ip # ip
        BY <2>1, <3>4, Zenon DEF ForPod, HoldOK, HoldSteps, UsedByNone
      <4>2. Key(q, podStep[q].ip) \in Keys /\ Key(q, podStep[q].ip)[2] = podStep[q].ip
        BY <4>1, Zenon DEF Backs, Live, MemoryInv, Shape, Key
      <4> QED
        BY <1>3, <4>1, <4>2, Zenon DEF Backs, Live
    <3>5. podStep[q].at = "reserve" /\ workload => \A k \in podStep[q].keys : Held(memory', k[2], q)
      BY <2>1, Zenon DEF ForPod, HoldOK, UsedByNone, OthersHold
    <3> QED
      BY <2>1, <3>1, <3>2, <3>3, <3>4, <3>5, Zenon DEF HoldOK
  <2>4. RunOK(q)'
    <3>1. SUFFICES ASSUME q \in Running
                   PROVE  /\ Held(memory', pods[q].ip, q)
                          /\ ~OwnByStatefulWorkload(q) =>
                                Backs(instances, ipStep', Key(q, pods[q].ip), q, pods[q].uid)
      BY Zenon DEF RunOK, Running
    <3>2. Held(memory', pods[q].ip, q)
      BY <2>1, <3>1, Zenon DEF ForPod, RunOK, UsedByNone, OthersHold
    <3>3. ASSUME ~OwnByStatefulWorkload(q)
          PROVE  Backs(instances, ipStep', Key(q, pods[q].ip), q, pods[q].uid)
      <4>1. Backs(instances, ipStep, Key(q, pods[q].ip), q, pods[q].uid) /\ pods[q].ip # ip
        BY <2>1, <3>1, <3>3, Zenon DEF ForPod, RunOK, UsedByNone
      <4>2. Key(q, pods[q].ip) \in Keys /\ Key(q, pods[q].ip)[2] = pods[q].ip
        BY <4>1, Zenon DEF Backs, Live, MemoryInv, Shape, Key
      <4> QED
        BY <1>3, <4>1, <4>2, Zenon DEF Backs, Live
    <3> QED
      BY <3>2, <3>3
  <2> QED
    BY <2>2, <2>3, <2>4 DEF ForPod
<1>6. ASSUME NEW k \in Keys PROVE ForKey(k)'
  <2>1. ForKey(k)
    BY DEF MemoryInv
  <2>2. InstanceOK(k)'
    BY <2>1, Zenon DEF ForKey, InstanceOK
  <2>3. k \in DOMAIN instances => instances[k].pod \in Pods
    BY <2>1, Zenon DEF ForKey, InstanceOK, Instance
  <2>4. LiveOK(k)'
    <3>1. ipStep'[k] = ipStep[k] \/ (ipStep'[k] = "unbind" /\ k \in DOMAIN instances /\ instances[k].deleting)
      BY Zenon DEF Live, UnbindsAt
    <3>2. Live(instances', ipStep', k) => Live(instances, ipStep, k)
      BY <1>4
    <3>3. Occupies(instances', ipStep', workload', k) => Held(memory', k[2], instances[k].pod)
      <4>1. Occupies(instances, ipStep, workload, k) => Held(memory, k[2], instances[k].pod) /\ k \in DOMAIN instances
        BY <2>1, Zenon DEF ForKey, LiveOK, Live, Occupies
      <4>2. Occupies(instances', ipStep', workload', k) => Occupies(instances, ipStep, workload, k) /\ k[2] # ip
        BY <1>4 DEF OccupiedByNone
      <4> QED
        BY <2>3, <4>1, <4>2, Zenon DEF OthersHold
    <3> QED
      BY <2>1, <3>1, <3>2, <3>3, Zenon DEF ForKey, LiveOK
  <2> QED
    BY <2>2, <2>4 DEF ForKey
<1> QED
  BY <1>1, <1>2, <1>5, <1>6 DEF MemoryInv, ForPods

(***************************************************************************)
(* Facts that the steps share.                                             *)
(***************************************************************************)
\* Before every step but the delivery of an event, the cache is up to date.
LEMMA Synced ==
    ASSUME Quiet, MemoryInv, Len(feed) <= MaxLag
    PROVE  feed = <<>> /\ cache = instances
  BY DEF Quiet, MemoryInv, CacheOK

LEMMA ForOnePod ==
    ASSUME MemoryInv, NEW p \in Pods
    PROVE  ForPod(p) /\ Shape
  BY DEF MemoryInv

LEMMA ForOneKey ==
    ASSUME MemoryInv, NEW k \in Keys
    PROVE  ForKey(k) /\ Shape
  BY DEF MemoryInv

\* A reconciler goes on: its variables stay.
Goes(p, at) ==
    /\ DOMAIN podStep'[p] = {"at", "uid", "strategy", "ip", "keys"}
    /\ podStep'[p].at = at
    /\ podStep'[p].uid = podStep[p].uid /\ podStep'[p].ip = podStep[p].ip
    /\ podStep'[p].strategy = podStep[p].strategy /\ podStep'[p].keys = podStep[p].keys

LEMMA GotoMoves ==
    ASSUME Shape, NEW p \in Pods, StepOK(p), NEW at, NEW events, Goto(p, at, events)
    PROVE  /\ Moves({p})
           /\ at \in {"done", "retry"} => podStep'[p] = Idle
           /\ at \notin {"done", "retry"} => Goes(p, at)
<1>1. CASE at \in {"done", "retry"}
  BY <1>1 DEF Goto, Shape, Moves
<1>2. CASE at \notin {"done", "retry"}
  <2>1. podStep' = [podStep EXCEPT ![p] = [@ EXCEPT !.at = at]]
    BY <1>2 DEF Goto
  <2> QED
    BY <1>2, <2>1 DEF Shape, Moves, Goes, StepOK
<1> QED
  BY <1>1, <1>2

LEMMA GotoGoes ==
    ASSUME Shape, NEW p \in Pods, ForPod(p), NEW at, at # "done", at # "retry", NEW events, Goto(p, at, events)
    PROVE  Moves({p}) /\ Goes(p, at)
  BY GotoMoves DEF ForPod

\* No answer is lost.
LEMMA ReplyGoes ==
    ASSUME Quiet, Shape, NEW p, NEW at, NEW next, NEW events, Reply(p, at, next, events)
    PROVE  Goto(p, next, events) /\ faults' = faults
  BY DEF Quiet, Shape, Reply

LEMMA NoFaults ==
    ASSUME Quiet, Shape
    PROVE  ~(faults < MaxFaults)
  BY DEF Quiet, Shape

LEMMA IdleForPod ==
    ASSUME NEW p \in Pods, podStep'[p] = Idle, PodOK(p)', RunOK(p)'
    PROVE  ForPod(p)'
<1>1. StepOK(p)'
  BY DEF StepOK, Idle, Steps
<1>2. podStep'[p].at = "idle"
  BY DEF Idle
<1>3. WorkOK(p)' /\ RetainOK(p)'
  BY <1>2, Zenon DEF WorkOK, RetainOK, WorkSteps, HoldSteps, StatefulSteps
<1>4. HoldOK(p)'
  BY <1>2, Zenon DEF HoldOK, HoldSteps
<1> QED
  BY <1>1, <1>3, <1>4 DEF ForPod

\* What does not depend on the reconciler of the pod.
LEMMA SamePod ==
    ASSUME NEW p \in Pods, ForPod(p), UNCHANGED <<pods, workload>>
    PROVE  /\ PodOK(p)'
           /\ UNCHANGED <<instances, memory, ipStep>> => RunOK(p)'
           /\ p \in DOMAIN pods /\ pods[p].ip = None => RunOK(p)'
<1>1. PodOK(p)'
  BY Zenon DEF ForPod, PodOK
<1>2. ASSUME UNCHANGED <<instances, memory, ipStep>> PROVE RunOK(p)'
  BY <1>2, Zenon DEF ForPod, RunOK, Running
<1>3. ASSUME pods[p].ip = None PROVE RunOK(p)'
  BY <1>3 DEF RunOK, Running
<1> QED
  BY <1>1, <1>2, <1>3

(***************************************************************************)
(* The initial states and the steps of the cluster.                        *)
(***************************************************************************)
LEMMA MemoryInit ==
    ASSUME Init
    PROVE  MemoryInv
<1>1. DOMAIN pods = {} /\ DOMAIN instances = {}
  BY DEF Init, NoFunction
<1>2. podStep = [p \in Pods |-> Idle] /\ ipStep = [k \in Keys |-> "idle"]
  BY DEF Init
<1>3. Shape /\ CacheOK
  BY <1>1, <1>2 DEF Init, Shape, CacheOK, NoFunction
<1>4. ASSUME NEW p \in Pods PROVE ForPod(p)
  <2>1. PodOK(p) /\ RunOK(p)
    BY <1>1, Zenon DEF PodOK, RunOK, Running
  <2>2. StepOK(p)
    BY <1>2, Zenon DEF StepOK, Idle, Steps
  <2>3. WorkOK(p) /\ HoldOK(p) /\ RetainOK(p)
    BY <1>2, Zenon DEF WorkOK, HoldOK, RetainOK, Idle, WorkSteps, HoldSteps, StatefulSteps
  <2> QED
    BY <2>1, <2>2, <2>3 DEF ForPod
<1>5. ASSUME NEW k \in Keys PROVE ForKey(k)
  BY <1>1, <1>2, Zenon DEF ForKey, InstanceOK, LiveOK, Live, Occupies
<1> QED
  BY <1>3, <1>4, <1>5 DEF MemoryInv

LEMMA CreatePodKeeps ==
    ASSUME MemoryInv, NEW p \in Pods, CreatePod(p)
    PROVE  MemoryInv'
<1>0. ForPod(p) /\ Shape
  BY ForOnePod
<1>1. /\ p \notin DOMAIN pods /\ DOMAIN pods' = DOMAIN pods \cup {p}
      /\ \A q \in DOMAIN pods : pods'[q] = pods[q]
      /\ DOMAIN pods'[p] = {"uid", "strategy", "ip", "completed", "deleting", "finalizer"}
      /\ pods'[p].uid = uids + 1 /\ pods'[p].strategy \in Strategies[p] /\ pods'[p].ip = None
      /\ ~pods'[p].completed /\ ~pods'[p].deleting
  <2>1. PICK s \in Strategies[p] :
          pods' = With(pods, p, [uid |-> uids + 1, strategy |-> s, ip |-> None, completed |-> FALSE,
                                 deleting |-> FALSE, finalizer |-> FALSE])
    BY Zenon DEF CreatePod
  <2>2. p \notin DOMAIN pods
    BY Zenon DEF CreatePod
  <2> QED
    BY <2>1, <2>2, Zenon DEF With
<1>2. /\ UNCHANGED <<workload, instances, feed, cache, memory, podStep, ipStep, faults, refreshes, crashes>>
      /\ uids' = uids + 1 /\ (OwnByStatefulWorkload(p) => workload)
  BY Zenon DEF CreatePod, ipSide
<1>3. Moves({p}) /\ Counters
  BY <1>0, <1>2 DEF Moves, Counters, Shape
<1>4. ForPod(p)'
  <2>1. PodOK(p)'
    <3>1. pods'[p].uid \in Nat \ {0}
      BY <1>0, <1>1 DEF Shape
    <3> QED
      BY <1>1, <1>2, <3>1, Zenon DEF PodOK
  <2>2. StepOK(p)' /\ HoldOK(p)' /\ RetainOK(p)'
    BY <1>0, <1>2, Zenon DEF ForPod, StepOK, HoldOK, RetainOK, Retained
  <2>3. WorkOK(p)'
    BY <1>0, <1>1, <1>2, Zenon DEF ForPod, WorkOK
  <2>4. RunOK(p)'
    BY <1>1, Zenon DEF RunOK, Running
  <2> QED
    BY <2>1, <2>2, <2>3, <2>4 DEF ForPod
<1>5. DOMAIN pods' \ {p} = DOMAIN pods \ {p}
  BY <1>1
<1> QED
  BY <1>1, <1>2, <1>3, <1>4, <1>5, PodSide, Zenon DEF ForPods

LEMMA RemovePodKeeps ==
    ASSUME Quiet, MemoryInv, NEW p \in Pods, RemovePod(p)
    PROVE  MemoryInv'
<1>0. ForPod(p) /\ Shape
  BY ForOnePod
<1>1. /\ DOMAIN pods' = DOMAIN pods \ {p} /\ p \in DOMAIN pods
      /\ \A q \in DOMAIN pods' : pods'[q] = pods[q]
  BY Zenon DEF RemovePod, Without
<1>2. UNCHANGED <<workload, instances, feed, cache, memory, podStep, ipStep, uids, faults, refreshes, crashes>>
  BY Zenon DEF RemovePod, ipSide, podSide, counters
<1>3. Moves({p}) /\ Counters
  BY <1>0, <1>2, Zenon DEF Moves, Counters, Shape
<1>4. podStep[p].at \notin WorkSteps
  <2>1. CASE OwnByStatefulWorkload(p)
    <3>1. ~pods[p].finalizer
      BY <2>1, Zenon DEF RemovePod
    <3> QED
      BY <1>0, <2>1, <3>1, Zenon DEF ForPod, WorkOK
  <2>2. CASE ~OwnByStatefulWorkload(p)
    <3>1. podStep[p].at = "idle"
      BY <2>2, Zenon DEF RemovePod, Quiet
    <3> QED
      BY <3>1 DEF WorkSteps, HoldSteps
  <2> QED
    BY <2>1, <2>2
<1>5. ForPod(p)'
  <2>1. PodOK(p)' /\ RunOK(p)'
    BY <1>1, Zenon DEF PodOK, RunOK, Running
  <2>2. StepOK(p)' /\ HoldOK(p)' /\ RetainOK(p)'
    BY <1>0, <1>2, Zenon DEF ForPod, StepOK, HoldOK, RetainOK, Retained
  <2>3. WorkOK(p)'
    BY <1>0, <1>1, <1>2, <1>4, Zenon DEF ForPod, WorkOK
  <2> QED
    BY <2>1, <2>2, <2>3 DEF ForPod
<1>6. DOMAIN pods' \ {p} = DOMAIN pods \ {p}
  BY <1>1
<1> QED
  BY <1>1, <1>2, <1>3, <1>5, <1>6, PodSide, Zenon DEF ForPods

\* A field of a pod is set.
LEMMA PodFields ==
    ASSUME NEW pod, DOMAIN pod = {"uid", "strategy", "ip", "completed", "deleting", "finalizer"}, NEW v
    PROVE  /\ DOMAIN [pod EXCEPT !.deleting = v] = DOMAIN pod
           /\ [pod EXCEPT !.deleting = v].uid = pod.uid
           /\ [pod EXCEPT !.deleting = v].strategy = pod.strategy
           /\ [pod EXCEPT !.deleting = v].ip = pod.ip
           /\ [pod EXCEPT !.deleting = v].completed = pod.completed
           /\ [pod EXCEPT !.deleting = v].finalizer = pod.finalizer
           /\ [pod EXCEPT !.deleting = v].deleting = v
  OBVIOUS

LEMMA Terminating ==
    ASSUME NEW pod, DOMAIN pod = {"uid", "strategy", "ip", "completed", "deleting", "finalizer"},
           NEW new, new = [pod EXCEPT !.deleting = TRUE]
    PROVE  /\ DOMAIN new = DOMAIN pod /\ new.uid = pod.uid /\ new.strategy = pod.strategy /\ new.ip = pod.ip
           /\ new.completed = pod.completed /\ new.finalizer = pod.finalizer /\ new.deleting
<1>1. /\ DOMAIN new = DOMAIN pod /\ new.uid = pod.uid /\ new.strategy = pod.strategy /\ new.ip = pod.ip
      /\ new.completed = pod.completed /\ new.finalizer = pod.finalizer /\ new.deleting = TRUE
  BY PodFields, Zenon
<1> QED
  BY <1>1

\* A terminating pod is as good as before for its reconciler, which finds it so when it looks next.
LEMMA DeletePodKeeps ==
    ASSUME MemoryInv, NEW p \in Pods, DeletePod(p)
    PROVE  MemoryInv'
<1>0. ForPod(p) /\ Shape
  BY ForOnePod
<1>1. /\ p \in DOMAIN pods /\ DOMAIN pods' = DOMAIN pods
      /\ \A q \in DOMAIN pods \ {p} : pods'[q] = pods[q]
      /\ pods'[p] = [pods[p] EXCEPT !.deleting = TRUE]
  BY DEF DeletePod
<1>2. UNCHANGED <<workload, instances, feed, cache, memory, podStep, ipStep, uids, faults, refreshes, crashes>>
  BY DEF DeletePod, ipSide, counters
<1>3. Moves({p}) /\ Counters
  BY <1>0, <1>2, Zenon DEF Moves, Counters, Shape
<1>4. /\ DOMAIN pods'[p] = DOMAIN pods[p] /\ pods'[p].uid = pods[p].uid
      /\ pods'[p].strategy = pods[p].strategy /\ pods'[p].ip = pods[p].ip
      /\ pods'[p].completed = pods[p].completed /\ pods'[p].finalizer = pods[p].finalizer /\ pods'[p].deleting
  <2>1. DOMAIN pods[p] = {"uid", "strategy", "ip", "completed", "deleting", "finalizer"}
    BY <1>0, <1>1 DEF ForPod, PodOK
  <2> QED
    BY <1>1, <2>1, Terminating, Zenon
<1>5. ForPod(p)'
  <2>1. PodOK(p)'
    BY <1>0, <1>1, <1>2, <1>4 DEF ForPod, PodOK, DeletePod
  <2>2. StepOK(p)' /\ HoldOK(p)' /\ RetainOK(p)'
    BY <1>0, <1>2, Zenon DEF ForPod, StepOK, HoldOK, RetainOK, Retained
  <2>3. WorkOK(p)'
    BY <1>0, <1>1, <1>2, <1>4 DEF ForPod, WorkOK
  <2>4. RunOK(p)'
    BY <1>0, <1>1, <1>2, <1>4, Zenon DEF ForPod, RunOK, Running
  <2> QED
    BY <2>1, <2>2, <2>3, <2>4 DEF ForPod
<1> QED
  BY <1>1, <1>2, <1>3, <1>5, PodSide DEF ForPods

\* The workload goes while its reconcilers are idle; its pods do not count as running any more.
LEMMA DeleteWorkloadKeeps ==
    ASSUME Quiet, MemoryInv, DeleteWorkload
    PROVE  MemoryInv'
<1>1. /\ ~workload' /\ DOMAIN pods' = DOMAIN pods
      /\ \A p \in DOMAIN pods : ~OwnByStatefulWorkload(p) \/ p \notin Pods => pods'[p] = pods[p]
      /\ \A p \in Pods : OwnByStatefulWorkload(p) => podStep[p].at = "idle"
  BY DEF DeleteWorkload, Quiet
<1>2. UNCHANGED <<instances, feed, cache, memory, podStep, ipStep, uids, faults, refreshes, crashes>>
  BY DEF DeleteWorkload, ipSide, counters
<1>3. Shape' /\ CacheOK'
  BY <1>1, <1>2, Zenon DEF MemoryInv, Shape, CacheOK
<1>6. \A k : Occupies(instances, ipStep, workload', k) => Occupies(instances, ipStep, workload, k)
  BY <1>1, Zenon DEF Occupies
<1>4. ASSUME NEW p \in Pods PROVE ForPod(p)'
  <2>0. ForPod(p)
    BY ForOnePod
  <2>1. PodOK(p)'
    <3>1. CASE p \in DOMAIN pods /\ OwnByStatefulWorkload(p)
      <4>1. DOMAIN pods[p] = {"uid", "strategy", "ip", "completed", "deleting", "finalizer"}
        BY <2>0, <3>1, Zenon DEF ForPod, PodOK
      <4>2. pods'[p] = [pods[p] EXCEPT !.deleting = TRUE]
        BY <3>1 DEF DeleteWorkload
      <4>3. /\ DOMAIN pods'[p] = DOMAIN pods[p] /\ pods'[p].uid = pods[p].uid
            /\ pods'[p].strategy = pods[p].strategy
            /\ pods'[p].completed = pods[p].completed /\ pods'[p].deleting
        BY <4>1, <4>2, Terminating, Zenon
      <4> QED
        BY <2>0, <3>1, <4>3, Zenon DEF ForPod, PodOK
    <3>2. CASE ~(p \in DOMAIN pods /\ OwnByStatefulWorkload(p))
      BY <1>1, <2>0, <3>2, Zenon DEF ForPod, PodOK
    <3> QED
      BY <3>1, <3>2
  <2>2. StepOK(p)' /\ HoldOK(p)' /\ RetainOK(p)'
    <3>1. StepOK(p)' /\ RetainOK(p)'
      BY <1>2, <2>0, Zenon DEF ForPod, StepOK, RetainOK, Retained
    <3>2. HoldOK(p)'
      BY <1>1, <1>2, <1>6, <2>0, Zenon DEF ForPod, HoldOK
    <3> QED
      BY <3>1, <3>2
  <2>3. WorkOK(p)'
    <3>1. CASE OwnByStatefulWorkload(p)
      BY <1>1, <1>2, <3>1, Zenon DEF WorkOK, WorkSteps, HoldSteps, StatefulSteps
    <3>2. CASE ~OwnByStatefulWorkload(p)
      BY <1>1, <1>2, <2>0, <3>2, Zenon DEF ForPod, WorkOK
    <3> QED
      BY <3>1, <3>2
  <2>4. RunOK(p)'
    <3>1. CASE OwnByStatefulWorkload(p)
      BY <1>1, <3>1, Zenon DEF RunOK, Running
    <3>2. CASE ~OwnByStatefulWorkload(p)
      <4>1. p \in DOMAIN pods => pods'[p] = pods[p]
        BY <1>1, <3>2
      <4> QED
        BY <1>1, <1>2, <2>0, <3>2, <4>1, Zenon DEF ForPod, RunOK, Running
    <3> QED
      BY <3>1, <3>2
  <2> QED
    BY <2>1, <2>2, <2>3, <2>4 DEF ForPod
<1>5. ASSUME NEW k \in Keys PROVE ForKey(k)'
  <2>1. ForKey(k)
    BY ForOneKey
  <2> QED
    BY <1>1, <1>2, <1>6, <2>1, Zenon DEF ForKey, InstanceOK, LiveOK
<1> QED
  BY <1>3, <1>4, <1>5 DEF MemoryInv

\* Steps that change none of what the invariant is about but the cache.
LEMMA SilentKeeps ==
    ASSUME Quiet, MemoryInv, UNCHANGED vars \/ Deliver \/ \E p \in Pods : TouchPod(p)
    PROVE  MemoryInv'
<1>1. UNCHANGED <<pods, workload, instances, memory, podStep, ipStep, uids, faults, refreshes, crashes>>
  BY Zenon DEF vars, Deliver, TouchPod, api, podSide, ipSide, counters
<1>2. CacheOK'
  <2>1. CASE Deliver
    <3>1. PICK e : feed = <<e>> /\ instances = Applied(cache, e)
      BY <2>1, Zenon DEF MemoryInv, CacheOK, Deliver
    <3>2. Head(feed) = e /\ Tail(feed) = <<>>
      BY <3>1
    <3>3. cache' = Applied(cache, e) /\ feed' = <<>>
      BY <2>1, <3>2, Zenon DEF Deliver, Applied
    <3> QED
      BY <1>1, <3>1, <3>3 DEF CacheOK
  <2>2. CASE UNCHANGED <<feed, cache>>
    BY <1>1, <2>2 DEF MemoryInv, CacheOK
  <2> QED
    BY <2>1, <2>2 DEF vars, TouchPod, api
<1>3. Shape'
  BY <1>1, Zenon DEF MemoryInv, Shape
<1>4. ASSUME NEW p \in Pods PROVE ForPod(p)'
  <2>1. ForPod(p)
    BY ForOnePod
  <2>2. PodOK(p)' /\ StepOK(p)' /\ WorkOK(p)'
    BY <1>1, <2>1, Zenon DEF ForPod, PodOK, StepOK, WorkOK
  <2>3. HoldOK(p)' /\ RetainOK(p)'
    BY <1>1, <2>1, Zenon DEF ForPod, HoldOK, RetainOK, Retained
  <2>4. RunOK(p)'
    BY <1>1, <2>1, Zenon DEF ForPod, RunOK, Running
  <2> QED
    BY <2>2, <2>3, <2>4 DEF ForPod
<1>5. ASSUME NEW k \in Keys PROVE ForKey(k)'
  <2>1. ForKey(k)
    BY ForOneKey
  <2> QED
    BY <1>1, <2>1, Zenon DEF ForKey, InstanceOK, LiveOK
<1> QED
  BY <1>2, <1>3, <1>4, <1>5 DEF MemoryInv

(***************************************************************************)
(* The steps of the pod reconciler that write no IPInstance.               *)
(***************************************************************************)
LEMMA StrategyOK ==
    ASSUME Quiet, NEW p \in Pods, NEW s \in Strategies[p] \cup {"plain"}
    PROVE  /\ s \in {"plain", "retain", "preassign"}
           /\ s # "plain" => OwnByStatefulWorkload(p) /\ s \in Strategies[p]
<1>1. Strategies[p] \in {{"plain"}} \cup SUBSET {"retain", "reallocate", "preassign"}
  BY PodIPAMAssumption
<1> QED
  BY <1>1, Zenon DEF Quiet, OwnByStatefulWorkload

LEMMA StartPodKeeps ==
    ASSUME Quiet, MemoryInv, NEW p \in Pods, Len(feed) <= MaxLag, StartPod(p)
    PROVE  MemoryInv'
<1>0. ForPod(p) /\ Shape
  BY ForOnePod
<1>1. cache = instances
  BY Synced
<1>2. UNCHANGED <<pods, workload, instances, feed, cache, memory, ipStep, uids, faults, refreshes, crashes>>
  BY DEF StartPod, api, ipSide, counters
<1>3. Moves({p}) /\ Counters
  BY <1>0, <1>2, Zenon DEF StartPod, Moves, Counters, Shape
<1>4. PodOK(p)' /\ RunOK(p)'
  BY <1>0, <1>2, SamePod
<1>5. ForPod(p)'
  <2> DEFINE pod == pods[p]
             listed == {k \in DOMAIN cache : cache[k].pod = p}
  <2>1. CASE podStep'[p] = Idle
    BY <1>4, <2>1, IdleForPod
  <2>2. CASE /\ p \in DOMAIN pods /\ pod.deleting
             /\ podStep'[p] = [Idle EXCEPT !.at = IF listed = {} THEN "release" ELSE "reserve", !.keys = listed]
    <3>1. /\ DOMAIN podStep'[p] = {"at", "uid", "strategy", "ip", "keys"}
          /\ podStep'[p].at \in {"release", "reserve"} /\ podStep'[p].strategy = "plain"
          /\ podStep'[p].keys = listed
      BY <2>2 DEF Idle
    <3>2. OwnByStatefulWorkload(p)
      BY <1>0, <2>2 DEF ForPod, PodOK
    <3>3. ASSUME NEW k \in listed PROVE k[1] = NamespaceOf[p] /\ (workload => Held(memory, k[2], p))
      <4>1. k \in Keys /\ k \in DOMAIN instances /\ instances[k].pod = p
        BY <1>0, <1>1, Zenon DEF Shape
      <4>2. ForKey(k)
        BY <4>1, ForOneKey, Zenon
      <4>3. k[1] = NamespaceOf[p]
        BY <4>1, <4>2, Zenon DEF ForKey, InstanceOK
      <4>4. workload => Occupies(instances, ipStep, workload, k)
        BY <3>2, <4>1, Zenon DEF Occupies
      <4> QED
        BY <4>1, <4>2, <4>3, <4>4, Zenon DEF ForKey, LiveOK
    <3>4. StepOK(p)'
      BY <3>1, <3>3, Zenon DEF StepOK, Steps, EndSteps
    <3>5. WorkOK(p)' /\ RetainOK(p)'
      BY <3>1, <3>2, Zenon DEF WorkOK, RetainOK, WorkSteps, HoldSteps, StatefulSteps
    <3>6. HoldOK(p)'
      BY <1>2, <3>1, <3>3, Zenon DEF HoldOK, HoldSteps
    <3> QED
      BY <1>4, <3>4, <3>5, <3>6 DEF ForPod
  <2>3. CASE podStep'[p] = [Idle EXCEPT !.at = "unfinalize"]
    <3>1. /\ DOMAIN podStep'[p] = {"at", "uid", "strategy", "ip", "keys"}
          /\ podStep'[p].at = "unfinalize" /\ podStep'[p].strategy = "plain" /\ podStep'[p].keys = {}
      BY <2>3 DEF Idle
    <3>2. StepOK(p)' /\ WorkOK(p)' /\ RetainOK(p)'
      BY <3>1, Zenon DEF StepOK, Steps, EndSteps, WorkOK, RetainOK, WorkSteps, HoldSteps, StatefulSteps
    <3>3. HoldOK(p)'
      BY <3>1, Zenon DEF HoldOK, HoldSteps
    <3> QED
      BY <1>4, <3>2, <3>3 DEF ForPod
  <2>4. CASE /\ p \in DOMAIN pods /\ ~pod.deleting /\ pod.ip = None
             /\ podStep'[p] = [Idle EXCEPT !.at = CASE ~OwnByStatefulWorkload(p) -> "allocate"
                                               [] OwnByStatefulWorkload(p) /\ ~pod.finalizer -> "finalizer"
                                               [] OTHER -> "stateful",
                                           !.uid = pod.uid, !.strategy = pod.strategy]
    <3>1. /\ DOMAIN podStep'[p] = {"at", "uid", "strategy", "ip", "keys"} /\ podStep'[p].keys = {}
          /\ podStep'[p].uid = pod.uid /\ podStep'[p].strategy = pod.strategy
          /\ ~OwnByStatefulWorkload(p) => podStep'[p].at = "allocate"
          /\ OwnByStatefulWorkload(p) =>
                \/ podStep'[p].at = "finalizer"
                \/ podStep'[p].at = "stateful" /\ pod.finalizer
      BY <2>4 DEF Idle
    <3>2. OwnByStatefulWorkload(p) => workload
      BY <1>0, <2>4 DEF ForPod, PodOK
    <3>3. pod.strategy \in Strategies[p]
      BY <1>0, <2>4 DEF ForPod, PodOK
    <3>4. pod.strategy = "retain" => OwnByStatefulWorkload(p)
      BY <3>3, StrategyOK, Zenon
    <3>5. StepOK(p)'
      BY <3>1, <3>3, Zenon DEF StepOK, Steps, WorkSteps
    <3>6. WorkOK(p)'
      BY <1>2, <2>4, <3>1, <3>2 DEF WorkOK, WorkSteps, HoldSteps, StatefulSteps
    <3>7. HoldOK(p)' /\ RetainOK(p)'
      BY <3>1, <3>4, Zenon DEF HoldOK, HoldSteps, RetainOK
    <3> QED
      BY <1>4, <3>5, <3>6, <3>7 DEF ForPod
  <2>5. p \in DOMAIN pods => ~pod.completed
    BY <1>0, Zenon DEF ForPod, PodOK
  <2> QED
    BY <1>0, <2>1, <2>2, <2>3, <2>4, <2>5, Zenon DEF StartPod, Shape
<1> QED
  BY <1>2, <1>3, <1>5, PodSide, Zenon DEF ForPods

LEMMA StatefulAllocateKeeps ==
    ASSUME Quiet, MemoryInv, NEW p \in Pods, Len(feed) <= MaxLag, StatefulAllocate(p)
    PROVE  MemoryInv'
<1>0. ForPod(p) /\ Shape
  BY ForOnePod
<1>1. cache = instances /\ podStep[p].at = "stateful"
  BY Synced DEF StatefulAllocate
<1>2. UNCHANGED <<pods, workload, instances, feed, cache, memory, ipStep, uids, faults, refreshes, crashes>>
  BY DEF StatefulAllocate, api, ipSide, counters
<1>3. Moves({p}) /\ Counters
  BY <1>0, <1>2 DEF StatefulAllocate, Moves, Counters, Shape
<1>4. PodOK(p)' /\ RunOK(p)'
  BY <1>0, <1>2, SamePod, Zenon
<1> DEFINE strategy == podStep[p].strategy
           allocated == ListAllocatedIPInstancesOfPod(p)
<1>5. strategy \in {"plain", "retain", "preassign"} /\ (strategy # "plain" => strategy \in Strategies[p])
  BY <1>0, StrategyOK, Zenon DEF ForPod, StepOK
<1>6. /\ DOMAIN podStep'[p] = {"at", "uid", "strategy", "ip", "keys"}
      /\ podStep'[p].uid = podStep[p].uid /\ podStep'[p].strategy = strategy /\ podStep'[p].keys = podStep[p].keys
      /\ \/ strategy = "preassign" /\ podStep'[p].at = "assign" /\ podStep'[p].ip = IPPoolOf[p]
         \/ strategy = "retain" /\ podStep'[p].at = "assign" /\ \E k \in allocated : podStep'[p].ip = k[2]
         \/ strategy = "retain" /\ podStep'[p].at = "allocate" /\ allocated = {}
  <2>1. DOMAIN podStep = Pods /\ DOMAIN podStep[p] = {"at", "uid", "strategy", "ip", "keys"}
    BY <1>0, Zenon DEF ForPod, StepOK, Shape
  <2> HIDE DEF allocated
  <2>2. \/ strategy = "preassign" /\ podStep' = [podStep EXCEPT ![p].at = "assign", ![p].ip = IPPoolOf[p]]
        \/ strategy = "retain" /\ \E k \in allocated : podStep' = [podStep EXCEPT ![p].at = "assign", ![p].ip = k[2]]
        \/ strategy = "retain" /\ allocated = {} /\ podStep' = [podStep EXCEPT ![p].at = "allocate"]
    BY <1>5, Zenon DEF StatefulAllocate, allocated
  <2> QED
    BY <2>1, <2>2
<1>7. ASSUME NEW k \in allocated PROVE k[2] \in IPs /\ Key(p, k[2]) \in Retained
  <2>1. /\ k \in Keys /\ k \in DOMAIN instances /\ k[1] = NamespaceOf[p]
        /\ instances[k].status.Pod = p /\ ~instances[k].deleting
    BY <1>0, <1>1, Zenon DEF Shape, ListAllocatedIPInstancesOfPod
  <2>2. ForKey(k)
    BY <2>1, ForOneKey
  <2>3. Live(instances, ipStep, k)
    BY <2>1, <2>2, Zenon DEF ForKey, LiveOK, Live
  <2>4. workload /\ OwnByStatefulWorkload(p)
    BY <1>0, <1>1, Zenon DEF ForPod, WorkOK, StatefulSteps
  <2>5. instances[k].pod = p /\ instances[k].uid = 0
    BY <2>1, <2>2, <2>3, <2>4, Zenon DEF ForKey, LiveOK
  <2>6. k \in Retained
    BY <2>1, <2>5, Zenon DEF Retained
  <2> QED
    BY <2>1, <2>6 DEF Key, Keys
<1>8. ASSUME allocated = {}, NEW k \in Retained PROVE instances[k].status.Pod # p
  <2>1. k \in DOMAIN instances /\ k \in Keys /\ ~instances[k].deleting
    BY <1>0, Zenon DEF Shape, Retained
  <2>2. instances[k].status.Pod = p => k[1] = NamespaceOf[p]
    BY <2>1, ForOneKey, Zenon DEF ForKey, InstanceOK
  <2> QED
    BY <1>1, <1>8, <2>1, <2>2, Zenon DEF ListAllocatedIPInstancesOfPod
<1>9. ForPod(p)'
  <2>1. StepOK(p)'
    BY <1>0, <1>6, Zenon DEF ForPod, StepOK, Steps, WorkSteps
  <2>2. WorkOK(p)'
    BY <1>0, <1>1, <1>2, <1>6, Zenon DEF ForPod, WorkOK, WorkSteps, HoldSteps, StatefulSteps
  <2>3. podStep'[p].at = "assign" => podStep'[p].ip \in IPs
    BY <1>5, <1>6, <1>7, Zenon DEF Quiet
  <2>4. HoldOK(p)'
    BY <1>6, <2>3, Zenon DEF HoldOK, HoldSteps
  <2>5. RetainOK(p)'
    <3> HIDE DEF allocated
    <3>1. CASE strategy = "retain" /\ podStep'[p].at = "assign" /\ \E k \in allocated : podStep'[p].ip = k[2]
      BY <1>2, <1>7, <3>1, Zenon DEF RetainOK, Retained
    <3>2. CASE strategy = "retain" /\ podStep'[p].at = "allocate" /\ allocated = {}
      BY <1>2, <1>8, <3>2, Zenon DEF RetainOK, Retained
    <3>3. CASE strategy = "preassign"
      BY <1>6, <3>3, Zenon DEF RetainOK
    <3> QED
      BY <1>6, <3>1, <3>2, <3>3, Zenon
  <2> QED
    BY <1>4, <2>1, <2>2, <2>4, <2>5 DEF ForPod
<1> QED
  BY <1>2, <1>3, <1>9, PodSide, Zenon DEF ForPods

\* A reconciler that gives up leaves everything as it is.
LEMMA RetryKeeps ==
    ASSUME MemoryInv, NEW p \in Pods, Goto(p, "retry", {}),
           UNCHANGED <<pods, workload, instances, feed, cache, memory, ipStep, uids, faults, refreshes, crashes>>
    PROVE  MemoryInv'
<1>0. ForPod(p) /\ Shape
  BY ForOnePod
<1>1. Moves({p}) /\ podStep'[p] = Idle
  BY <1>0, GotoMoves, Zenon DEF ForPod
<1>2. ForPod(p)' /\ Counters
  BY <1>0, <1>1, SamePod, IdleForPod, Zenon DEF Counters, Shape
<1> QED
  BY <1>1, <1>2, PodSide, Zenon DEF ForPods

LEMMA FinalizerSet ==
    ASSUME NEW pod, DOMAIN pod = {"uid", "strategy", "ip", "completed", "deleting", "finalizer"},
           NEW v, NEW new, new = [pod EXCEPT !.finalizer = v]
    PROVE  /\ DOMAIN new = DOMAIN pod /\ new.uid = pod.uid /\ new.strategy = pod.strategy /\ new.ip = pod.ip
           /\ new.completed = pod.completed /\ new.deleting = pod.deleting /\ new.finalizer = v
  OBVIOUS

LEMMA AddressSet ==
    ASSUME NEW pod, DOMAIN pod = {"uid", "strategy", "ip", "completed", "deleting", "finalizer"},
           NEW v, NEW new, new = [pod EXCEPT !.ip = v]
    PROVE  /\ DOMAIN new = DOMAIN pod /\ new.uid = pod.uid /\ new.strategy = pod.strategy /\ new.ip = v
           /\ new.completed = pod.completed /\ new.deleting = pod.deleting /\ new.finalizer = pod.finalizer
  OBVIOUS

LEMMA PatchFinalizerKeeps ==
    ASSUME Quiet, MemoryInv, NEW p \in Pods, PatchFinalizer(p)
    PROVE  MemoryInv'
<1>0. ForPod(p) /\ Shape
  BY ForOnePod
<1>1. UNCHANGED <<workload, instances, feed, cache, memory, ipStep, uids, refreshes, crashes>>
  BY DEF PatchFinalizer, ipSide
<1> DEFINE at == podStep[p].at
           patched == p \in DOMAIN pods /\ (at = "finalizer" => ~pods[p].deleting)
<1>2. at \in {"finalizer", "unfinalize"}
  BY DEF PatchFinalizer
<1>3. CASE ~patched
  <2>1. Goto(p, "retry", {}) /\ UNCHANGED <<pods, faults>>
    BY <1>3 DEF PatchFinalizer
  <2> QED
    BY <1>1, <2>1, RetryKeeps, Zenon
<1>4. CASE patched
  <2> DEFINE next == [finalizer |-> "stateful", unfinalize |-> "done"]
  <2>1. /\ pods' = [pods EXCEPT ![p].finalizer = (at = "finalizer")]
        /\ Reply(p, at, next[at], Noticed(p, pods'[p]))
    BY <1>4 DEF PatchFinalizer
  <2>2. Goto(p, next[at], Noticed(p, pods'[p])) /\ faults' = faults
    BY <1>0, <2>1, ReplyGoes
  <2>3. /\ Moves({p})
        /\ at = "unfinalize" => podStep'[p] = Idle
        /\ at = "finalizer" => Goes(p, "stateful")
    <3>1. (at = "unfinalize" => next[at] = "done") /\ (at = "finalizer" => next[at] = "stateful")
      OBVIOUS
    <3> HIDE DEF next
    <3> QED
      BY <1>0, <1>2, <2>2, <3>1, GotoMoves, Zenon DEF ForPod
  <2>4. /\ DOMAIN pods' = DOMAIN pods /\ \A q \in DOMAIN pods \ {p} : pods'[q] = pods[q]
        /\ p \in DOMAIN pods /\ DOMAIN pods[p] = {"uid", "strategy", "ip", "completed", "deleting", "finalizer"}
        /\ pods'[p] = [pods[p] EXCEPT !.finalizer = (at = "finalizer")]
    BY <1>0, <1>4, <2>1, Zenon DEF ForPod, PodOK
  <2>5. /\ DOMAIN pods'[p] = DOMAIN pods[p] /\ pods'[p].uid = pods[p].uid
        /\ pods'[p].strategy = pods[p].strategy /\ pods'[p].ip = pods[p].ip
        /\ pods'[p].completed = pods[p].completed /\ pods'[p].deleting = pods[p].deleting
        /\ pods'[p].finalizer = (at = "finalizer")
    BY <2>4, FinalizerSet, Zenon
  <2>6. PodOK(p)' /\ RunOK(p)'
    <3>1. PodOK(p)'
      BY <1>0, <1>1, <2>4, <2>5 DEF ForPod, PodOK
    <3>2. RunOK(p)'
      BY <1>0, <1>1, <2>4, <2>5 DEF ForPod, RunOK, Running
    <3> QED
      BY <3>1, <3>2
  <2>7. ForPod(p)'
    <3>1. CASE at = "unfinalize"
      BY <2>3, <2>6, <3>1, IdleForPod, Zenon
    <3>2. CASE at = "finalizer"
      <4>1. StepOK(p)'
        BY <1>0, <2>3, <3>2, Zenon DEF ForPod, StepOK, Goes, Steps, WorkSteps
      <4>2. pods'[p].finalizer
        BY <2>5, <3>2, Zenon
      <4>3. OwnByStatefulWorkload(p) /\ workload /\ pods[p].ip = None
        BY <1>0, <2>4, <3>2 DEF ForPod, WorkOK, StatefulSteps
      <4>4. WorkOK(p)'
        BY <1>1, <2>3, <2>4, <2>5, <3>2, <4>2, <4>3 DEF WorkOK, Goes, WorkSteps
      <4>5. HoldOK(p)' /\ RetainOK(p)'
        BY <2>3, <3>2, Zenon DEF HoldOK, RetainOK, Goes, HoldSteps
      <4> QED
        BY <2>6, <4>1, <4>4, <4>5 DEF ForPod
    <3> QED
      BY <1>2, <3>1, <3>2, Zenon
  <2>8. Counters
    BY <1>0, <1>1, <2>2, Zenon DEF Counters, Shape
  <2> QED
    BY <1>1, <2>3, <2>4, <2>7, <2>8, PodSide DEF ForPods
<1> QED
  BY <1>3, <1>4, Zenon

LEMMA ReleaseIPFromPodKeeps ==
    ASSUME Quiet, MemoryInv, NEW p \in Pods, ReleaseIPFromPod(p)
    PROVE  MemoryInv'
<1>0. ForPod(p) /\ Shape
  BY ForOnePod
<1>1. UNCHANGED <<workload, instances, feed, cache, memory, ipStep, uids, refreshes, crashes>>
  BY DEF ReleaseIPFromPod, ipSide
<1> DEFINE next == [unannotate |-> "delete", clear |-> "done", release |-> "unfinalize"]
<1>2. podStep[p].at = "release"
  <2>1. podStep[p].at \in DOMAIN next /\ podStep[p].at \in Steps
    BY <1>0 DEF ReleaseIPFromPod, ForPod, StepOK
  <2> QED
    BY <2>1, Zenon DEF Steps, WorkSteps, HoldSteps, EndSteps
<1>3. CASE p \notin DOMAIN pods
  <2>1. Goto(p, "retry", {}) /\ UNCHANGED <<pods, faults>>
    BY <1>2, <1>3 DEF ReleaseIPFromPod, OnError
  <2> QED
    BY <1>1, <2>1, RetryKeeps, Zenon
<1>4. CASE p \in DOMAIN pods
  <2>1. /\ pods' = [pods EXCEPT ![p].ip = None]
        /\ Reply(p, "release", "unfinalize", Noticed(p, pods'[p]))
    BY <1>2, <1>4 DEF ReleaseIPFromPod
  <2>2. Goto(p, "unfinalize", Noticed(p, pods'[p])) /\ faults' = faults
    BY <1>0, <2>1, ReplyGoes
  <2>3. Moves({p}) /\ Goes(p, "unfinalize")
    BY <1>0, <2>2, GotoGoes, Zenon
  <2>4. /\ DOMAIN pods' = DOMAIN pods /\ \A q \in DOMAIN pods \ {p} : pods'[q] = pods[q]
        /\ DOMAIN pods[p] = {"uid", "strategy", "ip", "completed", "deleting", "finalizer"}
        /\ pods'[p] = [pods[p] EXCEPT !.ip = None]
    BY <1>0, <1>4, <2>1 DEF ForPod, PodOK
  <2>5. /\ DOMAIN pods'[p] = DOMAIN pods[p] /\ pods'[p].uid = pods[p].uid
        /\ pods'[p].strategy = pods[p].strategy /\ pods'[p].ip = None
        /\ pods'[p].completed = pods[p].completed /\ pods'[p].deleting = pods[p].deleting
    BY <2>4, AddressSet, Zenon
  <2>6. PodOK(p)'
    BY <1>0, <1>1, <2>4, <2>5 DEF ForPod, PodOK
  <2>7. RunOK(p)'
    BY <2>5, Zenon DEF RunOK, Running
  <2>8. StepOK(p)' /\ WorkOK(p)' /\ RetainOK(p)'
    BY <1>0, <2>3, Zenon DEF ForPod, StepOK, Goes, Steps, EndSteps, WorkOK, RetainOK, WorkSteps, HoldSteps, StatefulSteps
  <2>9. HoldOK(p)'
    BY <2>3, Zenon DEF HoldOK, HoldSteps, Goes
  <2>10. ForPod(p)' /\ Counters
    BY <1>0, <1>1, <2>2, <2>6, <2>7, <2>8, <2>9, Zenon DEF ForPod, Counters, Shape
  <2> QED
    BY <1>1, <2>3, <2>4, <2>10, PodSide DEF ForPods
<1> QED
  BY <1>3, <1>4

\* The address that a pod is annotated with is its own.
LEMMA PatchIPtoPodKeeps ==
    ASSUME Quiet, MemoryInv, NEW p \in Pods, PatchIPtoPod(p)
    PROVE  MemoryInv'
<1>0. ForPod(p) /\ Shape
  BY ForOnePod
<1>1. UNCHANGED <<workload, instances, feed, cache, memory, ipStep, uids, refreshes, crashes>>
  BY DEF PatchIPtoPod, ipSide
<1> DEFINE at == podStep[p].at
           ip == podStep[p].ip
<1>2. at \in {"annotate", "reannotate"}
  BY DEF PatchIPtoPod
<1>3. /\ p \in DOMAIN pods
      /\ Held(memory, ip, p)
      /\ IF OwnByStatefulWorkload(p) THEN workload ELSE at = "annotate" /\ podStep[p].uid = pods[p].uid
  BY <1>0, <1>2, Zenon DEF ForPod, WorkOK, HoldOK, WorkSteps, HoldSteps, StatefulSteps
<1>4. ~OwnByStatefulWorkload(p) => Backs(instances, ipStep, Key(p, ip), p, pods[p].uid)
  BY <1>0, <1>3, Zenon DEF ForPod, HoldOK
<1>5. pods' = [pods EXCEPT ![p].ip = ip] /\ Reply(p, at, "done", Noticed(p, pods'[p]))
  BY <1>3 DEF PatchIPtoPod
<1>6. Goto(p, "done", Noticed(p, pods'[p])) /\ faults' = faults
  BY <1>0, <1>5, ReplyGoes
<1>7. Moves({p}) /\ podStep'[p] = Idle
  BY <1>0, <1>6, GotoMoves, Zenon DEF ForPod
<1>8. /\ DOMAIN pods' = DOMAIN pods /\ \A q \in DOMAIN pods \ {p} : pods'[q] = pods[q]
      /\ DOMAIN pods[p] = {"uid", "strategy", "ip", "completed", "deleting", "finalizer"}
      /\ pods'[p] = [pods[p] EXCEPT !.ip = ip]
  BY <1>0, <1>3, <1>5 DEF ForPod, PodOK
<1>9. /\ DOMAIN pods'[p] = DOMAIN pods[p] /\ pods'[p].uid = pods[p].uid
      /\ pods'[p].strategy = pods[p].strategy /\ pods'[p].ip = ip
      /\ pods'[p].completed = pods[p].completed /\ pods'[p].deleting = pods[p].deleting
  BY <1>8, AddressSet, Zenon
<1>10. PodOK(p)'
  BY <1>0, <1>1, <1>3, <1>8, <1>9 DEF ForPod, PodOK
<1>11. RunOK(p)'
  BY <1>1, <1>3, <1>4, <1>9, Zenon DEF RunOK
<1>12. ForPod(p)' /\ Counters
  BY <1>0, <1>1, <1>6, <1>7, <1>10, <1>11, IdleForPod, Zenon DEF Counters, Shape
<1> QED
  BY <1>1, <1>7, <1>8, <1>12, PodSide DEF ForPods

(***************************************************************************)
(* The steps of the pod reconciler that write an IPInstance.               *)
(***************************************************************************)
LEMMA HeldBy ==
    ASSUME NEW used, NEW x, NEW p, Held(used, x, p)
    PROVE  x \in DOMAIN used /\ used[x].Pod = p /\ used[x].Status = "Using"
  BY DEF Held

LEMMA OneHolder ==
    ASSUME NEW used, NEW x, NEW p, NEW q, Held(used, x, p), Held(used, x, q)
    PROVE  p = q
<1>1. used[x].Pod = p
  BY HeldBy
<1>2. used[x].Pod = q
  BY HeldBy
<1> QED
  BY <1>1, <1>2

LEMMA KeyOf ==
    ASSUME NEW p \in Pods
    PROVE  /\ \A k \in Keys : k[1] = NamespaceOf[p] => k = Key(p, k[2])
           /\ \A ip \in IPs : Key(p, ip) \in Keys /\ Key(p, ip)[1] = NamespaceOf[p] /\ Key(p, ip)[2] = ip
  BY DEF Keys, Key, Namespaces

LEMMA KeyHas ==
    ASSUME NEW p \in Pods, NEW ip \in IPs
    PROVE  \E k \in Keys : k = Key(p, ip) /\ k[2] = ip /\ k[1] = NamespaceOf[p]
  BY KeyOf

\* An IPInstance is written: the cache misses just that.
LEMMA Written ==
    ASSUME Quiet, MemoryInv, Len(feed) <= MaxLag, NEW k \in Keys, NEW v \in Instance,
           SetInstance(k, v), UNCHANGED <<cache, ipStep>>
    PROVE  /\ CacheOK' /\ OnlyKey(k)
           /\ DOMAIN instances' = DOMAIN instances \cup {k} /\ instances'[k] = v
<1>1. feed = <<>> /\ cache = instances
  BY Synced
<1> DEFINE e == [key |-> k, value |-> v]
<1>2. instances' = With(instances, k, v) /\ feed' = <<e>>
  BY <1>1 DEF SetInstance
<1>3. v # None
  BY PodIPAMAssumption
<1>4. instances' = Applied(cache', e)
  BY <1>1, <1>2, <1>3, Zenon DEF Applied
<1>5. CacheOK'
  BY <1>2, <1>4, Zenon DEF CacheOK
<1>6. DOMAIN ipStep' = Keys
  BY DEF MemoryInv, Shape
<1> QED
  BY <1>2, <1>5, <1>6, Zenon DEF With, OnlyKey

\* If the pod holds the address and has no IPInstance for it, nobody has one that counts.
LEMMA NoneOccupies ==
    ASSUME MemoryInv, NEW p \in Pods, NEW ip, Held(memory, ip, p), Key(p, ip) \notin DOMAIN instances,
           NEW k \in DOMAIN instances, k[2] = ip
    PROVE  ~Occupies(instances, ipStep, workload, k)
<1>1. k \in Keys
  BY Zenon DEF MemoryInv, Shape
<1>2. InstanceOK(k) /\ LiveOK(k)
  BY <1>1, ForOneKey, Zenon DEF ForKey
<1>3. instances[k].pod \in Pods /\ k[1] = NamespaceOf[instances[k].pod]
  BY <1>2, Zenon DEF InstanceOK, Instance
<1>4. ASSUME Occupies(instances, ipStep, workload, k) PROVE FALSE
  <2>1. Held(memory, ip, instances[k].pod)
    BY <1>2, <1>4, Zenon DEF LiveOK
  <2>2. instances[k].pod = p
    BY <2>1, OneHolder, Zenon
  <2> QED
    BY <1>1, <1>3, <2>2, KeyOf
<1> QED
  BY <1>4, Zenon

\* The IPInstance that a reconciler creates.
NewInstance(p) ==
    [pod       |-> p,
     uid       |-> GetKnownOwnReference(p, podStep[p].uid),
     status    |-> [Pod |-> NoPod, Status |-> ""],
     deleting  |-> FALSE,
     finalizer |-> TRUE]

LEMMA NewFields ==
    ASSUME NEW p \in Pods, NEW v, v = NewInstance(p)
    PROVE  /\ v.pod = p /\ v.uid = GetKnownOwnReference(p, podStep[p].uid)
           /\ v.status.Pod = NoPod /\ ~v.deleting /\ v.finalizer
           /\ v.uid \in Nat => v \in Instance
  BY Zenon DEF NewInstance, Instance

LEMMA CreateIPKeeps ==
    ASSUME Quiet, MemoryInv, NEW p \in Pods, Len(feed) <= MaxLag, CreateIP(p)
    PROVE  MemoryInv'
<1>0. ForPod(p) /\ Shape
  BY ForOnePod
<1>1. UNCHANGED <<pods, workload, cache, memory, ipStep, uids, refreshes, crashes>>
  BY Zenon DEF CreateIP, ipSide
<1> DEFINE ip == podStep[p].ip
<1>2. podStep[p].at = "create"
  BY Zenon DEF CreateIP
<1>3. /\ p \in DOMAIN pods /\ pods[p].ip = None /\ ip \in IPs /\ Held(memory, ip, p)
      /\ ~OwnByStatefulWorkload(p) => podStep[p].uid = pods[p].uid
  BY <1>0, <1>2, Zenon DEF ForPod, WorkOK, HoldOK, WorkSteps, HoldSteps
<1>4. PodOK(p)' /\ RunOK(p)'
  BY <1>0, <1>1, <1>3, SamePod, Zenon
<1>5. PICK k \in Keys : k = Key(p, ip) /\ k[2] = ip /\ k[1] = NamespaceOf[p]
  <2>1. ip \in IPs
    BY <1>3, Zenon
  <2> QED
    BY <2>1, KeyHas, Zenon
<1>6. CASE k \in DOMAIN instances
  <2>1. Goto(p, "giveback", {}) /\ UNCHANGED <<instances, feed, faults>>
    BY <1>5, <1>6, Zenon DEF CreateIP
  <2>2. Moves({p}) /\ Goes(p, "giveback")
    BY <1>0, <2>1, GotoGoes, Zenon
  <2>3. StepOK(p)'
    BY <1>0, <2>2, Zenon DEF ForPod, StepOK, Goes, Steps, WorkSteps, HoldSteps
  <2>4. WorkOK(p)' /\ RetainOK(p)'
    BY <1>0, <1>1, <1>2, <2>2, Zenon DEF ForPod, WorkOK, RetainOK, Goes, WorkSteps, HoldSteps, StatefulSteps
  <2>5. HoldOK(p)'
    BY <1>0, <1>1, <1>2, <2>1, <2>2, Zenon DEF ForPod, HoldOK, Goes, HoldSteps
  <2>6. ForPod(p)' /\ Counters
    BY <1>0, <1>1, <1>4, <2>1, <2>3, <2>4, <2>5, Zenon DEF ForPod, Counters, Shape
  <2> QED
    BY <1>1, <2>1, <2>2, <2>6, PodSide, Zenon DEF ForPods
<1>7. CASE k \notin DOMAIN instances
  <2> DEFINE v == NewInstance(p)
  <2>1. SetInstance(k, v) /\ Reply(p, "create", "status", {})
    BY <1>5, <1>7, Zenon DEF CreateIP, NewInstance
  <2>2. Goto(p, "status", {}) /\ faults' = faults
    BY <1>0, <2>1, ReplyGoes
  <2>3. Moves({p}) /\ Goes(p, "status")
    BY <1>0, <2>2, GotoGoes, Zenon
  <2>4. v.uid \in Nat /\ (OwnByStatefulWorkload(p) <=> v.uid = 0)
    <3>1. v.uid = IF OwnByStatefulWorkload(p) THEN 0 ELSE pods[p].uid
      BY <1>3, NewFields, Zenon DEF GetKnownOwnReference
    <3>2. pods[p].uid \in Nat \ {0}
      BY <1>0, <1>3, Zenon DEF ForPod, PodOK
    <3> QED
      BY <3>1, <3>2
  <2>5. /\ v.pod = p /\ v.uid = GetKnownOwnReference(p, podStep[p].uid)
        /\ v.status.Pod = NoPod /\ ~v.deleting /\ v.finalizer /\ v \in Instance
    BY <2>4, NewFields, Zenon
  <2> HIDE DEF v
  <2>6. CacheOK' /\ OnlyKey(k) /\ k \in DOMAIN instances' /\ instances'[k] = v
    BY <1>1, <1>5, <2>1, <2>5, Written, Zenon
  <2>7. ipStep[k] \in {"idle", "get"}
    BY <1>5, <1>7, ForOneKey, Zenon DEF ForKey, LiveOK
  <2>8. ForKey(k)'
    <3>1. \A q \in Pods : q # NoPod
      BY PodIPAMAssumption, Zenon
    <3>2. InstanceOK(k)'
      BY <1>5, <2>5, <2>6, <3>1, Zenon DEF InstanceOK
    <3>3. LiveOK(k)'
      BY <1>1, <1>3, <1>5, <2>4, <2>5, <2>6, <2>7, <3>1, Zenon DEF LiveOK
    <3> QED
      BY <3>2, <3>3 DEF ForKey
  <2>9. ForPod(p)'
    <3>1. StepOK(p)'
      BY <1>0, <2>3, Zenon DEF ForPod, StepOK, Goes, Steps, WorkSteps, HoldSteps
    <3>2. WorkOK(p)' /\ RetainOK(p)'
      BY <1>0, <1>1, <1>2, <2>3, Zenon DEF ForPod, WorkOK, RetainOK, Goes, WorkSteps, HoldSteps, StatefulSteps
    <3>3. Backs(instances', ipStep', k, p, podStep[p].uid)
      BY <1>1, <2>5, <2>6, <2>7, Zenon DEF Backs, Live
    <3>4. HoldOK(p)'
      BY <1>1, <1>3, <1>5, <2>3, <3>3, Zenon DEF HoldOK, Goes, HoldSteps
    <3> QED
      BY <1>4, <3>1, <3>2, <3>4 DEF ForPod
  <2>10. ASSUME NEW q \in Pods \ {p}, podStep[q].at \in {"create", "giveback"} PROVE podStep[q].ip # k[2]
    <3>1. Held(memory, podStep[q].ip, q)
      BY <2>10, ForOnePod, Zenon DEF ForPod, HoldOK, HoldSteps
    <3> QED
      BY <1>3, <1>5, <3>1, OneHolder, Zenon
  <2>11. OccupiesNone({p}, k)
    BY <2>10, Zenon DEF OccupiesNone
  <2>12. StillBacks(k)
    BY <1>7, Zenon DEF StillBacks, Backs, Live
  <2>13. StillRetained({p}, k)
    <3>1. k \notin Retained
      BY <1>7 DEF Retained
    <3>2. \A q \in Pods : instances'[k].status.Pod # q
      BY <2>5, <2>6, PodIPAMAssumption, Zenon
    <3> QED
      BY <3>1, <3>2, Zenon DEF StillRetained
  <2>14. Counters
    BY <1>0, <1>1, <2>2, Zenon DEF Counters, Shape
  <2>15. {p} \in SUBSET Pods /\ ForPods({p})'
    BY <2>9 DEF ForPods
  <2> QED
    BY <1>1, <1>5, <2>3, <2>6, <2>8, <2>11, <2>12, <2>13, <2>14, <2>15, InstanceSide, Zenon
<1> QED
  BY <1>6, <1>7

LEMMA StatusSet ==
    ASSUME NEW i \in Instance, NEW p \in Pods, NEW s \in {"Using", "Reserved"},
           NEW v, v = [i EXCEPT !.status = [Pod |-> p, Status |-> s]]
    PROVE  /\ v.pod = i.pod /\ v.uid = i.uid /\ v.deleting = i.deleting /\ v.finalizer = i.finalizer
           /\ v.status.Pod = p /\ v \in Instance
  BY Zenon DEF Instance

LEMMA PodSet ==
    ASSUME NEW i \in Instance, NEW p \in Pods, NEW v, v = [i EXCEPT !.pod = p]
    PROVE  /\ v.pod = p /\ v.uid = i.uid /\ v.deleting = i.deleting /\ v.finalizer = i.finalizer
           /\ v.status = i.status /\ v \in Instance
  BY Zenon DEF Instance

\* The pod p writes the status of the IPInstance k, which it holds.
WritesStatus(p, k) ==
    /\ CacheOK' /\ OnlyKey(k) /\ k \in DOMAIN instances /\ k \in DOMAIN instances'
    /\ instances'[k] \in Instance /\ instances'[k].status.Pod = p
    /\ instances'[k].pod = instances[k].pod /\ instances'[k].uid = instances[k].uid
    /\ instances'[k].deleting = instances[k].deleting /\ instances'[k].finalizer = instances[k].finalizer

LEMMA StatusWritten ==
    ASSUME Quiet, MemoryInv, NEW p \in Pods, Len(feed) <= MaxLag, NEW k \in Keys, k \in DOMAIN instances,
           NEW s \in {"Using", "Reserved"},
           SetInstance(k, [instances[k] EXCEPT !.status = [Pod |-> p, Status |-> s]]), UNCHANGED <<cache, ipStep>>
    PROVE  WritesStatus(p, k)
<1> DEFINE w == [instances[k] EXCEPT !.status = [Pod |-> p, Status |-> s]]
<1>1. instances[k] \in Instance
  BY ForOneKey DEF ForKey, InstanceOK
<1>2. /\ w.pod = instances[k].pod /\ w.uid = instances[k].uid /\ w.deleting = instances[k].deleting
      /\ w.finalizer = instances[k].finalizer /\ w.status.Pod = p /\ w \in Instance
  BY <1>1, StatusSet
<1>3. SetInstance(k, w)
  OBVIOUS
<1> HIDE DEF w
<1>4. CacheOK' /\ OnlyKey(k) /\ k \in DOMAIN instances' /\ instances'[k] = w
  BY <1>2, <1>3, Written, Zenon
<1> QED
  BY <1>2, <1>4 DEF WritesStatus

LEMMA StatusKeeps ==
    ASSUME MemoryInv, NEW p \in Pods, NEW k \in Keys, WritesStatus(p, k),
           k[1] = NamespaceOf[p], workload => Held(memory, k[2], p),
           Moves({p}), Counters, UNCHANGED <<pods, workload, memory, ipStep>>, ForPod(p)'
    PROVE  MemoryInv'
<1>1. InstanceOK(k) /\ LiveOK(k)
  BY ForOneKey, Zenon DEF ForKey
<1>2. /\ Live(instances', ipStep', k) <=> Live(instances, ipStep, k)
      /\ Occupies(instances', ipStep', workload', k) <=> Occupies(instances, ipStep, workload, k)
  BY Zenon DEF WritesStatus, Occupies, Live
<1>3. ForKey(k)'
  <2>1. InstanceOK(k)'
    BY <1>1, Zenon DEF InstanceOK, WritesStatus
  <2>2. ASSUME workload, Live(instances, ipStep, k) PROVE instances[k].pod = p
    <3>1. Held(memory, k[2], instances[k].pod)
      BY <1>1, <2>2, Zenon DEF LiveOK, Occupies
    <3> QED
      BY <2>2, <3>1, OneHolder, Zenon
  <2>3. LiveOK(k)'
    BY <1>1, <1>2, <2>2, Zenon DEF LiveOK, WritesStatus
  <2> QED
    BY <2>1, <2>3, Zenon DEF ForKey
<1>4. StillBacks(k)
  BY <1>2, Zenon DEF StillBacks, Backs, WritesStatus
<1>5. OccupiesNone({p}, k)
  BY <1>2, Zenon DEF OccupiesNone
<1>6. StillRetained({p}, k)
  <2>1. k \in Retained <=> k \in Retained'
    BY Zenon DEF Retained, WritesStatus
  <2>2. \A q \in Pods \ {p} : instances'[k].status.Pod # q
    BY Zenon DEF WritesStatus
  <2> QED
    BY <2>1, <2>2, Zenon DEF StillRetained
<1>7. {p} \in SUBSET Pods /\ ForPods({p})'
  BY Zenon DEF ForPods
<1>8. CacheOK' /\ OnlyKey(k)
  BY Zenon DEF WritesStatus
<1> QED
  BY <1>3, <1>4, <1>5, <1>6, <1>7, <1>8, InstanceSide, Zenon

\* A reconciler that has lost its IPInstance gives the address back.
LEMMA LostKeeps ==
    ASSUME MemoryInv, NEW p \in Pods, NEW at, at \in {"create", "giveback"},
           podStep[p].at \in {"recouple", "restatus"}, Goto(p, at, {}),
           Key(p, podStep[p].ip) \notin DOMAIN instances,
           UNCHANGED <<pods, workload, instances, feed, cache, memory, ipStep, uids, faults, refreshes, crashes>>,
           at = "create" => podStep[p].at = "recouple"
    PROVE  MemoryInv'
<1>0. ForPod(p) /\ Shape
  BY ForOnePod, Zenon
<1>1. Moves({p}) /\ Goes(p, at)
  BY <1>0, GotoGoes, Zenon
<1>2. /\ p \in DOMAIN pods /\ pods[p].ip = None /\ podStep[p].ip \in IPs /\ Held(memory, podStep[p].ip, p)
      /\ OwnByStatefulWorkload(p) /\ pods[p].finalizer /\ workload
  BY <1>0, Zenon DEF ForPod, WorkOK, HoldOK, WorkSteps, HoldSteps, StatefulSteps
<1>3. \A k \in DOMAIN instances : k[2] = podStep[p].ip => ~Occupies(instances, ipStep, workload, k)
  BY <1>2, NoneOccupies, Zenon
<1>4. PodOK(p)' /\ RunOK(p)'
  BY <1>0, SamePod, Zenon
<1>5. StepOK(p)'
  BY <1>0, <1>1, Zenon DEF ForPod, StepOK, Goes, Steps, WorkSteps, HoldSteps
<1>6. WorkOK(p)'
  BY <1>1, <1>2, Zenon DEF WorkOK, Goes, StatefulSteps
<1>7. HoldOK(p)'
  BY <1>1, <1>2, <1>3, Zenon DEF HoldOK, Goes
<1>8. RetainOK(p)'
  <2>1. podStep[p].at = "recouple" => podStep[p].strategy # "retain"
    BY <1>0, Zenon DEF ForPod, RetainOK, Retained
  <2> QED
    BY <1>1, <2>1, Zenon DEF RetainOK, Goes
<1>9. ForPod(p)' /\ Counters
  BY <1>0, <1>4, <1>5, <1>6, <1>7, <1>8, Zenon DEF ForPod, Counters, Shape
<1> QED
  BY <1>1, <1>9, PodSide, Zenon DEF ForPods

LEMMA UpdateIPStatusKeeps ==
    ASSUME Quiet, MemoryInv, NEW p \in Pods, Len(feed) <= MaxLag, UpdateIPStatus(p)
    PROVE  MemoryInv'
<1>0. ForPod(p) /\ Shape
  BY ForOnePod
<1>1. UNCHANGED <<pods, workload, cache, memory, ipStep, uids, refreshes, crashes>>
  BY DEF UpdateIPStatus, ipSide
<1> DEFINE ip == podStep[p].ip
           at == podStep[p].at
           next == IF at = "status" THEN "annotate" ELSE "reannotate"
<1>2. at \in {"status", "restatus"}
  BY DEF UpdateIPStatus
<1>3. /\ p \in DOMAIN pods /\ pods[p].ip = None /\ ip \in IPs /\ Held(memory, ip, p)
      /\ at = "status" => Backs(instances, ipStep, Key(p, ip), p, podStep[p].uid)
  BY <1>0, <1>2, Zenon DEF ForPod, WorkOK, HoldOK, WorkSteps, HoldSteps
<1>4. PICK k \in Keys : k = Key(p, ip) /\ k[2] = ip /\ k[1] = NamespaceOf[p]
  <2>1. ip \in IPs
    BY <1>3, Zenon
  <2> QED
    BY <2>1, KeyHas, Zenon
<1>5. CASE k \notin DOMAIN instances
  <2>1. at = "restatus"
    BY <1>2, <1>3, <1>4, <1>5, Zenon DEF Backs, Live
  <2>2. Goto(p, "giveback", {}) /\ UNCHANGED <<instances, feed, faults>>
    BY <1>4, <1>5, <2>1 DEF UpdateIPStatus, OnError
  <2> QED
    BY <1>1, <1>4, <1>5, <2>1, <2>2, LostKeeps, Zenon
<1>6. CASE k \in DOMAIN instances
  <2>0. /\ SetInstance(k, [instances[k] EXCEPT !.status = [Pod |-> p, Status |-> "Using"]])
        /\ Reply(p, at, next, {})
    BY <1>4, <1>6 DEF UpdateIPStatus
  <2>1. WritesStatus(p, k) /\ Reply(p, at, next, {})
    BY <1>1, <1>6, <2>0, StatusWritten, Zenon
  <2>2. Goto(p, next, {}) /\ faults' = faults
    BY <1>0, <2>1, ReplyGoes, Zenon
  <2>3. next # "done" /\ next # "retry"
    BY Zenon
  <2>4. Moves({p}) /\ Goes(p, next)
    BY <1>0, <2>2, <2>3, GotoGoes, Zenon
  <2>5. ForPod(p)'
    <3>1. PodOK(p)' /\ RunOK(p)'
      BY <1>0, <1>1, <1>3, SamePod, Zenon
    <3>2. StepOK(p)'
      BY <1>0, <2>4, Zenon DEF ForPod, StepOK, Goes, Steps, WorkSteps, HoldSteps
    <3>3. WorkOK(p)'
      BY <1>0, <1>1, <1>2, <2>4, Zenon DEF ForPod, WorkOK, Goes, WorkSteps, HoldSteps, StatefulSteps
    <3>4. RetainOK(p)'
      BY <2>4, Zenon DEF RetainOK, Goes
    <3>5. at = "status" => Backs(instances', ipStep', k, p, podStep[p].uid)
      BY <1>1, <1>3, <1>4, <2>1, Zenon DEF Backs, Live, WritesStatus
    <3>6. HoldOK(p)'
      BY <1>1, <1>2, <1>3, <1>4, <2>4, <3>5, Zenon DEF HoldOK, Goes, HoldSteps
    <3> QED
      BY <3>1, <3>2, <3>3, <3>4, <3>6, Zenon DEF ForPod
  <2>6. Counters /\ Held(memory, k[2], p)
    BY <1>0, <1>1, <1>3, <1>4, <2>2, Zenon DEF Counters, Shape
  <2> QED
    BY <1>1, <1>4, <2>1, <2>4, <2>5, <2>6, StatusKeeps, Zenon
<1> QED
  BY <1>5, <1>6

LEMMA DoListedKeeps ==
    ASSUME Quiet, MemoryInv, NEW p \in Pods, Len(feed) <= MaxLag, DoListed(p)
    PROVE  MemoryInv'
<1>0. ForPod(p) /\ Shape
  BY ForOnePod
<1>1. UNCHANGED <<pods, workload, cache, memory, ipStep, uids, refreshes, crashes>>
  BY DEF DoListed, ipSide
<1> DEFINE next == [decouple |-> "clear", recycle |-> "allocate", reserve |-> "release"]
           keys == podStep[p].keys
<1>2. podStep[p].at = "reserve"
  <2>1. podStep[p].at \in DOMAIN next /\ podStep[p].at \in Steps
    BY <1>0, Zenon DEF DoListed, ForPod, StepOK
  <2> QED
    BY <2>1, Zenon DEF Steps, WorkSteps, HoldSteps, EndSteps
<1>3. PICK k \in keys :
        IF k \in DOMAIN instances
        THEN /\ IF podStep[p].at = "reserve"
                THEN SetInstance(k, [instances[k] EXCEPT !.status = [Pod |-> p, Status |-> "Reserved"]])
                ELSE DeleteInstance(k)
             /\ \/ /\ podStep' = [podStep EXCEPT ![p].keys = keys \ {k},
                                                 ![p].at = IF keys = {k} THEN next[podStep[p].at] ELSE @]
                   /\ UNCHANGED <<podQueue, faults>>
                \/ /\ faults < MaxFaults
                   /\ faults' = faults + 1
                   /\ Goto(p, "retry", {})
        ELSE Goto(p, "retry", {}) /\ UNCHANGED <<instances, feed, faults>>
  BY Zenon DEF DoListed
<1>4. CASE k \notin DOMAIN instances
  <2>1. Goto(p, "retry", {}) /\ UNCHANGED <<instances, feed, faults>>
    BY <1>3, <1>4
  <2> QED
    BY <1>1, <2>1, RetryKeeps, Zenon
<1>5. CASE k \in DOMAIN instances
  <2>1. /\ k \in Keys /\ k[1] = NamespaceOf[p] /\ OwnByStatefulWorkload(p)
        /\ workload => \A l \in keys : Held(memory, l[2], p)
    BY <1>0, <1>2, <1>5, Zenon DEF ForPod, StepOK, WorkOK, HoldOK, Shape
  <2>2. /\ SetInstance(k, [instances[k] EXCEPT !.status = [Pod |-> p, Status |-> "Reserved"]])
        /\ podStep' = [podStep EXCEPT ![p].keys = keys \ {k},
                                      ![p].at = IF keys = {k} THEN next[podStep[p].at] ELSE @]
        /\ faults' = faults
    <3>1. ~(faults < MaxFaults)
      BY <1>0, NoFaults, Zenon
    <3> HIDE DEF next
    <3> QED
      BY <1>2, <1>3, <1>5, <3>1, Zenon
  <2>3. WritesStatus(p, k)
    BY <1>1, <1>5, <2>1, <2>2, StatusWritten, Zenon
  <2>4. /\ Moves({p}) /\ DOMAIN podStep'[p] = {"at", "uid", "strategy", "ip", "keys"}
        /\ podStep'[p].at \in {"reserve", "release"} /\ podStep'[p].strategy = podStep[p].strategy
        /\ podStep'[p].keys = keys \ {k}
    BY <1>0, <1>2, <2>2 DEF ForPod, StepOK, Shape, Moves
  <2>5. OwnByStatefulWorkload(p) /\ workload' = workload /\ pods' = pods
    BY <1>1, <2>1, Zenon
  <2>6. PodOK(p)'
    BY <1>0, <2>5, SamePod, Zenon
  <2>7. RunOK(p)'
    <3>1. p \in Running' <=> p \in Running
      BY <2>5, Zenon DEF Running
    <3>2. p \in Running => Held(memory, pods[p].ip, p)
      BY <1>0, Zenon DEF ForPod, RunOK
    <3> QED
      BY <1>1, <2>5, <3>1, <3>2, Zenon DEF RunOK
  <2>8. StepOK(p)'
    BY <1>0, <2>4, Zenon DEF ForPod, StepOK, Steps, EndSteps
  <2>9. WorkOK(p)' /\ RetainOK(p)'
    BY <2>1, <2>4, Zenon DEF WorkOK, RetainOK, WorkSteps, HoldSteps, StatefulSteps
  <2>10. HoldOK(p)'
    BY <1>1, <2>1, <2>4, Zenon DEF HoldOK, HoldSteps
  <2>11. ForPod(p)' /\ Counters
    BY <1>0, <1>1, <2>2, <2>6, <2>7, <2>8, <2>9, <2>10 DEF ForPod, Counters, Shape
  <2>12. workload => Held(memory, k[2], p)
    BY <2>1, Zenon
  <2> QED
    BY <1>1, <2>1, <2>3, <2>4, <2>11, <2>12, StatusKeeps, Zenon
<1> QED
  BY <1>4, <1>5, Zenon

\* An IPInstance that counts is that of the pod already.
LEMMA ReCoupleKeeps ==
    ASSUME Quiet, MemoryInv, NEW p \in Pods, Len(feed) <= MaxLag, ReCouple(p)
    PROVE  MemoryInv'
<1>0. ForPod(p) /\ Shape
  BY ForOnePod
<1>1. UNCHANGED <<pods, workload, cache, memory, ipStep, uids, refreshes, crashes>>
  BY DEF ReCouple, ipSide
<1> DEFINE ip == podStep[p].ip
<1>2. podStep[p].at = "recouple" /\ cache = instances
  BY Synced DEF ReCouple
<1>3. /\ p \in DOMAIN pods /\ pods[p].ip = None /\ ip \in IPs /\ Held(memory, ip, p)
      /\ OwnByStatefulWorkload(p)
  BY <1>0, <1>2, Zenon DEF ForPod, WorkOK, HoldOK, WorkSteps, HoldSteps, StatefulSteps
<1>4. PICK k \in Keys : k = Key(p, ip) /\ k[2] = ip /\ k[1] = NamespaceOf[p]
  <2>1. ip \in IPs
    BY <1>3, Zenon
  <2> QED
    BY <2>1, KeyHas, Zenon
<1>5. CASE k \notin DOMAIN instances
  <2>1. Goto(p, "create", {}) /\ UNCHANGED <<instances, feed, faults>>
    BY <1>2, <1>4, <1>5 DEF ReCouple
  <2> QED
    BY <1>1, <1>2, <1>4, <1>5, <2>1, LostKeeps, Zenon
<1>6. CASE k \in DOMAIN instances
  <2> DEFINE w == [instances[k] EXCEPT !.pod = p]
  <2>1. SetInstance(k, w) /\ Reply(p, "recouple", "restatus", {})
    BY <1>2, <1>4, <1>6 DEF ReCouple
  <2>2. Goto(p, "restatus", {}) /\ faults' = faults
    BY <1>0, <2>1, ReplyGoes
  <2>3. Moves({p}) /\ Goes(p, "restatus")
    BY <1>0, <2>2, GotoGoes, Zenon
  <2>4. InstanceOK(k) /\ LiveOK(k)
    BY ForOneKey DEF ForKey
  <2>5. instances[k] \in Instance
    BY <1>6, <2>4, Zenon DEF InstanceOK
  <2>6. /\ w.pod = p /\ w.uid = instances[k].uid /\ w.deleting = instances[k].deleting
        /\ w.finalizer = instances[k].finalizer /\ w.status = instances[k].status /\ w \in Instance
    BY <2>5, PodSet
  <2> HIDE DEF w
  <2>7. CacheOK' /\ OnlyKey(k) /\ k \in DOMAIN instances' /\ instances'[k] = w
    BY <1>1, <2>1, <2>6, Written, Zenon
  <2>17. /\ instances'[k].pod = p /\ instances'[k].uid = instances[k].uid
         /\ instances'[k].deleting = instances[k].deleting /\ instances'[k].finalizer = instances[k].finalizer
         /\ instances'[k].status = instances[k].status /\ instances'[k] \in Instance
    BY <2>6, <2>7, Zenon
  <2>8. Live(instances, ipStep, k) => instances[k].pod = p
    <3>1. Live(instances, ipStep, k) => Held(memory, k[2], instances[k].pod)
      BY <2>4, Zenon DEF LiveOK, Occupies
    <3> QED
      BY <1>3, <1>4, <3>1, OneHolder, Zenon
  <2>9. Live(instances', ipStep', k) <=> Live(instances, ipStep, k)
    BY <1>1, <1>6, <2>7, Zenon DEF Live
  <2>10. ForKey(k)'
    <3>1. InstanceOK(k)'
      BY <1>4, <1>6, <2>4, <2>17, Zenon DEF InstanceOK
    <3>2. Held(memory', k[2], instances'[k].pod)
      BY <1>1, <1>3, <1>4, <2>17, Zenon
    <3>3. LiveOK(k)'
      BY <1>1, <1>6, <2>4, <2>7, <2>8, <2>9, <2>17, <3>2, Zenon DEF LiveOK
    <3> QED
      BY <3>1, <3>3 DEF ForKey
  <2>11. ForPod(p)'
    <3>1. PodOK(p)' /\ RunOK(p)'
      BY <1>0, <1>1, <1>3, SamePod, Zenon
    <3>2. StepOK(p)'
      BY <1>0, <2>3, Zenon DEF ForPod, StepOK, Goes, Steps, WorkSteps, HoldSteps
    <3>3. WorkOK(p)' /\ RetainOK(p)'
      BY <1>0, <1>1, <1>2, <2>3, Zenon DEF ForPod, WorkOK, RetainOK, Goes, WorkSteps, HoldSteps, StatefulSteps
    <3>4. HoldOK(p)'
      BY <1>1, <1>3, <2>3, Zenon DEF HoldOK, Goes, HoldSteps
    <3> QED
      BY <3>1, <3>2, <3>3, <3>4 DEF ForPod
  <2>12. ASSUME NEW q \in Pods \ {p}, podStep[q].at \in {"create", "giveback"} PROVE podStep[q].ip # k[2]
    <3>1. Held(memory, podStep[q].ip, q)
      BY <2>12, ForOnePod, Zenon DEF ForPod, HoldOK, HoldSteps
    <3> QED
      BY <1>3, <1>4, <3>1, OneHolder, Zenon
  <2>13. StillBacks(k)
    BY <2>8, <2>9, <2>17, Zenon DEF StillBacks, Backs
  <2>14. StillRetained({p}, k)
    <3>1. k \in Retained <=> k \in Retained'
      BY <1>6, <2>7, <2>17, Zenon DEF Retained
    <3> QED
      BY <2>17, <3>1, Zenon DEF StillRetained
  <2>18. OccupiesNone({p}, k)
    BY <2>12, Zenon DEF OccupiesNone
  <2>15. {p} \in SUBSET Pods /\ ForPods({p})'
    BY <2>11 DEF ForPods
  <2>16. Counters
    BY <1>0, <1>1, <2>2, Zenon DEF Counters, Shape
  <2> QED
    BY <1>1, <2>3, <2>7, <2>10, <2>13, <2>14, <2>15, <2>16, <2>18, InstanceSide, Zenon
<1> QED
  BY <1>5, <1>6

(***************************************************************************)
(* The steps that use the allocator.                                       *)
(***************************************************************************)
LEMMA AllocateKeeps ==
    ASSUME MemoryInv, NEW p \in Pods, Allocate(p)
    PROVE  MemoryInv'
<1>0. ForPod(p) /\ Shape
  BY ForOnePod
<1>1. UNCHANGED <<pods, workload, instances, feed, cache, ipStep, uids, faults, refreshes, crashes>>
  BY DEF Allocate, api, ipSide, counters
<1>2. podStep[p].at = "allocate"
  BY DEF Allocate
<1>3. CASE Pool!Free = {}
  <2>1. Goto(p, "retry", {}) /\ UNCHANGED memory
    BY <1>3 DEF Allocate
  <2> QED
    BY <1>1, <2>1, RetryKeeps
<1>4. CASE Pool!Free # {}
  <2>1. PICK ip \in Pool!Free :
          /\ Pool!Grant({ip}, p)
          /\ podStep' = [podStep EXCEPT ![p].at = "create", ![p].ip = ip]
    BY <1>4, Zenon DEF Allocate
  <2>2. ip \in IPs /\ ip \notin DOMAIN memory
    BY <2>1 DEF Pool!Free
  <2>3. memory' = [x \in DOMAIN memory \cup {ip} |->
                     IF x \in {ip} THEN [Pod |-> p, Status |-> "Using"] ELSE memory[x]]
    BY <2>1 DEF Pool!Grant, Pool!Give
  <2>4. Held(memory', ip, p) /\ \A q \in Pods : \A x : Held(memory, x, q) => Held(memory', x, q)
    BY <2>2, <2>3, Zenon DEF Held
  <2>5. /\ Moves({p}) /\ DOMAIN podStep'[p] = {"at", "uid", "strategy", "ip", "keys"}
        /\ podStep'[p].at = "create" /\ podStep'[p].ip = ip /\ podStep'[p].uid = podStep[p].uid
        /\ podStep'[p].strategy = podStep[p].strategy /\ podStep'[p].keys = podStep[p].keys
    BY <1>0, <2>1 DEF ForPod, StepOK, Shape, Moves
  <2>6. ASSUME NEW k \in DOMAIN instances, k[2] = ip PROVE ~Occupies(instances, ipStep, workload, k)
    <3>1. k \in Keys
      BY <1>0, Zenon DEF Shape
    <3>2. LiveOK(k)
      BY <3>1, ForOneKey DEF ForKey
    <3> QED
      BY <2>2, <2>6, <3>2, Zenon DEF LiveOK, Held
  <2>7. p \in DOMAIN pods /\ pods[p].ip = None
    BY <1>0, <1>2, Zenon DEF ForPod, WorkOK, WorkSteps
  <2>8. PodOK(p)' /\ RunOK(p)'
    BY <1>0, <1>1, <2>7, SamePod, Zenon
  <2>9. StepOK(p)'
    BY <1>0, <2>5, Zenon DEF ForPod, StepOK, Steps, WorkSteps, HoldSteps
  <2>10. WorkOK(p)'
    BY <1>0, <1>1, <1>2, <2>5, Zenon DEF ForPod, WorkOK, WorkSteps, HoldSteps, StatefulSteps
  <2>11. RetainOK(p)'
    BY <1>0, <1>1, <1>2, <2>5, Zenon DEF ForPod, RetainOK, Retained
  <2>12. HoldOK(p)'
    BY <1>1, <2>2, <2>4, <2>5, <2>6, Zenon DEF HoldOK
  <2>13. ForPod(p)' /\ Counters
    BY <1>0, <1>1, <2>8, <2>9, <2>10, <2>11, <2>12, Zenon DEF ForPod, Counters, Shape
  <2> QED
    BY <1>1, <2>4, <2>5, <2>13, GiveSide, Zenon DEF ForPods, AllHold
<1> QED
  BY <1>3, <1>4

LEMMA AssignKeeps ==
    ASSUME MemoryInv, NEW p \in Pods, Assign(p)
    PROVE  MemoryInv'
<1>0. ForPod(p) /\ Shape
  BY ForOnePod
<1>1. UNCHANGED <<pods, workload, instances, feed, cache, ipStep, uids, faults, refreshes, crashes>>
  BY Zenon DEF Assign, api, ipSide, counters
<1> DEFINE ip == podStep[p].ip
           fits == ip \in DOMAIN memory => memory[ip].Pod = p \/ memory[ip].Status = "Reserved"
<1>2. podStep[p].at = "assign"
  BY Zenon DEF Assign
<1>3. CASE ~fits
  <2>1. Goto(p, "retry", {}) /\ UNCHANGED memory
    BY <1>3, Zenon DEF Assign
  <2> QED
    BY <1>1, <2>1, RetryKeeps, Zenon
<1>4. CASE fits
  <2>1. Pool!Claim({ip}, p) /\ Goto(p, "recouple", {})
    BY <1>4, Zenon DEF Assign
  <2>2. memory' = [x \in DOMAIN memory \cup {ip} |->
                     IF x \in {ip} THEN [Pod |-> p, Status |-> "Using"] ELSE memory[x]]
    BY <2>1, Zenon DEF Pool!Claim, Pool!Give
  <2>3. Held(memory', ip, p)
    BY <2>2, Zenon DEF Held
  <2>4. ASSUME NEW q \in Pods, NEW x, Held(memory, x, q) PROVE Held(memory', x, q)
    <3>1. CASE x # ip
      BY <2>2, <2>4, <3>1, Zenon DEF Held
    <3>2. CASE x = ip
      <4>1. memory[ip].Pod = q /\ memory[ip].Status = "Using" /\ ip \in DOMAIN memory
        BY <2>4, <3>2, HeldBy
      <4>2. q = p
        BY <1>4, <4>1, Zenon
      <4> QED
        BY <2>3, <3>2, <4>2
    <3> QED
      BY <3>1, <3>2
  <2>5. Moves({p}) /\ Goes(p, "recouple")
    BY <1>0, <2>1, GotoGoes
  <2>6. /\ p \in DOMAIN pods /\ pods[p].ip = None /\ ip \in IPs
        /\ OwnByStatefulWorkload(p) /\ pods[p].finalizer /\ workload
    BY <1>0, <1>2, Zenon DEF ForPod, WorkOK, HoldOK, WorkSteps, StatefulSteps
  <2>7. PodOK(p)' /\ RunOK(p)'
    BY <1>0, <1>1, <2>6, SamePod, Zenon
  <2>8. StepOK(p)'
    BY <1>0, <2>5, Zenon DEF ForPod, StepOK, Goes, Steps, WorkSteps, HoldSteps
  <2>9. WorkOK(p)'
    BY <1>1, <2>5, <2>6, Zenon DEF WorkOK, Goes
  <2>10. RetainOK(p)'
    BY <1>0, <1>1, <1>2, <2>5, Zenon DEF ForPod, RetainOK, Retained, Goes
  <2>11. HoldOK(p)'
    BY <2>3, <2>5, <2>6, Zenon DEF HoldOK, Goes
  <2>12. ForPod(p)' /\ Counters
    BY <1>0, <1>1, <2>7, <2>8, <2>9, <2>10, <2>11, Zenon DEF ForPod, Counters, Shape
  <2> QED
    BY <1>1, <2>4, <2>5, <2>12, GiveSide, Zenon DEF ForPods, AllHold
<1> QED
  BY <1>3, <1>4, Zenon

\* The release of one address does not concern the others.
LEMMA YieldHeld ==
    ASSUME NEW ip, Pool!Yield({ip}), NEW q, NEW x, x # ip, Held(memory, x, q)
    PROVE  Held(memory', x, q)
<1>1. memory' = [y \in DOMAIN memory \ ({ip} \ ReservedIPs) |->
                   IF y \in {ip} THEN [memory[y] EXCEPT !.Status = "Reserved"] ELSE memory[y]]
  BY DEF Pool!Yield
<1> QED
  BY <1>1 DEF Held

LEMMA GiveBackKeeps ==
    ASSUME MemoryInv, NEW p \in Pods, GiveBack(p)
    PROVE  MemoryInv'
<1>0. ForPod(p) /\ Shape
  BY ForOnePod
<1>1. UNCHANGED <<pods, workload, instances, feed, cache, ipStep, uids, faults, refreshes, crashes>>
  BY Zenon DEF GiveBack, api, ipSide, counters
<1>2. PICK ip : ip = podStep[p].ip
  OBVIOUS
<1>3. podStep[p].at = "giveback" /\ Pool!Yield({ip}) /\ Goto(p, "retry", {})
  BY <1>2, Zenon DEF GiveBack
<1>4. Moves({p}) /\ podStep'[p] = Idle
  BY <1>0, <1>3, GotoMoves, Zenon DEF ForPod
<1>5. /\ p \in DOMAIN pods /\ pods[p].ip = None /\ Held(memory, ip, p)
      /\ \A k \in DOMAIN instances : k[2] = ip => ~Occupies(instances, ipStep, workload, k)
  BY <1>0, <1>2, <1>3, Zenon DEF ForPod, WorkOK, HoldOK, WorkSteps, HoldSteps
<1>6. ForPod(p)'
  BY <1>0, <1>1, <1>4, <1>5, SamePod, IdleForPod, Zenon
<1>7. \A q \in Pods : \A x : x # ip /\ Held(memory, x, q) => Held(memory', x, q)
  BY <1>3, YieldHeld, Zenon
<1>8. ASSUME NEW q \in Pods \ {p}
      PROVE  /\ podStep[q].at \in HoldSteps => podStep[q].ip # ip
             /\ podStep[q].at = "reserve" /\ workload => \A k \in podStep[q].keys : k[2] # ip
  <2>1. /\ podStep[q].at \in HoldSteps => Held(memory, podStep[q].ip, q)
        /\ podStep[q].at = "reserve" /\ workload => \A k \in podStep[q].keys : Held(memory, k[2], q)
    BY ForOnePod, Zenon DEF ForPod, HoldOK
  <2> QED
    BY <1>5, <2>1, OneHolder, Zenon
<1>9. ASSUME NEW q \in Running PROVE pods[q].ip # ip
  <2>1. q \in Pods /\ pods[q].ip # None
    BY <1>0, Zenon DEF Running, Shape
  <2>2. Held(memory, pods[q].ip, q)
    BY <2>1, ForOnePod, Zenon DEF ForPod, RunOK
  <2> QED
    BY <1>5, <2>1, <2>2, OneHolder, Zenon
<1>10. ASSUME NEW k \in Keys, k[2] = ip PROVE ~Occupies(instances', ipStep', workload', k)
  BY <1>1, <1>5, <1>10, Zenon DEF Occupies, Live
<1>11. DOMAIN ipStep' = Keys /\ ipStep' = ipStep /\ Counters
  BY <1>0, <1>1, Zenon DEF Shape, Counters
<1>13. UnbindsAt(ip) /\ OthersHold(ip) /\ OccupiedByNone(ip)
  BY <1>7, <1>10, <1>11, Zenon DEF UnbindsAt, OthersHold, OccupiedByNone
<1>14. UsedByNone({p}, ip)
  BY <1>8, <1>9, Zenon DEF UsedByNone
<1>12. {p} \in SUBSET Pods /\ ForPods({p})'
  BY <1>6 DEF ForPods
<1> QED
  BY <1>1, <1>4, <1>11, <1>12, <1>13, <1>14, YieldSide, Zenon

(***************************************************************************)
(* The garbage collector and the IPInstance reconciler.                    *)
(***************************************************************************)
LEMMA NobodyMoves ==
    ASSUME MemoryInv, podStep' = podStep
    PROVE  Moves({}) /\ {} \in SUBSET Pods /\ ForPods({})'
  BY Zenon DEF MemoryInv, Shape, Moves, ForPods

LEMMA Marked ==
    ASSUME NEW i \in Instance, NEW v, v = [i EXCEPT !.deleting = TRUE]
    PROVE  /\ v.pod = i.pod /\ v.uid = i.uid /\ v.finalizer = i.finalizer /\ v.status = i.status
           /\ v.deleting /\ v \in Instance
  BY Zenon DEF Instance

\* What is collected is needed by nobody.
LEMMA CollectGarbageKeeps ==
    ASSUME Quiet, MemoryInv, NEW k \in Keys, Len(feed) <= MaxLag, CollectGarbage(k)
    PROVE  MemoryInv'
<1>0. InstanceOK(k) /\ LiveOK(k) /\ Shape
  BY ForOneKey DEF ForKey
<1>1. /\ UNCHANGED <<pods, workload, cache, memory, podStep, ipStep, uids, faults, refreshes, crashes>>
      /\ k \in DOMAIN instances /\ ~instances[k].deleting
      /\ IF instances[k].uid = 0 THEN ~workload ELSE \A p \in DOMAIN pods : pods[p].uid # instances[k].uid
  BY Zenon DEF CollectGarbage, podSide, ipSide, counters
<1> DEFINE w == [instances[k] EXCEPT !.deleting = TRUE]
<1>2. SetInstance(k, w)
  BY <1>0, <1>1 DEF CollectGarbage, DeleteInstance, InstanceOK
<1>3. /\ w.pod = instances[k].pod /\ w.uid = instances[k].uid /\ w.finalizer = instances[k].finalizer
      /\ w.status = instances[k].status /\ w.deleting /\ w \in Instance
  BY <1>0, <1>1, Marked DEF InstanceOK
<1> HIDE DEF w
<1>4. CacheOK' /\ OnlyKey(k) /\ k \in DOMAIN instances' /\ instances'[k] = w
  BY <1>1, <1>2, <1>3, Written, Zenon
<1>5. /\ Live(instances', ipStep', k) <=> Live(instances, ipStep, k)
      /\ Occupies(instances', ipStep', workload', k) <=> Occupies(instances, ipStep, workload, k)
  BY <1>1, <1>3, <1>4, Zenon DEF Occupies, Live
<1>6. ForKey(k)'
  <2>1. InstanceOK(k)'
    BY <1>0, <1>1, <1>3, <1>4, Zenon DEF InstanceOK
  <2>2. LiveOK(k)'
    BY <1>0, <1>1, <1>3, <1>4, <1>5, Zenon DEF LiveOK
  <2> QED
    BY <2>1, <2>2 DEF ForKey
<1>7. ASSUME NEW q \in Pods, NEW uid, Needed(q, uid), Backs(instances, ipStep, k, q, uid) PROVE FALSE
  <2>1. OwnByStatefulWorkload(q) <=> instances[k].uid = 0
    BY <1>0, <1>7, Zenon DEF LiveOK, Backs
  <2>2. CASE OwnByStatefulWorkload(q)
    BY <1>1, <1>7, <2>1, <2>2, Zenon DEF Needed
  <2>3. CASE ~OwnByStatefulWorkload(q)
    BY <1>1, <1>7, <2>1, <2>3, Zenon DEF Needed, Backs, GetKnownOwnReference
  <2> QED
    BY <2>2, <2>3
<1>8. StillRetained({}, k)
  <2>1. (k \in Retained => ~workload) /\ k \notin Retained'
    BY <1>1, <1>3, <1>4, Zenon DEF Retained
  <2> QED
    BY <2>1, Zenon DEF StillRetained
<1>11. StillBacks(k)
  BY <1>7 DEF StillBacks
<1>12. OccupiesNone({}, k)
  BY <1>5, Zenon DEF OccupiesNone
<1>9. Counters
  BY <1>0, <1>1, Zenon DEF Counters, Shape
<1>10. Moves({}) /\ {} \in SUBSET Pods /\ ForPods({})'
  BY <1>1, NobodyMoves, Zenon
<1> QED
  BY <1>1, <1>4, <1>6, <1>8, <1>9, <1>10, <1>11, <1>12, InstanceSide, Zenon

\* The IPInstance reconciler looks, and finds nothing to do.
LEMMA LookKeeps ==
    ASSUME MemoryInv, NEW k \in Keys, NEW s \in {"idle", "get"}, ipStep[k] # "unbind",
           ipStep' = [ipStep EXCEPT ![k] = s],
           UNCHANGED <<pods, workload, instances, feed, cache, memory, podStep, uids, faults, refreshes, crashes>>
    PROVE  MemoryInv'
<1>0. InstanceOK(k) /\ LiveOK(k) /\ Shape
  BY ForOneKey, Zenon DEF ForKey
<1>1. ipStep'[k] = s /\ OnlyKey(k)
  BY <1>0, Zenon DEF Shape, OnlyKey
<1>2. /\ Live(instances', ipStep', k) <=> Live(instances, ipStep, k)
      /\ Occupies(instances', ipStep', workload', k) <=> Occupies(instances, ipStep, workload, k)
  BY <1>1, Zenon DEF Occupies, Live
<1>3. ForKey(k)'
  <2>1. InstanceOK(k)'
    BY <1>0, Zenon DEF InstanceOK
  <2>2. LiveOK(k)'
    BY <1>0, <1>1, <1>2, Zenon DEF LiveOK
  <2> QED
    BY <2>1, <2>2, Zenon DEF ForKey
<1>4. StillBacks(k)
  BY <1>2, Zenon DEF StillBacks, Backs
<1>5. CacheOK' /\ StillRetained({}, k) /\ OccupiesNone({}, k)
  <2>1. CacheOK' /\ Retained' = Retained
    BY Zenon DEF MemoryInv, CacheOK, Retained
  <2> QED
    BY <1>2, <2>1, Zenon DEF StillRetained, OccupiesNone
<1>6. Counters
  BY <1>0, Zenon DEF Counters, Shape
<1>7. Moves({}) /\ {} \in SUBSET Pods /\ ForPods({})'
  BY NobodyMoves, Zenon
<1> QED
  BY <1>1, <1>3, <1>4, <1>5, <1>6, <1>7, InstanceSide, Zenon

LEMMA StartIPKeeps ==
    ASSUME MemoryInv, NEW k \in Keys, StartIP(k)
    PROVE  MemoryInv'
  BY LookKeeps, Zenon DEF StartIP, api, podSide, counters

\* The address of a terminating IPInstance is not in use any more.
LEMMA ReconcileIPKeeps ==
    ASSUME Quiet, MemoryInv, NEW k \in Keys, Len(feed) <= MaxLag, ReconcileIP(k)
    PROVE  MemoryInv'
<1>0. InstanceOK(k) /\ LiveOK(k) /\ Shape
  BY ForOneKey DEF ForKey
<1>1. /\ UNCHANGED <<pods, workload, instances, feed, cache, podStep, uids, faults, refreshes, crashes>>
      /\ ipStep[k] = "get" /\ cache = instances
  BY Synced, Zenon DEF ReconcileIP, api, podSide, counters
<1>2. CASE ~(k \in DOMAIN instances /\ instances[k].deleting)
  <2>1. UNCHANGED memory /\ ipStep' = [ipStep EXCEPT ![k] = "idle"]
    BY <1>1, <1>2, Zenon DEF ReconcileIP
  <2> QED
    BY <1>1, <2>1, LookKeeps, Zenon
<1>3. CASE k \in DOMAIN instances /\ instances[k].deleting
  <2>1. PICK ip : ip = k[2]
    OBVIOUS
  <2>2. PICK p : p = instances[k].pod
    OBVIOUS
  <2>3. Pool!Yield({ip}) /\ ipStep' = [ipStep EXCEPT ![k] = "unbind"]
    BY <1>1, <1>3, <2>1, Zenon DEF ReconcileIP
  <2>4. Live(instances, ipStep, k) /\ Occupies(instances, ipStep, workload, k)
    BY <1>1, <1>3, Zenon DEF Occupies, Live
  <2>5. /\ p \in Pods /\ k[1] = NamespaceOf[p] /\ k = Key(p, ip)
    BY <1>0, <1>3, <2>1, <2>2, KeyOf, Zenon DEF InstanceOK, Instance
  <2>6. Held(memory, ip, p) /\ (OwnByStatefulWorkload(p) => ~workload)
    BY <1>0, <1>3, <2>1, <2>2, <2>4, Zenon DEF LiveOK
  <2>7. ASSUME NEW q \in Pods, podStep[q].at \in HoldSteps PROVE podStep[q].ip # ip
    <3>1. SUFFICES ASSUME podStep[q].ip = ip PROVE FALSE
      OBVIOUS
    <3>2. ForPod(q)
      BY ForOnePod
    <3>3. Held(memory, ip, q)
      BY <2>7, <3>1, <3>2, Zenon DEF ForPod, HoldOK
    <3>4. q = p
      BY <2>6, <3>3, OneHolder
    <3>5. ~OwnByStatefulWorkload(q)
      BY <2>6, <2>7, <3>2, <3>4, Zenon DEF ForPod, WorkOK, WorkSteps
    <3>6. podStep[q].at \in {"create", "giveback", "status", "annotate"}
      BY <2>7, <3>2, <3>5, Zenon DEF ForPod, WorkOK, StatefulSteps, HoldSteps
    <3>7. CASE podStep[q].at \in {"create", "giveback"}
      BY <1>3, <2>1, <2>4, <3>1, <3>2, <3>7, Zenon DEF ForPod, HoldOK
    <3>8. CASE podStep[q].at \in {"status", "annotate"}
      BY <1>3, <2>5, <3>1, <3>2, <3>4, <3>8, Zenon DEF ForPod, HoldOK, Backs
    <3> QED
      BY <3>6, <3>7, <3>8, Zenon
  <2>8. ASSUME NEW q \in Running PROVE pods[q].ip # ip
    <3>1. SUFFICES ASSUME pods[q].ip = ip PROVE FALSE
      OBVIOUS
    <3>2. q \in Pods /\ (OwnByStatefulWorkload(q) => workload)
      BY <1>0, Zenon DEF Running, Shape
    <3>3. RunOK(q)
      BY <3>2, ForOnePod DEF ForPod
    <3>4. q = p
      BY <2>6, <3>1, <3>3, OneHolder, Zenon DEF RunOK
    <3>5. Backs(instances, ipStep, k, p, pods[q].uid)
      BY <2>5, <2>6, <3>1, <3>2, <3>3, <3>4, Zenon DEF RunOK
    <3> QED
      BY <1>3, <3>5 DEF Backs
  <2>9. ASSUME NEW q \in Pods, podStep[q].at = "reserve", workload, NEW l \in podStep[q].keys PROVE l[2] # ip
    <3>1. Held(memory, l[2], q) /\ OwnByStatefulWorkload(q)
      BY <2>9, ForOnePod, Zenon DEF ForPod, HoldOK, WorkOK
    <3> QED
      BY <2>6, <2>9, <3>1, OneHolder, Zenon
  <2>10. ipStep'[k] = "unbind" /\ DOMAIN ipStep' = Keys /\ \A l \in Keys \ {k} : ipStep'[l] = ipStep[l]
    BY <1>0, <2>3, Zenon DEF Shape
  <2>11. ASSUME NEW l \in Keys, l[2] = ip PROVE ~Occupies(instances', ipStep', workload', l)
    <3>1. CASE l = k
      BY <1>1, <2>2, <2>6, <2>10, <3>1, Zenon DEF Occupies, Live
    <3>2. CASE l # k
      <4>1. SUFFICES ASSUME Occupies(instances', ipStep', workload', l) PROVE FALSE
        OBVIOUS
      <4>2. Occupies(instances, ipStep, workload, l)
        BY <1>1, <2>10, <3>2, <4>1, Zenon DEF Occupies, Live
      <4>3. l \in DOMAIN instances /\ InstanceOK(l) /\ LiveOK(l)
        BY <4>2, ForOneKey, Zenon DEF ForKey, Occupies, Live
      <4>4. Held(memory, ip, instances[l].pod) /\ l[1] = NamespaceOf[instances[l].pod]
        BY <2>11, <4>2, <4>3, Zenon DEF InstanceOK, LiveOK
      <4>5. instances[l].pod = p
        BY <2>6, <4>4, OneHolder, Zenon
      <4> QED
        BY <2>5, <2>11, <3>2, <4>4, <4>5, KeyOf, Zenon
    <3> QED
      BY <3>1, <3>2
  <2>12. \A q \in Pods : \A x : x # ip /\ Held(memory, x, q) => Held(memory', x, q)
    BY <2>3, YieldHeld, Zenon
  <2>13. ASSUME NEW l \in Keys, ipStep'[l] # ipStep[l]
         PROVE  ipStep'[l] = "unbind" /\ Live(instances, ipStep, l) /\ instances[l].deleting /\ l[2] = ip
    BY <1>3, <2>1, <2>4, <2>10, <2>13, Zenon
  <2>14. Counters
    BY <1>0, <1>1, Zenon DEF Counters, Shape
  <2>16. UnbindsAt(ip)
    BY <2>10, <2>13, Zenon DEF UnbindsAt
  <2>17. OthersHold(ip) /\ OccupiedByNone(ip)
    BY <2>11, <2>12, Zenon DEF OthersHold, OccupiedByNone
  <2>18. UsedByNone({}, ip)
    BY <2>7, <2>8, <2>9, Zenon DEF UsedByNone
  <2>15. Moves({}) /\ {} \in SUBSET Pods /\ ForPods({})'
    BY <1>1, NobodyMoves, Zenon
  <2> QED
    BY <1>1, <2>14, <2>15, <2>16, <2>17, <2>18, YieldSide, Zenon
<1> QED
  BY <1>2, <1>3

LEMMA IPUnBindKeeps ==
    ASSUME Quiet, MemoryInv, NEW k \in Keys, Len(feed) <= MaxLag, IPUnBind(k)
    PROVE  MemoryInv'
<1>0. InstanceOK(k) /\ LiveOK(k) /\ Shape
  BY ForOneKey DEF ForKey
<1>1. /\ UNCHANGED <<pods, workload, cache, memory, podStep, uids, refreshes, crashes>>
      /\ ipStep[k] = "unbind"
  BY DEF IPUnBind, podSide
<1>2. k \in DOMAIN instances /\ instances[k].deleting
  BY <1>0, <1>1, Zenon DEF LiveOK
<1>3. RemoveInstance(k) /\ DoneIP(k, FALSE) /\ faults' = faults
  <2>1. ~(faults < MaxFaults)
    BY <1>0, NoFaults
  <2> QED
    BY <1>2, <2>1, Zenon DEF IPUnBind
<1>4. feed = <<>> /\ cache = instances
  BY Synced
<1> DEFINE e == [key |-> k, value |-> None]
<1>5. instances' = Without(instances, k) /\ feed' = <<e>> /\ ipStep' = [ipStep EXCEPT ![k] = "idle"]
  BY <1>3, <1>4 DEF RemoveInstance, DoneIP
<1>6. CacheOK'
  <2>1. instances' = Applied(cache', e)
    BY <1>1, <1>4, <1>5, Zenon DEF Applied
  <2> QED
    BY <1>5, <2>1, Zenon DEF CacheOK
<1>7. OnlyKey(k) /\ k \notin DOMAIN instances' /\ ipStep'[k] = "idle"
  BY <1>0, <1>5, Zenon DEF OnlyKey, Without, Shape
<1>8. ForKey(k)' /\ ~Occupies(instances', ipStep', workload', k)
  BY <1>7, Zenon DEF ForKey, InstanceOK, LiveOK, Live, Occupies
<1>9. StillBacks(k) /\ OccupiesNone({}, k)
  BY <1>1, <1>8, Zenon DEF StillBacks, Backs, Live, OccupiesNone
<1>10. StillRetained({}, k)
  <2>1. k \notin Retained /\ k \notin Retained'
    BY <1>2, <1>7, Zenon DEF Retained
  <2> QED
    BY <2>1, Zenon DEF StillRetained
<1>11. Counters
  BY <1>0, <1>1, <1>3, Zenon DEF Counters, Shape
<1>12. Moves({}) /\ {} \in SUBSET Pods /\ ForPods({})'
  BY <1>1, NobodyMoves, Zenon
<1> QED
  BY <1>1, <1>6, <1>7, <1>8, <1>9, <1>10, <1>11, <1>12, InstanceSide, Zenon

(***************************************************************************)
(* The invariant, and what follows from it.                                *)
(***************************************************************************)
\* Steps that take a failure, a completed pod, a refresh or a restart.
LEMMA NotWhenQuiet ==
    ASSUME Quiet, MemoryInv
    PROVE  /\ \A p \in Pods : ~CompletePod(p) /\ ~DeleteIP(p) /\ ~CallFails(p)
           /\ \A k \in Keys : ~UnBindFails(k)
           /\ ~Refresh /\ ~Crash
<1>1. ~(faults < MaxFaults) /\ ~(refreshes < MaxRefreshes) /\ ~(crashes < MaxCrashes) /\ ~MayComplete
  BY DEF Quiet, MemoryInv, Shape
<1>2. ASSUME NEW p \in Pods PROVE podStep[p].at # "delete"
  <2>1. podStep[p].at \in Steps
    BY ForOnePod, Zenon DEF ForPod, StepOK
  <2> QED
    BY <2>1, Zenon DEF Steps, WorkSteps, HoldSteps, EndSteps
<1> QED
  BY <1>1, <1>2, Zenon DEF CompletePod, DeleteIP, CallFails, UnBindFails, Refresh, Crash

LEMMA MemoryNext ==
    ASSUME Quiet, MemoryInv, [Next]_vars
    PROVE  MemoryInv'
<1>1. CASE UNCHANGED vars \/ Deliver
  BY <1>1, SilentKeeps
<1>2. CASE Len(feed) <= MaxLag /\ \E p \in Pods : Cluster(p) \/ PodWork(p) \/ CallFails(p)
  <2>1. PICK p \in Pods : Cluster(p) \/ PodWork(p)
    BY <1>2, NotWhenQuiet
  <2>2. CASE Cluster(p)
    BY <2>2, CreatePodKeeps, SilentKeeps, NotWhenQuiet, DeletePodKeeps, RemovePodKeeps, Zenon DEF Cluster
  <2>3. CASE PodWork(p)
    <3>1. CASE StartPod(p) \/ Allocate(p) \/ CreateIP(p) \/ UpdateIPStatus(p) \/ PatchIPtoPod(p)
      BY <1>2, <3>1, StartPodKeeps, AllocateKeeps, CreateIPKeeps, UpdateIPStatusKeeps, PatchIPtoPodKeeps, Zenon
    <3>2. CASE ReleaseIPFromPod(p) \/ DeleteIP(p) \/ GiveBack(p) \/ DoListed(p)
      BY <1>2, <3>2, ReleaseIPFromPodKeeps, NotWhenQuiet, GiveBackKeeps, DoListedKeeps, Zenon
    <3>3. CASE PatchFinalizer(p) \/ StatefulAllocate(p) \/ Assign(p) \/ ReCouple(p)
      BY <1>2, <3>3, PatchFinalizerKeeps, StatefulAllocateKeeps, AssignKeeps, ReCoupleKeeps, Zenon
    <3> QED
      BY <2>3, <3>1, <3>2, <3>3, Zenon DEF PodWork
  <2> QED
    BY <2>1, <2>2, <2>3
<1>3. CASE Len(feed) <= MaxLag /\ \E k \in Keys : CollectGarbage(k) \/ IPWork(k) \/ UnBindFails(k)
  <2>1. PICK k \in Keys : CollectGarbage(k) \/ StartIP(k) \/ ReconcileIP(k) \/ IPUnBind(k)
    BY <1>3, NotWhenQuiet, Zenon DEF IPWork
  <2> QED
    BY <1>3, <2>1, CollectGarbageKeeps, StartIPKeeps, ReconcileIPKeeps, IPUnBindKeeps, Zenon
<1>4. CASE DeleteWorkload
  BY <1>4, DeleteWorkloadKeeps
<1> QED
  BY <1>1, <1>2, <1>3, <1>4, NotWhenQuiet, Zenon DEF Next

\* The invariant holds in every state, whatever the pods, their namespaces and the addresses are.
THEOREM MemoryInvariant ==
    ASSUME Quiet
    PROVE  Spec => []MemoryInv
<1>1. Init => MemoryInv
  BY MemoryInit
<1>2. MemoryInv /\ [Next]_vars => MemoryInv'
  BY MemoryNext
<1> QED
  BY <1>1, <1>2, PTL DEF Spec

\* No two running pods have the same address, in one namespace or in several: the allocator, which
\* releases an address only when its IPInstance is gone for good, is what keeps them apart.
THEOREM MemoryKeepsApart ==
    ASSUME Quiet
    PROVE  Spec => []NoDuplicateAddress
<1>1. ASSUME MemoryInv PROVE NoDuplicateAddress
  <2>1. ASSUME NEW p \in Running PROVE Held(memory, pods[p].ip, p)
    <3>1. p \in Pods
      BY <1>1, Zenon DEF MemoryInv, Shape, Running
    <3> QED
      BY <1>1, <3>1, ForOnePod, Zenon DEF ForPod, RunOK
  <2> QED
    BY <2>1, OneHolder, Zenon DEF NoDuplicateAddress
<1> QED
  BY <1>1, MemoryInvariant, PTL

\* The allocator counts the address of every running pod, and every retained one, as used.
THEOREM MemoryCovers ==
    ASSUME Quiet
    PROVE  Spec => []MemoryCoversPods
<1>1. ASSUME MemoryInv PROVE MemoryCoversPods
  <2>1. ASSUME NEW p \in Running PROVE pods[p].ip \in DOMAIN memory
    <3>1. p \in Pods
      BY <1>1, Zenon DEF MemoryInv, Shape, Running
    <3> QED
      BY <1>1, <3>1, ForOnePod, Zenon DEF ForPod, RunOK, Held
  <2>2. ASSUME NEW k \in Retained PROVE k[2] \in DOMAIN memory
    <3>1. k \in DOMAIN instances /\ ~instances[k].deleting /\ k \in Keys
      BY <1>1, Zenon DEF MemoryInv, Shape, Retained
    <3>2. LiveOK(k)
      BY <1>1, <3>1, ForOneKey DEF ForKey
    <3>3. Occupies(instances, ipStep, workload, k)
      BY <3>1, <3>2, Zenon DEF LiveOK, Occupies, Live
    <3> QED
      BY <3>2, <3>3, Zenon DEF LiveOK, Held
  <2> QED
    BY <2>1, <2>2, Zenon DEF MemoryCoversPods
<1> QED
  BY <1>1, MemoryInvariant, PTL

\* The IPInstances stay, and with them who owns them and whether they are terminating.
SameLives ==
    /\ DOMAIN instances' = DOMAIN instances
    /\ \A k \in DOMAIN instances : instances'[k].uid = instances[k].uid /\ instances'[k].deleting = instances[k].deleting

LEMMA SameLivesRetain ==
    ASSUME SameLives
    PROVE  Retention
  BY Zenon DEF SameLives, Retention, Retained

LEMMA WriteLives ==
    ASSUME NEW k, NEW v, SetInstance(k, v), k \in DOMAIN instances,
           v.uid = instances[k].uid, v.deleting = instances[k].deleting
    PROVE  SameLives
  BY Zenon DEF SetInstance, With, SameLives

LEMMA CreateIPRetains ==
    ASSUME MemoryInv, NEW p \in Pods, CreateIP(p)
    PROVE  Retention
<1>0. ForPod(p) /\ Shape /\ podStep[p].at = "create"
  BY ForOnePod, Zenon DEF CreateIP
<1> DEFINE k == Key(p, podStep[p].ip)
<1>1. CASE k \in DOMAIN instances
  BY <1>1, SameLivesRetain, Zenon DEF CreateIP, SameLives
<1>2. CASE k \notin DOMAIN instances
  <2> DEFINE v == NewInstance(p)
  <2>1. instances' = With(instances, k, v)
    BY <1>2, Zenon DEF CreateIP, SetInstance, NewInstance
  <2>2. v.pod = p
    BY NewFields, Zenon
  <2> HIDE DEF k, v
  <2>3. /\ DOMAIN instances' = DOMAIN instances \cup {k} /\ instances'[k] = v
        /\ \A l \in DOMAIN instances : instances'[l] = instances[l]
    BY <1>2, <2>1 DEF With
  <2>4. podStep[p].strategy = "retain" => \A l \in Retained : instances[l].status.Pod # p
    BY <1>0, Zenon DEF ForPod, RetainOK
  <2>5. Retained \subseteq Retained'
    BY <2>3, Zenon DEF Retained
  <2> QED
    BY <2>2, <2>3, <2>4, <2>5, Zenon DEF Retention
<1> QED
  BY <1>1, <1>2

LEMMA PodWorkRetains ==
    ASSUME Quiet, MemoryInv, Len(feed) <= MaxLag, NEW p \in Pods, PodWork(p)
    PROVE  Retention
<1>0. ForPod(p) /\ Shape
  BY ForOnePod
<1>1. CASE CreateIP(p)
  BY <1>1, CreateIPRetains
<1>2. CASE StartPod(p) \/ Allocate(p) \/ PatchIPtoPod(p) \/ ReleaseIPFromPod(p) \/ GiveBack(p)
              \/ PatchFinalizer(p) \/ StatefulAllocate(p) \/ Assign(p)
  <2>1. instances' = instances
    BY <1>2, Zenon DEF StartPod, Allocate, PatchIPtoPod, ReleaseIPFromPod, GiveBack, PatchFinalizer, StatefulAllocate, Assign, api
  <2> QED
    BY <2>1, SameLivesRetain DEF SameLives
<1>3. ASSUME NEW k \in DOMAIN instances PROVE instances[k] \in Instance
  <2>1. k \in Keys
    BY <1>0, Zenon DEF Shape
  <2> QED
    BY <2>1, ForOneKey, Zenon DEF ForKey, InstanceOK
<1>4. CASE UpdateIPStatus(p)
  <2> DEFINE k == Key(p, podStep[p].ip)
             w == [instances[k] EXCEPT !.status = [Pod |-> p, Status |-> "Using"]]
  <2>1. CASE k \notin DOMAIN instances
    BY <1>4, <2>1, SameLivesRetain DEF UpdateIPStatus, SameLives
  <2>2. CASE k \in DOMAIN instances
    <3>1. SetInstance(k, w)
      BY <1>4, <2>2, Zenon DEF UpdateIPStatus
    <3>2. w.uid = instances[k].uid /\ w.deleting = instances[k].deleting
      BY <1>3, <2>2, StatusSet
    <3> HIDE DEF k, w
    <3> QED
      BY <2>2, <3>1, <3>2, WriteLives, SameLivesRetain, Zenon
  <2> QED
    BY <2>1, <2>2, Zenon
<1>5. CASE ReCouple(p)
  <2> DEFINE k == Key(p, podStep[p].ip)
             w == [instances[k] EXCEPT !.pod = p]
  <2>1. CASE k \notin DOMAIN instances
    BY <1>5, <2>1, SameLivesRetain DEF ReCouple, SameLives
  <2>2. CASE k \in DOMAIN instances
    <3>0. cache = instances
      BY Synced
    <3>1. SetInstance(k, w)
      BY <1>5, <2>2, <3>0 DEF ReCouple
    <3>2. w.uid = instances[k].uid /\ w.deleting = instances[k].deleting
      BY <1>3, <2>2, PodSet
    <3> HIDE DEF k, w
    <3> QED
      BY <2>2, <3>1, <3>2, WriteLives, SameLivesRetain, Zenon
  <2> QED
    BY <2>1, <2>2
<1>6. CASE DoListed(p)
  <2>1. podStep[p].at = "reserve"
    <3>1. podStep[p].at \in {"decouple", "recycle", "reserve"} /\ podStep[p].at \in Steps
      BY <1>0, <1>6, Zenon DEF DoListed, ForPod, StepOK
    <3> QED
      BY <3>1, Zenon DEF Steps, WorkSteps, HoldSteps, EndSteps
  <2>2. PICK k : IF k \in DOMAIN instances
                 THEN SetInstance(k, [instances[k] EXCEPT !.status = [Pod |-> p, Status |-> "Reserved"]])
                 ELSE UNCHANGED instances
    BY <1>6, <2>1, Zenon DEF DoListed
  <2> DEFINE w == [instances[k] EXCEPT !.status = [Pod |-> p, Status |-> "Reserved"]]
  <2>3. CASE k \notin DOMAIN instances
    BY <2>2, <2>3, SameLivesRetain DEF SameLives
  <2>4. CASE k \in DOMAIN instances
    <3>1. SetInstance(k, w)
      BY <2>2, <2>4
    <3>2. w.uid = instances[k].uid /\ w.deleting = instances[k].deleting
      BY <1>3, <2>4, StatusSet
    <3> HIDE DEF w
    <3> QED
      BY <2>4, <3>1, <3>2, WriteLives, SameLivesRetain, Zenon
  <2> QED
    BY <2>3, <2>4
<1> QED
  BY <1>1, <1>2, <1>4, <1>5, <1>6, NotWhenQuiet, Zenon DEF PodWork

LEMMA RetentionStep ==
    ASSUME Quiet, MemoryInv, Next
    PROVE  Retention
<1>1. CASE Deliver \/ DeleteWorkload \/ \E p \in Pods : Cluster(p)
  <2>1. instances' = instances
    BY <1>1, Zenon DEF Deliver, DeleteWorkload, Cluster, CreatePod, TouchPod, CompletePod, DeletePod, RemovePod, api
  <2> QED
    BY <2>1, SameLivesRetain DEF SameLives
<1>2. CASE Len(feed) <= MaxLag /\ \E p \in Pods : PodWork(p)
  BY <1>2, PodWorkRetains
<1>3. ASSUME NEW k \in Keys, CollectGarbage(k) PROVE Retention
  <2>1. InstanceOK(k)
    BY ForOneKey DEF ForKey
  <2>2. /\ k \in DOMAIN instances /\ instances[k] \in Instance
        /\ k \in Retained => ~workload
        /\ instances' = With(instances, k, [instances[k] EXCEPT !.deleting = TRUE])
    BY <1>3, <2>1 DEF CollectGarbage, DeleteInstance, SetInstance, InstanceOK, Retained
  <2>3. DOMAIN instances' = DOMAIN instances /\ \A l \in DOMAIN instances \ {k} : instances'[l] = instances[l]
    BY <2>2 DEF With
  <2>4. Retained \ Retained' \subseteq {k}
    BY <2>3, Zenon DEF Retained
  <2> QED
    BY <2>2, <2>3, <2>4 DEF Retention
<1>4. ASSUME NEW k \in Keys, IPWork(k) PROVE Retention
  <2>1. CASE StartIP(k) \/ ReconcileIP(k)
    <3>1. instances' = instances
      BY <2>1, Zenon DEF StartIP, ReconcileIP, api
    <3> QED
      BY <3>1, SameLivesRetain DEF SameLives
  <2>2. CASE IPUnBind(k)
    <3>1. k \in DOMAIN instances /\ instances[k].deleting
      BY <2>2, ForOneKey DEF ForKey, LiveOK, IPUnBind
    <3>2. instances' = Without(instances, k)
      BY <2>2, <3>1 DEF IPUnBind, RemoveInstance
    <3>3. /\ DOMAIN instances' = DOMAIN instances \ {k}
          /\ \A l \in DOMAIN instances \ {k} : instances'[l] = instances[l]
      BY <3>2 DEF Without
    <3>4. Retained \subseteq Retained'
      BY <3>1, <3>3, Zenon DEF Retained
    <3> QED
      BY <3>3, <3>4, Zenon DEF Retention
  <2> QED
    BY <1>4, <2>1, <2>2 DEF IPWork
<1> QED
  BY <1>1, <1>2, <1>3, <1>4, NotWhenQuiet, Zenon DEF Next

\* A pod whose addresses are retained is given no second one while an IPInstance holds one for it, and
\* what is held is let go only when the workload is deleted.
THEOREM MemoryRetains ==
    ASSUME Quiet
    PROVE  Spec => RetainsAddress
<1>1. MemoryInv /\ [Next]_vars => [Retention]_vars
  BY RetentionStep
<1> QED
  BY <1>1, MemoryInvariant, PTL DEF Spec, RetainsAddress
==============================================================================
