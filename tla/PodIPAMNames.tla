---------------------------- MODULE PodIPAMNames -----------------------------
(***************************************************************************)
(* What the names and owner references of IPInstances achieve on their own *)
(* for plain pods, for any number of pods and addresses, any delay of the  *)
(* cache, any number of refreshes of the allocator and of restarts of the  *)
(* manager: the proofs say nothing of what the allocator remembers.        *)
(***************************************************************************)
EXTENDS PodIPAM, TLAPS

\* No stateful workload; pods do not complete and do not go while the reconciler works for them, and
\* at most one call to the API server fails.
PlainPods ==
    /\ \A p \in Pods : ~OwnByStatefulWorkload(p)
    /\ ~MayComplete /\ ~RemovalAnyTime
    /\ MaxFaults <= 1

(***************************************************************************)
(* The inductive invariant.                                                *)
(***************************************************************************)
\* Where the reconciler of a plain pod can be; where it has created an IPInstance and keeps it.
BackedSteps == {"status", "annotate", "unannotate", "delete"}
WorkSteps == {"allocate", "create", "giveback"} \cup BackedSteps

\* The IPInstance is there to stay, and the pod with the uid owns it.
Backs(objects, k, uid) == k \in DOMAIN objects /\ ~objects[k].deleting /\ objects[k].uid = uid

TypeInv ==
    /\ DOMAIN pods \subseteq Pods
    /\ \A p \in DOMAIN pods : /\ DOMAIN pods[p] = {"uid", "strategy", "ip", "completed", "deleting", "finalizer"}
                              /\ ~pods[p].completed /\ ~pods[p].deleting
    /\ workload
    /\ \A k \in DOMAIN instances : DOMAIN instances[k] = {"pod", "uid", "status", "deleting", "finalizer"}
    /\ DOMAIN podStep = Pods
    /\ \A p \in Pods : /\ DOMAIN podStep[p] = {"at", "uid", "strategy", "ip", "keys"}
                       /\ podStep[p].at \in {"idle"} \cup WorkSteps
    /\ uids \in Nat /\ faults \in 0..MaxFaults /\ crashes \in Nat

\* Uids are given once.
UIDsOK ==
    /\ \A p \in DOMAIN pods : pods[p].uid \in 1..uids
    /\ \A p, q \in DOMAIN pods : pods[p].uid = pods[q].uid => p = q
    /\ \A k \in DOMAIN instances : instances[k].uid \in 1..uids

\* The reconciler works for the pod that exists, which has no annotation unless its writing failed.
WorkOK(p) ==
    podStep[p].at \in WorkSteps =>
        /\ p \in DOMAIN pods /\ podStep[p].uid = pods[p].uid
        /\ podStep[p].at # "allocate" => podStep[p].ip # None
        /\ podStep[p].at \in {"unannotate", "delete"} => faults = 1
        /\ IF podStep[p].at = "unannotate" THEN pods[p].ip \in {None, podStep[p].ip} ELSE pods[p].ip = None
        /\ podStep[p].at \in BackedSteps => Backs(instances, Key(p, podStep[p].ip), pods[p].uid)

\* Without failures and restarts an IPInstance is known to the reconciler or to the pod.
OnlyOne ==
    faults = 0 /\ crashes = 0 =>
        /\ \A p \in DOMAIN pods : \A k \in DOMAIN instances :
              pods[p].ip = None /\ podStep[p].at \notin BackedSteps => ~Backs(instances, k, pods[p].uid)
        /\ \A k, l \in DOMAIN instances :
              instances[k].uid = instances[l].uid /\ ~instances[k].deleting /\ ~instances[l].deleting => k = l

NamesInv ==
    /\ TypeInv /\ UIDsOK
    /\ \A p \in Pods : WorkOK(p)
    /\ InstanceBacksPod
    /\ OnlyOne

(***************************************************************************)
(* Steps of a reconciler.                                                  *)
(***************************************************************************)
LEMMA MaxFaultsNat == MaxFaults \in Nat
  BY PodIPAMAssumption, SMTT(30)

LEMMA FaultsStay ==
    ASSUME TypeInv, faults' = faults
    PROVE  faults' \in faults .. MaxFaults
  BY MaxFaultsNat DEF TypeInv

LEMMA FaultsGrow ==
    ASSUME TypeInv, faults < MaxFaults, faults' = faults + 1
    PROVE  faults' \in faults .. MaxFaults
  BY MaxFaultsNat DEF TypeInv

LEMMA FirstFault ==
    ASSUME PlainPods, TypeInv, faults < MaxFaults, faults' = faults + 1
    PROVE  faults = 0 /\ faults' = 1 /\ MaxFaults = 1
<1>1. faults \in Nat /\ MaxFaults <= 1
  BY MaxFaultsNat DEF TypeInv, PlainPods
<1> QED
  BY <1>1, MaxFaultsNat

\* The rollback of Couple.
LEMMA Rollback ==
    /\ OnError["create"] = "giveback" /\ OnError["status"] = "delete"
    /\ OnError["annotate"] = "unannotate" /\ OnError["unannotate"] = "delete"
    /\ OnError["delete"] = "giveback"
    /\ {"idle", "allocate", "giveback"} \cap DOMAIN OnError = {}
  BY DEF OnError

\* The reconciler of p is the only one that moves, and its variables keep their names.
Moves(p) ==
    /\ DOMAIN podStep' = Pods
    /\ DOMAIN podStep'[p] = {"at", "uid", "strategy", "ip", "keys"}
    /\ \A q \in Pods \ {p} : podStep'[q] = podStep[q]

LEMMA GotoMoves ==
    ASSUME TypeInv, NEW p \in Pods, NEW at, NEW events, Goto(p, at, events)
    PROVE  /\ Moves(p)
           /\ at \in {"done", "retry"} => podStep'[p].at = "idle"
           /\ at \notin {"done", "retry"} =>
                 podStep'[p].at = at /\ podStep'[p].uid = podStep[p].uid /\ podStep'[p].ip = podStep[p].ip
<1>1. CASE at \in {"done", "retry"}
  BY <1>1 DEF Goto, TypeInv, Moves, Idle
<1>2. CASE at \notin {"done", "retry"}
  BY <1>2 DEF Goto, TypeInv, Moves
<1> QED
  BY <1>1, <1>2

\* The API server sets a field of an IPInstance.
LEMMA InstanceFields ==
    ASSUME NEW i, DOMAIN i = {"pod", "uid", "status", "deleting", "finalizer"}, NEW v
    PROVE  /\ DOMAIN [i EXCEPT !.deleting = v] = DOMAIN i
           /\ [i EXCEPT !.deleting = v].uid = i.uid /\ [i EXCEPT !.deleting = v].deleting = v
           /\ DOMAIN [i EXCEPT !.finalizer = v] = DOMAIN i
           /\ [i EXCEPT !.finalizer = v].uid = i.uid /\ [i EXCEPT !.finalizer = v].deleting = i.deleting
           /\ DOMAIN [i EXCEPT !.status = v] = DOMAIN i
           /\ [i EXCEPT !.status = v].uid = i.uid /\ [i EXCEPT !.status = v].deleting = i.deleting
  OBVIOUS

LEMMA SetInstanceSets ==
    ASSUME NEW k, NEW v, SetInstance(k, v)
    PROVE  /\ DOMAIN instances' = DOMAIN instances \cup {k}
           /\ instances'[k] = v
           /\ \A l \in DOMAIN instances \ {k} : instances'[l] = instances[l]
  BY DEF SetInstance, With

\* An IPInstance keeps its name and its owner.
Sets(k) ==
    /\ DOMAIN instances' = DOMAIN instances
    /\ \A l \in DOMAIN instances \ {k} : instances'[l] = instances[l]
    /\ DOMAIN instances'[k] = DOMAIN instances[k]
    /\ instances'[k].uid = instances[k].uid

LEMMA SetFieldSets ==
    ASSUME TypeInv, NEW k \in DOMAIN instances, NEW v
    PROVE  /\ SetInstance(k, [instances[k] EXCEPT !.deleting = v]) => Sets(k) /\ instances'[k].deleting = v
           /\ SetInstance(k, [instances[k] EXCEPT !.finalizer = v]) =>
                 Sets(k) /\ instances'[k].deleting = instances[k].deleting
           /\ SetInstance(k, [instances[k] EXCEPT !.status = v]) =>
                 Sets(k) /\ instances'[k].deleting = instances[k].deleting
<1>1. DOMAIN instances[k] = {"pod", "uid", "status", "deleting", "finalizer"}
  BY DEF TypeInv
<1>2. ASSUME NEW w, SetInstance(k, w), DOMAIN w = DOMAIN instances[k], w.uid = instances[k].uid
      PROVE  Sets(k) /\ instances'[k] = w
  BY <1>2, SetInstanceSets, SMTT(30) DEF Sets
<1> HIDE DEF Sets
<1> QED
  BY <1>1, <1>2, InstanceFields

LEMMA MarkSets ==
    ASSUME TypeInv, NEW k \in DOMAIN instances, SetInstance(k, [instances[k] EXCEPT !.deleting = TRUE])
    PROVE  Sets(k) /\ instances'[k].deleting
<1>1. Sets(k) /\ instances'[k].deleting = TRUE
  BY SetFieldSets, Zenon
<1> QED
  BY <1>1

\* IPInstances may be marked and may go, but those that back the pods of a set stay.
Leaves(S) ==
    /\ DOMAIN instances' \subseteq DOMAIN instances
    /\ \A l \in DOMAIN instances' :
          DOMAIN instances'[l] = DOMAIN instances[l] /\ instances'[l].uid = instances[l].uid /\ (instances[l].deleting => instances'[l].deleting)
    /\ \A q \in S : \A l \in DOMAIN instances : Backs(instances, l, pods[q].uid) => Backs(instances', l, pods[q].uid)

LEMMA AllLeft ==
    ASSUME instances' = instances, pods' = pods
    PROVE  Leaves(DOMAIN pods)
  BY DEF Leaves, Backs

\* A step that creates nothing, and takes away at most what a pod without annotation owns.
LEMMA MoveKeeps ==
    ASSUME PlainPods, NamesInv, NEW p \in Pods, Moves(p),
           UNCHANGED <<pods, workload, uids, crashes>>,
           Leaves(DOMAIN pods) \/ (Leaves(DOMAIN pods \ {p}) /\ pods[p].ip = None),
           faults' \in faults .. MaxFaults,
           podStep'[p].at \in {"idle"} \cup WorkSteps,
           WorkOK(p)',
           podStep[p].at \in BackedSteps => podStep'[p].at \in BackedSteps \/ faults' > 0
    PROVE  NamesInv'
<1>t. TypeInv
  BY DEF NamesInv
<1>u. UIDsOK
  BY DEF NamesInv
<1>w. \A r \in Pods : WorkOK(r)
  BY DEF NamesInv
<1>b. InstanceBacksPod
  BY DEF NamesInv
<1>o. OnlyOne
  BY DEF NamesInv
<1>0. MaxFaults \in Nat
  BY MaxFaultsNat
<1>1. TypeInv'
  BY <1>t, <1>0 DEF TypeInv, Moves, Leaves
<1>2. UIDsOK'
  BY <1>u DEF UIDsOK, Leaves
<1>3. \A q \in Pods : WorkOK(q)'
  <2>1. ASSUME NEW q \in Pods \ {p} PROVE WorkOK(q)'
    <3>1. podStep'[q] = podStep[q] /\ WorkOK(q)
      BY <1>w, SMTT(30) DEF Moves
    <3>2. q \in DOMAIN pods => \A l \in DOMAIN instances : Backs(instances, l, pods[q].uid) => Backs(instances', l, pods[q].uid)
      BY DEF Leaves
    <3> QED
      BY <1>t, <1>w, <1>0, <3>1, <3>2, SMTT(30) DEF WorkOK, TypeInv, Backs, PlainPods
  <2> QED
    BY <2>1
<1>4. InstanceBacksPod'
  BY <1>b, <1>t, SMTT(30) DEF InstanceBacksPod, Running, Leaves, Backs, PlainPods, GetKnownOwnReference, TypeInv
<1>5. OnlyOne'
  BY <1>o, <1>t, <1>0, SMTT(30) DEF OnlyOne, Moves, Leaves, Backs, TypeInv
<1> QED
  BY <1>1, <1>2, <1>3, <1>4, <1>5 DEF NamesInv

\* A step in which no reconciler moves.
LEMMA StayKeeps ==
    ASSUME PlainPods, NamesInv,
           UNCHANGED <<pods, workload, podStep, uids, crashes>>,
           Leaves(DOMAIN pods),
           faults' \in faults .. MaxFaults
    PROVE  NamesInv'
<1>t. TypeInv
  BY DEF NamesInv
<1>u. UIDsOK
  BY DEF NamesInv
<1>w. \A r \in Pods : WorkOK(r)
  BY DEF NamesInv
<1>b. InstanceBacksPod
  BY DEF NamesInv
<1>o. OnlyOne
  BY DEF NamesInv
<1>0. MaxFaults \in Nat
  BY MaxFaultsNat
<1>1. TypeInv'
  BY <1>t, <1>0 DEF TypeInv, Leaves
<1>2. UIDsOK'
  BY <1>u DEF UIDsOK, Leaves
<1>3. \A q \in Pods : WorkOK(q)'
  BY <1>t, <1>w, <1>0, SMTT(30) DEF WorkOK, TypeInv, Backs, Leaves, PlainPods
<1>4. InstanceBacksPod'
  BY <1>b, <1>t, SMTT(30) DEF InstanceBacksPod, Running, Leaves, Backs, PlainPods, GetKnownOwnReference, TypeInv
<1>5. OnlyOne'
  BY <1>o, <1>t, <1>0, SMTT(30) DEF OnlyOne, Leaves, Backs, TypeInv
<1> QED
  BY <1>1, <1>2, <1>3, <1>4, <1>5 DEF NamesInv

(***************************************************************************)
(* The initial states and the steps of the cluster.                        *)
(***************************************************************************)
LEMMA NamesInit ==
    ASSUME PlainPods, Init
    PROVE  NamesInv
<1>0. MaxFaults \in Nat
  BY MaxFaultsNat
<1>1. DOMAIN pods = {} /\ DOMAIN instances = {} /\ workload /\ uids = 0 /\ faults = 0 /\ crashes = 0
  BY DEF Init, NoFunction
<1>2. podStep = [p \in Pods |-> Idle]
  BY DEF Init
<1>3. TypeInv
  BY <1>0, <1>1, <1>2 DEF TypeInv, Idle
<1>4. \A p \in Pods : WorkOK(p)
  BY <1>1, <1>2, SMTT(30) DEF WorkOK, Idle, WorkSteps, BackedSteps
<1> QED
  BY <1>1, <1>3, <1>4, SMTT(30) DEF NamesInv, UIDsOK, InstanceBacksPod, Running, OnlyOne

\* A new pod has a new uid.
LEMMA CreatePodKeeps ==
    ASSUME PlainPods, NamesInv, NEW p \in Pods, CreatePod(p)
    PROVE  NamesInv'
<1>t. TypeInv
  BY DEF NamesInv
<1>u. UIDsOK
  BY DEF NamesInv
<1>w. \A r \in Pods : WorkOK(r)
  BY DEF NamesInv
<1>b. InstanceBacksPod
  BY DEF NamesInv
<1>o. OnlyOne
  BY DEF NamesInv
<1>1. /\ DOMAIN pods' = DOMAIN pods \cup {p} /\ p \notin DOMAIN pods
      /\ \A q \in DOMAIN pods : pods'[q] = pods[q]
      /\ pods'[p].uid = uids + 1 /\ pods'[p].ip = None
      /\ DOMAIN pods'[p] = {"uid", "strategy", "ip", "completed", "deleting", "finalizer"}
      /\ ~pods'[p].completed /\ ~pods'[p].deleting
  <2>1. PICK s \in Strategies[p] :
          pods' = With(pods, p, [uid |-> uids + 1, strategy |-> s, ip |-> None, completed |-> FALSE,
                                 deleting |-> FALSE, finalizer |-> FALSE])
    BY Zenon DEF CreatePod
  <2>2. p \notin DOMAIN pods
    BY SMTT(30) DEF CreatePod
  <2> QED
    BY <2>1, <2>2 DEF With
<1>2. /\ UNCHANGED <<workload, instances, podStep, faults, crashes>>
      /\ uids' = uids + 1
  BY SMTT(30) DEF CreatePod
<1>3. podStep[p].at \notin WorkSteps
  BY <1>w, <1>1, Zenon DEF WorkOK
<1>4. TypeInv'
  BY <1>t, <1>1, <1>2, SMTT(30) DEF TypeInv
<1>5. UIDsOK'
  <2>1. \A q \in DOMAIN pods : pods'[q].uid \in 1..uids
    BY <1>u, <1>1 DEF UIDsOK
  <2>2. \A q \in DOMAIN pods' : pods'[q].uid \in 1..uids'
    BY <1>t, <1>1, <1>2, <2>1, SMTT(30) DEF TypeInv
  <2>3. ASSUME NEW q \in DOMAIN pods', NEW r \in DOMAIN pods', pods'[q].uid = pods'[r].uid
        PROVE  q = r
    BY <1>t, <1>u, <1>1, <2>1, <2>3, SMTT(30) DEF UIDsOK, TypeInv
  <2>4. \A k \in DOMAIN instances' : instances'[k].uid \in 1..uids'
    BY <1>t, <1>u, <1>2, SMTT(30) DEF UIDsOK, TypeInv
  <2> QED
    BY <1>u, <2>2, <2>3, <2>4 DEF UIDsOK
<1>6. \A q \in Pods : WorkOK(q)'
  BY <1>w, <1>1, <1>2, <1>3, SMTT(30) DEF WorkOK, Backs
<1>7. InstanceBacksPod'
  BY <1>b, <1>1, <1>2, SMTT(30) DEF InstanceBacksPod, Running, PlainPods, GetKnownOwnReference
<1>8. OnlyOne'
  BY <1>o, <1>t, <1>u, <1>1, <1>2, SMTT(30) DEF OnlyOne, Backs, UIDsOK, TypeInv
<1> QED
  BY <1>4, <1>5, <1>6, <1>7, <1>8 DEF NamesInv

\* A pod goes while no reconciler works for it.
LEMMA RemovePodKeeps ==
    ASSUME PlainPods, NamesInv, NEW p \in Pods, RemovePod(p)
    PROVE  NamesInv'
<1>t. TypeInv
  BY DEF NamesInv
<1>u. UIDsOK
  BY DEF NamesInv
<1>w. \A r \in Pods : WorkOK(r)
  BY DEF NamesInv
<1>b. InstanceBacksPod
  BY DEF NamesInv
<1>o. OnlyOne
  BY DEF NamesInv
<1>1. /\ DOMAIN pods' = DOMAIN pods \ {p}
      /\ \A q \in DOMAIN pods' : pods'[q] = pods[q]
  BY DEF RemovePod, Without
<1>2. UNCHANGED <<workload, instances, podStep, faults, crashes, uids>>
  BY SMTT(30) DEF RemovePod, podSide, counters
<1>3. podStep[p].at = "idle"
  BY DEF RemovePod, PlainPods
<1>4. TypeInv'
  BY <1>t, <1>1, <1>2, SMTT(30) DEF TypeInv
<1>5. UIDsOK'
  BY <1>u, <1>1, <1>2, Zenon DEF UIDsOK
<1>6. \A q \in Pods : WorkOK(q)'
  BY <1>w, <1>1, <1>2, <1>3, SMTT(30) DEF WorkOK, Backs, WorkSteps, BackedSteps
<1>7. InstanceBacksPod'
  BY <1>b, <1>1, <1>2, Zenon DEF InstanceBacksPod, Running, PlainPods, GetKnownOwnReference
<1>8. OnlyOne'
  BY <1>o, <1>1, <1>2, SMTT(30) DEF OnlyOne, Backs
<1> QED
  BY <1>4, <1>5, <1>6, <1>7, <1>8 DEF NamesInv

\* The garbage collector takes what no pod owns.
LEMMA CollectGarbageKeeps ==
    ASSUME PlainPods, NamesInv, NEW k \in Keys, CollectGarbage(k)
    PROVE  NamesInv'
<1>t. TypeInv
  BY DEF NamesInv
<1>u. UIDsOK
  BY DEF NamesInv
<1>1. /\ UNCHANGED <<pods, workload, podStep, uids, crashes, faults>>
      /\ k \in DOMAIN instances /\ DeleteInstance(k)
  BY DEF CollectGarbage, podSide, counters
<1>2. \A q \in DOMAIN pods : pods[q].uid # instances[k].uid
  BY <1>t, <1>u, SMTT(30) DEF CollectGarbage, UIDsOK, TypeInv
<1>3. Leaves(DOMAIN pods)
  <2>1. CASE UNCHANGED <<instances, feed>>
    BY <1>1, <2>1, AllLeft
  <2>2. CASE SetInstance(k, [instances[k] EXCEPT !.deleting = TRUE])
    <3>1. Sets(k) /\ instances'[k].deleting
      BY <1>t, <1>1, <2>2, MarkSets
    <3> QED
      BY <1>1, <1>2, <3>1, Zenon DEF Leaves, Backs, Sets
  <2>3. CASE RemoveInstance(k)
    <3>1. /\ DOMAIN instances' = DOMAIN instances \ {k}
          /\ \A l \in DOMAIN instances \ {k} : instances'[l] = instances[l]
      BY <2>3 DEF RemoveInstance, Without
    <3> QED
      BY <1>1, <1>2, <3>1, SMTT(30) DEF Leaves, Backs
  <2> QED
    BY <1>1, <2>1, <2>2, <2>3 DEF DeleteInstance
<1> QED
  BY <1>t, <1>1, <1>3, StayKeeps, PodIPAMAssumption, SMTT(30) DEF TypeInv

\* The IPInstance reconciler removes what is terminating, or takes a finalizer away.
LEMMA IPWorkKeeps ==
    ASSUME PlainPods, NamesInv, NEW k \in Keys, IPWork(k) \/ UnBindFails(k)
    PROVE  NamesInv'
<1>t. TypeInv
  BY DEF NamesInv
<1>0. /\ UNCHANGED <<pods, workload, podStep, uids, crashes>>
      /\ faults' \in faults .. MaxFaults
  <2>1. UNCHANGED <<pods, workload, podStep, uids, crashes>>
    BY Zenon DEF IPWork, StartIP, ReconcileIP, IPUnBind, UnBindFails, api, podSide, counters
  <2>2. faults' = faults \/ (faults < MaxFaults /\ faults' = faults + 1)
    BY Zenon DEF IPWork, StartIP, ReconcileIP, IPUnBind, UnBindFails, counters
  <2> QED
    BY <1>t, <2>1, <2>2, FaultsStay, FaultsGrow
<1>1. Leaves(DOMAIN pods)
  <2>1. CASE instances' = instances
    BY <1>0, <2>1, AllLeft, Zenon
  <2>2. CASE k \in DOMAIN instances /\ instances[k].deleting /\ RemoveInstance(k)
    <3>1. /\ DOMAIN instances' = DOMAIN instances \ {k}
          /\ \A l \in DOMAIN instances \ {k} : instances'[l] = instances[l]
      BY <2>2, Zenon DEF RemoveInstance, Without
    <3> QED
      BY <1>0, <2>2, <3>1, Zenon DEF Leaves, Backs
  <2>3. CASE k \in DOMAIN instances /\ SetInstance(k, [instances[k] EXCEPT !.finalizer = FALSE])
    <3>1. TypeInv
      BY <1>t
    <3>2. Sets(k) /\ instances'[k].deleting = instances[k].deleting
      BY <1>t, <2>3, <3>1, SetFieldSets, Zenon
    <3> QED
      BY <1>0, <2>3, <3>2 DEF Leaves, Backs, Sets
  <2> QED
    BY <2>1, <2>2, <2>3, Zenon DEF IPWork, StartIP, ReconcileIP, IPUnBind, UnBindFails, api
<1> QED
  BY <1>0, <1>1, StayKeeps

\* Steps that do not touch what the invariant is about.
LEMMA SilentKeeps ==
    ASSUME PlainPods, NamesInv,
           UNCHANGED vars \/ Deliver \/ Refresh \/ DeleteWorkload
              \/ \E p \in Pods : TouchPod(p) \/ CompletePod(p) \/ DeletePod(p)
    PROVE  NamesInv'
<1>t. TypeInv
  BY Zenon DEF NamesInv
<1>1. UNCHANGED <<pods, workload, instances, podStep, uids, crashes, faults>>
  BY Zenon DEF vars, Deliver, Refresh, DeleteWorkload, TouchPod, CompletePod, DeletePod, PlainPods,
         api, podSide, counters
<1> QED
  BY <1>t, <1>1, AllLeft, StayKeeps, PodIPAMAssumption, SMTT(30) DEF TypeInv

\* After a restart every reconciler is idle, and annotations that are being written stay as they are.
LEMMA CrashKeeps ==
    ASSUME PlainPods, NamesInv, Crash
    PROVE  NamesInv'
<1>t. TypeInv
  BY DEF NamesInv
<1>u. UIDsOK
  BY DEF NamesInv
<1>w. \A r \in Pods : WorkOK(r)
  BY DEF NamesInv
<1>b. InstanceBacksPod
  BY DEF NamesInv
<1>o. OnlyOne
  BY Zenon DEF NamesInv
<1>1. /\ UNCHANGED <<pods, workload, instances, uids, faults>>
      /\ podStep' = [p \in Pods |-> Idle]
      /\ crashes' = crashes + 1
  BY Zenon DEF Crash
<1>2. TypeInv'
  <2>1. /\ DOMAIN podStep' = Pods
        /\ \A p \in Pods : /\ DOMAIN podStep'[p] = {"at", "uid", "strategy", "ip", "keys"}
                           /\ podStep'[p].at = "idle"
    BY <1>1, Zenon DEF Idle
  <2>2. crashes' \in Nat
    BY <1>t, <1>1, SMTT(30) DEF TypeInv
  <2> QED
    BY <1>t, <1>1, <2>1, <2>2, Zenon DEF TypeInv
<1>3. UIDsOK'
  BY <1>u, <1>1, Zenon DEF UIDsOK
<1>4. \A q \in Pods : WorkOK(q)'
  BY <1>w, <1>1, Zenon DEF WorkOK, Idle, WorkSteps, BackedSteps
<1>5. InstanceBacksPod'
  BY <1>b, <1>1, Zenon DEF InstanceBacksPod, Running
<1>6. OnlyOne'
  BY <1>o, <1>t, <1>1, SMTT(30) DEF OnlyOne, TypeInv
<1> QED
  BY <1>2, <1>3, <1>4, <1>5, <1>6, Zenon DEF NamesInv

(***************************************************************************)
(* The steps of the pod reconciler.                                        *)
(***************************************************************************)
\* A reconciliation does something only for a pod without annotation.
LEMMA StartPodKeeps ==
    ASSUME PlainPods, NamesInv, NEW p \in Pods, StartPod(p)
    PROVE  NamesInv'
<1>t. TypeInv
  BY Zenon DEF NamesInv
<1>w. \A r \in Pods : WorkOK(r)
  BY Zenon DEF NamesInv
<1>1. /\ UNCHANGED <<pods, workload, instances, uids, crashes, faults>>
      /\ podStep[p].at = "idle"
  BY Zenon DEF StartPod, api, counters
<1>2. Moves(p) /\ podStep'[p].at \in {"idle"} \cup WorkSteps /\ WorkOK(p)'
  <2>1. CASE p \in DOMAIN pods /\ pods[p].ip = None
    <3>1. podStep' = [podStep EXCEPT ![p] = [Idle EXCEPT !.at = "allocate", !.uid = pods[p].uid, !.strategy = pods[p].strategy]]
      BY <1>t, <2>1, Zenon DEF StartPod, TypeInv, PlainPods
    <3> QED
      BY <1>t, <1>w, <1>1, <2>1, <3>1, SMTT(30) DEF Moves, TypeInv, Idle, WorkOK, WorkSteps, BackedSteps
  <2>2. CASE p \notin DOMAIN pods \/ pods[p].ip # None
    <3>1. podStep' = [podStep EXCEPT ![p] = Idle]
      BY <1>t, <2>2, Zenon DEF StartPod, TypeInv, PlainPods
    <3> QED
      BY <1>t, <1>w, <1>1, <3>1, Zenon DEF Moves, TypeInv, Idle, WorkOK, WorkSteps, BackedSteps
  <2> QED
    BY <2>1, <2>2, Zenon
<1>3. Leaves(DOMAIN pods)
  BY <1>1, AllLeft, Zenon
<1>4. faults' \in faults .. MaxFaults
  BY <1>t, <1>1, FaultsStay, Zenon
<1>5. podStep[p].at \notin BackedSteps
  BY <1>1, Zenon DEF BackedSteps
<1> QED
  BY <1>1, <1>2, <1>3, <1>4, <1>5, MoveKeeps, Zenon

\* The allocator's answer does not matter here, nor what it is given back.
LEMMA AllocateKeeps ==
    ASSUME PlainPods, NamesInv, NEW p \in Pods, Allocate(p) \/ GiveBack(p)
    PROVE  NamesInv'
<1>t. TypeInv
  BY Zenon DEF NamesInv
<1>w. \A r \in Pods : WorkOK(r)
  BY Zenon DEF NamesInv
<1>1. /\ UNCHANGED <<pods, workload, instances, uids, crashes, faults>>
      /\ podStep[p].at \in {"allocate", "giveback"}
  BY Zenon DEF Allocate, GiveBack, api, counters
<1>2. Moves(p) /\ podStep'[p].at \in {"idle"} \cup WorkSteps /\ WorkOK(p)'
  <2>1. CASE Goto(p, "retry", {})
    BY <1>t, <1>w, <1>1, <2>1, GotoMoves, ZenonT(30) DEF WorkOK, WorkSteps, BackedSteps
  <2>2. CASE \E ip \in IPs : podStep' = [podStep EXCEPT ![p].at = "create", ![p].ip = ip] /\ podStep[p].at = "allocate"
    BY <1>t, <1>w, <1>1, <2>2, PodIPAMAssumption, SMTT(30) DEF Moves, TypeInv, WorkOK, WorkSteps, BackedSteps
  <2> QED
    BY <2>1, <2>2, Zenon DEF Allocate, GiveBack, Pool!Free
<1>3. Leaves(DOMAIN pods)
  BY <1>1, AllLeft, Zenon
<1>4. faults' \in faults .. MaxFaults
  BY <1>t, <1>1, FaultsStay, Zenon
<1>5. podStep[p].at \notin BackedSteps
  BY <1>1, Zenon DEF BackedSteps
<1> QED
  BY <1>1, <1>2, <1>3, <1>4, <1>5, MoveKeeps, Zenon

\* A failed call is rolled back.  There is no second failure to interrupt that.
LEMMA CallFailsKeeps ==
    ASSUME PlainPods, NamesInv, NEW p \in Pods, CallFails(p)
    PROVE  NamesInv'
<1>t. TypeInv
  BY DEF NamesInv
<1>w. \A r \in Pods : WorkOK(r)
  BY DEF NamesInv
<1>0. /\ UNCHANGED <<pods, workload, instances, uids, crashes>>
      /\ faults = 0 /\ faults' = 1 /\ MaxFaults = 1
      /\ Goto(p, OnError[podStep[p].at], {})
      /\ podStep[p].at \in DOMAIN OnError
  BY <1>t, FirstFault, Zenon DEF CallFails, api
<1>1. podStep[p].at \in {"create", "status", "annotate"}
  <2>1. podStep[p].at \notin {"unannotate", "delete"}
    <3>1. WorkOK(p)
      BY <1>w
    <3> QED
      BY <1>0, <3>1, SMTT(30) DEF WorkOK, WorkSteps, BackedSteps
  <2>2. podStep[p].at \in {"idle"} \cup WorkSteps
    BY <1>t, Zenon DEF TypeInv
  <2> QED
    BY <1>0, <2>1, <2>2, Rollback, Zenon DEF WorkSteps, BackedSteps
<1>2. /\ podStep[p].at = "create" => OnError[podStep[p].at] = "giveback"
      /\ podStep[p].at = "status" => OnError[podStep[p].at] = "delete"
      /\ podStep[p].at = "annotate" => OnError[podStep[p].at] = "unannotate"
  BY Rollback, Zenon
<1>3. Moves(p) /\ podStep'[p].at \in {"idle"} \cup WorkSteps /\ WorkOK(p)'
  <2> DEFINE at == OnError[podStep[p].at]
  <2>1. at \in {"giveback", "delete", "unannotate"}
    BY <1>1, <1>2, Zenon
  <2>2. /\ Moves(p) /\ podStep'[p].at = at
        /\ podStep'[p].uid = podStep[p].uid /\ podStep'[p].ip = podStep[p].ip
    BY <1>t, <1>0, <2>1, GotoMoves, Zenon
  <2>3. podStep[p].at = "create" <=> at = "giveback"
    BY <1>1, <1>2, Zenon
  <2> HIDE DEF at
  <2>4. WorkOK(p)
    BY <1>w
  <2>5. WorkOK(p)'
    BY <1>0, <1>1, <2>1, <2>2, <2>3, <2>4, Zenon DEF WorkOK, WorkSteps, BackedSteps
  <2> QED
    BY <2>1, <2>2, <2>5, Zenon DEF WorkSteps, BackedSteps
<1>4. Leaves(DOMAIN pods)
  BY <1>0, AllLeft, Zenon
<1>5. faults' \in faults .. MaxFaults /\ faults' > 0
  BY <1>0, SMTT(30)
<1> QED
  BY <1>0, <1>3, <1>4, <1>5, MoveKeeps, Zenon

\* A call that took effect: its answer arrives or is lost.
LEMMA ReplyMoves ==
    ASSUME PlainPods, TypeInv, NEW p \in Pods, NEW at, NEW next, NEW events, Reply(p, at, next, events)
    PROVE  \/ Goto(p, next, events) /\ faults' = faults
           \/ Goto(p, OnError[at], events) /\ faults = 0 /\ faults' = 1 /\ MaxFaults = 1
  BY FirstFault, Zenon DEF Reply

LEMMA UpdateIPStatusKeeps ==
    ASSUME PlainPods, NamesInv, NEW p \in Pods, UpdateIPStatus(p)
    PROVE  NamesInv'
<1>t. TypeInv
  BY DEF NamesInv
<1>w. \A r \in Pods : WorkOK(r)
  BY DEF NamesInv
<1> DEFINE k == Key(p, podStep[p].ip)
<1>1. podStep[p].at = "status"
  BY <1>t, Zenon DEF UpdateIPStatus, TypeInv, WorkSteps, BackedSteps
<1>2. /\ p \in DOMAIN pods /\ pods[p].ip = None /\ podStep[p].uid = pods[p].uid /\ podStep[p].ip # None
      /\ Backs(instances, k, pods[p].uid)
  BY <1>w, <1>1, Zenon DEF WorkOK, WorkSteps, BackedSteps
<1>3. /\ UNCHANGED <<pods, workload, uids, crashes>>
      /\ SetInstance(k, [instances[k] EXCEPT !.status = [Pod |-> p, Status |-> "Using"]])
      /\ Reply(p, "status", "annotate", {})
  BY <1>1, <1>2 DEF UpdateIPStatus, Backs
<1>4. k \in DOMAIN instances
  BY <1>2, Zenon DEF Backs
<1>5. Sets(k) /\ instances'[k].deleting = instances[k].deleting
  BY <1>t, <1>3, <1>4, SetFieldSets, Zenon
<1> HIDE DEF k
<1>6. Leaves(DOMAIN pods) /\ Backs(instances', k, pods[p].uid)
  BY <1>2, <1>3, <1>5 DEF Leaves, Backs, Sets
<1>7. /\ Moves(p) /\ podStep'[p].ip = podStep[p].ip /\ podStep'[p].uid = podStep[p].uid
      /\ \/ podStep'[p].at = "annotate" /\ faults' = faults
         \/ podStep'[p].at = "delete" /\ faults' = 1 /\ faults = 0 /\ MaxFaults = 1
  <2>1. OnError["status"] = "delete"
    BY Rollback, Zenon
  <2>2. \/ Goto(p, "annotate", {}) /\ faults' = faults
        \/ Goto(p, "delete", {}) /\ faults = 0 /\ faults' = 1 /\ MaxFaults = 1
    BY <1>t, <1>3, <2>1, ReplyMoves
  <2> QED
    BY <1>t, <2>2, GotoMoves, SMTT(30)
<1>8. WorkOK(p)'
  BY <1>w, <1>2, <1>3, <1>6, <1>7, Zenon DEF WorkOK, k
<1>9. faults' \in faults .. MaxFaults
  BY <1>t, <1>7, FaultsStay, SMTT(30)
<1>10. podStep'[p].at \in BackedSteps /\ podStep'[p].at \in {"idle"} \cup WorkSteps
  BY <1>7, Zenon DEF BackedSteps, WorkSteps
<1> QED
  BY <1>3, <1>6, <1>7, <1>8, <1>9, <1>10, MoveKeeps, Zenon

\* Of its own IPInstance, whose deletion ends the rollback.
LEMMA DeleteIPKeeps ==
    ASSUME PlainPods, NamesInv, NEW p \in Pods, DeleteIP(p)
    PROVE  NamesInv'
<1>t. TypeInv
  BY DEF NamesInv
<1>u. UIDsOK
  BY DEF NamesInv
<1>w. \A r \in Pods : WorkOK(r)
  BY DEF NamesInv
<1> DEFINE k == Key(p, podStep[p].ip)
<1>1. podStep[p].at = "delete"
  BY Zenon DEF DeleteIP
<1>2. /\ p \in DOMAIN pods /\ pods[p].ip = None /\ podStep[p].uid = pods[p].uid /\ podStep[p].ip # None
      /\ Backs(instances, k, pods[p].uid) /\ faults = 1
  BY <1>w, <1>1, Zenon DEF WorkOK, WorkSteps, BackedSteps
<1>3. /\ UNCHANGED <<pods, workload, uids, crashes>>
      /\ DeleteInstance(k)
      /\ Reply(p, "delete", "giveback", {})
  BY Zenon DEF DeleteIP
<1> HIDE DEF k
<1>4. Leaves(DOMAIN pods \ {p})
  <2>1. \A q \in DOMAIN pods \ {p} : pods[q].uid # instances[k].uid
    BY <1>u, <1>2, Zenon DEF UIDsOK, Backs
  <2>2. CASE SetInstance(k, [instances[k] EXCEPT !.deleting = TRUE])
    <3>1. k \in DOMAIN instances
      BY <1>2, Zenon DEF Backs
    <3>2. Sets(k) /\ instances'[k].deleting
      BY <1>t, <2>2, <3>1, MarkSets
    <3> QED
      BY <1>3, <2>1, <3>2, Zenon DEF Leaves, Backs, Sets
  <2>3. CASE RemoveInstance(k)
    <3>1. /\ DOMAIN instances' = DOMAIN instances \ {k}
          /\ \A l \in DOMAIN instances \ {k} : instances'[l] = instances[l]
      BY <2>3, Zenon DEF RemoveInstance, Without
    <3> QED
      BY <1>3, <2>1, <3>1, Zenon DEF Leaves, Backs
  <2> QED
    BY <1>2, <1>3, <2>2, <2>3 DEF DeleteInstance, Backs
<1>5. /\ Moves(p) /\ podStep'[p].at = "giveback" /\ faults' = faults
      /\ podStep'[p].uid = podStep[p].uid /\ podStep'[p].ip = podStep[p].ip
  <2>1. OnError["delete"] = "giveback"
    BY Rollback
  <2>2. Goto(p, "giveback", {}) /\ faults' = faults
    BY <1>t, <1>2, <1>3, <2>1, ReplyMoves, Zenon
  <2> QED
    BY <1>t, <2>2, GotoMoves, SMTT(30)
<1>6. WorkOK(p)'
  BY <1>w, <1>2, <1>3, <1>5, Zenon DEF WorkOK, BackedSteps
<1>7. faults' \in faults .. MaxFaults /\ faults' > 0
  <2>1. faults' > 0
    BY <1>2, <1>5, SMTT(30)
  <2> QED
    BY <1>t, <1>5, <2>1, FaultsStay, Zenon
<1>8. podStep'[p].at \in {"idle"} \cup WorkSteps
  BY <1>5, Zenon DEF WorkSteps
<1> QED
  BY <1>2, <1>3, <1>4, <1>5, <1>6, <1>7, <1>8, MoveKeeps, Zenon

\* A name that is taken is refused; a new IPInstance is the pod's own.
LEMMA CreateIPKeeps ==
    ASSUME PlainPods, NamesInv, NEW p \in Pods, CreateIP(p)
    PROVE  NamesInv'
<1>t. TypeInv
  BY DEF NamesInv
<1>u. UIDsOK
  BY DEF NamesInv
<1>w. \A r \in Pods : WorkOK(r)
  BY DEF NamesInv
<1>b. InstanceBacksPod
  BY DEF NamesInv
<1>o. OnlyOne
  BY DEF NamesInv
<1> DEFINE k == Key(p, podStep[p].ip)
<1>1. podStep[p].at = "create"
  BY Zenon DEF CreateIP
<1>2. /\ p \in DOMAIN pods /\ pods[p].ip = None /\ podStep[p].uid = pods[p].uid /\ podStep[p].ip # None
      /\ UNCHANGED <<pods, workload, uids, crashes>>
  BY <1>w, <1>1, Zenon DEF CreateIP, WorkOK, WorkSteps
<1>3. CASE k \in DOMAIN instances
  <2>1. Goto(p, "giveback", {}) /\ UNCHANGED <<instances, faults>>
    BY <1>3, Zenon DEF CreateIP
  <2> HIDE DEF k
  <2>2. /\ Moves(p) /\ podStep'[p].at = "giveback"
        /\ podStep'[p].uid = podStep[p].uid /\ podStep'[p].ip = podStep[p].ip
    BY <1>t, <2>1, GotoMoves, SMTT(30)
  <2>3. WorkOK(p)'
    BY <1>w, <1>2, <2>2, Zenon DEF WorkOK, BackedSteps
  <2>4. faults' \in faults .. MaxFaults
    BY <1>t, <2>1, FaultsStay
  <2>5. podStep'[p].at \in {"idle"} \cup WorkSteps /\ podStep[p].at \notin BackedSteps
    BY <1>1, <2>2, Zenon DEF WorkSteps, BackedSteps
  <2>6. Leaves(DOMAIN pods)
    BY <1>2, <2>1, AllLeft, Zenon
  <2> QED
    BY <1>2, <2>2, <2>3, <2>4, <2>5, <2>6, MoveKeeps, Zenon
<1>4. CASE k \notin DOMAIN instances
  <2>1. PICK v : /\ SetInstance(k, v)
                 /\ DOMAIN v = {"pod", "uid", "status", "deleting", "finalizer"}
                 /\ v.uid = pods[p].uid /\ ~v.deleting
    <3> DEFINE w == [pod |-> p, uid |-> pods[p].uid, status |-> [Pod |-> NoPod, Status |-> ""],
                     deleting |-> FALSE, finalizer |-> TRUE]
    <3>1. SetInstance(k, w)
      BY <1>2, <1>4, Zenon DEF CreateIP, GetKnownOwnReference, PlainPods
    <3>2. DOMAIN w = {"pod", "uid", "status", "deleting", "finalizer"} /\ w.uid = pods[p].uid /\ ~w.deleting
      BY Zenon
    <3> QED
      BY <3>1, <3>2, Zenon
  <2>2. /\ DOMAIN instances' = DOMAIN instances \cup {k}
        /\ instances'[k] = v
        /\ \A l \in DOMAIN instances : instances'[l] = instances[l]
    <3>1. /\ DOMAIN instances' = DOMAIN instances \cup {k}
          /\ instances'[k] = v
          /\ \A l \in DOMAIN instances \ {k} : instances'[l] = instances[l]
      BY <2>1, SetInstanceSets, Zenon
    <3> QED
      BY <1>4, <3>1, Zenon
  <2>3. /\ Moves(p) /\ podStep'[p].ip = podStep[p].ip /\ podStep'[p].uid = podStep[p].uid
        /\ \/ podStep'[p].at = "status" /\ faults' = faults
           \/ podStep'[p].at = "giveback" /\ faults' = 1 /\ faults = 0 /\ MaxFaults = 1
    <3>1. Reply(p, "create", "status", {}) /\ OnError["create"] = "giveback"
      BY <1>4, Zenon DEF CreateIP, OnError
    <3>2. \/ Goto(p, "status", {}) /\ faults' = faults
          \/ Goto(p, "giveback", {}) /\ faults = 0 /\ faults' = 1 /\ MaxFaults = 1
      BY <1>t, <3>1, ReplyMoves, Zenon
    <3> QED
      BY <1>t, <3>2, GotoMoves, SMTT(30)
  <2> HIDE DEF k
  <2>4. Backs(instances', k, pods[p].uid)
    BY <2>1, <2>2, Zenon DEF Backs
  <2>5. \A l \in DOMAIN instances : \A uid : Backs(instances', l, uid) = Backs(instances, l, uid)
    BY <2>2, Zenon DEF Backs
  <2>6. TypeInv'
    <3>1. faults' \in 0 .. MaxFaults
      BY <1>t, <2>3, SMTT(30) DEF TypeInv
    <3>2. podStep'[p].at \in {"idle"} \cup WorkSteps
      BY <2>3, Zenon DEF WorkSteps, BackedSteps
    <3>3. \A l \in DOMAIN instances' : DOMAIN instances'[l] = {"pod", "uid", "status", "deleting", "finalizer"}
      BY <1>t, <2>1, <2>2, Zenon DEF TypeInv
    <3> QED
      BY <1>t, <1>2, <2>3, <3>1, <3>2, <3>3, ZenonT(30) DEF TypeInv, Moves
  <2>7. UIDsOK'
    BY <1>u, <1>2, <2>1, <2>2, ZenonT(30) DEF UIDsOK
  <2>8. \A q \in Pods : WorkOK(q)'
    <3>1. WorkOK(p)'
      BY <1>w, <1>2, <2>3, <2>4, Zenon DEF WorkOK, BackedSteps, k
    <3>2. ASSUME NEW q \in Pods \ {p} PROVE WorkOK(q)'
      <4>1. podStep'[q] = podStep[q] /\ WorkOK(q)
        BY <1>w, <2>3, Zenon DEF Moves
      <4>2. faults = 1 => faults' = 1
        BY <2>3, Zenon
      <4>3. \A l, uid : Backs(instances, l, uid) => Backs(instances', l, uid)
        BY <2>2, Zenon DEF Backs
      <4> QED
        BY <1>2, <4>1, <4>2, <4>3, SMTT(30) DEF WorkOK
    <3> QED
      BY <3>1, <3>2, Zenon
  <2>9. InstanceBacksPod'
    BY <1>b, <1>2, <2>2, SMTT(30) DEF InstanceBacksPod, Running, PlainPods, GetKnownOwnReference
  <2>10. OnlyOne'
    <3>1. SUFFICES ASSUME faults' = 0, crashes = 0
                   PROVE  /\ \A q \in DOMAIN pods : \A l \in DOMAIN instances' :
                                pods[q].ip = None /\ podStep'[q].at \notin BackedSteps
                                    => ~Backs(instances', l, pods[q].uid)
                          /\ \A l, m \in DOMAIN instances' :
                                /\ instances'[l].uid = instances'[m].uid
                                /\ ~instances'[l].deleting /\ ~instances'[m].deleting
                                => l = m
      BY <1>o, <1>2, Zenon DEF OnlyOne
    <3>2. faults = 0 /\ podStep'[p].at \in BackedSteps
      BY <2>3, <3>1, SMTT(30) DEF BackedSteps
    <3>3. \A l \in DOMAIN instances : ~Backs(instances, l, pods[p].uid)
      BY <1>o, <1>1, <1>2, <3>1, <3>2, Zenon DEF OnlyOne, BackedSteps
    <3>4. ASSUME NEW q \in DOMAIN pods, NEW l \in DOMAIN instances',
                 pods[q].ip = None, podStep'[q].at \notin BackedSteps
          PROVE  ~Backs(instances', l, pods[q].uid)
      <4>1. q # p /\ podStep'[q] = podStep[q]
        BY <1>t, <2>3, <3>2, <3>4, Zenon DEF Moves, TypeInv
      <4>2. pods[q].uid # pods[p].uid
        BY <1>u, <1>2, <4>1, Zenon DEF UIDsOK
      <4> QED
        BY <1>o, <2>1, <2>2, <2>5, <3>1, <3>2, <3>4, <4>1, <4>2, SMTT(30) DEF OnlyOne, Backs
    <3>5. ASSUME NEW l \in DOMAIN instances', NEW m \in DOMAIN instances',
                 instances'[l].uid = instances'[m].uid,
                 ~instances'[l].deleting, ~instances'[m].deleting
          PROVE  l = m
      BY <1>o, <2>1, <2>2, <3>1, <3>2, <3>3, <3>5, SMTT(30) DEF OnlyOne, Backs
    <3> QED
      BY <3>4, <3>5, Zenon
  <2> QED
    BY <2>6, <2>7, <2>8, <2>9, <2>10, Zenon DEF NamesInv
<1> QED
  BY <1>3, <1>4, Zenon

\* The annotation of p is written: what a pod has afterwards, an IPInstance backs.
LEMMA AnnotationKeeps ==
    ASSUME PlainPods, NamesInv, NEW p \in DOMAIN pods, NEW ip, Moves(p),
           pods' = [pods EXCEPT ![p].ip = ip],
           UNCHANGED <<workload, instances, uids, crashes>>,
           faults' \in faults .. MaxFaults,
           podStep'[p].at \in {"idle"} \cup WorkSteps,
           WorkOK(p)',
           ip # None => Backs(instances, Key(p, ip), pods[p].uid),
           ip = None => podStep'[p].at \in BackedSteps
    PROVE  NamesInv'
<1>t. TypeInv
  BY Zenon DEF NamesInv
<1>u. UIDsOK
  BY Zenon DEF NamesInv
<1>w. \A r \in Pods : WorkOK(r)
  BY Zenon DEF NamesInv
<1>b. InstanceBacksPod
  BY Zenon DEF NamesInv
<1>o. OnlyOne
  BY Zenon DEF NamesInv
<1>0. MaxFaults \in Nat
  BY MaxFaultsNat, Zenon
<1>1. /\ DOMAIN pods' = DOMAIN pods
      /\ \A q \in DOMAIN pods \ {p} : pods'[q] = pods[q]
      /\ DOMAIN pods'[p] = DOMAIN pods[p] /\ pods'[p].ip = ip /\ pods'[p].uid = pods[p].uid
      /\ pods'[p].completed = pods[p].completed /\ pods'[p].deleting = pods[p].deleting
  BY <1>t, Zenon DEF TypeInv
<1>2. TypeInv'
  BY <1>t, <1>0, <1>1, SMTT(30) DEF TypeInv, Moves
<1>3. UIDsOK'
  BY <1>u, <1>1, SMTT(30) DEF UIDsOK
<1>4. \A q \in Pods : WorkOK(q)'
  <2>1. ASSUME NEW q \in Pods \ {p} PROVE WorkOK(q)'
    <3>1. podStep'[q] = podStep[q] /\ WorkOK(q)
      BY <1>w, Zenon DEF Moves
    <3> QED
      BY <1>t, <1>w, <1>0, <1>1, <3>1, SMTT(30) DEF WorkOK, TypeInv, PlainPods
  <2> QED
    BY <2>1, Zenon
<1>5. InstanceBacksPod'
  BY <1>b, <1>t, <1>1, SMTT(30) DEF InstanceBacksPod, Running, Backs, PlainPods, GetKnownOwnReference, TypeInv
<1>6. OnlyOne'
  BY <1>o, <1>t, <1>0, <1>1, SMTT(30) DEF OnlyOne, Moves, TypeInv
<1> QED
  BY <1>2, <1>3, <1>4, <1>5, <1>6, Zenon DEF NamesInv

\* The address of its own IPInstance.
LEMMA PatchIPtoPodKeeps ==
    ASSUME PlainPods, NamesInv, NEW p \in Pods, PatchIPtoPod(p)
    PROVE  NamesInv'
<1>t. TypeInv
  BY Zenon DEF NamesInv
<1>w. \A r \in Pods : WorkOK(r)
  BY Zenon DEF NamesInv
<1>1. podStep[p].at = "annotate"
  BY <1>t, Zenon DEF PatchIPtoPod, TypeInv, WorkSteps, BackedSteps
<1>2. /\ p \in DOMAIN pods /\ Backs(instances, Key(p, podStep[p].ip), pods[p].uid)
      /\ podStep[p].uid = pods[p].uid /\ podStep[p].ip # None
  BY <1>w, <1>1, Zenon DEF WorkOK, WorkSteps, BackedSteps
<1>3. /\ UNCHANGED <<workload, instances, uids, crashes>>
      /\ pods' = [pods EXCEPT ![p].ip = podStep[p].ip]
      /\ Reply(p, "annotate", "done", Noticed(p, pods'[p]))
  BY <1>1, <1>2, Zenon DEF PatchIPtoPod
<1>4. /\ p \in DOMAIN pods' /\ pods'[p].ip = podStep[p].ip /\ pods'[p].uid = pods[p].uid
  BY <1>t, <1>2, <1>3, Zenon DEF TypeInv
<1>5. /\ Moves(p)
      /\ \/ podStep'[p].at = "idle" /\ faults' = faults
         \/ /\ podStep'[p].at = "unannotate" /\ faults' = 1 /\ faults = 0 /\ MaxFaults = 1
            /\ podStep'[p].ip = podStep[p].ip /\ podStep'[p].uid = podStep[p].uid
  <2>1. OnError["annotate"] = "unannotate"
    BY Rollback, Zenon
  <2>2. PICK events : \/ Goto(p, "done", events) /\ faults' = faults
                      \/ Goto(p, "unannotate", events) /\ faults = 0 /\ faults' = 1 /\ MaxFaults = 1
    BY <1>t, <1>3, <2>1, ReplyMoves, Zenon
  <2> QED
    BY <1>t, <2>2, GotoMoves, SMTT(30)
<1>6. WorkOK(p)' /\ podStep'[p].at \in {"idle"} \cup WorkSteps
  BY <1>w, <1>2, <1>3, <1>4, <1>5, Zenon DEF WorkOK, WorkSteps, BackedSteps
<1>7. faults' \in faults .. MaxFaults
  BY <1>t, <1>5, FaultsStay, SMTT(30)
<1> QED
  BY <1>2, <1>3, <1>5, <1>6, <1>7, AnnotationKeeps, Zenon

\* The rollback of an annotation.
LEMMA ReleaseIPFromPodKeeps ==
    ASSUME PlainPods, NamesInv, NEW p \in Pods, ReleaseIPFromPod(p)
    PROVE  NamesInv'
<1>t. TypeInv
  BY Zenon DEF NamesInv
<1>w. \A r \in Pods : WorkOK(r)
  BY Zenon DEF NamesInv
<1>1. podStep[p].at = "unannotate"
  BY <1>t, Zenon DEF ReleaseIPFromPod, TypeInv, WorkSteps, BackedSteps
<1>2. /\ p \in DOMAIN pods /\ Backs(instances, Key(p, podStep[p].ip), pods[p].uid)
      /\ podStep[p].uid = pods[p].uid /\ podStep[p].ip # None /\ faults = 1
  BY <1>w, <1>1, Zenon DEF WorkOK, WorkSteps, BackedSteps
<1>3. /\ UNCHANGED <<workload, instances, uids, crashes>>
      /\ pods' = [pods EXCEPT ![p].ip = None]
      /\ Reply(p, "unannotate", "delete", Noticed(p, pods'[p]))
  BY <1>1, <1>2, SMTT(30) DEF ReleaseIPFromPod
<1>4. p \in DOMAIN pods' /\ pods'[p].ip = None /\ pods'[p].uid = pods[p].uid
  BY <1>t, <1>2, <1>3, Zenon DEF TypeInv
<1>5. /\ Moves(p) /\ podStep'[p].at = "delete" /\ faults' = 1
      /\ podStep'[p].ip = podStep[p].ip /\ podStep'[p].uid = podStep[p].uid
  <2>1. PICK events : Goto(p, "delete", events) /\ faults' = faults
    BY <1>t, <1>2, <1>3, ReplyMoves, SMTT(30)
  <2> QED
    BY <1>t, <1>2, <2>1, GotoMoves, SMTT(30)
<1>6. WorkOK(p)' /\ podStep'[p].at \in {"idle"} \cup WorkSteps /\ podStep'[p].at \in BackedSteps
  BY <1>w, <1>2, <1>3, <1>4, <1>5, Zenon DEF WorkOK, WorkSteps, BackedSteps
<1>7. faults' \in faults .. MaxFaults
  BY <1>t, <1>2, <1>5, FaultsStay, Zenon
<1> QED
  BY <1>2, <1>3, <1>5, <1>6, <1>7, AnnotationKeeps, Zenon

LEMMA NamesNext ==
    ASSUME PlainPods, NamesInv, [Next]_vars
    PROVE  NamesInv'
<1>1. ASSUME NEW p \in Pods, PodWork(p) PROVE NamesInv'
  <2>1. ~DoListed(p) /\ ~PatchFinalizer(p) /\ ~StatefulAllocate(p) /\ ~Assign(p) /\ ~ReCouple(p)
    BY ZenonT(30) DEF DoListed, PatchFinalizer, StatefulAllocate, Assign, ReCouple, NamesInv, TypeInv, WorkSteps, BackedSteps
  <2> QED
    BY <1>1, <2>1, StartPodKeeps, AllocateKeeps, CreateIPKeeps, UpdateIPStatusKeeps, PatchIPtoPodKeeps,
       ReleaseIPFromPodKeeps, DeleteIPKeeps, Zenon DEF PodWork
<1>2. ASSUME NEW p \in Pods, Cluster(p) PROVE NamesInv'
  BY <1>2, CreatePodKeeps, RemovePodKeeps, SilentKeeps, Zenon DEF Cluster
<1>3. ASSUME NEW p \in Pods, CallFails(p) PROVE NamesInv'
  BY <1>3, CallFailsKeeps, Zenon
<1>4. ASSUME NEW k \in Keys, CollectGarbage(k) \/ IPWork(k) \/ UnBindFails(k) PROVE NamesInv'
  BY <1>4, CollectGarbageKeeps, IPWorkKeeps, Zenon
<1>5. CASE UNCHANGED vars \/ Deliver \/ Refresh \/ DeleteWorkload
  BY <1>5, SilentKeeps, Zenon
<1>6. CASE Crash
  BY <1>6, CrashKeeps, Zenon
<1> QED
  BY <1>1, <1>2, <1>3, <1>4, <1>5, <1>6, Zenon DEF Next

(***************************************************************************)
(* The theorems.                                                           *)
(***************************************************************************)
LEMMA NamesInvariant ==
    ASSUME PlainPods
    PROVE  Spec => []NamesInv
<1>1. Init => NamesInv
  BY NamesInit, Zenon
<1>2. NamesInv /\ [Next]_vars => NamesInv'
  BY NamesNext, Zenon
<1> QED
  BY <1>1, <1>2, PTL DEF Spec

\* The annotation of a plain pod is backed by an IPInstance that is its own and stays, whatever the
\* cache shows, whenever the allocator is refreshed and the manager restarted: Couple writes the
\* annotation last, and rolls back in the reverse order.
THEOREM InstancesBackPods ==
    ASSUME PlainPods
    PROVE  Spec => []InstanceBacksPod
<1>1. NamesInv => InstanceBacksPod
  BY Zenon DEF NamesInv
<1> QED
  BY <1>1, NamesInvariant, PTL

\* Without failures and restarts a plain pod is allocated one address only, although it is
\* reconciled for every update and the cache may not show its IPInstance yet.
THEOREM OneInstance ==
    ASSUME PlainPods
    PROVE  Spec => []OneInstancePerPod
<1>1. NamesInv => OneInstancePerPod
  BY Zenon DEF NamesInv, OnlyOne, OneInstancePerPod
<1> QED
  BY <1>1, NamesInvariant, PTL

\* Plain pods of one namespace never share an address, even if the allocator hands it out twice: an
\* IPInstance is named after its address, and has one owner.
THEOREM NamesKeepApart ==
    ASSUME PlainPods, \A p, q \in Pods : NamespaceOf[p] = NamespaceOf[q]
    PROVE  Spec => []NoDuplicateAddress
<1>1. NamesInv => NoDuplicateAddress
  <2> SUFFICES ASSUME NamesInv, NEW p \in Running, NEW q \in Running, pods[p].ip = pods[q].ip
               PROVE  p = q
    BY Zenon DEF NoDuplicateAddress
  <2>1. p \in Pods /\ q \in Pods /\ p \in DOMAIN pods /\ q \in DOMAIN pods
    BY Zenon DEF NamesInv, TypeInv, Running
  <2>2. Key(p, pods[p].ip) = Key(q, pods[q].ip)
    BY <2>1, Zenon DEF Key
  <2>3. pods[p].uid = pods[q].uid
    BY <2>1, <2>2, ZenonT(30) DEF NamesInv, InstanceBacksPod, PlainPods, GetKnownOwnReference
  <2> QED
    BY <2>1, <2>3, Zenon DEF NamesInv, UIDsOK
<1> QED
  BY <1>1, NamesInvariant, PTL
==============================================================================
