------------------------------- MODULE IPPool -------------------------------
(***************************************************************************)
(* What the IP address manager promises its callers, without subnets'      *)
(* ranges, counters, indexes and selection (see Allocator, which implements*)
(* this specification).  A slot is an address of a subnet of a network.    *)
(***************************************************************************)
EXTENDS Integers

CONSTANTS Pods, NoPod

VARIABLES
    allocatable,    \* the slots that exist: in range, no gateway, not excluded
    reserved,       \* the slots that are given only to a pod that asks for them
    owner           \* slot in use |-> its pod and status

poolVars == <<allocatable, reserved, owner>>

Free == allocatable \ DOMAIN owner

Network(slot) == slot[1]

Give(S, pod) ==
    owner' = [x \in DOMAIN owner \cup S |->
                IF x \in S THEN [Pod |-> pod, Status |-> "Using"] ELSE owner[x]]

SameSlots == allocatable' = allocatable /\ reserved' = reserved

\* Free slots that are not reserved go to a pod.
Grant(S, pod) ==
    /\ S \subseteq Free
    /\ Give(S, pod)
    /\ SameSlots

\* A pod takes slots that it names: free ones, its own, and retained ones.
Claim(S, pod) ==
    /\ S \subseteq allocatable
    /\ \A x \in S \cap DOMAIN owner :
          owner[x].Pod = pod \/ owner[x].Status = "Reserved"
    /\ Give(S, pod)
    /\ SameSlots

\* A reserved slot stays recorded, and remembers its last pod.
Yield(S) ==
    /\ owner' = [x \in DOMAIN owner \ (S \ reserved) |->
                   IF x \in S THEN [owner[x] EXCEPT !.Status = "Reserved"] ELSE owner[x]]
    /\ SameSlots

\* One network is read again, or removed.  The others are not touched.
Reload(network) ==
    /\ {x \in allocatable' : Network(x) # network} = {x \in allocatable : Network(x) # network}
    /\ {x \in reserved' : Network(x) # network} = {x \in reserved : Network(x) # network}
    /\ {x \in DOMAIN owner' : Network(x) # network} = {x \in DOMAIN owner : Network(x) # network}
    /\ \A x \in DOMAIN owner' : Network(x) # network => owner'[x] = owner[x]
    /\ reserved' \subseteq DOMAIN owner'
    /\ DOMAIN owner' \subseteq allocatable'

PoolInit == allocatable = {} /\ reserved = {} /\ owner = [x \in {} |-> {}]

\* The slots that a step gives to a pod, and those that it takes away.
Given == {x \in DOMAIN owner' : x \in DOMAIN owner => owner[x] # owner'[x]}

Taken == {x \in DOMAIN owner : x \in DOMAIN owner' => owner[x] # owner'[x]}

\* A call is about one slot, or about an IPv4 and an IPv6 one.
OneOrTwo(S) == \E x, y \in S : S = {x, y}

PoolNext ==
    \/ /\ OneOrTwo(Given)
       /\ \E pod \in Pods : Grant(Given, pod) \/ Claim(Given, pod)
    \/ /\ OneOrTwo(Taken)
       /\ Yield(Taken)
    \/ \E x \in allocatable \cup allocatable' : Reload(Network(x))

PoolSpec == PoolInit /\ [][PoolNext]_poolVars

(***************************************************************************)
(* Properties.                                                             *)
(***************************************************************************)
\* Every slot in use exists, and no reserved slot is ever free.
PoolOK == reserved \subseteq DOMAIN owner /\ DOMAIN owner \subseteq allocatable
=============================================================================
