-------------------------------- MODULE Filter --------------------------------
(***************************************************************************)
(* The loop of the daemon that keeps the ipsets and the iptables rules of  *)
(* one address family: the trigger with its channel and ticker, the lists  *)
(* it reads from the cache, and the refresh of every set by way of a       *)
(* temporary one.                                                          *)
(***************************************************************************)
EXTENDS Integers, Sequences, FiniteSets

CONSTANTS
    Items,          \* objects: networks, subnets, nodes, local pods, remote subnets and nodes
    KindOf,         \* item |-> its kind
    ModeOf,         \* network |-> "vxlan", "bgp" or "vlan"; a remote subnet |-> "vxlan" or "vlan"
    NetworkOf,      \* subnet |-> its network; local pod |-> its subnet
    Starts,         \* sets of items: what the cache may hold at first
    NoSet,          \* no such ipset
    MaxChanges,     \* bound: changes of the cache
    MaxFaults       \* bound: failing commands, restarts of the daemon

ASSUME FilterAssumption ==
    /\ Starts \subseteq SUBSET Items /\ \A S \in SUBSET Items : S # NoSet
    /\ MaxChanges \in Nat /\ MaxFaults \in Nat

VARIABLES
    cache,          \* the daemon's cache: the items that exist
    due,            \* a reconciler has seen the change and will trigger
    token,          \* the channel iptablesSyncCh, of capacity one
    loop,           \* the loop: where it is, how many sets it has refreshed, what it recorded
    bgpIfName,      \* the managers' interface names, which outlive a sync
    overlayIfName,
    upgradeWorkDone,
    ipset, temp,    \* kernel: the sets and the temporary sets, by name
    rules,          \* kernel: the rules of the hybridnet chains
    legacy,         \* kernel: the chains of an earlier version are there
    announced, readAt, failed,  \* history: the change last announced, last read; a sync failed since
    changes, faults

kernel == <<ipset, temp, rules, legacy>>
manager == <<bgpIfName, overlayIfName, upgradeWorkDone>>
history == <<announced, readAt, failed>>
vars == <<cache, due, token, loop, manager, kernel, history, changes, faults>>

\* In the order in which they are refreshed.
SetNames == <<"overlay", "all", "node", "bgp", "pod">>
Names == {SetNames[i] : i \in 1 .. Len(SetNames)}

Nothing == [s \in Names |-> {}]
Idle == [at |-> "idle", done |-> 0, view |-> Nothing]

Of(kind, c) == {i \in c : KindOf[i] = kind}

(***************************************************************************)
(* The cache and the triggers.                                             *)
(***************************************************************************)
\* The node reconciler does nothing without an overlay network; the others always trigger.
Announces(i) ==
    KindOf[i] \in {"node", "remotenode"} => \E n \in Of("network", cache) : ModeOf[n] = "vxlan"

ChangeCache(i) ==
    /\ changes < MaxChanges
    /\ changes' = changes + 1
    /\ cache' = IF i \in cache THEN cache \ {i} ELSE cache \cup {i}
    /\ due' = (due \/ Announces(i))
    /\ UNCHANGED <<token, loop, manager, kernel, history, faults>>

\* Mutant of iptablesSyncTrigger: the channel has no buffer.
Unbuffered == token' = (token \/ loop = Idle)

\* The send does not block: with the token there already, it does nothing.
iptablesSyncTrigger == token' = TRUE

\* The last thing that the reconcilers of nodes, subnets and IPInstances do.
Trigger ==
    /\ due
    /\ due' = FALSE
    /\ iptablesSyncTrigger
    /\ announced' = changes
    /\ UNCHANGED <<cache, loop, manager, kernel, readAt, failed, changes, faults>>

Tick ==
    /\ loop = Idle /\ ~token
    /\ iptablesSyncTrigger
    /\ UNCHANGED <<cache, due, loop, manager, kernel, history, changes, faults>>

(***************************************************************************)
(* One sync.                                                               *)
(***************************************************************************)
\* Reset, which leaves bgpIfName as it is, and the networks.
ReadNetworks ==
    /\ loop = Idle /\ token
    /\ token' = FALSE
    /\ LET modes == {ModeOf[n] : n \in Of("network", cache)}
       IN  /\ overlayIfName' = ("vxlan" \in modes)
           /\ bgpIfName' = (bgpIfName \/ "bgp" \in modes)
    /\ loop' = [Idle EXCEPT !.at = "read"]
    /\ readAt' = changes /\ failed' = FALSE
    /\ UNCHANGED <<cache, due, upgradeWorkDone, kernel, announced, changes, faults>>

\* What is recorded, by the set that it ends up in.
Lists(c) ==
    LET modeOf(s) == ModeOf[NetworkOf[s]]
        overlay == {s \in Of("subnet", c) : modeOf(s) = "vxlan"} \cup {s \in Of("remotesubnet", c) : ModeOf[s] = "vxlan"}
        node    == Of("node", c) \cup Of("remotenode", c)
    IN  [overlay |-> overlay,
         node    |-> node,
         all     |-> Of("subnet", c) \cup Of("remotesubnet", c) \cup node,
         bgp     |-> {s \in Of("subnet", c) : modeOf(s) = "bgp"},
         pod     |-> Of("pod", c)]

Fail ==
    /\ loop' = Idle
    /\ failed' = TRUE

\* The other objects; a subnet without its network ends the sync.
ReadObjects ==
    /\ loop.at = "read"
    /\ IF \A s \in Of("subnet", cache) : NetworkOf[s] \in cache
       THEN /\ loop' = [loop EXCEPT !.at = "fill", !.view = Lists(cache)]
            /\ UNCHANGED failed
       ELSE Fail
    /\ UNCHANGED <<cache, due, token, manager, kernel, announced, readAt, changes, faults>>

Current == SetNames[loop.done + 1]

\* Mutant of Create: the set itself is emptied first.
FlushFirst == [ipset EXCEPT ![Current] = {}]

\* Create: the set, if it is not there.
Create == [ipset EXCEPT ![Current] = IF @ = NoSet THEN {} ELSE @]

\* The temporary set is created, unless one has been left behind, and the entries are added.
BatchAdd == [temp EXCEPT ![Current] = (IF @ = NoSet THEN {} ELSE @) \cup loop.view[Current]]

FillTemp ==
    /\ loop.at = "fill"
    /\ ipset' = Create
    /\ temp' = BatchAdd
    /\ loop' = [loop EXCEPT !.at = "swap"]
    /\ UNCHANGED <<cache, due, token, manager, rules, legacy, history, changes, faults>>

Swap ==
    /\ loop.at = "swap"
    /\ ipset' = [ipset EXCEPT ![Current] = temp[Current]]
    /\ temp' = [temp EXCEPT ![Current] = ipset[Current]]
    /\ loop' = [loop EXCEPT !.at = "destroy"]
    /\ UNCHANGED <<cache, due, token, manager, rules, legacy, history, changes, faults>>

\* Mutant of Destroy: the temporary set is left for the next refresh.
KeepTemp == UNCHANGED temp

Destroy == temp' = [temp EXCEPT ![Current] = NoSet]

DestroyTemp ==
    /\ loop.at = "destroy"
    /\ Destroy
    /\ loop' = IF loop.done + 1 = Len(SetNames) THEN [loop EXCEPT !.at = "rules"]
               ELSE [loop EXCEPT !.at = "fill", !.done = @ + 1]
    /\ UNCHANGED <<cache, due, token, manager, ipset, rules, legacy, history, changes, faults>>

\* Mutant of RestoreAll: the chains are written only if there is an overlay network.
OverlayOnly == IF overlayIfName THEN [overlay |-> TRUE, bgp |-> bgpIfName] ELSE rules

\* The basic chains and rules are ensured, and the chains are replaced as a whole.
RestoreAll == [overlay |-> overlayIfName, bgp |-> bgpIfName]

\* ... and the chains of earlier versions are removed, once in the life of a daemon.
cleanDeprecatedBasicRuleAndChains ==
    /\ legacy' = (legacy /\ upgradeWorkDone)
    /\ upgradeWorkDone' = TRUE

WriteRules ==
    /\ loop.at = "rules"
    /\ rules' = RestoreAll
    /\ cleanDeprecatedBasicRuleAndChains
    /\ loop' = Idle
    /\ UNCHANGED <<cache, due, token, bgpIfName, overlayIfName, ipset, temp, history, changes, faults>>

createAndRefreshIPSet == FillTemp \/ Swap \/ DestroyTemp

SyncStep == ReadNetworks \/ ReadObjects \/ createAndRefreshIPSet \/ WriteRules

\* A command fails: what the sync has done so far stays.
SyncFails ==
    /\ loop # Idle /\ faults < MaxFaults
    /\ faults' = faults + 1
    /\ Fail
    /\ UNCHANGED <<cache, due, token, manager, kernel, announced, readAt, changes>>

Restart ==
    /\ faults < MaxFaults
    /\ faults' = faults + 1
    /\ Fail
    /\ due' = TRUE /\ token' = FALSE
    /\ bgpIfName' = FALSE /\ overlayIfName' = FALSE /\ upgradeWorkDone' = FALSE
    /\ UNCHANGED <<cache, kernel, announced, readAt, changes>>

Init ==
    /\ cache \in Starts
    /\ due = TRUE /\ token = FALSE /\ loop = Idle
    /\ bgpIfName = FALSE /\ overlayIfName = FALSE /\ upgradeWorkDone = FALSE
    /\ ipset = [s \in Names |-> NoSet] /\ temp = [s \in Names |-> NoSet]
    /\ rules = [overlay |-> FALSE, bgp |-> FALSE] /\ legacy \in BOOLEAN
    /\ announced = 0 /\ readAt = 0 /\ failed = FALSE
    /\ changes = 0 /\ faults = 0

Next ==
    \/ \E i \in Items : ChangeCache(i)
    \/ Trigger \/ Tick \/ SyncStep \/ SyncFails \/ Restart

Spec == Init /\ [][Next]_vars

\* The reconcilers finish, the ticker ticks and the loop's goroutine runs.
FairSpec == Spec /\ WF_vars(Trigger) /\ WF_vars(Tick) /\ WF_vars(SyncStep)

(***************************************************************************)
(* Properties.                                                             *)
(***************************************************************************)
\* The variables have their types; a temporary set exists only where the loop is, or where a
\* sync was cut short.
TypeOK ==
    /\ cache \subseteq Items
    /\ due \in BOOLEAN /\ token \in BOOLEAN /\ legacy \in BOOLEAN /\ failed \in BOOLEAN
    /\ bgpIfName \in BOOLEAN /\ overlayIfName \in BOOLEAN /\ upgradeWorkDone \in BOOLEAN
    /\ loop \in [at : {"idle", "read", "fill", "swap", "destroy", "rules"}, done : 0 .. Len(SetNames) - 1,
                 view : [Names -> SUBSET Items]]
    /\ ipset \in [Names -> (SUBSET Items) \cup {NoSet}] /\ temp \in [Names -> (SUBSET Items) \cup {NoSet}]
    /\ rules \in [overlay : BOOLEAN, bgp : BOOLEAN]
    /\ announced \in 0 .. MaxChanges /\ readAt \in 0 .. MaxChanges /\ changes \in 0 .. MaxChanges
    /\ faults \in 0 .. MaxFaults
    /\ faults = 0 => \A s \in Names : temp[s] # NoSet => loop.at \in {"swap", "destroy"} /\ s = Current

Members(s) == IF ipset[s] = NoSet THEN {} ELSE ipset[s]

\* A packet to i leaves by the overlay interface (generateVxlanFilterRuleSpec), and one that comes
\* in by the BGP interface gets to the pod i (generateBGPEndLoopRuleSpec).
Passes(i) == rules.overlay => i \in Members("all")
Arrives(i) == rules.bgp => i \in Members("pod") \/ NetworkOf[i] \notin Members("bgp")

\* What packets could reach before a step of the loop, and what belongs to the cluster in the
\* eyes of the loop, packets can reach after it: between the refresh of one set and the next,
\* and when the rules come, nothing of the cluster is shut out.  For the pods this holds only if
\* they have been in their set: a new pod is shut out between the refresh of "bgp", with its
\* subnet, and that of "pod".
FlowsKept ==
    [][/\ \A i \in loop.view["all"] : Passes(i) => Passes(i)'
       /\ \A i \in loop.view["pod"] : i \in Members("pod") /\ Arrives(i) => Arrives(i)']_vars

\* A change that was announced while a sync was under way is not lost: a loop that has nothing to
\* do, and whose last sync did not fail, has read the cache after the last announcement.
Prompt == loop = Idle /\ ~token /\ ~failed => readAt >= announced

Consistent == \A s \in Of("subnet", cache) : NetworkOf[s] \in cache

\* Whatever a failed sync or an earlier daemon left behind, temporary sets included, the sets end
\* up with what the cache holds and nothing else, the rules with the networks there are, and the
\* chains of earlier versions go.  A leftover rule about BGP has no subnet to match.
Converges ==
    <>[](Consistent =>
            /\ ipset = Lists(cache)
            /\ rules.overlay = ("vxlan" \in {ModeOf[n] : n \in Of("network", cache)})
            /\ "bgp" \in {ModeOf[n] : n \in Of("network", cache)} => rules.bgp
            /\ ~legacy)
====
