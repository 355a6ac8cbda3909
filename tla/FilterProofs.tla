---------------------------- MODULE FilterProofs ----------------------------
(***************************************************************************)
(* Proofs about Filter, for any objects and any number of changes, failing *)
(* commands and restarts.                                                  *)
(***************************************************************************)
EXTENDS Filter, TLAPS

\* What a set is swapped with is there, and holds everything that the sync has recorded for it.
TempReady ==
    loop.at = "swap" =>
        /\ ipset[Current] # NoSet /\ temp[Current] # NoSet
        /\ loop.view[Current] \subseteq temp[Current]

\* No announcement is later than the last change; without a token, and with no failure since, the
\* cache has been read after the last announcement, wherever the loop is.
Heard ==
    /\ announced <= changes
    /\ ~token /\ ~failed => readAt >= announced

(***************************************************************************)
(* TypeOK in parts.                                                        *)
(***************************************************************************)
Flags ==
    /\ due \in BOOLEAN /\ token \in BOOLEAN /\ legacy \in BOOLEAN /\ failed \in BOOLEAN
    /\ bgpIfName \in BOOLEAN /\ overlayIfName \in BOOLEAN /\ upgradeWorkDone \in BOOLEAN

Places == {"idle", "read", "fill", "swap", "destroy", "rules"}

LoopOK == loop \in [at : Places, done : 0 .. 4, view : [Names -> SUBSET Items]]

SetOrNone == (SUBSET Items) \cup {NoSet}

KernelOK ==
    /\ ipset \in [Names -> SetOrNone] /\ temp \in [Names -> SetOrNone]
    /\ rules \in [overlay : BOOLEAN, bgp : BOOLEAN]

Counters ==
    /\ announced \in 0 .. MaxChanges /\ readAt \in 0 .. MaxChanges /\ changes \in 0 .. MaxChanges
    /\ faults \in 0 .. MaxFaults

Leftovers ==
    faults = 0 => \A s \in Names : temp[s] # NoSet => loop.at \in {"swap", "destroy"} /\ s = Current

\* The inductive invariant.
IInv ==
    /\ cache \subseteq Items /\ Flags /\ LoopOK /\ KernelOK /\ Counters /\ Leftovers
    /\ TempReady /\ Heard

\* The five sets, in their order.
LEMMA FiveSets ==
    /\ Len(SetNames) = 5
    /\ \A i \in 1 .. 5 : SetNames[i] \in Names
    /\ \A i, j \in 1 .. 5 : SetNames[i] = SetNames[j] => i = j
    /\ SetNames[2] = "all"
    /\ {"overlay", "all", "node", "bgp", "pod"} = Names
<1>1. Len(SetNames) = 5
  BY DEF SetNames
<1>2. /\ SetNames[1] = "overlay" /\ SetNames[2] = "all" /\ SetNames[3] = "node"
      /\ SetNames[4] = "bgp" /\ SetNames[5] = "pod"
  BY DEF SetNames
<1>3. 1 .. 5 = {1, 2, 3, 4, 5}
  OBVIOUS
<1> QED
  BY <1>1, <1>2, <1>3 DEF Names

\* The set being refreshed is one of them.
LEMMA CurrentIsName ==
    ASSUME LoopOK
    PROVE  Current \in Names
BY FiveSets DEF LoopOK, Current

\* What the sync records are sets of objects.
LEMMA ListsType ==
    ASSUME NEW c, c \subseteq Items
    PROVE  Lists(c) \in [Names -> SUBSET Items]
<1>1. \A kind : Of(kind, c) \subseteq Items
  BY DEF Of
<1>2. \A s \in {"overlay", "all", "node", "bgp", "pod"} : Lists(c)[s] \in SUBSET Items
  BY <1>1 DEF Lists
<1>3. Lists(c) = [s \in {"overlay", "all", "node", "bgp", "pod"} |-> Lists(c)[s]]
  BY DEF Lists
<1> QED
  BY <1>2, <1>3, FiveSets

(***************************************************************************)
(* The invariant holds initially, and every step keeps it.                 *)
(***************************************************************************)
LEMMA InitIInv == Init => IInv
<1> SUFFICES ASSUME Init PROVE IInv
  OBVIOUS
<1>1. loop = [at |-> "idle", done |-> 0, view |-> Nothing] /\ Nothing \in [Names -> SUBSET Items]
  BY DEF Init, Idle, Nothing
<1>2. LoopOK
  BY <1>1 DEF LoopOK, Places
<1>3. Flags /\ cache \subseteq Items
  BY FilterAssumption DEF Init, Flags
<1>4. KernelOK /\ Leftovers
  BY DEF Init, KernelOK, SetOrNone, Leftovers
<1>5. Counters
  BY FilterAssumption DEF Init, Counters
<1> QED
  BY <1>1, <1>2, <1>3, <1>4, <1>5 DEF Init, IInv, TempReady, Heard

\* Steps that leave the loop and the kernel alone: the cache, the trigger, the ticker.
LEMMA OutsideStep ==
    ASSUME IInv, (\E i \in Items : ChangeCache(i)) \/ Trigger \/ Tick
    PROVE  IInv'
<1>1. /\ UNCHANGED <<loop, ipset, temp, rules, legacy, readAt, failed, faults>>
      /\ UNCHANGED <<bgpIfName, overlayIfName, upgradeWorkDone>>
  BY DEF ChangeCache, Trigger, Tick, history, manager, kernel
<1>2. cache \subseteq Items /\ Flags /\ LoopOK /\ KernelOK /\ Counters /\ Leftovers /\ TempReady /\ Heard
  BY DEF IInv
<1>3. TempReady' /\ LoopOK' /\ KernelOK' /\ Leftovers'
  BY <1>1, <1>2 DEF TempReady, LoopOK, KernelOK, Leftovers, Current
<1>4. CASE \E i \in Items : ChangeCache(i)
  <2>1. cache' \subseteq Items /\ UNCHANGED <<token, announced>> /\ changes' = changes + 1 /\ changes < MaxChanges
    BY <1>2, <1>4 DEF ChangeCache, history
  <2>2. due' \in BOOLEAN
    BY <1>4, Zenon DEF ChangeCache
  <2>3. Counters' /\ Heard'
    BY <1>1, <1>2, <2>1, FilterAssumption DEF Counters, Heard
  <2> QED
    BY <1>1, <1>2, <1>3, <2>1, <2>2, <2>3 DEF IInv, Flags
<1>5. CASE Trigger \/ Tick
  <2>1. UNCHANGED <<cache, changes>> /\ token' = TRUE /\ announced' \in {announced, changes} /\ due' \in {due, FALSE}
    BY <1>5 DEF Trigger, Tick, iptablesSyncTrigger, history
  <2>2. Counters'
    BY <1>1, <1>2, <2>1 DEF Counters
  <2>3. announced' <= changes'
    BY <1>2, <2>1 DEF Counters, Heard
  <2>4. Heard' /\ Flags'
    BY <1>1, <1>2, <2>1, <2>3, Zenon DEF Heard, Flags
  <2> QED
    BY <1>2, <1>3, <2>1, <2>2, <2>4 DEF IInv
<1> QED
  BY <1>4, <1>5

\* A sync that ends, for whatever reason, with the kernel as it is.
LEMMA FailStep ==
    ASSUME IInv, loop' = Idle, failed' = TRUE, UNCHANGED <<cache, kernel, announced, readAt, changes>>,
           faults' \in 0 .. MaxFaults, faults' = 0 => faults = 0 /\ loop.at \notin {"swap", "destroy"},
           due' \in BOOLEAN, token' \in BOOLEAN,
           bgpIfName' \in BOOLEAN, overlayIfName' \in BOOLEAN, upgradeWorkDone' \in BOOLEAN
    PROVE  IInv'
<1>1. loop' = [at |-> "idle", done |-> 0, view |-> Nothing] /\ Nothing \in [Names -> SUBSET Items]
  BY DEF Idle, Nothing
<1>2. LoopOK' /\ TempReady'
  BY <1>1 DEF LoopOK, Places, TempReady
<1>3. Flags'
  BY DEF IInv, Flags, kernel
<1>4. KernelOK' /\ Counters'
  BY DEF IInv, KernelOK, Counters, kernel
<1>5. Leftovers'
  BY DEF IInv, Leftovers, kernel
<1>6. Heard'
  BY DEF IInv, Heard
<1> QED
  BY <1>2, <1>3, <1>4, <1>5, <1>6 DEF IInv

\* The networks are read.
LEMMA ReadNetworksStep ==
    ASSUME IInv, ReadNetworks
    PROVE  IInv'
<1>1. /\ loop.at = "idle" /\ loop' = [at |-> "read", done |-> 0, view |-> Nothing]
      /\ Nothing \in [Names -> SUBSET Items]
  BY DEF ReadNetworks, Idle, Nothing
<1>2. LoopOK' /\ TempReady'
  BY <1>1 DEF LoopOK, Places, TempReady
<1>3. Flags'
  <2> DEFINE modes == {ModeOf[n] : n \in Of("network", cache)}
  <2>1. overlayIfName' = ("vxlan" \in modes) /\ bgpIfName' = (bgpIfName \/ "bgp" \in modes)
    BY DEF ReadNetworks
  <2>2. /\ token' = FALSE /\ failed' = FALSE
        /\ UNCHANGED <<due, legacy, upgradeWorkDone>>
    BY DEF ReadNetworks, kernel
  <2> HIDE DEF modes
  <2>3. overlayIfName' \in BOOLEAN /\ bgpIfName' \in BOOLEAN
    <3>1. ("vxlan" \in modes) \in BOOLEAN /\ (bgpIfName \/ "bgp" \in modes) \in BOOLEAN
      OBVIOUS
    <3> QED
      BY <2>1, <3>1, Zenon
  <2> QED
    BY <2>2, <2>3 DEF IInv, Flags
<1>4. UNCHANGED <<cache, ipset, temp, rules, announced, changes, faults>> /\ readAt' = changes
  BY DEF ReadNetworks, kernel
<1>5. KernelOK' /\ Counters' /\ Leftovers'
  BY <1>1, <1>4 DEF IInv, KernelOK, Counters, Leftovers
<1>6. Heard'
  BY <1>4 DEF IInv, Heard, Counters
<1> QED
  BY <1>2, <1>3, <1>4, <1>5, <1>6 DEF IInv

\* The other objects are read.
LEMMA ReadObjectsStep ==
    ASSUME IInv, ReadObjects
    PROVE  IInv'
<1>1. /\ loop.at = "read"
      /\ UNCHANGED <<cache, due, token, manager, kernel, announced, readAt, changes, faults>>
  BY DEF ReadObjects
<1>2. CASE ~\A s \in Of("subnet", cache) : NetworkOf[s] \in cache
  <2>1. loop' = Idle /\ failed' = TRUE
    BY <1>2 DEF ReadObjects, Fail
  <2> QED
    BY <1>1, <2>1, FailStep DEF IInv, Counters, Flags, manager
<1>3. CASE \A s \in Of("subnet", cache) : NetworkOf[s] \in cache
  <2>1. loop' = [loop EXCEPT !.at = "fill", !.view = Lists(cache)] /\ failed' = failed
    BY <1>3 DEF ReadObjects
  <2>2. Lists(cache) \in [Names -> SUBSET Items]
    BY ListsType DEF IInv
  <2>3. LoopOK' /\ loop'.at = "fill"
    BY <2>1, <2>2 DEF IInv, LoopOK, Places
  <2>4. TempReady' /\ Leftovers'
    BY <1>1, <2>3 DEF IInv, TempReady, Leftovers, kernel
  <2>5. KernelOK' /\ Counters' /\ Heard'
    BY <1>1, <2>1 DEF IInv, KernelOK, Counters, Heard, kernel
  <2>6. Flags' /\ cache' \subseteq Items
    BY <1>1, <2>1 DEF IInv, Flags, manager, kernel
  <2> QED
    BY <2>3, <2>4, <2>5, <2>6 DEF IInv
<1> QED
  BY <1>2, <1>3

\* The set is created if need be, and the temporary one gets what was recorded.
LEMMA FillTempStep ==
    ASSUME IInv, FillTemp
    PROVE  IInv'
<1>1. /\ loop.at = "fill" /\ loop' = [loop EXCEPT !.at = "swap"]
      /\ ipset' = Create /\ temp' = BatchAdd
      /\ UNCHANGED <<cache, due, token, manager, rules, legacy, history, changes, faults>>
  BY DEF FillTemp
<1>2. LoopOK' /\ loop'.at = "swap" /\ loop'.view = loop.view /\ loop'.done = loop.done
  BY <1>1 DEF IInv, LoopOK, Places
<1>3. Current' = Current /\ Current \in Names
  BY <1>2, CurrentIsName DEF IInv, Current
<1>4. loop.view[Current] \in SUBSET Items
  BY <1>3 DEF IInv, LoopOK
<1>5. /\ ipset' \in [Names -> SetOrNone] /\ ipset'[Current] \in SUBSET Items
      /\ temp' \in [Names -> SetOrNone] /\ temp'[Current] \in SUBSET Items
      /\ loop.view[Current] \subseteq temp'[Current]
      /\ \A s \in Names \ {Current} : temp'[s] = temp[s]
  BY <1>1, <1>3, <1>4 DEF IInv, KernelOK, SetOrNone, Create, BatchAdd
<1>6. TempReady'
  BY <1>2, <1>3, <1>5, FilterAssumption DEF TempReady
<1>7. Leftovers'
  BY <1>1, <1>2, <1>3, <1>5 DEF IInv, Leftovers
<1>8. KernelOK' /\ Counters' /\ Heard' /\ cache' \subseteq Items
  BY <1>1, <1>5 DEF IInv, KernelOK, Counters, Heard, history
<1>9. Flags'
  BY <1>1 DEF IInv, Flags, manager, history
<1> QED
  BY <1>2, <1>6, <1>7, <1>8, <1>9 DEF IInv

\* The two sets change their names.
LEMMA SwapStep ==
    ASSUME IInv, Swap
    PROVE  IInv'
<1>1. /\ loop.at = "swap" /\ loop' = [loop EXCEPT !.at = "destroy"]
      /\ ipset' = [ipset EXCEPT ![Current] = temp[Current]]
      /\ temp' = [temp EXCEPT ![Current] = ipset[Current]]
      /\ UNCHANGED <<cache, due, token, manager, rules, legacy, history, changes, faults>>
  BY DEF Swap
<1>2. LoopOK' /\ loop'.at = "destroy" /\ loop'.done = loop.done
  BY <1>1 DEF IInv, LoopOK, Places
<1>3. Current' = Current /\ Current \in Names
  BY <1>2, CurrentIsName DEF IInv, Current
<1>4. TempReady'
  BY <1>2 DEF TempReady
<1>5. /\ ipset' \in [Names -> SetOrNone] /\ temp' \in [Names -> SetOrNone]
      /\ \A s \in Names \ {Current} : temp'[s] = temp[s]
  BY <1>1, <1>3 DEF IInv, KernelOK
<1>6. Leftovers'
  BY <1>1, <1>2, <1>3, <1>5 DEF IInv, Leftovers
<1>7. KernelOK' /\ Counters' /\ Heard' /\ cache' \subseteq Items
  BY <1>1, <1>5 DEF IInv, KernelOK, Counters, Heard, history
<1>8. Flags'
  BY <1>1 DEF IInv, Flags, manager, history
<1> QED
  BY <1>2, <1>4, <1>6, <1>7, <1>8 DEF IInv

\* The temporary set is destroyed, and the next set has its turn.
LEMMA DestroyTempStep ==
    ASSUME IInv, DestroyTemp
    PROVE  IInv'
<1>1. /\ loop.at = "destroy" /\ temp' = [temp EXCEPT ![Current] = NoSet]
      /\ UNCHANGED <<cache, due, token, manager, ipset, rules, legacy, history, changes, faults>>
  BY DEF DestroyTemp, Destroy
<1>2. LoopOK' /\ loop'.at \in {"rules", "fill"}
  <2>1. LoopOK
    BY DEF IInv
  <2>2. CASE loop.done + 1 = 5
    <3>1. loop' = [loop EXCEPT !.at = "rules"]
      BY <2>2, FiveSets DEF DestroyTemp
    <3> QED
      BY <2>1, <3>1 DEF LoopOK, Places
  <2>3. CASE loop.done + 1 # 5
    <3>1. loop' = [loop EXCEPT !.at = "fill", !.done = @ + 1]
      BY <2>3, FiveSets DEF DestroyTemp
    <3>2. loop' = [at |-> "fill", done |-> loop.done + 1, view |-> loop.view]
      BY <2>1, <3>1 DEF LoopOK
    <3> QED
      BY <2>1, <2>3, <3>2 DEF LoopOK, Places
  <2> QED
    BY <2>2, <2>3
<1>3. Current \in Names
  BY CurrentIsName DEF IInv
<1>4. TempReady'
  BY <1>2 DEF TempReady
<1>5. temp' \in [Names -> SetOrNone] /\ \A s \in Names \ {Current} : temp'[s] = temp[s]
  BY <1>1, <1>3 DEF IInv, KernelOK, SetOrNone
<1>6. temp'[Current] = NoSet
  BY <1>1, <1>3 DEF IInv, KernelOK
<1>7. Leftovers'
  BY <1>1, <1>5, <1>6 DEF IInv, Leftovers
<1>8. KernelOK' /\ Counters' /\ Heard' /\ cache' \subseteq Items
  BY <1>1, <1>5 DEF IInv, KernelOK, Counters, Heard, history
<1>9. Flags'
  BY <1>1 DEF IInv, Flags, manager, history
<1> QED
  BY <1>2, <1>4, <1>7, <1>8, <1>9 DEF IInv

\* The chains are written.
LEMMA WriteRulesStep ==
    ASSUME IInv, WriteRules
    PROVE  IInv'
<1>1. /\ loop.at = "rules" /\ loop' = [at |-> "idle", done |-> 0, view |-> Nothing]
      /\ Nothing \in [Names -> SUBSET Items]
      /\ UNCHANGED <<cache, due, token, bgpIfName, overlayIfName, ipset, temp, history, changes, faults>>
  BY DEF WriteRules, Idle, Nothing
<1>2. LoopOK' /\ TempReady'
  BY <1>1 DEF LoopOK, Places, TempReady
<1>3. rules' = [overlay |-> overlayIfName, bgp |-> bgpIfName]
  BY DEF WriteRules, RestoreAll
<1>4. KernelOK'
  BY <1>1, <1>3 DEF IInv, KernelOK, Flags
<1>5. Leftovers' /\ Counters' /\ Heard' /\ cache' \subseteq Items
  BY <1>1 DEF IInv, Leftovers, Counters, Heard, history
<1>6. legacy' \in BOOLEAN /\ upgradeWorkDone' \in BOOLEAN
  BY Zenon DEF WriteRules, cleanDeprecatedBasicRuleAndChains
<1>7. Flags'
  BY <1>1, <1>6 DEF IInv, Flags, history
<1> QED
  BY <1>2, <1>4, <1>5, <1>7 DEF IInv

\* Every step keeps the invariant.
LEMMA NextIInv == IInv /\ [Next]_vars => IInv'
<1> SUFFICES ASSUME IInv, [Next]_vars PROVE IInv'
  OBVIOUS
<1>1. CASE (\E i \in Items : ChangeCache(i)) \/ Trigger \/ Tick
  BY <1>1, OutsideStep
<1>2. CASE SyncStep
  BY <1>2, ReadNetworksStep, ReadObjectsStep, FillTempStep, SwapStep, DestroyTempStep, WriteRulesStep
     DEF SyncStep, createAndRefreshIPSet
<1>3. CASE SyncFails
  <2>1. /\ faults < MaxFaults /\ faults' = faults + 1 /\ loop' = Idle /\ failed' = TRUE
        /\ UNCHANGED <<cache, due, token, manager, kernel, announced, readAt, changes>>
    BY <1>3 DEF SyncFails, Fail
  <2>2. faults' \in 0 .. MaxFaults /\ faults' # 0
    BY <2>1, FilterAssumption DEF IInv, Counters
  <2> QED
    BY <2>1, <2>2, FailStep DEF IInv, Flags, manager
<1>4. CASE Restart
  <2>1. /\ faults < MaxFaults /\ faults' = faults + 1 /\ loop' = Idle /\ failed' = TRUE
        /\ due' = TRUE /\ token' = FALSE
        /\ bgpIfName' = FALSE /\ overlayIfName' = FALSE /\ upgradeWorkDone' = FALSE
        /\ UNCHANGED <<cache, kernel, announced, readAt, changes>>
    BY <1>4 DEF Restart, Fail
  <2>2. faults' \in 0 .. MaxFaults /\ faults' # 0
    BY <2>1, FilterAssumption DEF IInv, Counters
  <2> QED
    BY <2>1, <2>2, FailStep
<1>5. CASE UNCHANGED vars
  BY <1>5 DEF vars, manager, kernel, history, IInv, Flags, LoopOK, KernelOK, Counters, Leftovers,
              TempReady, Heard, Current
<1> QED
  BY <1>1, <1>2, <1>3, <1>4, <1>5 DEF Next

\* The invariant holds throughout.
THEOREM Invariance == Spec => []IInv
<1> QED
  BY InitIInv, NextIInv, PTL DEF Spec

(***************************************************************************)
(* What follows from it.                                                   *)
(***************************************************************************)
\* Whatever is interrupted and wherever, the loop and the sets keep their types, and unless a sync
\* was cut short, the one temporary set is that of the refresh under way (RefreshWithBuiltinOptions).
THEOREM FilterTypeCorrect == Spec => []TypeOK
<1>1. IInv => TypeOK
  BY FiveSets DEF IInv, TypeOK, Flags, LoopOK, Places, KernelOK, SetOrNone, Counters, Leftovers
<1> QED
  BY <1>1, Invariance, PTL

\* A channel with room for one event loses no announcement, however many there are and whatever
\* the loop is doing (iptablesSyncTrigger).
THEOREM PromptCorrect == Spec => []Prompt
<1>1. IInv => Prompt
  BY DEF IInv, Heard, Prompt
<1> QED
  BY <1>1, Invariance, PTL

(***************************************************************************)
(* Nothing of the cluster is shut out.                                     *)
(***************************************************************************)
\* The sets whose turn is over.
Past(k) == k <= loop.done \/ (k = loop.done + 1 /\ loop.at \in {"destroy", "rules"})

\* They hold what the sync has recorded for them; the rules come when all of them do.
Refreshed ==
    /\ loop.at \in {"idle", "read"} => loop.done = 0
    /\ loop.at = "rules" => loop.done = 4
    /\ \A k \in 1 .. 5 : Past(k) => loop.view[SetNames[k]] \subseteq Members(SetNames[k])

\* Only a swap changes the members of a set.
LEMMA MembersKept ==
    ASSUME IInv, [Next]_vars, ~Swap, NEW s \in Names
    PROVE  Members(s)' = Members(s)
<1>1. CASE ipset' = ipset
  BY <1>1 DEF Members
<1>2. CASE FillTemp
  <2>1. ipset' = [ipset EXCEPT ![Current] = IF @ = NoSet THEN {} ELSE @] /\ ipset \in [Names -> SetOrNone]
    BY <1>2 DEF FillTemp, Create, IInv, KernelOK
  <2>2. {} # NoSet
    BY FilterAssumption
  <2> QED
    BY <2>1, <2>2 DEF Members
<1> QED
  BY <1>1, <1>2 DEF Next, SyncStep, createAndRefreshIPSet, ChangeCache, Trigger, Tick, ReadNetworks, ReadObjects,
                    DestroyTemp, WriteRules, SyncFails, Restart, kernel, vars

\* A swap gives its set what the sync has recorded for it, and leaves the others alone.
LEMMA SwapMembers ==
    ASSUME IInv, Swap, NEW s \in Names
    PROVE  IF s = Current THEN loop.view[s] \subseteq Members(s)' ELSE Members(s)' = Members(s)
<1>1. Current \in Names
  BY CurrentIsName DEF IInv
<1>2. ipset' = [ipset EXCEPT ![Current] = temp[Current]] /\ ipset \in [Names -> SetOrNone]
  BY DEF Swap, IInv, KernelOK
<1>3. loop.view[Current] \subseteq temp[Current] /\ temp[Current] # NoSet
  BY DEF IInv, TempReady, Swap
<1>4. ipset'[s] = IF s = Current THEN temp[s] ELSE ipset[s]
  BY <1>1, <1>2
<1> QED
  BY <1>3, <1>4 DEF Members

\* Every step keeps what the sets whose turn is over hold.
LEMMA NextRefreshed == IInv /\ Refreshed /\ [Next]_vars => Refreshed'
<1> SUFFICES ASSUME IInv, Refreshed, [Next]_vars PROVE Refreshed'
  OBVIOUS
<1>1. LoopOK /\ \A k \in 1 .. 5 : SetNames[k] \in Names
  BY FiveSets DEF IInv
<1>2. CASE loop' = loop /\ ~Swap
  BY <1>1, <1>2, MembersKept DEF Refreshed, Past
<1>3. CASE loop' = Idle
  BY <1>3 DEF Refreshed, Past, Idle
<1>4. CASE ReadNetworks
  BY <1>4 DEF Refreshed, Past, Idle, ReadNetworks
<1>5. CASE ReadObjects /\ loop' # Idle
  <2>1. loop.at = "read" /\ loop' = [loop EXCEPT !.at = "fill", !.view = Lists(cache)]
    BY <1>5 DEF ReadObjects, Fail
  <2>2. loop'.at = "fill" /\ loop'.done = loop.done
    BY <1>1, <2>1 DEF LoopOK
  <2> QED
    BY <2>1, <2>2 DEF Refreshed, Past
<1>6. CASE FillTemp
  <2>1. loop.at = "fill" /\ loop' = [loop EXCEPT !.at = "swap"] /\ ~Swap
    BY <1>6 DEF FillTemp, Swap
  <2>2. loop'.at = "swap" /\ loop'.done = loop.done /\ loop'.view = loop.view
    BY <1>1, <2>1 DEF LoopOK
  <2> QED
    BY <1>1, <2>1, <2>2, MembersKept DEF Refreshed, Past
<1>7. CASE Swap
  <2>1. loop.at = "swap" /\ loop' = [loop EXCEPT !.at = "destroy"]
    BY <1>7 DEF Swap
  <2>2. loop'.at = "destroy" /\ loop'.done = loop.done /\ loop'.view = loop.view
    BY <1>1, <2>1 DEF LoopOK
  <2>3. loop.done \in 0 .. 4 /\ Current = SetNames[loop.done + 1] /\ Current' = Current
    BY <1>1, <2>2 DEF LoopOK, Current
  <2>4. ASSUME NEW k \in 1 .. 5, Past(k)'
        PROVE  loop'.view[SetNames[k]] \subseteq Members(SetNames[k])'
    <3>1. CASE k = loop.done + 1
      BY <1>1, <1>7, <2>2, <2>3, <3>1, SwapMembers
    <3>2. CASE k # loop.done + 1
      <4>1. k <= loop.done /\ SetNames[k] \in Names \ {Current}
        BY <1>1, <2>2, <2>3, <2>4, <3>2, FiveSets DEF Past
      <4> QED
        BY <1>7, <2>2, <4>1, SwapMembers DEF Refreshed, Past
    <3> QED
      BY <3>1, <3>2
  <2> QED
    BY <2>2, <2>4 DEF Refreshed
<1>8. CASE DestroyTemp
  <2>1. loop.at = "destroy" /\ loop.done \in 0 .. 4 /\ ~Swap
    BY <1>1, <1>8 DEF DestroyTemp, LoopOK, Swap
  <2>2. CASE loop.done + 1 = 5
    <3>1. loop' = [loop EXCEPT !.at = "rules"]
      BY <1>8, <2>2, FiveSets DEF DestroyTemp
    <3>2. loop'.at = "rules" /\ loop'.done = loop.done /\ loop'.view = loop.view
      BY <1>1, <3>1 DEF LoopOK
    <3> QED
      BY <1>1, <2>1, <2>2, <3>2, MembersKept DEF Refreshed, Past
  <2>3. CASE loop.done + 1 # 5
    <3>1. loop' = [loop EXCEPT !.at = "fill", !.done = @ + 1]
      BY <1>8, <2>3, FiveSets DEF DestroyTemp
    <3>2. loop'.at = "fill" /\ loop'.done = loop.done + 1 /\ loop'.view = loop.view
      BY <1>1, <3>1 DEF LoopOK
    <3> QED
      BY <1>1, <2>1, <3>2, MembersKept DEF Refreshed, Past
  <2> QED
    BY <2>2, <2>3
<1> QED
  BY <1>2, <1>3, <1>4, <1>5, <1>6, <1>7, <1>8
     DEF Next, SyncStep, createAndRefreshIPSet, ChangeCache, Trigger, Tick, WriteRules, SyncFails, Restart, Fail,
         Swap, ReadObjects, vars

\* What the property asks of a step.
LEMMA StepKeepsFlows ==
    ASSUME IInv, Refreshed, [Next]_vars
    PROVE  /\ \A i \in loop.view["all"] : Passes(i) => Passes(i)'
           /\ \A i \in loop.view["pod"] : i \in Members("pod") /\ Arrives(i) => Arrives(i)'
<1>1. {"all", "pod"} \subseteq Names
  BY FiveSets
<1>2. ASSUME NEW s \in Names, NEW i \in loop.view[s], i \in Members(s)
      PROVE  i \in Members(s)'
  <2>1. CASE Swap
    BY <1>2, <2>1, SwapMembers
  <2>2. CASE ~Swap
    BY <1>2, <2>2, MembersKept
  <2> QED
    BY <2>1, <2>2
<1>3. ASSUME NEW i \in loop.view["all"], Passes(i)
      PROVE  Passes(i)'
  <2>1. CASE rules.overlay
    BY <1>1, <1>2, <1>3, <2>1 DEF Passes
  <2>2. CASE WriteRules
    <3>1. loop.at = "rules" /\ loop.done = 4 /\ ~Swap
      BY <2>2 DEF WriteRules, Refreshed, Swap
    <3>2. i \in Members("all")
      BY <3>1, FiveSets DEF Refreshed, Past
    <3> QED
      BY <1>1, <1>2, <3>2 DEF Passes
  <2>3. CASE ~rules.overlay /\ ~WriteRules
    <3>1. rules' = rules
      BY <2>3 DEF Next, SyncStep, createAndRefreshIPSet, ChangeCache, Trigger, Tick, ReadNetworks, ReadObjects,
                  FillTemp, Swap, DestroyTemp, SyncFails, Restart, kernel, vars
    <3> QED
      BY <2>3, <3>1 DEF Passes
  <2> QED
    BY <2>1, <2>2, <2>3
<1>4. ASSUME NEW i \in loop.view["pod"], i \in Members("pod")
      PROVE  Arrives(i)'
  BY <1>1, <1>2, <1>4 DEF Arrives
<1> QED
  BY <1>3, <1>4

\* No step of a sync, whether it finishes or is cut short anywhere, shuts out what belongs to the
\* cluster in its eyes and could be reached before: the sets are complete before the rules that
\* refer to them (SyncRules, RefreshWithBuiltinOptions).
THEOREM FlowsKeptCorrect == Spec => FlowsKept
<1>1. Init => Refreshed
  BY DEF Init, Idle, Refreshed, Past
<1>2. Spec => [](IInv /\ Refreshed)
  BY <1>1, InitIInv, NextIInv, NextRefreshed, PTL DEF Spec
<1>3. IInv /\ Refreshed /\ [Next]_vars =>
        [/\ \A i \in loop.view["all"] : Passes(i) => Passes(i)'
         /\ \A i \in loop.view["pod"] : i \in Members("pod") /\ Arrives(i) => Arrives(i)']_vars
  BY StepKeepsFlows
<1> QED
  BY <1>2, <1>3, PTL DEF Spec, FlowsKept
=============================================================================
