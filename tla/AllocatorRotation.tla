-------------------------- MODULE AllocatorRotation --------------------------
(***************************************************************************)
(* The order in which a subnet's addresses are handed out.  The allocator  *)
(* keeps a round-robin index per subnet so that an address that was just   *)
(* released is not given to the next pod at once.  The history variable    *)
(* waiting records, for every address of the watched subnet handed out     *)
(* since the last refresh, the addresses that have been free ever since.   *)
(***************************************************************************)
EXTENDS Allocator

CONSTANTS WatchedNetwork, WatchedSubnet

VARIABLE waiting

Watched == Networks[WatchedNetwork].Subnets[WatchedSubnet]

IsWatched ==
    /\ WatchedNetwork \in DOMAIN Networks
    /\ WatchedSubnet \in DOMAIN Networks[WatchedNetwork].Subnets

\* The watched address, if any, that this step puts in use by turning the index.
HandedOut ==
    IF IsWatched
    THEN {Watched'.Current} \cap (DOMAIN Watched'.UsingIPs \ DOMAIN Watched.UsingIPs)
    ELSE {}

StillWaiting ==
    waiting' = [x \in DOMAIN waiting \cup HandedOut |->
                  IF x \in HandedOut THEN FreeIPs(Watched)' ELSE waiting[x] \cap FreeIPs(Watched)']

RotationInit == Init /\ waiting = [x \in {} |-> {}]

RotationNext ==
    \E n \in NetworkNames :
        \/ Call(n) /\ StillWaiting
        \/ /\ RefreshNetwork(n) \/ RemoveNetwork(n)
           /\ waiting' = [x \in {} |-> {}]

RotationSpec == RotationInit /\ [][RotationNext]_<<vars, waiting>>

\* No address is handed out twice while another one stays free in between:
\* the address AllocateNext would hand out next, if it was handed out before,
\* has nothing left waiting behind it.
NoAddressPassedOver ==
    IsWatched /\ FreeIPs(Watched) # {} /\ NextIP(Watched) \in DOMAIN waiting
        => waiting[NextIP(Watched)] = {}
==============================================================================
