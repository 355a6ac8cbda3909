------------------------------- MODULE MCFilter -------------------------------
(* An overlay and a BGP network with a subnet each, a node, a pod and a subnet of another cluster. *)
EXTENDS Filter

MCItems == {"ov", "bg", "o", "g", "n", "x", "ro"}

MCKindOf ==
    [i \in MCItems |->
        CASE i \in {"ov", "bg"} -> "network" [] i \in {"o", "g"} -> "subnet"
          [] i = "n" -> "node" [] i = "x" -> "pod"
          [] i = "ro" -> "remotesubnet"]

MCModeOf == [i \in {"ov", "bg", "ro"} |-> IF i = "bg" THEN "bgp" ELSE "vxlan"]

MCNetworkOf == [i \in {"o", "g", "x"} |-> CASE i = "o" -> "ov" [] i = "g" -> "bg" [] i = "x" -> "g"]

MCStarts == {{"ov", "o", "n", "ro"}, {"ov", "bg", "o", "g", "n", "x"}}
===============================================================================
