------------------------------ MODULE MCOverlay ------------------------------
(* This node, another node whose address or MAC changes, and two vteps of another cluster
   between which an endpoint moves. *)
EXTENDS Overlay

MCAddrsOf ==
    [x \in Nodes \cup Remotes |->
        CASE x = "n0" -> {[ip |-> "a0", mac |-> "m0"], [ip |-> "b0", mac |-> "m0"]}
          [] x = "n1" -> {[ip |-> "a1", mac |-> "m1"], [ip |-> "b1", mac |-> "m1"], [ip |-> "a1", mac |-> "k1"]}
          [] x = "r1" -> {[ip |-> "c1", mac |-> "v1"], [ip |-> "c1", mac |-> "w1"]}
          [] x = "r2" -> {[ip |-> "c2", mac |-> "v2"]}]

MCEndpointsOf == [r \in Remotes |-> {{}, {"y"}}]
=============================================================================
