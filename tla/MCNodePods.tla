------------------------------ MODULE MCNodePods ------------------------------
(***************************************************************************)
(* Instances of NodePods.                                                  *)
(***************************************************************************)
EXTENDS NodePods

V4(mode, dev, subnet) == [version |-> 4, mode |-> mode, dev |-> dev, subnet |-> subnet]
V6(mode, dev, subnet) == [version |-> 6, mode |-> mode, dev |-> dev, subnet |-> subnet]

\* Addresses of one vlan subnet, or of one BGP subnet.
SingleStack == {[i \in IPs |-> V4("Vlan", "eth0.1", "n1")], [i \in IPs |-> V4("BGP", "eth1", "n1")]}
EachIP == {{i} : i \in IPs}

\* An IPv4 and an IPv6 address of one vlan network.
DualStack == {[i \in IPs |-> IF i = "i4" THEN V4("Vlan", "eth0.1", "v4") ELSE V6("Vlan", "eth0.1", "v6")]}
AllIPs == {IPs}
=============================================================================
