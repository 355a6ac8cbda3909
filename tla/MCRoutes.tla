------------------------------- MODULE MCRoutes -------------------------------
(***************************************************************************)
(* Instances of Routes: addresses of five bits, subnets of four addresses. *)
(***************************************************************************)
EXTENDS Routes

Block(ip, size) == [ip |-> ip, len |-> IF size = 2 THEN Width - 1 ELSE Width - 2]
SubnetSpec(net, cidr, gateway, exclude, nat) ==
    [net |-> net, cidr |-> cidr, gateway |-> gateway, start |-> NoIP, end |-> NoIP,
     exclude |-> exclude, nat |-> nat]

Overlay1 == SubnetSpec("overlay", Block(8, 2), NoIP, <<>>, TRUE)
Overlay2 == SubnetSpec("overlay", Block(12, 4), 12, <<14>>, FALSE)
Vlan1 == SubnetSpec("vlan", Block(16, 4), 16, <<>>, FALSE)
BGP1 == SubnetSpec("bgp", Block(20, 2), NoIP, <<>>, FALSE)
Remote1 == [cidr |-> Block(24, 4), gateway |-> 24, start |-> NoIP, end |-> NoIP, exclude |-> <<>>,
            overlay |-> FALSE]

MCMode == [n \in Networks |-> CASE n = "overlay" -> "Vxlan" [] n = "vlan" -> "Vlan" [] n = "bgp" -> "BGP"]
Underlay0 == [s \in {"v1", "b1"} |-> IF s = "v1" THEN Vlan1 ELSE BGP1]
Mixed0 == With(Underlay0, "o2", [Overlay2 EXCEPT !.nat = TRUE])
MCSpec0s == {Restrict(Underlay0, Permanent), Restrict(Mixed0, Permanent \cup {"o2"})}
MCLabels0 == [n \in Networks |-> n # "vlan"]
MCSpecs == [s \in Subnets |->
    CASE s = "o1" -> {Overlay1, [Overlay1 EXCEPT !.nat = FALSE]}
      [] s = "o2" -> {Overlay2, [Overlay2 EXCEPT !.nat = TRUE]}
      [] s = "v1" -> {Vlan1}
      [] s = "b1" -> {BGP1}]
MCRemoteSpecs == [s \in RemoteSubnets |-> {Remote1, [Remote1 EXCEPT !.exclude = <<26>>]}]
MCRemote0 == [s \in RemoteSubnets |-> [Remote1 EXCEPT !.exclude = <<26>>]]
MCVlanIf == [s \in Subnets |-> "eth0.1"]
\* Of every subnet: the gateway, an excluded address, a local pod and another pod, where it has them.
MCDestinations == {1, 9, 12, 13, 14, 16, 17, 18, 20, 24, 25, 26}

Ranges == {[start |-> a, end |-> b] : a \in 7 .. 15, b \in 8 .. 16}
RangeLists == {<<>>} \cup {<<r>> : r \in {q \in Ranges : q.start <= q.end}}
              \cup {<<r, q>> : r, q \in {p \in Ranges : p.start <= p.end /\ p.start >= 8 /\ p.end <= 15}}
IPLists == BoundedSeq(8 .. 15, 2)
EightAddresses == [ip |-> 8, len |-> Width - 3]

\* FindSubnetExcludeIPBlocks: an error exactly for ranges that overlap or leave the CIDR, and
\* blocks that are aligned and together cover exactly what is not for pods.  The function depends on
\* no variable, so it is evaluated where a behaviour starts.
ExcludeBlocksExact ==
    Init => \A ranges \in RangeLists, ips \in IPLists, gateway \in {NoIP, 9, 30} :
      LET i == [cidr |-> EightAddresses, ranges |-> ranges, exclude |-> ips, gateway |-> gateway]
          found == FindSubnetExcludeIPBlocks(EightAddresses, ranges, gateway, ips)
      IN  /\ found.ok <=> \A m, n \in DOMAIN ranges :
                             /\ ranges[m].start .. ranges[m].end \subseteq Members(i.cidr)
                             /\ m # n => (ranges[m].start .. ranges[m].end) \cap (ranges[n].start .. ranges[n].end) = {}
          /\ found.ok => UNION {Members(b) : b \in found.blocks} = ExcludedAddresses(i)
          /\ \A b \in found.blocks : b.ip % 2^(Width - b.len) = 0
=============================================================================
