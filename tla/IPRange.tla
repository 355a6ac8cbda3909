------------------------------- MODULE IPRange -------------------------------
(***************************************************************************)
(* The addresses of a subnet that are not for pods, as a set of CIDR       *)
(* blocks: pkg/daemon/utils/ip_range.go.  The route manager turns every    *)
(* block into a "throw" route.  An address is a number of Width bits; the  *)
(* blocks a caller asks for keep clear of the first and the last address.  *)
(***************************************************************************)
EXTENDS Integers, Sequences, SequencesExt

CONSTANT Width      \* bits of an address

ASSUME WidthAssumption == Width \in Nat \ {0}

Address == 0 .. (2^Width - 1)
NoIP == -1      \* a nil net.IP

Cidr == [ip : Address, len : 0 .. Width]

LastIP(cidr) == cidr.ip + 2^(Width - cidr.len) - 1

Members(cidr) == cidr.ip .. LastIP(cidr)

\* The range as a sequence of at most one element: none when it is empty.
CreateIPRange(start, end) == IF start > end THEN <<>> ELSE <<[start |-> start, end |-> end]>>

\* Mutant of TryAddIP: an address next to the end is taken for a member.
TryAddOutside(range, ip) ==
    IF ip = range.start - 1 THEN <<[range EXCEPT !.start = ip]>>
    ELSE IF ip >= range.start /\ ip <= range.end + 1 THEN <<range>>
    ELSE <<>>

\* The range with ip in it, or none if ip does not touch the range.
TryAddIP(range, ip) ==
    IF ip = range.start - 1 THEN <<[range EXCEPT !.start = ip]>>
    ELSE IF ip = range.end + 1 THEN <<[range EXCEPT !.end = ip]>>
    ELSE IF ip >= range.start /\ ip <= range.end THEN <<range>>
    ELSE <<>>

calculateIPLastZeroBits(ip) ==
    CHOOSE z \in 0 .. Width : ip % 2^z = 0 /\ (z < Width => ip % 2^(z + 1) # 0)

\* The largest block that begins at start and ends at or before end.
findTheFirstLargestCidr(start, end) ==
    LET block(len) == [ip |-> start, len |-> len]
        shortest == Width - calculateIPLastZeroBits(start)
        fits(len) == LastIP(block(len)) = end \/ end \notin Members(block(len))
    IN  block(CHOOSE len \in shortest .. Width : fits(len) /\ \A m \in shortest .. len - 1 : ~fits(m))

splitIPRangeToIPBlocks[start \in Address, end \in Address] ==
    LET block == findTheFirstLargestCidr(start, end)
    IN  {block} \cup (IF LastIP(block) = end THEN {}
                      ELSE splitIPRangeToIPBlocks[LastIP(block) + 1, end])

\* The gaps before, between and after ranges that are sorted and disjoint.
Gaps(cidr, sorted) ==
    LET Before(i) == IF i = 1 THEN CreateIPRange(cidr.ip, sorted[1].start - 1) ELSE <<>>
        After(i) == CreateIPRange(sorted[i].end + 1,
                                  IF i = Len(sorted) THEN LastIP(cidr) ELSE sorted[i + 1].start - 1)
    IN  FlattenSeq([i \in DOMAIN sorted |-> Before(i) \o After(i)])

AddressRange == [start : Int, end : Int]

\* ip joins the first range that takes it, or becomes a range of its own.
Exclude[ranges \in Seq(AddressRange), ip \in Int] ==
    LET i == SelectInSeq(ranges, LAMBDA r : TryAddIP(r, ip) # <<>>)
    IN  IF i = 0 THEN ranges \o CreateIPRange(ip, ip)
        ELSE [ranges EXCEPT ![i] = TryAddIP(ranges[i], ip)[1]]

FindSubnetExcludeIPBlocks(cidr, includedRanges, gateway, excludeIPs) ==
    LET sorted == SortSeq(includedRanges, LAMBDA r, s : r.start < s.start)
        ok == \A i \in DOMAIN sorted :
                /\ sorted[i].start >= cidr.ip
                /\ sorted[i].end <= LastIP(cidr)
                /\ i < Len(sorted) => sorted[i].end < sorted[i + 1].start
        ips == IF gateway = NoIP THEN excludeIPs ELSE Append(excludeIPs, gateway)
        exclude[n \in 0 .. Len(ips)] == IF n = 0 THEN Gaps(cidr, sorted) ELSE Exclude[exclude[n - 1], ips[n]]
    IN  [ok |-> ok,
         blocks |-> IF ok THEN UNION {splitIPRangeToIPBlocks[r.start, r.end] : r \in ToSet(exclude[Len(ips)])}
                    ELSE {}]
=============================================================================
