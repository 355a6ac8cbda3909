------------------------------ MODULE MCPodIPAM ------------------------------
(***************************************************************************)
(* Instances of PodIPAM for TLC.                                           *)
(***************************************************************************)
EXTENDS PodIPAM, TLC

\* All pods in one namespace, and pod q in a namespace of its own.
OneNamespace == [p \in Pods |-> "ns"]

OtherNamespace == [p \in Pods |-> IF p = "q" THEN "other" ELSE "ns"]

\* All pods are plain ones, or q belongs to a stateful workload and may name
\* the reserved address.
AllPlain == [p \in Pods |-> {"plain"}]

StatefulQ == [p \in Pods |-> IF p = "q" THEN {"retain", "reallocate", "preassign"} ELSE {"plain"}]

PoolAnnotation == [p \in Pods |-> "r"]

\* Pods of one namespace are interchangeable, and so are addresses that nobody names.
Symmetry == Permutations(Pods) \cup Permutations(IPs)
==============================================================================
