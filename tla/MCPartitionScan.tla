--------------------------- MODULE MCPartitionScan ---------------------------
(***************************************************************************)
(* Disk layouts for PartitionScan.  A layout gives the kinds of the four   *)
(* MBR entries (at most one extended) and the chain of EBRs under the      *)
(* extended one: each EBR but the last has a data entry or none, and a     *)
(* link, in either order; the last has a data entry or none.  Chains are   *)
(* acyclic and up to MaxChain long.                                        *)
(***************************************************************************)
EXTENDS PartitionScan

CONSTANT MaxChain

MCMbrs == {m \in [1..4 -> {"none", "prim", "ext"}] :
             Cardinality({j \in 1..4 : m[j] = "ext"}) <= 1}

MCInner == {<<"log", "link">>, <<"link", "log">>, <<"none", "link">>, <<"link", "none">>}
MCLast == {<<"log", "none">>, <<"none", "none">>}

MCChains == UNION {{c \in [1..n -> MCInner \cup MCLast] :
                      \A k \in 1..n : c[k] \in IF k = n THEN MCLast ELSE MCInner} :
                     n \in 0..MaxChain}

CONSTANT PartSizes

MCLayouts == {[mbr |-> m, ebrs |-> c, size |-> n] :
                <<m, c, n>> \in {<<m, c, n>> \in MCMbrs \X MCChains \X PartSizes :
                                   c # <<>> => \E j \in 1..4 : m[j] = "ext"}}

\* The second disk: a primary only, or a primary and a one-EBR extended partition.
MCSddLayouts ==
  {[mbr |-> <<"prim", "none", "none", "none">>, ebrs |-> <<>>, size |-> n] : n \in PartSizes}
  \cup
  {[mbr |-> <<"prim", "ext", "none", "none">>, ebrs |-> <<<<"log", "none">>>>, size |-> n] : n \in PartSizes}

\* partition_format computes free_sects = sec_cnt - used_sects in a uint32;
\* the layouts keep every partition larger than the sectors before its
\* bitmap, and within the Gap sectors between EBRs.
ASSUME \A n \in PartSizes : n > UsedSects /\ n < Gap
====
