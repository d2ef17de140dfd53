------------------------------ MODULE MCExports ------------------------------
(* Instances of Exports for TLC. *)
EXTENDS Exports, TLC

CONSTANTS o1, o2, d1, d2, d3

\* d3 belongs to the other organization; d1 was created before d2.
MCOrgOf == [d \in Diags |-> IF d = d3 THEN o2 ELSE o1]
MCRank  == [d \in Diags |-> IF d = d1 THEN 1 ELSE IF d = d2 THEN 2 ELSE 3]

Symmetry == Permutations(Workers)
=============================================================================
