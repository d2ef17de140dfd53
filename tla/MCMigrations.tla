---------------------------- MODULE MCMigrations ----------------------------
(* Instances of Migrations for TLC. *)
EXTENDS Migrations

CONSTANTS m1, x1, d1, d2, d3, u1, o1, o2

\* d3 belongs to another organization than x1, d1 and d2.
MCOrgOf == [a \in Exports \cup Diags |-> IF a = d3 THEN o2 ELSE o1]
MCRank  == [d \in Diags |-> CASE d = d1 -> 1 [] d = d2 -> 2 [] OTHER -> 3]
MCRecipient == [m \in Deliveries |-> u1]
=============================================================================
