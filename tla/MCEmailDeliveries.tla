-------------------------- MODULE MCEmailDeliveries --------------------------
(* Instances of EmailDeliveries for TLC. *)
EXTENDS EmailDeliveries

CONSTANTS c1, c2, d1, u1, a, b

\* All deliveries go to one user.
MCRecipientOf == [d \in Deliveries |-> u1]
=============================================================================
