--------------------------- MODULE MCRequestGate ---------------------------
(* Instances of RequestGate for TLC. *)
EXTENDS RequestGate

CONSTANTS r1, r2, k1, k2, k3, k4
=============================================================================
