------------------------------ MODULE MCFlood ------------------------------
(* Flood for TLC. *)
EXTENDS Flood
=============================================================================
