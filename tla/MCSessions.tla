----------------------------- MODULE MCSessions -----------------------------
(* Constants for model-checking Sessions. *)
EXTENDS Sessions
=============================================================================
