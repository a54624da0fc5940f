------------------------------- MODULE MCKeys -------------------------------
(* Constants for model-checking Keys: a device each for two users. *)
EXTENDS Keys

MCOwner == [d \in Devices |-> CASE d = "a1" -> "ann" [] d = "b1" -> "bob" [] OTHER -> "bob"]
=============================================================================
