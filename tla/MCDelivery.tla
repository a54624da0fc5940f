----------------------------- MODULE MCDelivery -----------------------------
(* Constants for model-checking Delivery. *)
EXTENDS Delivery
=============================================================================
