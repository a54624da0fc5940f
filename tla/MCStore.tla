------------------------------ MODULE MCStore ------------------------------
(***************************************************************************)
(* Store for TLC: the sizes of the contents.                               *)
(***************************************************************************)
EXTENDS Store

\* "big" is twice "small", so that a quota of 2 is filled by one or by two
MCSize == [d \in Contents |-> IF d = "big" THEN 2 ELSE 1]

=============================================================================
