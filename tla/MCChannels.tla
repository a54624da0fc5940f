----------------------------- MODULE MCChannels -----------------------------
(* Channels for TLC: accounts and connections are interchangeable but for the *)
(* owner account. *)
EXTENDS Channels, TLC

MCSymmetry == Permutations(Accounts \ {Root}) \cup Permutations(Conns)
=============================================================================
