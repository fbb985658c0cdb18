---------------------------- MODULE MCResetCards ----------------------------
(* A small instance of ResetCardClients for TLC.                           *)
EXTENDS ResetCardClients, TLC

Symmetry == Permutations(Cards) \cup Permutations(Keys)
=============================================================================
