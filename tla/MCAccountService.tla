-------------------------- MODULE MCAccountService --------------------------
(* Small instances of AccountService for TLC.                              *)
EXTENDS AccountService, TLC

(* Operations and handlers are interchangeable.                            *)
Symmetry == Permutations(Operations) \cup Permutations(Handlers)
=============================================================================
