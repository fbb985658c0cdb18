----------------------- MODULE MCProcessSupervisor -----------------------
(* Small instances of ProcessSupervisor for TLC.                           *)
EXTENDS ProcessSupervisor, TLC

CONSTANTS g1, g2, a1

MCGenerations == {g1, g2}
MCOneGeneration == {g1}
MCAccounts == {a1}
MCAccountOf == [g \in Generations |-> a1]

(* All generations are minted alike, so they are interchangeable.          *)
MCSymmetry == Permutations(Generations)

(* Every boot uses the same identity scheme.                               *)
MCSameScheme == [b \in 0 .. MaxBoot |-> "bootsession"]
(* The first boot was recorded by a binary with another scheme.            *)
MCLegacyScheme == [b \in 0 .. MaxBoot |-> IF b = 0 THEN "legacy" ELSE "bootsession"]
=============================================================================
