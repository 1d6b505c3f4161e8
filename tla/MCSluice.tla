-------------------------------- MODULE MCSluice -------------------------------
(* Sluice with the symmetries TLC may use. *)
EXTENDS Sluice, TLC

ProcessSymmetry == Permutations(Tokens) \cup Permutations(Workers) \cup Permutations(Schedulers)
================================================================================
