-------------------------- MODULE MCTempDirectory --------------------------
(* TempDirectory on two callers, two suffixes and one retry. *)
EXTENDS TempDirectory, TLC

CallerSymmetry == Permutations(Callers) \union Permutations(Suffixes)
=============================================================================
