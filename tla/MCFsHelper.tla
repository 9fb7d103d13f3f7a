----------------------------- MODULE MCFsHelper -----------------------------
(* FsHelper with the file names and the callers interchangeable. *)
EXTENDS FsHelper, TLC

NameSymmetry == Permutations(Names)
Symmetry     == Permutations(Names) \union Permutations(Callers)
=============================================================================
