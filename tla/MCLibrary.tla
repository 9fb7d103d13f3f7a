------------------------------ MODULE MCLibrary ------------------------------
(* LibraryClient with two objects and two guards, and search paths with        *)
(* elements that are empty in front, in the middle and at the end.             *)
EXTENDS LibraryClient, TLC

MCDirs     == {"d", "e"}
MCEnvTexts == {<<":", "d">>, <<"e", ":", "d">>, <<"d", ":", ":", "e", ":">>}
Symmetry   == Permutations(Objs) \union Permutations(Loads)
              \union Permutations(Guards) \union Permutations(Cleanups)
=============================================================================
