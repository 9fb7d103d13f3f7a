----------------------------- MODULE MCExpected -----------------------------
(* What may throw in a run: everything but making an E from its argument,     *)
(* copying a T only, making a T only, or nothing.                             *)
EXTENDS Expected

ConstructorsThrow == (Kinds \X (Modes \union {"make"})) \ {<<"error", "make">>}
ValueCopyThrows == {<<"value", "copy">>}
ValueMakeThrows == {<<"value", "make">>}
NoneThrow       == {}
=============================================================================
