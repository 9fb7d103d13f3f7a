--------------------------- MODULE FindAndReplace ---------------------------
(***************************************************************************)
(* rcpputils::find_and_replace (include/rcpputils/find_and_replace.hpp), one *)
(* step per round of its loop.  A position is a 0-based offset, as in the    *)
(* code; NPos is std::string::npos.                                         *)
(***************************************************************************)
EXTENDS Integers, Sequences

CONSTANTS
  Chars,      \* characters
  Inputs,     \* the strings given as input
  Patterns    \* the strings given as find and as replace

NPos == -1

ASSUME StringsAssumption == Inputs \subseteq Seq(Chars) /\ Patterns \subseteq Seq(Chars)

VARIABLES input, find, replace, output, pos, pc

vars == <<input, find, replace, output, pos, pc>>

\* Does f occur in s at offset p?
OccursAt(s, f, p) == SubSeq(s, p + 1, p + Len(f)) = f

\* std::basic_string::find: the first offset from p on, or npos.
Find(s, f, p) ==
  LET at == {q \in p .. Len(s) - Len(f) : OccursAt(s, f, q)}
  IN  IF at = {} THEN NPos ELSE CHOOSE q \in at : \A r \in at : q <= r

Init ==
  /\ input \in Inputs /\ find \in Patterns /\ replace \in Patterns
  /\ output = input
  /\ pos = 0
  /\ pc = "start"

\* find == replace, or nothing to find: return output.  Otherwise the first find.
Start ==
  /\ pc = "start"
  /\ \/ /\ find = replace \/ find = <<>>
        /\ pc' = "done"
        /\ UNCHANGED pos
     \/ /\ find # replace /\ find # <<>>
        /\ pos' = Find(output, find, 0)
        /\ pc' = "loop"
  /\ UNCHANGED <<input, find, replace, output>>

Replaced == SubSeq(output, 1, pos) \o replace \o SubSeq(output, pos + Len(find) + 1, Len(output))

\* (variant) the search goes on inside the replacement.
ResumeInside == pos

\* (variant) the search goes on as far behind as the text that was replaced.
ResumeBehindFind == pos + Len(find)

\* Where the search goes on: behind the replacement.
Resume == pos + Len(replace)

\* (variant) the next position is found before the text is replaced.
RoundStale ==
  /\ pc = "loop"
  /\ \/ pos = NPos /\ pc' = "done" /\ UNCHANGED <<output, pos>>
     \/ /\ pos # NPos
        /\ output' = Replaced
        /\ pos' = Find(output, find, Resume)
        /\ UNCHANGED pc
  /\ UNCHANGED <<input, find, replace>>

\* while (pos != npos)
Round ==
  /\ pc = "loop"
  /\ \/ pos = NPos /\ pc' = "done" /\ UNCHANGED <<output, pos>>
     \/ /\ pos # NPos
        /\ output' = Replaced
        /\ pos' = Find(Replaced, find, Resume)
        /\ UNCHANGED pc
  /\ UNCHANGED <<input, find, replace>>

Next == Start \/ Round

Spec == Init /\ [][Next]_vars

----------------------------------------------------------------------------
(* Properties.                                                              *)

TypeOK ==
  /\ input \in Inputs /\ find \in Patterns /\ replace \in Patterns
  /\ output \in Seq(Chars)
  /\ pos \in -1 .. Len(output)
  /\ pc = "loop" /\ pos # NPos => pos + Len(find) <= Len(output)
  /\ pc \in {"start", "loop", "done"}

\* The input from offset p on, with the occurrences of find, taken from left to
\* right and not overlapping, replaced; the replacements are not looked at.
Scan[p \in 0 .. Len(input)] ==
  LET q == Find(input, find, p)
  IN  IF q = NPos THEN SubSeq(input, p + 1, Len(input))
      ELSE SubSeq(input, p + 1, q) \o replace \o Scan[q + Len(find)]

Reference == IF find = <<>> THEN input ELSE Scan[0]

\* "A copy of the input string with all instances of the string find replaced"
\* (find_and_replace.hpp:33): working on the output, which grows and shrinks
\* under the search, gives what a scan of the input gives.
ReplacesAll == pc = "done" => output = Reference

\* Every round leaves less text to search: the loop ends, also when the
\* replacement contains the text that is looked for.
LeftToSearch == IF pos = NPos THEN -1 ELSE Len(output) - pos
Shrinks == [][pc = "loop" /\ pc' = "loop" => LeftToSearch' < LeftToSearch]_vars
=============================================================================
