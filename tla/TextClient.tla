----------------------------- MODULE TextClient -----------------------------
(***************************************************************************)
(* A client of the text helpers and of path: it cleans a text with           *)
(* find_and_replace; takes the result apart with split and puts the tokens  *)
(* together again with join, with one delimiter between them or two; or     *)
(* makes a path of it and goes on from there.                               *)
(***************************************************************************)
EXTENDS FindAndReplace, PathLib

CONSTANTS
  Delim,     \* the delimiter
  MaxStart   \* bound: the longest text a path is made of

ASSUME DelimAssumption == Delim \in Chars

VARIABLES
  text, skip_empty,   \* the arguments of the last split,
  tokens,             \* what it answered
  called              \* the last helper called

clientVars == <<text, skip_empty, tokens, called>>

ClientInit ==
  /\ Init /\ PathInit
  /\ text = <<>> /\ skip_empty = FALSE /\ tokens = <<>> /\ called = "find_and_replace"

SplitText(new) ==
  /\ text' = new
  /\ skip_empty' \in BOOLEAN
  /\ tokens' = Tokens(new, Delim, skip_empty')

\* split(find_and_replace(input, find, replace), Delim, skip_empty)
SplitOutput ==
  /\ pc = "done" /\ called = "find_and_replace"
  /\ called' = "split"
  /\ SplitText(output)

\* split(join(tokens, between), Delim, skip_empty)
Rejoin ==
  /\ called = "split"
  /\ called' = "join"
  /\ \E k \in 1 .. 2 : SplitText(Join(tokens, [i \in 1 .. k |-> Delim]))

\* path(find_and_replace(input, find, replace)); the texts are not needed again.
MakePath ==
  /\ pc = "done" /\ called = "find_and_replace" /\ Len(output) <= MaxStart
  /\ called' = "path"
  /\ path' = Path(output) /\ status' = "ok"
  /\ input' = <<>> /\ find' = <<>> /\ replace' = <<>> /\ output' = <<>> /\ pos' = 0
  /\ UNCHANGED <<pc, text, skip_empty, tokens>>

ClientNext ==
  \/ Next /\ UNCHANGED <<clientVars, pathVars>>
  \/ (SplitOutput \/ Rejoin) /\ UNCHANGED <<vars, pathVars>>
  \/ MakePath
  \/ PathNext /\ UNCHANGED <<vars, clientVars>>

ClientSpec == ClientInit /\ [][ClientNext]_<<vars, clientVars, pathVars>>

----------------------------------------------------------------------------
(* Properties.                                                              *)

\* Where a token may end: at a delimiter, or at the end of a text that does not
\* end with one.
Ends ==
  {i \in 1 .. Len(text) + 1 :
     IF i <= Len(text) THEN text[i] = Delim ELSE text # <<>> /\ Last(text) # Delim}

\* The token that ends before position i.
TokenBefore(i) ==
  LET start == 1 + Max({0} \union {j \in Ends : j < i}) IN SubSeq(text, start, i - 1)

\* The tokens are the stretches between the delimiters, in order: what the tests
\* of split check on examples, on every text.  skip_empty leaves out the empty
\* ones, and nothing else.
TokensAreStretches ==
  LET kept == {i \in Ends : skip_empty => TokenBefore(i) # <<>>}
  IN  /\ Len(tokens) = Cardinality(kept)
      /\ \A i \in kept : tokens[Cardinality({j \in kept : j <= i})] = TokenBefore(i)

\* join undoes split: nothing but one delimiter at the very end is lost.
JoinUndoesSplit ==
  ~skip_empty => text \in {Join(tokens, <<Delim>>), Join(tokens, <<Delim>>) \o <<Delim>>}
=============================================================================
