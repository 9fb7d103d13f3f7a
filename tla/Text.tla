-------------------------------- MODULE Text --------------------------------
(***************************************************************************)
(* Strings as sequences of characters, and the two pure helpers of          *)
(* rcpputils that take them apart and put them together: split              *)
(* (include/rcpputils/split.hpp) and join (include/rcpputils/join.hpp).      *)
(***************************************************************************)
EXTENDS Integers, SequencesExt

\* What std::getline has read: the tokens up to a delimiter, and what follows the
\* last delimiter.
ReadLines(input, delim) ==
  FoldLeft(LAMBDA acc, ch : IF ch = delim
                            THEN [done |-> Append(acc.done, acc.item), item |-> <<>>]
                            ELSE [done |-> acc.done, item |-> Append(acc.item, ch)],
           [done |-> <<>>, item |-> <<>>], input)

\* (variant) std::getline would also answer an empty token at the end.
SplitAll(input, delim) ==
  LET end == ReadLines(input, delim) IN Append(end.done, end.item)

\* std::getline up to delim until the stream is at its end: a token that is
\* empty because the input ends there is not answered.
Split(input, delim) ==
  LET end == ReadLines(input, delim)
  IN  IF end.item = <<>> THEN end.done ELSE Append(end.done, end.item)

\* The tokens that are not empty.
NonEmpty(items) == FoldLeft(LAMBDA acc, item : IF item = <<>> THEN acc ELSE Append(acc, item), <<>>, items)

\* split(input, delim, skip_empty)
Tokens(input, delim, skip_empty) ==
  IF skip_empty THEN NonEmpty(Split(input, delim)) ELSE Split(input, delim)

\* Each value followed by the delimiter.
Stream(container, delim) == FoldLeft(LAMBDA acc, item : acc \o item \o delim, <<>>, container)

\* (variant) the last delimiter is left.
JoinTrailing(container, delim) == Stream(container, delim)

\* The stream less the last delimiter.  For an empty container
\* length - strlen(delim) wraps around, and substr takes all of "".  A null pointer
\* writes and cuts off nothing, which is what delim = <<>> does here.
Join(container, delim) ==
  LET all == Stream(container, delim)
  IN  SubSeq(all, 1, IF Len(all) < Len(delim) THEN Len(all) ELSE Len(all) - Len(delim))
=============================================================================
