---------------------------- MODULE DurationMean ----------------------------
(***************************************************************************)
(* A program that measures times, converts them with                        *)
(* convert_to_nanoseconds, and averages those that are not outliers with a  *)
(* RollingMeanAccumulator.                                                  *)
(***************************************************************************)
EXTENDS RollingMean, TimeConversion

CONSTANT Durations   \* what it measures

\* Whole numbers of nanoseconds, counted by an integer or by a double.
ASSUME DurationsAssumption ==
  Durations \subseteq [rep : {"integer", "double"}, count : Int, num : Nat \ {0}]

VARIABLE measured    \* the answer for the last time, or Nothing

Nothing == [time |-> [rep |-> "integer", count |-> 0, num |-> 0], threw |-> FALSE, ns |-> 0]

MeanInit == Init /\ measured = Nothing

Usable == ~measured.threw /\ measured.ns \in Values

\* Bound: outliers are measured first only; nothing in the conversion depends on
\* what has been accumulated.
Measure ==
  /\ measured = Nothing
  /\ \E t \in Durations :
       /\ measured' \in Answers(t)
       /\ n > 0 => Usable'
  /\ UNCHANGED vars

Take ==
  /\ measured # Nothing /\ Usable
  /\ Accumulate(measured.ns)
  /\ measured' = Nothing

Skip ==
  /\ measured # Nothing /\ ~Usable
  /\ measured' = Nothing
  /\ UNCHANGED vars

MeanNext == Measure \/ Take \/ Skip

MeanSpec == MeanInit /\ [][MeanNext]_<<vars, measured>>

----------------------------------------------------------------------------
(* Properties.                                                              *)

\* How an answer is within the limits: no time within them is rejected, and one
\* counted by an integer is converted exactly; a time that is beyond them and
\* accepted is less than two spacings of the doubles away, one for the rounding of
\* the count and one for the product.
Enforced(answer) ==
  LET t      == answer.time
      within == Exact(t) \in NsMin .. NsMax
      slack  == 2 * Spacing(NsMax + 1)
  IN  /\ within => ~answer.threw /\ (t.rep = "integer" => answer.ns = Exact(t))
      /\ ~within /\ ~answer.threw => Exact(t) \in NsMin - slack + 1 .. NsMax + slack - 1

\* "throws std::invalid_argument if time is bigger than nanoseconds::max() or less
\* than nanoseconds::min()" (time.hpp:30-31), as far as the code does it.
LimitsEnforced == Enforced(measured)
=============================================================================
