--------------------------- MODULE TimeConversion ---------------------------
(***************************************************************************)
(* convert_to_nanoseconds (include/rcpputils/time.hpp) for durations of a   *)
(* whole number of nanoseconds, counted by an integer or by a double.       *)
(*                                                                          *)
(* The limits and the time are compared as doubles.  A double is modelled   *)
(* by the integer it stands for, and rounding is to the nearest one with    *)
(* Mantissa significant bits, to even in the middle.                        *)
(***************************************************************************)
EXTENDS Integers

CONSTANTS
  Width,      \* bits of the representation of std::chrono::nanoseconds
  Mantissa    \* bits of the significand of a double

ASSUME BitsAssumption == Width \in Nat /\ Mantissa \in 1 .. Width

NsMax == 2 ^ (Width - 1) - 1
NsMin == -(2 ^ (Width - 1))

\* The distance of the doubles between which n lies.
Spacing(n) ==
  2 ^ (CHOOSE e \in 0 .. n :
         n < 2 ^ (Mantissa + e) /\ \A f \in 0 .. e - 1 : n >= 2 ^ (Mantissa + f))

Nearest(n) ==
  LET u == Spacing(n)
      q == n \div u
      up == 2 * (n % u) > u \/ (2 * (n % u) = u /\ q % 2 = 1)
  IN  u * (IF up THEN q + 1 ELSE q)

ToDouble(x) == IF x < 0 THEN -Nearest(-x) ELSE Nearest(x)

\* A duration: count periods of num nanoseconds each.
Exact(t) == t.count * t.num

\* duration_cast to a duration<double> of nanoseconds.
AsDouble(t) == ToDouble(ToDouble(t.count) * t.num)

TooBig(t)   == AsDouble(t) > ToDouble(NsMax)
TooSmall(t) == AsDouble(t) < ToDouble(NsMin)

\* (variant) only the upper limit is checked.
RejectsBig(t) == TooBig(t)

Rejects(t) == TooBig(t) \/ TooSmall(t)

\* duration_cast to nanoseconds.  A product of integers that overflows wraps
\* around; a double out of range becomes what the machine makes of it, the least
\* number or the nearest one.
Cast(t) ==
  CASE t.rep = "integer" -> {((Exact(t) - NsMin) % (2 ^ Width)) + NsMin}
    [] t.rep = "double" /\ AsDouble(t) \in NsMin .. NsMax -> {AsDouble(t)}
    [] OTHER -> {NsMin, IF AsDouble(t) > NsMax THEN NsMax ELSE NsMin}

\* What a call answers: it throws, or returns a number of nanoseconds.
Answers(t) ==
  IF Rejects(t) THEN {[time |-> t, threw |-> TRUE, ns |-> 0]}
                ELSE {[time |-> t, threw |-> FALSE, ns |-> ns] : ns \in Cast(t)}
=============================================================================
