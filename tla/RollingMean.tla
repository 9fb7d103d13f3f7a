----------------------------- MODULE RollingMean -----------------------------
(***************************************************************************)
(* rcpputils::RollingMeanAccumulator<T>                                     *)
(* (include/rcpputils/rolling_mean_accumulator.hpp) for an integral T: a     *)
(* ring buffer of the last values and their running sum.                    *)
(*                                                                          *)
(* The members are buffer_, next_insert_, sum_ and buffer_filled_.  n and    *)
(* total record what was accumulated: total[k] is the sum of the first k     *)
(* values.                                                                  *)
(***************************************************************************)
EXTENDS Integers

CONSTANTS
  Sizes,      \* values of rolling_window_size
  Values,     \* values accumulated
  MaxCount,   \* bound: values accumulated in a behaviour
  SizeMod,    \* 2 to the width of size_t
  TMod        \* 2 to the width of T

\* Size 0 is not refused by the constructor; accumulate then writes to an
\* element of an empty vector.
ASSUME SizesAssumption  == Sizes \subseteq Nat \ {0}
ASSUME ValuesAssumption == Values \subseteq Int
ASSUME MaxAssumption    == MaxCount \in Nat
ASSUME WidthAssumption  == SizeMod \in Nat \ {0} /\ TMod \in Nat \ {0}

\* sum_ is a T no wider than size_t, and adding T's that do not fit it is
\* undefined: the values are such that the sum of a window fits.
ASSUME FitsAssumption ==
  /\ TMod <= SizeMod
  /\ \E m \in Values \union {0} :
       (\A v \in Values \union {0} : v <= m) /\ \A s \in Sizes : s * m < TMod \div 2

VARIABLES size, buffer, next_insert, sum, buffer_filled, n, total

vars == <<size, buffer, next_insert, sum, buffer_filled, n, total>>

Init ==
  /\ size \in Sizes
  /\ buffer = [i \in 0 .. size - 1 |-> 0]
  /\ next_insert = 0
  /\ sum = 0
  /\ buffer_filled = FALSE
  /\ n = 0
  /\ total = [k \in 0 .. MaxCount |-> 0]

Record(val) ==
  /\ n < MaxCount
  /\ n' = n + 1
  /\ total' = [total EXCEPT ![n + 1] = total[n] + val]

\* (variant) the value that leaves the window stays in the sum.
AccumulateForever(val) ==
  /\ Record(val)
  /\ sum' = sum + val
  /\ buffer' = [buffer EXCEPT ![next_insert] = val]
  /\ buffer_filled' = (buffer_filled \/ next_insert + 1 >= size)
  /\ next_insert' = (next_insert + 1) % size
  /\ UNCHANGED size

\* (variant) the index is not wrapped.
AccumulateUnwrapped(val) ==
  /\ Record(val)
  /\ sum' = sum - buffer[next_insert] + val
  /\ buffer' = [buffer EXCEPT ![next_insert] = val]
  /\ buffer_filled' = (buffer_filled \/ next_insert + 1 >= size)
  /\ next_insert' = next_insert + 1
  /\ UNCHANGED size

Accumulate(val) ==
  /\ Record(val)
  /\ sum' = sum - buffer[next_insert] + val
  /\ buffer' = [buffer EXCEPT ![next_insert] = val]
  /\ buffer_filled' = (buffer_filled \/ next_insert + 1 >= size)
  /\ next_insert' = (next_insert + 1) % size
  /\ UNCHANGED size

Next == \E val \in Values : Accumulate(val)

Spec == Init /\ [][Next]_vars

\* (variant) a buffer that is full is not noticed.
CountInserted == next_insert

ValidDataCount == IF buffer_filled THEN size ELSE next_insert

\* T from an integer: two's complement.
ToT(x) == LET r == x % TMod IN IF r >= TMod \div 2 THEN r - TMod ELSE r

\* sum_ / valid_data_count: the usual arithmetic conversions turn sum_ into a
\* size_t before the division, and return turns the quotient into a T.
RollingMean == ToT((sum % SizeMod) \div ValidDataCount)

----------------------------------------------------------------------------
(* Properties.                                                              *)

TypeOK ==
  /\ size \in Sizes
  /\ buffer \in [0 .. size - 1 -> Values \union {0}]
  /\ next_insert \in 0 .. size - 1
  /\ sum \in Int
  /\ buffer_filled \in BOOLEAN
  /\ n \in 0 .. MaxCount
  /\ total \in [0 .. MaxCount -> Int]

\* The window: the last size values, or all of them if they are fewer.
WindowLength == IF n < size THEN n ELSE size
WindowSum    == total[n] - total[n - WindowLength]

\* The running sum is the sum of the values in the window, however often the
\* buffer was overwritten.
SumOfWindow == sum = WindowSum

\* The number the sum is divided by is the number of values in the window; it
\* is 0, and the assertion of getRollingMean fails, only before the first one.
CountOfWindow == ValidDataCount = WindowLength

\* "return Rolling mean of the accumulated values"
\* (rolling_mean_accumulator.hpp:69), in the arithmetic of T.  A negative sum is
\* divided as a size_t, and its mean is another number.
MeanOfWindow == n > 0 /\ WindowSum >= 0 => RollingMean = WindowSum \div WindowLength
=============================================================================
