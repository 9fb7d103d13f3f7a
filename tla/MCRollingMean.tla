--------------------------- MODULE MCRollingMean ---------------------------
(* DurationMean with nanoseconds of 6 bits, a size_t of 8 bits and doubles of   *)
(* 3: the largest number of nanoseconds, 31, is 32 as a double.                 *)
EXTENDS DurationMean

MCValues == {-3, 2, 4}

Whole(k) == k = ToDouble(k)
MCDurations ==
  {[rep |-> "integer", count |-> k, num |-> p] : k \in -48 .. 48, p \in {1, 2, 3}}
  \union {[rep |-> "double", count |-> k, num |-> p] : k \in {j \in -48 .. 48 : Whole(j)}, p \in {1, 3}}
=============================================================================
