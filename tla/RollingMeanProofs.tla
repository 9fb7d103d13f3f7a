--------------------------- MODULE RollingMeanProofs ---------------------------
(***************************************************************************)
(* For every window size, every sequence of values and any number of them:  *)
(* the running sum is the sum of the values in the window, and the number   *)
(* it is divided by is the number of those values.  For numbers of any      *)
(* width, and doubles with any number of bits: how far beyond its limits    *)
(* convert_to_nanoseconds accepts a time.  TextProofs has the induction     *)
(* over the numbers.                                                        *)
(***************************************************************************)
EXTENDS DurationMean, TextProofs

\* The index in the sequence of all values of the one slot i holds; negative
\* for a slot that has not been written.
Index(i) == IF i >= next_insert THEN n - size + (i - next_insert) ELSE n - next_insert + i

\* Every slot holds the value accumulated at its index: SumOfWindow needs it
\* for the slot that is about to be overwritten.
SlotsHold ==
  \A i \in 0 .. size - 1 :
    buffer[i] = IF Index(i) >= 0 THEN total[Index(i) + 1] - total[Index(i)] ELSE 0

\* Before the buffer is full, next_insert counts the values.
Filled ==
  /\ buffer_filled <=> n >= size
  /\ ~buffer_filled => next_insert = n

\* No value is the sum of none.
StartsAtZero == total[0] = 0

\* The inductive invariant of the accumulator.
IInv == TypeOK /\ Filled /\ SlotsHold /\ StartsAtZero /\ SumOfWindow

\* next_insert_ % buffer_.size() after the increment.
LEMMA Wraps == ASSUME NEW s \in Nat \ {0}, NEW i \in 0 .. s - 1
               PROVE  (i + 1) % s = IF i + 1 = s THEN 0 ELSE i + 1
OBVIOUS

\* The inductive invariant holds of a new accumulator.
LEMMA InitIInv == Init => IInv
<1> SUFFICES ASSUME Init PROVE IInv
  OBVIOUS
<1> USE SizesAssumption, ValuesAssumption, MaxAssumption DEF Init
<1>1. TypeOK
  <2>1. size \in Nat \ {0} /\ 0 \in 0 .. size - 1
    OBVIOUS
  <2>2. buffer \in [0 .. size - 1 -> Values \union {0}]
    OBVIOUS
  <2>3. total \in [0 .. MaxCount -> Int]
    OBVIOUS
  <2>4. n \in 0 .. MaxCount /\ sum \in Int
    OBVIOUS
  <2>5. buffer_filled \in BOOLEAN
    BY Zenon
  <2> QED BY <2>1, <2>2, <2>3, <2>4, <2>5 DEF TypeOK
<1>2. Filled /\ StartsAtZero
  BY DEF Filled, StartsAtZero
<1>3. SlotsHold
  BY DEF SlotsHold, Index
<1>4. SumOfWindow
  <2>1. size \in Nat \ {0} /\ n = 0 /\ total[0] = 0
    OBVIOUS
  <2>2. WindowSum = 0
    BY <2>1 DEF WindowSum, WindowLength
  <2> QED BY <2>2 DEF SumOfWindow
<1> QED BY <1>1, <1>2, <1>3, <1>4 DEF IInv

\* accumulate preserves it.
LEMMA NextIInv == IInv /\ [Next]_vars => IInv'
<1> SUFFICES ASSUME IInv, [Next]_vars PROVE IInv'
  OBVIOUS
<1> USE SizesAssumption, ValuesAssumption, MaxAssumption DEF IInv
<1>1. ASSUME NEW val \in Values, Accumulate(val) PROVE IInv'
  <2> DEFINE i == next_insert
  <2>1. /\ size \in Nat \ {0} /\ i \in 0 .. size - 1 /\ val \in Int
        /\ n \in Nat /\ n < MaxCount /\ n' = n + 1 /\ size' = size
    BY <1>1 DEF TypeOK, Accumulate, Record
  <2>2. next_insert' = IF i + 1 = size THEN 0 ELSE i + 1
    BY <1>1, <2>1, Wraps DEF Accumulate
  <2>3. /\ buffer' = [buffer EXCEPT ![i] = val]
        /\ total' = [total EXCEPT ![n + 1] = total[n] + val]
        /\ sum' = sum - buffer[i] + val
        /\ buffer_filled' = (buffer_filled \/ i + 1 >= size)
    BY <1>1 DEF Accumulate, Record
  <2>4. TypeOK'
    <3>1. total' \in [0 .. MaxCount -> Int]
      BY <2>1, <2>3 DEF TypeOK
    <3>2. buffer' \in [0 .. size - 1 -> Values \union {0}]
      BY <2>1, <2>3 DEF TypeOK
    <3>3. sum' \in Int /\ n' \in 0 .. MaxCount /\ next_insert' \in 0 .. size - 1
      BY <2>1, <2>2, <2>3 DEF TypeOK
    <3>4. buffer_filled' \in BOOLEAN
      BY <2>3
    <3> QED BY <2>1, <3>1, <3>2, <3>3, <3>4 DEF TypeOK
  <2>5. Filled' /\ StartsAtZero'
    <3>1. StartsAtZero'
      BY <2>1, <2>3 DEF StartsAtZero, TypeOK
    <3>2. CASE buffer_filled
      <4>1. n >= size
        BY <3>2 DEF Filled
      <4>2. buffer_filled'
        BY <2>3, <3>2, Zenon
      <4>3. n' >= size'
        BY <2>1, <4>1
      <4> QED BY <3>1, <4>2, <4>3 DEF Filled
    <3>3. CASE ~buffer_filled
      <4>1. n < size /\ n = i
        BY <2>1, <3>3 DEF Filled
      <4>2. buffer_filled' <=> n + 1 >= size
        BY <2>1, <2>3, <3>3, <4>1
      <4>3. ~(n + 1 >= size) => next_insert' = n + 1
        BY <2>1, <2>2, <4>1
      <4> QED BY <2>1, <3>1, <4>2, <4>3 DEF Filled
    <3> QED BY <3>2, <3>3
  <2>6. /\ total'[n + 1] = total[n] + val
        /\ \A k \in 0 .. n : total'[k] = total[k]
    BY <2>1, <2>3 DEF TypeOK
  <2>7. SlotsHold'
    <3> SUFFICES ASSUME NEW j \in 0 .. size - 1
                 PROVE  buffer'[j] = IF Index(j)' >= 0
                                     THEN total'[Index(j)' + 1] - total'[Index(j)'] ELSE 0
      BY <2>1 DEF SlotsHold
    <3>1. CASE j = i
      <4>1. Index(j)' = n
        BY <2>1, <2>2, <3>1 DEF Index
      <4> QED BY <2>1, <2>3, <2>6, <3>1, <4>1 DEF TypeOK
    <3>2. CASE j # i
      <4>1. Index(j)' = Index(j) /\ Index(j) \in Int /\ Index(j) < n
        BY <2>1, <2>2, <3>2 DEF Index
      <4>2. buffer'[j] = buffer[j]
        BY <2>1, <2>3, <3>2 DEF TypeOK
      <4> QED BY <2>1, <2>6, <4>1, <4>2 DEF SlotsHold
    <3> QED BY <3>1, <3>2
  <2>8. SumOfWindow'
    <3>1. CASE n < size
      <4>1. Index(i) < 0 /\ buffer[i] = 0
        BY <2>1, <3>1 DEF Index, SlotsHold, Filled
      <4>2. sum = total[n] - total[0]
        BY <2>1, <3>1 DEF SumOfWindow, WindowSum, WindowLength
      <4>3. WindowSum' = total'[n + 1] - total'[0]
        BY <2>1, <3>1 DEF WindowSum, WindowLength
      <4> QED BY <2>1, <2>3, <2>6, <4>1, <4>2, <4>3, SMTT(30) DEF SumOfWindow, TypeOK
    <3>2. CASE n >= size
      <4>1. Index(i) = n - size /\ buffer[i] = total[n - size + 1] - total[n - size]
        BY <2>1, <3>2 DEF Index, SlotsHold
      <4>2. sum = total[n] - total[n - size]
        BY <2>1, <3>2 DEF SumOfWindow, WindowSum, WindowLength
      <4>3. WindowSum' = total'[n + 1] - total'[n - size + 1]
        BY <2>1, <3>2 DEF WindowSum, WindowLength
      <4>4. /\ total[n] \in Int /\ total[n - size] \in Int /\ total[n - size + 1] \in Int
            /\ total'[n - size + 1] = total[n - size + 1]
        BY <2>1, <2>6, <3>2 DEF TypeOK
      <4> QED BY <2>1, <2>3, <2>6, <4>1, <4>2, <4>3, <4>4 DEF SumOfWindow
    <3> QED BY <2>1, <3>1, <3>2
  <2> QED BY <2>4, <2>5, <2>7, <2>8
<1>2. CASE UNCHANGED vars
  BY <1>2 DEF vars, TypeOK, Filled, SlotsHold, Index, StartsAtZero, SumOfWindow, WindowSum, WindowLength
<1> QED BY <1>1, <1>2 DEF Next

\* The inductive invariant holds in every reachable state.
THEOREM Invariance == Spec => []IInv
<1> QED BY InitIInv, NextIInv, PTL DEF Spec

\* The running sum is the sum of the values in the window.
THEOREM SumCorrect == Spec => []SumOfWindow
<1>1. IInv => SumOfWindow
  BY DEF IInv
<1> QED BY <1>1, Invariance, PTL

\* The divisor of getRollingMean is the number of values in the window.
THEOREM CountCorrect == Spec => []CountOfWindow
<1>1. IInv => CountOfWindow
  BY SizesAssumption DEF IInv, TypeOK, Filled, CountOfWindow, ValidDataCount, WindowLength
<1> QED BY <1>1, Invariance, PTL

\* The state of an accumulator is well-typed: in particular next_insert_ never
\* leaves the buffer.
THEOREM TypeCorrect == Spec => []TypeOK
<1>1. IInv => TypeOK
  BY DEF IInv
<1> QED BY <1>1, Invariance, PTL

----------------------------------------------------------------------------
(* The mean.                                                                *)

\* m is a bound of the values whose multiples fit T.
Bounds(m) ==
  /\ m \in Int /\ m >= 0
  /\ \A v \in Values : v <= m
  /\ \A s \in Sizes : s * m < TMod \div 2

\* What was accumulated since the first j values is at most m per value.
SumsBounded(m) == \A j \in 0 .. n : total[n] - total[j] <= (n - j) * m

\* The sums stay bounded.
LEMMA BoundedInvariance ==
  ASSUME NEW m, Bounds(m)
  PROVE  Spec => []SumsBounded(m)
<1>1. Init => SumsBounded(m)
  BY MaxAssumption DEF Init, SumsBounded, Bounds
<1>2. IInv /\ SumsBounded(m) /\ [Next]_vars => SumsBounded(m)'
  <2> SUFFICES ASSUME IInv, SumsBounded(m), [Next]_vars PROVE SumsBounded(m)'
    OBVIOUS
  <2>1. ASSUME NEW val \in Values, Accumulate(val) PROVE SumsBounded(m)'
    <3>1. /\ n \in Nat /\ n < MaxCount /\ n' = n + 1 /\ val \in Int /\ val <= m /\ m \in Int
          /\ total \in [0 .. MaxCount -> Int]
          /\ total' = [total EXCEPT ![n + 1] = total[n] + val]
      BY <2>1, ValuesAssumption, MaxAssumption DEF Accumulate, Record, IInv, TypeOK, Bounds
    <3>2. total'[n + 1] = total[n] + val /\ \A j \in 0 .. n : total'[j] = total[j]
      BY <3>1, MaxAssumption
    <3>3. ASSUME NEW j \in 0 .. n PROVE total'[n'] - total'[j] <= (n' - j) * m
      <4>1. total[n] - total[j] <= (n - j) * m
        BY DEF SumsBounded
      <4>2. (n' - j) * m = (n - j) * m + m
        BY <3>1
      <4>3. total[n] \in Int /\ total[j] \in Int /\ (n - j) * m \in Int
        BY <3>1, MaxAssumption
      <4> QED BY <3>1, <3>2, <4>1, <4>2, <4>3
    <3>4. total'[n'] - total'[n'] = 0 /\ (n' - n') * m = 0
      BY <3>1, <3>2, MaxAssumption
    <3> QED BY <3>1, <3>3, <3>4 DEF SumsBounded
  <2>2. CASE UNCHANGED vars
    BY <2>2 DEF vars, SumsBounded
  <2> QED BY <2>1, <2>2 DEF Next
<1> QED BY <1>1, <1>2, Invariance, PTL DEF Spec

\* A product with a window is bounded by the one with the whole size.
LEMMA ProductMonotonic ==
  ASSUME NEW a \in Nat, NEW b \in Nat, a <= b, NEW m \in Nat
  PROVE  a * m <= b * m
<1>1. PICK d \in Nat : b = a + d
  <2>1. b - a \in Nat /\ b = a + (b - a)
    OBVIOUS
  <2> QED BY <2>1
<1>2. b * m = a * m + d * m
  BY <1>1
<1>3. d * m >= 0 /\ a * m \in Int
  OBVIOUS
<1> QED BY <1>2, <1>3

\* A quotient of naturals lies between 0 and the dividend.
LEMMA QuotientBounds ==
  ASSUME NEW a \in Nat, NEW b \in Nat \ {0}
  PROVE  a \div b \in Nat /\ a \div b <= a
OBVIOUS

\* A natural number in the upper half of T is itself as a T.
LEMMA FitsT ==
  ASSUME NEW x \in Nat, x < TMod \div 2
  PROVE  ToT(x) = x
<1>1. x < TMod /\ x % TMod = x
  BY WidthAssumption
<1> QED BY <1>1, WidthAssumption DEF ToT

\* The mean is that of the values in the window, rounded down, as long as their sum
\* is not negative and fits T: neither the division as a size_t nor the conversion
\* back to T changes it then.
THEOREM MeanCorrect == Spec => []MeanOfWindow
<1>1. PICK m : Bounds(m)
  <2>1. PICK k \in Values \union {0} :
          (\A v \in Values \union {0} : v <= k) /\ \A s \in Sizes : s * k < TMod \div 2
    BY FitsAssumption
  <2>2. Bounds(k)
    BY <2>1, ValuesAssumption DEF Bounds
  <2> QED BY <2>2
<1>2. IInv /\ SumsBounded(m) => MeanOfWindow
  <2> SUFFICES ASSUME IInv, SumsBounded(m), n > 0, WindowSum >= 0
               PROVE  RollingMean = WindowSum \div WindowLength
    BY DEF MeanOfWindow
  <2>1. /\ size \in Nat \ {0} /\ n \in Nat /\ sum \in Int /\ m \in Nat
        /\ total \in [0 .. MaxCount -> Int] /\ n \in 0 .. MaxCount
    BY <1>1, SizesAssumption, MaxAssumption DEF IInv, TypeOK, Bounds
  <2>2. WindowLength \in Nat \ {0} /\ WindowLength <= size /\ WindowLength <= n
    BY <2>1 DEF WindowLength
  <2>3. WindowSum <= WindowLength * m
    <3>1. n - WindowLength \in 0 .. n /\ n - (n - WindowLength) = WindowLength
      BY <2>1, <2>2
    <3> QED BY <3>1 DEF SumsBounded, WindowSum
  <2>4. sum = WindowSum /\ ValidDataCount = WindowLength
    <3>1. sum = WindowSum
      BY DEF IInv, SumOfWindow
    <3>2. ValidDataCount = WindowLength
      BY SizesAssumption DEF IInv, TypeOK, Filled, ValidDataCount, WindowLength
    <3> QED BY <3>1, <3>2
  <2>5. sum \in Nat /\ sum < TMod \div 2
    <3>1. WindowLength * m <= size * m
      BY <2>1, <2>2, ProductMonotonic
    <3>2. size * m < TMod \div 2
      BY <1>1 DEF Bounds, IInv, TypeOK
    <3>3. WindowLength * m \in Int /\ size * m \in Int /\ TMod \div 2 \in Int
      BY <2>1, <2>2, WidthAssumption
    <3> QED BY <2>1, <2>3, <2>4, <3>1, <3>2, <3>3
  <2>6. sum % SizeMod = sum
    BY <2>5, FitsAssumption, WidthAssumption
  <2>7. ToT(sum \div WindowLength) = sum \div WindowLength
    <3>1. sum \div WindowLength \in Nat /\ sum \div WindowLength <= sum
      BY <2>2, <2>5, QuotientBounds
    <3>2. sum \div WindowLength < TMod \div 2
      BY <2>5, <3>1, WidthAssumption
    <3> QED BY <3>1, <3>2, FitsT
  <2> QED BY <2>4, <2>6, <2>7 DEF RollingMean
<1>3. Spec => []SumsBounded(m)
  BY <1>1, BoundedInvariance
<1> QED BY <1>2, <1>3, Invariance, PTL

----------------------------------------------------------------------------
(* The client.                                                              *)

\* A program that accumulates converted times does to the accumulator what
\* accumulate allows: all of the above holds for it.
THEOREM ClientRefines == MeanSpec => Spec
<1>1. MeanInit => Init
  BY DEF MeanInit
<1>2. [MeanNext]_<<vars, measured>> => [Next]_vars
  BY DEF MeanNext, Measure, Take, Skip, Usable, Next
<1> QED BY <1>1, <1>2, PTL DEF MeanSpec, Spec

\* What is averaged is the window, also in that program.
THEOREM ClientMeanCorrect == MeanSpec => [](SumOfWindow /\ CountOfWindow /\ MeanOfWindow)
<1> QED BY ClientRefines, SumCorrect, CountCorrect, MeanCorrect, PTL

----------------------------------------------------------------------------
(* The conversion of times.  Its doubles are spaced by powers of two; what the  *)
(* proofs need of those is proved first, since the provers know no exponents.   *)

\* 2^y counts the subsets of 1 .. y; with y + 1 there are as many again.
LEMMA Doubles == ASSUME NEW y \in Nat PROVE 2 ^ y \in Nat \ {0} /\ 2 ^ (y + 1) = 2 * 2 ^ y
<1> DEFINE S == SUBSET (1 .. y)
           T == {s \union {y + 1} : s \in S}
<1>1. IsFiniteSet(1 .. y) /\ Cardinality(1 .. y) = y /\ IsFiniteSet(1 .. y + 1) /\ Cardinality(1 .. y + 1) = y + 1
  BY FS_Interval
<1>2. IsFiniteSet(S) /\ Cardinality(S) = 2 ^ y
  BY <1>1, FS_SUBSET
<1>3. Cardinality(SUBSET (1 .. y + 1)) = 2 ^ (y + 1)
  BY <1>1, FS_SUBSET
<1>4. IsFiniteSet(T) /\ Cardinality(T) = Cardinality(S)
  <2> DEFINE f == [s \in S |-> s \union {y + 1}]
  <2>1. f \in Bijection(S, T)
    <3>1. f \in [S -> T] /\ \A t \in T : \E s \in S : f[s] = t
      OBVIOUS
    <3>2. \A s, r \in S : f[s] = f[r] => s = r
      <4> SUFFICES ASSUME NEW s \in S, NEW r \in S, s \union {y + 1} = r \union {y + 1} PROVE s = r
        OBVIOUS
      <4>1. y + 1 \notin s /\ y + 1 \notin r
        OBVIOUS
      <4> QED BY <4>1
    <3> QED BY <3>1, <3>2 DEF Bijection, Injection, Surjection, IsInjective
  <2>2. ExistsBijection(S, T)
    BY <2>1 DEF ExistsBijection
  <2> HIDE DEF S, T
  <2> QED BY <1>2, <2>2, FS_Bijection
<1>5. SUBSET (1 .. y + 1) = S \union T
  <2>1. ASSUME NEW s \in SUBSET (1 .. y + 1) PROVE s \in S \union T
    <3>1. CASE y + 1 \in s
      <4>1. s \ {y + 1} \in S /\ s = (s \ {y + 1}) \union {y + 1}
        BY <3>1
      <4> QED BY <4>1
    <3>2. CASE y + 1 \notin s
      <4>1. \A i \in s : i \in 1 .. y
        BY <3>2
      <4> QED BY <4>1
    <3> QED BY <3>1, <3>2
  <2>2. ASSUME NEW s \in S \union T PROVE s \in SUBSET (1 .. y + 1)
    <3>1. PICK r \in S : s = r \/ s = r \union {y + 1}
      BY <2>2
    <3>2. \A i \in r : i \in 1 .. y + 1
      OBVIOUS
    <3> QED BY <3>1, <3>2
  <2> QED BY <2>1, <2>2
<1>6. S \intersect T = {}
  OBVIOUS
<1>7. Cardinality(S) \in Nat /\ S # {}
  BY <1>2, FS_CardinalityType
<1> HIDE DEF S, T
<1>8. Cardinality(S \union T) = Cardinality(S) + Cardinality(T)
  <2>1. Cardinality(S \union T) = Cardinality(S) + Cardinality(T) - Cardinality(S \intersect T)
    BY <1>2, <1>4, FS_Union
  <2>2. Cardinality(S \intersect T) = 0
    BY <1>6, FS_EmptySet, Zenon
  <2>3. Cardinality(T) \in Nat
    BY <1>4, <1>7
  <2> QED BY <2>1, <2>2, <2>3, <1>7
<1>9. Cardinality(S) # 0
  BY <1>2, <1>7, FS_EmptySet
<1>10. 2 ^ (y + 1) = Cardinality(S) + Cardinality(T)
  BY <1>3, <1>5, <1>8, Zenon
<1>11. 2 ^ (y + 1) = 2 ^ y + 2 ^ y /\ 2 ^ y \in Nat /\ 2 ^ y # 0
  BY <1>2, <1>4, <1>7, <1>9, <1>10, Zenon
<1> QED BY <1>11

\* 2^(a + b) is 2^a * 2^b.
LEMMA PowersAdd == ASSUME NEW a \in Nat PROVE \A b \in Nat : 2 ^ (a + b) = 2 ^ a * 2 ^ b
<1> DEFINE U == {b \in Nat : 2 ^ (a + b) = 2 ^ a * 2 ^ b}
<1>1. 0 \in U
  <2>1. 2 ^ 0 = 1 /\ 2 ^ a \in Nat /\ a + 0 = a
    BY Doubles
  <2> QED BY <2>1
<1>2. ASSUME NEW b \in Nat, b \in U PROVE b + 1 \in U
  <2> DEFINE x == 2 ^ a  y == 2 ^ b  z == 2 ^ (a + b)
  <2>1. x \in Nat /\ y \in Nat /\ z \in Nat /\ z = x * y /\ 2 ^ (b + 1) = 2 * y /\ 2 ^ ((a + b) + 1) = 2 * z
    BY <1>2, Doubles
  <2>2. a + (b + 1) = (a + b) + 1
    OBVIOUS
  <2> HIDE DEF x, y, z
  <2>3. 2 * z = x * (2 * y)
    BY <2>1
  <2>4. 2 ^ (a + (b + 1)) = x * 2 ^ (b + 1)
    BY <2>1, <2>2, <2>3
  <2> QED BY <2>4 DEF x
<1> HIDE DEF U
<1>3. Nat \subseteq U
  BY <1>1, <1>2, HoldsOfAll
<1> QED BY <1>3 DEF U

\* A number is less than the power with it as the exponent.
LEMMA PowerAbove == \A y \in Nat : y < 2 ^ y
<1> DEFINE U == {y \in Nat : y < 2 ^ y}
<1>1. 0 \in U
  BY Doubles
<1>2. ASSUME NEW y \in Nat, y \in U PROVE y + 1 \in U
  BY <1>2, Doubles
<1> HIDE DEF U
<1>3. Nat \subseteq U
  BY <1>1, <1>2, HoldsOfAll
<1> QED BY <1>3 DEF U

\* A greater exponent, a greater power: a multiple of the smaller one.
LEMMA PowersGrow ==
  ASSUME NEW a \in Nat, NEW b \in Nat, a <= b
  PROVE  /\ b - a \in Nat
         /\ 2 ^ b = 2 ^ a * 2 ^ (b - a)
         /\ 2 ^ a <= 2 ^ b
<1>1. b - a \in Nat /\ a + (b - a) = b
  OBVIOUS
<1>2. 2 ^ b = 2 ^ a * 2 ^ (b - a)
  BY <1>1, PowersAdd
<1> DEFINE x == 2 ^ a  y == 2 ^ (b - a)
<1>3. x \in Nat \ {0} /\ y \in Nat \ {0}
  BY <1>1, Doubles
<1> HIDE DEF x, y
<1>4. x <= x * y
  BY <1>3
<1> QED BY <1>1, <1>2, <1>4 DEF x, y

\* Multiplication keeps an order.
LEMMA TimesMonotone == ASSUME NEW x \in Int, NEW y \in Int, NEW m \in Nat, x <= y PROVE x * m <= y * m
OBVIOUS

\* And what holds of multiples holds of the factors.
LEMMA TimesReflects == ASSUME NEW x \in Int, NEW y \in Int, NEW m \in Nat \ {0}, m * x <= m * y PROVE x <= y
<1> SUFFICES ASSUME y + 1 <= x PROVE FALSE
  OBVIOUS
<1>1. (y + 1) * m <= x * m
  BY TimesMonotone
<1> QED BY <1>1

\* Below 2^Mantissa the doubles are the integers.
LEMMA SpacingOne == ASSUME NEW y \in Nat, y < 2 ^ Mantissa PROVE Spacing(y) = 1
<1> DEFINE P(e) == y < 2 ^ (Mantissa + e) /\ \A f \in 0 .. e - 1 : y >= 2 ^ (Mantissa + f)
<1>1. Mantissa \in Nat /\ Mantissa + 0 = Mantissa
  BY BitsAssumption
<1>2. 0 \in 0 .. y /\ P(0)
  BY <1>1
<1>3. \A e \in 0 .. y : P(e) => e = 0
  <2> SUFFICES ASSUME NEW e \in 0 .. y, P(e), e # 0 PROVE FALSE
    OBVIOUS
  <2>1. y >= 2 ^ (Mantissa + 0)
    <3>1. 0 \in 0 .. e - 1
      OBVIOUS
    <3> QED BY <3>1, Zenon
  <2>2. 2 ^ Mantissa \in Nat
    BY <1>1, Doubles
  <2> QED BY <1>1, <2>1, <2>2
<1> HIDE DEF P
<1>4. (CHOOSE e \in 0 .. y : P(e)) = 0
  BY <1>2, <1>3
<1>5. Spacing(y) = 2 ^ (CHOOSE e \in 0 .. y : P(e))
  BY Zenon DEF Spacing, P
<1>6. 2 ^ 0 = 1
  OBVIOUS
<1> QED BY <1>4, <1>5, <1>6

\* Above, the distance doubles at each power of two.
LEMMA SpacingIs ==
  ASSUME NEW y \in Nat, NEW j \in Nat, 2 ^ (Mantissa + j) <= y, y < 2 ^ (Mantissa + (j + 1))
  PROVE  Spacing(y) = 2 ^ (j + 1)
<1> DEFINE P(e) == y < 2 ^ (Mantissa + e) /\ \A f \in 0 .. e - 1 : y >= 2 ^ (Mantissa + f)
           p(e) == 2 ^ (Mantissa + e)
<1>1. Mantissa \in Nat /\ Mantissa >= 1 /\ j + 1 \in Nat
  BY BitsAssumption
<1>2. \A e \in Nat : p(e) \in Nat
  BY <1>1, Doubles
<1>3. \A e, f \in Nat : e <= f => p(e) <= p(f)
  BY <1>1, PowersGrow
<1>4. j + 1 \in 0 .. y
  <2>1. p(j) <= y
    OBVIOUS
  <2>2. Mantissa + j < p(j)
    BY <1>1, PowerAbove
  <2> HIDE DEF p
  <2> QED BY <1>1, <1>2, <2>1, <2>2
<1>5. P(j + 1)
  <2>1. y < p(j + 1) /\ p(j) <= y
    OBVIOUS
  <2>2. \A f \in 0 .. (j + 1) - 1 : y >= p(f)
    <3> HIDE DEF p
    <3> QED BY <1>1, <1>2, <1>3, <2>1
  <2> QED BY <2>1, <2>2 DEF P
<1>6. \A e \in 0 .. y : P(e) => e = j + 1
  <2> SUFFICES ASSUME NEW e \in 0 .. y, P(e), e # j + 1 PROVE FALSE
    OBVIOUS
  <2>1. y < p(e) /\ p(j) <= y /\ y < p(j + 1)
    OBVIOUS
  <2>2. \A f \in 0 .. e - 1 : y >= p(f)
    OBVIOUS
  <2> HIDE DEF p, P
  <2>3. CASE e <= j
    <3>1. p(e) <= p(j)
      BY <1>3, <2>3
    <3> QED BY <2>1, <3>1, <1>2
  <2>4. CASE e > j + 1
    <3>1. j + 1 \in 0 .. e - 1
      BY <2>4
    <3> QED BY <2>1, <2>2, <3>1, <1>2
  <2> QED BY <2>3, <2>4
<1> HIDE DEF P
<1>7. (CHOOSE e \in 0 .. y : P(e)) = j + 1
  BY <1>4, <1>5, <1>6
<1>8. Spacing(y) = 2 ^ (CHOOSE e \in 0 .. y : P(e))
  BY Zenon DEF Spacing, P
<1> QED BY <1>7, <1>8

\* Every number is in one of the two cases.
LEMMA SpacingCases ==
  ASSUME NEW y \in Nat
  PROVE  y < 2 ^ Mantissa \/ \E j \in Nat : 2 ^ (Mantissa + j) <= y /\ y < 2 ^ (Mantissa + (j + 1))
<1> DEFINE U == {e \in Nat : y < 2 ^ (Mantissa + e)}
<1>1. Mantissa \in Nat
  BY BitsAssumption
<1>2. y \in U
  <2>1. y < 2 ^ y
    BY PowerAbove
  <2>2. 2 ^ y <= 2 ^ (Mantissa + y) /\ 2 ^ y \in Nat /\ 2 ^ (Mantissa + y) \in Nat
    BY <1>1, PowersGrow, Doubles
  <2> QED BY <2>1, <2>2
<1>3. PICK e \in U : \A k \in U : e <= k
  <2>1. U \in SUBSET Nat /\ U # {}
    BY <1>2
  <2> HIDE DEF U
  <2> QED BY <2>1, LeastNumber
<1>4. e \in Nat /\ y < 2 ^ (Mantissa + e)
  OBVIOUS
<1>5. CASE e = 0
  <2>1. Mantissa + e = Mantissa
    BY <1>1, <1>5
  <2> QED BY <1>4, <2>1
<1>6. CASE e # 0
  <2> DEFINE j == e - 1
  <2>1. j \in Nat /\ j + 1 = e
    BY <1>4, <1>6
  <2>2. j \notin U
    <3> HIDE DEF U
    <3> QED BY <1>3, <1>4, <2>1
  <2>3. 2 ^ (Mantissa + j) \in Nat
    BY <1>1, <2>1, Doubles
  <2>4. 2 ^ (Mantissa + j) <= y
    <3> HIDE DEF j
    <3> QED BY <2>1, <2>2, <2>3
  <2>5. y < 2 ^ (Mantissa + (j + 1))
    BY <1>4, <2>1
  <2> HIDE DEF j
  <2> QED BY <2>1, <2>4, <2>5
<1> QED BY <1>5, <1>6

\* How many doubles are equally far apart, from 0 on.
Bins == 2 ^ Mantissa

\* That is an even number.
LEMMA BinsIs == Mantissa \in Nat \ {0} /\ Bins \in Nat \ {0} /\ \E b \in Nat \ {0} : Bins = 2 * b
<1>1. Mantissa \in Nat \ {0} /\ Mantissa - 1 \in Nat /\ Mantissa = (Mantissa - 1) + 1
  BY BitsAssumption
<1>2. 2 ^ (Mantissa - 1) \in Nat \ {0} /\ 2 ^ ((Mantissa - 1) + 1) = 2 * 2 ^ (Mantissa - 1)
  BY <1>1, Doubles
<1>3. Bins = 2 * 2 ^ (Mantissa - 1)
  BY <1>1, <1>2 DEF Bins
<1> QED BY <1>1, <1>2, <1>3

\* y is between doubles that are 2 * v apart.
Apart(y, v) == Spacing(y) = 2 * v /\ Bins * v <= y /\ y < Bins * (2 * v)

\* Between two powers of two the doubles are that far apart.
LEMMA ApartIs ==
  ASSUME NEW y \in Nat, NEW j \in Nat, Bins * 2 ^ j <= y, y < Bins * (2 * 2 ^ j)
  PROVE  Apart(y, 2 ^ j)
<1>1. 2 ^ (j + 1) = 2 * 2 ^ j /\ Mantissa \in Nat /\ j + 1 \in Nat
  BY Doubles, BinsIs
<1>2. 2 ^ (Mantissa + j) = Bins * 2 ^ j /\ 2 ^ (Mantissa + (j + 1)) = Bins * 2 ^ (j + 1)
  BY <1>1, PowersAdd DEF Bins
<1>3. 2 ^ (Mantissa + j) <= y /\ y < 2 ^ (Mantissa + (j + 1))
  BY <1>1, <1>2, Zenon
<1>4. Spacing(y) = 2 ^ (j + 1)
  BY <1>3, SpacingIs
<1> QED BY <1>1, <1>4, Zenon DEF Apart

\* Every number is below 2^Mantissa or between two such powers.
LEMMA ApartCases ==
  ASSUME NEW y \in Nat
  PROVE  (y < Bins /\ Spacing(y) = 1) \/ \E j \in Nat : Apart(y, 2 ^ j)
<1>1. CASE y < Bins
  BY <1>1, SpacingOne DEF Bins
<1>2. CASE \E j \in Nat : 2 ^ (Mantissa + j) <= y /\ y < 2 ^ (Mantissa + (j + 1))
  <2>1. PICK j \in Nat : 2 ^ (Mantissa + j) <= y /\ y < 2 ^ (Mantissa + (j + 1))
    BY <1>2
  <2>2. 2 ^ (j + 1) = 2 * 2 ^ j /\ Mantissa \in Nat /\ j + 1 \in Nat
    BY Doubles, BinsIs
  <2>3. 2 ^ (Mantissa + j) = Bins * 2 ^ j /\ 2 ^ (Mantissa + (j + 1)) = Bins * 2 ^ (j + 1)
    BY <2>2, PowersAdd DEF Bins
  <2>4. Bins * 2 ^ j <= y /\ y < Bins * (2 * 2 ^ j)
    BY <2>1, <2>2, <2>3, Zenon
  <2>5. Apart(y, 2 ^ j)
    BY <2>4, ApartIs
  <2> QED BY <2>5
<1> QED BY <1>1, <1>2, SpacingCases DEF Bins

\* Division leaves a rest.
LEMMA DivisionIs ==
  ASSUME NEW y \in Nat, NEW u \in Nat \ {0}
  PROVE  y \div u \in Nat /\ y % u \in 0 .. u - 1 /\ y = (u * (y \div u)) + (y % u)
OBVIOUS

\* Rounding is to a multiple of the spacing, no further away than half of it.
LEMMA Rounded ==
  ASSUME NEW y \in Nat, NEW v \in Nat \ {0}, Spacing(y) = 2 * v
  PROVE  \E q \in Nat : Nearest(y) = (2 * v) * q /\ y - v <= (2 * v) * q /\ (2 * v) * q <= y + v
<1> DEFINE u == 2 * v  q == y \div u  r == y % u
<1>1. u \in Nat \ {0} /\ q \in Nat /\ r \in 0 .. u - 1 /\ y = u * q + r
  <2>1. u \in Nat \ {0}
    OBVIOUS
  <2> HIDE DEF u
  <2> QED BY <2>1, DivisionIs
<1>2. u * (q + 1) = u * q + u /\ u * q \in Int
  <2> HIDE DEF u, q, r
  <2> QED BY <1>1
<1>3. Nearest(y) = u * (IF 2 * r > u \/ (2 * r = u /\ q % 2 = 1) THEN q + 1 ELSE q)
  BY Zenon DEF Nearest
<1>4. u = 2 * v
  OBVIOUS
<1> HIDE DEF q, r, u
<1>5. CASE 2 * r > u \/ (2 * r = u /\ q % 2 = 1)
  <2>1. Nearest(y) = u * (q + 1) /\ y - v <= u * (q + 1) /\ u * (q + 1) <= y + v /\ q + 1 \in Nat
    BY <1>1, <1>2, <1>3, <1>4, <1>5
  <2> QED BY <2>1, <1>4
<1>6. CASE ~(2 * r > u \/ (2 * r = u /\ q % 2 = 1))
  <2>1. Nearest(y) = u * q
    BY <1>3, <1>6
  <2>2. 2 * r <= u
    BY <1>1, <1>6
  <2>3. y - v <= u * q /\ u * q <= y + v
    BY <1>1, <1>2, <1>4, <2>2
  <2> QED BY <1>1, <2>1, <2>3, <1>4
<1> QED BY <1>5, <1>6

\* Integers below 2^Mantissa are doubles.
LEMMA NearestOne == ASSUME NEW y \in Nat, y < Bins PROVE Nearest(y) = y
<1>1. Spacing(y) = 1
  BY SpacingOne DEF Bins
<1>2. y \div 1 = y /\ y % 1 = 0
  OBVIOUS
<1> QED BY <1>1, <1>2 DEF Nearest

\* Rounding stays between the powers of two around the number, and goes at most
\* half the way to the next double.
LEMMA NearestApart ==
  ASSUME NEW y \in Nat, NEW v \in Nat \ {0}, Apart(y, v)
  PROVE  /\ \E q \in Nat : Nearest(y) = (2 * v) * q
         /\ y - v <= Nearest(y) /\ Nearest(y) <= y + v
         /\ Bins * v <= Nearest(y) /\ Nearest(y) <= Bins * (2 * v)
         /\ Nearest(y) \in Nat
<1> DEFINE u == 2 * v
<1>1. PICK q \in Nat : Nearest(y) = u * q /\ y - v <= u * q /\ u * q <= y + v
  BY Rounded DEF Apart
<1>2. PICK b \in Nat \ {0} : Bins = 2 * b
  BY BinsIs
<1>3. u \in Nat \ {0} /\ u = 2 * v /\ Bins * v = u * b /\ Bins * (2 * v) = u * Bins /\ Bins \in Nat
  BY <1>2
<1>4. u * b <= y /\ y < u * Bins
  BY <1>3 DEF Apart
<1> HIDE DEF u
<1>5. u * (q + 1) = u * q + u /\ u * (Bins + 1) = u * Bins + u
  BY <1>3
<1>6. b <= q
  <2>1. u * b < u * (q + 1)
    BY <1>1, <1>3, <1>4, <1>5
  <2> SUFFICES ASSUME q + 1 <= b PROVE FALSE
    OBVIOUS
  <2>2. (q + 1) * u <= b * u
    BY TimesMonotone, <1>3
  <2> QED BY <2>1, <2>2, <1>3
<1>7. q <= Bins
  <2>1. u * q < u * (Bins + 1)
    BY <1>1, <1>3, <1>4, <1>5
  <2> SUFFICES ASSUME Bins + 1 <= q PROVE FALSE
    BY <1>3
  <2>2. (Bins + 1) * u <= q * u
    BY TimesMonotone, <1>3
  <2> QED BY <2>1, <2>2, <1>3
<1>8. b * u <= q * u /\ q * u <= Bins * u
  BY <1>3, <1>6, <1>7, TimesMonotone
<1>9. u * q \in Nat /\ b * u = u * b /\ q * u = u * q /\ Bins * u = u * Bins
  BY <1>3
<1> QED BY <1>1, <1>3, <1>8, <1>9 DEF u

\* Multiples of u that are less than u apart.
LEMMA Multiples ==
  ASSUME NEW u \in Nat \ {0}, NEW x \in Int, NEW y \in Int, u * x < u * y + u
  PROVE  x <= y /\ u * x <= u * y
<1>1. x <= y
  <2> SUFFICES ASSUME y + 1 <= x PROVE FALSE
    OBVIOUS
  <2>1. (y + 1) * u <= x * u
    BY TimesMonotone
  <2> QED BY <2>1
<1>2. x * u <= y * u
  BY <1>1, TimesMonotone
<1> QED BY <1>1, <1>2

\* Rounding gives a number that is not negative.
LEMMA NearestNat == ASSUME NEW y \in Nat PROVE Nearest(y) \in Nat
<1>1. CASE y < Bins
  BY <1>1, NearestOne
<1>2. ASSUME NEW j \in Nat, Apart(y, 2 ^ j) PROVE Nearest(y) \in Nat
  <2>1. 2 ^ j \in Nat \ {0}
    BY Doubles
  <2> QED BY <1>2, <2>1, NearestApart
<1> QED BY <1>1, <1>2, ApartCases

\* Rounding keeps the order.
LEMMA NearestMonotone ==
  ASSUME NEW m \in Nat, NEW y \in Nat, m <= y
  PROVE  Nearest(m) <= Nearest(y)
<1>0. Bins \in Nat \ {0} /\ Nearest(m) \in Nat /\ Nearest(y) \in Nat
  BY BinsIs, NearestNat
<1>1. CASE y < Bins
  <2>1. m < Bins
    BY <1>0, <1>1
  <2> QED BY <1>1, <2>1, NearestOne
<1>2. ASSUME NEW j \in Nat, Apart(y, 2 ^ j), m < Bins PROVE Nearest(m) <= Nearest(y)
  <2> DEFINE v == 2 ^ j
  <2>1. v \in Nat \ {0}
    BY Doubles
  <2>2. Bins * v <= Nearest(y)
    BY <1>2, <2>1, NearestApart
  <2>3. Nearest(m) = m
    BY <1>2, NearestOne
  <2> HIDE DEF v
  <2>4. Bins <= Bins * v
    BY <1>0, <2>1
  <2>5. Bins * v \in Nat
    BY <1>0, <2>1
  <2> QED BY <1>0, <1>2, <2>2, <2>3, <2>4, <2>5
<1>3. ASSUME NEW j \in Nat, Apart(y, 2 ^ j), NEW i \in Nat, Apart(m, 2 ^ i) PROVE Nearest(m) <= Nearest(y)
  <2> DEFINE v == 2 ^ j  w == 2 ^ i
  <2>1. v \in Nat \ {0} /\ w \in Nat \ {0}
    BY Doubles
  <2>2. /\ \E q \in Nat : Nearest(y) = (2 * v) * q
        /\ y - v <= Nearest(y) /\ Bins * v <= Nearest(y) /\ y < Bins * (2 * v)
    BY <1>3, <2>1, NearestApart DEF Apart
  <2>3. /\ \E q \in Nat : Nearest(m) = (2 * w) * q
        /\ Nearest(m) <= m + w /\ Nearest(m) <= Bins * (2 * w) /\ Bins * w <= m
    BY <1>3, <2>1, NearestApart DEF Apart
  <2>4. i < j => 2 * w <= v
    <3>1. 2 ^ (i + 1) = 2 * w
      BY Doubles
    <3>2. i < j => 2 ^ (i + 1) <= 2 ^ j
      BY PowersGrow
    <3> QED BY <3>1, <3>2
  <2>5. j < i => 2 * v <= w
    <3>1. 2 ^ (j + 1) = 2 * v
      BY Doubles
    <3>2. j < i => 2 ^ (j + 1) <= 2 ^ i
      BY PowersGrow
    <3> QED BY <3>1, <3>2
  <2>6. i = j => v = w
    OBVIOUS
  <2> HIDE DEF v, w
  <2>7. CASE i < j
    <3>1. (2 * w) * Bins <= v * Bins
      BY <1>0, <2>1, <2>4, <2>7, TimesMonotone
    <3>2. (2 * w) * Bins = Bins * (2 * w) /\ v * Bins = Bins * v /\ Bins * v \in Int /\ Bins * (2 * w) \in Int
      BY <1>0, <2>1
    <3> QED BY <1>0, <2>2, <2>3, <3>1, <3>2
  <2>8. CASE j < i
    <3>1. (2 * v) * Bins <= w * Bins
      BY <1>0, <2>1, <2>5, <2>8, TimesMonotone
    <3>2. (2 * v) * Bins = Bins * (2 * v) /\ w * Bins = Bins * w /\ Bins * w \in Int /\ Bins * (2 * v) \in Int
      BY <1>0, <2>1
    <3> QED BY <1>0, <2>2, <2>3, <3>1, <3>2
  <2>9. CASE i = j
    <3>1. PICK q \in Nat : Nearest(y) = (2 * v) * q
      BY <2>2
    <3>2. PICK p \in Nat : Nearest(m) = (2 * v) * p
      BY <2>3, <2>6, <2>9
    <3>3. CASE m = y
      BY <1>0, <3>3
    <3>4. CASE m < y
      <4> DEFINE u == 2 * v
      <4>1. u \in Nat \ {0} /\ u = 2 * v
        BY <2>1
      <4> HIDE DEF u
      <4>2. u * p \in Nat /\ u * q \in Nat /\ Nearest(m) = u * p /\ Nearest(y) = u * q
        BY <4>1, <3>1, <3>2
      <4>3. u * p < u * q + u
        BY <2>1, <2>2, <2>3, <2>6, <2>9, <3>4, <4>1, <4>2
      <4> QED BY <4>1, <4>2, <4>3, Multiples
    <3> QED BY <3>3, <3>4
  <2> QED BY <2>7, <2>8, <2>9
<1> QED BY <1>0, <1>1, <1>2, <1>3, ApartCases

\* A power of two is a double.
LEMMA NearestPower == ASSUME NEW e \in Nat PROVE Nearest(2 ^ e) = 2 ^ e
<1>0. Mantissa \in Nat \ {0} /\ Bins \in Nat \ {0}
  BY BinsIs
<1>1. CASE e < Mantissa
  <2>1. e + 1 <= Mantissa /\ e + 1 \in Nat
    BY <1>0, <1>1
  <2>2. 2 ^ (e + 1) <= 2 ^ Mantissa /\ 2 ^ (e + 1) = 2 * 2 ^ e /\ 2 ^ e \in Nat \ {0}
    BY <1>0, <2>1, PowersGrow, Doubles
  <2>3. 2 ^ e < Bins
    <3> DEFINE x == 2 ^ e  y == 2 ^ (e + 1)
    <3>1. y <= Bins /\ y = 2 * x /\ x \in Nat \ {0}
      BY <2>2 DEF Bins
    <3> HIDE DEF x, y
    <3>2. x < Bins
      BY <1>0, <3>1
    <3> QED BY <3>2 DEF x
  <2> QED BY <2>2, <2>3, NearestOne
<1>2. CASE e >= Mantissa
  <2> DEFINE j == e - Mantissa  v == 2 ^ j  y == 2 ^ e
  <2>1. j \in Nat /\ y = Bins * v
    BY <1>0, <1>2, PowersGrow DEF Bins
  <2>2. v \in Nat \ {0} /\ y \in Nat
    BY <2>1, Doubles
  <2>3. Bins * v <= y /\ y < Bins * (2 * v)
    <3> HIDE DEF v, y
    <3>1. Bins * (2 * v) = Bins * v + Bins * v /\ Bins * v \in Nat \ {0}
      BY <1>0, <2>2
    <3> QED BY <2>1, <3>1
  <2>4. Apart(y, v)
    <3> HIDE DEF y, j
    <3> QED BY <2>1, <2>2, <2>3, ApartIs
  <2>5. Nearest(y) = y
    <3> HIDE DEF v, y, j
    <3>1. PICK q \in Nat : Nearest(y) = (2 * v) * q
      BY <2>2, <2>4, NearestApart
    <3>2. PICK b \in Nat \ {0} : Bins = 2 * b
      BY BinsIs
    <3> DEFINE u == 2 * v
    <3>3. y = u * b /\ u \in Nat \ {0} /\ u = 2 * v /\ Nearest(y) = u * q
      BY <2>1, <2>2, <3>1, <3>2
    <3>4. y - v <= Nearest(y) /\ Nearest(y) <= y + v
      BY <2>2, <2>4, NearestApart
    <3> HIDE DEF u
    <3>5. u * b < u * q + u /\ u * q < u * b + u
      <4>1. u * b \in Int /\ u * q \in Int
        BY <3>3
      <4> QED BY <2>2, <3>3, <3>4, <4>1
    <3>6. b <= q /\ q <= b
      BY <3>3, <3>5, Multiples
    <3> QED BY <3>3, <3>6
  <2> QED BY <2>5
<1> QED BY <1>0, <1>1, <1>2

\* The first number beyond the greatest number of nanoseconds.
Limit == 2 ^ (Width - 1)

\* The limits in terms of it; as a power of two it is a double.
LEMMA LimitIs ==
  /\ Width - 1 \in Nat /\ Limit \in Nat \ {0}
  /\ Nearest(Limit) = Limit
  /\ NsMax = Limit - 1 /\ NsMin = -Limit
<1>1. Width - 1 \in Nat
  BY BitsAssumption
<1>2. Limit \in Nat \ {0} /\ Nearest(Limit) = Limit
  BY <1>1, Doubles, NearestPower DEF Limit
<1>3. NsMax = Limit - 1 /\ NsMin = -Limit
  BY Zenon DEF NsMax, NsMin, Limit
<1> QED BY <1>1, <1>2, <1>3

\* The limit is a multiple of the distance of the doubles around it, unless every
\* number of nanoseconds is a double.
LEMMA LimitCases == Bins = 2 * Limit \/ \E j \in Nat : Limit = Bins * 2 ^ j
<1>1. Width - 1 \in Nat /\ Mantissa \in Nat /\ Mantissa \in 1 .. Width /\ Width \in Nat
  BY BitsAssumption
<1>2. CASE Mantissa = Width
  <2>1. Width = (Width - 1) + 1
    BY <1>1
  <2>2. 2 ^ ((Width - 1) + 1) = 2 * 2 ^ (Width - 1)
    BY <1>1, Doubles
  <2>3. 2 ^ Width = 2 * 2 ^ (Width - 1)
    BY <2>1, <2>2
  <2> QED BY <1>2, <2>3 DEF Bins, Limit
<1>3. CASE Mantissa # Width
  <2> DEFINE W == Width - 1
  <2>1. W \in Nat /\ Mantissa <= W
    BY <1>1, <1>3
  <2>2. Limit = 2 ^ W
    BY DEF Limit
  <2> HIDE DEF W
  <2>3. W - Mantissa \in Nat /\ 2 ^ W = 2 ^ Mantissa * 2 ^ (W - Mantissa)
    BY <1>1, <2>1, PowersGrow
  <2>4. Limit = Bins * 2 ^ (W - Mantissa)
    BY <2>2, <2>3, Zenon DEF Bins
  <2> QED BY <2>3, <2>4
<1> QED BY <1>2, <1>3

\* What is rounded to the limit or less.
LEMMA UpToLimit ==
  ASSUME NEW j \in Nat, Limit = Bins * 2 ^ j, NEW x \in Nat
  PROVE  /\ x < Limit + 2 ^ j => Nearest(x) <= Limit
         /\ Nearest(x) <= Limit => x <= Limit + 2 ^ j
<1> DEFINE k == 2 ^ j
<1>0. Limit \in Nat \ {0} /\ Nearest(Limit) = Limit /\ Bins \in Nat \ {0} /\ Nearest(x) \in Nat
  BY LimitIs, BinsIs, NearestNat
<1>1. k \in Nat \ {0}
  BY Doubles
<1>2. Bins * (2 * k) = 2 * Limit /\ k <= Limit
  <2>1. Limit = Bins * k
    OBVIOUS
  <2> HIDE DEF k
  <2>2. 1 * k <= Bins * k
    BY <1>0, <1>1, TimesMonotone
  <2> QED BY <1>0, <1>1, <2>1, <2>2
<1>3. ASSUME Limit <= x, x < 2 * Limit PROVE Apart(x, k)
  <2>1. Bins * 2 ^ j <= x /\ x < Bins * (2 * 2 ^ j)
    BY <1>2, <1>3
  <2> QED BY <2>1, ApartIs
<1>4. Nearest(2 * Limit) = 2 * Limit
  <2>1. 2 ^ ((Width - 1) + 1) = 2 * Limit /\ (Width - 1) + 1 \in Nat
    BY LimitIs, Doubles DEF Limit
  <2>2. Nearest(2 ^ ((Width - 1) + 1)) = 2 ^ ((Width - 1) + 1)
    BY <2>1, NearestPower
  <2> QED BY <2>1, <2>2
<1>5. Limit = Bins * k
  OBVIOUS
<1> HIDE DEF k
<1>6. ASSUME x < Limit + k PROVE Nearest(x) <= Limit
  <2>1. CASE x <= Limit
    BY <1>0, <2>1, NearestMonotone
  <2>2. CASE Limit <= x
    <3>1. x < 2 * Limit
      BY <1>0, <1>1, <1>2, <1>6
    <3>2. Apart(x, k)
      BY <1>3, <2>2, <3>1
    <3>3. PICK q \in Nat : Nearest(x) = (2 * k) * q
      BY <1>1, <3>2, NearestApart
    <3>4. Nearest(x) <= x + k
      BY <1>1, <3>2, NearestApart
    <3>5. PICK b \in Nat \ {0} : Bins = 2 * b
      BY BinsIs
    <3> DEFINE u == 2 * k
    <3>6. u \in Nat \ {0} /\ u = 2 * k /\ Limit = u * b /\ Nearest(x) = u * q
      BY <1>1, <1>5, <3>3, <3>5
    <3> HIDE DEF u
    <3>7. u * q < u * b + u
      BY <1>0, <1>1, <1>6, <3>4, <3>6
    <3> QED BY <3>6, <3>7, Multiples
  <2> QED BY <1>0, <2>1, <2>2
<1>7. ASSUME Nearest(x) <= Limit PROVE x <= Limit + k
  <2> SUFFICES ASSUME x > Limit + k PROVE FALSE
    BY <1>0, <1>1
  <2>1. CASE x < 2 * Limit
    <3>1. Limit <= x
      BY <1>0, <1>1
    <3>2. x - k <= Nearest(x)
      BY <1>1, <1>3, <2>1, <3>1, NearestApart
    <3> QED BY <1>0, <1>1, <1>7, <3>2
  <2>2. CASE 2 * Limit <= x
    <3>1. 2 * Limit <= Nearest(x)
      <4>1. 2 * Limit \in Nat
        BY <1>0
      <4> QED BY <1>4, <2>2, <4>1, NearestMonotone
    <3> QED BY <1>0, <1>7, <3>1
  <2> QED BY <1>0, <2>1, <2>2
<1> QED BY <1>6, <1>7 DEF k

\* The distance of the doubles behind the limit, and what the greatest number of
\* nanoseconds is as a double: itself, or the limit.
LEMMA AtLimit ==
  /\ Bins = 2 * Limit => Spacing(Limit) = 1
  /\ \A j \in Nat : Limit = Bins * 2 ^ j => Spacing(Limit) = 2 * 2 ^ j
  /\ Limit <= Bins => Nearest(Limit - 1) = Limit - 1
  /\ \A j \in Nat \ {0} : Limit = Bins * 2 ^ j => 2 ^ j >= 2 /\ Nearest(Limit - 1) = Limit
<1>0. Limit \in Nat \ {0} /\ Bins \in Nat \ {0}
  BY LimitIs, BinsIs
<1>1. Bins = 2 * Limit => Spacing(Limit) = 1
  BY <1>0, SpacingOne DEF Bins
<1>2. ASSUME NEW j \in Nat, Limit = Bins * 2 ^ j PROVE Spacing(Limit) = 2 * 2 ^ j
  <2> DEFINE k == 2 ^ j
  <2>1. k \in Nat \ {0} /\ Limit = Bins * k
    BY <1>2, Doubles
  <2>2. Limit < Bins * (2 * k) /\ Bins * k <= Limit
    <3> HIDE DEF k
    <3>1. Bins * (2 * k) = 2 * Limit
      BY <1>0, <2>1
    <3> QED BY <1>0, <2>1, <3>1
  <2> QED BY <1>0, <2>2, ApartIs DEF Apart
<1>3. ASSUME Limit <= Bins PROVE Nearest(Limit - 1) = Limit - 1
  BY <1>0, <1>3, NearestOne
<1>4. ASSUME NEW j \in Nat \ {0}, Limit = Bins * 2 ^ j PROVE 2 ^ j >= 2 /\ Nearest(Limit - 1) = Limit
  <2> DEFINE i == j - 1  v == 2 ^ i  u == 2 ^ j  y == Limit - 1
  <2>1. i \in Nat /\ j = i + 1
    OBVIOUS
  <2>2. v \in Nat \ {0} /\ u = 2 * v
    BY <2>1, Doubles
  <2>3. PICK b \in Nat \ {0} : Bins = 2 * b
    BY BinsIs
  <2>4. Limit = Bins * u /\ y = Limit - 1 /\ y \in Nat
    BY <1>0, <1>4
  <2>5. Bins * v <= y /\ y < Bins * (2 * v)
    <3> HIDE DEF v, u, y, i
    <3>1. Limit = Bins * (2 * v) /\ Limit = Bins * v + Bins * v
      BY <1>0, <2>2, <2>4
    <3>2. Bins * v \in Nat \ {0}
      BY <1>0, <2>2
    <3> QED BY <1>0, <2>4, <3>1, <3>2
  <2>6. Spacing(y) = u
    <3>1. Apart(y, v)
      <4> HIDE DEF y, i
      <4> QED BY <2>1, <2>4, <2>5, ApartIs
    <3> QED BY <2>2, <3>1 DEF Apart
  <2>7. u \in Nat /\ u >= 2
    BY <2>2
  <2> HIDE DEF v, u, y, i
  <2>8. y \div u = Bins - 1 /\ y % u = u - 1
    <3> DEFINE q == y \div u  r == y % u
    <3>1. q \in Nat /\ r \in 0 .. u - 1 /\ y = u * q + r
      <4>1. u \in Nat \ {0} /\ y \in Nat
        BY <2>4, <2>7
      <4> QED BY <4>1, DivisionIs, Zenon
    <3> HIDE DEF q, r
    <3>2. y = u * (Bins - 1) + (u - 1) /\ u * (Bins - 1) \in Int /\ u * q \in Int /\ Bins - 1 \in Int
      BY <1>0, <2>4, <2>7, <3>1
    <3>3. u * q < u * (Bins - 1) + u /\ u * (Bins - 1) < u * q + u
      BY <2>7, <3>1, <3>2
    <3>4. q <= Bins - 1 /\ Bins - 1 <= q
      BY <2>7, <3>1, <3>2, <3>3, Multiples
    <3>5. q = Bins - 1
      BY <1>0, <3>1, <3>4
    <3>6. r = u - 1
      BY <2>7, <3>1, <3>2, <3>5
    <3> QED BY <3>5, <3>6 DEF q, r
  <2>9. (Bins - 1) % 2 = 1
    BY <2>3
  <2>10. 2 * (u - 1) > u \/ (2 * (u - 1) = u /\ (Bins - 1) % 2 = 1)
    BY <2>7, <2>9
  <2>11. Nearest(y) = u * (IF 2 * (u - 1) > u \/ (2 * (u - 1) = u /\ (Bins - 1) % 2 = 1)
                           THEN (Bins - 1) + 1 ELSE Bins - 1)
    BY <2>6, <2>8, Zenon DEF Nearest
  <2>12. Nearest(y) = Limit
    <3>1. u * ((Bins - 1) + 1) = Limit
      BY <1>0, <2>4, <2>7
    <3> QED BY <2>10, <2>11, <3>1
  <2> QED BY <2>4, <2>7, <2>12 DEF u
<1> QED BY <1>1, <1>2, <1>3, <1>4

\* A product with a rounded factor: what is within the limit does not leave it.
LEMMA StaysWithin ==
  ASSUME NEW c \in Nat, NEW m \in Nat \ {0}, c * m <= Limit
  PROVE  Nearest(Nearest(c) * m) <= Limit
<1>0. Limit \in Nat \ {0} /\ Nearest(Limit) = Limit /\ Bins \in Nat \ {0} /\ Nearest(c) \in Nat
  BY LimitIs, BinsIs, NearestNat
<1>1. ASSUME Nearest(c) = c PROVE Nearest(Nearest(c) * m) <= Limit
  <2>1. c * m \in Nat
    OBVIOUS
  <2>2. Nearest(c * m) <= Limit
    BY <1>0, <2>1, NearestMonotone
  <2> QED BY <1>1, <2>2
<1>2. CASE c < Bins
  BY <1>1, <1>2, NearestOne
<1>3. ASSUME NEW i \in Nat, Apart(c, 2 ^ i) PROVE Nearest(Nearest(c) * m) <= Limit
  <2> DEFINE v == 2 ^ i  C == Nearest(c)
  <2>1. v \in Nat \ {0}
    BY Doubles
  <2>2. Bins * v <= c /\ C <= c + v
    BY <1>3, <2>1, NearestApart DEF Apart
  <2>3. CASE c = Bins * v
    <3>1. 2 ^ (Mantissa + i) = c /\ Mantissa + i \in Nat
      BY <2>3, BinsIs, PowersAdd DEF Bins
    <3> QED BY <1>1, <3>1, NearestPower
  <2>4. CASE c # Bins * v
    <3>1. PICK j \in Nat : Limit = Bins * 2 ^ j
      <4>1. Bins # 2 * Limit
        <5> HIDE DEF v
        <5>1. 1 * m >= 1 /\ c * 1 <= c * m
          BY TimesMonotone
        <5>2. Bins * 1 <= Bins * v
          BY <1>0, <2>1
        <5> QED BY <1>0, <2>1, <2>2, <5>1, <5>2
      <4> QED BY <4>1, LimitCases
    <3> DEFINE k == 2 ^ j
    <3>2. k \in Nat \ {0} /\ Limit = Bins * k
      BY <3>1, Doubles
    <3> HIDE DEF v, k, C
    <3>3. (Bins * v) * m = Bins * (v * m) /\ v * m \in Nat /\ Bins * v \in Nat /\ c * m \in Nat /\ C * m \in Nat
      BY <1>0, <2>1 DEF C
    <3>4. Bins * (v * m) < Bins * k
      <4>1. Bins * v + 1 <= c
        BY <2>2, <2>4, <3>3
      <4>2. (Bins * v + 1) * m <= c * m
        BY <3>3, <4>1, TimesMonotone
      <4>3. (Bins * v + 1) * m = (Bins * v) * m + m
        BY <3>3
      <4> QED BY <3>2, <3>3, <4>2, <4>3
    <3>5. v * m < k
      <4> SUFFICES ASSUME k <= v * m PROVE FALSE
        BY <3>2, <3>3
      <4>1. k * Bins <= (v * m) * Bins
        BY <1>0, <3>2, <3>3, TimesMonotone
      <4>2. k * Bins = Bins * k /\ (v * m) * Bins = Bins * (v * m) /\ Bins * k \in Int /\ Bins * (v * m) \in Int
        BY <1>0, <3>2, <3>3
      <4> QED BY <3>4, <4>1, <4>2
    <3>6. C * m < Limit + k
      <4>1. C * m <= (c + v) * m
        BY <1>0, <2>1, <2>2, TimesMonotone DEF C
      <4>2. (c + v) * m = c * m + v * m
        BY <2>1
      <4> QED BY <1>0, <3>2, <3>3, <3>5, <4>1, <4>2
    <3>7. Nearest(C * m) <= Limit
      BY <3>1, <3>3, <3>6, UpToLimit DEF k
    <3> QED BY <3>7 DEF C
  <2> QED BY <2>3, <2>4
<1> QED BY <1>2, <1>3, ApartCases

\* What is rounded to the limit was not far beyond it.
LEMMA NotFarBeyond ==
  ASSUME NEW j \in Nat, Limit = Bins * 2 ^ j, NEW c \in Nat, NEW m \in Nat \ {0},
         Nearest(Nearest(c) * m) <= Limit
  PROVE  2 * (c * m) <= 2 * Limit + 5 * 2 ^ j
<1> DEFINE k == 2 ^ j  C == Nearest(c)
<1>0. Limit \in Nat \ {0} /\ Bins \in Nat \ {0} /\ C \in Nat /\ k \in Nat \ {0} /\ Limit = Bins * k
  BY LimitIs, BinsIs, NearestNat, Doubles
<1>1. C * m \in Nat /\ c * m \in Nat
  <2> HIDE DEF C
  <2> QED BY <1>0
<1>2. C * m <= Limit + k
  BY <1>1, UpToLimit
<1>3. CASE c < Bins
  <2>1. C = c
    BY <1>3, NearestOne
  <2> HIDE DEF C, k
  <2>2. 2 * (c * m) <= 2 * Limit + 5 * k
    BY <1>0, <1>1, <1>2, <2>1
  <2> QED BY <2>2 DEF k
<1>4. ASSUME NEW i \in Nat, Apart(c, 2 ^ i) PROVE 2 * (c * m) <= 2 * Limit + 5 * k
  <2> DEFINE v == 2 ^ i
  <2>1. v \in Nat \ {0}
    BY Doubles
  <2>2. Bins * v <= C /\ c - v <= C
    BY <1>4, <2>1, NearestApart
  <2>3. PICK b \in Nat \ {0} : Bins = 2 * b
    BY BinsIs
  <2> HIDE DEF v, k, C
  <2>4. (Bins * v) * m = Bins * (v * m) /\ v * m \in Nat /\ Bins * v \in Nat
    BY <1>0, <2>1
  <2>5. Bins * (v * m) <= Bins * k + k
    <3>1. (Bins * v) * m <= C * m
      BY <1>0, <2>2, <2>4, TimesMonotone
    <3> QED BY <1>0, <1>1, <1>2, <2>4, <3>1
  <2>6. Bins * (2 * (v * m)) <= Bins * (3 * k)
    <3>1. Bins * (2 * (v * m)) = 2 * (Bins * (v * m)) /\ Bins * (3 * k) = 3 * (Bins * k) /\ Bins * k \in Nat /\ Bins * (v * m) \in Nat
      BY <1>0, <2>4
    <3>2. 2 * k <= Bins * k
      <4>1. 2 <= Bins
        BY <2>3
      <4> QED BY <1>0, <4>1, TimesMonotone
    <3> QED BY <1>0, <2>5, <3>1, <3>2
  <2>7. 2 * (v * m) <= 3 * k
    <3>1. 2 * (v * m) \in Int /\ 3 * k \in Int
      BY <1>0, <2>4
    <3> QED BY <1>0, <2>6, <3>1, TimesReflects
  <2>8. c * m <= C * m + v * m
    <3>1. c <= C + v
      BY <1>0, <2>1, <2>2
    <3>2. c * m <= (C + v) * m
      BY <1>0, <2>1, <3>1, TimesMonotone
    <3>3. (C + v) * m = C * m + v * m
      BY <1>0, <2>1
    <3> QED BY <3>2, <3>3
  <2> QED BY <1>0, <1>1, <1>2, <2>4, <2>7, <2>8
<1> QED BY <1>3, <1>4, ApartCases

\* Where every number up to y is a double, rounding does not bring a product below y.
LEMMA StaysBeyond ==
  ASSUME NEW y \in Nat, y <= Bins, NEW c \in Nat, NEW m \in Nat \ {0}, y <= c * m
  PROVE  y <= Nearest(Nearest(c) * m)
<1> DEFINE C == Nearest(c)
<1>0. Bins \in Nat \ {0} /\ C \in Nat /\ Nearest(Bins) = Bins
  BY BinsIs, NearestNat, NearestPower DEF Bins
<1>1. ASSUME NEW x \in Nat, y <= x PROVE y <= Nearest(x)
  <2>1. CASE x < Bins
    BY <1>1, <2>1, NearestOne
  <2>2. CASE Bins <= x
    <3>1. Bins <= Nearest(x) /\ Nearest(x) \in Nat
      BY <1>0, <2>2, NearestMonotone, NearestNat
    <3> QED BY <1>0, <3>1
  <2> QED BY <1>0, <2>1, <2>2
<1>2. y <= C * m /\ C * m \in Nat
  <2>1. CASE c < Bins
    <3>1. C = c
      BY <2>1, NearestOne
    <3> HIDE DEF C
    <3> QED BY <3>1
  <2>2. CASE Bins <= c
    <3>1. Bins <= C
      BY <1>0, <2>2, NearestMonotone
    <3> HIDE DEF C
    <3>2. C * 1 <= C * m
      BY <1>0
    <3> QED BY <1>0, <3>1, <3>2
  <2> QED BY <1>0, <2>1, <2>2
<1> HIDE DEF C
<1>3. y <= Nearest(C * m)
  BY <1>1, <1>2
<1> QED BY <1>3 DEF C

\* The time as a double, by its sign.
LEMMA AsDoubleIs ==
  ASSUME NEW t, t.count \in Int, t.num \in Nat \ {0}
  PROVE  /\ t.count >= 0 => AsDouble(t) = Nearest(Nearest(t.count) * t.num)
         /\ t.count < 0 => AsDouble(t) = -Nearest(Nearest(-t.count) * t.num)
<1> DEFINE m == t.num
<1>1. ASSUME t.count >= 0 PROVE AsDouble(t) = Nearest(Nearest(t.count) * m)
  <2>1. ToDouble(t.count) = Nearest(t.count) /\ Nearest(t.count) \in Nat
    BY <1>1, NearestNat DEF ToDouble
  <2>2. Nearest(t.count) * m \in Nat
    BY <2>1
  <2>3. ToDouble(Nearest(t.count) * m) = Nearest(Nearest(t.count) * m)
    BY <2>2 DEF ToDouble
  <2> QED BY <2>1, <2>3 DEF AsDouble
<1>2. ASSUME t.count < 0 PROVE AsDouble(t) = -Nearest(Nearest(-t.count) * m)
  <2> DEFINE C == Nearest(-t.count)
  <2>1. ToDouble(t.count) = -C /\ C \in Nat
    BY <1>2, NearestNat DEF ToDouble
  <2>2. Nearest(0) = 0
    BY BinsIs, NearestOne
  <2> HIDE DEF C
  <2>3. (-C) * m = -(C * m) /\ C * m \in Nat
    BY <2>1
  <2>4. -(-(C * m)) = C * m
    <3>1. \A x \in Nat : -(-x) = x
      OBVIOUS
    <3> QED BY <2>3, <3>1, Zenon
  <2>5. CASE C * m = 0
    <3>1. (-C) * m = 0
      BY <2>3, <2>5
    <3>2. ToDouble((-C) * m) = 0
      BY <2>2, <3>1 DEF ToDouble
    <3> QED BY <2>1, <2>2, <2>4, <2>5, <3>2 DEF AsDouble, C
  <2>6. CASE C * m # 0
    <3>1. -(C * m) < 0
      BY <2>3, <2>6
    <3>2. ToDouble(-(C * m)) = -Nearest(C * m)
      BY <2>4, <3>1, Zenon DEF ToDouble
    <3> QED BY <2>1, <2>3, <3>2, Zenon DEF AsDouble, C
  <2> QED BY <2>5, <2>6
<1> QED BY <1>1, <1>2

\* What convert_to_nanoseconds answers for a time on one side of zero: where it is
\* rejected, and how far beyond the limits it is when it is not.
LEMMA Limits ==
  ASSUME NEW c \in Nat, NEW m \in Nat \ {0}
  PROVE  LET a == Nearest(Nearest(c) * m)
             slack == 2 * Spacing(Limit)
         IN  /\ a \in Nat
             /\ Nearest(Limit - 1) \in Nat
             /\ slack \in Nat
             /\ c * m <= Limit - 1 => a <= Nearest(Limit - 1)
             /\ c * m <= Limit => a <= Limit
             /\ a <= Nearest(Limit - 1) => c * m <= Limit - 1 + slack - 1
             /\ a <= Limit => c * m <= Limit + slack - 1
<1> DEFINE a == Nearest(Nearest(c) * m)  d == Nearest(Limit - 1)  E == c * m
<1>0. Limit \in Nat \ {0} /\ Bins \in Nat \ {0} /\ Nearest(c) \in Nat /\ Limit - 1 \in Nat
  BY LimitIs, BinsIs, NearestNat
<1>1. Nearest(c) * m \in Nat /\ E \in Nat
  BY <1>0
<1>2. a \in Nat /\ d \in Nat
  BY <1>0, <1>1, NearestNat
<1>3. E <= Limit => a <= Limit
  BY StaysWithin
<1>4. Limit <= Bins /\ d = Limit - 1 => (E <= Limit - 1 => a <= d) /\ (a <= d => E <= Limit - 1)
  <2> SUFFICES ASSUME Limit <= Bins, d = Limit - 1 PROVE (E <= Limit - 1 => a <= d) /\ (a <= d => E <= Limit - 1)
    OBVIOUS
  <2>1. ASSUME E <= Limit - 1 PROVE a <= d
    <3>1. c * 1 <= c * m
      BY <1>0
    <3>2. c < Bins
      BY <1>0, <1>1, <2>1, <3>1
    <3>3. Nearest(c) = c
      BY <3>2, NearestOne
    <3> QED BY <1>0, <1>1, <2>1, <3>3, NearestMonotone
  <2>2. ASSUME a <= d PROVE E <= Limit - 1
    <3> SUFFICES ASSUME Limit <= E PROVE FALSE
      BY <1>0, <1>1
    <3>1. Limit <= a
      BY <1>0, StaysBeyond
    <3> HIDE DEF a, d
    <3> QED BY <1>0, <1>2, <2>2, <3>1
  <2> QED BY <2>1, <2>2
<1>5. CASE Bins = 2 * Limit
  <2>1. Limit <= Bins
    BY <1>0, <1>5
  <2>2. Spacing(Limit) = 1 /\ d = Limit - 1
    BY <1>5, <2>1, AtLimit
  <2>3. ASSUME a <= Limit PROVE E <= Limit
    <3> SUFFICES ASSUME Limit + 1 <= E PROVE FALSE
      BY <1>0, <1>1
    <3>1. Limit + 1 <= Bins /\ Limit + 1 \in Nat
      BY <1>0, <1>5
    <3>2. Limit + 1 <= a
      BY <3>1, StaysBeyond
    <3> HIDE DEF a
    <3> QED BY <1>0, <1>2, <2>3, <3>2
  <2> HIDE DEF a, d, E
  <2>4. /\ 2 * Spacing(Limit) \in Nat
        /\ E <= Limit - 1 => a <= d
        /\ a <= d => E <= Limit - 1 + 2 * Spacing(Limit) - 1
        /\ a <= Limit => E <= Limit + 2 * Spacing(Limit) - 1
    BY <1>0, <1>1, <1>4, <2>1, <2>2, <2>3
  <2> QED BY <1>2, <1>3, <2>4 DEF a, d, E
<1>6. ASSUME NEW j \in Nat, Limit = Bins * 2 ^ j
      PROVE  /\ 2 * Spacing(Limit) \in Nat
             /\ E <= Limit - 1 => a <= d
             /\ a <= d => E <= Limit - 1 + 2 * Spacing(Limit) - 1
             /\ a <= Limit => E <= Limit + 2 * Spacing(Limit) - 1
  <2> DEFINE k == 2 ^ j
  <2>1. k \in Nat \ {0} /\ Spacing(Limit) = 2 * k
    BY <1>6, Doubles, AtLimit
  <2>2. a <= Limit => 2 * E <= 2 * Limit + 5 * k
    BY <1>6, NotFarBeyond
  <2>3. j = 0 => Limit = Bins
    BY <1>0, <1>6
  <2>4. j = 0 => d = Limit - 1
    BY <1>0, <2>3, AtLimit
  <2>5. j # 0 => k >= 2 /\ d = Limit
    BY <1>6, AtLimit
  <2> HIDE DEF a, d, E, k
  <2>6. CASE j = 0
    BY <1>0, <1>1, <1>2, <1>4, <2>1, <2>2, <2>3, <2>4, <2>6
  <2>7. CASE j # 0
    BY <1>0, <1>1, <1>2, <1>3, <2>1, <2>2, <2>5, <2>7
  <2> QED BY <2>6, <2>7
<1>7. CASE \E j \in Nat : Limit = Bins * 2 ^ j
  BY <1>2, <1>3, <1>6, <1>7
<1> QED BY <1>5, <1>7, LimitCases

\* An integer number of nanoseconds within the limits is cast to itself.
LEMMA CastIs ==
  ASSUME NEW t, t.rep = "integer", Exact(t) \in NsMin .. NsMax
  PROVE  Cast(t) = {Exact(t)}
<1>1. Cast(t) = {((Exact(t) - NsMin) % (2 ^ Width)) + NsMin}
  BY DEF Cast
<1>2. 2 ^ Width = 2 * Limit /\ NsMin = -Limit /\ NsMax = Limit - 1 /\ Limit \in Nat \ {0}
  <2>1. Width - 1 \in Nat /\ (Width - 1) + 1 = Width
    BY BitsAssumption
  <2>2. 2 ^ ((Width - 1) + 1) = 2 * Limit
    BY <2>1, Doubles DEF Limit
  <2> QED BY <2>1, <2>2, LimitIs
<1> DEFINE x == Exact(t) - NsMin  w == 2 ^ Width
<1>3. x \in 0 .. w - 1 /\ w \in Nat \ {0} /\ x + NsMin = Exact(t)
  BY <1>2
<1> HIDE DEF x, w
<1>4. x % w = x
  BY <1>3
<1> QED BY <1>1, <1>3, <1>4 DEF x, w

\* Every answer is within the limits, as far as LimitsEnforced says.
LEMMA AnswersEnforced == ASSUME NEW t \in Durations, NEW answer \in Answers(t) PROVE Enforced(answer)
<1> DEFINE m == t.num  slack == 2 * Spacing(NsMax + 1)  E == Exact(t)  A == AsDouble(t)
<1>1. t.rep \in {"integer", "double"} /\ t.count \in Int /\ m \in Nat \ {0} /\ E = t.count * m
  BY DurationsAssumption DEF Exact
<1>2. answer.time = t /\ (answer.threw <=> Rejects(t)) /\ (~Rejects(t) => answer.ns \in Cast(t))
  BY DEF Answers
<1>3. Limit \in Nat \ {0} /\ NsMax = Limit - 1 /\ NsMin = -Limit /\ Nearest(Limit) = Limit
  BY LimitIs
<1>4. NsMax + 1 = Limit
  BY <1>3
<1>5. ToDouble(NsMax) = Nearest(Limit - 1) /\ ToDouble(NsMin) = -Limit
  <2>1. ~(Limit - 1 < 0) /\ -Limit < 0 /\ -(-Limit) = Limit
    BY <1>3
  <2>2. ToDouble(Limit - 1) = Nearest(Limit - 1) /\ ToDouble(-Limit) = -Nearest(Limit)
    BY <2>1, Zenon DEF ToDouble
  <2> QED BY <1>3, <2>2, Zenon
<1>6. Rejects(t) <=> A > Nearest(Limit - 1) \/ A < -Limit
  BY <1>5 DEF Rejects, TooBig, TooSmall
<1>7. /\ E \in NsMin .. NsMax => ~Rejects(t)
      /\ E \notin NsMin .. NsMax /\ ~Rejects(t) => E \in NsMin - slack + 1 .. NsMax + slack - 1
  <2>1. CASE t.count >= 0
    <3> DEFINE c == t.count
    <3>1. c \in Nat /\ A = Nearest(Nearest(c) * m) /\ c * m \in Nat /\ E = c * m
      BY <1>1, <2>1, AsDoubleIs
    <3>2. /\ A \in Nat /\ Nearest(Limit - 1) \in Nat /\ slack \in Nat
          /\ c * m <= Limit - 1 => A <= Nearest(Limit - 1)
          /\ A <= Nearest(Limit - 1) => c * m <= Limit - 1 + slack - 1
      BY <1>1, <1>4, <3>1, Limits
    <3> HIDE DEF A, E, slack, c, m
    <3> QED BY <1>3, <1>6, <3>1, <3>2
  <2>2. CASE t.count < 0
    <3> DEFINE c == -t.count  a == Nearest(Nearest(c) * m)
    <3>1. c \in Nat \ {0} /\ A = -a
      BY <1>1, <2>2, AsDoubleIs
    <3>2. E = -(c * m) /\ c * m \in Nat
      <4>1. t.count = -c
        BY <1>1
      <4> HIDE DEF c
      <4>2. (-c) * m = -(c * m) /\ c * m \in Nat
        <5>1. m \in Nat
          BY <1>1
        <5> HIDE DEF m
        <5> QED BY <3>1, <5>1
      <4> QED BY <1>1, <4>1, <4>2, Zenon
    <3>3. /\ a \in Nat /\ Nearest(Limit - 1) \in Nat /\ slack \in Nat
          /\ c * m <= Limit => a <= Limit
          /\ a <= Limit => c * m <= Limit + slack - 1
      BY <1>1, <1>4, <3>1, Limits
    <3> HIDE DEF A, E, slack, c, m, a
    <3> QED BY <1>3, <1>6, <3>1, <3>2, <3>3
  <2> QED BY <1>1, <2>1, <2>2
<1>8. E \in NsMin .. NsMax /\ t.rep = "integer" => answer.ns = E
  BY <1>2, <1>7, CastIs
<1> HIDE DEF slack, E, A
<1>9. /\ E \in NsMin .. NsMax => ~answer.threw /\ (t.rep = "integer" => answer.ns = E)
      /\ ~(E \in NsMin .. NsMax) /\ ~answer.threw => E \in NsMin - slack + 1 .. NsMax + slack - 1
  BY <1>2, <1>7, <1>8
<1> QED BY <1>2, <1>9 DEF Enforced, E, slack

\* What was measured is nothing, or an answer for one of the times.
Answered == measured = Nothing \/ \E t \in Durations : measured \in Answers(t)

\* And so it is before the first one.
LEMMA NothingEnforced == Enforced(Nothing)
<1>1. Exact(Nothing.time) = 0 /\ Nothing.ns = 0 /\ ~Nothing.threw
  BY DEF Exact, Nothing
<1>2. 0 \in NsMin .. NsMax
  BY LimitIs
<1> QED BY <1>1, <1>2 DEF Enforced

\* convert_to_nanoseconds rejects no time within the limits, converts what an integer
\* counts exactly, and accepts nothing that is two spacings of the doubles or more
\* beyond them: for any times, and numbers of any width.
THEOREM ClientLimits == MeanSpec => []LimitsEnforced
<1>1. MeanInit => Answered
  BY DEF MeanInit, Answered
<1>2. Answered /\ [MeanNext]_<<vars, measured>> => Answered'
  BY DEF Answered, MeanNext, Measure, Take, Skip, vars
<1>3. Answered => LimitsEnforced
  <2>1. Answered => Enforced(measured)
    BY NothingEnforced, AnswersEnforced DEF Answered
  <2> QED BY <2>1 DEF LimitsEnforced
<1> QED BY <1>1, <1>2, <1>3, PTL DEF MeanSpec
=============================================================================
