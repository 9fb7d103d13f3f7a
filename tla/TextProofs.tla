----------------------------- MODULE TextProofs -----------------------------
(***************************************************************************)
(* What the folds over texts compute, for texts of any length: induction     *)
(* over the numbers, stated of a set instead of a predicate; a fold, one      *)
(* element after the other; and what split, join and the search path make of  *)
(* a text.                                                                    *)
(***************************************************************************)
EXTENDS Text, FiniteSetTheorems, SequenceTheorems, WellFoundedInduction, TLAPS

\* A set of natural numbers that is not empty has a least element.
LEMMA LeastNumber ==
  ASSUME NEW U \in SUBSET Nat, U # {}
  PROVE  \E m \in U : \A k \in U : m <= k
<1>1. IsWellFoundedOn({pair \in Nat \X Nat : pair[1] < pair[2]}, Nat)
  BY NatLessThanWellFounded, Zenon DEF OpToRel
<1>2. \E m \in U : \A k \in U : ~(<<k, m>> \in {pair \in Nat \X Nat : pair[1] < pair[2]})
  BY <1>1, WFMin
<1>3. \E m \in U : \A k \in U : ~(k < m)
  BY <1>2
<1> QED BY <1>3

\* What holds of 0, and of n + 1 when it holds of n, holds of every number.
LEMMA HoldsOfAll ==
  ASSUME NEW U, 0 \in U, \A n \in Nat : n \in U => n + 1 \in U
  PROVE  Nat \subseteq U
<1> DEFINE V == Nat \ U
<1> SUFFICES ASSUME V # {} PROVE FALSE
  OBVIOUS
<1>1. V \in SUBSET Nat
  OBVIOUS
<1>2. PICK m \in V : \A k \in V : m <= k
  <2> HIDE DEF V
  <2> QED BY <1>1, LeastNumber
<1>3. m # 0 /\ m - 1 \in Nat /\ m - 1 \notin V
  BY <1>2
<1>4. (m - 1) + 1 \in U
  BY <1>3
<1> QED BY <1>3, <1>4

\* Induction from n down to 0: what holds of p when it holds of every q behind p.
LEMMA HoldsBackwards ==
  ASSUME NEW n \in Nat, NEW U, \A p \in 0 .. n : (\A q \in p + 1 .. n : q \in U) => p \in U
  PROVE  0 .. n \subseteq U
<1> DEFINE left == {k \in 0 .. n : n - k \notin U}
<1> SUFFICES ASSUME NEW p \in 0 .. n, p \notin U PROVE FALSE
  OBVIOUS
<1>1. n - p \in left /\ left \in SUBSET Nat
  OBVIOUS
<1>2. PICK k \in left : \A j \in left : k <= j
  <2> HIDE DEF left
  <2> QED BY <1>1, LeastNumber
<1>3. n - k \in 0 .. n /\ n - k \notin U
  BY <1>2
<1>4. PICK q \in n - k + 1 .. n : q \notin U
  BY <1>3
<1>5. n - q \in left /\ n - q < k
  BY <1>2, <1>4
<1> QED BY <1>2, <1>5

\* A bounded set of natural numbers has a greatest element.
LEMMA MaxSays ==
  ASSUME NEW n \in Nat, NEW U, U \subseteq 0 .. n, U # {}
  PROVE  Max(U) \in U /\ \A k \in U : Max(U) >= k
<1> DEFINE below == {j \in 0 .. n : n - j \in U}
<1>1. below \in SUBSET Nat /\ below # {}
  <2>1. PICK k \in U : TRUE
    OBVIOUS
  <2>2. k \in 0 .. n /\ n - k \in 0 .. n /\ n - (n - k) = k
    BY <2>1
  <2>3. n - (n - k) \in U
    BY <2>1, <2>2
  <2>4. n - k \in below
    BY <2>2, <2>3
  <2>5. \A j \in below : j \in Nat
    OBVIOUS
  <2> HIDE DEF below
  <2> QED BY <2>4, <2>5
<1>2. PICK j \in below : \A i \in below : j <= i
  <2> HIDE DEF below
  <2> QED BY <1>1, LeastNumber
<1>3. n - j \in U /\ j \in 0 .. n
  BY <1>2
<1>4. \A k \in U : n - j >= k
  <2> SUFFICES ASSUME NEW k \in U PROVE n - j >= k
    OBVIOUS
  <2>1. k \in 0 .. n /\ n - k \in 0 .. n /\ n - (n - k) = k
    OBVIOUS
  <2>2. n - (n - k) \in U
    BY <2>1
  <2>3. n - k \in below
    BY <2>1, <2>2
  <2>4. j <= n - k
    BY <1>2, <2>3
  <2> QED BY <1>3, <2>1, <2>4
<1> HIDE DEF below
<1>5. \E m \in U : \A k \in U : m >= k
  BY <1>3, <1>4
<1> QED BY <1>5 DEF Max

\* Max is the number that has what the greatest one has.
LEMMA MaxIs ==
  ASSUME NEW n \in Nat, NEW U, U \subseteq 0 .. n, NEW m \in U, \A k \in U : m >= k
  PROVE  Max(U) = m
<1>1. Max(U) \in U /\ \A k \in U : Max(U) >= k
  BY MaxSays
<1> HIDE DEF Max
<1>2. Max(U) \in 0 .. n /\ m \in 0 .. n /\ Max(U) >= m /\ m >= Max(U)
  BY <1>1
<1> QED BY <1>2

----------------------------------------------------------------------------
(* FoldLeft.  It folds the set of positions; F is the operation, as a         *)
(* function, with results in A.                                               *)

\* F takes a state in A and an element in C to a state in A.
Operation(F, A, C) == \A a \in A, c \in C : F[a][c] \in A

\* it[S] is what the positions in S fold to.
Folds(it, n, A, base, F) ==
  /\ it \in [SUBSET (1 .. n) -> A]
  /\ it = [S \in SUBSET (1 .. n) |-> IF S = {} THEN base ELSE F[it[S \ {Max(S)}]][Max(S)]]

\* The function that FoldLeft is defined by exists.
LEMMA FoldExists ==
  ASSUME NEW n \in Nat, NEW A, NEW base \in A, NEW F, Operation(F, A, 1 .. n)
  PROVE  \E it : Folds(it, n, A, base, F)
<1> DEFINE Step(it, S) == IF S = {} THEN base ELSE F[it[S \ {Max(S)}]][Max(S)]
           Fits(k, it) == it \in [SUBSET (1 .. k) -> A] /\ \A S \in SUBSET (1 .. k) : it[S] = Step(it, S)
           Good == {k \in Nat : k <= n => \E it : Fits(k, it)}
<1>1. 0 \in Good
  <2> DEFINE z == [S \in SUBSET (1 .. 0) |-> base]
  <2>1. \A S \in SUBSET (1 .. 0) : S = {}
    OBVIOUS
  <2>2. \A S \in SUBSET (1 .. 0) : z[S] = base
    OBVIOUS
  <2>3. z \in [SUBSET (1 .. 0) -> A]
    OBVIOUS
  <2>4. Fits(0, z)
    <3> HIDE DEF z
    <3> QED BY <2>1, <2>2, <2>3
  <2> HIDE DEF Fits
  <2> QED BY <2>4
<1>2. ASSUME NEW k \in Nat, k \in Good PROVE k + 1 \in Good
  <2> SUFFICES ASSUME k + 1 <= n PROVE \E it : Fits(k + 1, it)
    <3> HIDE DEF Fits
    <3> QED OBVIOUS
  <2>1. PICK it : Fits(k, it)
    <3> HIDE DEF Fits
    <3> QED BY <1>2
  <2> DEFINE new == [S \in SUBSET (1 .. k + 1) |-> IF k + 1 \in S THEN F[it[S \ {k + 1}]][k + 1] ELSE it[S]]
  <2>2. ASSUME NEW S \in SUBSET (1 .. k + 1), k + 1 \in S
        PROVE  S \ {k + 1} \in SUBSET (1 .. k) /\ Max(S) = k + 1 /\ S # {}
    <3>1. \A j \in S : j \in 1 .. k + 1
      OBVIOUS
    <3>2. S \subseteq 0 .. k + 1 /\ \A j \in S : k + 1 >= j
      BY <3>1
    <3>3. Max(S) = k + 1
      BY <2>2, <3>2, k + 1 \in Nat, MaxIs, Zenon
    <3>4. \A j \in S \ {k + 1} : j \in 1 .. k
      BY <3>1
    <3>5. S \ {k + 1} \in SUBSET (1 .. k)
      BY <3>4
    <3> QED BY <2>2, <3>3, <3>5
  <2>3. ASSUME NEW S \in SUBSET (1 .. k + 1), k + 1 \notin S
        PROVE  S \in SUBSET (1 .. k)
    BY <2>3
  <2>4. new \in [SUBSET (1 .. k + 1) -> A]
    <3> SUFFICES ASSUME NEW S \in SUBSET (1 .. k + 1) PROVE new[S] \in A
      OBVIOUS
    <3>1. CASE k + 1 \in S
      <4>1. it[S \ {k + 1}] \in A
        BY <2>1, <2>2, <3>1
      <4>2. k + 1 \in 1 .. n
        OBVIOUS
      <4>3. new[S] = F[it[S \ {k + 1}]][k + 1]
        BY <3>1
      <4> HIDE DEF new
      <4> QED BY <4>1, <4>2, <4>3, Zenon DEF Operation
    <3>2. CASE k + 1 \notin S
      BY <2>1, <2>3, <3>2
    <3> QED BY <3>1, <3>2
  <2>5. ASSUME NEW S \in SUBSET (1 .. k) PROVE new[S] = it[S] /\ S \in SUBSET (1 .. k + 1)
    <3>1. \A j \in S : j \in 1 .. k
      OBVIOUS
    <3>2. S \in SUBSET (1 .. k + 1) /\ k + 1 \notin S
      BY <3>1
    <3> QED BY <3>2
  <2>6. ASSUME NEW S \in SUBSET (1 .. k + 1) PROVE new[S] = Step(new, S)
    <3>1. CASE k + 1 \in S
      <4>1. new[S] = F[it[S \ {k + 1}]][k + 1]
        BY <3>1
      <4>2. new[S \ {k + 1}] = it[S \ {k + 1}]
        BY <2>2, <2>5, <3>1
      <4> HIDE DEF new
      <4> QED BY <2>2, <3>1, <4>1, <4>2
    <3>2. CASE k + 1 \notin S /\ S # {}
      <4>1. S \in SUBSET (1 .. k) /\ S \in SUBSET (0 .. k)
        BY <2>3, <3>2
      <4>2. S \ {Max(S)} \in SUBSET (1 .. k)
        BY <4>1
      <4>3. it[S] = Step(it, S) /\ new[S] = it[S] /\ new[S \ {Max(S)}] = it[S \ {Max(S)}]
        BY <2>1, <2>5, <4>1, <4>2
      <4> HIDE DEF new
      <4> QED BY <4>3, Zenon
    <3>3. CASE S = {}
      <4>1. {} \in SUBSET (1 .. k)
        OBVIOUS
      <4>2. new[{}] = it[{}] /\ it[{}] = Step(it, {})
        BY <2>1, <2>5, <4>1
      <4> HIDE DEF new
      <4> QED BY <3>3, <4>2
    <3> QED BY <3>1, <3>2, <3>3
  <2> HIDE DEF new, Step
  <2>7. Fits(k + 1, new)
    BY <2>4, <2>6
  <2> QED BY <2>7
<1>3. \E it : Fits(n, it)
  <2>1. Nat \subseteq Good
    <3> HIDE DEF Good
    <3> QED BY <1>1, <1>2, HoldsOfAll
  <2> HIDE DEF Fits
  <2> QED BY <2>1
<1>4. PICK it : Fits(n, it)
  BY <1>3
<1>5. it = [S \in SUBSET (1 .. n) |-> Step(it, S)]
  <2> HIDE DEF Step
  <2> QED BY <1>4
<1> QED BY <1>4, <1>5 DEF Folds

\* The fold of a function.
Fold(F, base, s) == FoldLeft(LAMBDA a, c : F[a][c], base, s)

\* On the way through s, h[k] is what the first k elements are folded to.
GoesThrough(h, F, base, A, s) ==
  /\ h[0] = base
  /\ \A k \in 0 .. Len(s) - 1 : h[k] \in A => h[k + 1] = F[h[k]][s[k + 1]]

\* The fold of s ends where the way through s does.
GoesInto(h, F, base, A, s) ==
  h \in [0 .. Len(s) -> A] /\ GoesThrough(h, F, base, A, s) /\ Fold(F, base, s) = h[Len(s)]

\* A function on the sets of positions that folds s, as the definition of FoldLeft
\* has it.
Unfolds(it, F, base, A, s) ==
  /\ it[{}] = base
  /\ \A S \in SUBSET DOMAIN s : S # {} /\ it[S \ {Max(S)}] \in A => it[S] = F[it[S \ {Max(S)}]][s[Max(S)]]

\* The states on the way, read off such a function.
Way(it, s) == [k \in 0 .. Len(s) |-> it[1 .. k]]

\* The function that the definition of FoldLeft chooses, and what it needs of the states.
FoldsAll(it, F, base, A, C, s) ==
  /\ it = [S \in SUBSET DOMAIN s |-> IF S = {} THEN base ELSE F[it[S \ {Max(S)}]][s[Max(S)]]]
  /\ \A S \in SUBSET DOMAIN s : S # {} => it[S \ {Max(S)}] \in A /\ s[Max(S)] \in C

\* The greatest position in front is the one a fold takes off.
LEMMA FirstPositions ==
  ASSUME NEW k \in Nat
  PROVE  1 .. 0 = {} /\ 1 .. k + 1 # {} /\ Max(1 .. k + 1) = k + 1 /\ (1 .. k + 1) \ {k + 1} = 1 .. k
<1>1. 1 .. k + 1 \in SUBSET (0 .. k + 1) /\ k + 1 \in 1 .. k + 1 /\ \A j \in 1 .. k + 1 : k + 1 >= j
  OBVIOUS
<1>2. Max(1 .. k + 1) = k + 1
  BY <1>1, k + 1 \in Nat, MaxIs, Zenon
<1>3. \A j : j \in (1 .. k + 1) \ {k + 1} <=> j \in 1 .. k
  OBVIOUS
<1> HIDE DEF Max
<1>4. (1 .. k + 1) \ {k + 1} = 1 .. k
  BY <1>3
<1>5. 1 .. 0 = {} /\ 1 .. k + 1 # {}
  OBVIOUS
<1> QED BY <1>2, <1>4, <1>5

\* There is a function that folds every set of positions.
LEMMA FoldAnswers ==
  ASSUME NEW A, NEW C, NEW base \in A, NEW F, Operation(F, A, C), NEW s \in Seq(C)
  PROVE  \E g : FoldsAll(g, F, base, A, C, s)
<1> DEFINE n == Len(s)
<1>2. n \in Nat /\ DOMAIN s = 1 .. n /\ \A k \in 1 .. n : s[k] \in C
  OBVIOUS
<1> DEFINE G == [a \in A |-> [i \in 1 .. n |-> F[a][s[i]]]]
<1>3. Operation(G, A, 1 .. n)
  <2> SUFFICES ASSUME NEW a \in A, NEW i \in 1 .. n PROVE G[a][i] \in A
    BY Zenon DEF Operation
  <2>1. s[i] \in C /\ G[a][i] = F[a][s[i]]
    BY <1>2
  <2> HIDE DEF G
  <2> QED BY <2>1, Zenon DEF Operation
<1>4. PICK g : Folds(g, n, A, base, G)
  <2> HIDE DEF G, n
  <2> QED BY <1>2, <1>3, FoldExists
<1>5. ASSUME NEW S \in SUBSET (1 .. n), S # {}
      PROVE  /\ G[g[S \ {Max(S)}]][Max(S)] = F[g[S \ {Max(S)}]][s[Max(S)]]
             /\ g[S \ {Max(S)}] \in A /\ s[Max(S)] \in C
  <2>1. Max(S) \in 1 .. n
    <3>1. S \in SUBSET (0 .. n)
      BY <1>2
    <3> QED BY <1>2, <1>5, <3>1, MaxSays
  <2>2. g[S \ {Max(S)}] \in A
    BY <1>4 DEF Folds
  <2> QED BY <1>2, <2>1, <2>2
<1>6. g = [S \in SUBSET DOMAIN s |-> IF S = {} THEN base ELSE F[g[S \ {Max(S)}]][s[Max(S)]]]
  <2> HIDE DEF G
  <2> QED BY <1>2, <1>4, <1>5 DEF Folds
<1>7. \A S \in SUBSET DOMAIN s : S # {} => g[S \ {Max(S)}] \in A /\ s[Max(S)] \in C
  BY <1>2, <1>5
<1>8. FoldsAll(g, F, base, A, C, s)
  BY <1>6, <1>7, Zenon DEF FoldsAll
<1> QED BY <1>8

\* A function that folds s runs through s when it is read off the sets of the
\* first positions.
LEMMA UnfoldRuns ==
  ASSUME NEW A, NEW C, NEW base \in A, NEW F, Operation(F, A, C), NEW s \in Seq(C),
         NEW it, Unfolds(it, F, base, A, s)
  PROVE  /\ Way(it, s) \in [0 .. Len(s) -> A]
         /\ GoesThrough(Way(it, s), F, base, A, s)
         /\ it[DOMAIN s] = Way(it, s)[Len(s)]
<1> DEFINE n == Len(s)
           h == Way(it, s)
<1>1. n \in Nat /\ DOMAIN s = 1 .. n /\ \A k \in 1 .. n : s[k] \in C
  OBVIOUS
<1>2. \A k \in 0 .. n : h[k] = it[1 .. k]
  BY DEF Way
<1> HIDE DEF n, h
<1>3. h[0] = base
  <2>1. 1 .. 0 = {} /\ 0 \in 0 .. n
    BY <1>1
  <2>2. h[0] = it[1 .. 0]
    BY <1>2, <2>1
  <2> QED BY <2>1, <2>2, Zenon DEF Unfolds
<1>4. ASSUME NEW k \in 0 .. n - 1, h[k] \in A PROVE h[k + 1] = F[h[k]][s[k + 1]]
  <2>1. k \in Nat /\ 1 .. k + 1 \in SUBSET DOMAIN s /\ k \in 0 .. n /\ k + 1 \in 0 .. n
    BY <1>1
  <2>2. h[k + 1] = it[1 .. k + 1] /\ h[k] = it[1 .. k]
    BY <1>2, <2>1, Zenon
  <2>3. 1 .. k + 1 # {} /\ Max(1 .. k + 1) = k + 1 /\ (1 .. k + 1) \ {k + 1} = 1 .. k
    BY <2>1, FirstPositions
  <2>4. it[(1 .. k + 1) \ {Max(1 .. k + 1)}] = h[k]
    BY <2>2, <2>3, Zenon
  <2>5. it[1 .. k + 1] = F[it[(1 .. k + 1) \ {Max(1 .. k + 1)}]][s[Max(1 .. k + 1)]]
    BY <1>4, <2>1, <2>3, <2>4, Zenon DEF Unfolds
  <2> QED BY <2>2, <2>3, <2>4, <2>5, Zenon
<1>5. \A k \in 0 .. n : h[k] \in A
  <2> DEFINE Good == {k \in Nat : k <= n => h[k] \in A}
  <2>1. 0 \in Good
    BY <1>3
  <2>2. \A k \in Nat : k \in Good => k + 1 \in Good
    <3> SUFFICES ASSUME NEW k \in Nat, k + 1 <= n, h[k] \in A PROVE h[k + 1] \in A
      BY <1>1
    <3>1. k \in 0 .. n - 1 /\ k + 1 \in 1 .. n
      BY <1>1
    <3>2. s[k + 1] \in C /\ h[k + 1] = F[h[k]][s[k + 1]]
      BY <1>1, <1>4, <3>1
    <3> QED BY <3>2, Zenon DEF Operation
  <2>3. Nat \subseteq Good
    <3> HIDE DEF Good
    <3> QED BY <2>1, <2>2, HoldsOfAll
  <2> QED BY <1>1, <2>3
<1>6. h \in [0 .. n -> A]
  BY <1>5 DEF h, n, Way
<1>7. it[DOMAIN s] = h[n]
  BY <1>1, <1>2
<1>8. GoesThrough(h, F, base, A, s)
  BY <1>3, <1>4 DEF GoesThrough, n
<1> QED BY <1>6, <1>7, <1>8, Zenon DEF h, n

\* A fold has a way through the sequence.
LEMMA FoldRuns ==
  ASSUME NEW A, NEW C, NEW base \in A, NEW F, Operation(F, A, C), NEW s \in Seq(C)
  PROVE  \E h : GoesInto(h, F, base, A, s)
<1> DEFINE it == CHOOSE f : f = [S \in SUBSET DOMAIN s |->
                                   IF S = {} THEN base ELSE F[f[S \ {Max(S)}]][s[Max(S)]]]
<1>1. Fold(F, base, s) = it[DOMAIN s]
  BY DEF Fold, FoldLeft, MapThenFoldSet
<1>2. \E g : FoldsAll(g, F, base, A, C, s)
  BY FoldAnswers
<1>3. it = [S \in SUBSET DOMAIN s |-> IF S = {} THEN base ELSE F[it[S \ {Max(S)}]][s[Max(S)]]]
  BY <1>2 DEF FoldsAll
<1> HIDE DEF it
<1>4. Unfolds(it, F, base, A, s)
  BY <1>3 DEF Unfolds
<1>5. GoesInto(Way(it, s), F, base, A, s)
  <2>1. /\ Way(it, s) \in [0 .. Len(s) -> A]
        /\ GoesThrough(Way(it, s), F, base, A, s)
        /\ it[DOMAIN s] = Way(it, s)[Len(s)]
    BY <1>4, UnfoldRuns
  <2> QED BY <1>1, <2>1, Zenon DEF GoesInto
<1> QED BY <1>5

\* There is one way through s only.
LEMMA FoldIs ==
  ASSUME NEW A, NEW C, NEW base \in A, NEW F, Operation(F, A, C), NEW s \in Seq(C), NEW g, GoesThrough(g, F, base, A, s)
  PROVE  Fold(F, base, s) = g[Len(s)]
<1>1. PICK h : GoesInto(h, F, base, A, s)
  BY FoldRuns
<1> DEFINE Good == {k \in Nat : k <= Len(s) => g[k] = h[k]}
<1>2. 0 \in Good
  BY <1>1 DEF GoesThrough, GoesInto
<1>3. ASSUME NEW k \in Nat, k \in Good PROVE k + 1 \in Good
  <2> SUFFICES ASSUME k + 1 <= Len(s) PROVE g[k + 1] = h[k + 1]
    OBVIOUS
  <2>1. k \in 0 .. Len(s) - 1 /\ g[k] = h[k] /\ h[k] \in A
    BY <1>1, <1>3 DEF GoesInto
  <2> QED BY <1>1, <2>1 DEF GoesThrough, GoesInto
<1>4. Nat \subseteq Good
  <2> HIDE DEF Good
  <2> QED BY <1>2, <1>3, HoldsOfAll
<1>5. g[Len(s)] = h[Len(s)]
  <2>1. Len(s) \in Nat /\ Len(s) <= Len(s)
    OBVIOUS
  <2> QED BY <1>4, <2>1
<1> QED BY <1>1, <1>5, Zenon DEF GoesInto

\* So any function that folds s gives the fold.
LEMMA UnfoldIs ==
  ASSUME NEW A, NEW C, NEW base \in A, NEW F, Operation(F, A, C), NEW s \in Seq(C),
         NEW it, Unfolds(it, F, base, A, s)
  PROVE  it[DOMAIN s] = Fold(F, base, s)
<1> DEFINE h == Way(it, s)
<1>1. GoesThrough(h, F, base, A, s) /\ it[DOMAIN s] = h[Len(s)]
  <2>1. GoesThrough(Way(it, s), F, base, A, s) /\ it[DOMAIN s] = Way(it, s)[Len(s)]
    BY UnfoldRuns
  <2> QED BY <2>1
<1> HIDE DEF h
<1>2. Fold(F, base, s) = h[Len(s)]
  BY <1>1, FoldIs
<1> QED BY <1>1, <1>2

\* The fold of nothing is where it starts.
LEMMA FoldEmpty ==
  ASSUME NEW A, NEW C, NEW base \in A, NEW F, Operation(F, A, C)
  PROVE  Fold(F, base, <<>>) = base
<1> DEFINE g == [k \in {0} |-> base]
<1>1. <<>> \in Seq(C) /\ Len(<<>>) = 0 /\ g[0] = base
  OBVIOUS
<1> HIDE DEF g
<1>2. GoesThrough(g, F, base, A, <<>>)
  BY <1>1 DEF GoesThrough
<1>3. Fold(F, base, <<>>) = g[Len(<<>>)]
  <2> DEFINE s == <<>>
  <2>1. s \in Seq(C) /\ GoesThrough(g, F, base, A, s)
    BY <1>1, <1>2
  <2> HIDE DEF s
  <2>2. Fold(F, base, s) = g[Len(s)]
    BY <2>1, FoldIs
  <2> QED BY <2>2 DEF s
<1> QED BY <1>1, <1>3

\* A fold stays among the states.
LEMMA FoldInto ==
  ASSUME NEW A, NEW C, NEW base \in A, NEW F, Operation(F, A, C), NEW s \in Seq(C)
  PROVE  Fold(F, base, s) \in A
<1>1. PICK h : GoesInto(h, F, base, A, s)
  BY FoldRuns
<1>2. Len(s) \in 0 .. Len(s)
  OBVIOUS
<1> QED BY <1>1, <1>2 DEF GoesInto

\* One element more is one step more.
LEMMA FoldAppend ==
  ASSUME NEW A, NEW C, NEW base \in A, NEW F, Operation(F, A, C), NEW s \in Seq(C), NEW c \in C
  PROVE  Fold(F, base, Append(s, c)) = F[Fold(F, base, s)][c]
<1>1. PICK h : GoesInto(h, F, base, A, s)
  BY FoldRuns
<1> DEFINE t == Append(s, c)
           g == [k \in 0 .. Len(s) + 1 |-> IF k = Len(s) + 1 THEN F[h[Len(s)]][c] ELSE h[k]]
<1>2. t \in Seq(C) /\ Len(t) = Len(s) + 1 /\ t[Len(s) + 1] = c /\ \A k \in 1 .. Len(s) : t[k] = s[k]
  OBVIOUS
<1>3. g[0] = base
  BY <1>1 DEF GoesThrough, GoesInto
<1>4. ASSUME NEW k \in 0 .. Len(t) - 1 PROVE g[k + 1] = F[g[k]][t[k + 1]]
  <2> HIDE DEF t
  <2>1. CASE k = Len(s)
    BY <1>2, <2>1
  <2>2. CASE k \in 0 .. Len(s) - 1
    <3>1. g[k] = h[k] /\ g[k + 1] = h[k + 1] /\ t[k + 1] = s[k + 1]
      BY <1>2, <2>2
    <3> HIDE DEF g
    <3> QED BY <1>1, <2>2, <3>1 DEF GoesThrough, GoesInto
  <2> QED BY <1>2, <2>1, <2>2
<1>5. g[Len(t)] = F[Fold(F, base, s)][c]
  BY <1>1, <1>2
<1> HIDE DEF g, t
<1>6. GoesThrough(g, F, base, A, t)
  BY <1>2, <1>3, <1>4 DEF GoesThrough
<1>7. Fold(F, base, t) = g[Len(t)]
  BY <1>2, <1>6, FoldIs
<1> QED BY <1>5, <1>7 DEF t

\* Induction over sequences: what holds of the empty one, and of s with one more
\* element when it holds of s, holds of every sequence.
LEMMA HoldsOfSeq ==
  ASSUME NEW C, NEW U, <<>> \in U, \A s \in Seq(C), c \in C : s \in U => Append(s, c) \in U
  PROVE  Seq(C) \subseteq U
<1> DEFINE Good == {n \in Nat : \A s \in Seq(C) : Len(s) = n => s \in U}
<1>1. 0 \in Good
  <2> SUFFICES ASSUME NEW s \in Seq(C), Len(s) = 0 PROVE s \in U
    OBVIOUS
  <2>1. s = <<>>
    OBVIOUS
  <2> QED BY <2>1
<1>2. ASSUME NEW n \in Nat, n \in Good PROVE n + 1 \in Good
  <2> SUFFICES ASSUME NEW s \in Seq(C), Len(s) = n + 1 PROVE s \in U
    OBVIOUS
  <2> DEFINE t == SubSeq(s, 1, n)
  <2>1. t \in Seq(C) /\ Len(t) = n /\ s[n + 1] \in C
    OBVIOUS
  <2>2. Append(t, s[n + 1]) = s
    OBVIOUS
  <2> HIDE DEF t
  <2>3. t \in U
    BY <1>2, <2>1
  <2>4. Append(t, s[n + 1]) \in U
    BY <2>1, <2>3
  <2> QED BY <2>2, <2>4
<1>3. Nat \subseteq Good
  <2> HIDE DEF Good
  <2> QED BY <1>1, <1>2, HoldsOfAll
<1> SUFFICES ASSUME NEW s \in Seq(C) PROVE s \in U
  OBVIOUS
<1>4. Len(s) \in Good
  <2> HIDE DEF Good
  <2> QED BY <1>3
<1> QED BY <1>4

----------------------------------------------------------------------------
(* What ReadLines, NonEmpty and Stream do with one more element.             *)

\* What the loop of split keeps, what it starts with, and what it does with a character.
LineStates(C) == [done : Seq(Seq(C)), item : Seq(C)]
NoLines == [done |-> <<>>, item |-> <<>>]
NextLine(acc, ch, d) == IF ch = d
                        THEN [done |-> Append(acc.done, acc.item), item |-> <<>>]
                        ELSE [done |-> acc.done, item |-> Append(acc.item, ch)]
LineStep(C, d) == [acc \in LineStates(C) |-> [ch \in C |-> NextLine(acc, ch, d)]]

\* The loop keeps its types.
LEMMA LineOperation ==
  ASSUME NEW C, NEW d
  PROVE  NoLines \in LineStates(C) /\ Operation(LineStep(C, d), LineStates(C), C)
<1>1. <<>> \in Seq(Seq(C)) /\ <<>> \in Seq(C)
  OBVIOUS
<1>2. NoLines \in LineStates(C)
  BY <1>1 DEF NoLines, LineStates
<1>3. ASSUME NEW acc \in LineStates(C), NEW ch \in C PROVE LineStep(C, d)[acc][ch] \in LineStates(C)
  <2>1. acc.done \in Seq(Seq(C)) /\ acc.item \in Seq(C)
    BY DEF LineStates
  <2>2. Append(acc.done, acc.item) \in Seq(Seq(C)) /\ Append(acc.item, ch) \in Seq(C)
    BY <2>1
  <2>3. NextLine(acc, ch, d) \in LineStates(C)
    BY <1>1, <2>1, <2>2 DEF NextLine, LineStates
  <2> QED BY <2>3, Zenon DEF LineStep
<1> QED BY <1>2, <1>3, Zenon DEF Operation

\* ReadLines is the fold of that loop.
LEMMA LinesFold ==
  ASSUME NEW C, NEW d, NEW s \in Seq(C)
  PROVE  ReadLines(s, d) = Fold(LineStep(C, d), NoLines, s)
<1> DEFINE A == LineStates(C)
           F == LineStep(C, d)
           it == CHOOSE f : f = [S \in SUBSET DOMAIN s |->
                                   IF S = {} THEN NoLines ELSE NextLine(f[S \ {Max(S)}], s[Max(S)], d)]
<1>1. NoLines \in A /\ Operation(F, A, C)
  BY LineOperation
<1>2. ReadLines(s, d) = it[DOMAIN s]
  BY DEF ReadLines, FoldLeft, MapThenFoldSet, NoLines, NextLine
<1>3. \A acc \in A, ch \in C : F[acc][ch] = NextLine(acc, ch, d)
  BY Zenon DEF LineStep
<1> HIDE DEF A, F
<1>4. PICK g : FoldsAll(g, F, NoLines, A, C, s)
  BY <1>1, FoldAnswers
<1>5. g = [S \in SUBSET DOMAIN s |-> IF S = {} THEN NoLines ELSE NextLine(g[S \ {Max(S)}], s[Max(S)], d)]
  <2>1. /\ g = [S \in SUBSET DOMAIN s |-> IF S = {} THEN NoLines ELSE F[g[S \ {Max(S)}]][s[Max(S)]]]
        /\ \A S \in SUBSET DOMAIN s : S # {} => g[S \ {Max(S)}] \in A /\ s[Max(S)] \in C
    BY <1>4 DEF FoldsAll
  <2>2. \A S \in SUBSET DOMAIN s : S # {} =>
          F[g[S \ {Max(S)}]][s[Max(S)]] = NextLine(g[S \ {Max(S)}], s[Max(S)], d)
    BY <1>3, <2>1, Zenon
  <2> QED BY <2>1, <2>2
<1>6. it = [S \in SUBSET DOMAIN s |-> IF S = {} THEN NoLines ELSE NextLine(it[S \ {Max(S)}], s[Max(S)], d)]
  BY <1>5
<1> HIDE DEF it
<1>7. Unfolds(it, F, NoLines, A, s)
  <2>1. it[{}] = NoLines
    BY <1>6
  <2>2. ASSUME NEW S \in SUBSET DOMAIN s, S # {}, it[S \ {Max(S)}] \in A
        PROVE it[S] = F[it[S \ {Max(S)}]][s[Max(S)]]
    <3>1. s[Max(S)] \in C
      BY <1>4, <2>2 DEF FoldsAll
    <3>2. it[S] = NextLine(it[S \ {Max(S)}], s[Max(S)], d)
      BY <1>6, <2>2, Zenon
    <3> QED BY <1>3, <2>2, <3>1, <3>2, Zenon
  <2> QED BY <2>1, <2>2, Zenon DEF Unfolds
<1>8. it[DOMAIN s] = Fold(F, NoLines, s)
  BY <1>1, <1>7, UnfoldIs
<1> QED BY <1>2, <1>8 DEF F

\* So it reads one character after the other.
LEMMA LinesOf ==
  ASSUME NEW C, NEW d
  PROVE  /\ ReadLines(<<>>, d) = NoLines
         /\ \A s \in Seq(C) : ReadLines(s, d) \in LineStates(C)
         /\ \A s \in Seq(C), ch \in C : ReadLines(Append(s, ch), d) = NextLine(ReadLines(s, d), ch, d)
<1> DEFINE A == LineStates(C)
           F == LineStep(C, d)
<1>1. NoLines \in A /\ Operation(F, A, C)
  BY LineOperation
<1>2. \A acc \in A, ch \in C : F[acc][ch] = NextLine(acc, ch, d)
  BY Zenon DEF LineStep
<1>3. \A s \in Seq(C) : ReadLines(s, d) = Fold(F, NoLines, s)
  BY LinesFold
<1> HIDE DEF A, F
<1>4. ReadLines(<<>>, d) = NoLines
  <2>1. <<>> \in Seq(C)
    OBVIOUS
  <2>2. Fold(F, NoLines, <<>>) = NoLines
    BY <1>1, FoldEmpty
  <2> QED BY <1>3, <2>1, <2>2
<1>5. ASSUME NEW s \in Seq(C) PROVE ReadLines(s, d) \in A
  BY <1>1, <1>3, FoldInto
<1>6. ASSUME NEW s \in Seq(C), NEW ch \in C
      PROVE  ReadLines(Append(s, ch), d) = NextLine(ReadLines(s, d), ch, d)
  <2>1. Fold(F, NoLines, Append(s, ch)) = F[Fold(F, NoLines, s)][ch]
    BY <1>1, FoldAppend
  <2>2. Append(s, ch) \in Seq(C)
    OBVIOUS
  <2> QED BY <1>2, <1>3, <1>5, <2>1, <2>2, Zenon
<1> QED BY <1>4, <1>5, <1>6 DEF A

\* What NonEmpty does with an item.
NextNonEmpty(acc, item) == IF item = <<>> THEN acc ELSE Append(acc, item)
NonEmptyStep(X) == [acc \in Seq(X) |-> [item \in X |-> NextNonEmpty(acc, item)]]

\* It keeps its types.
LEMMA NonEmptyOperation ==
  ASSUME NEW X
  PROVE  <<>> \in Seq(X) /\ Operation(NonEmptyStep(X), Seq(X), X)
<1>1. <<>> \in Seq(X)
  OBVIOUS
<1>2. ASSUME NEW acc \in Seq(X), NEW item \in X PROVE NonEmptyStep(X)[acc][item] \in Seq(X)
  <2>1. Append(acc, item) \in Seq(X)
    OBVIOUS
  <2>2. NextNonEmpty(acc, item) \in Seq(X)
    BY <2>1 DEF NextNonEmpty
  <2> QED BY <2>2, Zenon DEF NonEmptyStep
<1> QED BY <1>1, <1>2, Zenon DEF Operation

\* NonEmpty is the fold of that.
LEMMA NonEmptyFold ==
  ASSUME NEW X, NEW s \in Seq(X)
  PROVE  NonEmpty(s) = Fold(NonEmptyStep(X), <<>>, s)
<1> DEFINE A == Seq(X)
           F == NonEmptyStep(X)
           base == <<>>
           it == CHOOSE f : f = [S \in SUBSET DOMAIN s |->
                                   IF S = {} THEN base ELSE NextNonEmpty(f[S \ {Max(S)}], s[Max(S)])]
<1>1. base \in A /\ Operation(F, A, X)
  BY NonEmptyOperation
<1>2. NonEmpty(s) = it[DOMAIN s]
  BY DEF NonEmpty, FoldLeft, MapThenFoldSet, NextNonEmpty
<1>3. \A acc \in A, item \in X : F[acc][item] = NextNonEmpty(acc, item)
  BY Zenon DEF NonEmptyStep
<1> HIDE DEF A, F, base
<1>4. PICK g : FoldsAll(g, F, base, A, X, s)
  BY <1>1, FoldAnswers
<1>5. g = [S \in SUBSET DOMAIN s |-> IF S = {} THEN base ELSE NextNonEmpty(g[S \ {Max(S)}], s[Max(S)])]
  <2>1. /\ g = [S \in SUBSET DOMAIN s |-> IF S = {} THEN base ELSE F[g[S \ {Max(S)}]][s[Max(S)]]]
        /\ \A S \in SUBSET DOMAIN s : S # {} => g[S \ {Max(S)}] \in A /\ s[Max(S)] \in X
    BY <1>4 DEF FoldsAll
  <2>2. \A S \in SUBSET DOMAIN s : S # {} =>
          F[g[S \ {Max(S)}]][s[Max(S)]] = NextNonEmpty(g[S \ {Max(S)}], s[Max(S)])
    BY <1>3, <2>1, Zenon
  <2> QED BY <2>1, <2>2
<1>6. it = [S \in SUBSET DOMAIN s |-> IF S = {} THEN base ELSE NextNonEmpty(it[S \ {Max(S)}], s[Max(S)])]
  BY <1>5
<1> HIDE DEF it
<1>7. Unfolds(it, F, base, A, s)
  <2>1. it[{}] = base
    BY <1>6
  <2>2. ASSUME NEW S \in SUBSET DOMAIN s, S # {}, it[S \ {Max(S)}] \in A
        PROVE it[S] = F[it[S \ {Max(S)}]][s[Max(S)]]
    <3>1. s[Max(S)] \in X
      BY <1>4, <2>2 DEF FoldsAll
    <3>2. it[S] = NextNonEmpty(it[S \ {Max(S)}], s[Max(S)])
      BY <1>6, <2>2, Zenon
    <3> QED BY <1>3, <2>2, <3>1, <3>2, Zenon
  <2> QED BY <2>1, <2>2, Zenon DEF Unfolds
<1>8. it[DOMAIN s] = Fold(F, base, s)
  BY <1>1, <1>7, UnfoldIs
<1> QED BY <1>2, <1>8 DEF F, base

\* So it looks at one item after the other.
LEMMA NonEmptyOf ==
  ASSUME NEW X
  PROVE  /\ NonEmpty(<<>>) = <<>>
         /\ \A s \in Seq(X) : NonEmpty(s) \in Seq(X)
         /\ \A s \in Seq(X), item \in X : NonEmpty(Append(s, item)) = NextNonEmpty(NonEmpty(s), item)
<1> DEFINE A == Seq(X)
           F == NonEmptyStep(X)
           base == <<>>
<1>1. base \in A /\ Operation(F, A, X)
  BY NonEmptyOperation
<1>2. \A acc \in A, item \in X : F[acc][item] = NextNonEmpty(acc, item)
  BY Zenon DEF NonEmptyStep
<1>3. \A s \in Seq(X) : NonEmpty(s) = Fold(F, base, s)
  BY NonEmptyFold
<1>4. NonEmpty(<<>>) = base
  <2> HIDE DEF A, F, base
  <2>1. <<>> \in Seq(X)
    OBVIOUS
  <2>2. Fold(F, base, <<>>) = base
    BY <1>1, FoldEmpty
  <2> QED BY <1>3, <2>1, <2>2
<1>5. ASSUME NEW s \in Seq(X) PROVE NonEmpty(s) \in A
  <2> HIDE DEF A, F, base
  <2> QED BY <1>1, <1>3, FoldInto
<1>6. ASSUME NEW s \in Seq(X), NEW item \in X
      PROVE  NonEmpty(Append(s, item)) = NextNonEmpty(NonEmpty(s), item)
  <2>1. Append(s, item) \in Seq(X)
    OBVIOUS
  <2> HIDE DEF A, F, base
  <2>2. Fold(F, base, Append(s, item)) = F[Fold(F, base, s)][item]
    BY <1>1, FoldAppend
  <2> QED BY <1>2, <1>3, <1>5, <2>1, <2>2, Zenon
<1> QED BY <1>4, <1>5, <1>6 DEF A, base

\* What Stream does with an item.
NextStream(acc, item, delim) == acc \o item \o delim
StreamStep(C, delim) == [acc \in Seq(C) |-> [item \in Seq(C) |-> NextStream(acc, item, delim)]]

\* It keeps its types.
LEMMA StreamOperation ==
  ASSUME NEW C, NEW delim \in Seq(C)
  PROVE  <<>> \in Seq(C) /\ Operation(StreamStep(C, delim), Seq(C), Seq(C))
<1>1. <<>> \in Seq(C)
  OBVIOUS
<1>2. ASSUME NEW acc \in Seq(C), NEW item \in Seq(C) PROVE StreamStep(C, delim)[acc][item] \in Seq(C)
  <2>1. acc \o item \in Seq(C)
    OBVIOUS
  <2>2. NextStream(acc, item, delim) \in Seq(C)
    BY <2>1 DEF NextStream
  <2> QED BY <2>2, Zenon DEF StreamStep
<1> QED BY <1>1, <1>2, Zenon DEF Operation

\* Stream is the fold of that.
LEMMA StreamFold ==
  ASSUME NEW C, NEW delim \in Seq(C), NEW s \in Seq(Seq(C))
  PROVE  Stream(s, delim) = Fold(StreamStep(C, delim), <<>>, s)
<1> DEFINE A == Seq(C)
           X == Seq(C)
           F == StreamStep(C, delim)
           base == <<>>
           it == CHOOSE f : f = [S \in SUBSET DOMAIN s |->
                                   IF S = {} THEN base ELSE NextStream(f[S \ {Max(S)}], s[Max(S)], delim)]
<1>1. base \in A /\ Operation(F, A, X)
  BY StreamOperation
<1>2. Stream(s, delim) = it[DOMAIN s]
  BY DEF Stream, FoldLeft, MapThenFoldSet, NextStream
<1>3. \A acc \in A, item \in X : F[acc][item] = NextStream(acc, item, delim)
  BY Zenon DEF StreamStep
<1> HIDE DEF A, F, base
<1>4. PICK g : FoldsAll(g, F, base, A, X, s)
  BY <1>1, FoldAnswers
<1> HIDE DEF X
<1>5. g = [S \in SUBSET DOMAIN s |-> IF S = {} THEN base ELSE NextStream(g[S \ {Max(S)}], s[Max(S)], delim)]
  <2>1. /\ g = [S \in SUBSET DOMAIN s |-> IF S = {} THEN base ELSE F[g[S \ {Max(S)}]][s[Max(S)]]]
        /\ \A S \in SUBSET DOMAIN s : S # {} => g[S \ {Max(S)}] \in A /\ s[Max(S)] \in X
    BY <1>4 DEF FoldsAll
  <2>2. \A S \in SUBSET DOMAIN s : S # {} =>
          F[g[S \ {Max(S)}]][s[Max(S)]] = NextStream(g[S \ {Max(S)}], s[Max(S)], delim)
    BY <1>3, <2>1, Zenon
  <2> QED BY <2>1, <2>2
<1>6. it = [S \in SUBSET DOMAIN s |-> IF S = {} THEN base ELSE NextStream(it[S \ {Max(S)}], s[Max(S)], delim)]
  BY <1>5
<1> HIDE DEF it
<1>7. Unfolds(it, F, base, A, s)
  <2>1. it[{}] = base
    BY <1>6
  <2>2. ASSUME NEW S \in SUBSET DOMAIN s, S # {}, it[S \ {Max(S)}] \in A
        PROVE it[S] = F[it[S \ {Max(S)}]][s[Max(S)]]
    <3>1. s[Max(S)] \in X
      BY <1>4, <2>2 DEF FoldsAll
    <3>2. it[S] = NextStream(it[S \ {Max(S)}], s[Max(S)], delim)
      BY <1>6, <2>2, Zenon
    <3> QED BY <1>3, <2>2, <3>1, <3>2, Zenon
  <2> QED BY <2>1, <2>2, Zenon DEF Unfolds
<1>8. it[DOMAIN s] = Fold(F, base, s)
  <2>1. s \in Seq(X)
    BY DEF X
  <2> QED BY <1>1, <1>7, <2>1, UnfoldIs
<1> QED BY <1>2, <1>8 DEF F, base

\* So it writes one item after the other.
LEMMA StreamOf ==
  ASSUME NEW C, NEW delim \in Seq(C)
  PROVE  /\ Stream(<<>>, delim) = <<>>
         /\ \A s \in Seq(Seq(C)) : Stream(s, delim) \in Seq(C)
         /\ \A s \in Seq(Seq(C)), item \in Seq(C) :
              Stream(Append(s, item), delim) = Stream(s, delim) \o item \o delim
<1> DEFINE A == Seq(C)
           X == Seq(C)
           F == StreamStep(C, delim)
           base == <<>>
<1>1. base \in A /\ Operation(F, A, X)
  BY StreamOperation
<1>2. \A acc \in A, item \in X : F[acc][item] = NextStream(acc, item, delim)
  BY Zenon DEF StreamStep
<1>3. \A s \in Seq(X) : Stream(s, delim) = Fold(F, base, s)
  BY StreamFold
<1>4. Stream(<<>>, delim) = base
  <2> HIDE DEF A, F, base, X
  <2>1. <<>> \in Seq(X)
    OBVIOUS
  <2>2. Fold(F, base, <<>>) = base
    BY <1>1, FoldEmpty
  <2> QED BY <1>3, <2>1, <2>2
<1>5. ASSUME NEW s \in Seq(X) PROVE Stream(s, delim) \in A
  <2> HIDE DEF A, F, base, X
  <2> QED BY <1>1, <1>3, FoldInto
<1>6. ASSUME NEW s \in Seq(X), NEW item \in X
      PROVE  Stream(Append(s, item), delim) = NextStream(Stream(s, delim), item, delim)
  <2> HIDE DEF A, F, base, X
  <2>1. Append(s, item) \in Seq(X)
    OBVIOUS
  <2>2. Fold(F, base, Append(s, item)) = F[Fold(F, base, s)][item]
    BY <1>1, FoldAppend
  <2> QED BY <1>2, <1>3, <1>5, <2>1, <2>2, Zenon
<1> QED BY <1>4, <1>5, <1>6 DEF A, X, base, NextStream

----------------------------------------------------------------------------
(* Append and \o under names of their own, for the proofs that need their     *)
(* algebra and not what sequences are made of.                               *)

\* The sequence u and behind it v; and one element behind u.
Cat(u, v) == u \o v
Add(u, x) == Append(u, x)

\* Cat stays among the sequences and is associative.
LEMMA CatIs ==
  ASSUME NEW X, NEW u \in Seq(X), NEW v \in Seq(X)
  PROVE  /\ Cat(u, v) \in Seq(X)
         /\ \A w \in Seq(X) : Cat(Cat(u, v), w) = Cat(u, Cat(v, w))
         /\ \A x \in X : Cat(u, Add(v, x)) = Add(Cat(u, v), x)
<1>1. Cat(u, v) \in Seq(X)
  BY DEF Cat
<1>2. ASSUME NEW w \in Seq(X) PROVE Cat(Cat(u, v), w) = Cat(u, Cat(v, w))
  BY DEF Cat
<1>3. ASSUME NEW x \in X PROVE Cat(u, Add(v, x)) = Add(Cat(u, v), x)
  BY DEF Cat, Add
<1> QED BY <1>1, <1>2, <1>3

\* The empty sequence is neutral, and Add is Cat with one element.
LEMMA AddIs ==
  ASSUME NEW X, NEW u \in Seq(X)
  PROVE  /\ <<>> \in Seq(X) /\ Cat(u, <<>>) = u /\ Cat(<<>>, u) = u
         /\ \A x \in X : /\ Add(u, x) \in Seq(X) /\ Add(u, x) # <<>>
                         /\ <<x>> \in Seq(X) /\ Add(u, x) = Cat(u, <<x>>)
<1>1. <<>> \in Seq(X) /\ Cat(u, <<>>) = u /\ Cat(<<>>, u) = u
  BY DEF Cat
<1>2. ASSUME NEW x \in X PROVE /\ Add(u, x) \in Seq(X) /\ Add(u, x) # <<>>
                         /\ <<x>> \in Seq(X) /\ Add(u, x) = Cat(u, <<x>>)
  <2>1. Append(u, x) \in Seq(X) /\ Len(Append(u, x)) = Len(u) + 1
    OBVIOUS
  <2>3. <<x>> \in Seq(X)
    OBVIOUS
  <2>4. Append(u, x) # <<>>
    <3>1. Len(<<>>) = 0 /\ Len(u) \in Nat
      OBVIOUS
    <3> QED BY <2>1, <3>1
  <2>2. Append(u, x) = u \o <<x>>
    OBVIOUS
  <2> QED BY <2>1, <2>2, <2>3, <2>4 DEF Cat, Add
<1> QED BY <1>1, <1>2

\* Induction over a text, in terms of Add.
LEMMA HoldsOfTexts ==
  ASSUME NEW C, NEW U, <<>> \in U, \A s \in Seq(C), c \in C : s \in U => Add(s, c) \in U
  PROVE  Seq(C) \subseteq U
BY HoldsOfSeq DEF Add

\* A sequence that is not empty was extended last.
LEMMA Lengthens ==
  ASSUME NEW X, NEW v \in Seq(X), v # <<>>
  PROVE  \E w \in Seq(X), x \in X : v = Add(w, x)
<1>1. v = Append(SubSeq(v, 1, Len(v) - 1), v[Len(v)]) /\ SubSeq(v, 1, Len(v) - 1) \in Seq(X) /\ v[Len(v)] \in X
  OBVIOUS
<1> QED BY <1>1 DEF Add

\* ReadLines, NonEmpty and Stream with one more element.
LEMMA ReadsOn ==
  ASSUME NEW C, NEW d, NEW s \in Seq(C)
  PROVE  /\ ReadLines(s, d).done \in Seq(Seq(C)) /\ ReadLines(s, d).item \in Seq(C)
         /\ \A ch \in C :
              /\ ch = d => /\ ReadLines(Add(s, ch), d).done = Add(ReadLines(s, d).done, ReadLines(s, d).item)
                           /\ ReadLines(Add(s, ch), d).item = <<>>
              /\ ch # d => /\ ReadLines(Add(s, ch), d).done = ReadLines(s, d).done
                           /\ ReadLines(Add(s, ch), d).item = Add(ReadLines(s, d).item, ch)
<1>1. ReadLines(s, d) \in LineStates(C)
  BY LinesOf
<1>2. \A ch \in C : ReadLines(Add(s, ch), d) = NextLine(ReadLines(s, d), ch, d)
  BY LinesOf DEF Add
<1> QED BY <1>1, <1>2 DEF LineStates, NextLine, Add

\* Of no text nothing is read.
LEMMA ReadsNothing == ASSUME NEW d PROVE ReadLines(<<>>, d).done = <<>> /\ ReadLines(<<>>, d).item = <<>>
<1>1. ReadLines(<<>>, d) = NoLines
  <2> DEFINE C == {d}
  <2> HIDE DEF C
  <2>1. /\ ReadLines(<<>>, d) = NoLines
        /\ \A s \in Seq(C) : ReadLines(s, d) \in LineStates(C)
        /\ \A s \in Seq(C), ch \in C : ReadLines(Append(s, ch), d) = NextLine(ReadLines(s, d), ch, d)
    BY LinesOf, Zenon
  <2> QED BY <2>1
<1> QED BY <1>1 DEF NoLines

\* NonEmpty in terms of Add: an item is kept if it is not empty.
LEMMA NonEmptyOn ==
  ASSUME NEW X, NEW v \in Seq(X)
  PROVE  /\ NonEmpty(<<>>) = <<>> /\ NonEmpty(v) \in Seq(X)
         /\ \A item \in X : NonEmpty(Add(v, item)) = IF item = <<>> THEN NonEmpty(v) ELSE Add(NonEmpty(v), item)
<1>1. NonEmpty(<<>>) = <<>> /\ NonEmpty(v) \in Seq(X)
  BY NonEmptyOf
<1>2. \A item \in X : NonEmpty(Append(v, item)) = NextNonEmpty(NonEmpty(v), item)
  BY NonEmptyOf
<1> QED BY <1>1, <1>2 DEF NextNonEmpty, Add

\* Each item is written with the delimiter behind it.
LEMMA StreamOn ==
  ASSUME NEW C, NEW d \in C, NEW v \in Seq(Seq(C))
  PROVE  /\ Stream(<<>>, <<d>>) = <<>> /\ Stream(v, <<d>>) \in Seq(C)
         /\ \A item \in Seq(C) : Stream(Add(v, item), <<d>>) = Add(Cat(Stream(v, <<d>>), item), d)
<1>1. <<d>> \in Seq(C)
  OBVIOUS
<1>2. Stream(<<>>, <<d>>) = <<>> /\ Stream(v, <<d>>) \in Seq(C)
  BY <1>1, StreamOf
<1>3. ASSUME NEW item \in Seq(C) PROVE Stream(Add(v, item), <<d>>) = Add(Cat(Stream(v, <<d>>), item), d)
  <2>1. Stream(Add(v, item), <<d>>) = Cat(Cat(Stream(v, <<d>>), item), <<d>>)
    BY <1>1, StreamOf DEF Add, Cat
  <2>2. Cat(Stream(v, <<d>>), item) \in Seq(C)
    BY <1>2, CatIs
  <2> QED BY <2>1, <2>2, AddIs
<1> QED BY <1>2, <1>3

----------------------------------------------------------------------------
(* Split and Join.                                                           *)

\* What has been read, with the delimiters, is the text.
LEMMA LinesGiveBack ==
  ASSUME NEW C, NEW d \in C, NEW s \in Seq(C)
  PROVE  Cat(Stream(ReadLines(s, d).done, <<d>>), ReadLines(s, d).item) = s
<1> DEFINE U == {u \in Seq(C) : Cat(Stream(ReadLines(u, d).done, <<d>>), ReadLines(u, d).item) = u}
<1>1. <<>> \in Seq(C) /\ <<>> \in Seq(Seq(C))
  OBVIOUS
<1>2. <<>> \in U
  <2>1. Stream(<<>>, <<d>>) = <<>>
    BY <1>1, StreamOn
  <2>2. Cat(<<>>, <<>>) = <<>>
    BY <1>1, AddIs
  <2> QED BY <1>1, <2>1, <2>2, ReadsNothing
<1>3. ASSUME NEW u \in Seq(C), NEW c \in C, u \in U PROVE Add(u, c) \in U
  <2> DEFINE done == ReadLines(u, d).done
             item == ReadLines(u, d).item
             new == ReadLines(Add(u, c), d)
  <2>1. /\ done \in Seq(Seq(C)) /\ item \in Seq(C)
        /\ c = d => new.done = Add(done, item) /\ new.item = <<>>
        /\ c # d => new.done = done /\ new.item = Add(item, c)
    BY ReadsOn
  <2>2. Cat(Stream(done, <<d>>), item) = u
    BY <1>3
  <2> HIDE DEF done, item
  <2>3. Stream(done, <<d>>) \in Seq(C)
    BY <2>1, StreamOn
  <2>4. Add(u, c) \in Seq(C)
    BY AddIs
  <2> HIDE DEF new
  <2>5. CASE c = d
    <3>1. Stream(new.done, <<d>>) = Add(u, c)
      BY <2>1, <2>2, <2>5, StreamOn
    <3> QED BY <2>1, <2>4, <2>5, <3>1, AddIs DEF new
  <2>6. CASE c # d
    <3>1. Cat(Stream(done, <<d>>), Add(item, c)) = Add(u, c)
      BY <2>1, <2>2, <2>3, CatIs
    <3> QED BY <2>1, <2>4, <2>6, <3>1 DEF new
  <2> QED BY <2>5, <2>6
<1> HIDE DEF U
<1>4. Seq(C) \subseteq U
  BY <1>2, <1>3, HoldsOfTexts
<1> QED BY <1>4 DEF U

\* What split answers of what the loop has read; an empty end makes no difference to NonEmpty.
LEMMA SplitIs ==
  ASSUME NEW C, NEW d, NEW s \in Seq(C)
  PROVE  /\ Split(s, d) = IF ReadLines(s, d).item = <<>> THEN ReadLines(s, d).done
                          ELSE Add(ReadLines(s, d).done, ReadLines(s, d).item)
         /\ Split(s, d) \in Seq(Seq(C)) /\ NonEmpty(Split(s, d)) \in Seq(Seq(C))
         /\ NonEmpty(Split(s, d)) = NonEmpty(Add(ReadLines(s, d).done, ReadLines(s, d).item))
<1> DEFINE done == ReadLines(s, d).done
           item == ReadLines(s, d).item
<1>1. done \in Seq(Seq(C)) /\ item \in Seq(C)
  BY ReadsOn
<1>2. Split(s, d) = IF item = <<>> THEN done ELSE Add(done, item)
  BY Zenon DEF Split, Add
<1> HIDE DEF done, item
<1>3. Split(s, d) \in Seq(Seq(C))
  BY <1>1, <1>2, AddIs
<1>4. NonEmpty(Split(s, d)) \in Seq(Seq(C))
  BY <1>3, NonEmptyOn
<1>5. NonEmpty(Split(s, d)) = NonEmpty(Add(done, item))
  BY <1>1, <1>2, NonEmptyOn
<1> QED BY <1>2, <1>3, <1>4, <1>5 DEF done, item

\* join leaves out the last delimiter.
LEMMA JoinOn ==
  ASSUME NEW C, NEW d \in C
  PROVE  /\ Join(<<>>, <<d>>) = <<>>
         /\ \A v \in Seq(Seq(C)), item \in Seq(C) : Join(Add(v, item), <<d>>) = Cat(Stream(v, <<d>>), item)
<1>1. Len(<<d>>) = 1 /\ <<>> \in Seq(Seq(C))
  OBVIOUS
<1>2. Join(<<>>, <<d>>) = <<>>
  <2>1. Stream(<<>>, <<d>>) = <<>>
    BY <1>1, StreamOn
  <2> QED BY <1>1, <2>1 DEF Join
<1>3. ASSUME NEW v \in Seq(Seq(C)), NEW item \in Seq(C)
      PROVE  Join(Add(v, item), <<d>>) = Cat(Stream(v, <<d>>), item)
  <2> DEFINE w == Cat(Stream(v, <<d>>), item)
             all == Stream(Add(v, item), <<d>>)
  <2>1. w \in Seq(C)
    BY StreamOn, CatIs
  <2>2. all = Append(w, d)
    BY StreamOn DEF Add
  <2>3. Join(Add(v, item), <<d>>) = SubSeq(all, 1, IF Len(all) < Len(<<d>>) THEN Len(all) ELSE Len(all) - Len(<<d>>))
    BY Zenon DEF Join
  <2> HIDE DEF w, all
  <2>4. Len(all) = Len(w) + 1 /\ Len(w) \in Nat
    BY <2>1, <2>2
  <2>5. SubSeq(all, 1, Len(w)) = w
    BY <2>1, <2>2
  <2>6. (IF Len(all) < Len(<<d>>) THEN Len(all) ELSE Len(all) - Len(<<d>>)) = Len(w)
    BY <1>1, <2>4
  <2>7. Join(Add(v, item), <<d>>) = w
    BY <2>3, <2>5, <2>6
  <2> QED BY <2>7 DEF w
<1> QED BY <1>2, <1>3

\* join undoes split.
LEMMA JoinSplit ==
  ASSUME NEW C, NEW d \in C, NEW s \in Seq(C)
  PROVE  s = Join(Split(s, d), <<d>>) \/ s = Join(Split(s, d), <<d>>) \o <<d>>
<1> DEFINE done == ReadLines(s, d).done
           item == ReadLines(s, d).item
<1>1. done \in Seq(Seq(C)) /\ item \in Seq(C) /\ Cat(Stream(done, <<d>>), item) = s
  BY LinesGiveBack, ReadsOn
<1>2. Split(s, d) = IF item = <<>> THEN done ELSE Add(done, item)
  BY SplitIs
<1> HIDE DEF done, item
<1>3. Stream(done, <<d>>) \in Seq(C)
  BY <1>1, StreamOn
<1>4. CASE item # <<>>
  BY <1>1, <1>2, <1>4, JoinOn
<1>5. CASE item = <<>> /\ done = <<>>
  <2>1. Stream(<<>>, <<d>>) = <<>>
    BY <1>1, StreamOn
  <2>2. <<>> \in Seq(C) /\ Cat(<<>>, <<>>) = <<>>
    BY <1>1, <1>5, AddIs
  <2>3. Join(<<>>, <<d>>) = <<>>
    BY JoinOn
  <2> QED BY <1>1, <1>2, <1>5, <2>1, <2>2, <2>3
<1>6. CASE item = <<>> /\ done # <<>>
  <2> DEFINE X == Seq(C)
  <2> HIDE DEF X
  <2>1. PICK w \in Seq(X), x \in X : done = Add(w, x)
    BY <1>1, <1>6, Lengthens DEF X
  <2>2. Join(Split(s, d), <<d>>) = Cat(Stream(w, <<d>>), x) /\ s = Add(Cat(Stream(w, <<d>>), x), d)
    <3> USE DEF X
    <3>1. s = Stream(done, <<d>>)
      BY <1>1, <1>3, <1>6, AddIs
    <3> QED BY <1>2, <1>6, <2>1, <3>1, JoinOn, StreamOn
  <2>3. Cat(Stream(w, <<d>>), x) \in Seq(C)
    BY <2>1, StreamOn, CatIs DEF X
  <2>4. s = Cat(Join(Split(s, d), <<d>>), <<d>>)
    BY <2>2, <2>3, AddIs
  <2> QED BY <2>4 DEF Cat
<1> QED BY <1>4, <1>5, <1>6

----------------------------------------------------------------------------
(* v lists f over the positions in K, in order.                              *)

\* pos says at which position each element of v is found.
Lists(v, K, f, pos) ==
  /\ pos \in [1 .. Len(v) -> K]
  /\ \A i, j \in 1 .. Len(v) : i < j => pos[i] < pos[j]
  /\ \A k \in K : \E i \in 1 .. Len(v) : pos[i] = k
  /\ \A i \in 1 .. Len(v) : v[i] = f[pos[i]]
Listed(v, K, f) == \E pos : Lists(v, K, f, pos)

\* Nothing lists nothing.
LEMMA ListsNone == ASSUME NEW f PROVE Listed(<<>>, {}, f)
<1>1. Len(<<>>) = 0 /\ 1 .. 0 = {}
  OBVIOUS
<1>2. Lists(<<>>, {}, f, [i \in {} |-> 0])
  BY <1>1 DEF Lists
<1> QED BY <1>2, Zenon DEF Listed

\* Only the values at the positions count.
LEMMA ListsSame ==
  ASSUME NEW v, NEW K, NEW f, NEW g, Listed(v, K, f), \A k \in K : g[k] = f[k]
  PROVE  Listed(v, K, g)
<1>1. PICK pos : Lists(v, K, f, pos)
  BY Zenon DEF Listed
<1>2. Lists(v, K, g, pos)
  BY <1>1 DEF Lists
<1> QED BY <1>2, Zenon DEF Listed

\* One more position, behind the others.
LEMMA ListsMore ==
  ASSUME NEW X, NEW v \in Seq(X), NEW x \in X, NEW K \in SUBSET Nat, NEW f, Listed(v, K, f),
         NEW m \in Nat, \A k \in K : k < m, f[m] = x
  PROVE  Listed(Add(v, x), K \union {m}, f)
<1>1. PICK pos : Lists(v, K, f, pos)
  BY Zenon DEF Listed
<1> DEFINE w == Append(v, x)
           n == Len(v)
           new == [i \in 1 .. n + 1 |-> IF i = n + 1 THEN m ELSE pos[i]]
<1>2. n \in Nat /\ Len(w) = n + 1 /\ w[n + 1] = x /\ \A i \in 1 .. n : w[i] = v[i]
  OBVIOUS
<1> HIDE DEF w, n
<1>3. /\ \A i \in 1 .. n : new[i] = pos[i] /\ pos[i] \in K
      /\ new[n + 1] = m
  BY <1>1, <1>2 DEF Lists, n
<1>4. new \in [1 .. n + 1 -> K \union {m}]
  <2>1. \A i \in 1 .. n + 1 : i = n + 1 \/ i \in 1 .. n
    BY <1>2
  <2>2. \A i \in 1 .. n + 1 : new[i] \in K \union {m}
    <3> HIDE DEF new
    <3> QED BY <1>3, <2>1
  <2> QED BY <2>2
<1> HIDE DEF new
<1>5. ASSUME NEW i \in 1 .. n + 1, NEW j \in 1 .. n + 1, i < j PROVE new[i] < new[j]
  <2>1. i \in 1 .. n
    BY <1>2, <1>5
  <2>2. CASE j = n + 1
    BY <1>3, <2>1, <2>2
  <2>3. CASE j # n + 1
    <3>1. j \in 1 .. n
      BY <1>2, <2>3
    <3> QED BY <1>1, <1>3, <1>5, <2>1, <3>1 DEF Lists, n
  <2> QED BY <2>2, <2>3
<1>6. ASSUME NEW k \in K \union {m} PROVE \E i \in 1 .. n + 1 : new[i] = k
  <2>1. CASE k = m
    BY <1>2, <1>3, <2>1
  <2>2. CASE k \in K
    <3>1. PICK i \in 1 .. n : pos[i] = k
      BY <1>1, <2>2 DEF Lists, n
    <3> QED BY <1>2, <1>3, <3>1
  <2> QED BY <2>1, <2>2
<1>7. ASSUME NEW i \in 1 .. n + 1 PROVE w[i] = f[new[i]]
  <2>1. CASE i = n + 1
    BY <1>2, <1>3, <2>1
  <2>2. CASE i # n + 1
    <3>1. i \in 1 .. n
      BY <1>2, <2>2
    <3> QED BY <1>1, <1>2, <1>3, <3>1 DEF Lists, n
  <2> QED BY <2>1, <2>2
<1>8. Lists(w, K \union {m}, f, new)
  BY <1>2, <1>4, <1>5, <1>6, <1>7 DEF Lists
<1> QED BY <1>8, Zenon DEF Listed, Add, w

\* So positions can be counted in the list.
LEMMA ListsCount ==
  ASSUME NEW X, NEW v \in Seq(X), NEW K \in SUBSET Nat, NEW f, Listed(v, K, f)
  PROVE  /\ Len(v) = Cardinality(K)
         /\ \A k \in K : v[Cardinality({j \in K : j <= k})] = f[k]
<1>1. PICK pos : Lists(v, K, f, pos)
  BY Zenon DEF Listed
<1> DEFINE n == Len(v)
<1>2. n \in Nat
  OBVIOUS
<1> HIDE DEF n
<1>3. ASSUME NEW i \in 1 .. n, NEW j \in 1 .. n PROVE pos[i] \in Nat /\ (pos[i] <= pos[j] <=> i <= j)
  <2>1. /\ pos[i] \in Nat /\ pos[j] \in Nat
        /\ i < j => pos[i] < pos[j]
        /\ j < i => pos[j] < pos[i]
    BY <1>1 DEF Lists, n
  <2> QED BY <2>1
<1>4. ASSUME NEW i \in 0 .. n, NEW L, L = {j \in K : i # 0 /\ j <= pos[i]} PROVE Cardinality(L) = i
  <2> DEFINE h == [j \in 1 .. i |-> pos[j]]
  <2>1. \A j \in 1 .. i : j \in 1 .. n /\ h[j] = pos[j] /\ pos[j] \in K
    BY <1>1, <1>2 DEF Lists, n
  <2>2. h \in [1 .. i -> L]
    BY <1>2, <1>3, <1>4, <2>1
  <2>3. ASSUME NEW a \in 1 .. i, NEW b \in 1 .. i, h[a] = h[b] PROVE a = b
    BY <1>3, <2>1, <2>3
  <2>4. ASSUME NEW k \in L PROVE \E a \in 1 .. i : h[a] = k
    <3>1. PICK a \in 1 .. n : pos[a] = k
      BY <1>1, <1>4 DEF Lists, n
    <3>2. i \in 1 .. n /\ k <= pos[i]
      BY <1>2, <1>4
    <3>3. a <= i
      BY <1>3, <3>1, <3>2
    <3> QED BY <1>2, <2>1, <3>1, <3>3
  <2> HIDE DEF h
  <2>5. h \in Bijection(1 .. i, L)
    BY <2>2, <2>3, <2>4 DEF Bijection, Injection, Surjection, IsInjective
  <2>6. IsFiniteSet(1 .. i) /\ Cardinality(1 .. i) = i
    BY <1>2, FS_Interval
  <2>7. ExistsBijection(1 .. i, L)
    BY <2>5 DEF ExistsBijection
  <2> QED BY <2>6, <2>7, FS_Bijection
<1>5. Len(v) = Cardinality(K)
  <2>1. CASE n = 0
    <3>1. K = {}
      BY <1>1, <2>1 DEF Lists, n
    <3> QED BY <2>1, <3>1, FS_EmptySet DEF n
  <2>2. CASE n # 0
    <3>1. n \in 0 .. n /\ n \in 1 .. n
      BY <1>2, <2>2
    <3>2. K = {j \in K : n # 0 /\ j <= pos[n]}
      <4>1. ASSUME NEW k \in K PROVE k <= pos[n]
        <5>1. PICK a \in 1 .. n : pos[a] = k
          BY <1>1 DEF Lists, n
        <5> QED BY <1>3, <3>1, <5>1
      <4> QED BY <2>2, <4>1
    <3> QED BY <1>4, <3>1, <3>2 DEF n
  <2> QED BY <2>1, <2>2
<1>6. ASSUME NEW k \in K PROVE v[Cardinality({j \in K : j <= k})] = f[k]
  <2>1. PICK a \in 1 .. n : pos[a] = k
    BY <1>1 DEF Lists, n
  <2>2. a \in 0 .. n /\ a # 0
    BY <1>2
  <2>3. {j \in K : j <= k} = {j \in K : a # 0 /\ j <= pos[a]}
    BY <2>1, <2>2
  <2>4. Cardinality({j \in K : j <= k}) = a
    BY <1>4, <2>2, <2>3
  <2> QED BY <1>1, <2>1, <2>4 DEF Lists, n
<1> QED BY <1>5, <1>6

----------------------------------------------------------------------------
(* Pieces of a text.                                                         *)

\* The characters behind position m, up to n.
Cut(s, m, n) == SubSeq(s, m + 1, n)

\* What the elements of a piece are, and those of a text with one character more.
IsCut(u, C, s, m, n) == u \in Seq(C) /\ Len(u) = n - m /\ \A j \in 1 .. n - m : u[j] = s[m + j]
IsAdd(t, s, n, c)    == Len(t) = n + 1 /\ t[n + 1] = c /\ \A j \in 1 .. n : t[j] = s[j]

\* A piece has the characters of the text in that place.
LEMMA CutIs ==
  ASSUME NEW C, NEW s \in Seq(C), NEW m \in Nat, NEW n \in Nat, m <= n, n <= Len(s)
  PROVE  IsCut(Cut(s, m, n), C, s, m, n)
<1>1. m + 1 \in Int /\ n \in Int
  OBVIOUS
<1>2. \A i \in m + 1 .. n : s[i] \in C
  OBVIOUS
<1> DEFINE k == m + 1
<1>3. /\ SubSeq(s, k, n) \in Seq(C)
      /\ Len(SubSeq(s, k, n)) = IF k <= n THEN n - k + 1 ELSE 0
      /\ \A i \in 1 .. n - k + 1 : SubSeq(s, k, n)[i] = s[k + i - 1]
  <2>1. k \in Int /\ \A i \in k .. n : s[i] \in C
    BY <1>1, <1>2
  <2> HIDE DEF k
  <2> QED BY <1>1, <2>1, SubSeqProperties
<1>4. Cut(s, m, n) = SubSeq(s, k, n)
  BY DEF Cut
<1> DEFINE u == SubSeq(s, k, n)
<1> HIDE DEF u
<1>5. Len(u) = n - m
  BY <1>3 DEF u
<1>6. ASSUME NEW j \in 1 .. n - m PROVE u[j] = s[m + j]
  <2>1. j \in 1 .. n - k + 1 /\ k + j - 1 = m + j
    OBVIOUS
  <2> HIDE DEF k
  <2>2. u[j] = s[k + j - 1]
    BY <1>3, <2>1 DEF u
  <2> QED BY <2>1, <2>2
<1> QED BY <1>3, <1>4, <1>5, <1>6 DEF u, IsCut

\* One character more is one behind all others.
LEMMA AddElements ==
  ASSUME NEW C, NEW s \in Seq(C), NEW c \in C, NEW n, n = Len(s)
  PROVE  n \in Nat /\ Add(s, c) \in Seq(C) /\ IsAdd(Add(s, c), s, n, c)
<1>1. Len(s) \in Nat
  OBVIOUS
<1> QED BY <1>1, AppendProperties DEF Add, IsAdd

\* One character more makes the last piece longer and leaves the others.
LEMMA CutAdd ==
  ASSUME NEW C, NEW s \in Seq(C), NEW c \in C, NEW n \in Nat, n = Len(s), NEW m \in 0 .. n
  PROVE  /\ Cut(Add(s, c), m, n + 1) = Add(Cut(s, m, n), c)
         /\ \A k \in m .. n : Cut(Add(s, c), m, k) = Cut(s, m, k)
<1> DEFINE t == Add(s, c)
<1>1. t \in Seq(C) /\ Len(t) = n + 1 /\ t[n + 1] = c /\ \A j \in 1 .. n : t[j] = s[j]
  BY AddElements DEF IsAdd
<1>2. m \in Nat /\ m <= n /\ n <= n + 1 /\ n + 1 \in Nat /\ m <= n + 1 /\ n + 1 <= n + 1
  OBVIOUS
<1> HIDE DEF t
<1>3. ASSUME NEW k \in m .. n PROVE Cut(t, m, k) = Cut(s, m, k)
  <2>1. k \in Nat /\ k <= n /\ m <= k /\ k <= n + 1
    OBVIOUS
  <2>6. IsCut(Cut(s, m, k), C, s, m, k)
    BY <1>2, <2>1, CutIs
  <2>7. IsCut(Cut(t, m, k), C, t, m, k)
    BY <1>1, <1>2, <2>1, CutIs
  <2>2. Cut(s, m, k) \in Seq(C) /\ Len(Cut(s, m, k)) = k - m /\ \A j \in 1 .. k - m : Cut(s, m, k)[j] = s[m + j]
    BY <2>6 DEF IsCut
  <2>3. Cut(t, m, k) \in Seq(C) /\ Len(Cut(t, m, k)) = k - m /\ \A j \in 1 .. k - m : Cut(t, m, k)[j] = t[m + j]
    BY <2>7 DEF IsCut
  <2>4. \A j \in 1 .. k - m : t[m + j] = s[m + j]
    BY <1>1, <1>2, <2>1
  <2> QED BY <2>2, <2>3, <2>4, SeqEqual
<1>4. Cut(t, m, n + 1) = Add(Cut(s, m, n), c)
  <2> DEFINE b == Cut(s, m, n)
             e == Add(b, c)
             a == Cut(t, m, n + 1)
  <2>6. IsCut(b, C, s, m, n)
    BY <1>2, CutIs
  <2>7. IsCut(a, C, t, m, n + 1)
    BY <1>1, <1>2, CutIs
  <2>1. b \in Seq(C) /\ Len(b) = n - m /\ \A j \in 1 .. n - m : b[j] = s[m + j]
    BY <2>6 DEF IsCut
  <2>2. a \in Seq(C) /\ Len(a) = n + 1 - m /\ \A j \in 1 .. n + 1 - m : a[j] = t[m + j]
    BY <2>7 DEF IsCut
  <2> HIDE DEF a, b
  <2>3. e \in Seq(C) /\ Len(e) = (n - m) + 1 /\ e[(n - m) + 1] = c /\ \A j \in 1 .. n - m : e[j] = b[j]
    <3> DEFINE l == n - m
    <3>1. l = Len(b)
      BY <2>1
    <3> HIDE DEF l
    <3>2. e \in Seq(C) /\ IsAdd(e, b, l, c)
      BY <2>1, <3>1, AddElements
    <3> QED BY <3>2 DEF IsAdd, l
  <2> HIDE DEF e
  <2>4. Len(a) = Len(e)
    BY <1>2, <2>2, <2>3
  <2>5. ASSUME NEW j \in 1 .. Len(a) PROVE a[j] = e[j]
    <3>1. CASE j = (n - m) + 1
      <4>1. m + j = n + 1 /\ j \in 1 .. n + 1 - m
        BY <1>2, <3>1
      <4> QED BY <1>1, <2>2, <2>3, <3>1, <4>1
    <3>2. CASE j # (n - m) + 1
      <4>1. j \in 1 .. n - m /\ m + j \in 1 .. n /\ j \in 1 .. n + 1 - m
        BY <1>2, <2>2, <3>2
      <4> QED BY <1>1, <2>1, <2>2, <2>3, <4>1
    <3> QED BY <3>1, <3>2
  <2> QED BY <2>2, <2>3, <2>4, <2>5, SeqEqual DEF a, b, e
<1> QED BY <1>3, <1>4 DEF t

----------------------------------------------------------------------------
(* The stretches between the delimiters.                                     *)

\* The last delimiter before i, 0 when there is none.
DelimBefore(s, d, i) == Max({0} \union {j \in 1 .. i - 1 : s[j] = d})
StretchBefore(s, d)  == [i \in 1 .. Len(s) + 1 |-> Cut(s, DelimBefore(s, d, i), i - 1)]

\* m is the last delimiter among the first k characters.
LastDelim(s, d, k, m) == m \in 0 .. k /\ (m # 0 => s[m] = d) /\ \A j \in m + 1 .. k : s[j] # d

\* The delimiter before a position is the last one in front of it.
LEMMA DelimBeforeSays ==
  ASSUME NEW s, NEW d, NEW i, NEW k \in Nat, i = k + 1
  PROVE  LastDelim(s, d, k, DelimBefore(s, d, i))
<1> DEFINE U == {0} \union {j \in 1 .. i - 1 : s[j] = d}
<1>1. i - 1 = k /\ U \subseteq 0 .. k /\ U # {}
  OBVIOUS
<1>2. \A j : j \in U <=> j = 0 \/ (j \in 1 .. k /\ s[j] = d)
  BY <1>1
<1>3. DelimBefore(s, d, i) = Max(U)
  BY DEF DelimBefore
<1> HIDE DEF U, Max
<1>4. Max(U) \in U /\ \A j \in U : Max(U) >= j
  BY <1>1, MaxSays, Zenon
<1> QED BY <1>1, <1>2, <1>3, <1>4 DEF LastDelim

\* The stretch that ends at i begins behind m.
StretchAt(s, d, i, k, m) == LastDelim(s, d, k, m) /\ StretchBefore(s, d)[i] = Cut(s, m, k)

\* Every stretch begins behind a last delimiter.
LEMMA StretchSays ==
  ASSUME NEW s, NEW d, NEW n \in Nat, n = Len(s), NEW k \in 0 .. n, NEW i, i = k + 1
  PROVE  \E m : StretchAt(s, d, i, k, m)
<1>1. i \in 1 .. n + 1 /\ i - 1 = k /\ k \in Nat
  OBVIOUS
<1>2. StretchBefore(s, d)[i] = Cut(s, DelimBefore(s, d, i), i - 1)
  BY <1>1, Zenon DEF StretchBefore
<1>3. LastDelim(s, d, k, DelimBefore(s, d, i))
  BY <1>1, DelimBeforeSays
<1>5. StretchBefore(s, d)[i] = Cut(s, DelimBefore(s, d, i), k)
  BY <1>1, <1>2
<1> QED BY <1>3, <1>5 DEF StretchAt

\* There is one last delimiter.
LEMMA LastDelimUnique ==
  ASSUME NEW s, NEW d, NEW k \in Nat, NEW m, NEW l, LastDelim(s, d, k, m), LastDelim(s, d, k, l)
  PROVE  m = l
BY DEF LastDelim

\* So a stretch begins behind it.
LEMMA StretchIs ==
  ASSUME NEW s, NEW d, NEW n \in Nat, n = Len(s), NEW k \in 0 .. n, NEW i, i = k + 1, NEW m, LastDelim(s, d, k, m)
  PROVE  StretchBefore(s, d)[i] = Cut(s, m, k)
<1>1. PICK l : StretchAt(s, d, i, k, l)
  BY StretchSays
<1>2. k \in Nat
  OBVIOUS
<1>3. l = m
  BY <1>1, <1>2, LastDelimUnique DEF StretchAt
<1> QED BY <1>1, <1>3 DEF StretchAt

\* With one more character the stretches stay, and the last one is extended or
\* begins again.
LEMMA StretchesOn ==
  ASSUME NEW C, NEW d, NEW s \in Seq(C), NEW c \in C, NEW n \in Nat, n = Len(s)
  PROVE  /\ Len(Add(s, c)) = n + 1
         /\ \A i \in 1 .. n + 1 : StretchBefore(Add(s, c), d)[i] = StretchBefore(s, d)[i]
         /\ StretchBefore(Add(s, c), d)[n + 2] =
              IF c = d THEN <<>> ELSE Add(StretchBefore(s, d)[n + 1], c)
<1> DEFINE t == Add(s, c)
<1>1. t \in Seq(C) /\ Len(t) = n + 1 /\ t[n + 1] = c /\ \A j \in 1 .. n : t[j] = s[j]
  BY DEF Add
<1> HIDE DEF t
<1>2. ASSUME NEW i \in 1 .. n + 1 PROVE StretchBefore(t, d)[i] = StretchBefore(s, d)[i]
  <2> DEFINE k == i - 1
  <2>1. k \in 0 .. n /\ i = k + 1 /\ k \in 0 .. n + 1 /\ n + 1 \in Nat
    OBVIOUS
  <2> HIDE DEF k
  <2>2. PICK m : LastDelim(s, d, k, m) /\ StretchBefore(s, d)[i] = Cut(s, m, k)
    <3>1. PICK m : StretchAt(s, d, i, k, m)
      BY <2>1, StretchSays
    <3> QED BY <3>1 DEF StretchAt
  <2>3. LastDelim(t, d, k, m) /\ m \in 0 .. n /\ k \in m .. n
    BY <1>1, <2>1, <2>2 DEF LastDelim
  <2>4. StretchBefore(t, d)[i] = Cut(t, m, k)
    BY <1>1, <2>1, <2>3, StretchIs
  <2>5. Cut(t, m, k) = Cut(s, m, k)
    BY <2>3, CutAdd DEF t
  <2> QED BY <2>2, <2>4, <2>5
<1> DEFINE k == n + 1
           i == n + 2
<1>3. k \in Nat /\ k \in 0 .. k /\ i = k + 1
  OBVIOUS
<1>4. CASE c = d
  <2>1. LastDelim(t, d, k, k)
    BY <1>1, <1>4 DEF LastDelim
  <2> HIDE DEF i, k
  <2>2. StretchBefore(t, d)[i] = Cut(t, k, k)
    BY <1>1, <1>3, <2>1, StretchIs DEF k
  <2>3. Cut(t, k, k) = <<>>
    BY <1>1, <1>3 DEF Cut
  <2> QED BY <1>1, <1>2, <1>4, <2>2, <2>3 DEF t, i
<1>5. CASE c # d
  <2>1. n \in 0 .. n
    OBVIOUS
  <2>2. PICK m : LastDelim(s, d, n, m) /\ StretchBefore(s, d)[n + 1] = Cut(s, m, n)
    <3> DEFINE j == n + 1
    <3>1. j = n + 1
      OBVIOUS
    <3> HIDE DEF j
    <3>2. PICK m : StretchAt(s, d, j, n, m)
      BY <2>1, <3>1, StretchSays
    <3> QED BY <3>2 DEF j, StretchAt
  <2>3. LastDelim(t, d, k, m) /\ m \in 0 .. n
    BY <1>1, <1>5, <2>2 DEF LastDelim
  <2> HIDE DEF i, k
  <2>4. StretchBefore(t, d)[i] = Cut(t, m, k)
    BY <1>1, <1>3, <2>3, StretchIs DEF k
  <2>5. Cut(t, m, k) = Add(Cut(s, m, n), c)
    BY <2>3, CutAdd DEF t, k
  <2> QED BY <1>1, <1>2, <1>5, <2>2, <2>4, <2>5 DEF t, i
<1> QED BY <1>4, <1>5

\* Where a token ends: at a delimiter, or at the end of a text that does not end
\* with one; kept are those whose token is not left out.
DelimsIn(s, d) == {i \in 1 .. Len(s) : s[i] = d}

\* The positions whose stretch is answered.
Unskipped(s, d, skip, U) == {i \in U : skip => StretchBefore(s, d)[i] # <<>>}

\* What the loop has answered so far.
Read(s, d, skip) == IF skip THEN NonEmpty(ReadLines(s, d).done) ELSE ReadLines(s, d).done

\* The loop of split has read the stretches in order.
LinesListed(s, d, skip) ==
  /\ ReadLines(s, d).item = StretchBefore(s, d)[Len(s) + 1]
  /\ Listed(Read(s, d, skip), Unskipped(s, d, skip, DelimsIn(s, d)), StretchBefore(s, d))

\* It is a sequence of texts.
LEMMA ReadInto == ASSUME NEW C, NEW d, NEW s \in Seq(C), NEW skip \in BOOLEAN PROVE Read(s, d, skip) \in Seq(Seq(C))
<1>1. ReadLines(s, d).done \in Seq(Seq(C))
  BY ReadsOn
<1>2. NonEmpty(ReadLines(s, d).done) \in Seq(Seq(C))
  BY <1>1, NonEmptyOn
<1> QED BY <1>1, <1>2 DEF Read

\* One more character keeps that so.
LEMMA LinesListedOn ==
  ASSUME NEW C, NEW d, NEW s \in Seq(C), NEW c \in C, NEW skip \in BOOLEAN, LinesListed(s, d, skip)
  PROVE  LinesListed(Add(s, c), d, skip)
<1> DEFINE t == Add(s, c)
           n == Len(s)
           item == ReadLines(s, d).item
           v == Read(s, d, skip)
           K == Unskipped(s, d, skip, DelimsIn(s, d))
           f == StretchBefore(s, d)
           g == StretchBefore(t, d)
<1>1. n \in Nat /\ t \in Seq(C) /\ Len(t) = n + 1 /\ t[n + 1] = c /\ \A j \in 1 .. n : t[j] = s[j]
  BY AddElements DEF IsAdd
<1>2. item = f[n + 1] /\ Listed(v, K, f)
  BY DEF LinesListed
<1>3. /\ \A i \in 1 .. n + 1 : g[i] = f[i]
      /\ g[n + 2] = IF c = d THEN <<>> ELSE Add(f[n + 1], c)
  BY <1>1, StretchesOn
<1>4. /\ ReadLines(s, d).done \in Seq(Seq(C)) /\ item \in Seq(C)
      /\ c = d => ReadLines(t, d).done = Add(ReadLines(s, d).done, item) /\ ReadLines(t, d).item = <<>>
      /\ c # d => ReadLines(t, d).done = ReadLines(s, d).done /\ ReadLines(t, d).item = Add(item, c)
  BY ReadsOn
<1>5. ReadLines(t, d).item = g[Len(t) + 1]
  <2>1. Len(t) + 1 = n + 2
    BY <1>1
  <2> HIDE DEF t, n, item, f, g
  <2> QED BY <1>2, <1>3, <1>4, <2>1
<1>6. \A i : i \in K <=> i \in 1 .. n /\ s[i] = d /\ (skip => f[i] # <<>>)
  BY DEF Unskipped, DelimsIn
<1>7. \A i : i \in Unskipped(t, d, skip, DelimsIn(t, d)) <=> i \in 1 .. n + 1 /\ t[i] = d /\ (skip => g[i] # <<>>)
  <2> HIDE DEF t, n
  <2> QED BY <1>1 DEF Unskipped, DelimsIn
<1>8. v \in Seq(Seq(C))
  BY ReadInto
<1> HIDE DEF t, n, K, f, g
<1>9. Listed(v, K, g)
  <2>1. \A k \in K : g[k] = f[k]
    BY <1>1, <1>3, <1>6
  <2> HIDE DEF v
  <2> QED BY <1>2, <2>1, ListsSame
<1>10. CASE c # d \/ (skip /\ item = <<>>)
  <2>1. Unskipped(t, d, skip, DelimsIn(t, d)) = K
    <3>1. \A i : i \in Unskipped(t, d, skip, DelimsIn(t, d)) <=> i \in K
      <4>1. n + 1 \notin Unskipped(t, d, skip, DelimsIn(t, d))
        BY <1>1, <1>2, <1>3, <1>7, <1>10
      <4> QED BY <1>1, <1>3, <1>6, <1>7, <4>1
    <3> QED BY <3>1, Zenon
  <2>2. Read(t, d, skip) = v
    <3>1. CASE c # d
      BY <1>4, <3>1 DEF Read
    <3>2. CASE c = d
      <4> HIDE DEF item
      <4>1. NonEmpty(Add(ReadLines(s, d).done, item)) = NonEmpty(ReadLines(s, d).done)
        BY <1>4, <1>10, <3>2, NonEmptyOn
      <4> QED BY <1>4, <1>10, <3>2, <4>1 DEF Read
    <3> QED BY <3>1, <3>2
  <2> QED BY <1>5, <1>9, <2>1, <2>2 DEF LinesListed, t, g
<1>11. CASE c = d /\ ~(skip /\ item = <<>>)
  <2>1. Unskipped(t, d, skip, DelimsIn(t, d)) = K \union {n + 1}
    <3>1. \A i : i \in Unskipped(t, d, skip, DelimsIn(t, d)) <=> i \in K \/ i = n + 1
      <4>1. n + 1 \in Unskipped(t, d, skip, DelimsIn(t, d))
        BY <1>1, <1>2, <1>3, <1>7, <1>11
      <4>2. \A i : i \in 1 .. n + 1 <=> i \in 1 .. n \/ i = n + 1
        BY <1>1
      <4>3. \A i \in 1 .. n : t[i] = s[i] /\ g[i] = f[i]
        BY <1>1, <1>3
      <4>4. n + 1 \notin 1 .. n
        BY <1>1
      <4> QED BY <1>6, <1>7, <4>1, <4>2, <4>3, <4>4, Zenon
    <3> QED BY <3>1, Zenon
  <2>2. Read(t, d, skip) = Add(v, item)
    <3> HIDE DEF item
    <3>1. NonEmpty(Add(ReadLines(s, d).done, item)) =
             IF item = <<>> THEN NonEmpty(ReadLines(s, d).done) ELSE Add(NonEmpty(ReadLines(s, d).done), item)
      BY <1>4, NonEmptyOn
    <3> QED BY <1>4, <1>11, <3>1 DEF Read
  <2>3. Listed(Add(v, item), K \union {n + 1}, g)
    <3>1. K \in SUBSET Nat /\ n + 1 \in Nat /\ \A k \in K : k < n + 1
      BY <1>1, <1>6
    <3>2. g[n + 1] = item
      BY <1>1, <1>2, <1>3
    <3> DEFINE m == n + 1
               X == Seq(C)
    <3>3. m \in Nat /\ (\A k \in K : k < m) /\ g[m] = item /\ item \in X /\ v \in Seq(X)
      BY <1>4, <1>8, <3>1, <3>2
    <3> HIDE DEF m, X, v, item
    <3>4. Listed(Add(v, item), K \union {m}, g)
      BY <1>9, <3>1, <3>3, ListsMore
    <3> QED BY <3>4 DEF m
  <2> QED BY <1>5, <2>1, <2>2, <2>3 DEF LinesListed, t, g
<1> QED BY <1>10, <1>11

\* So it is for every text.
LEMMA LinesAreListed ==
  ASSUME NEW C, NEW d, NEW s \in Seq(C), NEW skip \in BOOLEAN
  PROVE  LinesListed(s, d, skip)
<1> DEFINE U == {u \in Seq(C) : LinesListed(u, d, skip)}
<1>1. <<>> \in U
  <2> DEFINE z == <<>>
  <2>1. z \in Seq(C) /\ Len(z) = 0 /\ 1 .. Len(z) = {}
    OBVIOUS
  <2>2. ReadLines(z, d).done = z /\ ReadLines(z, d).item = z
    BY ReadsNothing
  <2>3. Read(z, d, skip) = z
    BY <2>1, <2>2, NonEmptyOn DEF Read
  <2>4. StretchBefore(z, d)[Len(z) + 1] = z
    BY DEF StretchBefore, Cut
  <2>5. Unskipped(z, d, skip, DelimsIn(z, d)) = {}
    BY <2>1 DEF Unskipped, DelimsIn
  <2>6. Listed(z, {}, StretchBefore(z, d))
    BY ListsNone
  <2> HIDE DEF z
  <2>7. LinesListed(z, d, skip)
    BY <2>2, <2>3, <2>4, <2>5, <2>6 DEF LinesListed
  <2> QED BY <2>1, <2>7 DEF z
<1>2. ASSUME NEW u \in Seq(C), NEW c \in C, u \in U PROVE Add(u, c) \in U
  <2>1. LinesListed(u, d, skip) /\ Add(u, c) \in Seq(C)
    BY <1>2, AddIs
  <2>2. LinesListed(Add(u, c), d, skip)
    BY <2>1, LinesListedOn
  <2> QED BY <2>1, <2>2
<1>3. Seq(C) \subseteq U
  <2> HIDE DEF U
  <2> QED BY <1>1, <1>2, HoldsOfTexts
<1> QED BY <1>3

\* Where the stretches end that split answers, also the last one if it is not empty.
TokenEnds(s, d) == {i \in 1 .. Len(s) + 1 : IF i <= Len(s) THEN s[i] = d ELSE s # <<>> /\ Last(s) # d}

\* Behind the last delimiter there is nothing exactly if the text ends with it.
LEMMA LastStretch ==
  ASSUME NEW C, NEW d, NEW s \in Seq(C)
  PROVE  StretchBefore(s, d)[Len(s) + 1] = <<>> <=> s = <<>> \/ s[Len(s)] = d
<1> DEFINE n == Len(s)
           i == n + 1
<1>1. n \in Nat /\ n \in 0 .. n /\ (s = <<>> <=> n = 0) /\ i = n + 1
  OBVIOUS
<1> HIDE DEF n, i
<1>2. PICK m : StretchAt(s, d, i, n, m)
  BY <1>1, StretchSays DEF n
<1>3. m \in 0 .. n /\ (m # 0 => s[m] = d) /\ (\A j \in m + 1 .. n : s[j] # d) /\ StretchBefore(s, d)[i] = Cut(s, m, n)
  BY <1>2 DEF StretchAt, LastDelim
<1>4. Cut(s, m, n) \in Seq(C) /\ Len(Cut(s, m, n)) = n - m
  <2>1. m \in Nat /\ m <= n /\ n <= Len(s)
    BY <1>1, <1>3 DEF n
  <2>2. IsCut(Cut(s, m, n), C, s, m, n)
    BY <1>1, <2>1, CutIs
  <2> QED BY <2>2 DEF IsCut
<1>5. Cut(s, m, n) = <<>> <=> m = n
  <2> DEFINE u == Cut(s, m, n)
  <2>1. u \in Seq(C) /\ Len(u) = n - m
    BY <1>4
  <2> HIDE DEF u
  <2>2. u = <<>> <=> n - m = 0
    BY <2>1
  <2> QED BY <1>1, <1>3, <2>2 DEF u
<1>6. m = n <=> n = 0 \/ s[n] = d
  BY <1>1, <1>3
<1> QED BY <1>1, <1>3, <1>5, <1>6 DEF n, i

\* split answers the stretches that are not skipped, in order.
LEMMA TokensListed ==
  ASSUME NEW C, NEW d, NEW s \in Seq(C), NEW skip \in BOOLEAN
  PROVE  /\ Listed(Tokens(s, d, skip), Unskipped(s, d, skip, TokenEnds(s, d)), StretchBefore(s, d))
         /\ Tokens(s, d, skip) \in Seq(Seq(C))
<1> DEFINE n == Len(s)
           item == ReadLines(s, d).item
           done == ReadLines(s, d).done
           v == Read(s, d, skip)
           K == Unskipped(s, d, skip, DelimsIn(s, d))
           L == Unskipped(s, d, skip, TokenEnds(s, d))
           f == StretchBefore(s, d)
<1>1. n \in Nat /\ (s = <<>> <=> n = 0) /\ (n # 0 => Last(s) = s[n])
  BY DEF Last
<1>2. item = f[n + 1] /\ Listed(v, K, f) /\ v \in Seq(Seq(C))
  BY LinesAreListed, ReadInto DEF LinesListed
<1>3. item = <<>> <=> n = 0 \/ s[n] = d
  BY <1>1, <1>2, LastStretch
<1>4. \A i : i \in K <=> i \in 1 .. n /\ s[i] = d /\ (skip => f[i] # <<>>)
  BY DEF Unskipped, DelimsIn
<1>5. \A i : i \in L <=> /\ i \in 1 .. n + 1
                         /\ IF i <= n THEN s[i] = d ELSE s # <<>> /\ Last(s) # d
                         /\ skip => f[i] # <<>>
  BY DEF Unskipped, TokenEnds
<1>6. done \in Seq(Seq(C)) /\ item \in Seq(C)
  BY ReadsOn
<1>7. Tokens(s, d, skip) = IF item = <<>> THEN v ELSE Add(v, item)
  <2>1. Split(s, d) = IF item = <<>> THEN done ELSE Add(done, item)
    BY SplitIs
  <2>2. NonEmpty(Split(s, d)) = NonEmpty(Add(done, item))
    BY SplitIs
  <2> HIDE DEF item, done
  <2>3. NonEmpty(Add(done, item)) = IF item = <<>> THEN NonEmpty(done) ELSE Add(NonEmpty(done), item)
    BY <1>6, NonEmptyOn
  <2>4. v = IF skip THEN NonEmpty(done) ELSE done
    BY DEF Read, done
  <2>5. Tokens(s, d, skip) = IF skip THEN NonEmpty(Split(s, d)) ELSE Split(s, d)
    BY DEF Tokens
  <2> QED BY <2>1, <2>2, <2>3, <2>4, <2>5
<1> HIDE DEF n, item, done, v, K, L, f
<1>8. CASE item = <<>>
  <2>1. \A i : i \in L <=> i \in K
    BY <1>1, <1>3, <1>4, <1>5, <1>8
  <2>2. L = K
    BY <2>1, Zenon
  <2> QED BY <1>2, <1>7, <1>8, <2>2 DEF L, f
<1>9. CASE item # <<>>
  <2> DEFINE m == n + 1
             X == Seq(C)
  <2>1. \A i : i \in L <=> i \in K \/ i = m
    <3>1. m \in L
      BY <1>1, <1>2, <1>3, <1>5, <1>9
    <3>2. \A i : i \in 1 .. n + 1 <=> i \in 1 .. n \/ i = m
      BY <1>1
    <3>3. \A i \in 1 .. n : i <= n
      BY <1>1
    <3> HIDE DEF m
    <3> QED BY <1>4, <1>5, <3>1, <3>2, <3>3, Zenon
  <2>2. L = K \union {m}
    BY <2>1, Zenon
  <2>3. K \in SUBSET Nat /\ m \in Nat /\ \A k \in K : k < m
    BY <1>1, <1>4
  <2>4. f[m] = item /\ item \in X /\ v \in Seq(X)
    BY <1>2, <1>6
  <2> HIDE DEF m, X
  <2>5. Listed(Add(v, item), K \union {m}, f)
    BY <1>2, <2>3, <2>4, ListsMore
  <2>6. Add(v, item) \in Seq(X)
    BY <2>4, AddIs
  <2> QED BY <1>7, <1>9, <2>2, <2>5, <2>6 DEF L, f, X
<1> QED BY <1>8, <1>9

----------------------------------------------------------------------------
(* What split answers of a text that was put together.                       *)

\* All lines of s, the one behind the last delimiter, too.
Lines(s, d) == Add(ReadLines(s, d).done, ReadLines(s, d).item)

\* Lines are texts.
LEMMA LinesInto ==
  ASSUME NEW C, NEW d, NEW s \in Seq(C)
  PROVE  Lines(s, d) \in Seq(Seq(C)) /\ NonEmpty(Lines(s, d)) \in Seq(Seq(C))
<1>1. ReadLines(s, d).done \in Seq(Seq(C)) /\ ReadLines(s, d).item \in Seq(C)
  BY ReadsOn
<1> DEFINE X == Seq(C)
           done == ReadLines(s, d).done
           item == ReadLines(s, d).item
<1>2. done \in Seq(X) /\ item \in X
  BY <1>1
<1> HIDE DEF X, done, item
<1>3. Add(done, item) \in Seq(X)
  BY <1>2, AddIs
<1> DEFINE v == Add(done, item)
<1> HIDE DEF v
<1>4. NonEmpty(v) \in Seq(X)
  BY <1>3, NonEmptyOn DEF v
<1> QED BY <1>3, <1>4 DEF Lines, v, done, item, X

\* Reading goes on behind a delimiter as at the beginning.
ReadsBehindAt(s, t, d) ==
  /\ ReadLines(Cat(Add(s, d), t), d).done = Cat(Lines(s, d), ReadLines(t, d).done)
  /\ ReadLines(Cat(Add(s, d), t), d).item = ReadLines(t, d).item

\* Reading behind a delimiter is what reading from the beginning is.
LEMMA ReadsBehind ==
  ASSUME NEW C, NEW d \in C, NEW s \in Seq(C), NEW t \in Seq(C)
  PROVE  ReadsBehindAt(s, t, d)
<1> DEFINE U == {u \in Seq(C) : ReadsBehindAt(s, u, d)}
           first == Add(s, d)
           X == Seq(C)
           z == <<>>
<1>1. /\ first \in Seq(C) /\ Lines(s, d) \in Seq(X)
      /\ ReadLines(first, d).done = Lines(s, d) /\ ReadLines(first, d).item = <<>>
  <2>1. first \in Seq(C)
    BY AddIs
  <2>2. Lines(s, d) \in Seq(X)
    BY LinesInto
  <2>3. ReadLines(first, d).done = Lines(s, d) /\ ReadLines(first, d).item = <<>>
    BY ReadsOn DEF Lines
  <2> QED BY <2>1, <2>2, <2>3
<1>2. z \in Seq(C) /\ ReadLines(z, d).done = z /\ ReadLines(z, d).item = z /\ z = <<>>
  BY ReadsNothing
<1> HIDE DEF first, X, z
<1>3. z \in U
  <2>1. Cat(first, z) = first /\ Cat(Lines(s, d), z) = Lines(s, d)
    BY <1>1, <1>2, AddIs
  <2>2. ReadsBehindAt(s, z, d)
    BY <1>1, <1>2, <2>1 DEF ReadsBehindAt, first
  <2> QED BY <1>2, <2>2
<1>4. ASSUME NEW u \in Seq(C), NEW c \in C, u \in U PROVE Add(u, c) \in U
  <2> DEFINE all == Cat(first, u)
             new == ReadLines(Add(all, c), d)
             done == ReadLines(u, d).done
             item == ReadLines(u, d).item
             next == ReadLines(Add(u, c), d)
  <2>1. Cat(first, Add(u, c)) = Add(all, c) /\ all \in Seq(C) /\ Add(u, c) \in Seq(C)
    <3>1. Add(u, c) \in Seq(C)
      BY AddIs
    <3>2. Cat(first, Add(u, c)) = Add(all, c) /\ all \in Seq(C)
      BY <1>1, CatIs
    <3> QED BY <3>1, <3>2
  <2>2. ReadLines(all, d).done = Cat(Lines(s, d), done) /\ ReadLines(all, d).item = item
    BY <1>4 DEF ReadsBehindAt, first
  <2>3. /\ done \in Seq(X) /\ item \in X
        /\ c = d => next.done = Add(done, item) /\ next.item = <<>>
        /\ c # d => next.done = done /\ next.item = Add(item, c)
    BY ReadsOn DEF X
  <2> HIDE DEF all
  <2>4. /\ c = d => new.done = Add(Cat(Lines(s, d), done), item) /\ new.item = <<>>
        /\ c # d => new.done = Cat(Lines(s, d), done) /\ new.item = Add(item, c)
    BY <2>1, <2>2, ReadsOn
  <2> HIDE DEF new, done, item, next
  <2>5. Cat(Lines(s, d), Add(done, item)) = Add(Cat(Lines(s, d), done), item)
    BY <1>1, <2>3, CatIs
  <2>6. new.done = Cat(Lines(s, d), next.done) /\ new.item = next.item
    BY <2>3, <2>4, <2>5
  <2>7. ReadsBehindAt(s, Add(u, c), d)
    BY <2>1, <2>6 DEF ReadsBehindAt, first, new, next
  <2> QED BY <2>1, <2>7
<1>5. Seq(C) \subseteq U
  <2> HIDE DEF U
  <2> QED BY <1>2, <1>3, <1>4, HoldsOfTexts
<1> QED BY <1>5

\* The lines of a text, a delimiter and a text are those of the one and then of the
\* other.
LEMMA LinesBehind ==
  ASSUME NEW C, NEW d \in C, NEW s \in Seq(C), NEW t \in Seq(C)
  PROVE  Lines(Cat(Add(s, d), t), d) = Cat(Lines(s, d), Lines(t, d))
<1> DEFINE X == Seq(C)
           all == Cat(Add(s, d), t)
           done == ReadLines(t, d).done
           item == ReadLines(t, d).item
<1>1. ReadLines(all, d).done = Cat(Lines(s, d), done) /\ ReadLines(all, d).item = item
  BY ReadsBehind DEF ReadsBehindAt
<1>2. Lines(s, d) \in Seq(X) /\ done \in Seq(X) /\ item \in X
  BY LinesInto, ReadsOn
<1> HIDE DEF X, all, done, item
<1>3. Cat(Lines(s, d), Add(done, item)) = Add(Cat(Lines(s, d), done), item)
  BY <1>2, CatIs
<1> QED BY <1>1, <1>3 DEF Lines, all, done, item

\* The tokens that are not empty, of two sequences of tokens.
LEMMA NonEmptyCat ==
  ASSUME NEW X, NEW v \in Seq(X), NEW w \in Seq(X)
  PROVE  NonEmpty(Cat(v, w)) = Cat(NonEmpty(v), NonEmpty(w))
<1> DEFINE U == {u \in Seq(X) : NonEmpty(Cat(v, u)) = Cat(NonEmpty(v), NonEmpty(u))}
           z == <<>>
<1>0. z \in Seq(X) /\ z = <<>>
  OBVIOUS
<1>1. NonEmpty(v) \in Seq(X) /\ NonEmpty(z) = z
  BY NonEmptyOn
<1> HIDE DEF z
<1>2. z \in U
  BY <1>0, <1>1, AddIs
<1>3. ASSUME NEW u \in Seq(X), NEW x \in X, u \in U PROVE Add(u, x) \in U
  <2>1. Cat(v, Add(u, x)) = Add(Cat(v, u), x) /\ Cat(v, u) \in Seq(X) /\ Add(u, x) \in Seq(X)
    <3>1. Add(u, x) \in Seq(X)
      BY AddIs
    <3>2. Cat(v, Add(u, x)) = Add(Cat(v, u), x) /\ Cat(v, u) \in Seq(X)
      BY CatIs
    <3> QED BY <3>1, <3>2
  <2> DEFINE all == Cat(v, u)
  <2>2. NonEmpty(all) = Cat(NonEmpty(v), NonEmpty(u)) /\ NonEmpty(u) \in Seq(X)
    BY <1>3, NonEmptyOn
  <2> HIDE DEF all
  <2>3. /\ NonEmpty(Add(all, x)) = IF x = <<>> THEN NonEmpty(all) ELSE Add(NonEmpty(all), x)
        /\ NonEmpty(Add(u, x)) = IF x = <<>> THEN NonEmpty(u) ELSE Add(NonEmpty(u), x)
    BY <2>1, NonEmptyOn DEF all
  <2>4. Cat(NonEmpty(v), Add(NonEmpty(u), x)) = Add(Cat(NonEmpty(v), NonEmpty(u)), x)
    BY <1>1, <2>2, CatIs
  <2>5. NonEmpty(Add(all, x)) = Cat(NonEmpty(v), NonEmpty(Add(u, x)))
    BY <2>2, <2>3, <2>4
  <2> QED BY <2>1, <2>5 DEF all
<1>4. Seq(X) \subseteq U
  <2> HIDE DEF U
  <2> QED BY <1>0, <1>2, <1>3, HoldsOfTexts
<1> QED BY <1>4

\* The names of a text: its tokens that are not empty.
LEMMA SplitLines ==
  ASSUME NEW C, NEW d, NEW s \in Seq(C)
  PROVE  NonEmpty(Split(s, d)) = NonEmpty(Lines(s, d)) /\ NonEmpty(Split(s, d)) \in Seq(Seq(C))
BY SplitIs, Zenon DEF Lines

\* Nothing has no tokens.
LEMMA SplitNothing == ASSUME NEW d PROVE Split(<<>>, d) = <<>>
<1>1. ReadLines(<<>>, d).done = <<>> /\ ReadLines(<<>>, d).item = <<>>
  BY ReadsNothing
<1> QED BY <1>1, Zenon DEF Split

\* What holds of lines holds of the tokens that are not empty; a delimiter at the end
\* adds none.
LEMMA NamesBehind ==
  ASSUME NEW C, NEW d \in C, NEW s \in Seq(C), NEW t \in Seq(C)
  PROVE  /\ NonEmpty(Split(Cat(Add(s, d), t), d)) = Cat(NonEmpty(Split(s, d)), NonEmpty(Split(t, d)))
         /\ NonEmpty(Split(Add(s, d), d)) = NonEmpty(Split(s, d))
<1> DEFINE X == Seq(C)
           all == Cat(Add(s, d), t)
           f == Add(s, d)
<1>1. all \in Seq(C) /\ f \in Seq(C)
  BY AddIs, CatIs
<1>2. Lines(all, d) = Cat(Lines(s, d), Lines(t, d))
  BY LinesBehind
<1>3. Lines(s, d) \in Seq(X) /\ Lines(t, d) \in Seq(X)
  BY LinesInto
<1>a. ReadLines(f, d).done = Lines(s, d) /\ ReadLines(f, d).item = <<>> /\ <<>> \in X
  BY ReadsOn DEF Lines
<1> HIDE DEF X, all, f
<1>4. NonEmpty(Cat(Lines(s, d), Lines(t, d))) = Cat(NonEmpty(Lines(s, d)), NonEmpty(Lines(t, d)))
  BY <1>3, NonEmptyCat
<1>5. /\ NonEmpty(Split(all, d)) = NonEmpty(Lines(all, d)) /\ NonEmpty(Split(f, d)) = NonEmpty(Lines(f, d))
      /\ NonEmpty(Split(s, d)) = NonEmpty(Lines(s, d)) /\ NonEmpty(Split(t, d)) = NonEmpty(Lines(t, d))
  BY <1>1, SplitLines
<1> DEFINE z == <<>>
           v == Lines(s, d)
<1>6. Lines(f, d) = Add(v, z) /\ z \in X /\ v \in Seq(X) /\ z = <<>>
  BY <1>3, <1>a, Zenon DEF Lines
<1> HIDE DEF z, v
<1>7. NonEmpty(Add(v, z)) = NonEmpty(v)
  BY <1>6, NonEmptyOn
<1> QED BY <1>2, <1>4, <1>5, <1>6, <1>7 DEF all, f, v

\* A text that has no names has nothing but delimiters.
LEMMA NoNames ==
  ASSUME NEW C, NEW d \in C, NEW s \in Seq(C), NonEmpty(Split(s, d)) = <<>>
  PROVE  Range(s) \subseteq {d}
<1> DEFINE Only(u) == \A i \in 1 .. Len(u) : u[i] = d
           U == {u \in Seq(C) : NonEmpty(Lines(u, d)) = <<>> => Only(u)}
           X == Seq(C)
           z == <<>>
<1>1. z \in Seq(C) /\ z = <<>> /\ Only(z)
  OBVIOUS
<1> HIDE DEF z
<1>2. ASSUME NEW u \in Seq(C), NEW c \in C, u \in U PROVE Add(u, c) \in U
  <2> DEFINE done == ReadLines(u, d).done
             item == ReadLines(u, d).item
             next == ReadLines(Add(u, c), d)
  <2>1. /\ done \in Seq(X) /\ item \in X
        /\ c = d => next.done = Add(done, item) /\ next.item = <<>>
        /\ c # d => next.done = done /\ next.item = Add(item, c)
    BY ReadsOn
  <2>2. Add(item, c) \in X /\ Add(item, c) # <<>>
    BY <2>1, AddIs
  <2>3. Lines(u, d) = Add(done, item) /\ Lines(Add(u, c), d) = Add(next.done, next.item)
    BY Zenon DEF Lines
  <2> HIDE DEF X, done, item, next
  <2>4. CASE c # d
    <3>1. NonEmpty(done) \in Seq(X)
      BY <2>1, NonEmptyOn
    <3> DEFINE i == Add(item, c)
    <3> HIDE DEF i
    <3>2. NonEmpty(Add(done, i)) = Add(NonEmpty(done), i)
      BY <2>1, <2>2, NonEmptyOn DEF i
    <3>3. Add(NonEmpty(done), i) # <<>>
      <4> DEFINE e == NonEmpty(done)
      <4>1. e \in Seq(X) /\ i \in X
        BY <2>2, <3>1 DEF i
      <4> HIDE DEF e
      <4>2. Add(e, i) # <<>>
        BY <4>1, AddIs
      <4> QED BY <4>2 DEF e
    <3>4. NonEmpty(Lines(Add(u, c), d)) # <<>>
      BY <2>1, <2>3, <2>4, <3>2, <3>3 DEF i
    <3>5. Add(u, c) \in Seq(C)
      BY AddIs
    <3> QED BY <3>4, <3>5
  <2>5. CASE c = d
    <3>1. SUFFICES ASSUME NonEmpty(Lines(Add(u, c), d)) = <<>> PROVE Only(Add(u, c))
      BY AddIs
    <3> DEFINE v == Add(done, item)
    <3>2. v \in Seq(X) /\ z \in X
      BY <1>1, <2>1, AddIs DEF X
    <3> HIDE DEF v
    <3>3. NonEmpty(Add(v, z)) = NonEmpty(v)
      BY <1>1, <3>2, NonEmptyOn
    <3>4. NonEmpty(v) = <<>>
      BY <1>1, <2>1, <2>3, <2>5, <3>1, <3>3 DEF v
    <3>5. Only(u)
      BY <1>2, <2>3, <3>4 DEF v
    <3> DEFINE n == Len(u)
    <3>6. n \in Nat /\ IsAdd(Add(u, c), u, n, c)
      BY AddElements
    <3> HIDE DEF n
    <3>7. \A i \in 1 .. n + 1 : i \in 1 .. n \/ i = n + 1
      BY <3>6
    <3> QED BY <2>5, <3>5, <3>6, <3>7 DEF IsAdd, n
  <2> QED BY <2>4, <2>5
<1>3. Seq(C) \subseteq U
  <2>1. z \in U
    BY <1>1
  <2> HIDE DEF U
  <2> QED BY <1>1, <1>2, <2>1, HoldsOfTexts
<1>4. Only(s)
  BY <1>3, SplitLines
<1> QED BY <1>4 DEF Range

\* The tokens of a text without another character are without it, too; and none
\* has the delimiter.
LEMMA TokensOver ==
  ASSUME NEW C, NEW d, NEW s \in Seq(C), NEW N, N = C \ {d}
  PROVE  /\ ReadLines(s, d).done \in Seq(Seq(N)) /\ ReadLines(s, d).item \in Seq(N)
         /\ Split(s, d) \in Seq(Seq(N))
<1> DEFINE Over(u) == ReadLines(u, d).done \in Seq(Seq(N)) /\ ReadLines(u, d).item \in Seq(N)
           U == {u \in Seq(C) : Over(u)}
           z == <<>>
           X == Seq(N)
<1>1. z \in Seq(C) /\ z = <<>> /\ z \in Seq(N) /\ z \in Seq(X)
  OBVIOUS
<1>2. z \in U
  BY <1>1, ReadsNothing
<1> HIDE DEF z
<1>3. ASSUME NEW u \in Seq(C), NEW c \in C, u \in U PROVE Add(u, c) \in U
  <2> DEFINE done == ReadLines(u, d).done
             item == ReadLines(u, d).item
             next == ReadLines(Add(u, c), d)
  <2>1. /\ c = d => next.done = Add(done, item) /\ next.item = <<>>
        /\ c # d => next.done = done /\ next.item = Add(item, c)
    BY ReadsOn
  <2>2. done \in Seq(X) /\ item \in X
    BY <1>3
  <2>a. c # d => c \in N
    OBVIOUS
  <2> HIDE DEF done, item, next
  <2>3. c # d => Add(item, c) \in X
    BY <2>2, <2>a, AddIs
  <2>4. item \in Seq(N) /\ z \in X
    BY <1>1, <2>2
  <2> HIDE DEF X
  <2>5. Add(done, item) \in Seq(X)
    BY <2>2, AddIs
  <2>6. next.done \in Seq(X) /\ next.item \in X
    BY <1>1, <2>1, <2>2, <2>3, <2>4, <2>5
  <2> QED BY <2>6, AddIs DEF X, next
<1>4. Seq(C) \subseteq U
  <2> HIDE DEF U
  <2> QED BY <1>1, <1>2, <1>3, HoldsOfTexts
<1>5. Over(s)
  BY <1>4
<1>6. Split(s, d) \in Seq(X)
  <2> DEFINE done == ReadLines(s, d).done
             item == ReadLines(s, d).item
  <2>1. done \in Seq(X) /\ item \in X
    BY <1>5
  <2>2. Split(s, d) = IF item = <<>> THEN done ELSE Add(done, item)
    BY SplitIs
  <2> HIDE DEF done, item, X
  <2> QED BY <2>1, <2>2, AddIs
<1> QED BY <1>5, <1>6

\* A text without the delimiter is one line.
LEMMA OneLine ==
  ASSUME NEW C, NEW d, d \notin C, NEW s \in Seq(C)
  PROVE  /\ ReadLines(s, d).done = <<>> /\ ReadLines(s, d).item = s
         /\ Split(s, d) = IF s = <<>> THEN <<>> ELSE <<s>>
         /\ NonEmpty(Split(s, d)) = NonEmpty(<<s>>)
<1> DEFINE One(u) == ReadLines(u, d).done = <<>> /\ ReadLines(u, d).item = u
           U == {u \in Seq(C) : One(u)}
           z == <<>>
<1>1. z \in Seq(C) /\ z = <<>> /\ z \in U
  BY ReadsNothing
<1> HIDE DEF z
<1>2. ASSUME NEW u \in Seq(C), NEW c \in C, u \in U PROVE Add(u, c) \in U
  <2>1. ReadLines(Add(u, c), d).done = ReadLines(u, d).done /\ ReadLines(Add(u, c), d).item = Add(ReadLines(u, d).item, c)
    BY ReadsOn
  <2>2. Add(u, c) \in Seq(C)
    BY AddIs
  <2> QED BY <1>2, <2>1, <2>2
<1>3. Seq(C) \subseteq U
  <2> HIDE DEF U
  <2> QED BY <1>1, <1>2, HoldsOfTexts
<1>4. ReadLines(s, d).done = <<>> /\ ReadLines(s, d).item = s
  BY <1>3
<1>5. Add(<<>>, s) = <<s>>
  BY DEF Add
<1>6. Split(s, d) = IF s = <<>> THEN <<>> ELSE <<s>>
  BY <1>4, <1>5, SplitIs
<1>7. NonEmpty(Split(s, d)) = NonEmpty(<<s>>)
  BY <1>4, <1>5, SplitIs
<1> QED BY <1>4, <1>6, <1>7

\* A text that does not begin with the delimiter begins with a token that is not empty.
Begun(s, d) ==
  IF ReadLines(s, d).done = <<>> THEN ReadLines(s, d).item # <<>> ELSE ReadLines(s, d).done[1] # <<>>

\* Both ends of a sequence with one element more.
LEMMA ElementsOfAdd ==
  ASSUME NEW X, NEW v \in Seq(X), NEW x \in X
  PROVE  /\ Add(v, x)[1] = IF v = <<>> THEN x ELSE v[1]
         /\ Add(v, x) # <<>> /\ Last(Add(v, x)) = x /\ Front(Add(v, x)) = v
         /\ Len(Add(v, x)) = Len(v) + 1
<1> DEFINE n == Len(v)
           w == Add(v, x)
<1>1. n \in Nat /\ w \in Seq(X) /\ IsAdd(w, v, n, x) /\ (v = <<>> <=> n = 0)
  BY AddElements, EmptySeq
<1>2. v \in Seq(X) /\ DOMAIN v = 1 .. n
  OBVIOUS
<1> HIDE DEF n, w
<1>3. Len(w) = n + 1 /\ w[n + 1] = x /\ \A j \in 1 .. n : w[j] = v[j]
  BY <1>1 DEF IsAdd
<1>4. w[1] = IF v = <<>> THEN x ELSE v[1]
  <2>1. n # 0 => 1 \in 1 .. n
    BY <1>1
  <2>2. n = 0 => n + 1 = 1
    BY <1>1
  <2> QED BY <1>1, <1>3, <2>1, <2>2
<1>5. w # <<>> /\ Last(w) = x
  BY <1>1, <1>3 DEF Last
<1>6. Front(w) = v
  <2>1. Front(w) = SubSeq(w, 1, n)
    <3>1. Len(w) - 1 = n
      BY <1>1, <1>3
    <3> QED BY <3>1, Zenon DEF Front
  <2>2. \A j \in 1 .. n : j \in 1 .. n + 1
    BY <1>1
  <2>3. SubSeq(w, 1, n) \in Seq(X) /\ Len(SubSeq(w, 1, n)) = n /\ \A j \in 1 .. n : SubSeq(w, 1, n)[j] = w[j]
    <3>1. 1 \in 1 .. Len(w) + 1 /\ n \in 1 - 1 .. Len(w) /\ n - 1 + 1 = n
      BY <1>1, <1>3
    <3>2. \A j \in 1 .. n : 1 + j - 1 = j
      BY <1>1
    <3> QED BY <1>1, <3>1, <3>2, SubSeqProperties
  <2> DEFINE u == SubSeq(w, 1, n)
  <2>4. u \in Seq(X) /\ Len(u) = Len(v) /\ \A j \in 1 .. Len(u) : u[j] = v[j]
    BY <1>3, <2>3 DEF n
  <2> HIDE DEF u
  <2>5. u = v
    BY <1>2, <2>4, SeqEqual
  <2> QED BY <2>1, <2>5 DEF u
<1> QED BY <1>3, <1>4, <1>5, <1>6 DEF n, w

\* Reading on keeps the beginning.
LEMMA LinesBegin ==
  ASSUME NEW C, NEW d, NEW s \in Seq(C), s # <<>>, s[1] # d
  PROVE  Begun(s, d)
<1> DEFINE U == {u \in Seq(C) : u # <<>> /\ u[1] # d => Begun(u, d)}
           z == <<>>
           X == Seq(C)
<1>1. z \in Seq(C) /\ z = <<>>
  OBVIOUS
<1> HIDE DEF z
<1>2. z \in U
  BY <1>1
<1>3. ASSUME NEW u \in Seq(C), NEW c \in C, u \in U PROVE Add(u, c) \in U
  <2> DEFINE done == ReadLines(u, d).done
             item == ReadLines(u, d).item
             next == ReadLines(Add(u, c), d)
  <2>1. /\ done \in Seq(X) /\ item \in X
        /\ c = d => next.done = Add(done, item) /\ next.item = <<>>
        /\ c # d => next.done = done /\ next.item = Add(item, c)
    BY ReadsOn
  <2>2. Add(u, c) \in Seq(C) /\ Add(u, c)[1] = IF u = <<>> THEN c ELSE u[1]
    BY AddIs, ElementsOfAdd
  <2>3. Add(item, c) # <<>>
    BY <2>1, ElementsOfAdd
  <2>4. u = <<>> => done = <<>> /\ item = <<>>
    BY ReadsNothing
  <2>5. u # <<>> /\ u[1] # d => IF done = <<>> THEN item # <<>> ELSE done[1] # <<>>
    BY <1>3 DEF Begun
  <2> HIDE DEF done, item, next, X
  <2>6. Add(done, item) # <<>> /\ Add(done, item)[1] = IF done = <<>> THEN item ELSE done[1]
    BY <2>1, ElementsOfAdd
  <2>7. Add(u, c)[1] # d => IF next.done = <<>> THEN next.item # <<>> ELSE next.done[1] # <<>>
    BY <2>1, <2>2, <2>3, <2>4, <2>5, <2>6
  <2> QED BY <2>2, <2>7 DEF Begun, next
<1>4. Seq(C) \subseteq U
  <2> HIDE DEF U
  <2> QED BY <1>1, <1>2, <1>3, HoldsOfTexts
<1> QED BY <1>4

\* So does split, which leaves out at most the last line.
LEMMA FirstToken ==
  ASSUME NEW C, NEW d, NEW s \in Seq(C), s # <<>>, s[1] # d
  PROVE  Split(s, d) # <<>> /\ Split(s, d)[1] # <<>>
<1> DEFINE done == ReadLines(s, d).done
           item == ReadLines(s, d).item
           X == Seq(C)
<1>1. done \in Seq(X) /\ item \in X /\ Split(s, d) = IF item = <<>> THEN done ELSE Add(done, item)
  BY ReadsOn, SplitIs
<1>2. IF done = <<>> THEN item # <<>> ELSE done[1] # <<>>
  BY LinesBegin DEF Begun
<1> HIDE DEF done, item, X
<1>3. Add(done, item) # <<>> /\ Add(done, item)[1] = IF done = <<>> THEN item ELSE done[1]
  BY <1>1, ElementsOfAdd
<1> QED BY <1>1, <1>2, <1>3
=============================================================================
