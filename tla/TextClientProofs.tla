-------------------------- MODULE TextClientProofs --------------------------
(***************************************************************************)
(* For any characters, inputs and patterns: the loop of find_and_replace     *)
(* gives what a scan of the input gives, and ends; split answers the         *)
(* stretches between the delimiters, and join undoes it; and for every path  *)
(* a client can make, its two members agree and its parts give it back.      *)
(***************************************************************************)
EXTENDS TextClient, TextProofs

\* What Find answers, for a pattern that is not empty.
LEMMA FindAnswers ==
  ASSUME NEW s \in Seq(Chars), NEW f \in Seq(Chars), f # <<>>, NEW p \in Nat
  PROVE  \/ /\ Find(s, f, p) = NPos
            /\ \A q \in p .. Len(s) - Len(f) : ~OccursAt(s, f, q)
         \/ /\ Find(s, f, p) \in p .. Len(s) - Len(f)
            /\ OccursAt(s, f, Find(s, f, p))
            /\ \A q \in p .. Find(s, f, p) - 1 : ~OccursAt(s, f, q)
<1> DEFINE at == {q \in p .. Len(s) - Len(f) : OccursAt(s, f, q)}
<1>1. Find(s, f, p) = IF at = {} THEN NPos ELSE CHOOSE q \in at : \A r \in at : q <= r
  BY Zenon DEF Find
<1>2. CASE at = {}
  BY <1>1, <1>2
<1>3. CASE at # {}
  <2>1. \E q \in at : \A r \in at : q <= r
    <3>1. at \in SUBSET Nat
      OBVIOUS
    <3> HIDE DEF at
    <3> QED BY <1>3, <3>1, LeastNumber
  <2>2. Find(s, f, p) \in at /\ \A r \in at : Find(s, f, p) <= r
    <3> HIDE DEF at
    <3>1. Find(s, f, p) = CHOOSE q \in at : \A r \in at : q <= r
      BY <1>1, <1>3
    <3> QED BY <2>1, <3>1
  <2>3. Find(s, f, p) \in p .. Len(s) - Len(f) /\ OccursAt(s, f, Find(s, f, p))
    BY <2>2
  <2>4. \A q \in p .. Find(s, f, p) - 1 : ~OccursAt(s, f, q)
    <3> SUFFICES ASSUME NEW q \in p .. Find(s, f, p) - 1, OccursAt(s, f, q) PROVE FALSE
      OBVIOUS
    <3>1. q \in at
      BY <2>3
    <3> QED BY <2>2, <2>3, <3>1
  <2> QED BY <2>3, <2>4
<1> QED BY <1>2, <1>3

\* The answer is determined by what is found.
LEMMA FindUnique ==
  ASSUME NEW s \in Seq(Chars), NEW f \in Seq(Chars), f # <<>>, NEW p \in Nat,
         NEW q \in p .. Len(s) - Len(f), OccursAt(s, f, q),
         \A r \in p .. q - 1 : ~OccursAt(s, f, r)
  PROVE  Find(s, f, p) = q
<1>1. Len(s) \in Nat /\ Len(f) \in Nat
  OBVIOUS
<1>2. Find(s, f, p) \in p .. Len(s) - Len(f)
  BY FindAnswers
<1>3. OccursAt(s, f, Find(s, f, p)) /\ \A r \in p .. Find(s, f, p) - 1 : ~OccursAt(s, f, r)
  BY <1>1, <1>2, FindAnswers DEF NPos
<1>4. ~(q < Find(s, f, p)) /\ ~(Find(s, f, p) < q)
  BY <1>1, <1>2, <1>3
<1> QED BY <1>1, <1>2, <1>4

\* Finding goes on the same way behind what was put in front of a text.
LEMMA FindBehind ==
  ASSUME NEW s \in Seq(Chars), NEW f \in Seq(Chars), f # <<>>, NEW p \in 0 .. Len(s), NEW done \in Seq(Chars)
  PROVE  Find(done \o SubSeq(s, p + 1, Len(s)), f, Len(done)) =
           IF Find(s, f, p) = NPos THEN NPos ELSE Len(done) + Find(s, f, p) - p
<1> DEFINE t == done \o SubSeq(s, p + 1, Len(s))
           shift == Len(done) - p
<1>1. /\ Len(s) \in Nat /\ Len(f) \in Nat \ {0} /\ Len(done) \in Nat /\ p \in Nat
      /\ t \in Seq(Chars) /\ Len(t) = Len(done) + Len(s) - p
  OBVIOUS
<1>2. \A i \in p + 1 .. Len(s) : t[shift + i] = s[i]
  OBVIOUS
<1>3. ASSUME NEW q \in p .. Len(s) - Len(f)
      PROVE  OccursAt(t, f, shift + q) <=> OccursAt(s, f, q)
  <2>1. /\ SubSeq(s, q + 1, q + Len(f)) \in Seq(Chars) /\ Len(SubSeq(s, q + 1, q + Len(f))) = Len(f)
        /\ \A j \in 1 .. Len(f) : SubSeq(s, q + 1, q + Len(f))[j] = s[q + j]
    BY <1>1
  <2>2. /\ SubSeq(t, shift + q + 1, shift + q + Len(f)) \in Seq(Chars)
        /\ Len(SubSeq(t, shift + q + 1, shift + q + Len(f))) = Len(f)
        /\ \A j \in 1 .. Len(f) : SubSeq(t, shift + q + 1, shift + q + Len(f))[j] = t[shift + q + j]
    <3> HIDE DEF t
    <3> QED BY <1>1
  <2>3. \A j \in 1 .. Len(f) : t[shift + q + j] = s[q + j]
    <3> HIDE DEF t
    <3>1. \A j \in 1 .. Len(f) : q + j \in p + 1 .. Len(s) /\ shift + q + j = shift + (q + j)
      BY <1>1
    <3> QED BY <1>2, <3>1
  <2>4. SubSeq(t, shift + q + 1, shift + q + Len(f)) = SubSeq(s, q + 1, q + Len(f))
    <3> HIDE DEF t, shift
    <3> QED BY <2>1, <2>2, <2>3, SMTT(30)
  <2> QED BY <2>4 DEF OccursAt
<1>4. \A r \in Len(done) .. Len(t) - Len(f) :
         OccursAt(t, f, r) => r - shift \in p .. Len(s) - Len(f) /\ OccursAt(s, f, r - shift)
  <2> HIDE DEF t
  <2> SUFFICES ASSUME NEW r \in Len(done) .. Len(t) - Len(f), OccursAt(t, f, r)
               PROVE  r - shift \in p .. Len(s) - Len(f) /\ OccursAt(s, f, r - shift)
    OBVIOUS
  <2>1. r - shift \in p .. Len(s) - Len(f) /\ shift + (r - shift) = r
    BY <1>1
  <2> HIDE DEF shift
  <2>2. OccursAt(t, f, shift + (r - shift)) <=> OccursAt(s, f, r - shift)
    BY <1>3, <2>1
  <2> QED BY <2>1, <2>2
<1>5. CASE Find(s, f, p) = NPos
  <2> HIDE DEF t
  <2>1. \A q \in p .. Len(s) - Len(f) : ~OccursAt(s, f, q)
    BY <1>1, <1>5, FindAnswers DEF NPos
  <2>2. Find(t, f, Len(done)) = NPos
    BY <1>1, <1>4, <2>1, FindAnswers
  <2> QED BY <1>5, <2>2 DEF t
<1>6. CASE Find(s, f, p) # NPos
  <2> DEFINE q == Find(s, f, p)
  <2>1. q \in p .. Len(s) - Len(f) /\ OccursAt(s, f, q) /\ \A r \in p .. q - 1 : ~OccursAt(s, f, r)
    BY <1>1, <1>6, FindAnswers
  <2> HIDE DEF t, q
  <2>2. shift + q \in Len(done) .. Len(t) - Len(f) /\ OccursAt(t, f, shift + q)
    BY <1>1, <1>3, <2>1
  <2>3. \A r \in Len(done) .. (shift + q) - 1 : ~OccursAt(t, f, r)
    <3> SUFFICES ASSUME NEW r \in Len(done) .. (shift + q) - 1, OccursAt(t, f, r) PROVE FALSE
      OBVIOUS
    <3>1. r \in Len(done) .. Len(t) - Len(f) /\ r - shift \in p .. q - 1
      BY <1>1, <2>1, <2>2
    <3> HIDE DEF shift
    <3> QED BY <1>4, <2>1, <3>1
  <2>4. Find(t, f, Len(done)) = shift + q
    <3> HIDE DEF shift
    <3> DEFINE m == shift + q
    <3>1. /\ m \in Len(done) .. Len(t) - Len(f) /\ OccursAt(t, f, m)
          /\ \A r \in Len(done) .. m - 1 : ~OccursAt(t, f, r)
      BY <2>2, <2>3
    <3> HIDE DEF m
    <3>2. Find(t, f, Len(done)) = m
      BY <1>1, <3>1, FindUnique
    <3> QED BY <3>2 DEF m
  <2> QED BY <1>1, <1>6, <2>1, <2>4 DEF t, q
<1> QED BY <1>5, <1>6

----------------------------------------------------------------------------
(* The scan of the input, one occurrence after the other.                   *)

\* What the scan gives from offset p on, when scan[q] is what it gives from q on.
Scanned(s, f, r, scan, p) ==
  LET q == Find(s, f, p)
  IN  IF q = NPos THEN SubSeq(s, p + 1, Len(s))
      ELSE SubSeq(s, p + 1, q) \o r \o scan[q + Len(f)]

\* scan is what the recursion defines, from k characters before the end on.
IsScan(s, f, r, scan, k) ==
  /\ scan \in [Len(s) - k .. Len(s) -> Seq(Chars)]
  /\ \A p \in Len(s) - k .. Len(s) : scan[p] = Scanned(s, f, r, scan, p)

\* It depends on what scan gives behind p only.
LEMMA ScannedNext ==
  ASSUME NEW s \in Seq(Chars), NEW f \in Seq(Chars), f # <<>>, NEW r, NEW p \in 0 .. Len(s),
         NEW g, NEW h, \A q \in p + 1 .. Len(s) : g[q] = h[q]
  PROVE  Scanned(s, f, r, g, p) = Scanned(s, f, r, h, p)
<1>1. CASE Find(s, f, p) = NPos
  BY <1>1 DEF Scanned
<1>2. CASE Find(s, f, p) # NPos
  <2>1. Len(s) \in Nat /\ Len(f) \in Nat \ {0} /\ p \in Nat
    OBVIOUS
  <2>2. Find(s, f, p) + Len(f) \in p + 1 .. Len(s)
    BY <1>2, <2>1, FindAnswers
  <2>3. g[Find(s, f, p) + Len(f)] = h[Find(s, f, p) + Len(f)]
    BY <2>2
  <2> QED BY <1>2, <2>3, Zenon DEF Scanned
<1> QED BY <1>1, <1>2

\* There is such a scan of the last k characters: by induction on k.
LEMMA ScanExists ==
  ASSUME NEW s \in Seq(Chars), NEW f \in Seq(Chars), f # <<>>, NEW r \in Seq(Chars)
  PROVE  \E scan : IsScan(s, f, r, scan, Len(s))
<1> DEFINE Good == {k \in Nat : k <= Len(s) => \E scan : IsScan(s, f, r, scan, k)}
<1>1. Len(s) \in Nat /\ Len(f) \in Nat \ {0}
  OBVIOUS
<1>2. ASSUME NEW k \in Nat, k <= Len(s), NEW scan,
             \A p \in Len(s) - k + 1 .. Len(s) : scan[p] \in Seq(Chars)
      PROVE  Scanned(s, f, r, scan, Len(s) - k) \in Seq(Chars)
  <2> DEFINE n == Len(s) - k
             q == Find(s, f, n)
  <2>1. n \in Nat
    BY <1>1, <1>2
  <2>2. q = NPos \/ (q \in n .. Len(s) - Len(f))
    BY <2>1, FindAnswers
  <2> HIDE DEF q
  <2>3. CASE q = NPos
    BY <1>1, <2>1, <2>3 DEF Scanned, q
  <2>4. CASE q # NPos
    <3>1. q + Len(f) \in Len(s) - k + 1 .. Len(s) /\ q \in Nat /\ q <= Len(s)
      BY <1>1, <1>2, <2>1, <2>2, <2>4
    <3>2. scan[q + Len(f)] \in Seq(Chars)
      BY <1>2, <3>1
    <3>3. SubSeq(s, n + 1, q) \in Seq(Chars)
      BY <1>1, <2>1, <3>1
    <3>4. Scanned(s, f, r, scan, n) = SubSeq(s, n + 1, q) \o r \o scan[q + Len(f)]
      BY <2>4 DEF Scanned, q
    <3> HIDE DEF n
    <3>5. SubSeq(s, n + 1, q) \o r \o scan[q + Len(f)] \in Seq(Chars)
      BY <3>2, <3>3
    <3> QED BY <3>4, <3>5 DEF n
  <2> QED BY <2>3, <2>4
<1>3. 0 \in Good
  <2> DEFINE scan == [p \in Len(s) .. Len(s) |-> <<>>]
  <2>1. Find(s, f, Len(s)) = NPos
    BY <1>1, FindAnswers
  <2>2. SubSeq(s, Len(s) + 1, Len(s)) = <<>>
    BY <1>1
  <2>3. IsScan(s, f, r, scan, 0)
    <3>1. scan \in [Len(s) .. Len(s) -> Seq(Chars)] /\ scan[Len(s)] = <<>>
      BY <1>1
    <3> HIDE DEF scan
    <3>2. Scanned(s, f, r, scan, Len(s)) = <<>>
      BY <2>1, <2>2, Zenon DEF Scanned
    <3>3. Len(s) - 0 = Len(s) /\ \A p \in Len(s) .. Len(s) : p = Len(s)
      BY <1>1
    <3> QED BY <3>1, <3>2, <3>3 DEF IsScan
  <2> QED BY <2>3
<1>4. ASSUME NEW k \in Nat, k \in Good PROVE k + 1 \in Good
  <2> SUFFICES ASSUME k + 1 <= Len(s) PROVE \E scan : IsScan(s, f, r, scan, k + 1)
    OBVIOUS
  <2>1. k <= Len(s)
    BY <1>1
  <2>2. PICK scan : IsScan(s, f, r, scan, k)
    BY <1>4, <2>1
  <2> DEFINE n == Len(s) - (k + 1)
             more == [p \in n .. Len(s) |-> IF p = n THEN Scanned(s, f, r, scan, n) ELSE scan[p]]
  <2>3. n \in Nat /\ Len(s) - k = n + 1 /\ n <= Len(s)
    BY <1>1
  <2> HIDE DEF n
  <2>4. /\ scan \in [n + 1 .. Len(s) -> Seq(Chars)]
        /\ \A p \in n + 1 .. Len(s) : scan[p] = Scanned(s, f, r, scan, p)
    BY <2>2, <2>3 DEF IsScan
  <2>5. Scanned(s, f, r, scan, n) \in Seq(Chars)
    <3>1. n = Len(s) - (k + 1) /\ Len(s) - (k + 1) + 1 = n + 1
      BY DEF n
    <3>2. \A p \in Len(s) - (k + 1) + 1 .. Len(s) : scan[p] \in Seq(Chars)
      BY <2>4, <3>1
    <3> QED BY <1>2, <3>1, <3>2, SMTT(30)
  <2>6. more \in [n .. Len(s) -> Seq(Chars)] /\ \A p \in n + 1 .. Len(s) : more[p] = scan[p]
    BY <1>1, <2>3, <2>4, <2>5
  <2>7. more[n] = Scanned(s, f, r, scan, n)
    BY <1>1, <2>3
  <2> HIDE DEF more
  <2>8. ASSUME NEW p \in n .. Len(s) PROVE Scanned(s, f, r, more, p) = Scanned(s, f, r, scan, p)
    <3>1. p \in 0 .. Len(s) /\ \A q \in p + 1 .. Len(s) : more[q] = scan[q]
      BY <1>1, <2>3, <2>6
    <3> QED BY <3>1, ScannedNext
  <2>9. \A p \in n .. Len(s) : more[p] = Scanned(s, f, r, more, p)
    <3> SUFFICES ASSUME NEW p \in n .. Len(s) PROVE more[p] = Scanned(s, f, r, scan, p)
      BY <2>8
    <3>1. p = n \/ p \in n + 1 .. Len(s)
      BY <1>1, <2>3
    <3> QED BY <2>4, <2>6, <2>7, <3>1
  <2>10. IsScan(s, f, r, more, k + 1)
    BY <2>6, <2>9 DEF IsScan, n
  <2> QED BY <2>10
<1>5. Nat \subseteq Good
  <2> HIDE DEF Good
  <2> QED BY <1>3, <1>4, HoldsOfAll
<1> QED BY <1>1, <1>5

\* So Scan is one.
LEMMA ScanGives ==
  ASSUME input \in Seq(Chars), find \in Seq(Chars), find # <<>>, replace \in Seq(Chars)
  PROVE  \A p \in 0 .. Len(input) :
           /\ Scan[p] \in Seq(Chars)
           /\ Scan[p] = Scanned(input, find, replace, Scan, p)
<1>1. PICK scan : IsScan(input, find, replace, scan, Len(input))
  BY ScanExists
<1>2. Len(input) - Len(input) = 0
  OBVIOUS
<1>3. scan = [p \in 0 .. Len(input) |-> Scanned(input, find, replace, scan, p)]
  BY <1>1, <1>2 DEF IsScan
<1>4. Scan = CHOOSE g : g = [p \in 0 .. Len(input) |-> Scanned(input, find, replace, g, p)]
  BY DEF Scan, Scanned
<1>5. Scan = [p \in 0 .. Len(input) |-> Scanned(input, find, replace, Scan, p)]
  BY <1>3, <1>4, Zenon
<1>6. \A p \in 0 .. Len(input) : Scan[p] = scan[p]
  <2> DEFINE same == {p \in 0 .. Len(input) : Scan[p] = scan[p]}
  <2>1. ASSUME NEW p \in 0 .. Len(input), \A q \in p + 1 .. Len(input) : q \in same
        PROVE  p \in same
    <3>1. Scanned(input, find, replace, Scan, p) = Scanned(input, find, replace, scan, p)
      BY <2>1, ScannedNext
    <3> QED BY <1>3, <1>5, <3>1
  <2>2. Len(input) \in Nat
    OBVIOUS
  <2>3. 0 .. Len(input) \subseteq same
    <3> HIDE DEF same
    <3> QED BY <2>1, <2>2, HoldsBackwards
  <2> QED BY <2>3
<1>7. \A p \in 0 .. Len(input) : scan[p] \in Seq(Chars)
  BY <1>1, <1>2 DEF IsScan
<1> QED BY <1>5, <1>6, <1>7

----------------------------------------------------------------------------
(* The loop.                                                                *)

\* What is behind the last replacement is still what the input has from some
\* offset p on, and what is in front of it is what the scan gives up to there.
RestIsInput ==
  pc = "loop" =>
    \E p \in 0 .. Len(input), k \in 0 .. Len(output) :
      LET done == SubSeq(output, 1, k)
      IN  /\ output = done \o SubSeq(input, p + 1, Len(input))
          /\ pos = Find(output, find, k)
          /\ Reference = done \o Scan[p]

\* The inductive invariant of the loop.
IInv ==
  /\ TypeOK /\ RestIsInput /\ ReplacesAll
  /\ pc = "start" => output = input
  /\ pc = "loop" => find # <<>>

\* TextTypes are what their type says.
LEMMA TextTypes == TypeOK => /\ input \in Seq(Chars) /\ find \in Seq(Chars) /\ replace \in Seq(Chars)
                           /\ output \in Seq(Chars)
BY StringsAssumption DEF TypeOK

\* The reference stays while the arguments do.
LEMMA ReferenceStays ==
  ASSUME UNCHANGED <<input, find, replace>>
  PROVE  Scan' = Scan /\ Reference' = Reference
<1>1. Scan' = Scan
  BY DEF Scan
<1>2. Reference' = Reference
  BY <1>1 DEF Reference
<1> QED BY <1>1, <1>2

\* Two stretches of a text that meet are one.
LEMMA Stretches ==
  ASSUME NEW s \in Seq(Chars), NEW a \in Nat, NEW b \in Nat, NEW c \in Nat, a <= b, b <= c, c <= Len(s)
  PROVE  SubSeq(s, a + 1, b) \o SubSeq(s, b + 1, c) = SubSeq(s, a + 1, c)
OBVIOUS

\* Replacing a text by itself gives the input back.
LEMMA SameReplaced ==
  ASSUME input \in Seq(Chars), find \in Seq(Chars), replace = find
  PROVE  Reference = input
<1>1. CASE find = <<>>
  BY <1>1 DEF Reference
<1>2. CASE find # <<>>
  <2> DEFINE n == Len(input)
             same == {p \in 0 .. n : Scan[p] = SubSeq(input, p + 1, n)}
  <2>1. n \in Nat /\ Len(find) \in Nat \ {0}
    BY <1>2
  <2>2. \A p \in 0 .. n : Scan[p] = Scanned(input, find, replace, Scan, p)
    BY <1>2, ScanGives
  <2>3. ASSUME NEW p \in 0 .. n, \A q \in p + 1 .. n : q \in same
        PROVE  p \in same
    <3> DEFINE q == Find(input, find, p)
    <3>1. CASE q = NPos
      BY <2>2, <3>1 DEF Scanned
    <3>2. CASE q # NPos
      <4>1. q \in p .. n - Len(find) /\ OccursAt(input, find, q)
        BY <1>2, <3>2, FindAnswers
      <4>2. Scan[p] = SubSeq(input, p + 1, q) \o find \o Scan[q + Len(find)]
        BY <2>2, <3>2, Zenon DEF Scanned
      <4> HIDE DEF q
      <4>3. q + Len(find) \in p + 1 .. n
        BY <2>1, <4>1
      <4>4. Scan[q + Len(find)] = SubSeq(input, q + Len(find) + 1, n)
        BY <2>3, <4>3
      <4>5. find = SubSeq(input, q + 1, q + Len(find))
        BY <4>1 DEF OccursAt
      <4>6. SubSeq(input, p + 1, q) \o find = SubSeq(input, p + 1, q + Len(find))
        <5> DEFINE e == q + Len(find)
        <5>1. p \in Nat /\ q \in Nat /\ e \in Nat /\ p <= q /\ q <= e /\ e <= Len(input)
          BY <2>1, <4>1, <4>3
        <5>2. find = SubSeq(input, q + 1, e)
          BY <4>5
        <5> HIDE DEF e
        <5>3. SubSeq(input, p + 1, q) \o SubSeq(input, q + 1, e) = SubSeq(input, p + 1, e)
          BY <5>1, Stretches
        <5> QED BY <5>2, <5>3 DEF e
      <4>7. SubSeq(input, p + 1, q + Len(find)) \o SubSeq(input, q + Len(find) + 1, n) = SubSeq(input, p + 1, n)
        <5> DEFINE e == q + Len(find)
        <5>1. p \in Nat /\ e \in Nat /\ n \in Nat /\ p <= e /\ e <= n /\ n <= Len(input)
          BY <2>1, <4>1, <4>3
        <5> HIDE DEF e, n
        <5>2. SubSeq(input, p + 1, e) \o SubSeq(input, e + 1, n) = SubSeq(input, p + 1, n)
          BY <5>1, Stretches
        <5> QED BY <5>2 DEF e
      <4> QED BY <4>2, <4>4, <4>6, <4>7
    <3> QED BY <3>1, <3>2
  <2>4. 0 .. n \subseteq same
    <3> HIDE DEF same, n
    <3> QED BY <2>1, <2>3, HoldsBackwards
  <2>5. Scan[0] = SubSeq(input, 0 + 1, n)
    <3>1. 0 \in 0 .. n
      BY <2>1
    <3>2. 0 \in same
      <4> HIDE DEF same
      <4> QED BY <2>4, <3>1
    <3> QED BY <3>2
  <2>6. SubSeq(input, 0 + 1, n) = input
    OBVIOUS
  <2> QED BY <1>2, <2>5, <2>6 DEF Reference
<1> QED BY <1>1, <1>2

\* The first search is over the whole input.
LEMMA StartKeeps == IInv /\ Start => IInv'
<1> SUFFICES ASSUME IInv, Start PROVE IInv'
  OBVIOUS
<1>1. /\ TypeOK /\ pc = "start" /\ output = input /\ UNCHANGED <<input, find, replace, output>>
      /\ input \in Seq(Chars) /\ find \in Seq(Chars) /\ replace \in Seq(Chars)
  BY TextTypes DEF IInv, Start
<1>2. Scan' = Scan /\ Reference' = Reference
  BY <1>1, ReferenceStays
<1>3. CASE (find = replace \/ find = <<>>) /\ pc' = "done" /\ UNCHANGED pos
  <2>1. Reference = input
    BY <1>1, <1>3, SameReplaced DEF Reference
  <2>2. TypeOK'
    BY <1>1, <1>3 DEF TypeOK
  <2> QED BY <1>1, <1>2, <1>3, <2>1, <2>2 DEF IInv, RestIsInput, ReplacesAll
<1>4. CASE find # <<>> /\ pos' = Find(output, find, 0) /\ pc' = "loop"
  <2>1. TypeOK'
    <3>1. pos' = NPos \/ pos' \in 0 .. Len(output) - Len(find)
      BY <1>1, <1>4, FindAnswers
    <3> QED BY <1>1, <1>4, <3>1 DEF TypeOK, NPos
  <2>2. RestIsInput'
    <3>1. SubSeq(output, 1, 0) = <<>> /\ output = <<>> \o SubSeq(input, 0 + 1, Len(input))
      BY <1>1
    <3>2. Scan[0] \in Seq(Chars) /\ Reference = Scan[0]
      BY <1>1, <1>4, ScanGives DEF Reference
    <3>3. Reference = <<>> \o Scan[0]
      BY <3>2
    <3>4. 0 \in 0 .. Len(input) /\ 0 \in 0 .. Len(output)
      BY <1>1
    <3>5. /\ output' = SubSeq(output', 1, 0) \o SubSeq(input', 0 + 1, Len(input'))
          /\ pos' = Find(output', find', 0)
          /\ Reference' = SubSeq(output', 1, 0) \o Scan'[0]
      BY <1>1, <1>2, <1>4, <3>1, <3>3
    <3> QED BY <1>1, <3>4, <3>5 DEF RestIsInput
  <2> QED BY <1>1, <1>4, <2>1, <2>2 DEF IInv, ReplacesAll
<1> QED BY <1>3, <1>4 DEF Start

\* Texts with the same characters are the same.
LEMMA SameText ==
  ASSUME NEW a \in Seq(Chars), NEW b \in Seq(Chars), Len(a) = Len(b), \A i \in 1 .. Len(a) : a[i] = b[i]
  PROVE  a = b
OBVIOUS

\* Taking apart a text that goes on like another one from offset p on.
LEMMA Pieces ==
  ASSUME NEW s \in Seq(Chars), NEW done \in Seq(Chars), NEW p \in 0 .. Len(s), NEW q \in p .. Len(s)
  PROVE  LET t == done \o SubSeq(s, p + 1, Len(s))
         IN  /\ t \in Seq(Chars) /\ Len(t) = Len(done) + Len(s) - p
             /\ SubSeq(t, 1, Len(done) + q - p) = done \o SubSeq(s, p + 1, q)
             /\ SubSeq(t, Len(done) + q - p + 1, Len(t)) = SubSeq(s, q + 1, Len(s))
<1> DEFINE t == done \o SubSeq(s, p + 1, Len(s))
           h == done \o SubSeq(s, p + 1, q)
           m == Len(done) + q - p
<1>1. /\ Len(s) \in Nat /\ p \in Nat /\ q \in Nat /\ p <= q /\ q <= Len(s) /\ Len(done) \in Nat
      /\ m \in Nat
  OBVIOUS
<1>2. /\ t \in Seq(Chars) /\ Len(t) = Len(done) + Len(s) - p
      /\ \A i \in 1 .. Len(done) : t[i] = done[i]
      /\ \A i \in Len(done) + 1 .. Len(t) : t[i] = s[i - Len(done) + p]
  BY <1>1
<1>3. /\ h \in Seq(Chars) /\ Len(h) = m
      /\ \A i \in 1 .. Len(done) : h[i] = done[i]
      /\ \A i \in Len(done) + 1 .. m : h[i] = s[i - Len(done) + p]
  BY <1>1
<1> HIDE DEF t, h
<1>4. SubSeq(t, 1, m) = h
  <2>1. m <= Len(t)
    BY <1>1, <1>2
  <2> DEFINE u == SubSeq(t, 1, m)
  <2>2. u \in Seq(Chars) /\ Len(u) = m /\ \A i \in 1 .. m : u[i] = t[i]
    <3> HIDE DEF m
    <3> QED BY <1>1, <1>2, <2>1
  <2>3. \A i \in 1 .. m : t[i] = h[i]
    <3> SUFFICES ASSUME NEW i \in 1 .. m PROVE t[i] = h[i]
      OBVIOUS
    <3>1. i \in 1 .. Len(done) \/ (i \in Len(done) + 1 .. Len(t) /\ i \in Len(done) + 1 .. m)
      BY <1>1, <2>1
    <3> HIDE DEF m
    <3> QED BY <1>2, <1>3, <3>1
  <2> HIDE DEF u, m
  <2> QED BY <1>3, <2>2, <2>3, SameText DEF u
<1>5. SubSeq(t, m + 1, Len(t)) = SubSeq(s, q + 1, Len(s))
  <2> DEFINE u == SubSeq(t, m + 1, Len(t))
             v == SubSeq(s, q + 1, Len(s))
             n == Len(s) - q
  <2>1. m + n = Len(t) /\ n \in Nat
    BY <1>1, <1>2
  <2>2. u \in Seq(Chars) /\ Len(u) = n /\ \A i \in 1 .. n : u[i] = t[m + i]
    <3> HIDE DEF m, n
    <3> QED BY <1>1, <1>2, <2>1
  <2>3. v \in Seq(Chars) /\ Len(v) = n /\ \A i \in 1 .. n : v[i] = s[q + i]
    BY <1>1
  <2>4. \A i \in 1 .. n : t[m + i] = s[q + i]
    <3> SUFFICES ASSUME NEW i \in 1 .. n PROVE t[m + i] = s[q + i]
      OBVIOUS
    <3>1. m + i \in Len(done) + 1 .. Len(t) /\ (m + i) - Len(done) + p = q + i
      BY <1>1, <2>1
    <3> HIDE DEF m, n
    <3> QED BY <1>2, <3>1
  <2> HIDE DEF u, v, n, m
  <2> QED BY <2>2, <2>3, <2>4, SameText DEF u, v
<1> QED BY <1>2, <1>4, <1>5 DEF t, h

\* A round that finds something: where the search was, and what is left.
LEMMA RoundFinds ==
  ASSUME IInv, Round, pos # NPos
  PROVE  /\ IInv'
         /\ pos' = NPos \/ Len(output') - pos' < Len(output) - pos
<1>1. /\ TypeOK /\ pc = "loop" /\ UNCHANGED <<input, find, replace, pc>> /\ find # <<>>
      /\ input \in Seq(Chars) /\ find \in Seq(Chars) /\ replace \in Seq(Chars) /\ output \in Seq(Chars)
      /\ output' = Replaced /\ pos' = Find(Replaced, find, Resume)
  BY TextTypes DEF IInv, Round
<1>2. Scan' = Scan /\ Reference' = Reference
  BY <1>1, ReferenceStays
<1>3. PICK p \in 0 .. Len(input), k \in 0 .. Len(output) :
        /\ output = SubSeq(output, 1, k) \o SubSeq(input, p + 1, Len(input))
        /\ pos = Find(output, find, k)
        /\ Reference = SubSeq(output, 1, k) \o Scan[p]
  BY <1>1 DEF IInv, RestIsInput
<1> DEFINE done == SubSeq(output, 1, k)
           n == Len(input)
           q == Find(input, find, p)
<1>4. /\ done \in Seq(Chars) /\ Len(done) = k /\ n \in Nat /\ k \in Nat /\ p \in Nat
      /\ Len(find) \in Nat \ {0} /\ Len(replace) \in Nat
  BY <1>1
<1>5. output = done \o SubSeq(input, p + 1, n) /\ Reference = done \o Scan[p]
  BY <1>3
<1> HIDE DEF done
<1>6. q \in p .. n - Len(find) /\ pos = k + q - p /\ OccursAt(input, find, q)
  <2>1. Find(done \o SubSeq(input, p + 1, n), find, Len(done)) =
          IF q = NPos THEN NPos ELSE Len(done) + q - p
    BY <1>1, <1>4, FindBehind
  <2>2. q # NPos /\ pos = k + q - p
    BY <1>3, <1>4, <1>5, <2>1
  <2> QED BY <1>1, <1>4, <2>2, FindAnswers
<1> HIDE DEF n, q
<1> DEFINE next == done \o SubSeq(input, p + 1, q) \o replace
           e == q + Len(find)
<1>7. e \in 0 .. n /\ q \in 0 .. n /\ q \in p .. n /\ e \in p .. n
  BY <1>4, <1>6
<1> DEFINE gap == SubSeq(input, p + 1, q)
<1>8. gap \in Seq(Chars) /\ Len(gap) = q - p
  BY <1>1, <1>4, <1>7 DEF n
<1>9. /\ Len(output) = k + n - p /\ pos \in Nat
      /\ SubSeq(output, 1, pos) = done \o gap
      /\ SubSeq(output, pos + Len(find) + 1, Len(output)) = SubSeq(input, e + 1, n)
  <2>1. pos = Len(done) + q - p /\ pos + Len(find) = Len(done) + e - p /\ pos \in Nat
    BY <1>4, <1>6, <1>7
  <2> HIDE DEF e
  <2>2. q \in p .. Len(input) /\ e \in p .. Len(input) /\ n = Len(input)
    BY <1>7 DEF n
  <2>3. input \in Seq(Chars) /\ done \in Seq(Chars) /\ output = done \o SubSeq(input, p + 1, Len(input))
    BY <1>1, <1>4, <1>5, <2>2
  <2>4. Len(output) = Len(done) + Len(input) - p /\ SubSeq(output, 1, Len(done) + q - p) = done \o gap
    BY <2>2, <2>3, Pieces, Zenon DEF gap
  <2>5. SubSeq(output, Len(done) + e - p + 1, Len(output)) = SubSeq(input, e + 1, n)
    BY <2>2, <2>3, Pieces, Zenon
  <2> QED BY <1>4, <2>1, <2>2, <2>4, <2>5
<1> HIDE DEF gap
<1>10. next \in Seq(Chars) /\ Len(next) = Resume
  <2>1. next = done \o gap \o replace /\ Len(done) + Len(gap) = pos
    BY <1>4, <1>6, <1>7, <1>8 DEF gap
  <2>2. done \in Seq(Chars) /\ gap \in Seq(Chars) /\ replace \in Seq(Chars) /\ Len(replace) \in Nat
    BY <1>1, <1>4, <1>8
  <2> HIDE DEF next
  <2> QED BY <2>1, <2>2 DEF Resume
<1>11. Replaced = next \o SubSeq(input, e + 1, n)
  BY <1>9 DEF Replaced, gap
<1> HIDE DEF next
<1>12. Reference = next \o Scan[e]
  <2>1. Scan[p] = gap \o replace \o Scan[e] /\ Scan[e] \in Seq(Chars)
    <3>1. Scan[p] = Scanned(input, find, replace, Scan, p) /\ Scan[e] \in Seq(Chars)
      BY <1>1, <1>4, <1>7, ScanGives DEF n
    <3>2. q # NPos
      BY <1>7 DEF NPos
    <3> QED BY <3>1, <3>2, Zenon DEF Scanned, q, n, gap
  <2> HIDE DEF e
  <2> DEFINE rest == Scan[e]
  <2>2. rest \in Seq(Chars)
    BY <2>1
  <2> HIDE DEF rest
  <2>3. done \o (gap \o replace \o rest) = done \o gap \o replace \o rest
    <3>1. done \in Seq(Chars) /\ gap \in Seq(Chars) /\ replace \in Seq(Chars)
      BY <1>1, <1>4, <1>8
    <3> HIDE DEF done
    <3> QED BY <2>2, <3>1, SMTT(60)
  <2> QED BY <1>5, <2>1, <2>3 DEF next, gap, rest
<1>13. /\ Replaced \in Seq(Chars) /\ Resume \in Nat
       /\ Len(Replaced) = Resume + n - e
       /\ SubSeq(Replaced, 1, Resume) = next
  <2>1. SubSeq(input, e + 1, n) \in Seq(Chars) /\ Len(SubSeq(input, e + 1, n)) = n - e
    BY <1>1, <1>7 DEF n
  <2>2. Resume \in Nat
    BY <1>4, <1>9 DEF Resume
  <2> HIDE DEF e
  <2> QED BY <1>10, <1>11, <2>1, <2>2
<1>14. pos' = NPos \/ (pos' \in Resume .. Len(Replaced) - Len(find))
  BY <1>1, <1>13, FindAnswers
<1>15. TypeOK'
  BY <1>1, <1>4, <1>13, <1>14 DEF TypeOK, NPos
<1>16. RestIsInput'
  <2>1. Resume \in 0 .. Len(Replaced)
    BY <1>4, <1>7, <1>13
  <2>2. /\ output' = SubSeq(output', 1, Resume) \o SubSeq(input', e + 1, Len(input'))
        /\ pos' = Find(output', find', Resume)
        /\ Reference' = SubSeq(output', 1, Resume) \o Scan'[e]
    BY <1>1, <1>2, <1>11, <1>12, <1>13 DEF n
  <2>3. e \in 0 .. Len(input') /\ Resume \in 0 .. Len(output')
    BY <1>1, <1>7, <2>1 DEF n
  <2> HIDE DEF e
  <2> QED BY <2>2, <2>3 DEF RestIsInput
<1>17. pos' = NPos \/ Len(output') - pos' < Len(output) - pos
  <2> DEFINE len == Len(Replaced)
  <2>1. output' = Replaced /\ len = Resume + n - e /\ Len(output) = k + n - p /\ Resume \in Nat
    BY <1>1, <1>9, <1>13
  <2>2. pos' = NPos \/ (pos' \in Resume .. len - Len(find))
    BY <1>14
  <2>3. pos = k + q - p /\ q \in p .. n - Len(find)
    BY <1>6
  <2> HIDE DEF len
  <2>4. pos' = NPos \/ len - pos' < Len(output) - pos
    BY <1>4, <2>1, <2>2, <2>3, SMTT(30)
  <2> QED BY <2>1, <2>4 DEF len
<1> QED BY <1>1, <1>15, <1>16, <1>17 DEF IInv, ReplacesAll

\* A round that finds nothing: what is left of the input is the end of the scan.
LEMMA RoundEnds ==
  ASSUME IInv, Round, pos = NPos
  PROVE  IInv'
<1>1. /\ TypeOK /\ pc = "loop" /\ pc' = "done" /\ UNCHANGED <<input, find, replace, output, pos>> /\ find # <<>>
      /\ input \in Seq(Chars) /\ find \in Seq(Chars) /\ replace \in Seq(Chars) /\ output \in Seq(Chars)
  BY TextTypes DEF IInv, Round
<1>2. Reference' = Reference
  BY <1>1, ReferenceStays
<1>3. PICK p \in 0 .. Len(input), k \in 0 .. Len(output) :
        /\ output = SubSeq(output, 1, k) \o SubSeq(input, p + 1, Len(input))
        /\ pos = Find(output, find, k)
        /\ Reference = SubSeq(output, 1, k) \o Scan[p]
  BY <1>1 DEF IInv, RestIsInput
<1> DEFINE done == SubSeq(output, 1, k)
<1>4. done \in Seq(Chars) /\ Len(done) = k /\ k \in Nat /\ p \in Nat
  BY <1>1
<1>5. output = done \o SubSeq(input, p + 1, Len(input)) /\ Reference = done \o Scan[p]
  BY <1>3
<1> HIDE DEF done
<1>6. Find(input, find, p) = NPos
  <2>1. Find(done \o SubSeq(input, p + 1, Len(input)), find, Len(done)) =
          IF Find(input, find, p) = NPos THEN NPos ELSE Len(done) + Find(input, find, p) - p
    BY <1>1, <1>4, FindBehind
  <2>2. Find(input, find, p) # NPos => Find(input, find, p) \in p .. Len(input) - Len(find)
    BY <1>1, <1>4, FindAnswers
  <2>3. NPos = Len(done) + Find(input, find, p) - p \/ Find(input, find, p) = NPos
    BY <1>3, <1>4, <1>5, <2>1
  <2> QED BY <1>4, <2>2, <2>3 DEF NPos
<1>7. Scan[p] = SubSeq(input, p + 1, Len(input))
  BY <1>1, <1>6, ScanGives, Zenon DEF Scanned
<1>8. output = Reference
  BY <1>5, <1>7
<1> QED BY <1>1, <1>2, <1>8 DEF IInv, TypeOK, RestIsInput, ReplacesAll

\* The invariant of the loop.
THEOREM Invariance == Spec => []IInv
<1>1. Init => IInv
  <2> SUFFICES ASSUME Init PROVE IInv
    OBVIOUS
  <2>1. input \in Seq(Chars) /\ output = input /\ pos = 0 /\ pc = "start"
    BY StringsAssumption DEF Init
  <2> QED BY <2>1 DEF Init, IInv, TypeOK, RestIsInput, ReplacesAll
<1>2. IInv /\ [Next]_vars => IInv'
  <2> SUFFICES ASSUME IInv, [Next]_vars PROVE IInv'
    OBVIOUS
  <2>1. CASE Start
    BY <2>1, StartKeeps
  <2>2. CASE Round
    BY <2>2, RoundFinds, RoundEnds
  <2>3. CASE UNCHANGED vars
    <3>1. UNCHANGED <<input, find, replace, output, pos, pc>>
      BY <2>3 DEF vars
    <3>2. Scan' = Scan /\ Reference' = Reference
      BY <3>1, ReferenceStays
    <3>3. TypeOK' /\ ReplacesAll'
      BY <3>1, <3>2 DEF IInv, TypeOK, ReplacesAll
    <3>4. RestIsInput'
      BY <3>1, <3>2 DEF IInv, RestIsInput
    <3> QED BY <3>1, <3>3, <3>4 DEF IInv
  <2> QED BY <2>1, <2>2, <2>3 DEF Next
<1> QED BY <1>1, <1>2, PTL DEF Spec

\* Offsets stay inside the text that find_and_replace works on.
THEOREM TypeCorrect == Spec => []TypeOK
<1>1. IInv => TypeOK
  BY DEF IInv
<1> QED BY <1>1, Invariance, PTL

\* find_and_replace answers the input with the occurrences of find, taken from
\* left to right, replaced: for every input and every pattern.
THEOREM Correct == Spec => []ReplacesAll
<1>1. IInv => ReplacesAll
  BY DEF IInv
<1> QED BY <1>1, Invariance, PTL

\* A round that goes on leaves less text to search.
LEMMA StepShrinks ==
  ASSUME IInv, Next, pc = "loop", pc' = "loop"
  PROVE  LeftToSearch' < LeftToSearch
<1>1. Round /\ pos # NPos
  BY DEF Next, Start, Round
<1>2. pos' = NPos \/ Len(output') - pos' < Len(output) - pos
  BY <1>1, RoundFinds
<1>3. pos \in Nat /\ pos + Len(find) <= Len(output) /\ Len(find) \in Nat \ {0} /\ Len(output) \in Nat
  BY <1>1, TextTypes DEF IInv, TypeOK, NPos
<1>4. pos' = NPos \/ pos' \in Int
  BY <1>1, RoundFinds DEF IInv, TypeOK
<1> QED BY <1>1, <1>2, <1>3 DEF LeftToSearch, NPos

\* Each round leaves less text to search, whatever the replacement contains: the
\* loop cannot go on for ever.
THEOREM Terminates == Spec => Shrinks
<1>1. IInv /\ [Next]_vars => [pc = "loop" /\ pc' = "loop" => LeftToSearch' < LeftToSearch]_vars
  BY StepShrinks
<1> QED BY <1>1, Invariance, PTL DEF Spec, Shrinks

\* What the client keeps of the texts: they are texts, and the tokens are those of
\* the text that was split.  The invariant of the loop is given up with the texts.
ClientTexts ==
  /\ text \in Seq(Chars) /\ skip_empty \in BOOLEAN
  /\ tokens = Tokens(text, Delim, skip_empty)

\* The inductive invariant of the client, while it works on a text and when it has a path.
ClientIInv ==
  /\ ClientTexts
  /\ called # "path" => IInv
  /\ called = "path" => pc = "done" /\ output = <<>> /\ input = <<>> /\ find = <<>>

\* join answers a text.
LEMMA StreamInto ==
  ASSUME NEW C, NEW delim \in Seq(C), NEW v \in Seq(Seq(C))
  PROVE  Join(v, delim) \in Seq(C)
<1>1. Stream(v, delim) \in Seq(C)
  BY StreamOf
<1> DEFINE all == Stream(v, delim)
           m   == IF Len(all) < Len(delim) THEN Len(all) ELSE Len(all) - Len(delim)
<1>2. m \in 0 .. Len(all)
  <2>1. Len(all) \in Nat /\ Len(delim) \in Nat
    BY <1>1
  <2> HIDE DEF all
  <2> QED BY <2>1
<1>3. SubSeq(all, 1, m) \in Seq(C)
  <2> HIDE DEF all, m
  <2> QED BY <1>1, <1>2, SubSeqProperties DEF all
<1> QED BY <1>3, Zenon DEF Join

\* Whatever text is split, the tokens are its tokens.
LEMMA SplitTextKeeps ==
  ASSUME NEW new \in Seq(Chars), SplitText(new)
  PROVE  ClientTexts'
BY DEF SplitText, ClientTexts

\* No call of the client breaks its invariant.
LEMMA ClientStep == ClientIInv /\ [ClientNext]_<<vars, clientVars, pathVars>> => ClientIInv'
<1> SUFFICES ASSUME ClientIInv, [ClientNext]_<<vars, clientVars, pathVars>> PROVE ClientIInv'
  OBVIOUS
<1>1. CASE Next /\ UNCHANGED <<clientVars, pathVars>>
  <2>1. UNCHANGED <<text, skip_empty, tokens, called>>
    BY <1>1 DEF clientVars
  <2>2. ClientTexts'
    BY <2>1 DEF ClientIInv, ClientTexts
  <2>3. called # "path"
    BY <1>1 DEF ClientIInv, Next, Start, Round
  <2>4. IInv'
    BY <1>1, <2>3, StartKeeps, RoundFinds, RoundEnds DEF ClientIInv, Next
  <2> QED BY <2>1, <2>2, <2>3, <2>4 DEF ClientIInv
<1>2. CASE (SplitOutput \/ Rejoin) /\ UNCHANGED <<vars, pathVars>>
  <2>1. called # "path" /\ called' # "path" /\ UNCHANGED <<input, find, replace, output, pos, pc>>
    BY <1>2 DEF SplitOutput, Rejoin, vars
  <2>2. IInv'
    <3>1. Scan' = Scan /\ Reference' = Reference
      BY <2>1, ReferenceStays
    <3>2. IInv
      BY <2>1 DEF ClientIInv
    <3>3. TypeOK' /\ ReplacesAll'
      BY <2>1, <3>1, <3>2 DEF IInv, TypeOK, ReplacesAll
    <3>4. RestIsInput'
      BY <2>1, <3>1, <3>2 DEF IInv, RestIsInput
    <3> QED BY <2>1, <3>2, <3>3, <3>4 DEF IInv
  <2>3. ClientTexts'
    <3>1. CASE SplitOutput
      <4>1. output \in Seq(Chars)
        BY <2>1, TextTypes DEF ClientIInv, IInv
      <4> QED BY <3>1, <4>1, SplitTextKeeps DEF SplitOutput
    <3>2. CASE Rejoin
      <4>1. PICK k \in 1 .. 2 : SplitText(Join(tokens, [i \in 1 .. k |-> Delim]))
        BY <3>2 DEF Rejoin
      <4>2. [i \in 1 .. k |-> Delim] \in Seq(Chars)
        BY DelimAssumption
      <4>3. tokens \in Seq(Seq(Chars))
        BY TokensListed DEF ClientIInv, ClientTexts
      <4> DEFINE between == [i \in 1 .. k |-> Delim]
      <4> HIDE DEF between
      <4>4. Join(tokens, between) \in Seq(Chars)
        BY <4>2, <4>3, StreamInto DEF between
      <4> QED BY <4>1, <4>4, SplitTextKeeps DEF between
    <3> QED BY <1>2, <3>1, <3>2
  <2> QED BY <2>1, <2>2, <2>3 DEF ClientIInv
<1>3. CASE MakePath
  <2>1. ClientTexts'
    BY <1>3 DEF MakePath, ClientIInv, ClientTexts
  <2> QED BY <1>3, <2>1 DEF MakePath, ClientIInv
<1>4. CASE UNCHANGED <<vars, clientVars>>
  <2>1. UNCHANGED <<input, find, replace, output, pos, pc, text, skip_empty, tokens, called>>
    BY <1>4 DEF vars, clientVars
  <2>2. ClientTexts'
    BY <2>1 DEF ClientIInv, ClientTexts
  <2>3. IInv => IInv'
    <3>1. Scan' = Scan /\ Reference' = Reference
      BY <2>1, ReferenceStays
    <3>2. IInv => TypeOK' /\ ReplacesAll'
      BY <2>1, <3>1 DEF IInv, TypeOK, ReplacesAll
    <3>3. IInv => RestIsInput'
      BY <2>1, <3>1 DEF IInv, RestIsInput
    <3> QED BY <2>1, <3>2, <3>3 DEF IInv
  <2> QED BY <2>1, <2>2, <2>3 DEF ClientIInv
<1>5. CASE PathNext /\ UNCHANGED <<vars, clientVars>>
  BY <1>4, <1>5
<1>6. CASE UNCHANGED <<vars, clientVars, pathVars>>
  BY <1>4, <1>6
<1> QED BY <1>1, <1>2, <1>3, <1>5, <1>6, Zenon DEF ClientNext

\* The client starts with a text to clean, and no tokens.
LEMMA ClientStarts == ClientInit => ClientIInv
<1> SUFFICES ASSUME ClientInit PROVE ClientIInv
  OBVIOUS
<1>1. input \in Seq(Chars) /\ output = input /\ pos = 0 /\ pc = "start"
  BY StringsAssumption DEF ClientInit, Init
<1>2. IInv
  BY <1>1 DEF ClientInit, Init, IInv, TypeOK, RestIsInput, ReplacesAll
<1>3. Tokens(<<>>, Delim, FALSE) = <<>>
  <2>1. Tokens(<<>>, Delim, FALSE) = Split(<<>>, Delim)
    BY Zenon DEF Tokens
  <2>2. Split(<<>>, Delim) = <<>>
    <3>1. ReadLines(<<>>, Delim).done = <<>> /\ ReadLines(<<>>, Delim).item = <<>>
      BY ReadsNothing
    <3> QED BY <3>1, Zenon DEF Split
  <2> QED BY <2>1, <2>2
<1>4. ClientTexts
  <2>1. text = <<>> /\ skip_empty = FALSE /\ tokens = <<>>
    BY DEF ClientInit
  <2>2. text \in Seq(Chars)
    BY <2>1
  <2>3. tokens = Tokens(text, Delim, skip_empty)
    BY <1>3, <2>1, Zenon
  <2> QED BY <2>1, <2>2, <2>3 DEF ClientTexts
<1> QED BY <1>2, <1>4 DEF ClientIInv, ClientInit

\* The tokens are those of the last text that was split, and that is a text.
THEOREM ClientInvariance == ClientSpec => []ClientIInv
BY ClientStarts, ClientStep, PTL DEF ClientSpec

\* join undoes split, also on what join has made: only a delimiter at the very end of
\* a text is lost.
THEOREM ClientJoins == ClientSpec => []JoinUndoesSplit
<1>1. ClientIInv => JoinUndoesSplit
  <2> SUFFICES ASSUME ClientIInv, ~skip_empty
               PROVE  text \in {Join(tokens, <<Delim>>), Join(tokens, <<Delim>>) \o <<Delim>>}
    BY DEF JoinUndoesSplit
  <2>1. text \in Seq(Chars) /\ tokens = Split(text, Delim)
    BY Zenon DEF ClientIInv, ClientTexts, Tokens
  <2>2. text = Join(Split(text, Delim), <<Delim>>) \/ text = Join(Split(text, Delim), <<Delim>>) \o <<Delim>>
    BY <2>1, DelimAssumption, JoinSplit
  <2> QED BY <2>1, <2>2, Zenon
<1> QED BY <1>1, ClientInvariance, PTL

\* split answers the stretches between the delimiters, in order and without those
\* it is asked to skip, for every text that reaches it.
THEOREM ClientSplits == ClientSpec => []TokensAreStretches
<1>1. ClientIInv => TokensAreStretches
  <2> SUFFICES ASSUME ClientIInv PROVE TokensAreStretches
    OBVIOUS
  <2>1. text \in Seq(Chars) /\ skip_empty \in BOOLEAN /\ tokens = Tokens(text, Delim, skip_empty)
    BY DEF ClientIInv, ClientTexts
  <2>2. Ends = TokenEnds(text, Delim)
    BY Zenon DEF Ends, TokenEnds
  <2>3. ASSUME NEW i \in Ends
        PROVE  TokenBefore(i) = StretchBefore(text, Delim)[i]
    <3>1. i \in 1 .. Len(text) + 1
      BY DEF Ends
    <3>2. \A j : j \in {0} \union {k \in Ends : k < i} <=> j \in {0} \union {k \in 1 .. i - 1 : text[k] = Delim}
      <4>1. Len(text) \in Nat
        BY <2>1
      <4> DEFINE n == Len(text)
      <4>2. \A j : j \in Ends <=> j \in 1 .. n + 1 /\ (IF j <= n THEN text[j] = Delim ELSE text # <<>> /\ Last(text) # Delim)
        BY Zenon DEF Ends
      <4> HIDE DEF n
      <4>3. \A j : j \in Ends /\ j < i <=> j \in 1 .. i - 1 /\ text[j] = Delim
        BY <3>1, <4>1, <4>2 DEF n
      <4> QED BY <4>3
    <3>3. {0} \union {k \in Ends : k < i} = {0} \union {k \in 1 .. i - 1 : text[k] = Delim}
      BY <3>2, Zenon
    <3>4. TokenBefore(i) = SubSeq(text, 1 + DelimBefore(text, Delim, i), i - 1)
      BY <3>3, Zenon DEF TokenBefore, DelimBefore
    <3>5. DelimBefore(text, Delim, i) \in Nat
      <4> DEFINE k == i - 1
      <4>1. k \in Nat /\ i = k + 1
        BY <2>1, <3>1
      <4> HIDE DEF k
      <4>2. LastDelim(text, Delim, k, DelimBefore(text, Delim, i))
        BY <4>1, DelimBeforeSays
      <4> QED BY <4>1, <4>2 DEF LastDelim
    <3>6. StretchBefore(text, Delim)[i] = Cut(text, DelimBefore(text, Delim, i), i - 1)
      BY <3>1, Zenon DEF StretchBefore
    <3> DEFINE b == DelimBefore(text, Delim, i)
    <3> HIDE DEF b
    <3>7. 1 + b = b + 1
      BY <3>5 DEF b
    <3> QED BY <3>4, <3>6, <3>7, Zenon DEF Cut, b
  <2> DEFINE kept == {i \in Ends : skip_empty => TokenBefore(i) # <<>>}
  <2>4. kept = Unskipped(text, Delim, skip_empty, TokenEnds(text, Delim))
    BY <2>2, <2>3, Zenon DEF Unskipped
  <2>5. kept \in SUBSET Nat
    BY DEF Ends
  <2>6. Listed(tokens, kept, StretchBefore(text, Delim)) /\ tokens \in Seq(Seq(Chars))
    BY <2>1, <2>4, TokensListed
  <2>7. \A i \in kept : TokenBefore(i) = StretchBefore(text, Delim)[i]
    BY <2>3
  <2> HIDE DEF kept
  <2>8. /\ Len(tokens) = Cardinality(kept)
        /\ \A k \in kept : tokens[Cardinality({j \in kept : j <= k})] = StretchBefore(text, Delim)[k]
    BY <2>5, <2>6, ListsCount
  <2> QED BY <2>7, <2>8, Zenon DEF TokensAreStretches, kept
<1> QED BY <1>1, ClientInvariance, PTL

\* find_and_replace keeps its promise whatever the client does with the answer.
THEOREM ClientReplaces == ClientSpec => []ReplacesAll
<1>1. ClientIInv => ReplacesAll
  <2> SUFFICES ASSUME ClientIInv, called = "path" PROVE ReplacesAll
    BY DEF ClientIInv, IInv
  <2> QED BY Zenon DEF ClientIInv, ReplacesAll, Reference
<1> QED BY <1>1, ClientInvariance, PTL

\* The loop of find_and_replace comes to its end in the client, too.
THEOREM ClientTerminates == ClientSpec => Shrinks
<1>1. ClientIInv /\ [ClientNext]_<<vars, clientVars, pathVars>>
        => [pc = "loop" /\ pc' = "loop" => LeftToSearch' < LeftToSearch]_vars
  <2> SUFFICES ASSUME ClientIInv, ClientNext, pc = "loop", pc' = "loop", vars' # vars
               PROVE  LeftToSearch' < LeftToSearch
    BY DEF vars
  <2>1. called # "path"
    BY DEF ClientIInv
  <2>2. Next
    BY Zenon DEF ClientNext, SplitOutput, MakePath
  <2> QED BY <2>1, <2>2, StepShrinks DEF ClientIInv
<1> QED BY <1>1, ClientInvariance, PTL DEF ClientSpec, Shrinks

----------------------------------------------------------------------------
(* path.                                                                    *)

\* The characters the client may give, those of a path, and those of a component.
Given     == Chars \union Alphabet

\* What a path may be made of, and a component of one.
PathChars == Given \ {BACKSLASH}
NameChars == PathChars \ {SEP}

\* What the two members of every path have in common: they name the same
\* components, and a relative path begins with a component that has a name.
Agrees(p) ==
  /\ NonEmpty(p.vec) = NonEmpty(Split(p.str, SEP))
  /\ p.str = <<>> => p.vec = <<>>
  /\ ~IsAbsolute(p) /\ p.vec # <<>> => p.vec[1] # <<>>

\* The paths that the operations make of each other.
Paths == {p \in [str : Seq(PathChars), vec : Seq(Seq(NameChars))] : Agrees(p)}

\* A path has no backslash, a component no separator either.
LEMMA PathAlphabet ==
  /\ SEP \in PathChars /\ DOT \in NameChars /\ BACKSLASH \notin PathChars
  /\ NameChars \subseteq PathChars /\ PathChars \subseteq Given /\ SEP \notin NameChars
  /\ Seq(NameChars) \subseteq Seq(PathChars) /\ Seq(PathChars) \subseteq Seq(Given)
<1>1. /\ SEP \in PathChars /\ DOT \in NameChars /\ BACKSLASH \notin PathChars
      /\ NameChars \subseteq PathChars /\ PathChars \subseteq Given /\ SEP \notin NameChars
  BY DEF SEP, DOT, BACKSLASH, PathChars, NameChars, Given, Alphabet
<1> QED BY <1>1

\* The constructor leaves no backslash, and nothing to do again.
LEMMA NativeText ==
  ASSUME NEW s \in Seq(Given)
  PROVE  /\ Native(s) \in Seq(PathChars)
         /\ s \in Seq(PathChars) => Native(s) = s
<1> DEFINE n == Len(s)
<1>1. n \in Nat /\ DOMAIN s = 1 .. n
  OBVIOUS
<1>2. Native(s) = [i \in 1 .. n |-> IF s[i] = BACKSLASH THEN SEP ELSE s[i]]
  BY <1>1, Zenon DEF Native
<1>3. \A i \in 1 .. n : (IF s[i] = BACKSLASH THEN SEP ELSE s[i]) \in PathChars
  BY PathAlphabet DEF PathChars
<1>4. Native(s) \in Seq(PathChars)
  <2> HIDE DEF n
  <2> QED BY <1>1, <1>2, <1>3
<1>5. ASSUME s \in Seq(PathChars) PROVE Native(s) = s
  <2>1. \A i \in 1 .. n : s[i] \in PathChars
    BY <1>5
  <2>2. \A i \in 1 .. n : s[i] # BACKSLASH
    BY <2>1, PathAlphabet
  <2>3. s = [i \in 1 .. n |-> s[i]]
    BY <1>1
  <2> HIDE DEF n
  <2> QED BY <1>2, <2>2, <2>3
<1> QED BY <1>4, <1>5

\* path(p): the members of a path made of a string agree.
LEMMA PathMade ==
  ASSUME NEW s \in Seq(Given)
  PROVE  /\ Path(s) \in Paths /\ Path(s).str = Native(s) /\ Path(s).vec = Split(Native(s), SEP)
         /\ s \in Seq(PathChars) => Path(s).str = s /\ Path(s).vec = Split(s, SEP)
<1> DEFINE u == Native(s)
           v == Split(u, SEP)
<1>1. u \in Seq(PathChars) /\ (s \in Seq(PathChars) => u = s)
  BY NativeText
<1>2. Path(s) = [str |-> u, vec |-> v]
  BY Zenon DEF Path
<1> HIDE DEF u
<1>3. v \in Seq(Seq(NameChars))
  BY <1>1, TokensOver DEF NameChars
<1>4. u = <<>> => v = <<>>
  BY SplitNothing
<1>5. u # <<>> /\ u[1] # SEP => v # <<>> /\ v[1] # <<>>
  BY <1>1, FirstToken
<1> HIDE DEF v
<1>6. Path(s).str = u /\ Path(s).vec = v /\ Path(s) \in [str : Seq(PathChars), vec : Seq(Seq(NameChars))]
  BY <1>1, <1>2, <1>3
<1>7. Agrees(Path(s))
  BY <1>4, <1>5, <1>6 DEF Agrees, IsAbsolute, v
<1> QED BY <1>1, <1>6, <1>7 DEF Paths, u, v

\* A string with a separator at its end.
Slashed(s) == IF s = <<>> \/ Last(s) # SEP THEN Append(s, SEP) ELSE s

\* A separator at the end adds no component.
LEMMA SlashedEnds ==
  ASSUME NEW s \in Seq(PathChars)
  PROVE  \E t \in Seq(PathChars) :
           /\ Slashed(s) = Add(t, SEP)
           /\ NonEmpty(Split(t, SEP)) = NonEmpty(Split(s, SEP))
           /\ s # <<>> => Slashed(s)[1] = s[1]
           /\ s = <<>> => Slashed(s)[1] = SEP
<1>1. CASE s = <<>> \/ Last(s) # SEP
  <2>1. Slashed(s) = Add(s, SEP)
    BY <1>1, Zenon DEF Slashed, Add
  <2>2. Add(s, SEP)[1] = IF s = <<>> THEN SEP ELSE s[1]
    BY PathAlphabet, ElementsOfAdd
  <2> QED BY <2>1, <2>2
<1>2. CASE ~(s = <<>> \/ Last(s) # SEP)
  <2>1. PICK t \in Seq(PathChars), x \in PathChars : s = Add(t, x)
    BY <1>2, Lengthens
  <2>2. x = SEP
    BY <1>2, <2>1, ElementsOfAdd
  <2>3. Slashed(s) = s
    BY <1>2 DEF Slashed
  <2>4. NonEmpty(Split(Add(t, SEP), SEP)) = NonEmpty(Split(t, SEP))
    BY PathAlphabet, NamesBehind
  <2> QED BY <1>2, <2>1, <2>2, <2>3, <2>4
<1> QED BY <1>1, <1>2

\* What is put in front comes first.
LEMMA FirstOfCat ==
  ASSUME NEW X, NEW u \in Seq(X), NEW v \in Seq(X), u # <<>>
  PROVE  Cat(u, v) # <<>> /\ Cat(u, v)[1] = u[1]
<1>1. Len(u) \in Nat /\ Len(u) # 0 /\ Len(v) \in Nat
  OBVIOUS
<1>2. (u \o v)[1] = u[1] /\ Len(u \o v) = Len(u) + Len(v)
  <2>1. 1 \in 1 .. Len(u) + Len(v) /\ 1 <= Len(u)
    BY <1>1
  <2> QED BY <2>1, ConcatProperties
<1>3. u \o v # <<>>
  BY <1>1, <1>2
<1> QED BY <1>2, <1>3 DEF Cat

\* operator/= for a path that is not absolute: the components are put together, and
\* the result is absolute exactly if it was put behind an absolute path or nothing.
LEMMA DivideRelative ==
  ASSUME NEW p \in Paths, NEW other \in Paths, ~IsAbsolute(other)
  PROVE  /\ Divide(p, other) = [str |-> Cat(Slashed(p.str), other.str), vec |-> Cat(p.vec, other.vec)]
         /\ Divide(p, other) \in Paths /\ ~IsEmpty(Divide(p, other))
         /\ IsAbsolute(Divide(p, other)) <=> IsAbsolute(p) \/ IsEmpty(p)
         /\ NonEmpty(Divide(p, other).vec) = Cat(NonEmpty(p.vec), NonEmpty(other.vec))
<1> DEFINE d == Divide(p, other)
           a == p.str
           b == other.str
           v == p.vec
           w == other.vec
           all == Cat(Slashed(a), b)
           both == Cat(v, w)
           X == Seq(NameChars)
<1>1. /\ a \in Seq(PathChars) /\ b \in Seq(PathChars) /\ v \in Seq(X) /\ w \in Seq(X)
      /\ NonEmpty(v) = NonEmpty(Split(a, SEP)) /\ NonEmpty(w) = NonEmpty(Split(b, SEP))
      /\ a = <<>> => v = <<>>
      /\ a # <<>> /\ a[1] # SEP /\ v # <<>> => v[1] # <<>>
  BY DEF Paths, Agrees, IsAbsolute
<1>2. d = [str |-> all, vec |-> both]
  BY Zenon DEF Divide, Cat, Slashed
<1>a. (IsAbsolute(p) \/ IsEmpty(p)) <=> (a = <<>> \/ a[1] = SEP)
  BY DEF IsAbsolute, IsEmpty
<1> HIDE DEF a, b, v, w, X
<1>3. PICK t \in Seq(PathChars) :
        /\ Slashed(a) = Add(t, SEP)
        /\ NonEmpty(Split(t, SEP)) = NonEmpty(Split(a, SEP))
        /\ a # <<>> => Slashed(a)[1] = a[1]
        /\ a = <<>> => Slashed(a)[1] = SEP
  BY <1>1, SlashedEnds
<1>4. Add(t, SEP) \in Seq(PathChars) /\ Add(t, SEP) # <<>>
  BY PathAlphabet, AddIs
<1>5. all \in Seq(PathChars) /\ all # <<>> /\ all[1] = Slashed(a)[1]
  <2> DEFINE first == Add(t, SEP)
  <2>1. first \in Seq(PathChars) /\ first # <<>>
    BY <1>4
  <2> HIDE DEF first
  <2>2. Cat(first, b) \in Seq(PathChars)
    BY <1>1, <2>1, CatIs
  <2>3. Cat(first, b) # <<>> /\ Cat(first, b)[1] = first[1]
    BY <1>1, <2>1, FirstOfCat
  <2> QED BY <1>3, <2>2, <2>3 DEF first
<1>6. NonEmpty(Split(all, SEP)) = Cat(NonEmpty(v), NonEmpty(w))
  <2>1. NonEmpty(Split(Cat(Add(t, SEP), b), SEP)) = Cat(NonEmpty(Split(t, SEP)), NonEmpty(Split(b, SEP)))
    BY <1>1, PathAlphabet, NamesBehind
  <2> QED BY <1>1, <1>3, <2>1
<1>7. both \in Seq(X) /\ NonEmpty(both) = Cat(NonEmpty(v), NonEmpty(w))
  BY <1>1, CatIs, NonEmptyCat
<1>8. all[1] # SEP /\ both # <<>> => both[1] # <<>>
  <2> SUFFICES ASSUME all[1] # SEP, both # <<>> PROVE both[1] # <<>>
    OBVIOUS
  <2>1. a # <<>> /\ a[1] # SEP
    BY <1>3, <1>5
  <2>2. v # <<>>
    <3> SUFFICES ASSUME v = <<>> PROVE FALSE
      OBVIOUS
    <3> DEFINE z == <<>>
    <3>1. z \in Seq(X) /\ z = <<>>
      OBVIOUS
    <3>2. Split(a, SEP) \in Seq(Seq(PathChars)) /\ Split(a, SEP) # <<>> /\ Split(a, SEP)[1] # <<>>
      BY <1>1, <2>1, FirstToken, SplitIs
    <3> HIDE DEF z
    <3>3. NonEmpty(z) = <<>>
      BY <3>1, NonEmptyOn
    <3>4. NonEmpty(Split(a, SEP)) = <<>>
      BY <1>1, <3>1, <3>3
    <3>5. Range(a) \subseteq {SEP}
      BY <1>1, <3>4, PathAlphabet, NoNames
    <3>6. a[1] \in Range(a)
      BY <1>1, <2>1 DEF Range
    <3> QED BY <2>1, <3>5, <3>6
  <2>3. both[1] = v[1]
    BY <1>1, <2>2, FirstOfCat
  <2> QED BY <1>1, <2>1, <2>2, <2>3
<1> HIDE DEF all, both
<1>9. d.str = all /\ d.vec = both /\ d \in [str : Seq(PathChars), vec : Seq(X)]
  BY <1>2, <1>5, <1>7
<1> HIDE DEF d
<1>10. (IsAbsolute(d) <=> all[1] = SEP) /\ ~IsEmpty(d)
  BY <1>5, <1>9 DEF IsAbsolute, IsEmpty
<1>11. Agrees(d)
  BY <1>5, <1>6, <1>7, <1>8, <1>9, <1>10 DEF Agrees
<1>12. d \in Paths
  BY <1>9, <1>11 DEF Paths, X
<1>13. IsAbsolute(d) <=> IsAbsolute(p) \/ IsEmpty(p)
  BY <1>3, <1>5, <1>10, <1>a
<1>14. NonEmpty(d.vec) = Cat(NonEmpty(v), NonEmpty(w))
  BY <1>7, <1>9
<1> QED BY <1>2, <1>10, <1>12, <1>13, <1>14 DEF d, a, b, v, w, all, both

\* operator/= keeps the members in agreement.
LEMMA DivideMade ==
  ASSUME NEW p \in Paths, NEW other \in Paths
  PROVE  Divide(p, other) \in Paths
<1>1. CASE IsAbsolute(other)
  BY <1>1 DEF Divide
<1>2. CASE ~IsAbsolute(other)
  BY <1>2, DivideRelative
<1> QED BY <1>1, <1>2

\* A component is a relative path of its own.
LEMMA ItemPath ==
  ASSUME NEW item \in Seq(NameChars)
  PROVE  /\ Path(item) \in Paths /\ ~IsAbsolute(Path(item)) /\ Path(item).str = item
         /\ NonEmpty(Path(item).vec) = NonEmpty(<<item>>)
<1>1. item \in Seq(PathChars) /\ item \in Seq(Given)
  BY PathAlphabet
<1>2. Path(item) \in Paths /\ Path(item).str = item /\ Path(item).vec = Split(item, SEP)
  BY <1>1, PathMade
<1>3. item # <<>> => item[1] # SEP
  BY PathAlphabet
<1>4. NonEmpty(Split(item, SEP)) = NonEmpty(<<item>>)
  BY PathAlphabet, OneLine
<1> QED BY <1>2, <1>3, <1>4 DEF IsAbsolute

\* The empty path.
LEMMA EmptyPathMade ==
  /\ EmptyPath \in Paths /\ EmptyPath.str = <<>> /\ EmptyPath.vec = <<>>
  /\ IsEmpty(EmptyPath) /\ ~IsAbsolute(EmptyPath)
<1> DEFINE z == <<>>
<1>1. z \in Seq(PathChars) /\ z \in Seq(Given) /\ z = <<>>
  OBVIOUS
<1> HIDE DEF z
<1>2. Path(z) \in Paths /\ Path(z).str = z /\ Path(z).vec = Split(z, SEP)
  BY <1>1, PathMade
<1>3. Split(z, SEP) = <<>>
  BY <1>1, SplitNothing
<1> QED BY <1>1, <1>2, <1>3 DEF EmptyPath, IsEmpty, IsAbsolute, z

----------------------------------------------------------------------------
(* parent_path.                                                             *)

\* What the loop of parent_path does with a component, and all of the loop.
NextParent(p, parent, item) ==
  IF IsEmpty(parent) /\ ~IsAbsolute(p) THEN Path(item) ELSE Divide(parent, Path(item))
ParentStep(p) == [parent \in Paths |-> [item \in Seq(NameChars) |-> NextParent(p, parent, item)]]
Rebuilt(p, v) ==
  FoldLeft(LAMBDA parent, item :
             IF IsEmpty(parent) /\ ~IsAbsolute(p) THEN Path(item) ELSE Divide(parent, Path(item)),
           EmptyPath, v)

\* The fold of parent_path, as an operation on paths.
LEMMA ParentOperation ==
  ASSUME NEW p
  PROVE  EmptyPath \in Paths /\ Operation(ParentStep(p), Paths, Seq(NameChars))
<1>1. EmptyPath \in Paths
  BY EmptyPathMade
<1>2. ASSUME NEW parent \in Paths, NEW item \in Seq(NameChars) PROVE ParentStep(p)[parent][item] \in Paths
  <2>1. Path(item) \in Paths
    BY ItemPath
  <2>2. Divide(parent, Path(item)) \in Paths
    BY <2>1, DivideMade
  <2>3. NextParent(p, parent, item) \in Paths
    BY <2>1, <2>2 DEF NextParent
  <2> QED BY <2>3, Zenon DEF ParentStep
<1> QED BY <1>1, <1>2, Zenon DEF Operation

\* ... of which Rebuilt is the fold.
LEMMA ParentFold ==
  ASSUME NEW p, NEW s \in Seq(Seq(NameChars))
  PROVE  Rebuilt(p, s) = Fold(ParentStep(p), EmptyPath, s)
<1> DEFINE A == Paths
           X == Seq(NameChars)
           F == ParentStep(p)
           base == EmptyPath
           it == CHOOSE f : f = [S \in SUBSET DOMAIN s |->
                                   IF S = {} THEN base ELSE NextParent(p, f[S \ {Max(S)}], s[Max(S)])]
<1>1. base \in A /\ Operation(F, A, X)
  BY ParentOperation
<1>2. Rebuilt(p, s) = it[DOMAIN s]
  BY DEF Rebuilt, FoldLeft, MapThenFoldSet, NextParent
<1>3. \A acc \in A, item \in X : F[acc][item] = NextParent(p, acc, item)
  BY Zenon DEF ParentStep
<1> HIDE DEF A, X, F, base
<1>4. PICK g : FoldsAll(g, F, base, A, X, s)
  BY <1>1, FoldAnswers DEF X
<1>5. g = [S \in SUBSET DOMAIN s |-> IF S = {} THEN base ELSE NextParent(p, g[S \ {Max(S)}], s[Max(S)])]
  <2>1. /\ g = [S \in SUBSET DOMAIN s |-> IF S = {} THEN base ELSE F[g[S \ {Max(S)}]][s[Max(S)]]]
        /\ \A S \in SUBSET DOMAIN s : S # {} => g[S \ {Max(S)}] \in A /\ s[Max(S)] \in X
    BY <1>4 DEF FoldsAll
  <2>2. \A S \in SUBSET DOMAIN s : S # {} =>
          F[g[S \ {Max(S)}]][s[Max(S)]] = NextParent(p, g[S \ {Max(S)}], s[Max(S)])
    BY <1>3, <2>1, Zenon
  <2> QED BY <2>1, <2>2
<1>6. it = [S \in SUBSET DOMAIN s |-> IF S = {} THEN base ELSE NextParent(p, it[S \ {Max(S)}], s[Max(S)])]
  BY <1>5
<1> HIDE DEF it
<1>7. Unfolds(it, F, base, A, s)
  <2>1. it[{}] = base
    BY <1>6
  <2>2. ASSUME NEW S \in SUBSET DOMAIN s, S # {}, it[S \ {Max(S)}] \in A
        PROVE it[S] = F[it[S \ {Max(S)}]][s[Max(S)]]
    <3>1. s[Max(S)] \in X
      BY <1>4, <2>2 DEF FoldsAll
    <3>2. it[S] = NextParent(p, it[S \ {Max(S)}], s[Max(S)])
      BY <1>6, <2>2, Zenon
    <3> QED BY <1>3, <2>2, <3>1, <3>2, Zenon
  <2> QED BY <2>1, <2>2, Zenon DEF Unfolds
<1>8. it[DOMAIN s] = Fold(F, base, s)
  BY <1>1, <1>7, UnfoldIs DEF X
<1> QED BY <1>2, <1>8 DEF F, base

\* Rebuilt takes one component after the other.
LEMMA ParentOf ==
  ASSUME NEW p
  PROVE  /\ Rebuilt(p, <<>>) = EmptyPath
         /\ \A v \in Seq(Seq(NameChars)) : Rebuilt(p, v) \in Paths
         /\ \A v \in Seq(Seq(NameChars)), item \in Seq(NameChars) :
              Rebuilt(p, Add(v, item)) = NextParent(p, Rebuilt(p, v), item)
<1> DEFINE A == Paths
           X == Seq(NameChars)
           F == ParentStep(p)
           base == EmptyPath
<1>1. base \in A /\ Operation(F, A, X)
  BY ParentOperation
<1>2. \A acc \in A, item \in X : F[acc][item] = NextParent(p, acc, item)
  BY Zenon DEF ParentStep
<1>3. \A s \in Seq(X) : Rebuilt(p, s) = Fold(F, base, s)
  BY ParentFold
<1>4. Rebuilt(p, <<>>) = base
  <2> HIDE DEF A, X, F, base
  <2>1. <<>> \in Seq(X)
    OBVIOUS
  <2>2. Fold(F, base, <<>>) = base
    BY <1>1, FoldEmpty
  <2> QED BY <1>3, <2>1, <2>2
<1>5. ASSUME NEW s \in Seq(X) PROVE Rebuilt(p, s) \in A
  <2> HIDE DEF A, X, F, base
  <2> QED BY <1>1, <1>3, FoldInto
<1>6. ASSUME NEW s \in Seq(X), NEW item \in X
      PROVE  Rebuilt(p, Add(s, item)) = NextParent(p, Rebuilt(p, s), item)
  <2> HIDE DEF A, X, F, base
  <2>1. Append(s, item) \in Seq(X)
    OBVIOUS
  <2>2. Fold(F, base, Append(s, item)) = F[Fold(F, base, s)][item]
    BY <1>1, FoldAppend
  <2>3. Rebuilt(p, Append(s, item)) = NextParent(p, Rebuilt(p, s), item)
    BY <1>2, <1>3, <1>5, <2>1, <2>2, Zenon
  <2> QED BY <2>3, Zenon DEF Add
<1> QED BY <1>4, <1>5, <1>6 DEF A, X, base

\* What the loop of parent_path has made of the components v of p.
IsRebuilt(p, v, r) ==
  /\ r \in Paths /\ NonEmpty(r.vec) = NonEmpty(v)
  /\ v = <<>> => r = EmptyPath
  /\ v # <<>> => ~IsEmpty(r) /\ (IsAbsolute(r) <=> IsAbsolute(p))

\* One more component.
LEMMA RebuiltOn ==
  ASSUME NEW p, NEW v \in Seq(Seq(NameChars)), NEW item \in Seq(NameChars),
         IsRebuilt(p, v, Rebuilt(p, v)), v = <<>> /\ ~IsAbsolute(p) => item # <<>>
  PROVE  IsRebuilt(p, Add(v, item), Rebuilt(p, Add(v, item)))
<1> DEFINE r == Rebuilt(p, v)
           q == Path(item)
           X == Seq(NameChars)
           new == Rebuilt(p, Add(v, item))
           w == Add(v, item)
           one == <<item>>
<1>1. q \in Paths /\ ~IsAbsolute(q) /\ q.str = item /\ NonEmpty(q.vec) = NonEmpty(one)
  BY ItemPath
<1>2. new = IF IsEmpty(r) /\ ~IsAbsolute(p) THEN q ELSE Divide(r, q)
  BY ParentOf, Zenon DEF NextParent
<1>3. /\ r \in Paths /\ NonEmpty(r.vec) = NonEmpty(v)
      /\ v = <<>> => r = EmptyPath
      /\ v # <<>> => ~IsEmpty(r) /\ (IsAbsolute(r) <=> IsAbsolute(p))
  BY DEF IsRebuilt
<1>4. v \in Seq(X) /\ item \in X
  OBVIOUS
<1> HIDE DEF r, q, X, new, one
<1>5. w # <<>> /\ NonEmpty(w) = Cat(NonEmpty(v), NonEmpty(one))
  <2>1. one \in Seq(X) /\ w = Cat(v, one) /\ w # <<>>
    BY <1>4, AddIs DEF one
  <2>2. NonEmpty(Cat(v, one)) = Cat(NonEmpty(v), NonEmpty(one))
    BY <1>4, <2>1, NonEmptyCat
  <2> QED BY <2>1, <2>2
<1> HIDE DEF w
<1>6. CASE IsEmpty(r) /\ ~IsAbsolute(p)
  <2>1. new = q /\ v = <<>> /\ item # <<>>
    BY <1>2, <1>3, <1>6
  <2>2. ~IsEmpty(q)
    BY <1>1, <2>1 DEF IsEmpty
  <2>3. NonEmpty(w) = NonEmpty(one)
    <3> DEFINE z == <<>>
               o == NonEmpty(one)
    <3>1. z \in Seq(X) /\ z = <<>> /\ one \in Seq(X)
      BY <1>4 DEF one
    <3> HIDE DEF z
    <3>2. NonEmpty(z) = z /\ o \in Seq(X)
      BY <3>1, NonEmptyOn
    <3> HIDE DEF o
    <3>3. Cat(<<>>, o) = o
      BY <3>2, AddIs
    <3> QED BY <1>5, <2>1, <3>1, <3>2, <3>3 DEF o
  <2>4. IsRebuilt(p, w, new)
    BY <1>1, <1>5, <1>6, <2>1, <2>2, <2>3 DEF IsRebuilt
  <2> QED BY <2>4 DEF w, new
<1>7. CASE ~(IsEmpty(r) /\ ~IsAbsolute(p))
  <2>1. new = Divide(r, q)
    BY <1>2, <1>7
  <2>2. /\ Divide(r, q) \in Paths /\ ~IsEmpty(Divide(r, q))
        /\ IsAbsolute(Divide(r, q)) <=> IsAbsolute(r) \/ IsEmpty(r)
        /\ NonEmpty(Divide(r, q).vec) = Cat(NonEmpty(r.vec), NonEmpty(q.vec))
    BY <1>1, <1>3, DivideRelative
  <2>3. NonEmpty(new.vec) = NonEmpty(w)
    BY <1>1, <1>3, <1>5, <2>1, <2>2
  <2>4. IsAbsolute(new) <=> IsAbsolute(p)
    <3>1. v = <<>> => IsEmpty(r)
      BY <1>3, EmptyPathMade
    <3> QED BY <1>3, <1>7, <2>1, <2>2, <3>1
  <2>5. IsRebuilt(p, w, new)
    BY <1>5, <2>1, <2>2, <2>3, <2>4 DEF IsRebuilt
  <2> QED BY <2>5 DEF w, new
<1> QED BY <1>6, <1>7 DEF new, w

\* parent_path puts together a path that names the components it is given, absolute
\* exactly if the path they come from is.
LEMMA RebuiltIs ==
  ASSUME NEW p, NEW v \in Seq(Seq(NameChars)), ~IsAbsolute(p) /\ v # <<>> => v[1] # <<>>
  PROVE  IsRebuilt(p, v, Rebuilt(p, v))
<1> DEFINE X == Seq(NameChars)
           Named1(u) == ~IsAbsolute(p) /\ u # <<>> => u[1] # <<>>
           U == {u \in Seq(X) : Named1(u) => IsRebuilt(p, u, Rebuilt(p, u))}
           z == <<>>
<1>1. z \in Seq(X) /\ z = <<>>
  OBVIOUS
<1> HIDE DEF z
<1>2. z \in U
  <2>1. Rebuilt(p, z) = EmptyPath
    BY <1>1, ParentOf
  <2>2. IsRebuilt(p, z, EmptyPath)
    BY <1>1, EmptyPathMade DEF IsRebuilt
  <2> QED BY <1>1, <2>1, <2>2
<1>3. ASSUME NEW u \in Seq(X), NEW item \in X, u \in U PROVE Add(u, item) \in U
  <2>1. Add(u, item) \in Seq(X) /\ Add(u, item) # <<>>
    <3> HIDE DEF X
    <3> QED BY AddIs
  <2>2. Add(u, item)[1] = IF u = <<>> THEN item ELSE u[1]
    <3> HIDE DEF X
    <3> QED BY ElementsOfAdd
  <2>3. SUFFICES ASSUME Named1(Add(u, item)) PROVE IsRebuilt(p, Add(u, item), Rebuilt(p, Add(u, item)))
    BY <2>1
  <2>4. Named1(u) /\ (u = <<>> /\ ~IsAbsolute(p) => item # <<>>)
    BY <2>1, <2>2, <2>3
  <2>5. IsRebuilt(p, u, Rebuilt(p, u))
    BY <1>3, <2>4
  <2> QED BY <2>4, <2>5, RebuiltOn
<1>4. Seq(X) \subseteq U
  <2> HIDE DEF U, X
  <2> QED BY <1>1, <1>2, <1>3, HoldsOfTexts
<1> QED BY <1>4

\* A sequence that is not empty, taken apart at its end.
LEMMA FrontAndLast ==
  ASSUME NEW X, NEW v \in Seq(X), v # <<>>
  PROVE  /\ v = Add(Front(v), Last(v)) /\ Front(v) \in Seq(X) /\ Last(v) \in X
         /\ Front(v) = <<>> <=> Len(v) = 1
         /\ Front(v) # <<>> => Front(v)[1] = v[1]
<1>1. PICK w \in Seq(X), x \in X : v = Add(w, x)
  BY Lengthens
<1>2. /\ Last(v) = x /\ Front(v) = w /\ Len(v) = Len(w) + 1 /\ v[1] = IF w = <<>> THEN x ELSE w[1]
  BY <1>1, ElementsOfAdd
<1>3. w = <<>> <=> Len(w) = 0
  BY EmptySeq
<1>4. Len(w) \in Nat
  OBVIOUS
<1> QED BY <1>1, <1>2, <1>3, <1>4

\* The names of the last component.
LEMMA LastNamed ==
  ASSUME NEW X, NEW v \in Seq(X), v # <<>>
  PROVE  /\ NonEmpty(v) = Cat(NonEmpty(Front(v)), NonEmpty(<<Last(v)>>))
         /\ Len(v) = 1 => NonEmpty(<<Last(v)>>) = NonEmpty(v)
<1> DEFINE w == Front(v)
           x == Last(v)
           one == <<x>>
<1>1. v = Add(w, x) /\ w \in Seq(X) /\ x \in X /\ (w = <<>> <=> Len(v) = 1)
  BY FrontAndLast
<1> HIDE DEF w, x
<1>2. one \in Seq(X) /\ v = Cat(w, one)
  BY <1>1, AddIs
<1> HIDE DEF one
<1>3. NonEmpty(Cat(w, one)) = Cat(NonEmpty(w), NonEmpty(one))
  BY <1>1, <1>2, NonEmptyCat
<1>4. ASSUME Len(v) = 1 PROVE one = v
  <2> DEFINE z == <<>>
  <2>1. Cat(<<>>, one) = one
    BY <1>2, AddIs
  <2> QED BY <1>1, <1>2, <1>4, <2>1
<1> QED BY <1>2, <1>3, <1>4 DEF one, w, x

\* The root names nothing, the dot itself.
LEMMA RootAndDot ==
  /\ Path(<<SEP>>) \in Paths /\ IsAbsolute(Path(<<SEP>>)) /\ NonEmpty(Path(<<SEP>>).vec) = <<>>
  /\ Path(<<DOT>>) \in Paths /\ ~IsAbsolute(Path(<<DOT>>)) /\ NonEmpty(Path(<<DOT>>).vec) = <<<<DOT>>>>
<1> DEFINE r == <<SEP>>
           d == <<DOT>>
           one == <<d>>
           z == <<>>
           X == Seq(NameChars)
<1>1. r \in Seq(PathChars) /\ r \in Seq(Given) /\ r # <<>> /\ r[1] = SEP
  BY PathAlphabet
<1>2. d \in X /\ d # <<>> /\ one = Add(z, d) /\ z \in Seq(PathChars) /\ z \in Seq(X) /\ z = <<>> /\ r = Add(z, SEP)
  BY PathAlphabet DEF Add
<1> HIDE DEF r, d, one, z
<1>3. Path(r) \in Paths /\ Path(r).str = r /\ Path(r).vec = Split(r, SEP)
  BY <1>1, PathMade
<1>4. NonEmpty(Split(r, SEP)) = <<>>
  <2>1. NonEmpty(Split(Add(z, SEP), SEP)) = NonEmpty(Split(z, SEP))
    BY <1>2, PathAlphabet, NamesBehind
  <2>2. Split(z, SEP) = z
    BY <1>2, SplitNothing
  <2>3. NonEmpty(z) = z
    BY <1>2, NonEmptyOn
  <2> QED BY <1>2, <2>1, <2>2, <2>3
<1>5. Path(d) \in Paths /\ ~IsAbsolute(Path(d)) /\ NonEmpty(Path(d).vec) = NonEmpty(<<d>>)
  BY <1>2, ItemPath DEF X
<1>6. NonEmpty(one) = one
  <2> HIDE DEF X
  <2>1. NonEmpty(Add(z, d)) = Add(NonEmpty(z), d) /\ NonEmpty(z) = z
    BY <1>2, NonEmptyOn
  <2> QED BY <1>2, <2>1
<1>7. IsAbsolute(Path(r))
  BY <1>1, <1>3 DEF IsAbsolute
<1> QED BY <1>3, <1>4, <1>5, <1>6, <1>7 DEF r, d, one

\* parent_path and filename keep the members in agreement.
LEMMA ParentMade ==
  ASSUME NEW p \in Paths
  PROVE  ParentPath(p) \in Paths /\ (p.vec # <<>> => Filename(p) \in Paths)
<1>1. p.vec \in Seq(Seq(NameChars)) /\ Agrees(p)
  BY DEF Paths
<1> DEFINE v == p.vec
<1>2. v \in Seq(Seq(NameChars))
  BY <1>1
<1>3. EmptyPath \in Paths /\ Path(<<SEP>>) \in Paths /\ Path(<<DOT>>) \in Paths
  BY EmptyPathMade, RootAndDot
<1>4. Rebuild(p) \in Paths
  <2>1. Rebuild(p) = Rebuilt(p, Front(v))
    BY Zenon DEF Rebuild, Rebuilt
  <2>2. Front(v) \in Seq(Seq(NameChars))
    <3> HIDE DEF v
    <3>1. v = <<>> => Front(v) = v
      BY DEF Front
    <3>2. v # <<>> => Front(v) \in Seq(Seq(NameChars))
      BY <1>2, FrontAndLast
    <3> QED BY <1>2, <3>1, <3>2
  <2> QED BY <2>1, <2>2, ParentOf
<1>5. ParentPath(p) \in Paths
  BY <1>3, <1>4 DEF ParentPath
<1>6. ASSUME v # <<>> PROVE Filename(p) \in Paths
  <2>1. Last(v) \in Seq(NameChars)
    <3> HIDE DEF v
    <3> QED BY <1>2, <1>6, FrontAndLast
  <2>2. Path(Last(v)) \in Paths
    BY <2>1, ItemPath
  <2> QED BY <1>3, <2>2 DEF Filename
<1> QED BY <1>5, <1>6

\* The parts of a path: what parent_path() / filename() leads to.
LEMMA ParentNamed ==
  ASSUME NEW p \in Paths, p.vec # <<>>
  PROVE  /\ IsAbsolute(ParentPath(p)) <=> IsAbsolute(p)
         /\ NonEmpty(Divide(ParentPath(p), Filename(p)).vec) =
              IF Len(p.vec) = 1 /\ ~IsAbsolute(p) THEN Cat(<<<<DOT>>>>, NonEmpty(p.vec)) ELSE NonEmpty(p.vec)
<1> DEFINE v == p.vec
           item == Last(v)
           front == Front(v)
           q == Path(item)
           r == ParentPath(p)
           X == Seq(NameChars)
           one == <<item>>
<1>1. v \in Seq(X) /\ v # <<>> /\ ~IsEmpty(p) /\ (~IsAbsolute(p) => v[1] # <<>>)
  BY DEF Paths, Agrees, IsEmpty
<1>2. Filename(p) = q
  BY <1>1, Zenon DEF Filename
<1>3. /\ r = IF Len(v) = 1 THEN (IF IsAbsolute(p) THEN Path(<<SEP>>) ELSE Path(<<DOT>>)) ELSE Rebuild(p)
  BY <1>1 DEF ParentPath
<1>4. r \in Paths
  BY ParentMade
<1> HIDE DEF v, r, X
<1>5. /\ front \in Seq(X) /\ item \in X /\ (front = <<>> <=> Len(v) = 1) /\ (front # <<>> => front[1] = v[1])
  BY <1>1, FrontAndLast
<1>6. NonEmpty(v) = Cat(NonEmpty(front), NonEmpty(one)) /\ (Len(v) = 1 => NonEmpty(one) = NonEmpty(v))
  BY <1>1, LastNamed
<1>7. Rebuild(p) = Rebuilt(p, front)
  BY Zenon DEF Rebuild, Rebuilt, v
<1> HIDE DEF item, front
<1>8. q \in Paths /\ ~IsAbsolute(q) /\ NonEmpty(q.vec) = NonEmpty(one)
  BY <1>5, ItemPath DEF X
<1> HIDE DEF q, one
<1>9. NonEmpty(Divide(r, q).vec) = Cat(NonEmpty(r.vec), NonEmpty(one))
  BY <1>4, <1>8, DivideRelative
<1>10. CASE Len(v) # 1
  <2>1. IsRebuilt(p, front, Rebuilt(p, front))
    BY <1>1, <1>5, <1>10, RebuiltIs DEF X
  <2>2. NonEmpty(r.vec) = NonEmpty(front) /\ (IsAbsolute(r) <=> IsAbsolute(p))
    BY <1>3, <1>5, <1>7, <1>10, <2>1 DEF IsRebuilt
  <2> QED BY <1>2, <1>6, <1>9, <1>10, <2>2 DEF v, r
<1>11. CASE Len(v) = 1 /\ IsAbsolute(p)
  <2>1. r = Path(<<SEP>>)
    BY <1>3, <1>11
  <2>2. IsAbsolute(r) /\ NonEmpty(r.vec) = <<>>
    BY <2>1, RootAndDot
  <2> DEFINE o == NonEmpty(one)
  <2>3. o \in Seq(X)
    <3>1. one \in Seq(X)
      BY <1>5 DEF one
    <3> QED BY <3>1, NonEmptyOn
  <2> HIDE DEF o
  <2>4. Cat(<<>>, o) = o
    BY <2>3, AddIs
  <2> QED BY <1>2, <1>6, <1>9, <1>11, <2>2, <2>4 DEF v, r, o
<1>12. CASE Len(v) = 1 /\ ~IsAbsolute(p)
  <2>1. r = Path(<<DOT>>)
    BY <1>3, <1>12
  <2>2. ~IsAbsolute(r) /\ NonEmpty(r.vec) = <<<<DOT>>>>
    BY <2>1, RootAndDot
  <2> QED BY <1>2, <1>6, <1>9, <1>12, <2>2 DEF v, r
<1> QED BY <1>10, <1>11, <1>12

----------------------------------------------------------------------------
(* extension and remove_extension.                                          *)

\* The last dot of s.
LastDot(s) == SelectLastInSeq(s, LAMBDA ch : ch = DOT)

\* Behind the last dot there is none.
LEMMA LastDotIs ==
  ASSUME NEW s \in Seq(PathChars), DOT \in Range(s)
  PROVE  LastDot(s) \in 1 .. Len(s) /\ LastDelim(s, DOT, Len(s), LastDot(s))
<1> DEFINE n == Len(s)
           I == {i \in 1 .. n : s[i] = DOT}
<1>1. n \in Nat /\ I # {} /\ I \subseteq 0 .. n
  BY DEF Range
<1>2. LastDot(s) = IF I # {} THEN Max(I) ELSE 0
  BY Zenon DEF LastDot, SelectLastInSeq
<1> DEFINE k == Max(I)
<1>3. k \in I /\ \A i \in I : k >= i
  <2> HIDE DEF I, n
  <2> QED BY <1>1, MaxSays
<1> HIDE DEF k
<1>4. k \in 1 .. n /\ s[k] = DOT
  BY <1>3
<1>5. \A i \in k + 1 .. n : s[i] # DOT
  <2> SUFFICES ASSUME NEW i \in k + 1 .. n, s[i] = DOT PROVE FALSE
    OBVIOUS
  <2>1. i \in I /\ i > k
    BY <1>1, <1>4
  <2> QED BY <1>3, <1>4, <2>1
<1>6. LastDelim(s, DOT, n, k)
  BY <1>1, <1>4, <1>5 DEF LastDelim
<1> QED BY <1>1, <1>2, <1>4, <1>6 DEF k

\* A round of remove_extension keeps the members in agreement.
LEMMA WithoutMade ==
  ASSUME NEW p \in Paths
  PROVE  /\ WithoutExtension(p) \in Paths
         /\ DOT \in Range(p.str) => WithoutExtension(p).str = SubSeq(p.str, 1, LastDot(p.str) - 1)
<1> DEFINE s == p.str
           k == LastDot(s)
           u == SubSeq(s, 1, k - 1)
<1>1. s \in Seq(PathChars)
  BY DEF Paths
<1>2. WithoutExtension(p) = IF DOT \in Range(s) THEN Path(u) ELSE p
  BY Zenon DEF WithoutExtension, LastDot
<1>3. ASSUME DOT \in Range(s) PROVE Path(u) \in Paths /\ Path(u).str = u
  <2>1. k \in 1 .. Len(s)
    BY <1>1, <1>3, LastDotIs
  <2> HIDE DEF k, s
  <2>2. u \in Seq(PathChars)
    BY <1>1, <2>1
  <2> HIDE DEF u
  <2> QED BY <2>2, PathAlphabet, PathMade
<1> QED BY <1>2, <1>3

\* The last part is what follows the last dot.
LEMMA ExtensionIs ==
  ASSUME NEW p \in Paths, DOT \in Range(p.str), Last(p.str) # DOT
  PROVE  Extension(p).str = <<DOT>> \o Cut(p.str, LastDot(p.str), Len(p.str))
<1> DEFINE s == p.str
           n == Len(s)
           k == LastDot(s)
           done == ReadLines(s, DOT).done
           item == ReadLines(s, DOT).item
           X == Seq(PathChars)
           parts == Split(s, DOT)
           no == FALSE
<1>1. s \in X /\ n \in Nat /\ no \in BOOLEAN
  BY DEF Paths
<1>2. k \in 1 .. n /\ LastDelim(s, DOT, n, k) /\ k # n
  <2>1. k \in 1 .. n /\ LastDelim(s, DOT, n, k)
    BY <1>1, LastDotIs
  <2>2. s[k] = DOT
    BY <2>1 DEF LastDelim
  <2>3. s[n] # DOT
    BY DEF Last
  <2> QED BY <2>1, <2>2, <2>3
<1> HIDE DEF s, n, k, no
<1>3. item = Cut(s, k, n)
  <2>1. item = StretchBefore(s, DOT)[n + 1]
    BY <1>1, LinesAreListed DEF LinesListed, n
  <2> DEFINE i == n + 1
  <2>2. n \in 0 .. n /\ i = n + 1
    BY <1>1
  <2> HIDE DEF i
  <2>3. StretchBefore(s, DOT)[i] = Cut(s, k, n)
    BY <1>1, <1>2, <2>2, StretchIs DEF n
  <2> QED BY <2>1, <2>2, <2>3
<1>4. IsCut(item, PathChars, s, k, n)
  BY <1>1, <1>2, <1>3, CutIs DEF n
<1>5. done \in Seq(X) /\ item \in X /\ parts = IF item = <<>> THEN done ELSE Add(done, item)
  BY <1>1, ReadsOn, SplitIs
<1>a. Cat(Stream(done, <<DOT>>), item) = s /\ Stream(<<>>, <<DOT>>) = <<>>
  <2>1. DOT \in PathChars
    BY PathAlphabet
  <2>2. Cat(Stream(done, <<DOT>>), item) = s
    BY <1>1, <2>1, LinesGiveBack
  <2> DEFINE z == <<>>
  <2>3. z \in Seq(Seq(PathChars))
    OBVIOUS
  <2>4. Stream(<<>>, <<DOT>>) = <<>>
    BY <2>1, <2>3, StreamOn
  <2> QED BY <2>2, <2>4
<1> HIDE DEF done, item, parts
<1>6. item # <<>> /\ Len(item) = n - k
  BY <1>1, <1>2, <1>4 DEF IsCut
<1>7. done # <<>>
  <2> SUFFICES ASSUME done = <<>> PROVE FALSE
    OBVIOUS
  <2>1. Cat(<<>>, item) = s
    BY <1>a
  <2>2. Cat(<<>>, item) = item
    BY <1>5, AddIs DEF X
  <2> QED BY <1>1, <1>2, <1>6, <2>1, <2>2 DEF n
<1>8. parts = Add(done, item) /\ Last(parts) = item /\ Len(parts) # 1
  <2> HIDE DEF X
  <2>1. parts = Add(done, item)
    BY <1>5, <1>6
  <2>2. Last(parts) = item /\ Len(parts) = Len(done) + 1
    BY <1>5, <2>1, ElementsOfAdd
  <2>3. Len(done) \in Nat /\ Len(done) # 0
    BY <1>5, <1>7, EmptySeq
  <2> QED BY <2>1, <2>2, <2>3
<1>9. Extension(p) = Path(<<DOT>> \o item)
  BY <1>8 DEF Extension, parts, s
<1> DEFINE e == <<DOT>> \o item
<1>10. e \in Seq(PathChars)
  BY <1>5, PathAlphabet DEF X
<1> HIDE DEF e
<1>11. Path(e).str = e
  BY <1>10, PathAlphabet, PathMade
<1> QED BY <1>3, <1>9, <1>11 DEF e, s, k, n

\* What is before the last dot, the dot, and what is behind it.
LEMMA ExtensionGivesBack ==
  ASSUME NEW p \in Paths, DOT \in Range(p.str), Last(p.str) # DOT
  PROVE  p.str = WithoutExtension(p).str \o Extension(p).str
<1> DEFINE s == p.str
           n == Len(s)
           k == LastDot(s)
           a == SubSeq(s, 1, k - 1)
           b == Cut(s, k, n)
           c == <<DOT>> \o b
<1>1. s \in Seq(PathChars) /\ n \in Nat
  BY DEF Paths
<1>2. k \in 1 .. n /\ s[k] = DOT
  BY <1>1, LastDotIs DEF LastDelim
<1>3. WithoutExtension(p).str = a /\ Extension(p).str = c
  BY WithoutMade, ExtensionIs
<1> HIDE DEF s, n, k
<1>4. b \in Seq(PathChars) /\ Len(b) = n - k /\ \A j \in 1 .. n - k : b[j] = s[k + j]
  <2>1. IsCut(b, PathChars, s, k, n)
    BY <1>1, <1>2, CutIs DEF n
  <2> QED BY <2>1 DEF IsCut
<1>5. a \in Seq(PathChars) /\ Len(a) = k - 1 /\ \A j \in 1 .. k - 1 : a[j] = s[j]
  BY <1>1, <1>2 DEF n
<1> HIDE DEF a, b, c
<1>6. c \in Seq(PathChars) /\ Len(c) = n - k + 1 /\ c[1] = DOT /\ \A j \in 2 .. n - k + 1 : c[j] = b[j - 1]
  <2> DEFINE d == <<DOT>>
             l == n - k
  <2>1. d \in Seq(PathChars) /\ Len(d) = 1 /\ d[1] = DOT
    BY PathAlphabet
  <2>2. l \in Nat /\ Len(b) = l /\ l + 1 = n - k + 1
    BY <1>1, <1>2, <1>4
  <2> HIDE DEF d, l
  <2>3. d \o b \in Seq(PathChars) /\ Len(d \o b) = Len(d) + Len(b)
    BY <1>4, <2>1, ConcatProperties
  <2>4. \A i \in 1 .. l + 1 : (d \o b)[i] = IF i <= 1 THEN d[i] ELSE b[i - 1]
    <3>1. 1 .. l + 1 = 1 .. Len(d) + Len(b)
      BY <2>1, <2>2
    <3>2. \A i \in 1 .. Len(d) + Len(b) : (d \o b)[i] = IF i <= Len(d) THEN d[i] ELSE b[i - Len(d)]
      BY <1>4, <2>1, ConcatProperties
    <3> QED BY <2>1, <3>1, <3>2
  <2>5. (d \o b)[1] = DOT /\ \A j \in 2 .. l + 1 : (d \o b)[j] = b[j - 1]
    <3>1. 1 \in 1 .. l + 1 /\ \A j \in 2 .. l + 1 : j \in 1 .. l + 1 /\ ~(j <= 1)
      BY <2>2
    <3>2. (d \o b)[1] = d[1]
      <4> DEFINE e == d \o b
      <4>1. \A i \in 1 .. l + 1 : e[i] = IF i <= 1 THEN d[i] ELSE b[i - 1]
        BY <2>4
      <4> HIDE DEF e
      <4>2. e[1] = d[1]
        BY <3>1, <4>1
      <4> QED BY <4>2 DEF e
    <3>3. ASSUME NEW j \in 2 .. l + 1 PROVE (d \o b)[j] = b[j - 1]
      BY <2>4, <3>1
    <3> QED BY <2>1, <3>2, <3>3
  <2> QED BY <2>1, <2>2, <2>3, <2>5 DEF c, d
<1>7. a \o c \in Seq(PathChars) /\ Len(a \o c) = n
  <2>1. a \o c \in Seq(PathChars) /\ Len(a \o c) = Len(a) + Len(c)
    BY <1>5, <1>6, ConcatProperties
  <2>2. (k - 1) + (n - k + 1) = n
    BY <1>1, <1>2
  <2> QED BY <1>5, <1>6, <2>1, <2>2
<1>8. \A i \in 1 .. n : (a \o c)[i] = s[i]
  <2> TAKE i \in 1 .. n
  <2>1. (a \o c)[i] = IF i <= k - 1 THEN a[i] ELSE c[i - (k - 1)]
    BY <1>1, <1>2, <1>5, <1>6, ConcatProperties
  <2>2. CASE i <= k - 1
    BY <1>2, <1>5, <2>1, <2>2
  <2>3. CASE i = k
    <3>1. i - (k - 1) = 1 /\ ~(i <= k - 1)
      BY <1>2, <2>3
    <3> QED BY <1>2, <1>6, <2>1, <2>3, <3>1
  <2>4. CASE i > k
    <3> DEFINE j == i - (k - 1)
    <3>1. j \in 2 .. n - k + 1 /\ ~(i <= k - 1) /\ j - 1 \in 1 .. n - k /\ k + (j - 1) = i
      BY <1>1, <1>2, <2>4
    <3> HIDE DEF j
    <3>2. c[j] = b[j - 1] /\ b[j - 1] = s[k + (j - 1)]
      BY <1>4, <1>6, <3>1
    <3> QED BY <2>1, <3>1, <3>2 DEF j
  <2>5. i <= k - 1 \/ i = k \/ i > k
    BY <1>1, <1>2
  <2> QED BY <2>2, <2>3, <2>4, <2>5
<1>9. s = a \o c
  <2> DEFINE t == a \o c
  <2>1. t \in Seq(PathChars) /\ Len(t) = Len(s) /\ \A i \in 1 .. Len(t) : t[i] = s[i]
    BY <1>7, <1>8 DEF n
  <2> HIDE DEF t
  <2>2. t = s
    BY <1>1, <2>1, SeqEqual
  <2> QED BY <2>2 DEF t
<1> QED BY <1>3, <1>9 DEF s

\* remove_extension keeps the members in agreement, however often it is to go round.
LEMMA RemoveMade ==
  ASSUME NEW p \in Paths, NEW n_times \in Nat
  PROVE  RemoveExtension(p, n_times) \in Paths
<1> DEFINE A == Paths
           s == [i \in 1 .. n_times |-> i]
           F == [q \in A |-> [i \in Nat |-> WithoutExtension(q)]]
           it == CHOOSE f : f = [S \in SUBSET DOMAIN s |->
                                   IF S = {} THEN p ELSE WithoutExtension(f[S \ {Max(S)}])]
<1>0. s \in Seq(Nat)
  OBVIOUS
<1>1. p \in A /\ Operation(F, A, Nat)
  <2>1. \A q \in A, i \in Nat : F[q][i] = WithoutExtension(q)
    BY Zenon
  <2>2. \A q \in A : WithoutExtension(q) \in A
    BY WithoutMade
  <2> QED BY <2>1, <2>2 DEF Operation
<1>2. RemoveExtension(p, n_times) = it[DOMAIN s]
  BY DEF RemoveExtension, FoldLeft, MapThenFoldSet
<1>3. \A q \in A, i \in Nat : F[q][i] = WithoutExtension(q)
  BY Zenon
<1> HIDE DEF A, F, s
<1>4. PICK g : FoldsAll(g, F, p, A, Nat, s)
  BY <1>0, <1>1, FoldAnswers
<1>5. g = [S \in SUBSET DOMAIN s |-> IF S = {} THEN p ELSE WithoutExtension(g[S \ {Max(S)}])]
  <2>1. /\ g = [S \in SUBSET DOMAIN s |-> IF S = {} THEN p ELSE F[g[S \ {Max(S)}]][s[Max(S)]]]
        /\ \A S \in SUBSET DOMAIN s : S # {} => g[S \ {Max(S)}] \in A /\ s[Max(S)] \in Nat
    BY <1>4 DEF FoldsAll
  <2>2. \A S \in SUBSET DOMAIN s : S # {} =>
          F[g[S \ {Max(S)}]][s[Max(S)]] = WithoutExtension(g[S \ {Max(S)}])
    BY <1>3, <2>1, Zenon
  <2> QED BY <2>1, <2>2
<1>6. it = [S \in SUBSET DOMAIN s |-> IF S = {} THEN p ELSE WithoutExtension(it[S \ {Max(S)}])]
  BY <1>5
<1> HIDE DEF it
<1>7. Unfolds(it, F, p, A, s)
  <2>1. it[{}] = p
    BY <1>6
  <2>2. ASSUME NEW S \in SUBSET DOMAIN s, S # {}, it[S \ {Max(S)}] \in A
        PROVE it[S] = F[it[S \ {Max(S)}]][s[Max(S)]]
    <3>1. s[Max(S)] \in Nat
      BY <1>4, <2>2 DEF FoldsAll
    <3>2. it[S] = WithoutExtension(it[S \ {Max(S)}])
      BY <1>6, <2>2, Zenon
    <3> QED BY <1>3, <2>2, <3>1, <3>2, Zenon
  <2> QED BY <2>1, <2>2, Zenon DEF Unfolds
<1>8. it[DOMAIN s] = Fold(F, p, s)
  BY <1>0, <1>1, <1>7, UnfoldIs
<1>9. Fold(F, p, s) \in A
  BY <1>0, <1>1, FoldInto
<1> QED BY <1>2, <1>8, <1>9 DEF A

\* extension has no part to take only of the empty path.
LEMMA ExtensionMade ==
  ASSUME NEW p \in Paths
  PROVE  /\ Split(p.str, DOT) = <<>> => IsEmpty(p)
         /\ Split(p.str, DOT) # <<>> => Extension(p) \in Paths
<1> DEFINE s == p.str
           done == ReadLines(s, DOT).done
           item == ReadLines(s, DOT).item
           X == Seq(PathChars)
           parts == Split(s, DOT)
<1>1. s \in X
  BY DEF Paths
<1>2. done \in Seq(X) /\ item \in X /\ parts = (IF item = <<>> THEN done ELSE Add(done, item)) /\ parts \in Seq(X)
  BY <1>1, ReadsOn, SplitIs
<1>3. ASSUME parts = <<>> PROVE IsEmpty(p)
  <2> HIDE DEF X
  <2>1. item # <<>> => Add(done, item) # <<>>
    BY <1>2, ElementsOfAdd
  <2>2. item = <<>> /\ done = <<>>
    BY <1>2, <1>3, <2>1
  <2>3. Cat(Stream(done, <<DOT>>), item) = s
    BY <1>1, PathAlphabet, LinesGiveBack DEF X
  <2> DEFINE z == <<>>
  <2>4. z \in Seq(Seq(PathChars)) /\ DOT \in PathChars
    BY PathAlphabet
  <2>5. Stream(<<>>, <<DOT>>) = <<>>
    BY <2>4, StreamOn
  <2>6. Cat(<<>>, <<>>) = <<>>
    BY DEF Cat
  <2> QED BY <2>2, <2>3, <2>5, <2>6 DEF IsEmpty
<1>4. ASSUME parts # <<>> PROVE Extension(p) \in Paths
  <2> DEFINE last == Last(parts)
             e == <<DOT>> \o last
  <2>1. Extension(p) = IF Len(parts) = 1 THEN EmptyPath ELSE Path(e)
    BY Zenon DEF Extension
  <2> HIDE DEF parts, X
  <2>2. last \in X
    BY <1>2, <1>4, FrontAndLast
  <2> HIDE DEF last
  <2>3. e \in Seq(PathChars)
    BY <2>2, PathAlphabet DEF X
  <2> HIDE DEF e
  <2>4. e \in Seq(Given)
    BY <2>3, PathAlphabet
  <2> QED BY <2>1, <2>4, PathMade, EmptyPathMade
<1> QED BY <1>3, <1>4

\* The members of the path agree, and a member whose behaviour was undefined was
\* called of the root, or of nothing.
PathIInv == path \in Paths /\ UndefinedOnlyAtRoot

\* The texts the client makes paths of.
LEMMA TextsGiven ==
  /\ Seq(Chars) \subseteq Seq(Given)
  /\ \A m : Strings(m) \subseteq Seq(Given)
<1>1. Seq(Chars) \subseteq Seq(Given)
  <2>1. Chars \subseteq Given
    BY DEF Given
  <2> QED BY <2>1
<1>2. ASSUME NEW m, NEW s \in Strings(m) PROVE s \in Seq(Given)
  <2>1. PICK k \in 0 .. m : s \in [1 .. k -> Alphabet]
    BY <1>2 DEF Strings
  <2>2. Alphabet \subseteq Given
    BY DEF Given
  <2>3. k \in Nat
    BY <2>1
  <2> QED BY <2>1, <2>2, <2>3
<1> QED BY <1>1, <1>2

\* A path without components is made of separators.
LEMMA AtRoot ==
  ASSUME NEW p \in Paths, ~IsEmpty(p), p.vec = <<>>
  PROVE  Range(p.str) = {SEP}
<1> DEFINE s == p.str
           X == Seq(NameChars)
           z == p.vec
<1>1. s \in Seq(PathChars) /\ s # <<>> /\ NonEmpty(z) = NonEmpty(Split(s, SEP)) /\ z \in Seq(X) /\ z = <<>>
  BY DEF Paths, Agrees, IsEmpty
<1> HIDE DEF s, z, X
<1>2. NonEmpty(z) = <<>>
  BY <1>1, NonEmptyOn
<1>3. Range(s) \subseteq {SEP}
  BY <1>1, <1>2, PathAlphabet, NoNames
<1>4. s[1] \in Range(s)
  BY <1>1 DEF Range
<1> QED BY <1>3, <1>4 DEF s

\* A path that is given to the client is a path.
LEMMA PathKept ==
  ASSUME PathIInv, status = "ok", NEW p \in Paths, Gives(p)
  PROVE  PathIInv'
<1>1. path' = p /\ status' = "ok"
  BY DEF Gives
<1> QED BY <1>1 DEF PathIInv, UndefinedOnlyAtRoot

\* No member of path breaks the invariant.
LEMMA PathStep == PathIInv /\ PathNext => PathIInv'
<1> SUFFICES ASSUME PathIInv, PathNext PROVE PathIInv'
  OBVIOUS
<1>1. path \in Paths /\ status = "ok"
  BY DEF PathIInv, PathNext
<1>2. ASSUME NEW s \in Seq(Given) PROVE Path(s) \in Paths
  BY PathMade
<1>3. CASE ClientTempDirectory
  <2>1. PICK tmpdir \in Strings(1) : Gives(TempDirectoryPath(tmpdir))
    BY <1>3 DEF ClientTempDirectory
  <2>2. tmpdir \in Seq(Given)
    BY TextsGiven
  <2> DEFINE first == CHOOSE ch \in Letters : TRUE
  <2>3. first \in Letters
    BY LettersAssumption
  <2>4. SEP \in Given /\ Letters \subseteq Given
    BY DEF Given, Alphabet
  <2>5. TMP \in Seq(Given)
    <3>1. TMP = <<SEP>> \o <<first>>
      BY Zenon DEF TMP
    <3> HIDE DEF first
    <3> QED BY <2>3, <2>4, <3>1
  <2>6. TempDirectoryPath(tmpdir) \in Paths
    BY <1>2, <2>2, <2>5 DEF TempDirectoryPath
  <2> QED BY <1>1, <2>1, <2>6, PathKept
<1>4. CASE ClientCurrentPath
  <2>1. PICK cwd \in Strings(1) : Gives(Path(<<SEP>> \o cwd))
    BY <1>4 DEF ClientCurrentPath
  <2>2. cwd \in Seq(Given) /\ SEP \in Given
    BY TextsGiven DEF Given, Alphabet
  <2> DEFINE s == <<SEP>> \o cwd
  <2>3. s \in Seq(Given)
    BY <2>2
  <2> HIDE DEF s
  <2>4. Path(s) \in Paths
    BY <1>2, <2>3
  <2> QED BY <1>1, <2>1, <2>4, PathKept DEF s
<1>5. CASE \E s \in Strings(MaxInput) : ClientAppends(s)
  <2>1. PICK s \in Strings(MaxInput) : Gives(Divide(path, Path(s)))
    BY <1>5 DEF ClientAppends
  <2>2. Path(s) \in Paths
    BY <1>2, TextsGiven
  <2>3. Divide(path, Path(s)) \in Paths
    BY <1>1, <2>2, DivideMade
  <2> QED BY <1>1, <2>1, <2>3, PathKept
<1>6. ASSUME NoLastComponent, NEW member, Undefined(member), member \in {"parent_path", "filename"}
      PROVE  PathIInv'
  <2>1. Range(path.str) = {SEP}
    BY <1>1, <1>6, AtRoot DEF NoLastComponent
  <2>2. path' = path /\ status' \in {"parent_path", "filename"}
    BY <1>6 DEF Undefined
  <2>3. UndefinedOnlyAtRoot'
    BY <2>1, <2>2 DEF UndefinedOnlyAtRoot
  <2> QED BY <1>1, <2>2, <2>3 DEF PathIInv
<1>7. CASE ClientParentPath
  <2>1. ParentPath(path) \in Paths
    BY <1>1, ParentMade
  <2> QED BY <1>1, <1>6, <1>7, <2>1, PathKept DEF ClientParentPath
<1>8. CASE ClientFilename
  <2>1. ~NoLastComponent => Filename(path) \in Paths
    <3>1. path.vec # <<>> => Filename(path) \in Paths
      BY <1>1, ParentMade
    <3>2. IsEmpty(path) => Filename(path) \in Paths
      BY EmptyPathMade DEF Filename
    <3> QED BY <3>1, <3>2 DEF NoLastComponent
  <2> QED BY <1>1, <1>6, <1>8, <2>1, PathKept DEF ClientFilename
<1>9. CASE ClientExtension
  <2>1. CASE Split(path.str, DOT) = <<>> /\ Undefined("extension")
    <3>1. IsEmpty(path) /\ path' = path /\ status' = "extension"
      BY <1>1, <2>1, ExtensionMade DEF Undefined
    <3>2. UndefinedOnlyAtRoot'
      BY <3>1 DEF UndefinedOnlyAtRoot, IsEmpty
    <3> QED BY <1>1, <3>1, <3>2 DEF PathIInv
  <2>2. CASE Split(path.str, DOT) # <<>> /\ Gives(Extension(path))
    <3>1. Extension(path) \in Paths
      BY <1>1, <2>2, ExtensionMade
    <3> QED BY <1>1, <2>2, <3>1, PathKept
  <2> QED BY <1>9, <2>1, <2>2 DEF ClientExtension
<1>10. CASE \E n_times \in 0 .. 2 : ClientRemovesExtension(n_times)
  <2>1. PICK n_times \in 0 .. 2 : Gives(RemoveExtension(path, n_times))
    BY <1>10 DEF ClientRemovesExtension
  <2>2. n_times \in Nat
    BY <2>1
  <2>3. RemoveExtension(path, n_times) \in Paths
    BY <1>1, <2>2, RemoveMade
  <2> QED BY <1>1, <2>1, <2>3, PathKept
<1> QED BY <1>3, <1>4, <1>5, <1>7, <1>8, <1>9, <1>10 DEF PathNext

\* Nor does what the client does with its texts.
LEMMA ClientPathStep ==
  ClientIInv /\ PathIInv /\ [ClientNext]_<<vars, clientVars, pathVars>> => PathIInv'
<1> SUFFICES ASSUME ClientIInv, PathIInv, [ClientNext]_<<vars, clientVars, pathVars>> PROVE PathIInv'
  OBVIOUS
<1>1. CASE UNCHANGED pathVars
  BY <1>1 DEF pathVars, PathIInv, UndefinedOnlyAtRoot, IsEmpty
<1>2. CASE MakePath
  <2>1. path' = Path(output) /\ status' = "ok" /\ called # "path"
    BY <1>2 DEF MakePath
  <2>2. output \in Seq(Given)
    BY <2>1, TextTypes, TextsGiven DEF ClientIInv, IInv
  <2>3. path' \in Paths
    BY <2>1, <2>2, PathMade
  <2>4. UndefinedOnlyAtRoot'
    BY <2>1 DEF UndefinedOnlyAtRoot
  <2> QED BY <2>3, <2>4 DEF PathIInv
<1>3. CASE PathNext
  BY <1>3, PathStep
<1>4. UNCHANGED <<vars, pathVars>> \/ UNCHANGED <<clientVars, pathVars>> => UNCHANGED pathVars
  OBVIOUS
<1>5. UNCHANGED <<vars, clientVars, pathVars>> => UNCHANGED pathVars
  OBVIOUS
<1> QED BY <1>1, <1>2, <1>3, <1>4, <1>5 DEF ClientNext

\* The path of the client is one whose members agree.
THEOREM PathInvariance == ClientSpec => []PathIInv
<1>1. ClientInit => PathIInv
  BY EmptyPathMade DEF ClientInit, PathInit, PathIInv, UndefinedOnlyAtRoot
<1>2. ClientIInv /\ PathIInv /\ [ClientNext]_<<vars, clientVars, pathVars>> => PathIInv'
  BY ClientPathStep
<1> QED BY <1>1, <1>2, ClientInvariance, PTL DEF ClientSpec

\* create_directories walks path_as_vector_, the system calls get path_: for every path
\* a client can make they name the same components.
THEOREM MembersAgree == ClientSpec => []ComponentsAgree
<1>1. PathIInv => ComponentsAgree
  BY Zenon DEF PathIInv, Paths, Agrees, ComponentsAgree, Named
<1> QED BY <1>1, PathInvariance, PTL

\* filename() and parent_path() take the last element of no vector only for a path of
\* separators alone, and extension() only for the empty one.
THEOREM UndefinedAtRoot == ClientSpec => []UndefinedOnlyAtRoot
<1>1. PathIInv => UndefinedOnlyAtRoot
  BY DEF PathIInv
<1> QED BY <1>1, PathInvariance, PTL

\* parent_path() / filename() leads back to every path with a component, and
\* remove_extension takes off what extension() answers.
THEOREM PartsTogether == ClientSpec => []PartsGiveBack
<1>1. ASSUME path \in Paths PROVE PartsGiveBack
  <2>1. ASSUME path.vec # <<>>
        PROVE  /\ IsAbsolute(ParentPath(path)) <=> IsAbsolute(path)
               /\ NonEmpty(Divide(ParentPath(path), Filename(path)).vec) =
                    IF Len(path.vec) = 1 /\ ~IsAbsolute(path)
                    THEN <<<<DOT>>>> \o NonEmpty(path.vec) ELSE NonEmpty(path.vec)
    BY <1>1, <2>1, ParentNamed DEF Cat
  <2>2. ASSUME DOT \in Range(path.str), Last(path.str) # DOT
        PROVE  path.str = WithoutExtension(path).str \o Extension(path).str
    BY <1>1, <2>2, ExtensionGivesBack
  <2> QED BY <2>1, <2>2, Zenon DEF PartsGiveBack, Named
<1>2. PathIInv => PartsGiveBack
  BY <1>1 DEF PathIInv
<1> QED BY <1>2, PathInvariance, PTL

\* A separator at the end is the same whatever was put in front.
LEMMA SlashedBehind ==
  ASSUME NEW u \in Seq(PathChars), NEW v \in Seq(PathChars), v # <<>>
  PROVE  Slashed(Cat(u, v)) = Cat(u, Slashed(v))
<1>1. PICK w \in Seq(PathChars), x \in PathChars : v = Add(w, x)
  BY Lengthens
<1> DEFINE c == Cat(u, w)
<1>2. c \in Seq(PathChars) /\ Cat(u, v) = Add(c, x)
  BY <1>1, CatIs
<1>3. Cat(u, Add(v, SEP)) = Add(Cat(u, v), SEP)
  BY PathAlphabet, CatIs
<1> HIDE DEF c
<1>4. Last(v) = x /\ Last(Add(c, x)) = x /\ Add(c, x) # <<>>
  BY <1>1, <1>2, ElementsOfAdd
<1>5. Slashed(v) = IF x # SEP THEN Add(v, SEP) ELSE v
  BY <1>4, Zenon DEF Slashed, Add
<1>6. Slashed(Cat(u, v)) = IF x # SEP THEN Add(Cat(u, v), SEP) ELSE Cat(u, v)
  <2> DEFINE all == Cat(u, v)
  <2>1. Last(all) = x /\ all # <<>>
    BY <1>2, <1>4
  <2> HIDE DEF all
  <2>2. Slashed(all) = IF x # SEP THEN Add(all, SEP) ELSE all
    BY <2>1, Zenon DEF Slashed, Add
  <2> QED BY <2>2 DEF all
<1> QED BY <1>3, <1>5, <1>6

\* operator/ is associative on the strings, unless something is appended to nothing.
LEMMA AppendsAgree ==
  ASSUME NEW p \in Paths, NEW q \in Paths, NEW r \in Paths, ~IsEmpty(q) \/ IsAbsolute(r)
  PROVE  Divide(p, Divide(q, r)).str = Divide(Divide(p, q), r).str
<1>1. CASE IsAbsolute(r)
  <2>1. Divide(q, r) = r /\ Divide(p, r) = r /\ Divide(Divide(p, q), r) = r
    BY <1>1 DEF Divide
  <2> QED BY <1>1, <2>1
<1>2. CASE ~IsAbsolute(r)
  <2> DEFINE d == Divide(q, r)
             e == Divide(p, q)
  <2>1. /\ d \in Paths /\ d.str = Cat(Slashed(q.str), r.str)
        /\ IsAbsolute(d) <=> IsAbsolute(q) \/ IsEmpty(q)
    BY <1>2, DivideRelative
  <2>2. e \in Paths
    BY DivideMade
  <2>3. Divide(e, r).str = Cat(Slashed(e.str), r.str)
    BY <1>2, <2>2, DivideRelative
  <2>4. IsAbsolute(d) => Divide(p, d) = d
    BY DEF Divide
  <2>5. ~IsAbsolute(d) => Divide(p, d).str = Cat(Slashed(p.str), d.str)
    <3> HIDE DEF d
    <3> QED BY <2>1, DivideRelative
  <2>6. IsAbsolute(q) => e = q
    BY DEF Divide
  <2>7. ~IsAbsolute(q) => e.str = Cat(Slashed(p.str), q.str)
    BY DivideRelative
  <2> HIDE DEF d, e
  <2>8. ~IsEmpty(q)
    BY <1>2
  <2>9. CASE ~IsEmpty(q) /\ IsAbsolute(q)
    BY <2>1, <2>3, <2>4, <2>6, <2>9 DEF d, e
  <2>10. CASE ~IsEmpty(q) /\ ~IsAbsolute(q)
    <3> DEFINE a == Slashed(p.str)
               b == q.str
               c == r.str
    <3>1. a \in Seq(PathChars) /\ b \in Seq(PathChars) /\ c \in Seq(PathChars) /\ Slashed(b) \in Seq(PathChars) /\ b # <<>>
      <4>1. p.str \in Seq(PathChars) /\ q.str \in Seq(PathChars) /\ r.str \in Seq(PathChars)
        BY DEF Paths
      <4>2. \A s \in Seq(PathChars) : Slashed(s) \in Seq(PathChars)
        BY PathAlphabet DEF Slashed
      <4> QED BY <2>10, <4>1, <4>2 DEF IsEmpty
    <3> HIDE DEF a, b, c
    <3>2. Slashed(Cat(a, b)) = Cat(a, Slashed(b))
      BY <3>1, SlashedBehind
    <3>3. Cat(Cat(a, Slashed(b)), c) = Cat(a, Cat(Slashed(b), c))
      BY <3>1, CatIs
    <3> QED BY <2>1, <2>3, <2>5, <2>7, <2>10, <3>2, <3>3 DEF a, b, c, d, e
  <2> QED BY <2>8, <2>9, <2>10
<1> QED BY <1>1, <1>2

\* Appending to a path step by step or at once gives the same string, unless a
\* relative path is appended to the empty one.
THEOREM Appends == ClientSpec => []AppendsInOrder
<1>1. ASSUME path \in Paths PROVE AppendsInOrder
  <2>1. ASSUME NEW s \in Strings(2), NEW t \in Strings(1) PROVE Path(s) \in Paths /\ Path(t) \in Paths
    <3>1. s \in Seq(Given) /\ t \in Seq(Given)
      BY TextsGiven
    <3> QED BY <3>1, PathMade
  <2> SUFFICES ASSUME NEW s \in Strings(2), NEW t \in Strings(1), ~IsEmpty(Path(s)) \/ IsAbsolute(Path(t))
               PROVE  Divide(path, Divide(Path(s), Path(t))).str = Divide(Divide(path, Path(s)), Path(t)).str
    BY Zenon DEF AppendsInOrder
  <2> QED BY <1>1, <2>1, AppendsAgree
<1>2. PathIInv => AppendsInOrder
  BY <1>1 DEF PathIInv
<1> QED BY <1>2, PathInvariance, PTL
=============================================================================
