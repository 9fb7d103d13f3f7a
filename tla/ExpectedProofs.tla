--------------------------- MODULE ExpectedProofs ---------------------------
(***************************************************************************)
(* For any objects, contents and throwing operations of T and E: what each  *)
(* function of expected makes of the memory, and what follows for the flag,  *)
(* for the bad ends, and for the promise of ExpectedValue.                   *)
(*                                                                          *)
(* First each function from the memory m it starts in to a memory k it may   *)
(* end in: the object has been given a content (Assigned, Made, Produced),   *)
(* exchanged (Swapped) or emptied (Emptied); an exception has left all as it *)
(* was (Strongly) or contents of the same kinds (Weakly); or the program has *)
(* come to an end.  Then what each of these is for the objects (View), and   *)
(* so for the specification of the sum.  Then each operation, and Next.      *)
(***************************************************************************)
EXTENDS Expected, TLAPS

Cells    == {Nothing} \union [in : Kinds, data : Data \union {Moved}]
Hows     == {"ok", "threw", "terminated", "undefined"}
Memories == [at : [Places -> Cells], has : [Objs -> BOOLEAN], how : Hows, leaked : BOOLEAN]

\* Nothing changes outside X.
Same(k, m, X)      == \A r \in Places : r \notin X => k.at[r] = m.at[r]
SameKinds(k, m, X) == \A r \in Objs : r \notin X => KindOf(k, r) = KindOf(m, r)

\* What is left of c when its content has been taken.
Left(mode, c) == IF mode = "move" THEN [c EXCEPT !.data = Moved] ELSE c


LEMMA KindSays ==
  ASSUME NEW m \in Memories, NEW x \in Objs
  PROVE  KindOf(m, x) \in Kinds /\ (m.has[x] <=> KindOf(m, x) = "value") /\ (~m.has[x] <=> KindOf(m, x) = "error")
BY DEF KindOf, Kinds

LEMMA CellOfKind ==
  ASSUME NEW c \in Cells, NEW kind \in Kinds, c.in = kind
  PROVE  [in |-> kind, data |-> c.data] = c /\ c.data \in Data \union {Moved}
<1>1. c # Nothing
  BY DEF Nothing, Kinds
<1>2. c \in [in : Kinds, data : Data \union {Moved}]
  BY <1>1 DEF Cells
<1> QED BY <1>2

LEMMA LeftIsCell ==
  ASSUME NEW c \in Cells, NEW mode, c.in \in Kinds
  PROVE  Left(mode, c) \in Cells /\ Left(mode, c).in = c.in
<1>1. c \in [in : Kinds, data : Data \union {Moved}]
  BY DEF Cells, Nothing, Kinds
<1>2. [c EXCEPT !.data = Moved] \in [in : Kinds, data : Data \union {Moved}]
      /\ [c EXCEPT !.data = Moved].in = c.in
  BY <1>1
<1> QED BY <1>1, <1>2 DEF Left, Cells

LEMMA RaiseSays ==
  ASSUME NEW m \in Memories
  PROVE  /\ Raise(m) \in Memories /\ Raise(m).how = "threw" /\ Raise(m).at = m.at /\ Raise(m).has = m.has
         /\ Raise(m).leaked = m.leaked
         /\ Undefined(m) \in Memories /\ Undefined(m).how = "undefined" /\ Undefined(m).leaked = m.leaked
BY DEF Memories, Raise, Undefined, Hows

\* What p holds comes from q.
Gets(k, m, p, mode, q) ==
  /\ k.how = "ok"
  /\ k.at[p] = m.at[q] /\ k.at[q] = Left(mode, m.at[q]) /\ Same(k, m, {p, q})

LEMMA TransferSays ==
  ASSUME NEW m \in Memories, m.how = "ok", NEW p \in Places, NEW q \in Places, p # q, NEW kind \in Kinds, NEW mode,
         m.at[q].in = kind
  PROVE  LET k == Transfer(m, p, kind, mode, q)
         IN  k \in Memories /\ k.has = m.has /\ k.leaked = m.leaked /\ Gets(k, m, p, mode, q)
<1> DEFINE c == m.at[q]
           l == IF mode = "move" THEN [c EXCEPT !.data = Moved] ELSE c
           b == [m.at EXCEPT ![q] = l]
           a == [b EXCEPT ![p] = c]
<1>1. m.at \in [Places -> Cells] /\ c \in Cells
  BY DEF Memories
<1>2. c \in [in : Kinds, data : Data \union {Moved}] /\ [in |-> kind, data |-> c.data] = c
  BY <1>1, CellOfKind DEF Cells, Nothing, Kinds
<1>3. l = [c EXCEPT !.data = IF mode = "move" THEN Moved ELSE @]
  BY <1>2
<1>4. l = Left(mode, c) /\ l \in Cells
  BY <1>1, LeftIsCell DEF Left
<1>5. Transfer(m, p, kind, mode, q)
        = [m EXCEPT !.at[q].data = IF mode = "move" THEN Moved ELSE @, !.at[p] = [in |-> kind, data |-> c.data]]
  BY DEF Transfer
<1>6. Transfer(m, p, kind, mode, q) = [m EXCEPT !.at = a]
  BY <1>1, <1>2, <1>3, <1>5 DEF Memories
<1> HIDE DEF c, l
<1>7. a \in [Places -> Cells] /\ a[p] = c /\ a[q] = Left(mode, c) /\ \A r \in Places : r \notin {p, q} => a[r] = m.at[r]
  BY <1>1, <1>4
<1> HIDE DEF a
<1>8. [m EXCEPT !.at = a] \in Memories /\ [m EXCEPT !.at = a].at = a /\ [m EXCEPT !.at = a].how = m.how
      /\ [m EXCEPT !.at = a].has = m.has /\ [m EXCEPT !.at = a].leaked = m.leaked
  BY <1>7 DEF Memories
<1> QED BY <1>6, <1>7, <1>8 DEF Same, Gets, c

\* An operation of T or E has thrown: m is as it was.
Raised(k, m, kind, mode) ==
  /\ k.how = "threw" /\ k.at = m.at
  /\ ~NoObject(kind) /\ <<kind, mode>> \in throwing

LEMMA BuildSays ==
  ASSUME NEW m \in Memories, m.how = "ok", NEW p \in Places, NEW q \in Places, p # q, NEW kind \in Kinds, NEW mode,
         ~NoObject(kind), m.at[q].in = kind, NEW k \in Build(m, p, kind, mode, q)
  PROVE  /\ k \in Memories /\ k.has = m.has /\ (m.at[p] = Nothing => k.leaked = m.leaked)
         /\ Gets(k, m, p, mode, q) \/ Raised(k, m, kind, mode)
<1> DEFINE n == Transfer(m, p, kind, mode, q)
           l == n.leaked \/ m.at[p].in # "nothing"
<1>1. n \in Memories /\ n.has = m.has /\ n.leaked = m.leaked /\ Gets(n, m, p, mode, q)
  BY TransferSays
<1>2. k = [n EXCEPT !.leaked = @ \/ m.at[p].in # "nothing"] \/ (k = Raise(m) /\ <<kind, mode>> \in throwing)
  BY DEF Build
<1>3. l \in BOOLEAN
  BY Zenon
<1>4. ASSUME m.at[p] = Nothing PROVE l = n.leaked
  <2>1. ~(m.at[p].in # "nothing") /\ n.leaked \in BOOLEAN
    BY <1>1, <1>4 DEF Nothing, Memories
  <2> QED BY <2>1, Zenon
<1>5. CASE k = [n EXCEPT !.leaked = @ \/ m.at[p].in # "nothing"]
  <2>1. k = [n EXCEPT !.leaked = l]
    BY <1>5
  <2> HIDE DEF n, l
  <2>2. k \in Memories /\ k.how = n.how /\ k.at = n.at /\ k.has = n.has /\ k.leaked = l
    BY <1>1, <1>3, <2>1 DEF Memories
  <2> QED BY <1>1, <1>4, <2>2 DEF Gets, Same
<1>6. CASE k = Raise(m) /\ <<kind, mode>> \in throwing
  BY <1>6, RaiseSays DEF Raised
<1> QED BY <1>2, <1>5, <1>6

\* For a void there is nothing to do.
LEMMA BuildVoid ==
  ASSUME NEW m, NEW p, NEW q, NEW kind, NEW mode, NoObject(kind), NEW k \in Build(m, p, kind, mode, q)
  PROVE  k = m
BY DEF Build

LEMMA AssignSays ==
  ASSUME NEW m \in Memories, m.how = "ok", NEW p \in Places, NEW q \in Places, p # q, NEW kind \in Kinds, NEW mode,
         ~NoObject(kind), m.at[p].in = kind, m.at[q].in = kind, NEW k \in Assign(m, p, kind, mode, q)
  PROVE  /\ k \in Memories /\ k.has = m.has /\ k.leaked = m.leaked
         /\ Gets(k, m, p, mode, q) \/ Raised(k, m, kind, mode)
<1>1. k = Transfer(m, p, kind, mode, q) \/ (k = Raise(m) /\ <<kind, mode>> \in throwing)
  BY DEF Assign
<1> QED BY <1>1, TransferSays, RaiseSays DEF Raised

\* Assignment to what is not there.
LEMMA AssignDead ==
  ASSUME NEW m \in Memories, NEW p \in Places, NEW q \in Places, NEW kind, NEW mode,
         m.at[p].in # kind, NEW k \in Assign(m, p, kind, mode, q)
  PROVE  k \in Memories /\ k.leaked = m.leaked /\ k.how = "undefined"
<1>1. k = Undefined(m)
  BY DEF Assign
<1> QED BY <1>1, RaiseSays

\* Only p is emptied.
Emptied(k, m, p) ==
  k \in Memories /\ k.how = "ok" /\ k.at[p] = Nothing /\ Same(k, m, {p}) /\ k.has = m.has /\ k.leaked = m.leaked

LEMMA DropSays ==
  ASSUME NEW m \in Memories, m.how = "ok", NEW p \in Places, NEW kind, m.at[p].in = kind, NEW k \in Drop(m, p, kind)
  PROVE  Emptied(k, m, p)
<1> DEFINE a == [m.at EXCEPT ![p] = Nothing]
<1>1. k = [m EXCEPT !.at = a]
  BY DEF Drop, Memories
<1>2. a \in [Places -> Cells] /\ a[p] = Nothing /\ \A r \in Places : r # p => a[r] = m.at[r]
  BY DEF Memories, Cells
<1> HIDE DEF a
<1> QED BY <1>1, <1>2 DEF Memories, Emptied, Same

LEMMA FlagSays ==
  ASSUME NEW m \in Memories, NEW x \in Objs, NEW kind \in Kinds, NEW k \in SetFlag(m, x, kind = "value")
  PROVE  /\ k \in Memories /\ k.at = m.at /\ k.how = m.how /\ k.leaked = m.leaked
         /\ KindOf(k, x) = kind /\ SameKinds(k, m, {x})
<1> DEFINE b == kind = "value"
           h == [m.has EXCEPT ![x] = b]
<1>1. b \in BOOLEAN
  BY Zenon
<1>2. k = [m EXCEPT !.has = h]
  BY DEF SetFlag, Memories
<1>3. h \in [Objs -> BOOLEAN] /\ h[x] = b /\ \A r \in Objs : r # x => h[r] = m.has[r]
  <2> HIDE DEF b
  <2> QED BY <1>1 DEF Memories
<1> HIDE DEF h
<1>4. k \in Memories /\ k.at = m.at /\ k.how = m.how /\ k.leaked = m.leaked /\ k.has = h
  BY <1>2, <1>3 DEF Memories
<1>5. SameKinds(k, m, {x})
  BY <1>3, <1>4 DEF SameKinds, KindOf
<1>6. KindOf(k, x) = IF b THEN "value" ELSE "error"
  BY <1>3, <1>4, Zenon DEF KindOf
<1> QED BY <1>4, <1>5, <1>6 DEF Kinds

LEMMA SameFlags ==
  ASSUME NEW k, NEW m, k.has = m.has
  PROVE  \A r \in Objs : KindOf(k, r) = KindOf(m, r)
BY DEF KindOf

LEMMA NoexceptSays ==
  ASSUME NEW S \in SUBSET Memories, NEW k \in Noexcept(S)
  PROVE  k \in Memories /\ \E n \in S : /\ k.leaked = n.leaked
                                        /\ n.how = "threw" => k.how = "terminated"
                                        /\ n.how # "threw" => k = n
<1>1. PICK n \in S : k = IF n.how = "threw" THEN [n EXCEPT !.how = "terminated"] ELSE n
  BY DEF Noexcept
<1>2. [n EXCEPT !.how = "terminated"] \in Memories /\ [n EXCEPT !.how = "terminated"].leaked = n.leaked
      /\ [n EXCEPT !.how = "terminated"].how = "terminated"
  BY DEF Memories, Hows
<1> QED BY <1>1, <1>2

\* x has got a content from q, and its flag.
Placed(k, m, x, kind, mode, q) ==
  /\ k.how = "ok" /\ KindOf(k, x) = kind /\ SameKinds(k, m, {x})
  /\ IF NoObject(kind) THEN k.at = m.at ELSE Gets(k, m, x, mode, q)

LEMMA PlaceSays ==
  ASSUME NEW m \in Memories, m.how = "ok", NEW x \in Objs, NEW q \in Places, x # q, NEW kind \in Kinds, NEW mode,
         ~NoObject(kind) => m.at[q].in = kind, NEW k \in Place(m, x, kind, mode, q)
  PROVE  /\ k \in Memories /\ (m.at[x] = Nothing => k.leaked = m.leaked)
         /\ Placed(k, m, x, kind, mode, q) \/ (Raised(k, m, kind, mode) /\ k.has = m.has)
<1>0. x \in Places
  BY DEF Places
<1>1. PICK n \in Build(m, x, kind, mode, q) : IF n.how = "ok" THEN k \in SetFlag(n, x, kind = "value") ELSE k = n
  BY DEF Place, Then
<1>2. CASE NoObject(kind)
  <2>1. n = m
    BY <1>2, BuildVoid
  <2> QED BY <1>1, <1>2, <2>1, FlagSays DEF Placed
<1>3. CASE ~NoObject(kind)
  <2>1. /\ n \in Memories /\ n.has = m.has /\ (m.at[x] = Nothing => n.leaked = m.leaked)
        /\ Gets(n, m, x, mode, q) \/ Raised(n, m, kind, mode)
    BY <1>0, <1>3, BuildSays
  <2>2. CASE Raised(n, m, kind, mode)
    BY <1>1, <2>1, <2>2 DEF Raised
  <2>3. CASE Gets(n, m, x, mode, q)
    <3>1. k \in Memories /\ k.at = n.at /\ k.how = n.how /\ k.leaked = n.leaked
          /\ KindOf(k, x) = kind /\ SameKinds(k, n, {x})
      BY <1>1, <2>1, <2>3, FlagSays DEF Gets
    <3>2. SameKinds(k, m, {x})
      BY <2>1, <3>1, SameFlags DEF SameKinds
    <3> QED BY <1>3, <2>1, <2>3, <3>1, <3>2 DEF Placed, Gets, Same
  <2> QED BY <2>1, <2>2, <2>3
<1> QED BY <1>2, <1>3

\* A call has ended the program, and one that works in this mode may throw.
Ended(k, mode) == k.how = "terminated" /\ throwing \intersect (Kinds \X {mode}) # {}

LEMMA ConstructSays ==
  ASSUME NEW m \in Memories, m.how = "ok", NEW x \in Objs, NEW q \in Places, x # q, NEW kind \in Kinds, NEW mode,
         ~NoObject(kind) => m.at[q].in = kind, NEW k \in Construct(m, x, kind, mode, q)
  PROVE  /\ k \in Memories /\ (m.at[x] = Nothing => k.leaked = m.leaked)
         /\ Placed(k, m, x, kind, mode, q) \/ (Ended(k, mode) /\ <<kind, mode>> \in throwing)
<1> DEFINE S == Place(m, x, kind, mode, q)
<1>1. S \in SUBSET Memories
  BY PlaceSays
<1>2. k \in Noexcept(S)
  BY DEF Construct
<1>3. \A n \in S : /\ (m.at[x] = Nothing => n.leaked = m.leaked)
                   /\ Placed(n, m, x, kind, mode, q) \/ (Raised(n, m, kind, mode) /\ n.has = m.has)
  BY PlaceSays
<1> HIDE DEF S
<1>4. PICK n \in S : k.leaked = n.leaked /\ (n.how = "threw" => k.how = "terminated") /\ (n.how # "threw" => k = n)
  BY <1>1, <1>2, NoexceptSays
<1>5. k \in Memories
  BY <1>1, <1>2, NoexceptSays
<1>6. CASE Placed(n, m, x, kind, mode, q)
  BY <1>3, <1>4, <1>5, <1>6 DEF Placed
<1>7. CASE Raised(n, m, kind, mode)
  BY <1>3, <1>4, <1>5, <1>7 DEF Raised, Ended
<1> QED BY <1>3, <1>6, <1>7

-----------------------------------------------------------------------------
(* Assignment of a T that is not void.                                      *)

\* x holds what y held.
Assigned(k, m, x, mode, y) ==
  /\ k.how = "ok" /\ KindOf(k, x) = KindOf(m, y) /\ SameKinds(k, m, {x})
  /\ k.at[x] = m.at[y] /\ k.at[y] = Left(mode, m.at[y]) /\ Same(k, m, {x, y, Tmp})

\* The caller gets an exception, and every object as it was.
Strongly(k, m) == k.how = "threw" /\ throwing # {} /\ k.has = m.has /\ Same(k, m, {Tmp})

LEMMA ErrorToValueSays ==
  ASSUME ~t_is_void, NEW m \in Memories, m.how = "ok", NEW x \in Objs, NEW y \in Objs, x # y, NEW mode \in Modes,
         m.at[x].in = "error", m.at[y].in = "value", KindOf(m, y) = "value", m.at[Tmp] = Nothing,
         NEW k \in ErrorToValue(m, x, mode, y)
  PROVE  /\ k \in Memories /\ k.leaked = m.leaked
         /\ \/ Assigned(k, m, x, mode, y)
            \/ Ended(k, mode)
            \/ /\ Strongly(k, m)
               /\ Nothrow("value", mode) \/ Nothrow("value", "move") => throwing \intersect (Kinds \X {mode}) # {}
<1>0. /\ {x, y, Tmp} \subseteq Places /\ x # Tmp /\ y # Tmp
      /\ {"value", "error"} \subseteq Kinds /\ \A kind : ~NoObject(kind)
  BY PlacesAssumption DEF Places, Kinds, NoObject
<1>1. CASE Nothrow("value", mode)
  <2>1. PICK n \in Drop(m, x, "error") :
          IF n.how = "ok" THEN k \in Construct(n, x, "value", mode, y) ELSE k = n
    BY <1>1 DEF ErrorToValue, Then
  <2>2. Emptied(n, m, x)
    BY <1>0, DropSays
  <2>3. n.at[y].in = "value" /\ n.how = "ok" /\ n \in Memories
    BY <1>0, <2>2 DEF Emptied, Same
  <2>4. /\ k \in Memories /\ k.leaked = n.leaked
        /\ Placed(k, n, x, "value", mode, y) \/ (Ended(k, mode) /\ <<"value", mode>> \in throwing)
    BY <1>0, <2>1, <2>2, <2>3, ConstructSays DEF Emptied
  <2>5. ASSUME Placed(k, n, x, "value", mode, y) PROVE Assigned(k, m, x, mode, y)
    BY <1>0, <2>2, <2>5, SameFlags DEF Placed, Gets, Assigned, Emptied, Same, SameKinds
  <2> QED BY <2>2, <2>4, <2>5 DEF Emptied
<1>2. CASE ~Nothrow("value", mode) /\ Nothrow("value", "move")
  <2>0. mode = "copy" /\ <<"value", mode>> \in throwing
    BY <1>2 DEF Modes, Nothrow
  <2> DEFINE E(n) == Then(Drop(n, x, "error"), LAMBDA l : Construct(l, x, "value", "move", Tmp))
  <2>1. PICK n \in Build(m, Tmp, "value", "copy", y) : IF n.how = "ok" THEN k \in E(n) ELSE k = n
    BY <1>2 DEF ErrorToValue, Then
  <2>2. /\ n \in Memories /\ n.has = m.has /\ n.leaked = m.leaked
        /\ Gets(n, m, Tmp, "copy", y) \/ Raised(n, m, "value", "copy")
    BY <1>0, BuildSays
  <2>3. CASE Raised(n, m, "value", "copy")
    BY <1>0, <2>0, <2>1, <2>2, <2>3 DEF Raised, Strongly, Same, Modes
  <2>4. CASE Gets(n, m, Tmp, "copy", y)
    <3>1. n.how = "ok" /\ n.at[x].in = "error" /\ n.at[Tmp] = m.at[y]
      BY <1>0, <2>4 DEF Gets, Same
    <3>2. PICK l \in Drop(n, x, "error") :
            IF l.how = "ok" THEN k \in Construct(l, x, "value", "move", Tmp) ELSE k = l
      BY <2>1, <3>1 DEF Then
    <3>3. Emptied(l, n, x)
      BY <1>0, <2>2, <3>1, <3>2, DropSays
    <3>4. l.at[Tmp].in = "value" /\ l.how = "ok" /\ l \in Memories
      BY <1>0, <3>1, <3>3 DEF Emptied, Same
    <3>5. /\ k \in Memories /\ k.leaked = l.leaked
          /\ Placed(k, l, x, "value", "move", Tmp) \/ <<"value", "move">> \in throwing
      BY <1>0, <3>2, <3>3, <3>4, ConstructSays DEF Emptied
    <3>6. Placed(k, l, x, "value", "move", Tmp)
      BY <1>2, <3>5 DEF Nothrow
    <3>7. Assigned(k, m, x, mode, y)
      BY <1>0, <2>0, <2>2, <2>4, <3>1, <3>3, <3>6, SameFlags
         DEF Placed, Gets, Assigned, Emptied, Same, SameKinds, Left
    <3> QED BY <2>2, <3>3, <3>5, <3>7 DEF Emptied
  <2> QED BY <2>2, <2>3, <2>4
<1>3. CASE ~Nothrow("value", mode) /\ ~Nothrow("value", "move")
  <2> DEFINE R(n) == TryRestore(Construct(n, x, "value", mode, y), LAMBDA l : Assign(l, x, "error", "move", Tmp))
             E(n) == Then(Drop(n, x, "error"), R)
  <2>1. PICK n \in Build(m, Tmp, "error", "move", x) : IF n.how = "ok" THEN k \in E(n) ELSE k = n
    BY <1>3 DEF ErrorToValue, SavingError, Then
  <2>2. /\ n \in Memories /\ n.has = m.has /\ n.leaked = m.leaked
        /\ Gets(n, m, Tmp, "move", x) \/ Raised(n, m, "error", "move")
    BY <1>0, BuildSays
  <2>3. CASE Raised(n, m, "error", "move")
    BY <1>0, <1>3, <2>1, <2>2, <2>3 DEF Raised, Strongly, Same
  <2>4. CASE Gets(n, m, Tmp, "move", x)
    <3>1. n.how = "ok" /\ n.at[x].in = "error" /\ n.at[y] = m.at[y]
      BY <1>0, <2>4, LeftIsCell DEF Gets, Same, Memories
    <3>2. PICK l \in Drop(n, x, "error") : IF l.how = "ok" THEN k \in R(l) ELSE k = l
      BY <2>1, <3>1 DEF Then
    <3> HIDE DEF R, E
    <3>3. Emptied(l, n, x)
      BY <1>0, <2>2, <3>1, <3>2, DropSays
    <3>4. l.at[y].in = "value" /\ l.how = "ok" /\ l \in Memories
      BY <1>0, <3>1, <3>3 DEF Emptied, Same
    <3>5. \A i \in Construct(l, x, "value", mode, y) :
            /\ i \in Memories /\ i.leaked = l.leaked
            /\ Placed(i, l, x, "value", mode, y) \/ Ended(i, mode)
      <4>1. SUFFICES ASSUME NEW i \in Construct(l, x, "value", mode, y)
                     PROVE  /\ i \in Memories /\ i.leaked = l.leaked
                            /\ Placed(i, l, x, "value", mode, y) \/ Ended(i, mode)
        OBVIOUS
      <4>2. l.at[x] = Nothing
        BY <3>3 DEF Emptied
      <4>3. ~NoObject("value") /\ "value" \in Kinds /\ y \in Places
        BY <1>0
      <4>4. /\ i \in Memories /\ i.leaked = l.leaked
            /\ Placed(i, l, x, "value", mode, y) \/ (Ended(i, mode) /\ <<"value", mode>> \in throwing)
        BY <3>4, <4>2, <4>3, ConstructSays
      <4> QED BY <4>4
    <3>6. k \in Construct(l, x, "value", mode, y)
      BY <3>2, <3>4, <3>5 DEF R, TryRestore, Placed, Ended
    <3>7. ASSUME Placed(k, l, x, "value", mode, y) PROVE Assigned(k, m, x, mode, y)
      BY <1>0, <2>2, <2>4, <3>1, <3>3, <3>7, SameFlags DEF Placed, Gets, Assigned, Emptied, Same, SameKinds
    <3> QED BY <2>2, <3>3, <3>5, <3>6, <3>7 DEF Emptied
  <2> QED BY <2>2, <2>3, <2>4
<1> QED BY <1>1, <1>2, <1>3

\* The flag of x says what x contains.
Good(m, x) == m.at[x].in = IF NoObject(KindOf(m, x)) THEN "nothing" ELSE KindOf(m, x)

LEMMA EmptyCell ==
  ASSUME NEW c \in Cells, c.in = "nothing"
  PROVE  c = Nothing /\ \A mode : Left(mode, c) = c
<1>1. c = Nothing
  BY DEF Cells, Kinds
<1> QED BY <1>1 DEF Left, Nothing

LEMMA SameFlag ==
  ASSUME NEW m \in Memories, NEW x \in Objs, NEW y \in Objs
  PROVE  m.has[x] = m.has[y] <=> KindOf(m, x) = KindOf(m, y)
<1>1. m.has[x] \in BOOLEAN /\ m.has[y] \in BOOLEAN
  BY DEF Memories
<1>2. (m.has[x] <=> KindOf(m, x) = "value") /\ (m.has[y] <=> KindOf(m, y) = "value")
      /\ (~m.has[x] <=> KindOf(m, x) = "error") /\ (~m.has[y] <=> KindOf(m, y) = "error")
  BY KindSays, Zenon
<1>3. (m.has[x] <=> m.has[y]) <=> KindOf(m, x) = KindOf(m, y)
  BY <1>2
<1> QED BY <1>1, <1>3, Zenon

LEMMA AssignCommonSays ==
  ASSUME ~t_is_void, NEW m \in Memories, m.how = "ok", NEW x \in Objs, NEW y \in Objs, x # y, NEW mode \in Modes,
         Good(m, x), Good(m, y), KindOf(m, x) = KindOf(m, y) \/ KindOf(m, x) = "value",
         NEW k \in AssignCommon(m, x, mode, y)
  PROVE  /\ k \in Memories /\ k.leaked = m.leaked
         /\ \/ Assigned(k, m, x, mode, y)
            \/ Ended(k, mode)
            \/ Strongly(k, m) /\ throwing \intersect (Kinds \X {mode}) # {}
<1>0. /\ {x, y, Tmp} \subseteq Places /\ KindOf(m, x) \in Kinds /\ KindOf(m, y) \in Kinds
      /\ m.at[x].in = KindOf(m, x) /\ m.at[y].in = KindOf(m, y)
      /\ \A kind : ~NoObject(kind)
  BY KindSays DEF Places, Good, NoObject
<1>1. CASE KindOf(m, x) = KindOf(m, y)
  <2>1. k \in Assign(m, x, KindOf(m, x), mode, y)
    BY <1>1, SameFlag DEF AssignCommon
  <2>2. /\ k \in Memories /\ k.has = m.has /\ k.leaked = m.leaked
        /\ Gets(k, m, x, mode, y) \/ Raised(k, m, KindOf(m, x), mode)
    BY <1>0, <1>1, <2>1, AssignSays
  <2>3. ASSUME Gets(k, m, x, mode, y) PROVE Assigned(k, m, x, mode, y)
    BY <1>1, <2>2, <2>3, SameFlags DEF Gets, Assigned, Same, SameKinds
  <2>4. ASSUME Raised(k, m, KindOf(m, x), mode) PROVE Strongly(k, m) /\ throwing \intersect (Kinds \X {mode}) # {}
    BY <1>0, <2>2, <2>4 DEF Raised, Strongly, Same
  <2> QED BY <2>2, <2>3, <2>4
<1>2. CASE KindOf(m, x) # KindOf(m, y)
  <2>0. KindOf(m, x) = "value" /\ KindOf(m, y) = "error"
    BY <1>0, <1>2 DEF Kinds
  <2>1. PICK n \in Drop(m, x, "value") : IF n.how = "ok" THEN k \in Construct(n, x, "error", mode, y) ELSE k = n
    BY <1>2, SameFlag DEF AssignCommon, Then, DestroyVal
  <2>2. Emptied(n, m, x)
    BY <1>0, <2>0, <2>1, DropSays
  <2>3. n \in Memories /\ n.how = "ok" /\ n.at[x] = Nothing /\ n.at[y].in = "error" /\ "error" \in Kinds
    BY <1>0, <2>0, <2>2 DEF Emptied, Same, Kinds
  <2>4. /\ k \in Memories /\ k.leaked = n.leaked
        /\ Placed(k, n, x, "error", mode, y) \/ (Ended(k, mode) /\ <<"error", mode>> \in throwing)
    BY <1>0, <2>1, <2>3, ConstructSays
  <2>5. ASSUME Placed(k, n, x, "error", mode, y) PROVE Assigned(k, m, x, mode, y)
    BY <1>0, <2>0, <2>2, <2>5, SameFlags DEF Placed, Gets, Assigned, Emptied, Same, SameKinds
  <2> QED BY <2>2, <2>4, <2>5 DEF Emptied
<1> QED BY <1>1, <1>2

LEMMA AssignToSays ==
  ASSUME ~t_is_void, NEW m \in Memories, m.how = "ok", NEW x \in Objs, NEW y \in Objs, x # y, NEW mode \in Modes,
         Good(m, x), Good(m, y), m.at[Tmp] = Nothing, NEW k \in AssignTo(m, x, mode, y)
  PROVE  /\ k \in Memories /\ k.leaked = m.leaked
         /\ Assigned(k, m, x, mode, y) \/ Ended(k, mode) \/ Strongly(k, m)
<1> DEFINE S == IF ~m.has[x] /\ m.has[y] THEN ErrorToValue(m, x, mode, y) ELSE AssignCommon(m, x, mode, y)
<1>0. /\ KindOf(m, x) \in Kinds /\ KindOf(m, y) \in Kinds
      /\ m.at[x].in = KindOf(m, x) /\ m.at[y].in = KindOf(m, y)
  BY KindSays DEF Good, NoObject
<1>1. ASSUME NEW n \in S
      PROVE  /\ n \in Memories /\ n.leaked = m.leaked
             /\ \/ Assigned(n, m, x, mode, y)
                \/ Ended(n, mode)
                \/ /\ Strongly(n, m)
                   /\ Nothrow("value", mode) \/ Nothrow("value", "move") => throwing \intersect (Kinds \X {mode}) # {}
  <2>1. CASE KindOf(m, x) = "error" /\ KindOf(m, y) = "value"
    <3>1. n \in ErrorToValue(m, x, mode, y)
      BY <1>1, <2>1, KindSays
    <3> QED BY <1>0, <2>1, <3>1, ErrorToValueSays
  <2>2. CASE KindOf(m, x) = "value" \/ KindOf(m, x) = KindOf(m, y)
    <3>1. n \in AssignCommon(m, x, mode, y)
      BY <1>1, <2>2, KindSays
    <3> QED BY <2>2, <3>1, AssignCommonSays
  <2> QED BY <1>0, <2>1, <2>2 DEF Kinds
<1>2. S \in SUBSET Memories
  BY <1>1
<1>3. k \in IF Nothrow("value", mode) \/ Nothrow("value", "move") THEN Noexcept(S) ELSE S
  BY DEF AssignTo
<1> HIDE DEF S
<1>4. CASE Nothrow("value", mode) \/ Nothrow("value", "move")
  <2>1. PICK n \in S : k.leaked = n.leaked /\ (n.how = "threw" => k.how = "terminated") /\ (n.how # "threw" => k = n)
    BY <1>2, <1>3, <1>4, NoexceptSays
  <2>2. k \in Memories
    BY <1>2, <1>3, <1>4, NoexceptSays
  <2> QED BY <1>1, <1>4, <2>1, <2>2 DEF Assigned, Strongly, Ended
<1>5. CASE ~(Nothrow("value", mode) \/ Nothrow("value", "move"))
  BY <1>1, <1>3, <1>5
<1> QED BY <1>4, <1>5

LEMMA AssignVoidSays ==
  ASSUME t_is_void, NEW m \in Memories, m.how = "ok", NEW x \in Objs, NEW y \in Objs, x # y, NEW mode \in Modes,
         Good(m, x), Good(m, y), NEW k \in AssignVoid(m, x, mode, y)
  PROVE  /\ k \in Memories /\ k.leaked = m.leaked
         /\ Assigned(k, m, x, mode, y) \/ Ended(k, mode)
<1> DEFINE S == CASE ~m.has[x] /\ m.has[y]  -> Then(Drop(m, x, "error"), LAMBDA n : SetFlag(n, x, TRUE))
                  [] ~m.has[x] /\ ~m.has[y] -> Assign(m, x, "error", mode, y)
                  [] m.has[x] /\ ~m.has[y]  -> Construct(m, x, "error", mode, y)
                  [] m.has[x] /\ m.has[y]   -> {m}
<1>0. /\ {x, y} \subseteq Places /\ KindOf(m, x) \in Kinds /\ KindOf(m, y) \in Kinds
      /\ \A r \in {x, y} : /\ KindOf(m, r) = "error" => m.at[r].in = "error" /\ ~m.has[r]
                           /\ KindOf(m, r) = "value" => m.at[r] = Nothing /\ m.has[r]
      /\ \A md : Left(md, Nothing) = Nothing
      /\ ~NoObject("error") /\ "error" \in Kinds
  <2>1. {x, y} \subseteq Places /\ \A r \in {x, y} : m.at[r] \in Cells
    BY DEF Places, Memories
  <2>2. \A r \in {x, y} : m.at[r].in = "nothing" => m.at[r] = Nothing
    BY <2>1, EmptyCell
  <2>3. \A md : Left(md, Nothing) = Nothing
    BY EmptyCell DEF Cells, Nothing
  <2>4. \A r \in {x, y} : KindOf(m, r) \in Kinds /\ (m.has[r] <=> KindOf(m, r) = "value")
    BY KindSays
  <2> QED BY <2>1, <2>2, <2>3, <2>4 DEF Good, NoObject, Kinds
<1>1. ASSUME NEW n \in S
      PROVE  /\ n \in Memories /\ n.leaked = m.leaked
             /\ \/ Assigned(n, m, x, mode, y)
                \/ Ended(n, mode)
                \/ Strongly(n, m) /\ throwing \intersect (Kinds \X {mode}) # {}
  <2>1. CASE KindOf(m, x) = "error" /\ KindOf(m, y) = "value"
    <3>1. n \in Then(Drop(m, x, "error"), LAMBDA l : SetFlag(l, x, TRUE))
      BY <1>0, <1>1, <2>1
    <3>2. PICK l \in Drop(m, x, "error") : IF l.how = "ok" THEN n \in SetFlag(l, x, TRUE) ELSE n = l
      BY <3>1 DEF Then
    <3>3. Emptied(l, m, x)
      BY <1>0, <2>1, <3>2, DropSays
    <3>4. n \in SetFlag(l, x, "value" = "value") /\ "value" \in Kinds
      BY <3>2, <3>3 DEF Emptied, Kinds, SetFlag
    <3>5. n \in Memories /\ n.at = l.at /\ n.how = l.how /\ n.leaked = l.leaked
          /\ KindOf(n, x) = "value" /\ SameKinds(n, l, {x})
      BY <3>3, <3>4, FlagSays DEF Emptied
    <3> QED BY <1>0, <2>1, <3>3, <3>5, SameFlags DEF Emptied, Assigned, Same, SameKinds
  <2>2. CASE KindOf(m, x) = "error" /\ KindOf(m, y) = "error"
    <3>1. n \in Assign(m, x, "error", mode, y)
      BY <1>0, <1>1, <2>2
    <3>2. /\ n \in Memories /\ n.has = m.has /\ n.leaked = m.leaked
          /\ Gets(n, m, x, mode, y) \/ Raised(n, m, "error", mode)
      BY <1>0, <2>2, <3>1, AssignSays
    <3>3. ASSUME Gets(n, m, x, mode, y) PROVE Assigned(n, m, x, mode, y)
      BY <2>2, <3>2, <3>3, SameFlags DEF Gets, Assigned, Same, SameKinds
    <3>4. ASSUME Raised(n, m, "error", mode) PROVE Strongly(n, m) /\ throwing \intersect (Kinds \X {mode}) # {}
      BY <1>0, <3>2, <3>4 DEF Raised, Strongly, Same
    <3> QED BY <3>2, <3>3, <3>4
  <2>3. CASE KindOf(m, x) = "value" /\ KindOf(m, y) = "error"
    <3>1. n \in Construct(m, x, "error", mode, y) /\ m.at[x] = Nothing /\ m.at[y].in = "error"
      BY <1>0, <1>1, <2>3
    <3>2. /\ n \in Memories /\ n.leaked = m.leaked
          /\ Placed(n, m, x, "error", mode, y) \/ (Ended(n, mode) /\ <<"error", mode>> \in throwing)
      BY <1>0, <3>1, ConstructSays
    <3>3. ASSUME Placed(n, m, x, "error", mode, y) PROVE Assigned(n, m, x, mode, y)
      BY <1>0, <2>3, <3>3 DEF Placed, Gets, Assigned, Same, SameKinds
    <3> QED BY <3>2, <3>3
  <2>4. CASE KindOf(m, x) = "value" /\ KindOf(m, y) = "value"
    <3>1. n = m
      BY <1>0, <1>1, <2>4
    <3> QED BY <1>0, <2>4, <3>1 DEF Assigned, Same, SameKinds
  <2> QED BY <1>0, <2>1, <2>2, <2>3, <2>4 DEF Kinds
<1>2. S \in SUBSET Memories
  BY <1>1
<1>3. k \in Noexcept(S)
  BY DEF AssignVoid
<1> HIDE DEF S
<1>4. PICK n \in S : k.leaked = n.leaked /\ (n.how = "threw" => k.how = "terminated") /\ (n.how # "threw" => k = n)
  BY <1>2, <1>3, NoexceptSays
<1>5. k \in Memories
  BY <1>2, <1>3, NoexceptSays
<1> QED BY <1>1, <1>4, <1>5 DEF Assigned, Strongly, Ended

-----------------------------------------------------------------------------
(* Giving an object a new content.                                          *)

\* x has got c, or nothing when c is a void.
Made(k, m, x, kind, c) ==
  /\ k.how = "ok" /\ KindOf(k, x) = kind /\ SameKinds(k, m, {x})
  /\ k.at[x] = (IF NoObject(kind) THEN Nothing ELSE c) /\ Same(k, m, {x, Tmp, Arg})

LEMMA PlaceArgSays ==
  ASSUME NEW m \in Memories, m.how = "ok", NEW x \in Objs, NEW kind \in Kinds, NEW mode,
         m.at[x] = Nothing, m.at[Arg].in = kind, NEW k \in Place(m, x, kind, mode, Arg)
  PROVE  /\ k \in Memories /\ k.leaked = m.leaked
         /\ Made(k, m, x, kind, m.at[Arg]) \/ (Strongly(k, m) /\ <<kind, mode>> \in throwing)
<1>0. {x, Arg} \subseteq Places /\ x # Arg
  BY PlacesAssumption DEF Places
<1>1. /\ k \in Memories /\ k.leaked = m.leaked
      /\ Placed(k, m, x, kind, mode, Arg) \/ (Raised(k, m, kind, mode) /\ k.has = m.has)
  BY <1>0, PlaceSays
<1>2. ASSUME Placed(k, m, x, kind, mode, Arg) PROVE Made(k, m, x, kind, m.at[Arg])
  BY <1>2 DEF Placed, Gets, Made, Same
<1>3. ASSUME Raised(k, m, kind, mode), k.has = m.has PROVE Strongly(k, m) /\ <<kind, mode>> \in throwing
  BY <1>3 DEF Raised, Strongly, Same
<1> QED BY <1>1, <1>2, <1>3

LEMMA ReplaceErrorSays ==
  ASSUME ~t_is_void, NEW m \in Memories, m.how = "ok", NEW x \in Objs, KindOf(m, x) = "error",
         m.at[x].in = "error", m.at[Arg].in = "value", m.at[Tmp] = Nothing, NEW k \in ReplaceError(m, x)
  PROVE  /\ k \in Memories /\ k.leaked = m.leaked
         /\ Made(k, m, x, "value", m.at[Arg]) \/ Strongly(k, m) \/ (k.how = "undefined" /\ ~Nothrow("value", "make"))
<1>0. /\ {x, Tmp, Arg} \subseteq Places /\ x # Tmp /\ x # Arg /\ Tmp # Arg
      /\ {"value", "error"} \subseteq Kinds /\ ~NoObject("value") /\ ~NoObject("error")
  BY PlacesAssumption DEF Places, Kinds, NoObject, Tmp, Arg
<1>1. CASE Nothrow("value", "make")
  <2>1. PICK n \in Drop(m, x, "error") : IF n.how = "ok" THEN k \in Place(n, x, "value", "make", Arg) ELSE k = n
    BY <1>1 DEF ReplaceError, Then
  <2>2. Emptied(n, m, x)
    BY <1>0, <2>1, DropSays
  <2>3. n \in Memories /\ n.how = "ok" /\ n.at[x] = Nothing /\ n.at[Arg] = m.at[Arg] /\ n.leaked = m.leaked
    BY <1>0, <2>2 DEF Emptied, Same
  <2>4. /\ k \in Memories /\ k.leaked = n.leaked
        /\ Made(k, n, x, "value", m.at[Arg]) \/ <<"value", "make">> \in throwing
    BY <1>0, <2>1, <2>3, PlaceArgSays
  <2>5. Made(k, n, x, "value", m.at[Arg])
    BY <1>1, <2>4 DEF Nothrow
  <2>6. Made(k, m, x, "value", m.at[Arg])
    BY <2>2, <2>5, SameFlags DEF Made, Emptied, Same, SameKinds
  <2> QED BY <2>3, <2>4, <2>6
<1>2. CASE ~Nothrow("value", "make")
  <2> DEFINE R(n) == TryRestore(Place(n, x, "value", "make", Arg), LAMBDA l : Assign(l, x, "error", "move", Tmp))
             E(n) == Then(Drop(n, x, "error"), R)
  <2>1. PICK n \in Build(m, Tmp, "error", "move", x) : IF n.how = "ok" THEN k \in E(n) ELSE k = n
    BY <1>2 DEF ReplaceError, SavingError, Then
  <2>2. /\ n \in Memories /\ n.has = m.has /\ n.leaked = m.leaked
        /\ Gets(n, m, Tmp, "move", x) \/ Raised(n, m, "error", "move")
    BY <1>0, BuildSays
  <2>3. CASE Raised(n, m, "error", "move")
    BY <1>0, <2>1, <2>2, <2>3 DEF Raised, Strongly, Same
  <2>4. CASE Gets(n, m, Tmp, "move", x)
    <3>1. n.how = "ok" /\ n.at[x].in = "error" /\ n.at[Arg] = m.at[Arg]
      BY <1>0, <2>4, LeftIsCell DEF Gets, Same, Memories
    <3>2. PICK l \in Drop(n, x, "error") : IF l.how = "ok" THEN k \in R(l) ELSE k = l
      BY <2>1, <3>1 DEF Then
    <3> HIDE DEF R, E
    <3>3. Emptied(l, n, x)
      BY <1>0, <2>2, <3>1, <3>2, DropSays
    <3>4. l.at[Arg] = m.at[Arg] /\ l.how = "ok" /\ l \in Memories /\ l.at[x] = Nothing /\ l.leaked = m.leaked
      BY <1>0, <2>2, <3>1, <3>3 DEF Emptied, Same
    <3>5. PICK i \in Place(l, x, "value", "make", Arg) :
            IF i.how # "threw" THEN k = i
            ELSE \E j \in Assign([i EXCEPT !.how = "ok"], x, "error", "move", Tmp) :
                   k = IF j.how = "ok" THEN Raise(j) ELSE j
      BY <3>2, <3>4 DEF R, TryRestore
    <3>6. /\ i \in Memories /\ i.leaked = l.leaked
          /\ Made(i, l, x, "value", m.at[Arg]) \/ (Strongly(i, l) /\ <<"value", "make">> \in throwing)
      BY <1>0, <3>4, PlaceArgSays
    <3>7. CASE Made(i, l, x, "value", m.at[Arg])
      <4>1. k = i
        BY <3>5, <3>7 DEF Made
      <4>2. Made(k, m, x, "value", m.at[Arg])
        BY <1>0, <2>2, <2>4, <3>3, <3>7, <4>1, SameFlags DEF Made, Gets, Emptied, Same, SameKinds
      <4> QED BY <3>4, <3>6, <4>1, <4>2
    <3>8. CASE Strongly(i, l)
      <4> DEFINE u == [i EXCEPT !.how = "ok"]
      <4>1. u \in Memories /\ u.leaked = i.leaked /\ u.at = i.at
        BY <3>6 DEF Memories, Hows
      <4>2. PICK j \in Assign(u, x, "error", "move", Tmp) : k = IF j.how = "ok" THEN Raise(j) ELSE j
        BY <3>5, <3>8 DEF Strongly
      <4> HIDE DEF u
      <4>3. u.at[x].in # "error"
        BY <1>0, <3>4, <3>8, <4>1 DEF Strongly, Same, Nothing
      <4>4. j \in Memories /\ j.leaked = u.leaked /\ j.how = "undefined"
        BY <1>0, <4>1, <4>3, AssignDead
      <4> QED BY <1>2, <3>4, <3>6, <4>1, <4>2, <4>4
    <3> QED BY <3>6, <3>7, <3>8
  <2> QED BY <2>2, <2>3, <2>4
<1> QED BY <1>1, <1>2

LEMMA SetToSays ==
  ASSUME ~t_is_void, NEW m \in Memories, m.how = "ok", NEW x \in Objs, Good(m, x),
         m.at[Arg].in = "value", m.at[Tmp] = Nothing, NEW k \in SetTo(m, x)
  PROVE  /\ k \in Memories /\ k.leaked = m.leaked
         /\ Made(k, m, x, "value", m.at[Arg]) \/ Strongly(k, m) \/ (k.how = "undefined" /\ ~Nothrow("value", "make"))
<1>0. /\ {x, Tmp, Arg} \subseteq Places /\ x # Tmp /\ x # Arg
      /\ "value" \in Kinds /\ ~NoObject("value") /\ m.at[x].in = KindOf(m, x) /\ KindOf(m, x) \in Kinds
  BY PlacesAssumption, KindSays DEF Places, Kinds, NoObject, Good
<1>1. CASE KindOf(m, x) = "error"
  <2>1. k \in ReplaceError(m, x)
    BY <1>1, KindSays DEF SetTo
  <2> QED BY <1>0, <1>1, <2>1, ReplaceErrorSays
<1>2. CASE KindOf(m, x) = "value"
  <2>1. k \in Assign(m, x, "value", "make", Arg)
    BY <1>2, KindSays DEF SetTo
  <2>2. /\ k \in Memories /\ k.has = m.has /\ k.leaked = m.leaked
        /\ Gets(k, m, x, "make", Arg) \/ Raised(k, m, "value", "make")
    BY <1>0, <1>2, <2>1, AssignSays
  <2>3. ASSUME Gets(k, m, x, "make", Arg) PROVE Made(k, m, x, "value", m.at[Arg])
    BY <1>0, <1>2, <2>2, <2>3, SameFlags DEF Gets, Made, Same, SameKinds
  <2>4. ASSUME Raised(k, m, "value", "make") PROVE Strongly(k, m)
    BY <2>2, <2>4 DEF Raised, Strongly, Same
  <2> QED BY <2>2, <2>3, <2>4
<1> QED BY <1>0, <1>1, <1>2 DEF Kinds

LEMMA EmplaceAtSays ==
  ASSUME ~t_is_void, NEW m \in Memories, m.how = "ok", NEW x \in Objs, Good(m, x),
         m.at[Arg].in = "value", m.at[Tmp] = Nothing, NEW k \in EmplaceAt(m, x)
  PROVE  /\ k \in Memories /\ k.leaked = m.leaked
         /\ Made(k, m, x, "value", m.at[Arg]) \/ Strongly(k, m) \/ (k.how = "undefined" /\ ~Nothrow("value", "make"))
<1>0. /\ {x, Tmp, Arg} \subseteq Places /\ x # Tmp /\ x # Arg /\ Tmp # Arg
      /\ "value" \in Kinds /\ ~NoObject("value") /\ m.at[x].in = KindOf(m, x) /\ KindOf(m, x) \in Kinds
  BY PlacesAssumption, KindSays DEF Places, Kinds, NoObject, Good, Tmp, Arg
<1>1. CASE KindOf(m, x) = "error"
  <2>1. k \in ReplaceError(m, x)
    BY <1>1, KindSays DEF EmplaceAt
  <2> QED BY <1>0, <1>1, <2>1, ReplaceErrorSays
<1>2. CASE KindOf(m, x) = "value"
  <2>1. PICK n \in Build(m, Tmp, "value", "make", Arg) :
          IF n.how = "ok" THEN k \in Assign(n, x, "value", "move", Tmp) ELSE k = n
    BY <1>2, KindSays DEF EmplaceAt, Then
  <2>2. /\ n \in Memories /\ n.has = m.has /\ n.leaked = m.leaked
        /\ Gets(n, m, Tmp, "make", Arg) \/ Raised(n, m, "value", "make")
    BY <1>0, <2>1, BuildSays
  <2>3. CASE Raised(n, m, "value", "make")
    BY <2>1, <2>2, <2>3 DEF Raised, Strongly, Same
  <2>4. CASE Gets(n, m, Tmp, "make", Arg)
    <3>1. n.how = "ok" /\ n.at[x].in = "value" /\ n.at[Tmp] = m.at[Arg] /\ n.at[Arg] = m.at[Arg]
      BY <1>0, <1>2, <2>4 DEF Gets, Same, Left
    <3>2. /\ k \in Memories /\ k.has = n.has /\ k.leaked = n.leaked
          /\ Gets(k, n, x, "move", Tmp) \/ Raised(k, n, "value", "move")
      BY <1>0, <2>1, <2>2, <3>1, AssignSays
    <3>3. ASSUME Gets(k, n, x, "move", Tmp) PROVE Made(k, m, x, "value", m.at[Arg])
      BY <1>0, <1>2, <2>2, <2>4, <3>1, <3>2, <3>3, SameFlags DEF Gets, Made, Same, SameKinds
    <3>4. ASSUME Raised(k, n, "value", "move") PROVE Strongly(k, m)
      BY <1>0, <2>2, <2>4, <3>1, <3>2, <3>4 DEF Gets, Raised, Strongly, Same
    <3> QED BY <2>2, <3>2, <3>3, <3>4
  <2> QED BY <2>2, <2>3, <2>4
<1> QED BY <1>0, <1>1, <1>2 DEF Kinds

LEMMA SetUnexpectedSays ==
  ASSUME NEW m \in Memories, m.how = "ok", NEW x \in Objs, Good(m, x), m.at[Arg].in = "error",
         NEW mode \in Modes, Nothrow("error", mode), NEW k \in SetUnexpected(m, x, mode)
  PROVE  k \in Memories /\ k.leaked = m.leaked /\ Made(k, m, x, "error", m.at[Arg])
<1>0. /\ {x, Arg} \subseteq Places /\ x # Arg /\ "error" \in Kinds /\ ~NoObject("error") /\ KindOf(m, x) \in Kinds
  BY PlacesAssumption, KindSays DEF Places, Kinds, NoObject
<1>1. CASE KindOf(m, x) = "error"
  <2>1. k \in Assign(m, x, "error", mode, Arg) /\ m.at[x].in = "error"
    BY <1>0, <1>1, KindSays DEF SetUnexpected, Good
  <2>2. /\ k \in Memories /\ k.has = m.has /\ k.leaked = m.leaked
        /\ Gets(k, m, x, mode, Arg) \/ Raised(k, m, "error", mode)
    BY <1>0, <2>1, AssignSays
  <2>3. Gets(k, m, x, mode, Arg)
    BY <2>2 DEF Raised, Nothrow
  <2> QED BY <1>0, <1>1, <2>2, <2>3, SameFlags DEF Gets, Made, Same, SameKinds
<1>2. CASE KindOf(m, x) = "value"
  <2>1. PICK n \in DestroyVal(m, x) : IF n.how = "ok" THEN k \in Place(n, x, "error", mode, Arg) ELSE k = n
    BY <1>2, KindSays DEF SetUnexpected, Then
  <2>2. n \in Memories /\ n.how = "ok" /\ n.at[x] = Nothing /\ Same(n, m, {x}) /\ n.has = m.has /\ n.leaked = m.leaked
    <3>1. CASE t_is_void
      <4>1. n = m
        BY <2>1, <3>1 DEF DestroyVal
      <4>2. m.at[x] \in Cells /\ m.at[x].in = "nothing"
        BY <1>0, <1>2, <3>1 DEF Memories, Good, NoObject
      <4> QED BY <4>1, <4>2, EmptyCell DEF Same
    <3>2. CASE ~t_is_void
      <4>1. n \in Drop(m, x, "value") /\ m.at[x].in = "value"
        BY <1>2, <2>1, <3>2 DEF DestroyVal, Good, NoObject
      <4>2. Emptied(n, m, x)
        BY <1>0, <4>1, DropSays
      <4> QED BY <4>2 DEF Emptied
    <3> QED BY <3>1, <3>2
  <2>3. n.at[Arg] = m.at[Arg]
    BY <1>0, <2>2 DEF Same
  <2>4. /\ k \in Memories /\ k.leaked = n.leaked
        /\ Made(k, n, x, "error", m.at[Arg]) \/ <<"error", mode>> \in throwing
    BY <1>0, <2>1, <2>2, <2>3, PlaceArgSays
  <2>5. Made(k, n, x, "error", m.at[Arg])
    BY <2>4 DEF Nothrow
  <2>6. Made(k, m, x, "error", m.at[Arg])
    BY <2>2, <2>5, SameFlags DEF Made, Same, SameKinds
  <2> QED BY <2>2, <2>4, <2>6
<1> QED BY <1>0, <1>1, <1>2 DEF Kinds

-----------------------------------------------------------------------------
(* swap.                                                                    *)

\* x and y have each other's content.
Swapped(k, m, x, y) ==
  /\ k.how = "ok" /\ KindOf(k, x) = KindOf(m, y) /\ KindOf(k, y) = KindOf(m, x) /\ SameKinds(k, m, {x, y})
  /\ k.at[x] = m.at[y] /\ k.at[y] = m.at[x] /\ Same(k, m, {x, y, Tmp})

\* Those in X have a content of their kind left.
Weakly(k, m, X) ==
  /\ k.how = "threw" /\ throwing # {} /\ k.has = m.has /\ Same(k, m, X \union {Tmp, Arg})
  /\ \A r \in X : k.at[r].in = m.at[r].in /\ k.at[r] \in {m.at[r], Left("move", m.at[r])} \union {m.at[q] : q \in X}

LEMMA StdSwapSays ==
  ASSUME ~t_is_void, NEW m \in Memories, m.how = "ok", NEW x \in Objs, NEW y \in Objs, x # y, NEW kind \in Kinds,
         KindOf(m, x) = kind, KindOf(m, y) = kind, m.at[x].in = kind, m.at[y].in = kind, m.at[Tmp] = Nothing,
         NEW k \in StdSwap(m, x, y, kind)
  PROVE  k \in Memories /\ k.leaked = m.leaked /\ (Swapped(k, m, x, y) \/ Weakly(k, m, {x, y}))
<1>0. {x, y, Tmp} \subseteq Places /\ x # Tmp /\ y # Tmp /\ ~NoObject(kind)
  BY PlacesAssumption DEF Places, NoObject
<1> DEFINE E(n) == Then(Assign(n, x, kind, "move", y), LAMBDA l : Assign(l, y, kind, "move", Tmp))
<1>1. PICK n \in Build(m, Tmp, kind, "move", x) : IF n.how = "ok" THEN k \in E(n) ELSE k = n
  BY DEF StdSwap, Then
<1>2. /\ n \in Memories /\ n.has = m.has /\ n.leaked = m.leaked
      /\ Gets(n, m, Tmp, "move", x) \/ Raised(n, m, kind, "move")
  BY <1>0, BuildSays
<1>3. CASE Raised(n, m, kind, "move")
  BY <1>1, <1>2, <1>3 DEF Raised, Weakly, Same
<1>4. CASE Gets(n, m, Tmp, "move", x)
  <2>1. /\ n.how = "ok" /\ n.at[x] = Left("move", m.at[x]) /\ n.at[x].in = kind
        /\ n.at[y] = m.at[y] /\ n.at[Tmp] = m.at[x]
    BY <1>0, <1>4, LeftIsCell DEF Gets, Same, Memories
  <2>2. PICK l \in Assign(n, x, kind, "move", y) :
          IF l.how = "ok" THEN k \in Assign(l, y, kind, "move", Tmp) ELSE k = l
    BY <1>1, <2>1 DEF Then
  <2> HIDE DEF E
  <2>3. /\ l \in Memories /\ l.has = n.has /\ l.leaked = n.leaked
        /\ Gets(l, n, x, "move", y) \/ Raised(l, n, kind, "move")
    BY <1>0, <1>2, <2>1, <2>2, AssignSays
  <2>4. CASE Raised(l, n, kind, "move")
    <3>1. k = l
      BY <2>2, <2>4 DEF Raised
    <3> QED BY <1>0, <1>2, <1>4, <2>1, <2>3, <2>4, <3>1 DEF Raised, Weakly, Same, Gets
  <2>5. CASE Gets(l, n, x, "move", y)
    <3>1. /\ l.how = "ok" /\ l.at[x] = m.at[y] /\ l.at[y] = Left("move", m.at[y]) /\ l.at[y].in = kind
          /\ l.at[Tmp] = m.at[x]
      BY <1>0, <2>1, <2>5, LeftIsCell DEF Gets, Same, Memories
    <3>2. k \in Assign(l, y, kind, "move", Tmp)
      BY <2>2, <3>1
    <3>3. /\ k \in Memories /\ k.has = l.has /\ k.leaked = l.leaked
          /\ Gets(k, l, y, "move", Tmp) \/ Raised(k, l, kind, "move")
      BY <1>0, <2>3, <3>1, <3>2, AssignSays
    <3>4. \A r \in Places : r \notin {x, y, Tmp} => l.at[r] = m.at[r]
      BY <1>4, <2>5 DEF Gets, Same
    <3>5. ASSUME Gets(k, l, y, "move", Tmp) PROVE Swapped(k, m, x, y)
      BY <1>0, <1>2, <2>3, <3>1, <3>3, <3>4, <3>5, SameFlags DEF Gets, Swapped, Same, SameKinds
    <3>6. ASSUME Raised(k, l, kind, "move") PROVE Weakly(k, m, {x, y})
      BY <1>0, <1>2, <2>3, <3>1, <3>3, <3>4, <3>6 DEF Raised, Weakly, Same
    <3> QED BY <1>2, <2>3, <3>3, <3>5, <3>6
  <2> QED BY <2>3, <2>4, <2>5
<1> QED BY <1>2, <1>3, <1>4

LEMMA SwapFlagsSays ==
  ASSUME NEW m \in Memories, NEW x \in Objs, NEW y \in Objs, x # y, NEW k \in SwapFlags(m, x, y)
  PROVE  /\ k \in Memories /\ k.at = m.at /\ k.how = m.how /\ k.leaked = m.leaked
         /\ KindOf(k, x) = KindOf(m, y) /\ KindOf(k, y) = KindOf(m, x) /\ SameKinds(k, m, {x, y})
<1> DEFINE g == [m.has EXCEPT ![x] = m.has[y]]
           h == [g EXCEPT ![y] = m.has[x]]
<1>1. k = [m EXCEPT !.has = h]
  BY DEF SwapFlags, Memories
<1>2. h \in [Objs -> BOOLEAN] /\ h[x] = m.has[y] /\ h[y] = m.has[x]
      /\ \A r \in Objs : r \notin {x, y} => h[r] = m.has[r]
  BY DEF Memories
<1> HIDE DEF h
<1>3. k \in Memories /\ k.at = m.at /\ k.how = m.how /\ k.leaked = m.leaked /\ k.has = h
  BY <1>1, <1>2 DEF Memories
<1> QED BY <1>2, <1>3 DEF SameKinds, KindOf

\* What both ways to swap a T and an E end in.
LEMMA SwapEnds ==
  ASSUME NEW m \in Memories, NEW x \in Objs, NEW y \in Objs, x # y, NEW n \in Memories, n.how = "ok",
         n.has = m.has, n.leaked = m.leaked, n.at[x] = m.at[y], n.at[y] = m.at[x],
         Same(n, m, {x, y, Tmp}), NEW k \in SwapFlags(n, x, y)
  PROVE  k \in Memories /\ k.leaked = m.leaked /\ Swapped(k, m, x, y)
<1>1. /\ k \in Memories /\ k.at = n.at /\ k.how = n.how /\ k.leaked = n.leaked
      /\ KindOf(k, x) = KindOf(n, y) /\ KindOf(k, y) = KindOf(n, x) /\ SameKinds(k, n, {x, y})
  BY SwapFlagsSays
<1> QED BY <1>1, SameFlags DEF Swapped, SameKinds, Same

LEMMA SwapMovingValueSays ==
  ASSUME ~t_is_void, NEW m \in Memories, m.how = "ok", NEW v \in Objs, NEW e \in Objs, v # e,
         KindOf(m, v) = "value", KindOf(m, e) = "error", m.at[v].in = "value", m.at[e].in = "error",
         m.at[Tmp] = Nothing, Nothrow("value", "move"), NEW k \in SwapMovingValue(m, v, e)
  PROVE  /\ k \in Memories /\ k.leaked = m.leaked
         /\ Swapped(k, m, v, e) \/ (k.how = "undefined" /\ ~Nothrow("error", "move"))
<1>0. /\ {v, e, Tmp} \subseteq Places /\ v # Tmp /\ e # Tmp /\ ~NoObject("value") /\ ~NoObject("error")
      /\ "value" \in Kinds /\ "error" \in Kinds
  BY PlacesAssumption DEF Places, NoObject, Kinds
<1> DEFINE G(l) == Then(Build(l, e, "value", "move", Tmp), LAMBDA i : SwapFlags(i, v, e))
           F(n) == Then(Drop(n, e, "error"), G)
           X(n) == Then(Build(n, v, "error", "move", e), F)
           U(n) == IF Nothrow("error", "move") THEN Noexcept(X(n))
                   ELSE TryRestore(X(n), LAMBDA l : Assign(l, v, "value", "move", Tmp))
           E(n) == Then(Drop(n, v, "value"), U)
<1>1. PICK n \in Build(m, Tmp, "value", "move", v) : IF n.how = "ok" THEN k \in E(n) ELSE k = n
  BY DEF SwapMovingValue, Then
<1>2. /\ n \in Memories /\ n.has = m.has /\ n.leaked = m.leaked
      /\ Gets(n, m, Tmp, "move", v) \/ Raised(n, m, "value", "move")
  BY <1>0, BuildSays
<1>3. Gets(n, m, Tmp, "move", v)
  BY <1>2 DEF Raised, Nothrow
<1>4. n.how = "ok" /\ n.at[v].in = "value" /\ n.at[e] = m.at[e] /\ n.at[Tmp] = m.at[v]
  BY <1>0, <1>3, LeftIsCell DEF Gets, Same, Memories
<1>5. PICK l \in Drop(n, v, "value") : IF l.how = "ok" THEN k \in U(l) ELSE k = l
  BY <1>1, <1>4 DEF Then
<1> HIDE DEF U, E, X
<1>6. Emptied(l, n, v)
  BY <1>0, <1>2, <1>4, <1>5, DropSays
<1>7. /\ l \in Memories /\ l.how = "ok" /\ l.at[v] = Nothing /\ l.at[e] = m.at[e] /\ l.at[Tmp] = m.at[v]
      /\ l.has = m.has /\ l.leaked = m.leaked /\ Same(l, m, {v, Tmp})
  BY <1>0, <1>2, <1>3, <1>4, <1>6 DEF Emptied, Same, Gets
<1>8. ASSUME NEW i \in X(l)
      PROVE  /\ i \in Memories /\ i.leaked = m.leaked
             /\ Swapped(i, m, v, e) \/ (Raised(i, l, "error", "move") /\ i.has = m.has)
  <2>1. PICK j \in Build(l, v, "error", "move", e) : IF j.how = "ok" THEN i \in F(j) ELSE i = j
    BY <1>8 DEF X, Then
  <2>2. /\ j \in Memories /\ j.has = l.has /\ j.leaked = l.leaked
        /\ Gets(j, l, v, "move", e) \/ Raised(j, l, "error", "move")
    BY <1>0, <1>7, <2>1, BuildSays
  <2>3. CASE Raised(j, l, "error", "move")
    BY <1>7, <2>1, <2>2, <2>3 DEF Raised
  <2>4. CASE Gets(j, l, v, "move", e)
    <3>1. j.how = "ok" /\ j.at[v] = m.at[e] /\ j.at[e].in = "error" /\ j.at[Tmp] = m.at[v] /\ Same(j, m, {v, e, Tmp})
      BY <1>0, <1>7, <2>4, LeftIsCell DEF Gets, Same, Memories
    <3>2. PICK a \in Drop(j, e, "error") : IF a.how = "ok" THEN i \in G(a) ELSE i = a
      BY <2>1, <3>1 DEF Then
    <3> HIDE DEF F
    <3>3. Emptied(a, j, e)
      BY <1>0, <2>2, <3>1, <3>2, DropSays
    <3>4. /\ a \in Memories /\ a.how = "ok" /\ a.at[e] = Nothing /\ a.at[v] = m.at[e] /\ a.at[Tmp] = m.at[v]
          /\ a.has = m.has /\ a.leaked = m.leaked /\ Same(a, m, {v, e, Tmp})
      BY <1>0, <1>7, <2>2, <3>1, <3>3 DEF Emptied, Same
    <3>5. PICK b \in Build(a, e, "value", "move", Tmp) : IF b.how = "ok" THEN i \in SwapFlags(b, v, e) ELSE i = b
      BY <3>2, <3>4 DEF Then
    <3> HIDE DEF G
    <3>6. /\ b \in Memories /\ b.has = a.has /\ b.leaked = a.leaked
          /\ Gets(b, a, e, "move", Tmp) \/ Raised(b, a, "value", "move")
      BY <1>0, <3>4, <3>5, BuildSays
    <3>7. Gets(b, a, e, "move", Tmp)
      BY <3>6 DEF Raised, Nothrow
    <3>8. b.how = "ok" /\ b.at[v] = m.at[e] /\ b.at[e] = m.at[v] /\ Same(b, m, {v, e, Tmp})
      BY <1>0, <3>4, <3>7 DEF Gets, Same
    <3> QED BY <3>4, <3>5, <3>6, <3>8, SwapEnds
  <2> QED BY <2>2, <2>3, <2>4
<1>9. CASE Nothrow("error", "move")
  <2>1. ASSUME NEW i \in X(l) PROVE i \in Memories /\ i.leaked = m.leaked /\ Swapped(i, m, v, e)
    BY <1>8, <1>9, <2>1 DEF Raised, Nothrow
  <2>2. k \in Noexcept(X(l)) /\ X(l) \in SUBSET Memories
    BY <1>5, <1>7, <1>9, <2>1 DEF U
  <2>3. PICK i \in X(l) : i.how # "threw" => k = i
    BY <2>2, NoexceptSays
  <2> QED BY <2>1, <2>3 DEF Swapped
<1>10. CASE ~Nothrow("error", "move")
  <2>1. PICK i \in X(l) :
          IF i.how # "threw" THEN k = i
          ELSE \E j \in Assign([i EXCEPT !.how = "ok"], v, "value", "move", Tmp) :
                 k = IF j.how = "ok" THEN Raise(j) ELSE j
    BY <1>5, <1>7, <1>10 DEF U, TryRestore
  <2>2. CASE Swapped(i, m, v, e)
    BY <1>8, <2>1, <2>2 DEF Swapped
  <2>3. CASE Raised(i, l, "error", "move")
    <3> DEFINE u == [i EXCEPT !.how = "ok"]
    <3>1. u \in Memories /\ u.leaked = i.leaked /\ u.at = i.at
      BY <1>8 DEF Memories, Hows
    <3>2. PICK j \in Assign(u, v, "value", "move", Tmp) : k = IF j.how = "ok" THEN Raise(j) ELSE j
      BY <2>1, <2>3 DEF Raised
    <3> HIDE DEF u
    <3>3. u.at[v].in # "value"
      BY <1>7, <2>3, <3>1 DEF Raised, Nothing
    <3>4. j \in Memories /\ j.leaked = u.leaked /\ j.how = "undefined"
      BY <1>0, <3>1, <3>3, AssignDead
    <3> QED BY <1>8, <1>10, <3>1, <3>2, <3>4
  <2> QED BY <1>8, <2>2, <2>3
<1> QED BY <1>9, <1>10

LEMMA SwapMovingErrorSays ==
  ASSUME ~t_is_void, NEW m \in Memories, m.how = "ok", NEW v \in Objs, NEW e \in Objs, v # e,
         KindOf(m, v) = "value", KindOf(m, e) = "error", m.at[v].in = "value", m.at[e].in = "error",
         m.at[Tmp] = Nothing, Nothrow("error", "move"), NEW k \in SwapMovingError(m, v, e)
  PROVE  /\ k \in Memories /\ k.leaked = m.leaked
         /\ Swapped(k, m, v, e) \/ (k.how = "undefined" /\ ~Nothrow("value", "copy"))
<1>0. /\ {v, e, Tmp} \subseteq Places /\ v # Tmp /\ e # Tmp /\ ~NoObject("value") /\ ~NoObject("error")
      /\ "value" \in Kinds /\ "error" \in Kinds
  BY PlacesAssumption DEF Places, NoObject, Kinds
<1> DEFINE G(l) == Then(Build(l, v, "error", "move", Tmp), LAMBDA i : SwapFlags(i, v, e))
           F(n) == Then(Drop(n, v, "value"), G)
           X(n) == Then(Build(n, e, "value", "copy", v), F)
           U(n) == TryRestore(X(n), LAMBDA l : Assign(l, e, "error", "move", Tmp))
           E(n) == Then(Drop(n, e, "error"), U)
<1>1. PICK n \in Build(m, Tmp, "error", "move", e) : IF n.how = "ok" THEN k \in E(n) ELSE k = n
  BY DEF SwapMovingError, Then
<1>2. /\ n \in Memories /\ n.has = m.has /\ n.leaked = m.leaked
      /\ Gets(n, m, Tmp, "move", e) \/ Raised(n, m, "error", "move")
  BY <1>0, BuildSays
<1>3. Gets(n, m, Tmp, "move", e)
  BY <1>2 DEF Raised, Nothrow
<1>4. n.how = "ok" /\ n.at[e].in = "error" /\ n.at[v] = m.at[v] /\ n.at[Tmp] = m.at[e]
  BY <1>0, <1>3, LeftIsCell DEF Gets, Same, Memories
<1>5. PICK l \in Drop(n, e, "error") : IF l.how = "ok" THEN k \in U(l) ELSE k = l
  BY <1>1, <1>4 DEF Then
<1> HIDE DEF U, E, X
<1>6. Emptied(l, n, e)
  BY <1>0, <1>2, <1>4, <1>5, DropSays
<1>7. /\ l \in Memories /\ l.how = "ok" /\ l.at[e] = Nothing /\ l.at[v] = m.at[v] /\ l.at[Tmp] = m.at[e]
      /\ l.has = m.has /\ l.leaked = m.leaked /\ Same(l, m, {e, Tmp})
  BY <1>0, <1>2, <1>3, <1>4, <1>6 DEF Emptied, Same, Gets
<1>8. ASSUME NEW i \in X(l)
      PROVE  /\ i \in Memories /\ i.leaked = m.leaked
             /\ Swapped(i, m, v, e) \/ (Raised(i, l, "value", "copy") /\ i.has = m.has)
  <2>1. PICK j \in Build(l, e, "value", "copy", v) : IF j.how = "ok" THEN i \in F(j) ELSE i = j
    BY <1>8 DEF X, Then
  <2>2. /\ j \in Memories /\ j.has = l.has /\ j.leaked = l.leaked
        /\ Gets(j, l, e, "copy", v) \/ Raised(j, l, "value", "copy")
    BY <1>0, <1>7, <2>1, BuildSays
  <2>3. CASE Raised(j, l, "value", "copy")
    BY <1>7, <2>1, <2>2, <2>3 DEF Raised
  <2>4. CASE Gets(j, l, e, "copy", v)
    <3>1. j.how = "ok" /\ j.at[e] = m.at[v] /\ j.at[v].in = "value" /\ j.at[Tmp] = m.at[e] /\ Same(j, m, {v, e, Tmp})
      BY <1>0, <1>7, <2>4, LeftIsCell DEF Gets, Same, Memories
    <3>2. PICK a \in Drop(j, v, "value") : IF a.how = "ok" THEN i \in G(a) ELSE i = a
      BY <2>1, <3>1 DEF Then
    <3> HIDE DEF F
    <3>3. Emptied(a, j, v)
      BY <1>0, <2>2, <3>1, <3>2, DropSays
    <3>4. /\ a \in Memories /\ a.how = "ok" /\ a.at[v] = Nothing /\ a.at[e] = m.at[v] /\ a.at[Tmp] = m.at[e]
          /\ a.has = m.has /\ a.leaked = m.leaked /\ Same(a, m, {v, e, Tmp})
      BY <1>0, <1>7, <2>2, <3>1, <3>3 DEF Emptied, Same
    <3>5. PICK b \in Build(a, v, "error", "move", Tmp) : IF b.how = "ok" THEN i \in SwapFlags(b, v, e) ELSE i = b
      BY <3>2, <3>4 DEF Then
    <3> HIDE DEF G
    <3>6. /\ b \in Memories /\ b.has = a.has /\ b.leaked = a.leaked
          /\ Gets(b, a, v, "move", Tmp) \/ Raised(b, a, "error", "move")
      BY <1>0, <3>4, <3>5, BuildSays
    <3>7. Gets(b, a, v, "move", Tmp)
      BY <3>6 DEF Raised, Nothrow
    <3>8. b.how = "ok" /\ b.at[v] = m.at[e] /\ b.at[e] = m.at[v] /\ Same(b, m, {v, e, Tmp})
      BY <1>0, <3>4, <3>7 DEF Gets, Same
    <3> QED BY <3>4, <3>5, <3>6, <3>8, SwapEnds
  <2> QED BY <2>2, <2>3, <2>4
<1>9. PICK i \in X(l) :
        IF i.how # "threw" THEN k = i
        ELSE \E j \in Assign([i EXCEPT !.how = "ok"], e, "error", "move", Tmp) :
               k = IF j.how = "ok" THEN Raise(j) ELSE j
  BY <1>5, <1>7 DEF U, TryRestore
<1>10. CASE Swapped(i, m, v, e)
  BY <1>8, <1>9, <1>10 DEF Swapped
<1>11. CASE Raised(i, l, "value", "copy")
  <2> DEFINE u == [i EXCEPT !.how = "ok"]
  <2>1. u \in Memories /\ u.leaked = i.leaked /\ u.at = i.at
    BY <1>8 DEF Memories, Hows
  <2>2. PICK j \in Assign(u, e, "error", "move", Tmp) : k = IF j.how = "ok" THEN Raise(j) ELSE j
    BY <1>9, <1>11 DEF Raised
  <2> HIDE DEF u
  <2>3. u.at[e].in # "error"
    BY <1>7, <1>11, <2>1 DEF Raised, Nothing
  <2>4. j \in Memories /\ j.leaked = u.leaked /\ j.how = "undefined"
    BY <1>0, <2>1, <2>3, AssignDead
  <2> QED BY <1>8, <1>11, <2>1, <2>2, <2>4 DEF Raised, Nothrow
<1> QED BY <1>8, <1>10, <1>11

LEMMA SwapWithSays ==
  ASSUME ~t_is_void, NEW m \in Memories, m.how = "ok", NEW x \in Objs, NEW y \in Objs, x # y,
         Good(m, x), Good(m, y), m.at[Tmp] = Nothing, Nothrow("value", "move") \/ Nothrow("error", "move"),
         NEW k \in SwapWith(m, x, y)
  PROVE  /\ k \in Memories /\ k.leaked = m.leaked
         /\ \/ Swapped(k, m, x, y)
            \/ Weakly(k, m, {x, y})
            \/ /\ k.how = "undefined"
               /\ IF Nothrow("value", "move") THEN ~Nothrow("error", "move") ELSE ~Nothrow("value", "copy")
<1>0. /\ KindOf(m, x) \in Kinds /\ KindOf(m, y) \in Kinds
      /\ m.at[x].in = KindOf(m, x) /\ m.at[y].in = KindOf(m, y)
      /\ (m.has[x] <=> KindOf(m, x) = "value") /\ (m.has[y] <=> KindOf(m, y) = "value")
      /\ (m.has[x] = m.has[y]) <=> KindOf(m, x) = KindOf(m, y)
  BY KindSays, SameFlag DEF Good, NoObject
<1>1. CASE KindOf(m, x) = KindOf(m, y)
  <2>1. k \in StdSwap(m, x, y, KindOf(m, x))
    BY <1>0, <1>1 DEF SwapWith
  <2> QED BY <1>0, <1>1, <2>1, StdSwapSays
<1>2. ASSUME NEW v \in Objs, NEW e \in Objs, {v, e} = {x, y}, KindOf(m, v) = "value", KindOf(m, e) = "error",
             k \in SwapOne(m, v, e)
      PROVE  /\ k \in Memories /\ k.leaked = m.leaked
             /\ \/ Swapped(k, m, v, e)
                \/ /\ k.how = "undefined"
                   /\ IF Nothrow("value", "move") THEN ~Nothrow("error", "move") ELSE ~Nothrow("value", "copy")
  <2>1. v # e /\ m.at[v].in = "value" /\ m.at[e].in = "error"
    BY <1>0, <1>2
  <2>2. CASE Nothrow("value", "move")
    <3>1. k \in SwapMovingValue(m, v, e)
      BY <1>2, <2>2 DEF SwapOne
    <3> QED BY <1>2, <2>1, <2>2, <3>1, SwapMovingValueSays
  <2>3. CASE ~Nothrow("value", "move")
    <3>1. k \in SwapMovingError(m, v, e)
      BY <1>2, <2>3 DEF SwapOne
    <3> QED BY <1>2, <2>1, <2>3, <3>1, SwapMovingErrorSays
  <2> QED BY <2>2, <2>3
<1>3. CASE KindOf(m, x) = "value" /\ KindOf(m, y) = "error"
  <2>1. k \in SwapOne(m, x, y)
    BY <1>0, <1>3 DEF SwapWith
  <2> QED BY <1>2, <1>3, <2>1
<1>4. CASE KindOf(m, x) = "error" /\ KindOf(m, y) = "value"
  <2>1. k \in SwapOne(m, y, x)
    BY <1>0, <1>4 DEF SwapWith
  <2>2. ASSUME Swapped(k, m, y, x) PROVE Swapped(k, m, x, y)
    BY <2>2 DEF Swapped, SameKinds, Same
  <2> QED BY <1>2, <1>4, <2>1, <2>2
<1> QED BY <1>0, <1>1, <1>3, <1>4 DEF Kinds

-----------------------------------------------------------------------------
(* New objects.                                                             *)

LEMMA GoodCell ==
  ASSUME NEW m \in Memories, NEW y \in Objs, Good(m, y)
  PROVE  /\ KindOf(m, y) \in Kinds /\ y \in Places /\ m.at[y] \in Cells
         /\ ~NoObject(KindOf(m, y)) => m.at[y].in = KindOf(m, y)
         /\ NoObject(KindOf(m, y)) => m.at[y] = Nothing
         /\ \A mode : Left(mode, Nothing) = Nothing
<1>1. KindOf(m, y) \in Kinds /\ y \in Places /\ m.at[y] \in Cells
  BY KindSays DEF Places, Memories
<1>2. \A mode : Left(mode, Nothing) = Nothing
  BY EmptyCell DEF Cells, Nothing
<1> QED BY <1>1, <1>2, EmptyCell DEF Good

\* The content of y, which x takes.
LEMMA PlacedAssigned ==
  ASSUME NEW m \in Memories, NEW x \in Objs, NEW y \in Objs, x # y, NEW mode, NEW k,
         Good(m, y), m.at[x] = Nothing, Placed(k, m, x, KindOf(m, y), mode, y)
  PROVE  Assigned(k, m, x, mode, y)
BY GoodCell DEF Placed, Assigned, Gets, Same

LEMMA PlaceObject ==
  ASSUME NEW m \in Memories, m.how = "ok", NEW x \in Objs, NEW y \in Objs, x # y, NEW mode,
         Good(m, y), m.at[x] = Nothing, NEW k \in Place(m, x, KindOf(m, y), mode, y)
  PROVE  k \in Memories /\ k.leaked = m.leaked /\ (Assigned(k, m, x, mode, y) \/ Strongly(k, m))
<1> DEFINE kind == KindOf(m, y)
<1>1. kind \in Kinds /\ y \in Places /\ (~NoObject(kind) => m.at[y].in = kind)
  BY GoodCell
<1>2. k \in Place(m, x, kind, mode, y)
  OBVIOUS
<1>3. (Placed(k, m, x, kind, mode, y) => Assigned(k, m, x, mode, y))
  BY PlacedAssigned
<1> HIDE DEF kind
<1>4. /\ k \in Memories /\ k.leaked = m.leaked
      /\ Placed(k, m, x, kind, mode, y) \/ (Raised(k, m, kind, mode) /\ k.has = m.has)
  BY <1>1, <1>2, PlaceSays
<1> QED BY <1>3, <1>4 DEF Raised, Strongly, Same

LEMMA ConstructObject ==
  ASSUME NEW m \in Memories, m.how = "ok", NEW x \in Objs, NEW y \in Objs, x # y, NEW mode,
         Good(m, y), m.at[x] = Nothing, NEW k \in Construct(m, x, KindOf(m, y), mode, y)
  PROVE  k \in Memories /\ k.leaked = m.leaked /\ (Assigned(k, m, x, mode, y) \/ Ended(k, mode))
<1> DEFINE kind == KindOf(m, y)
<1>1. kind \in Kinds /\ y \in Places /\ (~NoObject(kind) => m.at[y].in = kind)
  BY GoodCell
<1>2. k \in Construct(m, x, kind, mode, y)
  OBVIOUS
<1>3. (Placed(k, m, x, kind, mode, y) => Assigned(k, m, x, mode, y))
  BY PlacedAssigned
<1> HIDE DEF kind
<1>4. /\ k \in Memories /\ k.leaked = m.leaked
      /\ Placed(k, m, x, kind, mode, y) \/ (Ended(k, mode) /\ <<kind, mode>> \in throwing)
  BY <1>1, <1>2, ConstructSays
<1> QED BY <1>3, <1>4

\* The converting constructors: the base makes a T{}, and the object is built over it.
Convert(m, x, mode, y) ==
  Then(Place(m, x, "value", "make", Arg), LAMBDA n : Construct(n, x, KindOf(n, y), mode, y))

LEMMA ConvertSays ==
  ASSUME ~t_is_void, NEW m \in Memories, m.how = "ok", NEW x \in Objs, NEW y \in Objs, x # y, NEW mode,
         Good(m, y), m.at[x] = Nothing, m.at[Arg].in = "value",
         NEW k \in Convert(m, x, mode, y)
  PROVE  k \in Memories /\ (Assigned(k, m, x, mode, y) \/ Ended(k, mode) \/ Strongly(k, m))
<1>0. /\ {x, y, Tmp, Arg} \subseteq Places /\ x # Arg /\ "value" \in Kinds
      /\ KindOf(m, y) \in Kinds /\ m.at[y].in = KindOf(m, y) /\ \A kind : ~NoObject(kind)
  BY PlacesAssumption, KindSays DEF Places, Good, NoObject, Kinds
<1>1. PICK n \in Place(m, x, "value", "make", Arg) :
        IF n.how = "ok" THEN k \in Construct(n, x, KindOf(n, y), mode, y) ELSE k = n
  BY DEF Convert, Then
<1>2. /\ n \in Memories
      /\ Placed(n, m, x, "value", "make", Arg) \/ (Raised(n, m, "value", "make") /\ n.has = m.has)
  BY <1>0, <1>1, PlaceSays
<1>3. CASE Raised(n, m, "value", "make") /\ n.has = m.has
  BY <1>1, <1>2, <1>3 DEF Raised, Strongly, Same
<1>4. CASE Placed(n, m, x, "value", "make", Arg)
  <2>1. n.how = "ok" /\ KindOf(n, y) = KindOf(m, y) /\ SameKinds(n, m, {x}) /\ Same(n, m, {x}) /\ n.at[y] = m.at[y]
    BY <1>0, <1>4 DEF Placed, Gets, Same, SameKinds, Left
  <2>2. k \in Construct(n, x, KindOf(m, y), mode, y)
    BY <1>1, <2>1
  <2>3. /\ k \in Memories
        /\ Placed(k, n, x, KindOf(m, y), mode, y) \/ (Ended(k, mode) /\ <<KindOf(m, y), mode>> \in throwing)
    BY <1>0, <1>2, <2>1, <2>2, ConstructSays
  <2>4. ASSUME Placed(k, n, x, KindOf(m, y), mode, y) PROVE Assigned(k, m, x, mode, y)
    BY <1>0, <2>1, <2>4 DEF Placed, Gets, Assigned, Same, SameKinds
  <2> QED BY <2>3, <2>4
<1> QED BY <1>2, <1>3, <1>4

\* x has c, which a function made of what y held.
Produced(k, m, x, y, mode, kind, c) ==
  /\ k.how = "ok" /\ KindOf(k, x) = kind /\ SameKinds(k, m, {x})
  /\ k.at[x] = (IF NoObject(kind) THEN Nothing ELSE c) /\ k.at[y] = Left(mode, m.at[y])
  /\ Same(k, m, {x, y, Tmp, Arg})

LEMMA LeftIsOne ==
  ASSUME NEW c, NEW mode \in Modes
  PROVE  Left(mode, c) \in {c, Left("move", c)}
BY DEF Left, Modes

\* The first half of an operation that hands what y holds to a function.
LEMMA TakesContent ==
  ASSUME NEW m \in Memories, m.how = "ok", NEW y \in Objs, NEW mode \in Modes, Good(m, y), m.at[Tmp] = Nothing,
         NEW n \in Build(m, Tmp, KindOf(m, y), mode, y)
  PROVE  /\ n \in Memories /\ n.has = m.has /\ n.leaked = m.leaked
         /\ \/ n.how = "ok" /\ n.at[y] = Left(mode, m.at[y]) /\ Same(n, m, {y, Tmp})
            \/ Strongly(n, m)
<1> DEFINE kind == KindOf(m, y)
<1>1. /\ kind \in Kinds /\ y \in Places /\ Tmp \in Places /\ y # Tmp /\ (~NoObject(kind) => m.at[y].in = kind)
      /\ NoObject(kind) => m.at[y] = Nothing /\ Left(mode, Nothing) = Nothing
  BY GoodCell, PlacesAssumption DEF Places
<1>2. n \in Build(m, Tmp, kind, mode, y)
  OBVIOUS
<1> HIDE DEF kind
<1>3. CASE NoObject(kind)
  <2>1. n = m
    BY <1>2, <1>3, BuildVoid
  <2> QED BY <1>1, <1>3, <2>1 DEF Same
<1>4. CASE ~NoObject(kind)
  <2>1. /\ n \in Memories /\ n.has = m.has /\ n.leaked = m.leaked
        /\ Gets(n, m, Tmp, mode, y) \/ Raised(n, m, kind, mode)
    BY <1>1, <1>2, <1>4, BuildSays
  <2> QED BY <2>1 DEF Gets, Raised, Strongly, Same
<1> QED BY <1>3, <1>4

LEMMA ApplySays ==
  ASSUME NEW m \in Memories, m.how = "ok", NEW x \in Objs, NEW y \in Objs, x # y, NEW mode \in Modes,
         NEW kind \in Kinds, NEW d \in Data \union {Moved}, Good(m, y), m.at[x] = Nothing, m.at[Tmp] = Nothing,
         NEW k \in Apply(m, x, y, mode, kind, d)
  PROVE  /\ k \in Memories /\ k.leaked = m.leaked
         /\ Produced(k, m, x, y, mode, kind, [in |-> kind, data |-> d]) \/ Weakly(k, m, {y})
<1> DEFINE c == [in |-> kind, data |-> d]
           p(n) == [n EXCEPT !.at[Arg] = c]
<1>0. /\ {x, y, Tmp, Arg} \subseteq Places /\ x # Arg /\ y # Arg /\ x # Tmp /\ y # Tmp
      /\ m.at[y] \in Cells /\ Left(mode, m.at[y]) \in {m.at[y], Left("move", m.at[y])}
      /\ Left(mode, m.at[y]).in = m.at[y].in
  <2>1. {x, y, Tmp, Arg} \subseteq Places /\ x # Arg /\ y # Arg /\ x # Tmp /\ y # Tmp
    BY PlacesAssumption DEF Places
  <2>2. m.at[y] \in Cells /\ Left(mode, m.at[y]) \in {m.at[y], Left("move", m.at[y])}
    BY <2>1, LeftIsOne DEF Memories
  <2>3. Left(mode, m.at[y]).in = m.at[y].in
    <3>1. CASE m.at[y].in \in Kinds
      BY <2>2, <3>1, LeftIsCell
    <3>2. CASE m.at[y].in \notin Kinds
      <4>1. m.at[y].in = "nothing"
        BY <2>2, <3>2 DEF Cells, Nothing
      <4> QED BY <2>2, <4>1, EmptyCell
    <3> QED BY <3>1, <3>2
  <2> QED BY <2>1, <2>2, <2>3
<1>1. PICK n \in Build(m, Tmp, KindOf(m, y), mode, y) :
        IF n.how = "ok" THEN k \in Place(p(n), x, kind, "make", Arg) ELSE k = n
  BY DEF Apply, Then
<1>2. /\ n \in Memories /\ n.has = m.has /\ n.leaked = m.leaked
      /\ \/ n.how = "ok" /\ n.at[y] = Left(mode, m.at[y]) /\ Same(n, m, {y, Tmp})
         \/ Strongly(n, m)
  BY TakesContent
<1>3. CASE Strongly(n, m)
  BY <1>0, <1>1, <1>2, <1>3 DEF Strongly, Weakly, Same
<1>4. CASE n.how = "ok" /\ n.at[y] = Left(mode, m.at[y]) /\ Same(n, m, {y, Tmp})
  <2> DEFINE u == p(n)
  <2>1. c \in Cells /\ c.in = kind
    BY DEF Cells
  <2>2. /\ u \in Memories /\ u.how = "ok" /\ u.has = m.has /\ u.leaked = m.leaked
        /\ u.at[Arg] = c /\ u.at[x] = Nothing /\ u.at[y] = Left(mode, m.at[y]) /\ Same(u, m, {y, Tmp, Arg})
    <3> HIDE DEF c
    <3>1. u = [n EXCEPT !.at = [n.at EXCEPT ![Arg] = c]]
      BY <1>2 DEF Memories
    <3> DEFINE a == [n.at EXCEPT ![Arg] = c]
    <3>2. a \in [Places -> Cells] /\ a[Arg] = c /\ \A r \in Places : r # Arg => a[r] = n.at[r]
      BY <1>0, <1>2, <2>1 DEF Memories
    <3>3. u = [n EXCEPT !.at = a]
      BY <3>1
    <3> HIDE DEF a, u
    <3> QED BY <1>0, <1>2, <1>4, <3>2, <3>3 DEF Memories, Same
  <2>3. k \in Place(u, x, kind, "make", Arg)
    BY <1>1, <1>4
  <2> HIDE DEF u, c, p
  <2>4. /\ k \in Memories /\ k.leaked = u.leaked
        /\ Made(k, u, x, kind, c) \/ (Strongly(k, u) /\ <<kind, "make">> \in throwing)
    BY <2>1, <2>2, <2>3, PlaceArgSays
  <2>5. ASSUME Made(k, u, x, kind, c) PROVE Produced(k, m, x, y, mode, kind, c)
    BY <1>0, <2>2, <2>5, SameFlags DEF Made, Produced, Same, SameKinds
  <2>6. ASSUME Strongly(k, u) PROVE Weakly(k, m, {y})
    BY <1>0, <2>2, <2>6 DEF Strongly, Weakly, Same
  <2> QED BY <2>2, <2>4, <2>5, <2>6 DEF c
<1> QED BY <1>2, <1>3, <1>4

\* What y held, after a function has had it.
PassedOn(k, m, x, mode, y) ==
  /\ k.how = "ok" /\ KindOf(k, x) = KindOf(m, y) /\ SameKinds(k, m, {x})
  /\ k.at[x] = Left(mode, m.at[y]) /\ k.at[y] = Left(mode, m.at[y]) /\ Same(k, m, {x, y, Tmp})

PassOn(m, x, mode, y) == Then(Build(m, Tmp, "error", mode, y), LAMBDA n : Construct(n, x, "error", mode, y))

LEMMA OrElseVoidSays ==
  ASSUME NEW m \in Memories, m.how = "ok", NEW x \in Objs, NEW y \in Objs, x # y, NEW mode \in Modes,
         Good(m, y), KindOf(m, y) = "error", m.at[x] = Nothing, m.at[Tmp] = Nothing,
         NEW k \in PassOn(m, x, mode, y)
  PROVE  /\ k \in Memories /\ k.leaked = m.leaked
         /\ PassedOn(k, m, x, mode, y) \/ Ended(k, mode) \/ Strongly(k, m)
<1>0. /\ {x, y, Tmp} \subseteq Places /\ x # Tmp /\ "error" \in Kinds /\ ~NoObject("error")
      /\ m.at[y].in = "error" /\ m.at[y] \in Cells
  BY PlacesAssumption, GoodCell DEF Places, NoObject, Kinds
<1>1. PICK n \in Build(m, Tmp, "error", mode, y) :
        IF n.how = "ok" THEN k \in Construct(n, x, "error", mode, y) ELSE k = n
  BY DEF PassOn, Then
<1>2. /\ n \in Memories /\ n.has = m.has /\ n.leaked = m.leaked
      /\ \/ n.how = "ok" /\ n.at[y] = Left(mode, m.at[y]) /\ Same(n, m, {y, Tmp})
         \/ Strongly(n, m)
  BY TakesContent
<1>3. CASE Strongly(n, m)
  BY <1>1, <1>2, <1>3 DEF Strongly
<1>4. CASE n.how = "ok" /\ n.at[y] = Left(mode, m.at[y]) /\ Same(n, m, {y, Tmp})
  <2>1. n.at[y].in = "error" /\ Left(mode, n.at[y]) = n.at[y] /\ n.at[x] = Nothing
    <3>1. n.at[x] = Nothing
      BY <1>0, <1>4 DEF Same
    <3>2. n.at[y].in = "error"
      BY <1>0, <1>4, LeftIsCell
    <3>3. m.at[y] \in [in : Kinds, data : Data \union {Moved}]
      BY <1>0 DEF Cells, Nothing
    <3>4. Left(mode, Left(mode, m.at[y])) = Left(mode, m.at[y])
      BY <3>3 DEF Left
    <3> QED BY <1>4, <3>1, <3>2, <3>4
  <2>2. /\ k \in Memories /\ k.leaked = n.leaked
        /\ Placed(k, n, x, "error", mode, y) \/ (Ended(k, mode) /\ <<"error", mode>> \in throwing)
    BY <1>0, <1>1, <1>2, <1>4, <2>1, ConstructSays
  <2>3. ASSUME Placed(k, n, x, "error", mode, y) PROVE PassedOn(k, m, x, mode, y)
    BY <1>0, <1>2, <1>4, <2>1, <2>3, SameFlags DEF Placed, Gets, PassedOn, Same, SameKinds
  <2> QED BY <1>2, <2>2, <2>3
<1> QED BY <1>2, <1>3, <1>4

LEMMA ValueSays ==
  ASSUME NEW m \in Memories, m.how = "ok", NEW x \in Objs, NEW mode \in Modes, Good(m, x), m.at[Tmp] = Nothing,
         NEW k \in IF m.has[x] THEN {m} ELSE Then(Build(m, Tmp, "error", mode, x), LAMBDA n : {Raise(n)})
  PROVE  /\ k \in Memories /\ k.leaked = m.leaked
         /\ \/ KindOf(m, x) = "value" /\ k = m
            \/ /\ KindOf(m, x) = "error" /\ k.how = "threw" /\ k.has = m.has /\ Same(k, m, {x, Tmp})
               /\ k.at[x].in = m.at[x].in /\ k.at[x] \in {m.at[x], Left("move", m.at[x])}
<1>1. CASE KindOf(m, x) = "value"
  BY <1>1, KindSays
<1>2. CASE KindOf(m, x) = "error"
  <2>0. x \in Places /\ m.at[x].in = "error" /\ m.at[x] \in Cells
    BY <1>2, GoodCell DEF NoObject
  <2>1. k \in Then(Build(m, Tmp, "error", mode, x), LAMBDA n : {Raise(n)})
    BY <1>2, KindSays
  <2>2. PICK n \in Build(m, Tmp, "error", mode, x) : IF n.how = "ok" THEN k = Raise(n) ELSE k = n
    BY <2>1 DEF Then
  <2>3. /\ n \in Memories /\ n.has = m.has /\ n.leaked = m.leaked
        /\ \/ n.how = "ok" /\ n.at[x] = Left(mode, m.at[x]) /\ Same(n, m, {x, Tmp})
           \/ Strongly(n, m)
    BY <1>2, <2>2, TakesContent
  <2>4. CASE Strongly(n, m)
    <3>1. x # Tmp
      BY PlacesAssumption
    <3> QED BY <1>2, <2>0, <2>2, <2>3, <2>4, <3>1 DEF Strongly, Same
  <2>5. CASE n.how = "ok" /\ n.at[x] = Left(mode, m.at[x]) /\ Same(n, m, {x, Tmp})
    <3>0. k = Raise(n) /\ n \in Memories
      BY <2>2, <2>3, <2>5
    <3>1. k \in Memories /\ k.how = "threw" /\ k.at = n.at /\ k.has = n.has /\ k.leaked = n.leaked
      BY <3>0, RaiseSays
    <3>2. Left(mode, m.at[x]) \in {m.at[x], Left("move", m.at[x])} /\ Left(mode, m.at[x]).in = m.at[x].in
      <4>1. Left(mode, m.at[x]) \in {m.at[x], Left("move", m.at[x])}
        BY LeftIsOne
      <4>2. m.at[x].in \in Kinds
        BY <2>0 DEF Kinds
      <4>3. Left(mode, m.at[x]).in = m.at[x].in
        BY <2>0, <4>2, LeftIsCell
      <4> QED BY <4>1, <4>3
    <3> QED BY <1>2, <2>3, <2>5, <3>1, <3>2 DEF Same
  <2> QED BY <2>3, <2>4, <2>5
<1> QED BY <1>1, <1>2, KindSays DEF Kinds

LEMMA ValueOrSays ==
  ASSUME ~t_is_void, NEW m \in Memories, m.how = "ok", NEW x \in Objs, NEW mode \in Modes, Good(m, x),
         m.at[Tmp] = Nothing, m.at[Arg].in = "value",
         NEW k \in IF m.has[x] THEN Build(m, Tmp, "value", mode, x) ELSE Build(m, Tmp, "value", "make", Arg)
  PROVE  /\ k \in Memories /\ k.leaked = m.leaked /\ k.has = m.has
         /\ \/ /\ k.how = "ok" /\ Same(k, m, {x, Tmp, Arg})
               /\ k.at[x] = IF KindOf(m, x) = "value" THEN Left(mode, m.at[x]) ELSE m.at[x]
            \/ Strongly(k, m)
<1>0. {x, Tmp, Arg} \subseteq Places /\ x # Tmp /\ x # Arg /\ Tmp # Arg /\ "value" \in Kinds /\ ~NoObject("value")
  BY PlacesAssumption DEF Places, NoObject, Kinds, Tmp, Arg
<1>1. CASE KindOf(m, x) = "value"
  <2>1. k \in Build(m, Tmp, KindOf(m, x), mode, x)
    BY <1>1, KindSays
  <2> QED BY <1>1, <2>1, TakesContent DEF Same
<1>2. CASE KindOf(m, x) = "error"
  <2>1. k \in Build(m, Tmp, "value", "make", Arg)
    BY <1>2, KindSays
  <2>2. /\ k \in Memories /\ k.has = m.has /\ k.leaked = m.leaked
        /\ Gets(k, m, Tmp, "make", Arg) \/ Raised(k, m, "value", "make")
    BY <1>0, <2>1, BuildSays
  <2> QED BY <1>0, <1>2, <2>2 DEF Gets, Raised, Strongly, Same
<1> QED BY <1>1, <1>2, KindSays DEF Kinds

LEMMA DestroySays ==
  ASSUME NEW m \in Memories, m.how = "ok", NEW x \in Objs, Good(m, x),
         NEW k \in IF t_is_void THEN DestroyVoid(m, x) ELSE Drop(m, x, KindOf(m, x))
  PROVE  Emptied(k, m, x)
<1>1. /\ KindOf(m, x) \in Kinds /\ x \in Places /\ (NoObject(KindOf(m, x)) => m.at[x] = Nothing)
      /\ (~NoObject(KindOf(m, x)) => m.at[x].in = KindOf(m, x)) /\ (m.has[x] <=> KindOf(m, x) = "value")
  BY GoodCell, KindSays
<1>2. CASE NoObject(KindOf(m, x))
  <2>1. k = m
    BY <1>1, <1>2 DEF NoObject, DestroyVoid
  <2> QED BY <1>1, <1>2, <2>1 DEF Emptied, Same
<1>3. CASE ~NoObject(KindOf(m, x))
  <2>1. k \in Drop(m, x, KindOf(m, x))
    BY <1>1, <1>3 DEF NoObject, DestroyVoid, Kinds
  <2> QED BY <1>1, <1>3, <2>1, DropSays
<1> QED BY <1>2, <1>3

-----------------------------------------------------------------------------
(* The objects of a memory, as ExpectedValue sees them, when those in A exist. *)

VoidCell  == [in |-> "value", data |-> Moved]
Cell(m, r) == IF NoObject(KindOf(m, r)) THEN VoidCell ELSE m.at[r]
View(m, A) == [r \in Objs |-> IF r \in A THEN Cell(m, r) ELSE Nothing]

\* The effects of the operations on objects v.
TakenIn(v, x, y, mode)   == [v EXCEPT ![y] = Left(mode, @), ![x] = v[y]]
PassedIn(v, x, y, mode)  == [v EXCEPT ![y] = Left(mode, @), ![x] = Left(mode, v[y])]
MadeIn(v, x, c)          == [v EXCEPT ![x] = c]
MadeOf(v, x, y, mode, c) == [v EXCEPT ![y] = Left(mode, @), ![x] = c]
SwappedIn(v, x, y)       == [v EXCEPT ![x] = v[y], ![y] = v[x]]

\* Each object contains what its flag says, and those that do not exist nothing.
Match(m, A) == \A r \in Objs : IF r \in A THEN Good(m, r) ELSE m.at[r] = Nothing

\* The objects that exist when x has been created, or destroyed.
Plus(A, x)  == A \union {x}
Minus(A, x) == A \ {x}

SameObjects(k, m) == k.has = m.has /\ \A r \in Objs : k.at[r] = m.at[r]

LEMMA SameView ==
  ASSUME NEW k, NEW m, NEW A, SameObjects(k, m)
  PROVE  View(k, A) = View(m, A) /\ (Match(m, A) => Match(k, A)) /\ \A r \in Objs : KindOf(k, r) = KindOf(m, r)
<1>1. \A r \in Objs : KindOf(k, r) = KindOf(m, r) /\ Cell(k, r) = Cell(m, r) /\ k.at[r] = m.at[r]
  BY SameFlags DEF SameObjects, Cell
<1> QED BY <1>1 DEF View, Match, Good

LEMMA VoidLeft ==
  ASSUME NEW mode
  PROVE  Left(mode, VoidCell) = VoidCell
BY DEF Left, VoidCell

\* An object of the same kind whose content is as it was, or has been taken.
LEMMA CellLeft ==
  ASSUME NEW m \in Memories, NEW y \in Objs, Good(m, y), NEW k, KindOf(k, y) = KindOf(m, y), NEW mode,
         k.at[y] = Left(mode, m.at[y])
  PROVE  Good(k, y) /\ Cell(k, y) = Left(mode, Cell(m, y))
<1>1. /\ KindOf(m, y) \in Kinds /\ m.at[y] \in Cells /\ (~NoObject(KindOf(m, y)) => m.at[y].in = KindOf(m, y))
      /\ NoObject(KindOf(m, y)) => m.at[y] = Nothing
      /\ Left(mode, Nothing) = Nothing
  BY GoodCell
<1>2. CASE NoObject(KindOf(m, y))
  BY <1>1, <1>2, VoidLeft DEF Good, Cell, Nothing
<1>3. CASE ~NoObject(KindOf(m, y))
  <2>1. Left(mode, m.at[y]).in = KindOf(m, y)
    BY <1>1, <1>3, LeftIsCell
  <2> QED BY <1>3, <2>1 DEF Good, Cell
<1> QED BY <1>2, <1>3

LEMMA CellSame ==
  ASSUME NEW m, NEW k, NEW y, KindOf(k, y) = KindOf(m, y), k.at[y] = m.at[y]
  PROVE  (Good(m, y) => Good(k, y)) /\ Cell(k, y) = Cell(m, y)
BY DEF Good, Cell

\* The objects that an operation does not name, and those that it does.
Beyond(k, m, A, B, X) ==
  \A r \in Objs : r \notin X => KindOf(k, r) = KindOf(m, r) /\ k.at[r] = m.at[r] /\ (r \in B <=> r \in A)
Within(k, B, X) == \A r \in Objs : r \in X => IF r \in B THEN Good(k, r) ELSE k.at[r] = Nothing

LEMMA RestSame ==
  ASSUME NEW m, NEW k, NEW A, Match(m, A), NEW X, NEW B, Beyond(k, m, A, B, X), Within(k, B, X)
  PROVE  Match(k, B) /\ \A r \in Objs : r \notin X => View(k, B)[r] = View(m, A)[r]
<1>1. ASSUME NEW r \in Objs, r \notin X
      PROVE  (IF r \in B THEN Good(k, r) ELSE k.at[r] = Nothing) /\ View(k, B)[r] = View(m, A)[r]
  BY <1>1, CellSame DEF Match, View, Beyond
<1> QED BY <1>1 DEF Match, Within

LEMMA ViewAt ==
  ASSUME NEW m, NEW A, NEW r \in Objs
  PROVE  (r \in A => View(m, A)[r] = Cell(m, r)) /\ (r \notin A => View(m, A)[r] = Nothing)
BY DEF View

LEMMA ViewAssigned ==
  ASSUME NEW m \in Memories, NEW k, NEW A, Match(m, A), NEW x \in Objs, NEW y \in A \intersect Objs, x # y, NEW mode,
         Assigned(k, m, x, mode, y)
  PROVE  /\ Match(k, Plus(A, x))
         /\ View(k, Plus(A, x)) = TakenIn(View(m, A), x, y, mode)
<1> DEFINE v == View(m, A)
           w == View(k, Plus(A, x))
<1>1. Good(m, y) /\ KindOf(k, y) = KindOf(m, y) /\ KindOf(k, x) = KindOf(m, y)
  BY DEF Match, Assigned, SameKinds
<1>2. Good(k, y) /\ Cell(k, y) = Left(mode, Cell(m, y))
  BY <1>1, CellLeft DEF Assigned
<1>3. Good(k, x) /\ Cell(k, x) = Cell(m, y)
  BY <1>1 DEF Assigned, Good, Cell
<1>4. Match(k, Plus(A, x)) /\ \A r \in Objs : r \notin {x, y} => w[r] = v[r]
  <2>1. Beyond(k, m, A, Plus(A, x), {x, y})
    BY PlacesAssumption DEF Beyond, Assigned, Same, SameKinds, Places, Plus
  <2>2. Within(k, Plus(A, x), {x, y})
    BY <1>2, <1>3 DEF Within, Plus
  <2> QED BY <2>1, <2>2, RestSame
<1>5. w[x] = v[y] /\ w[y] = Left(mode, v[y])
  BY <1>2, <1>3, ViewAt DEF Plus
<1>6. v = [r \in Objs |-> v[r]] /\ w = [r \in Objs |-> w[r]]
  BY DEF View
<1> HIDE DEF v, w
<1>7. w = [v EXCEPT ![y] = Left(mode, @), ![x] = v[y]]
  BY <1>4, <1>5, <1>6
<1> QED BY <1>4, <1>7 DEF TakenIn, v, w

LEMMA ViewMade ==
  ASSUME NEW m \in Memories, NEW k, NEW A, Match(m, A), NEW x \in Objs, NEW kind \in Kinds, NEW d \in Contents(kind),
         Made(k, m, x, kind, [in |-> kind, data |-> d])
  PROVE  /\ Match(k, Plus(A, x))
         /\ View(k, Plus(A, x)) = MadeIn(View(m, A), x, [in |-> kind, data |-> d])
<1> DEFINE v == View(m, A)
           w == View(k, Plus(A, x))
           c == [in |-> kind, data |-> d]
<1>1. Good(k, x) /\ Cell(k, x) = c
  BY DEF Made, Good, Cell, Nothing, VoidCell, Contents, NoObject
<1>2. Match(k, Plus(A, x)) /\ \A r \in Objs : r \notin {x} => w[r] = v[r]
  <2>1. Beyond(k, m, A, Plus(A, x), {x})
    BY PlacesAssumption DEF Beyond, Made, Same, SameKinds, Places, Plus
  <2>2. Within(k, Plus(A, x), {x})
    BY <1>1 DEF Within, Plus
  <2> QED BY <2>1, <2>2, RestSame
<1>3. w[x] = c
  BY <1>1, ViewAt DEF Plus
<1>4. v = [r \in Objs |-> v[r]] /\ w = [r \in Objs |-> w[r]]
  BY DEF View
<1> HIDE DEF v, w, c
<1>5. w = [v EXCEPT ![x] = c]
  BY <1>2, <1>3, <1>4
<1> QED BY <1>2, <1>5 DEF MadeIn, v, w, c

LEMMA ViewProduced ==
  ASSUME NEW m \in Memories, NEW k, NEW A, Match(m, A), NEW x \in Objs, NEW y \in A \intersect Objs, x # y, NEW mode,
         NEW kind \in Kinds, NEW d \in Contents(kind), Produced(k, m, x, y, mode, kind, [in |-> kind, data |-> d])
  PROVE  /\ Match(k, Plus(A, x))
         /\ View(k, Plus(A, x)) = MadeOf(View(m, A), x, y, mode, [in |-> kind, data |-> d])
<1> DEFINE v == View(m, A)
           w == View(k, Plus(A, x))
           c == [in |-> kind, data |-> d]
<1>1. Good(k, x) /\ Cell(k, x) = c
  BY DEF Produced, Good, Cell, Nothing, VoidCell, Contents, NoObject
<1>2. Good(k, y) /\ Cell(k, y) = Left(mode, Cell(m, y))
  <2>1. Good(m, y) /\ KindOf(k, y) = KindOf(m, y)
    BY DEF Match, Produced, SameKinds
  <2> QED BY <2>1, CellLeft DEF Produced
<1>3. Match(k, Plus(A, x)) /\ \A r \in Objs : r \notin {x, y} => w[r] = v[r]
  <2>1. Beyond(k, m, A, Plus(A, x), {x, y})
    BY PlacesAssumption DEF Beyond, Produced, Same, SameKinds, Places, Plus
  <2>2. Within(k, Plus(A, x), {x, y})
    BY <1>1, <1>2 DEF Within, Plus
  <2> QED BY <2>1, <2>2, RestSame
<1>4. w[x] = c /\ w[y] = Left(mode, v[y])
  BY <1>1, <1>2, ViewAt DEF Plus
<1>5. v = [r \in Objs |-> v[r]] /\ w = [r \in Objs |-> w[r]]
  BY DEF View
<1> HIDE DEF v, w, c
<1>6. w = [v EXCEPT ![y] = Left(mode, @), ![x] = c]
  BY <1>3, <1>4, <1>5
<1> QED BY <1>3, <1>6 DEF MadeOf, v, w, c

LEMMA ViewPassedOn ==
  ASSUME NEW m \in Memories, NEW k, NEW A, Match(m, A), NEW x \in Objs, NEW y \in A \intersect Objs, x # y, NEW mode,
         PassedOn(k, m, x, mode, y)
  PROVE  /\ Match(k, Plus(A, x))
         /\ View(k, Plus(A, x)) = PassedIn(View(m, A), x, y, mode)
<1> DEFINE v == View(m, A)
           w == View(k, Plus(A, x))
<1>1. Good(k, y) /\ Cell(k, y) = Left(mode, Cell(m, y))
  <2>1. Good(m, y) /\ KindOf(k, y) = KindOf(m, y)
    BY DEF Match, PassedOn, SameKinds
  <2> QED BY <2>1, CellLeft DEF PassedOn
<1>2. Good(k, x) /\ Cell(k, x) = Cell(k, y)
  <2>1. KindOf(k, x) = KindOf(k, y) /\ k.at[x] = k.at[y]
    BY DEF PassedOn, SameKinds
  <2> QED BY <1>1, <2>1 DEF Good, Cell
<1>3. Match(k, Plus(A, x)) /\ \A r \in Objs : r \notin {x, y} => w[r] = v[r]
  <2>1. Beyond(k, m, A, Plus(A, x), {x, y})
    BY PlacesAssumption DEF Beyond, PassedOn, Same, SameKinds, Places, Plus
  <2>2. Within(k, Plus(A, x), {x, y})
    BY <1>1, <1>2 DEF Within, Plus
  <2> QED BY <2>1, <2>2, RestSame
<1>4. w[x] = Left(mode, v[y]) /\ w[y] = Left(mode, v[y])
  BY <1>1, <1>2, ViewAt DEF Plus
<1>5. v = [r \in Objs |-> v[r]] /\ w = [r \in Objs |-> w[r]]
  BY DEF View
<1> HIDE DEF v, w
<1>6. w = [v EXCEPT ![y] = Left(mode, @), ![x] = Left(mode, v[y])]
  BY <1>3, <1>4, <1>5
<1> QED BY <1>3, <1>6 DEF PassedIn, v, w

LEMMA ViewSwapped ==
  ASSUME NEW m \in Memories, NEW k, NEW A, Match(m, A), NEW x \in A \intersect Objs, NEW y \in A \intersect Objs, x # y,
         Swapped(k, m, x, y)
  PROVE  /\ Match(k, A)
         /\ View(k, A) = SwappedIn(View(m, A), x, y)
<1> DEFINE v == View(m, A)
           w == View(k, A)
<1>1. Good(k, x) /\ Cell(k, x) = Cell(m, y) /\ Good(k, y) /\ Cell(k, y) = Cell(m, x)
  BY DEF Match, Swapped, Good, Cell
<1>2. Match(k, A) /\ \A r \in Objs : r \notin {x, y} => w[r] = v[r]
  <2>1. Beyond(k, m, A, A, {x, y})
    BY PlacesAssumption DEF Beyond, Swapped, Same, SameKinds, Places
  <2>2. Within(k, A, {x, y})
    BY <1>1 DEF Within
  <2> QED BY <2>1, <2>2, RestSame
<1>3. w[x] = v[y] /\ w[y] = v[x]
  BY <1>1, ViewAt
<1>4. v = [r \in Objs |-> v[r]] /\ w = [r \in Objs |-> w[r]]
  BY DEF View
<1> HIDE DEF v, w
<1>5. w = [v EXCEPT ![x] = v[y], ![y] = v[x]]
  BY <1>2, <1>3, <1>4
<1> QED BY <1>2, <1>5 DEF SwappedIn, v, w

LEMMA ViewEmptied ==
  ASSUME NEW m \in Memories, NEW k, NEW A, Match(m, A), NEW x \in Objs, Emptied(k, m, x)
  PROVE  Match(k, Minus(A, x)) /\ View(k, Minus(A, x)) = MadeIn(View(m, A), x, Nothing)
<1> DEFINE v == View(m, A)
           w == View(k, Minus(A, x))
<1>1. Match(k, Minus(A, x)) /\ \A r \in Objs : r \notin {x} => w[r] = v[r]
  <2>1. Beyond(k, m, A, Minus(A, x), {x})
    BY SameFlags, PlacesAssumption DEF Beyond, Emptied, Same, SameKinds, Places, Minus
  <2>2. Within(k, Minus(A, x), {x})
    BY DEF Within, Emptied, Minus
  <2> QED BY <2>1, <2>2, RestSame
<1>2. w[x] = Nothing
  BY ViewAt DEF Minus
<1>3. v = [r \in Objs |-> v[r]] /\ w = [r \in Objs |-> w[r]]
  BY DEF View
<1> HIDE DEF v, w
<1>4. w = [v EXCEPT ![x] = Nothing]
  BY <1>1, <1>2, <1>3
<1> QED BY <1>1, <1>4 DEF MadeIn, v, w

\* After an exception that leaves the objects of X a content of their kind.
LEMMA ViewWeakly ==
  ASSUME NEW m \in Memories, NEW k, NEW A, Match(m, A), NEW X \in SUBSET (A \intersect Objs), Weakly(k, m, X)
  PROVE  /\ Match(k, A)
         /\ \A r \in Objs : r \notin X => View(k, A)[r] = View(m, A)[r]
         /\ \A r \in X : /\ View(k, A)[r].in = View(m, A)[r].in
                         /\ View(k, A)[r] \in {View(m, A)[r], Left("move", View(m, A)[r])}
                                             \union {View(m, A)[q] : q \in X}
<1>1. \A r \in Objs : KindOf(k, r) = KindOf(m, r)
  BY SameFlags DEF Weakly
<1>2. ASSUME NEW r \in X
      PROVE  /\ Good(k, r) /\ Cell(k, r).in = Cell(m, r).in
             /\ Cell(k, r) \in {Cell(m, r), Left("move", Cell(m, r))} \union {Cell(m, q) : q \in X}
  <2>0. r \in Objs /\ Good(m, r) /\ KindOf(k, r) = KindOf(m, r) /\ k.at[r].in = m.at[r].in
    BY <1>1, <1>2 DEF Match, Weakly
  <2>1. Good(k, r)
    BY <2>0 DEF Good
  <2>2. CASE NoObject(KindOf(m, r))
    BY <2>0, <2>1, <2>2 DEF Cell
  <2>3. CASE ~NoObject(KindOf(m, r))
    <3>1. Cell(k, r) = k.at[r] /\ Cell(m, r) = m.at[r]
      BY <2>0, <2>3 DEF Cell
    <3>2. k.at[r] \in {m.at[r], Left("move", m.at[r])} \/ \E q \in X : k.at[r] = m.at[q]
      BY <1>2 DEF Weakly
    <3>3. ASSUME NEW q \in X, k.at[r] = m.at[q] PROVE k.at[r] = Cell(m, q)
      <4>1. Good(m, q) /\ q \in Objs /\ r \in Objs /\ KindOf(k, r) \in Kinds /\ k.at[r].in = KindOf(k, r)
        BY <1>2, <2>0, <2>1, <2>3 DEF Match, Good, KindOf, Kinds
      <4>2. m.at[q].in # "nothing"
        BY <3>3, <4>1 DEF Kinds
      <4> QED BY <3>3, <4>1, <4>2 DEF Cell, Good
    <3> QED BY <2>0, <2>1, <3>1, <3>2, <3>3
  <2> QED BY <2>2, <2>3
<1>3. Match(k, A) /\ \A r \in Objs : r \notin X => View(k, A)[r] = View(m, A)[r]
  <2>1. Beyond(k, m, A, A, X)
    BY <1>1, PlacesAssumption DEF Beyond, Weakly, Same, Places
  <2>2. Within(k, A, X)
    BY <1>2 DEF Within
  <2> QED BY <2>1, <2>2, RestSame
<1>4. \A r \in X : View(k, A)[r] = Cell(k, r) /\ View(m, A)[r] = Cell(m, r)
  BY DEF View
<1> QED BY <1>2, <1>3, <1>4

\* After one that leaves them as they were.
LEMMA ViewStrongly ==
  ASSUME NEW m \in Memories, NEW k, NEW A, Match(m, A), Strongly(k, m)
  PROVE  Match(k, A) /\ View(k, A) = View(m, A)
<1>1. SameObjects(k, m)
  BY PlacesAssumption DEF Strongly, Same, SameObjects, Places
<1> QED BY <1>1, SameView

\* x has had its content taken, or copied.
LEMMA ViewLeft ==
  ASSUME NEW m \in Memories, NEW k, NEW A, Match(m, A), NEW x \in Objs, x \in A, NEW mode,
         k.has = m.has, Same(k, m, {x, Tmp, Arg}), k.at[x] = Left(mode, m.at[x])
  PROVE  Match(k, A) /\ View(k, A) = MadeIn(View(m, A), x, Left(mode, View(m, A)[x]))
<1> DEFINE v == View(m, A)
           w == View(k, A)
<1>1. Good(k, x) /\ Cell(k, x) = Left(mode, Cell(m, x))
  <2>1. Good(m, x) /\ KindOf(k, x) = KindOf(m, x)
    BY SameFlags DEF Match
  <2> QED BY <2>1, CellLeft
<1>2. Match(k, A) /\ \A r \in Objs : r \notin {x} => w[r] = v[r]
  <2>1. Beyond(k, m, A, A, {x})
    BY SameFlags, PlacesAssumption DEF Beyond, Same, Places
  <2>2. Within(k, A, {x})
    BY <1>1 DEF Within
  <2> QED BY <2>1, <2>2, RestSame
<1>3. w[x] = Left(mode, v[x])
  BY <1>1, ViewAt
<1>4. v = [r \in Objs |-> v[r]] /\ w = [r \in Objs |-> w[r]]
  BY DEF View
<1> HIDE DEF v, w
<1>5. w = [v EXCEPT ![x] = Left(mode, v[x])]
  BY <1>2, <1>3, <1>4
<1> QED BY <1>2, <1>5 DEF MadeIn, v, w

-----------------------------------------------------------------------------
(* A call: its argument in place, the steps of the function, the return.    *)

LEMMA StartSays ==
  ASSUME mem \in Memories, NEW kind \in Kinds, NEW d \in Data \union {Moved}
  PROVE  LET m == Start(kind, d)
         IN  /\ m \in Memories /\ m.how = "ok" /\ m.leaked = mem.leaked /\ SameObjects(m, mem)
             /\ m.at[Arg] = [in |-> kind, data |-> d] /\ m.at[Arg].in = kind /\ m.at[Tmp] = mem.at[Tmp]
<1> DEFINE m == Start(kind, d)
           c == [in |-> kind, data |-> d]
           a == [mem.at EXCEPT ![Arg] = c]
<1>0. Arg \in Places /\ Tmp \in Places /\ Objs \subseteq Places /\ Arg # Tmp /\ Arg \notin Objs
  BY PlacesAssumption DEF Places, Arg, Tmp
<1>1. c \in Cells /\ c.in = kind
  BY DEF Cells
<1>2. m = [mem EXCEPT !.how = "ok", !.at = a]
  BY DEF Start, Memories
<1> HIDE DEF c, m
<1>3. a \in [Places -> Cells] /\ a[Arg] = c /\ \A r \in Places : r # Arg => a[r] = mem.at[r]
  BY <1>0, <1>1 DEF Memories
<1> HIDE DEF a
<1>4. m \in Memories /\ m.how = "ok" /\ m.leaked = mem.leaked /\ m.has = mem.has /\ m.at = a
  BY <1>2, <1>3 DEF Memories, Hows
<1> QED BY <1>0, <1>1, <1>3, <1>4 DEF SameObjects, c, m

\* k, without the local variables of the call.
Without(k) == [k EXCEPT !.at[Tmp] = Nothing, !.at[Arg] = Nothing]

LEMMA WithoutSays ==
  ASSUME NEW k \in Memories
  PROVE  /\ Without(k) \in Memories /\ Without(k).how = k.how /\ Without(k).leaked = k.leaked
         /\ SameObjects(Without(k), k) /\ Without(k).at[Tmp] = Nothing /\ Without(k).at[Arg] = Nothing
<1> DEFINE b == [k.at EXCEPT ![Tmp] = Nothing]
           a == [b EXCEPT ![Arg] = Nothing]
           n == Without(k)
<1>0. Arg \in Places /\ Tmp \in Places /\ Objs \subseteq Places /\ Arg \notin Objs /\ Tmp \notin Objs
  BY PlacesAssumption DEF Places
<1>1. n = [k EXCEPT !.at = a]
  BY DEF Without, Memories
<1>2. a \in [Places -> Cells] /\ a[Tmp] = Nothing /\ a[Arg] = Nothing
      /\ \A r \in Places : r \notin {Tmp, Arg} => a[r] = k.at[r]
  BY <1>0 DEF Memories, Cells
<1> HIDE DEF a, n
<1>3. n \in Memories /\ n.how = k.how /\ n.leaked = k.leaked /\ n.has = k.has /\ n.at = a
  BY <1>1, <1>2 DEF Memories
<1> QED BY <1>0, <1>2, <1>3 DEF SameObjects, n

\* The types; between calls there are no local variables.
TypeOK ==
  /\ mem.at \in [Places -> {Nothing} \union [in : Kinds, data : Data \union {Moved}]]
  /\ mem.has \in [Objs -> BOOLEAN]
  /\ mem.how \in {"ok", "threw", "terminated", "undefined"}
  /\ mem.at[Tmp] = Nothing /\ mem.at[Arg] = Nothing
  /\ alive \subseteq Objs
  /\ throwing \subseteq MayThrow
  /\ t_is_void \in BOOLEAN

\* The inductive invariant: TypeOK and CrashExplained are part of it, and
\* FlagTracksContent follows.
IInv ==
  /\ mem \in Memories
  /\ TypeOK
  /\ Running => Match(mem, alive)
  /\ CrashExplained

\* Call o has ended in k, when the objects of B exist.
Returned(k, o, B) ==
  /\ mem' = Without(k) /\ last' = o /\ alive' = B /\ throwing' = throwing /\ t_is_void' = t_is_void

LEMMA CallOnSays ==
  ASSUME NEW o, NEW S, CallOn(o, S)
  PROVE  Running /\ \E k \in S : Returned(k, o, alive)
BY DEF CallOn, Call, Return, Returned, Without

LEMMA CallNewSays ==
  ASSUME NEW o, NEW S \in SUBSET Memories, CallNew(o, S)
  PROVE  /\ Running /\ o.x \notin alive
         /\ \E k \in S : /\ k.how = "ok" => Returned(k, o, Plus(alive, o.x))
                         /\ k.how # "ok" => Returned(k, o, alive)
<1>1. PICK k \in S : mem' = Without(k)
  BY DEF CallNew, Call, Return, Without
<1>2. mem'.how = k.how
  BY <1>1, WithoutSays
<1> QED BY <1>1, <1>2 DEF CallNew, Call, Returned, Plus

\* What a call keeps: the invariant, no new leak but from a conversion, and the
\* promise of ExpectedValue.
Keeps ==
  /\ IInv'
  /\ mem'.leaked = mem.leaked \/ last'.op = "convert"
  /\ Sum!Next

Obj == View(mem, alive)

\* The objects of Sum.
LEMMA SumObj ==
  [x \in Objs |-> CASE x \notin alive -> Nothing
                    [] x \in alive /\ NoObject(KindOf(mem, x)) -> [in |-> "value", data |-> Moved]
                    [] OTHER -> mem.at[x]] = Obj
BY DEF Obj, View, Cell, VoidCell

LEMMA ReturnSays ==
  ASSUME IInv, Running, NEW k \in Memories, NEW o, NEW B \in SUBSET Objs, Returned(k, o, B)
  PROVE  /\ mem' \in Memories /\ TypeOK' /\ mem'.how = k.how /\ mem'.leaked = k.leaked
         /\ Match(k, B) => Match(mem, alive)'
         /\ Obj' = View(k, B)
<1>1. /\ mem' \in Memories /\ mem'.how = k.how /\ mem'.leaked = k.leaked /\ SameObjects(mem', k)
      /\ mem'.at[Tmp] = Nothing /\ mem'.at[Arg] = Nothing
  BY WithoutSays DEF Returned
<1>2. TypeOK'
  <2>1. mem'.at \in [Places -> {Nothing} \union [in : Kinds, data : Data \union {Moved}]]
    BY <1>1 DEF Memories, Cells
  <2>2. mem'.has \in [Objs -> BOOLEAN] /\ mem'.how \in {"ok", "threw", "terminated", "undefined"}
    BY <1>1 DEF Memories, Hows
  <2>3. throwing' \subseteq MayThrow /\ alive' \subseteq Objs
    BY DEF Returned, IInv, TypeOK
  <2>4. t_is_void' \in BOOLEAN
    BY DEF Returned, IInv, TypeOK
  <2> QED BY <1>1, <2>1, <2>2, <2>3, <2>4 DEF TypeOK
<1>3. View(mem', B) = View(k, B) /\ (Match(k, B) => Match(mem', B))
  BY <1>1, SameView
<1>4. t_is_void' = t_is_void
  BY DEF Returned
<1>5. Obj' = View(mem', B)
  BY <1>4 DEF Obj, View, Cell, NoObject, KindOf, Returned
<1>6. Match(mem', B) => Match(mem, alive)'
  BY <1>4 DEF Match, Good, NoObject, KindOf, Returned
<1> QED BY <1>1, <1>2, <1>3, <1>5, <1>6

LEMMA SucceedKept ==
  ASSUME IInv, Running, NEW k \in Memories, NEW o, NEW B \in SUBSET Objs, Returned(k, o, B),
         k.how = "ok", k.leaked = mem.leaked \/ o.op = "convert", Match(k, B), View(k, B) = Sum!Effect(o)
  PROVE  Keeps
<1>1. /\ mem' \in Memories /\ TypeOK' /\ mem'.how = "ok" /\ mem'.leaked = k.leaked
      /\ Match(mem, alive)' /\ Obj' = Sum!Effect(o)
  BY ReturnSays
<1>2. CrashExplained'
  BY <1>1 DEF CrashExplained
<1>3. IInv' /\ (mem'.leaked = mem.leaked \/ last'.op = "convert")
  BY <1>1, <1>2 DEF IInv, Returned
<1>4. Running'
  BY <1>1 DEF Running
<1>5. Sum!Succeed(last')
  BY <1>1, <1>4, SumObj DEF Sum!Succeed, Returned, Obj, View, Cell, VoidCell
<1>6. Sum!Next
  BY <1>5 DEF Sum!Next, Running, Returned
<1> QED BY <1>3, <1>6 DEF Keeps

LEMMA ThrowKept ==
  ASSUME IInv, Running, NEW k \in Memories, NEW o, Returned(k, o, alive),
         k.how = "threw", k.leaked = mem.leaked \/ o.op = "convert", Match(k, alive),
         throwing # {} \/ (o.op = "value" /\ Obj[o.x].in = "error"),
         \A r \in Objs : View(k, alive)[r] \in Sum!Remains(o, r) /\ View(k, alive)[r].in = Obj[r].in
  PROVE  Keeps
<1>0. alive \in SUBSET Objs
  BY DEF IInv, TypeOK
<1>1. /\ mem' \in Memories /\ TypeOK' /\ mem'.how = "threw" /\ mem'.leaked = k.leaked
      /\ Match(mem, alive)' /\ Obj' = View(k, alive)
  BY <1>0, ReturnSays
<1>2. CrashExplained'
  BY <1>1 DEF CrashExplained
<1>3. IInv' /\ (mem'.leaked = mem.leaked \/ last'.op = "convert")
  BY <1>1, <1>2 DEF IInv, Returned
<1>4. Running'
  BY <1>1 DEF Running
<1>5. Sum!Throw(last')
  BY <1>1, <1>4, SumObj DEF Sum!Throw, Returned, Obj, View, Cell, VoidCell
<1>6. Sum!Next
  BY <1>5 DEF Sum!Next, Running, Returned
<1> QED BY <1>3, <1>6 DEF Keeps

\* What CrashExplained says of a call o that has ended in k.
Excused(k, o) ==
  \/ /\ k.how = "terminated" /\ o.op \in {"construct", "convert", "assign", "or_else", "or_else_void"}
     /\ throwing \intersect (Kinds \X {o.mode}) # {}
  \/ /\ k.how = "undefined"
     /\ \/ o.op \in {"set_value", "emplace"} /\ ~Nothrow("value", "make")
        \/ o.op = "swap" /\ IF Nothrow("value", "move") THEN ~Nothrow("error", "move")
                                                       ELSE ~Nothrow("value", "copy")

LEMMA EndKept ==
  ASSUME IInv, Running, NEW k \in Memories, NEW o, NEW B \in SUBSET Objs, Returned(k, o, B),
         k.leaked = mem.leaked \/ o.op = "convert", Excused(k, o)
  PROVE  Keeps
<1>1. /\ mem' \in Memories /\ TypeOK' /\ mem'.how = k.how /\ mem'.leaked = k.leaked
  BY ReturnSays
<1>2. ~Running' /\ k.how \in {"terminated", "undefined"}
  BY <1>1 DEF Running, Excused
<1>3. CrashExplained'
  BY <1>1 DEF CrashExplained, Excused, Nothrow, Returned
<1>4. IInv' /\ (mem'.leaked = mem.leaked \/ last'.op = "convert")
  BY <1>1, <1>2, <1>3 DEF IInv, Returned
<1>5. throwing # {} /\ o.op \in Sum!Fatal
  BY DEF Excused, Nothrow, Sum!Fatal
<1>6. Sum!End(last')
  BY <1>2, <1>5 DEF Sum!End, Returned
<1>7. Sum!Next
  BY <1>6 DEF Sum!Next, Running, Returned
<1> QED BY <1>4, <1>7 DEF Keeps

\* The effects, in terms of Obj.
LEMMA Effects ==
  ASSUME NEW o
  PROVE  /\ o.op \in {"construct", "convert", "assign"} => Sum!Effect(o) = TakenIn(Obj, o.x, o.y, o.mode)
         /\ o.op \in {"make", "set_value", "set_error", "emplace"} =>
              Sum!Effect(o) = MadeIn(Obj, o.x, [in |-> o.kind, data |-> o.d])
         /\ o.op = "swap"     => Sum!Effect(o) = SwappedIn(Obj, o.x, o.y)
         /\ o.op = "destroy"  => Sum!Effect(o) = MadeIn(Obj, o.x, Nothing)
         /\ o.op = "value"    => Sum!Effect(o) = Obj
         /\ o.op = "value_or" =>
              Sum!Effect(o) = IF Obj[o.x].in = "value" THEN MadeIn(Obj, o.x, Left(o.mode, Obj[o.x])) ELSE Obj
BY SumObj DEF Sum!Effect, Sum!Taken, Sum!Given, Sum!Left, Sum!Moved, Sum!Absent, Left, Moved, Nothing,
              TakenIn, MadeIn, SwappedIn

\* What a function makes of what y holds.
LEMMA EffectsOfFunctions ==
  ASSUME NEW o
  PROVE  /\ o.op \in {"and_then", "map"} =>
              Sum!Effect(o) = IF Obj[o.y].in = "value" THEN MadeOf(Obj, o.x, o.y, o.mode, [in |-> o.kind, data |-> o.d])
                                                       ELSE TakenIn(Obj, o.x, o.y, o.mode)
         /\ o.op \in {"map_error", "or_else"} =>
              Sum!Effect(o) = IF Obj[o.y].in = "error" THEN MadeOf(Obj, o.x, o.y, o.mode, [in |-> o.kind, data |-> o.d])
                                                       ELSE TakenIn(Obj, o.x, o.y, o.mode)
<1>1. Sum!Taken(o) = TakenIn(Obj, o.x, o.y, o.mode)
  BY SumObj DEF Sum!Taken, Sum!Left, Sum!Moved, Left, Moved, TakenIn
<1>2. Sum!Produced(o) = MadeOf(Obj, o.x, o.y, o.mode, [in |-> o.kind, data |-> o.d])
  BY SumObj DEF Sum!Produced, Sum!Given, Sum!Left, Sum!Moved, Left, Moved, MadeOf
<1>3. o.op \in {"and_then", "map"} =>
        Sum!Effect(o) = IF Obj[o.y].in = "value" THEN Sum!Produced(o) ELSE Sum!Taken(o)
  BY SumObj DEF Sum!Effect
<1>4. o.op \in {"map_error", "or_else"} =>
        Sum!Effect(o) = IF Obj[o.y].in = "error" THEN Sum!Produced(o) ELSE Sum!Taken(o)
  BY SumObj DEF Sum!Effect
<1> QED BY <1>1, <1>2, <1>3, <1>4

LEMMA EffectOfOrElseVoid ==
  ASSUME NEW o, o.op = "or_else_void", o.x \in Objs, o.y \in Objs, o.x # o.y
  PROVE  Sum!Effect(o) = IF Obj[o.y].in = "error" THEN PassedIn(Obj, o.x, o.y, o.mode)
                                                   ELSE TakenIn(Obj, o.x, o.y, o.mode)
<1> DEFINE t == TakenIn(Obj, o.x, o.y, o.mode)
<1>1. Sum!Taken(o) = t
  BY SumObj DEF Sum!Taken, Sum!Left, Sum!Moved, Left, Moved, TakenIn
<1>2. [Sum!Taken(o) EXCEPT ![o.x] = Sum!Left(o.mode, @)] = [t EXCEPT ![o.x] = Left(o.mode, @)]
  BY <1>1 DEF Sum!Left, Sum!Moved, Left, Moved
<1>3. t[o.x] = Obj[o.y] /\ Obj = [r \in Objs |-> Obj[r]]
  BY DEF TakenIn, Obj, View
<1>4. [t EXCEPT ![o.x] = Left(o.mode, @)] = PassedIn(Obj, o.x, o.y, o.mode)
  BY <1>3 DEF TakenIn, PassedIn
<1> HIDE DEF t
<1>5. Sum!Effect(o) = IF Obj[o.y].in = "error" THEN [Sum!Taken(o) EXCEPT ![o.x] = Sum!Left(o.mode, @)] ELSE Sum!Taken(o)
  BY SumObj DEF Sum!Effect
<1> QED BY <1>1, <1>2, <1>4, <1>5 DEF t

\* m is the memory a call starts from.
Ready(m) ==
  /\ m \in Memories /\ m.how = "ok" /\ m.leaked = mem.leaked /\ m.at[Tmp] = Nothing
  /\ Match(m, alive) /\ View(m, alive) = Obj
  /\ \A r \in Objs : KindOf(m, r) = KindOf(mem, r)

LEMMA CallStarts ==
  ASSUME IInv, Running, NEW kind \in Kinds, NEW d \in Data \union {Moved}
  PROVE  LET m == Start(kind, d)
         IN  Ready(m) /\ m.has = mem.has /\ m.at[Arg] = [in |-> kind, data |-> d] /\ m.at[Arg].in = kind
<1> DEFINE m == Start(kind, d)
<1>1. /\ m \in Memories /\ m.how = "ok" /\ m.leaked = mem.leaked /\ SameObjects(m, mem)
      /\ m.at[Arg] = [in |-> kind, data |-> d] /\ m.at[Arg].in = kind /\ m.at[Tmp] = mem.at[Tmp]
  BY StartSays DEF IInv
<1>2. mem.at[Tmp] = Nothing /\ Match(mem, alive)
  BY DEF IInv, TypeOK
<1> HIDE DEF m
<1>3. View(m, alive) = View(mem, alive) /\ Match(m, alive) /\ \A r \in Objs : KindOf(m, r) = KindOf(mem, r)
  BY <1>1, <1>2, SameView
<1> QED BY <1>1, <1>2, <1>3 DEF m, Ready, Obj, SameObjects

LEMMA ReadyAt ==
  ASSUME NEW m, Ready(m), NEW r \in Objs
  PROVE  (r \in alive => Good(m, r)) /\ (r \notin alive => m.at[r] = Nothing)
BY DEF Ready, Match

LEMMA ObjIn ==
  ASSUME NEW m, Ready(m), NEW r \in Objs, r \in alive
  PROVE  Obj[r].in = KindOf(m, r)
<1>1. Good(m, r) /\ Obj[r] = Cell(m, r)
  BY ReadyAt DEF Ready, View
<1> QED BY <1>1 DEF Good, Cell, NoObject, VoidCell

-----------------------------------------------------------------------------
(* What follows from each way in which a call ends.                         *)

LEMMA TakenKept ==
  ASSUME IInv, Running, NEW m, Ready(m), NEW k \in Memories, NEW o, k.leaked = mem.leaked \/ o.op = "convert",
         NEW x \in Objs, NEW y \in Objs, y \in alive, x # y, NEW mode, Assigned(k, m, x, mode, y),
         Returned(k, o, Plus(alive, x)),
         Sum!Effect(o) = TakenIn(Obj, x, y, mode)
  PROVE  Keeps
<1>1. m \in Memories /\ Match(m, alive) /\ View(m, alive) = Obj /\ Plus(alive, x) \in SUBSET Objs
  BY DEF Ready, IInv, TypeOK, Plus
<1>2. Match(k, Plus(alive, x)) /\ View(k, Plus(alive, x)) = TakenIn(View(m, alive), x, y, mode)
  <2>1. y \in alive \intersect Objs
    OBVIOUS
  <2> QED BY <1>1, <2>1, ViewAssigned
<1>3. View(k, Plus(alive, x)) = Sum!Effect(o)
  BY <1>1, <1>2
<1>4. k.how = "ok"
  BY DEF Assigned
<1> QED BY <1>1, <1>2, <1>3, <1>4, SucceedKept

LEMMA MadeKept ==
  ASSUME IInv, Running, NEW m, Ready(m), NEW k \in Memories, NEW o, k.leaked = mem.leaked \/ o.op = "convert",
         NEW x \in Objs, NEW kind \in Kinds, NEW d \in Contents(kind), Made(k, m, x, kind, [in |-> kind, data |-> d]),
         Returned(k, o, Plus(alive, x)),
         Sum!Effect(o) = MadeIn(Obj, x, [in |-> kind, data |-> d])
  PROVE  Keeps
<1>1. m \in Memories /\ Match(m, alive) /\ View(m, alive) = Obj /\ Plus(alive, x) \in SUBSET Objs
  BY DEF Ready, IInv, TypeOK, Plus
<1>2. Match(k, Plus(alive, x)) /\ View(k, Plus(alive, x)) = MadeIn(View(m, alive), x, [in |-> kind, data |-> d])
  BY <1>1, ViewMade
<1>3. View(k, Plus(alive, x)) = Sum!Effect(o)
  BY <1>1, <1>2
<1>4. k.how = "ok"
  BY DEF Made
<1> QED BY <1>1, <1>2, <1>3, <1>4, SucceedKept

LEMMA ProducedKept ==
  ASSUME IInv, Running, NEW m, Ready(m), NEW k \in Memories, NEW o, k.leaked = mem.leaked \/ o.op = "convert",
         NEW x \in Objs, NEW y \in Objs, y \in alive, x # y, NEW mode, NEW kind \in Kinds, NEW d \in Contents(kind),
         Produced(k, m, x, y, mode, kind, [in |-> kind, data |-> d]),
         Returned(k, o, Plus(alive, x)),
         Sum!Effect(o) = MadeOf(Obj, x, y, mode, [in |-> kind, data |-> d])
  PROVE  Keeps
<1>1. m \in Memories /\ Match(m, alive) /\ View(m, alive) = Obj /\ Plus(alive, x) \in SUBSET Objs
  BY DEF Ready, IInv, TypeOK, Plus
<1>2. /\ Match(k, Plus(alive, x))
      /\ View(k, Plus(alive, x)) = MadeOf(View(m, alive), x, y, mode, [in |-> kind, data |-> d])
  <2>1. y \in alive \intersect Objs
    OBVIOUS
  <2> QED BY <1>1, <2>1, ViewProduced
<1>3. View(k, Plus(alive, x)) = Sum!Effect(o)
  BY <1>1, <1>2
<1>4. k.how = "ok"
  BY DEF Produced
<1> QED BY <1>1, <1>2, <1>3, <1>4, SucceedKept

LEMMA PassedOnKept ==
  ASSUME IInv, Running, NEW m, Ready(m), NEW k \in Memories, NEW o, k.leaked = mem.leaked \/ o.op = "convert",
         NEW x \in Objs, NEW y \in Objs, y \in alive, x # y, NEW mode, PassedOn(k, m, x, mode, y),
         Returned(k, o, Plus(alive, x)),
         Sum!Effect(o) = PassedIn(Obj, x, y, mode)
  PROVE  Keeps
<1>1. m \in Memories /\ Match(m, alive) /\ View(m, alive) = Obj /\ Plus(alive, x) \in SUBSET Objs
  BY DEF Ready, IInv, TypeOK, Plus
<1>2. Match(k, Plus(alive, x)) /\ View(k, Plus(alive, x)) = PassedIn(View(m, alive), x, y, mode)
  <2>1. y \in alive \intersect Objs
    OBVIOUS
  <2> QED BY <1>1, <2>1, ViewPassedOn
<1>3. View(k, Plus(alive, x)) = Sum!Effect(o)
  BY <1>1, <1>2
<1>4. k.how = "ok"
  BY DEF PassedOn
<1> QED BY <1>1, <1>2, <1>3, <1>4, SucceedKept

LEMMA SwappedKept ==
  ASSUME IInv, Running, NEW m, Ready(m), NEW k \in Memories, NEW o, k.leaked = mem.leaked \/ o.op = "convert",
         NEW x \in Objs, NEW y \in Objs, x \in alive, y \in alive, x # y, Swapped(k, m, x, y),
         Returned(k, o, alive),
         Sum!Effect(o) = SwappedIn(Obj, x, y)
  PROVE  Keeps
<1>1. m \in Memories /\ Match(m, alive) /\ View(m, alive) = Obj /\ alive \in SUBSET Objs
  BY DEF Ready, IInv, TypeOK
<1>2. Match(k, alive) /\ View(k, alive) = SwappedIn(View(m, alive), x, y)
  <2>1. x \in alive \intersect Objs /\ y \in alive \intersect Objs
    OBVIOUS
  <2> QED BY <1>1, <2>1, ViewSwapped
<1>3. View(k, alive) = Sum!Effect(o)
  BY <1>1, <1>2
<1>4. k.how = "ok"
  BY DEF Swapped
<1> QED BY <1>1, <1>2, <1>3, <1>4, SucceedKept

LEMMA EmptiedKept ==
  ASSUME IInv, Running, NEW m, Ready(m), NEW k \in Memories, NEW o, k.leaked = mem.leaked \/ o.op = "convert",
         NEW x \in Objs, Emptied(k, m, x),
         Returned(k, o, Minus(alive, x)),
         Sum!Effect(o) = MadeIn(Obj, x, Nothing)
  PROVE  Keeps
<1>1. m \in Memories /\ Match(m, alive) /\ View(m, alive) = Obj /\ Minus(alive, x) \in SUBSET Objs
  BY DEF Ready, IInv, TypeOK, Minus
<1>2. Match(k, Minus(alive, x)) /\ View(k, Minus(alive, x)) = MadeIn(View(m, alive), x, Nothing)
  BY <1>1, ViewEmptied
<1>3. View(k, Minus(alive, x)) = Sum!Effect(o)
  BY <1>1, <1>2
<1>4. k.how = "ok"
  BY DEF Emptied
<1> QED BY <1>1, <1>2, <1>3, <1>4, SucceedKept

LEMMA StrongKept ==
  ASSUME IInv, Running, NEW m, Ready(m), NEW k \in Memories, NEW o, k.leaked = mem.leaked \/ o.op = "convert",
         Strongly(k, m), Returned(k, o, alive)
  PROVE  Keeps
<1>1. Match(k, alive) /\ View(k, alive) = Obj
  BY ViewStrongly DEF Ready
<1>2. \A r \in Objs : View(k, alive)[r] \in Sum!Remains(o, r) /\ View(k, alive)[r].in = Obj[r].in
  BY <1>1, SumObj DEF Sum!Remains
<1> QED BY <1>1, <1>2, ThrowKept DEF Strongly

LEMMA WeakKept ==
  ASSUME IInv, Running, NEW m, Ready(m), NEW k \in Memories, NEW o, k.leaked = mem.leaked \/ o.op = "convert",
         NEW X \in SUBSET (alive \intersect Objs), Weakly(k, m, X), o.op \notin Sum!Strong,
         (\E r \in X : X = {r}) \/ (o.op = "swap" /\ X = {o.x, o.y}), Returned(k, o, alive)
  PROVE  Keeps
<1> DEFINE w == View(k, alive)
<1>1. /\ Match(k, alive)
      /\ \A r \in Objs : r \notin X => w[r] = Obj[r]
      /\ \A r \in X : w[r].in = Obj[r].in /\ w[r] \in {Obj[r], Left("move", Obj[r])} \union {Obj[q] : q \in X}
  <2>1. m \in Memories /\ Match(m, alive) /\ View(m, alive) = Obj
    BY DEF Ready
  <2> QED BY <2>1, ViewWeakly
<1> HIDE DEF w
<1>2. \A r \in Objs : /\ Obj[r] \in Sum!Remains(o, r) /\ Left("move", Obj[r]) \in Sum!Remains(o, r)
                      /\ o.op = "swap" => Obj[o.x] \in Sum!Remains(o, r) /\ Obj[o.y] \in Sum!Remains(o, r)
  BY SumObj DEF Sum!Remains, Sum!Left, Sum!Moved, Left, Moved
<1>3. \A r \in Objs : w[r] \in Sum!Remains(o, r) /\ w[r].in = Obj[r].in
  <2>1. ASSUME NEW r \in Objs PROVE w[r] \in Sum!Remains(o, r) /\ w[r].in = Obj[r].in
    <3>1. CASE r \notin X
      BY <1>1, <1>2, <3>1
    <3>2. CASE r \in X
      <4>1. w[r].in = Obj[r].in
        BY <1>1, <3>2
      <4>2. CASE w[r] \in {Obj[r], Left("move", Obj[r])}
        BY <1>2, <4>1, <4>2
      <4>3. CASE \E q \in X : w[r] = Obj[q]
        BY <1>2, <3>2, <4>1, <4>3
      <4> QED BY <1>1, <3>2, <4>2, <4>3
    <3> QED BY <3>1, <3>2
  <2> QED BY <2>1
<1> QED BY <1>1, <1>3, ThrowKept DEF w, Weakly

LEMMA EndedKept ==
  ASSUME IInv, Running, NEW k \in Memories, NEW o, k.leaked = mem.leaked \/ o.op = "convert",
         Ended(k, o.mode), o.op \in {"construct", "convert", "assign", "or_else", "or_else_void"}, Returned(k, o, alive)
  PROVE  Keeps
BY EndKept DEF Ended, Excused, IInv, TypeOK

LEMMA RemainsSays ==
  ASSUME NEW o, o.op \notin Sum!Strong
  PROVE  \A r \in Objs : Obj[r] \in Sum!Remains(o, r) /\ Left("move", Obj[r]) \in Sum!Remains(o, r)
BY SumObj DEF Sum!Remains, Sum!Left, Sum!Moved, Left, Moved

LEMMA PlusOld ==
  ASSUME NEW x, x \in alive
  PROVE  Plus(alive, x) = alive
BY DEF Plus

\* An object made of another: it takes what the other holds, or what a
\* function has made of that.
LEMMA NewKept ==
  ASSUME IInv, Running, NEW m, Ready(m), NEW k \in Memories, k.leaked = mem.leaked, NEW o,
         NEW x \in Objs, NEW y \in Objs, x \notin alive, y \in alive, NEW mode, o.x = x, o.y = y, o.mode = mode,
         k.how = "ok" => Returned(k, o, Plus(alive, x)), k.how # "ok" => Returned(k, o, alive)
  PROVE  /\ Assigned(k, m, x, mode, y) /\ Sum!Effect(o) = TakenIn(Obj, x, y, mode) => Keeps
         /\ \A kind \in Kinds : \A d \in Contents(kind) :
              /\ Produced(k, m, x, y, mode, kind, [in |-> kind, data |-> d])
              /\ Sum!Effect(o) = MadeOf(Obj, x, y, mode, [in |-> kind, data |-> d])
              => Keeps
         /\ PassedOn(k, m, x, mode, y) /\ Sum!Effect(o) = PassedIn(Obj, x, y, mode) => Keeps
         /\ Strongly(k, m) => Keeps
         /\ Weakly(k, m, {y}) /\ o.op \notin Sum!Strong => Keeps
         /\ Ended(k, mode) /\ o.op \in {"or_else", "or_else_void"} => Keeps
<1>0. x # y
  OBVIOUS
<1>1. ASSUME Assigned(k, m, x, mode, y), Sum!Effect(o) = TakenIn(Obj, x, y, mode) PROVE Keeps
  <2>1. Returned(k, o, Plus(alive, x))
    BY <1>1 DEF Assigned
  <2> QED BY <1>0, <1>1, <2>1, TakenKept
<1>2. ASSUME NEW kind \in Kinds, NEW d \in Contents(kind), Produced(k, m, x, y, mode, kind, [in |-> kind, data |-> d]),
             Sum!Effect(o) = MadeOf(Obj, x, y, mode, [in |-> kind, data |-> d])
      PROVE  Keeps
  <2>1. Returned(k, o, Plus(alive, x))
    BY <1>2 DEF Produced
  <2> QED BY <1>0, <1>2, <2>1, ProducedKept
<1>3. ASSUME PassedOn(k, m, x, mode, y), Sum!Effect(o) = PassedIn(Obj, x, y, mode) PROVE Keeps
  <2>1. Returned(k, o, Plus(alive, x))
    BY <1>3 DEF PassedOn
  <2> QED BY <1>0, <1>3, <2>1, PassedOnKept
<1>4. ASSUME Strongly(k, m) PROVE Keeps
  BY <1>4, StrongKept DEF Strongly
<1>5. ASSUME Weakly(k, m, {y}), o.op \notin Sum!Strong PROVE Keeps
  <2> DEFINE X == {y}
  <2>1. X \in SUBSET (alive \intersect Objs) /\ y \in X /\ X = {y} /\ Weakly(k, m, X) /\ Returned(k, o, alive)
    BY <1>5 DEF Weakly
  <2> HIDE DEF X
  <2> QED BY <1>5, <2>1, WeakKept
<1>6. ASSUME Ended(k, mode), o.op \in {"or_else", "or_else_void"} PROVE Keeps
  <2>1. Returned(k, o, alive)
    BY <1>6 DEF Ended
  <2> QED BY <1>6, <2>1, EndedKept
<1> QED BY <1>1, <1>2, <1>3, <1>4, <1>5, <1>6

-----------------------------------------------------------------------------
(* Each operation.                                                          *)

LEMMA ConstructFromKeeps ==
  ASSUME IInv, NEW x \in Objs, NEW y \in Objs, NEW mode \in Modes, ConstructFrom(x, y, mode)
  PROVE  Keeps
<1> DEFINE o == From("construct", x, y, mode)
           m == Start("value", Moved)
           S == Construct(m, x, KindOf(mem, y), mode, y)
<1>1. y \in alive /\ CallNew(o, S) /\ o.op = "construct" /\ o.x = x /\ o.y = y /\ o.mode = mode
  BY DEF ConstructFrom, From
<1>2. Running /\ x \notin alive
  BY <1>1 DEF CallNew, Call
<1>3. Ready(m)
  BY <1>2, CallStarts DEF Kinds
<1> HIDE DEF m, o
<1>4. ASSUME NEW k \in S
      PROVE  k \in Memories /\ k.leaked = mem.leaked /\ (Assigned(k, m, x, mode, y) \/ Ended(k, mode))
  <2>1. Good(m, y) /\ m.at[x] = Nothing /\ KindOf(mem, y) = KindOf(m, y)
    BY <1>1, <1>2, <1>3, ReadyAt DEF Ready
  <2>2. m \in Memories /\ m.how = "ok" /\ m.leaked = mem.leaked /\ x # y /\ k \in Construct(m, x, KindOf(m, y), mode, y)
    BY <1>1, <1>2, <1>3, <2>1 DEF Ready
  <2> QED BY <2>1, <2>2, ConstructObject
<1>5. S \in SUBSET Memories
  BY <1>4
<1> HIDE DEF S
<1>6. PICK k \in S : /\ k.how = "ok" => Returned(k, o, Plus(alive, x))
                     /\ k.how # "ok" => Returned(k, o, alive)
  BY <1>1, <1>5, CallNewSays
<1>7. CASE Assigned(k, m, x, mode, y)
  <2>1. Sum!Effect(o) = TakenIn(Obj, x, y, mode)
    BY <1>1, Effects
  <2>2. Returned(k, o, Plus(alive, x)) /\ x # y
    BY <1>1, <1>2, <1>6, <1>7 DEF Assigned
  <2> QED BY <1>1, <1>2, <1>3, <1>4, <1>7, <2>1, <2>2, TakenKept
<1>8. CASE Ended(k, mode)
  <2>1. Returned(k, o, alive)
    BY <1>6, <1>8 DEF Ended
  <2> QED BY <1>1, <1>2, <1>4, <1>8, <2>1, EndedKept
<1> QED BY <1>4, <1>7, <1>8

LEMMA ConvertFromKeeps ==
  ASSUME IInv, NEW x \in Objs, NEW y \in Objs, NEW mode \in Modes, ConvertFrom(x, y, mode)
  PROVE  Keeps
<1> DEFINE o == From("convert", x, y, mode)
<1>1. PICK d \in Data : CallNew(o, Convert(Start("value", d), x, mode, y))
  BY DEF ConvertFrom, Convert
<1> DEFINE m == Start("value", d)
           S == Convert(m, x, mode, y)
<1>2. CallNew(o, S) /\ y \in alive /\ ~t_is_void /\ o.op = "convert" /\ o.x = x /\ o.y = y /\ o.mode = mode
  BY <1>1 DEF ConvertFrom, From
<1>3. Running /\ x \notin alive
  BY <1>2 DEF CallNew, Call
<1>4. Ready(m) /\ m.at[Arg].in = "value"
  BY <1>3, CallStarts DEF Kinds
<1> HIDE DEF m, o
<1>5. ASSUME NEW k \in S
      PROVE  k \in Memories /\ (Assigned(k, m, x, mode, y) \/ Ended(k, mode) \/ Strongly(k, m))
  <2>1. Good(m, y) /\ m.at[x] = Nothing
    BY <1>2, <1>3, <1>4, ReadyAt
  <2>2. m \in Memories /\ m.how = "ok" /\ x # y
    BY <1>2, <1>3, <1>4 DEF Ready
  <2> QED BY <1>2, <1>4, <1>5, <2>1, <2>2, ConvertSays
<1>6. S \in SUBSET Memories
  BY <1>5
<1> HIDE DEF S
<1>7. PICK k \in S : /\ k.how = "ok" => Returned(k, o, Plus(alive, x))
                     /\ k.how # "ok" => Returned(k, o, alive)
  BY <1>2, <1>6, CallNewSays
<1>8. CASE Assigned(k, m, x, mode, y)
  <2>1. Sum!Effect(o) = TakenIn(Obj, x, y, mode)
    BY <1>2, Effects
  <2>2. Returned(k, o, Plus(alive, x)) /\ x # y
    BY <1>2, <1>3, <1>7, <1>8 DEF Assigned
  <2> QED BY <1>2, <1>3, <1>4, <1>5, <1>8, <2>1, <2>2, TakenKept
<1>9. CASE Ended(k, mode)
  <2>1. Returned(k, o, alive)
    BY <1>7, <1>9 DEF Ended
  <2> QED BY <1>2, <1>3, <1>5, <1>9, <2>1, EndedKept
<1>10. CASE Strongly(k, m)
  <2>1. Returned(k, o, alive)
    BY <1>7, <1>10 DEF Strongly
  <2> QED BY <1>2, <1>3, <1>4, <1>5, <1>10, <2>1, StrongKept
<1> QED BY <1>5, <1>8, <1>9, <1>10

LEMMA MakeWithKeeps ==
  ASSUME IInv, NEW x \in Objs, NEW kind \in Kinds, NEW d \in Data \union {Moved}, MakeWith(x, kind, d)
  PROVE  Keeps
<1> DEFINE o == Given("make", x, kind, d)
           m == Start(kind, d)
           c == [in |-> kind, data |-> d]
           S == Place(m, x, kind, "make", Arg)
<1>1. d \in Contents(kind) /\ CallNew(o, S) /\ o.op = "make" /\ o.x = x /\ o.kind = kind /\ o.d = d
  BY DEF MakeWith, Given
<1>2. Running /\ x \notin alive
  BY <1>1 DEF CallNew, Call
<1>3. Ready(m) /\ m.at[Arg] = c /\ m.at[Arg].in = kind
  BY <1>2, CallStarts
<1> HIDE DEF m, o
<1>4. ASSUME NEW k \in S
      PROVE  k \in Memories /\ k.leaked = mem.leaked /\ (Made(k, m, x, kind, c) \/ Strongly(k, m))
  <2>1. m.at[x] = Nothing /\ m \in Memories /\ m.how = "ok" /\ m.leaked = mem.leaked
    BY <1>2, <1>3, ReadyAt DEF Ready
  <2>2. k \in Place(m, x, kind, "make", Arg)
    BY <1>4
  <2> HIDE DEF c, S
  <2>3. /\ k \in Memories /\ k.leaked = m.leaked
        /\ Made(k, m, x, kind, m.at[Arg]) \/ (Strongly(k, m) /\ <<kind, "make">> \in throwing)
    BY <1>3, <2>1, <2>2, PlaceArgSays
  <2> QED BY <1>3, <2>1, <2>3
<1>5. S \in SUBSET Memories
  BY <1>4
<1> HIDE DEF S
<1>6. PICK k \in S : /\ k.how = "ok" => Returned(k, o, Plus(alive, x))
                     /\ k.how # "ok" => Returned(k, o, alive)
  BY <1>1, <1>5, CallNewSays
<1>7. CASE Made(k, m, x, kind, c)
  <2>1. Sum!Effect(o) = MadeIn(Obj, x, c)
    BY <1>1, Effects
  <2>2. Returned(k, o, Plus(alive, x))
    BY <1>6, <1>7 DEF Made
  <2> QED BY <1>1, <1>2, <1>3, <1>4, <1>7, <2>1, <2>2, MadeKept
<1>8. CASE Strongly(k, m)
  <2>1. Returned(k, o, alive)
    BY <1>6, <1>8 DEF Strongly
  <2> QED BY <1>2, <1>3, <1>4, <1>8, <2>1, StrongKept
<1> QED BY <1>4, <1>7, <1>8

LEMMA AssignFromKeeps ==
  ASSUME IInv, NEW x \in Objs, NEW y \in Objs, NEW mode \in Modes, AssignFrom(x, y, mode)
  PROVE  Keeps
<1> DEFINE o == From("assign", x, y, mode)
           m == Start("value", Moved)
           S == IF t_is_void THEN AssignVoid(m, x, mode, y) ELSE AssignTo(m, x, mode, y)
<1>1. /\ x \in alive /\ y \in alive /\ x # y /\ CallOn(o, S)
      /\ o.op = "assign" /\ o.x = x /\ o.y = y /\ o.mode = mode
  BY DEF AssignFrom, From
<1>2. Running
  BY <1>1 DEF CallOn, Call
<1>3. Ready(m)
  BY <1>2, CallStarts DEF Kinds
<1> HIDE DEF m, o
<1>4. ASSUME NEW k \in S
      PROVE  k \in Memories /\ k.leaked = mem.leaked /\ (Assigned(k, m, x, mode, y) \/ Ended(k, mode) \/ Strongly(k, m))
  <2>1. Good(m, x) /\ Good(m, y) /\ m \in Memories /\ m.how = "ok" /\ m.leaked = mem.leaked /\ m.at[Tmp] = Nothing
    BY <1>1, <1>3, ReadyAt DEF Ready
  <2>2. CASE t_is_void
    BY <1>1, <1>4, <2>1, <2>2, AssignVoidSays
  <2>3. CASE ~t_is_void
    BY <1>1, <1>4, <2>1, <2>3, AssignToSays
  <2> QED BY <2>2, <2>3
<1> HIDE DEF S
<1>5. PICK k \in S : Returned(k, o, alive)
  BY <1>1, CallOnSays
<1>6. CASE Assigned(k, m, x, mode, y)
  <2>1. Sum!Effect(o) = TakenIn(Obj, x, y, mode)
    BY <1>1, Effects
  <2>2. Returned(k, o, Plus(alive, x))
    BY <1>1, <1>5, PlusOld
  <2> QED BY <1>1, <1>2, <1>3, <1>4, <1>6, <2>1, <2>2, TakenKept
<1>7. CASE Ended(k, mode)
  BY <1>1, <1>2, <1>4, <1>5, <1>7, EndedKept
<1>8. CASE Strongly(k, m)
  BY <1>2, <1>3, <1>4, <1>5, <1>8, StrongKept
<1> QED BY <1>4, <1>6, <1>7, <1>8

\* operator=(U &&) and emplace.
LEMMA GivenValueKeeps ==
  ASSUME IInv, NEW x \in Objs, NEW d \in Data, NEW op \in {"set_value", "emplace"}, x \in alive, ~t_is_void,
         CallOn(Given(op, x, "value", d),
                IF op = "emplace" THEN EmplaceAt(Start("value", d), x) ELSE SetTo(Start("value", d), x))
  PROVE  Keeps
<1> DEFINE o == Given(op, x, "value", d)
           m == Start("value", d)
           c == [in |-> "value", data |-> d]
           S == IF op = "emplace" THEN EmplaceAt(m, x) ELSE SetTo(m, x)
<1>1. /\ x \in alive /\ ~t_is_void /\ CallOn(o, S)
      /\ o.op \in {"set_value", "emplace"} /\ o.x = x /\ o.kind = "value" /\ o.d = d
  BY DEF Given
<1>2. Running /\ "value" \in Kinds /\ d \in Contents("value")
  BY <1>1 DEF CallOn, Call, Kinds, Contents, NoObject
<1>3. Ready(m) /\ m.at[Arg] = c /\ m.at[Arg].in = "value"
  BY <1>2, CallStarts
<1> HIDE DEF m, o
<1>4. ASSUME NEW k \in S
      PROVE  /\ k \in Memories /\ k.leaked = mem.leaked
             /\ Made(k, m, x, "value", c) \/ Strongly(k, m) \/ (k.how = "undefined" /\ ~Nothrow("value", "make"))
  <2>1. Good(m, x) /\ m \in Memories /\ m.how = "ok" /\ m.leaked = mem.leaked /\ m.at[Tmp] = Nothing
    BY <1>1, <1>3, ReadyAt DEF Ready
  <2>2. k \in EmplaceAt(m, x) \/ k \in SetTo(m, x)
    BY <1>4
  <2> HIDE DEF c, S
  <2> QED BY <1>1, <1>3, <2>1, <2>2, SetToSays, EmplaceAtSays
<1> HIDE DEF S
<1>5. PICK k \in S : Returned(k, o, alive)
  BY <1>1, CallOnSays
<1>6. CASE Made(k, m, x, "value", c)
  <2>1. Sum!Effect(o) = MadeIn(Obj, x, c)
    BY <1>1, Effects
  <2>2. Returned(k, o, Plus(alive, x))
    BY <1>1, <1>5, PlusOld
  <2> QED BY <1>2, <1>3, <1>4, <1>6, <2>1, <2>2, MadeKept
<1>7. CASE Strongly(k, m)
  BY <1>2, <1>3, <1>4, <1>5, <1>7, StrongKept
<1>8. CASE k.how = "undefined" /\ ~Nothrow("value", "make")
  <2>1. Excused(k, o) /\ alive \in SUBSET Objs
    BY <1>1, <1>8 DEF Excused, IInv, TypeOK
  <2> QED BY <1>2, <1>4, <1>5, <2>1, EndKept
<1> QED BY <1>4, <1>6, <1>7, <1>8

LEMMA AssignValueKeeps ==
  ASSUME IInv, NEW x \in Objs, NEW d \in Data, AssignValue(x, d)
  PROVE  Keeps
BY GivenValueKeeps DEF AssignValue

LEMMA EmplaceKeeps ==
  ASSUME IInv, NEW x \in Objs, NEW d \in Data, Emplace(x, d)
  PROVE  Keeps
BY GivenValueKeeps DEF Emplace

LEMMA AssignUnexpectedKeeps ==
  ASSUME IInv, NEW x \in Objs, NEW mode \in Modes, NEW d \in Data, AssignUnexpected(x, mode, d)
  PROVE  Keeps
<1> DEFINE o == Given("set_error", x, "error", d)
           m == Start("error", d)
           c == [in |-> "error", data |-> d]
           S == SetUnexpected(m, x, mode)
<1>1. /\ x \in alive /\ Nothrow("error", mode) /\ CallOn(o, S)
      /\ o.op = "set_error" /\ o.x = x /\ o.kind = "error" /\ o.d = d
  BY DEF AssignUnexpected, Given
<1>2. Running /\ "error" \in Kinds /\ d \in Contents("error")
  BY <1>1 DEF CallOn, Call, Kinds, Contents, NoObject
<1>3. Ready(m) /\ m.at[Arg] = c /\ m.at[Arg].in = "error"
  BY <1>2, CallStarts
<1> HIDE DEF m, o
<1>4. ASSUME NEW k \in S
      PROVE  k \in Memories /\ k.leaked = mem.leaked /\ Made(k, m, x, "error", c)
  <2>1. Good(m, x) /\ m \in Memories /\ m.how = "ok" /\ m.leaked = mem.leaked
    BY <1>1, <1>3, ReadyAt DEF Ready
  <2>2. k \in SetUnexpected(m, x, mode)
    BY <1>4
  <2> HIDE DEF c, S
  <2> QED BY <1>1, <1>3, <2>1, <2>2, SetUnexpectedSays
<1> HIDE DEF S
<1>5. PICK k \in S : Returned(k, o, alive)
  BY <1>1, CallOnSays
<1>6. Sum!Effect(o) = MadeIn(Obj, x, c)
  BY <1>1, Effects
<1>7. Returned(k, o, Plus(alive, x))
  BY <1>1, <1>5, PlusOld
<1> QED BY <1>2, <1>3, <1>4, <1>6, <1>7, MadeKept

LEMMA SwapKeeps ==
  ASSUME IInv, NEW x \in Objs, NEW y \in Objs, Swap(x, y)
  PROVE  Keeps
<1> DEFINE o == [op |-> "swap", x |-> x, y |-> y]
           m == Start("value", Moved)
           S == SwapWith(m, x, y)
<1>1. /\ x \in alive /\ y \in alive /\ x # y /\ ~t_is_void
      /\ Nothrow("value", "move") \/ Nothrow("error", "move")
      /\ CallOn(o, S) /\ o.op = "swap" /\ o.x = x /\ o.y = y
  BY DEF Swap
<1>2. Running
  BY <1>1 DEF CallOn, Call
<1>3. Ready(m)
  BY <1>2, CallStarts DEF Kinds
<1> HIDE DEF m, o
<1>4. ASSUME NEW k \in S
      PROVE  /\ k \in Memories /\ k.leaked = mem.leaked
             /\ \/ Swapped(k, m, x, y)
                \/ Weakly(k, m, {x, y})
                \/ /\ k.how = "undefined"
                   /\ IF Nothrow("value", "move") THEN ~Nothrow("error", "move") ELSE ~Nothrow("value", "copy")
  <2>1. /\ Good(m, x) /\ Good(m, y) /\ m \in Memories /\ m.how = "ok" /\ m.leaked = mem.leaked
        /\ m.at[Tmp] = Nothing
    BY <1>1, <1>3, ReadyAt DEF Ready
  <2>2. k \in SwapWith(m, x, y)
    BY <1>4
  <2> HIDE DEF S
  <2> QED BY <1>1, <2>1, <2>2, SwapWithSays
<1> HIDE DEF S
<1>5. PICK k \in S : Returned(k, o, alive)
  BY <1>1, CallOnSays
<1>6. CASE Swapped(k, m, x, y)
  <2>1. Sum!Effect(o) = SwappedIn(Obj, x, y)
    BY <1>1, Effects
  <2> QED BY <1>1, <1>2, <1>3, <1>4, <1>5, <1>6, <2>1, SwappedKept
<1>7. CASE Weakly(k, m, {x, y})
  <2>1. o.op \notin Sum!Strong
    BY <1>1 DEF Sum!Strong
  <2> DEFINE X == {x, y}
  <2>2. X \in SUBSET (alive \intersect Objs) /\ X = {o.x, o.y} /\ Weakly(k, m, X)
    BY <1>1, <1>7
  <2> HIDE DEF X
  <2> QED BY <1>1, <1>2, <1>3, <1>4, <1>5, <2>1, <2>2, WeakKept
<1>8. CASE /\ k.how = "undefined"
           /\ IF Nothrow("value", "move") THEN ~Nothrow("error", "move") ELSE ~Nothrow("value", "copy")
  <2>1. Excused(k, o) /\ alive \in SUBSET Objs
    BY <1>1, <1>8 DEF Excused, IInv, TypeOK
  <2> QED BY <1>2, <1>4, <1>5, <2>1, EndKept
<1> QED BY <1>4, <1>6, <1>7, <1>8

LEMMA DestroyKeeps ==
  ASSUME IInv, NEW x \in Objs, Destroy(x)
  PROVE  Keeps
<1> DEFINE o == [op |-> "destroy", x |-> x]
           m == Start("value", Moved)
           S == IF t_is_void THEN DestroyVoid(m, x) ELSE Drop(m, x, KindOf(m, x))
<1>1. x \in alive /\ Call(o, S) /\ alive' = alive \ {x} /\ o.op = "destroy" /\ o.x = x
  BY DEF Destroy
<1>2. Running
  BY <1>1 DEF Call
<1>3. Ready(m)
  BY <1>2, CallStarts DEF Kinds
<1> HIDE DEF m, o
<1>4. ASSUME NEW k \in S PROVE Emptied(k, m, x)
  <2>1. Good(m, x) /\ m \in Memories /\ m.how = "ok"
    BY <1>1, <1>3, ReadyAt DEF Ready
  <2> QED BY <1>4, <2>1, DestroySays
<1> HIDE DEF S
<1>5. PICK k \in S : Returned(k, o, Minus(alive, x))
  BY <1>1 DEF Call, Return, Returned, Without, Minus
<1>6. Emptied(k, m, x) /\ k \in Memories /\ k.leaked = mem.leaked
  BY <1>3, <1>4 DEF Emptied, Ready
<1>7. Sum!Effect(o) = MadeIn(Obj, x, Nothing)
  BY <1>1, Effects
<1> QED BY <1>2, <1>3, <1>5, <1>6, <1>7, EmptiedKept

LEMMA ValueKeeps ==
  ASSUME IInv, NEW x \in Objs, NEW mode \in Modes, Value(x, mode)
  PROVE  Keeps
<1> DEFINE o == [op |-> "value", x |-> x, mode |-> mode]
           m == Start("value", Moved)
           S == IF m.has[x] THEN {m} ELSE Then(Build(m, Tmp, "error", mode, x), LAMBDA n : {Raise(n)})
<1>1. x \in alive /\ ~t_is_void /\ CallOn(o, S) /\ o.op = "value" /\ o.x = x /\ o.mode = mode
  BY DEF Value
<1>2. Running
  BY <1>1 DEF CallOn, Call
<1>3. Ready(m)
  BY <1>2, CallStarts DEF Kinds
<1> HIDE DEF m, o
<1>4. Good(m, x) /\ m \in Memories /\ m.how = "ok" /\ m.leaked = mem.leaked /\ m.at[Tmp] = Nothing
      /\ Match(m, alive) /\ View(m, alive) = Obj /\ alive \in SUBSET Objs
  BY <1>1, <1>3, ReadyAt DEF Ready, IInv, TypeOK
<1>5. ASSUME NEW k \in S
      PROVE  /\ k \in Memories /\ k.leaked = m.leaked
             /\ \/ KindOf(m, x) = "value" /\ k = m
                \/ /\ KindOf(m, x) = "error" /\ k.how = "threw" /\ k.has = m.has /\ Same(k, m, {x, Tmp})
                   /\ k.at[x].in = m.at[x].in /\ k.at[x] \in {m.at[x], Left("move", m.at[x])}
  BY <1>4, <1>5, ValueSays
<1> HIDE DEF S
<1>6. PICK k \in S : Returned(k, o, alive)
  BY <1>1, CallOnSays
<1>7. k \in Memories /\ k.leaked = mem.leaked
  BY <1>4, <1>5
<1>8. CASE k = m
  <2>1. Sum!Effect(o) = Obj
    BY <1>1, Effects
  <2> QED BY <1>2, <1>4, <1>6, <1>8, <2>1, SucceedKept
<1>9. CASE /\ KindOf(m, x) = "error" /\ k.how = "threw" /\ k.has = m.has /\ Same(k, m, {x, Tmp})
           /\ k.at[x].in = m.at[x].in /\ k.at[x] \in {m.at[x], Left("move", m.at[x])}
  <2>1. x \in alive /\ k.has = m.has /\ Same(k, m, {x, Tmp, Arg})
    BY <1>1, <1>9 DEF Same
  <2>2. PICK md \in {"copy", "move"} : k.at[x] = Left(md, m.at[x])
    BY <1>9 DEF Left
  <2>3. Match(k, alive) /\ View(k, alive) = MadeIn(Obj, x, Left(md, Obj[x]))
    <3>1. Match(k, alive) /\ View(k, alive) = MadeIn(View(m, alive), x, Left(md, View(m, alive)[x]))
      BY <1>4, <2>1, <2>2, ViewLeft
    <3> QED BY <1>4, <3>1
  <2>4. Obj[x].in = "error" /\ Obj[x] \in Cells
    <3>1. Obj[x] = m.at[x] /\ m.at[x] \in Cells
      BY <1>1, <1>4, GoodCell DEF View, Cell, NoObject
    <3>2. Obj[x].in = KindOf(m, x)
      BY <1>1, <1>3, ObjIn
    <3> QED BY <1>9, <3>1, <3>2
  <2>5. Left(md, Obj[x]).in = Obj[x].in /\ Left(md, Obj[x]) \in {Obj[x], Left("move", Obj[x])}
    <3>1. Obj[x].in \in Kinds
      BY <2>4 DEF Kinds
    <3>2. Left(md, Obj[x]).in = Obj[x].in
      BY <2>4, <3>1, LeftIsCell
    <3> QED BY <3>2 DEF Left
  <2>6. \A r \in Objs : Obj[r] \in Sum!Remains(o, r) /\ Left("move", Obj[r]) \in Sum!Remains(o, r)
    <3>1. o.op \notin Sum!Strong
      BY <1>1 DEF Sum!Strong
    <3> QED BY <3>1, RemainsSays
  <2>7. \A r \in Objs : View(k, alive)[r] = IF r = x THEN Left(md, Obj[x]) ELSE Obj[r]
    BY <2>3 DEF MadeIn, Obj, View
  <2>8. \A r \in Objs : View(k, alive)[r] \in Sum!Remains(o, r) /\ View(k, alive)[r].in = Obj[r].in
    BY <2>5, <2>6, <2>7
  <2> QED BY <1>1, <1>2, <1>6, <1>7, <1>9, <2>3, <2>4, <2>8, ThrowKept
<1> QED BY <1>5, <1>8, <1>9

LEMMA ValueOrKeeps ==
  ASSUME IInv, NEW x \in Objs, NEW mode \in Modes, NEW d \in Data, ValueOr(x, mode, d)
  PROVE  Keeps
<1> DEFINE o == [op |-> "value_or", x |-> x, mode |-> mode]
           m == Start("value", d)
           S == IF m.has[x] THEN Build(m, Tmp, "value", mode, x) ELSE Build(m, Tmp, "value", "make", Arg)
<1>1. x \in alive /\ ~t_is_void /\ CallOn(o, S) /\ o.op = "value_or" /\ o.x = x /\ o.mode = mode
  BY DEF ValueOr
<1>2. Running
  BY <1>1 DEF CallOn, Call
<1>3. Ready(m) /\ m.at[Arg].in = "value"
  BY <1>2, CallStarts DEF Kinds
<1> HIDE DEF m, o
<1>4. Good(m, x) /\ m \in Memories /\ m.how = "ok" /\ m.leaked = mem.leaked /\ m.at[Tmp] = Nothing
      /\ Match(m, alive) /\ View(m, alive) = Obj /\ alive \in SUBSET Objs
  BY <1>1, <1>3, ReadyAt DEF Ready, IInv, TypeOK
<1>5. ASSUME NEW k \in S
      PROVE  /\ k \in Memories /\ k.leaked = m.leaked /\ k.has = m.has
             /\ \/ /\ k.how = "ok" /\ Same(k, m, {x, Tmp, Arg})
                   /\ k.at[x] = IF KindOf(m, x) = "value" THEN Left(mode, m.at[x]) ELSE m.at[x]
                \/ Strongly(k, m)
  BY <1>1, <1>3, <1>4, <1>5, ValueOrSays
<1> HIDE DEF S
<1>6. PICK k \in S : Returned(k, o, alive)
  BY <1>1, CallOnSays
<1>7. k \in Memories /\ k.leaked = mem.leaked /\ k.has = m.has /\ Obj[x].in = KindOf(m, x)
  BY <1>1, <1>3, <1>4, <1>5, ObjIn
<1>8. CASE /\ k.how = "ok" /\ Same(k, m, {x, Tmp, Arg})
           /\ k.at[x] = IF KindOf(m, x) = "value" THEN Left(mode, m.at[x]) ELSE m.at[x]
  <2>1. CASE KindOf(m, x) = "value"
    <3>1. Sum!Effect(o) = MadeIn(Obj, x, Left(mode, Obj[x]))
      BY <1>1, <1>7, <2>1, Effects
    <3>2. Match(k, alive) /\ View(k, alive) = MadeIn(Obj, x, Left(mode, Obj[x]))
      BY <1>1, <1>4, <1>7, <1>8, <2>1, ViewLeft
    <3> QED BY <1>2, <1>4, <1>6, <1>7, <1>8, <3>1, <3>2, SucceedKept
  <2>2. CASE KindOf(m, x) = "error"
    <3>1. Sum!Effect(o) = Obj
      BY <1>1, <1>7, <2>2, Effects
    <3>2. SameObjects(k, m)
      BY <1>7, <1>8, <2>2, PlacesAssumption DEF SameObjects, Same, Places
    <3>3. Match(k, alive) /\ View(k, alive) = Obj
      BY <1>4, <3>2, SameView
    <3> QED BY <1>2, <1>4, <1>6, <1>7, <1>8, <3>1, <3>3, SucceedKept
  <2> QED BY <2>1, <2>2 DEF KindOf
<1>9. CASE Strongly(k, m)
  BY <1>2, <1>3, <1>6, <1>7, <1>9, StrongKept
<1> QED BY <1>5, <1>8, <1>9

\* and_then and map: a function of the value in y.
LEMMA FunctionKeeps ==
  ASSUME IInv, NEW x \in Objs, NEW y \in Objs, NEW mode \in Modes, NEW kind \in Kinds, NEW d \in Data \union {Moved},
         NEW op \in {"and_then", "map"}, y \in alive, d \in Contents(kind),
         CallNew(By(op, x, y, mode, kind, d),
           IF mem.has[y] THEN Apply(Start(kind, d), x, y, mode, kind, d)
                         ELSE Place(Start(kind, d), x, "error", mode, y))
  PROVE  Keeps
<1> DEFINE o == By(op, x, y, mode, kind, d)
           m == Start(kind, d)
           c == [in |-> kind, data |-> d]
           S == IF mem.has[y] THEN Apply(m, x, y, mode, kind, d)
                              ELSE Place(m, x, "error", mode, y)
<1>1. /\ y \in alive /\ CallNew(o, S)
      /\ o.op \in {"and_then", "map"}
      /\ o.x = x /\ o.y = y /\ o.mode = mode /\ o.kind = kind /\ o.d = d
  BY DEF By
<1>2. Running /\ x \notin alive /\ kind \in Kinds /\ d \in Data \union {Moved} /\ d \in Contents(kind)
  BY <1>1 DEF CallNew, Call
<1>3. Ready(m) /\ m.has = mem.has
  BY <1>2, CallStarts
<1> HIDE DEF m, o
<1>4. /\ Good(m, y) /\ m.at[x] = Nothing /\ m \in Memories /\ m.how = "ok" /\ m.leaked = mem.leaked
      /\ m.at[Tmp] = Nothing /\ x # y /\ KindOf(m, y) \in Kinds /\ (m.has[y] <=> KindOf(m, y) = "value")
      /\ (~m.has[y] <=> KindOf(m, y) = "error") /\ Obj[y].in = KindOf(m, y)
  BY <1>1, <1>2, <1>3, ReadyAt, KindSays, ObjIn DEF Ready
<1>5. ASSUME NEW k \in S
      PROVE  /\ k \in Memories /\ k.leaked = mem.leaked
             /\ \/ /\ KindOf(m, y) = "value"
                   /\ Produced(k, m, x, y, mode, kind, c) \/ Weakly(k, m, {y})
                \/ KindOf(m, y) # "value" /\ (Assigned(k, m, x, mode, y) \/ Strongly(k, m))
  <2>1. CASE KindOf(m, y) = "value"
    <3>1. k \in Apply(m, x, y, mode, kind, d)
      BY <1>3, <1>4, <1>5, <2>1
    <3> QED BY <1>2, <1>4, <2>1, <3>1, ApplySays
  <2>2. CASE KindOf(m, y) # "value"
    <3>1. k \in Place(m, x, KindOf(m, y), mode, y)
      BY <1>3, <1>4, <1>5, <2>2 DEF Kinds
    <3> QED BY <1>4, <2>2, <3>1, PlaceObject
  <2> QED BY <2>1, <2>2
<1>6. S \in SUBSET Memories
  BY <1>5
<1> HIDE DEF S
<1>7. PICK k \in S : /\ k.how = "ok" => Returned(k, o, Plus(alive, x))
                     /\ k.how # "ok" => Returned(k, o, alive)
  BY <1>1, <1>6, CallNewSays
<1>8. /\ Assigned(k, m, x, mode, y) /\ Sum!Effect(o) = TakenIn(Obj, x, y, mode) => Keeps
      /\ /\ Produced(k, m, x, y, mode, kind, c)
         /\ Sum!Effect(o) = MadeOf(Obj, x, y, mode, c)
         => Keeps
      /\ Strongly(k, m) => Keeps
      /\ Weakly(k, m, {y}) /\ o.op \notin Sum!Strong => Keeps
      /\ Ended(k, mode) /\ o.op \in {"or_else", "or_else_void"} => Keeps
  BY <1>1, <1>2, <1>3, <1>5, <1>7, NewKept
<1>9. o.op \notin Sum!Strong
  BY <1>1 DEF Sum!Strong
<1>10. Sum!Effect(o) = IF KindOf(m, y) = "value" THEN MadeOf(Obj, x, y, mode, c) ELSE TakenIn(Obj, x, y, mode)
  BY <1>1, <1>4, EffectsOfFunctions
<1> QED BY <1>1, <1>5, <1>8, <1>9, <1>10

LEMMA AndThenKeeps ==
  ASSUME IInv, NEW x \in Objs, NEW y \in Objs, NEW mode \in Modes, NEW kind \in Kinds, NEW d \in Data \union {Moved},
         AndThen(x, y, mode, kind, d)
  PROVE  Keeps
BY FunctionKeeps DEF AndThen

LEMMA MapKeeps ==
  ASSUME IInv, NEW x \in Objs, NEW y \in Objs, NEW mode \in Modes, NEW d \in Data \union {Moved}, Map(x, y, mode, d)
  PROVE  Keeps
BY FunctionKeeps DEF Map, Kinds

LEMMA MapErrorKeeps ==
  ASSUME IInv, NEW x \in Objs, NEW y \in Objs, NEW mode \in Modes, NEW d \in Data, MapError(x, y, mode, d)
  PROVE  Keeps
<1> DEFINE o == By("map_error", x, y, mode, "error", d)
           m == Start("error", d)
           c == [in |-> "error", data |-> d]
           S == IF mem.has[y] THEN Place(m, x, "value", mode, y)
                              ELSE Apply(m, x, y, mode, "error", d)
<1>1. /\ y \in alive /\ CallNew(o, S)
      /\ o.op = "map_error"
      /\ o.x = x /\ o.y = y /\ o.mode = mode /\ o.kind = "error" /\ o.d = d
  BY DEF MapError, By
<1>2. Running /\ x \notin alive /\ "error" \in Kinds /\ d \in Data \union {Moved} /\ d \in Contents("error")
  BY <1>1 DEF CallNew, Call, Kinds, MapError, Contents, NoObject
<1>3. Ready(m) /\ m.has = mem.has
  BY <1>2, CallStarts
<1> HIDE DEF m, o
<1>4. /\ Good(m, y) /\ m.at[x] = Nothing /\ m \in Memories /\ m.how = "ok" /\ m.leaked = mem.leaked
      /\ m.at[Tmp] = Nothing /\ x # y /\ KindOf(m, y) \in Kinds /\ (m.has[y] <=> KindOf(m, y) = "value")
      /\ (~m.has[y] <=> KindOf(m, y) = "error") /\ Obj[y].in = KindOf(m, y)
  BY <1>1, <1>2, <1>3, ReadyAt, KindSays, ObjIn DEF Ready
<1>5. ASSUME NEW k \in S
      PROVE  /\ k \in Memories /\ k.leaked = mem.leaked
             /\ \/ /\ KindOf(m, y) = "error"
                   /\ Produced(k, m, x, y, mode, "error", c) \/ Weakly(k, m, {y})
                \/ KindOf(m, y) # "error" /\ (Assigned(k, m, x, mode, y) \/ Strongly(k, m))
  <2>1. CASE KindOf(m, y) = "error"
    <3>1. k \in Apply(m, x, y, mode, "error", d)
      BY <1>3, <1>4, <1>5, <2>1
    <3> QED BY <1>2, <1>4, <2>1, <3>1, ApplySays
  <2>2. CASE KindOf(m, y) # "error"
    <3>1. k \in Place(m, x, KindOf(m, y), mode, y)
      BY <1>3, <1>4, <1>5, <2>2 DEF Kinds
    <3> QED BY <1>4, <2>2, <3>1, PlaceObject
  <2> QED BY <2>1, <2>2
<1>6. S \in SUBSET Memories
  BY <1>5
<1> HIDE DEF S
<1>7. PICK k \in S : /\ k.how = "ok" => Returned(k, o, Plus(alive, x))
                     /\ k.how # "ok" => Returned(k, o, alive)
  BY <1>1, <1>6, CallNewSays
<1>8. /\ Assigned(k, m, x, mode, y) /\ Sum!Effect(o) = TakenIn(Obj, x, y, mode) => Keeps
      /\ /\ Produced(k, m, x, y, mode, "error", c)
         /\ Sum!Effect(o) = MadeOf(Obj, x, y, mode, c)
         => Keeps
      /\ Strongly(k, m) => Keeps
      /\ Weakly(k, m, {y}) /\ o.op \notin Sum!Strong => Keeps
      /\ Ended(k, mode) /\ o.op \in {"or_else", "or_else_void"} => Keeps
  BY <1>1, <1>2, <1>3, <1>5, <1>7, NewKept
<1>9. o.op \notin Sum!Strong
  BY <1>1 DEF Sum!Strong
<1>10. Sum!Effect(o) = IF KindOf(m, y) = "error" THEN MadeOf(Obj, x, y, mode, c) ELSE TakenIn(Obj, x, y, mode)
  BY <1>1, <1>4, EffectsOfFunctions
<1> QED BY <1>1, <1>5, <1>8, <1>9, <1>10

LEMMA OrElseKeeps ==
  ASSUME IInv, NEW x \in Objs, NEW y \in Objs, NEW mode \in Modes, NEW kind \in Kinds, NEW d \in Data \union {Moved},
         OrElse(x, y, mode, kind, d)
  PROVE  Keeps
<1> DEFINE o == By("or_else", x, y, mode, kind, d)
           m == Start(kind, d)
           c == [in |-> kind, data |-> d]
           S == IF mem.has[y] THEN Construct(m, x, "value", mode, y)
                              ELSE Apply(m, x, y, mode, kind, d)
<1>1. /\ y \in alive /\ CallNew(o, S)
      /\ o.op = "or_else"
      /\ o.x = x /\ o.y = y /\ o.mode = mode /\ o.kind = kind /\ o.d = d
  BY DEF OrElse, By
<1>2. Running /\ x \notin alive /\ kind \in Kinds /\ d \in Data \union {Moved} /\ d \in Contents(kind)
  BY <1>1 DEF CallNew, Call, Kinds, OrElse, Contents, NoObject
<1>3. Ready(m) /\ m.has = mem.has
  BY <1>2, CallStarts
<1> HIDE DEF m, o
<1>4. /\ Good(m, y) /\ m.at[x] = Nothing /\ m \in Memories /\ m.how = "ok" /\ m.leaked = mem.leaked
      /\ m.at[Tmp] = Nothing /\ x # y /\ KindOf(m, y) \in Kinds /\ (m.has[y] <=> KindOf(m, y) = "value")
      /\ (~m.has[y] <=> KindOf(m, y) = "error") /\ Obj[y].in = KindOf(m, y)
  BY <1>1, <1>2, <1>3, ReadyAt, KindSays, ObjIn DEF Ready
<1>5. ASSUME NEW k \in S
      PROVE  /\ k \in Memories /\ k.leaked = mem.leaked
             /\ \/ /\ KindOf(m, y) = "error"
                   /\ Produced(k, m, x, y, mode, kind, c) \/ Weakly(k, m, {y})
                \/ KindOf(m, y) # "error" /\ (Assigned(k, m, x, mode, y) \/ Ended(k, mode))
  <2>1. CASE KindOf(m, y) = "error"
    <3>1. k \in Apply(m, x, y, mode, kind, d)
      BY <1>3, <1>4, <1>5, <2>1
    <3> QED BY <1>2, <1>4, <2>1, <3>1, ApplySays
  <2>2. CASE KindOf(m, y) # "error"
    <3>1. k \in Construct(m, x, KindOf(m, y), mode, y)
      BY <1>3, <1>4, <1>5, <2>2 DEF Kinds
    <3> QED BY <1>4, <2>2, <3>1, ConstructObject
  <2> QED BY <2>1, <2>2
<1>6. S \in SUBSET Memories
  BY <1>5
<1> HIDE DEF S
<1>7. PICK k \in S : /\ k.how = "ok" => Returned(k, o, Plus(alive, x))
                     /\ k.how # "ok" => Returned(k, o, alive)
  BY <1>1, <1>6, CallNewSays
<1>8. /\ Assigned(k, m, x, mode, y) /\ Sum!Effect(o) = TakenIn(Obj, x, y, mode) => Keeps
      /\ /\ Produced(k, m, x, y, mode, kind, c)
         /\ Sum!Effect(o) = MadeOf(Obj, x, y, mode, c)
         => Keeps
      /\ Strongly(k, m) => Keeps
      /\ Weakly(k, m, {y}) /\ o.op \notin Sum!Strong => Keeps
      /\ Ended(k, mode) /\ o.op \in {"or_else", "or_else_void"} => Keeps
  BY <1>1, <1>2, <1>3, <1>5, <1>7, NewKept
<1>9. o.op \notin Sum!Strong
  BY <1>1 DEF Sum!Strong
<1>10. Sum!Effect(o) = IF KindOf(m, y) = "error" THEN MadeOf(Obj, x, y, mode, c) ELSE TakenIn(Obj, x, y, mode)
  BY <1>1, <1>4, EffectsOfFunctions
<1> QED BY <1>1, <1>5, <1>8, <1>9, <1>10

LEMMA OrElseVoidKeeps ==
  ASSUME IInv, NEW x \in Objs, NEW y \in Objs, NEW mode \in Modes, OrElseVoid(x, y, mode)
  PROVE  Keeps
<1> DEFINE o == From("or_else_void", x, y, mode)
           m == Start("value", Moved)
           n == Start("error", Moved)
           S == IF mem.has[y] THEN Construct(m, x, "value", mode, y) ELSE PassOn(n, x, mode, y)
<1>1. /\ y \in alive /\ CallNew(o, S)
      /\ o.op = "or_else_void" /\ o.x = x /\ o.y = y /\ o.mode = mode
  BY DEF OrElseVoid, From, PassOn
<1>2. Running /\ x \notin alive
  BY <1>1 DEF CallNew, Call
<1>3. Ready(m) /\ m.has = mem.has /\ Ready(n) /\ n.has = mem.has
  BY <1>2, CallStarts DEF Kinds
<1> HIDE DEF m, n, o
<1>4. ASSUME NEW i \in {m, n}
      PROVE  /\ Good(i, y) /\ i.at[x] = Nothing /\ i \in Memories /\ i.how = "ok" /\ i.leaked = mem.leaked
             /\ i.at[Tmp] = Nothing /\ KindOf(i, y) \in Kinds /\ KindOf(i, y) = KindOf(mem, y)
             /\ Obj[y].in = KindOf(mem, y)
  BY <1>1, <1>2, <1>3, <1>4, ReadyAt, KindSays, ObjIn DEF Ready
<1>5. (mem.has[y] <=> KindOf(mem, y) = "value") /\ (~mem.has[y] <=> KindOf(mem, y) = "error") /\ x # y
  BY <1>1, <1>2, KindSays DEF IInv
<1>6. ASSUME NEW k \in S
      PROVE  /\ k \in Memories /\ k.leaked = mem.leaked
             /\ \/ KindOf(mem, y) = "value" /\ (Assigned(k, m, x, mode, y) \/ Ended(k, mode))
                \/ /\ KindOf(mem, y) = "error"
                   /\ PassedOn(k, n, x, mode, y) \/ Ended(k, mode) \/ Strongly(k, n)
  <2>1. CASE KindOf(mem, y) = "value"
    <3>1. k \in Construct(m, x, KindOf(m, y), mode, y)
      BY <1>4, <1>5, <1>6, <2>1
    <3> QED BY <1>4, <1>5, <2>1, <3>1, ConstructObject
  <2>2. CASE KindOf(mem, y) = "error"
    <3>1. k \in PassOn(n, x, mode, y)
      BY <1>4, <1>5, <1>6, <2>2 DEF Kinds
    <3> QED BY <1>4, <1>5, <2>2, <3>1, OrElseVoidSays
  <2> QED BY <2>1, <2>2 DEF KindOf
<1>7. S \in SUBSET Memories
  BY <1>6
<1> HIDE DEF S
<1>8. PICK k \in S : /\ k.how = "ok" => Returned(k, o, Plus(alive, x))
                     /\ k.how # "ok" => Returned(k, o, alive)
  BY <1>1, <1>7, CallNewSays
<1>9. Sum!Effect(o) = IF KindOf(mem, y) = "error" THEN PassedIn(Obj, x, y, mode) ELSE TakenIn(Obj, x, y, mode)
  BY <1>1, <1>4, <1>5, EffectOfOrElseVoid
<1>10. CASE KindOf(mem, y) = "value" /\ (Assigned(k, m, x, mode, y) \/ Ended(k, mode))
  BY <1>1, <1>2, <1>3, <1>6, <1>8, <1>9, <1>10, NewKept
<1>11. CASE KindOf(mem, y) = "error" /\ (PassedOn(k, n, x, mode, y) \/ Ended(k, mode) \/ Strongly(k, n))
  BY <1>1, <1>2, <1>3, <1>6, <1>8, <1>9, <1>11, NewKept
<1> QED BY <1>6, <1>10, <1>11

-----------------------------------------------------------------------------
(* The theorems.                                                           *)

LEMMA InitIInv == Init => IInv
<1> SUFFICES ASSUME Init PROVE IInv
  OBVIOUS
<1>1. mem = [at |-> [p \in Places |-> Nothing], has |-> [x \in Objs |-> FALSE], how |-> "ok", leaked |-> FALSE]
  BY DEF Init
<1>2. mem \in Memories /\ mem.how = "ok" /\ \A p \in Places : mem.at[p] = Nothing
  BY <1>1 DEF Memories, Cells, Hows
<1>3. TypeOK
  <2>1. Tmp \in Places /\ Arg \in Places
    BY DEF Places
  <2>2. t_is_void \in BOOLEAN /\ throwing \subseteq MayThrow /\ alive \subseteq Objs
    BY DEF Init
  <2> QED BY <1>2, <2>1, <2>2 DEF TypeOK, Memories, Cells, Hows
<1>4. Match(mem, alive)
  BY <1>2 DEF Init, Match, Places
<1> QED BY <1>2, <1>3, <1>4 DEF IInv, CrashExplained

LEMMA NextKeeps ==
  ASSUME IInv, Next
  PROVE  Keeps
<1>1. ASSUME NEW x \in Objs, NEW y \in Objs, NEW mode \in Modes,
             \/ ConstructFrom(x, y, mode)
             \/ ConvertFrom(x, y, mode)
             \/ AssignFrom(x, y, mode)
             \/ OrElseVoid(x, y, mode)
      PROVE  Keeps
  BY <1>1, ConstructFromKeeps, ConvertFromKeeps, AssignFromKeeps, OrElseVoidKeeps
<1>2. ASSUME NEW x \in Objs, NEW y \in Objs, NEW mode \in Modes, NEW d \in Data \union {Moved},
             \/ \E kind \in Kinds : AndThen(x, y, mode, kind, d) \/ OrElse(x, y, mode, kind, d)
             \/ Map(x, y, mode, d)
             \/ d \in Data /\ MapError(x, y, mode, d)
      PROVE  Keeps
  BY <1>2, AndThenKeeps, OrElseKeeps, MapKeeps, MapErrorKeeps
<1>3. ASSUME NEW x \in Objs, NEW kind \in Kinds, NEW d \in Data \union {Moved}, MakeWith(x, kind, d)
      PROVE  Keeps
  BY <1>3, MakeWithKeeps
<1>4. ASSUME NEW x \in Objs, NEW d \in Data,
             \/ \E mode \in Modes : AssignUnexpected(x, mode, d) \/ ValueOr(x, mode, d)
             \/ AssignValue(x, d)
             \/ Emplace(x, d)
      PROVE  Keeps
  BY <1>4, AssignUnexpectedKeeps, ValueOrKeeps, AssignValueKeeps, EmplaceKeeps
<1>5. ASSUME NEW x \in Objs, NEW y \in Objs, Swap(x, y) PROVE Keeps
  BY <1>5, SwapKeeps
<1>6. ASSUME NEW x \in Objs, Destroy(x) \/ \E mode \in Modes : Value(x, mode) PROVE Keeps
  BY <1>6, DestroyKeeps, ValueKeeps
<1> QED BY <1>1, <1>2, <1>3, <1>4, <1>5, <1>6 DEF Next

LEMMA StutterKeeps ==
  ASSUME IInv, UNCHANGED vars
  PROVE  IInv' /\ UNCHANGED Sum!vars /\ mem' = mem
<1>1. mem' = mem /\ alive' = alive /\ throwing' = throwing /\ t_is_void' = t_is_void /\ last' = last
  BY DEF vars
<1>2. IInv'
  BY <1>1 DEF IInv, TypeOK, Running, Match, Good, NoObject, KindOf, CrashExplained, Nothrow
<1>3. UNCHANGED Sum!vars
  BY <1>1 DEF Sum!vars, Running, NoObject, KindOf
<1> QED BY <1>1, <1>2, <1>3

LEMMA StepSays == IInv /\ [Next]_vars => IInv'
BY NextKeeps, StutterKeeps DEF Keeps

\* The invariant holds throughout.
THEOREM Invariance == Spec => []IInv
BY InitIInv, StepSays, PTL DEF Spec

\* While the program runs an object contains what m_has_val says, after an
\* exception too: whichever of the operations of T and E throw.
THEOREM FlagCorrect == Spec => []FlagTracksContent
<1>1. IInv => FlagTracksContent
  <2> SUFFICES ASSUME IInv, Running, NEW x \in Objs
               PROVE  mem.at[x].in = IF x \in alive /\ ~NoObject(KindOf(mem, x)) THEN KindOf(mem, x) ELSE "nothing"
    BY DEF FlagTracksContent
  <2>1. IF x \in alive THEN Good(mem, x) ELSE mem.at[x] = Nothing
    BY DEF IInv, Match
  <2> QED BY <2>1 DEF Good, Nothing
<1> QED BY <1>1, Invariance, PTL

\* std::terminate, and the use of an object that is not alive, only from the
\* operations, and with the types, that CrashExplained names.
THEOREM EndsExplained == Spec => []CrashExplained
<1>1. IInv => CrashExplained
  BY DEF IInv
<1> QED BY <1>1, Invariance, PTL

\* Only the converting constructors build over a contained object.
THEOREM LeaksExplained == Spec => OnlyConversionLeaks
<1>1. IInv /\ [Next]_vars => [mem'.leaked /\ ~mem.leaked => last'.op = "convert"]_vars
  BY NextKeeps DEF Keeps
<1> QED BY <1>1, Invariance, PTL DEF Spec, OnlyConversionLeaks

\* The class implements the sum of T and E of ExpectedValue: each operation has
\* the effect its name promises, and one that throws leaves what its exception
\* guarantee says.
THEOREM ImplementsSum == Spec => ImplementsValue
<1>1. Init => Sum!Init
  BY DEF Init, Sum!Init, Sum!Absent, Sum!Moved, Running, Nothing, Moved
<1>2. IInv /\ [Next]_vars => [Sum!Next]_(Sum!vars)
  BY NextKeeps, StutterKeeps DEF Keeps
<1> QED BY <1>1, <1>2, Invariance, PTL DEF Spec, ImplementsValue, Sum!Spec
=============================================================================
