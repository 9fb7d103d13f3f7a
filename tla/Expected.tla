------------------------------ MODULE Expected ------------------------------
(***************************************************************************)
(* tl::expected<T, E> (include/rcpputils/tl_expected/expected.hpp): a union *)
(* of a T and an unexpected<E>, whose contained object the class creates    *)
(* and destroys by hand, and the flag m_has_val that says which one lives.  *)
(* T and E are class types whose copy, move and construction may each throw *)
(* (with their assignments): throwing says which do.  T may be void, and    *)
(* then the union has no member for it, only the flag.                      *)
(*                                                                          *)
(* An operation is a sequence of steps on a memory m; its meaning is the    *)
(* set of memories it may end in.  m.how is "ok" while it runs normally,    *)
(* "threw" while an exception propagates, "terminated" when one has left a  *)
(* noexcept function, and "undefined" when a member of the union is used    *)
(* that is not alive.                                                       *)
(***************************************************************************)
EXTENDS Naturals, FiniteSets

CONSTANTS
  Objs,      \* expected objects
  Data,      \* contents of a T or of an E
  MayThrow   \* bound: operations of T and E that some types throw from

Kinds == {"value", "error"}
Modes == {"copy", "move"}

ASSUME MayThrowAssumption == MayThrow \subseteq Kinds \X (Modes \union {"make"})

VARIABLES
  mem,       \* the memory: what each place holds, flags, how the last call ended
  alive,     \* the objects that exist
  throwing,  \* the operations of T and E that may throw
  t_is_void, \* whether T is void
  last       \* history: the last call

vars == <<mem, alive, throwing, t_is_void, last>>

Moved   == "moved"
Tmp     == "tmp"      \* a local variable of the operation
Arg     == "arg"      \* its argument, or the result of the caller's function
Places  == Objs \union {Tmp, Arg}
Nothing == [in |-> "nothing", data |-> Moved]

ASSUME PlacesAssumption == {Tmp, Arg} \intersect Objs = {}

Nothrow(kind, mode) == <<kind, mode>> \notin throwing
NoObject(kind) == t_is_void /\ kind = "value"

\* The contents of a new T or E; a void has one.
Contents(kind) == IF NoObject(kind) THEN {Moved} ELSE Data

KindOf(m, x) == IF m.has[x] THEN "value" ELSE "error"

-----------------------------------------------------------------------------
(* Steps and their composition.                                             *)

Raise(m)     == [m EXCEPT !.how = "threw"]
Undefined(m) == [m EXCEPT !.how = "undefined"]

\* S, then F from where S ended normally.
Then(S, F(_)) == UNION {IF m.how = "ok" THEN F(m) ELSE {m} : m \in S}

\* An exception that leaves a noexcept function.
Noexcept(S) == {IF m.how = "threw" THEN [m EXCEPT !.how = "terminated"] ELSE m : m \in S}

\* try S catch (...) { H; throw; }
TryRestore(S, H(_)) ==
  UNION {IF m.how # "threw" THEN {m}
         ELSE {IF n.how = "ok" THEN Raise(n) ELSE n : n \in H([m EXCEPT !.how = "ok"])} : m \in S}

\* Moves or copies what q holds into p.
Transfer(m, p, kind, mode, q) ==
  [m EXCEPT !.at[q].data = IF mode = "move" THEN Moved ELSE @,
            !.at[p] = [in |-> kind, data |-> m.at[q].data]]

\* Placement new of a T or an E at p from the one at q.  What p held is lost
\* without its destructor.  For a void there is nothing to do.
Build(m, p, kind, mode, q) ==
  CASE NoObject(kind) -> {m}
    [] ~NoObject(kind) /\ m.at[q].in # kind -> {Undefined(m)}
    [] OTHER ->
       {[Transfer(m, p, kind, mode, q) EXCEPT !.leaked = @ \/ m.at[p].in # "nothing"]}
         \union {Raise(m) : t \in throwing \intersect {<<kind, mode>>}}

\* Assignment to the T or E at p.
Assign(m, p, kind, mode, q) ==
  IF m.at[p].in # kind \/ m.at[q].in # kind THEN {Undefined(m)}
  ELSE {Transfer(m, p, kind, mode, q)} \union {Raise(m) : t \in throwing \intersect {<<kind, mode>>}}

\* The destructor of the T or E at p.
Drop(m, p, kind) == IF m.at[p].in # kind THEN {Undefined(m)} ELSE {[m EXCEPT !.at[p] = Nothing]}

DestroyVal(m, x) == IF t_is_void THEN {m} ELSE Drop(m, x, "value")

SetFlag(m, x, b) == {[m EXCEPT !.has[x] = b]}

\* A contained object, then the flag.
Place(m, x, kind, mode, q) ==
  Then(Build(m, x, kind, mode, q), LAMBDA n : SetFlag(n, x, kind = "value"))

\* construct, construct_with and construct_error: all are noexcept.
Construct(m, x, kind, mode, q) == Noexcept(Place(m, x, kind, mode, q))

-----------------------------------------------------------------------------
(* Assignment.                                                              *)

AssignCommonLeaking(m, x, mode, y) ==
  IF m.has[x] = m.has[y] THEN Assign(m, x, KindOf(m, x), mode, y)
  ELSE Construct(m, x, "error", mode, y)
AssignCommonCopying(m, x, mode, y) ==
  IF m.has[x] = m.has[y] THEN Assign(m, x, KindOf(m, x), "copy", y)
  ELSE Then(Drop(m, x, "value"), LAMBDA n : Construct(n, x, "error", "copy", y))
AssignCommon(m, x, mode, y) ==
  IF m.has[x] = m.has[y] THEN Assign(m, x, KindOf(m, x), mode, y)
  ELSE Then(DestroyVal(m, x), LAMBDA n : Construct(n, x, "error", mode, y))

\* The error is moved out, to be put back should S throw.
SavingError(m, x, S(_)) ==
  Then(Build(m, Tmp, "error", "move", x), LAMBDA n :
  Then(Drop(n, x, "error"), LAMBDA k :
    TryRestore(S(k), LAMBDA l : Assign(l, x, "error", "move", Tmp))))

\* The case the overloads of assign differ in: x has an error, y a value.
ErrorToValue(m, x, mode, y) ==
  CASE Nothrow("value", mode) ->
         Then(Drop(m, x, "error"), LAMBDA n : Construct(n, x, "value", mode, y))
    [] ~Nothrow("value", mode) /\ Nothrow("value", "move") ->
         Then(Build(m, Tmp, "value", "copy", y), LAMBDA n :
         Then(Drop(n, x, "error"), LAMBDA k : Construct(k, x, "value", "move", Tmp)))
    [] OTHER -> SavingError(m, x, LAMBDA n : Construct(n, x, "value", mode, y))

AssignTo(m, x, mode, y) ==
  LET body == IF ~m.has[x] /\ m.has[y] THEN ErrorToValue(m, x, mode, y)
                                       ELSE AssignCommon(m, x, mode, y)
  IN  IF Nothrow("value", mode) \/ Nothrow("value", "move") THEN Noexcept(body) ELSE body

\* The one overload for a void T.
AssignVoid(m, x, mode, y) ==
  Noexcept(
    CASE ~m.has[x] /\ m.has[y]  -> Then(Drop(m, x, "error"), LAMBDA n : SetFlag(n, x, TRUE))
      [] ~m.has[x] /\ ~m.has[y] -> Assign(m, x, "error", mode, y)
      [] m.has[x] /\ ~m.has[y]  -> Construct(m, x, "error", mode, y)
      [] m.has[x] /\ m.has[y]   -> {m})

\* The part operator=(U &&) and emplace share: x has an error, and gets a T
\* made from the argument.
ReplaceErrorUnset(m, x) ==
  Then(Drop(m, x, "error"), LAMBDA n : Build(n, x, "value", "make", Arg))
ReplaceError(m, x) ==
  IF Nothrow("value", "make")
    THEN Then(Drop(m, x, "error"), LAMBDA n : Place(n, x, "value", "make", Arg))
    ELSE SavingError(m, x, LAMBDA n : Place(n, x, "value", "make", Arg))

SetTo(m, x) ==
  IF m.has[x] THEN Assign(m, x, "value", "make", Arg) ELSE ReplaceError(m, x)

SetUnexpected(m, x, mode) ==
  IF m.has[x] THEN Then(DestroyVal(m, x), LAMBDA n : Place(n, x, "error", mode, Arg))
              ELSE Assign(m, x, "error", mode, Arg)

EmplaceAt(m, x) ==
  IF m.has[x]
    THEN Then(Build(m, Tmp, "value", "make", Arg), LAMBDA n : Assign(n, x, "value", "move", Tmp))
    ELSE ReplaceError(m, x)

-----------------------------------------------------------------------------
(* swap.                                                                    *)

StdSwap(m, x, y, kind) ==
  Then(Build(m, Tmp, kind, "move", x), LAMBDA n :
  Then(Assign(n, x, kind, "move", y), LAMBDA k : Assign(k, y, kind, "move", Tmp)))

SwapFlags(m, x, y) == {[m EXCEPT !.has[x] = m.has[y], !.has[y] = m.has[x]]}

\* v has a value and e an error, and moving a T cannot throw.
SwapMovingValue(m, v, e) ==
  LET exchange(n) ==
        Then(Build(n, v, "error", "move", e), LAMBDA k :
        Then(Drop(k, e, "error"), LAMBDA l :
        Then(Build(l, e, "value", "move", Tmp), LAMBDA i : SwapFlags(i, v, e))))
  IN  Then(Build(m, Tmp, "value", "move", v), LAMBDA n :
      Then(Drop(n, v, "value"), LAMBDA k :
        IF Nothrow("error", "move") THEN Noexcept(exchange(k))
        ELSE TryRestore(exchange(k), LAMBDA l : Assign(l, v, "value", "move", Tmp))))

\* The same when it can: the T is copied over the error.
SwapMovingError(m, v, e) ==
  LET exchange(n) ==
        Then(Build(n, e, "value", "copy", v), LAMBDA k :
        Then(Drop(k, v, "value"), LAMBDA l :
        Then(Build(l, v, "error", "move", Tmp), LAMBDA i : SwapFlags(i, v, e))))
  IN  Then(Build(m, Tmp, "error", "move", e), LAMBDA n :
      Then(Drop(n, e, "error"), LAMBDA k :
        TryRestore(exchange(k), LAMBDA l : Assign(l, e, "error", "move", Tmp))))

SwapOne(m, v, e) ==
  IF Nothrow("value", "move") THEN SwapMovingValue(m, v, e) ELSE SwapMovingError(m, v, e)

SwapWith(m, x, y) ==
  CASE m.has[x] = m.has[y]     -> StdSwap(m, x, y, KindOf(m, x))
    [] m.has[x] /\ ~m.has[y]   -> SwapOne(m, x, y)
    [] ~m.has[x] /\ m.has[y]   -> SwapOne(m, y, x)
-----------------------------------------------------------------------------
(* Operations.  Each starts with its argument in place, and ends with its    *)
(* local variables gone.                                                     *)

Start(kind, d) == [mem EXCEPT !.how = "ok", !.at[Arg] = [in |-> kind, data |-> d]]

Return(S) == {[m EXCEPT !.at[Tmp] = Nothing, !.at[Arg] = Nothing] : m \in S}

Running == mem.how \in {"ok", "threw"}

Call(o, S) ==
  /\ Running
  /\ mem' \in Return(S)
  /\ last' = o
  /\ UNCHANGED <<throwing, t_is_void>>

\* An operation on objects that exist already, and one that creates x.
CallOn(o, S) == Call(o, S) /\ UNCHANGED alive
CallNew(o, S) ==
  /\ o.x \notin alive
  /\ Call(o, S)
  /\ alive' = IF mem'.how = "ok" THEN alive \union {o.x} ELSE alive

From(op, x, y, mode) == [op |-> op, x |-> x, y |-> y, mode |-> mode]
Given(op, x, kind, d) == [op |-> op, x |-> x, kind |-> kind, d |-> d]
By(op, x, y, mode, kind, d) ==
  [op |-> op, x |-> x, y |-> y, mode |-> mode, kind |-> kind, d |-> d]

ConstructFrom(x, y, mode) ==
  /\ y \in alive
  /\ CallNew(From("construct", x, y, mode), Construct(Start("value", Moved), x, KindOf(mem, y), mode, y))

\* From an expected<U, G>: the base first makes a T{}.  This and the operations
\* that give or take a T do not compile for a void.
ConvertFrom(x, y, mode) ==
  /\ y \in alive /\ ~t_is_void
  /\ \E d \in Data :
       CallNew(From("convert", x, y, mode),
         Then(Place(Start("value", d), x, "value", "make", Arg),
              LAMBDA m : Construct(m, x, KindOf(m, y), mode, y)))

MakeWith(x, kind, d) ==
  /\ d \in Contents(kind)
  /\ CallNew(Given("make", x, kind, d), Place(Start(kind, d), x, kind, "make", Arg))

AssignFrom(x, y, mode) ==
  /\ {x, y} \subseteq alive /\ x # y
  /\ LET m == Start("value", Moved) IN
     CallOn(From("assign", x, y, mode),
            IF t_is_void THEN AssignVoid(m, x, mode, y) ELSE AssignTo(m, x, mode, y))

AssignValue(x, d) ==
  /\ x \in alive /\ ~t_is_void
  /\ Nothrow("error", "move")
  /\ CallOn(Given("set_value", x, "value", d), SetTo(Start("value", d), x))

AssignUnexpected(x, mode, d) ==
  /\ x \in alive
  /\ Nothrow("error", mode)
  /\ CallOn(Given("set_error", x, "error", d), SetUnexpected(Start("error", d), x, mode))

Emplace(x, d) ==
  /\ x \in alive /\ ~t_is_void
  /\ CallOn(Given("emplace", x, "value", d), EmplaceAt(Start("value", d), x))

Swap(x, y) ==
  /\ {x, y} \subseteq alive /\ x # y /\ ~t_is_void
  /\ Nothrow("value", "move") \/ Nothrow("error", "move")
  /\ CallOn([op |-> "swap", x |-> x, y |-> y], SwapWith(Start("value", Moved), x, y))

\* value(): the exception of an object without one takes a copy of its error,
\* or the error itself.
Value(x, mode) ==
  /\ x \in alive /\ ~t_is_void
  /\ LET m == Start("value", Moved) IN
     CallOn([op |-> "value", x |-> x, mode |-> mode],
            IF m.has[x] THEN {m}
            ELSE Then(Build(m, Tmp, "error", mode, x), LAMBDA n : {Raise(n)}))

\* value_or(v): a T made from the one in x or from v.
ValueOr(x, mode, d) ==
  /\ x \in alive /\ ~t_is_void
  /\ LET m == Start("value", d) IN
     CallOn([op |-> "value_or", x |-> x, mode |-> mode],
            IF m.has[x] THEN Build(m, Tmp, "value", mode, x) ELSE Build(m, Tmp, "value", "make", Arg))

\* f(*y) or f(y.error()), or f() for a void, where f takes its argument by value; its answer is
\* then what x is made of.
Apply(m, x, y, mode, kind, d) ==
  Then(Build(m, Tmp, KindOf(m, y), mode, y), LAMBDA n :
    Place([n EXCEPT !.at[Arg] = [in |-> kind, data |-> d]], x, kind, "make", Arg))

AndThen(x, y, mode, kind, d) ==
  /\ y \in alive
  /\ d \in Contents(kind)
  /\ CallNew(By("and_then", x, y, mode, kind, d),
       IF mem.has[y] THEN Apply(Start(kind, d), x, y, mode, kind, d)
                     ELSE Place(Start(kind, d), x, "error", mode, y))

Map(x, y, mode, d) ==
  /\ y \in alive
  /\ d \in Contents("value")
  /\ CallNew(By("map", x, y, mode, "value", d),
       IF mem.has[y] THEN Apply(Start("value", d), x, y, mode, "value", d)
                     ELSE Place(Start("value", d), x, "error", mode, y))

MapError(x, y, mode, d) ==
  /\ y \in alive
  /\ CallNew(By("map_error", x, y, mode, "error", d),
       IF mem.has[y] THEN Place(Start("error", d), x, "value", mode, y)
                     ELSE Apply(Start("error", d), x, y, mode, "error", d))

OrElse(x, y, mode, kind, d) ==
  /\ y \in alive
  /\ d \in Contents(kind)
  /\ CallNew(By("or_else", x, y, mode, kind, d),
       IF mem.has[y] THEN Construct(Start(kind, d), x, "value", mode, y)
                     ELSE Apply(Start(kind, d), x, y, mode, kind, d))

\* f returns nothing: y is passed on after f has had its error.
OrElseVoid(x, y, mode) ==
  /\ y \in alive
  /\ CallNew(From("or_else_void", x, y, mode),
       IF mem.has[y] THEN Construct(Start("value", Moved), x, "value", mode, y)
       ELSE Then(Build(Start("error", Moved), Tmp, "error", mode, y),
                 LAMBDA m : Construct(m, x, "error", mode, y)))

DestroyVoid(m, x) == IF m.has[x] THEN {m} ELSE Drop(m, x, "error")

\* ~expected: the flag says which destructor to run.
Destroy(x) ==
  /\ x \in alive
  /\ LET m == Start("value", Moved) IN
     Call([op |-> "destroy", x |-> x],
          IF t_is_void THEN DestroyVoid(m, x) ELSE Drop(m, x, KindOf(m, x)))
  /\ alive' = alive \ {x}

Init ==
  /\ mem = [at |-> [p \in Places |-> Nothing], has |-> [x \in Objs |-> FALSE],
            how |-> "ok", leaked |-> FALSE]
  /\ alive = {}
  /\ throwing \in SUBSET MayThrow
  /\ t_is_void \in BOOLEAN
  /\ t_is_void => \A t \in throwing : t[1] = "error"
  /\ last = [op |-> "none"]

Next ==
  \/ \E x \in Objs, y \in Objs, mode \in Modes :
       \/ ConstructFrom(x, y, mode)
       \/ ConvertFrom(x, y, mode)
       \/ AssignFrom(x, y, mode)
       \/ OrElseVoid(x, y, mode)
  \/ \E x \in Objs, y \in Objs, mode \in Modes, d \in Data \union {Moved} :
       \/ \E kind \in Kinds : AndThen(x, y, mode, kind, d) \/ OrElse(x, y, mode, kind, d)
       \/ Map(x, y, mode, d)
       \/ d \in Data /\ MapError(x, y, mode, d)
  \/ \E x \in Objs, kind \in Kinds, d \in Data \union {Moved} : MakeWith(x, kind, d)
  \/ \E x \in Objs, d \in Data :
       \/ \E mode \in Modes : AssignUnexpected(x, mode, d) \/ ValueOr(x, mode, d)
       \/ AssignValue(x, d)
       \/ Emplace(x, d)
  \/ \E x \in Objs, y \in Objs : Swap(x, y)
  \/ \E x \in Objs : Destroy(x) \/ \E mode \in Modes : Value(x, mode)

Spec == Init /\ [][Next]_vars

-----------------------------------------------------------------------------
(* Properties.                                                              *)

\* "The initialization state of the contained object is tracked by the expected
\* object": while the program runs, an object contains what its flag says, also
\* after an exception, and one that does not exist contains nothing.
FlagTracksContent ==
  Running => \A x \in Objs :
    mem.at[x].in = IF x \in alive /\ ~NoObject(KindOf(mem, x)) THEN KindOf(mem, x) ELSE "nothing"

\* When the program can come to a bad end.  std::terminate needs an operation
\* that copies or moves a whole object in a noexcept function, and a copy (move)
\* that may throw; the use of a dead object needs a throwing constructor of T in
\* operator=(U &&) or emplace, or a swap that has to undo its first half.
CrashExplained ==
  /\ mem.how = "terminated" =>
       /\ last.op \in {"construct", "convert", "assign", "or_else", "or_else_void"}
       /\ throwing \intersect (Kinds \X {last.mode}) # {}
  /\ mem.how = "undefined" =>
       \/ last.op \in {"set_value", "emplace"} /\ ~Nothrow("value", "make")
       \/ last.op = "swap" /\ IF Nothrow("value", "move") THEN ~Nothrow("error", "move")
                                                          ELSE ~Nothrow("value", "copy")

\* "The contained object may not be initialized after the expected object has been
\* initialized" (expected.hpp:1209-1210): only the converting constructors build
\* over a contained object, whose destructor then never runs.
OnlyConversionLeaks == [][mem'.leaked /\ ~mem.leaked => last'.op = "convert"]_vars

\* Each operation has the effect its name promises on the sum of T and E, and one
\* that throws leaves what its exception guarantee says.
Sum == INSTANCE ExpectedValue WITH
  obj <- [x \in Objs |->
            CASE x \notin alive -> Nothing
              [] x \in alive /\ NoObject(KindOf(mem, x)) -> [in |-> "value", data |-> Moved]
              [] OTHER -> mem.at[x]],
  how <- IF Running THEN mem.how ELSE "gone"

ImplementsValue == Sum!Spec

\* The comment on the assign overloads: they "ensure that the most efficient
\* assignment implementation is used while maintaining the strong exception
\* guarantee.  The problematic case is where rhs has a value, but *this does not":
\* in that case, which is the one still to be seen in the flags when it has failed,
\* an exception reaches the caller.
StrongGuarantee ==
  last.op = "assign" /\ ~mem.has[last.x] /\ mem.has[last.y] => mem.how # "terminated"

\* The class comment: the contained object "may not be destroyed before the
\* expected object has been destroyed", so there is always one to use.
NeverUsesDestroyed == mem.how # "undefined"
=============================================================================
