---------------------------- MODULE ExpectedValue ----------------------------
(***************************************************************************)
(* What tl::expected<T, E> promises: each object is a T or an E, never      *)
(* both and never neither, and an operation has the effect of the sum type. *)
(* Which operation ran, and how it ended, is recorded in last and how, so   *)
(* that an implementation answers for each operation by name.               *)
(***************************************************************************)
EXTENDS FiniteSets

CONSTANTS Objs, Data

VARIABLES
  obj,       \* obj[x]: what x holds, or Absent
  throwing,  \* operations of T and E that may throw
  last,      \* the operation that ran last
  how        \* how it ended: "ok", "threw" or "gone"

vars == <<obj, throwing, last, how>>

Moved   == "moved"
Kinds   == {"value", "error"}
Modes   == {"copy", "move"}
Absent  == [in |-> "nothing", data |-> Moved]
Held    == [in : Kinds, data : Data \union {Moved}]

\* What is left of s when its content has been taken.
Left(mode, s) == IF mode = "move" THEN [s EXCEPT !.data = Moved] ELSE s

Given(o) == [in |-> o.kind, data |-> o.d]

\* obj when o succeeds.
Taken(o)    == [obj EXCEPT ![o.y] = Left(o.mode, @), ![o.x] = obj[o.y]]
Produced(o) == [obj EXCEPT ![o.y] = Left(o.mode, @), ![o.x] = Given(o)]

Effect(o) ==
  CASE o.op \in {"construct", "convert", "assign"}           -> Taken(o)
    [] o.op \in {"make", "set_value", "set_error", "emplace"} -> [obj EXCEPT ![o.x] = Given(o)]
    [] o.op = "swap"     -> [obj EXCEPT ![o.x] = obj[o.y], ![o.y] = obj[o.x]]
    [] o.op = "destroy"  -> [obj EXCEPT ![o.x] = Absent]
    [] o.op = "value"    -> obj
    [] o.op = "value_or" ->
         IF obj[o.x].in = "value" THEN [obj EXCEPT ![o.x] = Left(o.mode, @)] ELSE obj
    [] o.op \in {"and_then", "map"} ->
         IF obj[o.y].in = "value" THEN Produced(o) ELSE Taken(o)
    [] o.op \in {"map_error", "or_else"} ->
         IF obj[o.y].in = "error" THEN Produced(o) ELSE Taken(o)
    [] o.op = "or_else_void" ->   \* f has had the error before it is passed on
         IF obj[o.y].in = "error"
           THEN [Taken(o) EXCEPT ![o.x] = Left(o.mode, @)] ELSE Taken(o)

\* Operations that leave every object as it was when they throw.  The others
\* leave each a content of its kind: its own, moved from, or the other's.
Strong == {"construct", "convert", "assign", "make", "set_value", "set_error", "emplace"}

Remains(o, x) ==
  {obj[x]} \union (IF o.op \in Strong THEN {} ELSE {Left("move", obj[x])})
           \union (IF o.op = "swap" THEN {obj[y] : y \in {o.x, o.y}} ELSE {})

Succeed(o) == how' = "ok" /\ obj' = Effect(o)

Throw(o) ==
  /\ throwing # {} \/ (o.op = "value" /\ obj[o.x].in = "error")
  /\ how' = "threw"
  /\ DOMAIN obj' = Objs
  /\ \A x \in Objs : obj'[x] \in Remains(o, x) /\ obj'[x].in = obj[x].in

\* The operations that may end the program, when a T or an E throws; nothing is
\* said of the objects then.
Fatal == {"construct", "convert", "assign", "set_value", "emplace", "swap",
          "or_else", "or_else_void"}

End(o) == throwing # {} /\ o.op \in Fatal /\ how' = "gone"

Init ==
  /\ obj = [x \in Objs |-> Absent]
  /\ last = [op |-> "none"]
  /\ how = "ok"

Next ==
  /\ how # "gone"
  /\ UNCHANGED throwing
  /\ Succeed(last') \/ Throw(last') \/ End(last')

Spec == Init /\ [][Next]_vars
=============================================================================
