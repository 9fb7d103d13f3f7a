------------------------------ MODULE ScopeExit ------------------------------
(***************************************************************************)
(* rcpputils::scope_exit (include/rcpputils/scope_exit.hpp).  A guard holds *)
(* a callable, which runs one cleanup.  A closure is copied when its guard  *)
(* is moved; a std::function is taken, and left empty.                      *)
(***************************************************************************)
EXTENDS Naturals

CONSTANTS
  Guards,     \* places of guards
  Cleanups,   \* cleanups a client makes guards for
  None        \* no cleanup: what an empty std::function calls

ASSUME NoneAssumption == None \notin Cleanups

VARIABLES
  guard,   \* guard[g]: [callable_, kind, cancelled_], or NoGuard
  ran,     \* ran[k]: how many times cleanup k was run, counted up to 2
  made,    \* history: cleanups a guard was made for
  moved,   \* history: cleanups whose guard was moved from
  lost     \* history: cleanups whose guard was cancelled or assigned to

guardVars == <<guard, ran, made, moved, lost>>

NoGuard == [callable_ |-> None, kind |-> "none", cancelled_ |-> FALSE]
Kinds   == {"closure", "function"}

Alive(g) == guard[g] # NoGuard

GuardInit ==
  /\ guard = [g \in Guards |-> NoGuard]
  /\ ran = [k \in Cleanups |-> 0]
  /\ made = {} /\ moved = {} /\ lost = {}

\* make_scope_exit(callable)
MakeScopeExit(g, k, kind) ==
  /\ ~Alive(g) /\ k \notin made
  /\ guard' = [guard EXCEPT ![g] = [callable_ |-> k, kind |-> kind, cancelled_ |-> FALSE]]
  /\ made' = made \union {k}
  /\ UNCHANGED <<ran, moved, lost>>

\* cancel()
Cancel(g) ==
  /\ Alive(g)
  /\ guard' = [guard EXCEPT ![g].cancelled_ = TRUE]
  /\ lost' = lost \union ({guard[g].callable_} \intersect Cleanups)
  /\ UNCHANGED <<ran, made, moved>>

\* What moving leaves of a guard: its flag, and a closure.
Left(h) == [h EXCEPT !.callable_ = IF h.kind = "function" THEN None ELSE @]

\* scope_exit(scope_exit && from), and its assignment for callables that have one.
Move(g, from) ==
  /\ ~Alive(g) /\ Alive(from)
  /\ guard' = [guard EXCEPT ![g] = guard[from], ![from] = Left(guard[from])]
  /\ moved' = moved \union ({guard[from].callable_} \intersect Cleanups)
  /\ UNCHANGED <<ran, made, lost>>

MoveAssign(g, from) ==
  /\ Alive(g) /\ Alive(from) /\ g # from
  /\ guard[g].kind = "function" /\ guard[from].kind = "function"
  /\ guard' = [guard EXCEPT ![g] = guard[from], ![from] = Left(guard[from])]
  /\ moved' = moved \union ({guard[from].callable_} \intersect Cleanups)
  /\ lost' = lost \union ({guard[g].callable_} \intersect Cleanups)
  /\ UNCHANGED <<ran, made>>

\* Will ~scope_exit() of g call its callable?  An empty std::function throws.
Calls(g)    == Alive(g) /\ ~guard[g].cancelled_
CallsNone(g) == Calls(g) /\ guard[g].callable_ = None

\* (variant) the flag is not looked at.
DestroyGuardAlways(g) ==
  /\ Alive(g) /\ ~CallsNone(g)
  /\ guard' = [guard EXCEPT ![g] = NoGuard]
  /\ ran' = [k \in Cleanups |-> IF k = guard[g].callable_ /\ ran[k] < 2 THEN ran[k] + 1 ELSE ran[k]]
  /\ UNCHANGED <<made, moved, lost>>

\* ~scope_exit(), when the callable returns.
DestroyGuard(g) ==
  /\ Alive(g) /\ ~CallsNone(g)
  /\ guard' = [guard EXCEPT ![g] = NoGuard]
  /\ ran' = [k \in Cleanups |->
               IF Calls(g) /\ k = guard[g].callable_ /\ ran[k] < 2 THEN ran[k] + 1 ELSE ran[k]]
  /\ UNCHANGED <<made, moved, lost>>

----------------------------------------------------------------------------
(* Properties.                                                              *)

GuardTypeOK ==
  /\ guard \in [Guards -> {NoGuard} \union
       [callable_ : Cleanups \union {None}, kind : Kinds, cancelled_ : BOOLEAN]]
  /\ ran \in [Cleanups -> 0 .. 2]
  /\ made \subseteq Cleanups /\ moved \union lost \subseteq made

Guarded(k) == \E g \in Guards : guard[g].callable_ = k

\* "Create a scope guard with a callable object containing resource
\* cleanup/release code" (docs/FEATURES.md): a cleanup is run once its guard is
\* gone, and not before.  It is run again only if the guard was moved from, and
\* not at all only if one of the guards of it was cancelled or assigned to.
CleanupOnce ==
  \A k \in Cleanups :
    /\ ran[k] > 0 /\ k \notin moved => ran[k] = 1 /\ ~Guarded(k)
    /\ ~Guarded(k) /\ k \in made \ lost => ran[k] > 0
    /\ k \in lost \ moved => ran[k] = 0
=============================================================================
