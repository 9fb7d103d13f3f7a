---------------------------- MODULE LibraryClient ----------------------------
(***************************************************************************)
(* A program that finds a library, loads it, guards the unloading, and      *)
(* passes objects and guards around, in one thread.                         *)
(*                                                                          *)
(* scope is the stack of its objects: they are destroyed in the reverse     *)
(* order of their construction, also when an exception passes.  The cleanup *)
(* of a guard is target.unload_library().                                   *)
(***************************************************************************)
EXTENDS FindLibrary, SharedLibrary, ScopeExit

CONSTANT MaxBuilt   \* bound: objects that come into scope in a behaviour

ASSUME MaxBuiltAssumption == MaxBuilt \in Nat

VARIABLES
  scope,    \* <<"library", o>> and <<"guard", g>>, the innermost last
  target,   \* target[k]: the object cleanup k unloads
  asked,    \* history: how often an object, or the one it was copied from, was
            \* asked to unload, counted up to 2
  built,    \* objects that have come into scope
  status    \* "ok", "terminated", or "undefined"

stackVars == <<scope, target, asked, built, status>>
SameScope == UNCHANGED <<scope, built>>
allVars   == <<findVars, libVars, guardVars, stackVars>>

ClientInit ==
  /\ FindInit /\ LibraryInit /\ GuardInit
  /\ scope = <<>> /\ built = 0
  /\ target = [k \in Cleanups |-> Absent]
  /\ asked = [o \in Objs |-> 0]
  /\ built = 0 /\ status = "ok"

Pushes(what, x) ==
  /\ built < MaxBuilt /\ built' = built + 1
  /\ scope' = Append(scope, <<what, x>>)
InScope(x)      == x \in Range(scope)
Above(x, y)     == \E i, j \in DOMAIN scope : i > j /\ scope[i] = x /\ scope[j] = y

Asks(o)   == asked' = [asked EXCEPT ![o] = IF @ < 2 THEN @ + 1 ELSE @]
Runs      == UNCHANGED <<target, asked, status>>
OnlyGuards == UNCHANGED <<findVars, libVars>>
OnlyLibs   == UNCHANGED <<findVars, guardVars>>

----------------------------------------------------------------------------
(* Finding the library, with nothing in scope yet.                           *)

Finding ==
  /\ scope = <<>>
  /\ FindLibraryPath \/ Look \/ OthersChange \/ PathForLibrary
  /\ UNCHANGED <<libVars, guardVars, stackVars>>

----------------------------------------------------------------------------
(* Objects that come into scope.                                            *)

\* SharedLibrary(path), for the path found first and later for others the program
\* knows; when it throws there is no object.
LoadLibrary(o) ==
  /\ ~Searching /\ (path # NotFound \/ scope # <<>>)
  /\ Load(o) /\ path' = NotFound
  /\ IF lib'[o] # Absent THEN Pushes("library", o) ELSE SameScope
  /\ asked' = [asked EXCEPT ![o] = 0]
  /\ UNCHANGED <<env, search, present, was, wasnt, guardVars, target, status>>

CopyLibrary(o, from) ==
  /\ Copy(o, from) /\ Pushes("library", o)
  /\ asked' = [asked EXCEPT ![o] = asked[from]]
  /\ OnlyLibs /\ UNCHANGED <<target, status>>

MakeGuard(g, k, o, kind) ==
  /\ Exists(o)
  /\ MakeScopeExit(g, k, kind) /\ Pushes("guard", g)
  /\ target' = [target EXCEPT ![k] = o]
  /\ OnlyGuards /\ UNCHANGED <<asked, status>>

MoveGuard(g, from) ==
  /\ Move(g, from) /\ Pushes("guard", g)
  /\ OnlyGuards /\ Runs

----------------------------------------------------------------------------
(* Calls on objects in scope.                                               *)

\* A guard does not receive a cleanup of an object that dies before it.
AssignGuard(g, from) ==
  /\ MoveAssign(g, from)
  /\ guard[from].callable_ \in Cleanups =>
       Above(<<"guard", g>>, <<"library", target[guard[from].callable_]>>)
  /\ OnlyGuards /\ Runs /\ SameScope

CancelGuard(g) == Cancel(g) /\ OnlyGuards /\ Runs /\ SameScope

AssignLibrary(o, from) ==
  /\ CopyAssign(o, from)
  /\ asked' = [asked EXCEPT ![o] = asked[from]]
  /\ OnlyLibs /\ SameScope /\ UNCHANGED <<target, status>>

UnloadLibrary(o) ==
  /\ (UnloadReturns(o) \/ UnloadThrows(o)) /\ Asks(o)
  /\ OnlyLibs /\ SameScope /\ UNCHANGED <<target, status>>

UseLibrary ==
  /\ ~Searching
  /\ SetEnvVar \/ GetPlatformLibraryName \/ \E o \in Objs : GetSymbol(o) \/ HasSymbol(o) \/ GetLibraryPath(o)
  /\ OnlyLibs /\ Runs /\ SameScope

\* Any call, the destructor too, on an object whose load was taken back through
\* another one: a handle is closed twice, a buffer freed twice, or used.
UseDangling(o) ==
  /\ Dangling(o)
  /\ status' = "undefined"
  /\ UNCHANGED <<findVars, libVars, guardVars, scope, target, asked, built>>

----------------------------------------------------------------------------
(* The end of the innermost object.                                         *)

Pops(what, x) == scope # <<>> /\ Last(scope) = <<what, x>> /\ scope' = Front(scope) /\ UNCHANGED built

LeaveLibrary(o) ==
  /\ Pops("library", o) /\ Destroy(o)
  /\ asked' = [asked EXCEPT ![o] = 0]
  /\ target' = [k \in Cleanups |-> IF target[k] = o THEN Absent ELSE target[k]]
  /\ OnlyLibs /\ UNCHANGED status

Cleanup(g) == target[guard[g].callable_]

\* The destructor is noexcept: what its callable throws ends the program.
Terminates ==
  /\ status' = "terminated"
  /\ UNCHANGED <<findVars, guardVars, target>>

LeaveGuard(g) ==
  /\ Pops("guard", g)
  /\ \/ ~Calls(g) /\ DestroyGuard(g) /\ OnlyGuards /\ Runs
     \/ CallsNone(g) /\ Terminates /\ UNCHANGED <<libVars, asked>>
     \/ /\ Calls(g) /\ ~CallsNone(g)
        /\ Asks(Cleanup(g))
        /\ \/ UnloadReturns(Cleanup(g)) /\ DestroyGuard(g) /\ UNCHANGED <<findVars, target, status>>
           \/ UnloadThrows(Cleanup(g)) /\ Terminates

----------------------------------------------------------------------------

ClientNext ==
  /\ status = "ok"
  /\ \/ Finding
     \/ \E o \in Objs : LoadLibrary(o) \/ UnloadLibrary(o) \/ UseDangling(o) \/ LeaveLibrary(o)
     \/ \E o, from \in Objs : CopyLibrary(o, from) \/ AssignLibrary(o, from)
     \/ \E g \in Guards, k \in Cleanups, o \in Objs, kind \in Kinds : MakeGuard(g, k, o, kind)
     \/ \E g, from \in Guards : MoveGuard(g, from) \/ AssignGuard(g, from)
     \/ \E g \in Guards : CancelGuard(g) \/ LeaveGuard(g)
     \/ UseLibrary

ClientSpec == ClientInit /\ [][ClientNext]_allVars

----------------------------------------------------------------------------
(* Properties.                                                              *)

\* Loading, guarding and leaving the scope is safe whatever is thrown: a program
\* meets undefined behaviour only after it has copied a SharedLibrary, and ends in
\* the destructor of a guard only after it has moved a guard, has asked an object
\* (or the one it was copied from, and then it) to unload twice, or dlclose has failed.
BadEndsExplained ==
  /\ status = "undefined" => shared # {}
  /\ status = "terminated" => moved # {} \/ failed \/ \E o \in Objs : asked[o] > 1
=============================================================================
