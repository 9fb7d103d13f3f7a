--------------------------- MODULE SharedLibrary ---------------------------
(***************************************************************************)
(* The class rcpputils::SharedLibrary (src/shared_library.cpp) over the     *)
(* functions of rcutils it calls.  A load is what rcutils_load_shared_library *)
(* hands out: one reference of the dynamic loader and the buffer of          *)
(* library_path.  The class declares no copy constructor and no copy         *)
(* assignment, so that the compiler makes them, member by member.           *)
(***************************************************************************)
EXTENDS Naturals, FiniteSets

CONSTANTS
  Objs,    \* places of SharedLibrary objects
  Loads    \* loads there may be at a time

VARIABLES
  lib,      \* lib[o]: the load object o refers to, Unloaded, or Absent
  open,     \* the loads rcutils has handed out and not taken back
  error,    \* the message rcutils keeps for this thread: Pending, or NoMessage
  told,     \* history: how the caller got to know of the last error: by an exception
            \* or on std::cerr with the message, or by std::bad_alloc, without
  shared,   \* history: loads more than one object has referred to
  dropped,  \* history: loads a copy assignment may have overwritten
  failed    \* history: has dlclose failed?

loads    == <<open, shared, dropped, failed>>
messages == <<error, told>>
libVars  == <<lib, open, error, told, shared, dropped, failed>>

Unloaded  == "unloaded"
Absent    == "absent"
NoMessage == "no message"
Pending   == "pending"

ASSUME LoadsAssumption == {Unloaded, Absent} \intersect Loads = {}

Held(o)   == lib[o] \in Loads
Exists(o) == lib[o] # Absent

LibraryInit ==
  /\ lib = [o \in Objs |-> Absent]
  /\ open = {} /\ shared = {} /\ dropped = {}
  /\ error = NoMessage /\ told = "none" /\ failed = FALSE

\* The call goes well, and rcutils has nothing to say.
Succeeds == UNCHANGED messages

\* rcutils sets its message; rcutils_get_error_string, rcutils_reset_error, and the
\* message is thrown in a std::runtime_error or, by the destructor, printed.
Reported == error' = NoMessage /\ told' = "message"

Put(o, l) == lib' = [lib EXCEPT ![o] = l]
Forget(l) == shared' = shared \ {l} /\ dropped' = dropped \ {l}

\* (variant) the answer of rcutils is not looked at.
LoadUnchecked(o) ==
  /\ lib[o] = Absent
  /\ \/ \E l \in Loads \ (open \union {lib[p] : p \in Objs}) :
          Put(o, l) /\ open' = open \union {l} /\ Forget(l)
     \/ Put(o, Unloaded) /\ UNCHANGED <<open, shared, dropped>>
  /\ Succeeds
  /\ UNCHANGED failed

\* SharedLibrary(library_path): std::bad_alloc leaves the message behind.
Load(o) ==
  /\ lib[o] = Absent
  /\ \/ \E l \in Loads \ (open \union {lib[p] : p \in Objs}) :
          /\ Put(o, l) /\ open' = open \union {l} /\ Forget(l)
          /\ Succeeds
     \/ error' = Pending /\ told' = "bad_alloc" /\ UNCHANGED <<lib, open, shared, dropped>>
     \/ Reported /\ UNCHANGED <<lib, open, shared, dropped>>
  /\ UNCHANGED failed

\* It works on a load that is not open any more.
Dangling(o) == Held(o) /\ lib[o] \notin open

\* rcutils_unload_shared_library takes the load of o back; the pointer and the
\* path of o, and of no other object, become null.  dlclose may fail.
Unloads(o, left) ==
  /\ Held(o) /\ ~Dangling(o)
  /\ Put(o, left)
  /\ open' = open \ {lib[o]}
  /\ UNCHANGED <<shared, dropped>>

\* unload_library(): without a library rcutils reports an error.
UnloadReturns(o) == Unloads(o, Unloaded) /\ Succeeds /\ UNCHANGED failed
UnloadThrows(o) ==
  /\ \/ Unloads(o, Unloaded) /\ failed' = TRUE
     \/ lib[o] = Unloaded /\ UNCHANGED <<lib, loads>>
  /\ Reported

\* (variant) the destructor leaves the unloading to unload_library.
DestroyOnly(o) ==
  /\ Exists(o) /\ ~Dangling(o)
  /\ Put(o, Absent)
  /\ Succeeds
  /\ UNCHANGED loads

\* (variant) the destructor prints an error, and does not reset it.
DestroyPrints(o) ==
  /\ Exists(o) /\ ~Dangling(o)
  /\ \/ Unloads(o, Absent) /\ UNCHANGED failed /\ Succeeds
     \/ Unloads(o, Absent) /\ failed' = TRUE /\ error' = Pending /\ told' = "message"
     \/ ~Held(o) /\ Put(o, Absent) /\ UNCHANGED loads /\ Succeeds

\* ~SharedLibrary(): an error is printed and reset.
Destroy(o) ==
  /\ Exists(o) /\ ~Dangling(o)
  /\ \/ Unloads(o, Absent) /\ UNCHANGED failed /\ Succeeds
     \/ Unloads(o, Absent) /\ failed' = TRUE /\ Reported
     \/ ~Held(o) /\ Put(o, Absent) /\ UNCHANGED loads /\ Succeeds

\* get_symbol(): a null pointer from rcutils is thrown as an error.
GetSymbol(o) ==
  /\ Exists(o) /\ ~Dangling(o)
  /\ Reported \/ (Held(o) /\ Succeeds)
  /\ UNCHANGED <<lib, loads>>

\* has_symbol() and get_library_path(): no message of rcutils is involved.
HasSymbol(o) ==
  /\ Exists(o) /\ ~Dangling(o)
  /\ UNCHANGED libVars

GetLibraryPath(o) ==
  /\ Exists(o) /\ ~Dangling(o)
  /\ UNCHANGED libVars

\* get_platform_library_name(): rcutils refuses names that do not fit 1024 bytes.
GetPlatformLibraryName ==
  /\ Succeeds \/ Reported
  /\ UNCHANGED <<lib, loads>>

\* set_env_var() of src/env.cpp, which shares the error state.
SetEnvVar ==
  /\ Succeeds \/ Reported
  /\ UNCHANGED <<lib, loads>>

\* SharedLibrary(from), which std::move also calls, and o = from.
Copy(o, from) ==
  /\ lib[o] = Absent /\ Exists(from)
  /\ Put(o, lib[from])
  /\ shared' = shared \union ({lib[from]} \intersect Loads)
  /\ Succeeds
  /\ UNCHANGED <<open, dropped, failed>>

CopyAssign(o, from) ==
  /\ Exists(o) /\ Exists(from) /\ o # from
  /\ Put(o, lib[from])
  /\ shared' = shared \union ({lib[from]} \intersect Loads)
  /\ dropped' = dropped \union ({lib[o]} \intersect Loads)
  /\ Succeeds
  /\ UNCHANGED <<open, failed>>

----------------------------------------------------------------------------
(* Properties.                                                              *)

LibraryTypeOK ==
  /\ lib \in [Objs -> Loads \union {Unloaded, Absent}]
  /\ open \subseteq Loads /\ shared \subseteq Loads /\ dropped \subseteq Loads
  /\ error \in {NoMessage, Pending} /\ told \in {"none", "message", "bad_alloc"}
  /\ failed \in BOOLEAN

\* What loading, unloading, copying and assigning leave, whatever was thrown before.
\* What an object refers to is loaded, so that its symbols can be used, unless it
\* is a copy or was copied; and what is loaded has an object that will unload it,
\* unless a copy assignment has overwritten one that referred to it.
ResourcesAccounted ==
  /\ \A o \in Objs : Held(o) /\ lib[o] \notin shared => lib[o] \in open
  /\ \A l \in open \ dropped : \E o \in Objs : lib[o] = l

\* A message is left with rcutils exactly when the last error of the thread was a
\* std::bad_alloc of the constructor, which does not reset it: any other call that
\* fails takes its own message away, and with it one left by an older call, so
\* that code that looks for a message later finds no error the caller was told of.
MessagesTaken == error = Pending <=> told = "bad_alloc"
=============================================================================
