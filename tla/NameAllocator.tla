--------------------------- MODULE NameAllocator ---------------------------
(***************************************************************************)
(* What rcpputils::fs::create_temporary_directory and create_temp_directory *)
(* promise (filesystem_helper.hpp:290-292, 306-309): a client that is given *)
(* a directory name holds that name alone until it gives it back.           *)
(***************************************************************************)

CONSTANTS
  Clients,   \* threads or processes asking for a temporary directory
  Names,     \* the directory names base_name + suffix
  NoName     \* what a client holds when it holds no directory; not a name

VARIABLE held   \* held[c]: the name c was given, or NoName

Init == held = [c \in Clients |-> NoName]

\* One client obtains a name nobody holds.
Acquire(c, n) ==
  /\ held[c] = NoName
  /\ \A d \in Clients : held[d] # n
  /\ held' = [held EXCEPT ![c] = n]

\* A client gives its name back (it removed the directory).
Release(c) ==
  /\ held[c] # NoName
  /\ held' = [held EXCEPT ![c] = NoName]

Next ==
  \E c \in Clients :
    \/ \E n \in Names : Acquire(c, n)
    \/ Release(c)

Spec == Init /\ [][Next]_held
=============================================================================
