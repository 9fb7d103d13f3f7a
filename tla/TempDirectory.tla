--------------------------- MODULE TempDirectory ---------------------------
(***************************************************************************)
(* rcpputils::fs::create_temporary_directory, called by any number of       *)
(* threads or processes over one parent directory                           *)
(* (src/filesystem_helper.cpp:354-382).                                      *)
(*                                                                          *)
(* A call draws a random suffix and hands the resulting path to              *)
(* std::filesystem::create_directories, which is modelled system call by     *)
(* system call (status, mkdir of a missing parent, mkdir, the is_directory   *)
(* check after EEXIST), so that two calls interleave at every point where    *)
(* the file system can change between them, and each system call may fail    *)
(* for a reason outside the tree (no space, no permission).  Programs that   *)
(* do not use rcpputils create and remove colliding entries at any time, and *)
(* may remove the parent while it is empty.                                  *)
(***************************************************************************)
EXTENDS Naturals

CONSTANTS
  Callers,    \* threads calling create_temporary_directory
  Suffixes,   \* the values of random_suffix_str
  MaxTries,   \* the argument max_tries
  Foreign,    \* "some program that is not a caller", as the maker of an entry
  NoSuffix    \* no suffix drawn / no directory returned

ASSUME MaxTriesAssumption == MaxTries \in Nat
ASSUME ForeignAssumption  == Foreign \notin Callers \union {NoSuffix}
ASSUME NoSuffixAssumption == NoSuffix \notin Suffixes \union Callers

VARIABLES
  parentDir,  \* does parent_path exist (as a directory)?
  entry,      \* entry[s]: what parent_path / (base_name + s) is
  maker,      \* maker[s]: who made that entry (history; NoSuffix when absent)
  madeParent, \* history: did the last call of c make the parent that is there
              \* ("alone": and nobody else has made an entry in it since)?
  pc,         \* where each call is
  suffix,     \* suffix[c]: the suffix of the current round, then of the result
  tries,      \* current_iteration
  error       \* the exception of the last call, "none" when it returned

fs   == <<parentDir, entry, maker, madeParent>>
vars == <<fs, pc, suffix, tries, error>>

\* An entry is nothing, a directory without or with files in it, or a file.
Kinds == {"absent", "empty", "filled", "file"}
IsDirectory(s) == entry[s] \in {"empty", "filled"}

Active == {"draw", "status", "mkparent", "mkdir", "recheck", "count"}
Errors == {"none", "invalid_argument", "system_error", "runtime_error"}

Init ==
  /\ parentDir \in BOOLEAN
  /\ entry \in [Suffixes -> Kinds]
  /\ (\E s \in Suffixes : entry[s] # "absent") => parentDir
  /\ maker = [s \in Suffixes |-> IF entry[s] = "absent" THEN NoSuffix ELSE Foreign]
  /\ madeParent = [c \in Callers |-> "no"]
  /\ pc = [c \in Callers |-> "idle"]
  /\ suffix = [c \in Callers |-> NoSuffix]
  /\ tries = [c \in Callers |-> 0]
  /\ error = [c \in Callers |-> "none"]

Goto(c, label) == pc' = [pc EXCEPT ![c] = label]

\* An exception leaves the function: the caller is idle again.
Throw(c, e) ==
  /\ Goto(c, "idle")
  /\ error' = [error EXCEPT ![c] = e]
  /\ suffix' = [suffix EXCEPT ![c] = NoSuffix]
  /\ tries' = [tries EXCEPT ![c] = 0]

\* A system call of create_directories fails for a reason outside the tree.
Fails(c) == Throw(c, "system_error") /\ UNCHANGED fs

\* m has made an entry in the parent: whoever made the parent is not alone in it.
Entered(m) ==
  madeParent' = [c \in Callers |->
                   IF c # m /\ madeParent[c] = "alone" THEN "used" ELSE madeParent[c]]

----------------------------------------------------------------------------
(* The call.                                                                *)

\* A base_name holding a directory separator is refused.
CallBadName(c) ==
  /\ pc[c] = "idle"
  /\ Throw(c, "invalid_argument")
  /\ madeParent' = [madeParent EXCEPT ![c] = "no"]
  /\ UNCHANGED <<parentDir, entry, maker>>

Call(c) ==
  /\ pc[c] = "idle"
  /\ Goto(c, "draw")
  /\ tries' = [tries EXCEPT ![c] = 0]
  /\ error' = [error EXCEPT ![c] = "none"]
  /\ madeParent' = [madeParent EXCEPT ![c] = "no"]
  /\ UNCHANGED <<parentDir, entry, maker, suffix>>

\* snprintf of a uniform draw; a suffix may be drawn again.
Draw(c) ==
  /\ pc[c] = "draw"
  /\ \E s \in Suffixes : suffix' = [suffix EXCEPT ![c] = s]
  /\ Goto(c, "status")
  /\ UNCHANGED <<fs, tries, error>>

\* (variant) the answer of create_directories is not looked at.
CollidedReturns(c) ==
  /\ Goto(c, "held")
  /\ UNCHANGED <<fs, suffix, tries, error>>

\* create_directories answered false: the directory was there already.
Collided(c) ==
  /\ Goto(c, "count")
  /\ UNCHANGED <<fs, suffix, tries, error>>

\* status(path): a directory is a collision, another file an error.
Status(c) ==
  /\ pc[c] = "status"
  /\ \/ IsDirectory(suffix[c]) /\ Collided(c)
     \/ entry[suffix[c]] = "file" /\ Throw(c, "system_error") /\ UNCHANGED fs
     \/ Fails(c)
     \/ /\ entry[suffix[c]] = "absent"
        /\ Goto(c, IF parentDir THEN "mkdir" ELSE "mkparent")
        /\ UNCHANGED <<fs, suffix, tries, error>>

\* (variant) having made the parent counts as a collision.
MakeParentCollides(c) ==
  /\ pc[c] = "mkparent"
  /\ parentDir' = TRUE
  /\ madeParent' = [madeParent EXCEPT ![c] = IF parentDir THEN @ ELSE "alone"]
  /\ Goto(c, IF parentDir THEN "mkdir" ELSE "count")
  /\ UNCHANGED <<entry, maker, suffix, tries, error>>

\* mkdir(parent_path): made now, or EEXIST and a directory; both go on.
MakeParent(c) ==
  /\ pc[c] = "mkparent"
  /\ \/ /\ parentDir' = TRUE
        /\ madeParent' = [madeParent EXCEPT ![c] = IF parentDir THEN @ ELSE "alone"]
        /\ Goto(c, "mkdir")
        /\ UNCHANGED <<entry, maker, suffix, tries, error>>
     \/ Fails(c)

\* (variant) mkdir replaces whatever is there.
MkdirReplaces(c) ==
  /\ pc[c] = "mkdir" /\ parentDir
  /\ entry' = [entry EXCEPT ![suffix[c]] = "empty"]
  /\ maker' = [maker EXCEPT ![suffix[c]] = c]
  /\ Entered(c)
  /\ Goto(c, "held")
  /\ UNCHANGED <<parentDir, suffix, tries, error>>

\* (variant) the answer of the last mkdir is lost: another round follows.
MkdirAnswersFalse(c) ==
  /\ pc[c] = "mkdir" /\ parentDir /\ entry[suffix[c]] = "absent"
  /\ entry' = [entry EXCEPT ![suffix[c]] = "empty"]
  /\ maker' = [maker EXCEPT ![suffix[c]] = c]
  /\ Entered(c)
  /\ Goto(c, "count")
  /\ UNCHANGED <<parentDir, suffix, tries, error>>

\* mkdir(path) is atomic: it makes the entry, or fails with EEXIST, or with
\* ENOENT when the parent has gone.  Making it ends the loop and the call.
Mkdir(c) ==
  /\ pc[c] = "mkdir"
  /\ \/ /\ ~parentDir
        /\ Throw(c, "system_error")
        /\ UNCHANGED fs
     \/ Fails(c)
     \/ /\ parentDir /\ entry[suffix[c]] = "absent"
        /\ entry' = [entry EXCEPT ![suffix[c]] = "empty"]
        /\ maker' = [maker EXCEPT ![suffix[c]] = c]
        /\ Entered(c)
        /\ Goto(c, "held")
        /\ UNCHANGED <<parentDir, suffix, tries, error>>
     \/ /\ parentDir /\ entry[suffix[c]] # "absent"
        /\ Goto(c, "recheck")
        /\ UNCHANGED <<fs, suffix, tries, error>>

\* After EEXIST: answer false if it is a directory, throw if it is not.
Recheck(c) ==
  /\ pc[c] = "recheck"
  /\ \/ IsDirectory(suffix[c]) /\ Collided(c)
     \/ ~IsDirectory(suffix[c]) /\ Throw(c, "system_error") /\ UNCHANGED fs
     \/ Fails(c)

\* (variant) the limit is not looked at.
CountUnlimited(c) ==
  /\ pc[c] = "count"
  /\ tries' = [tries EXCEPT ![c] = @ + 1]
  /\ Goto(c, "draw")
  /\ UNCHANGED <<fs, suffix, error>>

\* (variant) the counter is not advanced.
CountForgets(c) ==
  /\ pc[c] = "count"
  /\ Goto(c, "draw")
  /\ UNCHANGED <<fs, suffix, tries, error>>

\* if (current_iteration == max_tries) throw; current_iteration++
Count(c) ==
  /\ pc[c] = "count"
  /\ UNCHANGED fs
  /\ \/ tries[c] = MaxTries /\ Throw(c, "runtime_error")
     \/ /\ tries[c] # MaxTries
        /\ tries' = [tries EXCEPT ![c] = @ + 1]
        /\ Goto(c, "draw")
        /\ UNCHANGED <<suffix, error>>

CallStep(c) ==
  \/ Draw(c) \/ Status(c) \/ MakeParent(c) \/ Mkdir(c) \/ Recheck(c) \/ Count(c)

----------------------------------------------------------------------------
(* The clients, and the rest of the machine.                                *)

\* The owner of a returned directory puts files into it,
Fill(c) ==
  /\ pc[c] = "held"
  /\ entry[suffix[c]] = "empty"
  /\ entry' = [entry EXCEPT ![suffix[c]] = "filled"]
  /\ UNCHANGED <<parentDir, maker, madeParent, pc, suffix, tries, error>>

\* and finally removes it with everything in it.
Discard(c) ==
  /\ pc[c] = "held"
  /\ entry' = [entry EXCEPT ![suffix[c]] = "absent"]
  /\ maker' = [maker EXCEPT ![suffix[c]] = NoSuffix]
  /\ Goto(c, "idle")
  /\ suffix' = [suffix EXCEPT ![c] = NoSuffix]
  /\ tries' = [tries EXCEPT ![c] = 0]
  /\ UNCHANGED <<parentDir, madeParent, error>>

ForeignMake(s) ==
  /\ parentDir /\ entry[s] = "absent"
  /\ \E k \in Kinds \ {"absent"} : entry' = [entry EXCEPT ![s] = k]
  /\ maker' = [maker EXCEPT ![s] = Foreign]
  /\ Entered(Foreign)
  /\ UNCHANGED <<parentDir, pc, suffix, tries, error>>

\* Other programs remove what they made, never a caller's directory.
ForeignRemove(s) ==
  /\ maker[s] = Foreign
  /\ entry' = [entry EXCEPT ![s] = "absent"]
  /\ maker' = [maker EXCEPT ![s] = NoSuffix]
  /\ UNCHANGED <<parentDir, madeParent, pc, suffix, tries, error>>

ForeignRemoveParent ==
  /\ parentDir
  /\ \A s \in Suffixes : entry[s] = "absent"
  /\ parentDir' = FALSE
  /\ madeParent' = [c \in Callers |-> "no"]
  /\ UNCHANGED <<entry, maker, pc, suffix, tries, error>>

Environment ==
  \/ \E s \in Suffixes : ForeignMake(s) \/ ForeignRemove(s)
  \/ ForeignRemoveParent

Next ==
  \/ \E c \in Callers :
       CallBadName(c) \/ Call(c) \/ CallStep(c) \/ Fill(c) \/ Discard(c)
  \/ Environment

Spec == Init /\ [][Next]_vars

\* A thread inside the call is eventually scheduled; nothing obliges a client
\* to call, to discard its directory, or other programs to do anything.
FairSpec == Spec /\ \A c \in Callers : WF_vars(CallStep(c))

----------------------------------------------------------------------------
(* Properties.                                                              *)

TypeOK ==
  /\ parentDir \in BOOLEAN
  /\ entry \in [Suffixes -> Kinds]
  /\ maker \in [Suffixes -> Callers \union {Foreign, NoSuffix}]
  /\ madeParent \in [Callers -> {"no", "alone", "used"}]
  /\ pc \in [Callers -> Active \union {"idle", "held"}]
  /\ suffix \in [Callers -> Suffixes \union {NoSuffix}]
  /\ tries \in [Callers -> 0 .. MaxTries]
  /\ error \in [Callers -> Errors]

\* No two calls hold the same directory, whatever other callers and other
\* programs do between the status check and the mkdir of each of them.
Exclusive ==
  \A c, d \in Callers :
    pc[c] = "held" /\ pc[d] = "held" /\ suffix[c] = suffix[d] => c = d

\* Of the directories base_name + suffix, the calls have made exactly the ones
\* they returned: a call that throws, or gives up a round, leaves none of them
\* behind, and a returned directory is one the call made itself, not one it found.
\* (The parent is another matter: see ParentLeft.)
MadeIffReturned ==
  \A c \in Callers, s \in Suffixes :
    maker[s] = c <=> pc[c] = "held" /\ suffix[c] = s

\* What create_directories does before its last mkdir fails is not undone: a call
\* that throws may leave the parent it has made.  It leaves one that nobody else
\* has put anything into only when a system call has failed (std::system_error),
\* and never because the tries were used up or the name was refused: as long as
\* the call is alone in the parent it has made, its next mkdir is the last one.
ParentLeft ==
  \A c \in Callers :
    madeParent[c] = "alone" =>
      \/ pc[c] \in {"mkdir", "held"}
      \/ pc[c] = "idle" /\ error[c] \in {"none", "system_error"}

\* Only the environment changes an entry some other program made: no call, at
\* any point of its race with that program, replaces or removes it.
ForeignUntouched ==
  [][\A s \in Suffixes :
       maker[s] = Foreign /\ entry'[s] # entry[s] => maker'[s] = NoSuffix /\ pc' = pc]_vars

\* Every call returns or throws: the retries end even if every suffix drawn
\* is taken, for ever, by somebody else.
CallEnds ==
  \A c \in Callers : pc[c] \in Active ~> pc[c] \in {"held", "idle"}

----------------------------------------------------------------------------
(* The promise: names held by one client at a time.                         *)

Allocator == INSTANCE NameAllocator WITH
  Clients <- Callers, Names <- Suffixes, NoName <- NoSuffix,
  held <- [c \in Callers |-> IF pc[c] = "held" THEN suffix[c] ELSE NoSuffix]

\* Drawing, colliding, retrying and failing are invisible to the clients: what
\* they see is an allocator that hands out names nobody holds.
ImplementsAllocator == Allocator!Spec
=============================================================================
