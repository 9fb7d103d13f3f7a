------------------------------ MODULE FileTree ------------------------------
(***************************************************************************)
(* The file system below one base directory, as far as the helpers of       *)
(* rcpputils/filesystem_helper.hpp look at it: a path is the sequence of    *)
(* its components, <<>> is the base, and a tree gives the kind of each path. *)
(* Each system call is an operator: the errno it fails with ("0" when it     *)
(* succeeds) and the tree it leaves.                                         *)
(***************************************************************************)
EXTENDS Naturals, SequencesExt

CONSTANTS
  Names,   \* file names
  Depth    \* bound: the longest path in a tree

ASSUME DepthAssumption == Depth \in Nat \ {0}

Paths == UNION {[1 .. n -> Names] : n \in 1 .. Depth}

Kind(t, p)        == IF p = <<>> THEN "dir" ELSE t[p]
Exists(t, p)      == Kind(t, p) # "absent"
IsDirectory(t, p) == Kind(t, p) = "dir"
IsRegularFile(t, p) == Kind(t, p) = "file"

\* The names readdir would list in directory p, "." and ".." apart.
Children(t, p) == {n \in Names : Append(p, n) \in Paths /\ Exists(t, Append(p, n))}

\* What exists is in a directory.
WellFormed(t) == \A p \in Paths : Exists(t, p) => IsDirectory(t, Front(p))

Trees == {t \in [Paths -> {"absent", "dir", "file"}] : WellFormed(t)}

Ancestry(p) == {SubSeq(p, 1, k) : k \in 1 .. Len(p)}

\* stat, access, opendir and the like on a path that is not there.
LookupErrno(t, p) ==
  IF \E q \in Ancestry(Front(p)) : Kind(t, q) = "file" THEN "ENOTDIR" ELSE "ENOENT"

MkdirErrno(t, p) ==
  CASE Exists(t, p) -> "EEXIST"
    [] ~Exists(t, p) /\ IsDirectory(t, Front(p)) -> "0"
    [] OTHER -> LookupErrno(t, p)

\* remove(3) unlinks a file and removes an empty directory; not the base.
RemoveErrno(t, p) ==
  CASE p = <<>> -> "EBUSY"
    [] p # <<>> /\ ~Exists(t, p) -> LookupErrno(t, p)
    [] p # <<>> /\ Exists(t, p) -> IF Children(t, p) = {} THEN "0" ELSE "ENOTEMPTY"

\* EIO stands for the reasons outside the tree: EACCES, ENOSPC, ELOOP and others.
Errnos == {"0", "EIO", "ENOENT", "ENOTDIR", "EEXIST", "ENOTEMPTY", "EBUSY"}
=============================================================================
