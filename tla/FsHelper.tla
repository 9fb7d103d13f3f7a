------------------------------ MODULE FsHelper ------------------------------
(***************************************************************************)
(* create_directories, create_temp_directory, remove, remove_all, file_size *)
(* and is_regular_file of rcpputils::fs (src/filesystem_helper.cpp), called *)
(* by several processes on one file system.  A step is one system call with *)
(* the code up to the next one, so that calls interleave wherever the       *)
(* kernel lets them.  A system call may also fail for a reason outside the  *)
(* tree.                                                                    *)
(*                                                                          *)
(* remove_all is recursive: stack[c] holds one frame per invocation, with   *)
(* the directory it works on and what its DIR stream has yet to list.       *)
(***************************************************************************)
EXTENDS FileTree

CONSTANTS
  Callers,   \* processes
  Ops,       \* the operations they call, among those of AllOps
  MaxOpen,   \* RLIMIT_NOFILE: DIR streams a process may have open
  MaxCalls,  \* bound: calls one process makes
  MaxFaults  \* bound: kinds of system call that fail in one call for no reason
             \* in the tree

AllOps == {"create_directories", "create_temp_directory", "remove", "remove_all",
           "file_size", "is_regular_file"}

ASSUME OpsAssumption     == Ops \subseteq AllOps
ASSUME MaxOpenAssumption == MaxOpen \in Nat
ASSUME MaxCallsAssumption == MaxCalls \in Nat
ASSUME MaxFaultsAssumption == MaxFaults \in Nat

VARIABLES
  tree,     \* the file system
  pc,       \* the next system call of each caller
  op, arg,  \* the operation a caller is in, or was last in, and its path
  pos,      \* create_directories: components of arg in p_built
  stack,    \* remove_all: frames, the innermost invocation last
  result,   \* what the last call returned or threw
  temp,     \* the directory the last create_temp_directory returned
  errno,    \* errno of the process
  open,     \* DIR streams the process has open
  trouble,  \* history: what has failed during the call for no reason in the tree
  seen,     \* history: what others did to the tree during and after the call
  found,    \* history: what was at arg when it was called
  opened,   \* history: open when it was called
  count     \* calls made

call == <<op, arg, found, opened, count>>
vars  == <<tree, pc, op, arg, pos, stack, result, temp, errno, open, trouble, seen, found, opened, count>>

\* readdir also lists "." and ".."; one name, no file's, stands for both.
Dots == "dots"

ASSUME DotsAssumption == Dots \notin Names

CreateLabels == {"cd_exists", "cd_mkdir", "cd_isdir", "cd_fail"}
RemoveLabels == {"isdir", "plain", "opendir", "readdir", "subdir", "subremove", "rmself", "gone"}
AskLabels    == {"fs_isdir", "fs_stat", "isreg"}
Running      == CreateLabels \union RemoveLabels \union AskLabels \union {"mkdtemp", "remove"}

\* What a caller of remove_all can find at p.
Find(p) ==
  CASE ~Exists(tree, p) -> "absent"
    [] Exists(tree, p) ->
         IF \E n \in Children(tree, p) : IsDirectory(tree, Append(p, n)) THEN "nested" ELSE "flat"

Init ==
  /\ tree \in Trees
  /\ pc = [c \in Callers |-> "idle"]
  /\ op = [c \in Callers |-> "none"]
  /\ arg = [c \in Callers |-> <<>>]
  /\ pos = [c \in Callers |-> 0]
  /\ stack = [c \in Callers |-> <<>>]
  /\ result = [c \in Callers |-> "none"]
  /\ temp = [c \in Callers |-> <<>>]
  /\ errno = [c \in Callers |-> "0"]
  /\ open = [c \in Callers |-> 0]
  /\ trouble = [c \in Callers |-> {}]
  /\ seen = [c \in Callers |-> {}]
  /\ found = [c \in Callers |-> "absent"]
  /\ opened = [c \in Callers |-> 0]
  /\ count = [c \in Callers |-> 0]

Goto(c, label) == pc' = [pc EXCEPT ![c] = label]

\* errno after a system call: untouched by one that succeeds.
SetErrno(c, e) == errno' = [errno EXCEPT ![c] = IF e = "0" THEN @ ELSE e]

\* Kinds of system call: "look" is stat and access, "list" opendir and readdir,
\* "change" mkdir, mkdtemp and remove.
Fails(c, what) ==
  /\ Cardinality(trouble[c] \union {what}) <= MaxFaults
  /\ trouble' = [trouble EXCEPT ![c] = @ \union {what}]

\* A call that changes the tree ends with errno e: what the tree says, or EIO.
Outcome(c, e, expected) ==
  \/ e = expected /\ UNCHANGED trouble
  \/ e = "EIO" /\ Fails(c, "change")

\* stat or access of p fails.
Missing(c, p) ==
  \/ ~Exists(tree, p) /\ SetErrno(c, LookupErrno(tree, p)) /\ UNCHANGED trouble
  \/ SetErrno(c, "EIO") /\ Fails(c, "look")

\* exists, is_directory and is_regular_file of p: what a failing call leaves
\* unknown is answered with false.
Asked(c, p, fact, b) ==
  \/ Exists(tree, p) /\ b = fact /\ UNCHANGED <<errno, trouble>>
  \/ ~b /\ Missing(c, p)

\* The others take note of what c does, during their call or after it.
Noticed(c, during, after) ==
  seen' = [d \in Callers |-> IF d = c THEN seen[d]
                             ELSE seen[d] \union {IF pc[d] = "idle" THEN after ELSE during}]
Made(c, p)    == tree' = [tree EXCEPT ![p] = "dir"] /\ Noticed(c, "made", "made after")
Removed(c, p) == tree' = [tree EXCEPT ![p] = "absent"] /\ Noticed(c, "removed", "removed after")
SameTree      == UNCHANGED <<tree, seen>>

\* The call returns v; the automatic variables of its frames are gone.
Return(c, v) ==
  /\ Goto(c, "idle")
  /\ result' = [result EXCEPT ![c] = v]
  /\ stack' = [stack EXCEPT ![c] = <<>>]
  /\ pos' = [pos EXCEPT ![c] = 0]

Verdict(b) == IF b THEN "true" ELSE "false"

\* std::error_code ec{errno}; errno = 0; throw std::system_error(ec): the code
\* may be that of an earlier failure, or 0.
Throw(c) ==
  /\ Return(c, IF errno[c] = "0" THEN "threw success" ELSE "threw error")
  /\ errno' = [errno EXCEPT ![c] = "0"]

----------------------------------------------------------------------------
(* The calls.                                                               *)

Begin(c, o, p) ==
  /\ pc[c] = "idle" /\ o \in Ops /\ count[c] < MaxCalls
  /\ count' = [count EXCEPT ![c] = @ + 1]
  /\ op' = [op EXCEPT ![c] = o]
  /\ arg' = [arg EXCEPT ![c] = p]
  /\ result' = [result EXCEPT ![c] = "none"]
  /\ temp' = [temp EXCEPT ![c] = <<>>]
  /\ trouble' = [trouble EXCEPT ![c] = {}]
  /\ seen' = [seen EXCEPT ![c] = {}]
  /\ found' = [found EXCEPT ![c] = Find(p)]
  /\ opened' = [opened EXCEPT ![c] = open[c]]
  /\ UNCHANGED <<tree, errno, open>>

CallCreate(c) ==
  \E o \in {"create_directories", "create_temp_directory"}, p \in Paths \union {<<>>} :
    /\ o = "create_temp_directory" => Len(p) < Depth
    /\ Begin(c, o, p)
    /\ Goto(c, IF p = <<>> THEN "cd_isdir" ELSE "cd_exists")
    /\ pos' = [pos EXCEPT ![c] = 1]
    /\ UNCHANGED stack

CallRemove(c) ==
  \E p \in Paths : Begin(c, "remove", p) /\ Goto(c, "remove") /\ UNCHANGED <<pos, stack>>

\* left: what was there at opendir and has not been listed; sub: the entry being
\* removed.
Frame(p) == [dir |-> p, left |-> {}, sub |-> Dots]

CallRemoveAll(c) ==
  \E p \in Paths :
    /\ Begin(c, "remove_all", p)
    /\ Goto(c, "isdir")
    /\ stack' = [stack EXCEPT ![c] = <<Frame(p)>>]
    /\ UNCHANGED pos

CallAsk(c) ==
  \E p \in Paths :
    /\ \/ Begin(c, "file_size", p) /\ Goto(c, "fs_isdir")
       \/ Begin(c, "is_regular_file", p) /\ Goto(c, "isreg")
    /\ UNCHANGED <<pos, stack>>

----------------------------------------------------------------------------
(* create_directories.                                                      *)

Built(c) == SubSeq(arg[c], 1, pos[c])   \* p_built

\* ++it, or out of the loop.
NextComponent(c) ==
  /\ Goto(c, IF pos[c] = Len(arg[c]) THEN "cd_isdir" ELSE "cd_exists")
  /\ pos' = [pos EXCEPT ![c] = IF @ = Len(arg[c]) THEN @ ELSE @ + 1]

CreateExists(c) ==
  /\ pc[c] = "cd_exists"
  /\ \E b \in BOOLEAN :
       /\ Asked(c, Built(c), Exists(tree, Built(c)), b)
       /\ IF b THEN NextComponent(c) ELSE Goto(c, "cd_mkdir") /\ UNCHANGED pos
  /\ SameTree
  /\ UNCHANGED <<call, stack, result, temp, open>>

\* create_directories answers b: to the client, or to create_temp_directory.
CreateAnswers(c, b) ==
  \/ op[c] = "create_directories" /\ Return(c, Verdict(b)) /\ UNCHANGED errno
  \/ /\ op[c] = "create_temp_directory" /\ b
     /\ Goto(c, "mkdtemp")
     /\ UNCHANGED <<pos, stack, result, errno>>
  \/ op[c] = "create_temp_directory" /\ ~b /\ Throw(c)

\* (variant) a component somebody else has just made is an error.
CreateMkdirStrict(c) ==
  /\ pc[c] = "cd_mkdir"
  /\ \E e \in Errnos :
       /\ Outcome(c, e, MkdirErrno(tree, Built(c)))
       /\ SetErrno(c, e)
       /\ \/ e = "0" /\ Made(c, Built(c)) /\ NextComponent(c)
          \/ e # "0" /\ SameTree /\ Goto(c, "cd_fail") /\ UNCHANGED pos
  /\ UNCHANGED <<call, stack, result, temp, open>>

\* (variant) errno is reset once it has been compared with EEXIST.
CreateMkdirResets(c) ==
  /\ pc[c] = "cd_mkdir"
  /\ \E e \in Errnos :
       /\ Outcome(c, e, MkdirErrno(tree, Built(c)))
       /\ errno' = [errno EXCEPT ![c] = "0"]
       /\ \/ e = "0" /\ Made(c, Built(c)) /\ NextComponent(c)
          \/ e = "EEXIST" /\ SameTree /\ NextComponent(c)
          \/ e \notin {"0", "EEXIST"} /\ SameTree /\ Goto(c, "cd_fail") /\ UNCHANGED pos
  /\ UNCHANGED <<call, stack, result, temp, open>>

\* mkdir; if (status == -1 && errno == EEXIST) status = 0.  Another failure
\* ends the loop, and status == 0 && ... makes the answer false.
CreateMkdir(c) ==
  /\ pc[c] = "cd_mkdir"
  /\ \E e \in Errnos :
       /\ Outcome(c, e, MkdirErrno(tree, Built(c)))
       /\ SetErrno(c, e)
       /\ \/ e = "0" /\ Made(c, Built(c)) /\ NextComponent(c)
          \/ e = "EEXIST" /\ SameTree /\ NextComponent(c)
          \/ e \notin {"0", "EEXIST"} /\ SameTree /\ Goto(c, "cd_fail") /\ UNCHANGED pos
  /\ UNCHANGED <<call, stack, result, temp, open>>

CreateFail(c) ==
  /\ pc[c] = "cd_fail"
  /\ CreateAnswers(c, FALSE)
  /\ SameTree
  /\ UNCHANGED <<call, temp, open, trouble>>

\* return status == 0 && p_built.is_directory()
CreateIsDirectory(c) ==
  /\ pc[c] = "cd_isdir"
  /\ \/ Exists(tree, arg[c]) /\ CreateAnswers(c, IsDirectory(tree, arg[c])) /\ UNCHANGED trouble
     \/ Missing(c, arg[c]) /\ Goto(c, "cd_fail") /\ UNCHANGED <<pos, stack, result>>
  /\ SameTree
  /\ UNCHANGED <<call, temp, open>>

\* (variant) the name is not checked to be free.
MkdtempReuses(c) ==
  /\ pc[c] = "mkdtemp"
  /\ IsDirectory(tree, arg[c])
  /\ \E n \in Names :
       /\ Made(c, Append(arg[c], n))
       /\ temp' = [temp EXCEPT ![c] = Append(arg[c], n)]
  /\ Return(c, "true")
  /\ UNCHANGED <<call, errno, open, trouble>>

\* mkdtemp tries names until one is free.
Mkdtemp(c) ==
  /\ pc[c] = "mkdtemp"
  /\ LET free == {n \in Names : ~Exists(tree, Append(arg[c], n))}
     IN  \/ /\ IsDirectory(tree, arg[c])
            /\ \E n \in free :
                 /\ Made(c, Append(arg[c], n))
                 /\ temp' = [temp EXCEPT ![c] = Append(arg[c], n)]
            /\ Return(c, "true")
            /\ UNCHANGED <<errno, trouble>>
         \/ /\ \/ (~IsDirectory(tree, arg[c]) \/ free = {}) /\ UNCHANGED trouble
               \/ Fails(c, "change")
            /\ Return(c, "threw error")
            /\ errno' = [errno EXCEPT ![c] = "0"]
            /\ SameTree /\ UNCHANGED temp
  /\ UNCHANGED <<call, open>>

----------------------------------------------------------------------------
(* remove and remove_all.                                                   *)

\* ::remove(p), which fails with errno e.
RemoveCall(c, p, e) ==
  /\ Outcome(c, e, RemoveErrno(tree, p))
  /\ IF e = "0" THEN Removed(c, p) ELSE SameTree
  /\ SetErrno(c, e)

RemoveOne(c) ==
  /\ pc[c] = "remove"
  /\ \E e \in Errnos : RemoveCall(c, arg[c], e) /\ Return(c, Verdict(e = "0"))
  /\ UNCHANGED <<call, temp, open>>

Top(c)     == Last(stack[c])
SubPath(c) == IF Top(c).sub = Dots THEN Front(Top(c).dir) ELSE Append(Top(c).dir, Top(c).sub)

SetTop(c, frame) == stack' = [stack EXCEPT ![c] = Append(Front(@), frame)]

\* The innermost remove_all answers b.  In its caller, false is returned at
\* once, all the way up; after true the code still calls remove(sub_path).
RemoveAllAnswers(c, b) ==
  \/ /\ ~b \/ Len(stack[c]) = 1
     /\ Return(c, Verdict(b))
  \/ /\ b /\ Len(stack[c]) > 1
     /\ stack' = [stack EXCEPT ![c] = Front(@)]
     /\ Goto(c, "subremove")
     /\ UNCHANGED <<pos, result>>

\* (variant) the directory check is missing.
IsDirAssumed(c) ==
  /\ pc[c] = "isdir"
  /\ Goto(c, "opendir")
  /\ SameTree
  /\ UNCHANGED <<call, pos, stack, result, temp, errno, open, trouble>>

\* if (!is_directory(p))
IsDir(c) ==
  /\ pc[c] = "isdir"
  /\ \E b \in BOOLEAN :
       /\ Asked(c, Top(c).dir, IsDirectory(tree, Top(c).dir), b)
       /\ Goto(c, IF b THEN "opendir" ELSE "plain")
  /\ SameTree
  /\ UNCHANGED <<call, pos, stack, result, temp, open>>

\*   return remove(p);
PlainRemove(c) ==
  /\ pc[c] = "plain"
  /\ \E e \in Errnos : RemoveCall(c, Top(c).dir, e) /\ RemoveAllAnswers(c, e = "0")
  /\ UNCHANGED <<call, temp, open>>

\* opendir(p).  It answers NULL when p is not a directory any more, when the
\* process has no descriptor left, or when it may not be read; the code hands the
\* NULL to readdir, which kills the process.
Opendir(c) ==
  /\ pc[c] = "opendir"
  /\ \/ /\ IsDirectory(tree, Top(c).dir) /\ open[c] < MaxOpen
        /\ open' = [open EXCEPT ![c] = @ + 1]
        /\ SetTop(c, [Top(c) EXCEPT !.left = Children(tree, Top(c).dir) \union {Dots}])
        /\ Goto(c, "readdir")
        /\ UNCHANGED trouble
     \/ /\ \/ (~IsDirectory(tree, Top(c).dir) \/ open[c] = MaxOpen) /\ UNCHANGED trouble
           \/ Fails(c, "list")
        /\ Goto(c, "crashed")
        /\ open' = [open EXCEPT ![c] = 0]
        /\ stack' = [stack EXCEPT ![c] = <<>>]
  /\ SameTree
  /\ UNCHANGED <<call, pos, result, temp, errno>>

\* Is name n still in the directory the stream reads?
Listed(c, n) == IF n = Dots THEN IsDirectory(tree, Top(c).dir)
                ELSE Exists(tree, Append(Top(c).dir, n))

\* What the next readdir may list: also what others have made since opendir, of
\* which POSIX says that it may or may not be listed.  (What is in the directory and
\* was listed before has been made since: a call that could not remove it is over.)
Listable(c) == Top(c).left \union Children(tree, Top(c).dir)

ReadNull(c) ==
  /\ pc[c] = "readdir"
  /\ \A n \in Top(c).left : ~Listed(c, n)
  /\ Goto(c, "rmself")

\* (variant) "." and ".." are not skipped.
ReaddirDots(c) ==
  /\ \/ /\ pc[c] = "readdir"
        /\ \E n \in Listable(c) : SetTop(c, [Top(c) EXCEPT !.left = @ \ {n}, !.sub = n])
        /\ Goto(c, "subdir")
        /\ UNCHANGED open
     \/ ReadNull(c) /\ open' = [open EXCEPT ![c] = @ - 1] /\ UNCHANGED stack
  /\ SameTree
  /\ UNCHANGED <<call, pos, result, temp, errno, trouble>>

\* (variant) closedir is forgotten.
ReaddirLeaks(c) ==
  /\ \/ /\ pc[c] = "readdir"
        /\ \E n \in Listable(c) :
             /\ SetTop(c, [Top(c) EXCEPT !.left = @ \ {n}, !.sub = n])
             /\ Goto(c, IF n = Dots THEN "readdir" ELSE "subdir")
     \/ ReadNull(c) /\ UNCHANGED stack
  /\ SameTree
  /\ UNCHANGED <<call, pos, result, temp, errno, open, trouble>>

\* (variant) the stream is rewound before each entry.
ReaddirRewinds(c) ==
  /\ \/ /\ pc[c] = "readdir"
        /\ \E n \in Listable(c) :
             /\ SetTop(c, [Top(c) EXCEPT !.sub = n])
             /\ Goto(c, IF n = Dots THEN "readdir" ELSE "subdir")
        /\ UNCHANGED open
     \/ ReadNull(c) /\ open' = [open EXCEPT ![c] = @ - 1] /\ UNCHANGED stack
  /\ SameTree
  /\ UNCHANGED <<call, pos, result, temp, errno, trouble>>

\* readdir: an entry not listed yet, in any order (one removed or made since
\* opendir may or may not be listed), or NULL and then closedir.  The code does
\* not tell the end of the listing from a failure.
Readdir(c) ==
  /\ pc[c] = "readdir"
  /\ \/ \E n \in Listable(c) :
          /\ SetTop(c, [Top(c) EXCEPT !.left = @ \ {n}, !.sub = n])
          /\ Goto(c, IF n = Dots THEN "readdir" ELSE "subdir")
          /\ UNCHANGED <<open, trouble>>
     \/ /\ \/ (\A n \in Top(c).left : ~Listed(c, n)) /\ UNCHANGED trouble
           \/ Fails(c, "list")
        /\ open' = [open EXCEPT ![c] = @ - 1]
        /\ Goto(c, "rmself")
        /\ UNCHANGED stack
  /\ SameTree
  /\ UNCHANGED <<call, pos, result, temp, errno>>

\* sub_path.is_directory() && !remove_all(sub_path)
SubDir(c) ==
  /\ pc[c] = "subdir"
  /\ \E b \in BOOLEAN :
       /\ Asked(c, SubPath(c), IsDirectory(tree, SubPath(c)), b)
       /\ \/ b /\ Goto(c, "isdir") /\ stack' = [stack EXCEPT ![c] = Append(@, Frame(SubPath(c)))]
          \/ ~b /\ Goto(c, "subremove") /\ UNCHANGED stack
  /\ SameTree
  /\ UNCHANGED <<call, pos, result, temp, open>>

\* else if (!remove(sub_path)) return false: closedir is not reached.
SubRemove(c) ==
  /\ pc[c] = "subremove"
  /\ \E e \in Errnos :
       /\ RemoveCall(c, SubPath(c), e)
       /\ \/ e = "0" /\ Goto(c, "readdir") /\ UNCHANGED <<pos, stack, result>>
          \/ e # "0" /\ Return(c, "false")
  /\ UNCHANGED <<call, temp, open>>

\* (variant) a second closedir.
RemoveSelfCloses(c) ==
  /\ pc[c] = "rmself"
  /\ \E e \in Errnos : RemoveCall(c, Top(c).dir, e)
  /\ Goto(c, "gone")
  /\ open' = [open EXCEPT ![c] = @ - 1]
  /\ UNCHANGED <<call, pos, stack, result, temp>>

\* remove(p), whatever it answers, and then
RemoveSelf(c) ==
  /\ pc[c] = "rmself"
  /\ \E e \in Errnos : RemoveCall(c, Top(c).dir, e)
  /\ Goto(c, "gone")
  /\ UNCHANGED <<call, pos, stack, result, temp, open>>

\* (variant) the answer is not checked.
GoneUnchecked(c) ==
  /\ pc[c] = "gone"
  /\ RemoveAllAnswers(c, TRUE)
  /\ SameTree
  /\ UNCHANGED <<call, temp, errno, open, trouble>>

\* return !exists(p)
Gone(c) ==
  /\ pc[c] = "gone"
  /\ \E b \in BOOLEAN :
       /\ Asked(c, Top(c).dir, Exists(tree, Top(c).dir), b)
       /\ RemoveAllAnswers(c, ~b)
  /\ SameTree
  /\ UNCHANGED <<call, temp, open>>

----------------------------------------------------------------------------
(* Questions.                                                               *)

\* if (this->is_directory()) throw is_a_directory
FileSizeIsDirectory(c) ==
  /\ pc[c] = "fs_isdir"
  /\ \E b \in BOOLEAN :
       /\ Asked(c, arg[c], IsDirectory(tree, arg[c]), b)
       /\ \/ b /\ Return(c, "threw error")
          \/ ~b /\ Goto(c, "fs_stat") /\ UNCHANGED <<pos, stack, result>>
  /\ SameTree
  /\ UNCHANGED <<call, temp, open>>

\* (variant) the answer of stat is not looked at.
FileSizeUnchecked(c) ==
  /\ pc[c] = "fs_stat"
  /\ Return(c, "true")
  /\ SameTree
  /\ UNCHANGED <<call, temp, open, errno, trouble>>

\* stat once more, for the size; its errno is thrown, and reset.
FileSizeStat(c) ==
  /\ pc[c] = "fs_stat"
  /\ \/ Exists(tree, arg[c]) /\ Return(c, "true") /\ UNCHANGED <<errno, trouble>>
     \/ /\ \/ ~Exists(tree, arg[c]) /\ UNCHANGED trouble
           \/ Fails(c, "look")
        /\ Return(c, "threw error")
        /\ errno' = [errno EXCEPT ![c] = "0"]
  /\ SameTree
  /\ UNCHANGED <<call, temp, open>>

AnswerRegular(c) ==
  /\ pc[c] = "isreg"
  /\ \E b \in BOOLEAN :
       Asked(c, arg[c], IsRegularFile(tree, arg[c]), b) /\ Return(c, Verdict(b))
  /\ SameTree
  /\ UNCHANGED <<call, temp, open>>

----------------------------------------------------------------------------

CallStep(c) ==
  \/ CreateExists(c) \/ CreateMkdir(c) \/ CreateFail(c) \/ CreateIsDirectory(c) \/ Mkdtemp(c)
  \/ RemoveOne(c)
  \/ IsDir(c) \/ PlainRemove(c) \/ Opendir(c) \/ Readdir(c) \/ SubDir(c) \/ SubRemove(c)
  \/ RemoveSelf(c) \/ Gone(c)
  \/ FileSizeIsDirectory(c) \/ FileSizeStat(c) \/ AnswerRegular(c)

Next ==
  \E c \in Callers :
    CallCreate(c) \/ CallRemove(c) \/ CallRemoveAll(c) \/ CallAsk(c) \/ CallStep(c)

Spec == Init /\ [][Next]_vars

\* The kernel runs every process that is inside a call; nothing makes a
\* client call.
FairSpec == Spec /\ \A c \in Callers : WF_vars(CallStep(c))

----------------------------------------------------------------------------
(* Properties.                                                              *)

Frames == [dir : Paths, left : SUBSET (Names \union {Dots}), sub : Names \union {Dots}]

Notes  == {"made", "removed", "made after", "removed after"}

TypeOK ==
  /\ tree \in [Paths -> {"absent", "dir", "file"}] /\ WellFormed(tree)
  /\ pc \in [Callers -> Running \union {"idle", "crashed"}]
  /\ op \in [Callers -> Ops \union {"none"}]
  /\ arg \in [Callers -> Paths \union {<<>>}]
  /\ pos \in [Callers -> 0 .. Depth]
  /\ \A c \in Callers : Len(stack[c]) \in 0 .. Depth /\ Range(stack[c]) \subseteq Frames
  /\ result \in [Callers -> {"none", "true", "false", "threw error", "threw success"}]
  /\ temp \in [Callers -> Paths \union {<<>>}]
  /\ errno \in [Callers -> Errnos]
  /\ open \in [Callers -> 0 .. MaxOpen]
  /\ trouble \in [Callers -> SUBSET {"look", "change", "list"}]
  /\ seen \in [Callers -> SUBSET Notes]
  /\ found \in [Callers -> {"absent", "flat", "nested"}]
  /\ opened \in [Callers -> 0 .. MaxOpen]
  /\ count \in [Callers -> 0 .. MaxCalls]

Answered(c, o, v) == pc[c] = "idle" /\ op[c] = o /\ result[c] = v

\* create_directories answers true only if the directory is there, until
\* somebody removes it, and false only if a file is in the way or somebody
\* removes something meanwhile: making the same directories at the same time is
\* harmless ("Fix possible race condition in create_directories()",
\* CHANGELOG.rst, 2.5.0).  file_size, which looks twice, gives a directory's size
\* only if somebody made the directory in between.
AnswersAgree ==
  \A c \in Callers :
    /\ Answered(c, "create_directories", "true") /\ "removed after" \notin seen[c] =>
         IsDirectory(tree, arg[c])
    /\ Answered(c, "create_directories", "false")
         /\ seen[c] \subseteq {"made", "made after"} /\ trouble[c] = {} =>
         \E q \in Ancestry(arg[c]) : Kind(tree, q) = "file"
    /\ Answered(c, "file_size", "true") /\ IsDirectory(tree, arg[c]) =>
         seen[c] \intersect {"made", "made after"} # {} \/ "look" \in trouble[c]

\* Two processes are never given the same temporary directory, and the one
\* given exists, until somebody removes it.
TempExclusive ==
  \A c, d \in Callers :
    LET Has(e) == Answered(e, "create_temp_directory", "true") /\ "removed after" \notin seen[e]
    IN  /\ Has(c) => IsDirectory(tree, temp[c])
        /\ Has(c) /\ Has(d) /\ temp[c] = temp[d] => c = d

\* When remove_all answers true nothing is left at its path, whatever others
\* made below it during the call, until somebody makes it again; unless its last
\* look failed.
RemoveAllGone ==
  \A c \in Callers :
    Answered(c, "remove_all", "true") /\ "made after" \notin seen[c] =>
      ~Exists(tree, arg[c]) \/ "look" \in trouble[c]

\* Left alone, the calls do what they say, and do not claim what they have not
\* done when a system call fails.  remove_all removes a file, and a directory
\* without directories in it, and answers false when there is nothing to remove;
\* what it says is gone is gone unless a look at it failed, which exists takes
\* for absence.  create_directories says true of directories only, and
\* file_size gives the size of a directory only if its first look failed.
RightAlone ==
  \A c \in Callers :
    LET Alone(o) == pc[c] = "idle" /\ op[c] = o /\ seen[c] = {}
    IN  /\ Alone("remove_all") /\ trouble[c] = {} =>
             /\ found[c] = "flat" => result[c] = "true"
             /\ found[c] = "absent" => result[c] = "false"
        /\ Alone("remove_all") /\ result[c] = "true" =>
             ~Exists(tree, arg[c]) \/ "look" \in trouble[c]
        /\ Alone("create_directories") /\ result[c] = "true" => IsDirectory(tree, arg[c])
        /\ Alone("file_size") =>
             (result[c] = "true" <=> IsRegularFile(tree, arg[c])) \/ "look" \in trouble[c]

\* "Remove the directory at the path and its content. ... return true if the
\* directory exists and it was successfully removed, false otherwise"
\* (filesystem_helper.hpp:354-359).
RemoveAllDocumented ==
  \A c \in Callers :
    pc[c] = "idle" /\ op[c] = "remove_all" /\ seen[c] = {} =>
      (result[c] = "true" <=> found[c] # "absent")

\* A call makes nothing but the directories leading to its path and the one it
\* returns, and removes nothing but its path and, for remove_all, what is below.
Footprint ==
  [][\A c \in Callers, p \in Paths :
       pc'[c] # pc[c] /\ tree'[p] # tree[p] =>
         \/ tree'[p] = "dir" /\ (p \in Ancestry(arg[c]) \/ p = temp'[c])
         \/ tree'[p] = "absent" /\ p = arg[c] /\ op[c] \in {"remove", "remove_all"}
         \/ tree'[p] = "absent" /\ IsPrefix(arg[c], p) /\ op[c] = "remove_all"]_vars

\* A call that answers true leaves no DIR stream open.
NoStreamLeft ==
  \A c \in Callers : pc[c] = "idle" /\ result[c] = "true" => open[c] = opened[c]

\* remove_all hands a null DIR to readdir only when somebody removed the
\* directory in the middle of the call, the process ran out of descriptors, or the
\* directory could not be read.
CrashExplained ==
  [][\A c \in Callers :
       pc[c] # "crashed" /\ pc'[c] = "crashed" => 
         "removed" \in seen[c] \/ open[c] = MaxOpen \/ "list" \in trouble'[c]]_vars

\* "return true if the directory exists and it was successfully removed, false
\* otherwise" (filesystem_helper.hpp:359): the call answers.
Answers == \A c \in Callers : pc[c] # "crashed"

\* create_temp_directory throws the errno that some earlier call left behind: it
\* is that of no error only when the path is a file, so that no system call of
\* create_directories has failed.
EmptyErrorExplained ==
  [][\A c \in Callers :
       result[c] # "threw success" /\ result'[c] = "threw success" => Kind(tree, arg[c]) = "file"]_vars

\* Every call answers, throws or crashes: the recursion and the reading of
\* directories end when others make entries behind the opendir, which the listing
\* then goes on to, and remove what it has not listed yet.  The others do so at
\* most MaxCalls times: nothing ends a remove_all that is raced for ever.
CallEnds == \A c \in Callers : pc[c] \in Running ~> pc[c] \in {"idle", "crashed"}
=============================================================================
