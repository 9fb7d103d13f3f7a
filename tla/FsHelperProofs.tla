--------------------------- MODULE FsHelperProofs ---------------------------
(***************************************************************************)
(* For any callers, names, depth and limits: what the answers of FsHelper   *)
(* say of the file system, when other processes work on it and when system  *)
(* calls fail.                                                              *)
(***************************************************************************)
EXTENDS FsHelperTypes

----------------------------------------------------------------------------
(* What a step of d does to c, as far as c can tell.                        *)

\* What c can tell of a tree in which a path was made, or removed.
Grows(t, u)   == \A q \in Places : Kind(u, q) = Kind(t, q) \/ (Kind(t, q) = "absent" /\ Kind(u, q) = "dir")
Shrinks(t, u) == \A q \in Places : Kind(u, q) = Kind(t, q) \/ Kind(u, q) = "absent"

Noted(c, during, after) == seen[c] \subseteq seen'[c] /\ (IF pc[c] = "idle" THEN after ELSE during) \in seen'[c]

LEMMA MadeGrows ==
  ASSUME NEW t \in Trees, NEW u, NEW p, MadeIn(t, u, p)
  PROVE  Grows(t, u)
BY MadeKinds DEF Grows

LEMMA RemovedShrinks ==
  ASSUME NEW t \in Trees, NEW u, NEW p, RemovedIn(t, u, p)
  PROVE  Shrinks(t, u)
BY RemovedKinds DEF Shrinks

LEMMA NoticedNoted ==
  ASSUME NEW d \in Callers, NEW c \in Callers, c # d, NEW during, NEW after, Noticed(d, during, after)
  PROVE  Noted(c, during, after)
<1>1. seen'[c] = seen[c] \union {IF pc[c] = "idle" THEN after ELSE during}
  BY DEF Noticed
<1> QED BY <1>1 DEF Noted

LEMMA OtherStep ==
  ASSUME ShapeInv, NEW d \in Callers, Begins(d) \/ CallStep(d), NEW c \in Callers, c # d
  PROVE  /\ pc'[c] = pc[c] /\ op'[c] = op[c] /\ arg'[c] = arg[c] /\ pos'[c] = pos[c] /\ stack'[c] = stack[c]
         /\ result'[c] = result[c] /\ temp'[c] = temp[c] /\ errno'[c] = errno[c] /\ open'[c] = open[c]
         /\ trouble'[c] = trouble[c] /\ found'[c] = found[c] /\ opened'[c] = opened[c]
         /\ \/ tree' = tree /\ seen'[c] = seen[c]
            \/ Grows(tree, tree') /\ Noted(c, "made", "made after")
            \/ Shrinks(tree, tree') /\ Noted(c, "removed", "removed after")
<1>1. Own(d) /\ TreeStep(d) /\ tree \in Trees
  BY OwnShape, TreeSteps DEF ShapeInv
<1>2. /\ pc'[c] = pc[c] /\ op'[c] = op[c] /\ arg'[c] = arg[c] /\ pos'[c] = pos[c] /\ stack'[c] = stack[c]
      /\ result'[c] = result[c] /\ temp'[c] = temp[c] /\ errno'[c] = errno[c] /\ open'[c] = open[c]
      /\ trouble'[c] = trouble[c] /\ found'[c] = found[c] /\ opened'[c] = opened[c]
  BY <1>1 DEF Own, CallMoves, LocalMoves, Moves
<1>3. CASE tree' = tree /\ \A e \in Callers \ {d} : seen'[e] = seen[e]
  BY <1>2, <1>3
<1>4. ASSUME NEW p, MadeIn(tree, tree', p), Noticed(d, "made", "made after")
      PROVE  Grows(tree, tree') /\ Noted(c, "made", "made after")
  BY <1>1, <1>4, MadeGrows, NoticedNoted
<1>5. ASSUME NEW p, RemovedIn(tree, tree', p), Noticed(d, "removed", "removed after")
      PROVE  Shrinks(tree, tree') /\ Noted(c, "removed", "removed after")
  BY <1>1, <1>5, RemovedShrinks, NoticedNoted
<1> QED BY <1>1, <1>2, <1>3, <1>4, <1>5 DEF TreeStep

----------------------------------------------------------------------------
(* The invariant.                                                           *)

\* While nobody removes anything and no system call fails for a reason outside
\* the tree, the components behind a caller of create_directories are there, and
\* it fails on a file in the way.
ComponentsMade(c) ==
  op[c] \in CreateOps /\ seen[c] \intersect {"removed", "removed after"} = {} /\ trouble[c] = {} =>
    /\ pc[c] \in {"cd_exists", "cd_mkdir"} => \A j \in 1 .. pos[c] - 1 : Exists(tree, SubSeq(arg[c], 1, j))
    /\ pc[c] = "cd_isdir" => Exists(tree, arg[c])
    /\ pc[c] = "cd_fail" => \E q \in Ancestry(arg[c]) : Kind(tree, q) = "file"

\* What a caller has looked at is so, until another caller changes it.
LooksHold(c) ==
  /\ pc[c] = "cd_fail" => errno[c] # "0"
  /\ pc[c] = "opendir" => IsDirectory(tree, Top(c).dir) \/ "removed" \in seen[c]
  /\ pc[c] = "fs_stat" => ~IsDirectory(tree, arg[c]) \/ "made" \in seen[c] \/ "look" \in trouble[c]

Known(c) == ComponentsMade(c) /\ LooksHold(c)

LEMMA AncestryPlaces ==
  ASSUME NEW p \in Places
  PROVE  Ancestry(p) \subseteq Places
<1>1. CASE p = <<>>
  BY <1>1 DEF Ancestry
<1>2. CASE p \in Paths
  BY <1>2, PrefixOfPath DEF Ancestry, Places
<1> QED BY <1>1, <1>2 DEF Places

LEMMA Below ==
  ASSUME NEW l \in 1 .. Depth, NEW k \in 1 .. l, NEW j \in 1 .. k - 1
  PROVE  j \in 1 .. l
BY DepthAssumption

LEMMA Positions ==
  ASSUME NEW l \in 1 .. Depth, NEW k \in 1 .. l
  PROVE  /\ k \in Nat \ {0}
         /\ \A m : m = k + 1 => \A j \in 1 .. m - 1 : j \in 1 .. k
         /\ k # 1 => k - 1 \in 1 .. k - 1 /\ k - 1 \in 1 .. l
BY DepthAssumption

LEMMA NothingBefore ==
  ASSUME NEW p \in Seq(Names)
  PROVE  SubSeq(p, 1, 1 - 1) = <<>>
<1>1. 1 - 1 = 0
  OBVIOUS
<1>2. SubSeq(p, 1, 0) = <<>>
  OBVIOUS
<1> QED BY <1>1, <1>2

LEMMA OthersKnown ==
  ASSUME ShapeInv, NEW d \in Callers, Begins(d) \/ CallStep(d), NEW c \in Callers, c # d, Known(c)
  PROVE  Known(c)'
<1> USE DEF Grows, Shrinks, Noted, Exists, IsDirectory
<1>0. /\ pc'[c] = pc[c] /\ op'[c] = op[c] /\ arg'[c] = arg[c] /\ pos'[c] = pos[c] /\ stack'[c] = stack[c]
      /\ trouble'[c] = trouble[c] /\ errno'[c] = errno[c]
      /\ \/ tree' = tree /\ seen'[c] = seen[c]
         \/ Grows(tree, tree') /\ Noted(c, "made", "made after")
         \/ Shrinks(tree, tree') /\ Noted(c, "removed", "removed after")
  BY OtherStep
<1>1. arg[c] \in Places
  BY DEF ShapeInv, Scalars
<1>2. ComponentsMade(c)'
  <2> SUFFICES ASSUME op[c] \in CreateOps, seen'[c] \intersect {"removed", "removed after"} = {}, trouble[c] = {}
               PROVE  /\ pc[c] \in {"cd_exists", "cd_mkdir"} => \A j \in 1 .. pos[c] - 1 : Exists(tree', SubSeq(arg[c], 1, j))
                      /\ pc[c] = "cd_isdir" => Exists(tree', arg[c])
                      /\ pc[c] = "cd_fail" => \E q \in Ancestry(arg[c]) : Kind(tree', q) = "file"
    BY <1>0 DEF ComponentsMade
  <2>1. \A q \in Places : Kind(tree, q) # "absent" => Kind(tree', q) = Kind(tree, q)
    BY <1>0
  <2>2. seen[c] \intersect {"removed", "removed after"} = {}
    BY <1>0
  <2>3. ASSUME pc[c] \in {"cd_exists", "cd_mkdir"}, NEW j \in 1 .. pos[c] - 1
        PROVE  Exists(tree', SubSeq(arg[c], 1, j))
    <3>1. Exists(tree, SubSeq(arg[c], 1, j))
      BY <2>2, <2>3 DEF Known, ComponentsMade
    <3>2. arg[c] \in Paths /\ j \in 1 .. Len(arg[c])
      <4>1. arg[c] \in Paths /\ pos[c] \in 1 .. Len(arg[c]) /\ Len(arg[c]) \in 1 .. Depth
        BY <2>3, BuiltFits
      <4> QED BY <4>1, Below
    <3>3. SubSeq(arg[c], 1, j) \in Places
      BY <3>2, PrefixOfPath DEF Places
    <3> QED BY <2>1, <3>1, <3>3
  <2>4. pc[c] = "cd_isdir" => Exists(tree', arg[c])
    BY <1>1, <2>1, <2>2 DEF Known, ComponentsMade
  <2>5. pc[c] = "cd_fail" => \E q \in Ancestry(arg[c]) : Kind(tree', q) = "file"
    BY <1>1, <2>1, <2>2, AncestryPlaces DEF Known, ComponentsMade
  <2> QED BY <2>3, <2>4, <2>5
<1>3. LooksHold(c)'
  <2>1. pc[c] = "cd_fail" => errno[c] # "0"
    BY DEF Known, LooksHold
  <2>2. ASSUME pc[c] = "opendir" PROVE IsDirectory(tree', Top(c).dir) \/ "removed" \in seen'[c]
    <3>1. Top(c).dir \in Places
      BY <2>2, TopFits DEF Places, RemoveLabels
    <3> QED BY <1>0, <2>2, <3>1 DEF Known, LooksHold
  <2>3. ASSUME pc[c] = "fs_stat"
        PROVE  ~IsDirectory(tree', arg[c]) \/ "made" \in seen'[c] \/ "look" \in trouble[c]
    BY <1>0, <1>1, <2>3 DEF Known, LooksHold
  <2> QED BY <1>0, <2>1, <2>2, <2>3 DEF LooksHold, Top
<1> QED BY <1>2, <1>3 DEF Known

\* The other steps lead to no label of which Known says anything.
LEMMA ElseUnknown ==
  ASSUME ShapeInv, NEW d \in Callers,
         \/ CallRemove(d) \/ CallRemoveAll(d) \/ CallAsk(d) \/ CreateFail(d) \/ Mkdtemp(d) \/ RemoveOne(d)
         \/ PlainRemove(d) \/ Opendir(d) \/ Readdir(d) \/ SubDir(d) \/ SubRemove(d) \/ RemoveSelf(d)
         \/ Gone(d) \/ FileSizeStat(d) \/ AnswerRegular(d)
  PROVE  pc'[d] \notin CreateLabels \union {"opendir", "fs_stat"}
<1> USE DEF CreateLabels, Goto, Return
<1>0. pc \in [Callers -> Running \union {"idle", "crashed"}]
  BY DEF ShapeInv, Scalars
<1>1. CASE CallRemove(d) \/ CallRemoveAll(d) \/ CallAsk(d)
  BY <1>0, <1>1 DEF CallRemove, CallRemoveAll, CallAsk
<1>2. CASE CreateFail(d) \/ Mkdtemp(d) \/ RemoveOne(d) \/ FileSizeStat(d) \/ AnswerRegular(d)
  BY <1>0, <1>2 DEF CreateFail, CreateAnswers, Throw, Mkdtemp, RemoveOne, FileSizeStat, AnswerRegular
<1>3. CASE PlainRemove(d) \/ Gone(d)
  BY <1>0, <1>3 DEF PlainRemove, Gone, RemoveAllAnswers
<1>4. CASE Opendir(d) \/ SubDir(d) \/ SubRemove(d) \/ RemoveSelf(d)
  BY <1>0, <1>4 DEF Opendir, SubDir, SubRemove, RemoveSelf
<1>5. CASE Readdir(d)
  BY <1>0, <1>5 DEF Readdir
<1> QED BY <1>1, <1>2, <1>3, <1>4, <1>5

LEMMA ElseKnown ==
  ASSUME NEW d, pc'[d] \notin CreateLabels \union {"opendir", "fs_stat"}
  PROVE  Known(d)'
BY DEF Known, ComponentsMade, LooksHold, CreateLabels

\* The label, tree and notes of one who looks and goes on.
LEMMA CreateExistsSays ==
  ASSUME ShapeInv, NEW d \in Callers, CreateExists(d)
  PROVE  /\ pc[d] = "cd_exists" /\ UNCHANGED <<tree, seen, op, arg>> /\ trouble[d] \subseteq trouble'[d]
         /\ \/ pc'[d] = "cd_isdir" /\ pos[d] = Len(arg[d]) /\ Exists(tree, Built(d))
            \/ pc'[d] = "cd_exists" /\ pos'[d] = pos[d] + 1 /\ Exists(tree, Built(d))
            \/ pc'[d] = "cd_mkdir" /\ pos'[d] = pos[d]
<1>0. pc[d] = "cd_exists" /\ UNCHANGED <<tree, seen, op, arg>> /\ Scalars
  BY DEF CreateExists, SameTree, call, ShapeInv
<1>1. PICK b \in BOOLEAN :
        /\ Asked(d, Built(d), Exists(tree, Built(d)), b)
        /\ IF b THEN NextComponent(d) ELSE Goto(d, "cd_mkdir") /\ UNCHANGED pos
  BY DEF CreateExists
<1>2. trouble[d] \subseteq trouble'[d] /\ (b => Exists(tree, Built(d)))
  BY <1>0, <1>1, AskedStep DEF Exists
<1>3. CASE b
  BY <1>0, <1>1, <1>2, <1>3, NextComponentStep
<1>4. CASE ~b
  BY <1>0, <1>1, <1>2, <1>4 DEF Goto, Scalars
<1> QED BY <1>3, <1>4

LEMMA CreateMkdirSays ==
  ASSUME ShapeInv, NEW d \in Callers, CreateMkdir(d)
  PROVE  /\ pc[d] = "cd_mkdir" /\ UNCHANGED <<op, arg>> /\ trouble[d] \subseteq trouble'[d]
         /\ seen'[d] = seen[d] /\ Grows(tree, tree')
         /\ \/ /\ \/ pc'[d] = "cd_isdir" /\ pos[d] = Len(arg[d])
                  \/ pc'[d] = "cd_exists" /\ pos'[d] = pos[d] + 1
               /\ Exists(tree', Built(d)) \/ trouble'[d] # {}
            \/ /\ pc'[d] = "cd_fail" /\ errno'[d] # "0" /\ tree' = tree
               /\ (~Exists(tree, Built(d)) /\ ~IsDirectory(tree, Front(Built(d)))) \/ trouble'[d] # {}
         /\ tree' = tree \/ MadeIn(tree, tree', Built(d))
<1>0. pc[d] = "cd_mkdir" /\ UNCHANGED <<op, arg>> /\ Scalars /\ tree \in Trees /\ Built(d) \in Paths
  BY BuiltFits DEF CreateMkdir, call, ShapeInv
<1>1. PICK e \in Errnos :
        /\ Outcome(d, e, MkdirErrno(tree, Built(d)))
        /\ SetErrno(d, e)
        /\ \/ e = "0" /\ Made(d, Built(d)) /\ NextComponent(d)
           \/ e = "EEXIST" /\ SameTree /\ NextComponent(d)
           \/ e \notin {"0", "EEXIST"} /\ SameTree /\ Goto(d, "cd_fail") /\ UNCHANGED pos
  BY DEF CreateMkdir
<1> DEFINE x == MkdirErrno(tree, Built(d))
<1>2. /\ x = "0" <=> ~Exists(tree, Built(d)) /\ IsDirectory(tree, Front(Built(d)))
      /\ x = "EEXIST" <=> Exists(tree, Built(d))
  BY MkdirSays
<1>3. Outcome(d, e, x)
  BY <1>1
<1> HIDE DEF x
<1>4. trouble[d] \subseteq trouble'[d] /\ (e = x \/ (e = "EIO" /\ trouble'[d] # {}))
  BY <1>0, <1>3, OutcomeStep
<1>5. SameTree => Grows(tree, tree') /\ seen'[d] = seen[d] /\ tree' = tree
  BY DEF SameTree, Grows
<1>6. CASE e = "0" /\ Made(d, Built(d)) /\ NextComponent(d)
  <2>1. MadeIn(tree, tree', Built(d))
    BY <1>0, <1>2, <1>4, <1>6 DEF MadeIn, Made
  <2>2. Grows(tree, tree') /\ Exists(tree', Built(d))
    BY <1>0, <2>1, MadeGrows, MadeKinds DEF Exists
  <2>3. seen'[d] = seen[d]
    BY <1>6 DEF Made, Noticed
  <2> QED BY <1>0, <1>4, <1>6, <2>1, <2>2, <2>3, NextComponentStep
<1>7. CASE e = "EEXIST" /\ SameTree /\ NextComponent(d)
  <2>1. Exists(tree, Built(d))
    BY <1>2, <1>4, <1>7
  <2> QED BY <1>0, <1>4, <1>5, <1>7, <2>1, NextComponentStep
<1>8. CASE e \notin {"0", "EEXIST"} /\ SameTree /\ Goto(d, "cd_fail")
  <2>1. pc'[d] = "cd_fail"
    BY <1>0, <1>8 DEF Goto, Scalars
  <2>2. errno'[d] # "0"
    BY <1>0, <1>1, <1>8, SetErrnoStep
  <2> QED BY <1>0, <1>2, <1>4, <1>5, <1>8, <2>1, <2>2
<1> QED BY <1>1, <1>6, <1>7, <1>8

\* What a caller of create_directories knows when it goes on to the next
\* component.
LEMMA ComponentsGrow ==
  ASSUME ShapeInv, NEW d \in Callers, pc[d] \in {"cd_exists", "cd_mkdir"}, Grows(tree, tree'), Exists(tree', Built(d)),
         \A j \in 1 .. pos[d] - 1 : Exists(tree, SubSeq(arg[d], 1, j)), arg'[d] = arg[d]
  PROVE  /\ pos[d] = Len(arg[d]) => Exists(tree', arg[d])
         /\ \A j \in 1 .. pos[d] : Exists(tree', SubSeq(arg[d], 1, j))
<1>1. arg[d] \in Paths /\ pos[d] \in 1 .. Len(arg[d]) /\ Len(arg[d]) \in 1 .. Depth
  BY BuiltFits
<1>2. ASSUME NEW j \in 1 .. pos[d] - 1 PROVE Exists(tree', SubSeq(arg[d], 1, j))
  <2>1. Exists(tree, SubSeq(arg[d], 1, j))
    BY <1>2
  <2>2. j \in 1 .. Len(arg[d])
    BY <1>1, Below
  <2>3. SubSeq(arg[d], 1, j) \in Places
    BY <1>1, <2>2, PrefixOfPath DEF Places
  <2> QED BY <2>1, <2>3 DEF Exists, Grows
<1>3. Exists(tree', SubSeq(arg[d], 1, pos[d]))
  BY DEF Built
<1>4. pos[d] \in Nat \ {0}
  BY <1>1, DepthAssumption
<1>5. ASSUME NEW j \in 1 .. pos[d] PROVE Exists(tree', SubSeq(arg[d], 1, j))
  <2>1. CASE j = pos[d]
    BY <1>3, <2>1
  <2>2. CASE j # pos[d]
    <3>1. j \in 1 .. pos[d] - 1
      BY <1>4, <2>2
    <3> QED BY <1>2, <3>1
  <2> QED BY <2>1, <2>2
<1>6. pos[d] = Len(arg[d]) => Built(d) = arg[d]
  <2>1. arg[d] \in Seq(Names)
    BY <1>1, PathIsSeq
  <2> QED BY <2>1 DEF Built
<1> QED BY <1>5, <1>6

LEMMA CallCreateKnown ==
  ASSUME ShapeInv, NEW d \in Callers, CallCreate(d)
  PROVE  Known(d)'
<1>1. PICK o \in CreateOps, p \in Places :
        /\ Begin(d, o, p)
        /\ Goto(d, IF p = <<>> THEN "cd_isdir" ELSE "cd_exists")
        /\ pos' = [pos EXCEPT ![d] = 1]
  BY DEF CallCreate, Places, CreateOps
<1>2. arg'[d] = p
  BY <1>1, BeginTypes
<1>3. pos'[d] = 1 /\ pc'[d] = (IF p = <<>> THEN "cd_isdir" ELSE "cd_exists")
  BY <1>1 DEF ShapeInv, Scalars, Goto
<1>4. pc'[d] = "cd_isdir" => Exists(tree', arg'[d])
  BY <1>2, <1>3 DEF Exists, Kind
<1>5. \A j \in 1 .. pos'[d] - 1 : FALSE
  BY <1>3
<1>6. ComponentsMade(d)'
  BY <1>3, <1>4, <1>5 DEF ComponentsMade
<1>7. LooksHold(d)'
  BY <1>3 DEF LooksHold
<1> QED BY <1>6, <1>7 DEF Known

LEMMA CreateExistsKnown ==
  ASSUME ShapeInv, NEW d \in Callers, CreateExists(d), Known(d)
  PROVE  Known(d)'
<1>1. /\ pc[d] = "cd_exists" /\ UNCHANGED <<tree, seen, op, arg>> /\ trouble[d] \subseteq trouble'[d]
      /\ \/ pc'[d] = "cd_isdir" /\ pos[d] = Len(arg[d]) /\ Exists(tree, Built(d))
         \/ pc'[d] = "cd_exists" /\ pos'[d] = pos[d] + 1 /\ Exists(tree, Built(d))
         \/ pc'[d] = "cd_mkdir" /\ pos'[d] = pos[d]
  BY CreateExistsSays
<1>2. LooksHold(d)'
  BY <1>1 DEF LooksHold
<1>3. ComponentsMade(d)'
  <2> SUFFICES ASSUME op[d] \in CreateOps, seen[d] \intersect {"removed", "removed after"} = {}, trouble'[d] = {}
               PROVE  /\ pc'[d] \in {"cd_exists", "cd_mkdir"} =>
                           \A j \in 1 .. pos'[d] - 1 : Exists(tree, SubSeq(arg[d], 1, j))
                      /\ pc'[d] = "cd_isdir" => Exists(tree, arg[d])
    BY <1>1 DEF ComponentsMade
  <2>1. \A j \in 1 .. pos[d] - 1 : Exists(tree, SubSeq(arg[d], 1, j))
    <3>1. trouble[d] = {}
      BY <1>1
    <3> QED BY <1>1, <3>1 DEF Known, ComponentsMade
  <2>2. CASE pc'[d] = "cd_mkdir" /\ pos'[d] = pos[d]
    BY <2>1, <2>2
  <2>3. CASE Exists(tree, Built(d))
    <3>1. Grows(tree, tree') /\ Exists(tree', Built(d))
      BY <1>1, <2>3 DEF Grows
    <3>2. /\ pos[d] = Len(arg[d]) => Exists(tree', arg[d])
          /\ \A j \in 1 .. pos[d] : Exists(tree', SubSeq(arg[d], 1, j))
      BY <1>1, <2>1, <3>1, ComponentsGrow
    <3>3. pc'[d] = "cd_isdir" => Exists(tree, arg[d])
      BY <1>1, <3>2
    <3>4. ASSUME pos'[d] = pos[d] + 1, NEW j \in 1 .. pos'[d] - 1 PROVE Exists(tree, SubSeq(arg[d], 1, j))
      <4>1. pos[d] \in 1 .. Len(arg[d]) /\ Len(arg[d]) \in 1 .. Depth
        BY <1>1, BuiltFits
      <4>2. j \in 1 .. pos[d]
        BY <3>4, <4>1, Positions
      <4> QED BY <1>1, <3>2, <4>2
    <3>5. pc'[d] = "cd_mkdir" => \A j \in 1 .. pos'[d] - 1 : Exists(tree, SubSeq(arg[d], 1, j))
      BY <1>1, <2>1
    <3>6. pc'[d] = "cd_exists" => pos'[d] = pos[d] + 1
      BY <1>1
    <3> QED BY <3>3, <3>4, <3>5, <3>6
  <2> QED BY <1>1, <2>2, <2>3
<1> QED BY <1>2, <1>3 DEF Known

LEMMA CreateMkdirKnown ==
  ASSUME ShapeInv, NEW d \in Callers, CreateMkdir(d), Known(d)
  PROVE  Known(d)'
<1>1. /\ pc[d] = "cd_mkdir" /\ UNCHANGED <<op, arg>> /\ trouble[d] \subseteq trouble'[d]
      /\ seen'[d] = seen[d] /\ Grows(tree, tree')
      /\ \/ /\ \/ pc'[d] = "cd_isdir" /\ pos[d] = Len(arg[d])
               \/ pc'[d] = "cd_exists" /\ pos'[d] = pos[d] + 1
            /\ Exists(tree', Built(d)) \/ trouble'[d] # {}
         \/ /\ pc'[d] = "cd_fail" /\ errno'[d] # "0" /\ tree' = tree
            /\ (~Exists(tree, Built(d)) /\ ~IsDirectory(tree, Front(Built(d)))) \/ trouble'[d] # {}
  BY CreateMkdirSays
<1>2. LooksHold(d)'
  BY <1>1 DEF LooksHold
<1>3. ComponentsMade(d)'
  <2> SUFFICES ASSUME op[d] \in CreateOps, seen[d] \intersect {"removed", "removed after"} = {}, trouble'[d] = {}
               PROVE  /\ pc'[d] \in {"cd_exists", "cd_mkdir"} =>
                           \A j \in 1 .. pos'[d] - 1 : Exists(tree', SubSeq(arg[d], 1, j))
                      /\ pc'[d] = "cd_isdir" => Exists(tree', arg[d])
                      /\ pc'[d] = "cd_fail" => \E q \in Ancestry(arg[d]) : Kind(tree', q) = "file"
    BY <1>1 DEF ComponentsMade
  <2>0. arg[d] \in Paths /\ pos[d] \in 1 .. Len(arg[d]) /\ Len(arg[d]) \in 1 .. Depth /\ pos[d] \in Nat \ {0}
        /\ Front(Built(d)) = SubSeq(arg[d], 1, pos[d] - 1)
    <3>1. arg[d] \in Paths /\ pos[d] \in 1 .. Len(arg[d]) /\ Len(arg[d]) \in 1 .. Depth
          /\ Front(Built(d)) = SubSeq(arg[d], 1, pos[d] - 1)
      BY <1>1, BuiltFits
    <3>2. pos[d] \in Nat \ {0}
      BY <3>1, Positions
    <3> QED BY <3>1, <3>2
  <2>1. \A j \in 1 .. pos[d] - 1 : Exists(tree, SubSeq(arg[d], 1, j))
    <3>1. trouble[d] = {}
      BY <1>1
    <3> QED BY <1>1, <3>1 DEF Known, ComponentsMade
  <2>2. CASE Exists(tree', Built(d)) /\ pc'[d] # "cd_fail"
    <3>1. /\ pos[d] = Len(arg[d]) => Exists(tree', arg[d])
          /\ \A j \in 1 .. pos[d] : Exists(tree', SubSeq(arg[d], 1, j))
      BY <1>1, <2>1, <2>2, ComponentsGrow
    <3>2. pc'[d] = "cd_isdir" => Exists(tree', arg[d])
      BY <1>1, <3>1
    <3>3. ASSUME pos'[d] = pos[d] + 1, NEW j \in 1 .. pos'[d] - 1 PROVE Exists(tree', SubSeq(arg[d], 1, j))
      <4>1. j \in 1 .. pos[d]
        BY <2>0, <3>3, Positions
      <4> QED BY <3>1, <4>1
    <3>4. pc'[d] \in {"cd_exists", "cd_mkdir"} => pos'[d] = pos[d] + 1
      BY <1>1
    <3> QED BY <2>2, <3>2, <3>3, <3>4
  <2>3. CASE pc'[d] = "cd_fail" /\ ~IsDirectory(tree, Front(Built(d))) /\ tree' = tree
    <3> DEFINE q == SubSeq(arg[d], 1, pos[d] - 1)
    <3>1. pos[d] # 1
      <4>1. arg[d] \in Seq(Names)
        BY <2>0, PathIsSeq
      <4>2. pos[d] = 1 => q = <<>>
        BY <4>1, NothingBefore
      <4> QED BY <2>0, <2>3, <4>2 DEF IsDirectory, Kind
    <3>2. pos[d] - 1 \in 1 .. pos[d] - 1 /\ pos[d] - 1 \in 1 .. Len(arg[d])
      BY <2>0, <3>1, Positions
    <3>3. q \in Ancestry(arg[d]) /\ Exists(tree, q)
      BY <2>1, <3>2 DEF Ancestry
    <3>4. q \in Places
      BY <2>0, <3>2, PrefixOfPath DEF Places
    <3>5. ~IsDirectory(tree, q)
      BY <2>0, <2>3
    <3> HIDE DEF q
    <3>6. Kind(tree, q) \in {"absent", "dir", "file"}
      BY <3>4 DEF ShapeInv, Trees, Kind, Places
    <3>7. Kind(tree, q) = "file"
      BY <3>3, <3>5, <3>6 DEF Exists, IsDirectory
    <3> QED BY <2>3, <3>3, <3>7
  <2> QED BY <1>1, <2>2, <2>3
<1> QED BY <1>2, <1>3 DEF Known

LEMMA CreateIsDirectoryKnown ==
  ASSUME ShapeInv, NEW d \in Callers, CreateIsDirectory(d), Known(d)
  PROVE  Known(d)'
<1>0. pc[d] = "cd_isdir" /\ UNCHANGED <<tree, seen, op, arg>> /\ Scalars
  BY DEF CreateIsDirectory, SameTree, call, ShapeInv
<1>1. CASE CreateAnswers(d, IsDirectory(tree, arg[d]))
  <2>1. pc'[d] \in {"idle", "mkdtemp"}
    BY <1>0, <1>1 DEF CreateAnswers, Throw, Return, Goto, Scalars
  <2> QED BY <2>1, ElseKnown DEF CreateLabels
<1>2. CASE Missing(d, arg[d]) /\ Goto(d, "cd_fail")
  <2>1. pc'[d] = "cd_fail"
    BY <1>0, <1>2 DEF Goto, Scalars
  <2>2. errno'[d] # "0" /\ trouble[d] \subseteq trouble'[d] /\ (~Exists(tree, arg[d]) \/ "look" \in trouble'[d])
    BY <1>0, <1>2, MissingStep
  <2>3. LooksHold(d)'
    BY <2>1, <2>2 DEF LooksHold
  <2>4. ComponentsMade(d)'
    <3> SUFFICES ASSUME op[d] \in CreateOps, seen[d] \intersect {"removed", "removed after"} = {}, trouble'[d] = {}
                 PROVE  FALSE
      BY <1>0, <2>1 DEF ComponentsMade
    <3>1. trouble[d] = {} /\ ~Exists(tree, arg[d])
      BY <2>2
    <3> QED BY <1>0, <3>1 DEF Known, ComponentsMade
  <2> QED BY <2>3, <2>4 DEF Known
<1> QED BY <1>1, <1>2 DEF CreateIsDirectory

LEMMA IsDirKnown ==
  ASSUME ShapeInv, NEW d \in Callers, IsDir(d), Known(d)
  PROVE  Known(d)'
<1>0. UNCHANGED <<tree, seen, stack, op, arg>> /\ Scalars
  BY DEF IsDir, SameTree, ShapeInv, call
<1>1. PICK b \in BOOLEAN :
        /\ Asked(d, Top(d).dir, IsDirectory(tree, Top(d).dir), b)
        /\ Goto(d, IF b THEN "opendir" ELSE "plain")
  BY DEF IsDir
<1>2. b => IsDirectory(tree, Top(d).dir)
  BY <1>0, <1>1, AskedStep DEF IsDirectory
<1>3. pc'[d] = (IF b THEN "opendir" ELSE "plain")
  BY <1>0, <1>1 DEF Goto, Scalars
<1>4. LooksHold(d)'
  BY <1>0, <1>2, <1>3 DEF LooksHold, Top, IsDirectory
<1>5. ComponentsMade(d)'
  BY <1>3 DEF ComponentsMade
<1> QED BY <1>4, <1>5 DEF Known

LEMMA FileSizeIsDirectoryKnown ==
  ASSUME ShapeInv, NEW d \in Callers, FileSizeIsDirectory(d), Known(d)
  PROVE  Known(d)'
<1>0. UNCHANGED <<tree, seen, op, arg>> /\ Scalars
  BY DEF FileSizeIsDirectory, SameTree, ShapeInv, call
<1>1. PICK b \in BOOLEAN :
        /\ Asked(d, arg[d], IsDirectory(tree, arg[d]), b)
        /\ \/ b /\ Return(d, "threw error")
           \/ ~b /\ Goto(d, "fs_stat")
  BY DEF FileSizeIsDirectory
<1>2. ~b => ~IsDirectory(tree, arg[d]) \/ "look" \in trouble'[d]
  BY <1>0, <1>1, AskedStep DEF IsDirectory, Exists
<1>3. pc'[d] = (IF b THEN "idle" ELSE "fs_stat")
  BY <1>0, <1>1 DEF Goto, Return, Scalars
<1>4. LooksHold(d)'
  BY <1>0, <1>2, <1>3 DEF LooksHold, IsDirectory
<1>5. ComponentsMade(d)'
  BY <1>3 DEF ComponentsMade
<1> QED BY <1>4, <1>5 DEF Known

LEMMA OwnKnown ==
  ASSUME ShapeInv, NEW d \in Callers, Begins(d) \/ CallStep(d), Known(d)
  PROVE  Known(d)'
BY CallCreateKnown, CreateExistsKnown, CreateMkdirKnown, CreateIsDirectoryKnown, IsDirKnown,
   FileSizeIsDirectoryKnown, ElseUnknown, ElseKnown DEF Begins, CallStep

----------------------------------------------------------------------------
(* The answers.                                                             *)

CreateRight(c) ==
  /\ Answered(c, "create_directories", "true") /\ "removed after" \notin seen[c] => IsDirectory(tree, arg[c])
  /\ Answered(c, "create_directories", "false") /\ seen[c] \subseteq {"made", "made after"} /\ trouble[c] = {} =>
       \E q \in Ancestry(arg[c]) : Kind(tree, q) = "file"

SizeRight(c) ==
  /\ Answered(c, "file_size", "true") /\ IsDirectory(tree, arg[c]) =>
       seen[c] \intersect {"made", "made after"} # {} \/ "look" \in trouble[c]
  /\ pc[c] = "idle" /\ op[c] = "file_size" /\ seen[c] = {} =>
       (result[c] = "true" <=> IsRegularFile(tree, arg[c])) \/ "look" \in trouble[c]

Has(c) == Answered(c, "create_temp_directory", "true") /\ "removed after" \notin seen[c]

TempRight(c) == Has(c) => IsDirectory(tree, temp[c])

GoneRight(c) ==
  Answered(c, "remove_all", "true") /\ "made after" \notin seen[c] =>
    ~Exists(tree, arg[c]) \/ "look" \in trouble[c]

Right(c) == CreateRight(c) /\ SizeRight(c) /\ TempRight(c) /\ GoneRight(c)

LEMMA OthersRight ==
  ASSUME ShapeInv, NEW d \in Callers, Begins(d) \/ CallStep(d), NEW c \in Callers, c # d, Right(c)
  PROVE  Right(c)'
<1> USE DEF Grows, Shrinks, Noted, Answered, Exists, IsDirectory
<1>0. /\ pc'[c] = pc[c] /\ op'[c] = op[c] /\ arg'[c] = arg[c] /\ temp'[c] = temp[c] /\ result'[c] = result[c]
      /\ trouble'[c] = trouble[c]
      /\ \/ tree' = tree /\ seen'[c] = seen[c]
         \/ Grows(tree, tree') /\ Noted(c, "made", "made after")
         \/ Shrinks(tree, tree') /\ Noted(c, "removed", "removed after")
  BY OtherStep
<1>1. arg[c] \in Places /\ temp[c] \in Places /\ Ancestry(arg[c]) \subseteq Places
  BY AncestryPlaces DEF ShapeInv, Scalars
<1>2. CreateRight(c)'
  <2>1. ASSUME pc[c] = "idle", op[c] = "create_directories", result[c] = "true", "removed after" \notin seen'[c]
        PROVE  IsDirectory(tree', arg[c])
    <3>1. IsDirectory(tree, arg[c])
      BY <1>0, <2>1 DEF Right, CreateRight
    <3> QED BY <1>0, <1>1, <2>1, <3>1
  <2>2. ASSUME pc[c] = "idle", op[c] = "create_directories", result[c] = "false",
               seen'[c] \subseteq {"made", "made after"}, trouble[c] = {}
        PROVE  \E q \in Ancestry(arg[c]) : Kind(tree', q) = "file"
    <3>1. seen[c] \subseteq {"made", "made after"}
      BY <1>0, <2>2
    <3>2. PICK q \in Ancestry(arg[c]) : Kind(tree, q) = "file"
      BY <2>2, <3>1 DEF Right, CreateRight
    <3>3. Kind(tree', q) = "file"
      BY <1>0, <1>1, <2>2, <3>2
    <3> QED BY <3>3
  <2> QED BY <1>0, <2>1, <2>2 DEF CreateRight
<1>3. SizeRight(c)'
  <2>1. ASSUME pc[c] = "idle", op[c] = "file_size", result[c] = "true", IsDirectory(tree', arg[c])
        PROVE  seen'[c] \intersect {"made", "made after"} # {} \/ "look" \in trouble[c]
    <3>1. CASE Grows(tree, tree') /\ Noted(c, "made", "made after")
      BY <2>1, <3>1
    <3>2. CASE Shrinks(tree, tree') /\ Noted(c, "removed", "removed after")
      <4>1. IsDirectory(tree, arg[c])
        BY <1>1, <2>1, <3>2
      <4> QED BY <2>1, <3>2, <4>1 DEF Right, SizeRight
    <3>3. CASE tree' = tree /\ seen'[c] = seen[c]
      BY <2>1, <3>3 DEF Right, SizeRight
    <3> QED BY <1>0, <3>1, <3>2, <3>3
  <2>2. ASSUME pc[c] = "idle", op[c] = "file_size", seen'[c] = {}
        PROVE  (result[c] = "true" <=> IsRegularFile(tree', arg[c])) \/ "look" \in trouble[c]
    <3>1. tree' = tree /\ seen[c] = {}
      BY <1>0, <2>2
    <3> QED BY <2>2, <3>1 DEF Right, SizeRight
  <2> QED BY <1>0, <2>1, <2>2 DEF SizeRight
<1>4. TempRight(c)'
  <2>1. ASSUME pc[c] = "idle", op[c] = "create_temp_directory", result[c] = "true", "removed after" \notin seen'[c]
        PROVE  IsDirectory(tree', temp[c])
    <3>1. IsDirectory(tree, temp[c])
      BY <1>0, <2>1 DEF Right, TempRight, Has
    <3> QED BY <1>0, <1>1, <2>1, <3>1
  <2> QED BY <1>0, <2>1 DEF TempRight, Has
<1>5. GoneRight(c)'
  <2>1. ASSUME pc[c] = "idle", op[c] = "remove_all", result[c] = "true", "made after" \notin seen'[c]
        PROVE  ~Exists(tree', arg[c]) \/ "look" \in trouble[c]
    <3>1. ~Exists(tree, arg[c]) \/ "look" \in trouble[c]
      BY <1>0, <2>1 DEF Right, GoneRight
    <3> QED BY <1>0, <1>1, <2>1, <3>1
  <2> QED BY <1>0, <2>1 DEF GoneRight
<1> QED BY <1>2, <1>3, <1>4, <1>5 DEF Right

\* A call that has not answered has said nothing wrong.
LEMMA GoingRight == ASSUME NEW d, pc'[d] # "idle" PROVE Right(d)'
BY DEF Right, CreateRight, SizeRight, TempRight, GoneRight, Has, Answered

\* Nor has one that answered false, or threw, but in create_directories and file_size.
LEMMA FalseRight ==
  ASSUME NEW d, result'[d] # "true", op'[d] \notin {"create_directories", "file_size"}
  PROVE  Right(d)'
BY DEF Right, CreateRight, SizeRight, TempRight, GoneRight, Has, Answered

LEMMA SomeKind ==
  ASSUME ShapeInv, NEW p \in Places
  PROVE  Kind(tree, p) \in {"absent", "dir", "file"} /\ (p = <<>> => Kind(tree, p) = "dir")
BY DEF ShapeInv, Trees, Kind, Places

LEMMA CreateAnswersRight ==
  ASSUME ShapeInv, NEW d \in Callers, NEW b \in BOOLEAN, CreateAnswers(d, b), op[d] \in CreateOps,
         UNCHANGED <<tree, seen, op, arg, trouble>>,
         b => IsDirectory(tree, arg[d]),
         ~b /\ seen[d] \subseteq {"made", "made after"} /\ trouble[d] = {} =>
           \E q \in Ancestry(arg[d]) : Kind(tree, q) = "file"
  PROVE  Right(d)'
<1>0. Scalars
  BY DEF ShapeInv
<1>1. CASE op[d] = "create_directories" /\ Return(d, Verdict(b))
  <2>1. result'[d] = Verdict(b)
    BY <1>0, <1>1 DEF Return, Scalars
  <2>2. CreateRight(d)'
    BY <1>1, <2>1 DEF CreateRight, Answered, Verdict, IsDirectory
  <2> QED BY <1>1, <2>2 DEF Right, SizeRight, TempRight, GoneRight, Has, Answered
<1>2. CASE Goto(d, "mkdtemp")
  <2>1. pc'[d] # "idle"
    BY <1>0, <1>2 DEF Goto, Scalars
  <2> QED BY <2>1, GoingRight
<1>3. CASE op[d] = "create_temp_directory" /\ Throw(d)
  <2>1. result'[d] # "true"
    BY <1>0, <1>3 DEF Throw, Return, Scalars
  <2> QED BY <1>3, <2>1, FalseRight
<1> QED BY <1>1, <1>2, <1>3 DEF CreateAnswers

LEMMA CreateFailRight ==
  ASSUME ShapeInv, NEW d \in Callers, CreateFail(d), Known(d)
  PROVE  Right(d)'
<1>1. /\ pc[d] = "cd_fail" /\ CreateAnswers(d, FALSE) /\ UNCHANGED <<tree, seen, op, arg, trouble>>
  BY DEF CreateFail, SameTree, call
<1>2. op[d] \in CreateOps
  BY <1>1 DEF ShapeInv, Shape, LabelsFit, CreateLabels
<1>3. ASSUME seen[d] \subseteq {"made", "made after"}, trouble[d] = {}
      PROVE  \E q \in Ancestry(arg[d]) : Kind(tree, q) = "file"
  <2>1. seen[d] \intersect {"removed", "removed after"} = {}
    BY <1>3
  <2> QED BY <1>1, <1>2, <1>3, <2>1 DEF Known, ComponentsMade
<1> QED BY <1>1, <1>2, <1>3, CreateAnswersRight

\* The path itself is one of those that lead to it.
LEMMA OwnAncestor ==
  ASSUME NEW p \in Paths
  PROVE  p \in Ancestry(p)
<1>1. p \in Seq(Names) /\ Len(p) \in 1 .. Depth
  BY PathIsSeq
<1>2. SubSeq(p, 1, Len(p)) = p
  BY <1>1
<1>3. Len(p) \in 1 .. Len(p)
  BY <1>1, DepthAssumption
<1> QED BY <1>2, <1>3 DEF Ancestry

LEMMA CreateIsDirectoryRight ==
  ASSUME ShapeInv, NEW d \in Callers, CreateIsDirectory(d)
  PROVE  Right(d)'
<1>0. pc[d] = "cd_isdir" /\ UNCHANGED <<tree, seen, op, arg>> /\ Scalars /\ arg[d] \in Places
  BY DEF CreateIsDirectory, SameTree, call, ShapeInv, Scalars
<1>1. CASE Exists(tree, arg[d]) /\ CreateAnswers(d, IsDirectory(tree, arg[d])) /\ UNCHANGED trouble
  <2> DEFINE b == IsDirectory(tree, arg[d])
  <2>1. op[d] \in CreateOps
    BY <1>0 DEF ShapeInv, Shape, LabelsFit, CreateLabels
  <2>2. ASSUME ~b PROVE \E q \in Ancestry(arg[d]) : Kind(tree, q) = "file"
    <3>1. Kind(tree, arg[d]) = "file" /\ arg[d] # <<>>
      BY <1>0, <1>1, <2>2, SomeKind DEF IsDirectory, Exists
    <3>2. arg[d] \in Ancestry(arg[d])
      BY <1>0, <3>1, OwnAncestor DEF Places
    <3> QED BY <3>1, <3>2
  <2>3. b \in BOOLEAN
    BY DEF IsDirectory
  <2>4. b => IsDirectory(tree, arg[d])
    OBVIOUS
  <2>5. CreateAnswers(d, b)
    BY <1>1
  <2> HIDE DEF b
  <2> QED BY <1>0, <1>1, <2>1, <2>2, <2>3, <2>4, <2>5, CreateAnswersRight
<1>2. CASE Goto(d, "cd_fail")
  <2>1. pc'[d] # "idle"
    BY <1>0, <1>2 DEF Goto, Scalars
  <2> QED BY <2>1, GoingRight
<1> QED BY <1>1, <1>2 DEF CreateIsDirectory

LEMMA MkdtempMakes ==
  ASSUME ShapeInv, NEW d \in Callers, Mkdtemp(d)
  PROVE  /\ op'[d] = "create_temp_directory" /\ op[d] = op'[d]
         /\ \/ result'[d] # "true"
            \/ MadeIn(tree, tree', temp'[d])
<1>0. Scalars /\ op[d] = "create_temp_directory" /\ op' = op
  BY TempFits DEF Mkdtemp, call, ShapeInv
<1>1. ASSUME NEW n \in Names, ~Exists(tree, Append(arg[d], n)), IsDirectory(tree, arg[d]),
             Made(d, Append(arg[d], n)), temp' = [temp EXCEPT ![d] = Append(arg[d], n)]
      PROVE  MadeIn(tree, tree', temp'[d])
  <2>1. temp'[d] = Append(arg[d], n)
    BY <1>0, <1>1 DEF Scalars
  <2>2. MadeIn(tree, tree', Append(arg[d], n))
    BY <1>1, TempFits DEF MadeIn, Made, Mkdtemp
  <2> QED BY <2>1, <2>2
<1>2. ASSUME Return(d, "threw error") PROVE result'[d] # "true"
  BY <1>0, <1>2 DEF Return, Scalars
<1> QED BY <1>0, <1>1, <1>2 DEF Mkdtemp

LEMMA MkdtempRight ==
  ASSUME ShapeInv, NEW d \in Callers, Mkdtemp(d)
  PROVE  Right(d)'
<1>1. op'[d] = "create_temp_directory" /\ (result'[d] # "true" \/ MadeIn(tree, tree', temp'[d]))
  BY MkdtempMakes
<1>2. CASE result'[d] # "true"
  BY <1>1, <1>2, FalseRight
<1>3. CASE MadeIn(tree, tree', temp'[d])
  <2>1. Kind(tree', temp'[d]) = "dir"
    BY <1>3, MadeKinds DEF ShapeInv
  <2> QED BY <1>1, <2>1 DEF Right, CreateRight, SizeRight, TempRight, GoneRight, Has, Answered, IsDirectory
<1> QED BY <1>1, <1>2, <1>3

\* remove_all answers true from its outermost invocation.
LEMMA RemoveAllAnswersRight ==
  ASSUME ShapeInv, NEW d \in Callers, NEW b \in BOOLEAN, RemoveAllAnswers(d, b), pc[d] \in RemoveLabels,
         UNCHANGED <<op, arg>>,
         b => ~Exists(tree', Top(d).dir) \/ "look" \in trouble'[d]
  PROVE  Right(d)'
<1>0. Scalars /\ op[d] = "remove_all" /\ Shape(d) /\ stack[d] # <<>>
  BY TopFits, Streams DEF ShapeInv
<1>1. CASE (~b \/ Len(stack[d]) = 1) /\ Return(d, Verdict(b))
  <2>1. result'[d] = Verdict(b)
    BY <1>0, <1>1 DEF Return, Scalars
  <2>2. Len(stack[d]) = 1 => Top(d).dir = arg[d]
    BY <1>0 DEF Shape, FramesNest, Nested, Top, Last
  <2>3. GoneRight(d)'
    BY <1>1, <2>1, <2>2 DEF GoneRight, Answered, Verdict, Exists
  <2> QED BY <1>0, <2>3 DEF Right, CreateRight, SizeRight, TempRight, Has, Answered
<1>2. CASE Goto(d, "subremove")
  <2>1. pc'[d] # "idle"
    BY <1>0, <1>2 DEF Goto, Scalars
  <2> QED BY <2>1, GoingRight
<1> QED BY <1>1, <1>2 DEF RemoveAllAnswers

LEMMA PlainRemoveRight ==
  ASSUME ShapeInv, NEW d \in Callers, PlainRemove(d)
  PROVE  Right(d)'
<1>0. pc[d] \in RemoveLabels /\ UNCHANGED <<op, arg>> /\ tree \in Trees
  BY DEF PlainRemove, RemoveLabels, call, ShapeInv
<1>1. PICK e \in Errnos : RemoveCall(d, Top(d).dir, e) /\ RemoveAllAnswers(d, e = "0")
  BY DEF PlainRemove
<1>2. Top(d).dir \in Paths
  BY <1>0, TopFits
<1>3. ASSUME e = "0" PROVE ~Exists(tree', Top(d).dir)
  <2>1. RemovedIn(tree, tree', Top(d).dir)
    BY <1>1, <1>2, <1>3, RemoveCallStep
  <2> QED BY <1>0, <2>1, RemovedKinds DEF Exists
<1> QED BY <1>0, <1>1, <1>3, RemoveAllAnswersRight

LEMMA GoneStepRight ==
  ASSUME ShapeInv, NEW d \in Callers, Gone(d)
  PROVE  Right(d)'
<1>0. pc[d] \in RemoveLabels /\ UNCHANGED <<tree, op, arg>> /\ Scalars
  BY DEF Gone, RemoveLabels, call, ShapeInv, SameTree
<1>1. PICK b \in BOOLEAN : Asked(d, Top(d).dir, Exists(tree, Top(d).dir), b) /\ RemoveAllAnswers(d, ~b)
  BY DEF Gone
<1>2. ~b => ~Exists(tree, Top(d).dir) \/ "look" \in trouble'[d]
  BY <1>0, <1>1, AskedStep DEF Exists
<1>3. ~b => ~Exists(tree', Top(d).dir) \/ "look" \in trouble'[d]
  BY <1>0, <1>2 DEF Exists
<1>4. (~b) \in BOOLEAN
  OBVIOUS
<1> QED BY <1>0, <1>1, <1>3, <1>4, RemoveAllAnswersRight

LEMMA SizeAnswersRight ==
  ASSUME NEW d, op'[d] = "file_size", SizeRight(d)'
  PROVE  Right(d)'
BY DEF Right, CreateRight, TempRight, GoneRight, Has, Answered

LEMMA FileSizeIsDirectoryRight ==
  ASSUME ShapeInv, NEW d \in Callers, FileSizeIsDirectory(d)
  PROVE  Right(d)'
<1>0. UNCHANGED <<tree, seen, op, arg>> /\ Scalars /\ op[d] = "file_size"
  BY DEF FileSizeIsDirectory, SameTree, ShapeInv, call, Shape, LabelsFit
<1>1. PICK b \in BOOLEAN :
        /\ Asked(d, arg[d], IsDirectory(tree, arg[d]), b)
        /\ \/ b /\ Return(d, "threw error")
           \/ ~b /\ Goto(d, "fs_stat")
  BY DEF FileSizeIsDirectory
<1>2. CASE b /\ Return(d, "threw error")
  <2>1. IsDirectory(tree, arg[d])
    BY <1>0, <1>1, <1>2, AskedStep DEF IsDirectory
  <2>2. result'[d] # "true"
    BY <1>0, <1>2 DEF Return, Scalars
  <2>3. SizeRight(d)'
    BY <1>0, <2>1, <2>2 DEF SizeRight, Answered, IsDirectory, IsRegularFile
  <2> QED BY <1>0, <2>3, SizeAnswersRight
<1>3. CASE Goto(d, "fs_stat")
  <2>1. pc'[d] # "idle"
    BY <1>0, <1>3 DEF Goto, Scalars
  <2> QED BY <2>1, GoingRight
<1> QED BY <1>1, <1>2, <1>3

LEMMA FileSizeStatRight ==
  ASSUME ShapeInv, NEW d \in Callers, FileSizeStat(d), Known(d)
  PROVE  Right(d)'
<1>0. /\ pc[d] = "fs_stat" /\ UNCHANGED <<tree, seen, op, arg>> /\ Scalars /\ op[d] = "file_size"
      /\ Kind(tree, arg[d]) \in {"absent", "dir", "file"}
  BY SomeKind DEF FileSizeStat, SameTree, ShapeInv, Scalars, call, Shape, LabelsFit
<1>1. CASE Exists(tree, arg[d]) /\ Return(d, "true") /\ UNCHANGED <<errno, trouble>>
  <2>1. result'[d] = "true"
    BY <1>0, <1>1 DEF Return, Scalars
  <2>2. ~IsDirectory(tree, arg[d]) \/ "made" \in seen[d] \/ "look" \in trouble[d]
    BY <1>0 DEF Known, LooksHold
  <2>3. SizeRight(d)'
    BY <1>0, <1>1, <2>1, <2>2 DEF SizeRight, Answered, IsDirectory, IsRegularFile, Exists
  <2> QED BY <1>0, <2>3, SizeAnswersRight
<1>2. CASE (~Exists(tree, arg[d]) \/ Fails(d, "look")) /\ Return(d, "threw error")
  <2>1. result'[d] # "true"
    BY <1>0, <1>2 DEF Return, Scalars
  <2>2. ~Exists(tree, arg[d]) \/ "look" \in trouble'[d]
    BY <1>0, <1>2, FailsStep DEF Kinds
  <2>3. SizeRight(d)'
    BY <1>0, <2>1, <2>2 DEF SizeRight, Answered, IsRegularFile, Exists
  <2> QED BY <1>0, <2>3, SizeAnswersRight
<1> QED BY <1>1, <1>2 DEF FileSizeStat

LEMMA RestRight ==
  ASSUME ShapeInv, NEW d \in Callers,
         \/ Begins(d) \/ CreateExists(d) \/ CreateMkdir(d) \/ RemoveOne(d) \/ IsDir(d) \/ Opendir(d)
         \/ Readdir(d) \/ SubDir(d) \/ SubRemove(d) \/ RemoveSelf(d) \/ AnswerRegular(d)
  PROVE  Right(d)'
<1>0. Scalars /\ pc \in [Callers -> Running \union {"idle", "crashed"}]
  BY DEF ShapeInv, Scalars
<1>1. CASE Begins(d)
  <2>1. pc'[d] # "idle"
    BY <1>0, <1>1 DEF Begins, CallCreate, CallRemove, CallRemoveAll, CallAsk, Goto
  <2> QED BY <2>1, GoingRight
<1>2. CASE CreateExists(d) \/ CreateMkdir(d)
  BY <1>2, CreateExistsSays, CreateMkdirSays, GoingRight
<1>3. CASE IsDir(d) \/ Opendir(d) \/ Readdir(d) \/ SubDir(d) \/ RemoveSelf(d)
  <2>1. pc'[d] # "idle"
    BY <1>0, <1>3 DEF IsDir, Opendir, Readdir, SubDir, RemoveSelf, Goto
  <2> QED BY <2>1, GoingRight
<1>4. CASE SubRemove(d)
  <2>1. op[d] = "remove_all" /\ op' = op
    BY <1>4, TopFits DEF SubRemove, RemoveLabels, call
  <2>2. pc'[d] # "idle" \/ result'[d] # "true"
    BY <1>0, <1>4 DEF SubRemove, Goto, Return, Scalars
  <2> QED BY <2>1, <2>2, GoingRight, FalseRight
<1>5. CASE RemoveOne(d) \/ AnswerRegular(d)
  <2>1. op'[d] \in {"remove", "is_regular_file"}
    BY <1>5 DEF RemoveOne, AnswerRegular, call, ShapeInv, Shape, LabelsFit
  <2> QED BY <2>1 DEF Right, CreateRight, SizeRight, TempRight, GoneRight, Has, Answered
<1> QED BY <1>1, <1>2, <1>3, <1>4, <1>5

LEMMA OwnRight ==
  ASSUME ShapeInv, NEW d \in Callers, Begins(d) \/ CallStep(d), Known(d)
  PROVE  Right(d)'
BY CreateFailRight, CreateIsDirectoryRight, MkdtempRight, PlainRemoveRight, GoneStepRight,
   FileSizeIsDirectoryRight, FileSizeStatRight, RestRight DEF CallStep

----------------------------------------------------------------------------
(* remove_all, left alone.                                                  *)

Untouched(c) == op[c] = "remove_all" /\ seen[c] = {} /\ trouble[c] = {} /\ pc[c] # "crashed"

AbsentAlone(c) ==
  Untouched(c) /\ found[c] = "absent" =>
    /\ ~Exists(tree, arg[c]) /\ Len(stack[c]) <= 1
    /\ pc[c] \in {"isdir", "plain", "idle"}
    /\ pc[c] = "idle" => result[c] = "false"

\* How far remove_all has got with a directory that has no directory in it.
Progress(c) ==
  /\ pc[c] = "isdir" => Exists(tree, arg[c])
  /\ pc[c] = "plain" => IsRegularFile(tree, arg[c])
  /\ pc[c] \in {"opendir", "readdir", "subdir", "subremove", "rmself"} => IsDirectory(tree, arg[c])
  /\ pc[c] = "readdir" => Children(tree, arg[c]) = Top(c).left \ {Dots}
  /\ pc[c] \in {"subdir", "subremove"} =>
       Children(tree, arg[c]) = (Top(c).left \ {Dots}) \union {Top(c).sub} /\ Top(c).sub \notin Top(c).left
  /\ pc[c] = "rmself" => Children(tree, arg[c]) = {}
  /\ pc[c] = "gone" => ~Exists(tree, arg[c])
  /\ pc[c] = "idle" => result[c] = "true"

FlatBelow(t, p) == \A n \in Children(t, p) : ~IsDirectory(t, Append(p, n))

FlatAlone(c) ==
  Untouched(c) /\ found[c] = "flat" =>
    /\ Len(stack[c]) <= 1 /\ FlatBelow(tree, arg[c])
    /\ Progress(c)

Alone(c) == AbsentAlone(c) /\ FlatAlone(c)

LEMMA FileIsLeaf ==
  ASSUME ShapeInv, NEW p \in Paths, Kind(tree, p) = "file"
  PROVE  Children(tree, p) = {}
<1> SUFFICES ASSUME NEW n \in Children(tree, p) PROVE FALSE
  OBVIOUS
<1>1. n \in Names /\ Append(p, n) \in Paths /\ Exists(tree, Append(p, n)) /\ p \in Places
  BY DEF Children, Places
<1>2. Front(Append(p, n)) = p
  BY <1>1, AppendedPath
<1>3. IsDirectory(tree, Front(Append(p, n)))
  BY <1>1 DEF ShapeInv, Trees, WellFormed
<1> QED BY <1>2, <1>3 DEF IsDirectory

LEMMA FlatStays ==
  ASSUME NEW t, NEW u, Shrinks(t, u), NEW p, FlatBelow(t, p)
  PROVE  FlatBelow(u, p)
<1> SUFFICES ASSUME NEW n \in Children(u, p) PROVE ~IsDirectory(u, Append(p, n))
  BY DEF FlatBelow
<1>1. n \in Names /\ Append(p, n) \in Paths /\ Kind(u, Append(p, n)) # "absent"
  BY DEF Children, Exists
<1>2. Kind(u, Append(p, n)) = Kind(t, Append(p, n))
  BY <1>1 DEF Shrinks, Places
<1>3. n \in Children(t, p)
  BY <1>1, <1>2 DEF Children, Exists
<1> QED BY <1>2, <1>3 DEF FlatBelow, IsDirectory

LEMMA OnlyOne == ASSUME NEW l \in 1 .. Depth, l <= 1 PROVE l = 1
BY DepthAssumption

\* The outermost invocation works on the path of the call.
LEMMA Outermost ==
  ASSUME ShapeInv, NEW d \in Callers, pc[d] \in RemoveLabels, Len(stack[d]) <= 1
  PROVE  Len(stack[d]) = 1 /\ Top(d).dir = arg[d] /\ arg[d] \in Paths /\ stack[d] # <<>>
<1>1. stack[d] # <<>> /\ Len(stack[d]) \in 1 .. Depth /\ Nested(stack[d], arg[d]) /\ Top(d) = stack[d][Len(stack[d])]
      /\ arg[d] \in Paths
  BY Streams, TopFits
<1>2. Len(stack[d]) = 1
  BY <1>1, OnlyOne
<1> QED BY <1>1, <1>2 DEF Nested

LEMMA AskedQuietly ==
  ASSUME ShapeInv, NEW d \in Callers, NEW p, NEW fact \in BOOLEAN, NEW b \in BOOLEAN, Asked(d, p, fact, b),
         trouble'[d] = {}
  PROVE  trouble[d] = {} /\ (b <=> fact /\ Exists(tree, p))
<1>1. /\ trouble[d] \subseteq trouble'[d]
      /\ b => fact /\ Exists(tree, p)
      /\ ~b => (~fact /\ Exists(tree, p)) \/ ~Exists(tree, p) \/ "look" \in trouble'[d]
  BY AskedStep, TypesGive
<1> QED BY <1>1

LEMMA RemovedQuietly ==
  ASSUME ShapeInv, NEW d \in Callers, NEW p \in Paths, NEW e \in Errnos, RemoveCall(d, p, e), trouble'[d] = {}
  PROVE  /\ trouble[d] = {} /\ seen'[d] = seen[d]
         /\ e = "0" <=> Exists(tree, p) /\ Children(tree, p) = {}
         /\ e = "0" => RemovedIn(tree, tree', p) /\ Shrinks(tree, tree')
         /\ e # "0" => tree' = tree
<1> DEFINE x == RemoveErrno(tree, p)
<1>1. x = "0" <=> Exists(tree, p) /\ Children(tree, p) = {}
  BY RemoveSays
<1>2. Outcome(d, e, x)
  BY DEF RemoveCall
<1> HIDE DEF x
<1>3. trouble[d] \subseteq trouble'[d] /\ (e = x \/ "change" \in trouble'[d])
  BY <1>2, OutcomeStep, TypesGive
<1>4. e = "0" => RemovedIn(tree, tree', p)
  BY RemoveCallStep
<1>5. RemovedIn(tree, tree', p) => Shrinks(tree, tree')
  BY RemovedShrinks DEF ShapeInv
<1>6. seen'[d] = seen[d] /\ (e # "0" => tree' = tree)
  BY DEF RemoveCall, Removed, Noticed, SameTree
<1> QED BY <1>1, <1>3, <1>4, <1>5, <1>6

LEMMA OthersAlone ==
  ASSUME ShapeInv, NEW d \in Callers, Begins(d) \/ CallStep(d), NEW c \in Callers, c # d, Alone(c)
  PROVE  Alone(c)'
<1>1. /\ pc'[c] = pc[c] /\ op'[c] = op[c] /\ arg'[c] = arg[c] /\ stack'[c] = stack[c] /\ result'[c] = result[c]
      /\ trouble'[c] = trouble[c] /\ found'[c] = found[c]
      /\ seen'[c] = {} => tree' = tree /\ seen[c] = {}
  BY OtherStep DEF Noted
<1>2. Untouched(c)' => Untouched(c) /\ tree' = tree
  BY <1>1 DEF Untouched
<1>3. AbsentAlone(c)'
  BY <1>1, <1>2 DEF Alone, AbsentAlone
<1>4. FlatAlone(c)'
  <2> SUFFICES ASSUME Untouched(c)', found[c] = "flat"
               PROVE  Len(stack'[c]) <= 1 /\ FlatBelow(tree', arg'[c]) /\ Progress(c)'
    BY <1>1 DEF FlatAlone
  <2>1. Len(stack[c]) <= 1 /\ FlatBelow(tree, arg[c]) /\ Progress(c)
    BY <1>2 DEF Alone, FlatAlone
  <2>2. Top(c)' = Top(c)
    BY <1>1 DEF Top
  <2>3. Progress(c)'
    BY <1>1, <1>2, <2>1, <2>2 DEF Progress
  <2> QED BY <1>1, <1>2, <2>1, <2>3
<1> QED BY <1>3, <1>4 DEF Alone

\* What is found decides where a call of remove_all starts.
LEMMA CallRemoveAllAlone ==
  ASSUME ShapeInv, NEW d \in Callers, CallRemoveAll(d)
  PROVE  Alone(d)'
<1>1. PICK p \in Paths :
        /\ Begin(d, "remove_all", p)
        /\ Goto(d, "isdir")
        /\ stack' = [stack EXCEPT ![d] = <<Frame(p)>>]
  BY DEF CallRemoveAll
<1>2. tree' = tree /\ arg'[d] = p /\ found'[d] = Find(p) /\ pc'[d] = "isdir" /\ Len(stack'[d]) <= 1
  <2> DEFINE x == Find(p)
             f == <<Frame(p)>>
  <2>1. Len(f) <= 1
    OBVIOUS
  <2>2. Begin(d, "remove_all", p) => tree' = tree /\ arg' = [arg EXCEPT ![d] = p] /\ found' = [found EXCEPT ![d] = x]
    BY DEF Begin
  <2>3. stack' = [stack EXCEPT ![d] = f]
    BY <1>1
  <2> HIDE DEF x, f
  <2>4. stack'[d] = f
    BY <2>3, TypesGive
  <2>5. arg'[d] = p /\ found'[d] = x /\ pc'[d] = "isdir"
    BY <1>1, <2>2, TypesGive DEF Goto, Scalars
  <2>6. Len(stack'[d]) <= 1
    BY <2>1, <2>4
  <2> QED BY <1>1, <2>2, <2>5, <2>6 DEF x
<1>3. Exists(tree, p) \in BOOLEAN
  BY DEF Exists
<1>4. Find(p) = "absent" <=> ~Exists(tree, p)
  BY <1>3 DEF Find
<1>5. Find(p) = "flat" => Exists(tree, p) /\ FlatBelow(tree, p)
  BY <1>3 DEF Find, FlatBelow
<1>6. AbsentAlone(d)'
  BY <1>2, <1>4 DEF AbsentAlone, Exists
<1>7. FlatAlone(d)'
  BY <1>2, <1>5 DEF FlatAlone, Progress, Exists, FlatBelow
<1> QED BY <1>6, <1>7 DEF Alone

\* The outermost invocation answers the client.
LEMMA AnswersAlone ==
  ASSUME ShapeInv, NEW d \in Callers, pc[d] \in RemoveLabels, Len(stack[d]) <= 1,
         NEW b \in BOOLEAN, RemoveAllAnswers(d, b)
  PROVE  pc'[d] = "idle" /\ result'[d] = Verdict(b) /\ Len(stack'[d]) <= 1
<1>1. Len(stack[d]) = 1 /\ stack \in [Callers -> Seq(Frames)] /\ Scalars
  BY Outermost, TypesGive
<1>2. ~(Len(stack[d]) > 1)
  BY <1>1
<1>3. Return(d, Verdict(b))
  BY <1>2 DEF RemoveAllAnswers
<1>4. pc'[d] = "idle" /\ result'[d] = Verdict(b) /\ stack'[d] = <<>>
  BY <1>1, <1>3 DEF Return, Goto, Scalars
<1>5. Len(stack'[d]) = 0
  BY <1>4
<1> QED BY <1>4, <1>5

LEMMA IsDirAlone ==
  ASSUME ShapeInv, NEW d \in Callers, IsDir(d), Alone(d)
  PROVE  Alone(d)'
<1>0. /\ pc[d] = "isdir" /\ pc[d] \in RemoveLabels /\ pc[d] # "crashed"
      /\ UNCHANGED <<tree, seen, op, arg, found, stack>> /\ Scalars
  BY DEF IsDir, SameTree, call, RemoveLabels, ShapeInv
<1>1. PICK b \in BOOLEAN :
        /\ Asked(d, Top(d).dir, IsDirectory(tree, Top(d).dir), b)
        /\ Goto(d, IF b THEN "opendir" ELSE "plain")
  BY DEF IsDir
<1>2. pc'[d] = IF b THEN "opendir" ELSE "plain"
  BY <1>0, <1>1 DEF Goto, Scalars
<1>3. Untouched(d)' => Untouched(d) /\ (b <=> IsDirectory(tree, Top(d).dir))
  BY <1>0, <1>1, AskedQuietly DEF Untouched, IsDirectory, Exists
<1>4. AbsentAlone(d)'
  <2> SUFFICES ASSUME Untouched(d)', found[d] = "absent"
               PROVE  ~Exists(tree, arg[d]) /\ Len(stack[d]) <= 1 /\ pc'[d] = "plain"
    BY <1>0 DEF AbsentAlone
  <2>1. ~Exists(tree, arg[d]) /\ Len(stack[d]) <= 1
    BY <1>3 DEF Alone, AbsentAlone
  <2>2. Top(d).dir = arg[d]
    BY <1>0, <2>1, Outermost
  <2> QED BY <1>2, <1>3, <2>1, <2>2 DEF Exists, IsDirectory
<1>5. FlatAlone(d)'
  <2> SUFFICES ASSUME Untouched(d)', found[d] = "flat"
               PROVE  Len(stack[d]) <= 1 /\ FlatBelow(tree, arg[d]) /\ Progress(d)'
    BY <1>0 DEF FlatAlone
  <2>1. Len(stack[d]) <= 1 /\ FlatBelow(tree, arg[d]) /\ Progress(d)
    BY <1>3 DEF Alone, FlatAlone
  <2>2. Top(d).dir = arg[d] /\ arg[d] \in Paths
    BY <1>0, <2>1, Outermost
  <2>3. Kind(tree, arg[d]) \in {"dir", "file"}
    BY <1>0, <2>1, <2>2, SomeKind DEF Progress, Exists, Places
  <2>4. IF b THEN Kind(tree, arg[d]) = "dir" ELSE Kind(tree, arg[d]) = "file"
    BY <1>3, <2>2, <2>3 DEF IsDirectory
  <2>5. Progress(d)'
    BY <1>0, <1>2, <2>4 DEF Progress, IsDirectory, IsRegularFile
  <2> QED BY <2>1, <2>5
<1> QED BY <1>4, <1>5 DEF Alone

LEMMA PlainRemoveAlone ==
  ASSUME ShapeInv, NEW d \in Callers, PlainRemove(d), Alone(d)
  PROVE  Alone(d)'
<1>0. /\ pc[d] = "plain" /\ pc[d] \in RemoveLabels /\ pc[d] # "crashed" /\ UNCHANGED <<op, arg, found>>
  BY DEF PlainRemove, call, RemoveLabels
<1>1. PICK e \in Errnos : RemoveCall(d, Top(d).dir, e) /\ RemoveAllAnswers(d, e = "0")
  BY DEF PlainRemove
<1>2. Top(d).dir \in Paths
  BY <1>0, TopFits
<1>3. ASSUME Untouched(d)' PROVE Untouched(d)
  BY <1>0, <1>1, <1>2, <1>3, RemovedQuietly DEF Untouched
<1>4. AbsentAlone(d)'
  <2> SUFFICES ASSUME Untouched(d)', found[d] = "absent"
               PROVE  ~Exists(tree', arg[d]) /\ Len(stack'[d]) <= 1 /\ pc'[d] = "idle" /\ result'[d] = "false"
    BY <1>0 DEF AbsentAlone
  <2>1. ~Exists(tree, arg[d]) /\ Len(stack[d]) <= 1
    BY <1>3 DEF Alone, AbsentAlone
  <2>2. Top(d).dir = arg[d] /\ trouble'[d] = {}
    BY <1>0, <2>1, Outermost DEF Untouched
  <2>3. e # "0" /\ tree' = tree
    BY <1>1, <1>2, <2>1, <2>2, RemovedQuietly
  <2>4. RemoveAllAnswers(d, FALSE)
    BY <1>1, <2>3
  <2> QED BY <1>0, <2>1, <2>3, <2>4, AnswersAlone DEF Verdict
<1>5. FlatAlone(d)'
  <2> SUFFICES ASSUME Untouched(d)', found[d] = "flat"
               PROVE  Len(stack'[d]) <= 1 /\ FlatBelow(tree', arg[d]) /\ Progress(d)'
    BY <1>0 DEF FlatAlone
  <2>1. Len(stack[d]) <= 1 /\ FlatBelow(tree, arg[d]) /\ Kind(tree, arg[d]) = "file"
    BY <1>0, <1>3 DEF Alone, FlatAlone, Progress, IsRegularFile
  <2>2. Top(d).dir = arg[d] /\ arg[d] \in Paths /\ trouble'[d] = {}
    BY <1>0, <2>1, Outermost DEF Untouched
  <2>3. Exists(tree, arg[d]) /\ Children(tree, arg[d]) = {}
    BY <2>1, <2>2, FileIsLeaf DEF Exists
  <2>4. e = "0" /\ Shrinks(tree, tree')
    BY <1>1, <2>2, <2>3, RemovedQuietly
  <2>5. RemoveAllAnswers(d, TRUE)
    BY <1>1, <2>4
  <2>6. pc'[d] = "idle" /\ result'[d] = "true" /\ Len(stack'[d]) <= 1
    BY <1>0, <2>1, <2>5, AnswersAlone DEF Verdict
  <2>7. FlatBelow(tree', arg[d])
    BY <2>1, <2>4, FlatStays
  <2> QED BY <2>6, <2>7 DEF Progress
<1> QED BY <1>4, <1>5 DEF Alone

LEMMA NotAbsent ==
  ASSUME NEW d \in Callers, Alone(d), pc[d] \notin {"isdir", "plain", "idle"}, Untouched(d)' => Untouched(d),
         found'[d] = found[d]
  PROVE  AbsentAlone(d)'
BY DEF Alone, AbsentAlone

LEMMA AppendToFront ==
  ASSUME NEW S, NEW s \in Seq(S), s # <<>>, NEW f
  PROVE  Len(Append(Front(s), f)) = Len(s) /\ Last(Append(Front(s), f)) = f
<1> DEFINE w == Front(s)
<1>1. w \in Seq(S) /\ Len(w) = Len(s) - 1 /\ Len(s) \in Nat \ {0}
  BY FrontElements
<1> HIDE DEF w
<1>2. Len(Append(w, f)) = Len(w) + 1 /\ Append(w, f)[Len(w) + 1] = f
  BY <1>1
<1>3. Len(Append(w, f)) = Len(s) /\ Last(Append(w, f)) = f
  BY <1>1, <1>2 DEF Last
<1> QED BY <1>3 DEF w

LEMMA TopAfter ==
  ASSUME ShapeInv, NEW d \in Callers, pc[d] \in RemoveLabels, NEW f, SetTop(d, f)
  PROVE  Top(d)' = f /\ Len(stack'[d]) = Len(stack[d])
<1>1. stack[d] \in Seq(Frames) /\ stack[d] # <<>> /\ stack \in [Callers -> Seq(Frames)]
  BY Streams, TypesGive
<1>2. stack'[d] = Append(Front(stack[d]), f)
  BY <1>1 DEF SetTop
<1> QED BY <1>1, <1>2, AppendToFront DEF Top

LEMMA OpendirAlone ==
  ASSUME ShapeInv, NEW d \in Callers, Opendir(d), Alone(d)
  PROVE  Alone(d)'
<1>0. /\ pc[d] = "opendir" /\ pc[d] \in RemoveLabels /\ pc[d] # "crashed"
      /\ UNCHANGED <<tree, seen, op, arg, found>> /\ Scalars
  BY DEF Opendir, SameTree, call, RemoveLabels, ShapeInv
<1>1. CASE Goto(d, "crashed")
  <2>1. pc'[d] = "crashed"
    BY <1>0, <1>1 DEF Goto, Scalars
  <2> QED BY <2>1 DEF Alone, AbsentAlone, FlatAlone, Untouched
<1>2. CASE /\ UNCHANGED trouble
           /\ SetTop(d, [Top(d) EXCEPT !.left = Children(tree, Top(d).dir) \union {Dots}])
           /\ Goto(d, "readdir")
  <2>1. Untouched(d)' => Untouched(d)
    BY <1>0, <1>2 DEF Untouched
  <2>2. AbsentAlone(d)'
    BY <1>0, <2>1, NotAbsent
  <2>3. FlatAlone(d)'
    <3> SUFFICES ASSUME Untouched(d), found[d] = "flat"
                 PROVE  Len(stack'[d]) <= 1 /\ FlatBelow(tree, arg[d]) /\ Progress(d)'
      BY <1>0, <2>1 DEF FlatAlone
    <3>1. Len(stack[d]) <= 1 /\ FlatBelow(tree, arg[d]) /\ IsDirectory(tree, arg[d])
      BY <1>0 DEF Alone, FlatAlone, Progress
    <3>2. Top(d).dir = arg[d] /\ Top(d) \in Frames
      BY <1>0, <3>1, Outermost, TopFits
    <3> DEFINE left == Children(tree, Top(d).dir) \union {Dots}
               f == [Top(d) EXCEPT !.left = left]
    <3>3. f.left = left
      BY <3>2 DEF Frames
    <3>4. left \ {Dots} = Children(tree, arg[d])
      BY <3>2, DotsAssumption DEF Children
    <3>5. SetTop(d, f)
      BY <1>2
    <3> HIDE DEF f, left
    <3>6. Top(d)' = f /\ Len(stack'[d]) = Len(stack[d])
      BY <1>0, <3>5, TopAfter
    <3>7. pc'[d] = "readdir"
      BY <1>0, <1>2 DEF Goto, Scalars
    <3>8. Progress(d)'
      BY <1>0, <3>1, <3>3, <3>4, <3>6, <3>7 DEF Progress, IsDirectory
    <3> QED BY <3>1, <3>6, <3>8
  <2> QED BY <2>2, <2>3 DEF Alone
<1> QED BY <1>1, <1>2 DEF Opendir

LEMMA ReaddirAlone ==
  ASSUME ShapeInv, NEW d \in Callers, Readdir(d), Alone(d)
  PROVE  Alone(d)'
<1>0. /\ pc[d] = "readdir" /\ pc[d] \in RemoveLabels /\ pc[d] # "crashed"
      /\ UNCHANGED <<tree, seen, op, arg, found>> /\ Scalars
  BY DEF Readdir, SameTree, call, RemoveLabels, ShapeInv
<1>1. ASSUME NEW n \in Listable(d), SetTop(d, [Top(d) EXCEPT !.left = @ \ {n}, !.sub = n]),
             Goto(d, IF n = Dots THEN "readdir" ELSE "subdir"), UNCHANGED trouble
      PROVE  Alone(d)'
  <2>1. Untouched(d)' => Untouched(d)
    BY <1>0, <1>1 DEF Untouched
  <2>2. AbsentAlone(d)'
    BY <1>0, <2>1, NotAbsent
  <2>3. FlatAlone(d)'
    <3> SUFFICES ASSUME Untouched(d), found[d] = "flat"
                 PROVE  Len(stack'[d]) <= 1 /\ FlatBelow(tree, arg[d]) /\ Progress(d)'
      BY <1>0, <2>1 DEF FlatAlone
    <3>1. Len(stack[d]) <= 1 /\ FlatBelow(tree, arg[d]) /\ IsDirectory(tree, arg[d])
          /\ Children(tree, arg[d]) = Top(d).left \ {Dots}
      BY <1>0 DEF Alone, FlatAlone, Progress
    <3>2. Top(d) \in Frames /\ Top(d).dir = arg[d]
      BY <1>0, <3>1, TopFits, Outermost
    <3>0. n \in Top(d).left
      BY <1>1, <3>1, <3>2 DEF Listable
    <3> DEFINE f == [Top(d) EXCEPT !.left = @ \ {n}, !.sub = n]
               l == IF n = Dots THEN "readdir" ELSE "subdir"
    <3>3. f.left = Top(d).left \ {n} /\ f.sub = n
      BY <3>2 DEF Frames
    <3>4. SetTop(d, f) /\ Goto(d, l)
      BY <1>1
    <3>5. IF n = Dots THEN l = "readdir" ELSE l = "subdir"
      OBVIOUS
    <3> HIDE DEF f, l
    <3>6. Top(d)' = f /\ Len(stack'[d]) = Len(stack[d])
      BY <1>0, <3>4, TopAfter
    <3>7. pc'[d] = l
      BY <1>0, <3>4 DEF Goto, Scalars
    <3>8. n = Dots => Children(tree, arg[d]) = f.left \ {Dots}
      BY <3>1, <3>3
    <3>9. n # Dots => Children(tree, arg[d]) = (f.left \ {Dots}) \union {f.sub} /\ f.sub \notin f.left
      BY <3>0, <3>1, <3>3
    <3>10. Progress(d)'
      BY <1>0, <3>1, <3>5, <3>6, <3>7, <3>8, <3>9 DEF Progress, IsDirectory
    <3> QED BY <3>1, <3>6, <3>10
  <2> QED BY <2>2, <2>3 DEF Alone
<1>2. CASE /\ ((\A n \in Top(d).left : ~Listed(d, n)) /\ UNCHANGED trouble) \/ Fails(d, "list")
           /\ Goto(d, "rmself") /\ UNCHANGED stack
  <2>0. ((\A n \in Top(d).left : ~Listed(d, n)) /\ UNCHANGED trouble) \/ Fails(d, "list")
    BY <1>2
  <2>1. Untouched(d)' => Untouched(d) /\ \A n \in Top(d).left : ~Listed(d, n)
    <3>1. Fails(d, "list") => trouble'[d] # {}
      BY <1>0, FailsStep DEF Kinds
    <3>2. trouble'[d] = {} => trouble' = trouble /\ \A n \in Top(d).left : ~Listed(d, n)
      BY <2>0, <3>1
    <3> QED BY <1>0, <3>2 DEF Untouched
  <2>2. AbsentAlone(d)'
    BY <1>0, <2>1, NotAbsent
  <2>3. FlatAlone(d)'
    <3> SUFFICES ASSUME Untouched(d)', found[d] = "flat"
                 PROVE  Len(stack[d]) <= 1 /\ FlatBelow(tree, arg[d]) /\ Progress(d)'
      BY <1>0, <1>2 DEF FlatAlone
    <3>1. Len(stack[d]) <= 1 /\ FlatBelow(tree, arg[d]) /\ IsDirectory(tree, arg[d])
          /\ Children(tree, arg[d]) = Top(d).left \ {Dots}
      BY <1>0, <2>1 DEF Alone, FlatAlone, Progress
    <3>2. Top(d).dir = arg[d]
      BY <1>0, <3>1, Outermost
    <3>3. Children(tree, arg[d]) = {}
      <4> SUFFICES ASSUME NEW n \in Children(tree, arg[d]) PROVE FALSE
        OBVIOUS
      <4>1. ~Listed(d, n) /\ n # Dots
        BY <2>1, <3>1
      <4>2. Exists(tree, Append(arg[d], n))
        BY DEF Children
      <4> QED BY <3>2, <4>1, <4>2 DEF Listed
    <3>4. pc'[d] = "rmself"
      BY <1>0, <1>2 DEF Goto, Scalars
    <3>5. Progress(d)'
      BY <1>0, <3>1, <3>3, <3>4 DEF Progress, IsDirectory
    <3> QED BY <3>1, <3>5
  <2> QED BY <2>2, <2>3 DEF Alone
<1> QED BY <1>1, <1>2 DEF Readdir

\* The entry at which remove_all is, in a directory without directories in it.
LEMMA FlatEntry ==
  ASSUME ShapeInv, NEW d \in Callers, pc[d] \in {"subdir", "subremove"}, Untouched(d), found[d] = "flat", Alone(d)
  PROVE  /\ SubPath(d) \in Paths /\ SubPath(d) = Append(arg[d], Top(d).sub) /\ Kind(tree, SubPath(d)) = "file"
         /\ Len(stack[d]) <= 1 /\ Top(d).dir = arg[d] /\ FlatBelow(tree, arg[d]) /\ IsDirectory(tree, arg[d])
         /\ Children(tree, arg[d]) = (Top(d).left \ {Dots}) \union {Top(d).sub} /\ Top(d).sub \notin Top(d).left
         /\ Top(d).sub \in Names
<1>1. /\ Len(stack[d]) <= 1 /\ FlatBelow(tree, arg[d]) /\ IsDirectory(tree, arg[d])
      /\ Children(tree, arg[d]) = (Top(d).left \ {Dots}) \union {Top(d).sub} /\ Top(d).sub \notin Top(d).left
  BY DEF Alone, FlatAlone, Progress
<1>2. Top(d).dir = arg[d]
  BY <1>1, Outermost DEF RemoveLabels
<1>3. SubPath(d) \in Paths /\ SubPath(d) = Append(arg[d], Top(d).sub) /\ Top(d).sub \in Names
  BY <1>2, SubFits
<1>4. Top(d).sub \in Children(tree, arg[d])
  BY <1>1
<1>5. Exists(tree, SubPath(d)) /\ ~IsDirectory(tree, SubPath(d))
  BY <1>1, <1>3, <1>4 DEF Children, FlatBelow
<1>6. Kind(tree, SubPath(d)) = "file"
  BY <1>3, <1>5, SomeKind DEF Places, Exists, IsDirectory
<1> QED BY <1>1, <1>2, <1>3, <1>6

LEMMA SubDirAlone ==
  ASSUME ShapeInv, NEW d \in Callers, SubDir(d), Alone(d)
  PROVE  Alone(d)'
<1>0. /\ pc[d] = "subdir" /\ pc[d] \in RemoveLabels /\ pc[d] # "crashed"
      /\ UNCHANGED <<tree, seen, op, arg, found>> /\ Scalars
  BY DEF SubDir, SameTree, call, RemoveLabels, ShapeInv
<1>1. PICK b \in BOOLEAN :
        /\ Asked(d, SubPath(d), IsDirectory(tree, SubPath(d)), b)
        /\ \/ b /\ Goto(d, "isdir") /\ stack' = [stack EXCEPT ![d] = Append(@, Frame(SubPath(d)))]
           \/ ~b /\ Goto(d, "subremove") /\ UNCHANGED stack
  BY DEF SubDir
<1>2. Untouched(d)' => Untouched(d) /\ (b => IsDirectory(tree, SubPath(d)))
  BY <1>0, <1>1, AskedQuietly DEF Untouched, IsDirectory
<1>3. AbsentAlone(d)'
  BY <1>0, <1>2, NotAbsent
<1>4. FlatAlone(d)'
  <2> SUFFICES ASSUME Untouched(d)', found[d] = "flat"
               PROVE  Len(stack'[d]) <= 1 /\ FlatBelow(tree, arg[d]) /\ Progress(d)'
    BY <1>0 DEF FlatAlone
  <2>1. /\ Kind(tree, SubPath(d)) = "file" /\ Len(stack[d]) <= 1 /\ FlatBelow(tree, arg[d]) /\ IsDirectory(tree, arg[d])
        /\ Children(tree, arg[d]) = (Top(d).left \ {Dots}) \union {Top(d).sub} /\ Top(d).sub \notin Top(d).left
    BY <1>0, <1>2, FlatEntry
  <2>2. ~b
    BY <1>2, <2>1 DEF IsDirectory
  <2>3. pc'[d] = "subremove" /\ stack' = stack
    BY <1>0, <1>1, <2>2 DEF Goto, Scalars
  <2>4. Progress(d)'
    BY <1>0, <2>1, <2>3 DEF Progress, IsDirectory, Top
  <2> QED BY <2>1, <2>3, <2>4
<1> QED BY <1>3, <1>4 DEF Alone

\* An entry that was removed is no child any more.
LEMMA OneChildLess ==
  ASSUME ShapeInv, NEW p \in Paths, NEW n \in Names, RemovedIn(tree, tree', Append(p, n))
  PROVE  Kind(tree', p) = Kind(tree, p) /\ Children(tree', p) = Children(tree, p) \ {n}
<1>1. p \in Places /\ tree \in Trees
  BY DEF Places, ShapeInv
<1>2. Append(p, n) # p
  <2>1. p \in Seq(Names)
    BY PathIsSeq
  <2>2. Len(Append(p, n)) = Len(p) + 1 /\ Len(p) \in Nat
    BY <2>1
  <2>3. Len(Append(p, n)) # Len(p)
    BY <2>2
  <2> QED BY <2>3
<1>3. /\ Kind(tree', Append(p, n)) = "absent"
      /\ \A q \in Places : q # Append(p, n) => Kind(tree', q) = Kind(tree, q)
  <2> DEFINE r == Append(p, n)
             u == tree'
  <2>1. RemovedIn(tree, u, r)
    OBVIOUS
  <2> HIDE DEF r, u
  <2>2. Kind(u, r) = "absent" /\ \A q \in Places : q # r => Kind(u, q) = Kind(tree, q)
    BY <1>1, <2>1, RemovedKinds
  <2> QED BY <2>2 DEF r, u
<1>4. ASSUME NEW m \in Names, Append(p, m) \in Paths
      PROVE  Exists(tree', Append(p, m)) <=> Exists(tree, Append(p, m)) /\ m # n
  <2>1. m # n => Append(p, m) # Append(p, n)
    BY <1>1, AppendsDiffer
  <2> QED BY <1>3, <1>4, <2>1 DEF Exists, Places
<1>5. Children(tree', p) = Children(tree, p) \ {n}
  BY <1>4 DEF Children
<1> QED BY <1>1, <1>2, <1>3, <1>5

LEMMA SubRemoveAlone ==
  ASSUME ShapeInv, NEW d \in Callers, SubRemove(d), Alone(d)
  PROVE  Alone(d)'
<1>0. pc[d] = "subremove" /\ pc[d] # "crashed" /\ UNCHANGED <<op, arg, found>> /\ Scalars
  BY DEF SubRemove, call, ShapeInv
<1>1. PICK e \in Errnos :
        /\ RemoveCall(d, SubPath(d), e)
        /\ \/ e = "0" /\ Goto(d, "readdir") /\ UNCHANGED <<pos, stack, result>>
           \/ e # "0" /\ Return(d, "false")
  BY DEF SubRemove
<1>2. SubPath(d) \in Paths
  BY <1>0, SubFits
<1>3. Untouched(d)' => Untouched(d)
  BY <1>0, <1>1, <1>2, RemovedQuietly DEF Untouched
<1>4. AbsentAlone(d)'
  BY <1>0, <1>3, NotAbsent
<1>5. FlatAlone(d)'
  <2> SUFFICES ASSUME Untouched(d)', found[d] = "flat"
               PROVE  Len(stack'[d]) <= 1 /\ FlatBelow(tree', arg[d]) /\ Progress(d)'
    BY <1>0 DEF FlatAlone
  <2>1. /\ SubPath(d) = Append(arg[d], Top(d).sub) /\ Top(d).sub \in Names /\ Kind(tree, SubPath(d)) = "file"
        /\ Len(stack[d]) <= 1 /\ FlatBelow(tree, arg[d]) /\ IsDirectory(tree, arg[d])
        /\ Children(tree, arg[d]) = (Top(d).left \ {Dots}) \union {Top(d).sub} /\ Top(d).sub \notin Top(d).left
    BY <1>0, <1>3, FlatEntry
  <2>2. Exists(tree, SubPath(d)) /\ Children(tree, SubPath(d)) = {} /\ trouble'[d] = {}
    BY <1>2, <2>1, FileIsLeaf DEF Exists, Untouched
  <2>3. e = "0" /\ Shrinks(tree, tree') /\ RemovedIn(tree, tree', SubPath(d))
    BY <1>1, <1>2, <2>2, RemovedQuietly
  <2>4. pc'[d] = "readdir" /\ stack' = stack
    BY <1>0, <1>1, <2>3 DEF Goto, Scalars
  <2>5. arg[d] \in Paths
    BY <1>0, TopFits DEF RemoveLabels
  <2>6. Kind(tree', arg[d]) = Kind(tree, arg[d]) /\ Children(tree', arg[d]) = Children(tree, arg[d]) \ {Top(d).sub}
    BY <2>1, <2>3, <2>5, OneChildLess
  <2>7. FlatBelow(tree', arg[d])
    BY <2>1, <2>3, FlatStays
  <2>8. Children(tree', arg[d]) = Top(d).left \ {Dots}
    BY <2>1, <2>6
  <2>9. Progress(d)'
    BY <1>0, <2>1, <2>4, <2>6, <2>8 DEF Progress, IsDirectory, Top
  <2> QED BY <2>1, <2>4, <2>7, <2>9
<1> QED BY <1>4, <1>5 DEF Alone

LEMMA RemoveSelfAlone ==
  ASSUME ShapeInv, NEW d \in Callers, RemoveSelf(d), Alone(d)
  PROVE  Alone(d)'
<1>0. /\ pc[d] = "rmself" /\ pc[d] \in RemoveLabels /\ pc[d] # "crashed" /\ UNCHANGED <<op, arg, found, stack>>
      /\ Scalars /\ tree \in Trees
  BY DEF RemoveSelf, call, RemoveLabels, ShapeInv
<1>1. PICK e \in Errnos : RemoveCall(d, Top(d).dir, e)
  BY DEF RemoveSelf
<1>2. Top(d).dir \in Paths
  BY <1>0, TopFits
<1>3. Untouched(d)' => Untouched(d)
  BY <1>0, <1>1, <1>2, RemovedQuietly DEF Untouched
<1>4. AbsentAlone(d)'
  BY <1>0, <1>3, NotAbsent
<1>5. FlatAlone(d)'
  <2> SUFFICES ASSUME Untouched(d)', found[d] = "flat"
               PROVE  Len(stack[d]) <= 1 /\ FlatBelow(tree', arg[d]) /\ Progress(d)'
    BY <1>0 DEF FlatAlone
  <2>1. /\ Len(stack[d]) <= 1 /\ FlatBelow(tree, arg[d]) /\ Exists(tree, arg[d]) /\ Children(tree, arg[d]) = {}
        /\ trouble'[d] = {}
    BY <1>0, <1>3 DEF Alone, FlatAlone, Progress, Exists, IsDirectory, Untouched
  <2>2. Top(d).dir = arg[d]
    BY <1>0, <2>1, Outermost
  <2>3. Shrinks(tree, tree') /\ RemovedIn(tree, tree', arg[d])
    BY <1>1, <1>2, <2>1, <2>2, RemovedQuietly
  <2>4. ~Exists(tree', arg[d])
    BY <1>0, <2>3, RemovedKinds DEF Exists
  <2>5. FlatBelow(tree', arg[d])
    BY <2>1, <2>3, FlatStays
  <2>6. pc'[d] = "gone"
    BY <1>0 DEF RemoveSelf, Goto, Scalars
  <2>7. Progress(d)'
    BY <1>0, <2>4, <2>6 DEF Progress, Exists
  <2> QED BY <2>1, <2>5, <2>7
<1> QED BY <1>4, <1>5 DEF Alone

LEMMA GoneAlone ==
  ASSUME ShapeInv, NEW d \in Callers, Gone(d), Alone(d)
  PROVE  Alone(d)'
<1>0. /\ pc[d] = "gone" /\ pc[d] \in RemoveLabels /\ pc[d] # "crashed"
      /\ UNCHANGED <<tree, seen, op, arg, found>>
  BY DEF Gone, call, RemoveLabels, SameTree
<1>1. PICK b \in BOOLEAN : Asked(d, Top(d).dir, Exists(tree, Top(d).dir), b) /\ RemoveAllAnswers(d, ~b)
  BY DEF Gone
<1>2. Untouched(d)' => Untouched(d) /\ (b => Exists(tree, Top(d).dir))
  BY <1>0, <1>1, AskedQuietly DEF Untouched, Exists
<1>3. AbsentAlone(d)'
  BY <1>0, <1>2, NotAbsent
<1>4. FlatAlone(d)'
  <2> SUFFICES ASSUME Untouched(d)', found[d] = "flat"
               PROVE  Len(stack'[d]) <= 1 /\ FlatBelow(tree, arg[d]) /\ Progress(d)'
    BY <1>0 DEF FlatAlone
  <2>1. Len(stack[d]) <= 1 /\ FlatBelow(tree, arg[d]) /\ ~Exists(tree, arg[d])
    BY <1>0, <1>2 DEF Alone, FlatAlone, Progress
  <2>2. Top(d).dir = arg[d]
    BY <1>0, <2>1, Outermost
  <2>3. RemoveAllAnswers(d, TRUE)
    BY <1>1, <1>2, <2>1, <2>2
  <2>4. pc'[d] = "idle" /\ result'[d] = "true" /\ Len(stack'[d]) <= 1
    BY <1>0, <2>1, <2>3, AnswersAlone DEF Verdict
  <2> QED BY <2>1, <2>4 DEF Progress
<1> QED BY <1>3, <1>4 DEF Alone

LEMMA RestAlone ==
  ASSUME ShapeInv, NEW d \in Callers,
         \/ CallCreate(d) \/ CallRemove(d) \/ CallAsk(d)
         \/ CreateExists(d) \/ CreateMkdir(d) \/ CreateFail(d) \/ CreateIsDirectory(d) \/ Mkdtemp(d)
         \/ RemoveOne(d) \/ FileSizeIsDirectory(d) \/ FileSizeStat(d) \/ AnswerRegular(d)
  PROVE  Alone(d)'
<1>1. CASE CallCreate(d) \/ CallRemove(d) \/ CallAsk(d)
  <2>1. op'[d] # "remove_all"
    BY <1>1, TypesGive, ZenonT(60) DEF CallCreate, CallRemove, CallAsk, Begin, Scalars
  <2> QED BY <2>1 DEF Alone, AbsentAlone, FlatAlone, Untouched
<1>2. CASE ~(CallCreate(d) \/ CallRemove(d) \/ CallAsk(d))
  <2>1. op' = op /\ pc[d] \in CreateLabels \union AskLabels \union {"mkdtemp", "remove"}
    BY <1>2 DEF CreateExists, CreateMkdir, CreateFail, CreateIsDirectory, Mkdtemp, RemoveOne, FileSizeIsDirectory,
                FileSizeStat, AnswerRegular, call, CreateLabels, AskLabels
  <2>2. op[d] # "remove_all"
    BY <2>1 DEF ShapeInv, Shape, LabelsFit, CreateOps, AskLabels
  <2> QED BY <2>1, <2>2 DEF Alone, AbsentAlone, FlatAlone, Untouched
<1> QED BY <1>1, <1>2

LEMMA OwnAlone ==
  ASSUME ShapeInv, NEW d \in Callers, Begins(d) \/ CallStep(d), Alone(d)
  PROVE  Alone(d)'
BY CallRemoveAllAlone, IsDirAlone, PlainRemoveAlone, OpendirAlone, ReaddirAlone, SubDirAlone, SubRemoveAlone,
   RemoveSelfAlone, GoneAlone, RestAlone DEF Begins, CallStep

----------------------------------------------------------------------------
(* Temporary directories.                                                   *)

TempsDiffer == \A c, d \in Callers : Has(c) /\ Has(d) /\ temp[c] = temp[d] => c = d

\* Only mkdtemp gives one.
LEMMA GivenByMkdtemp ==
  ASSUME ShapeInv, NEW d \in Callers, Begins(d) \/ CallStep(d), Has(d)'
  PROVE  Mkdtemp(d)
<1>0. Scalars /\ pc'[d] = "idle" /\ op'[d] = "create_temp_directory" /\ result'[d] = "true"
  BY DEF ShapeInv, Has, Answered
<1>1. ~Begins(d)
  BY <1>0 DEF Begins, CallCreate, CallRemove, CallRemoveAll, CallAsk, Goto, Scalars
<1>2. ~(CreateExists(d) \/ CreateMkdir(d))
  BY <1>0, CreateExistsSays, CreateMkdirSays
<1>3. ASSUME NEW b, CreateAnswers(d, b), op' = op PROVE FALSE
  BY <1>0, <1>3 DEF CreateAnswers, Goto, Throw, Return, Scalars
<1>4. ~CreateFail(d)
  BY <1>3 DEF CreateFail, call
<1>5. ~CreateIsDirectory(d)
  <2>1. CASE Goto(d, "cd_fail")
    BY <1>0, <2>1 DEF Goto, Scalars
  <2> QED BY <1>3, <2>1 DEF CreateIsDirectory, call
<1>6. pc[d] \notin RemoveLabels \union AskLabels \union {"remove"} \/ op' # op
  BY <1>0 DEF ShapeInv, Shape, LabelsFit, AskLabels
<1>7. ~(RemoveOne(d) \/ FileSizeIsDirectory(d) \/ FileSizeStat(d) \/ AnswerRegular(d))
  BY <1>6 DEF RemoveOne, FileSizeIsDirectory, FileSizeStat, AnswerRegular, call, AskLabels
<1>8. ~(IsDir(d) \/ PlainRemove(d) \/ Opendir(d) \/ Readdir(d) \/ SubDir(d) \/ SubRemove(d) \/ RemoveSelf(d)
        \/ Gone(d))
  BY <1>6 DEF IsDir, PlainRemove, Opendir, Readdir, SubDir, SubRemove, RemoveSelf, Gone, call, RemoveLabels
<1> QED BY <1>1, <1>2, <1>4, <1>5, <1>7, <1>8 DEF CallStep

LEMMA OthersHad ==
  ASSUME ShapeInv, NEW d \in Callers, Begins(d) \/ CallStep(d), NEW c \in Callers, c # d, Has(c)'
  PROVE  Has(c) /\ temp'[c] = temp[c]
<1>1. /\ pc'[c] = pc[c] /\ op'[c] = op[c] /\ temp'[c] = temp[c] /\ result'[c] = result[c]
      /\ seen[c] \subseteq seen'[c]
  BY OtherStep DEF Noted
<1> QED BY <1>1 DEF Has, Answered

LEMMA TempsStayDifferent ==
  ASSUME ShapeInv, TempsDiffer, \A c \in Callers : Right(c), NEW d \in Callers, Begins(d) \/ CallStep(d)
  PROVE  TempsDiffer'
<1>1. ASSUME NEW c \in Callers, c # d, Has(c)', Has(d)' PROVE temp'[c] # temp'[d]
  <2>1. Has(c) /\ temp'[c] = temp[c]
    BY <1>1, OthersHad
  <2>2. IsDirectory(tree, temp[c])
    BY <2>1 DEF Right, TempRight
  <2>3. Mkdtemp(d) /\ result'[d] = "true"
    BY <1>1, GivenByMkdtemp DEF Has, Answered
  <2>4. MadeIn(tree, tree', temp'[d])
    BY <2>3, MkdtempMakes
  <2>5. ~Exists(tree, temp'[d])
    BY <2>4 DEF MadeIn
  <2> QED BY <2>1, <2>2, <2>5 DEF Exists, IsDirectory
<1>2. ASSUME NEW c \in Callers, NEW e \in Callers, c # d, e # d, Has(c)', Has(e)', temp'[c] = temp'[e]
      PROVE  c = e
  BY <1>2, OthersHad DEF TempsDiffer
<1> QED BY <1>1, <1>2 DEF TempsDiffer

----------------------------------------------------------------------------
(* The invariant holds.                                                     *)

IInv ==
  /\ ShapeInv /\ TempsDiffer
  /\ \A c \in Callers : Known(c) /\ Right(c) /\ Alone(c)

LEMMA InitIInv == Init => IInv
<1> SUFFICES ASSUME Init PROVE IInv
  OBVIOUS
<1>1. ShapeInv
  BY InitShape
<1>2. ASSUME NEW c \in Callers PROVE pc[c] = "idle" /\ op[c] = "none"
  BY DEF Init
<1>3. ASSUME NEW c \in Callers PROVE Known(c) /\ Right(c) /\ Alone(c) /\ ~Has(c)
  BY <1>2 DEF Known, ComponentsMade, LooksHold, CreateOps, Right, CreateRight, SizeRight, TempRight, GoneRight, Has,
              Answered, Alone, AbsentAlone, FlatAlone, Untouched
<1> QED BY <1>1, <1>3 DEF IInv, TempsDiffer

LEMMA NextIInv ==
  ASSUME IInv, [Next]_vars
  PROVE  IInv'
<1>1. ShapeInv'
  BY NextShape DEF IInv
<1>2. ASSUME NEW d \in Callers, Begins(d) \/ CallStep(d)
      PROVE  TempsDiffer' /\ \A c \in Callers : (Known(c) /\ Right(c) /\ Alone(c))'
  <2>0. ShapeInv /\ \A c \in Callers : Known(c) /\ Right(c) /\ Alone(c)
    BY DEF IInv
  <2>1. TempsDiffer'
    BY <1>2, <2>0, TempsStayDifferent DEF IInv
  <2>2. ASSUME NEW c \in Callers PROVE Known(c)'
    BY <1>2, <2>0, OwnKnown, OthersKnown
  <2>3. ASSUME NEW c \in Callers PROVE Right(c)'
    BY <1>2, <2>0, OwnRight, OthersRight
  <2>4. ASSUME NEW c \in Callers PROVE Alone(c)'
    BY <1>2, <2>0, OwnAlone, OthersAlone
  <2> QED BY <2>1, <2>2, <2>3, <2>4
<1>3. CASE UNCHANGED vars
  <2>1. ASSUME NEW c \in Callers PROVE Known(c)' /\ Right(c)' /\ (Has(c)' <=> Has(c))
    BY <1>3 DEF IInv, vars, Known, ComponentsMade, LooksHold, Top, Right, CreateRight, SizeRight, TempRight,
                GoneRight, Has, Answered
  <2>2. ASSUME NEW c \in Callers PROVE Alone(c)'
    BY <1>3 DEF IInv, vars, Alone, AbsentAlone, FlatAlone, Untouched, Progress, FlatBelow, Top
  <2>3. TempsDiffer'
    BY <1>3, <2>1 DEF IInv, vars, TempsDiffer
  <2> QED BY <1>1, <2>1, <2>2, <2>3 DEF IInv
<1> QED BY <1>1, <1>2, <1>3 DEF Next, Begins, IInv

\* What callers know, what their answers say, and what nobody has disturbed.
THEOREM Invariance == Spec => []IInv
<1>1. Init => IInv
  BY InitIInv
<1>2. IInv /\ [Next]_vars => IInv'
  BY NextIInv
<1> QED BY <1>1, <1>2, PTL DEF Spec

\* create_directories answers true of directories, and false only for a file in
\* the way or a removal by others; file_size answers for a directory only if
\* somebody made it between its two looks, or the first one failed.
THEOREM AnswersCorrect == Spec => []AnswersAgree
<1>1. IInv => AnswersAgree
  BY DEF IInv, AnswersAgree, Right, CreateRight, SizeRight
<1> QED BY <1>1, Invariance, PTL

\* What remove_all says is gone is gone until somebody makes it again, unless its
\* last look failed.
THEOREM RemoveAllCorrect == Spec => []RemoveAllGone
<1>1. IInv => RemoveAllGone
  BY DEF IInv, RemoveAllGone, Right, GoneRight
<1> QED BY <1>1, Invariance, PTL

\* Two callers never have the same temporary directory.
THEOREM TempsExclusive == Spec => []TempExclusive
<1>1. IInv => TempExclusive
  BY DEF IInv, TempExclusive, Right, TempRight, TempsDiffer, Has
<1> QED BY <1>1, Invariance, PTL

\* Left alone, remove_all removes a directory without directories in it and
\* answers false for nothing; no answer claims what was not done.
THEOREM AloneCorrect == Spec => []RightAlone
<1>1. IInv => RightAlone
  <2> SUFFICES ASSUME IInv, NEW c \in Callers, pc[c] = "idle", seen[c] = {}
               PROVE  /\ op[c] = "remove_all" /\ trouble[c] = {} =>
                           /\ found[c] = "flat" => result[c] = "true"
                           /\ found[c] = "absent" => result[c] = "false"
                      /\ op[c] = "remove_all" /\ result[c] = "true" =>
                           ~Exists(tree, arg[c]) \/ "look" \in trouble[c]
                      /\ op[c] = "create_directories" /\ result[c] = "true" => IsDirectory(tree, arg[c])
                      /\ op[c] = "file_size" =>
                           (result[c] = "true" <=> IsRegularFile(tree, arg[c])) \/ "look" \in trouble[c]
    BY DEF RightAlone
  <2>1. Right(c) /\ Alone(c)
    BY DEF IInv
  <2>2. op[c] = "remove_all" /\ trouble[c] = {} =>
          /\ found[c] = "flat" => result[c] = "true"
          /\ found[c] = "absent" => result[c] = "false"
    BY <2>1 DEF Alone, AbsentAlone, FlatAlone, Untouched, Progress
  <2>3. op[c] = "remove_all" /\ result[c] = "true" => ~Exists(tree, arg[c]) \/ "look" \in trouble[c]
    BY <2>1 DEF Right, GoneRight, Answered
  <2>4. op[c] = "create_directories" /\ result[c] = "true" => IsDirectory(tree, arg[c])
    BY <2>1 DEF Right, CreateRight, Answered
  <2>5. op[c] = "file_size" => (result[c] = "true" <=> IsRegularFile(tree, arg[c])) \/ "look" \in trouble[c]
    BY <2>1 DEF Right, SizeRight
  <2> QED BY <2>2, <2>3, <2>4, <2>5
<1> QED BY <1>1, Invariance, PTL

----------------------------------------------------------------------------
(* What a step may do.                                                      *)

\* Where a step of d changes the tree.
Reaches(d, t, u) ==
  \/ u = t
  \/ \E q : MadeIn(t, u, q) /\ (q \in Ancestry(arg[d]) \/ q = temp'[d])
  \/ \E q : RemovedIn(t, u, q) /\ q = arg[d] /\ op[d] \in {"remove", "remove_all"}
  \/ \E q : RemovedIn(t, u, q) /\ IsPrefix(arg[d], q) /\ op[d] = "remove_all"

LEMMA RemoveReaches ==
  ASSUME ShapeInv, NEW d \in Callers, RemoveOne(d) \/ PlainRemove(d) \/ RemoveSelf(d) \/ SubRemove(d)
  PROVE  Reaches(d, tree, tree')
<1>1. ASSUME NEW p \in Paths, NEW e \in Errnos, RemoveCall(d, p, e)
      PROVE  tree' = tree \/ RemovedIn(tree, tree', p)
  BY <1>1, RemoveCallStep DEF SameTree
<1>2. CASE RemoveOne(d)
  <2>1. arg[d] \in Paths /\ op[d] = "remove"
    BY <1>2, AskedFits DEF RemoveOne, ShapeInv, Shape, LabelsFit
  <2> QED BY <1>1, <1>2, <2>1 DEF RemoveOne, Reaches
<1>3. CASE PlainRemove(d) \/ RemoveSelf(d)
  <2>1. Top(d).dir \in Paths /\ op[d] = "remove_all" /\ IsPrefix(arg[d], Top(d).dir)
    BY <1>3, TopFits DEF PlainRemove, RemoveSelf, RemoveLabels
  <2> QED BY <1>1, <1>3, <2>1 DEF PlainRemove, RemoveSelf, Reaches
<1>4. CASE SubRemove(d)
  <2>1. SubPath(d) \in Paths /\ op[d] = "remove_all" /\ IsPrefix(arg[d], SubPath(d))
    BY <1>4, TopFits, SubFits DEF SubRemove, RemoveLabels
  <2> QED BY <1>1, <1>4, <2>1 DEF SubRemove, Reaches
<1> QED BY <1>2, <1>3, <1>4

LEMMA StepReaches ==
  ASSUME ShapeInv, NEW d \in Callers, Begins(d) \/ CallStep(d)
  PROVE  Reaches(d, tree, tree')
<1>1. CASE CreateMkdir(d)
  <2>1. tree' = tree \/ MadeIn(tree, tree', Built(d))
    BY <1>1, CreateMkdirSays
  <2>2. Built(d) \in Ancestry(arg[d])
    BY <1>1, BuiltFits DEF CreateMkdir
  <2> QED BY <2>1, <2>2 DEF Reaches
<1>2. CASE Mkdtemp(d)
  <2>1. CASE SameTree
    BY <2>1 DEF SameTree, Reaches
  <2>2. ASSUME NEW n \in Names, ~Exists(tree, Append(arg[d], n)), IsDirectory(tree, arg[d]),
               Made(d, Append(arg[d], n)), temp' = [temp EXCEPT ![d] = Append(arg[d], n)]
        PROVE  Reaches(d, tree, tree')
    <3>1. temp'[d] = Append(arg[d], n)
      BY <2>2, TypesGive DEF Scalars
    <3>2. MadeIn(tree, tree', Append(arg[d], n))
      BY <1>2, <2>2, TempFits DEF MadeIn, Made, Mkdtemp
    <3> QED BY <3>1, <3>2 DEF Reaches
  <2> QED BY <1>2, <2>1, <2>2 DEF Mkdtemp
<1>3. CASE RemoveOne(d) \/ PlainRemove(d) \/ RemoveSelf(d) \/ SubRemove(d)
  BY <1>3, RemoveReaches
<1>4. CASE Begins(d)
  BY <1>4, BeginStep DEF Begin, Reaches
<1>5. CASE \/ CreateExists(d) \/ CreateFail(d) \/ CreateIsDirectory(d) \/ IsDir(d) \/ Opendir(d) \/ Readdir(d)
           \/ SubDir(d) \/ Gone(d) \/ FileSizeIsDirectory(d) \/ FileSizeStat(d) \/ AnswerRegular(d)
  <2>1. SameTree
    BY <1>5 DEF CreateExists, CreateFail, CreateIsDirectory, IsDir, Opendir, Readdir, SubDir, Gone,
                FileSizeIsDirectory, FileSizeStat, AnswerRegular
  <2> QED BY <2>1 DEF SameTree, Reaches
<1> QED BY <1>1, <1>2, <1>3, <1>4, <1>5 DEF CallStep

\* A call makes only the directories that lead to its path and the one it
\* returns, and removes only its path and, in remove_all, what is below.
THEOREM FootprintKept == Spec => Footprint
<1>1. IInv /\ [Next]_vars =>
        [\A c \in Callers, p \in Paths :
           pc'[c] # pc[c] /\ tree'[p] # tree[p] =>
             \/ tree'[p] = "dir" /\ (p \in Ancestry(arg[c]) \/ p = temp'[c])
             \/ tree'[p] = "absent" /\ p = arg[c] /\ op[c] \in {"remove", "remove_all"}
             \/ tree'[p] = "absent" /\ IsPrefix(arg[c], p) /\ op[c] = "remove_all"]_vars
  <2> SUFFICES ASSUME IInv, NEW d \in Callers, Begins(d) \/ CallStep(d), NEW c \in Callers, NEW p \in Paths,
                      pc'[c] # pc[c], tree'[p] # tree[p]
               PROVE  \/ tree'[p] = "dir" /\ (p \in Ancestry(arg[c]) \/ p = temp'[c])
                      \/ tree'[p] = "absent" /\ p = arg[c] /\ op[c] \in {"remove", "remove_all"}
                      \/ tree'[p] = "absent" /\ IsPrefix(arg[c], p) /\ op[c] = "remove_all"
    BY DEF Next, Begins
  <2>1. ShapeInv /\ tree \in Trees /\ p \in Places /\ p # <<>>
    BY PathIsSeq DEF IInv, ShapeInv, Places
  <2>2. c = d
    BY <2>1, OtherStep
  <2>3. Kind(tree', p) # Kind(tree, p) /\ Kind(tree', p) = tree'[p]
    BY <2>1 DEF Kind
  <2>4. ASSUME NEW q, MadeIn(tree, tree', q) PROVE p = q /\ tree'[p] = "dir"
    <3>1. /\ Kind(tree', q) = "dir"
          /\ \A r \in Places : r # q => Kind(tree', r) = Kind(tree, r)
      BY <2>1, <2>4, MadeKinds
    <3> QED BY <2>1, <2>3, <3>1
  <2>5. ASSUME NEW q, RemovedIn(tree, tree', q) PROVE p = q /\ tree'[p] = "absent"
    <3>1. /\ Kind(tree', q) = "absent"
          /\ \A r \in Places : r # q => Kind(tree', r) = Kind(tree, r)
      BY <2>1, <2>5, RemovedKinds
    <3> QED BY <2>1, <2>3, <3>1
  <2>6. Reaches(d, tree, tree')
    BY <2>1, StepReaches
  <2> QED BY <2>2, <2>4, <2>5, <2>6 DEF Reaches
<1> QED BY <1>1, Invariance, PTL DEF Spec, Footprint

\* Only opendir can give the null stream that kills the process.
LEMMA CrashByOpendir ==
  ASSUME ShapeInv, NEW d \in Callers, Begins(d) \/ CallStep(d), pc'[d] = "crashed"
  PROVE  Opendir(d)
<1>0. Scalars /\ pc \in [Callers -> Labels]
  BY DEF ShapeInv, Scalars, Labels
<1> USE DEF Goto, Return
<1>1. ~Begins(d)
  BY <1>0 DEF Begins, CallCreate, CallRemove, CallRemoveAll, CallAsk
<1>2. ~(CreateExists(d) \/ CreateMkdir(d))
  BY CreateExistsSays, CreateMkdirSays
<1>3. ASSUME NEW b, CreateAnswers(d, b) PROVE FALSE
  BY <1>0, <1>3 DEF CreateAnswers, Throw
<1>4. ~(CreateFail(d) \/ CreateIsDirectory(d))
  BY <1>0, <1>3 DEF CreateFail, CreateIsDirectory
<1>5. ASSUME NEW b, RemoveAllAnswers(d, b) PROVE FALSE
  BY <1>0, <1>5 DEF RemoveAllAnswers
<1>6. ~(PlainRemove(d) \/ Gone(d))
  BY <1>5 DEF PlainRemove, Gone
<1>7. ~(Mkdtemp(d) \/ RemoveOne(d) \/ FileSizeIsDirectory(d) \/ FileSizeStat(d) \/ AnswerRegular(d))
  BY <1>0 DEF Mkdtemp, RemoveOne, FileSizeIsDirectory, FileSizeStat, AnswerRegular
<1>8. ~(IsDir(d) \/ Readdir(d) \/ SubDir(d) \/ SubRemove(d) \/ RemoveSelf(d))
  BY <1>0 DEF IsDir, Readdir, SubDir, SubRemove, RemoveSelf
<1> QED BY <1>1, <1>2, <1>4, <1>6, <1>7, <1>8 DEF CallStep

\* remove_all kills the process only when somebody removed the directory between
\* its two looks, when no descriptor is left, or when it cannot be read.
THEOREM CrashesExplained == Spec => CrashExplained
<1>1. IInv /\ [Next]_vars =>
        [\A c \in Callers :
           pc[c] # "crashed" /\ pc'[c] = "crashed" =>
             "removed" \in seen[c] \/ open[c] = MaxOpen \/ "list" \in trouble'[c]]_vars
  <2> SUFFICES ASSUME IInv, NEW d \in Callers, Begins(d) \/ CallStep(d), NEW c \in Callers,
                      pc[c] # "crashed", pc'[c] = "crashed"
               PROVE  "removed" \in seen[c] \/ open[c] = MaxOpen \/ "list" \in trouble'[c]
    BY DEF Next, Begins
  <2>1. ShapeInv /\ Scalars /\ Known(c)
    BY TypesGive DEF IInv
  <2>2. c = d
    BY <2>1, OtherStep
  <2>3. Opendir(c)
    BY <2>1, <2>2, CrashByOpendir
  <2>4. ~Goto(c, "readdir")
    BY <2>1 DEF Goto, Scalars
  <2>5. IsDirectory(tree, Top(c).dir) \/ "removed" \in seen[c]
    BY <2>1, <2>3 DEF Known, LooksHold, Opendir
  <2>6. Fails(c, "list") => "list" \in trouble'[c]
    BY <2>1, FailsStep DEF Kinds
  <2> QED BY <2>3, <2>4, <2>5, <2>6 DEF Opendir
<1> QED BY <1>1, Invariance, PTL DEF Spec, CrashExplained

\* Only create_temp_directory throws the errno it was left, after
\* create_directories has answered false.
LEMMA ThrownByCreate ==
  ASSUME ShapeInv, NEW d \in Callers, Begins(d) \/ CallStep(d), result[d] # "threw success",
         result'[d] = "threw success"
  PROVE  CreateFail(d) \/ CreateIsDirectory(d)
<1>0. Scalars
  BY DEF ShapeInv
<1> USE DEF Return, Verdict
<1>1. ~Begins(d)
  BY <1>0, BeginStep, ZenonT(60) DEF Begin, Scalars
<1>2. ~(CreateExists(d) \/ CreateMkdir(d) \/ IsDir(d) \/ Opendir(d) \/ Readdir(d) \/ SubDir(d) \/ RemoveSelf(d))
  BY DEF CreateExists, CreateMkdir, IsDir, Opendir, Readdir, SubDir, RemoveSelf
<1>3. ASSUME NEW b, RemoveAllAnswers(d, b) PROVE FALSE
  BY <1>0, <1>3 DEF RemoveAllAnswers, Scalars
<1>4. ~(PlainRemove(d) \/ Gone(d))
  BY <1>3 DEF PlainRemove, Gone
<1>5. ~(Mkdtemp(d) \/ RemoveOne(d) \/ FileSizeIsDirectory(d) \/ FileSizeStat(d) \/ AnswerRegular(d) \/ SubRemove(d))
  BY <1>0 DEF Mkdtemp, RemoveOne, FileSizeIsDirectory, FileSizeStat, AnswerRegular, SubRemove, Scalars
<1> QED BY <1>1, <1>2, <1>4, <1>5 DEF CallStep

\* create_temp_directory throws the errno of no error only when its path is a
\* file.
THEOREM EmptyErrorsExplained == Spec => EmptyErrorExplained
<1>1. IInv /\ [Next]_vars =>
        [\A c \in Callers :
           result[c] # "threw success" /\ result'[c] = "threw success" => Kind(tree, arg[c]) = "file"]_vars
  <2> SUFFICES ASSUME IInv, NEW d \in Callers, Begins(d) \/ CallStep(d), NEW c \in Callers,
                      result[c] # "threw success", result'[c] = "threw success"
               PROVE  Kind(tree, arg[c]) = "file"
    BY DEF Next, Begins
  <2>1. ShapeInv /\ Scalars /\ Known(c) /\ arg[c] \in Places
    BY TypesGive DEF IInv, Scalars
  <2>2. c = d
    BY <2>1, OtherStep
  <2>3. ASSUME NEW b, CreateAnswers(c, b) PROVE ~b /\ errno[c] = "0"
    BY <2>1, <2>3 DEF CreateAnswers, Throw, Return, Verdict, Scalars
  <2>4. ~CreateFail(c)
    BY <2>1, <2>3 DEF CreateFail, Known, LooksHold
  <2>5. CreateIsDirectory(c)
    BY <2>1, <2>2, <2>4, ThrownByCreate
  <2>6. CASE Exists(tree, arg[c]) /\ CreateAnswers(c, IsDirectory(tree, arg[c]))
    <3>1. ~IsDirectory(tree, arg[c])
      BY <2>3, <2>6
    <3> QED BY <2>1, <2>6, <3>1, SomeKind DEF Exists, IsDirectory
  <2>7. CASE UNCHANGED result
    BY <2>7
  <2> QED BY <2>5, <2>6, <2>7 DEF CreateIsDirectory
<1> QED BY <1>1, Invariance, PTL DEF Spec, EmptyErrorExplained
=============================================================================
