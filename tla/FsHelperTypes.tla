--------------------------- MODULE FsHelperTypes ----------------------------
(***************************************************************************)
(* For any callers, names, depth and limits: where each caller of FsHelper  *)
(* is and what it holds there.  From it follow the types, that every step   *)
(* changes the kind of one path at most, and that remove_all closes what it *)
(* opens.                                                                   *)
(***************************************************************************)
EXTENDS FsHelper, TLAPS

----------------------------------------------------------------------------
(* Paths and trees.                                                         *)

Places == Paths \union {<<>>}

\* A path is a sequence of names that is not too long.
LEMMA PathIsSeq ==
  ASSUME NEW p
  PROVE  p \in Paths <=> p \in Seq(Names) /\ Len(p) \in 1 .. Depth
<1> USE DepthAssumption DEF Paths
<1>1. ASSUME p \in Paths PROVE p \in Seq(Names) /\ Len(p) \in 1 .. Depth
  <2>1. PICK n \in 1 .. Depth : p \in [1 .. n -> Names]
    BY <1>1
  <2> QED BY <2>1
<1>2. ASSUME p \in Seq(Names), Len(p) \in 1 .. Depth PROVE p \in Paths
  <2>1. p \in [1 .. Len(p) -> Names]
    BY <1>2
  <2> QED BY <1>2, <2>1
<1> QED BY <1>1, <1>2

LEMMA PlaceIsSeq ==
  ASSUME NEW p
  PROVE  p \in Places <=> p \in Seq(Names) /\ Len(p) \in 0 .. Depth
<1>1. CASE p = <<>>
  BY <1>1, DepthAssumption DEF Places
<1>2. CASE p # <<>>
  <2>1. p \in Places <=> p \in Paths
    BY <1>2 DEF Places
  <2>2. p \in Seq(Names) => Len(p) # 0
    BY <1>2
  <2> QED BY <2>1, <2>2, PathIsSeq, DepthAssumption
<1> QED BY <1>1, <1>2

\* A path leads from a directory to a name in it.
LEMMA FrontOfPath ==
  ASSUME NEW p \in Paths
  PROVE  /\ Front(p) \in Places
         /\ Len(Front(p)) = Len(p) - 1
         /\ \E n \in Names : p = Append(Front(p), n)
<1>1. p \in Seq(Names) /\ Len(p) \in 1 .. Depth
  BY PathIsSeq
<1>2. Front(p) \in Seq(Names) /\ Len(Front(p)) = Len(p) - 1
  BY <1>1, DepthAssumption, SMTT(30) DEF Front
<1>3. Front(p) \in Places
  BY <1>1, <1>2, PlaceIsSeq, DepthAssumption
<1>4. p = Append(Front(p), p[Len(p)]) /\ p[Len(p)] \in Names
  BY <1>1, DepthAssumption DEF Front
<1> QED BY <1>2, <1>3, <1>4

LEMMA AppendedPath ==
  ASSUME NEW p \in Places, NEW n \in Names
  PROVE  /\ Append(p, n) \in Paths <=> Len(p) < Depth
         /\ Len(Append(p, n)) = Len(p) + 1
         /\ Front(Append(p, n)) = p
<1>1. p \in Seq(Names) /\ Len(p) \in Nat
  BY PlaceIsSeq, DepthAssumption
<1>2. Append(p, n) \in Seq(Names) /\ Len(Append(p, n)) = Len(p) + 1
  BY <1>1
<1>3. Front(Append(p, n)) = p
  BY <1>1 DEF Front
<1>4. Append(p, n) \in Paths <=> Len(p) < Depth
  <2> DEFINE q == Append(p, n)
  <2>1. q \in Seq(Names) /\ Len(q) = Len(p) + 1
    BY <1>2
  <2> HIDE DEF q
  <2>2. q \in Paths <=> Len(p) < Depth
    BY <1>1, <2>1, PathIsSeq, DepthAssumption
  <2> QED BY <2>2 DEF q
<1> QED BY <1>2, <1>3, <1>4

LEMMA AppendsDiffer ==
  ASSUME NEW p \in Places, NEW q \in Places, NEW m \in Names, NEW n \in Names,
         Append(p, m) = Append(q, n)
  PROVE  p = q /\ m = n
<1>1. p \in Seq(Names) /\ q \in Seq(Names)
  BY PlaceIsSeq
<1>2. Front(Append(p, m)) = p /\ Front(Append(q, n)) = q
  BY AppendedPath
<1>3. p = q
  BY <1>2
<1> QED BY <1>1, <1>3

LEMMA PrefixOfPath ==
  ASSUME NEW p \in Paths, NEW k \in 1 .. Len(p)
  PROVE  /\ SubSeq(p, 1, k) \in Paths
         /\ Len(SubSeq(p, 1, k)) = k
         /\ Front(SubSeq(p, 1, k)) = SubSeq(p, 1, k - 1)
<1>1. p \in Seq(Names) /\ Len(p) \in 1 .. Depth
  BY PathIsSeq
<1>2. SubSeq(p, 1, k) \in Seq(Names) /\ Len(SubSeq(p, 1, k)) = k
  BY <1>1, DepthAssumption
<1>3. SubSeq(p, 1, k) \in Paths
  <2> DEFINE q == SubSeq(p, 1, k)
  <2>1. q \in Seq(Names) /\ Len(q) = k
    BY <1>2
  <2> HIDE DEF q
  <2>2. q \in Paths
    BY <1>1, <2>1, PathIsSeq, DepthAssumption
  <2> QED BY <2>2 DEF q
<1>4. Front(SubSeq(p, 1, k)) = SubSeq(p, 1, k - 1)
  BY <1>1, <1>2, DepthAssumption DEF Front
<1> QED BY <1>2, <1>3, <1>4

\* A file system call changes the kind of one path, or nothing.
MadeIn(t, u, p) ==
  p \in Paths /\ ~Exists(t, p) /\ IsDirectory(t, Front(p)) /\ u = [t EXCEPT ![p] = "dir"]
RemovedIn(t, u, p) ==
  p \in Paths /\ Exists(t, p) /\ Children(t, p) = {} /\ u = [t EXCEPT ![p] = "absent"]

LEMMA MadeKinds ==
  ASSUME NEW t \in Trees, NEW u, NEW p, MadeIn(t, u, p)
  PROVE  /\ u \in [Paths -> {"absent", "dir", "file"}]
         /\ p # <<>> /\ Kind(t, p) = "absent" /\ Kind(u, p) = "dir"
         /\ \A q \in Places : q # p => Kind(u, q) = Kind(t, q)
<1>1. p # <<>>
  BY PathIsSeq DEF MadeIn
<1> QED BY <1>1 DEF MadeIn, Trees, Kind, Exists, Places

LEMMA RemovedKinds ==
  ASSUME NEW t \in Trees, NEW u, NEW p, RemovedIn(t, u, p)
  PROVE  /\ u \in [Paths -> {"absent", "dir", "file"}]
         /\ p # <<>> /\ Kind(t, p) # "absent" /\ Kind(u, p) = "absent"
         /\ \A q \in Places : q # p => Kind(u, q) = Kind(t, q)
<1>1. p # <<>>
  BY PathIsSeq DEF RemovedIn
<1> QED BY <1>1 DEF RemovedIn, Trees, Kind, Exists, Places

\* What exists stays in a directory.
LEMMA MadeTree ==
  ASSUME NEW t \in Trees, NEW u, NEW p, MadeIn(t, u, p)
  PROVE  u \in Trees
<1>1. ASSUME NEW q \in Paths, Exists(u, q) PROVE IsDirectory(u, Front(q))
  <2>1. Front(q) \in Places /\ q \in Places /\ Front(p) \in Places
    BY FrontOfPath DEF Places, MadeIn
  <2>2. IsDirectory(t, Front(q))
    <3>1. CASE q = p
      BY <3>1 DEF MadeIn
    <3>2. CASE q # p
      <4>1. Exists(t, q)
        BY <1>1, <2>1, <3>2, MadeKinds DEF Exists
      <4> QED BY <4>1 DEF Trees, WellFormed
    <3> QED BY <3>1, <3>2
  <2> QED BY <2>1, <2>2, MadeKinds DEF IsDirectory
<1> QED BY <1>1, MadeKinds DEF Trees, WellFormed

LEMMA RemovedTree ==
  ASSUME NEW t \in Trees, NEW u, NEW p, RemovedIn(t, u, p)
  PROVE  u \in Trees
<1>1. ASSUME NEW q \in Paths, Exists(u, q) PROVE IsDirectory(u, Front(q))
  <2>1. Front(q) \in Places /\ q \in Places /\ q # p
    BY <1>1, FrontOfPath, RemovedKinds DEF Places, Exists
  <2>2. Exists(t, q) /\ IsDirectory(t, Front(q))
    BY <1>1, <2>1, RemovedKinds DEF Trees, WellFormed, Exists
  <2>3. Front(q) # p
    <3>1. PICK n \in Names : q = Append(Front(q), n)
      BY FrontOfPath
    <3>2. Front(q) = p => n \in Children(t, p)
      BY <2>2, <3>1 DEF Children
    <3> QED BY <3>2 DEF RemovedIn
  <2> QED BY <2>1, <2>2, <2>3, RemovedKinds DEF IsDirectory
<1> QED BY <1>1, RemovedKinds DEF Trees, WellFormed

\* What the system calls answer.
LEMMA LookupSays ==
  ASSUME NEW t, NEW p
  PROVE  LookupErrno(t, p) \in Errnos \ {"0", "EEXIST", "EIO"}
BY DEF LookupErrno, Errnos

LEMMA MkdirSays ==
  ASSUME NEW t, NEW p
  PROVE  /\ MkdirErrno(t, p) \in Errnos
         /\ MkdirErrno(t, p) = "0" <=> ~Exists(t, p) /\ IsDirectory(t, Front(p))
         /\ MkdirErrno(t, p) = "EEXIST" <=> Exists(t, p)
<1> DEFINE e == LookupErrno(t, p)
<1>1. e \in Errnos \ {"0", "EEXIST"}
  BY LookupSays
<1> HIDE DEF e
<1>2. MkdirErrno(t, p) = CASE Exists(t, p) -> "EEXIST"
                           [] ~Exists(t, p) /\ IsDirectory(t, Front(p)) -> "0"
                           [] OTHER -> e
  BY DEF MkdirErrno, e
<1> QED BY <1>1, <1>2 DEF Errnos

LEMMA RemoveSays ==
  ASSUME NEW t, NEW p \in Paths
  PROVE  /\ RemoveErrno(t, p) \in Errnos
         /\ RemoveErrno(t, p) = "0" <=> Exists(t, p) /\ Children(t, p) = {}
<1> DEFINE e == LookupErrno(t, p)
<1>1. e \in Errnos \ {"0", "EEXIST"}
  BY LookupSays
<1> HIDE DEF e
<1>2. p # <<>>
  BY PathIsSeq
<1>3. RemoveErrno(t, p) = IF ~Exists(t, p) THEN e
                          ELSE IF Children(t, p) = {} THEN "0" ELSE "ENOTEMPTY"
  BY <1>2 DEF RemoveErrno, e
<1> QED BY <1>1, <1>3 DEF Errnos

----------------------------------------------------------------------------
(* The inductive invariant: what each caller is in the middle of.           *)

CreateOps == {"create_directories", "create_temp_directory"}
Streaming == {"readdir", "subdir", "subremove"}

\* A caller is at a system call of its operation, which has not answered yet.
LabelsFit(c) ==
  /\ pc[c] \in CreateLabels => op[c] \in CreateOps
  /\ pc[c] = "mkdtemp" => op[c] = "create_temp_directory"
  /\ pc[c] = "remove" => op[c] = "remove"
  /\ pc[c] \in RemoveLabels => op[c] = "remove_all"
  /\ pc[c] \in {"fs_isdir", "fs_stat"} => op[c] = "file_size"
  /\ pc[c] = "isreg" => op[c] = "is_regular_file"
  /\ pc[c] \in Running => result[c] = "none"

ArgumentsFit(c) ==
  /\ op[c] \notin CreateOps \union {"none"} => arg[c] \in Paths
  /\ op[c] = "create_temp_directory" => Len(arg[c]) < Depth
  /\ pc[c] \in {"cd_exists", "cd_mkdir"} => pos[c] \in 1 .. Len(arg[c])

\* Only remove_all recurses.
StackFits(c) ==
  /\ pc[c] \in RemoveLabels <=> stack[c] # <<>>
  /\ pc[c] \in {"subdir", "subremove"} => Top(c).sub \in Names

\* Frames of an invocation for p: each works one level below the one that called
\* it, which is at a name of its directory.
Nested(s, p) ==
  /\ s # <<>> => s[1].dir = p
  /\ \A i \in 1 .. Len(s) :
       /\ Len(s[i].dir) + 1 = Len(p) + i
       /\ IsPrefix(p, s[i].dir)
       /\ (s[i].left \union {s[i].sub}) \intersect Names # {} => Len(s[i].dir) < Depth
       /\ i < Len(s) => s[i].sub \in Names

FramesNest(c) == Nested(stack[c], arg[c])

\* Every invocation that is reading its directory has one stream open.
StreamsCounted(c) ==
  /\ pc[c] \in Streaming => open[c] = opened[c] + Len(stack[c])
  /\ pc[c] \in RemoveLabels \ Streaming => open[c] + 1 = opened[c] + Len(stack[c])
  /\ pc[c] \in Running \ RemoveLabels => open[c] = opened[c]
  /\ pc[c] = "idle" /\ result[c] = "true" => open[c] = opened[c]

Shape(c) == LabelsFit(c) /\ ArgumentsFit(c) /\ StackFits(c) /\ FramesNest(c) /\ StreamsCounted(c)

Scalars ==
  /\ pc \in [Callers -> Running \union {"idle", "crashed"}]
  /\ op \in [Callers -> Ops \union {"none"}]
  /\ arg \in [Callers -> Places]
  /\ pos \in [Callers -> 0 .. Depth]
  /\ result \in [Callers -> {"none", "true", "false", "threw error", "threw success"}]
  /\ temp \in [Callers -> Places]
  /\ errno \in [Callers -> Errnos]
  /\ open \in [Callers -> 0 .. MaxOpen]
  /\ trouble \in [Callers -> SUBSET {"look", "change", "list"}]
  /\ seen \in [Callers -> SUBSET Notes]
  /\ found \in [Callers -> {"absent", "flat", "nested"}]
  /\ opened \in [Callers -> 0 .. MaxOpen]
  /\ count \in [Callers -> 0 .. MaxCalls]

ShapeInv ==
  /\ tree \in Trees
  /\ Scalars
  /\ stack \in [Callers -> Seq(Frames)]
  /\ \A c \in Callers : Shape(c)

LEMMA InitShape == Init => ShapeInv
<1> SUFFICES ASSUME Init PROVE ShapeInv
  OBVIOUS
<1>1. Scalars
  BY DepthAssumption, MaxOpenAssumption, MaxCallsAssumption DEF Init, Scalars, Places, Errnos
<1>2. stack \in [Callers -> Seq(Frames)]
  BY DEF Init
<1>3. ASSUME NEW c \in Callers PROVE Shape(c)
  <2>1. pc[c] = "idle" /\ op[c] = "none" /\ stack[c] = <<>> /\ result[c] = "none"
    BY DEF Init
  <2> QED BY <2>1 DEF Shape, LabelsFit, ArgumentsFit, StackFits, FramesNest, Nested, StreamsCounted,
             CreateLabels, RemoveLabels, AskLabels, Running, CreateOps, Streaming
<1> QED BY <1>1, <1>2, <1>3 DEF Init, ShapeInv

----------------------------------------------------------------------------
(* What a step acts on, and what it does to the tree.                       *)

\* remove_all works on a directory below its path, in a frame of its own.
LEMMA TopFits ==
  ASSUME ShapeInv, NEW d \in Callers, pc[d] \in RemoveLabels
  PROVE  /\ stack[d] \in Seq(Frames) /\ Len(stack[d]) \in 1 .. Depth
         /\ Top(d) = stack[d][Len(stack[d])] /\ Top(d) \in Frames /\ Top(d).dir \in Paths
         /\ Len(Top(d).dir) + 1 = Len(arg[d]) + Len(stack[d]) /\ IsPrefix(arg[d], Top(d).dir)
         /\ (Top(d).left \union {Top(d).sub}) \intersect Names # {} => Len(Top(d).dir) < Depth
         /\ op[d] = "remove_all" /\ arg[d] \in Paths
<1>1. stack[d] \in Seq(Frames) /\ stack[d] # <<>> /\ Shape(d)
  BY DEF ShapeInv, Shape, StackFits
<1>2. Len(stack[d]) \in Nat \ {0} /\ Len(stack[d]) \in DOMAIN stack[d] /\ stack[d][Len(stack[d])] \in Frames
  BY <1>1
<1>3. Top(d) = stack[d][Len(stack[d])]
  BY DEF Top, Last
<1>4. op[d] = "remove_all" /\ arg[d] \in Paths
  BY <1>1 DEF Shape, LabelsFit, ArgumentsFit, CreateOps
<1>5. Top(d).dir \in Paths
  BY <1>2, <1>3 DEF Frames
<1>6. /\ Len(Top(d).dir) + 1 = Len(arg[d]) + Len(stack[d]) /\ IsPrefix(arg[d], Top(d).dir)
      /\ (Top(d).left \union {Top(d).sub}) \intersect Names # {} => Len(Top(d).dir) < Depth
  <2> DEFINE k == Len(stack[d])
  <2>1. FramesNest(d) /\ k \in 1 .. Len(stack[d]) /\ Top(d) = stack[d][k]
    BY <1>1, <1>2, <1>3 DEF Shape
  <2> HIDE DEF k
  <2>2. /\ Len(Top(d).dir) + 1 = Len(arg[d]) + k /\ IsPrefix(arg[d], Top(d).dir)
        /\ (Top(d).left \union {Top(d).sub}) \intersect Names # {} => Len(Top(d).dir) < Depth
    BY <2>1 DEF FramesNest, Nested
  <2> QED BY <2>2 DEF k
<1>7. Len(arg[d]) \in 1 .. Depth /\ Len(Top(d).dir) \in 1 .. Depth
  BY <1>4, <1>5, PathIsSeq
<1>8. Len(stack[d]) \in 1 .. Depth
  <2> DEFINE a == Len(arg[d])  b == Len(stack[d])  t == Len(Top(d).dir)
  <2>1. a \in 1 .. Depth /\ t \in 1 .. Depth /\ b \in Nat \ {0} /\ t + 1 = a + b
    BY <1>2, <1>6, <1>7
  <2> HIDE DEF a, b, t
  <2>2. b \in 1 .. Depth
    BY <2>1, DepthAssumption
  <2> QED BY <2>2 DEF b
<1> QED BY <1>1, <1>2, <1>3, <1>4, <1>5, <1>6, <1>8

LEMMA PrefixLonger ==
  ASSUME NEW p \in Places, NEW q \in Places, NEW n \in Names, IsPrefix(p, q)
  PROVE  IsPrefix(p, Append(q, n))
<1>1. p \in Seq(Names) /\ q \in Seq(Names) /\ Len(p) <= Len(q)
  BY PlaceIsSeq DEF IsPrefix
<1>2. Append(q, n) \in Seq(Names) /\ Len(Append(q, n)) = Len(q) + 1
  BY <1>1
<1>3. SubSeq(Append(q, n), 1, Len(p)) = SubSeq(q, 1, Len(p))
  BY <1>1
<1> QED BY <1>1, <1>2, <1>3 DEF IsPrefix

LEMMA SubFits ==
  ASSUME ShapeInv, NEW d \in Callers, pc[d] \in {"subdir", "subremove"}
  PROVE  /\ SubPath(d) = Append(Top(d).dir, Top(d).sub) /\ Top(d).sub \in Names
         /\ SubPath(d) \in Paths /\ Len(SubPath(d)) = Len(Top(d).dir) + 1
         /\ IsPrefix(arg[d], SubPath(d))
<1>1. pc[d] \in RemoveLabels /\ Top(d).sub \in Names
  BY DEF ShapeInv, Shape, StackFits, RemoveLabels
<1>2. SubPath(d) = Append(Top(d).dir, Top(d).sub)
  BY <1>1, DotsAssumption DEF SubPath
<1>3. Top(d).dir \in Places /\ Len(Top(d).dir) < Depth /\ arg[d] \in Places /\ IsPrefix(arg[d], Top(d).dir)
  BY <1>1, TopFits DEF Places
<1>4. Append(Top(d).dir, Top(d).sub) \in Paths /\ Len(Append(Top(d).dir, Top(d).sub)) = Len(Top(d).dir) + 1
  BY <1>1, <1>3, AppendedPath
<1>5. IsPrefix(arg[d], Append(Top(d).dir, Top(d).sub))
  BY <1>1, <1>3, PrefixLonger
<1> QED BY <1>1, <1>2, <1>4, <1>5

LEMMA BuiltFits ==
  ASSUME ShapeInv, NEW d \in Callers, pc[d] \in {"cd_exists", "cd_mkdir"}
  PROVE  /\ arg[d] \in Paths /\ pos[d] \in 1 .. Len(arg[d]) /\ Len(arg[d]) \in 1 .. Depth
         /\ Built(d) \in Paths /\ Built(d) \in Ancestry(arg[d])
         /\ Front(Built(d)) = SubSeq(arg[d], 1, pos[d] - 1)
         /\ op[d] \in CreateOps
<1>1. pos[d] \in 1 .. Len(arg[d]) /\ arg[d] \in Places /\ op[d] \in CreateOps
  BY DEF ShapeInv, Scalars, Shape, ArgumentsFit, LabelsFit, CreateLabels
<1>2. arg[d] \in Paths
  BY <1>1, DepthAssumption DEF Places
<1>3. Len(arg[d]) \in 1 .. Depth
  BY <1>2, PathIsSeq
<1>4. Built(d) \in Paths /\ Front(Built(d)) = SubSeq(arg[d], 1, pos[d] - 1)
  BY <1>1, <1>2, PrefixOfPath DEF Built
<1>5. Built(d) \in Ancestry(arg[d])
  BY <1>1 DEF Built, Ancestry
<1> QED BY <1>1, <1>2, <1>3, <1>4, <1>5

LEMMA TempFits ==
  ASSUME ShapeInv, NEW d \in Callers, pc[d] = "mkdtemp"
  PROVE  /\ arg[d] \in Places /\ op[d] = "create_temp_directory"
         /\ \A n \in Names : Append(arg[d], n) \in Paths /\ Front(Append(arg[d], n)) = arg[d]
<1>1. arg[d] \in Places /\ op[d] = "create_temp_directory" /\ Len(arg[d]) < Depth
  BY DEF ShapeInv, Scalars, Shape, ArgumentsFit, LabelsFit
<1> QED BY <1>1, AppendedPath

LEMMA AskedFits ==
  ASSUME ShapeInv, NEW d \in Callers, pc[d] \in AskLabels \union {"remove"}
  PROVE  arg[d] \in Paths /\ op[d] \notin CreateOps \union {"none", "remove_all"}
BY DEF ShapeInv, Shape, ArgumentsFit, LabelsFit, AskLabels, CreateOps

\* The tree after a step of d, and what the others note.
TreeStep(d) ==
  \/ tree' = tree /\ \A c \in Callers \ {d} : seen'[c] = seen[c]
  \/ \E p : MadeIn(tree, tree', p) /\ Noticed(d, "made", "made after")
  \/ \E p : RemovedIn(tree, tree', p) /\ Noticed(d, "removed", "removed after")

LEMMA SameTreeStep == ASSUME NEW d \in Callers, SameTree PROVE TreeStep(d)
BY DEF SameTree, TreeStep

LEMMA RemoveCallStep ==
  ASSUME NEW d \in Callers, NEW p \in Paths, NEW e \in Errnos, RemoveCall(d, p, e)
  PROVE  /\ TreeStep(d)
         /\ e = "0" => RemovedIn(tree, tree', p) /\ Noticed(d, "removed", "removed after") /\ UNCHANGED trouble
         /\ e # "0" => SameTree
<1>1. CASE e # "0"
  BY <1>1, SameTreeStep DEF RemoveCall
<1>2. CASE e = "0"
  <2>1. Removed(d, p) /\ RemoveErrno(tree, p) = "0" /\ UNCHANGED trouble
    BY <1>2 DEF RemoveCall, Outcome
  <2>2. RemovedIn(tree, tree', p) /\ Noticed(d, "removed", "removed after")
    BY <2>1, RemoveSays DEF RemovedIn, Removed
  <2> QED BY <1>2, <2>1, <2>2 DEF TreeStep
<1> QED BY <1>1, <1>2

Begins(d) == CallCreate(d) \/ CallRemove(d) \/ CallRemoveAll(d) \/ CallAsk(d)

LEMMA BeginStep ==
  ASSUME NEW d \in Callers, Begins(d)
  PROVE  \E o \in AllOps, p \in Places : Begin(d, o, p)
BY DEF Begins, CallCreate, CallRemove, CallRemoveAll, CallAsk, Places, AllOps

LEMMA MkdirStep ==
  ASSUME ShapeInv, NEW d \in Callers, CreateMkdir(d)
  PROVE  TreeStep(d)
<1>1. CASE SameTree
  BY <1>1, SameTreeStep
<1>2. CASE Made(d, Built(d)) /\ Outcome(d, "0", MkdirErrno(tree, Built(d)))
  <2>1. pc[d] = "cd_mkdir" /\ MkdirErrno(tree, Built(d)) = "0"
    BY <1>2 DEF CreateMkdir, Outcome
  <2>2. MadeIn(tree, tree', Built(d))
    BY <1>2, <2>1, BuiltFits, MkdirSays DEF MadeIn, Made
  <2> QED BY <1>2, <2>2 DEF TreeStep, Made
<1> QED BY <1>1, <1>2 DEF CreateMkdir

LEMMA MkdtempStep ==
  ASSUME ShapeInv, NEW d \in Callers, Mkdtemp(d)
  PROVE  TreeStep(d)
<1>1. CASE SameTree
  BY <1>1, SameTreeStep
<1>2. ASSUME NEW n \in Names, ~Exists(tree, Append(arg[d], n)), IsDirectory(tree, arg[d]), Made(d, Append(arg[d], n))
      PROVE  TreeStep(d)
  <2>1. MadeIn(tree, tree', Append(arg[d], n))
    BY <1>2, TempFits DEF MadeIn, Made, Mkdtemp
  <2> QED BY <1>2, <2>1 DEF TreeStep, Made
<1> QED BY <1>1, <1>2 DEF Mkdtemp

LEMMA TreeSteps ==
  ASSUME ShapeInv, NEW d \in Callers, Begins(d) \/ CallStep(d)
  PROVE  TreeStep(d)
<1>1. CASE Begins(d)
  <2>1. PICK o \in AllOps, p \in Places : Begin(d, o, p)
    BY <1>1, BeginStep
  <2> QED BY <2>1 DEF Begin, TreeStep, ShapeInv, Scalars
<1>2. CASE CreateMkdir(d)
  BY <1>2, MkdirStep
<1>3. CASE Mkdtemp(d)
  BY <1>3, MkdtempStep
<1>4. CASE RemoveOne(d)
  BY <1>4, AskedFits, RemoveCallStep DEF RemoveOne
<1>5. CASE PlainRemove(d) \/ RemoveSelf(d)
  BY <1>5, TopFits, RemoveCallStep DEF PlainRemove, RemoveSelf, RemoveLabels
<1>6. CASE SubRemove(d)
  BY <1>6, SubFits, RemoveCallStep DEF SubRemove
<1>7. CASE \/ CreateExists(d) \/ CreateFail(d) \/ CreateIsDirectory(d) \/ IsDir(d) \/ Opendir(d)
           \/ Readdir(d) \/ SubDir(d) \/ Gone(d) \/ FileSizeIsDirectory(d) \/ FileSizeStat(d)
           \/ AnswerRegular(d)
  <2>1. SameTree
    BY <1>7 DEF CreateExists, CreateFail, CreateIsDirectory, IsDir, Opendir, Readdir, SubDir, Gone,
                FileSizeIsDirectory, FileSizeStat, AnswerRegular
  <2> QED BY <2>1, SameTreeStep
<1> QED BY <1>1, <1>2, <1>3, <1>4, <1>5, <1>6, <1>7 DEF CallStep

----------------------------------------------------------------------------
(* Types, and what a step leaves to the others.                             *)

\* g is f, but for what d has, and that is in S.
Moves(f, g, d, S) == g \in [Callers -> S] /\ \A c \in Callers \ {d} : g[c] = f[c]

LEMMA MovesOne ==
  ASSUME NEW S, NEW f \in [Callers -> S], NEW d \in Callers
  PROVE  /\ Moves(f, f, d, S)
         /\ \A v \in S : Moves(f, [f EXCEPT ![d] = v], d, S) /\ [f EXCEPT ![d] = v][d] = v
BY DEF Moves

Labels  == Running \union {"idle", "crashed"}
Results == {"none", "true", "false", "threw error", "threw success"}
Kinds   == {"look", "change", "list"}

LEMMA LabelsDiffer ==
  /\ Running = CreateLabels \union RemoveLabels \union AskLabels \union {"mkdtemp", "remove"}
  /\ "idle" \notin Running /\ "crashed" \notin Running
BY DEF CreateLabels, RemoveLabels, AskLabels, Running

\* The pieces the steps are made of.
LEMMA GotoStep ==
  ASSUME Scalars, NEW d \in Callers, NEW l \in Labels, Goto(d, l)
  PROVE  Moves(pc, pc', d, Labels) /\ pc'[d] = l
BY MovesOne DEF Goto, Scalars, Labels

LEMMA ReturnStep ==
  ASSUME Scalars, NEW d \in Callers, NEW v \in Results, Return(d, v), stack \in [Callers -> Seq(Frames)]
  PROVE  /\ Moves(pc, pc', d, Labels) /\ pc'[d] = "idle"
         /\ Moves(result, result', d, Results) /\ result'[d] = v
         /\ Moves(stack, stack', d, Seq(Frames)) /\ stack'[d] = <<>>
         /\ Moves(pos, pos', d, 0 .. Depth)
<1>1. "idle" \in Labels /\ <<>> \in Seq(Frames) /\ 0 \in 0 .. Depth
  BY DepthAssumption DEF Labels
<1>2. Moves(pc, pc', d, Labels) /\ pc'[d] = "idle"
  BY <1>1, GotoStep DEF Return
<1>3. Moves(result, result', d, Results) /\ result'[d] = v
  BY MovesOne DEF Return, Scalars, Results
<1>4. Moves(stack, stack', d, Seq(Frames)) /\ stack'[d] = <<>>
  BY <1>1 DEF Return, Moves
<1>5. Moves(pos, pos', d, 0 .. Depth)
  BY <1>1, MovesOne DEF Return, Scalars
<1> QED BY <1>2, <1>3, <1>4, <1>5

LEMMA SetErrnoStep ==
  ASSUME Scalars, NEW d \in Callers, NEW e \in Errnos, SetErrno(d, e)
  PROVE  Moves(errno, errno', d, Errnos) /\ (e # "0" => errno'[d] = e) /\ (e = "0" => errno'[d] = errno[d])
BY DEF SetErrno, Scalars, Moves

LEMMA FailsStep ==
  ASSUME Scalars, NEW d \in Callers, NEW k \in Kinds, Fails(d, k)
  PROVE  Moves(trouble, trouble', d, SUBSET Kinds) /\ trouble'[d] = trouble[d] \union {k}
BY DEF Fails, Scalars, Moves, Kinds

LEMMA OutcomeStep ==
  ASSUME Scalars, NEW d \in Callers, NEW e, NEW x, Outcome(d, e, x)
  PROVE  /\ Moves(trouble, trouble', d, SUBSET Kinds)
         /\ trouble[d] \subseteq trouble'[d]
         /\ e = x \/ (e = "EIO" /\ "change" \in trouble'[d])
<1>1. CASE e = x /\ UNCHANGED trouble
  BY <1>1, MovesOne DEF Scalars, Kinds
<1>2. CASE e = "EIO" /\ Fails(d, "change")
  BY <1>2, FailsStep DEF Kinds
<1> QED BY <1>1, <1>2 DEF Outcome

LEMMA AskedStep ==
  ASSUME Scalars, NEW d \in Callers, NEW p, NEW fact \in BOOLEAN, NEW b \in BOOLEAN, Asked(d, p, fact, b)
  PROVE  /\ Moves(errno, errno', d, Errnos)
         /\ Moves(trouble, trouble', d, SUBSET Kinds) /\ trouble[d] \subseteq trouble'[d]
         /\ b => fact /\ Exists(tree, p)
         /\ ~b => \/ ~fact /\ Exists(tree, p)
                  \/ ~Exists(tree, p)
                  \/ "look" \in trouble'[d]
<1>1. CASE Exists(tree, p) /\ b = fact /\ UNCHANGED <<errno, trouble>>
  BY <1>1, MovesOne DEF Scalars, Kinds
<1>2. CASE ~b /\ ~Exists(tree, p) /\ SetErrno(d, LookupErrno(tree, p)) /\ UNCHANGED trouble
  BY <1>2, MovesOne, LookupSays, SetErrnoStep DEF Scalars, Kinds
<1>3. CASE ~b /\ SetErrno(d, "EIO") /\ Fails(d, "look")
  BY <1>3, SetErrnoStep, FailsStep DEF Kinds, Errnos
<1> QED BY <1>1, <1>2, <1>3 DEF Asked, Missing

CallMoves(d) ==
  /\ Moves(op, op', d, Ops \union {"none"}) /\ Moves(arg, arg', d, Places)
  /\ Moves(found, found', d, {"absent", "flat", "nested"})
  /\ Moves(opened, opened', d, 0 .. MaxOpen) /\ Moves(count, count', d, 0 .. MaxCalls)

LocalMoves(d) ==
  /\ Moves(pc, pc', d, Labels) /\ Moves(pos, pos', d, 0 .. Depth)
  /\ Moves(stack, stack', d, Seq(Frames)) /\ Moves(result, result', d, Results)
  /\ Moves(temp, temp', d, Places) /\ Moves(errno, errno', d, Errnos)
  /\ Moves(open, open', d, 0 .. MaxOpen) /\ Moves(trouble, trouble', d, SUBSET Kinds)

\* Nothing of another caller changes, but what it notes.
Own(d) == CallMoves(d) /\ LocalMoves(d)

LEMMA SameCall ==
  ASSUME ShapeInv, NEW d \in Callers, UNCHANGED call
  PROVE  CallMoves(d) /\ op'[d] = op[d] /\ arg'[d] = arg[d] /\ found'[d] = found[d]
         /\ opened'[d] = opened[d]
BY MovesOne DEF call, ShapeInv, Scalars, CallMoves

LEMMA SameLocals ==
  ASSUME ShapeInv, NEW d \in Callers
  PROVE  /\ Moves(pc, pc, d, Labels) /\ Moves(pos, pos, d, 0 .. Depth)
         /\ Moves(stack, stack, d, Seq(Frames)) /\ Moves(result, result, d, Results)
         /\ Moves(temp, temp, d, Places) /\ Moves(errno, errno, d, Errnos)
         /\ Moves(open, open, d, 0 .. MaxOpen) /\ Moves(trouble, trouble, d, SUBSET Kinds)
BY MovesOne DEF ShapeInv, Scalars, Labels, Results, Kinds

LEMMA TypesGive ==
  ASSUME ShapeInv
  PROVE  Scalars /\ stack \in [Callers -> Seq(Frames)]
BY DEF ShapeInv

\* A caller that is not in remove_all has no frames.
LEMMA NoFrames ==
  ASSUME ShapeInv, NEW d \in Callers, pc[d] \notin RemoveLabels
  PROVE  stack[d] = <<>>
BY DEF ShapeInv, Shape, StackFits

\* A caller that has answered.
LEMMA AnsweredFits ==
  ASSUME ShapeInv, NEW d \in Callers, CallMoves(d), op'[d] = op[d], arg'[d] = arg[d],
         pc'[d] = "idle", stack'[d] = <<>>,
         result'[d] = "true" => open'[d] = opened'[d]
  PROVE  Shape(d)'
<1>1. ArgumentsFit(d)'
  BY DEF ShapeInv, Shape, ArgumentsFit
<1>2. LabelsFit(d)' /\ StackFits(d)' /\ FramesNest(d)' /\ StreamsCounted(d)'
  BY DEF LabelsFit, StackFits, FramesNest, Nested, StreamsCounted, CreateLabels, RemoveLabels, AskLabels,
         Running, Streaming
<1> QED BY <1>1, <1>2 DEF Shape

\* A caller on its way in a call other than remove_all.
LEMMA GoingFits ==
  ASSUME ShapeInv, NEW d \in Callers, CallMoves(d), op'[d] = op[d], arg'[d] = arg[d], opened'[d] = opened[d],
         pc[d] \in Running \ RemoveLabels, pc'[d] \in Running \ RemoveLabels,
         stack'[d] = stack[d], open'[d] = open[d], result'[d] = result[d],
         pc'[d] \in {"cd_exists", "cd_mkdir"} => pos'[d] \in 1 .. Len(arg[d]),
         /\ pc'[d] \in CreateLabels => op[d] \in CreateOps
         /\ pc'[d] = "mkdtemp" => op[d] = "create_temp_directory"
         /\ pc'[d] = "remove" => op[d] = "remove"
         /\ pc'[d] \in {"fs_isdir", "fs_stat"} => op[d] = "file_size"
         /\ pc'[d] = "isreg" => op[d] = "is_regular_file"
  PROVE  Shape(d)'
<1>1. Shape(d) /\ stack[d] = <<>>
  BY NoFrames DEF ShapeInv
<1>2. LabelsFit(d)'
  BY <1>1 DEF Shape, LabelsFit
<1>3. ArgumentsFit(d)'
  BY <1>1 DEF Shape, ArgumentsFit
<1>4. StackFits(d)' /\ FramesNest(d)'
  BY <1>1 DEF StackFits, FramesNest, Nested, RemoveLabels
<1>5. StreamsCounted(d)'
  BY <1>1, LabelsDiffer DEF Shape, StreamsCounted, RemoveLabels, Streaming
<1> QED BY <1>2, <1>3, <1>4, <1>5 DEF Shape

LEMMA NextComponentStep ==
  ASSUME ShapeInv, NEW d \in Callers, pc[d] \in {"cd_exists", "cd_mkdir"}, NextComponent(d)
  PROVE  /\ Moves(pc, pc', d, Labels) /\ Moves(pos, pos', d, 0 .. Depth)
         /\ \/ pc'[d] = "cd_isdir" /\ pos[d] = Len(arg[d])
            \/ pc'[d] = "cd_exists" /\ pos[d] # Len(arg[d]) /\ pos'[d] = pos[d] + 1
         /\ pc'[d] = "cd_exists" => pos'[d] \in 1 .. Len(arg[d])
<1>1. pos[d] \in 1 .. Len(arg[d]) /\ Len(arg[d]) \in 1 .. Depth /\ Scalars
  BY BuiltFits DEF ShapeInv
<1> DEFINE l == IF pos[d] = Len(arg[d]) THEN "cd_isdir" ELSE "cd_exists"
           i == IF pos[d] = Len(arg[d]) THEN pos[d] ELSE pos[d] + 1
<1>2. l \in Labels
  BY DEF Labels, Running, CreateLabels
<1>3. i \in 0 .. Depth /\ (pos[d] # Len(arg[d]) => i \in 1 .. Len(arg[d]))
  BY <1>1, DepthAssumption
<1>4. Moves(pc, pc', d, Labels) /\ pc'[d] = l
  BY <1>1, <1>2, GotoStep DEF NextComponent
<1>5. pos' = [pos EXCEPT ![d] = i] /\ pos \in [Callers -> 0 .. Depth]
  BY <1>1 DEF NextComponent, Scalars
<1>6. Moves(pos, pos', d, 0 .. Depth) /\ pos'[d] = i
  BY <1>3, <1>5, MovesOne
<1> QED BY <1>3, <1>4, <1>6

LEMMA CreateExistsShape ==
  ASSUME ShapeInv, NEW d \in Callers, CreateExists(d)
  PROVE  Own(d) /\ Shape(d)'
<1>1. PICK b \in BOOLEAN :
        /\ Asked(d, Built(d), Exists(tree, Built(d)), b)
        /\ IF b THEN NextComponent(d) ELSE Goto(d, "cd_mkdir") /\ UNCHANGED pos
  BY DEF CreateExists
<1>2. /\ pc[d] = "cd_exists" /\ op[d] \in CreateOps
      /\ UNCHANGED <<call, stack, result, temp, open>>
  BY BuiltFits DEF CreateExists
<1>3. CallMoves(d) /\ op'[d] = op[d] /\ arg'[d] = arg[d] /\ opened'[d] = opened[d]
  BY <1>2, SameCall
<1>4. Moves(errno, errno', d, Errnos) /\ Moves(trouble, trouble', d, SUBSET Kinds)
  BY <1>1, AskedStep, TypesGive DEF Exists
<1>5. /\ Moves(pc, pc', d, Labels) /\ Moves(pos, pos', d, 0 .. Depth)
      /\ pc'[d] \in {"cd_exists", "cd_mkdir", "cd_isdir"}
      /\ pc'[d] \in {"cd_exists", "cd_mkdir"} => pos'[d] \in 1 .. Len(arg[d])
  <2>1. CASE b
    BY <1>1, <1>2, <2>1, NextComponentStep
  <2>2. CASE ~b
    BY <1>1, <1>2, <2>2, GotoStep, TypesGive, SameLocals, BuiltFits DEF Labels, Running, CreateLabels
  <2> QED BY <2>1, <2>2
<1>6. Own(d)
  BY <1>2, <1>3, <1>4, <1>5, SameLocals DEF Own, LocalMoves
<1>7. Shape(d)'
  BY <1>2, <1>3, <1>5, GoingFits DEF Running, CreateLabels, RemoveLabels
<1> QED BY <1>6, <1>7

LEMMA CreateMkdirShape ==
  ASSUME ShapeInv, NEW d \in Callers, CreateMkdir(d)
  PROVE  Own(d) /\ Shape(d)'
<1>1. PICK e \in Errnos :
        /\ Outcome(d, e, MkdirErrno(tree, Built(d)))
        /\ SetErrno(d, e)
        /\ \/ NextComponent(d)
           \/ Goto(d, "cd_fail") /\ UNCHANGED pos
  BY DEF CreateMkdir
<1>2. /\ pc[d] = "cd_mkdir" /\ op[d] \in CreateOps
      /\ UNCHANGED <<call, stack, result, temp, open>>
  BY BuiltFits DEF CreateMkdir
<1>3. CallMoves(d) /\ op'[d] = op[d] /\ arg'[d] = arg[d] /\ opened'[d] = opened[d]
  BY <1>2, SameCall
<1>4. Moves(errno, errno', d, Errnos) /\ Moves(trouble, trouble', d, SUBSET Kinds)
  BY <1>1, OutcomeStep, SetErrnoStep, TypesGive
<1>5. /\ Moves(pc, pc', d, Labels) /\ Moves(pos, pos', d, 0 .. Depth)
      /\ pc'[d] \in {"cd_exists", "cd_fail", "cd_isdir"}
      /\ pc'[d] = "cd_exists" => pos'[d] \in 1 .. Len(arg[d])
  <2>1. CASE NextComponent(d)
    BY <1>2, <2>1, NextComponentStep
  <2>2. CASE Goto(d, "cd_fail") /\ UNCHANGED pos
    <3>1. Moves(pc, pc', d, Labels) /\ pc'[d] = "cd_fail"
      BY <2>2, GotoStep, TypesGive DEF Labels, Running, CreateLabels
    <3> QED BY <2>2, <3>1, SameLocals
  <2> QED BY <1>1, <2>1, <2>2
<1>6. Own(d)
  BY <1>2, <1>3, <1>4, <1>5, SameLocals DEF Own, LocalMoves
<1>7. Shape(d)'
  BY <1>2, <1>3, <1>5, GoingFits DEF Running, CreateLabels, RemoveLabels
<1> QED BY <1>6, <1>7

\* A call that returns v and touches nothing else of its own but errno.
LEMMA ReturnShape ==
  ASSUME ShapeInv, NEW d \in Callers, NEW v \in Results, Return(d, v),
         UNCHANGED <<call, temp, open>>,
         Moves(errno, errno', d, Errnos), Moves(trouble, trouble', d, SUBSET Kinds),
         v = "true" => open[d] = opened[d]
  PROVE  Own(d) /\ Shape(d)'
<1>1. CallMoves(d) /\ op'[d] = op[d] /\ arg'[d] = arg[d] /\ opened'[d] = opened[d]
  BY SameCall
<1>2. /\ Moves(pc, pc', d, Labels) /\ pc'[d] = "idle"
      /\ Moves(result, result', d, Results) /\ result'[d] = v
      /\ Moves(stack, stack', d, Seq(Frames)) /\ stack'[d] = <<>>
      /\ Moves(pos, pos', d, 0 .. Depth)
  BY ReturnStep, TypesGive
<1>3. Own(d)
  BY <1>1, <1>2, SameLocals DEF Own, LocalMoves
<1>4. Shape(d)'
  BY <1>1, <1>2, AnsweredFits
<1> QED BY <1>3, <1>4

\* No stream is open beyond those that were, outside remove_all.
LEMMA NoStreams ==
  ASSUME ShapeInv, NEW d \in Callers, pc[d] \in Running \ RemoveLabels
  PROVE  open[d] = opened[d]
BY DEF ShapeInv, Shape, StreamsCounted

LEMMA ThrowShape ==
  ASSUME ShapeInv, NEW d \in Callers, Throw(d), UNCHANGED <<call, temp, open, trouble>>
  PROVE  Own(d) /\ Shape(d)'
<1> DEFINE v == IF errno[d] = "0" THEN "threw success" ELSE "threw error"
<1>1. v \in Results /\ v # "true" /\ Return(d, v)
  BY DEF Results, Throw
<1>2. Moves(errno, errno', d, Errnos) /\ Moves(trouble, trouble', d, SUBSET Kinds)
  <2>1. errno \in [Callers -> Errnos] /\ "0" \in Errnos
    BY DEF ShapeInv, Scalars, Errnos
  <2> QED BY <2>1, MovesOne, SameLocals DEF Throw
<1> HIDE DEF v
<1> QED BY <1>1, <1>2, ReturnShape

LEMMA CreateAnswersShape ==
  ASSUME ShapeInv, NEW d \in Callers, NEW b \in BOOLEAN, CreateAnswers(d, b),
         pc[d] \in {"cd_isdir", "cd_fail"}, UNCHANGED <<call, temp, open, trouble>>
  PROVE  Own(d) /\ Shape(d)'
<1>0. pc[d] \in Running \ RemoveLabels /\ open[d] = opened[d]
  BY NoStreams DEF Running, CreateLabels, RemoveLabels
<1>1. CASE Return(d, Verdict(b)) /\ UNCHANGED errno
  <2>1. Verdict(b) \in Results
    BY DEF Verdict, Results
  <2> QED BY <1>0, <1>1, <2>1, ReturnShape, SameLocals
<1>2. CASE op[d] = "create_temp_directory" /\ Goto(d, "mkdtemp") /\ UNCHANGED <<pos, stack, result, errno>>
  <2>1. Moves(pc, pc', d, Labels) /\ pc'[d] = "mkdtemp"
    BY <1>2, GotoStep, TypesGive DEF Labels, Running
  <2>2. CallMoves(d) /\ op'[d] = op[d] /\ arg'[d] = arg[d] /\ opened'[d] = opened[d]
    BY SameCall
  <2>3. Own(d)
    BY <1>2, <2>1, <2>2, SameLocals DEF Own, LocalMoves
  <2>4. Shape(d)'
    BY <1>0, <1>2, <2>1, <2>2, GoingFits DEF Running, CreateLabels, RemoveLabels
  <2> QED BY <2>3, <2>4
<1>3. CASE Throw(d)
  BY <1>3, ThrowShape
<1> QED BY <1>1, <1>2, <1>3 DEF CreateAnswers

LEMMA CreateFailShape ==
  ASSUME ShapeInv, NEW d \in Callers, CreateFail(d)
  PROVE  Own(d) /\ Shape(d)'
BY CreateAnswersShape DEF CreateFail

LEMMA MissingStep ==
  ASSUME Scalars, NEW d \in Callers, NEW p, Missing(d, p)
  PROVE  /\ Moves(errno, errno', d, Errnos) /\ errno'[d] # "0"
         /\ Moves(trouble, trouble', d, SUBSET Kinds) /\ trouble[d] \subseteq trouble'[d]
         /\ ~Exists(tree, p) \/ "look" \in trouble'[d]
<1>1. CASE ~Exists(tree, p) /\ SetErrno(d, LookupErrno(tree, p)) /\ UNCHANGED trouble
  <2> DEFINE e == LookupErrno(tree, p)
  <2>1. e \in Errnos /\ e # "0" /\ SetErrno(d, e)
    BY <1>1, LookupSays
  <2> HIDE DEF e
  <2>2. Moves(errno, errno', d, Errnos) /\ errno'[d] # "0"
    BY <2>1, SetErrnoStep
  <2> QED BY <1>1, <2>2, MovesOne DEF Scalars, Kinds
<1>2. CASE SetErrno(d, "EIO") /\ Fails(d, "look")
  BY <1>2, SetErrnoStep, FailsStep DEF Kinds, Errnos
<1> QED BY <1>1, <1>2 DEF Missing

LEMMA CreateIsDirectoryShape ==
  ASSUME ShapeInv, NEW d \in Callers, CreateIsDirectory(d)
  PROVE  Own(d) /\ Shape(d)'
<1>1. CASE CreateAnswers(d, IsDirectory(tree, arg[d])) /\ UNCHANGED trouble
  BY <1>1, CreateAnswersShape DEF CreateIsDirectory, IsDirectory
<1>2. CASE Missing(d, arg[d]) /\ Goto(d, "cd_fail") /\ UNCHANGED <<pos, stack, result>>
  <2>1. pc[d] = "cd_isdir" /\ op[d] \in CreateOps /\ UNCHANGED <<call, temp, open>>
    BY DEF CreateIsDirectory, ShapeInv, Shape, LabelsFit, CreateLabels
  <2>2. Moves(pc, pc', d, Labels) /\ pc'[d] = "cd_fail"
    BY <1>2, GotoStep, TypesGive DEF Labels, Running, CreateLabels
  <2>3. CallMoves(d) /\ op'[d] = op[d] /\ arg'[d] = arg[d] /\ opened'[d] = opened[d]
    BY <2>1, SameCall
  <2>4. Moves(errno, errno', d, Errnos) /\ Moves(trouble, trouble', d, SUBSET Kinds)
    BY <1>2, MissingStep, TypesGive
  <2>5. Own(d)
    BY <1>2, <2>1, <2>2, <2>3, <2>4, SameLocals DEF Own, LocalMoves
  <2>6. Shape(d)'
    BY <1>2, <2>1, <2>2, <2>3, GoingFits DEF Running, CreateLabels, RemoveLabels
  <2> QED BY <2>5, <2>6
<1> QED BY <1>1, <1>2 DEF CreateIsDirectory

LEMMA MkdtempShape ==
  ASSUME ShapeInv, NEW d \in Callers, Mkdtemp(d)
  PROVE  Own(d) /\ Shape(d)'
<1>1. pc[d] = "mkdtemp" /\ UNCHANGED <<call, open>> /\ open[d] = opened[d]
  BY NoStreams DEF Mkdtemp, Running, RemoveLabels
<1>2. ASSUME NEW n \in Names, temp' = [temp EXCEPT ![d] = Append(arg[d], n)], Return(d, "true"),
             UNCHANGED <<errno, trouble>>
      PROVE  Own(d) /\ Shape(d)'
  <2>1. CallMoves(d) /\ op'[d] = op[d] /\ arg'[d] = arg[d] /\ opened'[d] = opened[d]
    BY <1>1, SameCall
  <2>2. Append(arg[d], n) \in Places /\ temp \in [Callers -> Places]
    BY <1>1, TempFits DEF Places, ShapeInv, Scalars
  <2>3. Moves(temp, temp', d, Places)
    BY <1>2, <2>2, MovesOne
  <2>4. /\ Moves(pc, pc', d, Labels) /\ pc'[d] = "idle"
        /\ Moves(result, result', d, Results)
        /\ Moves(stack, stack', d, Seq(Frames)) /\ stack'[d] = <<>>
        /\ Moves(pos, pos', d, 0 .. Depth)
    BY <1>2, ReturnStep, TypesGive DEF Results
  <2>5. Own(d)
    BY <1>1, <1>2, <2>1, <2>3, <2>4, SameLocals DEF Own, LocalMoves
  <2>6. Shape(d)'
    BY <1>1, <2>1, <2>4, AnsweredFits
  <2> QED BY <2>5, <2>6
<1>3. ASSUME UNCHANGED trouble \/ Fails(d, "change"), Return(d, "threw error"),
             errno' = [errno EXCEPT ![d] = "0"], UNCHANGED temp
      PROVE  Own(d) /\ Shape(d)'
  <2>1. Moves(errno, errno', d, Errnos)
    <3>1. errno \in [Callers -> Errnos] /\ "0" \in Errnos
      BY DEF ShapeInv, Scalars, Errnos
    <3> QED BY <1>3, <3>1, MovesOne
  <2>2. Moves(trouble, trouble', d, SUBSET Kinds)
    BY <1>3, FailsStep, SameLocals, TypesGive DEF Kinds
  <2> QED BY <1>1, <1>3, <2>1, <2>2, ReturnShape DEF Results
<1> QED BY <1>2, <1>3 DEF Mkdtemp

LEMMA RemoveCallTypes ==
  ASSUME ShapeInv, NEW d \in Callers, NEW p \in Paths, NEW e \in Errnos, RemoveCall(d, p, e)
  PROVE  Moves(errno, errno', d, Errnos) /\ Moves(trouble, trouble', d, SUBSET Kinds)
BY OutcomeStep, SetErrnoStep, TypesGive DEF RemoveCall

LEMMA RemoveOneShape ==
  ASSUME ShapeInv, NEW d \in Callers, RemoveOne(d)
  PROVE  Own(d) /\ Shape(d)'
<1>1. PICK e \in Errnos : RemoveCall(d, arg[d], e) /\ Return(d, Verdict(e = "0"))
  BY DEF RemoveOne
<1>2. arg[d] \in Paths /\ open[d] = opened[d] /\ Verdict(e = "0") \in Results
  BY AskedFits, NoStreams DEF RemoveOne, Running, RemoveLabels, Verdict, Results
<1> QED BY <1>1, <1>2, RemoveCallTypes, ReturnShape DEF RemoveOne

LEMMA AnswerRegularShape ==
  ASSUME ShapeInv, NEW d \in Callers, AnswerRegular(d)
  PROVE  Own(d) /\ Shape(d)'
<1>1. PICK b \in BOOLEAN : Asked(d, arg[d], IsRegularFile(tree, arg[d]), b) /\ Return(d, Verdict(b))
  BY DEF AnswerRegular
<1>2. open[d] = opened[d] /\ Verdict(b) \in Results
  BY NoStreams DEF AnswerRegular, Running, AskLabels, RemoveLabels, Verdict, Results
<1>3. Moves(errno, errno', d, Errnos) /\ Moves(trouble, trouble', d, SUBSET Kinds)
  BY <1>1, AskedStep, TypesGive DEF IsRegularFile
<1> QED BY <1>1, <1>2, <1>3, ReturnShape DEF AnswerRegular

LEMMA FileSizeStatShape ==
  ASSUME ShapeInv, NEW d \in Callers, FileSizeStat(d)
  PROVE  Own(d) /\ Shape(d)'
<1>1. open[d] = opened[d] /\ UNCHANGED <<call, temp, open>>
  BY NoStreams DEF FileSizeStat, Running, AskLabels, RemoveLabels
<1>2. CASE Return(d, "true") /\ UNCHANGED <<errno, trouble>>
  BY <1>1, <1>2, ReturnShape, SameLocals DEF Results
<1>3. CASE (UNCHANGED trouble \/ Fails(d, "look")) /\ Return(d, "threw error") /\ errno' = [errno EXCEPT ![d] = "0"]
  <2>1. Moves(errno, errno', d, Errnos)
    <3>1. errno \in [Callers -> Errnos] /\ "0" \in Errnos
      BY DEF ShapeInv, Scalars, Errnos
    <3> QED BY <1>3, <3>1, MovesOne
  <2>2. Moves(trouble, trouble', d, SUBSET Kinds)
    BY <1>3, FailsStep, SameLocals, TypesGive DEF Kinds
  <2> QED BY <1>1, <1>3, <2>1, <2>2, ReturnShape DEF Results
<1> QED BY <1>2, <1>3 DEF FileSizeStat

LEMMA FileSizeIsDirectoryShape ==
  ASSUME ShapeInv, NEW d \in Callers, FileSizeIsDirectory(d)
  PROVE  Own(d) /\ Shape(d)'
<1>1. PICK b \in BOOLEAN :
        /\ Asked(d, arg[d], IsDirectory(tree, arg[d]), b)
        /\ \/ b /\ Return(d, "threw error")
           \/ ~b /\ Goto(d, "fs_stat") /\ UNCHANGED <<pos, stack, result>>
  BY DEF FileSizeIsDirectory
<1>2. pc[d] = "fs_isdir" /\ op[d] = "file_size" /\ UNCHANGED <<call, temp, open>>
  BY DEF FileSizeIsDirectory, ShapeInv, Shape, LabelsFit
<1>3. Moves(errno, errno', d, Errnos) /\ Moves(trouble, trouble', d, SUBSET Kinds)
  BY <1>1, AskedStep, TypesGive DEF IsDirectory
<1>4. CASE Return(d, "threw error")
  BY <1>2, <1>3, <1>4, ReturnShape DEF Results
<1>5. CASE Goto(d, "fs_stat") /\ UNCHANGED <<pos, stack, result>>
  <2>1. Moves(pc, pc', d, Labels) /\ pc'[d] = "fs_stat"
    BY <1>5, GotoStep, TypesGive DEF Labels, Running, AskLabels
  <2>2. CallMoves(d) /\ op'[d] = op[d] /\ arg'[d] = arg[d] /\ opened'[d] = opened[d]
    BY <1>2, SameCall
  <2>3. Own(d)
    BY <1>2, <1>3, <1>5, <2>1, <2>2, SameLocals DEF Own, LocalMoves
  <2>4. Shape(d)'
    BY <1>2, <1>5, <2>1, <2>2, GoingFits DEF Running, CreateLabels, AskLabels, RemoveLabels
  <2> QED BY <2>3, <2>4
<1> QED BY <1>1, <1>4, <1>5

----------------------------------------------------------------------------
(* The frames of remove_all.                                                *)

LEMMA FrontElements ==
  ASSUME NEW S, NEW s \in Seq(S), s # <<>>
  PROVE  /\ Front(s) \in Seq(S) /\ Len(Front(s)) = Len(s) - 1 /\ Len(s) \in Nat \ {0}
         /\ \A i \in 1 .. Len(s) - 1 : Front(s)[i] = s[i]
<1>1. Len(s) \in Nat \ {0}
  OBVIOUS
<1>2. Front(s) \in Seq(S) /\ Len(Front(s)) = Len(s) - 1
  <2> DEFINE n == Len(s) - 1
  <2>1. n \in Nat /\ n <= Len(s) /\ Front(s) = SubSeq(s, 1, n)
    BY <1>1 DEF Front
  <2> HIDE DEF n
  <2>2. SubSeq(s, 1, n) \in Seq(S)
    BY <1>1, <2>1
  <2>3. Len(SubSeq(s, 1, n)) = n
    BY <1>1, <2>1
  <2> QED BY <2>1, <2>2, <2>3 DEF n
<1>3. ASSUME NEW i \in 1 .. Len(s) - 1 PROVE Front(s)[i] = s[i]
  BY <1>1 DEF Front
<1> QED BY <1>1, <1>2, <1>3

LEMMA NestedTop ==
  ASSUME NEW s \in Seq(Frames), s # <<>>, NEW p \in Paths, Nested(s, p), NEW f \in Frames, f.dir = Last(s).dir,
         (f.left \union {f.sub}) \intersect Names # {} => Len(f.dir) < Depth
  PROVE  LET u == Append(Front(s), f)
         IN  /\ u \in Seq(Frames) /\ u # <<>> /\ Len(u) = Len(s) /\ Last(u) = f
             /\ Nested(u, p)
<1> DEFINE u == Append(Front(s), f)
<1>1. /\ u \in Seq(Frames) /\ u # <<>> /\ Len(u) = Len(s) /\ u[Len(s)] = f
      /\ \A i \in 1 .. Len(s) : i # Len(s) => u[i] = s[i]
  <2> DEFINE w == Front(s)
  <2>1. /\ w \in Seq(Frames) /\ Len(w) = Len(s) - 1 /\ Len(s) \in Nat \ {0}
        /\ \A i \in 1 .. Len(s) - 1 : w[i] = s[i]
    BY FrontElements
  <2> HIDE DEF w
  <2>2. u = Append(w, f)
    BY DEF w
  <2> HIDE DEF u
  <2>3. u \in Seq(Frames) /\ Len(u) = Len(s) /\ u[Len(s)] = f
    BY <2>1, <2>2
  <2>4. ASSUME NEW i \in 1 .. Len(s), i # Len(s) PROVE u[i] = s[i]
    BY <2>1, <2>2, <2>4
  <2>5. u # <<>>
    BY <2>1, <2>3
  <2> QED BY <2>3, <2>4, <2>5
<1> HIDE DEF u
<1>2. Len(s) \in Nat \ {0} /\ f.dir = s[Len(s)].dir
  BY DEF Last
<1>3. u[1].dir = p
  BY <1>1, <1>2 DEF Nested
<1>4. ASSUME NEW i \in 1 .. Len(s)
      PROVE  /\ Len(u[i].dir) + 1 = Len(p) + i
             /\ IsPrefix(p, u[i].dir)
             /\ (u[i].left \union {u[i].sub}) \intersect Names # {} => Len(u[i].dir) < Depth
             /\ i < Len(s) => u[i].sub \in Names
  <2>1. CASE i = Len(s)
    BY <1>1, <1>2, <2>1, SMTT(30) DEF Nested
  <2>2. CASE i # Len(s)
    BY <1>1, <2>2 DEF Nested
  <2> QED BY <2>1, <2>2
<1>5. Nested(u, p)
  BY <1>1, <1>3, <1>4 DEF Nested
<1> QED BY <1>1, <1>5 DEF u, Last

LEMMA NestedPop ==
  ASSUME NEW s \in Seq(Frames), Len(s) > 1, NEW p \in Paths, Nested(s, p)
  PROVE  /\ Front(s) \in Seq(Frames) /\ Front(s) # <<>> /\ Len(Front(s)) + 1 = Len(s)
         /\ Last(Front(s)).sub \in Names /\ Nested(Front(s), p)
<1> DEFINE u == Front(s)
<1>1. /\ u \in Seq(Frames) /\ u # <<>> /\ Len(u) + 1 = Len(s)
      /\ \A i \in 1 .. Len(u) : u[i] = s[i]
  <2>1. s # <<>>
    OBVIOUS
  <2>2. /\ u \in Seq(Frames) /\ Len(u) = Len(s) - 1 /\ Len(s) \in Nat \ {0}
        /\ \A i \in 1 .. Len(s) - 1 : u[i] = s[i]
    BY <2>1, FrontElements
  <2> HIDE DEF u
  <2> QED BY <2>2
<1> HIDE DEF u
<1>2. Len(u) \in 1 .. Len(s) /\ Len(u) \in Nat /\ Len(s) \in Nat /\ Len(u) < Len(s)
  BY <1>1
<1>3. Last(u).sub \in Names
  BY <1>1, <1>2, SMTT(30) DEF Nested, Last
<1>4. Nested(u, p)
  <2>1. u[1].dir = p
    BY <1>1, <1>2 DEF Nested
  <2>2. ASSUME NEW i \in 1 .. Len(u)
        PROVE  /\ Len(u[i].dir) + 1 = Len(p) + i
               /\ IsPrefix(p, u[i].dir)
               /\ (u[i].left \union {u[i].sub}) \intersect Names # {} => Len(u[i].dir) < Depth
               /\ i < Len(u) => u[i].sub \in Names
    <3>1. i \in 1 .. Len(s) /\ u[i] = s[i] /\ i < Len(s)
      BY <1>1, <1>2
    <3> QED BY <3>1 DEF Nested
  <2> QED BY <2>1, <2>2 DEF Nested
<1> QED BY <1>1, <1>3, <1>4 DEF u

LEMMA NestedPush ==
  ASSUME NEW s \in Seq(Frames), s # <<>>, NEW p \in Paths, Nested(s, p), Last(s).sub \in Names,
         NEW q \in Paths, Len(q) = Len(Last(s).dir) + 1, IsPrefix(p, q)
  PROVE  LET u == Append(s, Frame(q))
         IN  /\ u \in Seq(Frames) /\ u # <<>> /\ Len(u) = Len(s) + 1
             /\ Nested(u, p)
<1> DEFINE u == Append(s, Frame(q))
<1>0. Frame(q) \in Frames /\ Frame(q).dir = q /\ (Frame(q).left \union {Frame(q).sub}) \intersect Names = {}
  BY DotsAssumption DEF Frame, Frames
<1> DEFINE f == Frame(q)
<1> HIDE DEF f
<1>1. /\ u \in Seq(Frames) /\ u # <<>> /\ Len(u) = Len(s) + 1 /\ u[Len(s) + 1] = f
      /\ \A i \in 1 .. Len(s) : u[i] = s[i]
  BY <1>0 DEF f
<1> HIDE DEF u
<1>2. Len(s) \in Nat \ {0} /\ Last(s) = s[Len(s)] /\ Len(q) \in Nat /\ Len(p) \in Nat
  BY PathIsSeq, DepthAssumption DEF Last
<1>3. Len(q) + 1 = Len(p) + Len(s) + 1
  <2>1. Len(s[Len(s)].dir) + 1 = Len(p) + Len(s)
    BY <1>2 DEF Nested
  <2> QED BY <1>2, <2>1
<1>4. u[1].dir = p
  BY <1>1, <1>2 DEF Nested
<1>5. ASSUME NEW i \in 1 .. Len(u)
      PROVE  /\ Len(u[i].dir) + 1 = Len(p) + i
             /\ IsPrefix(p, u[i].dir)
             /\ (u[i].left \union {u[i].sub}) \intersect Names # {} => Len(u[i].dir) < Depth
             /\ i < Len(u) => u[i].sub \in Names
  <2>1. CASE i = Len(u)
    <3>1. u[i].dir = q /\ (u[i].left \union {u[i].sub}) \intersect Names = {} /\ i = Len(s) + 1
      BY <1>0, <1>1, <2>1 DEF f
    <3> QED BY <1>1, <1>2, <1>3, <2>1, <3>1
  <2>2. CASE i # Len(u)
    <3>1. i \in 1 .. Len(s) /\ u[i] = s[i]
      BY <1>1, <1>2, <2>2
    <3>2. i < Len(s) => u[i].sub \in Names
      BY <3>1 DEF Nested
    <3>3. i = Len(s) => u[i].sub \in Names
      BY <1>2, <3>1
    <3> QED BY <1>2, <3>1, <3>2, <3>3 DEF Nested
  <2> QED BY <2>1, <2>2
<1>6. Nested(u, p)
  BY <1>1, <1>4, <1>5 DEF Nested
<1> QED BY <1>1, <1>6 DEF u

LEMMA Streams ==
  ASSUME ShapeInv, NEW d \in Callers, pc[d] \in RemoveLabels
  PROVE  /\ open[d] \in 0 .. MaxOpen /\ opened[d] \in 0 .. MaxOpen /\ Len(stack[d]) \in 1 .. Depth
         /\ pc[d] \in Streaming => open[d] = opened[d] + Len(stack[d])
         /\ pc[d] \notin Streaming => open[d] + 1 = opened[d] + Len(stack[d])
         /\ stack[d] # <<>> /\ Nested(stack[d], arg[d])
<1>1. Len(stack[d]) \in 1 .. Depth
  BY TopFits
<1> QED BY <1>1 DEF ShapeInv, Scalars, Shape, StreamsCounted, StackFits, FramesNest

\* A caller on its way in remove_all.
LEMMA RecursionFits ==
  ASSUME ShapeInv, NEW d \in Callers, CallMoves(d), op'[d] = op[d], arg'[d] = arg[d], opened'[d] = opened[d],
         pc[d] \in RemoveLabels, pc'[d] \in RemoveLabels, result'[d] = result[d],
         stack'[d] # <<>>, Nested(stack'[d], arg[d]),
         pc'[d] \in {"subdir", "subremove"} => Last(stack'[d]).sub \in Names,
         pc'[d] \in Streaming => open'[d] = opened[d] + Len(stack'[d]),
         pc'[d] \notin Streaming => open'[d] + 1 = opened[d] + Len(stack'[d])
  PROVE  Shape(d)'
<1>1. Shape(d) /\ op[d] = "remove_all"
  BY TopFits DEF ShapeInv
<1>2. LabelsFit(d)'
  BY <1>1 DEF Shape, LabelsFit, CreateLabels, RemoveLabels, Running, AskLabels
<1>3. ArgumentsFit(d)'
  BY <1>1 DEF Shape, ArgumentsFit, RemoveLabels
<1>4. StackFits(d)' /\ FramesNest(d)'
  BY DEF StackFits, FramesNest, Top
<1>5. StreamsCounted(d)'
  BY DEF StreamsCounted, RemoveLabels
<1> QED BY <1>2, <1>3, <1>4, <1>5 DEF Shape

\* The frames stay while the caller goes on.
LEMMA SameFrames ==
  ASSUME ShapeInv, NEW d \in Callers, NEW l \in RemoveLabels, Goto(d, l),
         UNCHANGED <<call, pos, stack, result, temp, open>>,
         Moves(errno, errno', d, Errnos), Moves(trouble, trouble', d, SUBSET Kinds),
         pc[d] \in RemoveLabels, pc[d] \in Streaming <=> l \in Streaming,
         l \in {"subdir", "subremove"} => Top(d).sub \in Names
  PROVE  Own(d) /\ Shape(d)'
<1>1. Moves(pc, pc', d, Labels) /\ pc'[d] = l
  BY GotoStep, TypesGive DEF Labels, Running
<1>2. CallMoves(d) /\ op'[d] = op[d] /\ arg'[d] = arg[d] /\ opened'[d] = opened[d]
  BY SameCall
<1>3. Own(d)
  BY <1>1, <1>2, SameLocals DEF Own, LocalMoves
<1>4. Shape(d)'
  BY <1>1, <1>2, Streams, RecursionFits DEF Top
<1> QED BY <1>3, <1>4

LEMMA RemoveAllAnswersShape ==
  ASSUME ShapeInv, NEW d \in Callers, NEW b \in BOOLEAN, RemoveAllAnswers(d, b),
         pc[d] \in {"plain", "gone"}, UNCHANGED <<call, temp, open>>,
         Moves(errno, errno', d, Errnos), Moves(trouble, trouble', d, SUBSET Kinds)
  PROVE  Own(d) /\ Shape(d)'
<1>0. pc[d] \in RemoveLabels /\ pc[d] \notin Streaming
  BY DEF RemoveLabels, Streaming
<1>1. /\ Len(stack[d]) \in 1 .. Depth /\ open[d] + 1 = opened[d] + Len(stack[d])
      /\ stack[d] # <<>> /\ Nested(stack[d], arg[d]) /\ arg[d] \in Paths /\ stack[d] \in Seq(Frames)
  BY <1>0, Streams, TopFits
<1>4. open[d] \in Nat /\ opened[d] \in Nat
  <2>1. open[d] \in 0 .. MaxOpen /\ opened[d] \in 0 .. MaxOpen
    BY <1>0, Streams
  <2> QED BY <2>1, MaxOpenAssumption
<1>2. CASE (~b \/ Len(stack[d]) = 1) /\ Return(d, Verdict(b))
  <2>1. Verdict(b) \in Results /\ (Verdict(b) = "true" => open[d] = opened[d])
    <3>1. Verdict(b) \in Results /\ (Verdict(b) = "true" => b)
      BY DEF Verdict, Results
    <3>2. Len(stack[d]) = 1 => open[d] = opened[d]
      BY <1>1, <1>4
    <3>3. b => Len(stack[d]) = 1
      BY <1>2
    <3> QED BY <3>1, <3>2, <3>3
  <2> QED BY <1>2, <2>1, ReturnShape
<1>3. CASE /\ Len(stack[d]) > 1 /\ stack' = [stack EXCEPT ![d] = Front(@)]
           /\ Goto(d, "subremove") /\ UNCHANGED <<pos, result>>
  <2>1. Moves(pc, pc', d, Labels) /\ pc'[d] = "subremove"
    BY <1>3, GotoStep, TypesGive DEF Labels, Running, RemoveLabels
  <2>2. CallMoves(d) /\ op'[d] = op[d] /\ arg'[d] = arg[d] /\ opened'[d] = opened[d]
    BY SameCall
  <2>3. /\ Front(stack[d]) \in Seq(Frames) /\ Front(stack[d]) # <<>> /\ Len(Front(stack[d])) + 1 = Len(stack[d])
        /\ Last(Front(stack[d])).sub \in Names /\ Nested(Front(stack[d]), arg[d])
    BY <1>1, <1>3, NestedPop
  <2>4. Moves(stack, stack', d, Seq(Frames)) /\ stack'[d] = Front(stack[d])
    BY <1>3, <2>3, TypesGive, MovesOne
  <2>5. Own(d)
    BY <1>3, <2>1, <2>2, <2>4, SameLocals DEF Own, LocalMoves
  <2>6. open'[d] = opened[d] + Len(stack'[d])
    <3>1. Len(stack'[d]) + 1 = Len(stack[d]) /\ Len(stack'[d]) \in Nat
      BY <2>3, <2>4
    <3> QED BY <1>1, <1>4, <3>1, DepthAssumption
  <2>7. Shape(d)'
    BY <1>0, <1>3, <2>1, <2>2, <2>3, <2>4, <2>6, RecursionFits DEF RemoveLabels, Streaming
  <2> QED BY <2>5, <2>7
<1> QED BY <1>2, <1>3 DEF RemoveAllAnswers

LEMMA IsDirShape ==
  ASSUME ShapeInv, NEW d \in Callers, IsDir(d)
  PROVE  Own(d) /\ Shape(d)'
<1>1. PICK b \in BOOLEAN :
        /\ Asked(d, Top(d).dir, IsDirectory(tree, Top(d).dir), b)
        /\ Goto(d, IF b THEN "opendir" ELSE "plain")
  BY DEF IsDir
<1> DEFINE l == IF b THEN "opendir" ELSE "plain"
<1>2. Goto(d, l) /\ l \in RemoveLabels /\ l \notin Streaming /\ l \notin {"subdir", "subremove"}
  BY <1>1 DEF RemoveLabels, Streaming
<1> HIDE DEF l
<1>3. Moves(errno, errno', d, Errnos) /\ Moves(trouble, trouble', d, SUBSET Kinds)
  BY <1>1, AskedStep, TypesGive DEF IsDirectory
<1>4. pc[d] \in RemoveLabels /\ pc[d] \notin Streaming /\ UNCHANGED <<call, pos, stack, result, temp, open>>
  BY DEF IsDir, RemoveLabels, Streaming
<1> QED BY <1>2, <1>3, <1>4, SameFrames

LEMMA PlainRemoveShape ==
  ASSUME ShapeInv, NEW d \in Callers, PlainRemove(d)
  PROVE  Own(d) /\ Shape(d)'
<1>1. PICK e \in Errnos : RemoveCall(d, Top(d).dir, e) /\ RemoveAllAnswers(d, e = "0")
  BY DEF PlainRemove
<1>2. Top(d).dir \in Paths
  BY TopFits DEF PlainRemove, RemoveLabels
<1> QED BY <1>1, <1>2, RemoveCallTypes, RemoveAllAnswersShape DEF PlainRemove

LEMMA GoneShape ==
  ASSUME ShapeInv, NEW d \in Callers, Gone(d)
  PROVE  Own(d) /\ Shape(d)'
<1>1. PICK b \in BOOLEAN : Asked(d, Top(d).dir, Exists(tree, Top(d).dir), b) /\ RemoveAllAnswers(d, ~b)
  BY DEF Gone
<1>2. Moves(errno, errno', d, Errnos) /\ Moves(trouble, trouble', d, SUBSET Kinds)
  BY <1>1, AskedStep, TypesGive DEF Exists
<1> QED BY <1>1, <1>2, RemoveAllAnswersShape DEF Gone

LEMMA RemoveSelfShape ==
  ASSUME ShapeInv, NEW d \in Callers, RemoveSelf(d)
  PROVE  Own(d) /\ Shape(d)'
<1>1. PICK e \in Errnos : RemoveCall(d, Top(d).dir, e)
  BY DEF RemoveSelf
<1>2. /\ pc[d] \in RemoveLabels /\ pc[d] \notin Streaming
      /\ "gone" \in RemoveLabels /\ "gone" \notin Streaming \union {"subdir", "subremove"}
      /\ Goto(d, "gone") /\ UNCHANGED <<call, pos, stack, result, temp, open>>
  BY DEF RemoveSelf, RemoveLabels, Streaming
<1>3. Moves(errno, errno', d, Errnos) /\ Moves(trouble, trouble', d, SUBSET Kinds)
  BY <1>1, <1>2, TopFits, RemoveCallTypes
<1> QED BY <1>2, <1>3, SameFrames

LEMMA SubRemoveShape ==
  ASSUME ShapeInv, NEW d \in Callers, SubRemove(d)
  PROVE  Own(d) /\ Shape(d)'
<1>1. PICK e \in Errnos :
        /\ RemoveCall(d, SubPath(d), e)
        /\ \/ Goto(d, "readdir") /\ UNCHANGED <<pos, stack, result>>
           \/ Return(d, "false")
  BY DEF SubRemove
<1>2. /\ pc[d] = "subremove" /\ pc[d] \in RemoveLabels \intersect Streaming /\ UNCHANGED <<call, temp, open>>
      /\ "readdir" \in RemoveLabels \intersect Streaming
  BY DEF SubRemove, RemoveLabels, Streaming
<1>3. Moves(errno, errno', d, Errnos) /\ Moves(trouble, trouble', d, SUBSET Kinds)
  BY <1>1, <1>2, SubFits, RemoveCallTypes
<1>4. CASE Goto(d, "readdir") /\ UNCHANGED <<pos, stack, result>>
  BY <1>2, <1>3, <1>4, SameFrames
<1>5. CASE Return(d, "false")
  BY <1>2, <1>3, <1>5, ReturnShape DEF Results
<1> QED BY <1>1, <1>4, <1>5

LEMMA ChildrenFit ==
  ASSUME NEW t, NEW p \in Paths
  PROVE  Children(t, p) \subseteq Names /\ (Children(t, p) # {} => Len(p) < Depth)
<1>1. ASSUME NEW n \in Children(t, p) PROVE Len(p) < Depth
  <2>1. n \in Names /\ Append(p, n) \in Paths /\ p \in Places
    BY <1>1 DEF Children, Places
  <2> QED BY <2>1, AppendedPath
<1> QED BY <1>1 DEF Children

\* The innermost invocation changes its frame.
LEMMA SetTopStep ==
  ASSUME ShapeInv, NEW d \in Callers, pc[d] \in RemoveLabels, NEW f \in Frames, SetTop(d, f),
         f.dir = Top(d).dir, (f.left \union {f.sub}) \intersect Names # {} => Len(f.dir) < Depth
  PROVE  /\ Moves(stack, stack', d, Seq(Frames))
         /\ stack'[d] # <<>> /\ Nested(stack'[d], arg[d]) /\ Last(stack'[d]) = f
         /\ Len(stack'[d]) = Len(stack[d])
<1> DEFINE u == Append(Front(stack[d]), f)
<1>1. stack[d] \in Seq(Frames) /\ stack[d] # <<>> /\ arg[d] \in Paths /\ Nested(stack[d], arg[d])
  BY TopFits, Streams
<1>2. u \in Seq(Frames) /\ u # <<>> /\ Len(u) = Len(stack[d]) /\ Last(u) = f /\ Nested(u, arg[d])
  BY <1>1, NestedTop DEF Top
<1>3. stack' = [stack EXCEPT ![d] = u] /\ stack \in [Callers -> Seq(Frames)]
  BY TypesGive DEF SetTop
<1> HIDE DEF u
<1>4. Moves(stack, stack', d, Seq(Frames)) /\ stack'[d] = u
  BY <1>2, <1>3, MovesOne
<1> QED BY <1>2, <1>4

LEMMA OpenStep ==
  ASSUME Scalars, NEW d \in Callers, NEW k \in 0 .. MaxOpen, open' = [open EXCEPT ![d] = k]
  PROVE  Moves(open, open', d, 0 .. MaxOpen) /\ open'[d] = k
<1>1. open \in [Callers -> 0 .. MaxOpen]
  BY DEF Scalars
<1> QED BY <1>1 DEF Moves

LEMMA OpendirShape ==
  ASSUME ShapeInv, NEW d \in Callers, Opendir(d)
  PROVE  Own(d) /\ Shape(d)'
<1>0. /\ pc[d] \in RemoveLabels /\ pc[d] \notin Streaming
      /\ UNCHANGED <<call, pos, result, temp, errno>>
  BY DEF Opendir, RemoveLabels, Streaming
<1>1. CallMoves(d) /\ op'[d] = op[d] /\ arg'[d] = arg[d] /\ opened'[d] = opened[d]
  BY <1>0, SameCall
<1>2. CASE /\ open[d] < MaxOpen
           /\ open' = [open EXCEPT ![d] = @ + 1]
           /\ SetTop(d, [Top(d) EXCEPT !.left = Children(tree, Top(d).dir) \union {Dots}])
           /\ Goto(d, "readdir")
           /\ UNCHANGED trouble
  <2> DEFINE f == [Top(d) EXCEPT !.left = Children(tree, Top(d).dir) \union {Dots}]
             k == open[d] + 1
  <2>1. Top(d) \in Frames /\ Top(d).dir \in Paths
        /\ ((Top(d).left \union {Top(d).sub}) \intersect Names # {} => Len(Top(d).dir) < Depth)
    BY <1>0, TopFits
  <2>2. /\ f \in Frames /\ f.dir = Top(d).dir
        /\ f.left = Children(tree, Top(d).dir) \union {Dots} /\ f.sub = Top(d).sub
    BY <2>1, ChildrenFit DEF Frames
  <2>3. (f.left \union {f.sub}) \intersect Names # {} => Len(f.dir) < Depth
    BY <2>1, <2>2, ChildrenFit, DotsAssumption
  <2>4. SetTop(d, f)
    BY <1>2
  <2> HIDE DEF f
  <2>5. /\ Moves(stack, stack', d, Seq(Frames))
        /\ stack'[d] # <<>> /\ Nested(stack'[d], arg[d]) /\ Len(stack'[d]) = Len(stack[d])
    BY <1>0, <2>2, <2>3, <2>4, SetTopStep
  <2>6. k \in 0 .. MaxOpen /\ k = opened[d] + Len(stack[d])
    <3>1. open[d] \in 0 .. MaxOpen /\ open[d] + 1 = opened[d] + Len(stack[d])
      BY <1>0, Streams
    <3> QED BY <1>2, <3>1, MaxOpenAssumption
  <2>7. Scalars /\ open' = [open EXCEPT ![d] = k]
    BY <1>2, TypesGive
  <2> HIDE DEF k
  <2>8. Moves(open, open', d, 0 .. MaxOpen) /\ open'[d] = k
    BY <2>6, <2>7, OpenStep
  <2>9. Moves(pc, pc', d, Labels) /\ pc'[d] = "readdir"
    BY <1>2, GotoStep, TypesGive DEF Labels, Running, RemoveLabels
  <2>10. Own(d)
    BY <1>0, <1>1, <1>2, <2>5, <2>8, <2>9, SameLocals DEF Own, LocalMoves
  <2>11. Shape(d)'
    BY <1>0, <1>1, <2>5, <2>6, <2>8, <2>9, RecursionFits DEF RemoveLabels, Streaming
  <2> QED BY <2>10, <2>11
<1>3. CASE /\ UNCHANGED trouble \/ Fails(d, "list")
           /\ Goto(d, "crashed")
           /\ open' = [open EXCEPT ![d] = 0]
           /\ stack' = [stack EXCEPT ![d] = <<>>]
  <2>1. Moves(open, open', d, 0 .. MaxOpen)
    <3>1. 0 \in 0 .. MaxOpen
      BY MaxOpenAssumption
    <3> QED BY <1>3, <3>1, TypesGive, OpenStep
  <2>2. Moves(stack, stack', d, Seq(Frames)) /\ stack'[d] = <<>>
    BY <1>3, TypesGive DEF Moves
  <2>3. Moves(pc, pc', d, Labels) /\ pc'[d] = "crashed"
    BY <1>3, GotoStep, TypesGive DEF Labels
  <2>4. Moves(trouble, trouble', d, SUBSET Kinds)
    BY <1>3, FailsStep, SameLocals, TypesGive DEF Kinds
  <2>5. Own(d)
    BY <1>0, <1>1, <2>1, <2>2, <2>3, <2>4, SameLocals DEF Own, LocalMoves
  <2>6. ArgumentsFit(d)'
    BY <1>1, <2>3 DEF ShapeInv, Shape, ArgumentsFit
  <2>7. Shape(d)'
    BY <2>2, <2>3, <2>6 DEF Shape, LabelsFit, StackFits, FramesNest, Nested, StreamsCounted, CreateLabels,
          RemoveLabels, AskLabels, Running, Streaming
  <2> QED BY <2>5, <2>7
<1> QED BY <1>2, <1>3 DEF Opendir

LEMMA ReaddirShape ==
  ASSUME ShapeInv, NEW d \in Callers, Readdir(d)
  PROVE  Own(d) /\ Shape(d)'
<1>0. /\ pc[d] = "readdir" /\ pc[d] \in RemoveLabels \intersect Streaming
      /\ UNCHANGED <<call, pos, result, temp, errno>>
  BY DEF Readdir, RemoveLabels, Streaming
<1>1. CallMoves(d) /\ op'[d] = op[d] /\ arg'[d] = arg[d] /\ opened'[d] = opened[d]
  BY <1>0, SameCall
<1>2. ASSUME NEW n \in Listable(d),
             SetTop(d, [Top(d) EXCEPT !.left = @ \ {n}, !.sub = n]),
             Goto(d, IF n = Dots THEN "readdir" ELSE "subdir"),
             UNCHANGED <<open, trouble>>
      PROVE  Own(d) /\ Shape(d)'
  <2> DEFINE f == [Top(d) EXCEPT !.left = @ \ {n}, !.sub = n]
             l == IF n = Dots THEN "readdir" ELSE "subdir"
  <2>1. /\ Top(d) \in Frames /\ Top(d).dir \in Paths
        /\ (Top(d).left \union {Top(d).sub}) \intersect Names # {} => Len(Top(d).dir) < Depth
    BY <1>0, TopFits
  <2>0. n \in Top(d).left \/ n \in Children(tree, Top(d).dir)
    BY DEF Listable
  <2>2. /\ f \in Frames /\ f.dir = Top(d).dir /\ f.left = Top(d).left \ {n} /\ f.sub = n
        /\ n \in Names \union {Dots}
    BY <2>0, <2>1, ChildrenFit DEF Frames
  <2>3. (f.left \union {f.sub}) \intersect Names # {} => Len(f.dir) < Depth
    BY <2>0, <2>1, <2>2, ChildrenFit
  <2>4. SetTop(d, f) /\ Goto(d, l) /\ l \in RemoveLabels \intersect Streaming /\ l # "subremove"
        /\ (l = "subdir" => n \in Names)
    BY <1>2, <2>2 DEF RemoveLabels, Streaming
  <2> HIDE DEF f, l
  <2>5. /\ Moves(stack, stack', d, Seq(Frames)) /\ Last(stack'[d]) = f
        /\ stack'[d] # <<>> /\ Nested(stack'[d], arg[d]) /\ Len(stack'[d]) = Len(stack[d])
    BY <1>0, <2>2, <2>3, <2>4, SetTopStep
  <2>6. Moves(pc, pc', d, Labels) /\ pc'[d] = l
    BY <2>4, GotoStep, TypesGive DEF Labels, Running
  <2>7. Own(d)
    BY <1>0, <1>1, <1>2, <2>5, <2>6, SameLocals DEF Own, LocalMoves
  <2>8. Shape(d)'
    BY <1>0, <1>1, <1>2, <2>2, <2>4, <2>5, <2>6, Streams, RecursionFits
  <2> QED BY <2>7, <2>8
<1>3. CASE /\ UNCHANGED trouble \/ Fails(d, "list")
           /\ open' = [open EXCEPT ![d] = @ - 1]
           /\ Goto(d, "rmself")
           /\ UNCHANGED stack
  <2> DEFINE k == open[d] - 1
  <2>1. k \in 0 .. MaxOpen /\ k + 1 = opened[d] + Len(stack[d])
    <3>1. /\ open[d] \in 0 .. MaxOpen /\ opened[d] \in 0 .. MaxOpen /\ Len(stack[d]) \in 1 .. Depth
          /\ open[d] = opened[d] + Len(stack[d])
      BY <1>0, Streams
    <3> QED BY <3>1, MaxOpenAssumption, DepthAssumption
  <2>2. Scalars /\ open' = [open EXCEPT ![d] = k]
    BY <1>3, TypesGive
  <2> HIDE DEF k
  <2>3. Moves(open, open', d, 0 .. MaxOpen) /\ open'[d] = k
    BY <2>1, <2>2, OpenStep
  <2>4. Moves(pc, pc', d, Labels) /\ pc'[d] = "rmself"
    BY <1>3, GotoStep, TypesGive DEF Labels, Running, RemoveLabels
  <2>5. Moves(trouble, trouble', d, SUBSET Kinds)
    BY <1>3, FailsStep, SameLocals, TypesGive DEF Kinds
  <2>6. Own(d)
    BY <1>0, <1>1, <1>3, <2>3, <2>4, <2>5, SameLocals DEF Own, LocalMoves
  <2>7. Shape(d)'
    BY <1>0, <1>1, <1>3, <2>1, <2>3, <2>4, Streams, RecursionFits DEF RemoveLabels, Streaming
  <2> QED BY <2>6, <2>7
<1> QED BY <1>2, <1>3 DEF Readdir

LEMMA SubDirShape ==
  ASSUME ShapeInv, NEW d \in Callers, SubDir(d)
  PROVE  Own(d) /\ Shape(d)'
<1>0. /\ pc[d] = "subdir" /\ pc[d] \in RemoveLabels \intersect Streaming
      /\ UNCHANGED <<call, pos, result, temp, open>>
  BY DEF SubDir, RemoveLabels, Streaming
<1>1. PICK b \in BOOLEAN :
        /\ Asked(d, SubPath(d), IsDirectory(tree, SubPath(d)), b)
        /\ \/ b /\ Goto(d, "isdir") /\ stack' = [stack EXCEPT ![d] = Append(@, Frame(SubPath(d)))]
           \/ ~b /\ Goto(d, "subremove") /\ UNCHANGED stack
  BY DEF SubDir
<1>2. Moves(errno, errno', d, Errnos) /\ Moves(trouble, trouble', d, SUBSET Kinds)
  BY <1>1, AskedStep, TypesGive DEF IsDirectory
<1>3. CASE Goto(d, "isdir") /\ stack' = [stack EXCEPT ![d] = Append(@, Frame(SubPath(d)))]
  <2> DEFINE u == Append(stack[d], Frame(SubPath(d)))
  <2>1. CallMoves(d) /\ op'[d] = op[d] /\ arg'[d] = arg[d] /\ opened'[d] = opened[d]
    BY <1>0, SameCall
  <2>2. /\ stack[d] \in Seq(Frames) /\ stack[d] # <<>> /\ arg[d] \in Paths /\ Nested(stack[d], arg[d])
        /\ Last(stack[d]).sub \in Names /\ SubPath(d) \in Paths
        /\ Len(SubPath(d)) = Len(Last(stack[d]).dir) + 1 /\ IsPrefix(arg[d], SubPath(d))
    BY <1>0, TopFits, Streams, SubFits DEF Top
  <2>3. u \in Seq(Frames) /\ u # <<>> /\ Len(u) = Len(stack[d]) + 1 /\ Nested(u, arg[d])
    BY <2>2, NestedPush
  <2>4. stack' = [stack EXCEPT ![d] = u] /\ stack \in [Callers -> Seq(Frames)]
    BY <1>3, TypesGive
  <2> HIDE DEF u
  <2>5. Moves(stack, stack', d, Seq(Frames)) /\ stack'[d] = u
    BY <2>3, <2>4, MovesOne
  <2>6. Moves(pc, pc', d, Labels) /\ pc'[d] = "isdir"
    BY <1>3, GotoStep, TypesGive DEF Labels, Running, RemoveLabels
  <2>7. Own(d)
    BY <1>0, <1>2, <2>1, <2>5, <2>6, SameLocals DEF Own, LocalMoves
  <2>8. open'[d] + 1 = opened[d] + Len(stack'[d])
    <3>1. /\ open[d] \in 0 .. MaxOpen /\ opened[d] \in 0 .. MaxOpen /\ Len(stack[d]) \in 1 .. Depth
          /\ open[d] = opened[d] + Len(stack[d])
      BY <1>0, Streams
    <3>2. open'[d] = open[d] /\ Len(stack'[d]) = Len(stack[d]) + 1
      BY <1>0, <2>3, <2>5
    <3> QED BY <3>1, <3>2, MaxOpenAssumption, DepthAssumption
  <2>9. Shape(d)'
    BY <1>0, <2>1, <2>3, <2>5, <2>6, <2>8, RecursionFits DEF RemoveLabels, Streaming
  <2> QED BY <2>7, <2>9
<1>4. CASE Goto(d, "subremove") /\ UNCHANGED stack
  <2>1. "subremove" \in RemoveLabels \intersect Streaming /\ Top(d).sub \in Names
    BY <1>0, SubFits DEF RemoveLabels, Streaming
  <2> QED BY <1>0, <1>2, <1>4, <2>1, SameFrames
<1> QED BY <1>1, <1>3, <1>4

\* What a caller that begins has of its own.
LEMMA BeginTypes ==
  ASSUME ShapeInv, NEW d \in Callers, NEW o, NEW p \in Places, Begin(d, o, p)
  PROVE  /\ CallMoves(d) /\ op'[d] = o /\ arg'[d] = p /\ opened'[d] = open[d]
         /\ pc[d] = "idle" /\ stack[d] = <<>> /\ UNCHANGED <<tree, errno, open>>
         /\ Moves(result, result', d, Results) /\ result'[d] = "none"
         /\ Moves(temp, temp', d, Places)
         /\ Moves(trouble, trouble', d, SUBSET Kinds) /\ trouble'[d] = {}
         /\ seen'[d] = {}
<1>1. pc[d] = "idle" /\ stack[d] = <<>>
  BY NoFrames DEF Begin, RemoveLabels
<1>2. /\ op \in [Callers -> Ops \union {"none"}] /\ o \in Ops
      /\ arg \in [Callers -> Places]
      /\ found \in [Callers -> {"absent", "flat", "nested"}] /\ Find(p) \in {"absent", "flat", "nested"}
      /\ opened \in [Callers -> 0 .. MaxOpen] /\ open[d] \in 0 .. MaxOpen
      /\ count \in [Callers -> 0 .. MaxCalls]
  BY DEF ShapeInv, Scalars, Begin, Find
<1>3. Moves(count, count', d, 0 .. MaxCalls)
  <2>1. count[d] + 1 \in 0 .. MaxCalls
    BY <1>2, MaxCallsAssumption DEF Begin
  <2> QED BY <1>2, <2>1 DEF Begin, Moves
<1>4. CallMoves(d) /\ op'[d] = o /\ arg'[d] = p /\ opened'[d] = open[d]
  BY <1>2, <1>3 DEF Begin, CallMoves, Moves
<1>5. Moves(result, result', d, Results) /\ result'[d] = "none"
  BY TypesGive, MovesOne DEF Begin, Scalars, Results
<1>6. Moves(temp, temp', d, Places)
  <2>1. temp \in [Callers -> Places] /\ <<>> \in Places
    BY DEF ShapeInv, Scalars, Places
  <2> QED BY <2>1, MovesOne DEF Begin
<1>7. Moves(trouble, trouble', d, SUBSET Kinds) /\ trouble'[d] = {} /\ seen'[d] = {}
  BY TypesGive DEF Begin, Scalars, Moves, Kinds
<1> QED BY <1>1, <1>4, <1>5, <1>6, <1>7 DEF Begin

LEMMA BeginsShape ==
  ASSUME ShapeInv, NEW d \in Callers, Begins(d)
  PROVE  Own(d) /\ Shape(d)'
<1>1. ASSUME NEW o, NEW p \in Places, Begin(d, o, p), NEW l \in Running \ RemoveLabels, Goto(d, l),
             Moves(pos, pos', d, 0 .. Depth), UNCHANGED stack,
             o \notin CreateOps \union {"none"} => p \in Paths,
             o = "create_temp_directory" => Len(p) < Depth,
             l \in {"cd_exists", "cd_mkdir"} => pos'[d] \in 1 .. Len(p),
             l \in CreateLabels => o \in CreateOps, l # "mkdtemp",
             l = "remove" => o = "remove",
             l \in {"fs_isdir", "fs_stat"} => o = "file_size",
             l = "isreg" => o = "is_regular_file"
      PROVE  Own(d) /\ Shape(d)'
  <2>1. /\ CallMoves(d) /\ op'[d] = o /\ arg'[d] = p /\ opened'[d] = open[d]
        /\ stack[d] = <<>> /\ UNCHANGED <<errno, open>>
        /\ Moves(result, result', d, Results) /\ result'[d] = "none"
        /\ Moves(temp, temp', d, Places)
        /\ Moves(trouble, trouble', d, SUBSET Kinds)
    BY <1>1, BeginTypes
  <2>2. Moves(pc, pc', d, Labels) /\ pc'[d] = l
    BY <1>1, GotoStep, TypesGive DEF Labels
  <2>3. Own(d)
    BY <1>1, <2>1, <2>2, SameLocals DEF Own, LocalMoves
  <2>4. LabelsFit(d)' /\ ArgumentsFit(d)'
    BY <1>1, <2>1, <2>2 DEF LabelsFit, ArgumentsFit
  <2>5. StackFits(d)' /\ FramesNest(d)'
    BY <1>1, <2>1, <2>2 DEF StackFits, FramesNest, Nested, RemoveLabels
  <2>6. StreamsCounted(d)'
    BY <1>1, <2>1, <2>2 DEF StreamsCounted, RemoveLabels, Streaming
  <2> QED BY <2>3, <2>4, <2>5, <2>6 DEF Shape
<1>2. CASE CallCreate(d)
  <2>1. PICK o \in {"create_directories", "create_temp_directory"}, p \in Places :
          /\ o = "create_temp_directory" => Len(p) < Depth
          /\ Begin(d, o, p)
          /\ Goto(d, IF p = <<>> THEN "cd_isdir" ELSE "cd_exists")
          /\ pos' = [pos EXCEPT ![d] = 1]
          /\ UNCHANGED stack
    BY <1>2 DEF CallCreate, Places
  <2> DEFINE l == IF p = <<>> THEN "cd_isdir" ELSE "cd_exists"
  <2>2. l \in Running \ RemoveLabels /\ l \in {"cd_isdir", "cd_exists"}
    BY DEF Running, CreateLabels, RemoveLabels
  <2>3. Moves(pos, pos', d, 0 .. Depth) /\ pos'[d] = 1
    <3>1. pos \in [Callers -> 0 .. Depth]
      BY DEF ShapeInv, Scalars
    <3>2. 1 \in 0 .. Depth
      BY DepthAssumption
    <3> QED BY <2>1, <3>1, <3>2, MovesOne
  <2>4. l = "cd_exists" => 1 \in 1 .. Len(p)
    <3>1. p # <<>> => Len(p) \in 1 .. Depth
      BY PathIsSeq DEF Places
    <3> QED BY <3>1, DepthAssumption
  <2>5. Goto(d, l)
    BY <2>1
  <2> HIDE DEF l
  <2> QED BY <1>1, <2>1, <2>2, <2>3, <2>4, <2>5 DEF CreateOps, CreateLabels
<1>3. CASE CallRemove(d)
  <2>1. PICK p \in Paths : Begin(d, "remove", p) /\ Goto(d, "remove") /\ UNCHANGED <<pos, stack>>
    BY <1>3 DEF CallRemove
  <2>2. "remove" \in Running \ RemoveLabels /\ p \in Places /\ Moves(pos, pos', d, 0 .. Depth)
    BY <2>1, SameLocals DEF Running, RemoveLabels, Places
  <2> QED BY <1>1, <2>1, <2>2 DEF CreateLabels
<1>4. CASE CallAsk(d)
  <2>1. PICK p \in Paths :
          /\ \/ Begin(d, "file_size", p) /\ Goto(d, "fs_isdir")
             \/ Begin(d, "is_regular_file", p) /\ Goto(d, "isreg")
          /\ UNCHANGED <<pos, stack>>
    BY <1>4 DEF CallAsk
  <2>2. /\ {"fs_isdir", "isreg"} \subseteq Running \ RemoveLabels /\ p \in Places
        /\ Moves(pos, pos', d, 0 .. Depth)
    BY <2>1, SameLocals DEF Running, AskLabels, RemoveLabels, Places
  <2>3. CASE Begin(d, "file_size", p) /\ Goto(d, "fs_isdir")
    BY <1>1, <2>1, <2>2, <2>3 DEF CreateLabels
  <2>4. CASE Begin(d, "is_regular_file", p) /\ Goto(d, "isreg")
    BY <1>1, <2>1, <2>2, <2>4 DEF CreateLabels
  <2> QED BY <2>1, <2>3, <2>4
<1>5. CASE CallRemoveAll(d)
  <2>1. PICK p \in Paths :
          /\ Begin(d, "remove_all", p) /\ Goto(d, "isdir")
          /\ stack' = [stack EXCEPT ![d] = <<Frame(p)>>]
          /\ UNCHANGED pos
    BY <1>5 DEF CallRemoveAll
  <2>2. /\ CallMoves(d) /\ op'[d] = "remove_all" /\ arg'[d] = p /\ opened'[d] = open[d]
        /\ UNCHANGED <<errno, open>>
        /\ Moves(result, result', d, Results) /\ result'[d] = "none"
        /\ Moves(temp, temp', d, Places)
        /\ Moves(trouble, trouble', d, SUBSET Kinds)
    BY <2>1, BeginTypes, ZenonT(60) DEF Places
  <2>3. Moves(pc, pc', d, Labels) /\ pc'[d] = "isdir"
    BY <2>1, GotoStep, TypesGive DEF Labels, Running, RemoveLabels
  <2> DEFINE f == Frame(p)
  <2>4. f \in Frames /\ f.dir = p /\ f.left = {} /\ f.sub = Dots
    BY DEF Frame, Frames
  <2> HIDE DEF f
  <2>5. Moves(stack, stack', d, Seq(Frames)) /\ stack'[d] = <<f>>
    <3>1. <<f>> \in Seq(Frames) /\ stack \in [Callers -> Seq(Frames)]
      BY <2>4, TypesGive
    <3>2. stack' = [stack EXCEPT ![d] = <<f>>]
      BY <2>1 DEF f
    <3> QED BY <3>1, <3>2 DEF Moves
  <2>6. Own(d)
    BY <2>1, <2>2, <2>3, <2>5, SameLocals DEF Own, LocalMoves
  <2>7. Nested(<<f>>, p)
    <3>1. p \in Seq(Names) /\ Len(p) \in Nat
      BY PathIsSeq, DepthAssumption
    <3>2. IsPrefix(p, p)
      BY <3>1 DEF IsPrefix
    <3>3. Len(<<f>>) = 1 /\ <<f>>[1] = f
      OBVIOUS
    <3> QED BY <2>4, <3>1, <3>2, <3>3, DotsAssumption DEF Nested
  <2>8. LabelsFit(d)' /\ ArgumentsFit(d)'
    BY <2>2, <2>3 DEF LabelsFit, ArgumentsFit, CreateLabels, RemoveLabels
  <2>9. StackFits(d)' /\ FramesNest(d)'
    BY <2>2, <2>3, <2>5, <2>7 DEF StackFits, FramesNest, RemoveLabels
  <2>10. StreamsCounted(d)'
    <3>1. open[d] \in 0 .. MaxOpen
      BY DEF ShapeInv, Scalars
    <3>2. open[d] \in Nat
      BY <3>1, MaxOpenAssumption
    <3>3. open'[d] = opened'[d] /\ open'[d] \in Nat /\ Len(stack'[d]) = 1
      BY <2>2, <2>5, <3>2
    <3> QED BY <2>3, <3>3 DEF StreamsCounted, RemoveLabels, Streaming
  <2> QED BY <2>6, <2>8, <2>9, <2>10 DEF Shape
<1> QED BY <1>2, <1>3, <1>4, <1>5 DEF Begins

\* Every step of d keeps d in shape, and changes nothing of the others.
LEMMA OwnShape ==
  ASSUME ShapeInv, NEW d \in Callers, Begins(d) \/ CallStep(d)
  PROVE  Own(d) /\ Shape(d)'
BY BeginsShape, CreateExistsShape, CreateMkdirShape, CreateFailShape, CreateIsDirectoryShape, MkdtempShape,
   RemoveOneShape, IsDirShape, PlainRemoveShape, OpendirShape, ReaddirShape, SubDirShape, SubRemoveShape,
   RemoveSelfShape, GoneShape, FileSizeIsDirectoryShape, FileSizeStatShape, AnswerRegularShape DEF CallStep

LEMMA OthersShape ==
  ASSUME ShapeInv, NEW d \in Callers, Own(d), NEW c \in Callers, c # d
  PROVE  Shape(c)'
<1>1. /\ pc'[c] = pc[c] /\ op'[c] = op[c] /\ arg'[c] = arg[c] /\ pos'[c] = pos[c] /\ stack'[c] = stack[c]
      /\ result'[c] = result[c] /\ open'[c] = open[c] /\ opened'[c] = opened[c]
  BY DEF Own, CallMoves, LocalMoves, Moves
<1>2. Shape(c)
  BY DEF ShapeInv
<1> QED BY <1>1, <1>2 DEF Shape, LabelsFit, ArgumentsFit, StackFits, FramesNest, StreamsCounted, Top

LEMMA NoticedTypes ==
  ASSUME Scalars, NEW d \in Callers, NEW during \in Notes, NEW after \in Notes, Noticed(d, during, after)
  PROVE  seen' \in [Callers -> SUBSET Notes]
BY DEF Scalars, Noticed

LEMMA SeenTypes ==
  ASSUME ShapeInv, NEW d \in Callers, Begins(d) \/ CallStep(d)
  PROVE  seen' \in [Callers -> SUBSET Notes] /\ tree' \in Trees
<1>0. Scalars /\ tree \in Trees
  BY DEF ShapeInv
<1>1. tree' \in Trees
  BY <1>0, TreeSteps, MadeTree, RemovedTree DEF TreeStep
<1>2. CASE Begins(d)
  <2>1. PICK o \in AllOps, p \in Places : Begin(d, o, p)
    BY <1>2, BeginStep
  <2> QED BY <1>0, <1>1, <2>1 DEF Scalars, Begin
<1>3. CASE CallStep(d)
  <2>1. \/ UNCHANGED seen
        \/ Noticed(d, "made", "made after") \/ Noticed(d, "removed", "removed after")
    BY <1>3 DEF CallStep, CreateExists, CreateMkdir, CreateFail, CreateIsDirectory, Mkdtemp, RemoveOne,
       IsDir, PlainRemove, Opendir, Readdir, SubDir, SubRemove, RemoveSelf, Gone,
       FileSizeIsDirectory, FileSizeStat, AnswerRegular, RemoveCall, SameTree, Made, Removed
  <2> QED BY <1>0, <1>1, <2>1, NoticedTypes DEF Scalars, Notes
<1> QED BY <1>2, <1>3

LEMMA NextShape ==
  ASSUME ShapeInv, [Next]_vars
  PROVE  ShapeInv'
<1>1. ASSUME NEW d \in Callers, Begins(d) \/ CallStep(d)
      PROVE  ShapeInv'
  <2>1. Own(d) /\ Shape(d)'
    BY <1>1, OwnShape
  <2>2. \A c \in Callers : Shape(c)'
    BY <2>1, OthersShape
  <2>3. Scalars' /\ stack' \in [Callers -> Seq(Frames)]
    BY <1>1, <2>1, SeenTypes DEF Own, CallMoves, LocalMoves, Moves, Scalars, Labels, Results, Kinds
  <2> QED BY <1>1, <2>2, <2>3, SeenTypes DEF ShapeInv
<1>2. CASE UNCHANGED vars
  BY <1>2, ZenonT(60) DEF vars, ShapeInv, Scalars, Shape, LabelsFit, ArgumentsFit, StackFits, FramesNest, StreamsCounted, Top
<1> QED BY <1>1, <1>2 DEF Next, Begins

----------------------------------------------------------------------------
(* Types and streams.                                                       *)

\* Labels, arguments, frames and streams of every caller fit together.
THEOREM ShapeInvariance == Spec => []ShapeInv
<1>1. Init => ShapeInv
  BY InitShape
<1>2. ShapeInv /\ [Next]_vars => ShapeInv'
  BY NextShape
<1> QED BY <1>1, <1>2, PTL DEF Spec

\* Every variable keeps its type, and what exists is in a directory.
THEOREM TypeCorrect == Spec => []TypeOK
<1>1. ShapeInv => TypeOK
  <2> SUFFICES ASSUME ShapeInv PROVE TypeOK
    OBVIOUS
  <2>1. tree \in [Paths -> {"absent", "dir", "file"}] /\ WellFormed(tree)
    BY DEF ShapeInv, Trees
  <2>2. ASSUME NEW c \in Callers PROVE Len(stack[c]) \in 0 .. Depth /\ Range(stack[c]) \subseteq Frames
    <3>1. stack[c] \in Seq(Frames)
      BY DEF ShapeInv
    <3>2. Range(stack[c]) \subseteq Frames
      BY <3>1 DEF Range
    <3>3. Len(stack[c]) \in 0 .. Depth
      <4>1. CASE pc[c] \in RemoveLabels
        <5>1. Len(stack[c]) \in 1 .. Depth
          BY <4>1, TopFits
        <5> QED BY <5>1, DepthAssumption
      <4>2. CASE pc[c] \notin RemoveLabels
        <5>1. stack[c] = <<>>
          BY <4>2, NoFrames
        <5> QED BY <5>1, DepthAssumption
      <4> QED BY <4>1, <4>2
    <3> QED BY <3>2, <3>3
  <2>3. Scalars
    BY DEF ShapeInv
  <2> QED BY <2>1, <2>2, <2>3 DEF TypeOK, Scalars, Places
<1> QED BY <1>1, ShapeInvariance, PTL

\* remove_all closes every stream it opened before it answers true.
THEOREM StreamsClosed == Spec => []NoStreamLeft
<1>1. ShapeInv => NoStreamLeft
  BY DEF ShapeInv, Shape, StreamsCounted, NoStreamLeft
<1> QED BY <1>1, ShapeInvariance, PTL
=============================================================================
