------------------------ MODULE TempDirectoryProofs ------------------------
(***************************************************************************)
(* For any number of callers, suffixes and tries: two callers never hold    *)
(* the same temporary directory, a call leaves nothing it did not return,   *)
(* except the parent in the cases ParentLeft names, no call touches a foreign *)
(* entry, and what the callers see is the allocator of NameAllocator.        *)
(***************************************************************************)
EXTENDS TempDirectory, TLAPS

\* An entry has a maker exactly while it exists.
MakerAgrees == \A s \in Suffixes : maker[s] = NoSuffix <=> entry[s] = "absent"

\* From the draw on, and while its directory is held, a caller has a suffix.
SuffixDrawn ==
  \A c \in Callers :
    pc[c] \in {"status", "mkparent", "mkdir", "recheck", "held"} => suffix[c] \in Suffixes

\* Entries need a parent.  While a call is about to make its directory in the
\* parent it made, and is alone in it, every name in it is free.
ParentFree ==
  /\ ~parentDir => \A s \in Suffixes : entry[s] = "absent"
  /\ \A c \in Callers :
       /\ madeParent[c] # "no" => parentDir
       /\ madeParent[c] = "alone" /\ pc[c] = "mkdir" => \A s \in Suffixes : entry[s] = "absent"

\* A call that runs, or has returned, has thrown nothing.
NotThrown == \A c \in Callers : pc[c] # "idle" => error[c] = "none"

\* TypeOK, MadeIffReturned and ParentLeft are not inductive alone: Mkdir needs to
\* know that a free entry has no maker, and that the parent it is alone in is there
\* and empty; Discard that the name it gives back is a suffix.
IInv == TypeOK /\ MakerAgrees /\ SuffixDrawn /\ MadeIffReturned /\ ParentFree
        /\ NotThrown /\ ParentLeft

USE DEF Kinds, Active, Errors, fs

\* The inductive invariant holds when no call has been made.
LEMMA InitIInv == Init => IInv
<1> SUFFICES ASSUME Init PROVE IInv
  OBVIOUS
<1> USE DEF Init
<1>1. TypeOK
  BY MaxTriesAssumption DEF TypeOK
<1>2. MakerAgrees
  BY ForeignAssumption DEF MakerAgrees
<1>3. SuffixDrawn
  BY DEF SuffixDrawn
<1>4. MadeIffReturned
  BY ForeignAssumption, NoSuffixAssumption DEF MadeIffReturned
<1>5. ParentFree /\ NotThrown /\ ParentLeft
  BY DEF ParentFree, NotThrown, ParentLeft
<1> QED BY <1>1, <1>2, <1>3, <1>4, <1>5 DEF IInv

\* Each system call, client step and foreign step preserves it.
LEMMA NextIInv == IInv /\ [Next]_vars => IInv'
<1> SUFFICES ASSUME IInv, [Next]_vars PROVE IInv'
  OBVIOUS
<1> USE MaxTriesAssumption, ForeignAssumption, NoSuffixAssumption
    DEF IInv, TypeOK, MakerAgrees, SuffixDrawn, MadeIffReturned, ParentFree, NotThrown, ParentLeft,
        Goto, Throw, Fails, Entered
<1>1. ASSUME NEW c \in Callers, CallBadName(c) PROVE IInv'
  BY <1>1 DEF CallBadName
<1>2. ASSUME NEW c \in Callers, Call(c) PROVE IInv'
  BY <1>2 DEF Call
<1>3. ASSUME NEW c \in Callers, Draw(c) PROVE IInv'
  BY <1>3 DEF Draw
<1>4. ASSUME NEW c \in Callers, Status(c) PROVE IInv'
  BY <1>4 DEF Status, Collided, IsDirectory
<1>5. ASSUME NEW c \in Callers, MakeParent(c) PROVE IInv'
  <2>1. pc[c] = "mkparent" /\ c \in Callers
    BY <1>5 DEF MakeParent
  <2>2. CASE Fails(c)
    BY <2>1, <2>2
  <2>3. CASE ~Fails(c) /\ parentDir
    <3> DEFINE m == IF parentDir THEN madeParent[c] ELSE "alone"
    <3>3. parentDir' /\ madeParent' = [madeParent EXCEPT ![c] = m] /\ pc' = [pc EXCEPT ![c] = "mkdir"]
      BY <1>5, <2>3 DEF MakeParent
    <3>4. m = madeParent[c]
      BY <2>3, Zenon
    <3> HIDE DEF m
    <3>1. parentDir' /\ madeParent' = madeParent /\ pc' = [pc EXCEPT ![c] = "mkdir"]
      BY <3>3, <3>4
    <3>2. UNCHANGED <<entry, maker, suffix, tries, error>>
      BY <1>5, <2>3 DEF MakeParent
    <3> QED BY <2>1, <2>3, <3>1, <3>2
  <2>4. CASE ~Fails(c) /\ ~parentDir
    <3>1. parentDir' /\ madeParent' = [madeParent EXCEPT ![c] = "alone"] /\ pc' = [pc EXCEPT ![c] = "mkdir"]
      BY <1>5, <2>4 DEF MakeParent
    <3>2. UNCHANGED <<entry, maker, suffix, tries, error>>
      BY <1>5, <2>4 DEF MakeParent
    <3> QED BY <2>1, <2>4, <3>1, <3>2
  <2> QED BY <2>2, <2>3, <2>4
<1>6. ASSUME NEW c \in Callers, Mkdir(c) PROVE IInv'
  BY <1>6 DEF Mkdir
<1>7. ASSUME NEW c \in Callers, Recheck(c) PROVE IInv'
  BY <1>7 DEF Recheck, Collided, IsDirectory
<1>8. ASSUME NEW c \in Callers, Count(c) PROVE IInv'
  BY <1>8 DEF Count
<1>9. ASSUME NEW c \in Callers, Fill(c) PROVE IInv'
  BY <1>9 DEF Fill
<1>10. ASSUME NEW c \in Callers, Discard(c) PROVE IInv'
  <2> USE <1>10 DEF Discard
  <2>1. c \in Callers /\ suffix[c] \in Suffixes /\ maker[suffix[c]] = c
    OBVIOUS
  <2>2. TypeOK' /\ MakerAgrees' /\ SuffixDrawn'
    BY <2>1
  <2>3. MadeIffReturned'
    BY <2>1
  <2>4. ParentLeft'
    BY <2>1
  <2>5. ParentFree' /\ NotThrown'
    BY <2>1
  <2> QED BY <2>2, <2>3, <2>4, <2>5
<1>11. ASSUME NEW s \in Suffixes, ForeignMake(s) PROVE IInv'
  BY <1>11 DEF ForeignMake
<1>12. ASSUME NEW s \in Suffixes, ForeignRemove(s) PROVE IInv'
  BY <1>12 DEF ForeignRemove
<1>13. CASE ForeignRemoveParent
  <2>1. parentDir' \in BOOLEAN
    BY <1>13, Zenon DEF ForeignRemoveParent
  <2>2. UNCHANGED <<entry, maker, pc, suffix, tries, error>>
    BY <1>13 DEF ForeignRemoveParent
  <2>3. madeParent' = [c \in Callers |-> "no"] /\ \A s \in Suffixes : entry[s] = "absent"
    BY <1>13 DEF ForeignRemoveParent
  <2> QED BY <2>1, <2>2, <2>3
<1>14. CASE UNCHANGED vars
  BY <1>14 DEF vars
<1> QED
  BY <1>1, <1>2, <1>3, <1>4, <1>5, <1>6, <1>7, <1>8, <1>9, <1>10, <1>11, <1>12,
     <1>13, <1>14 DEF Next, CallStep, Environment

\* The inductive invariant holds in every reachable state, hence the types do.
THEOREM Invariance == Spec => []IInv
<1>1. Init => IInv
  BY InitIInv
<1>2. IInv /\ [Next]_vars => IInv'
  BY NextIInv
<1> QED BY <1>1, <1>2, PTL DEF Spec

\* The state is well-typed; in particular current_iteration never passes
\* max_tries.
THEOREM TypeCorrect == Spec => []TypeOK
<1>1. IInv => TypeOK
  BY DEF IInv
<1> QED BY <1>1, Invariance, PTL

\* Of the directories base_name + suffix, the calls made exactly the ones they
\* returned.  Nothing is said of the parent here.
THEOREM MadeAreReturned == Spec => []MadeIffReturned
<1>1. IInv => MadeIffReturned
  BY DEF IInv
<1> QED BY <1>1, Invariance, PTL

\* A parent that a call made and nobody else has used is left behind only by a
\* call that threw std::system_error (or returned).
THEOREM ParentLeftExplained == Spec => []ParentLeft
<1>1. IInv => ParentLeft
  BY DEF IInv
<1> QED BY <1>1, Invariance, PTL

\* No directory is held by two callers.
THEOREM MutualExclusion == Spec => []Exclusive
<1>1. IInv => Exclusive
  BY DEF IInv, SuffixDrawn, MadeIffReturned, Exclusive
<1> QED BY <1>1, Invariance, PTL

\* No call replaces or removes an entry another program made.
THEOREM ForeignSafe == Spec => ForeignUntouched
<1> DEFINE Untouched ==
      \A s \in Suffixes :
        maker[s] = Foreign /\ entry'[s] # entry[s] => maker'[s] = NoSuffix /\ pc' = pc
<1>1. IInv /\ [Next]_vars => Untouched
  <2> SUFFICES ASSUME IInv, [Next]_vars, NEW s \in Suffixes,
                      maker[s] = Foreign, entry'[s] # entry[s]
               PROVE  maker'[s] = NoSuffix /\ pc' = pc
    OBVIOUS
  <2> USE ForeignAssumption, NoSuffixAssumption DEF IInv, TypeOK, MakerAgrees, SuffixDrawn
  <2>1. ASSUME NEW c \in Callers PROVE ~Mkdir(c)
    BY DEF Mkdir, Fails, Throw, Goto
  <2>2. ASSUME NEW c \in Callers PROVE ~(Fill(c) \/ Discard(c))
    BY DEF Fill, Discard, MadeIffReturned
  <2>3. ASSUME NEW c \in Callers, CallBadName(c) \/ Call(c) \/ CallStep(c)
        PROVE entry' = entry
    BY <2>1, <2>3 DEF CallBadName, Call, CallStep, Draw, Status, Collided, MakeParent, Recheck, Count, Fails, Throw
  <2>4. Environment
    BY <2>2, <2>3 DEF Next, vars
  <2>5. ASSUME NEW t \in Suffixes, ForeignMake(t) PROVE FALSE
    BY <2>5 DEF ForeignMake
  <2>6. ASSUME NEW t \in Suffixes, ForeignRemove(t) PROVE maker'[s] = NoSuffix /\ pc' = pc
    BY <2>6 DEF ForeignRemove
  <2>7. ~ForeignRemoveParent
    BY DEF ForeignRemoveParent
  <2> QED BY <2>4, <2>5, <2>6, <2>7 DEF Environment
<1> QED BY <1>1, Invariance, PTL DEF Spec, ForeignUntouched

----------------------------------------------------------------------------
(* The refinement.                                                          *)

\* Only a successful mkdir hands out a name and only Discard gives it back;
\* every other step is a stutter of the allocator.
THEOREM Refinement == Spec => ImplementsAllocator
<1> DEFINE h == [c \in Callers |-> IF pc[c] = "held" THEN suffix[c] ELSE NoSuffix]
<1>1. Init => Allocator!Init
  BY DEF Init, Allocator!Init
<1>2. IInv /\ IInv' /\ [Next]_vars => [Allocator!Next]_h
  <2> SUFFICES ASSUME IInv, IInv', [Next]_vars PROVE Allocator!Next \/ h' = h
    OBVIOUS
  <2> USE NoSuffixAssumption DEF IInv, TypeOK, SuffixDrawn, Goto, Throw, Fails
  <2>1. ASSUME NEW c \in Callers, Mkdir(c), pc'[c] = "held" PROVE Allocator!Next
    <3>1. h[c] = NoSuffix /\ entry[suffix[c]] = "absent" /\ suffix[c] \in Suffixes
      BY <2>1 DEF Mkdir
    <3>2. \A d \in Callers : h[d] # suffix[c]
      BY <3>1, ForeignAssumption DEF MakerAgrees, MadeIffReturned
    <3>3. h' = [h EXCEPT ![c] = suffix[c]]
      BY <2>1, <3>1, ZenonT(60) DEF Mkdir
    <3>4. PICK n \in Suffixes : n = suffix[c]
      BY <3>1
    <3>5. Allocator!Acquire(c, n)
      BY <3>1, <3>2, <3>3, <3>4 DEF Allocator!Acquire
    <3> QED BY <3>5, Zenon DEF Allocator!Next
  <2>2. ASSUME NEW c \in Callers, Discard(c) PROVE Allocator!Next
    <3>1. h[c] # NoSuffix
      BY <2>2 DEF Discard
    <3>2. h' = [h EXCEPT ![c] = NoSuffix]
      BY <2>2 DEF Discard
    <3> QED BY <3>1, <3>2 DEF Allocator!Next, Allocator!Release
  <2>3. ASSUME NEW c \in Callers, Mkdir(c), pc'[c] # "held" PROVE h' = h
    BY <2>3 DEF Mkdir
  <2>4. ASSUME NEW c \in Callers, CallBadName(c) \/ Call(c) \/ Draw(c) \/ Count(c)
        PROVE h' = h
    BY <2>4 DEF CallBadName, Call, Draw, Count
  <2>5. ASSUME NEW c \in Callers, Status(c) \/ MakeParent(c) \/ Recheck(c) PROVE h' = h
    BY <2>5 DEF Status, MakeParent, Recheck, Collided
  <2>6. ASSUME NEW c \in Callers, Fill(c) PROVE h' = h
    BY <2>6 DEF Fill
  <2>7. CASE Environment
    BY <2>7 DEF Environment, ForeignMake, ForeignRemove, ForeignRemoveParent
  <2>8. CASE UNCHANGED vars
    BY <2>8 DEF vars
  <2> QED BY <2>1, <2>2, <2>3, <2>4, <2>5, <2>6, <2>7, <2>8 DEF Next, CallStep
<1> QED BY <1>1, <1>2, Invariance, PTL DEF Spec, Allocator!Spec, ImplementsAllocator
=============================================================================
