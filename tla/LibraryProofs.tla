---------------------------- MODULE LibraryProofs ----------------------------
(***************************************************************************)
(* For any objects, loads, guards and cleanups, and a scope of any size:    *)
(* what is loaded is accounted for, a cleanup runs once, the scope holds    *)
(* what is alive, and a bad end has one of the known causes.  For any       *)
(* search path: what is found is the first place with the file.             *)
(***************************************************************************)
EXTENDS LibraryClient, TextProofs

----------------------------------------------------------------------------
(* SharedLibrary.                                                           *)

\* A load that is not shared has one object: without it, unloading an object
\* could take the load of another one away.
UnsharedAlone ==
  \A o, p \in Objs : Held(o) /\ lib[o] \notin shared /\ lib[p] = lib[o] => p = o

\* The inductive invariant of the objects.
LibraryIInv == LibraryTypeOK /\ UnsharedAlone /\ ResourcesAccounted /\ MessagesTaken

\* What any client may do to the objects.
LibraryNext ==
  \/ \E o \in Objs : Load(o) \/ UnloadReturns(o) \/ UnloadThrows(o) \/ Destroy(o)
                     \/ GetSymbol(o) \/ HasSymbol(o) \/ GetLibraryPath(o)
  \/ \E o, from \in Objs : Copy(o, from) \/ CopyAssign(o, from)
  \/ SetEnvVar \/ GetPlatformLibraryName

\* Nothing is loaded at first.
LEMMA InitLibrary == LibraryInit => LibraryIInv
BY LoadsAssumption DEF LibraryInit, LibraryIInv, LibraryTypeOK, UnsharedAlone, ResourcesAccounted,
   MessagesTaken, Held, NoMessage, Pending

\* The load of o is taken back, and o refers to left from then on.
LEMMA UnloadsKeeps ==
  ASSUME LibraryIInv, NEW o \in Objs, NEW left \in {Unloaded, Absent}, Unloads(o, left),
         failed' \in BOOLEAN, Succeeds \/ Reported
  PROVE  LibraryIInv'
<1> USE LoadsAssumption DEF LibraryIInv, LibraryTypeOK
<1>1. /\ lib' = [lib EXCEPT ![o] = left] /\ open' = open \ {lib[o]}
      /\ shared' = shared /\ dropped' = dropped /\ lib[o] \in Loads
  BY DEF Unloads, Put, Held
<1>2. LibraryTypeOK' /\ MessagesTaken'
  BY <1>1 DEF Succeeds, Reported, messages, MessagesTaken, NoMessage, Pending
<1>3. UnsharedAlone'
  BY <1>1 DEF UnsharedAlone, Held
<1>4. ResourcesAccounted'
  BY <1>1 DEF ResourcesAccounted, UnsharedAlone, Held
<1> QED BY <1>2, <1>3, <1>4

\* Every member function and every implicit copy keeps the account.
LEMMA NextLibrary == LibraryIInv /\ [LibraryNext]_libVars => LibraryIInv'
<1> SUFFICES ASSUME LibraryIInv, [LibraryNext]_libVars PROVE LibraryIInv'
  OBVIOUS
<1> USE LoadsAssumption DEF LibraryIInv, LibraryTypeOK, MessagesTaken, Held, Reported, Succeeds, loads, messages,
            NoMessage, Pending
<1>1. ASSUME NEW o \in Objs, Load(o) PROVE LibraryIInv'
  <2>1. CASE UNCHANGED <<lib, open, shared, dropped>>
    BY <1>1, <2>1 DEF Load, UnsharedAlone, ResourcesAccounted
  <2>2. ASSUME NEW l \in Loads \ (open \union {lib[p] : p \in Objs}),
               Put(o, l), open' = open \union {l}, Forget(l)
        PROVE  LibraryIInv'
    <3>1. /\ lib' = [lib EXCEPT ![o] = l]
          /\ shared' = shared \ {l} /\ dropped' = dropped \ {l}
          /\ \A p \in Objs : lib[p] # l
      BY <2>2 DEF Put, Forget
    <3>2. LibraryTypeOK'
      BY <1>1, <2>2, <3>1 DEF Load, ResourcesAccounted
    <3>3. UnsharedAlone'
      BY <3>1 DEF UnsharedAlone
    <3>4. ResourcesAccounted'
      <4>1. \A p \in Objs : p # o => lib'[p] = lib[p]
        BY <3>1
      <4>2. lib'[o] = l /\ lib[o] = Absent
        BY <1>1, <3>1 DEF Load
      <4>3. \A p \in Objs : lib'[p] \in Loads /\ lib'[p] \notin shared' => lib'[p] \in open'
        <5>1. \A p \in Objs : p # o => lib[p] # l /\ (lib[p] \in shared' <=> lib[p] \in shared)
          BY <3>1
        <5> QED BY <2>2, <4>1, <4>2, <5>1 DEF ResourcesAccounted
      <4>4. \A k \in open' \ dropped' : \E p \in Objs : lib'[p] = k
        BY <2>2, <3>1, <4>1, <4>2 DEF ResourcesAccounted
      <4> QED BY <3>2, <4>3, <4>4 DEF ResourcesAccounted
    <3>5. MessagesTaken'
      BY <1>1, <2>2 DEF Load
    <3> QED BY <3>2, <3>3, <3>4, <3>5
  <2> QED BY <1>1, <2>1, <2>2 DEF Load
<1>2. ASSUME NEW o \in Objs, UnloadReturns(o) PROVE LibraryIInv'
  BY <1>2, UnloadsKeeps DEF UnloadReturns
<1>3. ASSUME NEW o \in Objs, UnloadThrows(o) PROVE LibraryIInv'
  <2>1. CASE UNCHANGED <<lib, loads>>
    BY <1>3, <2>1 DEF UnloadThrows, UnsharedAlone, ResourcesAccounted
  <2>2. CASE Unloads(o, Unloaded) /\ failed' = TRUE
    BY <1>3, <2>2, UnloadsKeeps DEF UnloadThrows
  <2> QED BY <1>3, <2>1, <2>2 DEF UnloadThrows
<1>4. ASSUME NEW o \in Objs, Destroy(o) PROVE LibraryIInv'
  <2>1. CASE ~Held(o) /\ Put(o, Absent) /\ UNCHANGED loads /\ Succeeds
    BY <2>1 DEF Put, UnsharedAlone, ResourcesAccounted
  <2>2. CASE Unloads(o, Absent) /\ UNCHANGED failed /\ Succeeds
    BY <2>2, UnloadsKeeps
  <2>3. CASE Unloads(o, Absent) /\ failed' = TRUE /\ Reported
    BY <2>3, UnloadsKeeps
  <2> QED BY <1>4, <2>1, <2>2, <2>3 DEF Destroy
<1>5. ASSUME NEW o \in Objs, NEW from \in Objs, Copy(o, from) PROVE LibraryIInv'
  BY <1>5 DEF Copy, Put, Exists, UnsharedAlone, ResourcesAccounted
<1>6. ASSUME NEW o \in Objs, NEW from \in Objs, CopyAssign(o, from) PROVE LibraryIInv'
  BY <1>6 DEF CopyAssign, Put, Exists, UnsharedAlone, ResourcesAccounted
<1>7. ASSUME UNCHANGED <<lib, loads>>, Succeeds \/ Reported PROVE LibraryIInv'
  BY <1>7 DEF UnsharedAlone, ResourcesAccounted
<1>8. ASSUME NEW o \in Objs, GetSymbol(o) \/ HasSymbol(o) \/ GetLibraryPath(o) PROVE LibraryIInv'
  BY <1>7, <1>8 DEF GetSymbol, HasSymbol, GetLibraryPath, libVars
<1>9. CASE SetEnvVar \/ GetPlatformLibraryName
  BY <1>7, <1>9 DEF SetEnvVar, GetPlatformLibraryName
<1>10. CASE UNCHANGED libVars
  BY <1>7, <1>10 DEF libVars
<1> QED
  BY <1>1, <1>2, <1>3, <1>4, <1>5, <1>6, <1>8, <1>9, <1>10 DEF LibraryNext

----------------------------------------------------------------------------
(* ScopeExit.                                                               *)

\* A cleanup that was not moved has one guard at most.
UnmovedAlone ==
  \A g, h \in Guards :
    /\ guard[g].callable_ \in Cleanups \ moved
    /\ guard[h].callable_ = guard[g].callable_
    => h = g

\* A cleanup starts with its guard.
MadeFirst == \A k \in Cleanups \ made : ran[k] = 0 /\ ~Guarded(k)

\* The flag of a guard and the cleanups that are lost: a cancelled guard holds a
\* lost cleanup, and a lost one that was not moved is in no other guard.
CancelledLost == \A g \in Guards : guard[g].cancelled_ => guard[g].callable_ \in lost \union {None}
LostCancelled ==
  \A g \in Guards : guard[g].callable_ \in lost \ moved => guard[g].cancelled_

\* The inductive invariant of the guards.
GuardIInv ==
  GuardTypeOK /\ UnmovedAlone /\ MadeFirst /\ CancelledLost /\ LostCancelled /\ CleanupOnce

\* What any client may do to the guards.
GuardNext ==
  \/ \E g \in Guards, k \in Cleanups, kind \in Kinds : MakeScopeExit(g, k, kind)
  \/ \E g, from \in Guards : Move(g, from) \/ MoveAssign(g, from)
  \/ \E g \in Guards : Cancel(g) \/ DestroyGuard(g)

\* No guard is made at first.
LEMMA InitGuard == GuardInit => GuardIInv
BY NoneAssumption
   DEF GuardInit, GuardIInv, GuardTypeOK, UnmovedAlone, MadeFirst, CancelledLost, LostCancelled,
       CleanupOnce, Guarded, NoGuard

\* Moving g out of from.
LEMMA MoveKeeps ==
  ASSUME NEW g \in Guards, NEW from \in Guards
  PROVE  /\ GuardIInv /\ g # from /\ Alive(from)
         /\ guard' = [guard EXCEPT ![g] = guard[from], ![from] = Left(guard[from])]
         /\ moved' = moved \union ({guard[from].callable_} \intersect Cleanups)
         /\ lost' = lost \union ({guard[g].callable_} \intersect Cleanups)
         /\ UNCHANGED <<ran, made>>
         => GuardIInv'
<1>a. SUFFICES ASSUME GuardIInv, g # from, Alive(from),
         guard' = [guard EXCEPT ![g] = guard[from], ![from] = Left(guard[from])],
         moved' = moved \union ({guard[from].callable_} \intersect Cleanups),
         lost' = lost \union ({guard[g].callable_} \intersect Cleanups),
         UNCHANGED <<ran, made>>
               PROVE  GuardIInv'
  OBVIOUS
<1> USE NoneAssumption DEF GuardIInv
<1> DEFINE Record == [callable_ : Cleanups \union {None}, kind : Kinds, cancelled_ : BOOLEAN]
<1>1. guard[from] \in Record
  BY <1>a DEF GuardTypeOK, Alive
<1>2. Left(guard[from]) \in Record
  BY <1>1 DEF Left
<1>3. /\ Left(guard[from]).cancelled_ = guard[from].cancelled_
      /\ Left(guard[from]).callable_ \in {None, guard[from].callable_}
  BY <1>1 DEF Left
<1>4. /\ guard'[g] = guard[from] /\ guard'[from] = Left(guard[from])
      /\ \A h \in Guards \ {g, from} : guard'[h] = guard[h]
  BY <1>a DEF GuardTypeOK
<1>5. \A h \in Guards : guard[h].callable_ \in Cleanups => guard[h].callable_ \in made
  BY <1>a DEF MadeFirst, Guarded
<1>6. GuardTypeOK'
  BY <1>a, <1>1, <1>2, <1>5 DEF GuardTypeOK
<1>7. \A h \in Guards \ {g} : guard'[h].callable_ \in {None, guard[h].callable_}
  BY <1>3, <1>4
<1>8. \A h \in Guards \ {g} : guard'[h].cancelled_ = guard[h].cancelled_
  BY <1>3, <1>4, Zenon
<1>b. moved \subseteq moved' /\ (guard[from].callable_ \in Cleanups => guard[from].callable_ \in moved')
  BY <1>a
<1>9. ASSUME NEW h \in Guards, guard'[h].callable_ \in Cleanups \ moved'
      PROVE  h # g /\ guard[h].callable_ = guard'[h].callable_ /\ guard[h].callable_ \notin moved
  <2>1. h # g
    BY <1>4, <1>9, <1>b
  <2> QED BY <1>7, <1>9, <1>b, <2>1
<1>10. UnmovedAlone' /\ LostCancelled' /\ MadeFirst' /\ CancelledLost'
  <2>1. UnmovedAlone'
    <3> SUFFICES ASSUME NEW h \in Guards, NEW i \in Guards,
                        guard'[h].callable_ \in Cleanups \ moved',
                        guard'[i].callable_ = guard'[h].callable_
                 PROVE  i = h
      BY DEF UnmovedAlone
    <3>1. guard[i].callable_ = guard[h].callable_ /\ guard[h].callable_ \in Cleanups \ moved
      BY <1>9
    <3> QED BY <1>a, <3>1 DEF UnmovedAlone
  <2>2. LostCancelled'
    <3> SUFFICES ASSUME NEW h \in Guards, guard'[h].callable_ \in lost' \ moved'
                 PROVE  guard'[h].cancelled_
      BY DEF LostCancelled
    <3>1. guard'[h].callable_ \in Cleanups
      BY <1>6 DEF GuardTypeOK
    <3>2. h # g /\ guard[h].callable_ = guard'[h].callable_ /\ guard[h].callable_ \notin moved
      BY <1>9, <3>1
    <3>3. guard[h].callable_ # guard[g].callable_
      BY <1>a, <3>1, <3>2 DEF UnmovedAlone
    <3>4. guard[h].callable_ \in lost \ moved
      BY <1>a, <3>2, <3>3
    <3>5. guard[h].cancelled_
      BY <1>a, <3>4 DEF LostCancelled
    <3> QED BY <1>8, <3>2, <3>5, Zenon
  <2>3. MadeFirst'
    <3>1. \A k \in Cleanups \ made, h \in Guards : guard'[h].callable_ # k
      BY <1>4, <1>5, <1>7
    <3> QED BY <1>a, <3>1 DEF MadeFirst, Guarded
  <2>4. CancelledLost'
    <3> SUFFICES ASSUME NEW h \in Guards, guard'[h].cancelled_
                 PROVE  guard'[h].callable_ \in lost' \union {None}
      BY DEF CancelledLost
    <3>1. CASE h = g
      BY <1>a, <1>4, <3>1 DEF CancelledLost
    <3>2. CASE h # g
      <4>1. guard[h].cancelled_
        BY <1>8, <3>2, Zenon
      <4>2. guard[h].callable_ \in lost \union {None}
        BY <1>a, <4>1, Zenon DEF CancelledLost
      <4>3. lost \subseteq lost'
        BY <1>a
      <4> QED BY <1>7, <3>2, <4>2, <4>3
    <3> QED BY <3>1, <3>2
  <2> QED BY <2>1, <2>2, <2>3, <2>4
<1>11. \A k \in Cleanups : Guarded(k)' => Guarded(k)
  BY <1>4, <1>7 DEF Guarded
<1>12. \A k \in Cleanups : Guarded(k) /\ ~Guarded(k)' => k \in lost'
  <2> SUFFICES ASSUME NEW k \in Cleanups, NEW h \in Guards, guard[h].callable_ = k, k \notin lost'
               PROVE  Guarded(k)'
    BY DEF Guarded
  <2>1. h # g
    BY <1>a
  <2>2. CASE h = from
    BY <1>4, <2>2 DEF Guarded
  <2>3. CASE h # from
    BY <1>4, <2>1, <2>3 DEF Guarded
  <2> QED BY <2>2, <2>3
<1>13. \A k \in lost' \ moved' : k \in lost \ moved \/ (k = guard[g].callable_ /\ k \notin moved)
  BY <1>a
<1>14. CleanupOnce'
  BY <1>a, <1>11, <1>12, <1>13 DEF CleanupOnce, Guarded, GuardTypeOK
<1> QED BY <1>6, <1>10, <1>14

\* Every member function of a guard keeps the count of its cleanup.
LEMMA NextGuard == GuardIInv /\ [GuardNext]_guardVars => GuardIInv'
<1> SUFFICES ASSUME GuardIInv, [GuardNext]_guardVars PROVE GuardIInv'
  OBVIOUS
<1> USE NoneAssumption DEF GuardIInv
<1>1. ASSUME NEW g \in Guards, NEW k \in Cleanups, NEW kind \in Kinds, MakeScopeExit(g, k, kind)
      PROVE  GuardIInv'
  <2>1. /\ guard'[g] = [callable_ |-> k, kind |-> kind, cancelled_ |-> FALSE]
        /\ \A h \in Guards \ {g} : guard'[h] = guard[h]
        /\ guard[g].callable_ = None /\ guard[g].cancelled_ = FALSE
        /\ made' = made \union {k} /\ k \notin made
        /\ UNCHANGED <<ran, moved, lost>>
    BY <1>1 DEF MakeScopeExit, GuardTypeOK, Alive, NoGuard
  <2>2. ran[k] = 0 /\ ~Guarded(k) /\ k \notin lost \union moved
    BY <2>1 DEF MadeFirst, GuardTypeOK
  <2>3. GuardTypeOK'
    BY <1>1, <2>1 DEF GuardTypeOK, MakeScopeExit
  <2>4. \A j \in Cleanups : Guarded(j)' <=> Guarded(j) \/ j = k
    BY <2>1 DEF Guarded
  <2>5. UnmovedAlone'
    BY <2>1, <2>2 DEF UnmovedAlone, Guarded
  <2>6. MadeFirst'
    BY <2>1, <2>4 DEF MadeFirst
  <2>7. CancelledLost' /\ LostCancelled'
    BY <2>1, <2>2 DEF CancelledLost, LostCancelled
  <2>8. CleanupOnce'
    BY <2>1, <2>2, <2>4 DEF CleanupOnce
  <2> QED BY <2>3, <2>5, <2>6, <2>7, <2>8
<1>2. ASSUME NEW g \in Guards, NEW from \in Guards, Move(g, from) PROVE GuardIInv'
  <2>1. lost' = lost \union ({guard[g].callable_} \intersect Cleanups)
    BY <1>2 DEF Move, Alive, NoGuard
  <2> QED BY <1>2, <2>1, MoveKeeps DEF Move
<1>3. ASSUME NEW g \in Guards, NEW from \in Guards, MoveAssign(g, from) PROVE GuardIInv'
  BY <1>3, MoveKeeps DEF MoveAssign
<1>4. ASSUME NEW g \in Guards, Cancel(g) PROVE GuardIInv'
  <2>1. /\ guard' = [guard EXCEPT ![g].cancelled_ = TRUE]
        /\ lost' = lost \union ({guard[g].callable_} \intersect Cleanups)
        /\ UNCHANGED <<ran, made, moved>>
        /\ guard[g] \in [callable_ : Cleanups \union {None}, kind : Kinds, cancelled_ : BOOLEAN]
    BY <1>4 DEF Cancel, GuardTypeOK, Alive
  <2>2. /\ guard'[g].cancelled_ = TRUE /\ guard'[g].callable_ = guard[g].callable_
        /\ \A h \in Guards \ {g} : guard'[h] = guard[h]
    BY <2>1 DEF GuardTypeOK
  <2>3. guard[g].callable_ \in Cleanups => guard[g].callable_ \in made
    BY DEF MadeFirst, Guarded
  <2>4. GuardTypeOK'
    BY <2>1, <2>3 DEF GuardTypeOK
  <2>5. \A h \in Guards : guard'[h].callable_ = guard[h].callable_
    BY <2>2
  <2>6. UnmovedAlone' /\ MadeFirst'
    BY <2>1, <2>5 DEF UnmovedAlone, MadeFirst, Guarded
  <2>7. CancelledLost' /\ LostCancelled'
    BY <2>1, <2>2, <2>5 DEF CancelledLost, LostCancelled, UnmovedAlone
  <2>8. CleanupOnce'
    BY <2>1, <2>5 DEF CleanupOnce, Guarded, GuardTypeOK
  <2> QED BY <2>4, <2>6, <2>7, <2>8
<1>5. ASSUME NEW g \in Guards, DestroyGuard(g) PROVE GuardIInv'
  <2>1. /\ guard' = [guard EXCEPT ![g] = NoGuard]
        /\ UNCHANGED <<made, moved, lost>>
        /\ \A h \in Guards \ {g} : guard'[h] = guard[h]
        /\ guard'[g].callable_ = None /\ guard'[g].cancelled_ = FALSE
    BY <1>5 DEF DestroyGuard, GuardTypeOK, NoGuard
  <2>2. \A k \in Cleanups : k # guard[g].callable_ => ran'[k] = ran[k]
    BY <1>5 DEF DestroyGuard
  <2>3. ASSUME guard[g].callable_ \in Cleanups
        PROVE  /\ guard[g].cancelled_ => ran'[guard[g].callable_] = ran[guard[g].callable_]
               /\ ~guard[g].cancelled_ => /\ ran'[guard[g].callable_] \in 1 .. 2
                                          /\ ran[guard[g].callable_] = 0 => ran'[guard[g].callable_] = 1
    BY <1>5, <2>3 DEF DestroyGuard, Calls, GuardTypeOK
  <2>4. GuardTypeOK'
    <3>1. ran' \in [Cleanups -> 0 .. 2]
      BY <1>5 DEF DestroyGuard, GuardTypeOK
    <3> QED BY <2>1, <3>1 DEF GuardTypeOK
  <2>5. \A k \in Cleanups : Guarded(k)' => Guarded(k)
    BY <2>1 DEF Guarded
  <2>6. \A k \in Cleanups : Guarded(k) /\ ~Guarded(k)' => k = guard[g].callable_
    BY <2>1 DEF Guarded
  <2>7. UnmovedAlone' /\ CancelledLost' /\ LostCancelled'
    <3>1. None \notin lost
      BY DEF GuardTypeOK
    <3>2. \A h \in Guards : h = g \/ guard'[h] = guard[h]
      BY <2>1
    <3>3. UnmovedAlone'
      BY <2>1, <3>2 DEF UnmovedAlone
    <3>4. CancelledLost' /\ LostCancelled'
      BY <2>1, <3>1, <3>2 DEF CancelledLost, LostCancelled
    <3> QED BY <3>3, <3>4
  <2>8. guard[g].callable_ \in Cleanups => guard[g].callable_ \in made
    BY DEF MadeFirst, Guarded
  <2>9. MadeFirst'
    BY <2>1, <2>2, <2>5, <2>8 DEF MadeFirst
  <2>10. CleanupOnce'
    <3> SUFFICES ASSUME NEW k \in Cleanups
                 PROVE  /\ ran'[k] > 0 /\ k \notin moved => ran'[k] = 1 /\ ~Guarded(k)'
                        /\ ~Guarded(k)' /\ k \in made \ lost => ran'[k] > 0
                        /\ k \in lost \ moved => ran'[k] = 0
      BY <2>1 DEF CleanupOnce
    <3>1. CASE k # guard[g].callable_
      BY <2>2, <2>5, <2>6, <3>1 DEF CleanupOnce
    <3>2. CASE k = guard[g].callable_
      <4>1. Guarded(k)
        BY <3>2 DEF Guarded
      <4>2. k \notin moved => ran[k] = 0 /\ ~Guarded(k)'
        BY <2>1, <3>2, <4>1 DEF CleanupOnce, UnmovedAlone, Guarded, GuardTypeOK
      <4>3. guard[g].cancelled_ => k \in lost
        BY <3>2 DEF CancelledLost
      <4>4. k \in lost \ moved => guard[g].cancelled_
        BY <3>2 DEF LostCancelled
      <4> QED BY <2>3, <3>2, <4>2, <4>3, <4>4
    <3> QED BY <3>1, <3>2
  <2> QED BY <2>4, <2>7, <2>9, <2>10
<1>6. CASE UNCHANGED guardVars
  BY <1>6 DEF guardVars, GuardTypeOK, UnmovedAlone, MadeFirst, CancelledLost, LostCancelled,
     CleanupOnce, Guarded
<1> QED BY <1>1, <1>2, <1>3, <1>4, <1>5, <1>6 DEF GuardNext

----------------------------------------------------------------------------
(* LibraryClient.                                                           *)

\* What may be in the scope, and what is alive.
Items == ({"library"} \X Objs) \union ({"guard"} \X Guards)
Living == {<<"library", o>> : o \in {p \in Objs : Exists(p)}}
          \union {<<"guard", g>> : g \in {h \in Guards : Alive(h)}}

\* The scope lists what is alive, and nothing twice.
ScopeListsLiving ==
  /\ scope \in Seq(Items)
  /\ \A i, j \in DOMAIN scope : scope[i] = scope[j] => i = j
  /\ Range(scope) = Living

\* A guard leaves the scope before the object its cleanup unloads.
TargetsBelow ==
  \A g \in Guards :
    guard[g].callable_ \in Cleanups =>
      Above(<<"guard", g>>, <<"library", target[guard[g].callable_]>>)

\* Only a guard that was moved from calls nothing.
EmptyMoved == \A g \in Guards : Alive(g) /\ guard[g].callable_ = None => moved # {}

\* An object without a library has been asked to unload.
UnloadedAsked == \A o \in Objs : lib[o] = Unloaded => asked[o] > 0

\* The types of the program itself.
StackTypeOK ==
  /\ target \in [Cleanups -> Objs \union {Absent}]
  /\ asked \in [Objs -> 0 .. 2] /\ built \in 0 .. MaxBuilt
  /\ status \in {"ok", "terminated", "undefined"}

\* What the scope keeps while the program runs.
ScopeIInv == ScopeListsLiving /\ TargetsBelow /\ EmptyMoved /\ UnloadedAsked

StackIInv == StackTypeOK /\ BadEndsExplained /\ (status = "ok" => ScopeIInv)

\* The inductive invariant of the program.
IInv == LibraryIInv /\ GuardIInv /\ StackIInv

\* An object is pushed: what was above another still is, and it is above all.
LEMMA Pushed ==
  ASSUME ScopeListsLiving, NEW x \in Items \ Living,
         scope' = Append(scope, x), Living' = Living \union {x}
  PROVE  /\ ScopeListsLiving'
         /\ \A a, b : Above(a, b) => Above(a, b)'
         /\ \A y \in Living : Above(x, y)'
<1>1. scope \in Seq(Items) /\ Range(scope) = Living
  BY DEF ScopeListsLiving
<1>2. /\ scope' \in Seq(Items) /\ Len(scope') = Len(scope) + 1
      /\ DOMAIN scope = 1 .. Len(scope) /\ DOMAIN scope' = 1 .. Len(scope) + 1
      /\ \A i \in DOMAIN scope : scope'[i] = scope[i]
      /\ scope'[Len(scope) + 1] = x /\ Len(scope) \in Nat
  BY <1>1
<1>3. \A i \in DOMAIN scope : scope[i] \in Living
  BY <1>1 DEF Range
<1>4. \A i, j \in DOMAIN scope' : scope'[i] = scope'[j] => i = j
  BY <1>2, <1>3 DEF ScopeListsLiving
<1>5. Range(scope') = Living'
  BY <1>1, <1>2 DEF Range
<1>6. \A y \in Living : \E i \in DOMAIN scope : scope[i] = y
  BY <1>1 DEF Range
<1> QED BY <1>2, <1>4, <1>5, <1>6 DEF ScopeListsLiving, Above

\* The innermost object goes: nothing was above it.
LEMMA Popped ==
  ASSUME ScopeListsLiving, scope # <<>>, scope' = Front(scope)
  PROVE  /\ Last(scope) \in Living
         /\ Living' = Living \ {Last(scope)} => ScopeListsLiving'
         /\ \A a, b : Above(a, b) /\ a # Last(scope) => Above(a, b)'
         /\ \A a : ~Above(a, Last(scope))
<1>1. scope \in Seq(Items) /\ Range(scope) = Living
  BY DEF ScopeListsLiving
<1>2. /\ Len(scope) \in Nat \ {0} /\ DOMAIN scope = 1 .. Len(scope)
      /\ scope' \in Seq(Items) /\ DOMAIN scope' = 1 .. Len(scope) - 1
      /\ \A i \in 1 .. Len(scope) - 1 : scope'[i] = scope[i]
      /\ Last(scope) = scope[Len(scope)]
  BY <1>1 DEF Front, Last
<1>3. Last(scope) \in Living
  BY <1>1, <1>2 DEF Range
<1>4. \A i \in DOMAIN scope : scope[i] = Last(scope) => i = Len(scope)
  BY <1>2 DEF ScopeListsLiving
<1>5. \A i, j \in DOMAIN scope' : scope'[i] = scope'[j] => i = j
  BY <1>2 DEF ScopeListsLiving
<1>6. Range(scope') = Living \ {Last(scope)}
  <2>1. \A i \in DOMAIN scope : i \in DOMAIN scope' <=> scope[i] # Last(scope)
    BY <1>2, <1>4
  <2> QED BY <1>1, <1>2, <2>1 DEF Range
<1>7. \A a, b : Above(a, b) /\ a # Last(scope) => Above(a, b)'
  BY <1>2 DEF Above
<1>8. \A a : ~Above(a, Last(scope))
  BY <1>2, <1>4 DEF Above
<1> QED BY <1>2, <1>3, <1>5, <1>6, <1>7, <1>8 DEF ScopeListsLiving

\* A guard is alive when its callable has a kind.
LEMMA AliveKind == GuardTypeOK => \A g \in Guards : Alive(g) <=> guard[g].kind \in Kinds
BY DEF GuardTypeOK, Alive, NoGuard, Kinds

\* The object that a guard in scope will unload.
LEMMA CleanupTarget ==
  ASSUME IInv, status = "ok", NEW g \in Guards, guard[g].callable_ \in Cleanups
  PROVE  Cleanup(g) \in Objs /\ Exists(Cleanup(g))
<1>1. /\ ScopeListsLiving
      /\ Above(<<"guard", g>>, <<"library", Cleanup(g)>>)
  BY DEF IInv, StackIInv, ScopeIInv, TargetsBelow, Cleanup
<1>2. <<"library", Cleanup(g)>> \in Living
  BY <1>1 DEF ScopeListsLiving, Above, Range
<1> QED BY <1>2 DEF Living

\* A guard whose destructor calls nothing is no other than an empty function.
LEMMA CallsCleanup ==
  ASSUME GuardTypeOK, NEW g \in Guards, Calls(g), ~CallsNone(g)
  PROVE  guard[g].callable_ \in Cleanups
BY DEF GuardTypeOK, Calls, CallsNone, Alive

\* The client handles the objects through the member functions alone ...
LEMMA ClientLibrary == IInv /\ ClientNext => [LibraryNext]_libVars
<1> SUFFICES ASSUME IInv, ClientNext PROVE [LibraryNext]_libVars
  OBVIOUS
<1>1. CASE Finding
  BY <1>1 DEF Finding
<1>2. ASSUME NEW o \in Objs, LoadLibrary(o) \/ UnloadLibrary(o) \/ UseDangling(o) \/ LeaveLibrary(o)
      PROVE  [LibraryNext]_libVars
  BY <1>2 DEF LoadLibrary, UnloadLibrary, UseDangling, LeaveLibrary, LibraryNext
<1>3. ASSUME NEW o \in Objs, NEW from \in Objs, CopyLibrary(o, from) \/ AssignLibrary(o, from)
      PROVE  [LibraryNext]_libVars
  BY <1>3 DEF CopyLibrary, AssignLibrary, LibraryNext
<1>4. ASSUME NEW g \in Guards, NEW k \in Cleanups, NEW o \in Objs, NEW kind \in Kinds, MakeGuard(g, k, o, kind)
      PROVE  [LibraryNext]_libVars
  BY <1>4 DEF MakeGuard, OnlyGuards
<1>5. ASSUME NEW g \in Guards, NEW from \in Guards, MoveGuard(g, from) \/ AssignGuard(g, from)
      PROVE  [LibraryNext]_libVars
  BY <1>5 DEF MoveGuard, AssignGuard, OnlyGuards
<1>6. ASSUME NEW g \in Guards, CancelGuard(g) PROVE [LibraryNext]_libVars
  BY <1>6 DEF CancelGuard, OnlyGuards
<1>7. ASSUME NEW g \in Guards, LeaveGuard(g) PROVE [LibraryNext]_libVars
  <2>1. CASE Calls(g) /\ ~CallsNone(g) /\ (UnloadReturns(Cleanup(g)) \/ UnloadThrows(Cleanup(g)))
    <3>1. Cleanup(g) \in Objs
      BY <2>1, CallsCleanup, CleanupTarget DEF IInv, GuardIInv, ClientNext
    <3> QED BY <2>1, <3>1 DEF LibraryNext
  <2> QED BY <1>7, <2>1 DEF LeaveGuard, OnlyGuards
<1>8. CASE UseLibrary
  BY <1>8 DEF UseLibrary, LibraryNext
<1> QED BY <1>1, <1>2, <1>3, <1>4, <1>5, <1>6, <1>7, <1>8 DEF ClientNext

\* ... and so it handles the guards.
LEMMA ClientGuard == ClientNext => [GuardNext]_guardVars
<1> SUFFICES ASSUME ClientNext PROVE [GuardNext]_guardVars
  OBVIOUS
<1>1. CASE Finding \/ UseLibrary
  BY <1>1 DEF Finding, UseLibrary, OnlyLibs
<1>2. ASSUME NEW o \in Objs, LoadLibrary(o) \/ UnloadLibrary(o) \/ UseDangling(o) \/ LeaveLibrary(o)
      PROVE  [GuardNext]_guardVars
  BY <1>2 DEF LoadLibrary, UnloadLibrary, UseDangling, LeaveLibrary, OnlyLibs
<1>3. ASSUME NEW o \in Objs, NEW from \in Objs, CopyLibrary(o, from) \/ AssignLibrary(o, from)
      PROVE  [GuardNext]_guardVars
  BY <1>3 DEF CopyLibrary, AssignLibrary, OnlyLibs
<1>4. ASSUME NEW g \in Guards, NEW k \in Cleanups, NEW o \in Objs, NEW kind \in Kinds, MakeGuard(g, k, o, kind)
      PROVE  [GuardNext]_guardVars
  BY <1>4 DEF MakeGuard, GuardNext
<1>5. ASSUME NEW g \in Guards, NEW from \in Guards, MoveGuard(g, from) \/ AssignGuard(g, from)
      PROVE  [GuardNext]_guardVars
  BY <1>5 DEF MoveGuard, AssignGuard, GuardNext
<1>6. ASSUME NEW g \in Guards, CancelGuard(g) \/ LeaveGuard(g) PROVE [GuardNext]_guardVars
  BY <1>6 DEF CancelGuard, LeaveGuard, GuardNext, Terminates, OnlyGuards
<1> QED BY <1>1, <1>2, <1>3, <1>4, <1>5, <1>6 DEF ClientNext

\* The program starts with nothing in scope.
LEMMA InitIInv == ClientInit => IInv
<1> SUFFICES ASSUME ClientInit PROVE IInv
  OBVIOUS
<1>1. LibraryIInv /\ GuardIInv
  BY InitLibrary, InitGuard DEF ClientInit
<1>2. StackTypeOK /\ BadEndsExplained
  BY MaxBuiltAssumption DEF ClientInit, StackTypeOK, BadEndsExplained
<1>3. ScopeListsLiving
  <2>1. Living = {}
    BY LoadsAssumption DEF ClientInit, LibraryInit, GuardInit, Living, Exists, Alive
  <2> QED BY <2>1 DEF ClientInit, ScopeListsLiving, Range
<1>4. TargetsBelow /\ EmptyMoved /\ UnloadedAsked
  BY NoneAssumption DEF ClientInit, LibraryInit, GuardInit, TargetsBelow, EmptyMoved, UnloadedAsked,
     Alive, NoGuard, Unloaded, Absent
<1> QED BY <1>1, <1>2, <1>3, <1>4 DEF IInv, StackIInv, ScopeIInv

\* Each step of the program keeps the scope and explains a bad end.
LEMMA NextStack == IInv /\ ClientNext => StackIInv'
<1>a. SUFFICES ASSUME IInv, ClientNext, LibraryIInv', GuardIInv' PROVE StackIInv'
  BY NextLibrary, NextGuard, ClientLibrary, ClientGuard DEF IInv
<1>b. /\ StackTypeOK /\ BadEndsExplained /\ status = "ok"
      /\ ScopeListsLiving /\ TargetsBelow /\ EmptyMoved /\ UnloadedAsked
  BY <1>a DEF IInv, StackIInv, ScopeIInv, ClientNext
<1>c. /\ LibraryTypeOK /\ GuardTypeOK /\ LibraryTypeOK' /\ GuardTypeOK'
      /\ ResourcesAccounted /\ MadeFirst
  BY <1>a DEF IInv, LibraryIInv, GuardIInv
<1>d. /\ scope \in Seq(Items) /\ Range(scope) = Living
  BY <1>b DEF ScopeListsLiving
<1>e. ASSUME UNCHANGED <<scope, guardVars, target, asked, lib>>, StackTypeOK', status' = "ok"
      PROVE  StackIInv'
  <2>1. ScopeIInv'
    BY <1>b, <1>e DEF ScopeIInv, ScopeListsLiving, Range, Living, Exists, Alive, TargetsBelow, Above,
       EmptyMoved, UnloadedAsked, guardVars
  <2> QED BY <1>e, <2>1 DEF StackIInv, BadEndsExplained
<1>1. CASE Finding
  BY <1>1, <1>b, <1>e DEF Finding, libVars, stackVars, StackTypeOK
<1>2. CASE UseLibrary
  BY <1>2, <1>b, <1>e DEF UseLibrary, SetEnvVar, GetPlatformLibraryName, GetSymbol, HasSymbol,
     GetLibraryPath, OnlyLibs, Runs, SameScope, StackTypeOK, libVars
<1>3. ASSUME NEW o \in Objs, LoadLibrary(o) PROVE StackIInv'
  <2>1. /\ lib[o] = Absent /\ UNCHANGED <<guardVars, target, status>>
        /\ asked' = [asked EXCEPT ![o] = 0]
        /\ \A p \in Objs : p # o => lib'[p] = lib[p]
        /\ lib'[o] \in Loads \/ lib'[o] = Absent
        /\ lib'[o] # Absent <=> lib' # lib
    BY <1>3, <1>c, LoadsAssumption DEF LoadLibrary, Load, LibraryTypeOK, Put
  <2>2. StackTypeOK'
    BY <1>3, <1>b, <2>1, MaxBuiltAssumption DEF LoadLibrary, StackTypeOK, Pushes, SameScope
  <2>3. UnloadedAsked'
    BY <1>b, <2>1, LoadsAssumption DEF UnloadedAsked, StackTypeOK, Unloaded, Absent
  <2>4. CASE lib'[o] = Absent
    BY <1>3, <1>b, <2>1, <2>2, <2>3, <2>4
       DEF LoadLibrary, SameScope, ScopeListsLiving, Range, Living, Exists, Alive, TargetsBelow, Above,
           EmptyMoved, guardVars, StackIInv, ScopeIInv, BadEndsExplained
  <2>5. CASE lib'[o] # Absent
    <3>1. scope' = Append(scope, <<"library", o>>) /\ <<"library", o>> \in Items \ Living
      BY <1>3, <2>1, <2>5 DEF LoadLibrary, Pushes, Items, Living, Exists
    <3>2. Living' = Living \union {<<"library", o>>}
      BY <2>1, <2>5 DEF Living, Exists, Alive, guardVars
    <3>3. ScopeListsLiving' /\ \A a, b : Above(a, b) => Above(a, b)'
      BY <1>b, <3>1, <3>2, Pushed
    <3>4. TargetsBelow'
      BY <1>b, <2>1, <3>3 DEF TargetsBelow, guardVars
    <3>5. EmptyMoved'
      BY <1>b, <2>1 DEF EmptyMoved, Alive, guardVars
    <3> QED BY <1>b, <2>1, <2>2, <2>3, <3>3, <3>4, <3>5 DEF StackIInv, ScopeIInv, BadEndsExplained
  <2> QED BY <2>4, <2>5
<1>4. ASSUME NEW o \in Objs, NEW from \in Objs, CopyLibrary(o, from) PROVE StackIInv'
  <2>1. /\ lib[o] = Absent /\ UNCHANGED <<guardVars, target, status>>
        /\ asked' = [asked EXCEPT ![o] = asked[from]]
        /\ lib' = [lib EXCEPT ![o] = lib[from]] /\ lib[from] # Absent
        /\ scope' = Append(scope, <<"library", o>>) /\ built < MaxBuilt /\ built' = built + 1
    BY <1>4 DEF CopyLibrary, Copy, Put, Exists, Pushes, OnlyLibs
  <2>2. StackTypeOK'
    BY <1>b, <2>1, MaxBuiltAssumption DEF StackTypeOK
  <2>3. UnloadedAsked'
    BY <1>b, <1>c, <2>1 DEF UnloadedAsked, StackTypeOK, LibraryTypeOK
  <2>4. <<"library", o>> \in Items \ Living
    BY <2>1 DEF Items, Living, Exists
  <2>5. Living' = Living \union {<<"library", o>>}
    BY <1>c, <2>1 DEF Living, Exists, Alive, guardVars, LibraryTypeOK
  <2>6. ScopeListsLiving' /\ \A a, b : Above(a, b) => Above(a, b)'
    BY <1>b, <2>1, <2>4, <2>5, Pushed
  <2>7. TargetsBelow'
    BY <1>b, <2>1, <2>6 DEF TargetsBelow, guardVars
  <2>8. EmptyMoved'
    BY <1>b, <2>1 DEF EmptyMoved, Alive, guardVars
  <2> QED BY <1>b, <2>1, <2>2, <2>3, <2>6, <2>7, <2>8 DEF StackIInv, ScopeIInv, BadEndsExplained
<1>5. ASSUME NEW g \in Guards, NEW k \in Cleanups, NEW o \in Objs, NEW kind \in Kinds, MakeGuard(g, k, o, kind)
      PROVE  StackIInv'
  <2>1. /\ UNCHANGED <<lib, asked, status, moved>>
        /\ guard' = [guard EXCEPT ![g] = [callable_ |-> k, kind |-> kind, cancelled_ |-> FALSE]]
        /\ ~Alive(g) /\ k \notin made /\ Exists(o)
        /\ target' = [target EXCEPT ![k] = o]
        /\ scope' = Append(scope, <<"guard", g>>) /\ built < MaxBuilt /\ built' = built + 1
    BY <1>5 DEF MakeGuard, MakeScopeExit, Pushes, OnlyGuards, libVars
  <2>2. /\ guard'[g].callable_ = k /\ guard'[g].kind = kind
        /\ \A h \in Guards : h # g => guard'[h] = guard[h]
    BY <1>c, <2>1 DEF GuardTypeOK
  <2>3. StackTypeOK'
    BY <1>b, <2>1, MaxBuiltAssumption DEF StackTypeOK
  <2>4. UnloadedAsked'
    BY <1>b, <2>1 DEF UnloadedAsked
  <2>5. <<"guard", g>> \in Items \ Living /\ <<"library", o>> \in Living
    BY <2>1 DEF Items, Living
  <2>6. \A h \in Guards : Alive(h)' <=> Alive(h) \/ h = g
    BY <1>c, <2>2, AliveKind DEF Alive, NoGuard, Kinds
  <2>7. Living' = Living \union {<<"guard", g>>}
    BY <2>1, <2>6 DEF Living, Exists
  <2>8. /\ ScopeListsLiving' /\ \A a, b : Above(a, b) => Above(a, b)'
        /\ Above(<<"guard", g>>, <<"library", o>>)'
    BY <1>b, <2>1, <2>5, <2>7, Pushed
  <2>9. \A h \in Guards : h # g => guard[h].callable_ # k
    BY <1>c, <2>1 DEF MadeFirst, Guarded
  <2>10. TargetsBelow'
    <3>1. target'[k] = o /\ \A j \in Cleanups : j # k => target'[j] = target[j]
      BY <1>b, <2>1 DEF StackTypeOK
    <3> QED BY <1>b, <2>2, <2>8, <2>9, <3>1 DEF TargetsBelow
  <2>11. EmptyMoved'
    <3>1. k # None
      BY NoneAssumption
    <3> QED BY <1>b, <2>1, <2>2, <2>6, <3>1 DEF EmptyMoved
  <2> QED BY <1>b, <2>1, <2>3, <2>4, <2>8, <2>10, <2>11 DEF StackIInv, ScopeIInv, BadEndsExplained
<1>6. ASSUME NEW g \in Guards, NEW from \in Guards, Alive(from), g # from,
             guard' = [guard EXCEPT ![g] = guard[from], ![from] = Left(guard[from])],
             moved' = moved \union ({guard[from].callable_} \intersect Cleanups)
      PROVE  /\ \A h \in Guards : Alive(h)' <=> Alive(h) \/ h = g
             /\ guard'[g].callable_ = guard[from].callable_
             /\ \A h \in Guards \ {g} : guard'[h].callable_ \in {None, guard[h].callable_}
             /\ EmptyMoved'
  <2>1. guard[from] \in [callable_ : Cleanups \union {None}, kind : Kinds, cancelled_ : BOOLEAN]
    BY <1>c, <1>6 DEF GuardTypeOK, Alive
  <2>2. /\ guard'[g] = guard[from] /\ guard'[from] = Left(guard[from])
        /\ \A h \in Guards \ {g, from} : guard'[h] = guard[h]
    BY <1>c, <1>6 DEF GuardTypeOK
  <2>3. /\ Left(guard[from]).kind = guard[from].kind
        /\ Left(guard[from]).callable_ \in {None, guard[from].callable_}
    BY <2>1 DEF Left
  <2>4. \A h \in Guards : Alive(h)' <=> Alive(h) \/ h = g
    <3>1. Alive(g)' /\ Alive(from)'
      BY <1>6, <2>1, <2>2, <2>3 DEF Alive, NoGuard, Kinds
    <3> QED BY <1>6, <2>2, <3>1 DEF Alive
  <2>5. EmptyMoved'
    <3>1. guard[from].callable_ = None => moved # {}
      BY <1>b, <1>6 DEF EmptyMoved
    <3>2. guard[from].callable_ # None => moved' # {}
      BY <1>6, <2>1
    <3> QED BY <1>6, <3>1, <3>2, <1>b DEF EmptyMoved
  <2> QED BY <2>2, <2>3, <2>4, <2>5
<1>7. ASSUME NEW g \in Guards, NEW from \in Guards, MoveGuard(g, from) PROVE StackIInv'
  <2>1. /\ UNCHANGED <<lib, asked, status, target>>
        /\ ~Alive(g) /\ Alive(from) /\ g # from
        /\ guard' = [guard EXCEPT ![g] = guard[from], ![from] = Left(guard[from])]
        /\ moved' = moved \union ({guard[from].callable_} \intersect Cleanups)
        /\ scope' = Append(scope, <<"guard", g>>) /\ built < MaxBuilt /\ built' = built + 1
    BY <1>7 DEF MoveGuard, Move, Pushes, OnlyGuards, Runs, libVars
  <2>2. /\ \A h \in Guards : Alive(h)' <=> Alive(h) \/ h = g
        /\ guard'[g].callable_ = guard[from].callable_
        /\ \A h \in Guards \ {g} : guard'[h].callable_ \in {None, guard[h].callable_}
        /\ EmptyMoved'
    BY <1>6, <2>1
  <2>3. StackTypeOK'
    BY <1>b, <2>1, MaxBuiltAssumption DEF StackTypeOK
  <2>4. UnloadedAsked'
    BY <1>b, <2>1 DEF UnloadedAsked
  <2>5. <<"guard", g>> \in Items \ Living
    BY <2>1 DEF Items, Living
  <2>6. Living' = Living \union {<<"guard", g>>}
    BY <2>1, <2>2 DEF Living, Exists
  <2>7. /\ ScopeListsLiving' /\ \A a, b : Above(a, b) => Above(a, b)'
        /\ \A y \in Living : Above(<<"guard", g>>, y)'
    BY <1>b, <2>1, <2>5, <2>6, Pushed
  <2>8. \A k \in Cleanups : guard[from].callable_ = k => <<"library", target[k]>> \in Living
    BY <1>b, <1>d DEF TargetsBelow, Above, Range
  <2>9. TargetsBelow'
    BY <1>b, <2>1, <2>2, <2>7, <2>8, NoneAssumption DEF TargetsBelow
  <2> QED BY <1>b, <2>1, <2>2, <2>3, <2>4, <2>7, <2>9 DEF StackIInv, ScopeIInv, BadEndsExplained
<1>8. ASSUME NEW g \in Guards, NEW from \in Guards, AssignGuard(g, from) PROVE StackIInv'
  <2>1. /\ UNCHANGED <<lib, asked, status, target, scope, built>>
        /\ Alive(g) /\ Alive(from) /\ g # from
        /\ guard' = [guard EXCEPT ![g] = guard[from], ![from] = Left(guard[from])]
        /\ moved' = moved \union ({guard[from].callable_} \intersect Cleanups)
        /\ guard[from].callable_ \in Cleanups =>
             Above(<<"guard", g>>, <<"library", target[guard[from].callable_]>>)
    BY <1>8 DEF AssignGuard, MoveAssign, OnlyGuards, Runs, SameScope, libVars
  <2>2. /\ \A h \in Guards : Alive(h)' <=> Alive(h)
        /\ guard'[g].callable_ = guard[from].callable_
        /\ \A h \in Guards \ {g} : guard'[h].callable_ \in {None, guard[h].callable_}
        /\ EmptyMoved'
    BY <1>6, <2>1
  <2>3. StackTypeOK' /\ UnloadedAsked'
    BY <1>b, <2>1 DEF StackTypeOK, UnloadedAsked
  <2>4. ScopeListsLiving'
    BY <1>b, <2>1, <2>2 DEF ScopeListsLiving, Range, Living, Exists
  <2>5. \A a, b : Above(a, b)' <=> Above(a, b)
    BY <2>1 DEF Above
  <2>6. TargetsBelow'
    BY <1>b, <2>1, <2>2, <2>5, NoneAssumption DEF TargetsBelow
  <2> QED BY <1>b, <2>1, <2>2, <2>3, <2>4, <2>6 DEF StackIInv, ScopeIInv, BadEndsExplained
<1>9. ASSUME NEW g \in Guards, CancelGuard(g) PROVE StackIInv'
  <2>1. /\ UNCHANGED <<lib, asked, status, target, scope, built, moved>> /\ Alive(g)
        /\ guard' = [guard EXCEPT ![g].cancelled_ = TRUE]
    BY <1>9 DEF CancelGuard, Cancel, OnlyGuards, Runs, SameScope, libVars
  <2>2. \A h \in Guards : guard'[h].callable_ = guard[h].callable_ /\ guard'[h].kind = guard[h].kind
    BY <1>c, <2>1 DEF GuardTypeOK
  <2>3. \A h \in Guards : Alive(h)' <=> Alive(h)
    <3>1. \A h \in Guards : Alive(h)' <=> guard'[h].kind \in Kinds
      BY <1>c DEF GuardTypeOK, Alive, NoGuard, Kinds
    <3> QED BY <1>c, <2>2, <3>1, AliveKind
  <2>4. StackTypeOK' /\ UnloadedAsked'
    BY <1>b, <2>1 DEF StackTypeOK, UnloadedAsked
  <2>5. ScopeListsLiving'
    BY <1>b, <2>1, <2>3 DEF ScopeListsLiving, Range, Living, Exists
  <2>6. TargetsBelow' /\ EmptyMoved'
    BY <1>b, <2>1, <2>2, <2>3 DEF TargetsBelow, EmptyMoved, Above
  <2> QED BY <1>b, <2>1, <2>4, <2>5, <2>6 DEF StackIInv, ScopeIInv, BadEndsExplained
<1>10. ASSUME NEW o \in Objs, NEW from \in Objs, AssignLibrary(o, from) PROVE StackIInv'
  <2>1. /\ UNCHANGED <<guardVars, target, status, scope, built>>
        /\ asked' = [asked EXCEPT ![o] = asked[from]]
        /\ lib' = [lib EXCEPT ![o] = lib[from]] /\ Exists(o) /\ Exists(from)
    BY <1>10 DEF AssignLibrary, CopyAssign, Put, OnlyLibs, SameScope
  <2>2. \A p \in Objs : Exists(p)' <=> Exists(p)
    BY <1>c, <2>1 DEF LibraryTypeOK, Exists
  <2>3. StackTypeOK' /\ UnloadedAsked'
    BY <1>b, <1>c, <2>1 DEF StackTypeOK, UnloadedAsked, LibraryTypeOK
  <2>4. ScopeListsLiving'
    BY <1>b, <2>1, <2>2 DEF ScopeListsLiving, Range, Living, Alive, guardVars
  <2>5. TargetsBelow' /\ EmptyMoved'
    BY <1>b, <2>1 DEF TargetsBelow, EmptyMoved, Above, Alive, guardVars
  <2> QED BY <1>b, <2>1, <2>3, <2>4, <2>5 DEF StackIInv, ScopeIInv, BadEndsExplained
<1>11. ASSUME NEW o \in Objs, UnloadReturns(o) \/ UnloadThrows(o), Asks(o)
       PROVE  /\ asked' \in [Objs -> 0 .. 2]
              /\ \A p \in Objs : lib'[p] = Unloaded => asked'[p] > 0
              /\ \A p \in Objs : Exists(p)' <=> Exists(p)
              /\ UnloadThrows(o) => failed' \/ asked'[o] > 1
  <2>1. \/ lib' = [lib EXCEPT ![o] = Unloaded] /\ Held(o)
        \/ lib' = lib /\ lib[o] = Unloaded
    BY <1>11 DEF UnloadReturns, UnloadThrows, Unloads, Put
  <2>2. /\ asked' \in [Objs -> 0 .. 2]
        /\ asked'[o] > 0 /\ (asked[o] > 0 => asked'[o] > 1)
        /\ \A p \in Objs : p # o => asked'[p] = asked[p]
    BY <1>11, <1>b DEF Asks, StackTypeOK
  <2>3. \A p \in Objs : Exists(p)' <=> Exists(p)
    BY <1>c, <2>1, LoadsAssumption DEF Exists, Held, LibraryTypeOK, Unloaded, Absent
  <2>4. \A p \in Objs : lib'[p] = Unloaded => asked'[p] > 0
    BY <1>b, <1>c, <2>1, <2>2 DEF UnloadedAsked, LibraryTypeOK
  <2>5. UnloadThrows(o) => failed' \/ lib[o] = Unloaded
    BY DEF UnloadThrows
  <2> QED BY <1>b, <2>2, <2>3, <2>4, <2>5 DEF UnloadedAsked
<1>12. ASSUME NEW o \in Objs, UnloadLibrary(o) PROVE StackIInv'
  <2>1. UNCHANGED <<guardVars, target, status, scope, built>>
    BY <1>12 DEF UnloadLibrary, OnlyLibs, SameScope
  <2>2. /\ asked' \in [Objs -> 0 .. 2]
        /\ \A p \in Objs : lib'[p] = Unloaded => asked'[p] > 0
        /\ \A p \in Objs : Exists(p)' <=> Exists(p)
    BY <1>11, <1>12 DEF UnloadLibrary
  <2>3. StackTypeOK' /\ UnloadedAsked'
    BY <1>b, <2>1, <2>2 DEF StackTypeOK, UnloadedAsked
  <2>4. ScopeListsLiving'
    BY <1>b, <2>1, <2>2 DEF ScopeListsLiving, Range, Living, Alive, guardVars
  <2>5. TargetsBelow' /\ EmptyMoved'
    BY <1>b, <2>1 DEF TargetsBelow, EmptyMoved, Above, Alive, guardVars
  <2> QED BY <1>b, <2>1, <2>3, <2>4, <2>5 DEF StackIInv, ScopeIInv, BadEndsExplained
<1>13. ASSUME NEW o \in Objs, UseDangling(o) PROVE StackIInv'
  <2>1. shared # {}
    BY <1>13, <1>c DEF UseDangling, Dangling, ResourcesAccounted, Held
  <2>2. status' = "undefined" /\ UNCHANGED <<shared, target, asked, built>>
    BY <1>13 DEF UseDangling, libVars
  <2> QED BY <1>b, <2>1, <2>2 DEF StackIInv, StackTypeOK, BadEndsExplained
<1>14. ASSUME NEW o \in Objs, LeaveLibrary(o) PROVE StackIInv'
  <2>1. /\ UNCHANGED <<guardVars, status, built>>
        /\ scope # <<>> /\ Last(scope) = <<"library", o>> /\ scope' = Front(scope)
        /\ asked' = [asked EXCEPT ![o] = 0]
        /\ target' = [k \in Cleanups |-> IF target[k] = o THEN Absent ELSE target[k]]
        /\ lib' = [lib EXCEPT ![o] = Absent]
    BY <1>14 DEF LeaveLibrary, Pops, Destroy, Unloads, Put, OnlyLibs
  <2>2. Living' = Living \ {<<"library", o>>}
    BY <1>c, <2>1 DEF Living, Exists, Alive, guardVars, LibraryTypeOK
  <2>3. /\ ScopeListsLiving'
        /\ \A a, b : Above(a, b) /\ a # <<"library", o>> => Above(a, b)'
        /\ \A a : ~Above(a, <<"library", o>>)
    BY <1>b, <2>1, <2>2, Popped
  <2>4. StackTypeOK' /\ UnloadedAsked'
    BY <1>b, <1>c, <2>1 DEF StackTypeOK, UnloadedAsked, LibraryTypeOK, Unloaded, Absent
  <2>5. TargetsBelow'
    BY <1>b, <2>1, <2>3 DEF TargetsBelow, guardVars
  <2>6. EmptyMoved'
    BY <1>b, <2>1 DEF EmptyMoved, Alive, guardVars
  <2> QED BY <1>b, <2>1, <2>3, <2>4, <2>5, <2>6 DEF StackIInv, ScopeIInv, BadEndsExplained
<1>15. ASSUME NEW g \in Guards, LeaveGuard(g) PROVE StackIInv'
  <2>1. scope # <<>> /\ Last(scope) = <<"guard", g>> /\ scope' = Front(scope) /\ UNCHANGED built
    BY <1>15 DEF LeaveGuard, Pops
  <2>2. ASSUME DestroyGuard(g), UNCHANGED <<target, status>>, asked' \in [Objs -> 0 .. 2],
               \A p \in Objs : lib'[p] = Unloaded => asked'[p] > 0,
               \A p \in Objs : Exists(p)' <=> Exists(p)
        PROVE  StackIInv'
    <3>1. /\ guard'[g] = NoGuard /\ \A h \in Guards : h # g => guard'[h] = guard[h]
          /\ NoGuard.callable_ = None /\ UNCHANGED moved
      BY <1>c, <2>2 DEF DestroyGuard, GuardTypeOK, NoGuard
    <3>2. Living' = Living \ {<<"guard", g>>}
      BY <2>2, <3>1 DEF Living, Alive
    <3>3. /\ ScopeListsLiving'
          /\ \A a, b : Above(a, b) /\ a # <<"guard", g>> => Above(a, b)'
      BY <1>b, <2>1, <3>2, Popped
    <3>4. StackTypeOK' /\ UnloadedAsked'
      BY <1>b, <2>1, <2>2 DEF StackTypeOK, UnloadedAsked
    <3>5. TargetsBelow'
      BY <1>b, <2>2, <3>1, <3>3, NoneAssumption DEF TargetsBelow
    <3>6. EmptyMoved'
      BY <1>b, <3>1 DEF EmptyMoved, Alive
    <3> QED BY <1>b, <2>2, <3>3, <3>4, <3>5, <3>6 DEF StackIInv, ScopeIInv, BadEndsExplained
  <2>3. CASE ~Calls(g) /\ DestroyGuard(g) /\ OnlyGuards /\ Runs
    BY <1>b, <2>2, <2>3 DEF OnlyGuards, Runs, libVars, StackTypeOK, UnloadedAsked, Exists
  <2>4. CASE CallsNone(g) /\ Terminates /\ UNCHANGED <<libVars, asked>>
    <3>1. moved # {} /\ UNCHANGED moved
      BY <1>b, <2>4 DEF CallsNone, Calls, EmptyMoved, Terminates, guardVars
    <3> QED BY <1>b, <2>1, <2>4, <3>1 DEF Terminates, StackIInv, StackTypeOK, BadEndsExplained
  <2>5. CASE /\ Calls(g) /\ ~CallsNone(g) /\ Asks(Cleanup(g))
             /\ \/ UnloadReturns(Cleanup(g)) /\ DestroyGuard(g) /\ UNCHANGED <<findVars, target, status>>
                \/ UnloadThrows(Cleanup(g)) /\ Terminates
    <3>1. Cleanup(g) \in Objs
      BY <1>a, <1>b, <1>c, <2>5, CallsCleanup, CleanupTarget
    <3>2. /\ asked' \in [Objs -> 0 .. 2]
          /\ \A p \in Objs : lib'[p] = Unloaded => asked'[p] > 0
          /\ \A p \in Objs : Exists(p)' <=> Exists(p)
          /\ UnloadThrows(Cleanup(g)) => failed' \/ asked'[Cleanup(g)] > 1
      BY <1>11, <2>5, <3>1
    <3>3. CASE UnloadReturns(Cleanup(g)) /\ DestroyGuard(g) /\ UNCHANGED <<findVars, target, status>>
      BY <2>2, <3>2, <3>3
    <3>4. CASE UnloadThrows(Cleanup(g)) /\ Terminates
      BY <1>b, <2>1, <3>1, <3>2, <3>4 DEF Terminates, StackIInv, StackTypeOK, BadEndsExplained
    <3> QED BY <2>5, <3>3, <3>4
  <2> QED BY <1>15, <2>3, <2>4, <2>5 DEF LeaveGuard
<1> QED
  BY <1>a, <1>1, <1>2, <1>3, <1>4, <1>5, <1>7, <1>8, <1>9, <1>10, <1>12, <1>13, <1>14, <1>15 DEF ClientNext

\* The invariant of the program, whatever it loads, guards, copies and moves.
THEOREM Invariance == ClientSpec => []IInv
<1>1. ClientInit => IInv
  BY InitIInv
<1>2. IInv /\ [ClientNext]_allVars => IInv'
  <2> SUFFICES ASSUME IInv, [ClientNext]_allVars PROVE IInv'
    OBVIOUS
  <2>1. CASE ClientNext
    BY <2>1, ClientLibrary, ClientGuard, NextLibrary, NextGuard, NextStack DEF IInv
  <2>2. CASE UNCHANGED allVars
    <3>1. LibraryIInv' /\ GuardIInv'
      BY <2>2, NextLibrary, NextGuard DEF IInv, allVars
    <3>2. StackIInv'
      BY <2>2 DEF IInv, allVars, libVars, guardVars, stackVars, StackIInv, StackTypeOK, BadEndsExplained,
         ScopeIInv, ScopeListsLiving, Range, Living, Exists, Alive, TargetsBelow, Above, EmptyMoved, UnloadedAsked
    <3> QED BY <3>1, <3>2 DEF IInv
  <2> QED BY <2>1, <2>2
<1> QED BY <1>1, <1>2, PTL DEF ClientSpec

\* What an object refers to is loaded, unless it was copied, and what is loaded has
\* an object that will unload it, unless one that referred to it was assigned to
\* (SharedLibrary): for any number of objects, loads and guards.
THEOREM LoadsAccounted == ClientSpec => []ResourcesAccounted
<1>1. IInv => ResourcesAccounted
  BY DEF IInv, LibraryIInv
<1> QED BY <1>1, Invariance, PTL

\* A message is left with rcutils exactly when the last error was a std::bad_alloc
\* (SharedLibrary, set_env_var): for any sequence of calls.
THEOREM NoOldMessage == ClientSpec => []MessagesTaken
<1>1. IInv => MessagesTaken
  BY DEF IInv, LibraryIInv
<1> QED BY <1>1, Invariance, PTL

\* A cleanup runs once, when its guard is destroyed, unless a guard of it was
\* moved from, cancelled or assigned to (scope_exit).
THEOREM RunsOnce == ClientSpec => []CleanupOnce
<1>1. IInv => CleanupOnce
  BY DEF IInv, GuardIInv
<1> QED BY <1>1, Invariance, PTL

\* A program that copies no SharedLibrary meets no undefined behaviour; and whatever
\* it copies, the destructor of a guard ends it only after a guard was moved, an
\* object was asked to unload a second time, or dlclose has failed.
THEOREM BadEnds == ClientSpec => []BadEndsExplained
<1>1. IInv => BadEndsExplained
  BY DEF IInv, StackIInv
<1> QED BY <1>1, Invariance, PTL

\* Where the elements of a search path begin, and the place each of them names.
Begins(s)    == {i \in DOMAIN s : i = 1 \/ s[i - 1] = COLON}
PlaceOf(s)   == [i \in DOMAIN s |-> IF s[i] = COLON THEN Root ELSE s[i]]
EnvChars     == Dirs \union {COLON}

\* What is known of the token of s that ends before position i and begins behind m.
TokenFrom(s, i, m) ==
  /\ m \in Nat /\ m + 1 \in Begins(s) /\ m < i
  /\ StretchBefore(s, COLON)[i] = Cut(s, m, i - 1)
  /\ PlaceOf(s)[m + 1] = IF StretchBefore(s, COLON)[i] = <<>> THEN Root ELSE StretchBefore(s, COLON)[i][1]
  /\ LastDelim(s, COLON, i - 1, m)

\* A token begins behind the last separator before it, inside the text, and its place
\* is told by the character there.
LEMMA TokenBegins ==
  ASSUME NEW s \in Seq(EnvChars), NEW i \in TokenEnds(s, COLON)
  PROVE  TokenFrom(s, i, DelimBefore(s, COLON, i))
<1> DEFINE n == Len(s)
           k == i - 1
           m == DelimBefore(s, COLON, i)
           f == StretchBefore(s, COLON)
<1>1. n \in Nat /\ i \in 1 .. n + 1 /\ k \in 0 .. n /\ k \in Nat /\ i = k + 1 /\ DOMAIN s = 1 .. n
  BY DEF TokenEnds
<1>2. IF i <= n THEN s[i] = COLON ELSE n # 0 /\ s[n] # COLON
  <2>1. IF i <= n THEN s[i] = COLON ELSE s # <<>> /\ Last(s) # COLON
    BY Zenon DEF TokenEnds
  <2>2. s # <<>> => n # 0
    BY EmptySeq
  <2> QED BY <2>1, <2>2, Zenon DEF Last
<1> HIDE DEF n, k
<1>3. LastDelim(s, COLON, k, m)
  BY <1>1, DelimBeforeSays
<1> HIDE DEF m
<1>4. m \in 0 .. k /\ (m # 0 => s[m] = COLON) /\ \A j \in m + 1 .. k : s[j] # COLON
  BY <1>3 DEF LastDelim
<1>5. f[i] = Cut(s, m, k)
  BY <1>1, <1>3, StretchIs DEF n
<1>6. IsCut(f[i], EnvChars, s, m, k)
  <2>1. m \in Nat /\ m <= k /\ k <= Len(s)
    BY <1>1, <1>4 DEF n
  <2> QED BY <1>1, <1>5, <2>1, CutIs
<1>7. m + 1 <= n
  <2>1. m = n => k = n /\ i = n + 1 /\ n # 0
    BY <1>1, <1>2, <1>4
  <2>2. m # n
    BY <1>1, <1>2, <1>4, <2>1
  <2> QED BY <1>1, <1>4, <2>2
<1>8. m + 1 \in Begins(s)
  <2>1. m + 1 \in DOMAIN s /\ (m # 0 => s[(m + 1) - 1] = COLON)
    BY <1>1, <1>4, <1>7
  <2> QED BY <1>4, <2>1 DEF Begins
<1> HIDE DEF f
<1>9. PlaceOf(s)[m + 1] = IF f[i] = <<>> THEN Root ELSE f[i][1]
  <2>1. PlaceOf(s)[m + 1] = IF s[m + 1] = COLON THEN Root ELSE s[m + 1]
    BY <1>1, <1>4, <1>7 DEF PlaceOf
  <2>2. CASE m = k
    <3>1. f[i] = <<>>
      BY <1>4, <1>6, <2>2, EmptySeq DEF IsCut
    <3>2. s[m + 1] = COLON
      BY <1>1, <1>2, <1>7, <2>2
    <3> QED BY <2>1, <3>1, <3>2
  <2>3. CASE m # k
    <3>1. 1 \in 1 .. k - m /\ m + 1 \in m + 1 .. k /\ k - m # 0
      BY <1>1, <1>4, <2>3
    <3>2. f[i] \in Seq(EnvChars) /\ Len(f[i]) = k - m /\ f[i][1] = s[m + 1] /\ s[m + 1] # COLON
      BY <1>4, <1>6, <3>1, Zenon DEF IsCut
    <3>3. f[i] # <<>>
      BY <3>1, <3>2
    <3> QED BY <2>1, <3>2, <3>3
  <2> QED BY <2>2, <2>3
<1> QED BY <1>1, <1>3, <1>4, <1>5, <1>8, <1>9 DEF TokenFrom, m, k, f

\* Each element of the search path ends somewhere, as a token.
LEMMA BeginEnds ==
  ASSUME NEW s \in Seq(EnvChars), NEW b \in Begins(s)
  PROVE  \E i \in TokenEnds(s, COLON) : DelimBefore(s, COLON, i) = b - 1
<1> DEFINE n == Len(s)
           E == {i \in TokenEnds(s, COLON) : i >= b}
<1>1. n \in Nat /\ DOMAIN s = 1 .. n /\ b \in 1 .. n /\ (b # 1 => s[b - 1] = COLON)
  BY DEF Begins
<1>2. \A i : i \in TokenEnds(s, COLON) <=>
               i \in 1 .. n + 1 /\ (IF i <= n THEN s[i] = COLON ELSE s[n] # COLON)
  <2>1. s # <<>>
    BY <1>1
  <2> QED BY <2>1, Zenon DEF TokenEnds, Last
<1> HIDE DEF n
<1>3. E \in SUBSET Nat /\ E # {}
  <2>1. E \in SUBSET Nat
    BY <1>1, <1>2
  <2>2. CASE s[n] = COLON
    BY <1>1, <1>2, <2>2
  <2>3. CASE s[n] # COLON
    <3>1. n + 1 \in TokenEnds(s, COLON) /\ n + 1 >= b
      BY <1>1, <1>2, <2>3
    <3> QED BY <2>1, <3>1
  <2> QED BY <2>1, <2>2, <2>3
<1>4. PICK i \in E : \A j \in E : i <= j
  <2> HIDE DEF E
  <2> QED BY <1>3, LeastNumber
<1> DEFINE k == i - 1
           m == b - 1
<1>5. i \in 1 .. n + 1 /\ i >= b /\ k \in Nat /\ k <= n /\ i = k + 1 /\ m \in Nat /\ m <= k
  BY <1>1, <1>2, <1>4
<1>6. \A j \in b .. k : s[j] # COLON
  <2> SUFFICES ASSUME NEW j \in b .. k, s[j] = COLON PROVE FALSE
    OBVIOUS
  <2>1. j \in E /\ j < i
    BY <1>1, <1>2, <1>5
  <2> QED BY <1>4, <1>5, <2>1
<1>7. m # 0 => s[m] = COLON
  BY <1>1
<1>8. m + 1 = b
  BY <1>1
<1> HIDE DEF k, m
<1>9. LastDelim(s, COLON, k, m)
  BY <1>5, <1>6, <1>7, <1>8 DEF LastDelim
<1>10. LastDelim(s, COLON, k, DelimBefore(s, COLON, i))
  BY <1>5, DelimBeforeSays
<1>11. DelimBefore(s, COLON, i) = m
  BY <1>5, <1>9, <1>10, LastDelimUnique
<1> QED BY <1>4, <1>11 DEF m

\* The tokens of a search path, the empty ones included.
LEMMA SearchTokens ==
  ASSUME NEW s \in Seq(EnvChars)
  PROVE  /\ Listed(Tokens(s, COLON, FALSE), TokenEnds(s, COLON), StretchBefore(s, COLON))
         /\ Tokens(s, COLON, FALSE) \in Seq(Seq(EnvChars))
<1>1. Unskipped(s, COLON, FALSE, TokenEnds(s, COLON)) = TokenEnds(s, COLON)
  BY Zenon DEF Unskipped
<1> DEFINE no == FALSE
<1>2. no \in BOOLEAN
  OBVIOUS
<1> HIDE DEF no
<1>3. /\ Listed(Tokens(s, COLON, no), Unskipped(s, COLON, no, TokenEnds(s, COLON)), StretchBefore(s, COLON))
      /\ Tokens(s, COLON, no) \in Seq(Seq(EnvChars))
  BY <1>2, TokensListed
<1> QED BY <1>1, <1>3, Zenon DEF no

\* find_library_path looks for exactly the elements of the search path, in order.
LEMMA PlacesListed ==
  ASSUME NEW s \in Seq(EnvChars)
  PROVE  /\ Listed(SearchPaths(s), Begins(s), PlaceOf(s))
         /\ SearchPaths(s) \in Seq(Places)
<1> DEFINE toks == Tokens(s, COLON, FALSE)
           ends == TokenEnds(s, COLON)
           f    == StretchBefore(s, COLON)
           from(i) == DelimBefore(s, COLON, i)
           n    == Len(s)
<1>1. Listed(toks, ends, f) /\ toks \in Seq(Seq(EnvChars))
  BY SearchTokens
<1>2. SearchPaths(s) = [i \in DOMAIN toks |-> IF toks[i] = <<>> THEN Root ELSE toks[i][1]]
  BY Zenon DEF SearchPaths
<1>3. \A i \in ends : TokenFrom(s, i, from(i))
  BY TokenBegins
<1>4. \A b \in Begins(s) : \E i \in ends : from(i) = b - 1
  BY BeginEnds
<1>5. n \in Nat /\ \A i \in ends : i \in 1 .. n + 1 /\ (i <= n => s[i] = COLON)
  BY DEF TokenEnds
<1> HIDE DEF toks, ends, f, n
<1>6. PICK pos : Lists(toks, ends, f, pos)
  BY <1>1 DEF Listed
<1> DEFINE l == Len(toks)
           v == SearchPaths(s)
<1>7. l \in Nat /\ DOMAIN toks = 1 .. l
  BY <1>1
<1>8. /\ pos \in [1 .. l -> ends]
      /\ \A i, j \in 1 .. l : i < j => pos[i] < pos[j]
      /\ \A k \in ends : \E i \in 1 .. l : pos[i] = k
      /\ \A i \in 1 .. l : toks[i] = f[pos[i]]
  BY <1>6 DEF Lists
<1> HIDE DEF l
<1> DEFINE at == [i \in 1 .. l |-> from(pos[i]) + 1]
<1>9. \A i \in ends : /\ from(i) \in Nat /\ from(i) + 1 \in Begins(s) /\ from(i) < i
                      /\ PlaceOf(s)[from(i) + 1] = IF f[i] = <<>> THEN Root ELSE f[i][1]
                      /\ \A j \in from(i) + 1 .. i - 1 : s[j] # COLON
  BY <1>3 DEF TokenFrom, LastDelim, f
<1> HIDE DEF from
<1>10. at \in [1 .. l -> Begins(s)]
  BY <1>8, <1>9
<1>11. \A i \in 1 .. l : v[i] = PlaceOf(s)[at[i]]
  <2> SUFFICES ASSUME NEW i \in 1 .. l PROVE v[i] = PlaceOf(s)[at[i]]
    OBVIOUS
  <2>1. v[i] = IF toks[i] = <<>> THEN Root ELSE toks[i][1]
    BY <1>2, <1>7
  <2>2. pos[i] \in ends /\ toks[i] = f[pos[i]] /\ at[i] = from(pos[i]) + 1
    BY <1>8
  <2> HIDE DEF at, v
  <2> QED BY <1>9, <2>1, <2>2, Zenon
<1>12. \A i, j \in 1 .. l : i < j => at[i] < at[j]
  <2> SUFFICES ASSUME NEW i \in 1 .. l, NEW j \in 1 .. l, i < j PROVE at[i] < at[j]
    OBVIOUS
  <2> DEFINE a == pos[i]
             b == pos[j]
  <2>1. a \in ends /\ b \in ends /\ a < b /\ at[i] = from(a) + 1 /\ at[j] = from(b) + 1
    BY <1>8
  <2> HIDE DEF a, b, at
  <2>2. a \in 1 .. n + 1 /\ b \in 1 .. n + 1 /\ (a <= n => s[a] = COLON)
    BY <1>5, <2>1
  <2>3. s[a] = COLON /\ a \in Nat /\ b \in Nat /\ a <= b - 1
    BY <1>5, <2>1, <2>2
  <2>4. from(a) \in Nat /\ from(b) \in Nat /\ from(a) < a
    BY <1>9, <2>1
  <2>5. a \notin from(b) + 1 .. b - 1
    BY <1>9, <2>1, <2>3
  <2> QED BY <2>1, <2>3, <2>4, <2>5
<1>13. \A b \in Begins(s) : \E i \in 1 .. l : at[i] = b
  <2> SUFFICES ASSUME NEW b \in Begins(s) PROVE \E i \in 1 .. l : at[i] = b
    OBVIOUS
  <2>1. PICK k \in ends : from(k) = b - 1
    BY <1>4
  <2>2. PICK i \in 1 .. l : pos[i] = k
    BY <1>8
  <2>3. b \in Nat
    BY DEF Begins
  <2>4. at[i] = b
    BY <2>1, <2>2, <2>3
  <2> QED BY <2>4
<1>14. Len(v) = l /\ DOMAIN v = 1 .. l
  BY <1>2, <1>7
<1>15. v \in Seq(Places)
  <2>1. \A b \in Begins(s) : PlaceOf(s)[b] \in Places
    BY DEF Begins, PlaceOf, Places, EnvChars
  <2>2. \A i \in 1 .. l : v[i] \in Places
    BY <1>10, <1>11, <2>1
  <2>3. v = [i \in 1 .. l |-> v[i]]
    BY <1>2, <1>7
  <2> HIDE DEF v
  <2> QED BY <1>7, <2>2, <2>3
<1> HIDE DEF v, at
<1>16. Lists(v, Begins(s), PlaceOf(s), at)
  BY <1>10, <1>11, <1>12, <1>13, <1>14, Zenon DEF Lists
<1> QED BY <1>15, <1>16 DEF v, Listed

\* The places still to look at are those of the search path from some place on; the
\* file was missing, at some moment of the call, from each place before it.
LooksFrom(k) ==
  /\ k \in 0 .. Len(SearchPaths(env)) /\ Len(search) = Len(SearchPaths(env)) - k
  /\ \A i \in 1 .. Len(search) : search[i] = SearchPaths(env)[k + i]
  /\ \A i \in 1 .. k : SearchPaths(env)[i] \in wasnt

\* The inductive invariant of the search: what is there or not has been so at some
\* moment, and of the places before the next one each was seen without the file.
FindIInv ==
  /\ FindTypeOK /\ search \in Seq(Places)
  /\ Searching => /\ present \subseteq was /\ Places \ present \subseteq wasnt
                  /\ \E k \in Nat : LooksFrom(k)

\* What the program does to the state of the search.
Forgets  == ~Searching /\ path' = NotFound /\ UNCHANGED <<env, search, present, was, wasnt>>

\* What any program may do to the search.
FindNext == FindLibraryPath \/ Look \/ OthersChange \/ PathForLibrary \/ Forgets

\* A step of the program is a step of the search, or leaves it alone.
LEMMA ClientFind == ClientNext => [FindNext]_findVars
<1> SUFFICES ASSUME ClientNext PROVE [FindNext]_findVars
  OBVIOUS
<1>1. CASE Finding
  BY <1>1 DEF Finding, FindNext
<1>2. CASE UseLibrary
  BY <1>2 DEF UseLibrary, OnlyLibs
<1>3. ASSUME NEW o \in Objs, LoadLibrary(o) PROVE FindNext
  BY <1>3 DEF LoadLibrary, FindNext, Forgets
<1>4. ASSUME NEW o \in Objs, UnloadLibrary(o) \/ UseDangling(o) \/ LeaveLibrary(o)
      PROVE  UNCHANGED findVars
  BY <1>4 DEF UnloadLibrary, UseDangling, LeaveLibrary, OnlyLibs
<1>5. ASSUME NEW o \in Objs, NEW from \in Objs, CopyLibrary(o, from) \/ AssignLibrary(o, from)
      PROVE  UNCHANGED findVars
  BY <1>5 DEF CopyLibrary, AssignLibrary, OnlyLibs
<1>6. ASSUME NEW g \in Guards, NEW k \in Cleanups, NEW o \in Objs, NEW kind \in Kinds, MakeGuard(g, k, o, kind)
      PROVE  UNCHANGED findVars
  BY <1>6 DEF MakeGuard, OnlyGuards
<1>7. ASSUME NEW g \in Guards, NEW from \in Guards, MoveGuard(g, from) \/ AssignGuard(g, from)
      PROVE  UNCHANGED findVars
  BY <1>7 DEF MoveGuard, AssignGuard, OnlyGuards
<1>8. ASSUME NEW g \in Guards, CancelGuard(g) \/ LeaveGuard(g) PROVE UNCHANGED findVars
  BY <1>8 DEF CancelGuard, LeaveGuard, Terminates, OnlyGuards
<1> QED BY <1>1, <1>2, <1>3, <1>4, <1>5, <1>6, <1>7, <1>8 DEF ClientNext

\* What get_env_var answers is a text.
LEMMA EnvText == GetEnvVar \subseteq Seq(EnvChars)
<1>1. EnvTexts \subseteq Seq(EnvChars)
  BY EnvAssumption DEF EnvChars
<1>2. <<>> \in Seq(EnvChars)
  OBVIOUS
<1> QED BY <1>1, <1>2 DEF GetEnvVar

\* The places of whatever get_env_var answers.
LEMMA EnvSearched ==
  ASSUME NEW s \in GetEnvVar
  PROVE  /\ Listed(SearchPaths(s), Begins(s), PlaceOf(s))
         /\ SearchPaths(s) \in Seq(Places)
<1>1. s \in Seq(EnvChars)
  BY EnvText
<1> QED BY <1>1, PlacesListed

\* No search goes on at first.
LEMMA InitFind == ClientInit => FindIInv
<1> SUFFICES ASSUME ClientInit PROVE FindIInv
  OBVIOUS
<1>1. env = <<>> /\ path = NotFound /\ present = {} /\ search = <<>> /\ was = {} /\ wasnt = {}
  BY DEF ClientInit, FindInit
<1>2. Range(search) = {}
  BY <1>1 DEF Range
<1>3. search \in Seq(Places)
  BY <1>1
<1>4. ~Searching
  BY <1>1 DEF Searching
<1>5. FindTypeOK
  BY <1>1, <1>2 DEF FindTypeOK, GetEnvVar
<1> QED BY <1>3, <1>4, <1>5 DEF FindIInv

\* The place that is looked at next is the next place of the search path.
LEMMA LooksNext ==
  ASSUME FindIInv, Searching, NEW k \in Nat, LooksFrom(k), search # <<>>
  PROVE  /\ k + 1 \in 1 .. Len(SearchPaths(env)) /\ Head(search) = SearchPaths(env)[k + 1]
         /\ Head(search) \in Places /\ Tail(search) \in Seq(Places)
         /\ Len(Tail(search)) = Len(search) - 1
         /\ \A i \in 1 .. Len(search) - 1 : Tail(search)[i] = SearchPaths(env)[k + 1 + i]
<1> DEFINE l == Len(search)
           m == Len(SearchPaths(env))
           v == SearchPaths(env)
<1>1. search \in Seq(Places) /\ env \in GetEnvVar
  BY DEF FindIInv, FindTypeOK
<1>2. l \in Nat /\ l # 0 /\ m \in Nat
  <2>1. v \in Seq(Places)
    BY <1>1, EnvSearched
  <2> HIDE DEF v
  <2> QED BY <1>1, <2>1 DEF v
<1>3. k \in 0 .. m /\ l = m - k /\ \A i \in 1 .. l : search[i] = v[k + i]
  BY DEF LooksFrom
<1> HIDE DEF v, m
<1>4. /\ Head(search) = search[1] /\ search[1] \in Places /\ Tail(search) \in Seq(Places)
      /\ Len(Tail(search)) = l - 1 /\ \A i \in 1 .. l - 1 : Tail(search)[i] = search[i + 1]
  BY <1>1, <1>2
<1> HIDE DEF l
<1>5. 1 \in 1 .. l /\ k + 1 \in 1 .. m
  BY <1>2, <1>3
<1>6. \A i \in 1 .. l - 1 : i + 1 \in 1 .. l /\ k + (i + 1) = k + 1 + i
  BY <1>2
<1>7. \A i \in 1 .. l - 1 : Tail(search)[i] = v[k + 1 + i]
  <2> TAKE i \in 1 .. l - 1
  <2>1. i + 1 \in 1 .. l /\ k + (i + 1) = k + 1 + i /\ Tail(search)[i] = search[i + 1]
    BY <1>4, <1>6
  <2>2. search[i + 1] = v[k + (i + 1)]
    BY <1>3, <2>1
  <2> QED BY <2>1, <2>2
<1> QED BY <1>3, <1>4, <1>5, <1>7 DEF m, v, l

\* Neither a look nor what others do to the files breaks the invariant of the search.
LEMMA NextFind == FindIInv /\ [FindNext]_findVars => FindIInv'
<1> SUFFICES ASSUME FindIInv, [FindNext]_findVars PROVE FindIInv'
  OBVIOUS
<1>0. /\ FindTypeOK /\ search \in Seq(Places) /\ env \in GetEnvVar /\ path \in Places \union {NotFound}
      /\ present \subseteq Places /\ was \subseteq Places /\ wasnt \subseteq Places
  BY DEF FindIInv, FindTypeOK
<1>a. ASSUME NEW s \in Seq(Places) PROVE Range(s) \subseteq Places
  BY DEF Range
<1>1. CASE FindLibraryPath
  <2>1. /\ env' \in GetEnvVar /\ search' = SearchPaths(env') /\ present' \in SUBSET Places
        /\ was' = present' /\ wasnt' = Places \ present' /\ path' = NotFound
    BY <1>1 DEF FindLibraryPath
  <2>2. search' \in Seq(Places)
    BY <2>1, EnvSearched
  <2>3. LooksFrom(0)'
    <3> DEFINE s == search'
    <3>1. s \in Seq(Places) /\ s = SearchPaths(env')
      BY <2>1, <2>2
    <3> HIDE DEF s
    <3>2. Len(s) \in Nat /\ \A i \in 1 .. Len(s) : 0 + i = i
      BY <3>1
    <3> QED BY <3>1, <3>2 DEF LooksFrom, s
  <2>4. FindTypeOK'
    BY <1>a, <2>1, <2>2 DEF FindTypeOK
  <2> QED BY <2>1, <2>2, <2>3, <2>4 DEF FindIInv
<1>2. CASE Look /\ Rests
  <2>1. ~Searching' /\ search' = <<>> /\ env' = <<>> /\ present' = {} /\ was' = {} /\ wasnt' = {}
    BY <1>2 DEF Rests, Searching
  <2>2. path' \in Places \union {NotFound}
    <3>1. search # <<>> => Head(search) \in Places
      BY <1>0
    <3>2. path' = NotFound \/ (search # <<>> /\ path' = Head(search)) \/ UNCHANGED <<env, present, path, was, wasnt>>
      BY <1>2, Zenon DEF Look
    <3> QED BY <1>0, <3>1, <3>2
  <2>3. search' \in Seq(Places)
    BY <2>1
  <2>4. FindTypeOK'
    BY <1>a, <2>1, <2>2, <2>3 DEF FindTypeOK, GetEnvVar
  <2> QED BY <2>1, <2>3, <2>4 DEF FindIInv
<1>3. CASE Look /\ ~Rests
  <2>1. /\ Searching /\ search # <<>> /\ Head(search) \notin present /\ search' = Tail(search)
        /\ UNCHANGED <<env, present, path, was, wasnt>>
    BY <1>3 DEF Look
  <2>2. PICK k \in Nat : LooksFrom(k)
    BY <2>1 DEF FindIInv
  <2>3. /\ k + 1 \in 1 .. Len(SearchPaths(env)) /\ Head(search) = SearchPaths(env)[k + 1]
        /\ Head(search) \in Places /\ Tail(search) \in Seq(Places)
        /\ Len(Tail(search)) = Len(search) - 1
        /\ \A i \in 1 .. Len(search) - 1 : Tail(search)[i] = SearchPaths(env)[k + 1 + i]
    BY <2>1, <2>2, LooksNext
  <2>4. Head(search) \in wasnt
    BY <2>1, <2>3 DEF FindIInv
  <2>5. \A i \in 1 .. k + 1 : SearchPaths(env)[i] \in wasnt
    BY <2>2, <2>3, <2>4 DEF LooksFrom
  <2>6. LooksFrom(k + 1)'
    <3> DEFINE m == Len(SearchPaths(env))
               v == SearchPaths(env)
               t == Tail(search)
               l == Len(search)
               j == k + 1
    <3>1. l = m - k /\ k \in 0 .. m /\ j \in 1 .. m /\ l \in Nat /\ m \in Nat
      BY <1>0, <2>2, <2>3, EnvSearched DEF LooksFrom
    <3>2. Len(t) = l - 1 /\ \A i \in 1 .. l - 1 : t[i] = v[j + i]
      BY <2>3
    <3>3. v' = v /\ search' = t /\ wasnt' = wasnt /\ Len(v) = m
      BY <2>1
    <3>4. \A i \in 1 .. j : v[i] \in wasnt
      BY <2>5
    <3> HIDE DEF m, v, t, l, j
    <3>5. l - 1 = m - j /\ j \in 0 .. m
      BY <3>1 DEF j
    <3>6. Len(t) = m - j /\ \A i \in 1 .. Len(t) : t[i] = v[j + i]
      BY <3>2, <3>5, Zenon
    <3> QED BY <3>3, <3>4, <3>5, <3>6 DEF LooksFrom, v, j
  <2>7. search' \in Seq(Places)
    BY <2>1, <2>3
  <2>8. FindTypeOK'
    BY <1>0, <1>a, <2>1, <2>7 DEF FindTypeOK
  <2>9. present' \subseteq was' /\ Places \ present' \subseteq wasnt'
    BY <2>1 DEF FindIInv
  <2>10. k + 1 \in Nat
    OBVIOUS
  <2> QED BY <2>6, <2>7, <2>8, <2>9, <2>10 DEF FindIInv
<1>4. CASE OthersChange
  <2>1. Searching /\ UNCHANGED <<env, search, path>>
    BY <1>4 DEF OthersChange
  <2>2. present \subseteq was /\ Places \ present \subseteq wasnt
    BY <2>1 DEF FindIInv
  <2>3. PICK k \in Nat : LooksFrom(k)
    BY <2>1 DEF FindIInv
  <2>4. /\ present' \subseteq was' /\ Places \ present' \subseteq wasnt'
        /\ present' \subseteq Places /\ was' \subseteq Places /\ wasnt' \subseteq Places /\ wasnt \subseteq wasnt'
    BY <1>0, <1>4, <2>2 DEF OthersChange
  <2>5. LooksFrom(k)'
    BY <2>1, <2>3, <2>4 DEF LooksFrom
  <2>6. FindTypeOK' /\ search' \in Seq(Places)
    BY <1>0, <2>1, <2>4 DEF FindTypeOK
  <2> QED BY <2>4, <2>5, <2>6 DEF FindIInv
<1>5. CASE PathForLibrary \/ Forgets \/ UNCHANGED findVars
  <2>1. UNCHANGED <<env, search, present, was, wasnt>> /\ path' \in Places \union {NotFound}
    BY <1>0, <1>5 DEF PathForLibrary, Forgets, findVars, Places
  <2>2. FindTypeOK' /\ search' \in Seq(Places)
    BY <1>0, <2>1 DEF FindTypeOK
  <2>3. (Searching <=> Searching') /\ \A k \in Nat : LooksFrom(k) => LooksFrom(k)'
    BY <2>1 DEF Searching, LooksFrom
  <2> QED BY <2>1, <2>2, <2>3 DEF FindIInv
<1> QED BY <1>1, <1>2, <1>3, <1>4, <1>5 DEF FindNext

\* A search goes through the search path in order, and others' changes are seen.
THEOREM FindInvariance == ClientSpec => []FindIInv
<1>1. FindIInv /\ [ClientNext]_allVars => FindIInv'
  <2>1. UNCHANGED allVars => UNCHANGED findVars
    BY DEF allVars
  <2>2. ClientNext => [FindNext]_findVars
    BY ClientFind
  <2> QED BY <2>1, <2>2, NextFind
<1> QED BY <1>1, InitFind, PTL DEF ClientSpec

\* The places the search has passed.
LEMMA PassedWere ==
  ASSUME FindIInv, Searching, NEW k \in Nat, LooksFrom(k), NEW m \in Nat,
         NEW at, Lists(SearchPaths(env), Begins(env), PlaceOf(env), at),
         \A i \in 1 .. Len(SearchPaths(env)) : at[i] < m => i <= k
  PROVE  {PlaceAt(j) : j \in {b \in Elements : b < m}} \subseteq wasnt
<1> DEFINE v == SearchPaths(env)
           l == Len(v)
<1>1. /\ \A b \in Begins(env) : \E i \in 1 .. l : at[i] = b
      /\ \A i \in 1 .. l : v[i] = PlaceOf(env)[at[i]]
  BY DEF Lists
<1>2. Elements = Begins(env)
  BY Zenon DEF Elements, Begins
<1>3. \A b \in Begins(env) : PlaceAt(b) = PlaceOf(env)[b]
  BY DEF Begins, PlaceAt, PlaceOf
<1>4. l \in Nat
  <2>1. v \in Seq(Places)
    BY EnvSearched DEF FindIInv, FindTypeOK
  <2> HIDE DEF v
  <2> QED BY <2>1
<1>5. \A i \in 1 .. k : v[i] \in wasnt
  BY DEF LooksFrom
<1> SUFFICES ASSUME NEW b \in Elements, b < m PROVE PlaceAt(b) \in wasnt
  OBVIOUS
<1>6. PICK i \in 1 .. l : at[i] = b
  BY <1>1, <1>2
<1>7. i <= k
  BY <1>6
<1> HIDE DEF l, v
<1>8. v[i] \in wasnt
  BY <1>4, <1>5, <1>6, <1>7
<1> QED BY <1>1, <1>2, <1>3, <1>6, <1>8, Zenon

\* find_library_path answers the first place of the search path that has the file,
\* as far as others hold still: for every search path, and any number of places
\* and changes by others.
THEOREM FirstFound == ClientSpec => FoundFirst
<1> DEFINE before(i) == {PlaceAt(j) : j \in {k \in Elements : k < i}}
           Answers   == \/ path' = NotFound /\ before(Len(env) + 1) \subseteq wasnt
                        \/ \E i \in Elements : PlaceAt(i) = path' /\ path' \in was /\ before(i) \subseteq wasnt
<1>1. ASSUME FindIInv, ClientNext, Searching, ~Searching' PROVE Answers
  <2>1. [FindNext]_findVars
    BY <1>1, ClientFind
  <2>2. Look /\ Rests
    BY <1>1, <2>1 DEF FindNext, findVars, Searching, FindLibraryPath, Look, OthersChange, PathForLibrary, Forgets
  <2>3. PICK k \in Nat : LooksFrom(k)
    BY <1>1 DEF FindIInv
  <2>4. env \in GetEnvVar /\ env \in Seq(EnvChars)
    BY <1>1, EnvText DEF FindIInv, FindTypeOK
  <2>5. PICK at : Lists(SearchPaths(env), Begins(env), PlaceOf(env), at)
    BY <2>4, EnvSearched DEF Listed
  <2> DEFINE v == SearchPaths(env)
             l == Len(v)
  <2>6. /\ l \in Nat /\ at \in [1 .. l -> Begins(env)]
        /\ \A i, j \in 1 .. l : i < j => at[i] < at[j]
        /\ \A i \in 1 .. l : v[i] = PlaceOf(env)[at[i]]
    <3>1. v \in Seq(Places)
      BY <2>4, EnvSearched
    <3>2. l \in Nat
      <4> HIDE DEF v
      <4> QED BY <3>1
    <3> QED BY <2>5, <3>2 DEF Lists
  <2>7. Begins(env) \in SUBSET Nat /\ Len(env) \in Nat
    BY <2>4 DEF Begins
  <2>8. CASE search = <<>> /\ path' = NotFound
    <3>1. k = l
      BY <2>3, <2>6, <2>8 DEF LooksFrom
    <3>2. \A i \in 1 .. l : at[i] < Len(env) + 1 => i <= k
      BY <2>6, <3>1
    <3> DEFINE m == Len(env) + 1
    <3>3. m \in Nat
      BY <2>7
    <3> HIDE DEF m
    <3>4. {PlaceAt(j) : j \in {b \in Elements : b < m}} \subseteq wasnt
      BY <1>1, <2>3, <2>5, <3>2, <3>3, PassedWere DEF m
    <3> QED BY <2>8, <3>4 DEF m
  <2>9. CASE search # <<>> /\ Head(search) \in present /\ path' = Head(search)
    <3>1. k + 1 \in 1 .. l /\ path' = v[k + 1]
      BY <1>1, <2>3, <2>9, LooksNext
    <3> DEFINE m == at[k + 1]
    <3>2. m \in Begins(env) /\ m \in Nat /\ path' = PlaceOf(env)[m]
      BY <2>6, <2>7, <3>1
    <3>3. \A i \in 1 .. l : at[i] < m => i <= k
      <4> SUFFICES ASSUME NEW i \in 1 .. l, at[i] < m, ~(i <= k) PROVE FALSE
        OBVIOUS
      <4>1. at[i] \in Nat
        BY <2>6, <2>7
      <4>2. i = k + 1 \/ k + 1 < i
        BY <2>6
      <4>3. k + 1 < i => at[k + 1] < at[i]
        BY <2>6, <3>1
      <4> QED BY <3>2, <4>1, <4>2, <4>3
    <3> HIDE DEF m
    <3>4. {PlaceAt(j) : j \in {b \in Elements : b < m}} \subseteq wasnt
      BY <1>1, <2>3, <2>5, <3>2, <3>3, PassedWere
    <3>5. m \in Elements /\ PlaceAt(m) = path'
      BY <3>2 DEF Elements, Begins, PlaceAt, PlaceOf
    <3>6. path' \in was
      BY <1>1, <2>9 DEF FindIInv
    <3> QED BY <3>4, <3>5, <3>6
  <2>10. \/ search = <<>> /\ path' = NotFound
         \/ search # <<>> /\ Head(search) \in present /\ path' = Head(search)
    BY <1>1, <2>2 DEF Look, Searching
  <2> QED BY <2>8, <2>9, <2>10
<1>2. FindIInv /\ [ClientNext]_allVars => [Searching /\ ~Searching' => Answers]_findVars
  <2>1. UNCHANGED allVars => UNCHANGED findVars
    BY DEF allVars
  <2> HIDE DEF Answers
  <2> QED BY <1>1, <2>1
<1> QED BY <1>2, FindInvariance, PTL DEF ClientSpec, FoundFirst
=============================================================================
