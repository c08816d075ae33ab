---------------------------- MODULE Story_proofs ----------------------------
(***************************************************************************)
(* Proofs about the public story, in three parts.                          *)
(*                                                                         *)
(* StoryOverride, for any patchers, composers, fields and values.          *)
(* ScanIsCurrent rests on versions: what was composed since the last edit  *)
(* shows that edit (FreshInv), and a scan keeps the overrides it has met   *)
(* (ViewInv).                                                              *)
(*                                                                         *)
(* PublicStory, for any events, batches and limits.  The invariant relates *)
(* what a scan has read to the ledger as it grows (ReadInv); the loops     *)
(* that merge the events and make the journey and the product of them are  *)
(* followed one iteration after the other.                                 *)
(*                                                                         *)
(* Redaction, for any entities and previews, nested to any depth.          *)
(*                                                                         *)
(* An induction is about the set of the numbers that satisfy what is       *)
(* proved: SetInduction and BoundedInduction.                              *)
(***************************************************************************)
EXTENDS StoryOverride, PublicStory, Redaction, FiniteSetTheorems, WellFoundedInduction, TLAPS

(* A story that shows the override or nothing. *)
Shown(story) == \A f \in Fields : story[f] \in {Null, override[f]}

(* A patch that has written without getting the row is one that clears what is
   not there. *)
LockInv ==
  \A p \in Patchers : tx[p].step \in {"mirror", "commit"} /\ rowLock # p => tx[p].next = Blank

(* What was composed, or stored, after the last edit shows that edit. *)
FreshInv ==
  /\ \A c \in Composers : comp[c].at <= audit /\ (comp[c].step = "store" /\ comp[c].at = audit => Shown(comp[c].story))
  /\ asOf <= audit
  /\ projection # NoProjection /\ asOf = audit => Shown(projection)

(* A scan has met the override of this moment, and its fields are of a moment it
   has met. *)
ViewInv ==
  view.step = "apply" =>
    /\ override \in view.during
    /\ view.sure => \A f \in Fields : view.story[f] = Null \/ \E ov \in view.during : view.story[f] = ov[f]

(* The inductive invariant; the first property is part of it. *)
IndInv == TypeOK /\ ReadRowStays /\ LockInv /\ FreshInv /\ ViewInv

(* What TypeOK says of a patch. *)
Tx == [step : {"idle", "write", "mirror", "commit"}, patch : Patches \cup {Blank}, prev : Story, next : Story]
(* What TypeOK says of a recomposition. *)
Comp == [step : {"idle", "store"}, story : Story, at : 0..MaxPatches]

(* No field set is a story too. *)
LEMMA BlankIsStory == Blank \in Story
BY DEF Blank, Story

(* An idle patcher. *)
LEMMA NoTxType == NoTx \in Tx /\ NoTx.step = "idle"
BY BlankIsStory DEF NoTx, Tx

(* An idle composer. *)
LEMMA NoCompType == NoComp \in Comp /\ NoComp.step = "idle" /\ NoComp.at = 0
BY BlankIsStory, PatchesAssumption DEF NoComp, Comp

(* A patched override has the fields of a story. *)
LEMMA PatchedType ==
  ASSUME NEW prev \in Story, NEW patch \in Patches
  PROVE  Patched(prev, patch) \in Story
BY MarksAssumption DEF Patched, Story, Patches

(* It holds when there is no override. *)
LEMMA InitInv == Init => IndInv
<1> SUFFICES ASSUME Init PROVE IndInv
  OBVIOUS
<1>1. TypeOK
  <2>1. NoView \in [step : {"idle", "apply"}, story : Story, during : SUBSET Story, sure : BOOLEAN]
    BY BlankIsStory DEF NoView
  <2> QED BY <2>1, BlankIsStory, NoTxType, NoCompType, PatchesAssumption DEF Init, TypeOK, Tx, Comp
<1>2. ReadRowStays /\ LockInv
  BY NoTxType DEF Init, ReadRowStays, LockInv
<1>3. FreshInv /\ ViewInv
  BY NoCompType DEF Init, FreshInv, ViewInv, NoView
<1> QED BY <1>1, <1>2, <1>3 DEF IndInv

(* p's transaction becomes w. *)
LEMMA TxType ==
  ASSUME TypeOK, NEW p \in Patchers, NEW w \in Tx, tx' = [tx EXCEPT ![p] = w]
  PROVE  tx' \in [Patchers -> Tx] /\ tx'[p] = w /\ \A q \in Patchers : q # p => tx'[q] = tx[q]
BY DEF TypeOK, Tx

(* c's recomposition becomes w. *)
LEMMA CompType ==
  ASSUME TypeOK, NEW c \in Composers, NEW w \in Comp, comp' = [comp EXCEPT ![c] = w]
  PROVE  comp' \in [Composers -> Comp] /\ comp'[c] = w /\ \A q \in Composers : q # c => comp'[q] = comp[q]
BY DEF TypeOK, Comp

(* What a step of a patch before its commit leaves alone. *)
LEMMA FreshFrame ==
  ASSUME FreshInv, ViewInv, UNCHANGED << override, projection, audit, comp, asOf, view >>
  PROVE  FreshInv' /\ ViewInv'
BY DEF FreshInv, ViewInv, Shown

(* SELECT ... FOR UPDATE reads the row that is there and locks it. *)
LEMMA SelectInv == ASSUME NEW p \in Patchers PROVE IndInv /\ SelectForUpdate(p) => IndInv'
<1> SUFFICES ASSUME IndInv, SelectForUpdate(p) PROVE IndInv'
  OBVIOUS
<1>1. UNCHANGED << override, storyLock, projection, audit, comp, asOf, view >> /\ tx[p].step = "idle"
  BY DEF SelectForUpdate
<1>2. PICK patch \in Patches : tx' = [tx EXCEPT ![p] = Read(patch, override)]
  BY DEF SelectForUpdate
<1> DEFINE w == Read(patch, override)
<1>3. w \in Tx /\ w.step = "write" /\ w.prev = override
  BY PatchedType DEF Read, Tx, IndInv, TypeOK
<1> HIDE DEF w
<1>4. tx' \in [Patchers -> Tx] /\ tx'[p] = w /\ \A q \in Patchers : q # p => tx'[q] = tx[q]
  BY <1>2, <1>3, TxType DEF IndInv, w
<1>5. \/ override = Blank /\ rowLock' = rowLock
      \/ override # Blank /\ rowLock = Null /\ rowLock' = p
  BY DEF SelectForUpdate
<1>6. TypeOK'
  BY <1>1, <1>4, <1>5 DEF IndInv, TypeOK, Tx
<1>7. ReadRowStays'
  BY <1>1, <1>3, <1>4, <1>5, MarksAssumption DEF IndInv, ReadRowStays
<1>8. LockInv'
  BY <1>3, <1>4, <1>5, MarksAssumption DEF IndInv, LockInv
<1> QED BY <1>1, <1>6, <1>7, <1>8, FreshFrame DEF IndInv

(* The patched row is written, not yet committed. *)
LEMMA WriteInv == ASSUME NEW p \in Patchers PROVE IndInv /\ Write(p) => IndInv'
<1> SUFFICES ASSUME IndInv, Write(p) PROVE IndInv'
  OBVIOUS
<1>1. UNCHANGED << override, storyLock, projection, audit, comp, asOf, view >> /\ tx[p].step = "write"
  BY DEF Write
<1> DEFINE w == [tx[p] EXCEPT !.step = "mirror"]
<1>2. tx' = [tx EXCEPT ![p] = w]
  BY DEF Write
<1>3. w \in Tx /\ w.step = "mirror" /\ w.prev = tx[p].prev /\ w.next = tx[p].next
  BY DEF Tx, IndInv, TypeOK
<1> HIDE DEF w
<1>4. tx' \in [Patchers -> Tx] /\ tx'[p] = w /\ \A q \in Patchers : q # p => tx'[q] = tx[q]
  BY <1>2, <1>3, TxType DEF IndInv
<1>5. \/ tx[p].next = Blank /\ override = Blank /\ rowLock' = rowLock
      \/ rowLock \in {Null, p} /\ rowLock' = p
  BY DEF Write
<1>6. TypeOK'
  BY <1>1, <1>4, <1>5 DEF IndInv, TypeOK, Tx
<1>7. ReadRowStays'
  BY <1>1, <1>3, <1>4, <1>5, MarksAssumption DEF IndInv, ReadRowStays
<1>8. LockInv'
  BY <1>3, <1>4, <1>5, MarksAssumption DEF IndInv, LockInv
<1> QED BY <1>1, <1>6, <1>7, <1>8, FreshFrame DEF IndInv

(* The projection's row is written, if there is one; nothing else changes. *)
LEMMA MirrorInv == ASSUME NEW p \in Patchers PROVE IndInv /\ Mirror(p) => IndInv'
<1> SUFFICES ASSUME IndInv, Mirror(p) PROVE IndInv'
  OBVIOUS
<1>1. UNCHANGED << override, rowLock, projection, audit, comp, asOf, view >> /\ tx[p].step = "mirror"
  BY DEF Mirror
<1> DEFINE w == [tx[p] EXCEPT !.step = "commit"]
<1>2. tx' = [tx EXCEPT ![p] = w] /\ storyLock' \in {storyLock, p}
  BY DEF Mirror
<1>3. w \in Tx /\ w.step = "commit" /\ w.prev = tx[p].prev /\ w.next = tx[p].next
  BY DEF Tx, IndInv, TypeOK
<1> HIDE DEF w
<1>4. tx' \in [Patchers -> Tx] /\ tx'[p] = w /\ \A q \in Patchers : q # p => tx'[q] = tx[q]
  BY <1>2, <1>3, TxType DEF IndInv
<1>5. TypeOK'
  BY <1>1, <1>2, <1>4 DEF IndInv, TypeOK, Tx
<1>6. ReadRowStays'
  BY <1>1, <1>3, <1>4 DEF IndInv, ReadRowStays
<1>7. LockInv'
  BY <1>1, <1>3, <1>4 DEF IndInv, LockInv
<1> QED BY <1>1, <1>5, <1>6, <1>7, FreshFrame DEF IndInv

(* The patch ends and lets go of the rows; the others keep what they have. *)
LEMMA ReleaseInv ==
  ASSUME TypeOK, ReadRowStays, LockInv, NEW p \in Patchers, Release(p),
         override' = override \/ rowLock = p
  PROVE  /\ tx' \in [Patchers -> Tx] /\ {rowLock', storyLock'} \subseteq Patchers \cup {Null}
         /\ ReadRowStays' /\ LockInv'
<1>1. tx' \in [Patchers -> Tx] /\ tx'[p] = NoTx /\ \A q \in Patchers : q # p => tx'[q] = tx[q]
  BY NoTxType, TxType DEF Release
<1>2. /\ rowLock' = IF rowLock = p THEN Null ELSE rowLock
      /\ storyLock' = IF storyLock = p THEN Null ELSE storyLock
  BY DEF Release
<1>3. ReadRowStays'
  BY <1>1, <1>2, NoTxType DEF ReadRowStays
<1>4. LockInv'
  BY <1>1, <1>2, NoTxType, MarksAssumption DEF LockInv
<1> QED BY <1>1, <1>2, <1>3, <1>4 DEF TypeOK

(* A commit changes the override; what was composed before it is older. *)
LEMMA CommitInv == ASSUME NEW p \in Patchers PROVE IndInv /\ Commit(p) => IndInv'
<1> SUFFICES ASSUME IndInv, Commit(p) PROVE IndInv'
  OBVIOUS
<1>1. /\ tx[p].step = "commit" /\ comp' = comp /\ audit < MaxPatches
      /\ override' = IF rowLock = p THEN tx[p].next ELSE override
      /\ projection' = IF storyLock = p THEN tx[p].next ELSE projection
      /\ audit' = audit + 1 /\ asOf' = IF storyLock = p THEN audit + 1 ELSE asOf
      /\ Release(p) /\ Witnessed
  BY DEF Commit
<1>2. tx[p].next \in Story /\ audit \in 0..MaxPatches /\ override \in Story /\ projection \in Story \cup {NoProjection}
  BY DEF IndInv, TypeOK
<1>3. override' \in Story
  BY <1>1, <1>2
<1>4. view' \in [step : {"idle", "apply"}, story : Story, during : SUBSET Story, sure : BOOLEAN]
  <2>1. view \in [step : {"idle", "apply"}, story : Story, during : SUBSET Story, sure : BOOLEAN]
    BY DEF IndInv, TypeOK
  <2>2. [view EXCEPT !.during = @ \cup {override'}] \in
          [step : {"idle", "apply"}, story : Story, during : SUBSET Story, sure : BOOLEAN]
    BY <1>3, <2>1
  <2> QED BY <1>1, <2>1, <2>2 DEF Witnessed
<1>5. /\ tx' \in [Patchers -> Tx] /\ {rowLock', storyLock'} \subseteq Patchers \cup {Null}
      /\ ReadRowStays' /\ LockInv'
  BY <1>1, ReleaseInv DEF IndInv
<1>6. TypeOK'
  <2>1. audit' \in 0..MaxPatches /\ asOf' \in 0..MaxPatches
    BY <1>1, <1>2, PatchesAssumption DEF IndInv, TypeOK
  <2>2. projection' \in Story \cup {NoProjection}
    BY <1>1, <1>2
  <2> QED BY <1>1, <1>3, <1>4, <1>5, <2>1, <2>2 DEF IndInv, TypeOK, Tx
<1>7. FreshInv'
  <2>1. \A c \in Composers : comp'[c].at <= audit' /\ comp'[c].at # audit'
    <3>1. \A c \in Composers : comp[c].at \in Nat /\ comp[c].at <= audit
      BY PatchesAssumption DEF IndInv, TypeOK, FreshInv
    <3> QED BY <1>1, <1>2, <3>1
  <2>2. asOf \in Nat /\ asOf <= audit
    BY PatchesAssumption DEF IndInv, TypeOK, FreshInv
  <2>3. asOf' = audit' => Shown(projection)'
    <3> HAVE asOf' = audit'
    <3>1. projection' = tx[p].next
      BY <1>1, <1>2, <2>2
    <3>2. CASE rowLock = p
      BY <1>1, <3>1, <3>2 DEF Shown
    <3>3. CASE rowLock # p
      <4>1. projection' = Blank
        BY <1>1, <3>1, <3>3 DEF IndInv, LockInv
      <4> QED BY <4>1 DEF Shown, Blank
    <3> QED BY <3>2, <3>3
  <2>4. asOf' <= audit'
    BY <1>1, <1>2, <2>2
  <2> QED BY <2>1, <2>3, <2>4 DEF FreshInv
<1>8. ViewInv'
  <2> SUFFICES ASSUME view'.step = "apply"
               PROVE  /\ override' \in view'.during
                      /\ view'.sure => \A f \in Fields :
                           view'.story[f] = Null \/ \E ov \in view'.during : view'.story[f] = ov[f]
    BY DEF ViewInv
  <2>1. view.step = "apply" /\ view' = [view EXCEPT !.during = @ \cup {override'}]
    BY <1>1 DEF Witnessed
  <2>2. view'.during = view.during \cup {override'} /\ view'.story = view.story /\ (view'.sure <=> view.sure)
    BY <2>1 DEF IndInv, TypeOK
  <2> QED BY <2>1, <2>2 DEF IndInv, ViewInv
<1> QED BY <1>5, <1>6, <1>7, <1>8 DEF IndInv

(* A rollback gives up the lock. *)
LEMMA RollbackInv == ASSUME NEW p \in Patchers PROVE IndInv /\ Rollback(p) => IndInv'
<1> SUFFICES ASSUME IndInv, Rollback(p) PROVE IndInv'
  OBVIOUS
<1>1. UNCHANGED << override, projection, audit, comp, asOf, view >> /\ Release(p)
  BY DEF Rollback
<1>2. /\ tx' \in [Patchers -> Tx] /\ {rowLock', storyLock'} \subseteq Patchers \cup {Null}
      /\ ReadRowStays' /\ LockInv'
  BY <1>1, ReleaseInv DEF IndInv
<1>3. TypeOK'
  BY <1>1, <1>2 DEF IndInv, TypeOK, Tx
<1> QED BY <1>1, <1>2, <1>3, FreshFrame DEF IndInv

(* A recomposition reads, or stores what it read. *)
LEMMA RebuildInv == ASSUME NEW c \in Composers PROVE IndInv /\ Rebuild(c) => IndInv'
<1> SUFFICES ASSUME IndInv, Rebuild(c) PROVE IndInv'
  OBVIOUS
<1>1. CASE Recompose(c)
  <2>1. UNCHANGED << override, rowLock, storyLock, projection, audit, tx, asOf, view >>
    BY <1>1 DEF Recompose
  <2>2. PICK story \in {override, Blank} :
          comp' = [comp EXCEPT ![c] = [step |-> "store", story |-> story, at |-> audit]]
    BY <1>1 DEF Recompose
  <2> DEFINE w == [step |-> "store", story |-> story, at |-> audit]
  <2>3. w \in Comp /\ w.at = audit /\ w.story = story
    BY BlankIsStory DEF Comp, IndInv, TypeOK
  <2>4. comp' \in [Composers -> Comp] /\ comp'[c] = w /\ \A q \in Composers : q # c => comp'[q] = comp[q]
    BY <2>2, <2>3, CompType DEF IndInv
  <2> HIDE DEF w
  <2>5. Shown(story)
    BY DEF Shown, Blank
  <2>6. \A x : Shown(x)' <=> Shown(x)
    BY <2>1 DEF Shown
  <2>7. audit \in Nat
    BY PatchesAssumption DEF IndInv, TypeOK
  <2>8. FreshInv'
    BY <2>1, <2>3, <2>4, <2>5, <2>6, <2>7 DEF IndInv, FreshInv
  <2> QED BY <2>1, <2>4, <2>8 DEF IndInv, TypeOK, ReadRowStays, LockInv, ViewInv, Comp
<1>2. CASE StoreProjection(c)
  <2>1. UNCHANGED << override, rowLock, storyLock, audit, tx, view >> /\ comp[c].step = "store"
    BY <1>2 DEF StoreProjection
  <2>2. comp' \in [Composers -> Comp] /\ comp'[c] = NoComp /\ \A q \in Composers : q # c => comp'[q] = comp[q]
    BY <1>2, NoCompType, CompType DEF IndInv, StoreProjection
  <2>3. \/ projection' = comp[c].story /\ asOf' = comp[c].at
        \/ projection' = projection /\ asOf' = asOf
    BY <1>2 DEF StoreProjection
  <2>4. \A x : Shown(x)' <=> Shown(x)
    BY <2>1 DEF Shown
  <2>5. audit \in Nat
    BY PatchesAssumption DEF IndInv, TypeOK
  <2>6. FreshInv'
    BY <2>1, <2>2, <2>3, <2>4, <2>5, NoCompType DEF IndInv, FreshInv
  <2>7. projection' \in Story \cup {NoProjection} /\ asOf' \in 0..MaxPatches
    BY <2>3 DEF IndInv, TypeOK
  <2> QED BY <2>1, <2>2, <2>6, <2>7 DEF IndInv, TypeOK, ReadRowStays, LockInv, ViewInv, Comp
<1> QED BY <1>1, <1>2 DEF Rebuild

(* A scan loads the projection and overlays the override. *)
LEMMA ScanInv == IndInv /\ (Resolve \/ Apply) => IndInv'
<1> SUFFICES ASSUME IndInv, Resolve \/ Apply PROVE IndInv'
  OBVIOUS
<1>1. UNCHANGED << override, rowLock, storyLock, projection, audit, tx, comp, asOf >>
  BY DEF Resolve, Apply
<1> DEFINE View == [step : {"idle", "apply"}, story : Story, during : SUBSET Story, sure : BOOLEAN]
<1>2. FreshInv' /\ ReadRowStays' /\ LockInv'
  BY <1>1 DEF IndInv, FreshInv, Shown, ReadRowStays, LockInv
<1>3. view' \in View /\ ViewInv'
  <2>1. CASE Apply
    <3>1. view' = NoView /\ NoView \in View /\ NoView.step = "idle"
      BY <2>1, BlankIsStory DEF Apply, NoView
    <3> QED BY <3>1 DEF ViewInv
  <2>2. ASSUME NEW story \in Story, NEW sure \in BOOLEAN, Shows(story, sure), sure => Shown(story)
        PROVE  view' \in View /\ ViewInv'
    <3>1. override \in Story
      BY DEF IndInv, TypeOK
    <3>2. /\ view' = [step |-> "apply", story |-> story, during |-> {override}, sure |-> sure]
      BY <2>2 DEF Shows
    <3>3. view' \in View /\ view'.during = {override} /\ view'.story = story /\ (view'.sure <=> sure)
      BY <3>1, <3>2
    <3> QED BY <1>1, <2>2, <3>3 DEF ViewInv, Shown
  <2>3. CASE Resolve
    <3>1. CASE Shows(override, TRUE)
      BY <2>2, <3>1 DEF Shown, IndInv, TypeOK
    <3>2. CASE projection # NoProjection /\ Shows(projection, asOf = audit)
      <4>1. projection \in Story
        BY <3>2 DEF IndInv, TypeOK
      <4>2. asOf = audit => Shown(projection)
        BY <3>2 DEF IndInv, FreshInv
      <4> QED BY <2>2, <3>2, <4>1, <4>2
    <3>3. CASE Shows(Blank, TRUE)
      BY <2>2, <3>3, BlankIsStory DEF Shown, Blank
    <3> QED BY <2>3, <3>1, <3>2, <3>3 DEF Resolve
  <2> QED BY <2>1, <2>3
<1> QED BY <1>1, <1>2, <1>3 DEF IndInv, TypeOK

(* Every step keeps the invariant. *)
LEMMA StepInv == IndInv /\ [Next]_vars => IndInv'
<1> SUFFICES ASSUME IndInv, [Next]_vars PROVE IndInv'
  OBVIOUS
<1>1. CASE UNCHANGED vars
  BY <1>1 DEF vars, IndInv, TypeOK, ReadRowStays, LockInv, FreshInv, Shown, ViewInv
<1>2. CASE Next
  BY <1>2, SelectInv, WriteInv, MirrorInv, CommitInv, RollbackInv, RebuildInv, ScanInv DEF Next
<1> QED BY <1>1, <1>2

(* Once a lot has an override, the row a patch has read is still the committed
   one when it writes: editors of one lot never lose each other's fields. *)
THEOREM EditsAreSerial == Spec => []ReadRowStays
<1>1. IndInv => ReadRowStays
  BY DEF IndInv
<1> QED BY <1>1, InitInv, StepInv, PTL DEF Spec

(* A scan answers every field with a value it had while the scan ran, as long as
   the projection it read was not older than the last edit. *)
THEOREM ScansAreCurrent == Spec => []ScanIsCurrent
<1>1. IndInv => ScanIsCurrent
  <2> SUFFICES ASSUME IndInv, view.step = "apply", view.sure, NEW f \in Fields
               PROVE  Answer[f] \in {ov[f] : ov \in view.during}
    BY DEF ScanIsCurrent
  <2>1. Answer[f] = IF override[f] = Null THEN view.story[f] ELSE override[f]
    BY DEF Answer, ApplyStoryOverride
  <2>2. override \in view.during
    BY DEF IndInv, ViewInv
  <2>3. view.story[f] = Null \/ \E ov \in view.during : view.story[f] = ov[f]
    BY DEF IndInv, ViewInv
  <2> QED BY <2>1, <2>2, <2>3
<1> QED BY <1>1, InitInv, StepInv, PTL DEF Spec
----------------------------------------------------------------------------
(* Every nonempty set of natural numbers has a least element. *)
LEMMA LeastExists ==
  ASSUME NEW S, S \subseteq Nat, S # {}
  PROVE  \E x \in S : \A y \in S : x <= y
<1> DEFINE R == {p \in Nat \X Nat : p[1] < p[2]}
<1>1. IsWellFoundedOn(R, Nat)
  BY NatLessThanWellFounded DEF OpToRel
<1>2. \A x, y \in Nat : y < x => << y, x >> \in R
  OBVIOUS
<1> HIDE DEF R
<1>3. PICK x \in S : \A y \in S : ~(<< y, x >> \in R)
  BY <1>1, WFMin
<1>4. \A y \in S : ~(y < x)
  BY <1>2, <1>3
<1> QED BY <1>4

(* A set that holds 0 and the successors of its members holds every number: the
   induction of the lemmas below is about the set of the numbers that satisfy
   what is being proved. *)
LEMMA SetInduction ==
  ASSUME NEW S, 0 \in S, \A n \in Nat : n \in S => n + 1 \in S
  PROVE  Nat \subseteq S
<1> SUFFICES ASSUME Nat \ S # {} PROVE FALSE
  OBVIOUS
<1> DEFINE T == Nat \ S
<1>1. T \subseteq Nat /\ T # {}
  OBVIOUS
<1>2. PICK x \in T : \A y \in T : x <= y
  <2> HIDE DEF T
  <2> QED BY <1>1, LeastExists
<1>3. x # 0 /\ x - 1 \in Nat
  BY <1>2
<1>4. x - 1 \in S
  BY <1>2, <1>3
<1> QED BY <1>2, <1>3, <1>4

(* Induction up to a bound. *)
LEMMA BoundedInduction ==
  ASSUME NEW S, NEW N \in Nat, 0 \in S, \A n \in 0..(N - 1) : n \in S => n + 1 \in S
  PROVE  0..N \subseteq S
<1> DEFINE T == {n \in Nat : n \in S \/ n > N}
<1>1. 0 \in T
  OBVIOUS
<1>2. \A n \in Nat : n \in T => n + 1 \in T
  OBVIOUS
<1>3. Nat \subseteq T
  <2> HIDE DEF T
  <2> QED BY <1>1, <1>2, SetInduction
<1> QED BY <1>3

----------------------------------------------------------------------------
(* A nonempty set of numbers up to m has its maximum. *)
LEMMA MaxOf ==
  ASSUME NEW m \in Nat, NEW s \in SUBSET (1..m), s # {}
  PROVE  Max(s) \in s /\ \A y \in s : Max(s) >= y
<1> DEFINE T == {m - x : x \in s}
<1>1. T \subseteq Nat /\ T # {}
  <2>1. PICK x \in s : TRUE
    OBVIOUS
  <2>2. m - x \in T
    OBVIOUS
  <2> QED BY <2>2
<1>2. PICK d \in T : \A y \in T : d <= y
  <2> HIDE DEF T
  <2> QED BY <1>1, LeastExists
<1>3. PICK x \in s : d = m - x
  OBVIOUS
<1>4. \A y \in s : x >= y
  BY <1>2, <1>3
<1> QED BY <1>3, <1>4 DEF Max

(* The last element of a prefix, and the prefix before it. *)
LEMMA LastOfPrefix ==
  ASSUME NEW n \in Nat \ {0}
  PROVE  1..n # {} /\ Max(1..n) = n /\ (1..n) \ {n} = 1..(n - 1)
<1>1. n \in 1..n /\ 1..n \in SUBSET (1..n) /\ (1..n) \ {n} = 1..(n - 1)
  OBVIOUS
<1>2. Max(1..n) \in 1..n /\ \A y \in 1..n : Max(1..n) >= y
  BY <1>1, MaxOf
<1> QED BY <1>1, <1>2

(* Sets of the first n numbers that have m + 1, and those that have not. *)
LEMMA MaxOfNext ==
  ASSUME NEW m \in Nat, NEW s \in SUBSET (1..(m + 1)), s # {}
  PROVE  /\ m + 1 \in s => Max(s) = m + 1 /\ s \ {m + 1} \in SUBSET (1..m)
         /\ m + 1 \notin s => s \in SUBSET (1..m) /\ Max(s) \in 1..m
<1>1. m + 1 \in Nat /\ m + 1 \in 1..(m + 1)
  OBVIOUS
<1>2. Max(s) \in s /\ \A y \in s : Max(s) >= y
  BY <1>1, MaxOf
<1>3. ASSUME m + 1 \in s PROVE Max(s) = m + 1 /\ s \ {m + 1} \in SUBSET (1..m)
  <2>1. Max(s) >= m + 1 /\ Max(s) \in 1..(m + 1)
    BY <1>2, <1>3
  <2> QED BY <2>1
<1>4. ASSUME m + 1 \notin s PROVE s \in SUBSET (1..m)
  BY <1>4
<1> QED BY <1>2, <1>3, <1>4

(* g is what op makes of base and the numbers of each set, smaller ones first. *)
IsFold(g, V, base, N, op) ==
  /\ g \in [SUBSET (1..N) -> V]
  /\ \A s \in SUBSET (1..N) : g[s] = IF s = {} THEN base ELSE op[g[s \ {Max(s)}], Max(s)]

(* The function MapThenFoldSet chooses exists, for any binary function op. *)
LEMMA FoldExists ==
  ASSUME NEW V, NEW b \in V, NEW N \in Nat, NEW op \in [V \X (1..N) -> V]
  PROVE  \E g : IsFold(g, V, b, N, op)
<1> DEFINE Is(g, m) == g \in [SUBSET (1..m) -> V]
             /\ \A s \in SUBSET (1..m) : g[s] = IF s = {} THEN b ELSE op[g[s \ {Max(s)}], Max(s)]
           Done == {m \in 0..N : \E g : Is(g, m)}
<1>1. 0 \in Done
  <2> DEFINE e == [s \in SUBSET (1..0) |-> b]
  <2>1. \A s \in SUBSET (1..0) : s = {}
    OBVIOUS
  <2>2. Is(e, 0)
    BY <2>1
  <2> HIDE DEF Is
  <2> QED BY <2>2
<1>2. ASSUME NEW m \in 0..(N - 1), m \in Done PROVE m + 1 \in Done
  <2>1. PICK g : Is(g, m)
    BY <1>2
  <2> DEFINE h == [s \in SUBSET (1..(m + 1)) |->
                     IF m + 1 \in s THEN op[g[s \ {m + 1}], m + 1] ELSE g[s]]
  <2>2. m + 1 \in 1..N /\ m + 1 \in 0..N /\ m \in Nat
    OBVIOUS
  <2>3. h \in [SUBSET (1..(m + 1)) -> V]
    <3>1. ASSUME NEW s \in SUBSET (1..(m + 1))
          PROVE  (IF m + 1 \in s THEN op[g[s \ {m + 1}], m + 1] ELSE g[s]) \in V
      <4>1. CASE m + 1 \in s
        <5>1. s \ {m + 1} \in SUBSET (1..m)
          BY <2>2
        <5>2. g[s \ {m + 1}] \in V
          BY <5>1, <2>1
        <5> QED BY <5>2, <4>1, <2>2
      <4>2. CASE m + 1 \notin s
        <5>1. s \in SUBSET (1..m)
          BY <4>2, <2>2
        <5> QED BY <5>1, <4>2, <2>1
      <4> QED BY <4>1, <4>2
    <3> QED BY <3>1
  <2>4. ASSUME NEW s \in SUBSET (1..(m + 1))
        PROVE  h[s] = IF s = {} THEN b ELSE op[h[s \ {Max(s)}], Max(s)]
    <3>1. CASE s = {}
      <4>1. s \in SUBSET (1..m) /\ m + 1 \notin s
        BY <3>1
      <4>2. h[s] = g[s]
        BY <4>1
      <4> QED BY <4>1, <4>2, <2>1, <3>1
    <3>2. CASE s # {} /\ m + 1 \in s
      <4>1. Max(s) = m + 1 /\ s \ {m + 1} \in SUBSET (1..m)
        BY <3>2, <2>2, MaxOfNext
      <4>2. s \ {m + 1} \in SUBSET (1..(m + 1)) /\ m + 1 \notin s \ {m + 1}
        BY <2>2
      <4>3. h[s \ {m + 1}] = g[s \ {m + 1}]
        BY <4>2
      <4>4. h[s] = op[g[s \ {m + 1}], m + 1]
        BY <3>2
      <4> HIDE DEF h
      <4> QED BY <4>1, <4>3, <4>4, <3>2
    <3>3. CASE s # {} /\ m + 1 \notin s
      <4>1. s \in SUBSET (1..m) /\ Max(s) \in 1..m
        BY <3>3, <2>2, MaxOfNext
      <4>2. s \ {Max(s)} \in SUBSET (1..(m + 1)) /\ m + 1 \notin s \ {Max(s)}
        BY <3>3
      <4>3. h[s \ {Max(s)}] = g[s \ {Max(s)}] /\ h[s] = g[s]
        BY <4>2, <3>3
      <4>4. g[s] = op[g[s \ {Max(s)}], Max(s)]
        BY <4>1, <3>3, <2>1
      <4> HIDE DEF h
      <4> QED BY <4>3, <4>4, <3>3
    <3> QED BY <3>1, <3>2, <3>3
  <2>5. Is(h, m + 1)
    <3> HIDE DEF h
    <3> QED BY <2>3, <2>4
  <2> HIDE DEF Is
  <2> QED BY <2>5, <2>2
<1>3. 0..N \subseteq Done
  <2> HIDE DEF Done
  <2> QED BY <1>1, <1>2, BoundedInduction
<1>4. N \in Done
  <2> HIDE DEF Done
  <2>1. N \in 0..N
    OBVIOUS
  <2> QED BY <1>3, <2>1
<1> QED BY <1>4 DEF IsFold

(* The loop that appends the new ones of a query's rows. *)
LEMMA MergedLoop ==
  ASSUME NEW T, NEW events \in Seq(T), NEW more \in Seq(T)
  PROVE  \E at : /\ at[0] = events
                /\ at[Len(more)] = Merged(events, more)
                /\ \A n \in 1..Len(more) : at[n] = AppendNew(at[n - 1], more[n])
<1> DEFINE N == Len(more)
           V == Seq(T)
           op == [p \in V \X (1..N) |-> AppendNew(p[1], more[p[2]])]
           Is(g) == g = [s \in SUBSET (1..N) |->
                           IF s = {} THEN events ELSE AppendNew(g[s \ {Max(s)}], more[Max(s)])]
           F == CHOOSE g : Is(g)
<1>1. N \in Nat /\ DOMAIN more = 1..N
  OBVIOUS
<1>2. events \in V
  OBVIOUS
<1>3. op \in [V \X (1..N) -> V]
  <2>1. ASSUME NEW p \in V \X (1..N) PROVE AppendNew(p[1], more[p[2]]) \in V
    <3>1. p[1] \in Seq(T) /\ more[p[2]] \in T
      OBVIOUS
    <3>2. Append(p[1], more[p[2]]) \in Seq(T)
      BY <3>1
    <3> QED BY <3>1, <3>2 DEF AppendNew
  <2> HIDE DEF V, N
  <2> QED BY <2>1
<1>4. \E g : Is(g)
  <2>1. PICK g : IsFold(g, V, events, N, op)
    <3>1. N \in Nat /\ events \in V /\ op \in [V \X (1..N) -> V]
      BY <1>1, <1>2, <1>3
    <3> HIDE DEF N, V, op
    <3> QED BY <3>1, FoldExists
  <2>2. ASSUME NEW s \in SUBSET (1..N)
        PROVE  g[s] = IF s = {} THEN events ELSE AppendNew(g[s \ {Max(s)}], more[Max(s)])
    <3>1. CASE s = {}
      BY <2>1, <3>1 DEF IsFold
    <3>2. CASE s # {}
      <4>1. Max(s) \in 1..N
        <5> HIDE DEF N
        <5> QED BY <3>2, <1>1, MaxOf
      <4>2. g[s \ {Max(s)}] \in V
        <5> HIDE DEF V, N
        <5>1. s \ {Max(s)} \in SUBSET (1..N)
          OBVIOUS
        <5> QED BY <5>1, <2>1 DEF IsFold
      <4>3. << g[s \ {Max(s)}], Max(s) >> \in V \X (1..N)
        <5> HIDE DEF V, N
        <5> QED BY <4>1, <4>2
      <4>4. op[g[s \ {Max(s)}], Max(s)] = AppendNew(g[s \ {Max(s)}], more[Max(s)])
        <5> HIDE DEF V, N
        <5> QED BY <4>3
      <4>5. g[s] = op[g[s \ {Max(s)}], Max(s)]
        <5> HIDE DEF V, N, op
        <5> QED BY <2>1, <3>2 DEF IsFold
      <4> QED BY <4>4, <4>5, <3>2
    <3> QED BY <3>1, <3>2
  <2>3. g = [s \in SUBSET (1..N) |-> g[s]]
    <3> HIDE DEF V, N
    <3> QED BY <2>1 DEF IsFold
  <2>4. Is(g)
    <3> HIDE DEF N, V, op
    <3> QED BY <2>2, <2>3
  <2> HIDE DEF Is
  <2> QED BY <2>4
<1>5. Is(F)
  <2> HIDE DEF Is
  <2> QED BY <1>4
<1>6. Merged(events, more) = F[1..N]
  <2>1. Merged(events, more) = F[DOMAIN more]
    BY <1>1 DEF Merged, FoldLeft, MapThenFoldSet
  <2> HIDE DEF F, N
  <2> QED BY <2>1, <1>1
<1> DEFINE at == [n \in 0..N |-> F[1..n]]
<1>7. F[{}] = events
  <2> HIDE DEF F, N
  <2>1. {} \in SUBSET (1..N)
    OBVIOUS
  <2> QED BY <2>1, <1>5
<1>8. at[0] = events
  <2> HIDE DEF F, N
  <2>1. 1..0 = {} /\ 0 \in 0..N
    BY <1>1
  <2> QED BY <2>1, <1>7
<1>9. at[N] = Merged(events, more)
  <2> HIDE DEF F, N
  <2> QED BY <1>1, <1>6
<1>10. ASSUME NEW n \in 1..N PROVE at[n] = AppendNew(at[n - 1], more[n])
  <2> HIDE DEF F, N
  <2>1. n \in Nat \ {0} /\ n - 1 \in 0..N /\ n \in 0..N /\ 1..n \in SUBSET (1..N)
    BY <1>1
  <2>2. 1..n # {} /\ Max(1..n) = n /\ (1..n) \ {n} = 1..(n - 1)
    BY <2>1, LastOfPrefix
  <2>3. F[1..n] = AppendNew(F[1..(n - 1)], more[n])
    <3>1. \A s \in SUBSET (1..N) : s # {} => F[s] = AppendNew(F[s \ {Max(s)}], more[Max(s)])
      BY <1>5
    <3> HIDE DEF Is
    <3> QED BY <3>1, <2>1, <2>2, Zenon
  <2>4. at[n] = F[1..n] /\ at[n - 1] = F[1..(n - 1)]
    BY <2>1
  <2> HIDE DEF at
  <2> QED BY <2>3, <2>4
<1> HIDE DEF at
<1> QED BY <1>8, <1>9, <1>10

(* The loop of composeJourney. *)
LEMMA StepsLoop ==
  ASSUME NEW T, NEW events \in Seq(T)
  PROVE  \E at : /\ at[0] = << >>
                /\ at[Len(events)] = Steps(events)
                /\ \A n \in 1..Len(events) : at[n] = AddStep(at[n - 1], events[n])
<1> DEFINE N == Len(events)
           V == Seq({Step(events[i]) : i \in 1..N})
           op == [p \in V \X (1..N) |-> AddStep(p[1], events[p[2]])]
           Is(g) == g = [s \in SUBSET (1..N) |->
                           IF s = {} THEN << >> ELSE AddStep(g[s \ {Max(s)}], events[Max(s)])]
           F == CHOOSE g : Is(g)
<1>1. N \in Nat /\ DOMAIN events = 1..N
  OBVIOUS
<1>2. << >> \in V
  OBVIOUS
<1>3. op \in [V \X (1..N) -> V]
  <2>1. ASSUME NEW p \in V \X (1..N) PROVE AddStep(p[1], events[p[2]]) \in V
    <3>1. p[1] \in V /\ Step(events[p[2]]) \in {Step(events[i]) : i \in 1..N}
      OBVIOUS
    <3>2. Append(p[1], Step(events[p[2]])) \in V
      BY <3>1
    <3> QED BY <3>1, <3>2 DEF AddStep
  <2> HIDE DEF V, N
  <2> QED BY <2>1
<1>4. \E g : Is(g)
  <2>1. PICK g : IsFold(g, V, << >>, N, op)
    <3>1. N \in Nat /\ << >> \in V /\ op \in [V \X (1..N) -> V]
      BY <1>1, <1>2, <1>3
    <3> HIDE DEF N, V, op
    <3> QED BY <3>1, FoldExists
  <2>2. ASSUME NEW s \in SUBSET (1..N)
        PROVE  g[s] = IF s = {} THEN << >> ELSE AddStep(g[s \ {Max(s)}], events[Max(s)])
    <3>1. CASE s = {}
      BY <2>1, <3>1 DEF IsFold
    <3>2. CASE s # {}
      <4>1. Max(s) \in 1..N
        <5> HIDE DEF N
        <5> QED BY <3>2, <1>1, MaxOf
      <4>2. g[s \ {Max(s)}] \in V
        <5> HIDE DEF V, N
        <5>1. s \ {Max(s)} \in SUBSET (1..N)
          OBVIOUS
        <5> QED BY <5>1, <2>1 DEF IsFold
      <4>3. << g[s \ {Max(s)}], Max(s) >> \in V \X (1..N)
        <5> HIDE DEF V, N
        <5> QED BY <4>1, <4>2
      <4>4. op[g[s \ {Max(s)}], Max(s)] = AddStep(g[s \ {Max(s)}], events[Max(s)])
        <5> HIDE DEF V, N
        <5> QED BY <4>3
      <4>5. g[s] = op[g[s \ {Max(s)}], Max(s)]
        <5> HIDE DEF V, N, op
        <5> QED BY <2>1, <3>2 DEF IsFold
      <4> QED BY <4>4, <4>5, <3>2
    <3> QED BY <3>1, <3>2
  <2>3. g = [s \in SUBSET (1..N) |-> g[s]]
    <3> HIDE DEF V, N
    <3> QED BY <2>1 DEF IsFold
  <2>4. Is(g)
    <3> HIDE DEF N, V, op
    <3> QED BY <2>2, <2>3
  <2> HIDE DEF Is
  <2> QED BY <2>4
<1>5. Is(F)
  <2> HIDE DEF Is
  <2> QED BY <1>4
<1>6. Steps(events) = F[1..N]
  <2>1. Steps(events) = F[DOMAIN events]
    BY <1>1 DEF Steps, FoldLeft, MapThenFoldSet
  <2> HIDE DEF F, N
  <2> QED BY <2>1, <1>1
<1> DEFINE at == [n \in 0..N |-> F[1..n]]
<1>7. F[{}] = << >>
  <2> HIDE DEF F, N
  <2>1. {} \in SUBSET (1..N)
    OBVIOUS
  <2> QED BY <2>1, <1>5
<1>8. at[0] = << >>
  <2> HIDE DEF F, N
  <2>1. 1..0 = {} /\ 0 \in 0..N
    BY <1>1
  <2> QED BY <2>1, <1>7
<1>9. at[N] = Steps(events)
  <2> HIDE DEF F, N
  <2> QED BY <1>1, <1>6
<1>10. ASSUME NEW n \in 1..N PROVE at[n] = AddStep(at[n - 1], events[n])
  <2> HIDE DEF F, N
  <2>1. n \in Nat \ {0} /\ n - 1 \in 0..N /\ n \in 0..N /\ 1..n \in SUBSET (1..N)
    BY <1>1
  <2>2. 1..n # {} /\ Max(1..n) = n /\ (1..n) \ {n} = 1..(n - 1)
    BY <2>1, LastOfPrefix
  <2>3. F[1..n] = AddStep(F[1..(n - 1)], events[n])
    <3>1. \A s \in SUBSET (1..N) : s # {} => F[s] = AddStep(F[s \ {Max(s)}], events[Max(s)])
      BY <1>5
    <3> HIDE DEF Is
    <3> QED BY <3>1, <2>1, <2>2, Zenon
  <2>4. at[n] = F[1..n] /\ at[n - 1] = F[1..(n - 1)]
    BY <2>1
  <2> HIDE DEF at
  <2> QED BY <2>3, <2>4
<1> HIDE DEF at
<1> QED BY <1>8, <1>9, <1>10

(* The loop of enrichProductFromEvents. *)
LEMMA ProductLoop ==
  ASSUME NEW T, NEW events \in Seq(T)
  PROVE  \E at : /\ at[0] = << >>
                /\ at[Len(events)] = enrichProductFromEvents(events)
                /\ \A n \in 1..Len(events) : at[n] = AddResult(at[n - 1], events[n])
<1> DEFINE N == Len(events)
           Named == UNION {DOMAIN events[i].result : i \in 1..N}
           Results == UNION {{events[i].result[f] : f \in DOMAIN events[i].result} : i \in 1..N}
           V == UNION {[D -> Results] : D \in SUBSET Named}
           op == [p \in V \X (1..N) |-> AddResult(p[1], events[p[2]])]
           Is(g) == g = [s \in SUBSET (1..N) |->
                           IF s = {} THEN << >> ELSE AddResult(g[s \ {Max(s)}], events[Max(s)])]
           F == CHOOSE g : Is(g)
<1>1. N \in Nat /\ DOMAIN events = 1..N
  OBVIOUS
<1>2. << >> \in V
  BY << >> \in [{} -> Results], {} \in SUBSET Named
<1>3. op \in [V \X (1..N) -> V]
  <2>1. ASSUME NEW p \in V \X (1..N) PROVE AddResult(p[1], events[p[2]]) \in V
    <3> DEFINE e == events[p[2]]
    <3>1. PICK D \in SUBSET Named : p[1] \in [D -> Results]
      OBVIOUS
    <3>2. DOMAIN e.result \subseteq Named /\ \A f \in DOMAIN e.result : e.result[f] \in Results
      OBVIOUS
    <3> DEFINE W == DOMAIN e.result \cup D
    <3> HIDE DEF Named, Results, V, N, e
    <3>3. Overwritten(p[1], e.result) \in [W -> Results] /\ W \in SUBSET Named
      BY <3>1, <3>2 DEF Overwritten
    <3> HIDE DEF W
    <3>4. Overwritten(p[1], e.result) \in V /\ p[1] \in V
      BY <3>1, <3>3 DEF V
    <3> QED BY <3>4 DEF AddResult, e
  <2> HIDE DEF V, N
  <2> QED BY <2>1
<1>4. \E g : Is(g)
  <2>1. PICK g : IsFold(g, V, << >>, N, op)
    <3>1. N \in Nat /\ << >> \in V /\ op \in [V \X (1..N) -> V]
      BY <1>1, <1>2, <1>3
    <3> HIDE DEF N, V, op
    <3> QED BY <3>1, FoldExists
  <2>2. ASSUME NEW s \in SUBSET (1..N)
        PROVE  g[s] = IF s = {} THEN << >> ELSE AddResult(g[s \ {Max(s)}], events[Max(s)])
    <3>1. CASE s = {}
      BY <2>1, <3>1 DEF IsFold
    <3>2. CASE s # {}
      <4>1. Max(s) \in 1..N
        <5> HIDE DEF N
        <5> QED BY <3>2, <1>1, MaxOf
      <4>2. g[s \ {Max(s)}] \in V
        <5> HIDE DEF V, N
        <5>1. s \ {Max(s)} \in SUBSET (1..N)
          OBVIOUS
        <5> QED BY <5>1, <2>1 DEF IsFold
      <4>3. << g[s \ {Max(s)}], Max(s) >> \in V \X (1..N)
        <5> HIDE DEF V, N
        <5> QED BY <4>1, <4>2
      <4>4. op[g[s \ {Max(s)}], Max(s)] = AddResult(g[s \ {Max(s)}], events[Max(s)])
        <5> HIDE DEF V, N
        <5> QED BY <4>3
      <4>5. g[s] = op[g[s \ {Max(s)}], Max(s)]
        <5> HIDE DEF V, N, op
        <5> QED BY <2>1, <3>2 DEF IsFold
      <4> QED BY <4>4, <4>5, <3>2
    <3> QED BY <3>1, <3>2
  <2>3. g = [s \in SUBSET (1..N) |-> g[s]]
    <3> HIDE DEF V, N
    <3> QED BY <2>1 DEF IsFold
  <2>4. Is(g)
    <3> HIDE DEF N, V, op
    <3> QED BY <2>2, <2>3
  <2> HIDE DEF Is
  <2> QED BY <2>4
<1>5. Is(F)
  <2> HIDE DEF Is
  <2> QED BY <1>4
<1>6. enrichProductFromEvents(events) = F[1..N]
  <2>1. enrichProductFromEvents(events) = F[DOMAIN events]
    BY <1>1 DEF enrichProductFromEvents, FoldLeft, MapThenFoldSet
  <2> HIDE DEF F, N
  <2> QED BY <2>1, <1>1
<1> DEFINE at == [n \in 0..N |-> F[1..n]]
<1>7. F[{}] = << >>
  <2> HIDE DEF F, N
  <2>1. {} \in SUBSET (1..N)
    OBVIOUS
  <2> QED BY <2>1, <1>5
<1>8. at[0] = << >>
  <2> HIDE DEF F, N
  <2>1. 1..0 = {} /\ 0 \in 0..N
    BY <1>1
  <2> QED BY <2>1, <1>7
<1>9. at[N] = enrichProductFromEvents(events)
  <2> HIDE DEF F, N
  <2> QED BY <1>1, <1>6
<1>10. ASSUME NEW n \in 1..N PROVE at[n] = AddResult(at[n - 1], events[n])
  <2> HIDE DEF F, N
  <2>1. n \in Nat \ {0} /\ n - 1 \in 0..N /\ n \in 0..N /\ 1..n \in SUBSET (1..N)
    BY <1>1
  <2>2. 1..n # {} /\ Max(1..n) = n /\ (1..n) \ {n} = 1..(n - 1)
    BY <2>1, LastOfPrefix
  <2>3. F[1..n] = AddResult(F[1..(n - 1)], events[n])
    <3>1. \A s \in SUBSET (1..N) : s # {} => F[s] = AddResult(F[s \ {Max(s)}], events[Max(s)])
      BY <1>5
    <3> HIDE DEF Is
    <3> QED BY <3>1, <2>1, <2>2, Zenon
  <2>4. at[n] = F[1..n] /\ at[n - 1] = F[1..(n - 1)]
    BY <2>1
  <2> HIDE DEF at
  <2> QED BY <2>3, <2>4
<1> HIDE DEF at
<1> QED BY <1>8, <1>9, <1>10

(* all is the events where they are and, behind them, the new ones among more, in
   their order. *)
Extends(all, events, more) ==
  /\ Len(events) <= Len(all)
  /\ \A i \in 1..Len(events) : all[i] = events[i]
  /\ \A a \in 1..Len(more) : \E i \in 1..Len(all) : all[i] = more[a]
  /\ \A i \in (Len(events) + 1)..Len(all) : \E a \in 1..Len(more) : all[i] = more[a]
  /\ \A i, k \in (Len(events) + 1)..Len(all) : i < k =>
       \E a, b \in 1..Len(more) : a < b /\ all[i] = more[a] /\ all[k] = more[b]

(* What the loop over a query's rows makes of the events: they stay where they
   are, and behind them come the new ones among the rows, in the rows' order. *)
LEMMA MergedHas ==
  ASSUME NEW T, NEW events \in Seq(T), NEW more \in Seq(T), NEW all, all = Merged(events, more)
  PROVE  all \in Seq(T) /\ Extends(all, events, more)
<1> DEFINE N == Len(more)
           M == Len(events)
           Has(s, n) ==
             /\ s \in Seq(T) /\ M <= Len(s)
             /\ \A i \in 1..M : s[i] = events[i]
             /\ \A a \in 1..n : \E i \in 1..Len(s) : s[i] = more[a]
             /\ \A i \in (M + 1)..Len(s) : \E a \in 1..n : s[i] = more[a]
             /\ \A i, k \in (M + 1)..Len(s) : i < k => \E a, b \in 1..n : a < b /\ s[i] = more[a] /\ s[k] = more[b]
<1>1. PICK at : /\ at[0] = events /\ at[N] = Merged(events, more)
                /\ \A n \in 1..N : at[n] = AppendNew(at[n - 1], more[n])
  BY MergedLoop
<1> DEFINE Done == {n \in 0..N : Has(at[n], n)}
<1>2. N \in Nat /\ M \in Nat /\ \A n \in 1..N : more[n] \in T
  OBVIOUS
<1>3. 0 \in Done
  <2>1. Has(events, 0)
    BY <1>2
  <2> HIDE DEF Has
  <2> QED BY <2>1, <1>1, <1>2
<1>4. ASSUME NEW n \in 0..(N - 1), n \in Done PROVE n + 1 \in Done
  <2> DEFINE s == at[n]
             x == more[n + 1]
  <2>1. Has(s, n) /\ n \in Nat
    <3> HIDE DEF Has
    <3> QED BY <1>4
  <2>2. n + 1 \in 1..N /\ n + 1 \in 0..N /\ (n + 1) - 1 = n /\ x \in T
    BY <1>2
  <2>3. at[n + 1] = IF x \in ToSet(s) THEN s ELSE Append(s, x)
    <3> HIDE DEF N, M, Has
    <3> QED BY <1>1, <2>2 DEF AppendNew
  <2> HIDE DEF s, x, N, M
  <2>4. CASE x \in ToSet(s)
    <3>1. PICK j \in 1..Len(s) : s[j] = x
      BY <2>1, <2>4 DEF ToSet
    <3>2. Has(s, n + 1)
      <4>1. \A a \in 1..(n + 1) : \E k \in 1..Len(s) : s[k] = more[a]
        <5> SUFFICES ASSUME NEW a \in 1..(n + 1) PROVE \E k \in 1..Len(s) : s[k] = more[a]
          OBVIOUS
        <5>1. CASE a = n + 1
          BY <5>1, <3>1 DEF x
        <5>2. CASE a \in 1..n
          BY <5>2, <2>1
        <5> QED BY <5>1, <5>2, <2>1
      <4>2. 1..n \subseteq 1..(n + 1)
        BY <2>1
      <4>3. \A i \in (M + 1)..Len(s) : \E a \in 1..(n + 1) : s[i] = more[a]
        BY <4>2, <2>1
      <4>4. ASSUME NEW i \in (M + 1)..Len(s), NEW k \in (M + 1)..Len(s), i < k
            PROVE  \E a, b \in 1..(n + 1) : a < b /\ s[i] = more[a] /\ s[k] = more[b]
        <5>1. PICK a \in 1..n, b \in 1..n : a < b /\ s[i] = more[a] /\ s[k] = more[b]
          BY <4>4, <2>1
        <5>2. a \in 1..(n + 1) /\ b \in 1..(n + 1)
          BY <4>2
        <5> QED BY <5>1, <5>2
      <4> QED BY <4>1, <4>3, <4>4, <2>1
    <3> HIDE DEF Has
    <3> QED BY <3>2, <2>2, <2>3, <2>4
  <2>5. CASE x \notin ToSet(s)
    <3> DEFINE t == Append(s, x)
    <3>1. /\ t \in Seq(T) /\ Len(t) = Len(s) + 1 /\ Len(s) \in Nat
          /\ \A i \in 1..Len(s) : t[i] = s[i]
          /\ t[Len(s) + 1] = x
      BY <2>1, <2>2
    <3> HIDE DEF t
    <3>2. 1..n \subseteq 1..(n + 1) /\ n + 1 \in 1..(n + 1)
      BY <2>1
    <3>3. M <= Len(t) /\ \A i \in 1..M : t[i] = events[i]
      BY <2>1, <3>1, <1>2
    <3>4. ASSUME NEW a \in 1..(n + 1) PROVE \E k \in 1..Len(t) : t[k] = more[a]
      <4>1. CASE a = n + 1
        BY <4>1, <3>1 DEF x
      <4>2. CASE a \in 1..n
        <5>1. PICK k \in 1..Len(s) : s[k] = more[a]
          BY <4>2, <2>1
        <5> QED BY <5>1, <3>1
      <4> QED BY <4>1, <4>2, <2>1
    <3>5. ASSUME NEW i \in (M + 1)..Len(t) PROVE \E a \in 1..(n + 1) : t[i] = more[a]
      <4>1. CASE i = Len(s) + 1
        BY <4>1, <3>1, <3>2 DEF x
      <4>2. CASE i \in (M + 1)..Len(s)
        <5>1. PICK a \in 1..n : s[i] = more[a]
          BY <4>2, <2>1
        <5>2. t[i] = s[i]
          BY <4>2, <3>1, <1>2
        <5> QED BY <5>1, <5>2, <3>2
      <4> QED BY <4>1, <4>2, <3>1, <1>2
    <3>6. ASSUME NEW i \in (M + 1)..Len(t), NEW k \in (M + 1)..Len(t), i < k
          PROVE  \E a, b \in 1..(n + 1) : a < b /\ t[i] = more[a] /\ t[k] = more[b]
      <4>1. i \in (M + 1)..Len(s) /\ t[i] = s[i]
        BY <3>1, <3>6, <1>2
      <4>2. CASE k = Len(s) + 1
        <5>1. PICK a \in 1..n : s[i] = more[a]
          BY <4>1, <2>1
        <5>2. a \in 1..(n + 1) /\ a < n + 1 /\ t[k] = more[n + 1]
          BY <4>2, <3>1, <2>1 DEF x
        <5> QED BY <5>1, <5>2, <4>1, <3>2
      <4>3. CASE k \in (M + 1)..Len(s)
        <5>1. PICK a \in 1..n, b \in 1..n : a < b /\ s[i] = more[a] /\ s[k] = more[b]
          BY <4>1, <4>3, <3>6, <2>1
        <5>2. k \in 1..Len(s)
          BY <4>3, <1>2
        <5>3. t[k] = s[k]
          BY <5>2, <3>1
        <5>4. a \in 1..(n + 1) /\ b \in 1..(n + 1)
          BY <3>2
        <5> QED BY <5>1, <5>3, <5>4, <4>1
      <4>4. k = Len(s) + 1 \/ k \in (M + 1)..Len(s)
        BY <3>1, <1>2
      <4> QED BY <4>2, <4>3, <4>4
    <3>7. Has(t, n + 1)
      BY <3>1, <3>3, <3>4, <3>5, <3>6
    <3> HIDE DEF Has
    <3> QED BY <3>7, <2>2, <2>3, <2>5 DEF t
  <2> QED BY <2>4, <2>5
<1>5. 0..N \subseteq Done
  <2> HIDE DEF Done
  <2> QED BY <1>2, <1>3, <1>4, BoundedInduction
<1>6. Has(Merged(events, more), N)
  <2> HIDE DEF Has, N
  <2>1. N \in 0..N
    BY <1>2
  <2> QED BY <1>1, <1>5, <2>1
<1>7. /\ Merged(events, more) \in Seq(T) /\ M <= Len(Merged(events, more))
      /\ \A i \in 1..M : Merged(events, more)[i] = events[i]
  BY <1>6
<1>8. /\ \A a \in 1..N : \E i \in 1..Len(all) : all[i] = more[a]
      /\ \A i \in (M + 1)..Len(all) : \E a \in 1..N : all[i] = more[a]
  BY <1>6
<1>9. \A i, k \in (M + 1)..Len(all) : i < k => \E a, b \in 1..N : a < b /\ all[i] = more[a] /\ all[k] = more[b]
  BY <1>6
<1> QED BY <1>7, <1>8, <1>9 DEF Extends

(* The steps composeJourney collects: each is an event's, no two have the same
   key, and every event's key is there. *)
LEMMA StepsHas ==
  ASSUME NEW T, NEW events \in Seq(T), NEW steps, steps = Steps(events)
  PROVE  /\ steps \in Seq({Step(events[i]) : i \in 1..Len(events)})
         /\ \A k, l \in 1..Len(steps) : k # l => steps[k].key # steps[l].key
         /\ \A i \in 1..Len(events) : \E k \in 1..Len(steps) : steps[k].key = Key(events[i])
<1> DEFINE N == Len(events)
           S == {Step(events[i]) : i \in 1..N}
           Has(s, n) ==
             /\ s \in Seq(S)
             /\ \A k, l \in 1..Len(s) : k # l => s[k].key # s[l].key
             /\ \A i \in 1..n : \E k \in 1..Len(s) : s[k].key = Key(events[i])
<1>1. PICK at : /\ at[0] = << >> /\ at[N] = Steps(events)
                /\ \A n \in 1..N : at[n] = AddStep(at[n - 1], events[n])
  BY StepsLoop
<1> DEFINE Done == {n \in 0..N : Has(at[n], n)}
<1>2. N \in Nat /\ \A n \in 1..N : Step(events[n]) \in S
  OBVIOUS
<1>3. 0 \in Done
  <2>1. Has(<< >>, 0)
    OBVIOUS
  <2> HIDE DEF Has
  <2> QED BY <2>1, <1>1, <1>2
<1>4. ASSUME NEW n \in 0..(N - 1), n \in Done PROVE n + 1 \in Done
  <2> DEFINE s == at[n]
             e == events[n + 1]
  <2>1. Has(s, n) /\ n \in Nat
    <3> HIDE DEF Has
    <3> QED BY <1>4
  <2>2. n + 1 \in 1..N /\ n + 1 \in 0..N /\ (n + 1) - 1 = n /\ Step(e) \in S
    BY <1>2
  <2>3. at[n + 1] = IF \E k \in DOMAIN s : s[k].key = Key(e) THEN s ELSE Append(s, Step(e))
    <3> HIDE DEF N, Has, S
    <3> QED BY <1>1, <2>2 DEF AddStep
  <2> HIDE DEF s, N, S
  <2>4. CASE \E k \in DOMAIN s : s[k].key = Key(e)
    <3>1. PICK k \in 1..Len(s) : s[k].key = Key(e)
      BY <2>1, <2>4
    <3>2. ASSUME NEW i \in 1..(n + 1) PROVE \E l \in 1..Len(s) : s[l].key = Key(events[i])
      <4>1. CASE i = n + 1
        BY <4>1, <3>1
      <4>2. CASE i \in 1..n
        BY <4>2, <2>1
      <4> QED BY <4>1, <4>2, <2>1
    <3>3. Has(s, n + 1)
      BY <3>2, <2>1
    <3> HIDE DEF Has
    <3> QED BY <3>3, <2>2, <2>3, <2>4
  <2>5. CASE ~ \E k \in DOMAIN s : s[k].key = Key(e)
    <3> DEFINE t == Append(s, Step(e))
    <3>1. /\ t \in Seq(S) /\ Len(t) = Len(s) + 1 /\ Len(s) \in Nat
          /\ \A i \in 1..Len(s) : t[i] = s[i]
          /\ t[Len(s) + 1] = Step(e)
      <4> HIDE DEF e
      <4> QED BY <2>1, <2>2
    <3>2. t[Len(s) + 1].key = Key(e)
      BY <3>1 DEF Step
    <3>3. \A k \in 1..Len(s) : s[k].key # Key(e)
      BY <2>1, <2>5
    <3> HIDE DEF t
    <3>4. ASSUME NEW k \in 1..Len(t), NEW l \in 1..Len(t), k # l PROVE t[k].key # t[l].key
      <4>1. CASE k = Len(s) + 1
        BY <4>1, <3>1, <3>2, <3>3, <3>4
      <4>2. CASE l = Len(s) + 1
        BY <4>2, <3>1, <3>2, <3>3, <3>4
      <4>3. CASE k \in 1..Len(s) /\ l \in 1..Len(s)
        BY <4>3, <3>1, <3>4, <2>1
      <4> QED BY <4>1, <4>2, <4>3, <3>1
    <3>5. ASSUME NEW i \in 1..(n + 1) PROVE \E l \in 1..Len(t) : t[l].key = Key(events[i])
      <4>1. CASE i = n + 1
        <5>1. Len(s) + 1 \in 1..Len(t)
          BY <3>1
        <5> QED BY <4>1, <5>1, <3>2
      <4>2. CASE i \in 1..n
        <5>1. PICK l \in 1..Len(s) : s[l].key = Key(events[i])
          BY <4>2, <2>1
        <5>2. l \in 1..Len(t) /\ t[l] = s[l]
          BY <3>1
        <5> QED BY <5>1, <5>2
      <4> QED BY <4>1, <4>2, <2>1
    <3>6. Has(t, n + 1)
      BY <3>1, <3>4, <3>5
    <3> HIDE DEF Has
    <3> QED BY <3>6, <2>2, <2>3, <2>5 DEF t
  <2> QED BY <2>4, <2>5
<1>5. 0..N \subseteq Done
  <2> HIDE DEF Done
  <2> QED BY <1>2, <1>3, <1>4, BoundedInduction
<1>6. Has(Steps(events), N)
  <2> HIDE DEF Has, N
  <2>1. N \in 0..N
    BY <1>2
  <2> QED BY <1>1, <1>5, <2>1
<1> QED BY <1>6

(* A product field has the value of the last lab result that carries it, and
   every field of a lab result is there. *)
LEMMA ProductHas ==
  ASSUME NEW T, NEW events \in Seq(T), NEW product, product = enrichProductFromEvents(events)
  PROVE  /\ \A f \in DOMAIN product : \E i \in 1..Len(events) :
              /\ Carries(events[i], f) /\ product[f] = events[i].result[f]
              /\ \A k \in (i + 1)..Len(events) : ~Carries(events[k], f)
         /\ \A i \in 1..Len(events) : \A f : Carries(events[i], f) => f \in DOMAIN product
<1> DEFINE N == Len(events)
           Has(p, n) ==
             /\ \A f \in DOMAIN p : \E i \in 1..n :
                  /\ Carries(events[i], f) /\ p[f] = events[i].result[f]
                  /\ \A k \in (i + 1)..n : ~Carries(events[k], f)
             /\ \A i \in 1..n : \A f : Carries(events[i], f) => f \in DOMAIN p
<1>1. PICK at : /\ at[0] = << >> /\ at[N] = enrichProductFromEvents(events)
                /\ \A n \in 1..N : at[n] = AddResult(at[n - 1], events[n])
  BY ProductLoop
<1> DEFINE Done == {n \in 0..N : Has(at[n], n)}
<1>2. N \in Nat
  OBVIOUS
<1>3. 0 \in Done
  <2>1. Has(<< >>, 0)
    OBVIOUS
  <2> HIDE DEF Has
  <2> QED BY <2>1, <1>1, <1>2
<1>4. ASSUME NEW n \in 0..(N - 1), n \in Done PROVE n + 1 \in Done
  <2> DEFINE p == at[n]
             e == events[n + 1]
             q == at[n + 1]
  <2>1. Has(p, n) /\ n \in Nat
    <3> HIDE DEF Has
    <3> QED BY <1>4
  <2>2. n + 1 \in 1..N /\ n + 1 \in 0..N /\ (n + 1) - 1 = n
    BY <1>2
  <2>3. q = IF e.type = "LAB_RESULT_RECORDED" THEN Overwritten(p, e.result) ELSE p
    <3> HIDE DEF N, Has
    <3> QED BY <1>1, <2>2 DEF AddResult
  <2> HIDE DEF p, q, N
  <2>4. /\ \A f : f \in DOMAIN q <=> f \in DOMAIN p \/ Carries(e, f)
        /\ \A f : Carries(e, f) => q[f] = e.result[f]
        /\ \A f \in DOMAIN p : ~Carries(e, f) => q[f] = p[f]
    <3> HIDE DEF e
    <3> QED BY <2>3 DEF Overwritten, Carries
  <2>5. ASSUME NEW f \in DOMAIN q
        PROVE  \E i \in 1..(n + 1) :
                 /\ Carries(events[i], f) /\ q[f] = events[i].result[f]
                 /\ \A k \in (i + 1)..(n + 1) : ~Carries(events[k], f)
    <3>1. CASE Carries(e, f)
      <4>1. n + 1 \in 1..(n + 1) /\ \A k \in ((n + 1) + 1)..(n + 1) : ~Carries(events[k], f)
        BY <2>1
      <4> QED BY <4>1, <3>1, <2>4
    <3>2. CASE ~Carries(e, f)
      <4>1. PICK i \in 1..n : /\ Carries(events[i], f) /\ p[f] = events[i].result[f]
                              /\ \A k \in (i + 1)..n : ~Carries(events[k], f)
        BY <3>2, <2>1, <2>4
      <4>2. ASSUME NEW k \in (i + 1)..(n + 1) PROVE ~Carries(events[k], f)
        <5>1. k = n + 1 \/ k \in (i + 1)..n
          BY <2>1
        <5> QED BY <5>1, <4>1, <3>2
      <4>3. i \in 1..(n + 1) /\ q[f] = p[f]
        BY <3>2, <2>1, <2>4
      <4> QED BY <4>1, <4>2, <4>3
    <3> QED BY <3>1, <3>2
  <2>6. ASSUME NEW i \in 1..(n + 1), NEW f, Carries(events[i], f) PROVE f \in DOMAIN q
    <3>1. i = n + 1 \/ i \in 1..n
      BY <2>1
    <3> QED BY <3>1, <2>1, <2>4, <2>6
  <2>7. Has(q, n + 1)
    BY <2>5, <2>6
  <2> HIDE DEF Has
  <2> QED BY <2>7, <2>2 DEF q
<1>5. 0..N \subseteq Done
  <2> HIDE DEF Done
  <2> QED BY <1>2, <1>3, <1>4, BoundedInduction
<1>6. Has(enrichProductFromEvents(events), N)
  <2> HIDE DEF Has, N
  <2>1. N \in 0..N
    BY <1>2
  <2> QED BY <1>1, <1>5, <2>1
<1> QED BY <1>6

(* The sequences of a finite set's members list each of them once. *)
LEMMA SeqOfSet ==
  ASSUME NEW S, IsFiniteSet(S), NEW s \in SetToSeqs(S)
  PROVE  /\ s \in Seq(S) /\ Len(s) = Cardinality(S) /\ ToSet(s) = S
         /\ \A i, k \in 1..Len(s) : i # k => s[i] # s[k]
<1> DEFINE D == 1..Cardinality(S)
<1>1. Cardinality(S) \in Nat
  BY FS_CardinalityType
<1>2. s \in [D -> S] /\ \A i, k \in D : i # k => s[i] # s[k]
  BY DEF SetToSeqs
<1>3. s \in Seq(S) /\ Len(s) = Cardinality(S) /\ DOMAIN s = D
  BY <1>1, <1>2
<1>4. s \in Injection(D, S)
  BY <1>2 DEF Injection, IsInjective
<1>5. IsFiniteSet(D) /\ Cardinality(D) = Cardinality(S)
  BY <1>1, FS_Interval
<1>6. s \in Surjection(D, S)
  <2> HIDE DEF D
  <2> QED BY <1>4, <1>5, FS_Injection
<1>7. ToSet(s) = S
  BY <1>2, <1>6 DEF ToSet, Surjection
<1> QED BY <1>2, <1>3, <1>7

(* What composeJourney makes of the events is in time order, has one step for a
   key, and its steps are those of the events. *)
LEMMA JourneyHas ==
  ASSUME NEW T, NEW events \in Seq(T), NEW j \in composeJourney(events)
  PROVE  /\ j \in Seq({Step(events[i]) : i \in 1..Len(events)})
         /\ \A k, l \in 1..Len(j) : k < l => j[k].key[2] <= j[l].key[2] /\ j[k].key # j[l].key
         /\ \A i \in 1..Len(events) : \E k \in 1..Len(j) : j[k].key = Key(events[i])
<1> DEFINE S == {Step(events[i]) : i \in 1..Len(events)}
           steps == Steps(events)
<1>1. /\ steps \in Seq(S)
      /\ \A k, l \in 1..Len(steps) : k # l => steps[k].key # steps[l].key
      /\ \A i \in 1..Len(events) : \E k \in 1..Len(steps) : steps[k].key = Key(events[i])
  BY StepsHas
<1> HIDE DEF steps
<1> DEFINE D == 1..Len(steps)
<1>2. IsFiniteSet(ToSet(steps)) /\ ToSet(steps) \subseteq S
  <2> HIDE DEF S
  <2>1. steps \in Surjection(D, ToSet(steps))
    BY <1>1 DEF Surjection, ToSet
  <2>2. IsFiniteSet(D)
    BY <1>1, FS_Interval
  <2> QED BY <1>1, <2>1, <2>2, FS_Surjection DEF ToSet
<1>3. j \in SetToSeqs(ToSet(steps)) /\ \A k, l \in 1..Len(j) : k < l => j[k].key[2] <= j[l].key[2]
  BY DEF composeJourney, IsSorted, steps
<1>4. /\ j \in Seq(ToSet(steps)) /\ ToSet(j) = ToSet(steps)
      /\ \A k, l \in 1..Len(j) : k # l => j[k] # j[l]
  BY <1>2, <1>3, SeqOfSet
<1> HIDE DEF S
<1>5. j \in Seq(S)
  BY <1>2, <1>4
<1>6. ASSUME NEW k \in 1..Len(j), NEW l \in 1..Len(j), k < l PROVE j[k].key # j[l].key
  <2>1. j[k] \in ToSet(steps) /\ j[l] \in ToSet(steps) /\ j[k] # j[l]
    BY <1>4, <1>6
  <2>2. \A x \in ToSet(steps) : \E a \in D : x = steps[a]
    <3>1. D = DOMAIN steps
      BY <1>1
    <3> HIDE DEF D
    <3> QED BY <3>1 DEF ToSet
  <2>3. PICK a \in D, b \in D : j[k] = steps[a] /\ j[l] = steps[b]
    <3> HIDE DEF D
    <3> QED BY <2>1, <2>2
  <2>4. a # b
    BY <2>1, <2>3
  <2> QED BY <2>3, <2>4, <1>1
<1>7. ASSUME NEW i \in 1..Len(events) PROVE \E k \in 1..Len(j) : j[k].key = Key(events[i])
  <2>1. PICK a \in D : steps[a].key = Key(events[i])
    BY <1>1
  <2>2. steps[a] \in ToSet(steps)
    BY <1>1 DEF ToSet
  <2>3. PICK k \in 1..Len(j) : j[k] = steps[a]
    <3>1. steps[a] \in ToSet(j)
      BY <2>2, <1>4
    <3> QED BY <3>1, <1>4 DEF ToSet
  <2> QED BY <2>1, <2>3
<1> QED BY <1>3, <1>5, <1>6, <1>7 DEF S

----------------------------------------------------------------------------
(* The lot and its batches. *)
Entities == {Lot} \cup UNION {ToSet(batches) : batches \in BatchLists}

(* What a scan can be. *)
Scans ==
  [step : {"idle", "list"}, left : Seq(Entities), events : Seq(TraceEvents), begun : SUBSET TraceEvents,
   whole : BOOLEAN, order : Seq(Entities)]

(* What the database can hold. *)
LedgerInv == IsFiniteSet(ledger) /\ ledger \subseteq TraceEvents

(* The first p entities of the list have been asked for their events. *)
Asked(s, p) ==
  /\ Len(s.left) = Len(s.order) - p
  /\ \A i \in 1..Len(s.left) : s.left[i] = s.order[p + i]
  /\ \A i \in 1..Len(s.events) : \E q \in 1..p : s.events[i].entity = s.order[q]

(* What a scan has read is recorded and holds, unless a query failed, all it is
   sure to read of the entities it has asked for; when none is listed twice, no
   event comes before one it replaces. *)
ReadInv ==
  /\ scan \in Scans
  /\ scan.step = "idle" => scan = NoScan
  /\ scan.begun \subseteq ledger /\ ToSet(scan.events) \subseteq ledger
  /\ \E p \in 0..Len(scan.order) : Asked(scan, p)
  /\ scan.whole => \A e \in Sure(scan) : e \in ToSet(scan.events) \/ e.entity \in ToSet(scan.left)
  /\ IsInjective(scan.order) => \A i, k \in 1..Len(scan.events) :
       i < k => ~Replaces(scan.order, scan.events[i], scan.events[k])

(* The inductive invariant; its last two conjuncts are what the run checks. *)
StoryInv == LedgerInv /\ ReadInv /\ JourneyIsLedger /\ ProductIsLatest

(* The place in a list without repetition. *)
LEMMA PositionOf ==
  ASSUME NEW order \in Seq(Entities), IsInjective(order), NEW q \in 1..Len(order)
  PROVE  Position(order, order[q]) = q
<1>1. {i \in 1..Len(order) : order[i] = order[q]} = {q}
  BY DEF IsInjective
<1>2. Min({q}) = q
  BY DEF Min
<1> QED BY <1>1, <1>2 DEF Position, SelectInSeq

(* The first elements of a sequence. *)
LEMMA FirstHas ==
  ASSUME NEW S, NEW s \in Seq(S), NEW n \in Nat
  PROVE  /\ FirstOf(s, n) \in Seq(S)
         /\ Len(FirstOf(s, n)) = IF Len(s) < n THEN Len(s) ELSE n
         /\ \A i \in 1..Len(FirstOf(s, n)) : i \in 1..Len(s) /\ FirstOf(s, n)[i] = s[i]
<1> DEFINE m == IF Len(s) < n THEN Len(s) ELSE n
<1>1. m \in 0..Len(s) /\ Len(s) \in Nat
  OBVIOUS
<1>2. FirstOf(s, n) = SubSeq(s, 1, m)
  BY DEF FirstOf
<1> HIDE DEF m
<1>3. SubSeq(s, 1, m) \in Seq(S) /\ Len(SubSeq(s, 1, m)) = m /\ \A i \in 1..m : SubSeq(s, 1, m)[i] = s[i]
  BY <1>1
<1> QED BY <1>1, <1>2, <1>3 DEF m

(* What an event is. *)
LEMMA EventType == \A e \in TraceEvents : e.at \in Nat
BY StoryAssumption DEF TraceEvents, Event

(* The limits are numbers. *)
LEMMA LimitType == \A entity : Limit(entity) \in Nat
BY StoryAssumption DEF Limit

(* rows are recorded events of that entity, in time order; all of them, if the
   limit of the query is not exceeded and whole. *)
AreRows(rows, entity, whole) ==
  /\ rows \in Seq(OfEntity(entity))
  /\ \A a, b \in 1..Len(rows) : a < b => rows[a].at <= rows[b].at
  /\ whole /\ Cardinality(OfEntity(entity)) <= Limit(entity) =>
       \A e \in OfEntity(entity) : \E a \in 1..Len(rows) : rows[a] = e

(* What a query answers, up to the first n rows: all when there is no error. *)
LEMMA RowsHas ==
  ASSUME LedgerInv, NEW entity, NEW rows \in ListEventsForEntity(entity), NEW n \in 0..Len(rows),
         NEW more, more = FirstOf(rows, n)
  PROVE  AreRows(more, entity, n = Len(rows))
<1> DEFINE S == OfEntity(entity)
           m == Limit(entity)
<1>1. IsFiniteSet(S) /\ Cardinality(S) \in Nat
  BY FS_Subset, FS_CardinalityType DEF OfEntity, LedgerInv
<1>2. PICK s \in SetToSeqs(S) : rows = FirstOf(s, m) /\ IsSorted(s, Earlier)
  BY DEF ListEventsForEntity
<1>3. m \in Nat
  BY LimitType
<1>4. \A i, k \in 1..Len(s) : i < k => s[i].at <= s[k].at
  BY <1>2 DEF IsSorted, Earlier
<1> HIDE DEF S, m
<1>5. s \in Seq(S) /\ Len(s) = Cardinality(S) /\ ToSet(s) = S
  BY <1>1, SeqOfSet
<1>6. /\ rows \in Seq(S) /\ Len(rows) = IF Len(s) < m THEN Len(s) ELSE m
      /\ \A i \in 1..Len(rows) : i \in 1..Len(s) /\ rows[i] = s[i]
  BY <1>2, <1>3, <1>5, FirstHas
<1>7. n \in Nat /\ Len(rows) \in Nat
  BY <1>6
<1>8. /\ more \in Seq(S) /\ Len(more) = IF Len(rows) < n THEN Len(rows) ELSE n
      /\ \A i \in 1..Len(more) : i \in 1..Len(rows) /\ more[i] = rows[i]
  BY <1>6, <1>7, FirstHas
<1>9. \A i \in 1..Len(more) : i \in 1..Len(s) /\ more[i] = s[i]
  BY <1>6, <1>8
<1>10. ASSUME NEW a \in 1..Len(more), NEW b \in 1..Len(more), a < b PROVE more[a].at <= more[b].at
  BY <1>4, <1>9, <1>10
<1>11. ASSUME n = Len(rows), Cardinality(S) <= m, NEW e \in S PROVE \E a \in 1..Len(more) : more[a] = e
  <2>1. Len(more) = Len(s)
    BY <1>1, <1>3, <1>5, <1>6, <1>7, <1>8, <1>11
  <2>2. PICK a \in 1..Len(s) : s[a] = e
    BY <1>5 DEF ToSet
  <2> QED BY <2>1, <2>2, <1>9
<1> QED BY <1>8, <1>10, <1>11 DEF S, m, AreRows

(* What a scan is sure to have read can only shrink. *)
LEMMA SureShrinks ==
  ASSUME IsFiniteSet(ledger'), ledger \subseteq ledger', NEW s, NEW e \in s.begun, e.entity \in ToSet(s.order),
         Cardinality(OfEntity(e.entity)') <= Limit(e.entity)
  PROVE  e \in Sure(s)
<1> DEFINE S == OfEntity(e.entity)
           T == OfEntity(e.entity)'
<1>1. S \subseteq T /\ IsFiniteSet(T)
  BY FS_Subset DEF OfEntity
<1>2. IsFiniteSet(S) /\ Cardinality(S) <= Cardinality(T)
  <2> HIDE DEF S, T
  <2> QED BY <1>1, FS_Subset
<1>3. Cardinality(S) \in Nat /\ Cardinality(T) \in Nat /\ Limit(e.entity) \in Nat
  BY <1>1, <1>2, FS_CardinalityType, LimitType
<1>4. Cardinality(S) <= Limit(e.entity)
  <2> HIDE DEF S, T
  <2>1. Cardinality(T) <= Limit(e.entity)
    BY DEF T
  <2> QED BY <2>1, <1>2, <1>3
<1> QED BY <1>4 DEF Sure

(* It holds before anything is recorded. *)
LEMMA StoryInitInv == StoryInit => StoryInv
<1> SUFFICES ASSUME StoryInit PROVE StoryInv
  OBVIOUS
<1>1. LedgerInv
  BY FS_EmptySet DEF StoryInit, LedgerInv
<1>2. ReadInv
  <2>1. scan = NoScan /\ scan \in Scans
    BY DEF StoryInit, NoScan, Scans
  <2>2. Asked(scan, 0) /\ 0 \in 0..Len(scan.order)
    BY <2>1 DEF NoScan, Asked
  <2>3. \A i, k \in 1..Len(scan.events) : ~(i < k)
    BY <2>1 DEF NoScan
  <2>4. Sure(scan) = {} /\ ToSet(scan.events) = {} /\ scan.begun = {}
    BY <2>1 DEF NoScan, Sure, ToSet
  <2> QED BY <2>1, <2>2, <2>3, <2>4 DEF ReadInv
<1>3. JourneyIsLedger /\ ProductIsLatest
  BY DEF StoryInit, Nothing, JourneyIsLedger, ProductIsLatest
<1> QED BY <1>1, <1>2, <1>3 DEF StoryInv

(* A story that is not made of events promises nothing. *)
LEMMA OtherStories ==
  ASSUME shown.from # "events"
  PROVE  JourneyIsLedger /\ ProductIsLatest
BY DEF JourneyIsLedger, ProductIsLatest

(* An event recorded during a scan, or after it. *)
LEMMA RecordKeeps ==
  ASSUME StoryInv, RecordEvent
  PROVE  StoryInv'
<1>1. PICK new \in TraceEvents \ ledger : ledger' = ledger \cup {new}
  BY DEF RecordEvent
<1>2. UNCHANGED << scan, shown >> /\ ledger \subseteq ledger'
  BY <1>1 DEF RecordEvent
<1>3. LedgerInv'
  BY <1>1, FS_AddElement DEF StoryInv, LedgerInv
<1>4. /\ \A e \in Sure(scan)' : e \in Sure(scan)
      /\ \A e \in Sure(shown.scan)' : e \in Sure(shown.scan)
  <2>1. \A s : \A e \in s.begun :
          e.entity \in ToSet(s.order) /\ Cardinality(OfEntity(e.entity)') <= Limit(e.entity) => e \in Sure(s)
    BY <1>2, <1>3, SureShrinks DEF LedgerInv
  <2>2. ASSUME NEW e \in Sure(scan)' PROVE e \in Sure(scan)
    <3>1. e \in scan.begun /\ e.entity \in ToSet(scan.order) /\ Cardinality(OfEntity(e.entity)') <= Limit(e.entity)
      BY <1>2 DEF Sure, OfEntity
    <3> QED BY <2>1, <3>1
  <2>3. ASSUME NEW e \in Sure(shown.scan)' PROVE e \in Sure(shown.scan)
    <3>1. /\ e \in shown.scan.begun /\ e.entity \in ToSet(shown.scan.order)
          /\ Cardinality(OfEntity(e.entity)') <= Limit(e.entity)
      BY <1>2 DEF Sure, OfEntity
    <3> QED BY <2>1, <3>1
  <2> QED BY <2>2, <2>3
<1>5. ReadInv'
  <2>1. scan.whole => \A e \in Sure(scan)' : e \in ToSet(scan.events) \/ e.entity \in ToSet(scan.left)
    BY <1>4 DEF StoryInv, ReadInv
  <2> QED BY <2>1, <1>2 DEF StoryInv, ReadInv, Asked, Replaces
<1>7. JourneyIsLedger'
  <2> SUFFICES ASSUME shown.from = "events" PROVE JourneyIsLedger'
    BY <1>2 DEF JourneyIsLedger
  <2> QED BY <1>2, <1>4 DEF StoryInv, JourneyIsLedger, OwnSteps, IsSorted
<1>8. ProductIsLatest'
  <2> SUFFICES ASSUME shown.from = "events", shown.scan.whole PROVE ProductIsLatest'
    BY <1>2 DEF ProductIsLatest
  <2> QED BY <1>2, <1>4 DEF StoryInv, ProductIsLatest, Carries, Replaces
<1> QED BY <1>3, <1>5, <1>7, <1>8 DEF StoryInv

(* A scan that begins has read nothing, and nothing is shown yet. *)
LEMMA BeginKeeps ==
  ASSUME StoryInv, BeginCompose
  PROVE  StoryInv'
<1>1. PICK batches \in BatchLists \cup {<< >>} :
        scan' = [NoScan EXCEPT !.step = "list", !.left = << Lot >> \o batches,
                               !.begun = ledger, !.order = << Lot >> \o batches]
  BY DEF BeginCompose
<1> DEFINE order == << Lot >> \o batches
<1>2. order \in Seq(Entities)
  <2>1. << >> \in Seq(Entities) /\ << Lot >> \in Seq(Entities)
    <3>1. Lot \in Entities
      BY DEF Entities
    <3>2. \A S : << >> \in Seq(S) /\ \A x \in S : << x >> \in Seq(S)
      OBVIOUS
    <3> QED BY <3>1, <3>2
  <2>2. batches \in Seq(Entities)
    <3>1. CASE batches \in BatchLists
      <4>1. batches \in Seq(ToSet(batches)) /\ ToSet(batches) \subseteq Entities
        BY <3>1, StoryAssumption DEF Entities
      <4>2. \A S, T : S \subseteq T => Seq(S) \subseteq Seq(T)
        OBVIOUS
      <4> QED BY <4>1, <4>2
    <3> QED BY <3>1, <2>1
  <2> QED BY <2>1, <2>2
<1> HIDE DEF order
<1>3. scan' = [step |-> "list", left |-> order, events |-> << >>, begun |-> ledger, whole |-> TRUE, order |-> order]
  BY <1>1 DEF NoScan, order
<1>4. shown' = Nothing /\ ledger' = ledger
  BY DEF BeginCompose
<1>5. LedgerInv'
  BY <1>4 DEF StoryInv, LedgerInv
<1>6. ReadInv'
  <2>1. scan' \in Scans
    BY <1>2, <1>3 DEF Scans, StoryInv, LedgerInv
  <2>2. Asked(scan', 0) /\ 0 \in 0..Len(scan'.order)
    BY <1>2, <1>3 DEF Asked
  <2>3. \A e \in Sure(scan)' : e.entity \in ToSet(scan'.left)
    BY <1>3 DEF Sure
  <2>4. ToSet(scan'.events) = {} /\ \A i, k \in 1..Len(scan'.events) : ~(i < k)
    BY <1>3 DEF ToSet
  <2>5. scan'.step = "list" /\ scan'.begun \subseteq ledger'
    BY <1>3, <1>4
  <2> QED BY <2>1, <2>2, <2>3, <2>4, <2>5 DEF ReadInv
<1>7. JourneyIsLedger' /\ ProductIsLatest'
  BY <1>4 DEF Nothing, JourneyIsLedger, ProductIsLatest
<1> QED BY <1>5, <1>6, <1>7 DEF StoryInv

(* A preview shows nothing made of events. *)
LEMMA PreviewKeeps ==
  ASSUME StoryInv, ServePreview
  PROVE  StoryInv'
<1>1. shown'.from = "preview" /\ UNCHANGED << ledger, scan >>
  BY DEF ServePreview, Nothing
<1>2. LedgerInv' /\ ReadInv'
  BY <1>1 DEF StoryInv, LedgerInv, ReadInv, Asked, Sure, OfEntity, Replaces
<1>3. JourneyIsLedger' /\ ProductIsLatest'
  BY <1>1 DEF JourneyIsLedger, ProductIsLatest
<1> QED BY <1>2, <1>3 DEF StoryInv

(* What is shown stays right while the ledger is as it was. *)
LEMMA SameShown ==
  ASSUME StoryInv, UNCHANGED << ledger, shown >>
  PROVE  LedgerInv' /\ JourneyIsLedger' /\ ProductIsLatest'
<1>1. LedgerInv'
  BY DEF StoryInv, LedgerInv
<1>2. JourneyIsLedger'
  BY DEF StoryInv, JourneyIsLedger, Sure, OfEntity, OwnSteps, IsSorted
<1>3. Sure(shown.scan)' = Sure(shown.scan)
  BY DEF Sure, OfEntity
<1>4. ProductIsLatest'
  BY <1>3 DEF StoryInv, ProductIsLatest
<1> QED BY <1>1, <1>2, <1>4

(* One query of the scan. *)
LEMMA ListKeeps ==
  ASSUME StoryInv, ListNext
  PROVE  StoryInv'
<1> DEFINE h == Head(scan.left)
           order == scan.order
           old == scan.events
<1>1. PICK rows \in ListEventsForEntity(h) : \E n \in 0..Len(rows), failed \in BOOLEAN :
        /\ ~failed => n = Len(rows)
        /\ scan' = [scan EXCEPT !.left = Tail(@), !.events = Merged(@, FirstOf(rows, n)), !.whole = @ /\ ~failed]
  BY DEF ListNext
<1>2. PICK n \in 0..Len(rows), failed \in BOOLEAN :
        /\ ~failed => n = Len(rows)
        /\ scan' = [scan EXCEPT !.left = Tail(@), !.events = Merged(@, FirstOf(rows, n)), !.whole = @ /\ ~failed]
  BY <1>1
<1>3. scan.left # << >> /\ UNCHANGED << ledger, shown >>
  BY DEF ListNext
<1> DEFINE more == FirstOf(rows, n)
           all == Merged(old, more)
<1>4. /\ scan.step = "list" /\ scan \in Scans /\ scan.left \in Seq(Entities) /\ order \in Seq(Entities)
      /\ old \in Seq(TraceEvents) /\ scan.begun \subseteq ledger /\ ToSet(old) \subseteq ledger
  BY <1>3 DEF StoryInv, ReadInv, Scans, NoScan
<1>5. /\ scan'.step = "list" /\ scan'.left = Tail(scan.left) /\ scan'.events = all /\ scan'.begun = scan.begun
      /\ scan'.whole = (scan.whole /\ ~failed) /\ scan'.order = order
  BY <1>2, <1>4 DEF Scans
<1>6. LedgerInv
  BY DEF StoryInv
<1>7. /\ more \in Seq(OfEntity(h))
      /\ \A a, b \in 1..Len(more) : a < b => more[a].at <= more[b].at
      /\ n = Len(rows) /\ Cardinality(OfEntity(h)) <= Limit(h) =>
           \A e \in OfEntity(h) : \E a \in 1..Len(more) : more[a] = e
  <2>1. more = FirstOf(rows, n)
    OBVIOUS
  <2> HIDE DEF h, more
  <2>2. AreRows(more, h, n = Len(rows))
    BY <1>6, <2>1, RowsHas
  <2> QED BY <2>2 DEF AreRows
<1>8. OfEntity(h) \subseteq TraceEvents /\ OfEntity(h) \subseteq ledger /\ \A e \in OfEntity(h) : e.entity = h
  BY <1>6 DEF LedgerInv, OfEntity
<1> HIDE DEF h, order, old, more
<1>9. more \in Seq(TraceEvents) /\ \A a \in 1..Len(more) : more[a] \in OfEntity(h)
  BY <1>7, <1>8
<1>10. /\ all \in Seq(TraceEvents) /\ Len(old) <= Len(all)
       /\ \A i \in 1..Len(old) : all[i] = old[i]
       /\ \A a \in 1..Len(more) : \E i \in 1..Len(all) : all[i] = more[a]
       /\ \A i \in (Len(old) + 1)..Len(all) : \E a \in 1..Len(more) : all[i] = more[a]
       /\ \A i, k \in (Len(old) + 1)..Len(all) : i < k =>
            \E a, b \in 1..Len(more) : a < b /\ all[i] = more[a] /\ all[k] = more[b]
  <2>1. all = Merged(old, more)
    OBVIOUS
  <2> HIDE DEF all
  <2>2. old \in Seq(TraceEvents) /\ more \in Seq(TraceEvents)
    BY <1>4, <1>9
  <2>3. Extends(all, old, more)
    BY <2>1, <2>2, MergedHas
  <2>4. all \in Seq(TraceEvents)
    BY <2>1, <2>2, MergedHas
  <2> QED BY <2>3, <2>4 DEF Extends
<1> HIDE DEF all
<1>11. /\ Len(old) \in Nat /\ Len(all) \in Nat
       /\ \A i \in 1..Len(all) : i \in 1..Len(old) \/ i \in (Len(old) + 1)..Len(all)
  BY <1>4, <1>10
<1>12. \A i \in (Len(old) + 1)..Len(all) : all[i] \in OfEntity(h)
  BY <1>9, <1>10
<1>13. PICK p \in 0..Len(order) : Asked(scan, p)
  BY DEF StoryInv, ReadInv, order
<1>14. /\ p + 1 \in 0..Len(order) /\ h = order[p + 1] /\ Len(Tail(scan.left)) = Len(order) - (p + 1)
       /\ \A i \in 1..Len(Tail(scan.left)) : Tail(scan.left)[i] = order[(p + 1) + i]
  <2>1. /\ Len(scan.left) = Len(order) - p /\ Len(scan.left) \in Nat \ {0} /\ Len(order) \in Nat
        /\ \A i \in 1..Len(scan.left) : scan.left[i] = order[p + i]
    <3>1. Len(scan.left) = Len(order) - p /\ \A i \in 1..Len(scan.left) : scan.left[i] = order[p + i]
      BY <1>13 DEF Asked, order
    <3>2. Len(scan.left) \in Nat \ {0} /\ Len(order) \in Nat
      BY <1>3, <1>4
    <3> QED BY <3>1, <3>2
  <2>2. h = scan.left[1] /\ Len(Tail(scan.left)) = Len(scan.left) - 1
        /\ \A i \in 1..Len(Tail(scan.left)) : Tail(scan.left)[i] = scan.left[i + 1]
    BY <1>3, <1>4 DEF h
  <2>3. ASSUME NEW i \in 1..Len(Tail(scan.left)) PROVE Tail(scan.left)[i] = order[(p + 1) + i]
    <3>1. i + 1 \in 1..Len(scan.left) /\ p + (i + 1) = (p + 1) + i
      BY <2>1, <2>2
    <3> QED BY <3>1, <2>1, <2>2
  <2>4. 1 \in 1..Len(scan.left) /\ h = order[p + 1]
    BY <2>1, <2>2
  <2>5. p + 1 \in 0..Len(order) /\ Len(Tail(scan.left)) = Len(order) - (p + 1)
    BY <2>1, <2>2
  <2> QED BY <2>3, <2>4, <2>5
<1>15. ASSUME NEW i \in 1..Len(old) PROVE \E q \in 1..p : old[i].entity = order[q]
  BY <1>13 DEF Asked, order, old
<1>16. Asked(scan', p + 1)
  <2>1. ASSUME NEW i \in 1..Len(all) PROVE \E q \in 1..(p + 1) : all[i].entity = order[q]
    <3>1. CASE i \in 1..Len(old)
      <4>1. PICK q \in 1..p : old[i].entity = order[q]
        BY <3>1, <1>15
      <4> QED BY <4>1, <3>1, <1>10
    <3>2. CASE i \in (Len(old) + 1)..Len(all)
      <4>1. all[i].entity = order[p + 1] /\ p + 1 \in 1..(p + 1)
        BY <3>2, <1>8, <1>12, <1>14
      <4> QED BY <4>1
    <3> QED BY <3>1, <3>2, <1>11
  <2> QED BY <2>1, <1>5, <1>14 DEF Asked
<1>17. ToSet(all) \subseteq ledger
  <2> SUFFICES ASSUME NEW i \in 1..Len(all) PROVE all[i] \in ledger
    BY <1>10 DEF ToSet
  <2>1. CASE i \in 1..Len(old)
    <3>1. all[i] = old[i]
      BY <2>1, <1>10
    <3>2. old[i] \in ToSet(old)
      BY <2>1, <1>4 DEF ToSet
    <3> QED BY <3>1, <3>2, <1>4
  <2>2. CASE i \in (Len(old) + 1)..Len(all)
    BY <2>2, <1>8, <1>12
  <2> QED BY <2>1, <2>2, <1>11
<1>18. Tail(scan.left) \in Seq(Entities) /\ Len(scan.left) \in Nat /\ Len(Tail(scan.left)) = Len(scan.left) - 1
       /\ \A i \in 1..Len(Tail(scan.left)) : Tail(scan.left)[i] = scan.left[i + 1]
  <2>1. \A s \in Seq(Entities) : s # << >> =>
          /\ Tail(s) \in Seq(Entities) /\ Len(s) \in Nat /\ Len(Tail(s)) = Len(s) - 1
          /\ \A i \in 1..Len(Tail(s)) : Tail(s)[i] = s[i + 1]
    OBVIOUS
  <2> QED BY <1>3, <1>4, <2>1
<1>19. ASSUME scan.whole, ~failed, NEW e \in Sure(scan)
       PROVE  e \in ToSet(all) \/ e.entity \in ToSet(Tail(scan.left))
  <2>1. e \in ToSet(old) \/ e.entity \in ToSet(scan.left)
    BY <1>19 DEF StoryInv, ReadInv, old
  <2>2. CASE e \in ToSet(old)
    <3>1. PICK i \in 1..Len(old) : e = old[i]
      BY <2>2, <1>4 DEF ToSet
    <3>2. i \in 1..Len(all) /\ all[i] = e
      BY <3>1, <1>10, <1>11
    <3> QED BY <3>2, <1>10 DEF ToSet
  <2>3. CASE e.entity = h
    <3>1. e \in OfEntity(h) /\ Cardinality(OfEntity(h)) <= Limit(h)
      BY <2>3, <1>4 DEF Sure, OfEntity
    <3>2. PICK a \in 1..Len(more) : more[a] = e
      BY <3>1, <1>2, <1>7, <1>19
    <3>3. PICK i \in 1..Len(all) : all[i] = e
      BY <3>2, <1>10
    <3> QED BY <3>3, <1>10 DEF ToSet
  <2>4. CASE e.entity \in ToSet(scan.left) /\ e.entity # h
    <3>1. PICK i \in 1..Len(scan.left) : scan.left[i] = e.entity
      <4>1. DOMAIN scan.left = 1..Len(scan.left)
        BY <1>4
      <4> QED BY <2>4, <4>1 DEF ToSet
    <3>2. i # 1
      BY <3>1, <2>4, <1>3, <1>4 DEF h
    <3>3. i - 1 \in 1..Len(Tail(scan.left)) /\ (i - 1) + 1 = i
      BY <3>1, <3>2, <1>18
    <3>4. Tail(scan.left)[i - 1] = scan.left[i]
      BY <3>3, <1>18
    <3>5. i - 1 \in DOMAIN Tail(scan.left)
      BY <3>3, <1>18
    <3> QED BY <3>1, <3>4, <3>5 DEF ToSet
  <2> QED BY <2>1, <2>2, <2>3, <2>4
<1>20. ASSUME IsInjective(order), NEW i \in 1..Len(all), NEW k \in 1..Len(all), i < k
       PROVE  ~Replaces(order, all[i], all[k])
  <2>1. CASE k \in 1..Len(old)
    <3>1. i \in 1..Len(old)
      BY <2>1, <1>20, <1>11
    <3> QED BY <3>1, <2>1, <1>10, <1>20 DEF StoryInv, ReadInv, order, old
  <2>2. CASE i \in 1..Len(old) /\ k \in (Len(old) + 1)..Len(all)
    <3>1. PICK q \in 1..p : all[i].entity = order[q]
      <4>1. all[i] = old[i]
        BY <2>2, <1>10
      <4>2. \E q \in 1..p : old[i].entity = order[q]
        BY <2>2, <1>15
      <4> QED BY <4>1, <4>2
    <3>2. all[k].entity = order[p + 1]
      BY <2>2, <1>8, <1>12, <1>14
    <3>3. q \in 1..Len(order) /\ p + 1 \in 1..Len(order) /\ q < p + 1 /\ DOMAIN order = 1..Len(order)
      BY <1>4, <1>14
    <3>4. order[q] # order[p + 1]
      BY <3>3, <1>20 DEF IsInjective
    <3>5. Position(order, all[i].entity) = q /\ Position(order, all[k].entity) = p + 1
      BY <3>1, <3>2, <3>3, <1>4, <1>20, PositionOf
    <3> QED BY <3>1, <3>2, <3>3, <3>4, <3>5 DEF Replaces
  <2>3. CASE i \in (Len(old) + 1)..Len(all) /\ k \in (Len(old) + 1)..Len(all)
    <3>1. PICK a \in 1..Len(more), b \in 1..Len(more) : a < b /\ all[i] = more[a] /\ all[k] = more[b]
      BY <2>3, <1>10, <1>20
    <3>2. all[i].at <= all[k].at /\ all[i].at \in Nat /\ all[k].at \in Nat
      BY <3>1, <1>7, <1>8, <1>9, EventType
    <3>3. all[i].entity = order[p + 1] /\ all[k].entity = order[p + 1]
      BY <2>3, <1>8, <1>12, <1>14
    <3>4. p + 1 \in 1..Len(order) /\ p + 1 \in Nat
      BY <1>14
    <3>5. Position(order, order[p + 1]) = p + 1
      BY <3>4, <1>4, <1>20, PositionOf
    <3>6. ~(Position(order, all[i].entity) > Position(order, all[k].entity))
      BY <3>3, <3>4, <3>5
    <3>7. ~(all[i].at > all[k].at)
      <4> DEFINE first == all[i].at
                 second == all[k].at
      <4>1. first <= second /\ first \in Nat /\ second \in Nat
        BY <3>2
      <4> HIDE DEF first, second
      <4>2. ~(first > second)
        BY <4>1
      <4> QED BY <4>2 DEF first, second
    <3> QED BY <3>6, <3>7 DEF Replaces
  <2> QED BY <2>1, <2>2, <2>3, <1>11, <1>20
<1>21. ReadInv'
  <2>1. scan' \in Scans
    <3>1. Tail(scan.left) \in Seq(Entities) /\ all \in Seq(TraceEvents)
      BY <1>10, <1>18
    <3>2. scan' = [step |-> scan.step, left |-> Tail(scan.left), events |-> all, begun |-> scan.begun,
                   whole |-> (scan.whole /\ ~failed), order |-> scan.order]
      BY <1>2, <1>4 DEF Scans, all, more, old
    <3> QED BY <3>1, <3>2, <1>4 DEF Scans
  <2>2. scan'.begun \subseteq ledger' /\ ToSet(scan'.events) \subseteq ledger'
    BY <1>3, <1>4, <1>5, <1>17
  <2>3. \E q \in 0..Len(scan'.order) : Asked(scan', q)
    BY <1>5, <1>14, <1>16
  <2>4. scan'.whole => \A e \in Sure(scan)' : e \in ToSet(scan'.events) \/ e.entity \in ToSet(scan'.left)
    BY <1>3, <1>5, <1>19 DEF Sure, OfEntity, order
  <2>5. IsInjective(scan'.order) => \A i, k \in 1..Len(scan'.events) :
          i < k => ~Replaces(scan'.order, scan'.events[i], scan'.events[k])
    BY <1>5, <1>20
  <2> QED BY <2>1, <2>2, <2>3, <2>4, <2>5, <1>5 DEF ReadInv, Asked, Replaces
<1>22. LedgerInv' /\ JourneyIsLedger' /\ ProductIsLatest'
  BY <1>3, SameShown
<1> QED BY <1>21, <1>22 DEF StoryInv

(* What the story shows of a journey is the journey composed: a placeholder stands
   for none, and no step of an event's looks like it. *)
LEMMA PlaceholderStandsForNone ==
  ASSUME NEW S, NEW j \in Seq({Step(e) : e \in S})
  PROVE  OwnSteps(IF j = << >> /\ PlaceholderJourney THEN defaultJourney ELSE j) = j
<1>1. CASE j = << >>
  BY <1>1 DEF OwnSteps, defaultJourney
<1>2. CASE j # << >>
  <2>1. j[1] \in {Step(e) : e \in S}
    BY <1>2
  <2>2. "key" \in DOMAIN j[1]
    BY <2>1 DEF Step
  <2>3. DOMAIN defaultJourney[1] = {"stage", "source"}
    BY DEF defaultJourney
  <2>4. j # defaultJourney
    BY <2>2, <2>3
  <2> QED BY <2>4, <1>2 DEF OwnSteps
<1> QED BY <1>1, <1>2

(* A scan that ends makes the story of the events it has read. *)
LEMMA ComposeKeeps ==
  ASSUME StoryInv, Compose
  PROVE  StoryInv'
<1> DEFINE events == scan.events
           N == Len(events)
<1>1. PICK j \in composeJourney(events) :
        shown' = [from    |-> "events",
                  journey |-> IF j = << >> /\ PlaceholderJourney THEN defaultJourney ELSE j,
                  product |-> enrichProductFromEvents(events),
                  farmers |-> enrichFarmersFromProjections(events),
                  scan    |-> scan]
  BY DEF Compose
<1>2. scan' = NoScan /\ ledger' = ledger /\ scan.left = << >>
  BY DEF Compose
<1>3. /\ shown'.from = "events" /\ shown'.scan = scan /\ shown'.product = enrichProductFromEvents(events)
      /\ shown'.farmers = enrichFarmersFromProjections(events)
      /\ shown'.journey = IF j = << >> /\ PlaceholderJourney THEN defaultJourney ELSE j
  BY <1>1
<1>4. /\ events \in Seq(TraceEvents) /\ scan.order \in Seq(Entities) /\ scan.begun \subseteq ledger
      /\ ToSet(events) \subseteq ledger
      /\ scan.whole => \A e \in Sure(scan) : e \in ToSet(events) \/ e.entity \in ToSet(scan.left)
      /\ IsInjective(scan.order) => \A i, k \in 1..N : i < k => ~Replaces(scan.order, events[i], events[k])
  BY DEF StoryInv, ReadInv, Scans
<1> HIDE DEF events
<1>5. N \in Nat /\ DOMAIN events = 1..N /\ \A i \in 1..N : events[i] \in ledger /\ events[i] \in TraceEvents
  BY <1>4 DEF ToSet
<1>6. /\ j \in Seq({Step(events[i]) : i \in 1..N})
      /\ \A k, l \in 1..Len(j) : k < l => j[k].key[2] <= j[l].key[2] /\ j[k].key # j[l].key
      /\ \A i \in 1..N : \E k \in 1..Len(j) : j[k].key = Key(events[i])
  BY <1>4, JourneyHas
<1> HIDE DEF N
<1>7. OwnSteps(shown'.journey) = j
  <2>1. {Step(events[i]) : i \in 1..N} \subseteq {Step(e) : e \in ledger}
    BY <1>5
  <2>2. j \in Seq({Step(e) : e \in ledger})
    <3>1. \A S, T : S \subseteq T => Seq(S) \subseteq Seq(T)
      OBVIOUS
    <3> QED BY <1>6, <2>1, <3>1
  <2> QED BY <2>2, <1>3, PlaceholderStandsForNone
<1>8. Sure(shown.scan)' = Sure(scan)
  BY <1>2, <1>3 DEF Sure, OfEntity
<1>9. ASSUME scan.whole, NEW e \in Sure(scan) PROVE \E i \in 1..N : events[i] = e
  <2>1. e \in ToSet(events)
    BY <1>2, <1>4, <1>9 DEF ToSet
  <2> QED BY <2>1, <1>5 DEF ToSet
<1>10. LedgerInv'
  BY <1>2 DEF StoryInv, LedgerInv
<1>11. ReadInv'
  <2>1. scan' = NoScan /\ NoScan \in Scans
    BY <1>2 DEF NoScan, Scans
  <2>2. Asked(scan', 0) /\ 0 \in 0..Len(scan'.order)
    BY <2>1 DEF NoScan, Asked
  <2>3. \A i, k \in 1..Len(scan'.events) : ~(i < k)
    BY <2>1 DEF NoScan
  <2>4. Sure(scan)' = {} /\ ToSet(scan'.events) = {} /\ scan'.begun = {}
    BY <2>1 DEF NoScan, Sure, ToSet
  <2> QED BY <2>1, <2>2, <2>3, <2>4 DEF ReadInv
<1>12. JourneyIsLedger'
  <2>1. j \in Seq({Step(events[i]) : i \in 1..N}) /\ DOMAIN j = 1..Len(j)
    BY <1>6
  <2>2. IsSorted(OwnSteps(shown.journey)', LAMBDA a, b : a.key[2] <= b.key[2] /\ a.key # b.key)
    <3>1. OwnSteps(shown.journey)' = j
      BY <1>7 DEF OwnSteps
    <3> QED BY <1>6, <3>1 DEF IsSorted
  <2>3. ASSUME NEW k \in DOMAIN j PROVE \E e \in ledger : j[k] = Step(e)
    <3>1. PICK i \in 1..N : j[k] = Step(events[i])
      BY <2>1
    <3> QED BY <3>1, <1>5
  <2>4. ASSUME scan.whole, NEW e \in Sure(scan)
        PROVE  e.farmer \subseteq shown'.farmers /\ \E k \in DOMAIN j : j[k].key = Key(e)
    <3>1. PICK i \in 1..N : events[i] = e
      BY <2>4, <1>9
    <3>2. e \in ToSet(events)
      BY <3>1, <1>5 DEF ToSet
    <3>3. e.farmer \subseteq shown'.farmers
      BY <3>2, <1>3 DEF enrichFarmersFromProjections
    <3> QED BY <3>1, <3>3, <2>1, <1>6
  <2>5. OwnSteps(shown.journey)' = j
    BY <1>7 DEF OwnSteps
  <2>6. (IsSorted(OwnSteps(shown.journey), LAMBDA a, b : a.key[2] <= b.key[2] /\ a.key # b.key))'
    BY <2>2 DEF IsSorted
  <2>7. shown'.scan.whole => \A e \in Sure(shown.scan)' :
          e.farmer \subseteq shown'.farmers /\ \E n \in DOMAIN j : j[n].key = Key(e)
    BY <2>4, <1>3, <1>8
  <2> HIDE DEF events
  <2> QED BY <2>3, <2>5, <2>6, <2>7, <1>2, <1>3 DEF JourneyIsLedger
<1>13. ProductIsLatest'
  <2> DEFINE product == shown'.product
  <2>1. /\ \A f \in DOMAIN product : \E i \in 1..N :
             /\ Carries(events[i], f) /\ product[f] = events[i].result[f]
             /\ \A k \in (i + 1)..N : ~Carries(events[k], f)
        /\ \A i \in 1..N : \A f : Carries(events[i], f) => f \in DOMAIN product
    BY <1>3, <1>4, ProductHas DEF N
  <2> HIDE DEF product
  <2>2. ASSUME scan.whole, NEW f \in DOMAIN product
        PROVE  \E e \in ledger :
                 /\ Carries(e, f) /\ e.result[f] = product[f]
                 /\ IsInjective(scan.order) => ~\E d \in Sure(scan) : Carries(d, f) /\ Replaces(scan.order, d, e)
    <3>1. PICK i \in 1..N : /\ Carries(events[i], f) /\ product[f] = events[i].result[f]
                            /\ \A k \in (i + 1)..N : ~Carries(events[k], f)
      BY <2>1
    <3>2. ASSUME IsInjective(scan.order), NEW d \in Sure(scan), Carries(d, f), Replaces(scan.order, d, events[i])
          PROVE  FALSE
      <4>1. PICK k \in 1..N : events[k] = d
        BY <2>2, <1>9
      <4>2. k <= i
        BY <3>1, <3>2, <4>1, <1>5
      <4>3. k = i
        BY <4>1, <4>2, <3>2, <1>4, <1>5
      <4>4. PICK p \in 0..Len(scan.order) : Asked(scan, p)
        BY DEF StoryInv, ReadInv
      <4>5. PICK q \in 1..p : d.entity = scan.order[q]
        BY <4>1, <4>4 DEF Asked, events, N
      <4>6. Position(scan.order, d.entity) = q
        BY <4>5, <1>4, <3>2, PositionOf
      <4>7. d.at \in Nat
        BY <4>1, <1>5, EventType
      <4> QED BY <4>1, <4>3, <4>6, <4>7, <3>2 DEF Replaces
    <3> QED BY <3>1, <3>2, <1>5
  <2>3. ASSUME scan.whole, NEW e \in Sure(scan), e.type = "LAB_RESULT_RECORDED"
        PROVE  DOMAIN e.result \subseteq DOMAIN product
    <3>1. PICK i \in 1..N : events[i] = e
      BY <2>3, <1>9
    <3> QED BY <3>1, <2>1, <2>3 DEF Carries
  <2> QED BY <2>2, <2>3, <1>2, <1>3, <1>8 DEF ProductIsLatest, Carries, Replaces, product
<1> QED BY <1>10, <1>11, <1>12, <1>13 DEF StoryInv

(* Every step keeps the invariant. *)
LEMMA StoryNextInv == StoryInv /\ [StoryNext]_storyVars => StoryInv'
<1> SUFFICES ASSUME StoryInv, [StoryNext]_storyVars PROVE StoryInv'
  OBVIOUS
<1>1. CASE RecordEvent
  BY <1>1, RecordKeeps
<1>2. CASE ServePreview
  BY <1>2, PreviewKeeps
<1>3. CASE BeginCompose
  BY <1>3, BeginKeeps
<1>4. CASE ListNext
  BY <1>4, ListKeeps
<1>5. CASE Compose
  BY <1>5, ComposeKeeps
<1>6. CASE UNCHANGED storyVars
  <2>1. UNCHANGED << ledger, scan, shown >>
    BY <1>6 DEF storyVars
  <2>2. ReadInv'
    BY <2>1 DEF StoryInv, ReadInv, Asked, Sure, OfEntity, Replaces
  <2> QED BY <2>1, <2>2, SameShown DEF StoryInv
<1> QED BY <1>1, <1>2, <1>3, <1>4, <1>5, <1>6 DEF StoryNext

(* Whatever is recorded while a lot is scanned, in any order of time, and whichever
   queries fail: the journey shown is the ledger's (composeJourney). *)
THEOREM JourneyShowsLedger == StorySpec => []JourneyIsLedger
<1>1. StoryInv => JourneyIsLedger
  BY DEF StoryInv
<1> QED BY <1>1, StoryInitInv, StoryNextInv, PTL DEF StorySpec

(* No older lab result of a batch hides a newer one (enrichProductFromEvents), for
   any number of events and batches. *)
THEOREM ProductShowsLatest == StorySpec => []ProductIsLatest
<1>1. StoryInv => ProductIsLatest
  BY DEF StoryInv
<1> QED BY <1>1, StoryInitInv, StoryNextInv, PTL DEF StorySpec

----------------------------------------------------------------------------
(* Coordinates are shown in whole hundredths next to the exact ones. *)
LEMMA RoundingIsCoarse ==
  ASSUME NEW v \in Int
  PROVE  round2(v) \in Int /\ Coarse(v, 10 * round2(v))
<1>1. CASE v >= 0
  <2>1. round2(v) = (v + 5) \div 10
    BY <1>1 DEF round2
  <2> DEFINE q == (v + 5) \div 10
  <2>2. q \in Int /\ 10 * q <= v + 5 /\ v + 5 < 10 * q + 10 /\ (10 * q) % 10 = 0
    OBVIOUS
  <2> HIDE DEF q
  <2> QED BY <1>1, <2>1, <2>2 DEF Coarse, q
<1>2. CASE v < 0
  <2>1. round2(v) = -((-v + 5) \div 10)
    BY <1>2 DEF round2
  <2> DEFINE q == (-v + 5) \div 10
  <2>2. q \in Int /\ 10 * q <= -v + 5 /\ -v + 5 < 10 * q + 10 /\ (10 * (-q)) % 10 = 0
    OBVIOUS
  <2> HIDE DEF q
  <2> QED BY <1>2, <2>1, <2>2 DEF Coarse, q
<1> QED BY <1>1, <1>2

(* The numbers of an entry are numbers. *)
Numeric(entry) == \A k \in DOMAIN entry : entry[k].is = "number" => entry[k].v \in Int

(* The public map of a pair of coordinates. *)
LEMMA MapIsCoarse ==
  ASSUME PreciseGeo \in BOOLEAN, NEW data, Numeric(data), HasCoords(data), NEW c \in {"lat", "lng"}
  PROVE  LET value == publicMap(data).v[c].v
         IN value \in Int /\ IF PreciseGeo THEN value = data[c].v ELSE Coarse(data[c].v, value)
<1>1. data[c].v \in Int
  BY DEF Numeric, HasCoords, numField
<1>2. publicMap(data).v[c].v = IF PreciseGeo THEN data[c].v ELSE 10 * round2(data[c].v)
  BY DEF publicMap, Object, publicCoord, Number
<1>3. round2(data[c].v) \in Int /\ Coarse(data[c].v, 10 * round2(data[c].v))
  BY <1>1, RoundingIsCoarse
<1> QED BY <1>1, <1>2, <1>3

(* An entity made public withholds what it should and keeps the rest, however it
   was made. *)
LEMMA EntityIsRedacted ==
  ASSUME PreciseGeo \in BOOLEAN, NEW raw, Numeric(raw), HasLocation(raw) => Numeric(raw["location"].v)
  PROVE  EntityRedacted(raw, redactPublicEntity(raw))
<1> DEFINE near == FromLocation(raw)
           geo  == FromLatLng(near)
           out  == redactPublicEntity(raw)
           loc  == raw["location"].v
<1>1. /\ out = [k \in {k \in DOMAIN geo : ToLower(k) \notin sensitivePublicKeys} |-> geo[k]]
  <2>1. DOMAIN geo \ {k \in DOMAIN geo : ToLower(k) \in sensitivePublicKeys}
          = {k \in DOMAIN geo : ToLower(k) \notin sensitivePublicKeys}
    OBVIOUS
  <2> QED BY <2>1 DEF redactPublicEntity, sanitizePublicGeo, Sweep, Without, Restrict
<1>2. /\ {"map", "district", "name"} \cap sensitivePublicKeys = {}
      /\ \A k \in {"map", "district", "name"} : ToLower(k) = k
      /\ {"lat", "lng", "location"} \subseteq sensitivePublicKeys
      /\ \A k \in {"lat", "lng", "location"} : ToLower(k) = k
  BY DEF sensitivePublicKeys, ToLower
<1>3. \A k \in {"lat", "lng", "name"} :
        (k \in DOMAIN near <=> k \in DOMAIN raw) /\ (k \in DOMAIN raw => near[k] = raw[k])
  BY DEF FromLocation, With, Without, Restrict
<1>4. HasLocation(raw) /\ HasCoords(loc) => "map" \in DOMAIN near /\ near["map"] = publicMap(loc)
  BY DEF FromLocation, With, Without, Restrict
<1>5. ~(HasLocation(raw) /\ HasCoords(loc)) =>
        ("map" \in DOMAIN near <=> "map" \in DOMAIN raw) /\ ("map" \in DOMAIN raw => near["map"] = raw["map"])
  BY DEF FromLocation, With, Without, Restrict
<1>6. HasLocation(raw) /\ strMapField(loc, "district") =>
        "district" \in DOMAIN near /\ near["district"] = loc["district"]
  BY DEF FromLocation, With, Without, Restrict
<1>7. (HasCoords(near) <=> HasCoords(raw)) /\ (HasCoords(raw) => publicMap(near) = publicMap(raw))
  BY <1>3 DEF HasCoords, numField, publicMap
<1> HIDE DEF near
<1>8. HasCoords(near) => "map" \in DOMAIN geo /\ geo["map"] = publicMap(near)
  BY DEF FromLatLng, HasCoords, With, Without, Restrict
<1>9. ~HasCoords(near) =>
        ("map" \in DOMAIN geo <=> "map" \in DOMAIN near) /\ ("map" \in DOMAIN near => geo["map"] = near["map"])
  BY DEF FromLatLng, HasCoords, With, Without, Restrict
<1>10. \A k \in {"district", "name"} :
         (k \in DOMAIN geo <=> k \in DOMAIN near) /\ (k \in DOMAIN near => geo[k] = near[k])
  BY DEF FromLatLng, With, Without, Restrict
<1> HIDE DEF geo
<1>11. \A k \in {"map", "district", "name"} :
         (k \in DOMAIN out <=> k \in DOMAIN geo) /\ (k \in DOMAIN geo => out[k] = geo[k])
  BY <1>1, <1>2
<1>12. \A k \in DOMAIN out : ToLower(k) \notin sensitivePublicKeys
  BY <1>1
<1> HIDE DEF out
<1>13. Source(raw) = IF HasCoords(raw) THEN raw ELSE IF HasLocation(raw) /\ HasCoords(loc) THEN loc ELSE << >>
  BY DEF Source
<1>14. IF Source(raw) # << >>
         THEN /\ "map" \in DOMAIN out
              /\ \A c \in {"lat", "lng"} :
                   LET value == out["map"].v[c].v
                   IN IF PreciseGeo THEN value = Source(raw)[c].v ELSE Coarse(Source(raw)[c].v, value)
         ELSE ("map" \in DOMAIN out <=> "map" \in DOMAIN raw) /\ ("map" \in DOMAIN raw => out["map"] = raw["map"])
  <2>1. CASE HasCoords(raw)
    <3>1. Source(raw) = raw /\ "lat" \in DOMAIN raw
      BY <2>1, <1>13 DEF HasCoords, numField
    <3>2. Source(raw) # << >>
      BY <3>1
    <3>3. "map" \in DOMAIN out /\ out["map"] = publicMap(raw)
      BY <2>1, <1>7, <1>8, <1>11
    <3> QED BY <2>1, <3>1, <3>2, <3>3, MapIsCoarse
  <2>2. CASE ~HasCoords(raw) /\ HasLocation(raw) /\ HasCoords(loc)
    <3>1. Source(raw) = loc /\ "lat" \in DOMAIN loc
      BY <2>2, <1>13 DEF HasCoords, numField
    <3>2. Source(raw) # << >>
      BY <3>1
    <3>3. "map" \in DOMAIN out /\ out["map"] = publicMap(loc)
      BY <2>2, <1>4, <1>7, <1>9, <1>11
    <3> QED BY <2>2, <3>1, <3>2, <3>3, MapIsCoarse
  <2>3. CASE ~HasCoords(raw) /\ ~(HasLocation(raw) /\ HasCoords(loc))
    <3>1. Source(raw) = << >>
      BY <2>3, <1>13
    <3> QED BY <2>3, <3>1, <1>5, <1>7, <1>9, <1>11
  <2> QED BY <2>1, <2>2, <2>3
<1>15. HasLocation(raw) /\ strMapField(loc, "district") =>
         "district" \in DOMAIN out /\ out["district"] = loc["district"]
  BY <1>6, <1>10, <1>11
<1>16. "name" \in DOMAIN raw => "name" \in DOMAIN out /\ out["name"] = raw["name"]
  BY <1>3, <1>10, <1>11
<1>17. redactPublicEntity(out) = out
  <2>1. "location" \notin DOMAIN out /\ "lat" \notin DOMAIN out
    BY <1>2, <1>12
  <2>2. sanitizePublicGeo(out) = out
    BY <2>1 DEF sanitizePublicGeo, FromLocation, HasLocation, FromLatLng, numField
  <2>3. {k \in DOMAIN out : ToLower(k) \in sensitivePublicKeys} = {}
    BY <1>12
  <2>4. out = [k \in DOMAIN out |-> out[k]]
    BY <1>1 DEF out
  <2> QED BY <2>2, <2>3, <2>4 DEF redactPublicEntity, Sweep, Without, Restrict
<1>18. EntityRedacted(raw, out)
  BY <1>12, <1>14, <1>15, <1>16, <1>17 DEF EntityRedacted
<1> QED BY <1>18 DEF out

(* The levels of what is nested in a value. *)
LEMMA LevelsRecurse ==
  ASSUME MaxDepth \in Nat, NEW j
  PROVE  Levels(j) = [n \in 0..MaxDepth |-> IF n = 0 THEN {j} ELSE UNION {Children(x) : x \in Levels(j)[n - 1]}]
<1> DEFINE Is(g, N) == g = [n \in 0..N |-> IF n = 0 THEN {j} ELSE UNION {Children(x) : x \in g[n - 1]}]
           Done == {N \in Nat : \E g : Is(g, N)}
<1>1. 0 \in Done
  <2> DEFINE g == [n \in 0..0 |-> {j}]
  <2>1. Is(g, 0)
    OBVIOUS
  <2> HIDE DEF Is
  <2> QED BY <2>1
<1>2. ASSUME NEW N \in Nat, N \in Done PROVE N + 1 \in Done
  <2>1. PICK g : Is(g, N)
    BY <1>2
  <2> DEFINE h == [n \in 0..(N + 1) |-> IF n = N + 1 THEN UNION {Children(x) : x \in g[N]} ELSE g[n]]
  <2>2. ASSUME NEW n \in 0..(N + 1)
        PROVE  h[n] = IF n = 0 THEN {j} ELSE UNION {Children(x) : x \in h[n - 1]}
    <3>1. CASE n = N + 1
      <4>1. n # 0 /\ n - 1 = N /\ N \in 0..(N + 1) /\ N # N + 1
        BY <3>1
      <4>2. h[n - 1] = g[N] /\ h[n] = UNION {Children(x) : x \in g[N]}
        BY <3>1, <4>1
      <4> HIDE DEF h
      <4> QED BY <4>1, <4>2
    <3>2. CASE n \in 0..N
      <4>1. h[n] = g[n] /\ (n # 0 => h[n - 1] = g[n - 1])
        BY <3>2
      <4>2. g[n] = IF n = 0 THEN {j} ELSE UNION {Children(x) : x \in g[n - 1]}
        BY <2>1, <3>2
      <4> HIDE DEF h
      <4> QED BY <4>1, <4>2
    <3> QED BY <3>1, <3>2
  <2>3. Is(h, N + 1)
    <3>1. h = [n \in 0..(N + 1) |-> h[n]]
      OBVIOUS
    <3> HIDE DEF h
    <3> QED BY <2>2, <3>1
  <2> HIDE DEF Is
  <2> QED BY <2>3
<1>3. Nat \subseteq Done
  <2> HIDE DEF Done
  <2> QED BY <1>1, <1>2, SetInduction
<1>4. \E g : Is(g, MaxDepth)
  <2> HIDE DEF Is
  <2> QED BY <1>3
<1>5. Levels(j) = CHOOSE g : Is(g, MaxDepth)
  BY DEF Levels
<1> HIDE DEF Is
<1>6. Is(Levels(j), MaxDepth)
  BY <1>4, <1>5
<1> QED BY <1>6 DEF Is

(* A value is nested in itself; a document holds what is nested in its parts. *)
LEMMA WithinCloses ==
  ASSUME MaxDepth \in Nat, NEW j, Levels(j)[MaxDepth] = {}
  PROVE  j \in Within(j) /\ \A x \in Within(j) : Children(x) \subseteq Within(j)
<1>1. j \in Within(j)
  <2>1. 0 \in 0..MaxDepth /\ Levels(j)[0] = {j}
    BY LevelsRecurse
  <2> QED BY <2>1 DEF Within
<1>2. ASSUME NEW n \in 0..MaxDepth, NEW x \in Levels(j)[n], NEW y \in Children(x) PROVE y \in Within(j)
  <2>1. n # MaxDepth
    OBVIOUS
  <2>2. n + 1 \in 0..MaxDepth /\ n + 1 # 0 /\ (n + 1) - 1 = n
    BY <2>1
  <2>3. y \in Levels(j)[n + 1]
    BY <2>2, LevelsRecurse
  <2> QED BY <2>2, <2>3 DEF Within
<1> QED BY <1>1, <1>2 DEF Within

(* What is nested in a value is in every set that holds the value and the parts
   of its members. *)
LEMMA WithinIsLeast ==
  ASSUME MaxDepth \in Nat, NEW j, NEW C, j \in C, \A x \in C : Children(x) \subseteq C
  PROVE  Within(j) \subseteq C
<1> DEFINE Done == {n \in 0..MaxDepth : Levels(j)[n] \subseteq C}
<1>1. 0 \in Done
  <2>1. 0 \in 0..MaxDepth /\ Levels(j)[0] = {j}
    BY LevelsRecurse
  <2> QED BY <2>1
<1>2. ASSUME NEW n \in 0..(MaxDepth - 1), n \in Done PROVE n + 1 \in Done
  <2>1. n + 1 \in 0..MaxDepth /\ n + 1 # 0 /\ (n + 1) - 1 = n
    OBVIOUS
  <2>2. Levels(j)[n + 1] = UNION {Children(x) : x \in Levels(j)[n]}
    BY <2>1, LevelsRecurse
  <2> QED BY <1>2, <2>1, <2>2
<1>3. 0..MaxDepth \subseteq Done
  <2> HIDE DEF Done
  <2> QED BY <1>1, <1>2, BoundedInduction
<1> QED BY <1>3 DEF Within

(* The pass of stripCommercial over x, where strip is that over its parts. *)
Stripped(strip, x) ==
  CASE x.is = "object" -> Object([k \in DOMAIN x.v \ commercialKeys |-> strip[x.v[k]]])
    [] x.is = "array"  -> Array([n \in DOMAIN x.v |-> strip[x.v[n]]])
    [] OTHER           -> x

(* It depends on the passes over the parts only. *)
LEMMA StrippedByParts ==
  ASSUME NEW f, NEW g, NEW x, \A y \in Children(x) : f[y] = g[y]
  PROVE  Stripped(f, x) = Stripped(g, x)
<1>1. CASE x.is = "object"
  <2>1. \A k \in DOMAIN x.v : f[x.v[k]] = g[x.v[k]]
    BY <1>1 DEF Children
  <2>2. [k \in DOMAIN x.v \ commercialKeys |-> f[x.v[k]]] = [k \in DOMAIN x.v \ commercialKeys |-> g[x.v[k]]]
    BY <2>1
  <2> QED BY <1>1, <2>2 DEF Stripped
<1>2. CASE x.is = "array"
  <2>1. \A k \in DOMAIN x.v : f[x.v[k]] = g[x.v[k]]
    BY <1>2 DEF Children
  <2>2. [n \in DOMAIN x.v |-> f[x.v[n]]] = [n \in DOMAIN x.v |-> g[x.v[n]]]
    BY <2>1
  <2> QED BY <1>2, <2>2 DEF Stripped
<1>3. CASE x.is # "object" /\ x.is # "array"
  BY <1>3 DEF Stripped
<1> QED BY <1>1, <1>2, <1>3

(* stripCommercial passes over everything nested in a document: the induction is
   on the levels, from the deepest up. *)
LEMMA StripRecurses ==
  ASSUME MaxDepth \in Nat, NEW j, Levels(j)[MaxDepth] = {}
  PROVE  \E strip : stripCommercial(j) = strip[j] /\ \A x \in Within(j) : strip[x] = Stripped(strip, x)
<1> DEFINE W == Within(j)
           Below(m) == UNION {Levels(j)[n] : n \in (MaxDepth - m)..MaxDepth}
           Is(g, S) == g = [x \in S |-> Stripped(g, x)]
           Done == {m \in 0..MaxDepth : \E g : Is(g, Below(m))}
<1>1. 0 \in Done
  <2>1. Below(0) = {}
    OBVIOUS
  <2> DEFINE e == [x \in {} |-> x]
  <2>2. Is(e, Below(0))
    BY <2>1
  <2> HIDE DEF Is, Below
  <2> QED BY <2>2
<1>2. ASSUME NEW m \in 0..(MaxDepth - 1), m \in Done PROVE m + 1 \in Done
  <2>1. PICK g : Is(g, Below(m))
    BY <1>2
  <2>2. m + 1 \in 0..MaxDepth /\ \A n \in (MaxDepth - (m + 1))..MaxDepth :
          n \in 0..MaxDepth /\ (n # MaxDepth => n + 1 \in (MaxDepth - m)..MaxDepth)
    OBVIOUS
  <2>3. Below(m) \subseteq Below(m + 1)
    OBVIOUS
  <2>4. \A x \in Below(m + 1) : Children(x) \subseteq Below(m)
    <3> SUFFICES ASSUME NEW n \in (MaxDepth - (m + 1))..MaxDepth, NEW x \in Levels(j)[n], NEW y \in Children(x)
                 PROVE  y \in Below(m)
      OBVIOUS
    <3>1. n # MaxDepth
      OBVIOUS
    <3>2. n + 1 \in (MaxDepth - m)..MaxDepth /\ n + 1 \in 0..MaxDepth /\ n + 1 # 0 /\ (n + 1) - 1 = n
      BY <3>1, <2>2
    <3>3. y \in Levels(j)[n + 1]
      BY <3>2, LevelsRecurse
    <3> QED BY <3>2, <3>3
  <2> HIDE DEF Below
  <2> DEFINE h == [x \in Below(m + 1) |-> Stripped(g, x)]
  <2>5. ASSUME NEW x \in Below(m) PROVE h[x] = g[x]
    <3>1. g[x] = Stripped(g, x)
      BY <2>1
    <3> QED BY <2>3, <3>1
  <2>6. ASSUME NEW x \in Below(m + 1) PROVE h[x] = Stripped(h, x)
    <3>1. \A y \in Children(x) : h[y] = g[y]
      BY <2>4, <2>5
    <3>2. h[x] = Stripped(g, x)
      OBVIOUS
    <3> HIDE DEF h
    <3> QED BY <3>1, <3>2, StrippedByParts
  <2>7. Is(h, Below(m + 1))
    <3>1. h = [x \in Below(m + 1) |-> h[x]]
      OBVIOUS
    <3> HIDE DEF h
    <3> QED BY <2>6, <3>1
  <2> HIDE DEF Is
  <2> QED BY <2>2, <2>7
<1>3. 0..MaxDepth \subseteq Done
  <2> HIDE DEF Done
  <2> QED BY <1>1, <1>2, BoundedInduction
<1>4. Below(MaxDepth) = W
  BY DEF Within
<1>5. \E g : Is(g, W)
  <2>1. MaxDepth \in 0..MaxDepth
    OBVIOUS
  <2> HIDE DEF Is, Below, W
  <2> QED BY <1>3, <1>4, <2>1
<1> DEFINE strip == CHOOSE g : Is(g, W)
<1>6. stripCommercial(j) = strip[j]
  BY DEF stripCommercial, Stripped
<1> HIDE DEF W
<1>7. Is(strip, W)
  <2> HIDE DEF Is
  <2> QED BY <1>5
<1> HIDE DEF strip
<1>8. \A x \in W : strip[x] = Stripped(strip, x)
  BY <1>7
<1> QED BY <1>6, <1>8 DEF W

(* A set of values with all that is nested in them, free of terms of sale. *)
Clean(B) ==
  \A x \in B :
    /\ Children(x) \subseteq B
    /\ x.is = "object" => DOMAIN x.v \cap commercialKeys = {}
    /\ x.is = "number" => x.v \in Int

(* What stripCommercial leaves of a document is clean, and all of it that is not
   a term of sale. *)
LEMMA StripHas ==
  ASSUME MaxDepth \in Nat, NEW j, IsDocument(j)
  PROVE  \E strip, B :
           /\ Clean(B) /\ stripCommercial(j) = strip[j]
           /\ j \in Within(j) /\ \A x \in Within(j) : Children(x) \subseteq Within(j)
           /\ \A x \in Within(j) : strip[x] \in B /\ strip[x] = Stripped(strip, x)
<1>1. PICK strip : stripCommercial(j) = strip[j] /\ \A x \in Within(j) : strip[x] = Stripped(strip, x)
  BY StripRecurses DEF IsDocument
<1>2. j \in Within(j) /\ \A x \in Within(j) : Children(x) \subseteq Within(j)
  BY WithinCloses DEF IsDocument
<1> DEFINE B == {strip[x] : x \in Within(j)}
<1>3. Clean(B)
  <2> SUFFICES ASSUME NEW x \in Within(j), NEW s, s = strip[x]
               PROVE  /\ Children(s) \subseteq B
                      /\ s.is = "object" => DOMAIN s.v \cap commercialKeys = {}
                      /\ s.is = "number" => s.v \in Int
    BY DEF Clean
  <2>1. s = Stripped(strip, x)
    BY <1>1
  <2>2. CASE x.is = "object"
    <3>1. s.is = "object" /\ s.v = [k \in DOMAIN x.v \ commercialKeys |-> strip[x.v[k]]]
      BY <2>1, <2>2 DEF Stripped, Object
    <3>2. \A k \in DOMAIN x.v : strip[x.v[k]] \in B
      BY <1>2, <2>2 DEF Children
    <3> HIDE DEF B
    <3> QED BY <3>1, <3>2 DEF Children
  <2>3. CASE x.is = "array"
    <3>1. s.is = "array" /\ s.v = [n \in DOMAIN x.v |-> strip[x.v[n]]]
      BY <2>1, <2>3 DEF Stripped, Array
    <3>2. \A k \in DOMAIN x.v : strip[x.v[k]] \in B
      BY <1>2, <2>3 DEF Children
    <3> HIDE DEF B
    <3> QED BY <3>1, <3>2 DEF Children
  <2>4. CASE x.is # "object" /\ x.is # "array"
    <3>1. s = x
      BY <2>1, <2>4 DEF Stripped
    <3> QED BY <3>1, <2>4 DEF Children, IsDocument
  <2> QED BY <2>2, <2>3, <2>4
<1>4. \A x \in Within(j) : strip[x] \in B
  OBVIOUS
<1> HIDE DEF B
<1> QED BY <1>1, <1>2, <1>3, <1>4

(* A public map holds two numbers. *)
LEMMA MapType ==
  ASSUME PreciseGeo \in BOOLEAN, NEW data, Numeric(data), HasCoords(data)
  PROVE  \E a, b \in Int : publicMap(data) = Object([lat |-> Number(a), lng |-> Number(b)])
<1>1. ASSUME NEW c \in {"lat", "lng"} PROVE \E a \in Int : publicCoord(data[c].v) = Number(a)
  <2>1. data[c].v \in Int
    BY DEF Numeric, HasCoords, numField
  <2>2. 10 * round2(data[c].v) \in Int
    BY <2>1, RoundingIsCoarse
  <2> QED BY <2>1, <2>2 DEF publicCoord
<1>2. PICK a \in Int : publicCoord(data["lat"].v) = Number(a)
  BY <1>1
<1>3. PICK b \in Int : publicCoord(data["lng"].v) = Number(b)
  BY <1>1
<1> QED BY <1>2, <1>3 DEF publicMap

(* Where the fields of a redacted entity come from. *)
LEMMA EntityParts ==
  ASSUME NEW raw, NEW k \in DOMAIN redactPublicEntity(raw), NEW value, value = redactPublicEntity(raw)[k]
  PROVE  \/ k \in DOMAIN raw /\ value = raw[k]
         \/ k = "map" /\ HasCoords(raw) /\ value = publicMap(raw)
         \/ k = "map" /\ HasLocation(raw) /\ HasCoords(raw["location"].v) /\ value = publicMap(raw["location"].v)
         \/ /\ k = "district" /\ HasLocation(raw) /\ "district" \in DOMAIN raw["location"].v
            /\ value = raw["location"].v["district"]
<1> DEFINE near == FromLocation(raw)
           geo  == FromLatLng(near)
           loc  == raw["location"].v
<1>1. k \in DOMAIN geo /\ value = geo[k]
  BY DEF redactPublicEntity, sanitizePublicGeo, Sweep, Without, Restrict
<1>2. \A l \in DOMAIN near : \/ l \in DOMAIN raw /\ near[l] = raw[l]
                             \/ l = "map" /\ HasLocation(raw) /\ HasCoords(loc) /\ near[l] = publicMap(loc)
                             \/ /\ l = "district" /\ HasLocation(raw) /\ "district" \in DOMAIN loc
                                /\ near[l] = loc["district"]
  BY DEF FromLocation, strMapField, With, Without, Restrict
<1>3. \A c \in {"lat", "lng"} : (c \in DOMAIN near <=> c \in DOMAIN raw) /\ (c \in DOMAIN raw => near[c] = raw[c])
  BY DEF FromLocation, With, Without, Restrict
<1>4. (HasCoords(near) <=> HasCoords(raw)) /\ (HasCoords(raw) => publicMap(near) = publicMap(raw))
  BY <1>3 DEF HasCoords, numField, publicMap
<1> HIDE DEF near
<1>5. \/ k \in DOMAIN near /\ geo[k] = near[k]
      \/ k = "map" /\ HasCoords(near) /\ geo[k] = publicMap(near)
  BY <1>1 DEF FromLatLng, With, Without, Restrict
<1> HIDE DEF geo
<1> QED BY <1>1, <1>2, <1>4, <1>5

(* The preview made public holds no term of sale: what is added to what is left of
   the document is the public maps. *)
LEMMA PreviewIsClean ==
  ASSUME PreciseGeo \in BOOLEAN, MaxDepth \in Nat, NEW B, Clean(B), NEW raw, stripCommercial(raw) \in B,
         stripCommercial(raw).is = "object"
  PROVE  Keys(sanitizePreviewEntities(raw)) \cap commercialKeys = {}
<1> DEFINE left == stripCommercial(raw).v
           out == sanitizePreviewEntities(raw)
           Q == {Number(a) : a \in Int}
           P == {Object([lat |-> Number(a), lng |-> Number(b)]) : a \in Int, b \in Int}
           E == {Object(redactPublicEntity(y.v)) : y \in {y \in B : y.is = "object"}}
           A == {RedactedArray(a) : a \in B}
           C == B \cup Q \cup P \cup E \cup A \cup {out}
           Fine(x) == Children(x) \subseteq C /\ (x.is = "object" => DOMAIN x.v \cap commercialKeys = {})
<1>1. B \subseteq C /\ Q \subseteq C /\ P \subseteq C /\ E \subseteq C /\ A \subseteq C /\ out \in C
  OBVIOUS
<1>2. ASSUME NEW x \in B PROVE Fine(x)
  <2> HIDE DEF C
  <2> QED BY <1>1 DEF Clean
<1>3. ASSUME NEW x \in Q PROVE Fine(x)
  BY DEF Number, Children
<1>4. ASSUME NEW x \in P PROVE Fine(x)
  <2>1. PICK a \in Int, b \in Int : x = Object([lat |-> Number(a), lng |-> Number(b)])
    OBVIOUS
  <2>2. x.v = [lat |-> Number(a), lng |-> Number(b)] /\ DOMAIN x.v = {"lat", "lng"}
    BY <2>1 DEF Object
  <2>3. x.v["lat"] \in Q /\ x.v["lng"] \in Q
    BY <2>2
  <2>4. Children(x) \subseteq Q
    <3> HIDE DEF Q
    <3> QED BY <2>2, <2>3 DEF Children
  <2> HIDE DEF C, P, Q
  <2> QED BY <1>1, <2>2, <2>4 DEF commercialKeys
<1>5. ASSUME NEW y \in B, y.is = "object" PROVE Fine(Object(redactPublicEntity(y.v)))
  <2> DEFINE entry == y.v
             public == redactPublicEntity(entry)
  <2>1. /\ \A k \in DOMAIN entry : entry[k] \in B
        /\ DOMAIN entry \cap commercialKeys = {} /\ Numeric(entry)
    BY <1>5 DEF Clean, Children, Numeric
  <2>2. HasLocation(entry) =>
          /\ Numeric(entry["location"].v)
          /\ \A k \in DOMAIN entry["location"].v : entry["location"].v[k] \in B
    BY <2>1 DEF HasLocation, Clean, Children, Numeric
  <2> HIDE DEF entry
  <2>3. ASSUME NEW k \in DOMAIN public PROVE public[k] \in B \cup P /\ k \notin commercialKeys
    <3>1. CASE k \in DOMAIN entry /\ public[k] = entry[k]
      BY <3>1, <2>1
    <3>2. CASE k = "map" /\ HasCoords(entry) /\ public[k] = publicMap(entry)
      BY <3>2, <2>1, MapType DEF commercialKeys
    <3>3. CASE /\ k = "map" /\ HasLocation(entry) /\ HasCoords(entry["location"].v)
               /\ public[k] = publicMap(entry["location"].v)
      BY <3>3, <2>2, MapType DEF commercialKeys
    <3>4. CASE /\ k = "district" /\ HasLocation(entry) /\ "district" \in DOMAIN entry["location"].v
               /\ public[k] = entry["location"].v["district"]
      BY <3>4, <2>2 DEF commercialKeys
    <3> QED BY <3>1, <3>2, <3>3, <3>4, EntityParts
  <2>4. Object(public).is = "object" /\ Object(public).v = public
    BY DEF Object
  <2>5. Children(Object(public)) \subseteq B \cup P /\ DOMAIN public \cap commercialKeys = {}
    <3> HIDE DEF public, P
    <3> QED BY <2>3, <2>4 DEF Children
  <2> HIDE DEF C, P
  <2> QED BY <1>1, <2>4, <2>5 DEF entry
<1>6. ASSUME NEW a \in B PROVE Fine(RedactedArray(a))
  <2>1. CASE a.is = "array"
    <3>1. \A n \in DOMAIN a.v : a.v[n] \in B
      BY <2>1 DEF Clean, Children
    <3>2. \A n \in DOMAIN a.v : RedactedElement(a.v[n]) \in B \cup E
      BY <3>1 DEF RedactedElement
    <3>3. RedactedArray(a).is = "array" /\ RedactedArray(a).v = [n \in DOMAIN a.v |-> RedactedElement(a.v[n])]
      BY <2>1 DEF RedactedArray, Array
    <3> HIDE DEF C, E
    <3> QED BY <1>1, <3>2, <3>3 DEF Children
  <2>2. CASE a.is # "array"
    <3> HIDE DEF Fine
    <3> QED BY <2>2, <1>2 DEF RedactedArray
  <2> HIDE DEF Fine
  <2> QED BY <2>1, <2>2
<1>7. Fine(out)
  <2>1. \A k \in DOMAIN left : left[k] \in B /\ k \notin commercialKeys
    BY DEF Clean, Children
  <2>2. /\ out.is = "object"
        /\ out.v = [k \in DOMAIN left |-> IF k \in {"farmers", "farms"} THEN RedactedArray(left[k]) ELSE left[k]]
    BY DEF Object, sanitizePreviewEntities
  <2> HIDE DEF left, out
  <2>3. \A k \in DOMAIN left : out.v[k] \in A \cup B
    BY <2>1, <2>2
  <2> HIDE DEF C, A
  <2> QED BY <1>1, <2>1, <2>2, <2>3 DEF Children
<1>8. \A x \in C : Fine(x)
  <2> HIDE DEF Fine
  <2> QED BY <1>2, <1>3, <1>4, <1>5, <1>6, <1>7
<1> HIDE DEF C, out
<1>9. Within(out) \subseteq C
  BY <1>1, <1>8, WithinIsLeast
<1> QED BY <1>8, <1>9 DEF Keys, out

(* An entry of what stripCommercial leaves of an object. *)
LEMMA LeftOfObject ==
  ASSUME NEW strip, NEW x, x.is = "object", \A y \in Children(x) : strip[y] = Stripped(strip, y)
  PROVE  IsLeftOf(Stripped(strip, x).v, x.v)
<1> DEFINE left == Stripped(strip, x).v
<1>1. left = [k \in DOMAIN x.v \ commercialKeys |-> strip[x.v[k]]]
  BY DEF Stripped, Object
<1> HIDE DEF left
<1>2. ASSUME NEW k \in DOMAIN left, x.v[k].is \notin {"object", "array"} PROVE left[k] = x.v[k]
  <2>1. left[k] = Stripped(strip, x.v[k])
    BY <1>1 DEF Children
  <2> QED BY <2>1, <1>2 DEF Stripped
<1> QED BY <1>1, <1>2 DEF IsLeftOf, left

(* The entities of a preview are among its parts; what is made public of them is
   what is made public of what is left of them. *)
LEMMA PreviewIsRedacted ==
  ASSUME RedactionAssumption, NEW raw \in Previews, NEW public, public = sanitizePreviewEntities(raw),
         NEW left, left = stripCommercial(raw).v
  PROVE  /\ Keys(public) \cap commercialKeys = {}
         /\ DOMAIN public.v = DOMAIN raw.v \ commercialKeys /\ IsLeftOf(left, raw.v)
         /\ \A key \in {"farmers", "farms"} :
              key \in DOMAIN raw.v /\ raw.v[key].is = "array" =>
                \A n \in DOMAIN raw.v[key].v :
                  raw.v[key].v[n].is = "object" =>
                    /\ IsLeftOf(left[key].v[n].v, raw.v[key].v[n].v)
                    /\ EntityRedacted(left[key].v[n].v, public.v[key].v[n].v)
<1>1. raw.is = "object" /\ IsDocument(raw) /\ MaxDepth \in Nat /\ PreciseGeo \in BOOLEAN
  BY DEF RedactionAssumption
<1>2. PICK strip, B :
        /\ Clean(B) /\ stripCommercial(raw) = strip[raw]
        /\ raw \in Within(raw) /\ \A x \in Within(raw) : Children(x) \subseteq Within(raw)
        /\ \A x \in Within(raw) : strip[x] \in B /\ strip[x] = Stripped(strip, x)
  BY <1>1, StripHas
<1>3. ASSUME NEW x \in Within(raw), x.is = "object"
      PROVE  /\ strip[x] = Object(strip[x].v) /\ strip[x].is = "object" /\ IsLeftOf(strip[x].v, x.v)
             /\ strip[x].v = [k \in DOMAIN x.v \ commercialKeys |-> strip[x.v[k]]]
             /\ \A k \in DOMAIN x.v : x.v[k] \in Within(raw)
  <2>1. \A y \in Children(x) : y \in Within(raw) /\ strip[y] = Stripped(strip, y)
    BY <1>2
  <2>2. strip[x] = Stripped(strip, x)
    BY <1>2
  <2>3. IsLeftOf(strip[x].v, x.v)
    BY <2>1, <2>2, <1>3, LeftOfObject
  <2>4. strip[x] = Object([k \in DOMAIN x.v \ commercialKeys |-> strip[x.v[k]]])
    BY <2>2, <1>3 DEF Stripped
  <2>5. strip[x].v = [k \in DOMAIN x.v \ commercialKeys |-> strip[x.v[k]]] /\ strip[x].is = "object"
    BY <2>4 DEF Object
  <2>6. \A k \in DOMAIN x.v : x.v[k] \in Within(raw)
    BY <1>2, <1>3 DEF Children
  <2> QED BY <2>3, <2>4, <2>5, <2>6
<1>4. ASSUME NEW x \in Within(raw), x.is = "array"
      PROVE  /\ strip[x].is = "array" /\ strip[x].v = [n \in DOMAIN x.v |-> strip[x.v[n]]]
             /\ \A n \in DOMAIN x.v : x.v[n] \in Within(raw)
  <2>1. strip[x] = Array([n \in DOMAIN x.v |-> strip[x.v[n]]])
    BY <1>2, <1>4 DEF Stripped
  <2>2. strip[x].is = "array" /\ strip[x].v = [n \in DOMAIN x.v |-> strip[x.v[n]]]
    BY <2>1 DEF Array
  <2>3. \A n \in DOMAIN x.v : x.v[n] \in Within(raw)
    BY <1>2, <1>4 DEF Children
  <2> QED BY <2>2, <2>3
<1>5. /\ stripCommercial(raw) = Object(left) /\ Object(left) \in B /\ IsLeftOf(left, raw.v)
      /\ left = [k \in DOMAIN raw.v \ commercialKeys |-> strip[raw.v[k]]]
      /\ \A k \in DOMAIN raw.v : raw.v[k] \in Within(raw)
  BY <1>1, <1>2, <1>3
<1>6. public = Object([k \in DOMAIN left |-> IF k \in {"farmers", "farms"} THEN RedactedArray(left[k]) ELSE left[k]])
  BY DEF sanitizePreviewEntities
<1>7. Keys(public) \cap commercialKeys = {}
  <2>1. stripCommercial(raw) \in B /\ stripCommercial(raw).is = "object"
    BY <1>5 DEF Object
  <2> QED BY <1>1, <1>2, <2>1, PreviewIsClean
<1>8. public.v = [k \in DOMAIN left |-> IF k \in {"farmers", "farms"} THEN RedactedArray(left[k]) ELSE left[k]]
  BY <1>6 DEF Object
<1>9. ASSUME NEW key \in {"farmers", "farms"}, key \in DOMAIN raw.v, raw.v[key].is = "array",
             NEW n \in DOMAIN raw.v[key].v, raw.v[key].v[n].is = "object"
      PROVE  /\ IsLeftOf(left[key].v[n].v, raw.v[key].v[n].v)
             /\ EntityRedacted(left[key].v[n].v, public.v[key].v[n].v)
  <2> DEFINE arr == raw.v[key]
             x   == raw.v[key].v[n]
  <2>1. key \notin commercialKeys
    BY DEF commercialKeys
  <2>2. left[key] = strip[arr] /\ arr \in Within(raw) /\ key \in DOMAIN left
    BY <1>5, <1>9, <2>1
  <2>3. left[key].is = "array" /\ left[key].v = [i \in DOMAIN arr.v |-> strip[arr.v[i]]] /\ x \in Within(raw)
    <3> HIDE DEF arr
    <3>1. arr.is = "array" /\ n \in DOMAIN arr.v /\ x = arr.v[n]
      BY <1>9 DEF arr
    <3> HIDE DEF x
    <3> QED BY <2>2, <3>1, <1>4
  <2>4. left[key].v[n] = strip[x] /\ n \in DOMAIN left[key].v
    BY <2>3
  <2>5. strip[x].is = "object" /\ IsLeftOf(strip[x].v, x.v) /\ strip[x] \in B
    BY <2>3, <1>2, <1>3, <1>9
  <2>6. public.v[key] = RedactedArray(left[key])
    BY <1>8, <2>2
  <2>7. public.v[key].v = [i \in DOMAIN left[key].v |-> RedactedElement(left[key].v[i])]
    BY <2>3, <2>6 DEF RedactedArray, Array
  <2>8. public.v[key].v[n] = Object(redactPublicEntity(strip[x].v))
    <3>1. public.v[key].v[n] = RedactedElement(strip[x])
      BY <2>4, <2>7
    <3> QED BY <3>1, <2>5 DEF RedactedElement
  <2>9. public.v[key].v[n].v = redactPublicEntity(strip[x].v)
    BY <2>8 DEF Object
  <2>10. Numeric(strip[x].v) /\ (HasLocation(strip[x].v) => Numeric(strip[x].v["location"].v))
    <3> DEFINE entry == strip[x].v
    <3>1. \A k \in DOMAIN entry : entry[k] \in B
      BY <2>5, <1>2 DEF Clean, Children
    <3> HIDE DEF entry
    <3>2. Numeric(entry)
      BY <3>1, <1>2 DEF Clean, Numeric
    <3>3. HasLocation(entry) => \A k \in DOMAIN entry["location"].v : entry["location"].v[k] \in B
      BY <3>1, <1>2 DEF Clean, HasLocation, Children
    <3>4. HasLocation(entry) => Numeric(entry["location"].v)
      BY <3>3, <1>2 DEF Clean, Numeric
    <3> QED BY <3>2, <3>4 DEF entry
  <2>11. EntityRedacted(strip[x].v, redactPublicEntity(strip[x].v))
    BY <2>10, <1>1, EntityIsRedacted
  <2> QED BY <2>4, <2>5, <2>9, <2>11
<1>10. DOMAIN public.v = DOMAIN raw.v \ commercialKeys
  BY <1>5, <1>8
<1> QED BY <1>5, <1>7, <1>9, <1>10

(* An entity's numbers are numbers. *)
LEMMA EntityType ==
  ASSUME RedactionAssumption, NEW raw \in RawEntities
  PROVE  Numeric(raw) /\ (HasLocation(raw) => Numeric(raw["location"].v))
<1>1. Object(raw) \in Within(Object(raw)) /\ \A x \in Within(Object(raw)) : Children(x) \subseteq Within(Object(raw))
  BY WithinCloses DEF RedactionAssumption, IsDocument
<1>2. \A k \in DOMAIN raw : raw[k] \in Within(Object(raw))
  BY <1>1 DEF Object, Children
<1>3. HasLocation(raw) => \A k \in DOMAIN raw["location"].v : raw["location"].v[k] \in Within(Object(raw))
  BY <1>1, <1>2 DEF HasLocation, Children
<1> QED BY <1>2, <1>3 DEF RedactionAssumption, IsDocument, Numeric

(* Whatever projections and SCM hold, nested as deep as it may be: what is made
   public of it is redacted (redactPublicEntity, sanitizePreviewEntities). *)
THEOREM RedactionIsSafe == RedactionSpec => []RedactionSafe
<1>1. RedactionInit => RedactionSafe
  BY DEF RedactionInit, NoDoc, RedactionSafe
<1>2. ASSUME RedactionSafe, [RedactionNext]_doc PROVE RedactionSafe'
  <2>1. CASE PublishEntity
    <3>1. PICK raw \in RawEntities : doc' = [kind |-> "entity", raw |-> raw, public |-> redactPublicEntity(raw)]
      BY <2>1 DEF PublishEntity
    <3>2. EntityRedacted(raw, redactPublicEntity(raw))
      BY RedactionAssumption, EntityType, EntityIsRedacted DEF RedactionAssumption
    <3>3. doc'.kind = "entity" /\ doc'.raw = raw /\ doc'.public = redactPublicEntity(raw)
      BY <3>1
    <3>4. EntityRedacted(doc.raw, doc.public)'
      BY <3>2, <3>3 DEF EntityRedacted, redactPublicEntity, Source
    <3> QED BY <3>3, <3>4 DEF RedactionSafe
  <2>2. CASE PublishPreview
    <3>1. PICK raw \in Previews : doc' = [kind |-> "preview", raw |-> raw, public |-> sanitizePreviewEntities(raw)]
      BY <2>2 DEF PublishPreview
    <3>2. doc'.kind = "preview" /\ doc'.raw = raw /\ doc'.public = sanitizePreviewEntities(raw)
      BY <3>1
    <3> QED BY <3>2, RedactionAssumption, PreviewIsRedacted DEF RedactionSafe
  <2>3. CASE UNCHANGED doc
    BY <2>3, <1>2 DEF RedactionSafe
  <2> QED BY <2>1, <2>2, <2>3, <1>2 DEF RedactionNext
<1> QED BY <1>1, <1>2, PTL DEF RedactionSpec
============================================================================
