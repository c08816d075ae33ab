--------------------------- MODULE StoryOverride ---------------------------
(***************************************************************************)
(* Hand edits of a lot's public story against recomposition, for one lot   *)
(* (internal/store/qr_register.go SetStoryOverride, internal/story).       *)
(*                                                                         *)
(* A patch is a READ COMMITTED transaction: SELECT ... FOR UPDATE of the   *)
(* override row, then INSERT ... ON CONFLICT DO UPDATE or DELETE, an audit *)
(* row, and the two story keys of the stored projection.  FOR UPDATE locks *)
(* the row if there is one; a row that is not there cannot be locked.      *)
(* A composer (publish, AfterAppend, the Kafka consumer) reads the         *)
(* override into a freshly composed story and upserts the projection in a  *)
(* later statement of its own.  A public scan composes the story afresh,   *)
(* falls back to the projection when it cannot read the override, and      *)
(* reads the override once more to lay it on top.                          *)
(*                                                                         *)
(* Of a story only the two keys story_title and story_body matter here; a  *)
(* composed story has neither but for the override.                        *)
(***************************************************************************)
EXTENDS Naturals

CONSTANTS
  Patchers, Composers,
  Values,     \* non-empty texts
  Null,       \* SQL NULL, a missing key, no lock holder
  Keep,       \* a field the patch omits (nil)
  MaxPatches  \* bound on committed patches

ASSUME PatchesAssumption == MaxPatches \in Nat
ASSUME MarksAssumption == Null \notin Values \cup Patchers /\ Keep \notin Values \cup {Null}

VARIABLES
  override,    \* lot_story_overrides: [title, body]; Blank when there is no row
  rowLock,     \* the patch that holds the override row
  storyLock,   \* the patch that holds the projection's row
  projection,  \* the story keys of lot_story_projections, or NoProjection
  audit,       \* number of lot_story_override_audit rows
  tx,          \* tx[p]: the patch's transaction
  comp,        \* comp[c]: the composer's step, the story it composed, and the
               \* number of the last edit it could see (history)
  asOf,        \* history: the last edit the projection's writer could see
  view         \* a public scan: its step and the story keys it has; history:
               \* the overrides there were since it began, and whether what it
               \* read can be relied on

vars == << override, rowLock, storyLock, projection, audit, tx, comp, asOf, view >>

Fields == {"title", "body"}
Story  == [Fields -> Values \cup {Null}]
Blank  == [f \in Fields |-> Null]
NoProjection == [f \in {} |-> Null]

(* What a client can send: omitted, "" (Null once nonEmpty has trimmed it) or a
   text; validateStoryPatch refuses a patch that omits both. *)
Patches == [Fields -> Values \cup {Null, Keep}] \ {[f \in Fields |-> Keep]}

(* title, body := prevTitle, prevBody; a field that is sent replaces its own. *)
Patched(prev, patch) == [f \in Fields |-> IF patch[f] = Keep THEN prev[f] ELSE patch[f]]

(* A composer between two stories; `story` is its local composed. *)
NoComp == [step |-> "idle", story |-> Blank, at |-> 0]

NoView == [step |-> "idle", story |-> Blank, during |-> {}, sure |-> FALSE]

NoTx == [step |-> "idle", patch |-> Blank, prev |-> Blank, next |-> Blank]

Init ==
  /\ override = Blank
  /\ rowLock = Null
  /\ storyLock = Null
  /\ projection = NoProjection
  /\ audit = 0
  /\ tx = [p \in Patchers |-> NoTx]
  /\ comp = [c \in Composers |-> NoComp]
  /\ asOf = 0
  /\ view = NoView

----------------------------------------------------------------------------
(* tx[p] once it knows the previous values. *)
Read(patch, prev) == [step |-> "write", patch |-> patch, prev |-> prev, next |-> Patched(prev, patch)]

(* Mutant of SelectForUpdate: a plain SELECT. *)
SelectUnlocked(p) ==
  /\ tx[p].step = "idle"
  /\ \E patch \in Patches : tx' = [tx EXCEPT ![p] = Read(patch, override)]
  /\ UNCHANGED << override, rowLock, storyLock, projection, audit, comp, asOf, view >>

(* PatchQRStory for a lot that has a QR row (it is never deleted): Begin, and
   SELECT ... FOR UPDATE, which waits for a locked row; no row, no lock. *)
SelectForUpdate(p) ==
  /\ tx[p].step = "idle"
  /\ IF override = Blank
       THEN UNCHANGED rowLock
       ELSE rowLock = Null /\ rowLock' = p
  /\ \E patch \in Patches : tx' = [tx EXCEPT ![p] = Read(patch, override)]
  /\ UNCHANGED << override, storyLock, projection, audit, comp, asOf, view >>

(* DELETE touches a committed row only; INSERT ... ON CONFLICT also waits for
   one that is being inserted.  Either way the row is then locked. *)
Write(p) ==
  /\ tx[p].step = "write"
  /\ IF tx[p].next = Blank /\ override = Blank
       THEN UNCHANGED rowLock
       ELSE rowLock \in {Null, p} /\ rowLock' = p
  /\ tx' = [tx EXCEPT ![p].step = "mirror"]
  /\ UNCHANGED << override, storyLock, projection, audit, comp, asOf, view >>

(* The audit row, and the UPDATE of the projection's story keys: it waits for
   another patch's, and finds nothing as long as there is no projection. *)
Mirror(p) ==
  /\ tx[p].step = "mirror"
  /\ IF projection = NoProjection
       THEN UNCHANGED storyLock
       ELSE storyLock = Null /\ storyLock' = p
  /\ tx' = [tx EXCEPT ![p].step = "commit"]
  /\ UNCHANGED << override, rowLock, projection, audit, comp, asOf, view >>

Release(p) ==
  /\ tx' = [tx EXCEPT ![p] = NoTx]
  /\ rowLock' = IF rowLock = p THEN Null ELSE rowLock
  /\ storyLock' = IF storyLock = p THEN Null ELSE storyLock

(* History: the scan at work, if any, meets the override of this commit, too. *)
Witnessed == view' = IF view.step = "apply" THEN [view EXCEPT !.during = @ \cup {override'}] ELSE view

(* Mutant of Commit: the projection is left to the next composer. *)
CommitOverrideOnly(p) ==
  /\ tx[p].step = "commit"
  /\ audit < MaxPatches
  /\ override' = IF rowLock = p THEN tx[p].next ELSE override
  /\ audit' = audit + 1
  /\ asOf' = IF storyLock = p THEN audit + 1 ELSE asOf
  /\ Release(p)
  /\ Witnessed
  /\ UNCHANGED << projection, comp >>

(* The commit: only a patch that holds a row has changed it. *)
Commit(p) ==
  /\ tx[p].step = "commit"
  /\ audit < MaxPatches
  /\ override' = IF rowLock = p THEN tx[p].next ELSE override
  /\ projection' = IF storyLock = p THEN tx[p].next ELSE projection
  /\ audit' = audit + 1
  /\ asOf' = IF storyLock = p THEN audit + 1 ELSE asOf
  /\ Release(p)
  /\ Witnessed
  /\ UNCHANGED comp

(* A failed statement or commit, a dead process. *)
Rollback(p) ==
  /\ tx[p].step # "idle"
  /\ Release(p)
  /\ UNCHANGED << override, projection, audit, comp, asOf, view >>

----------------------------------------------------------------------------
(* RebuildLotProjection: compose, then lay the stored override on top.  When that
   fails, a publish stores a bare story (the other composers store nothing). *)
Recompose(c) ==
  /\ comp[c].step = "idle"
  /\ \E story \in {override, Blank} : comp' = [comp EXCEPT ![c] = [step |-> "store", story |-> story, at |-> audit]]
  /\ UNCHANGED << override, rowLock, storyLock, projection, audit, tx, asOf, view >>

(* UpsertStoryProjection waits for a patch that holds the row; an error is logged
   and that was it. *)
StoreProjection(c) ==
  /\ comp[c].step = "store"
  /\ \/ storyLock = Null /\ projection' = comp[c].story /\ asOf' = comp[c].at
     \/ UNCHANGED << projection, asOf >>
  /\ comp' = [comp EXCEPT ![c] = NoComp]
  /\ UNCHANGED << override, rowLock, storyLock, audit, tx, view >>

(* maybeRebuildLotStory, AfterAppend, ComposeAndStoreLotStory: one after the other. *)
Rebuild(c) == Recompose(c) \/ StoreProjection(c)

----------------------------------------------------------------------------
Shows(story, sure) == view' = [step |-> "apply", story |-> story, during |-> {override}, sure |-> sure]

(* resolvePublicQR up to its fallbacks: the story composed with the override;
   when that could not be read, the projection; when there is none or it
   cannot be read either, a pending story. *)
Resolve ==
  /\ view.step # "apply"
  /\ \/ Shows(override, TRUE)
     \/ projection # NoProjection /\ Shows(projection, asOf = audit)
     \/ Shows(Blank, TRUE)
  /\ UNCHANGED << override, rowLock, storyLock, projection, audit, tx, comp, asOf >>

(* ApplyStoryOverride: a field it does not have stays as it is. *)
ApplyStoryOverride(story, ov) == [f \in Fields |-> IF ov[f] = Null THEN story[f] ELSE ov[f]]

(* applyStoredOverride and the answer. *)
Apply ==
  /\ view.step = "apply"
  /\ view' = NoView
  /\ UNCHANGED << override, rowLock, storyLock, projection, audit, tx, comp, asOf >>

(* What the scan answers; a failed read would leave its story as it is. *)
Answer == ApplyStoryOverride(view.story, override)

----------------------------------------------------------------------------
Next ==
  \/ \E p \in Patchers : SelectForUpdate(p) \/ Write(p) \/ Mirror(p) \/ Commit(p) \/ Rollback(p)
  \/ \E c \in Composers : Rebuild(c)
  \/ Resolve \/ Apply

Spec == Init /\ [][Next]_vars

----------------------------------------------------------------------------
(* Type invariant: an override column is NULL or a non-empty text, never a field the
   patch left out. *)
TypeOK ==
  /\ override \in Story
  /\ {rowLock, storyLock} \subseteq Patchers \cup {Null}
  /\ projection \in Story \cup {NoProjection}
  /\ audit \in 0..MaxPatches
  /\ tx \in [Patchers -> [step : {"idle", "write", "mirror", "commit"},
                          patch : Patches \cup {Blank}, prev : Story, next : Story]]
  /\ comp \in [Composers -> [step : {"idle", "store"}, story : Story, at : 0..MaxPatches]]
  /\ asOf \in 0..MaxPatches
  /\ view \in [step : {"idle", "apply"}, story : Story, during : SUBSET Story, sure : BOOLEAN]

(* Once a lot has an override, edits are serial: a patch that read a row still
   finds those values when it writes, so it changes no field it omits and its
   audit row's previous values are the ones it replaced. *)
ReadRowStays ==
  \A p \in Patchers :
    tx[p].step # "idle" /\ tx[p].prev # Blank =>
      rowLock = p /\ override = tx[p].prev

(* An omitted field is unchanged: the commit of a patch leaves the fields that
   its request left out as they were. *)
OmittedUnchanged ==
  [][\A p \in Patchers : tx[p].step = "commit" /\ tx'[p].step = "idle" =>
       \A f \in Fields : tx[p].patch[f] = Keep => override'[f] = override[f]]_vars

(* A scan shows each story field as it was at some moment of the scan, whichever
   of the three stories it falls back to and however edits run beside it: never
   a text that was cleared or replaced before, because an edit rewrites the
   projection's keys in its own transaction.  Excepted are a scan whose last
   read of the override failed and a projection written by a composer that had
   read the override before the last edit. *)
ScanIsCurrent ==
  view.step = "apply" /\ view.sure =>
    \A f \in Fields : Answer[f] \in {ov[f] : ov \in view.during}
============================================================================
