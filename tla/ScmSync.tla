------------------------------ MODULE ScmSync ------------------------------
(***************************************************************************)
(* The copy of SCM's custody events (internal/scmsync): every replica's    *)
(* loop ticks, one at a time under a session advisory lock, reads pages    *)
(* of public.trace_events in (created_at, id) order, appends what is not   *)
(* there yet and moves a stored high-water mark.                           *)
(*                                                                         *)
(* A source row is its place 1, 2, 3, ... in (created_at, id) order; SCM   *)
(* transactions commit in any order, so a row may become visible after     *)
(* rows behind it.  Window is measured in places too.  Orphans are rows    *)
(* that SCM may commit with an entity whose business id cannot be resolved *)
(* yet, or ever.  The lock belongs to one connection: when that breaks,    *)
(* another replica may start while the run that lost it goes on over the   *)
(* pool.  QR rows are copied at the end of a run; what that does is        *)
(* ImportQR of QrLifecycle and of Outbox.                                  *)
(***************************************************************************)
EXTENDS Integers, FiniteSets, FiniteSetsExt

CONSTANTS
  Syncers,      \* processes that sync: replicas, the one-shot cmd/migrate-scm
  MaxRow,       \* bound on source rows
  Orphans,      \* rows with no business id at first
  MaybePoison,  \* rows that AppendEvent may refuse for good
  PageSize, MaxPerTick, Window,
  MaxFailures,  \* bound on failed runs and lost locks
  FullEvery,    \* every FullEvery-th tick of a replica is a full rescan
  Free          \* nobody holds syncLockKey

ASSUME TuningAssumption ==
  /\ MaxRow \in Nat /\ Window \in Nat /\ MaxFailures \in Nat
  /\ PageSize \in Nat \ {0} /\ MaxPerTick \in Nat \ {0} /\ FullEvery \in Nat \ {0}
ASSUME OrphansAssumption == Orphans \cup MaybePoison \subseteq 1..MaxRow /\ Free \notin Syncers

VARIABLES
  visible,  \* committed rows of public.trace_events
  unresolved, \* rows whose entity has no business id in public.*
  poison,   \* rows whose append fails every time
  copied,   \* rows in trace_events under their scm-migrate: key
  mark,     \* scm_sync_state: the high-water mark, 0 when there is none
  lock,     \* holder of syncLockKey
  ticks,    \* ticks[s]: Syncer.ticks, modulo FullEvery
  run,      \* run[s]: the locals of s's run
  failures, \* failed runs and lost locks so far
  behind    \* history: rows that became visible, or got their business id, behind
            \* the mark, the mark a run works with or a page a run had read

vars == << visible, unresolved, poison, copied, mark, lock, ticks, run, failures, behind >>

(* Rows of public.trace_events, by their place. *)
Rows == 1..MaxRow

(* Rows copyPage copies: COALESCE finds a business id. *)
Wanted == visible \ unresolved

(* full, from and high as in run(); page is what readPage returned, todo what
   copyPage has yet to append; scanned counts rows. *)
NoRun == [step |-> "idle", full |-> FALSE, from |-> 0, high |-> 0, page |-> {}, todo |-> {},
          scanned |-> 0]

Init ==
  /\ visible = {}
  /\ unresolved = Orphans
  /\ poison \in SUBSET MaybePoison
  /\ copied = {}
  /\ mark = 0
  /\ lock = Free
  /\ ticks = [s \in Syncers |-> 0]
  /\ run = [s \in Syncers |-> NoRun]
  /\ failures = 0
  /\ behind = {}

----------------------------------------------------------------------------
(* The runs, or the one that follows, will not see r, but for the window. *)
Late(r) == r <= mark \/ \E s \in Syncers : r <= run[s].from \/ r <= run[s].high

(* SCM commits a row. *)
Insert ==
  /\ \E r \in Rows \ visible :
       /\ visible' = visible \cup {r}
       /\ behind' = behind \cup {q \in {r} : Late(q)}
  /\ UNCHANGED << unresolved, poison, copied, mark, lock, ticks, run, failures >>

(* The batch, lot, farmer, farm or party of a row gets its business id in SCM:
   a row that was skipped may be there to be copied now. *)
Resolve ==
  /\ \E r \in unresolved :
       /\ unresolved' = unresolved \ {r}
       /\ behind' = behind \cup {q \in {r} \cap visible : Late(q)}
  /\ UNCHANGED << visible, poison, copied, mark, lock, ticks, run, failures >>

(* Tick: the first tick after start and every FullEvery-th after it. *)
FullTick(s) == ticks[s] % FullEvery = 0

(* The counter wraps where the code's does not: only its remainder counts. *)
NextTick(n) == (n + 1) % FullEvery

(* Run: s has the lock and its run begins. *)
Begin(s, full) ==
  /\ lock' = s
  /\ run' = [run EXCEPT ![s] = [NoRun EXCEPT !.step = "load", !.full = full]]

(* Tick, Run: the tick is counted whether or not pg_try_advisory_lock succeeds;
   without the lock the run is over (ErrLocked). *)
Tick(s) ==
  /\ run[s].step = "idle"
  /\ ticks' = [ticks EXCEPT ![s] = NextTick(@)]
  /\ IF lock = Free THEN Begin(s, FullTick(s)) ELSE UNCHANGED << lock, run >>
  /\ UNCHANGED << visible, unresolved, poison, copied, mark, behind, failures >>

(* cmd/migrate-scm: one full run; it exits at once when the lock is taken. *)
OneShot(s) ==
  /\ run[s].step = "idle"
  /\ lock = Free
  /\ Begin(s, TRUE)
  /\ UNCHANGED << visible, unresolved, poison, copied, mark, ticks, behind, failures >>

Max0(n) == IF n > 0 THEN n ELSE 0

(* loadMark: scm_sync_state has a mark. *)
HasMark == mark # 0

(* Mutant of LoadMark: a full run starts at the window, too. *)
LoadMarkAlways(s) ==
  /\ run[s].step = "load"
  /\ run' = [run EXCEPT ![s].step = "read", ![s].high = mark,
                        ![s].from = Max0(mark - Window - 1)]
  /\ UNCHANGED << visible, unresolved, poison, copied, mark, lock, ticks, behind, failures >>

(* run: with no mark the run is full.  An incremental run starts Window
   behind the mark: `from` is the last place it does not read. *)
LoadMark(s) ==
  /\ run[s].step = "load"
  /\ LET full == run[s].full \/ ~HasMark IN
     run' = [run EXCEPT ![s].step = "read", ![s].full = full, ![s].high = mark,
                        ![s].from = IF full THEN 0 ELSE Max0(mark - Window - 1)]
  /\ UNCHANGED << visible, unresolved, poison, copied, mark, lock, ticks, behind, failures >>

(* The PageSize lowest visible rows after `from`. *)
PageAfter(from) ==
  {r \in visible : r > from /\ Cardinality({q \in visible : from < q /\ q < r}) < PageSize}

(* readPage, which resolves the business ids, and copyPage's look-up of existing
   keys. *)
ReadPage(s) ==
  /\ run[s].step = "read"
  /\ LET page == PageAfter(run[s].from) IN
     run' = [run EXCEPT ![s].step = "copy", ![s].page = page,
                        ![s].todo = page \ (copied \cup unresolved),
                        ![s].scanned = @ + Cardinality(page),
                        ![s].from = IF page = {} THEN @ ELSE Max(page)]
  /\ UNCHANGED << visible, unresolved, poison, copied, mark, lock, ticks, behind, failures >>

(* copyPage: AppendEvent, one row after the other, in occurred_at order, which
   is any order here; its key makes a second append a no-op. *)
CopyOne(s) ==
  /\ run[s].step = "copy"
  /\ \E r \in run[s].todo \ poison :
       /\ copied' = copied \cup {r}
       /\ run' = [run EXCEPT ![s].todo = @ \ {r}]
  /\ UNCHANGED << visible, unresolved, poison, mark, lock, ticks, behind, failures >>

(* Mutant of Unlock: the deferred pg_advisory_unlock is forgotten. *)
UnlockNever(s) == UNCHANGED lock

Unlock(s) == lock' = IF lock = s THEN Free ELSE lock

(* Run returns: saveRun, which leaves the mark alone, then the deferred unlock. *)
EndRun(s) == run' = [run EXCEPT ![s] = NoRun] /\ Unlock(s)

(* copyPage: an append fails and takes the run with it, the rest of the page and
   its mark included. *)
CopyFails(s) ==
  /\ run[s].step = "copy"
  /\ run[s].todo \cap poison # {}
  /\ EndRun(s)
  /\ UNCHANGED << visible, unresolved, poison, copied, mark, ticks, behind, failures >>

(* high after the page. *)
HighAfter(s) == Max(run[s].page \cup {run[s].high})

(* The loop ends on a short page, and in an incremental run at the cap. *)
LastPage(s) ==
  \/ Cardinality(run[s].page) < PageSize
  \/ ~run[s].full /\ run[s].scanned >= MaxPerTick

(* Mutant of SaveMark: progress is stored before the page is copied. *)
SaveMarkEarly(s) ==
  /\ run[s].step = "copy"
  /\ mark' = HighAfter(s)
  /\ IF run[s].todo # {}
       THEN run' = [run EXCEPT ![s].high = HighAfter(s)] /\ UNCHANGED lock
       ELSE EndRun(s)
  /\ UNCHANGED << visible, unresolved, poison, copied, ticks, behind, failures >>

(* saveMark: the mark is overwritten, never compared. *)
Save(high) == mark' = high

(* saveMark (not for an empty page), then the next page or, after copyQRCodes,
   the end of the run. *)
SaveMark(s) ==
  /\ run[s].step = "copy"
  /\ run[s].todo = {}
  /\ IF run[s].page = {} THEN UNCHANGED mark ELSE Save(HighAfter(s))
  /\ IF LastPage(s)
       THEN EndRun(s)
       ELSE /\ run' = [run EXCEPT ![s].step = "read", ![s].high = HighAfter(s)]
            /\ UNCHANGED lock
  /\ UNCHANGED << visible, unresolved, poison, copied, ticks, behind, failures >>

(* A query fails, the tick's five minutes are over or the tick panics: the
   deferred unlock runs, the pages done so far stay done. *)
Fail(s) ==
  /\ failures < MaxFailures /\ failures' = failures + 1
  /\ run[s].step # "idle"
  /\ EndRun(s)
  /\ UNCHANGED << visible, unresolved, poison, copied, mark, ticks, behind >>

(* The lock's connection breaks; the run does not notice. *)
LoseLock(s) ==
  /\ failures < MaxFailures /\ failures' = failures + 1
  /\ lock = s
  /\ lock' = Free
  /\ UNCHANGED << visible, unresolved, poison, copied, mark, ticks, run, behind >>

----------------------------------------------------------------------------
Work(s) == LoadMark(s) \/ ReadPage(s) \/ CopyOne(s) \/ CopyFails(s) \/ SaveMark(s)

Next ==
  \/ Insert \/ Resolve
  \/ \E s \in Syncers : Tick(s) \/ OneShot(s) \/ Work(s) \/ Fail(s) \/ LoseLock(s)

Spec == Init /\ [][Next]_vars

(* Loop ticks for ever and a run goes on.  A full rescan that fails every time
   never gets to a late row; MaxFailures says that failures stop. *)
Fairness == \A s \in Syncers : WF_vars(Tick(s)) /\ WF_vars(Work(s))

FairSpec == Spec /\ Fairness

----------------------------------------------------------------------------
(* Type invariant: the mark and a run's cursor are places of source rows, and what is
   left to copy is part of the page. *)
TypeOK ==
  /\ visible \subseteq Rows /\ unresolved \subseteq Rows /\ copied \subseteq Rows /\ behind \subseteq Rows
  /\ mark \in 0..MaxRow
  /\ lock \in Syncers \cup {Free}
  /\ ticks \in [Syncers -> 0..(FullEvery - 1)]
  /\ run \in [Syncers -> [step : {"idle", "load", "read", "copy"}, full : BOOLEAN, from : 0..MaxRow,
                           high : 0..MaxRow, page : SUBSET Rows, todo : SUBSET Rows, scanned : Nat]]
  /\ \A s \in Syncers : run[s].todo \subseteq run[s].page

(* The mark never passes a row that was there to be read: whatever failed,
   whichever run lost its lock, a row at or before the mark is copied unless
   SCM committed it, or the business id of its entity, late. *)
NothingPassedOver == \A r \in Wanted : r <= mark => r \in copied \cup behind

(* A refused row before r, or on the same page as r, keeps r from being copied. *)
Blocked(r) ==
  \E p \in poison \cap Wanted :
    p <= r \/ Cardinality({q \in visible : r < q /\ q < p}) < PageSize - 1

(* Every row that SCM commits in order is copied in the end, whichever replica
   gets the lock and whatever failed or lost it on the way; a row that is
   refused every time holds up only what comes behind its page. *)
EventuallyCopied == \A r \in Rows : r \in Wanted \ behind ~> r \in copied \/ Blocked(r)

(* "The safety net for anything inserted behind the mark by more than Window":
   as long as full rescans keep getting the lock, late rows are copied too,
   short of a refused row.  (They need not get it: a full tick that finds it
   taken is counted all the same.) *)
FullRescan == \E s \in Syncers : run[s].step = "load" /\ run[s].full
RescanFindsLateRows ==
  []<>FullRescan => \A r \in Rows : r \in Wanted ~> r \in copied \/ Blocked(r)
============================================================================
