--------------------------- MODULE ScmSync_proofs ---------------------------
(***************************************************************************)
(* The mark never passes a row that was there to be read, for any number   *)
(* of syncing processes, rows, page size, window and failures.  A run      *)
(* works with a mark it read earlier and writes it back without looking,   *)
(* after its lock may have been lost: the invariant therefore speaks of    *)
(* every run's own mark and cursor, not of the stored mark alone.          *)
(***************************************************************************)
EXTENDS ScmSync, FiniteSetTheorems, WellFoundedInduction, TLAPS

(* What becomes of a row that was seen or came late. *)
Covered(r) == r \in copied \/ r \in behind

(* The mark, the mark every run works with and the place every run has read to
   have only such rows behind them, but for the rows of a page that a run is
   about to copy. *)
SyncInv ==
  /\ \A r \in Wanted : r <= mark => Covered(r)
  /\ \A s \in Syncers :
       /\ \A r \in Wanted : r <= run[s].high => Covered(r)
       /\ \A r \in Wanted : r <= run[s].from => Covered(r) \/ r \in run[s].todo
       /\ \A r \in run[s].page : r <= run[s].from
       /\ run[s].step # "copy" => run[s].todo = {}
       /\ run[s].step = "load" => run[s].page = {}

(* The inductive invariant. *)
IndInv == TypeOK /\ SyncInv

(* What TypeOK says of a run. *)
Runs == [step : {"idle", "load", "read", "copy"}, full : BOOLEAN, from : 0..MaxRow,
         high : 0..MaxRow, page : SUBSET Rows, todo : SUBSET Rows, scanned : Nat]

----------------------------------------------------------------------------
(* Every nonempty set of natural numbers has a least element. *)
LEMMA LeastExists ==
  ASSUME NEW S, S \subseteq Nat, S # {}
  PROVE  \E x \in S : \A y \in S : x <= y
<1> DEFINE R == {p \in Nat \X Nat : p[1] < p[2]}
<1>1. IsWellFoundedOn(R, Nat)
  BY NatLessThanWellFounded DEF OpToRel
<1>2. \A x, y \in Nat : y < x => << y, x >> \in R
  OBVIOUS
<1> HIDE DEF R
<1>3. PICK x \in S : \A y \in S : ~(<< y, x >> \in R)
  BY <1>1, WFMin
<1>4. \A y \in S : ~(y < x)
  BY <1>2, <1>3
<1> QED BY <1>4

(* Max is the greatest of a nonempty set of places. *)
LEMMA MaxPlace ==
  ASSUME NEW S, S \subseteq 0..MaxRow, S # {}
  PROVE  Max(S) \in S /\ \A y \in S : y <= Max(S)
<1> DEFINE D == {MaxRow - y : y \in S}
<1>1. MaxRow \in Nat
  BY TuningAssumption
<1>2. D \subseteq Nat /\ D # {}
  <2>1. \A y \in S : MaxRow - y \in Nat
    BY <1>1
  <2> QED BY <2>1
<1>3. PICK d \in D : \A e \in D : d <= e
  <2> HIDE DEF D
  <2> QED BY <1>2, LeastExists
<1>4. PICK x \in S : d = MaxRow - x
  BY <1>3
<1>5. \A y \in S : x >= y
  <2> SUFFICES ASSUME NEW y \in S PROVE x >= y
    OBVIOUS
  <2>1. MaxRow - x <= MaxRow - y
    BY <1>3, <1>4
  <2> QED BY <2>1, <1>1
<1>6. Max(S) \in S /\ \A y \in S : Max(S) >= y
  BY <1>5 DEF Max
<1> QED BY <1>1, <1>6

(* A page is a prefix of what is visible after the cursor: a visible row between
   the cursor and a row of the page is on the page. *)
LEMMA PageIsPrefix ==
  ASSUME visible \subseteq Rows, NEW from \in 0..MaxRow, NEW p \in PageAfter(from),
         NEW r \in visible, from < r, r <= p
  PROVE  r \in PageAfter(from)
<1> DEFINE Below(x) == {q \in visible : from < q /\ q < x}
<1>1. MaxRow \in Nat /\ PageSize \in Nat
  BY TuningAssumption
<1>2. p \in Rows /\ r \in Rows /\ Cardinality(Below(p)) < PageSize
  BY DEF PageAfter
<1>3. Below(r) \subseteq Below(p)
  <2>1. \A q \in visible : q < r => q < p
    BY <1>1, <1>2 DEF Rows
  <2> QED BY <2>1
<1>4. IsFiniteSet(Below(p))
  <2>1. IsFiniteSet(1..MaxRow)
    BY <1>1, FS_Interval
  <2> QED BY <2>1, FS_Subset DEF Rows
<1>5. Cardinality(Below(r)) <= Cardinality(Below(p)) /\ Cardinality(Below(r)) \in Nat
      /\ Cardinality(Below(p)) \in Nat
  BY <1>3, <1>4, FS_Subset, FS_CardinalityType
<1>6. Cardinality(Below(r)) < PageSize
  BY <1>1, <1>2, <1>5
<1> QED BY <1>6 DEF PageAfter

----------------------------------------------------------------------------
(* It holds before the first run. *)
LEMMA InitInv == Init => IndInv
<1> SUFFICES ASSUME Init PROVE IndInv
  OBVIOUS
<1>1. NoRun \in Runs /\ NoRun.todo = {} /\ NoRun.page = {}
  BY TuningAssumption DEF NoRun, Runs
<1>2. TypeOK
  BY <1>1, TuningAssumption, OrphansAssumption DEF Init, TypeOK, Runs, Rows
<1>3. SyncInv
  BY <1>1 DEF Init, SyncInv, Wanted
<1> QED BY <1>2, <1>3 DEF IndInv

(* The run of s is replaced by w, the others stay. *)
LEMMA RunType ==
  ASSUME TypeOK, NEW s \in Syncers, NEW w \in Runs, w.todo \subseteq w.page, run' = [run EXCEPT ![s] = w]
  PROVE  /\ run' \in [Syncers -> Runs] /\ run'[s] = w
         /\ \A q \in Syncers : q # s => run'[q] = run[q]
         /\ \A q \in Syncers : run'[q].todo \subseteq run'[q].page
BY DEF TypeOK, Runs

(* What the other steps need of the types. *)
LEMMA TypeFacts ==
  ASSUME TypeOK
  PROVE  /\ MaxRow \in Nat /\ visible \subseteq 1..MaxRow /\ mark \in 0..MaxRow
         /\ \A s \in Syncers : /\ run[s] \in Runs /\ run[s].todo \subseteq run[s].page
                               /\ run[s].from \in 0..MaxRow /\ run[s].high \in 0..MaxRow
                               /\ run[s].page \subseteq 1..MaxRow
BY TuningAssumption DEF TypeOK, Runs, Rows

(* A row that appears, or gets its business id, behind a mark or a cursor is
   counted as late. *)
LEMMA AppearInv ==
  ASSUME IndInv, UNCHANGED << poison, copied, mark, lock, ticks, run, failures >>,
         NEW r \in Rows, Wanted' \subseteq Wanted \cup {r},
         visible' \subseteq Rows, unresolved' \subseteq Rows,
         behind' \subseteq Rows, behind \subseteq behind',
         r \in Wanted' => r \in behind' \/ ~Late(r)
  PROVE  IndInv'
<1>1. TypeOK'
  BY DEF IndInv, TypeOK
<1>2. \A x : Covered(x) => Covered(x)'
  BY DEF Covered
<1>3. r \in Wanted' /\ r <= mark => Covered(r)'
  BY DEF Covered, Late
<1>4. ASSUME NEW s \in Syncers
      PROVE  r \in Wanted' /\ (r <= run[s].from \/ r <= run[s].high) => Covered(r)'
  BY DEF Covered, Late
<1>5. SyncInv'
  BY <1>2, <1>3, <1>4 DEF IndInv, SyncInv
<1> QED BY <1>1, <1>5 DEF IndInv

(* SCM commits a row, or the business id a row was lacking. *)
LEMMA InsertInv == IndInv /\ Insert => IndInv'
<1> SUFFICES ASSUME IndInv, Insert PROVE IndInv'
  OBVIOUS
<1>1. PICK r \in Rows \ visible :
        /\ visible' = visible \cup {r}
        /\ behind' = behind \cup {q \in {r} : Late(q)}
  BY DEF Insert
<1>2. UNCHANGED << unresolved, poison, copied, mark, lock, ticks, run, failures >>
  BY DEF Insert
<1>3. /\ Wanted' \subseteq Wanted \cup {r} /\ visible' \subseteq Rows /\ unresolved' \subseteq Rows
      /\ behind' \subseteq Rows /\ behind \subseteq behind' /\ (r \in behind' \/ ~Late(r))
  BY <1>1, <1>2 DEF Wanted, IndInv, TypeOK
<1> QED BY <1>2, <1>3, AppearInv

LEMMA ResolveInv == IndInv /\ Resolve => IndInv'
<1> SUFFICES ASSUME IndInv, Resolve PROVE IndInv'
  OBVIOUS
<1>1. PICK r \in unresolved :
        /\ unresolved' = unresolved \ {r}
        /\ behind' = behind \cup {q \in {r} \cap visible : Late(q)}
  BY DEF Resolve
<1>2. UNCHANGED << visible, poison, copied, mark, lock, ticks, run, failures >>
  BY DEF Resolve
<1>3. /\ r \in Rows
      /\ Wanted' \subseteq Wanted \cup {r} /\ visible' \subseteq Rows /\ unresolved' \subseteq Rows
      /\ behind' \subseteq Rows /\ behind \subseteq behind'
      /\ (r \in Wanted' => r \in behind' \/ ~Late(r))
  BY <1>1, <1>2 DEF Wanted, IndInv, TypeOK
<1> QED BY <1>2, <1>3, AppearInv

(* A run begins, ends or loads the mark: nobody has read anything yet. *)
LEMMA RunFrame ==
  ASSUME IndInv, UNCHANGED << visible, unresolved, copied, behind, mark >>, NEW s \in Syncers, NEW w \in Runs,
         run' = [run EXCEPT ![s] = w], w.todo = {}, w.page = {}, w.high <= mark, w.from <= mark
  PROVE  SyncInv' /\ run' \in [Syncers -> Runs] /\ \A q \in Syncers : run'[q].todo \subseteq run'[q].page
<1>1. /\ run' \in [Syncers -> Runs] /\ run'[s] = w
      /\ \A q \in Syncers : q # s => run'[q] = run[q]
      /\ \A q \in Syncers : run'[q].todo \subseteq run'[q].page
  BY RunType DEF IndInv
<1>2. \A r \in Wanted : r \in Nat /\ (r <= mark => Covered(r))
  BY TypeFacts DEF IndInv, SyncInv, Wanted
<1>3. mark \in Nat /\ w.high \in Nat /\ w.from \in Nat
  BY TypeFacts, TuningAssumption DEF IndInv, Runs
<1>4. \A r \in Wanted : (r <= w.high => Covered(r)) /\ (r <= w.from => Covered(r))
  BY <1>2, <1>3
<1>5. (\A x : Covered(x)' <=> Covered(x)) /\ Wanted' = Wanted
  BY DEF Covered, Wanted
<1>6. SyncInv'
  BY <1>1, <1>4, <1>5 DEF IndInv, SyncInv
<1> QED BY <1>1, <1>6

(* A process that is not running has read nothing. *)
LEMMA NoRunFacts == NoRun \in Runs /\ NoRun.todo = {} /\ NoRun.page = {} /\ NoRun.high = 0 /\ NoRun.from = 0
BY TuningAssumption DEF NoRun, Runs

(* Tick and OneShot. *)
LEMMA BeginInv == ASSUME NEW s \in Syncers PROVE IndInv /\ (Tick(s) \/ OneShot(s)) => IndInv'
<1> SUFFICES ASSUME IndInv, Tick(s) \/ OneShot(s) PROVE IndInv'
  OBVIOUS
<1>1. UNCHANGED << visible, unresolved, poison, copied, mark, behind, failures >>
  BY DEF Tick, OneShot
<1>2. lock' \in Syncers \cup {Free} /\ ticks' \in [Syncers -> 0..(FullEvery - 1)]
  <2>1. lock' = lock \/ lock' = s
    BY DEF Tick, OneShot, Begin
  <2>2. \A n \in 0..(FullEvery - 1) : NextTick(n) \in 0..(FullEvery - 1)
    BY TuningAssumption DEF NextTick
  <2>3. ticks' = ticks \/ ticks' = [ticks EXCEPT ![s] = NextTick(ticks[s])]
    BY DEF Tick, OneShot
  <2> QED BY <2>1, <2>2, <2>3 DEF IndInv, TypeOK
<1>3. run' = run \/ \E full \in BOOLEAN : run' = [run EXCEPT ![s] = [NoRun EXCEPT !.step = "load", !.full = full]]
  BY DEF Tick, OneShot, Begin, FullTick
<1>4. CASE run' = run
  BY <1>1, <1>2, <1>4 DEF IndInv, TypeOK, SyncInv, Covered, Wanted
<1>5. CASE \E full \in BOOLEAN : run' = [run EXCEPT ![s] = [NoRun EXCEPT !.step = "load", !.full = full]]
  <2>1. PICK full \in BOOLEAN : run' = [run EXCEPT ![s] = [NoRun EXCEPT !.step = "load", !.full = full]]
    BY <1>5
  <2> DEFINE w == [NoRun EXCEPT !.step = "load", !.full = full]
  <2>2. w \in Runs /\ w.todo = {} /\ w.page = {} /\ w.high = 0 /\ w.from = 0
    BY NoRunFacts DEF NoRun, Runs
  <2>3. mark \in Nat
    BY TypeFacts DEF IndInv
  <2>4. run' = [run EXCEPT ![s] = w]
    BY <2>1
  <2> HIDE DEF w
  <2>5. UNCHANGED << visible, unresolved, copied, behind, mark >> /\ w.high <= mark /\ w.from <= mark
    BY <1>1, <2>2, <2>3
  <2>6. SyncInv' /\ run' \in [Syncers -> Runs] /\ \A q \in Syncers : run'[q].todo \subseteq run'[q].page
    BY <2>2, <2>4, <2>5, RunFrame
  <2> QED BY <1>1, <1>2, <2>6 DEF IndInv, TypeOK, Runs
<1> QED BY <1>3, <1>4, <1>5

(* A run takes the stored mark as its own. *)
LEMMA LoadMarkInv == ASSUME NEW s \in Syncers PROVE IndInv /\ LoadMark(s) => IndInv'
<1> SUFFICES ASSUME IndInv, LoadMark(s) PROVE IndInv'
  OBVIOUS
<1> DEFINE full == run[s].full \/ ~HasMark
           f == IF full THEN 0 ELSE Max0(mark - Window - 1)
           w == [run[s] EXCEPT !.step = "read", !.full = full, !.high = mark, !.from = f]
<1>1. UNCHANGED << visible, unresolved, poison, copied, mark, lock, ticks, behind, failures >>
  BY DEF LoadMark
<1>2. run' = [run EXCEPT ![s] = w] /\ run[s].step = "load"
  BY DEF LoadMark
<1>3. mark \in 0..MaxRow /\ MaxRow \in Nat /\ Window \in Nat
  BY TypeFacts, TuningAssumption DEF IndInv
<1>4. f \in 0..MaxRow /\ f <= mark
  BY <1>3 DEF Max0
<1>5. run[s] \in Runs /\ run[s].todo = {} /\ run[s].page = {} /\ full \in BOOLEAN
  BY <1>2, TypeFacts DEF IndInv, SyncInv
<1> HIDE DEF full, f
<1>6. w \in Runs /\ w.high = mark /\ w.from = f /\ w.page = {} /\ w.todo = {}
  BY <1>3, <1>4, <1>5 DEF Runs
<1> HIDE DEF w
<1>7. UNCHANGED << visible, unresolved, copied, behind, mark >> /\ w.high <= mark /\ w.from <= mark
  BY <1>1, <1>3, <1>4, <1>6
<1>8. SyncInv' /\ run' \in [Syncers -> Runs] /\ \A q \in Syncers : run'[q].todo \subseteq run'[q].page
  BY <1>2, <1>6, <1>7, RunFrame
<1> QED BY <1>1, <1>8 DEF IndInv, TypeOK, Runs

(* A page is read: the rows it skips were copied or filtered out. *)
LEMMA ReadPageInv == ASSUME NEW s \in Syncers PROVE IndInv /\ ReadPage(s) => IndInv'
<1> SUFFICES ASSUME IndInv, ReadPage(s) PROVE IndInv'
  OBVIOUS
<1> DEFINE page == PageAfter(run[s].from)
           f == IF page = {} THEN run[s].from ELSE Max(page)
           n == run[s].scanned + Cardinality(page)
           w == [run[s] EXCEPT !.step = "copy", !.page = page, !.todo = page \ (copied \cup unresolved),
                               !.scanned = n, !.from = f]
<1>1. UNCHANGED << visible, unresolved, poison, copied, mark, lock, ticks, behind, failures >>
  BY DEF ReadPage
<1>2. run' = [run EXCEPT ![s] = w] /\ run[s].step = "read"
  BY DEF ReadPage
<1>3. /\ MaxRow \in Nat /\ visible \subseteq 1..MaxRow /\ run[s].from \in 0..MaxRow
      /\ run[s] \in Runs /\ run[s].todo = {}
  BY <1>2, TypeFacts DEF IndInv, SyncInv
<1>4. page \subseteq visible /\ \A r \in page : r > run[s].from
  BY DEF PageAfter
<1>5. n \in Nat
  <2>1. IsFiniteSet(1..MaxRow)
    BY <1>3, FS_Interval
  <2>2. IsFiniteSet(page)
    BY <2>1, <1>3, <1>4, FS_Subset
  <2> QED BY <2>2, <1>3, FS_CardinalityType DEF Runs
<1>6. /\ f \in 0..MaxRow /\ f >= run[s].from /\ \A r \in page : r <= f
      /\ page # {} => f \in page
  <2>1. CASE page = {}
    BY <2>1, <1>3
  <2>2. CASE page # {}
    <3> HIDE DEF page
    <3>1. page \subseteq 0..MaxRow
      BY <1>3, <1>4
    <3>2. f \in page /\ \A r \in page : r <= f
      BY <2>2, <3>1, MaxPlace
    <3> HIDE DEF f
    <3>3. f \in 0..MaxRow /\ f > run[s].from
      BY <1>4, <3>1, <3>2
    <3>4. f >= run[s].from
      BY <1>3, <3>3
    <3> QED BY <3>2, <3>3, <3>4
  <2> QED BY <2>1, <2>2
<1>7. \A r \in visible : r <= f /\ ~(r <= run[s].from) => r \in page
  <2> SUFFICES ASSUME NEW r \in visible, r <= f, ~(r <= run[s].from) PROVE r \in page
    OBVIOUS
  <2>1. run[s].from < r
    BY <1>3
  <2>2. page # {}
    BY <1>3, <2>1
  <2> QED BY <1>3, <1>6, <2>1, <2>2, PageIsPrefix DEF Rows
<1> HIDE DEF page, f, n
<1>8. /\ w \in Runs /\ w.todo = page \ (copied \cup unresolved) /\ w.page = page
      /\ w.from = f /\ w.high = run[s].high /\ w.step = "copy"
  BY <1>3, <1>4, <1>5, <1>6 DEF Runs, Rows
<1> HIDE DEF w
<1>9. /\ run' \in [Syncers -> Runs] /\ run'[s] = w
      /\ \A q \in Syncers : q # s => run'[q] = run[q]
      /\ \A q \in Syncers : run'[q].todo \subseteq run'[q].page
  BY <1>2, <1>8, RunType DEF IndInv
<1>10. (\A x : Covered(x)' <=> Covered(x)) /\ Wanted' = Wanted
  BY <1>1 DEF Covered, Wanted
<1>11. \A r \in Wanted : r <= f => Covered(r) \/ r \in w.todo
  <2>1. \A r \in Wanted : r <= run[s].from => Covered(r)
    BY <1>3 DEF IndInv, SyncInv
  <2> QED BY <1>7, <1>8, <2>1 DEF Covered, Wanted
<1>12. SyncInv'
  <2>1. \A r \in Wanted : r <= mark => Covered(r)
    BY DEF IndInv, SyncInv
  <2>2. ASSUME NEW q \in Syncers
        PROVE  /\ \A r \in Wanted : r <= run'[q].high => Covered(r)
               /\ \A r \in Wanted : r <= run'[q].from => Covered(r) \/ r \in run'[q].todo
               /\ \A r \in run'[q].page : r <= run'[q].from
               /\ run'[q].step # "copy" => run'[q].todo = {}
               /\ run'[q].step = "load" => run'[q].page = {}
    <3>1. CASE q = s
      BY <3>1, <1>6, <1>8, <1>9, <1>11 DEF IndInv, SyncInv
    <3>2. CASE q # s
      BY <3>2, <1>9 DEF IndInv, SyncInv
    <3> QED BY <3>1, <3>2
  <2> QED BY <1>1, <1>10, <2>1, <2>2 DEF SyncInv
<1> QED BY <1>1, <1>9, <1>12 DEF IndInv, TypeOK, Runs

(* One row of the page is copied. *)
LEMMA CopyOneInv == ASSUME NEW s \in Syncers PROVE IndInv /\ CopyOne(s) => IndInv'
<1> SUFFICES ASSUME IndInv, CopyOne(s) PROVE IndInv'
  OBVIOUS
<1>1. UNCHANGED << visible, unresolved, poison, mark, lock, ticks, behind, failures >> /\ run[s].step = "copy"
  BY DEF CopyOne
<1>2. PICK r \in run[s].todo \ poison : copied' = copied \cup {r} /\ run' = [run EXCEPT ![s].todo = @ \ {r}]
  BY DEF CopyOne
<1> DEFINE w == [run[s] EXCEPT !.todo = @ \ {r}]
<1>3. run[s] \in Runs /\ run[s].todo \subseteq run[s].page /\ run[s].page \subseteq Rows
  BY TypeFacts DEF IndInv, Rows
<1>4. /\ w \in Runs /\ w.todo = run[s].todo \ {r} /\ w.page = run[s].page
      /\ w.from = run[s].from /\ w.high = run[s].high /\ w.step = "copy"
  BY <1>1, <1>3 DEF Runs
<1>5. run' = [run EXCEPT ![s] = w]
  BY <1>2
<1> HIDE DEF w
<1>6. /\ run' \in [Syncers -> Runs] /\ run'[s] = w
      /\ \A q \in Syncers : q # s => run'[q] = run[q]
      /\ \A q \in Syncers : run'[q].todo \subseteq run'[q].page
  <2>1. w.todo \subseteq w.page
    BY <1>3, <1>4
  <2> QED BY <1>4, <1>5, <2>1, RunType DEF IndInv
<1>7. (\A x : Covered(x) => Covered(x)') /\ Covered(r)' /\ Wanted' = Wanted
  BY <1>1, <1>2 DEF Covered, Wanted
<1>8. SyncInv'
  <2>2. ASSUME NEW q \in Syncers
        PROVE  /\ \A x \in Wanted : x <= run'[q].high => Covered(x)'
               /\ \A x \in Wanted : x <= run'[q].from => Covered(x)' \/ x \in run'[q].todo
               /\ \A x \in run'[q].page : x <= run'[q].from
               /\ run'[q].step # "copy" => run'[q].todo = {}
               /\ run'[q].step = "load" => run'[q].page = {}
    <3>1. CASE q = s
      BY <3>1, <1>4, <1>6, <1>7 DEF IndInv, SyncInv
    <3>2. CASE q # s
      BY <3>2, <1>6, <1>7 DEF IndInv, SyncInv
    <3> QED BY <3>1, <3>2
  <2>3. \A x \in Wanted : x <= mark => Covered(x)'
    BY <1>7 DEF IndInv, SyncInv
  <2> QED BY <1>1, <1>7, <2>2, <2>3 DEF SyncInv
<1>9. copied' \subseteq Rows
  BY <1>2, <1>3 DEF IndInv, TypeOK
<1> QED BY <1>1, <1>6, <1>8, <1>9 DEF IndInv, TypeOK, Runs

(* CopyFails and Fail: the run ends with what it has done. *)
LEMMA EndRunInv == ASSUME NEW s \in Syncers PROVE IndInv /\ (CopyFails(s) \/ Fail(s)) => IndInv'
<1> SUFFICES ASSUME IndInv, CopyFails(s) \/ Fail(s) PROVE IndInv'
  OBVIOUS
<1>1. UNCHANGED << visible, unresolved, copied, mark, ticks, behind >>
  BY DEF CopyFails, Fail
<1>2. run' = [run EXCEPT ![s] = NoRun] /\ lock' \in Syncers \cup {Free}
  BY DEF CopyFails, Fail, EndRun, Unlock, IndInv, TypeOK
<1>3. UNCHANGED << visible, unresolved, copied, behind, mark >> /\ NoRun.high <= mark /\ NoRun.from <= mark
  <2>1. mark \in Nat
    BY TypeFacts DEF IndInv
  <2> QED BY <1>1, <2>1, NoRunFacts
<1>4. SyncInv' /\ run' \in [Syncers -> Runs] /\ \A q \in Syncers : run'[q].todo \subseteq run'[q].page
  BY <1>2, <1>3, NoRunFacts, RunFrame
<1> QED BY <1>1, <1>2, <1>4 DEF IndInv, TypeOK, Runs

(* The mark is written back, perhaps over a later one. *)
LEMMA SaveMarkInv == ASSUME NEW s \in Syncers PROVE IndInv /\ SaveMark(s) => IndInv'
<1> SUFFICES ASSUME IndInv, SaveMark(s) PROVE IndInv'
  OBVIOUS
<1> DEFINE h == HighAfter(s)
           w == [run[s] EXCEPT !.step = "read", !.high = h]
<1>1. UNCHANGED << visible, unresolved, poison, copied, ticks, behind, failures >> /\ run[s].todo = {}
  BY DEF SaveMark
<1>2. /\ MaxRow \in Nat /\ visible \subseteq 1..MaxRow /\ run[s] \in Runs /\ mark \in 0..MaxRow
      /\ run[s].from \in 0..MaxRow /\ run[s].high \in 0..MaxRow /\ run[s].page \subseteq 1..MaxRow
  BY TypeFacts DEF IndInv
<1>3. h \in run[s].page \cup {run[s].high} /\ h \in 0..MaxRow
  <2>1. run[s].page \cup {run[s].high} \subseteq 0..MaxRow
    BY <1>2
  <2> QED BY <2>1, MaxPlace DEF HighAfter
<1>4. \A r \in Wanted : r <= h => Covered(r)
  <2>1. h <= run[s].from \/ h = run[s].high
    BY <1>3 DEF IndInv, SyncInv
  <2>2. /\ \A r \in Wanted : r <= run[s].high => Covered(r)
        /\ \A r \in Wanted : r <= run[s].from => Covered(r)
    BY <1>1 DEF IndInv, SyncInv
  <2>3. \A r \in Wanted : r \in Nat
    BY <1>2 DEF Wanted
  <2> QED BY <1>2, <1>3, <2>1, <2>2, <2>3
<1>5. mark' = mark \/ mark' = h
  BY DEF SaveMark, Save
<1>6. (\A x : Covered(x)' <=> Covered(x)) /\ Wanted' = Wanted
  BY <1>1 DEF Covered, Wanted
<1>7. mark' \in 0..MaxRow /\ \A r \in Wanted : r <= mark' => Covered(r)
  BY <1>2, <1>3, <1>4, <1>5 DEF IndInv, SyncInv
<1>8. lock' \in Syncers \cup {Free}
  BY DEF SaveMark, EndRun, Unlock, IndInv, TypeOK
<1>9. run' = [run EXCEPT ![s] = NoRun] \/ run' = [run EXCEPT ![s] = w]
  BY DEF SaveMark, EndRun
<1>10. /\ w \in Runs /\ w.todo = {} /\ w.page = run[s].page
       /\ w.from = run[s].from /\ w.high = h /\ w.step = "read"
  BY <1>1, <1>2, <1>3 DEF Runs
<1> HIDE DEF h, w
<1>11. PICK v \in {NoRun, w} : run' = [run EXCEPT ![s] = v]
  BY <1>9
<1>12. /\ run' \in [Syncers -> Runs] /\ run'[s] = v
       /\ \A q \in Syncers : q # s => run'[q] = run[q]
       /\ \A q \in Syncers : run'[q].todo \subseteq run'[q].page
  <2>1. v \in Runs /\ v.todo \subseteq v.page
    BY <1>10, NoRunFacts
  <2> QED BY <1>11, <2>1, RunType DEF IndInv
<1>13. SyncInv'
  <2>1. ASSUME NEW q \in Syncers
        PROVE  /\ \A x \in Wanted : x <= run'[q].high => Covered(x)
               /\ \A x \in Wanted : x <= run'[q].from => Covered(x) \/ x \in run'[q].todo
               /\ \A x \in run'[q].page : x <= run'[q].from
               /\ run'[q].step # "copy" => run'[q].todo = {}
               /\ run'[q].step = "load" => run'[q].page = {}
    <3>1. CASE q = s /\ v = w
      BY <3>1, <1>1, <1>4, <1>10, <1>12 DEF IndInv, SyncInv
    <3>2. CASE q = s /\ v = NoRun
      <4>1. \A x \in Wanted : ~(x <= 0)
        BY <1>2 DEF Wanted
      <4> QED BY <3>2, <4>1, <1>12, NoRunFacts
    <3>3. CASE q # s
      BY <3>3, <1>12 DEF IndInv, SyncInv
    <3> QED BY <3>1, <3>2, <3>3
  <2> QED BY <1>6, <1>7, <2>1 DEF SyncInv
<1> QED BY <1>1, <1>7, <1>8, <1>12, <1>13 DEF IndInv, TypeOK, Runs

(* Every step keeps the invariant. *)
LEMMA StepInv == IndInv /\ [Next]_vars => IndInv'
<1> SUFFICES ASSUME IndInv, [Next]_vars PROVE IndInv'
  OBVIOUS
<1>1. CASE UNCHANGED vars
  BY <1>1 DEF vars, IndInv, TypeOK, SyncInv, Covered, Wanted
<1>2. ASSUME NEW s \in Syncers, LoseLock(s) PROVE IndInv'
  BY <1>2 DEF LoseLock, IndInv, TypeOK, SyncInv, Covered, Wanted
<1>3. CASE Next
  BY <1>2, <1>3, InsertInv, ResolveInv, BeginInv, LoadMarkInv, ReadPageInv, CopyOneInv, EndRunInv, SaveMarkInv
     DEF Next, Work
<1> QED BY <1>1, <1>3

(* The high-water mark is never beyond a row of the SCM feed that was there when
   it was read and is not in the ledger, whichever runs overlap, lose their lock
   or stop between two pages. *)
THEOREM MarkPassesNothing == Spec => []NothingPassedOver
<1>1. IndInv => NothingPassedOver
  BY DEF IndInv, SyncInv, Covered, NothingPassedOver
<1> QED BY <1>1, InitInv, StepInv, PTL DEF Spec
============================================================================
