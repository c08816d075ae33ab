-------------------------- MODULE Consumer_proofs --------------------------
(***************************************************************************)
(* Proofs about Consumer, for any number of replicas, messages, rebalances *)
(* and failures.  SkippedIsRecorded needs to know of every step of         *)
(* handling a message which writes are behind it (RowInv), and that each   *)
(* replica reads in order, so that everything before its message is done   *)
(* by somebody (OffsetInv).  That the entity projection only goes  *)
(* forward needs a second invariant on top: a handler that is not stale is *)
(* the owner's and has the newest message.                                 *)
(***************************************************************************)
EXTENDS Consumer, WellFoundedInduction, TLAPS

(* What TypeOK says of a message being handled. *)
WorkItem == [offset : 0..MaxMessages, step : Steps, stale : BOOLEAN]

(* A row has its own event's key, and is there before anything that lets the
   event be skipped: its dedupe mark, and the steps of handling it that come
   after the append. *)
RowInv ==
  /\ \A i \in Ids : rows[i] # Nobody => IdOf[rows[i]] = i
  /\ \A e \in Events : IdOf[e] \in seen => InLedger(e)
  /\ \A r \in Replicas :
       /\ work[r].step \in {"entity", "mark", "commit"} => Recorded(work[r].offset)
       /\ work[r].step = "commit" => Id(r) \in seen

(* Message n has been dealt with: recorded, and marked as long as nothing has
   failed. *)
Done(n) ==
  /\ Recorded(n) \/ n \in failed
  /\ IdOf[log[n]] \in seen \/ failed # {}

(* A replica reads in order: what is before the message it handles, or before
   its position, is done, whoever did it. *)
OffsetInv ==
  /\ \A n \in 1..committed : Done(n)
  /\ \A r \in Replicas : /\ \A n \in 1..(work[r].offset - 1) : Done(n)
                         /\ \A n \in 1..pos[r] : Done(n) \/ n = work[r].offset

(* The invariant of the safety property. *)
IndInv == TypeOK /\ RowInv /\ OffsetInv

(* What the other steps need of the types. *)
InRange ==
  /\ Len(log) \in Nat /\ committed \in 0..Len(log) /\ Len(log) <= MaxMessages
  /\ \A n \in 1..Len(log) : log[n] \in Events
  /\ \A q \in Replicas :
       /\ pos[q] \in 0..Len(log) /\ work[q] \in WorkItem /\ work[q].offset \in 0..Len(log)
       /\ work[q].offset = 0 <=> work[q] = Idle
       /\ work[q].step = "fetch" <=> work[q] = Idle

(* The types put those numbers in range. *)
LEMMA TypeFacts == TypeOK => InRange
BY BoundsAssumption DEF TypeOK, WorkItem, InRange

(* A step that only moves r on to step s. *)
LEMMA GotoWork ==
  ASSUME TypeOK, NEW r \in Replicas, NEW s \in Steps \ {"fetch"}, work[r].step # "fetch", Goto(r, s)
  PROVE  /\ work' \in [Replicas -> WorkItem]
         /\ \A q \in Replicas : q # r => work'[q] = work[q]
         /\ work'[r].step = s /\ work'[r].offset = work[r].offset /\ work'[r].stale = work[r].stale
         /\ work[r].offset \in 1..Len(log) /\ Message(r) \in Events
         /\ \A q \in Replicas : work'[q].offset = work[q].offset
         /\ \A q \in Replicas : /\ work'[q].offset = 0 <=> work'[q] = Idle
                                /\ work'[q].step = "fetch" <=> work'[q] = Idle
<1>1. /\ work[r].offset \in 1..Len(log) /\ work[r] \in WorkItem /\ work \in [Replicas -> WorkItem]
      /\ Len(log) \in Nat /\ log \in Seq(Events)
  BY TypeFacts DEF InRange, TypeOK, WorkItem
<1>2. work' = [work EXCEPT ![r] = [work[r] EXCEPT !.step = s]]
  BY DEF Goto
<1>3. [work[r] EXCEPT !.step = s] \in WorkItem
  BY <1>1 DEF WorkItem
<1>4. /\ work' \in [Replicas -> WorkItem] /\ work'[r] = [work[r] EXCEPT !.step = s]
      /\ \A q \in Replicas : q # r => work'[q] = work[q]
  BY <1>1, <1>2, <1>3
<1>5. work'[r].step = s /\ work'[r].offset = work[r].offset /\ work'[r].stale = work[r].stale
  BY <1>1, <1>4 DEF WorkItem
<1>6. Message(r) \in Events
  BY <1>1 DEF Message
<1>7. work'[r] # Idle /\ work'[r].offset # 0
  BY <1>1, <1>5 DEF Idle
<1>8. ASSUME NEW q \in Replicas
      PROVE  /\ work'[q].offset = 0 <=> work'[q] = Idle
             /\ work'[q].step = "fetch" <=> work'[q] = Idle
  BY <1>4, <1>5, <1>7 DEF TypeOK
<1> QED BY <1>1, <1>4, <1>5, <1>6, <1>8

(* It holds of an empty partition. *)
LEMMA InitInv == Init => IndInv
BY KindsAssumption, BoundsAssumption, NobodyAssumption
DEF Init, IndInv, TypeOK, RowInv, OffsetInv, Done, Recorded, Idle, Steps

(* What is done stays done: rows, marks and failures are never taken back. *)
LEMMA DoneStays ==
  ASSUME InRange, UNCHANGED log,
         \A i \in Ids : rows[i] # Nobody => rows'[i] = rows[i],
         seen \subseteq seen', failed \subseteq failed',
         NEW n \in 1..Len(log), Done(n)
  PROVE  Done(n)'
<1>1. log[n] \in Events /\ IdOf[log[n]] \in Ids /\ Nobody \notin Events
  BY IdsAssumption, NobodyAssumption DEF InRange
<1> QED BY <1>1 DEF Done, Recorded, InLedger, OwnId, Mapped

(* A step that moves neither the offsets nor what is done out of place. *)
LEMMA OffsetFrame ==
  ASSUME InRange, OffsetInv, UNCHANGED << log, committed, pos >>,
         \A q \in Replicas : work'[q].offset = work[q].offset,
         \A i \in Ids : rows[i] # Nobody => rows'[i] = rows[i],
         seen \subseteq seen', failed \subseteq failed'
  PROVE  OffsetInv'
<1>1. \A n \in 1..Len(log) : Done(n) => Done(n)'
  BY DoneStays
<1>2. \A n \in 1..committed : Done(n)'
  BY <1>1 DEF OffsetInv, InRange
<1>3. ASSUME NEW q \in Replicas
      PROVE  /\ \A n \in 1..(work[q].offset - 1) : Done(n)'
             /\ \A n \in 1..pos[q] : Done(n)' \/ n = work[q].offset
  BY <1>1 DEF OffsetInv, InRange
<1> QED BY <1>2, <1>3 DEF OffsetInv

(* A new message is behind nobody. *)
LEMMA ProduceInv == IndInv /\ Produce => IndInv'
<1> SUFFICES ASSUME IndInv, Produce PROVE IndInv'
  OBVIOUS
<1>t. InRange
  BY TypeFacts DEF IndInv
<1>a. UNCHANGED << committed, owner, moves, pos, work, seen, rows, dead, entity, failed >>
  BY DEF Produce, tables
<1>1. PICK e \in Events : log' = Append(log, e)
  BY DEF Produce
<1>2. /\ log' \in Seq(Events) /\ Len(log') = Len(log) + 1 /\ Len(log) \in Nat /\ Len(log') <= MaxMessages
      /\ \A n \in 1..Len(log) : log'[n] = log[n]
  BY <1>1, BoundsAssumption DEF IndInv, TypeOK, Produce
<1>3. TypeOK'
  <2>1. committed' \in 0..Len(log')
    BY <1>t, <1>2, <1>a DEF InRange
  <2>2. ASSUME NEW q \in Replicas
        PROVE  /\ pos'[q] <= Len(log') /\ work'[q].offset <= Len(log')
               /\ work'[q].offset = 0 <=> work'[q] = Idle
               /\ work'[q].step = "fetch" <=> work'[q] = Idle
    <3>1. /\ pos[q] \in 0..Len(log) /\ work[q].offset \in 0..Len(log)
          /\ work[q].offset = 0 <=> work[q] = Idle
          /\ work[q].step = "fetch" <=> work[q] = Idle
      BY <1>t DEF InRange
    <3>2. Idle' = Idle
      BY DEF Idle
    <3> QED BY <1>2, <1>a, <3>1, <3>2
  <2> QED BY <1>2, <1>a, <2>1, <2>2 DEF IndInv, TypeOK
<1>4. RowInv'
  BY <1>2, <1>a, <1>t DEF IndInv, RowInv, Recorded, InLedger, OwnId, Mapped, Id, Message, InRange
<1>5. \A n \in 1..Len(log) : Done(n)' <=> Done(n)
  BY <1>2, <1>a DEF Done, Recorded, InLedger, OwnId, Mapped
<1>6. OffsetInv'
  BY <1>5, <1>2, <1>a, <1>t DEF IndInv, OffsetInv, InRange
<1> QED BY <1>3, <1>4, <1>6 DEF IndInv

(* A rebalance: the new owner starts at the committed offset. *)
LEMMA AssignInv == ASSUME NEW r \in Replicas PROVE IndInv /\ Assign(r) => IndInv'
<1> SUFFICES ASSUME IndInv, Assign(r) PROVE IndInv'
  OBVIOUS
<1>t. InRange
  BY TypeFacts DEF IndInv
<1>a. UNCHANGED << log, committed, seen, rows, dead, entity, failed >>
  BY DEF Assign, tables
<1>b. \A q \in Replicas : [work[q] EXCEPT !.stale = TRUE] \in WorkItem
  <2>1. \A q \in Replicas : work[q] \in WorkItem
    BY <1>t DEF InRange
  <2> QED BY <2>1 DEF WorkItem
<1>d. Idle \in WorkItem
  BY BoundsAssumption DEF WorkItem, Idle, Steps
<1>1. /\ work' \in [Replicas -> WorkItem]
      /\ \A q \in Replicas :
           \/ work'[q] = Idle /\ (work[q] = Idle \/ q = r)
           \/ work[q] # Idle /\ work'[q] = [work[q] EXCEPT !.stale = TRUE]
  BY <1>b, <1>d DEF Assign
<1>c. \A q \in Replicas :
           \/ work'[q] = Idle /\ (work[q] = Idle \/ q = r)
           \/ work[q] # Idle /\ work'[q] # Idle /\ work'[q].offset = work[q].offset /\ work'[q].step = work[q].step
  <2> SUFFICES ASSUME NEW q \in Replicas, work[q] # Idle, work'[q] = [work[q] EXCEPT !.stale = TRUE]
               PROVE  work'[q] # Idle /\ work'[q].offset = work[q].offset /\ work'[q].step = work[q].step
    BY <1>1
  <2>1. work[q] \in WorkItem /\ work[q].step # "fetch"
    BY <1>t DEF InRange
  <2>2. work'[q].offset = work[q].offset /\ work'[q].step = work[q].step
    BY <2>1 DEF WorkItem
  <2>3. Idle.step = "fetch"
    BY DEF Idle
  <2> QED BY <2>1, <2>2, <2>3
<1>2. pos' \in [Replicas -> 0..MaxMessages] /\ \A q \in Replicas : pos'[q] = IF q = r THEN committed ELSE pos[q]
  BY BoundsAssumption DEF Assign, IndInv, TypeOK
<1>3. TypeOK'
  <2>1. \A q \in Replicas : /\ pos'[q] <= Len(log) /\ work'[q].offset <= Len(log)
                            /\ work'[q].offset = 0 <=> work'[q] = Idle
                            /\ work'[q].step = "fetch" <=> work'[q] = Idle
    BY <1>1, <1>2, <1>c, <1>t DEF Idle, InRange
  <2>2. owner' \in Replicas \cup {Nobody} /\ moves' \in 0..MaxMoves
    BY BoundsAssumption DEF Assign, IndInv, TypeOK
  <2> QED BY <2>1, <2>2, <1>a, <1>1, <1>2 DEF IndInv, TypeOK, WorkItem
<1>4. RowInv'
  BY <1>a, <1>c DEF IndInv, RowInv, Recorded, InLedger, OwnId, Mapped, Id, Message, Idle
<1>5. \A n : Done(n)' <=> Done(n)
  BY <1>a DEF Done, Recorded, InLedger, OwnId, Mapped
<1>6. OffsetInv'
  <2>1. \A n \in 1..committed : Done(n)
    BY DEF IndInv, OffsetInv
  <2>2. ASSUME NEW q \in Replicas
        PROVE  /\ \A n \in 1..(work'[q].offset - 1) : Done(n)
               /\ \A n \in 1..pos'[q] : Done(n) \/ n = work'[q].offset
    <3>1. /\ \A n \in 1..(work[q].offset - 1) : Done(n)
          /\ \A n \in 1..pos[q] : Done(n) \/ n = work[q].offset
      BY DEF IndInv, OffsetInv
    <3>2. CASE work'[q] = Idle
      BY <2>1, <3>1, <3>2, <1>2, <1>c, <1>t DEF InRange, Idle
    <3>3. CASE work'[q] # Idle
      BY <2>1, <3>1, <3>3, <1>2, <1>c, <1>t DEF InRange
    <3> QED BY <3>2, <3>3
  <2> QED BY <2>1, <2>2, <1>5, <1>a DEF OffsetInv
<1> QED BY <1>3, <1>4, <1>6 DEF IndInv

(* The next message is taken up. *)
LEMMA FetchInv == ASSUME NEW r \in Replicas PROVE IndInv /\ Fetch(r) => IndInv'
<1> SUFFICES ASSUME IndInv, Fetch(r) PROVE IndInv'
  OBVIOUS
<1>t. InRange
  BY TypeFacts DEF IndInv
<1>a. UNCHANGED << log, committed, owner, moves, seen, rows, dead, entity, failed >>
  BY DEF Fetch, tables
<1> DEFINE w == [offset |-> pos[r] + 1, step |-> "check", stale |-> FALSE]
<1>b. w \in WorkItem /\ pos[r] + 1 \in 1..Len(log) /\ Len(log) \in Nat /\ Len(log) <= MaxMessages
  BY <1>t, BoundsAssumption DEF IndInv, TypeOK, Fetch, WorkItem, Steps, InRange
<1>1. /\ work' \in [Replicas -> WorkItem]
      /\ \A q \in Replicas : q # r => work'[q] = work[q]
      /\ work'[r] = w
  BY <1>b DEF Fetch, IndInv, TypeOK, WorkItem
<1> HIDE DEF w
<1>2. pos' \in [Replicas -> 0..MaxMessages] /\ \A q \in Replicas : pos'[q] = IF q = r THEN pos[r] + 1 ELSE pos[q]
  BY BoundsAssumption, <1>b DEF Fetch, IndInv, TypeOK
<1>c. w.offset = pos[r] + 1 /\ w.step = "check" /\ w # Idle
  BY <1>t DEF w, Idle, InRange
<1>3. TypeOK'
  <2>1. \A q \in Replicas : /\ pos'[q] <= Len(log) /\ work'[q].offset <= Len(log)
                            /\ work'[q].offset = 0 <=> work'[q] = Idle
                            /\ work'[q].step = "fetch" <=> work'[q] = Idle
    BY <1>1, <1>2, <1>b, <1>c, <1>t DEF InRange
  <2> QED BY <2>1, <1>a, <1>1, <1>2, BoundsAssumption DEF IndInv, TypeOK, WorkItem
<1>4. RowInv'
  BY <1>a, <1>1, <1>c DEF IndInv, RowInv, Recorded, InLedger, OwnId, Mapped, Id, Message
<1>5. \A n : Done(n)' <=> Done(n)
  BY <1>a DEF Done, Recorded, InLedger, OwnId, Mapped
<1>6. OffsetInv'
  <2>1. work[r].offset = 0
    BY DEF Fetch, Idle
  <2>2. ASSUME NEW q \in Replicas
        PROVE  /\ \A n \in 1..(work'[q].offset - 1) : Done(n)
               /\ \A n \in 1..pos'[q] : Done(n) \/ n = work'[q].offset
    <3>1. /\ \A n \in 1..(work[q].offset - 1) : Done(n)
          /\ \A n \in 1..pos[q] : Done(n) \/ n = work[q].offset
          /\ pos[q] \in Nat
      BY <1>t DEF IndInv, OffsetInv, InRange
    <3>2. CASE q = r
      <4>1. \A n \in 1..pos[r] : Done(n)
        BY <2>1, <3>1, <3>2
      <4> QED BY <3>1, <3>2, <4>1, <1>1, <1>2, <1>c
    <3>3. CASE q # r
      BY <3>1, <3>3, <1>1, <1>2
    <3> QED BY <3>2, <3>3
  <2> QED BY <2>2, <1>5, <1>a DEF OffsetInv, IndInv
<1> QED BY <1>3, <1>4, <1>6 DEF IndInv

(* An event seen before goes straight to the commit: its row is there. *)
LEMMA CheckSeenInv == ASSUME NEW r \in Replicas PROVE IndInv /\ CheckSeen(r) => IndInv'
<1> SUFFICES ASSUME IndInv, CheckSeen(r) PROVE IndInv'
  OBVIOUS
<1>t. InRange
  BY TypeFacts DEF IndInv
<1>a. UNCHANGED << log, committed, owner, moves, pos, seen, rows, dead, entity, failed >>
  BY DEF CheckSeen, kafka, tables
<1> DEFINE s == IF Id(r) \in seen THEN "commit" ELSE "project"
<1>1. Goto(r, s) /\ s \in Steps \ {"fetch"} /\ work[r].step # "fetch"
  BY DEF CheckSeen, Steps
<1>b. (s = "commit" /\ Id(r) \in seen) \/ s = "project"
  OBVIOUS
<1> HIDE DEF s
<1>2. /\ work' \in [Replicas -> WorkItem]
      /\ \A q \in Replicas : q # r => work'[q] = work[q]
      /\ work'[r].step = s /\ work[r].offset \in 1..Len(log) /\ Message(r) \in Events
      /\ \A q \in Replicas : work'[q].offset = work[q].offset
      /\ \A q \in Replicas : /\ work'[q].offset = 0 <=> work'[q] = Idle
                             /\ work'[q].step = "fetch" <=> work'[q] = Idle
  BY <1>1, GotoWork DEF IndInv
<1>3. TypeOK'
  BY <1>2, <1>a, <1>t DEF IndInv, TypeOK, WorkItem, InRange
<1>4. RowInv'
  BY <1>2, <1>a, <1>b DEF IndInv, RowInv, Recorded, InLedger, OwnId, Mapped, Id, Message
<1>5. OffsetInv'
  BY <1>2, <1>a, <1>t, OffsetFrame DEF IndInv
<1> QED BY <1>3, <1>4, <1>5 DEF IndInv

(* The event is appended to the ledger unless its key is there. *)
LEMMA ProjectInv == ASSUME NEW r \in Replicas PROVE IndInv /\ Project(r) => IndInv'
<1> SUFFICES ASSUME IndInv, Project(r) PROVE IndInv'
  OBVIOUS
<1>t. InRange
  BY TypeFacts DEF IndInv
<1>a. UNCHANGED << log, committed, owner, moves, pos, seen, entity, failed >>
  BY DEF Project, kafka
<1> DEFINE e == Message(r)
<1>1. work[r].step # "fetch" /\ "entity" \in Steps \ {"fetch"} /\ "mark" \in Steps \ {"fetch"}
  BY DEF Project, Steps
<1>2. CASE Mapped(e) /\ AppendEvent(e) /\ Goto(r, "entity") /\ UNCHANGED dead
  <2>1. /\ work' \in [Replicas -> WorkItem]
        /\ \A q \in Replicas : q # r => work'[q] = work[q]
        /\ work'[r].step = "entity" /\ work[r].offset \in 1..Len(log) /\ Message(r) \in Events
        /\ \A q \in Replicas : work'[q].offset = work[q].offset
        /\ \A q \in Replicas : /\ work'[q].offset = 0 <=> work'[q] = Idle
                               /\ work'[q].step = "fetch" <=> work'[q] = Idle
    BY <1>1, <1>2, GotoWork DEF IndInv
  <2>2. /\ rows \in [Ids -> Events \cup {Nobody}] /\ Nobody \notin Events
        /\ \A i \in Ids : rows[i] # Nobody => IdOf[rows[i]] = i
        /\ \A d \in Events : IdOf[d] \in Ids
    BY NobodyAssumption, IdsAssumption DEF IndInv, TypeOK, RowInv
  <2>3. rows' = [rows EXCEPT ![IdOf[e]] = IF rows[IdOf[e]] = Nobody THEN e ELSE rows[IdOf[e]]]
    BY <1>2 DEF AppendEvent
  <2> HIDE DEF e
  <2>x. e \in Events /\ IdOf[e] \in Ids
    BY <2>1, <2>2 DEF e
  <2>4. /\ rows' \in [Ids -> Events \cup {Nobody}]
        /\ \A i \in Ids : rows[i] # Nobody => rows'[i] = rows[i]
        /\ \A i \in Ids : i # IdOf[e] => rows'[i] = rows[i]
        /\ rows'[IdOf[e]] # Nobody /\ IdOf[rows'[IdOf[e]]] = IdOf[e]
    BY <2>2, <2>3, <2>x
  <2>k. \A i \in Ids : rows'[i] # Nobody => IdOf[rows'[i]] = i
    BY <2>2, <2>4
  <2>5. TypeOK'
    BY <1>2, <1>a, <1>t, <2>1, <2>4 DEF IndInv, TypeOK, WorkItem, InRange
  <2>6. RowInv'
    <3>0. \A d \in Events : InLedger(d) => InLedger(d)'
      BY <2>2, <2>4 DEF InLedger, OwnId, Mapped
    <3>1. \A n \in 1..Len(log) : Recorded(n) => Recorded(n)'
      BY <1>a, <1>t, <3>0 DEF Recorded, InRange
    <3>2. Recorded(work[r].offset)'
      <4>1. PICK x \in Events : x = e
        BY <2>x
      <4>2. OwnId(x) => rows'[IdOf[x]] = x
        BY <2>2, <2>4, <4>1 DEF OwnId
      <4>3. InLedger(x)'
        BY <4>2 DEF InLedger, OwnId, Mapped
      <4> QED BY <1>a, <2>1, <4>1, <4>3 DEF Recorded, e, Message
    <3>3. ASSUME NEW q \in Replicas
          PROVE  /\ work'[q].step \in {"entity", "mark", "commit"} => Recorded(work[q].offset)'
                 /\ work'[q].step = "commit" => Id(q)' \in seen'
      <4>1. work[q].step \in {"entity", "mark", "commit"} => work[q].offset \in 1..Len(log)
        BY <1>t DEF InRange
      <4>2. Id(q)' = Id(q)
        BY <1>a, <2>1 DEF Id, Message
      <4> QED BY <1>a, <2>1, <3>1, <3>2, <4>1, <4>2 DEF IndInv, RowInv
    <3>4. \A d \in Events : IdOf[d] \in seen' => InLedger(d)'
      BY <1>a, <3>0 DEF IndInv, RowInv
    <3> QED BY <2>1, <2>k, <3>3, <3>4 DEF RowInv
  <2>7. OffsetInv'
    <3> QED BY <1>a, <1>t, <2>1, <2>4, OffsetFrame DEF IndInv
  <2> QED BY <2>5, <2>6, <2>7 DEF IndInv
<1>3. CASE KindOf[e] = "unmapped" /\ deadLetter(Id(r)) /\ Goto(r, "mark") /\ UNCHANGED rows
  <2>1. /\ work' \in [Replicas -> WorkItem]
        /\ \A q \in Replicas : q # r => work'[q] = work[q]
        /\ work'[r].step = "mark" /\ work[r].offset \in 1..Len(log) /\ Message(r) \in Events
        /\ \A q \in Replicas : work'[q].offset = work[q].offset
        /\ \A q \in Replicas : /\ work'[q].offset = 0 <=> work'[q] = Idle
                               /\ work'[q].step = "fetch" <=> work'[q] = Idle
    BY <1>1, <1>3, GotoWork DEF IndInv
  <2>2. dead' \subseteq Ids
    BY <1>3, <2>1, IdsAssumption DEF deadLetter, IndInv, TypeOK, Id
  <2>3. Recorded(work[r].offset)
    BY <1>3 DEF Recorded, InLedger, Mapped, Message
  <2>4. TypeOK'
    BY <1>3, <1>a, <1>t, <2>1, <2>2 DEF IndInv, TypeOK, WorkItem, InRange
  <2>5. RowInv'
    BY <1>3, <1>a, <2>1, <2>3 DEF IndInv, RowInv, Recorded, InLedger, OwnId, Mapped, Id, Message
  <2>6. OffsetInv'
    BY <1>3, <1>a, <1>t, <2>1, OffsetFrame DEF IndInv
  <2> QED BY <2>4, <2>5, <2>6 DEF IndInv
<1> QED BY <1>2, <1>3 DEF Project

(* The entity projection is written. *)
LEMMA ProjectEntityInv == ASSUME NEW r \in Replicas PROVE IndInv /\ ProjectEntity(r) => IndInv'
<1> SUFFICES ASSUME IndInv, ProjectEntity(r) PROVE IndInv'
  OBVIOUS
<1>t. InRange
  BY TypeFacts DEF IndInv
<1>a. UNCHANGED << log, committed, owner, moves, pos, seen, rows, dead, failed >>
  BY DEF ProjectEntity, kafka
<1>1. Goto(r, "mark") /\ work[r].step = "entity" /\ "mark" \in Steps \ {"fetch"}
  BY DEF ProjectEntity, Steps
<1>2. /\ work' \in [Replicas -> WorkItem]
      /\ \A q \in Replicas : q # r => work'[q] = work[q]
      /\ work'[r].step = "mark" /\ work[r].offset \in 1..Len(log) /\ Message(r) \in Events
      /\ \A q \in Replicas : work'[q].offset = work[q].offset
      /\ \A q \in Replicas : /\ work'[q].offset = 0 <=> work'[q] = Idle
                             /\ work'[q].step = "fetch" <=> work'[q] = Idle
  BY <1>1, GotoWork DEF IndInv
<1>3. TypeOK'
  <2>1. entity' \in Events \cup {Nobody}
    BY <1>2 DEF ProjectEntity, IndInv, TypeOK
  <2> QED BY <2>1, <1>2, <1>a, <1>t DEF IndInv, TypeOK, WorkItem, InRange
<1>4. RowInv'
  BY <1>1, <1>2, <1>a DEF IndInv, RowInv, Recorded, InLedger, OwnId, Mapped, Id, Message
<1>5. OffsetInv'
  BY <1>2, <1>a, <1>t, OffsetFrame DEF IndInv
<1> QED BY <1>3, <1>4, <1>5 DEF IndInv

(* The event is marked as seen. *)
LEMMA MarkInv == ASSUME NEW r \in Replicas PROVE IndInv /\ Mark(r) => IndInv'
<1> SUFFICES ASSUME IndInv, Mark(r) PROVE IndInv'
  OBVIOUS
<1>t. InRange
  BY TypeFacts DEF IndInv
<1>a. UNCHANGED << log, committed, owner, moves, pos, rows, dead, entity, failed >>
  BY DEF Mark, kafka
<1>1. Goto(r, "commit") /\ work[r].step = "mark" /\ "commit" \in Steps \ {"fetch"}
  BY DEF Mark, Steps
<1>2. /\ work' \in [Replicas -> WorkItem]
      /\ \A q \in Replicas : q # r => work'[q] = work[q]
      /\ work'[r].step = "commit" /\ work[r].offset \in 1..Len(log) /\ Message(r) \in Events
      /\ \A q \in Replicas : work'[q].offset = work[q].offset
      /\ \A q \in Replicas : /\ work'[q].offset = 0 <=> work'[q] = Idle
                             /\ work'[q].step = "fetch" <=> work'[q] = Idle
  BY <1>1, GotoWork DEF IndInv
<1>b. seen' = seen \cup {Id(r)}
  BY DEF Mark
<1>3. TypeOK'
  BY <1>b, <1>2, <1>a, <1>t, IdsAssumption DEF IndInv, TypeOK, WorkItem, InRange, Id
<1>4. RowInv'
  BY <1>b, <1>1, <1>2, <1>a DEF IndInv, RowInv, Recorded, InLedger, OwnId, Mapped, Id, Message
<1>5. OffsetInv'
  BY <1>b, <1>2, <1>a, <1>t, OffsetFrame DEF IndInv
<1> QED BY <1>3, <1>4, <1>5 DEF IndInv

(* The offset moves past a message that is done. *)
LEMMA CommitMessagesInv == ASSUME NEW r \in Replicas PROVE IndInv /\ CommitMessages(r) => IndInv'
<1> SUFFICES ASSUME IndInv, CommitMessages(r) PROVE IndInv'
  OBVIOUS
<1>t. InRange
  BY TypeFacts DEF IndInv
<1>a. UNCHANGED << log, owner, moves, pos, seen, rows, dead, entity, failed >>
  BY DEF CommitMessages, tables
<1>1. /\ work[r].step = "commit" /\ work[r].offset \in 1..Len(log)
      /\ committed' = committed \/ committed' = work[r].offset
  BY <1>t DEF CommitMessages, InRange, Idle
<1>2. /\ work' \in [Replicas -> WorkItem]
      /\ \A q \in Replicas : q # r => work'[q] = work[q]
      /\ work'[r] = Idle
  <2>1. Idle \in WorkItem /\ work \in [Replicas -> WorkItem]
    BY BoundsAssumption DEF IndInv, TypeOK, WorkItem, Idle, Steps
  <2> QED BY <2>1 DEF CommitMessages
<1>3. Idle.offset = 0 /\ Idle.step = "fetch"
  BY DEF Idle
<1>4. \A q \in Replicas : /\ work'[q].offset \in 0..Len(log)
                          /\ work'[q].offset = 0 <=> work'[q] = Idle
                          /\ work'[q].step = "fetch" <=> work'[q] = Idle
                          /\ pos[q] \in 0..Len(log)
  <2>1. \A q \in Replicas : /\ work[q].offset \in 0..Len(log) /\ pos[q] \in 0..Len(log)
                            /\ work[q].offset = 0 <=> work[q] = Idle
                            /\ work[q].step = "fetch" <=> work[q] = Idle
    BY <1>t DEF InRange
  <2>2. Len(log) \in Nat
    BY <1>t DEF InRange
  <2> QED BY <1>2, <1>3, <2>1, <2>2
<1>5. TypeOK'
  <2>1. committed' \in 0..Len(log)
    BY <1>1, <1>t DEF InRange
  <2> QED BY <1>a, <1>2, <1>4, <2>1, <1>t DEF IndInv, TypeOK, WorkItem, InRange
<1>6. RowInv'
  BY <1>a, <1>2, <1>3 DEF IndInv, RowInv, Recorded, InLedger, OwnId, Mapped, Id, Message
<1>7. OffsetInv'
  <2>1. \A n : Done(n)' <=> Done(n)
    BY <1>a DEF Done, Recorded, InLedger, OwnId, Mapped
  <2>2. Done(work[r].offset)
    BY <1>1 DEF IndInv, RowInv, Done, Id, Message
  <2>3. \A n \in 1..work[r].offset : Done(n)
    <3>1. \A n \in 1..(work[r].offset - 1) : Done(n)
      BY DEF IndInv, OffsetInv
    <3> QED BY <3>1, <2>2, <1>1
  <2>4. \A n \in 1..committed' : Done(n)
    BY <2>3, <1>1 DEF IndInv, OffsetInv
  <2>5. ASSUME NEW q \in Replicas
        PROVE  /\ \A n \in 1..(work'[q].offset - 1) : Done(n)
               /\ \A n \in 1..pos[q] : Done(n) \/ n = work'[q].offset
    <3>1. /\ \A n \in 1..(work[q].offset - 1) : Done(n)
          /\ \A n \in 1..pos[q] : Done(n) \/ n = work[q].offset
      BY DEF IndInv, OffsetInv
    <3> QED BY <3>1, <2>2, <1>2, <1>3
  <2> QED BY <2>1, <2>4, <2>5, <1>a DEF OffsetInv
<1> QED BY <1>5, <1>6, <1>7 DEF IndInv

(* A handler error: Run goes on with the next message; this one counts as failed. *)
LEMMA HandleFailsInv == ASSUME NEW r \in Replicas PROVE IndInv /\ HandleFails(r) => IndInv'
<1> SUFFICES ASSUME IndInv, HandleFails(r) PROVE IndInv'
  OBVIOUS
<1>t. InRange
  BY TypeFacts DEF IndInv
<1>a. UNCHANGED << log, committed, owner, moves, pos, seen, rows, dead, entity >>
  BY DEF HandleFails, kafka, tables
<1>1. failed' = failed \cup {work[r].offset}
  BY DEF HandleFails
<1>2. /\ work' \in [Replicas -> WorkItem]
      /\ \A q \in Replicas : q # r => work'[q] = work[q]
      /\ work'[r] = Idle
  <2>1. Idle \in WorkItem /\ work \in [Replicas -> WorkItem]
    BY BoundsAssumption DEF IndInv, TypeOK, WorkItem, Idle, Steps
  <2> QED BY <2>1 DEF HandleFails
<1>3. Idle.offset = 0 /\ Idle.step = "fetch"
  BY DEF Idle
<1>4. \A q \in Replicas : /\ work'[q].offset \in 0..Len(log)
                          /\ work'[q].offset = 0 <=> work'[q] = Idle
                          /\ work'[q].step = "fetch" <=> work'[q] = Idle
                          /\ pos[q] \in 0..Len(log)
  <2>1. \A q \in Replicas : /\ work[q].offset \in 0..Len(log) /\ pos[q] \in 0..Len(log)
                            /\ work[q].offset = 0 <=> work[q] = Idle
                            /\ work[q].step = "fetch" <=> work[q] = Idle
    BY <1>t DEF InRange
  <2>2. Len(log) \in Nat
    BY <1>t DEF InRange
  <2> QED BY <1>2, <1>3, <2>1, <2>2
<1>5. TypeOK'
  BY <1>a, <1>2, <1>4, <1>t DEF IndInv, TypeOK, WorkItem, InRange
<1>6. RowInv'
  BY <1>a, <1>2, <1>3 DEF IndInv, RowInv, Recorded, InLedger, OwnId, Mapped, Id, Message
<1>7. OffsetInv'
  <2>1. \A n : Done(n) => Done(n)'
    BY <1>a, <1>1 DEF Done, Recorded, InLedger, OwnId, Mapped
  <2>2. \A n : n = work[r].offset => Done(n)'
    BY <1>1 DEF Done
  <2>3. ASSUME NEW q \in Replicas
        PROVE  /\ \A n \in 1..(work'[q].offset - 1) : Done(n)'
               /\ \A n \in 1..pos[q] : Done(n)' \/ n = work'[q].offset
    <3>1. /\ \A n \in 1..(work[q].offset - 1) : Done(n)'
          /\ \A n \in 1..pos[q] : Done(n)' \/ n = work[q].offset
      BY <2>1 DEF IndInv, OffsetInv
    <3> QED BY <3>1, <2>2, <1>2, <1>3
  <2> QED BY <2>1, <2>3, <1>a DEF IndInv, OffsetInv
<1> QED BY <1>5, <1>6, <1>7 DEF IndInv

(* Every step keeps the invariant. *)
LEMMA StepInv == IndInv /\ [Next]_vars => IndInv'
<1> SUFFICES ASSUME IndInv, [Next]_vars PROVE IndInv'
  OBVIOUS
<1>1. CASE UNCHANGED vars
  BY <1>1 DEF vars, IndInv, TypeOK, RowInv, OffsetInv, Done, Recorded, InLedger, OwnId, Mapped, Id, Message, Idle
<1>2. CASE Next
  BY <1>2, ProduceInv, AssignInv, FetchInv, CheckSeenInv, ProjectInv, ProjectEntityInv, MarkInv,
     CommitMessagesInv, HandleFailsInv DEF Next, Handle
<1> QED BY <1>1, <1>2

----------------------------------------------------------------------------
(* r came to project its message while nothing has failed and with the partition
   still its own. *)
Fresh(r) == failed = {} /\ work[r].step \in {"project", "entity"} /\ ~work[r].stale

(* The message is new: it is not in the partition before, nobody handles a later
   one, and no later one is in the projection. *)
FirstSight(r) ==
  /\ \A n \in 1..(work[r].offset - 1) : log[n] # Message(r)
  /\ \A q \in Replicas : work[q].offset <= work[r].offset
  /\ entity # Nobody => \E n \in 1..work[r].offset : log[n] = entity

(* The invariant of the projection: the live handler is the owner's, what it
   projects for the first time is newer than anything projected. *)
EntityInv ==
  /\ \A r \in Replicas : work[r] # Idle /\ ~work[r].stale => owner = r
  /\ entity # Nobody => \E n \in 1..Len(log) : log[n] = entity /\ \A m \in 1..(n - 1) : Done(m)
  /\ \A r \in Replicas : Fresh(r) => FirstSight(r)

(* A step that takes up no message and writes no projection. *)
LEMMA EntityFrame ==
  ASSUME InRange, EntityInv, UNCHANGED << log, entity, owner >>, failed \subseteq failed',
         \A n \in 1..Len(log) : Done(n) => Done(n)',
         \A q \in Replicas :
           \/ work'[q] = Idle
           \/ /\ work[q] # Idle
              /\ work'[q].offset = work[q].offset /\ (~work'[q].stale => ~work[q].stale)
              /\ work'[q].step \in {"project", "entity"} => work[q].step \in {"project", "entity"}
  PROVE  EntityInv'
<1>0. Idle.offset = 0 /\ Idle.step = "fetch"
  BY DEF Idle
<1>1. \A r \in Replicas : work'[r] # Idle /\ ~work'[r].stale => owner' = r
  BY DEF EntityInv
<1>2. entity' # Nobody => \E n \in 1..Len(log') : log'[n] = entity' /\ \A m \in 1..(n - 1) : Done(m)'
  <2> HAVE entity' # Nobody
  <2>1. PICK n \in 1..Len(log) : log[n] = entity /\ \A m \in 1..(n - 1) : Done(m)
    BY DEF EntityInv
  <2>2. \A m \in 1..(n - 1) : m \in 1..Len(log)
    BY DEF InRange
  <2> QED BY <2>1, <2>2
<1>3. ASSUME NEW r \in Replicas, Fresh(r)' PROVE FirstSight(r)'
  <2>1. Fresh(r) /\ work'[r].offset = work[r].offset
    BY <1>0, <1>3 DEF Fresh
  <2>2. FirstSight(r) /\ Message(r)' = Message(r)
    BY <2>1 DEF EntityInv, Message
  <2>3. \A q \in Replicas : work'[q].offset <= work[r].offset
    <3>1. \A q \in Replicas : work[q].offset \in Nat
      BY DEF InRange
    <3> QED BY <1>0, <2>2, <3>1 DEF FirstSight
  <2> QED BY <2>1, <2>2, <2>3 DEF FirstSight
<1> QED BY <1>1, <1>2, <1>3 DEF EntityInv

(* It holds when nothing is projected. *)
LEMMA EntityInit == Init => EntityInv
BY DEF Init, EntityInv, Fresh, Idle

(* Every step keeps it. *)
LEMMA EntityStep == IndInv /\ EntityInv /\ [Next]_vars => EntityInv'
<1> SUFFICES ASSUME IndInv, EntityInv, [Next]_vars PROVE EntityInv'
  OBVIOUS
<1>t. InRange
  BY TypeFacts DEF IndInv
<1>i. Idle.offset = 0 /\ Idle.step = "fetch"
  BY DEF Idle
<1>1. CASE UNCHANGED vars
  BY <1>1 DEF vars, EntityInv, Fresh, FirstSight, Done, Recorded, InLedger, OwnId, Mapped, Message
<1>2. CASE Produce
  <2>1. UNCHANGED << committed, owner, moves, pos, work, seen, rows, dead, entity, failed >>
    BY <1>2 DEF Produce, tables
  <2>2. PICK e \in Events : log' = Append(log, e)
    BY <1>2 DEF Produce
  <2>3. Len(log') = Len(log) + 1 /\ \A n \in 1..Len(log) : log'[n] = log[n]
    BY <2>2 DEF IndInv, TypeOK
  <2>4. \A n \in 1..Len(log) : Done(n) => Done(n)'
    BY <2>1, <2>3 DEF Done, Recorded, InLedger, OwnId, Mapped
  <2>5. entity' # Nobody => \E n \in 1..Len(log') : log'[n] = entity' /\ \A m \in 1..(n - 1) : Done(m)'
    <3> HAVE entity' # Nobody
    <3>1. PICK n \in 1..Len(log) : log[n] = entity /\ \A m \in 1..(n - 1) : Done(m)
      BY <2>1 DEF EntityInv
    <3>2. n \in 1..Len(log') /\ \A m \in 1..(n - 1) : m \in 1..Len(log)
      BY <2>3, <1>t DEF InRange
    <3> QED BY <2>1, <2>3, <2>4, <3>1, <3>2
  <2>6. ASSUME NEW r \in Replicas, Fresh(r)' PROVE FirstSight(r)'
    <3>1. Fresh(r) /\ FirstSight(r)
      BY <2>1, <2>6 DEF Fresh, EntityInv
    <3>2. work[r].offset \in 1..Len(log)
      BY <3>1, <1>t, <1>i DEF InRange, Fresh
    <3>3. Message(r)' = Message(r) /\ \A n \in 1..work[r].offset : log'[n] = log[n]
      BY <2>1, <2>3, <3>2, <1>t DEF Message, InRange
    <3> QED BY <2>1, <3>1, <3>2, <3>3 DEF FirstSight
  <2> QED BY <2>1, <2>5, <2>6 DEF EntityInv
<1>3. ASSUME NEW r \in Replicas, Assign(r) PROVE EntityInv'
  <2>1. UNCHANGED << log, seen, rows, entity, failed >>
    BY <1>3 DEF Assign, tables
  <2>2. \A q \in Replicas : work'[q] = Idle \/ work'[q].stale
    <3>1. \A q \in Replicas : work[q] \in WorkItem
      BY <1>t DEF InRange
    <3>2. \A q \in Replicas : [work[q] EXCEPT !.stale = TRUE].stale
      BY <3>1 DEF WorkItem
    <3>3. \A q \in Replicas : work'[q] \in {Idle, [work[q] EXCEPT !.stale = TRUE]}
      BY <1>3 DEF Assign
    <3> QED BY <3>2, <3>3
  <2>3. \A n : Done(n) <=> Done(n)'
    BY <2>1 DEF Done, Recorded, InLedger, OwnId, Mapped
  <2>4. \A q \in Replicas : ~Fresh(q)'
    BY <2>2, <1>i DEF Fresh
  <2> QED BY <2>1, <2>2, <2>3, <2>4 DEF EntityInv
<1>4. ASSUME NEW r \in Replicas, Fetch(r) PROVE EntityInv'
  <2>1. UNCHANGED << log, owner, seen, rows, entity, failed >> /\ owner = r
    BY <1>4 DEF Fetch, tables
  <2>2. /\ \A q \in Replicas : q # r => work'[q] = work[q]
        /\ work'[r].step = "check"
    BY <1>4 DEF Fetch, IndInv, TypeOK
  <2>3. \A n : Done(n) <=> Done(n)'
    BY <2>1 DEF Done, Recorded, InLedger, OwnId, Mapped
  <2>4. \A q \in Replicas : ~Fresh(q)'
    BY <2>1, <2>2, <1>i DEF Fresh, EntityInv
  <2> QED BY <2>1, <2>2, <2>3, <2>4 DEF EntityInv
<1>5. ASSUME NEW r \in Replicas, CheckSeen(r) PROVE EntityInv'
  <2>1. UNCHANGED << log, committed, owner, moves, pos, seen, rows, dead, entity, failed >>
    BY <1>5 DEF CheckSeen, kafka, tables
  <2> DEFINE s == IF Id(r) \in seen THEN "commit" ELSE "project"
  <2>2. Goto(r, s) /\ s \in Steps \ {"fetch"} /\ work[r].step = "check"
    BY <1>5 DEF CheckSeen, Steps
  <2>3. s = "commit" \/ (s = "project" /\ Id(r) \notin seen)
    OBVIOUS
  <2> HIDE DEF s
  <2>4. /\ \A q \in Replicas : q # r => work'[q] = work[q]
        /\ work'[r].step = s /\ work'[r].stale = work[r].stale
        /\ \A q \in Replicas : work'[q].offset = work[q].offset
        /\ work[r].offset \in 1..Len(log) /\ work[r] # Idle /\ Message(r) \in Events
    BY <2>2, <1>i, GotoWork DEF IndInv
  <2>5. \A n : Done(n) <=> Done(n)'
    BY <2>1 DEF Done, Recorded, InLedger, OwnId, Mapped
  <2>6. \A q \in Replicas : Message(q)' = Message(q)
    BY <2>1, <2>4 DEF Message
  <2>7. ASSUME Fresh(r)' PROVE FirstSight(r)
    <3>1. failed = {} /\ Id(r) \notin seen
      BY <2>1, <2>3, <2>4, <2>7 DEF Fresh
    <3>2. ~Done(work[r].offset)
      BY <3>1 DEF Done, Id, Message
    <3>3. \A n \in 1..(work[r].offset - 1) : log[n] # Message(r)
      BY <3>1 DEF IndInv, OffsetInv, Done, Id
    <3>4. ASSUME NEW q \in Replicas PROVE work[q].offset <= work[r].offset
      <4>1. \A n \in 1..(work[q].offset - 1) : Done(n)
        BY DEF IndInv, OffsetInv
      <4>2. work[q].offset \in Nat
        BY <1>t DEF InRange
      <4> QED BY <3>2, <4>1, <4>2, <2>4
    <3>5. ASSUME entity # Nobody PROVE \E n \in 1..work[r].offset : log[n] = entity
      <4>1. PICK n \in 1..Len(log) : log[n] = entity /\ \A m \in 1..(n - 1) : Done(m)
        BY <3>5 DEF EntityInv
      <4>2. n \in 1..work[r].offset
        BY <4>1, <3>2, <2>4, <1>t DEF InRange
      <4> QED BY <4>1, <4>2
    <3> QED BY <3>3, <3>4, <3>5 DEF FirstSight
  <2>8. ASSUME NEW q \in Replicas, Fresh(q)' PROVE FirstSight(q)'
    <3>1. FirstSight(q)
      BY <2>1, <2>4, <2>7, <2>8 DEF Fresh, EntityInv
    <3> QED BY <2>1, <2>4, <2>6, <3>1 DEF FirstSight
  <2>9. \A q \in Replicas : work'[q] # Idle /\ ~work'[q].stale => owner' = q
    BY <2>1, <2>4 DEF EntityInv
  <2> QED BY <2>1, <2>5, <2>8, <2>9 DEF EntityInv
<1>6. ASSUME NEW r \in Replicas, Project(r) PROVE EntityInv'
  <2>1. UNCHANGED << log, owner, seen, entity, failed >> /\ work[r].step = "project"
    BY <1>6 DEF Project, kafka
  <2>2. Goto(r, "entity") \/ Goto(r, "mark")
    BY <1>6 DEF Project
  <2>3. "entity" \in Steps \ {"fetch"} /\ "mark" \in Steps \ {"fetch"}
    BY DEF Steps
  <2>4. /\ \A q \in Replicas : q # r => work'[q] = work[q]
        /\ work'[r].stale = work[r].stale /\ work'[r].offset = work[r].offset /\ Message(r) \in Events
    BY <2>1, <2>2, <2>3, GotoWork DEF IndInv
  <2>5. rows \in [Ids -> Events \cup {Nobody}]
    BY DEF IndInv, TypeOK
  <2>6. \A i \in Ids : rows[i] # Nobody => rows'[i] = rows[i]
    <3>1. rows' = rows \/ rows' = [rows EXCEPT ![Id(r)] = IF rows[Id(r)] = Nobody THEN Message(r) ELSE rows[Id(r)]]
      BY <1>6 DEF Project, AppendEvent, Id
    <3> QED BY <2>4, <2>5, <3>1
  <2>7. \A n \in 1..Len(log) : Done(n) => Done(n)'
    BY <2>1, <2>6, <1>t, DoneStays
  <2>8. \A q \in Replicas : work[q].step \in {"project", "entity"} => work[q] # Idle
    BY <1>i
  <2> QED BY <2>1, <2>4, <2>7, <2>8, <1>t, <1>i, EntityFrame
<1>7. ASSUME NEW r \in Replicas, ProjectEntity(r) PROVE EntityInv'
  <2>1. UNCHANGED << log, owner, seen, rows, failed >> /\ work[r].step = "entity"
    BY <1>7 DEF ProjectEntity, kafka
  <2>2. Goto(r, "mark") /\ "mark" \in Steps \ {"fetch"}
    BY <1>7 DEF ProjectEntity, Steps
  <2>3. /\ \A q \in Replicas : q # r => work'[q] = work[q]
        /\ work'[r].step = "mark" /\ work'[r].stale = work[r].stale
        /\ \A q \in Replicas : work'[q].offset = work[q].offset
        /\ work[r].offset \in 1..Len(log) /\ work[r] # Idle /\ Message(r) \in Events
    BY <2>1, <2>2, <1>i, GotoWork DEF IndInv
  <2>4. \A n : Done(n) <=> Done(n)'
    BY <2>1 DEF Done, Recorded, InLedger, OwnId, Mapped
  <2>5. \A q \in Replicas : Message(q)' = Message(q)
    BY <2>1, <2>3 DEF Message
  <2>6. \A q \in Replicas : work'[q] # Idle /\ ~work'[q].stale => owner' = q
    BY <2>1, <2>3 DEF EntityInv
  <2>7. entity' = entity \/ entity' = log[work[r].offset]
    BY <1>7 DEF ProjectEntity, Message
  <2>8. entity' # Nobody => \E n \in 1..Len(log) : log[n] = entity' /\ \A m \in 1..(n - 1) : Done(m)
    <3>1. \A n \in 1..(work[r].offset - 1) : Done(n)
      BY DEF IndInv, OffsetInv
    <3> QED BY <2>3, <2>7, <3>1 DEF EntityInv
  <2>9. ASSUME NEW q \in Replicas, Fresh(q)' PROVE FirstSight(q)'
    <3>1. Fresh(q)
      BY <2>1, <2>3, <2>9 DEF Fresh
    <3>2. FirstSight(q)
      BY <3>1 DEF EntityInv
    <3>3. entity' # Nobody => \E n \in 1..work[q].offset : log[n] = entity'
      <4>1. work[r].offset <= work[q].offset /\ work[q].offset \in Nat
        BY <3>2, <1>t DEF FirstSight, InRange
      <4> QED BY <2>3, <2>7, <3>2, <4>1 DEF FirstSight
    <3> QED BY <2>1, <2>3, <2>5, <3>2, <3>3 DEF FirstSight
  <2> QED BY <2>1, <2>4, <2>6, <2>8, <2>9 DEF EntityInv
<1>8. ASSUME NEW r \in Replicas, Mark(r) PROVE EntityInv'
  <2>1. UNCHANGED << log, owner, rows, entity, failed >> /\ work[r].step = "mark" /\ seen \subseteq seen'
    BY <1>8 DEF Mark, kafka
  <2>2. Goto(r, "commit") /\ "commit" \in Steps \ {"fetch"}
    BY <1>8 DEF Mark, Steps
  <2>3. /\ \A q \in Replicas : q # r => work'[q] = work[q]
        /\ work'[r].step = "commit" /\ work'[r].stale = work[r].stale /\ work'[r].offset = work[r].offset
    BY <2>1, <2>2, GotoWork DEF IndInv
  <2>4. \A n \in 1..Len(log) : Done(n) => Done(n)'
    BY <2>1, <1>t, DoneStays
  <2> QED BY <2>1, <2>3, <2>4, <1>t, <1>i, EntityFrame
<1>9. ASSUME NEW r \in Replicas, CommitMessages(r) \/ HandleFails(r) PROVE EntityInv'
  <2>1. UNCHANGED << log, owner, seen, rows, entity >> /\ failed \subseteq failed'
    BY <1>9 DEF CommitMessages, HandleFails, kafka, tables
  <2>2. \A q \in Replicas : work'[q] = Idle \/ work'[q] = work[q]
    BY <1>9 DEF CommitMessages, HandleFails, IndInv, TypeOK
  <2>3. \A n \in 1..Len(log) : Done(n) => Done(n)'
    BY <2>1, <1>t, DoneStays
  <2> QED BY <2>1, <2>2, <2>3, <1>t, EntityFrame
<1> QED BY <1>1, <1>2, <1>3, <1>4, <1>5, <1>6, <1>7, <1>8, <1>9 DEF Next, Handle

----------------------------------------------------------------------------
(* Every nonempty set of natural numbers has a least element. *)
LEMMA LeastExists ==
  ASSUME NEW S, S \subseteq Nat, S # {}
  PROVE  \E x \in S : \A y \in S : x <= y
<1> DEFINE R == {p \in Nat \X Nat : p[1] < p[2]}
<1>1. IsWellFoundedOn(R, Nat)
  BY NatLessThanWellFounded DEF OpToRel
<1>2. \A x, y \in Nat : y < x => << y, x >> \in R
  OBVIOUS
<1> HIDE DEF R
<1>3. PICK x \in S : \A y \in S : ~(<< y, x >> \in R)
  BY <1>1, WFMin
<1>4. \A y \in S : ~(y < x)
  BY <1>2, <1>3
<1> QED BY <1>4

(* First finds the first of the places of an event. *)
LEMMA FirstIsLeast ==
  ASSUME InRange, NEW n \in 1..Len(log)
  PROVE  First(log[n]) \in 1..n /\ log[First(log[n])] = log[n]
<1> DEFINE S == {m \in 1..Len(log) : log[m] = log[n]}
           P(m) == log[m] = log[n] /\ \A j \in 1..(m - 1) : log[j] # log[n]
<1>1. Len(log) \in Nat
  BY DEF InRange
<1>2. PICK x \in S : \A y \in S : x <= y
  <2>1. S \subseteq Nat /\ n \in S
    BY <1>1
  <2> HIDE DEF S
  <2> QED BY <2>1, LeastExists
<1>3. x \in 1..Len(log) /\ P(x)
  BY <1>1, <1>2
<1>4. First(log[n]) = CHOOSE m \in 1..Len(log) : P(m)
  BY DEF First
<1>5. First(log[n]) \in 1..Len(log) /\ P(First(log[n]))
  <2> HIDE DEF P
  <2> QED BY <1>3, <1>4
<1> QED BY <1>1, <1>5

(* The step from "entity" to "mark" never takes the projection back. *)
LEMMA EntityForward ==
  ASSUME IndInv, EntityInv, [Next]_vars, NEW r \in Replicas,
         work[r].step = "entity", work'[r].step = "mark", ~work[r].stale, failed = {}, entity # Nobody
  PROVE  First(entity') >= First(entity)
<1>1. InRange
  BY TypeFacts DEF IndInv
<1>2. Fresh(r) /\ FirstSight(r)
  BY DEF Fresh, EntityInv
<1>3. work[r].offset \in 1..Len(log)
  BY <1>1 DEF InRange, Idle
<1>4. PICK n \in 1..work[r].offset : log[n] = entity
  BY <1>2 DEF FirstSight
<1>5. First(entity) \in 1..work[r].offset
  <2>1. n \in 1..Len(log)
    BY <1>1, <1>3 DEF InRange
  <2>2. First(entity) \in 1..n
    BY <1>1, <1>4, <2>1, FirstIsLeast
  <2> QED BY <1>1, <1>3, <2>2 DEF InRange
<1>6. entity' = entity \/ entity' = log[work[r].offset]
  <2>1. CASE \E q \in Replicas : ProjectEntity(q)
    <3>1. PICK q \in Replicas : ProjectEntity(q)
      BY <2>1
    <3>2. q = r
      BY <3>1 DEF ProjectEntity, Goto, IndInv, TypeOK
    <3> QED BY <3>1, <3>2 DEF ProjectEntity, Message
  <2>2. CASE ~\E q \in Replicas : ProjectEntity(q)
    BY <2>2 DEF Next, Handle, vars, Produce, Assign, Fetch, CheckSeen, Project, Mark, CommitMessages,
       HandleFails, kafka, tables
  <2> QED BY <2>1, <2>2
<1>7. First(log[work[r].offset]) >= work[r].offset
  <2> DEFINE f == First(log[work[r].offset])
  <2>1. f \in 1..work[r].offset /\ log[f] = log[work[r].offset]
    BY <1>1, <1>3, FirstIsLeast
  <2>2. \A m \in 1..(work[r].offset - 1) : log[m] # log[work[r].offset]
    BY <1>2 DEF FirstSight, Message
  <2> HIDE DEF f
  <2>3. f >= work[r].offset
    BY <2>1, <2>2, <1>3
  <2> QED BY <2>3 DEF f
<1>8. First(log[work[r].offset]) \in Int
  BY <1>1, <1>3, FirstIsLeast
<1> QED BY <1>3, <1>5, <1>6, <1>7, <1>8

----------------------------------------------------------------------------
(* Both invariants hold throughout. *)
LEMMA SpecInv == Spec => [](IndInv /\ EntityInv)
<1>1. Init => IndInv /\ EntityInv
  BY InitInv, EntityInit
<1>2. IndInv /\ EntityInv /\ [Next]_vars => (IndInv /\ EntityInv)'
  BY StepInv, EntityStep
<1> QED BY <1>1, <1>2, PTL DEF Spec

(* A dedupe mark never hides an event without its row, and a message before the
   committed offset has its row unless its handling failed, as far as events
   have ids of their own: a rebalance or a crash between two writes of
   handleMessage loses none. *)
THEOREM NothingSkippedUnrecorded == Spec => []SkippedIsRecorded
<1>1. IndInv => SkippedIsRecorded
  BY DEF IndInv, RowInv, OffsetInv, Done, SkippedIsRecorded
<1> QED BY <1>1, SpecInv, PTL

(* As long as no handler has failed and the partition is still its own, a
   handler's write never takes the entity projection back to an older event. *)
THEOREM EntityNeverGoesBack == Spec => EntityGoesForward
<1> DEFINE A == \A r \in Replicas :
       /\ work[r].step = "entity" /\ work'[r].step = "mark" /\ ~work[r].stale
       /\ failed = {} /\ entity # Nobody
       => First(entity') >= First(entity)
<1>1. IndInv /\ EntityInv /\ [Next]_vars => [A]_vars
  BY EntityForward
<1> QED BY <1>1, SpecInv, PTL DEF Spec, EntityGoesForward
============================================================================
