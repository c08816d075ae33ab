------------------------ MODULE CustodyChain_proofs ------------------------
(***************************************************************************)
(* Proofs about CustodyChain, for any number of replicas, backfills and    *)
(* events.  IndInv (see CustodyChain) is shown inductive, one lemma per    *)
(* action; the theorems about the shape of the chain follow from it.  A    *)
(* second invariant, FullInv, adds which rows have no block, what was      *)
(* hashed and what a transaction under way knows; completeness of the      *)
(* cutover, what a verification may report and the refinement of           *)
(* CustodyLog follow from that one.                                        *)
(***************************************************************************)
EXTENDS CustodyChain, TLAPS, FiniteSetTheorems, SequenceTheorems

(* What Block puts in the columns that are hashed, and in the hash. *)
LEMMA BlockFields ==
  ASSUME NEW seq, NEW id, NEW at, NEW m, NEW prev
  PROVE  /\ Block(seq, id, at, m, prev).at = at
         /\ Block(seq, id, at, m, prev).metrics = Canon[m]
         /\ Block(seq, id, at, m, prev).hash = EventHash(seq, at, m, prev)
BY DEF Block

(* EventHash and Block build values of the declared types. *)
LEMMA BlockType ==
  ASSUME NEW seq \in Nat, NEW id \in Ids, NEW at \in Times, NEW m \in Payloads,
         NEW prev \in Hashes
  PROVE  /\ Block(seq, id, at, m, prev) \in Blocks
         /\ Block(seq, id, at, m, prev).seq = seq
         /\ Block(seq, id, at, m, prev).id = id
         /\ Block(seq, id, at, m, prev).prev = prev
         /\ Block(seq, id, at, m, prev).hash \in Hashes
<1>1. EventHash(seq, at, m, prev) \in Hashes
  BY DEF EventHash, Hashes, Contents
<1>2. Canon[m] \in Payloads
  BY CanonAssumption
<1> QED
  BY <1>1, <1>2 DEF Block, Blocks

(* Reading the head of a well-numbered chain gives its length and a hash. *)
LEMMA HeadOfLinked ==
  ASSUME NEW c \in Seq(Blocks), LinksFrom(<< >>, c)
  PROVE  HeadSeq(c) = Len(c) /\ HeadHash(c) \in Hashes
<1>1. CASE c = << >>
  BY <1>1 DEF HeadSeq, HeadHash, GenesisHash, Hashes
<1>2. CASE c # << >>
  <2>1. Len(c) \in 1..Len(c) /\ c[Len(c)] \in Blocks
    BY <1>2
  <2> QED
    BY <1>2, <2>1 DEF HeadSeq, HeadHash, LinksFrom, Blocks
<1> QED BY <1>1, <1>2

(* The head of any block sequence is a hash. *)
LEMMA HeadHashType ==
  ASSUME NEW c \in Seq(Blocks)
  PROVE  HeadHash(c) \in Hashes
<1>1. CASE c = << >>
  BY <1>1 DEF HeadHash, GenesisHash, Hashes
<1>2. CASE c # << >>
  <2>1. c[Len(c)] \in Blocks
    BY <1>2
  <2> QED
    BY <1>2, <2>1 DEF HeadHash, Blocks
<1> QED BY <1>1, <1>2

(* Putting a linked continuation on a linked chain gives a linked chain. *)
LEMMA LinksConcat ==
  ASSUME NEW c \in Seq(Blocks), NEW more \in Seq(Blocks),
         LinksFrom(<< >>, c), LinksFrom(c, more)
  PROVE  LinksFrom(<< >>, c \o more)
<1> DEFINE d == c \o more
<1>1. /\ d \in Seq(Blocks)
      /\ Len(d) = Len(c) + Len(more)
      /\ \A n \in 1..Len(c) : d[n] = c[n]
      /\ \A n \in 1..Len(more) : d[Len(c) + n] = more[n]
  OBVIOUS
<1> SUFFICES ASSUME NEW n \in 1..Len(d)
             PROVE  /\ d[n].seq = n
                    /\ d[n].prev = IF n = 1 THEN GenesisHash ELSE d[n-1].hash
  BY DEF LinksFrom, HeadHash
<1>2. CASE n \in 1..Len(c)
  <2>1. d[n] = c[n] /\ (n # 1 => d[n-1] = c[n-1])
    BY <1>1, <1>2
  <2> QED
    BY <1>2, <2>1 DEF LinksFrom, HeadHash
<1>3. CASE n \notin 1..Len(c)
  <2> DEFINE k == n - Len(c)
  <2>1. k \in 1..Len(more) /\ d[n] = more[k] /\ n = Len(c) + k
    BY <1>1, <1>3
  <2>2. more[k].seq = n
    BY <2>1 DEF LinksFrom
  <2>3. CASE k = 1
    <3>1. more[k].prev = HeadHash(c)
      BY <2>1, <2>3 DEF LinksFrom
    <3>2. HeadHash(c) = IF n = 1 THEN GenesisHash ELSE d[n-1].hash
      BY <1>1, <2>1, <2>3 DEF HeadHash
    <3> QED BY <2>1, <2>2, <3>1, <3>2
  <2>4. CASE k # 1
    <3>1. k - 1 \in 1..Len(more) /\ n - 1 = Len(c) + (k - 1) /\ n # 1
      BY <2>1, <2>4
    <3>2. d[n-1] = more[k-1]
      BY <1>1, <3>1
    <3>3. more[k].prev = more[k-1].hash
      BY <2>1, <2>4 DEF LinksFrom
    <3> QED BY <2>1, <2>2, <3>1, <3>2, <3>3
  <2> QED BY <2>3, <2>4
<1> QED BY <1>2, <1>3

(* Staging one more block with the next number and the last hash keeps the
   staged blocks a linked continuation. *)
LEMMA LinksAppend ==
  ASSUME NEW c \in Seq(Blocks), NEW more \in Seq(Blocks), NEW b \in Blocks,
         LinksFrom(c, more),
         b.seq = Len(c) + Len(more) + 1,
         b.prev = HeadHash(c \o more)
  PROVE  /\ LinksFrom(c, Append(more, b))
         /\ HeadHash(c \o Append(more, b)) = b.hash
<1> DEFINE d == Append(more, b)
<1>1. /\ d \in Seq(Blocks) /\ Len(d) = Len(more) + 1 /\ d[Len(more) + 1] = b
      /\ \A n \in 1..Len(more) : d[n] = more[n]
  OBVIOUS
<1>2. HeadHash(c \o more) = IF Len(more) = 0 THEN HeadHash(c) ELSE more[Len(more)].hash
  <2>1. CASE more = << >>
    BY <2>1 DEF HeadHash
  <2>2. CASE more # << >>
    <3>1. Len(more) \in 1..Len(more)
      BY <2>2
    <3>2. /\ Len(c \o more) = Len(c) + Len(more)
          /\ (c \o more)[Len(c) + Len(more)] = more[Len(more)]
          /\ c \o more # << >>
      BY <3>1
    <3> QED
      BY <3>1, <3>2 DEF HeadHash
  <2> QED BY <2>1, <2>2
<1>3. LinksFrom(c, d)
  <2> SUFFICES ASSUME NEW n \in 1..Len(d)
               PROVE  /\ d[n].seq = Len(c) + n
                      /\ d[n].prev = IF n = 1 THEN HeadHash(c) ELSE d[n-1].hash
    BY DEF LinksFrom
  <2>1. CASE n \in 1..Len(more)
    <3>1. d[n] = more[n] /\ (n # 1 => d[n-1] = more[n-1])
      BY <1>1, <2>1
    <3> QED BY <2>1, <3>1 DEF LinksFrom
  <2>2. CASE n = Len(more) + 1
    <3>1. d[n] = b /\ (n # 1 => d[n-1] = more[Len(more)])
      BY <1>1, <2>2
    <3> QED BY <1>2, <2>2, <3>1
  <2> QED BY <1>1, <2>1, <2>2
<1>4. HeadHash(c \o d) = b.hash
  <2>1. /\ Len(c \o d) = Len(c) + Len(more) + 1
        /\ (c \o d)[Len(c) + Len(more) + 1] = b
        /\ c \o d # << >>
    BY <1>1
  <2> QED BY <2>1 DEF HeadHash
<1> QED BY <1>3, <1>4

----------------------------------------------------------------------------
(* Facts about one process that the action lemmas share. *)

(* Only one process is past the lock. *)
LEMMA OneInside ==
  ASSUME Mutex, NEW p \in Procs, NEW q \in Procs, pc[p] \in Inside, pc[q] \in Inside
  PROVE  p = q
BY DEF Mutex

(* An id in the chain is an id of a committed row. *)
LEMMA ChainedAreStored ==
  ASSUME BlocksMatchEvents, NEW id \in ChainedIds(chain)
  PROVE  events[id] # NoEvent
BY DEF BlocksMatchEvents, ChainedIds

(* A row built from a caller's input is a trace_events row. *)
LEMMA RowType ==
  ASSUME NEW in \in Inputs, NEW v \in BOOLEAN
  PROVE  Row(in, v) \in Rows
<1>1. Canon[in.payload] \in Payloads
  BY CanonAssumption DEF Inputs
<1> QED BY <1>1 DEF Row, Rows, Inputs

(* The locals of a process with no transaction have the type of locals. *)
LEMMA IdleTxType == IdleTx \in TxType
BY DEF IdleTx, TxType, NoCall, Hashes, GenesisHash

(* A process with nothing under way satisfies the per-process parts. *)
LEMMA IdleOK ==
  ASSUME NEW evs, NEW c
  PROVE  CallOK(evs, "idle", IdleTx) /\ FitsOn(evs, c, "idle", IdleTx)
BY DEF CallOK, FitsOn, IdleTx

(* The empty tables, with nothing under way, satisfy the invariant. *)
LEMMA InitInv == Init => IndInv
<1> SUFFICES ASSUME Init PROVE IndInv
  OBVIOUS
<1>1. TypeOK
  <2>1. events \in [Ids -> Rows \cup {NoEvent}]
    BY DEF Init
  <2>2. pc \in [Procs -> States] /\ tx \in [Procs -> TxType]
    BY IdleTxType DEF Init, States
  <2>3. chain \in Seq(Blocks) /\ lock \in Procs \cup {Free}
    BY DEF Init
  <2>4. enabled \in [Appenders -> BOOLEAN] /\ sealed \in BOOLEAN
    BY Zenon DEF Init
  <2> QED
    BY <2>1, <2>2, <2>3, <2>4 DEF TypeOK
<1>2. RowsCanonical /\ ChainLinked /\ BlocksMatchEvents
  BY DEF Init, RowsCanonical, Stored, ChainLinked, LinksFrom, BlocksMatchEvents
<1>3. Mutex /\ Roles
  BY ProcsAssumption DEF Init, Mutex, Roles, Inside, Procs
<1>4. CallsOK /\ StagedOK
  BY IdleOK DEF Init, CallsOK, StagedOK, Procs
<1> QED BY <1>1, <1>2, <1>3, <1>4 DEF IndInv

(* Ending a transaction keeps the types, the lock discipline and the roles. *)
LEMMA EndTypes ==
  ASSUME TypeOK, Mutex, Roles, NEW p \in Procs, End(p)
  PROVE  /\ lock' \in Procs \cup {Free}
         /\ pc' \in [Procs -> States]
         /\ tx' \in [Procs -> TxType]
         /\ Mutex'
         /\ Roles'
<1>2. /\ lock' \in Procs \cup {Free}
      /\ pc' \in [Procs -> States]
      /\ tx' \in [Procs -> TxType]
  BY IdleTxType DEF TypeOK, End, Goto, States
<1>3. Mutex'
  BY ProcsAssumption DEF Mutex, End, Goto, Inside, TypeOK, States
<1>4. Roles'
  BY DEF Roles, End, Goto, TypeOK, Procs
<1> QED BY <1>2, <1>3, <1>4

(* A step of p that leaves the tables alone keeps the per-process parts if
   it keeps them for p. *)
LEMMA OnlyP ==
  ASSUME IndInv, NEW p \in Procs, UNCHANGED << events, chain >>,
         NEW s, NEW t,
         pc' = [pc EXCEPT ![p] = s], tx' = [tx EXCEPT ![p] = t],
         p \in Appenders => CallOK(events, s, t),
         FitsOn(events, chain, s, t)
  PROVE  RowsCanonical' /\ ChainLinked' /\ BlocksMatchEvents' /\ CallsOK' /\ StagedOK'
<1> USE DEF IndInv
<1>1. RowsCanonical' /\ ChainLinked' /\ BlocksMatchEvents'
  BY DEF RowsCanonical, Stored, ChainLinked, BlocksMatchEvents
<1>2. \A q \in Procs : /\ pc'[q] = IF q = p THEN s ELSE pc[q]
                       /\ tx'[q] = IF q = p THEN t ELSE tx[q]
  BY DEF TypeOK
<1>3. CallsOK'
  BY <1>2 DEF CallsOK, Procs
<1>4. StagedOK'
  BY <1>2 DEF StagedOK
<1> QED BY <1>1, <1>3, <1>4

(* A rollback drops what was staged and frees the lock: the tables are as before. *)
LEMMA AbortInv ==
  ASSUME IndInv, NEW p \in Procs, Abort(p)
  PROVE  IndInv'
<1> USE DEF IndInv
<1>1. End(p) /\ UNCHANGED << events, chain, enabled, sealed >>
  BY DEF Abort
<1>2. TypeOK' /\ Mutex' /\ Roles'
  BY <1>1, EndTypes DEF TypeOK
<1>3. RowsCanonical' /\ ChainLinked' /\ BlocksMatchEvents' /\ CallsOK' /\ StagedOK'
  BY <1>1, IdleOK, OnlyP DEF End, Goto
<1> QED BY <1>2, <1>3

(* Likewise for a step of p that neither takes nor releases the lock, stays
   inside (or outside) it, and keeps p's role. *)
LEMMA OnlyPInv ==
  ASSUME IndInv, NEW p \in Procs, UNCHANGED << events, chain, lock, enabled, sealed >>,
         NEW s \in States, NEW t \in TxType,
         pc' = [pc EXCEPT ![p] = s], tx' = [tx EXCEPT ![p] = t],
         pc[p] \in Inside <=> s \in Inside,
         p \in Appenders => s \notin {"read", "blocks"} /\ CallOK(events, s, t),
         p \in Backfillers => s \notin {"insert", "block", "commit"},
         FitsOn(events, chain, s, t)
  PROVE  IndInv'
<1> USE DEF IndInv
<1>1. TypeOK'
  BY DEF TypeOK
<1>2. Mutex'
  BY DEF Mutex, TypeOK
<1>3. Roles'
  BY DEF Roles, TypeOK, Procs
<1>4. RowsCanonical' /\ ChainLinked' /\ BlocksMatchEvents' /\ CallsOK' /\ StagedOK'
  BY OnlyP
<1> QED BY <1>1, <1>2, <1>3, <1>4

(* Begin of a chained append: p has a batch input and nothing staged. *)
LEMMA AppendChainedInv ==
  ASSUME IndInv, NEW p \in Appenders, AppendChained(p)
  PROVE  IndInv'
<1> USE DEF IndInv
<1>1. PICK in \in Inputs : /\ in.batch
                           /\ tx' = [tx EXCEPT ![p] = [IdleTx EXCEPT !.in = in]]
  BY DEF AppendChained
<1> DEFINE t == [IdleTx EXCEPT !.in = in]
<1>2. t \in TxType /\ t.in = in /\ t.staged = << >> /\ t.pending = << >>
  BY IdleTxType DEF TxType, IdleTx
<1>3. CallOK(events, "lock", t) /\ FitsOn(events, chain, "lock", t)
  BY <1>1, <1>2 DEF CallOK, FitsOn
<1>4. /\ pc[p] = "idle" /\ pc' = [pc EXCEPT ![p] = "lock"] /\ p \in Procs
      /\ UNCHANGED << events, chain, lock, enabled, sealed >>
  BY DEF AppendChained, Goto, Procs
<1> HIDE DEF t, IndInv
<1> QED
  BY <1>1, <1>2, <1>3, <1>4, ProcsAssumption, OnlyPInv DEF Inside, States, t

(* Begin of a backfill changes nothing but where the process is. *)
LEMMA BackfillBeginInv ==
  ASSUME IndInv, NEW b \in Backfillers, BackfillBegin(b)
  PROVE  IndInv'
<1>1. /\ pc[b] = "idle" /\ pc' = [pc EXCEPT ![b] = "lock"] /\ b \in Procs
      /\ b \notin Appenders
      /\ UNCHANGED << events, chain, lock, enabled, tx, sealed >>
  BY ProcsAssumption DEF BackfillBegin, Goto, Procs
<1>2. tx[b] \in TxType /\ tx' = [tx EXCEPT ![b] = tx[b]]
  BY <1>1 DEF IndInv, TypeOK
<1>3. FitsOn(events, chain, "lock", tx[b])
  BY <1>1 DEF IndInv, StagedOK, FitsOn, States
<1> QED
  BY <1>1, <1>2, <1>3, OnlyPInv DEF Inside, States

(* Getting the lock: nobody else was past it. *)
LEMMA AcquireInv ==
  ASSUME IndInv, NEW p \in Procs, Acquire(p)
  PROVE  IndInv'
<1> USE DEF IndInv
<1> DEFINE s == IF p \in Backfillers THEN "head" ELSE "insert"
<1>1. /\ pc[p] = "lock" /\ lock = Free /\ lock' = p
      /\ pc' = [pc EXCEPT ![p] = s]
      /\ UNCHANGED << events, chain, enabled, tx, sealed >>
  BY DEF Acquire, Goto
<1>2. tx[p] \in TxType /\ tx' = [tx EXCEPT ![p] = tx[p]]
  BY <1>1 DEF TypeOK
<1>3. FitsOn(events, chain, s, tx[p])
  BY <1>1 DEF StagedOK, FitsOn, States
<1>4. p \in Appenders => CallOK(events, s, tx[p])
  BY <1>1, ProcsAssumption DEF CallsOK, CallOK
<1>5. RowsCanonical' /\ ChainLinked' /\ BlocksMatchEvents' /\ CallsOK' /\ StagedOK'
  BY <1>1, <1>2, <1>3, <1>4, OnlyP
<1>6. TypeOK'
  BY <1>1 DEF TypeOK, States
<1>7. Mutex'
  BY <1>1, ProcsAssumption DEF Mutex, TypeOK, Inside, States
<1>8. Roles'
  BY <1>1, ProcsAssumption DEF Roles, TypeOK, Procs
<1> QED BY <1>5, <1>6, <1>7, <1>8

(* The INSERT picks an id no committed row has, or the id of the row with its key. *)
LEMMA InsertEventInv ==
  ASSUME IndInv, NEW p \in Procs, InsertEvent(p)
  PROVE  IndInv'
<1> USE DEF IndInv
<1>1. p \in Appenders /\ p \notin Backfillers /\ pc[p] = "insert"
  BY ProcsAssumption DEF Roles, InsertEvent, Procs
<1>2. PICK id \in Ids, s \in {"head", "commit"} :
        /\ tx' = [tx EXCEPT ![p].id = id] /\ pc' = [pc EXCEPT ![p] = s]
        /\ s = "head" => events[id] = NoEvent
        /\ s = "commit" => events[id] # NoEvent
  BY DEF InsertEvent, FreshIds, KeyHolders, Stored, Goto
<1> DEFINE t == [tx[p] EXCEPT !.id = id]
<1>3. tx' = [tx EXCEPT ![p] = t]
  BY <1>2
<1>4. /\ t \in TxType /\ t.id = id /\ t.in = tx[p].in
      /\ t.staged = tx[p].staged /\ t.pending = tx[p].pending
  BY DEF TypeOK, TxType
<1>5. tx[p].staged = << >> /\ tx[p].pending = << >>
  BY <1>1 DEF StagedOK, FitsOn, States
<1>6. CallOK(events, s, t)
  BY <1>1, <1>2, <1>4 DEF CallsOK, CallOK
<1>7. FitsOn(events, chain, s, t)
  BY <1>2, <1>4, <1>5 DEF FitsOn
<1>8. UNCHANGED << events, chain, lock, enabled, sealed >>
  BY DEF InsertEvent
<1>9. /\ s \in States /\ s \in Inside /\ pc[p] \in Inside
      /\ s \notin {"read", "blocks"} /\ pc' = [pc EXCEPT ![p] = s]
  BY <1>1, <1>2 DEF Inside, States
<1> HIDE DEF t, IndInv
<1> QED
  BY <1>1, <1>3, <1>4, <1>6, <1>7, <1>8, <1>9, OnlyPInv

(* Under the lock, the head that is read is the number and hash of the last block. *)
LEMMA ReadHeadInv ==
  ASSUME IndInv, NEW p \in Procs, ReadHead(p)
  PROVE  IndInv'
<1> USE DEF IndInv
<1> DEFINE s == IF p \in Backfillers THEN "read" ELSE "block"
           t == [tx[p] EXCEPT !.last = HeadSeq(chain), !.prev = HeadHash(chain)]
<1>1. /\ pc[p] = "head" /\ pc' = [pc EXCEPT ![p] = s] /\ tx' = [tx EXCEPT ![p] = t]
      /\ UNCHANGED << events, chain, lock, enabled, sealed >>
  BY DEF ReadHead, Goto
<1>2. HeadSeq(chain) = Len(chain) /\ HeadHash(chain) \in Hashes /\ Len(chain) \in Nat
  BY HeadOfLinked DEF TypeOK, ChainLinked
<1>3. /\ t \in TxType /\ t.id = tx[p].id /\ t.in = tx[p].in
      /\ t.staged = tx[p].staged /\ t.pending = tx[p].pending
      /\ t.last = Len(chain) /\ t.prev = HeadHash(chain)
  BY <1>2 DEF TypeOK, TxType
<1>4. tx[p].staged = << >> /\ tx[p].pending = << >>
  BY <1>1 DEF StagedOK, FitsOn, States
<1>5. p \in Appenders => CallOK(events, s, t)
  BY <1>1, <1>3, ProcsAssumption DEF CallsOK, CallOK
<1>6. FitsOn(events, chain, s, t)
  BY <1>3, <1>4 DEF FitsOn
<1> HIDE DEF t, IndInv
<1> QED
  BY <1>1, <1>3, <1>5, <1>6, ProcsAssumption, OnlyPInv DEF Inside, States

(* The block staged by an append is the one that continues the committed chain. *)
LEMMA InsertBlockInv ==
  ASSUME IndInv, NEW p \in Procs, InsertBlock(p)
  PROVE  IndInv'
<1> USE DEF IndInv
<1> DEFINE b == Block(tx[p].last + 1, tx[p].id, tx[p].in.at, tx[p].in.payload, tx[p].prev)
           t == WithBlock(tx[p], tx[p].id, tx[p].in.at, tx[p].in.payload)
<1>1. /\ pc[p] = "block" /\ pc' = [pc EXCEPT ![p] = "commit"] /\ tx' = [tx EXCEPT ![p] = t]
      /\ UNCHANGED << events, chain, lock, enabled, sealed >>
  BY DEF InsertBlock, Goto
<1>2. p \in Appenders /\ p \notin Backfillers
  BY <1>1, ProcsAssumption DEF Roles, Procs
<1>3. tx[p].in \in Inputs /\ tx[p].in.batch /\ tx[p].id \in Ids /\ events[tx[p].id] = NoEvent
  BY <1>1, <1>2 DEF CallsOK, CallOK
<1>4. /\ tx[p].staged = << >> /\ tx[p].pending = << >>
      /\ tx[p].last = Len(chain) /\ tx[p].prev = HeadHash(chain)
      /\ tx[p] \in TxType
  BY <1>1 DEF StagedOK, FitsOn, States, TypeOK
<1>5. b \in Blocks /\ b.seq \in Nat /\ b.hash \in Hashes
  <2>1. /\ tx[p].last + 1 \in Nat /\ tx[p].in.at \in Times /\ tx[p].in.payload \in Payloads
        /\ tx[p].prev \in Hashes
    BY <1>3, <1>4 DEF TxType, Inputs
  <2> QED
    BY <1>3, <2>1, BlockType DEF Blocks
<1>6. t = [tx[p] EXCEPT !.staged = Append(tx[p].staged, b), !.last = b.seq, !.prev = b.hash]
  BY DEF WithBlock
<1> HIDE DEF b, t
<1>7. /\ t \in TxType /\ t.id = tx[p].id /\ t.in = tx[p].in
      /\ t.staged = << b >> /\ t.pending = << >>
  <2>1. Append(tx[p].staged, b) = << b >> /\ << b >> \in Seq(Blocks)
    BY <1>4, <1>5
  <2> QED
    BY <1>4, <1>5, <1>6, <2>1 DEF TxType
<1>8. b = NextBlock(chain, t)
  BY <1>4, <1>7 DEF b, NextBlock
<1>9. CallOK(events, "commit", t)
  BY <1>3, <1>7 DEF CallOK
<1>10. FitsOn(events, chain, "commit", t)
  BY <1>3, <1>7, <1>8 DEF FitsOn
<1> HIDE DEF IndInv
<1> QED
  BY <1>1, <1>2, <1>7, <1>9, <1>10, OnlyPInv DEF Inside, States

(* Unchained events are finitely many, so the rows the backfill reads form a
   sequence of event ids. *)
LEMMA EnumerationType ==
  ASSUME NEW S, S \subseteq Ids, NEW s \in Enumerations(S)
  PROVE  /\ s \in Seq(Ids)
         /\ \A n \in 1..Len(s) : s[n] \in S
         /\ \A m, n \in 1..Len(s) : s[m] = s[n] => m = n
<1>1. Cardinality(S) \in Nat
  BY IdsAssumption, FS_Subset, FS_CardinalityType
<1>2. s \in [1..Cardinality(S) -> S] /\ s \in Seq(Ids) /\ Len(s) = Cardinality(S)
  BY <1>1 DEF Enumerations
<1> QED BY <1>2 DEF Enumerations

(* The backfill reads different events, all committed and without a block. *)
LEMMA ReadPendingInv ==
  ASSUME IndInv, NEW p \in Procs, ReadPending(p)
  PROVE  IndInv'
<1> USE DEF IndInv
<1>1. PICK s \in Enumerations(Unchained(events, chain)) :
        tx' = [tx EXCEPT ![p].pending = s, ![p].covers = \A q \in Appenders : enabled[q]]
  BY DEF ReadPending
<1> DEFINE cov == \A q \in Appenders : enabled[q]
           t == [tx[p] EXCEPT !.pending = s, !.covers = cov]
<1>2. /\ pc[p] = "read" /\ pc' = [pc EXCEPT ![p] = "blocks"] /\ tx' = [tx EXCEPT ![p] = t]
      /\ UNCHANGED << events, chain, lock, enabled, sealed >>
  BY <1>1 DEF ReadPending, Goto
<1>3. p \in Backfillers /\ p \notin Appenders
  BY <1>2 DEF Roles, Procs
<1>4. /\ s \in Seq(Ids)
      /\ \A n \in 1..Len(s) : s[n] \in Unchained(events, chain)
      /\ \A m, n \in 1..Len(s) : s[m] = s[n] => m = n
  BY EnumerationType DEF Unchained, Stored
<1>5. /\ tx[p].staged = << >> /\ tx[p].last = Len(chain) /\ tx[p].prev = HeadHash(chain)
      /\ tx[p] \in TxType
  BY <1>2 DEF StagedOK, FitsOn, States, TypeOK
<1>6. cov \in BOOLEAN
  OBVIOUS
<1> HIDE DEF cov
<1>7. /\ t \in TxType /\ t.staged = << >> /\ t.pending = s
      /\ t.last = Len(chain) /\ t.prev = HeadHash(chain)
  BY <1>4, <1>5, <1>6 DEF TxType
<1> HIDE DEF t
<1>8. FitsOn(events, chain, "blocks", t)
  <2>1. LinksFrom(chain, << >>) /\ chain \o << >> = chain /\ Len(chain) + 0 = Len(chain)
    BY DEF LinksFrom, TypeOK
  <2>2. StagedIdsOK(events, chain, << >>, s)
    BY <1>4 DEF StagedIdsOK
  <2> QED
    BY <1>7, <2>1, <2>2 DEF FitsOn
<1> HIDE DEF IndInv
<1> QED
  BY <1>2, <1>3, <1>7, <1>8, OnlyPInv DEF Inside, States

(* One more block of the backfill continues those it has staged. *)
LEMMA BackfillBlockInv ==
  ASSUME IndInv, NEW p \in Procs, BackfillBlock(p)
  PROVE  IndInv'
<1> USE DEF IndInv
<1> DEFINE id == Head(tx[p].pending)
           b  == Block(tx[p].last + 1, id, events[id].at, events[id].payload, tx[p].prev)
           st == tx[p].staged
           t  == [WithBlock(tx[p], id, events[id].at, events[id].payload) EXCEPT
                    !.pending = Tail(tx[p].pending)]
<1>1. /\ pc[p] = "blocks" /\ tx[p].pending # << >> /\ tx' = [tx EXCEPT ![p] = t]
      /\ UNCHANGED << events, chain, lock, enabled, pc, sealed >>
  BY DEF BackfillBlock
<1>2. p \in Backfillers /\ p \notin Appenders
  BY <1>1 DEF Roles, Procs
<1>3. /\ LinksFrom(chain, st)
      /\ tx[p].last = Len(chain) + Len(st)
      /\ tx[p].prev = HeadHash(chain \o st)
      /\ StagedIdsOK(events, chain, st, tx[p].pending)
      /\ tx[p] \in TxType
  BY <1>1 DEF StagedOK, FitsOn, TypeOK
<1>4. /\ tx[p].pending \in Seq(Ids) /\ st \in Seq(Blocks) /\ tx[p].last \in Nat
      /\ tx[p].prev \in Hashes /\ chain \in Seq(Blocks)
  BY <1>3 DEF TxType, TypeOK
<1>5. /\ 1 \in 1..Len(tx[p].pending) /\ id = tx[p].pending[1]
      /\ Tail(tx[p].pending) \in Seq(Ids)
      /\ Len(Tail(tx[p].pending)) = Len(tx[p].pending) - 1
      /\ \A n \in 1..Len(Tail(tx[p].pending)) :
           Tail(tx[p].pending)[n] = tx[p].pending[n+1] /\ n + 1 \in 1..Len(tx[p].pending)
  BY <1>1, <1>4
<1>6. id \in Unchained(events, chain) /\ id \in Ids
  BY <1>3, <1>4, <1>5 DEF StagedIdsOK
<1>7. events[id] \in Rows
  BY <1>6 DEF Unchained, Stored, TypeOK
<1>8. /\ b \in Blocks /\ b.seq = tx[p].last + 1 /\ b.id = id /\ b.prev = tx[p].prev
      /\ b.hash \in Hashes
  <2>1. events[id].at \in Times /\ events[id].payload \in Payloads /\ tx[p].last + 1 \in Nat
    BY <1>4, <1>7 DEF Rows
  <2> QED
    BY <1>4, <1>6, <2>1, BlockType
<1>9. /\ t.in = tx[p].in /\ t.id = tx[p].id /\ t.covers = tx[p].covers
      /\ t.staged = Append(st, b) /\ t.last = b.seq /\ t.prev = b.hash
      /\ t.pending = Tail(tx[p].pending)
      /\ t = [in |-> t.in, id |-> t.id, last |-> t.last, prev |-> t.prev, staged |-> t.staged,
              pending |-> t.pending, covers |-> t.covers]
  <2> DEFINE w == WithBlock(tx[p], id, events[id].at, events[id].payload)
  <2>1. w = [tx[p] EXCEPT !.staged = Append(st, b), !.last = b.seq, !.prev = b.hash]
    BY DEF WithBlock
  <2> HIDE DEF b, w
  <2>2. w = [in |-> tx[p].in, id |-> tx[p].id, last |-> b.seq, prev |-> b.hash,
             staged |-> Append(st, b), pending |-> tx[p].pending, covers |-> tx[p].covers]
    BY <1>3, <2>1 DEF TxType
  <2>3. t = [w EXCEPT !.pending = Tail(tx[p].pending)]
    BY DEF w
  <2> HIDE DEF t, id
  <2>4. t = [in |-> tx[p].in, id |-> tx[p].id, last |-> b.seq, prev |-> b.hash,
             staged |-> Append(st, b), pending |-> Tail(tx[p].pending), covers |-> tx[p].covers]
    BY <2>2, <2>3
  <2> QED BY <2>4
<1>10. b = Block(b.seq, b.id, events[b.id].at, events[b.id].payload, b.prev)
  BY <1>8
<1> HIDE DEF b, t, id
<1>11. /\ t \in TxType /\ t.staged = Append(st, b) /\ t.last = b.seq /\ t.prev = b.hash
       /\ t.pending = Tail(tx[p].pending)
  <2>1. Append(st, b) \in Seq(Blocks) /\ b.seq \in Nat
    BY <1>4, <1>8
  <2>2. /\ tx[p].in \in Inputs \cup {NoCall} /\ tx[p].id \in Ids \cup {NoEvent}
        /\ tx[p].covers \in BOOLEAN
    BY <1>3 DEF TxType
  <2> QED
    BY <1>5, <1>8, <1>9, <2>1, <2>2 DEF TxType
<1>12. LinksFrom(chain, Append(st, b)) /\ HeadHash(chain \o Append(st, b)) = b.hash
  <2>1. b.seq = Len(chain) + Len(st) + 1 /\ b.prev = HeadHash(chain \o st)
    BY <1>3, <1>8
  <2> QED
    BY <1>3, <1>4, <1>8, <2>1, LinksAppend
<1>13. StagedIdsOK(events, chain, Append(st, b), Tail(tx[p].pending))
  <2> DEFINE d == Append(st, b)
             pe == tx[p].pending
             tl == Tail(tx[p].pending)
  <2>1. /\ Len(d) = Len(st) + 1 /\ d[Len(st) + 1] = b /\ Len(st) \in Nat
        /\ \A n \in 1..Len(st) : d[n] = st[n]
    BY <1>4, <1>8
  <2>2. /\ \A n \in 1..Len(st) :
             /\ st[n].id \in Unchained(events, chain)
             /\ st[n] = Block(st[n].seq, st[n].id, events[st[n].id].at,
                              events[st[n].id].payload, st[n].prev)
             /\ \A m \in 1..Len(st) : st[m].id = st[n].id => m = n
             /\ \A m \in 1..Len(pe) : pe[m] # st[n].id
        /\ \A n \in 1..Len(pe) :
             /\ pe[n] \in Unchained(events, chain)
             /\ \A m \in 1..Len(pe) : pe[m] = pe[n] => m = n
    BY <1>3 DEF StagedIdsOK
  <2>3. \A n \in 1..Len(st) : st[n].id # id
    BY <1>5, <2>2
  <2>4. \A m \in 1..Len(tl) : tl[m] # id
    BY <1>4, <1>5, <2>2
  <2>5. \A n \in 1..Len(tl) : /\ tl[n] \in Unchained(events, chain)
                              /\ \A m \in 1..Len(tl) : tl[m] = tl[n] => m = n
    <3> SUFFICES ASSUME NEW n \in 1..Len(tl)
                 PROVE  /\ tl[n] \in Unchained(events, chain)
                        /\ \A m \in 1..Len(tl) : tl[m] = tl[n] => m = n
      OBVIOUS
    <3>1. tl[n] = pe[n+1] /\ n + 1 \in 1..Len(pe)
      BY <1>5
    <3>2. \A m \in 1..Len(tl) : tl[m] = pe[m+1] /\ m + 1 \in 1..Len(pe)
      BY <1>5
    <3>3. \A m \in 1..Len(tl) : pe[m+1] = pe[n+1] => m + 1 = n + 1
      BY <3>1, <3>2, <2>2
    <3> QED BY <2>2, <3>1, <3>2, <3>3
  <2>6. ASSUME NEW n \in 1..Len(d)
        PROVE  /\ d[n].id \in Unchained(events, chain)
               /\ d[n] = Block(d[n].seq, d[n].id, events[d[n].id].at,
                               events[d[n].id].payload, d[n].prev)
               /\ \A m \in 1..Len(d) : d[m].id = d[n].id => m = n
               /\ \A m \in 1..Len(tl) : tl[m] # d[n].id
    <3>1. CASE n \in 1..Len(st)
      <4>1. d[n] = st[n]
        BY <2>1, <3>1
      <4>2. ASSUME NEW m \in 1..Len(d), d[m].id = d[n].id
            PROVE  m = n
        <5>1. m # Len(st) + 1
          BY <1>8, <2>1, <2>3, <3>1, <4>1, <4>2
        <5>2. m \in 1..Len(st) /\ d[m] = st[m]
          BY <2>1, <5>1
        <5> QED BY <2>2, <3>1, <4>1, <4>2, <5>2
      <4>3. \A m \in 1..Len(tl) : tl[m] # d[n].id
        BY <1>5, <2>2, <3>1, <4>1
      <4> QED BY <2>2, <3>1, <4>1, <4>2, <4>3
    <3>2. CASE n = Len(st) + 1
      <4>1. d[n] = b
        BY <2>1, <3>2
      <4>2. \A m \in 1..Len(d) : d[m].id = d[n].id => m = n
        BY <2>1, <2>3, <1>8, <3>2, <4>1
      <4> QED BY <1>6, <1>8, <1>10, <2>4, <4>1, <4>2
    <3> QED BY <2>1, <3>1, <3>2
  <2> HIDE DEF d, tl
  <2> QED
    BY <2>5, <2>6 DEF StagedIdsOK, d, tl
<1>14. FitsOn(events, chain, "blocks", t)
  <2>1. Len(Append(st, b)) = Len(st) + 1 /\ Len(st) \in Nat /\ Len(chain) \in Nat
    BY <1>4, <1>8
  <2>2. t.last = Len(chain) + Len(t.staged)
    BY <1>3, <1>8, <1>11, <2>1
  <2> QED
    BY <1>11, <1>12, <1>13, <2>2 DEF FitsOn
<1>15. pc' = [pc EXCEPT ![p] = "blocks"]
  BY <1>1 DEF TypeOK
<1> HIDE DEF IndInv
<1> QED
  BY <1>1, <1>2, <1>11, <1>14, <1>15, OnlyPInv DEF Inside, States

(* What a transaction has staged does not depend on a row that is new, that it
   does not own and that no block names. *)
LEMMA NewRowFits ==
  ASSUME NEW evs, NEW c, NEW s, NEW t, NEW new, NEW row, FitsOn(evs, c, s, t),
         evs \in [Ids -> Rows \cup {NoEvent}],
         evs[new] = NoEvent, t.id # new, s = "commit" => t.id \in Ids
  PROVE  FitsOn([evs EXCEPT ![new] = row], c, s, t)
<1> DEFINE e == [evs EXCEPT ![new] = row]
<1>1. \A id \in Ids : id # new => e[id] = evs[id]
  OBVIOUS
<1>2. \A id \in Unchained(evs, c) : id \in Ids /\ id # new /\ id \in Unchained(e, c)
  BY <1>1 DEF Unchained, Stored
<1> HIDE DEF e
<1>3. s = "commit" => e[t.id] = evs[t.id]
  BY <1>1
<1>4. ASSUME NEW staged, NEW pending, StagedIdsOK(evs, c, staged, pending)
      PROVE  StagedIdsOK(e, c, staged, pending)
  <2>1. ASSUME NEW n \in 1..Len(staged)
        PROVE  /\ staged[n].id \in Unchained(e, c)
               /\ e[staged[n].id] = evs[staged[n].id]
    BY <1>1, <1>2, <1>4 DEF StagedIdsOK
  <2>2. ASSUME NEW n \in 1..Len(pending)
        PROVE  pending[n] \in Unchained(e, c)
    BY <1>2, <1>4 DEF StagedIdsOK
  <2> QED
    BY <1>4, <2>1, <2>2 DEF StagedIdsOK
<1> QED
  BY <1>3, <1>4 DEF FitsOn, e

(* A row built by an insert is in normal form. *)
LEMMA NewRowCanonical ==
  ASSUME TypeOK, RowsCanonical, NEW id \in Ids, NEW in \in Inputs, NEW v \in BOOLEAN,
         events' = [events EXCEPT ![id] = Row(in, v)]
  PROVE  RowsCanonical'
<1> SUFFICES ASSUME NEW i \in Stored(events')
             PROVE  events'[i].payload = Canon[events'[i].sent]
  BY DEF RowsCanonical
<1>1. CASE i = id
  BY <1>1 DEF TypeOK, Row
<1>2. CASE i # id
  BY <1>2 DEF TypeOK, RowsCanonical, Stored
<1> QED BY <1>1, <1>2

(* What JSONB has normalised, it does not normalise again. *)
LEMMA StoredCanonical ==
  ASSUME TypeOK, RowsCanonical, NEW id \in Stored(events)
  PROVE  Canon[events[id].payload] = events[id].payload
<1>1. events[id] \in Rows
  BY DEF TypeOK, Stored
<1> QED BY <1>1, CanonAssumption DEF RowsCanonical, Rows

(* A row inserted by the plain path is no row that anybody staged or chained. *)
LEMMA AppendPlainInv ==
  ASSUME IndInv, NEW p \in Appenders, AppendPlain(p)
  PROVE  IndInv'
<1> USE DEF IndInv
<1>1. PICK in \in Inputs, id \in FreshIds : events' = [events EXCEPT ![id] = Row(in, FALSE)]
  BY DEF AppendPlain
<1>2. UNCHANGED << chain, lock, enabled, pc, tx, sealed >>
  BY DEF AppendPlain
<1>3. id \in Ids /\ events[id] = NoEvent /\ \A q \in Procs : tx[q].id # id
  BY <1>1 DEF FreshIds
<1>4. TypeOK'
  BY <1>1, <1>2, <1>3, RowType DEF TypeOK
<1>5. ChainLinked' /\ Mutex' /\ Roles'
  BY <1>2 DEF ChainLinked, Mutex, Roles
<1>6. BlocksMatchEvents'
  <2>1. \A n \in 1..Len(chain) : chain[n].id # id /\ chain[n].id \in Ids
    <3>1. \A n \in 1..Len(chain) : chain[n] \in Blocks
      BY DEF TypeOK
    <3> QED
      BY <1>3, <3>1 DEF BlocksMatchEvents, Blocks
  <2>2. \A n \in 1..Len(chain) : events'[chain[n].id] = events[chain[n].id]
    BY <1>1, <1>3, <2>1 DEF TypeOK
  <2> QED BY <1>2, <2>2 DEF BlocksMatchEvents
<1>7. CallsOK'
  <2> SUFFICES ASSUME NEW q \in Appenders PROVE CallOK(events, pc[q], tx[q])'
    BY DEF CallsOK
  <2>1. CallOK(events, pc[q], tx[q]) /\ tx[q].id # id
    BY <1>3 DEF CallsOK, Procs
  <2>2. tx[q].id \in Ids => events'[tx[q].id] = events[tx[q].id]
    BY <1>1, <1>3, <2>1 DEF TypeOK
  <2> QED BY <1>2, <2>1, <2>2 DEF CallOK
<1>8. StagedOK'
  <2> SUFFICES ASSUME NEW q \in Procs PROVE FitsOn(events, chain, pc[q], tx[q])'
    BY DEF StagedOK
  <2>1. pc[q] = "commit" => tx[q].id \in Ids
    BY DEF CallsOK, CallOK, Roles, Procs
  <2>2. FitsOn(events, chain, pc[q], tx[q]) /\ tx[q].id # id
    BY <1>3 DEF StagedOK
  <2>3. FitsOn([events EXCEPT ![id] = Row(in, FALSE)], chain, pc[q], tx[q])
    BY <1>3, <2>1, <2>2, NewRowFits DEF TypeOK
  <2> QED BY <1>1, <1>2, <2>3
<1>9. RowsCanonical'
  BY <1>1, <1>3, NewRowCanonical
<1> QED BY <1>4, <1>5, <1>6, <1>7, <1>8, <1>9

(* A process that is idle or waits for the lock has read nothing that a
   commit could make stale. *)
LEMMA OutsideFits ==
  ASSUME NEW evs, NEW c, NEW e, NEW d, NEW s \in {"idle", "lock"}, NEW t
  PROVE  /\ FitsOn(evs, c, s, t) => FitsOn(e, d, s, t)
         /\ CallOK(evs, s, t) => CallOK(e, s, t)
BY DEF FitsOn, CallOK, States

(* So a commit, which only the one process inside the lock can do, keeps the
   per-process parts whatever it does to the tables. *)
LEMMA CommitOthers ==
  ASSUME IndInv, NEW p \in Procs, pc[p] \in Inside, End(p)
  PROVE  CallsOK' /\ StagedOK'
<1> USE DEF IndInv
<1>1. \A q \in Procs : q # p => pc[q] \in {"idle", "lock"}
  BY OneInside DEF TypeOK, Inside
<1>2. \A q \in Procs : /\ pc'[q] = IF q = p THEN "idle" ELSE pc[q]
                       /\ tx'[q] = IF q = p THEN IdleTx ELSE tx[q]
  BY DEF End, Goto, TypeOK
<1>3. CallsOK'
  <2> SUFFICES ASSUME NEW q \in Appenders PROVE CallOK(events', pc'[q], tx'[q])
    BY DEF CallsOK
  <2>1. CASE q = p
    BY <1>2, <2>1, IdleOK DEF Procs
  <2>2. CASE q # p
    <3>1. pc[q] \in {"idle", "lock"} /\ CallOK(events, pc[q], tx[q])
      BY <1>1, <2>2 DEF CallsOK, Procs
    <3>2. CallOK(events', pc[q], tx[q])
      BY <3>1, OutsideFits
    <3> QED BY <1>2, <2>2, <3>2 DEF Procs
  <2> QED BY <2>1, <2>2
<1>4. StagedOK'
  <2> SUFFICES ASSUME NEW q \in Procs PROVE FitsOn(events', chain', pc'[q], tx'[q])
    BY DEF StagedOK
  <2>1. CASE q = p
    BY <1>2, <2>1, IdleOK
  <2>2. CASE q # p
    <3>1. pc[q] \in {"idle", "lock"} /\ FitsOn(events, chain, pc[q], tx[q])
      BY <1>1, <2>2 DEF StagedOK
    <3>2. FitsOn(events', chain', pc[q], tx[q])
      BY <3>1, OutsideFits
    <3> QED BY <1>2, <2>2, <3>2
  <2> QED BY <2>1, <2>2
<1> QED BY <1>3, <1>4

(* Adding linked blocks for committed batch events that had none. *)
LEMMA ChainGrows ==
  ASSUME TypeOK, ChainLinked, BlocksMatchEvents,
         NEW more \in Seq(Blocks), chain' = chain \o more, LinksFrom(chain, more),
         \A id \in ChainedIds(chain) : events'[id] = events[id],
         \A n \in 1..Len(more) :
           /\ more[n].id \notin ChainedIds(chain)
           /\ \A m \in 1..Len(more) : more[m].id = more[n].id => m = n
           /\ events'[more[n].id] # NoEvent
           /\ events'[more[n].id].batch
           /\ more[n].at = events'[more[n].id].at
           /\ more[n].metrics = events'[more[n].id].payload
  PROVE  chain' \in Seq(Blocks) /\ ChainLinked' /\ BlocksMatchEvents'
<1>1. /\ chain \in Seq(Blocks) /\ chain' \in Seq(Blocks)
      /\ Len(chain') = Len(chain) + Len(more) /\ Len(chain) \in Nat /\ Len(more) \in Nat
      /\ \A n \in 1..Len(chain) : chain'[n] = chain[n]
      /\ \A n \in 1..Len(more) : chain'[Len(chain) + n] = more[n]
  BY DEF TypeOK
<1>2. LinksFrom(<< >>, chain')
  BY <1>1, LinksConcat DEF ChainLinked
<1>3. \A n \in 1..Len(chain) : chain[n].id \in ChainedIds(chain)
  BY DEF ChainedIds
<1>4. \A n \in 1..Len(chain') : n \in 1..Len(chain) \/ \E k \in 1..Len(more) : n = Len(chain) + k
  <2> SUFFICES ASSUME NEW n \in 1..Len(chain'), n \notin 1..Len(chain)
               PROVE  \E k \in 1..Len(more) : n = Len(chain) + k
    OBVIOUS
  <2>1. n - Len(chain) \in 1..Len(more) /\ n = Len(chain) + (n - Len(chain))
    BY <1>1
  <2> QED BY <2>1
<1>5. ASSUME NEW m \in 1..Len(chain'), NEW n \in 1..Len(chain'), chain'[m].id = chain'[n].id
      PROVE  m = n
  <2>1. CASE m \in 1..Len(chain) /\ n \in 1..Len(chain)
    BY <1>1, <1>5, <2>1 DEF ChainLinked
  <2>2. CASE m \in 1..Len(chain) /\ n \notin 1..Len(chain)
    <3>1. PICK k \in 1..Len(more) : n = Len(chain) + k
      BY <1>4, <2>2
    <3> QED BY <1>1, <1>3, <1>5, <2>2, <3>1
  <2>3. CASE m \notin 1..Len(chain) /\ n \in 1..Len(chain)
    <3>1. PICK k \in 1..Len(more) : m = Len(chain) + k
      BY <1>4, <2>3
    <3> QED BY <1>1, <1>3, <1>5, <2>3, <3>1
  <2>4. CASE m \notin 1..Len(chain) /\ n \notin 1..Len(chain)
    <3>1. PICK k \in 1..Len(more) : m = Len(chain) + k
      BY <1>4, <2>4
    <3>2. PICK l \in 1..Len(more) : n = Len(chain) + l
      BY <1>4, <2>4
    <3>3. more[k].id = more[l].id
      BY <1>1, <1>5, <3>1, <3>2
    <3> QED BY <3>1, <3>2, <3>3
  <2> QED BY <2>1, <2>2, <2>3, <2>4
<1>6. ChainLinked'
  BY <1>2, <1>5 DEF ChainLinked
<1>7. BlocksMatchEvents'
  <2> SUFFICES ASSUME NEW n \in 1..Len(chain')
               PROVE  /\ events'[chain'[n].id] # NoEvent
                      /\ events'[chain'[n].id].batch
                      /\ chain'[n].at = events'[chain'[n].id].at
                      /\ chain'[n].metrics = events'[chain'[n].id].payload
    BY DEF BlocksMatchEvents
  <2>1. CASE n \in 1..Len(chain)
    <3>1. chain'[n] = chain[n] /\ events'[chain[n].id] = events[chain[n].id]
      BY <1>1, <1>3, <2>1
    <3> QED BY <2>1, <3>1 DEF BlocksMatchEvents
  <2>2. CASE n \notin 1..Len(chain)
    <3>1. PICK k \in 1..Len(more) : n = Len(chain) + k
      BY <1>4, <2>2
    <3> QED BY <1>1, <3>1
  <2> QED BY <2>1, <2>2
<1> QED BY <1>1, <1>6, <1>7

(* Committing an append adds its row and one linked block, or neither. *)
LEMMA CommitAppendInv ==
  ASSUME IndInv, NEW p \in Procs, CommitAppend(p)
  PROVE  IndInv'
<1> USE DEF IndInv
<1>1. /\ p \in Appenders /\ pc[p] = "commit" /\ End(p) /\ pc[p] \in Inside
      /\ UNCHANGED << enabled, sealed >> /\ chain' = chain \o tx[p].staged
      /\ events' = IF events[tx[p].id] = NoEvent
                     THEN [events EXCEPT ![tx[p].id] = Row(tx[p].in, TRUE)] ELSE events
  BY DEF CommitAppend, Inside, States
<1>2. tx[p].in \in Inputs /\ tx[p].in.batch /\ tx[p].id \in Ids
  BY <1>1 DEF CallsOK, CallOK
<1>3. tx[p].staged = IF events[tx[p].id] = NoEvent THEN << NextBlock(chain, tx[p]) >> ELSE << >>
  BY <1>1 DEF StagedOK, FitsOn
<1>4. CallsOK' /\ StagedOK'
  BY <1>1, CommitOthers
<1>5. events' \in [Ids -> Rows \cup {NoEvent}]
  BY <1>1, <1>2, RowType DEF TypeOK
<1>6. chain' \in Seq(Blocks) /\ ChainLinked' /\ BlocksMatchEvents'
  <2>1. CASE events[tx[p].id] # NoEvent
    <3>1. chain' = chain /\ events' = events
      BY <1>1, <1>3, <2>1 DEF TypeOK
    <3> QED BY <3>1 DEF TypeOK, ChainLinked, BlocksMatchEvents
  <2>2. CASE events[tx[p].id] = NoEvent
    <3> DEFINE b == NextBlock(chain, tx[p])
               id == tx[p].id
    <3>1. Len(chain) + 1 \in Nat /\ HeadHash(chain) \in Hashes
      BY HeadHashType DEF TypeOK
    <3>2. /\ b \in Blocks /\ b.seq = Len(chain) + 1 /\ b.id = id /\ b.prev = HeadHash(chain)
      BY <1>2, <3>1, BlockType DEF NextBlock, Inputs
    <3>3. b.at = tx[p].in.at /\ b.metrics = Canon[tx[p].in.payload]
      BY DEF NextBlock, Block
    <3>4. events'[id] = Row(tx[p].in, TRUE) /\ events'[id] \in Rows
      BY <1>1, <1>2, <2>2, RowType DEF TypeOK
    <3>5. /\ events'[id].batch /\ b.at = events'[id].at /\ b.metrics = events'[id].payload
          /\ events'[id] # NoEvent
      <4> DEFINE r == Row(tx[p].in, TRUE)
      <4>1. /\ r.batch = tx[p].in.batch /\ r.at = tx[p].in.at
            /\ r.payload = Canon[tx[p].in.payload]
        BY DEF Row
      <4>2. r.batch
        BY <1>2, <4>1, Zenon
      <4> HIDE DEF r, b, id
      <4>3. events'[id] = r /\ events'[id] # NoEvent
        BY <3>4, NoRowAssumption DEF r
      <4> QED BY <3>3, <4>1, <4>2, <4>3
    <3>6. id \notin ChainedIds(chain)
      BY <2>2, ChainedAreStored
    <3>7. \A i \in ChainedIds(chain) : events'[i] = events[i]
      <4>1. \A i \in ChainedIds(chain) : i # id /\ i \in Ids
        <5>1. \A n \in 1..Len(chain) : chain[n] \in Blocks
          BY DEF TypeOK
        <5> QED BY <3>6, <5>1 DEF ChainedIds, Blocks
      <4> QED BY <1>1, <2>2, <4>1 DEF TypeOK
    <3> HIDE DEF b, id
    <3>8. << b >> \in Seq(Blocks) /\ Len(<< b >>) = 1 /\ << b >>[1] = b
      BY <3>2
    <3>9. LinksFrom(chain, << b >>)
      BY <3>2, <3>8 DEF LinksFrom
    <3>10. chain' = chain \o << b >>
      BY <1>1, <1>3, <2>2 DEF b
    <3>11. \A n \in 1..Len(<< b >>) : << b >>[n] = b /\ n = 1
      BY <3>8
    <3> DEFINE more == << b >>
    <3>12. \A n \in 1..Len(more) :
             /\ more[n].id \notin ChainedIds(chain)
             /\ \A m \in 1..Len(more) : more[m].id = more[n].id => m = n
             /\ events'[more[n].id] # NoEvent
             /\ events'[more[n].id].batch
             /\ more[n].at = events'[more[n].id].at
             /\ more[n].metrics = events'[more[n].id].payload
      BY <3>2, <3>5, <3>6, <3>11
    <3>13. more \in Seq(Blocks) /\ LinksFrom(chain, more) /\ chain' = chain \o more
      BY <3>8, <3>9, <3>10
    <3> HIDE DEF more
    <3> QED
      BY <3>7, <3>12, <3>13, ChainGrows
  <2> QED BY <2>1, <2>2
<1>7. TypeOK' /\ Mutex' /\ Roles'
  BY <1>1, <1>5, <1>6, EndTypes DEF TypeOK
<1>8. RowsCanonical'
  <2>1. CASE events' = events
    BY <2>1 DEF RowsCanonical, Stored
  <2>2. CASE events' = [events EXCEPT ![tx[p].id] = Row(tx[p].in, TRUE)]
    BY <1>2, <2>2, NewRowCanonical
  <2> QED BY <1>1, <2>1, <2>2
<1> QED BY <1>4, <1>6, <1>7, <1>8

(* Committing a backfill adds its linked blocks and no row. *)
LEMMA CommitBackfillInv ==
  ASSUME IndInv, NEW p \in Procs, CommitBackfill(p)
  PROVE  IndInv'
<1> USE DEF IndInv
<1> DEFINE st == tx[p].staged
<1>1. /\ pc[p] = "blocks" /\ End(p) /\ pc[p] \in Inside /\ chain' = chain \o st
      /\ UNCHANGED << events, enabled >> /\ sealed' \in BOOLEAN
  BY DEF CommitBackfill, Inside, States
<1>2. /\ LinksFrom(chain, st) /\ StagedIdsOK(events, chain, st, tx[p].pending)
      /\ st \in Seq(Blocks)
  BY <1>1 DEF StagedOK, FitsOn, TypeOK, TxType
<1>3. CallsOK' /\ StagedOK'
  BY <1>1, CommitOthers
<1>4. chain' \in Seq(Blocks) /\ ChainLinked' /\ BlocksMatchEvents'
  <2>1. ASSUME NEW n \in 1..Len(st)
        PROVE  /\ st[n].id \notin ChainedIds(chain)
               /\ \A m \in 1..Len(st) : st[m].id = st[n].id => m = n
               /\ events'[st[n].id] # NoEvent
               /\ events'[st[n].id].batch
               /\ st[n].at = events'[st[n].id].at
               /\ st[n].metrics = events'[st[n].id].payload
    <3>1. /\ st[n].id \in Unchained(events, chain)
          /\ st[n] = Block(st[n].seq, st[n].id, events[st[n].id].at,
                           events[st[n].id].payload, st[n].prev)
          /\ \A m \in 1..Len(st) : st[m].id = st[n].id => m = n
      BY <1>2 DEF StagedIdsOK
    <3>2. st[n].at = events[st[n].id].at /\ st[n].metrics = Canon[events[st[n].id].payload]
      BY <3>1, BlockFields
    <3>3. Canon[events[st[n].id].payload] = events[st[n].id].payload
      BY <3>1, StoredCanonical DEF Unchained
    <3> QED BY <1>1, <3>1, <3>2, <3>3 DEF Unchained, Stored
  <2>2. \A id \in ChainedIds(chain) : events'[id] = events[id]
    BY <1>1
  <2> HIDE DEF st
  <2> QED BY <1>1, <1>2, <2>1, <2>2, ChainGrows
<1>5. TypeOK' /\ Mutex' /\ Roles'
  BY <1>1, <1>4, EndTypes DEF TypeOK
<1>6. RowsCanonical'
  BY <1>1 DEF RowsCanonical, Stored
<1> QED BY <1>3, <1>4, <1>5, <1>6

(* A restart with the flag flipped touches no table. *)
LEMMA RedeployInv ==
  ASSUME IndInv, NEW p \in Appenders, Redeploy(p)
  PROVE  IndInv'
<1> USE DEF IndInv
<1>1. /\ UNCHANGED << events, chain, lock, pc >>
      /\ enabled' = [enabled EXCEPT ![p] = ~enabled[p]]
      /\ sealed' = FALSE \/ sealed' = sealed
  BY DEF Redeploy
<1>2. \/ tx' = tx
      \/ tx' = [q \in Procs |-> [tx[q] EXCEPT !.covers = FALSE]]
  BY DEF Redeploy
<1>3. /\ tx' \in [Procs -> TxType]
      /\ \A q \in Procs : /\ tx'[q].in = tx[q].in /\ tx'[q].id = tx[q].id
                          /\ tx'[q].last = tx[q].last /\ tx'[q].prev = tx[q].prev
                          /\ tx'[q].staged = tx[q].staged /\ tx'[q].pending = tx[q].pending
  <2>1. CASE tx' = tx
    BY <2>1 DEF TypeOK
  <2>2. CASE tx' = [q \in Procs |-> [tx[q] EXCEPT !.covers = FALSE]]
    <3>1. ASSUME NEW t \in TxType
          PROVE  LET u == [t EXCEPT !.covers = FALSE] IN
                 /\ u \in TxType /\ u.in = t.in /\ u.id = t.id /\ u.last = t.last /\ u.prev = t.prev
                 /\ u.staged = t.staged /\ u.pending = t.pending
      BY DEF TxType
    <3>2. \A q \in Procs : tx[q] \in TxType
      BY DEF TypeOK
    <3> QED BY <2>2, <3>1, <3>2
  <2> QED BY <1>2, <2>1, <2>2
<1>4. enabled' \in [Appenders -> BOOLEAN] /\ sealed' \in BOOLEAN
  BY <1>1, Zenon DEF TypeOK
<1>5. TypeOK'
  BY <1>1, <1>3, <1>4 DEF TypeOK
<1>6. RowsCanonical' /\ ChainLinked' /\ BlocksMatchEvents' /\ Mutex' /\ Roles'
  BY <1>1 DEF RowsCanonical, Stored, ChainLinked, BlocksMatchEvents, Mutex, Roles
<1>7. CallsOK'
  BY <1>1, <1>3 DEF CallsOK, CallOK, Procs
<1>8. StagedOK'
  <2> SUFFICES ASSUME NEW q \in Procs PROVE FitsOn(events, chain, pc[q], tx'[q])
    BY <1>1 DEF StagedOK
  <2>1. FitsOn(events, chain, pc[q], tx[q])
    BY DEF StagedOK
  <2>2. NextBlock(chain, tx'[q]) = NextBlock(chain, tx[q])
    BY <1>3 DEF NextBlock
  <2> QED BY <1>3, <2>1, <2>2 DEF FitsOn
<1> QED BY <1>5, <1>6, <1>7, <1>8

(* Every step of Next, or a stutter, keeps the invariant. *)
LEMMA StepInv == IndInv /\ [Next]_vars => IndInv'
<1> SUFFICES ASSUME IndInv, [Next]_vars PROVE IndInv'
  OBVIOUS
<1>1. CASE UNCHANGED vars
  BY <1>1 DEF vars, IndInv, TypeOK, RowsCanonical, Stored, ChainLinked, BlocksMatchEvents,
              Mutex, Roles, CallsOK, StagedOK
<1>2. ASSUME NEW p \in Appenders, AppendPlain(p) \/ AppendChained(p) \/ Redeploy(p)
      PROVE  IndInv'
  BY <1>2, AppendPlainInv, AppendChainedInv, RedeployInv
<1>3. ASSUME NEW b \in Backfillers, BackfillBegin(b)
      PROVE  IndInv'
  BY <1>3, BackfillBeginInv
<1>4. ASSUME NEW p \in Procs, Step(p)
      PROVE  IndInv'
  BY <1>4, AcquireInv, InsertEventInv, ReadHeadInv, InsertBlockInv, CommitAppendInv,
     ReadPendingInv, BackfillBlockInv, CommitBackfillInv DEF Step
<1>5. ASSUME NEW p \in Procs, Abort(p)
      PROVE  IndInv'
  BY <1>5, AbortInv
<1> QED BY <1>1, <1>2, <1>3, <1>4, <1>5 DEF Next

(* IndInv holds in every reachable state. *)
THEOREM Inductive == Spec => []IndInv
BY InitInv, StepInv, PTL DEF Spec

----------------------------------------------------------------------------
(* Type correctness: the tables hold rows and blocks, every transaction's
   locals have their types. *)
THEOREM TypeCorrect == Spec => []TypeOK
<1>1. IndInv => TypeOK
  BY DEF IndInv
<1> QED BY Inductive, <1>1, PTL

(* Whatever the replicas and backfills do concurrently, and wherever they fail,
   the committed chain is gap-free and linked and has one block per event. *)
THEOREM ChainStaysLinked == Spec => []ChainLinked
<1>1. IndInv => ChainLinked
  BY DEF IndInv
<1> QED BY Inductive, <1>1, PTL

(* Every committed block copies a committed batch event. *)
THEOREM BlocksAreEvents == Spec => []BlocksMatchEvents
<1>1. IndInv => BlocksMatchEvents
  BY DEF IndInv
<1> QED BY Inductive, <1>1, PTL

(* The head a transaction read under the lock is still the head when it
   inserts: no append or backfill fails on the chain's unique indexes. *)
THEOREM HeadIsCurrent == Spec => []HeadStaysCurrent
<1>1. IndInv => HeadStaysCurrent
  <2> SUFFICES ASSUME IndInv, NEW p \in Procs, pc[p] \in {"block", "read", "blocks"}
               PROVE  /\ tx[p].last = Len(chain) + Len(tx[p].staged)
                      /\ tx[p].prev = HeadHash(chain \o tx[p].staged)
    BY DEF HeadStaysCurrent
  <2>1. FitsOn(events, chain, pc[p], tx[p]) /\ chain \in Seq(Blocks)
    BY DEF IndInv, StagedOK, TypeOK
  <2>2. CASE pc[p] \in {"block", "read"}
    <3>1. tx[p].staged = << >> /\ tx[p].last = Len(chain) /\ tx[p].prev = HeadHash(chain)
      BY <2>1, <2>2 DEF FitsOn, States
    <3>2. chain \o << >> = chain /\ Len(chain) + Len(<< >>) = Len(chain)
      BY <2>1
    <3> QED BY <3>1, <3>2
  <2>3. CASE pc[p] = "blocks"
    BY <2>1, <2>3 DEF FitsOn
  <2> QED BY <2>2, <2>3
<1> QED BY Inductive, <1>1, PTL

----------------------------------------------------------------------------
(* What the invariant above does not say: which rows have no block, what was
   hashed, and what transactions under way know about the tables. *)

(* Only rows that came in by the plain path lack a block. *)
PlainOnly == \A id \in Unchained(events, chain) : ~events[id].chained

(* What a block's hash was taken over. *)
Hashed(row) == IF row.chained THEN row.sent ELSE row.payload

(* Every committed block's hash was taken over that. *)
HashesOK ==
  \A n \in 1..Len(chain) :
    chain[n].hash = EventHash(chain[n].seq, chain[n].at, Hashed(events[chain[n].id]), chain[n].prev)

(* A sealed ledger has no batch event without a block and no replica that
   could add one. *)
SealOK == sealed => Unchained(events, chain) = {} /\ \A q \in Appenders : enabled[q]

(* The key of a row that is not committed yet is nobody else's. *)
KeyOK(evs, s, t) ==
  s \in {"head", "block", "commit"} /\ evs[t.id] = NoEvent => KeyHolders(evs, t.in) = {}

(* A backfill works through its events from the oldest to the newest. *)
OrderOK(evs, s, t) ==
  s = "blocks" =>
    /\ \A m, n \in 1..Len(t.staged) : m < n => t.staged[m].at <= t.staged[n].at
    /\ \A m \in 1..Len(t.staged), n \in 1..Len(t.pending) : t.staged[m].at <= evs[t.pending[n]].at
    /\ \A m, n \in 1..Len(t.pending) : m < n => evs[t.pending[m]].at <= evs[t.pending[n]].at

(* A backfill that covers the ledger has, or is about to have, a block for
   every event without one. *)
CoverOK(evs, c, s, t) ==
  t.covers =>
    /\ s = "blocks"
    /\ \A id \in Unchained(evs, c) :
         \/ \E n \in 1..Len(t.staged) : t.staged[n].id = id
         \/ \E n \in 1..Len(t.pending) : t.pending[n] = id

KeysOK   == \A p \in Appenders : KeyOK(events, pc[p], tx[p])
(* The same of every process. *)
OrdersOK == \A p \in Procs : OrderOK(events, pc[p], tx[p])
CoversOK == \A p \in Procs : CoverOK(events, chain, pc[p], tx[p])
(* A cutover counts on no replica writing unchained rows. *)
EnabledOK == \A p \in Procs : tx[p].covers => \A q \in Appenders : enabled[q]

(* The second invariant: the first one and what it does not say. *)
FullInv ==
  IndInv /\ PlainOnly /\ HashesOK /\ SealOK /\ KeysOK /\ OrdersOK /\ CoversOK /\ EnabledOK

(* A process outside the lock promises nothing. *)
LEMMA IdleFull ==
  ASSUME NEW evs, NEW c
  PROVE  KeyOK(evs, "idle", IdleTx) /\ OrderOK(evs, "idle", IdleTx) /\ CoverOK(evs, c, "idle", IdleTx)
         /\ ~IdleTx.covers
BY DEF KeyOK, OrderOK, CoverOK, IdleTx

(* It holds of the empty ledger. *)
LEMMA InitFull == Init => FullInv
<1> SUFFICES ASSUME Init PROVE FullInv
  OBVIOUS
<1>1. IndInv
  BY InitInv
<1>2. PlainOnly /\ HashesOK /\ SealOK
  <2>1. Stored(events) = {} /\ Len(chain) = 0 /\ sealed = FALSE
    BY DEF Init, Stored
  <2> QED BY <2>1 DEF PlainOnly, HashesOK, SealOK, Unchained
<1>3. KeysOK /\ OrdersOK /\ CoversOK /\ EnabledOK
  <2>1. \A p \in Procs : pc[p] = "idle" /\ tx[p] = IdleTx
    BY DEF Init
  <2> QED BY <2>1, IdleFull DEF KeysOK, OrdersOK, CoversOK, EnabledOK, Procs
<1> QED BY <1>1, <1>2, <1>3 DEF FullInv

(* A step of one process that leaves the tables and the flags alone. *)
LEMMA OnlyPFull ==
  ASSUME FullInv, IndInv', NEW p \in Procs, events' = events, chain' = chain,
         enabled' = enabled, sealed' = sealed,
         NEW s, NEW t, pc' = [pc EXCEPT ![p] = s], tx' = [tx EXCEPT ![p] = t],
         p \in Appenders => KeyOK(events, s, t),
         OrderOK(events, s, t), CoverOK(events, chain, s, t),
         t.covers => \A q \in Appenders : enabled[q]
  PROVE  FullInv'
<1>1. PlainOnly' /\ HashesOK' /\ SealOK'
  BY DEF FullInv, PlainOnly, HashesOK, SealOK
<1>2. \A q \in Procs : /\ pc'[q] = IF q = p THEN s ELSE pc[q]
                       /\ tx'[q] = IF q = p THEN t ELSE tx[q]
  BY DEF FullInv, IndInv, TypeOK
<1>3. KeysOK'
  BY <1>2 DEF FullInv, KeysOK, Procs
<1>4. OrdersOK'
  BY <1>2 DEF FullInv, OrdersOK
<1>5. CoversOK'
  BY <1>2 DEF FullInv, CoversOK
<1>6. EnabledOK'
  BY <1>2 DEF FullInv, EnabledOK
<1> QED BY <1>1, <1>3, <1>4, <1>5, <1>6 DEF FullInv

(* A process that covers nothing is not in the loop over the blocks, and the
   other way round only a backfill in its loop covers anything. *)
LEMMA NotCovering ==
  ASSUME FullInv, NEW p \in Procs, pc[p] # "blocks"
  PROVE  ~tx[p].covers
BY DEF FullInv, CoversOK, CoverOK

(* Rolled back, a transaction has promised nothing. *)
LEMMA AbortFull == ASSUME FullInv, NEW p \in Procs, Abort(p) PROVE FullInv'
<1>1. IndInv'
  BY AbortInv DEF FullInv
<1>2. /\ pc' = [pc EXCEPT ![p] = "idle"] /\ tx' = [tx EXCEPT ![p] = IdleTx]
      /\ events' = events /\ chain' = chain /\ enabled' = enabled /\ sealed' = sealed
  BY DEF Abort, End, Goto
<1> QED BY <1>1, <1>2, IdleFull, OnlyPFull

(* AppendEvent opens its transaction. *)
LEMMA AppendChainedFull == ASSUME FullInv, NEW p \in Appenders, AppendChained(p) PROVE FullInv'
<1>1. IndInv' /\ p \in Procs
  BY AppendChainedInv DEF FullInv, Procs
<1>2. PICK in \in Inputs : tx' = [tx EXCEPT ![p] = [IdleTx EXCEPT !.in = in]]
  BY DEF AppendChained
<1> DEFINE t == [IdleTx EXCEPT !.in = in]
<1>3. ~t.covers
  BY DEF IdleTx
<1>4. tx' = [tx EXCEPT ![p] = t]
  BY <1>2
<1> HIDE DEF t
<1>5. /\ pc' = [pc EXCEPT ![p] = "lock"]
      /\ events' = events /\ chain' = chain /\ enabled' = enabled /\ sealed' = sealed
  BY DEF AppendChained, Goto
<1>6. KeyOK(events, "lock", t) /\ OrderOK(events, "lock", t) /\ CoverOK(events, chain, "lock", t)
  BY <1>3 DEF KeyOK, OrderOK, CoverOK
<1> QED BY <1>1, <1>3, <1>4, <1>5, <1>6, OnlyPFull

(* A process that moves on without touching its locals, or only the head it
   has read, and does not enter the backfill's loop. *)
LEMMA MovesOn ==
  ASSUME FullInv, IndInv', NEW p \in Procs, events' = events, chain' = chain,
         enabled' = enabled, sealed' = sealed, pc[p] # "blocks",
         NEW s, s # "blocks", NEW t, pc' = [pc EXCEPT ![p] = s], tx' = [tx EXCEPT ![p] = t],
         t.id = tx[p].id, t.in = tx[p].in, t.covers = tx[p].covers,
         p \in Appenders /\ s \in {"head", "block", "commit"} => pc[p] \in {"head", "block", "commit"}
  PROVE  FullInv'
<1>1. ~t.covers
  BY NotCovering
<1>2. p \in Appenders => KeyOK(events, s, t)
  BY DEF FullInv, KeysOK, KeyOK
<1>3. OrderOK(events, s, t) /\ CoverOK(events, chain, s, t)
  BY <1>1 DEF OrderOK, CoverOK
<1> QED BY <1>1, <1>2, <1>3, OnlyPFull

(* BackfillChain opens its transaction. *)
LEMMA BackfillBeginFull == ASSUME FullInv, NEW b \in Backfillers, BackfillBegin(b) PROVE FullInv'
<1>1. IndInv' /\ b \in Procs
  BY BackfillBeginInv DEF FullInv, Procs
<1>2. /\ pc[b] = "idle" /\ pc' = [pc EXCEPT ![b] = "lock"] /\ tx' = tx
      /\ events' = events /\ chain' = chain /\ enabled' = enabled /\ sealed' = sealed
  BY DEF BackfillBegin, Goto
<1>3. tx' = [tx EXCEPT ![b] = tx[b]]
  BY <1>1, <1>2 DEF FullInv, IndInv, TypeOK
<1> QED BY <1>1, <1>2, <1>3, MovesOn

(* The advisory lock is taken: the key of the event is looked up under it. *)
LEMMA AcquireFull == ASSUME FullInv, NEW p \in Procs, Acquire(p) PROVE FullInv'
<1>1. IndInv'
  BY AcquireInv DEF FullInv
<1> DEFINE s == IF p \in Backfillers THEN "head" ELSE "insert"
<1>2. /\ pc[p] = "lock" /\ pc' = [pc EXCEPT ![p] = s] /\ tx' = tx
      /\ events' = events /\ chain' = chain /\ enabled' = enabled /\ sealed' = sealed
  BY DEF Acquire, Goto
<1>3. tx' = [tx EXCEPT ![p] = tx[p]]
  BY <1>2 DEF FullInv, IndInv, TypeOK
<1>4. s # "blocks" /\ (p \in Appenders => s = "insert")
  BY ProcsAssumption
<1> HIDE DEF s
<1> QED BY <1>1, <1>2, <1>3, <1>4, MovesOn

(* A fresh row's key was free when it was inserted. *)
LEMMA InsertEventFull == ASSUME FullInv, NEW p \in Procs, InsertEvent(p) PROVE FullInv'
<1>1. IndInv'
  BY InsertEventInv DEF FullInv
<1>2. /\ pc[p] = "insert"
      /\ events' = events /\ chain' = chain /\ enabled' = enabled /\ sealed' = sealed
  BY DEF InsertEvent
<1>3. PICK id \in Ids, s \in {"head", "commit"} :
        /\ tx' = [tx EXCEPT ![p].id = id] /\ pc' = [pc EXCEPT ![p] = s]
        /\ events[id] = NoEvent => KeyHolders(events, tx[p].in) = {}
  BY DEF InsertEvent, Goto, FreshIds, KeyHolders, Stored
<1> DEFINE t == [tx[p] EXCEPT !.id = id]
<1>4. tx[p] \in TxType /\ tx' = [tx EXCEPT ![p] = t]
  BY <1>3 DEF FullInv, IndInv, TypeOK
<1>5. t.id = id /\ t.in = tx[p].in /\ t.covers = tx[p].covers
  BY <1>4 DEF TxType
<1> HIDE DEF t
<1>6. ~t.covers
  BY <1>2, <1>5, NotCovering
<1>7. KeyOK(events, s, t) /\ OrderOK(events, s, t) /\ CoverOK(events, chain, s, t)
  BY <1>3, <1>5, <1>6 DEF KeyOK, OrderOK, CoverOK
<1> QED BY <1>1, <1>2, <1>3, <1>4, <1>6, <1>7, OnlyPFull

(* The head is read, the tables are not touched. *)
LEMMA ReadHeadFull == ASSUME FullInv, NEW p \in Procs, ReadHead(p) PROVE FullInv'
<1>1. IndInv'
  BY ReadHeadInv DEF FullInv
<1> DEFINE s == IF p \in Backfillers THEN "read" ELSE "block"
           t == [tx[p] EXCEPT !.last = HeadSeq(chain), !.prev = HeadHash(chain)]
<1>2. /\ pc[p] = "head" /\ pc' = [pc EXCEPT ![p] = s]
      /\ events' = events /\ chain' = chain /\ enabled' = enabled /\ sealed' = sealed
  BY DEF ReadHead, Goto
<1>3. tx[p] \in TxType /\ tx' = [tx EXCEPT ![p] = t]
  BY DEF ReadHead, FullInv, IndInv, TypeOK
<1>4. t.id = tx[p].id /\ t.in = tx[p].in /\ t.covers = tx[p].covers
  BY <1>3 DEF TxType
<1>5. s # "blocks"
  OBVIOUS
<1> HIDE DEF s, t
<1> QED BY <1>1, <1>2, <1>3, <1>4, <1>5, MovesOn

(* The block is inserted, not yet committed. *)
LEMMA InsertBlockFull == ASSUME FullInv, NEW p \in Procs, InsertBlock(p) PROVE FullInv'
<1>1. IndInv'
  BY InsertBlockInv DEF FullInv
<1> DEFINE t == WithBlock(tx[p], tx[p].id, tx[p].in.at, tx[p].in.payload)
<1>2. /\ pc[p] = "block" /\ pc' = [pc EXCEPT ![p] = "commit"] /\ tx' = [tx EXCEPT ![p] = t]
      /\ events' = events /\ chain' = chain /\ enabled' = enabled /\ sealed' = sealed
  BY DEF InsertBlock, Goto
<1>3. tx[p] \in TxType
  BY DEF FullInv, IndInv, TypeOK
<1>4. t.id = tx[p].id /\ t.in = tx[p].in /\ t.covers = tx[p].covers
  BY <1>3 DEF WithBlock, TxType
<1> HIDE DEF t
<1> QED BY <1>1, <1>2, <1>4, MovesOn

(* An enumeration of a finite set leaves nothing out. *)
LEMMA EnumerationOnto ==
  ASSUME NEW S, S \subseteq Ids, NEW s \in Enumerations(S), NEW x \in S
  PROVE  \E n \in 1..Len(s) : s[n] = x
<1>1. IsFiniteSet(S) /\ Cardinality(S) \in Nat
  BY IdsAssumption, FS_Subset, FS_CardinalityType
<1> DEFINE c == Cardinality(S)
<1>2. s \in [1..c -> S] /\ \A i, j \in 1..c : s[i] = s[j] => i = j
  BY DEF Enumerations
<1>3. s \in Injection(1..c, S)
  BY <1>2 DEF Injection, IsInjective
<1>4. Cardinality(1..c) = c
  <2> HIDE DEF c
  <2>1. c \in Nat
    BY <1>1 DEF c
  <2> QED BY <2>1, FS_Interval
<1>5. s \in Surjection(1..c, S)
  BY <1>1, <1>3, <1>4, FS_Injection
<1>6. \E n \in 1..c : s[n] = x
  BY <1>5 DEF Surjection
<1>7. s \in Seq(S) /\ Len(s) = c
  <2> HIDE DEF c
  <2>1. c \in Nat
    BY <1>1 DEF c
  <2> QED BY <1>2, <2>1
<1> QED BY <1>6, <1>7

(* A backfill lists the events without a block, all of them and in order. *)
LEMMA ReadPendingFull == ASSUME FullInv, NEW p \in Procs, ReadPending(p) PROVE FullInv'
<1>1. IndInv'
  BY ReadPendingInv DEF FullInv
<1>2. PICK s \in Enumerations(Unchained(events, chain)) :
        /\ Chronological(events, s)
        /\ tx' = [tx EXCEPT ![p].pending = s, ![p].covers = \A q \in Appenders : enabled[q]]
  BY DEF ReadPending
<1> DEFINE cov == \A q \in Appenders : enabled[q]
           t == [tx[p] EXCEPT !.pending = s, !.covers = cov]
<1>3. /\ pc[p] = "read" /\ pc' = [pc EXCEPT ![p] = "blocks"]
      /\ events' = events /\ chain' = chain /\ enabled' = enabled /\ sealed' = sealed
  BY DEF ReadPending, Goto
<1>4. tx[p] \in TxType /\ tx' = [tx EXCEPT ![p] = t]
  BY <1>2 DEF FullInv, IndInv, TypeOK
<1>5. tx[p].staged = << >>
  BY <1>3 DEF FullInv, IndInv, StagedOK, FitsOn, States
<1>6. cov \in BOOLEAN
  OBVIOUS
<1> HIDE DEF cov
<1>7. t.staged = << >> /\ t.pending = s /\ t.covers = cov
  BY <1>4, <1>5, <1>6 DEF TxType
<1> HIDE DEF t
<1>8. \A id \in Unchained(events, chain) : \E n \in 1..Len(s) : s[n] = id
  BY <1>2, EnumerationOnto DEF Unchained, Stored
<1>9. KeyOK(events, "blocks", t) /\ CoverOK(events, chain, "blocks", t)
  BY <1>7, <1>8 DEF KeyOK, CoverOK
<1>10. OrderOK(events, "blocks", t)
  BY <1>2, <1>7 DEF OrderOK, Chronological
<1>11. t.covers => \A q \in Appenders : enabled[q]
  BY <1>7 DEF cov
<1> QED BY <1>1, <1>3, <1>4, <1>9, <1>10, <1>11, OnlyPFull

(* A backfill moves one event from its list to its blocks. *)
LEMMA BackfillBlockFull == ASSUME FullInv, NEW p \in Procs, BackfillBlock(p) PROVE FullInv'
<1>1. IndInv'
  BY BackfillBlockInv DEF FullInv
<1> DEFINE pe == tx[p].pending
           id == Head(tx[p].pending)
           st == tx[p].staged
           b  == Block(tx[p].last + 1, id, events[id].at, events[id].payload, tx[p].prev)
           t  == [WithBlock(tx[p], id, events[id].at, events[id].payload) EXCEPT
                    !.pending = Tail(tx[p].pending)]
<1>2. /\ pc[p] = "blocks" /\ pe # << >> /\ tx' = [tx EXCEPT ![p] = t] /\ pc' = pc
      /\ events' = events /\ chain' = chain /\ enabled' = enabled /\ sealed' = sealed
  BY DEF BackfillBlock
<1>3. tx[p] \in TxType /\ pc' = [pc EXCEPT ![p] = "blocks"]
  BY <1>2 DEF FullInv, IndInv, TypeOK
<1>4. pe \in Seq(Ids) /\ st \in Seq(Blocks)
  BY <1>3 DEF TxType
<1>5. b.id = id /\ b.at = events[id].at
  BY DEF Block
<1>6. t.staged = Append(st, b) /\ t.pending = Tail(pe) /\ t.covers = tx[p].covers
  <2> DEFINE w == WithBlock(tx[p], id, events[id].at, events[id].payload)
  <2>1. w = [tx[p] EXCEPT !.staged = Append(st, b), !.last = b.seq, !.prev = b.hash]
    BY DEF WithBlock
  <2> HIDE DEF b, w
  <2>2. w = [in |-> tx[p].in, id |-> tx[p].id, last |-> b.seq, prev |-> b.hash,
             staged |-> Append(st, b), pending |-> tx[p].pending, covers |-> tx[p].covers]
    BY <1>3, <2>1 DEF TxType
  <2>3. t = [w EXCEPT !.pending = Tail(tx[p].pending)]
    BY DEF w
  <2> HIDE DEF t, id
  <2>4. t = [in |-> tx[p].in, id |-> tx[p].id, last |-> b.seq, prev |-> b.hash,
             staged |-> Append(st, b), pending |-> Tail(tx[p].pending), covers |-> tx[p].covers]
    BY <2>2, <2>3
  <2> QED BY <2>4
<1> HIDE DEF b, t
<1>7. /\ 1 \in 1..Len(pe) /\ id = pe[1]
      /\ Len(Tail(pe)) = Len(pe) - 1 /\ Tail(pe) \in Seq(Ids)
      /\ \A n \in 1..Len(Tail(pe)) : Tail(pe)[n] = pe[n + 1] /\ n + 1 \in 1..Len(pe)
      /\ \A n \in 1..Len(pe) : n # 1 => n - 1 \in 1..Len(Tail(pe)) /\ Tail(pe)[n - 1] = pe[n]
  BY <1>2, <1>4
<1>8. /\ Len(Append(st, b)) = Len(st) + 1 /\ Append(st, b)[Len(st) + 1] = b /\ Len(st) \in Nat
      /\ \A n \in 1..Len(st) : Append(st, b)[n] = st[n] /\ n \in 1..Len(Append(st, b))
      /\ Len(st) + 1 \in 1..Len(Append(st, b))
      /\ \A n \in 1..Len(Append(st, b)) : n = Len(st) + 1 \/ n \in 1..Len(st)
  BY <1>4
<1>9. /\ \A m, n \in 1..Len(st) : m < n => st[m].at <= st[n].at
      /\ \A m \in 1..Len(st), n \in 1..Len(pe) : st[m].at <= events[pe[n]].at
      /\ \A m, n \in 1..Len(pe) : m < n => events[pe[m]].at <= events[pe[n]].at
  BY <1>2 DEF FullInv, OrdersOK, OrderOK
<1> HIDE DEF pe, id, st
<1>10. OrderOK(events, "blocks", t)
  <2> DEFINE d == Append(st, b)
             tl == Tail(pe)
  <2>1. ASSUME NEW m \in 1..Len(d), NEW n \in 1..Len(d), m < n PROVE d[m].at <= d[n].at
    <3>1. CASE n \in 1..Len(st)
      BY <1>8, <1>9, <2>1, <3>1
    <3>2. CASE n = Len(st) + 1
      <4>1. m \in 1..Len(st) /\ d[m] = st[m] /\ d[n] = b
        BY <1>8, <2>1, <3>2
      <4> QED BY <1>5, <1>7, <1>9, <4>1
    <3> QED BY <1>8, <3>1, <3>2
  <2>2. ASSUME NEW m \in 1..Len(d), NEW n \in 1..Len(tl) PROVE d[m].at <= events[tl[n]].at
    <3>1. tl[n] = pe[n + 1] /\ n + 1 \in 1..Len(pe) /\ 1 < n + 1
      BY <1>7, <2>2
    <3>2. CASE m \in 1..Len(st)
      BY <1>8, <1>9, <3>1, <3>2
    <3>3. CASE m = Len(st) + 1
      BY <1>5, <1>7, <1>8, <1>9, <3>1, <3>3
    <3> QED BY <1>8, <3>2, <3>3
  <2>3. ASSUME NEW m \in 1..Len(tl), NEW n \in 1..Len(tl), m < n
        PROVE  events[tl[m]].at <= events[tl[n]].at
    <3>1. m + 1 < n + 1
      BY <2>3
    <3> QED BY <1>7, <1>9, <3>1
  <2> QED BY <1>6, <2>1, <2>2, <2>3 DEF OrderOK
<1>11. CoverOK(events, chain, "blocks", t)
  <2> SUFFICES ASSUME t.covers, NEW i \in Unchained(events, chain)
               PROVE  \/ \E n \in 1..Len(Append(st, b)) : Append(st, b)[n].id = i
                      \/ \E n \in 1..Len(Tail(pe)) : Tail(pe)[n] = i
    BY <1>6 DEF CoverOK
  <2>1. \/ \E n \in 1..Len(st) : st[n].id = i
        \/ \E n \in 1..Len(pe) : pe[n] = i
    BY <1>6 DEF FullInv, CoversOK, CoverOK, st, pe
  <2>2. CASE \E n \in 1..Len(st) : st[n].id = i
    BY <1>8, <2>2
  <2>3. CASE \E n \in 1..Len(pe) : pe[n] = i
    <3>1. PICK n \in 1..Len(pe) : pe[n] = i
      BY <2>3
    <3>2. CASE n = 1
      BY <1>5, <1>7, <1>8, <3>1, <3>2
    <3>3. CASE n # 1
      BY <1>7, <3>1, <3>3
    <3> QED BY <3>2, <3>3
  <2> QED BY <2>1, <2>2, <2>3
<1>12. KeyOK(events, "blocks", t)
  BY DEF KeyOK
<1>13. t.covers => \A q \in Appenders : enabled[q]
  BY <1>6 DEF FullInv, EnabledOK
<1> QED BY <1>1, <1>2, <1>3, <1>10, <1>11, <1>12, <1>13, OnlyPFull

(* A new row changes no other row, and no block names it. *)
LEMMA PlainRow ==
  ASSUME IndInv, NEW id \in Ids, events[id] = NoEvent, NEW in \in Inputs, NEW v \in BOOLEAN,
         events' = [events EXCEPT ![id] = Row(in, v)]
  PROVE  /\ events'[id] = Row(in, v) /\ Row(in, v) # NoEvent
         /\ \A i \in Ids : i # id => events'[i] = events[i]
         /\ id \notin ChainedIds(chain) /\ ChainedIds(chain) \subseteq Ids
<1>1. events'[id] = Row(in, v) /\ \A i \in Ids : i # id => events'[i] = events[i]
  BY DEF IndInv, TypeOK
<1>2. Row(in, v) # NoEvent
  BY RowType, NoRowAssumption
<1>3. id \notin ChainedIds(chain)
  BY ChainedAreStored DEF IndInv
<1>4. ChainedIds(chain) \subseteq Ids
  <2>1. \A n \in 1..Len(chain) : chain[n] \in Blocks
    BY DEF IndInv, TypeOK
  <2> QED BY <2>1 DEF ChainedIds, Blocks
<1> QED BY <1>1, <1>2, <1>3, <1>4

(* A row without a block comes from a replica that has the chain off. *)
LEMMA AppendPlainFull == ASSUME FullInv, NEW p \in Appenders, AppendPlain(p) PROVE FullInv'
<1>1. IndInv' /\ IndInv
  BY AppendPlainInv DEF FullInv
<1>2. PICK in \in Inputs, id \in FreshIds :
        /\ ~(enabled[p] /\ in.batch) /\ ~KeyInFlight(in) /\ KeyHolders(events, in) = {}
        /\ events' = [events EXCEPT ![id] = Row(in, FALSE)]
  BY DEF AppendPlain
<1>3. chain' = chain /\ enabled' = enabled /\ sealed' = sealed /\ pc' = pc /\ tx' = tx
  BY DEF AppendPlain
<1>4. id \in Ids /\ events[id] = NoEvent /\ \A q \in Procs : tx[q].id # id
  BY DEF FreshIds
<1> DEFINE row == Row(in, FALSE)
<1>5. /\ events'[id] = row /\ row # NoEvent
      /\ row.chained = FALSE /\ row.key = in.key /\ (row.batch = in.batch)
      /\ \A i \in Ids : i # id => events'[i] = events[i]
      /\ id \notin ChainedIds(chain) /\ ChainedIds(chain) \subseteq Ids
  <2>1. row.chained = FALSE /\ row.key = in.key /\ (row.batch = in.batch)
    BY DEF Row
  <2>2. FALSE \in BOOLEAN
    OBVIOUS
  <2> QED BY <1>1, <1>2, <1>4, <2>1, <2>2, PlainRow
<1> HIDE DEF row
<1>6. \A i \in Unchained(events', chain) : i = id \/ i \in Unchained(events, chain)
  BY <1>5 DEF Unchained, Stored
<1>7. \A i \in Unchained(events, chain) : i \in Ids /\ i # id
  BY <1>4 DEF Unchained, Stored
<1>8. PlainOnly'
  BY <1>3, <1>5, <1>6, <1>7 DEF FullInv, PlainOnly
<1>9. HashesOK'
  <2>1. \A n \in 1..Len(chain) : events'[chain[n].id] = events[chain[n].id]
    BY <1>5 DEF ChainedIds
  <2> QED BY <1>3, <2>1 DEF FullInv, HashesOK
<1>10. (\A q \in Appenders : enabled[q]) => Unchained(events', chain) \subseteq Unchained(events, chain)
  <2> SUFFICES ASSUME \A q \in Appenders : enabled[q], NEW i \in Unchained(events', chain)
               PROVE  i # id
    BY <1>6
  <2>1. ~in.batch
    BY <1>2
  <2>2. ~row.batch
    BY <1>5, <2>1, Zenon
  <2>3. events'[i].batch
    BY DEF Unchained
  <2> QED BY <1>5, <2>2, <2>3
<1>11. SealOK'
  BY <1>3, <1>10 DEF FullInv, SealOK
<1>12. KeysOK'
  <2> SUFFICES ASSUME NEW q \in Appenders PROVE KeyOK(events', pc[q], tx[q])
    BY <1>3 DEF KeysOK
  <2> SUFFICES ASSUME pc[q] \in {"head", "block", "commit"}, events'[tx[q].id] = NoEvent,
                      NEW i \in KeyHolders(events', tx[q].in)
               PROVE  FALSE
    BY DEF KeyOK
  <2>1. q \in Procs /\ tx[q].id \in Ids /\ tx[q].id # id
    BY <1>1, <1>4 DEF IndInv, CallsOK, CallOK, Procs
  <2>2. events[tx[q].id] = NoEvent /\ tx[q].id # NoEvent
    BY <1>5, <2>1, NullsAssumption
  <2>3. KeyHolders(events, tx[q].in) = {}
    BY <2>2 DEF FullInv, KeysOK, KeyOK
  <2>4. i \in Ids /\ events'[i] # NoEvent /\ tx[q].in.key # NoKey /\ events'[i].key = tx[q].in.key
    BY DEF KeyHolders, Stored
  <2>5. i = id
    BY <1>5, <2>3, <2>4 DEF KeyHolders, Stored
  <2>6. tx[q].in.key = in.key /\ in.key # NoKey
    BY <1>5, <2>4, <2>5
  <2> QED BY <1>2, <2>1, <2>2, <2>6 DEF KeyInFlight
<1>13. OrdersOK'
  <2> SUFFICES ASSUME NEW q \in Procs, pc[q] = "blocks" PROVE OrderOK(events', "blocks", tx[q])
    BY <1>3 DEF OrdersOK, OrderOK
  <2>1. \A n \in 1..Len(tx[q].pending) : tx[q].pending[n] \in Unchained(events, chain)
    BY <1>1 DEF IndInv, StagedOK, FitsOn, StagedIdsOK
  <2>2. \A n \in 1..Len(tx[q].pending) : events'[tx[q].pending[n]] = events[tx[q].pending[n]]
    BY <1>5, <1>7, <2>1
  <2>3. OrderOK(events, "blocks", tx[q])
    BY DEF FullInv, OrdersOK
  <2> QED BY <2>2, <2>3 DEF OrderOK
<1>14. CoversOK' /\ EnabledOK'
  BY <1>3, <1>10 DEF FullInv, CoversOK, CoverOK, EnabledOK
<1> QED BY <1>1, <1>8, <1>9, <1>11, <1>12, <1>13, <1>14 DEF FullInv

(* A commit finds every other process outside the lock, and leaves it there. *)
LEMMA CommitFull ==
  ASSUME FullInv, NEW p \in Procs, pc[p] \in Inside, End(p), enabled' = enabled
  PROVE  KeysOK' /\ OrdersOK' /\ CoversOK' /\ EnabledOK'
<1>1. \A q \in Procs : q # p => pc[q] \in {"idle", "lock"}
  BY OneInside DEF FullInv, IndInv, TypeOK, Inside
<1>2. \A q \in Procs : /\ pc'[q] = IF q = p THEN "idle" ELSE pc[q]
                       /\ tx'[q] = IF q = p THEN IdleTx ELSE tx[q]
  BY DEF End, Goto, FullInv, IndInv, TypeOK
<1>3. \A q \in Procs : pc'[q] \in {"idle", "lock"} /\ ~tx'[q].covers
  <2> SUFFICES ASSUME NEW q \in Procs PROVE pc'[q] \in {"idle", "lock"} /\ ~tx'[q].covers
    OBVIOUS
  <2>1. CASE q = p
    BY <1>2, <2>1, IdleFull
  <2>2. CASE q # p
    BY <1>1, <1>2, <2>2, NotCovering
  <2> QED BY <2>1, <2>2
<1> QED BY <1>3 DEF KeysOK, KeyOK, OrdersOK, OrderOK, CoversOK, CoverOK, EnabledOK, Procs

(* What committing an append does to the tables: nothing for a replay, else
   the row and its block. *)
LEMMA CommitAppendDoes ==
  ASSUME IndInv, NEW p \in Procs, CommitAppend(p)
  PROVE  /\ p \in Appenders /\ pc[p] = "commit" /\ pc[p] \in Inside /\ End(p)
         /\ enabled' = enabled /\ sealed' = sealed
         /\ tx[p].in \in Inputs /\ tx[p].in.batch /\ tx[p].id \in Ids
         /\ \/ events' = events /\ chain' = chain
            \/ /\ events[tx[p].id] = NoEvent
               /\ events' = [events EXCEPT ![tx[p].id] = Row(tx[p].in, TRUE)]
               /\ chain' = Append(chain, NextBlock(chain, tx[p]))
               /\ NextBlock(chain, tx[p]) \in Blocks
<1>1. /\ p \in Appenders /\ pc[p] = "commit" /\ End(p) /\ pc[p] \in Inside
      /\ enabled' = enabled /\ sealed' = sealed /\ chain' = chain \o tx[p].staged
      /\ events' = IF events[tx[p].id] = NoEvent
                     THEN [events EXCEPT ![tx[p].id] = Row(tx[p].in, TRUE)] ELSE events
  BY DEF CommitAppend, Inside, States
<1>2. tx[p].in \in Inputs /\ tx[p].in.batch /\ tx[p].id \in Ids
  BY <1>1 DEF IndInv, CallsOK, CallOK
<1>3. tx[p].staged = IF events[tx[p].id] = NoEvent THEN << NextBlock(chain, tx[p]) >> ELSE << >>
  BY <1>1 DEF IndInv, StagedOK, FitsOn
<1>4. chain \in Seq(Blocks)
  BY DEF IndInv, TypeOK
<1>5. CASE events[tx[p].id] # NoEvent
  <2>1. chain' = chain
    BY <1>1, <1>3, <1>4, <1>5
  <2> QED BY <1>1, <1>2, <1>5, <2>1
<1>6. CASE events[tx[p].id] = NoEvent
  <2> DEFINE b == NextBlock(chain, tx[p])
  <2>1. b \in Blocks
    <3>1. Len(chain) + 1 \in Nat /\ HeadHash(chain) \in Hashes
      BY <1>4, HeadHashType
    <3> QED BY <1>2, <3>1, BlockType DEF NextBlock, Inputs
  <2>2. chain' = chain \o << b >>
    BY <1>1, <1>3, <1>6
  <2> HIDE DEF b
  <2>3. chain' = Append(chain, b)
    BY <1>4, <2>1, <2>2
  <2> QED BY <1>1, <1>2, <1>6, <2>1, <2>3 DEF b
<1> QED BY <1>5, <1>6

(* An event and its block are committed together. *)
LEMMA CommitAppendFull == ASSUME FullInv, NEW p \in Procs, CommitAppend(p) PROVE FullInv'
<1>1. IndInv /\ IndInv'
  BY CommitAppendInv DEF FullInv
<1>2. /\ p \in Appenders /\ pc[p] = "commit" /\ pc[p] \in Inside /\ End(p)
      /\ enabled' = enabled /\ sealed' = sealed
      /\ tx[p].in \in Inputs /\ tx[p].in.batch /\ tx[p].id \in Ids
  BY <1>1, CommitAppendDoes
<1>3. KeysOK' /\ OrdersOK' /\ CoversOK' /\ EnabledOK'
  BY <1>2, CommitFull
<1>4. CASE events' = events /\ chain' = chain
  <2>1. PlainOnly' /\ HashesOK' /\ SealOK'
    BY <1>2, <1>4 DEF FullInv, PlainOnly, HashesOK, SealOK
  <2> QED BY <1>1, <1>3, <2>1 DEF FullInv
<1>5. CASE /\ events[tx[p].id] = NoEvent
           /\ events' = [events EXCEPT ![tx[p].id] = Row(tx[p].in, TRUE)]
           /\ chain' = Append(chain, NextBlock(chain, tx[p]))
           /\ NextBlock(chain, tx[p]) \in Blocks
  <2> DEFINE id == tx[p].id
             row == Row(tx[p].in, TRUE)
             b == NextBlock(chain, tx[p])
  <2>1. /\ events'[id] = row /\ row # NoEvent
        /\ row.chained = TRUE /\ row.sent = tx[p].in.payload /\ row.at = tx[p].in.at
        /\ \A i \in Ids : i # id => events'[i] = events[i]
        /\ id \notin ChainedIds(chain) /\ ChainedIds(chain) \subseteq Ids
    <3> DEFINE in == tx[p].in
    <3>1. IndInv /\ id \in Ids /\ in \in Inputs /\ TRUE \in BOOLEAN /\ events[id] = NoEvent
      BY <1>1, <1>2, <1>5
    <3>2. events' = [events EXCEPT ![id] = Row(in, TRUE)]
      BY <1>5
    <3>3. row.chained = TRUE /\ row.sent = tx[p].in.payload /\ row.at = tx[p].in.at
      BY DEF Row
    <3> HIDE DEF in, id
    <3>4. /\ events'[id] = Row(in, TRUE) /\ Row(in, TRUE) # NoEvent
          /\ \A i \in Ids : i # id => events'[i] = events[i]
          /\ id \notin ChainedIds(chain) /\ ChainedIds(chain) \subseteq Ids
      BY <3>1, <3>2, PlainRow
    <3> QED BY <3>3, <3>4 DEF in
  <2>2. b.id = id /\ b.hash = EventHash(b.seq, b.at, tx[p].in.payload, b.prev) /\ b \in Blocks
    BY <1>5 DEF NextBlock, Block
  <2>3. chain \in Seq(Blocks) /\ chain' = Append(chain, b)
    BY <1>1, <1>5 DEF IndInv, TypeOK
  <2> HIDE DEF b, row, id
  <2>4. /\ Len(chain') = Len(chain) + 1 /\ chain'[Len(chain) + 1] = b /\ Len(chain) \in Nat
        /\ \A n \in 1..Len(chain) : chain'[n] = chain[n]
        /\ \A n \in 1..Len(chain') : n \in 1..Len(chain) \/ n = Len(chain) + 1
        /\ \A n \in 1..Len(chain) : n \in 1..Len(chain')
        /\ Len(chain) + 1 \in 1..Len(chain')
    BY <2>2, <2>3
  <2>5. ChainedIds(chain) \subseteq ChainedIds(chain') /\ id \in ChainedIds(chain')
    BY <2>2, <2>4 DEF ChainedIds
  <2>6. \A i \in Unchained(events', chain') : i \in Unchained(events, chain) /\ events'[i] = events[i]
    BY <2>1, <2>5 DEF Unchained, Stored
  <2>7. PlainOnly'
    BY <2>6 DEF FullInv, PlainOnly
  <2>8. SealOK'
    BY <1>2, <2>6 DEF FullInv, SealOK
  <2>9. HashesOK'
    <3> SUFFICES ASSUME NEW n \in 1..Len(chain')
                 PROVE  chain'[n].hash = EventHash(chain'[n].seq, chain'[n].at,
                                                   Hashed(events'[chain'[n].id]), chain'[n].prev)
      BY DEF HashesOK
    <3>1. CASE n \in 1..Len(chain)
      <4>1. chain'[n] = chain[n] /\ events'[chain[n].id] = events[chain[n].id]
        BY <2>1, <2>4, <3>1 DEF ChainedIds
      <4> QED BY <3>1, <4>1 DEF FullInv, HashesOK
    <3>2. CASE n = Len(chain) + 1
      <4>1. chain'[n] = b /\ events'[chain'[n].id] = row
        BY <2>1, <2>2, <2>4, <3>2
      <4>2. Hashed(row) = tx[p].in.payload
        BY <2>1 DEF Hashed
      <4> QED BY <2>2, <4>1, <4>2
    <3> QED BY <2>4, <3>1, <3>2
  <2> QED BY <1>1, <1>3, <2>7, <2>8, <2>9 DEF FullInv
<1> QED BY <1>1, <1>4, <1>5, CommitAppendDoes

(* The blocks of a backfill are committed; if it covers the ledger, the ledger is sealed. *)
LEMMA CommitBackfillFull == ASSUME FullInv, NEW p \in Procs, CommitBackfill(p) PROVE FullInv'
<1>1. IndInv /\ IndInv'
  BY CommitBackfillInv DEF FullInv
<1> DEFINE st == tx[p].staged
<1>2. /\ pc[p] = "blocks" /\ pc[p] \in Inside /\ End(p) /\ tx[p].pending = << >>
      /\ events' = events /\ chain' = chain \o st /\ enabled' = enabled
      /\ sealed' = (sealed \/ tx[p].covers)
  BY DEF CommitBackfill, Inside, States
<1>3. KeysOK' /\ OrdersOK' /\ CoversOK' /\ EnabledOK'
  BY <1>2, CommitFull
<1>4. chain \in Seq(Blocks) /\ st \in Seq(Blocks) /\ StagedIdsOK(events, chain, st, tx[p].pending)
  BY <1>1, <1>2 DEF IndInv, TypeOK, TxType, StagedOK, FitsOn
<1>5. /\ Len(chain') = Len(chain) + Len(st) /\ Len(chain) \in Nat /\ Len(st) \in Nat
      /\ \A n \in 1..Len(chain) : chain'[n] = chain[n] /\ n \in 1..Len(chain')
      /\ \A n \in 1..Len(st) : chain'[Len(chain) + n] = st[n] /\ Len(chain) + n \in 1..Len(chain')
  BY <1>2, <1>4
<1>6. \A n \in 1..Len(chain') : n \in 1..Len(chain) \/ (n - Len(chain) \in 1..Len(st) /\ chain'[n] = st[n - Len(chain)])
  <2> SUFFICES ASSUME NEW n \in 1..Len(chain'), n \notin 1..Len(chain)
               PROVE  n - Len(chain) \in 1..Len(st) /\ chain'[n] = st[n - Len(chain)]
    OBVIOUS
  <2>1. n - Len(chain) \in 1..Len(st) /\ Len(chain) + (n - Len(chain)) = n
    BY <1>5
  <2>2. chain'[Len(chain) + (n - Len(chain))] = st[n - Len(chain)]
    BY <1>5, <2>1
  <2> QED BY <2>1, <2>2
<1> HIDE DEF st
<1>7. /\ ChainedIds(chain) \subseteq ChainedIds(chain')
      /\ \A n \in 1..Len(st) : st[n].id \in ChainedIds(chain')
  BY <1>5 DEF ChainedIds
<1>8. \A i \in Unchained(events', chain') :
        i \in Unchained(events, chain) /\ \A n \in 1..Len(st) : st[n].id # i
  BY <1>2, <1>7 DEF Unchained
<1>9. PlainOnly'
  BY <1>2, <1>8 DEF FullInv, PlainOnly
<1>10. SealOK'
  <2>1. CASE sealed
    BY <1>2, <1>8, <2>1 DEF FullInv, SealOK
  <2>2. CASE tx[p].covers
    <3>1. \A i \in Unchained(events, chain) : \E n \in 1..Len(st) : st[n].id = i
      BY <1>2, <2>2 DEF FullInv, CoversOK, CoverOK, st
    <3>2. \A q \in Appenders : enabled[q]
      BY <2>2 DEF FullInv, EnabledOK
    <3> QED BY <1>2, <1>8, <3>1, <3>2 DEF SealOK
  <2>3. CASE ~sealed /\ ~tx[p].covers
    BY <1>2, <2>3 DEF SealOK
  <2> QED BY <2>1, <2>2, <2>3
<1>11. HashesOK'
  <2> SUFFICES ASSUME NEW n \in 1..Len(chain')
               PROVE  chain'[n].hash = EventHash(chain'[n].seq, chain'[n].at,
                                                 Hashed(events[chain'[n].id]), chain'[n].prev)
    BY <1>2 DEF HashesOK
  <2>1. CASE n \in 1..Len(chain)
    BY <1>5, <2>1 DEF FullInv, HashesOK
  <2>2. CASE n \notin 1..Len(chain)
    <3> DEFINE k == n - Len(chain)
    <3>1. k \in 1..Len(st) /\ chain'[n] = st[k]
      BY <1>6, <2>2
    <3> HIDE DEF k
    <3>2. /\ st[k].id \in Unchained(events, chain)
          /\ st[k] = Block(st[k].seq, st[k].id, events[st[k].id].at, events[st[k].id].payload, st[k].prev)
      BY <1>4, <3>1 DEF StagedIdsOK
    <3>3. Hashed(events[st[k].id]) = events[st[k].id].payload
      BY <3>2 DEF FullInv, PlainOnly, Hashed
    <3>4. /\ st[k].at = events[st[k].id].at
          /\ st[k].hash = EventHash(st[k].seq, events[st[k].id].at, events[st[k].id].payload, st[k].prev)
      BY <3>2 DEF Block
    <3> QED BY <3>1, <3>3, <3>4
  <2> QED BY <2>1, <2>2
<1> QED BY <1>1, <1>3, <1>9, <1>10, <1>11 DEF FullInv

(* A replica that turns the chain off unseals the ledger and what a backfill
   has read; one that turns it on finds neither. *)
LEMMA RedeployFull == ASSUME FullInv, NEW p \in Appenders, Redeploy(p) PROVE FullInv'
<1>1. IndInv /\ IndInv'
  BY RedeployInv DEF FullInv
<1>2. events' = events /\ chain' = chain /\ pc' = pc /\ enabled' = [enabled EXCEPT ![p] = ~enabled[p]]
  BY DEF Redeploy
<1>3. PlainOnly' /\ HashesOK'
  BY <1>2 DEF FullInv, PlainOnly, HashesOK
<1>4. CASE enabled[p]
  <2>1. sealed' = FALSE /\ tx' = [q \in Procs |-> [tx[q] EXCEPT !.covers = FALSE]]
    BY <1>4 DEF Redeploy
  <2>2. \A q \in Procs : /\ tx'[q].in = tx[q].in /\ tx'[q].id = tx[q].id /\ ~tx'[q].covers
                         /\ tx'[q].staged = tx[q].staged /\ tx'[q].pending = tx[q].pending
    BY <1>1, <2>1 DEF IndInv, TypeOK, TxType
  <2>3. SealOK' /\ CoversOK' /\ EnabledOK'
    BY <2>1, <2>2 DEF SealOK, CoversOK, CoverOK, EnabledOK
  <2>4. KeysOK'
    BY <1>2, <2>2 DEF FullInv, KeysOK, KeyOK, Procs
  <2>5. OrdersOK'
    BY <1>2, <2>2 DEF FullInv, OrdersOK, OrderOK
  <2> QED BY <1>1, <1>3, <2>3, <2>4, <2>5 DEF FullInv
<1>5. CASE ~enabled[p]
  <2>1. sealed' = sealed /\ tx' = tx
    BY <1>5 DEF Redeploy
  <2>2. ~sealed /\ \A q \in Procs : ~tx[q].covers
    BY <1>5 DEF FullInv, SealOK, EnabledOK
  <2>3. SealOK' /\ EnabledOK'
    BY <2>1, <2>2 DEF SealOK, EnabledOK
  <2>4. KeysOK' /\ OrdersOK' /\ CoversOK'
    BY <1>2, <2>1 DEF FullInv, KeysOK, OrdersOK, CoversOK
  <2> QED BY <1>1, <1>3, <2>3, <2>4 DEF FullInv
<1> QED BY <1>4, <1>5

(* Every step keeps the second invariant. *)
LEMMA StepFull == FullInv /\ [Next]_vars => FullInv'
<1> SUFFICES ASSUME FullInv, [Next]_vars PROVE FullInv'
  OBVIOUS
<1>1. CASE UNCHANGED vars
  <2>1. IndInv'
    BY <1>1, StepInv DEF FullInv
  <2> QED BY <1>1, <2>1 DEF vars, FullInv, PlainOnly, HashesOK, SealOK, KeysOK, OrdersOK, CoversOK, EnabledOK
<1>2. ASSUME NEW p \in Appenders, AppendPlain(p) \/ AppendChained(p) \/ Redeploy(p) PROVE FullInv'
  BY <1>2, AppendPlainFull, AppendChainedFull, RedeployFull
<1>3. ASSUME NEW b \in Backfillers, BackfillBegin(b) PROVE FullInv'
  BY <1>3, BackfillBeginFull
<1>4. ASSUME NEW p \in Procs, Step(p) \/ Abort(p) PROVE FullInv'
  BY <1>4, AcquireFull, InsertEventFull, ReadHeadFull, InsertBlockFull, CommitAppendFull,
     ReadPendingFull, BackfillBlockFull, CommitBackfillFull, AbortFull DEF Step
<1> QED BY <1>1, <1>2, <1>3, <1>4 DEF Next

(* The second invariant holds throughout: which rows lack a block, what was
   hashed, and what a transaction of events.go or chain_backfill.go under way
   knows about the tables. *)
THEOREM FullInductive == Spec => []FullInv
BY InitFull, StepFull, PTL DEF Spec

(* Once a backfill has run with the chain on in every replica, no batch event is
   without a block again, whatever appends were under way while it ran. *)
THEOREM CutoverIsComplete == Spec => []CutoverComplete
<1>1. FullInv => CutoverComplete
  BY DEF FullInv, PlainOnly, SealOK, CutoverComplete
<1> QED BY <1>1, FullInductive, PTL

(* VerifyChain blames no block of an honest ledger but those whose metrics
   PostgreSQL stored in another form than was hashed. *)
THEOREM OnlyNormalisedBlamed == Spec => []OnlyNormalisedFlagged
<1>1. FullInv => OnlyNormalisedFlagged
  <2> SUFFICES ASSUME FullInv PROVE OnlyNormalisedFlagged
    OBVIOUS
  <2>1. LinkAnomalies(chain) = {}
    BY DEF FullInv, IndInv, ChainLinked, LinksFrom, LinkAnomalies, HeadHash
  <2>2. ASSUME NEW n \in HashAnomalies(chain)
        PROVE  events[chain[n].id].chained /\ events[chain[n].id].sent # events[chain[n].id].payload
    <3>1. n \in 1..Len(chain) /\ chain[n].hash # EventHash(chain[n].seq, chain[n].at, chain[n].metrics, chain[n].prev)
      BY DEF HashAnomalies
    <3>2. chain[n].hash = EventHash(chain[n].seq, chain[n].at, Hashed(events[chain[n].id]), chain[n].prev)
      BY <3>1 DEF FullInv, HashesOK
    <3>3. chain[n].metrics = events[chain[n].id].payload
      BY <3>1 DEF FullInv, IndInv, BlocksMatchEvents
    <3>4. Hashed(events[chain[n].id]) # events[chain[n].id].payload
      BY <3>1, <3>2, <3>3
    <3> QED BY <3>4 DEF Hashed
  <2> QED BY <2>1, <2>2 DEF OnlyNormalisedFlagged
<1> QED BY <1>1, FullInductive, PTL

----------------------------------------------------------------------------
(* The refinement: which step of CustodyLog a step of a transaction is. *)

(* CustodyLog speaks of the ledger's operators under names of its own. *)
LEMMA SameLedger ==
  /\ \A in, v : Log!Row(in, v) = Row(in, v)
  /\ \A evs, in : Log!KeyHolders(evs, in) = KeyHolders(evs, in)
  /\ \A c : Log!HeadHash(c) = HeadHash(c)
  /\ \A seq, id, at, m, prev : /\ Log!Block(seq, id, at, m, prev) = Block(seq, id, at, m, prev)
                               /\ Log!EventHash(seq, at, m, prev) = EventHash(seq, at, m, prev)
  /\ \A c, more : Log!LinksFrom(c, more) <=> LinksFrom(c, more)
  /\ \A evs, c : Log!Unchained(evs, c) = Unchained(evs, c)
  /\ Log!Inputs = Inputs
BY DEF Log!Row, Row, Log!KeyHolders, KeyHolders, Log!Stored, Stored, Log!HeadHash, HeadHash,
       Log!GenesisHash, GenesisHash, Log!Block, Block, Log!EventHash, EventHash,
       Log!LinksFrom, LinksFrom, Log!Unchained, Unchained, Log!ChainedIds, ChainedIds,
       Log!Inputs, Inputs

(* An append in autocommit mode is Record, at once. *)
LEMMA PlainRecords ==
  ASSUME IndInv, NEW p \in Appenders, AppendPlain(p)
  PROVE  Log!LogNext
<1>1. PICK in \in Inputs, id \in FreshIds :
        KeyHolders(events, in) = {} /\ events' = [events EXCEPT ![id] = Row(in, FALSE)]
  BY DEF AppendPlain
<1>2. id \in Ids /\ events[id] = NoEvent /\ chain' = chain
  BY DEF FreshIds, AppendPlain
<1>3. Log!Record(in, id)
  BY <1>1, <1>2, SameLedger DEF Log!Record
<1>4. in \in Log!Inputs
  BY SameLedger
<1> QED BY <1>2, <1>3, <1>4 DEF Log!LogNext

(* A chained append is RecordAndChain when it commits. *)
LEMMA CommitRecords ==
  ASSUME FullInv, NEW p \in Procs, CommitAppend(p)
  PROVE  Log!LogNext \/ UNCHANGED << events, chain >>
<1>1. /\ p \in Appenders /\ pc[p] = "commit" 
      /\ tx[p].in \in Inputs /\ tx[p].in.batch /\ tx[p].id \in Ids
      /\ \/ events' = events /\ chain' = chain
         \/ /\ events[tx[p].id] = NoEvent
            /\ events' = [events EXCEPT ![tx[p].id] = Row(tx[p].in, TRUE)]
            /\ chain' = Append(chain, NextBlock(chain, tx[p]))
  BY CommitAppendDoes DEF FullInv
<1>2. CASE events' = events /\ chain' = chain
  BY <1>2
<1>3. CASE /\ events[tx[p].id] = NoEvent
           /\ events' = [events EXCEPT ![tx[p].id] = Row(tx[p].in, TRUE)]
           /\ chain' = Append(chain, NextBlock(chain, tx[p]))
  <2> DEFINE in == tx[p].in
             id == tx[p].id
  <2>1. KeyHolders(events, in) = {}
    BY <1>1, <1>3 DEF FullInv, KeysOK, KeyOK
  <2>2. Log!RecordAndChain(in, id)
    BY <1>1, <1>3, <2>1, SameLedger DEF Log!RecordAndChain, NextBlock
  <2>3. in \in Log!Inputs /\ id \in Ids
    BY <1>1, SameLedger
  <2> QED BY <2>2, <2>3 DEF Log!LogNext
<1> QED BY <1>1, <1>2, <1>3

(* A backfill is Backfill when it commits. *)
LEMMA CommitBackfills ==
  ASSUME FullInv, NEW p \in Procs, CommitBackfill(p)
  PROVE  Log!LogNext
<1> DEFINE st == tx[p].staged
<1>1. pc[p] = "blocks" /\ events' = events /\ chain' = chain \o st
  BY DEF CommitBackfill
<1>2. chain \in Seq(Blocks) /\ st \in Seq(Blocks)
  BY DEF FullInv, IndInv, TypeOK, TxType
<1>3. LinksFrom(chain, st) /\ StagedIdsOK(events, chain, st, tx[p].pending)
  BY <1>1 DEF FullInv, IndInv, StagedOK, FitsOn
<1>4. \A m, n \in 1..Len(st) : m < n => st[m].at <= st[n].at
  BY <1>1 DEF FullInv, OrdersOK, OrderOK
<1>5. ASSUME NEW n \in 1..Len(st)
      PROVE  /\ st[n].id \in Unchained(events, chain)
             /\ st[n].at = events[st[n].id].at
             /\ st[n].metrics = events[st[n].id].payload
             /\ st[n].hash = EventHash(st[n].seq, st[n].at, st[n].metrics, st[n].prev)
             /\ \A m \in 1..Len(st) : st[m].id = st[n].id => m = n
  <2>1. /\ st[n].id \in Unchained(events, chain)
        /\ st[n] = Block(st[n].seq, st[n].id, events[st[n].id].at, events[st[n].id].payload, st[n].prev)
        /\ \A m \in 1..Len(st) : st[m].id = st[n].id => m = n
    BY <1>3 DEF StagedIdsOK
  <2>2. Canon[events[st[n].id].payload] = events[st[n].id].payload
    BY <2>1, StoredCanonical DEF FullInv, IndInv, Unchained
  <2>3. /\ st[n].at = events[st[n].id].at
        /\ st[n].metrics = Canon[events[st[n].id].payload]
        /\ st[n].hash = EventHash(st[n].seq, events[st[n].id].at, events[st[n].id].payload, st[n].prev)
    <3> DEFINE b  == st[n]
               at == events[b.id].at
               pl == events[b.id].payload
    <3>1. b = Block(b.seq, b.id, at, pl, b.prev)
      BY <2>1
    <3> HIDE DEF b, at, pl
    <3>2. \A x, seq, id, prev :
            x = Block(seq, id, at, pl, prev) =>
              x.at = at /\ x.metrics = Canon[pl] /\ x.hash = EventHash(seq, at, pl, prev)
      BY BlockFields, SMT
    <3>3. b.at = at /\ b.metrics = Canon[pl] /\ b.hash = EventHash(b.seq, at, pl, b.prev)
      BY <3>1, <3>2
    <3> QED BY <3>3 DEF b, at, pl
  <2> QED BY <2>1, <2>2, <2>3
<1> HIDE DEF st
<1>6. SubSeq(chain', Len(chain) + 1, Len(chain')) = st
  <2>1. Len(chain') = Len(chain) + Len(st) /\ Len(chain) \in Nat /\ Len(st) \in Nat /\ chain' \in Seq(Blocks)
    BY <1>1, <1>2
  <2> DEFINE more == SubSeq(chain', Len(chain) + 1, Len(chain'))
  <2>2. more = [i \in 1..Len(st) |-> chain'[Len(chain) + i]]
    BY <2>1
  <2>3. \A i \in 1..Len(st) : chain'[Len(chain) + i] = st[i]
    BY <1>1, <1>2
  <2>4. st = [i \in 1..Len(st) |-> st[i]]
    BY <1>2
  <2> HIDE DEF more
  <2>5. more = [i \in 1..Len(st) |-> st[i]]
    BY <2>2, <2>3
  <2> QED BY <2>4, <2>5 DEF more
<1>7. Log!Added = st
  BY <1>6 DEF Log!Added
<1>8. Log!Backfill(st)
  <2>1. Log!LinksFrom(chain, st)
    BY <1>3, SameLedger
  <2>2. ASSUME NEW n \in 1..Len(st)
        PROVE  /\ st[n].id \in Log!Unchained(events, chain)
               /\ st[n].at = events[st[n].id].at
               /\ st[n].metrics = events[st[n].id].payload
               /\ st[n].hash = Log!EventHash(st[n].seq, st[n].at, st[n].metrics, st[n].prev)
    BY <1>5, SameLedger
  <2>3. \A m, n \in 1..Len(st) : m < n => st[m].id # st[n].id
    <3> SUFFICES ASSUME NEW m \in 1..Len(st), NEW n \in 1..Len(st), m < n, st[m].id = st[n].id
                 PROVE  FALSE
      OBVIOUS
    <3>1. m = n
      BY <1>5
    <3> QED BY <3>1
  <2> QED BY <1>1, <1>4, <2>1, <2>2, <2>3 DEF Log!Backfill
<1> QED BY <1>7, <1>8 DEF Log!LogNext

(* The transactions of the ledger implement CustodyLog: seen from its tables,
   every append records or records and chains one event at once, every backfill
   chains a list of events at once, and nothing else happens to them. *)
THEOREM ChainImplementsLog == Spec => ImplementsLog
<1>1. Init => Log!LogInit
  BY DEF Init, Log!LogInit
<1>2. FullInv /\ [Next]_vars => [Log!LogNext]_(Log!logVars)
  <2> SUFFICES ASSUME FullInv, [Next]_vars PROVE Log!LogNext \/ UNCHANGED << events, chain >>
    BY DEF Log!logVars
  <2>1. CASE UNCHANGED vars
    BY <2>1 DEF vars
  <2>2. ASSUME NEW p \in Appenders, AppendPlain(p) PROVE Log!LogNext
    BY <2>2, PlainRecords DEF FullInv
  <2>3. ASSUME NEW p \in Appenders, AppendChained(p) \/ Redeploy(p) PROVE UNCHANGED << events, chain >>
    BY <2>3 DEF AppendChained, Redeploy
  <2>4. ASSUME NEW b \in Backfillers, BackfillBegin(b) PROVE UNCHANGED << events, chain >>
    BY <2>4 DEF BackfillBegin
  <2>5. ASSUME NEW p \in Procs, CommitAppend(p) PROVE Log!LogNext \/ UNCHANGED << events, chain >>
    BY <2>5, CommitRecords
  <2>6. ASSUME NEW p \in Procs, CommitBackfill(p) PROVE Log!LogNext
    BY <2>6, CommitBackfills
  <2>7. ASSUME NEW p \in Procs, \/ Acquire(p) \/ InsertEvent(p) \/ ReadHead(p) \/ InsertBlock(p)
                                \/ ReadPending(p) \/ BackfillBlock(p) \/ Abort(p)
        PROVE  UNCHANGED << events, chain >>
    BY <2>7 DEF Acquire, InsertEvent, ReadHead, InsertBlock, ReadPending, BackfillBlock, Abort
  <2> QED BY <2>1, <2>2, <2>3, <2>4, <2>5, <2>6, <2>7 DEF Next, Step
<1> QED BY <1>1, <1>2, FullInductive, PTL DEF Spec, ImplementsLog, Log!LogSpec
============================================================================
