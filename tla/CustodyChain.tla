---------------------------- MODULE CustodyChain ----------------------------
(***************************************************************************)
(* Concurrent appends to the custody chain, statement by statement.        *)
(*                                                                         *)
(* An appender is one AppendEvent call site of some service replica        *)
(* (RecordEvent, the Kafka consumer, the SCM sync all end there); a        *)
(* replica has its own chainEnabled flag, fixed when it starts.  A         *)
(* backfiller is one run of cmd/chain-backfill.  Both write custody_chain  *)
(* inside a transaction that holds pg_advisory_xact_lock; a transaction's  *)
(* writes stay in its `tx` record until it commits, and any failed         *)
(* statement, cancelled context or crashed process rolls it back.          *)
(***************************************************************************)
EXTENDS CustodyLedger

CONSTANTS
  Appenders, Backfillers,
  Free        \* the advisory lock has no holder

Procs == Appenders \cup Backfillers

ASSUME ProcsAssumption == Free \notin Procs /\ Appenders \cap Backfillers = {}

(* UUIDs never run out; a model has finitely many and admits a new call only
   while every call under way can still get one. *)
ASSUME IdsAssumption == IsFiniteSet(Ids) /\ IsFiniteSet(Appenders)

VARIABLES
  events,   \* trace_events, committed rows
  chain,    \* custody_chain, committed blocks
  lock,     \* holder of the advisory lock custodyChainLockKey
  enabled,  \* enabled[p]: Store.chainEnabled of the replica p runs on
  pc,       \* pc[p]: the next statement of p's transaction
  tx,       \* tx[p]: p's local variables and uncommitted writes
  sealed    \* history: a backfill has committed that read its events when
            \* every replica had the chain enabled, and none was disabled since

vars == << events, chain, lock, enabled, pc, tx, sealed >>

Log == INSTANCE CustodyLog WITH events <- events, chain <- chain

----------------------------------------------------------------------------
(* The locals of a transaction.
     in       the AppendEventInput (NoCall in a backfill and when idle)
     id       ev.ID once the INSERT has returned, else NoEvent
     last, prev    lastSeq/seq and prevHash of the read-modify-write
     staged   blocks inserted but not committed
     pending  event ids the backfill has yet to chain
     covers   history: every replica has been enabled since pending was read *)
(* The zero AppendEventInput. *)
NoCall == [batch |-> FALSE, at |-> 0, key |-> NoKey, payload |-> NoEvent]

IdleTx == [in |-> NoCall, id |-> NoEvent, last |-> 0, prev |-> GenesisHash,
           staged |-> << >>, pending |-> << >>, covers |-> FALSE]

TxType == [in : Inputs \cup {NoCall}, id : Ids \cup {NoEvent}, last : Nat,
           prev : Hashes, staged : Seq(Blocks), pending : Seq(Ids), covers : BOOLEAN]

States == {"idle", "lock", "insert", "head", "block", "read", "blocks", "commit"}

(* Statements that run with the lock held. *)
Inside == States \ {"idle", "lock"}

(* Type invariant: the tables hold rows and blocks, a transaction's locals are what
   appendEventChained and backfill declare. *)
TypeOK ==
  /\ events \in [Ids -> Rows \cup {NoEvent}]
  /\ chain \in Seq(Blocks)
  /\ lock \in Procs \cup {Free}
  /\ enabled \in [Appenders -> BOOLEAN]
  /\ pc \in [Procs -> States]
  /\ tx \in [Procs -> TxType]
  /\ sealed \in BOOLEAN

Init ==
  /\ events = [id \in Ids |-> NoEvent]
  /\ chain = << >>
  /\ lock = Free
  /\ enabled \in [Appenders -> BOOLEAN]
  /\ pc = [p \in Procs |-> "idle"]
  /\ tx = [p \in Procs |-> IdleTx]
  /\ sealed = FALSE

----------------------------------------------------------------------------
Goto(p, s) == pc' = [pc EXCEPT ![p] = s]

(* Leaving a transaction, by commit or rollback, releases the lock. *)
End(p) ==
  /\ Goto(p, "idle")
  /\ tx' = [tx EXCEPT ![p] = IdleTx]
  /\ lock' = IF lock = p THEN Free ELSE lock

(* Ids no committed row and no uncommitted row has. *)
FreshIds == {id \in Ids : events[id] = NoEvent /\ \A q \in Procs : tx[q].id # id}

(* The model's bound on calls: see IdsAssumption. *)
CanCall == Cardinality(FreshIds) > Cardinality({q \in Appenders : pc[q] # "idle"})

(* The unique index makes an INSERT wait while an uncommitted row has its key. *)
KeyInFlight(in) ==
  \E q \in Procs : /\ in.key # NoKey /\ tx[q].in.key = in.key
                   /\ tx[q].id # NoEvent /\ events[tx[q].id] = NoEvent

(* Mutant of AppendPlain: the entity type is compared with its case, so a
   "Batch" misses the chain. *)
AppendPlainExactCase(p) ==
  /\ pc[p] = "idle" /\ CanCall
  /\ \E in \in Inputs :
       /\ ~KeyInFlight(in)
       /\ KeyHolders(events, in) = {}
       /\ \E id \in FreshIds : events' = [events EXCEPT ![id] = Row(in, FALSE)]
  /\ UNCHANGED << chain, lock, enabled, pc, tx, sealed >>

(* AppendEvent, plain path: one INSERT ... ON CONFLICT DO UPDATE in autocommit
   mode.  A replay (a row has the key already) leaves the table as it is. *)
AppendPlain(p) ==
  /\ pc[p] = "idle" /\ CanCall
  /\ \E in \in Inputs :
       /\ ~(enabled[p] /\ in.batch)
       /\ ~KeyInFlight(in)
       /\ KeyHolders(events, in) = {}
       /\ \E id \in FreshIds : events' = [events EXCEPT ![id] = Row(in, FALSE)]
  /\ UNCHANGED << chain, lock, enabled, pc, tx, sealed >>

(* AppendEvent, chained path: Begin. *)
AppendChained(p) ==
  /\ pc[p] = "idle" /\ CanCall
  /\ \E in \in Inputs :
       /\ enabled[p] /\ in.batch
       /\ tx' = [tx EXCEPT ![p] = [IdleTx EXCEPT !.in = in]]
  /\ Goto(p, "lock")
  /\ UNCHANGED << events, chain, lock, enabled, sealed >>

(* chain-backfill: Begin. *)
BackfillBegin(b) ==
  /\ pc[b] = "idle"
  /\ Goto(b, "lock")
  /\ UNCHANGED << events, chain, lock, enabled, tx, sealed >>

(* Mutant of Acquire: pg_try_advisory_xact_lock, its answer ignored. *)
AcquireNoWait(p) ==
  /\ pc[p] = "lock"
  /\ lock' = p
  /\ Goto(p, IF p \in Backfillers THEN "head" ELSE "insert")
  /\ UNCHANGED << events, chain, enabled, tx, sealed >>

(* SELECT pg_advisory_xact_lock returns. *)
Acquire(p) ==
  /\ pc[p] = "lock"
  /\ lock = Free
  /\ lock' = p
  /\ Goto(p, IF p \in Backfillers THEN "head" ELSE "insert")
  /\ UNCHANGED << events, chain, enabled, tx, sealed >>

(* Mutant of InsertEvent: a replay goes on to write a block. *)
InsertEventChainsReplay(p) ==
  /\ pc[p] = "insert"
  /\ LET held == KeyHolders(events, tx[p].in) IN
     \E id \in (IF held = {} THEN FreshIds ELSE held) : tx' = [tx EXCEPT ![p].id = id]
  /\ Goto(p, "head")
  /\ UNCHANGED << events, chain, lock, enabled, sealed >>

(* Mutant of InsertEvent: no unique index on the idempotency key. *)
InsertEventIgnoresKey(p) ==
  /\ pc[p] = "insert"
  /\ \E id \in FreshIds : tx' = [tx EXCEPT ![p].id = id]
  /\ Goto(p, "head")
  /\ UNCHANGED << events, chain, lock, enabled, sealed >>

(* INSERT INTO trace_events ... RETURNING id, (xmax = 0): a row with the same
   key is returned instead of inserted, and then no block is written. *)
InsertEvent(p) ==
  /\ pc[p] = "insert"
  /\ LET in == tx[p].in IN
     \/ /\ KeyHolders(events, in) = {}
        /\ \E id \in FreshIds : tx' = [tx EXCEPT ![p].id = id]
        /\ Goto(p, "head")
     \/ \E id \in KeyHolders(events, in) :
          /\ tx' = [tx EXCEPT ![p].id = id]
          /\ Goto(p, "commit")
  /\ UNCHANGED << events, chain, lock, enabled, sealed >>

(* SELECT seq_index, event_hash ... DESC LIMIT 1. *)
ReadHead(p) ==
  /\ pc[p] = "head"
  /\ tx' = [tx EXCEPT ![p].last = HeadSeq(chain), ![p].prev = HeadHash(chain)]
  /\ Goto(p, IF p \in Backfillers THEN "read" ELSE "block")
  /\ UNCHANGED << events, chain, lock, enabled, sealed >>

(* What INSERT INTO custody_chain checks: the primary key on seq_index and the
   unique index on trace_event_id.  A conflict raises an error, and the
   transaction can only Abort. *)
Insertable(seq, id) ==
  /\ \A n \in 1..Len(chain) : chain[n].seq # seq
  /\ id \notin ChainedIds(chain)

(* tx[p] after inserting a block for event id and moving on. *)
WithBlock(t, id, at, metrics) ==
  LET b == Block(t.last + 1, id, at, metrics, t.prev) IN
  [t EXCEPT !.staged = Append(t.staged, b), !.last = b.seq, !.prev = b.hash]

(* seq := lastSeq + 1; EventHash over in.Payload; INSERT INTO custody_chain. *)
InsertBlock(p) ==
  /\ pc[p] = "block"
  /\ Insertable(tx[p].last + 1, tx[p].id)
  /\ tx' = [tx EXCEPT ![p] = WithBlock(tx[p], tx[p].id, tx[p].in.at, tx[p].in.payload)]
  /\ Goto(p, "commit")
  /\ UNCHANGED << events, chain, lock, enabled, sealed >>

(* Committing an append makes the row and its block visible together. *)
CommitAppend(p) ==
  /\ p \in Appenders
  /\ pc[p] = "commit"
  /\ events' = IF events[tx[p].id] = NoEvent
                 THEN [events EXCEPT ![tx[p].id] = Row(tx[p].in, TRUE)]
                 ELSE events
  /\ chain' = chain \o tx[p].staged
  /\ End(p)
  /\ UNCHANGED << enabled, sealed >>

(* The backfill reads every batch row that has no block. *)
ReadPending(b) ==
  /\ pc[b] = "read"
  /\ \E s \in Enumerations(Unchained(events, chain)) :
       /\ Chronological(events, s)
       /\ tx' = [tx EXCEPT ![b].pending = s,
                           ![b].covers = \A q \in Appenders : enabled[q]]
  /\ Goto(b, "blocks")
  /\ UNCHANGED << events, chain, lock, enabled, sealed >>

(* One iteration of the backfill's loop; the payload comes from the column. *)
BackfillBlock(b) ==
  /\ pc[b] = "blocks"
  /\ tx[b].pending # << >>
  /\ LET id == Head(tx[b].pending) IN
     /\ Insertable(tx[b].last + 1, id)
     /\ tx' = [tx EXCEPT ![b] =
                [WithBlock(tx[b], id, events[id].at, events[id].payload) EXCEPT
                   !.pending = Tail(tx[b].pending)]]
  /\ UNCHANGED << events, chain, lock, enabled, pc, sealed >>

(* A dry run returns before the loop and rolls back: Abort. *)
CommitBackfill(b) ==
  /\ pc[b] = "blocks"
  /\ tx[b].pending = << >>
  /\ chain' = chain \o tx[b].staged
  /\ sealed' = (sealed \/ tx[b].covers)
  /\ End(b)
  /\ UNCHANGED << events, enabled >>

(* A statement or the commit fails, the context is cancelled, the process dies:
   the deferred Rollback or the closed session undoes everything. *)
Abort(p) ==
  /\ pc[p] # "idle"
  /\ End(p)
  /\ UNCHANGED << events, chain, enabled, sealed >>

(* A replica restarts with CHAIN_ENABLED set the other way (an operator does). *)
Redeploy(p) ==
  /\ pc[p] = "idle"
  /\ enabled' = [enabled EXCEPT ![p] = ~enabled[p]]
  /\ IF enabled[p]
       THEN /\ sealed' = FALSE
            /\ tx' = [q \in Procs |-> [tx[q] EXCEPT !.covers = FALSE]]
       ELSE UNCHANGED << sealed, tx >>
  /\ UNCHANGED << events, chain, lock, pc >>

----------------------------------------------------------------------------
Step(p) ==
  \/ Acquire(p) \/ InsertEvent(p) \/ ReadHead(p) \/ InsertBlock(p) \/ CommitAppend(p)
  \/ ReadPending(p) \/ BackfillBlock(p) \/ CommitBackfill(p)

Next ==
  \/ \E p \in Appenders : AppendPlain(p) \/ AppendChained(p) \/ Redeploy(p)
  \/ \E b \in Backfillers : BackfillBegin(b)
  \/ \E p \in Procs : Step(p) \/ Abort(p)

Spec == Init /\ [][Next]_vars

----------------------------------------------------------------------------
(* The committed chain is numbered 1, 2, 3, ... without gaps, every block
   carries the hash of the one before it (what VerifyChain's first check
   compares), and no event has two blocks. *)
ChainLinked ==
  /\ LinksFrom(<< >>, chain)
  /\ \A m, n \in 1..Len(chain) : chain[m].id = chain[n].id => m = n

(* Between reading the chain head and committing, nobody else's block becomes
   visible: the number and previous hash a transaction computed are the right
   ones when it commits, so no INSERT meets a unique violation. *)
HeadStaysCurrent ==
  \A p \in Procs :
    pc[p] \in {"block", "read", "blocks"} =>
      /\ tx[p].last = Len(chain) + Len(tx[p].staged)
      /\ tx[p].prev = HeadHash(chain \o tx[p].staged)

(* A block repeats the stored row of a batch event that is committed with it:
   auditing the chain is auditing the ledger. *)
BlocksMatchEvents ==
  \A n \in 1..Len(chain) :
    LET ev == events[chain[n].id] IN
    /\ ev # NoEvent
    /\ ev.batch
    /\ chain[n].at = ev.at
    /\ chain[n].metrics = ev.payload

(* VerifyChain blames a block for nothing but a payload that JSONB normalised
   after it was hashed; a backfilled block, hashed from the column, is never
   blamed. *)
OnlyNormalisedFlagged ==
  /\ LinkAnomalies(chain) = {}
  /\ \A n \in HashAnomalies(chain) :
       LET ev == events[chain[n].id] IN ev.chained /\ ev.sent # ev.payload

(* No batch event is left out of the chain.  One that came in through the chained
   path has its block, whatever failed and whoever replayed it: only a replica
   with the chain disabled leaves batch events without one.  After a backfill
   that ran with the chain enabled everywhere the cutover is complete: every
   batch event has a block and every later one gets it. *)
CutoverComplete ==
  /\ \A id \in Unchained(events, chain) : ~events[id].chained
  /\ sealed => Unchained(events, chain) = {}

(* The transactions are linearizable: they implement atomic appends.  Holds
   where every payload is canonical or not: Log!RecordAndChain hashes what the
   caller sent. *)
ImplementsLog == Log!LogSpec

----------------------------------------------------------------------------
(* The inductive invariant of the proofs: TypeOK, ChainLinked,
   BlocksMatchEvents and the five parts below. *)

(* The advisory lock: exactly its holder is past pg_advisory_xact_lock. *)
Mutex == \A p \in Procs : pc[p] \in Inside <=> lock = p

(* A backfill has no INSERT INTO trace_events, an append no loop. *)
Roles ==
  /\ \A p \in Appenders : pc[p] \notin {"read", "blocks"}
  /\ \A b \in Backfillers : pc[b] \notin {"insert", "block", "commit"}

(* A chained call is about a batch; until it commits, its row is nobody's. *)
CallOK(evs, s, t) ==
  /\ s # "idle" => t.in \in Inputs /\ t.in.batch
  /\ s \in {"head", "block", "commit"} => t.id \in Ids
  /\ s \in {"head", "block"} => evs[t.id] = NoEvent

CallsOK == \A p \in Appenders : CallOK(events, pc[p], tx[p])

(* A backfill's blocks and what it has yet to chain: different events, all
   committed and without a block, each block a copy of its event's row. *)
StagedIdsOK(evs, c, staged, pending) ==
  /\ \A n \in 1..Len(staged) :
       /\ staged[n].id \in Unchained(evs, c)
       /\ staged[n] = Block(staged[n].seq, staged[n].id, evs[staged[n].id].at,
                            evs[staged[n].id].payload, staged[n].prev)
       /\ \A m \in 1..Len(staged) : staged[m].id = staged[n].id => m = n
       /\ \A m \in 1..Len(pending) : pending[m] # staged[n].id
  /\ \A n \in 1..Len(pending) :
       /\ pending[n] \in Unchained(evs, c)
       /\ \A m \in 1..Len(pending) : pending[m] = pending[n] => m = n

(* The block an append inserts when it is the next one to commit. *)
NextBlock(c, t) == Block(Len(c) + 1, t.id, t.in.at, t.in.payload, HeadHash(c))

(* What a transaction has staged fits on the chain as it is committed. *)
FitsOn(evs, c, s, t) ==
  /\ s \in States \ {"blocks", "commit"} => t.staged = << >> /\ t.pending = << >>
  /\ s \in {"block", "read"} => t.last = Len(c) /\ t.prev = HeadHash(c)
  /\ s = "commit" =>
       t.staged = IF evs[t.id] = NoEvent THEN << NextBlock(c, t) >> ELSE << >>
  /\ s = "blocks" =>
       /\ LinksFrom(c, t.staged)
       /\ t.last = Len(c) + Len(t.staged)
       /\ t.prev = HeadHash(c \o t.staged)
       /\ StagedIdsOK(evs, c, t.staged, t.pending)

StagedOK == \A p \in Procs : FitsOn(events, chain, pc[p], tx[p])

(* A row's payload column holds the normal form of what was sent. *)
RowsCanonical == \A id \in Stored(events) : events[id].payload = Canon[events[id].sent]

IndInv ==
  TypeOK /\ RowsCanonical /\ ChainLinked /\ BlocksMatchEvents /\ Mutex /\ Roles /\ CallsOK /\ StagedOK
============================================================================
