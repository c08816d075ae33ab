--------------------------- MODULE CustodyLedger ---------------------------
(***************************************************************************)
(* The two tables of the custody ledger and the pure functions over them.  *)
(*                                                                         *)
(*   trace_events   (internal/store/store.go)   a function from event ids  *)
(*                  to rows; NoEvent marks an id no row has;               *)
(*   custody_chain  (internal/store/chain.go)   the sequence of blocks in  *)
(*                  seq_index order.                                       *)
(*                                                                         *)
(* Data is abstracted to what the chain's correctness distinguishes.  An   *)
(* entity type is only "is it a batch": strings.EqualFold in AppendEvent   *)
(* and ILIKE in the backfill agree on that.  Business id, event type and   *)
(* actor are copied unchanged everywhere, so they stay inside the payload. *)
(* The payload itself is not copied unchanged: PostgreSQL normalises a     *)
(* JSONB value (-0 becomes 0), which is what Canon is.                     *)
(***************************************************************************)
EXTENDS Naturals, Sequences, FiniteSets

CONSTANTS
  Ids,        \* trace_events.id values (UUIDs; no order is assumed on them)
  Keys,       \* idempotency keys
  Times,      \* occurred_at values
  Payloads,   \* payload maps as the Go process holds them
  Canon,      \* what reading a payload back from its JSONB column gives
  NoEvent,    \* "no such row"
  NoKey       \* idempotency_key IS NULL

(* Reading back a value that was read back changes nothing. *)
ASSUME CanonAssumption ==
  /\ Canon \in [Payloads -> Payloads]
  /\ \A p \in Payloads : Canon[Canon[p]] = Canon[p]

ASSUME TimesAssumption == Times \subseteq Nat

ASSUME NullsAssumption == NoEvent \notin Ids /\ NoKey \notin Keys

----------------------------------------------------------------------------
(* What a caller passes to AppendEvent.  RecordEvent, the caller that takes it
   from a client, lets a client choose the time (not the future) and the key, or
   leave the key out; what it validates is the payload's business. *)
Inputs == [batch : BOOLEAN, at : Times, key : Keys \cup {NoKey}, payload : Payloads]

(* A trace_events row.  `sent` is a history field: the map the caller held,
   before JSONB stored it as `payload`.  `chained` is one too: whether the row
   came in through appendEventChained. *)
Rows ==
  [batch : BOOLEAN, at : Times, key : Keys \cup {NoKey}, payload : Payloads,
   sent : Payloads, chained : BOOLEAN]

(* The "no row" mark is not a row. *)
ASSUME NoRowAssumption == NoEvent \notin Rows

Row(in, viaChain) ==
  [batch |-> in.batch, at |-> in.at, key |-> in.key, payload |-> Canon[in.payload],
   sent |-> in.payload, chained |-> viaChain]

(* The rows present in a trace_events table. *)
Stored(evs) == {id \in Ids : evs[id] # NoEvent}

(* The rows an INSERT with this input conflicts with, by the partial unique
   index on idempotency_key. *)
KeyHolders(evs, in) == {id \in Stored(evs) : in.key # NoKey /\ evs[id].key = in.key}

----------------------------------------------------------------------------
(* SHA-256 is taken to be injective, so a hash is represented by what it
   hashes: the block's own content after the previous hash, hence the
   contents of the whole chain up to that block. *)
Contents == [seq : Nat, at : Times, payload : Payloads]
Hashes   == Seq(Contents)

GenesisHash == << >>

EventHash(seq, at, metrics, prev) ==
  Append(prev, [seq |-> seq, at |-> at, payload |-> metrics])

Blocks ==
  [seq : Nat, id : Ids, at : Times, metrics : Payloads, prev : Hashes, hash : Hashes]

(* Mutant of Block: prev_hash is not written. *)
BlockUnlinked(seq, id, at, metrics, prev) ==
  [seq |-> seq, id |-> id, at |-> at, metrics |-> Canon[metrics], prev |-> GenesisHash,
   hash |-> EventHash(seq, at, metrics, prev)]

(* Mutant of Block: the hash is over the number before the increment. *)
BlockHashesOldSeq(seq, id, at, metrics, prev) ==
  [seq |-> seq, id |-> id, at |-> at, metrics |-> Canon[metrics], prev |-> prev,
   hash |-> EventHash(seq - 1, at, metrics, prev)]

(* The custody_chain row both writers insert.  The hash is over the map in
   the writer's hand; the column stores its JSONB form. *)
Block(seq, id, at, metrics, prev) ==
  [seq |-> seq, id |-> id, at |-> at, metrics |-> Canon[metrics], prev |-> prev,
   hash |-> EventHash(seq, at, metrics, prev)]

(* Mutant of HeadSeq: numbering from 0. *)
HeadSeqFromZero(c) == IF c = << >> THEN 0 - 1 ELSE c[Len(c)].seq

(* SELECT ... ORDER BY seq_index DESC LIMIT 1, with the genesis fallback. *)
HeadSeq(c)  == IF c = << >> THEN 0 ELSE c[Len(c)].seq
HeadHash(c) == IF c = << >> THEN GenesisHash ELSE c[Len(c)].hash

ChainedIds(c) == {c[n].id : n \in 1..Len(c)}

(* `more` continues c: consecutive numbers, each block linked to the one
   before it. *)
LinksFrom(c, more) ==
  \A n \in 1..Len(more) :
    /\ more[n].seq = Len(c) + n
    /\ more[n].prev = IF n = 1 THEN HeadHash(c) ELSE more[n-1].hash

----------------------------------------------------------------------------
(* VerifyChain walks the blocks in order and reports two kinds of anomaly. *)
LinkAnomalies(c) ==
  {n \in 1..Len(c) : c[n].prev # IF n = 1 THEN GenesisHash ELSE c[n-1].hash}

HashAnomalies(c) ==
  {n \in 1..Len(c) : c[n].hash # EventHash(c[n].seq, c[n].at, c[n].metrics, c[n].prev)}

----------------------------------------------------------------------------
(* Orders the backfill may read pending events in: by occurred_at, ties
   broken by created_at and id, which are arbitrary here. *)
Chronological(evs, s) ==
  \A i, j \in 1..Len(s) : i < j => evs[s[i]].at <= evs[s[j]].at

Enumerations(S) ==
  {s \in [1..Cardinality(S) -> S] : \A i, j \in 1..Cardinality(S) : s[i] = s[j] => i = j}

(* Batch rows that have no block. *)
Unchained(evs, c) == {id \in Stored(evs) : evs[id].batch /\ id \notin ChainedIds(c)}
============================================================================
