----------------------------- MODULE CustodyLog -----------------------------
(***************************************************************************)
(* What the custody ledger promises: every AppendEvent and every           *)
(* chain-backfill run takes effect in one indivisible step.  CustodyChain  *)
(* (transactions, an advisory lock, aborts) implements this.               *)
(***************************************************************************)
EXTENDS CustodyLedger

VARIABLES
  events,  \* trace_events, committed rows
  chain    \* custody_chain, committed blocks

logVars == << events, chain >>

LogInit ==
  /\ events = [id \in Ids |-> NoEvent]
  /\ chain = << >>

(* A new event that gets no block: not a batch, or written by a replica that
   runs with CHAIN_ENABLED off. *)
Record(in, id) ==
  /\ events[id] = NoEvent
  /\ KeyHolders(events, in) = {}
  /\ events' = [events EXCEPT ![id] = Row(in, FALSE)]
  /\ UNCHANGED chain

(* A new batch event and its block, together. *)
RecordAndChain(in, id) ==
  /\ in.batch
  /\ events[id] = NoEvent
  /\ KeyHolders(events, in) = {}
  /\ events' = [events EXCEPT ![id] = Row(in, TRUE)]
  /\ chain' = Append(chain, Block(Len(chain) + 1, id, in.at, in.payload, HeadHash(chain)))

(* A backfill gives a block to events that had none, in chronological order,
   with the content their rows store. *)
Backfill(more) ==
  /\ LinksFrom(chain, more)
  /\ \A n \in 1..Len(more) :
       /\ more[n].id \in Unchained(events, chain)
       /\ more[n].at = events[more[n].id].at
       /\ more[n].metrics = events[more[n].id].payload
       /\ more[n].hash = EventHash(more[n].seq, more[n].at, more[n].metrics, more[n].prev)
  /\ \A m, n \in 1..Len(more) :
       m < n => /\ more[m].id # more[n].id
                /\ more[m].at <= more[n].at
  /\ chain' = chain \o more
  /\ UNCHANGED events

(* The blocks a step added. *)
Added == SubSeq(chain', Len(chain) + 1, Len(chain'))

LogNext ==
  \/ \E in \in Inputs, id \in Ids : Record(in, id)
  \/ \E in \in Inputs, id \in Ids : RecordAndChain(in, id)
  \/ Backfill(Added)

LogSpec == LogInit /\ [][LogNext]_logVars
============================================================================
