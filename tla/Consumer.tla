------------------------------ MODULE Consumer ------------------------------
(***************************************************************************)
(* The Kafka consumer (internal/consumer) over one partition: fetch,       *)
(* dedupe, project, mark, commit.  Replicas form a consumer group; a       *)
(* rebalance moves the partition, and the replica that lost it may still   *)
(* be handling a message (a zombie), whose offset commit is refused.       *)
(*                                                                         *)
(* An event is "mapped" (mapEvent knows its type), "entity" (mapped, and   *)
(* projectEntity keeps its payload as the state of a party, farm or lot),  *)
(* "unmapped", or "bad" (not JSON).  Producers deliver at least once, so   *)
(* the same event may be in the partition more than once.  An event is     *)
(* told from others by its id, which a producer that sends none may not    *)
(* have given it alone.  All entity messages here are about one entity.    *)
(* Recomposing stories, the last thing projectEvent does, is               *)
(* StoryOverride's Rebuild.                                                *)
(***************************************************************************)
EXTENDS Naturals, Sequences, FiniteSets

CONSTANTS
  Replicas,
  Events,       \* the events producers send
  KindOf,       \* KindOf[e]: what handleMessage makes of the event
  IdOf,         \* IdOf[e]: its id to handleMessage
  MaxMessages,  \* bound on the partition's length
  MaxMoves,     \* bound on rebalances and restarts
  MaxFailed,    \* bound on messages whose handling fails, bad ones aside
  Nobody        \* no replica owns the partition; no event yet

Kinds == {"entity", "mapped", "unmapped", "bad"}

ASSUME KindsAssumption == KindOf \in [Events -> Kinds]
ASSUME BoundsAssumption == MaxMessages \in Nat /\ MaxMoves \in Nat /\ MaxFailed \in Nat
ASSUME NobodyAssumption == Nobody \notin Replicas \cup Events

VARIABLES
  log,        \* the partition: events by offset
  committed,  \* the group's committed offset
  owner,      \* the replica the partition is assigned to
  moves,      \* rebalances so far
  pos,        \* pos[r]: the reader's position
  work,       \* work[r]: the offset being handled (0: none), the next step and
              \* (history) whether the partition was assigned anew meanwhile
  seen,       \* ids in kafka_dedupe
  rows,       \* rows[i]: the event whose trace_events row has idempotency key i
  dead,       \* ids in kafka_dead_letter
  entity,     \* entity_projections: the event whose payload it is
  failed      \* history: offsets whose handling returned an error

vars == << log, committed, owner, moves, pos, work, seen, rows, dead, entity, failed >>

Steps == {"fetch", "check", "project", "entity", "mark", "commit"}

(* What an event is told from others by: its envelope id or, without one, the
   message key or the first 128 bytes, which are those of other events, too. *)
Ids == {IdOf[e] : e \in Events}

ASSUME IdsAssumption == IdOf \in [Events -> Ids]

Idle == [offset |-> 0, step |-> "fetch", stale |-> FALSE]

Init ==
  /\ log = << >>
  /\ committed = 0
  /\ owner = Nobody
  /\ moves = 0
  /\ pos = [r \in Replicas |-> 0]
  /\ work = [r \in Replicas |-> Idle]
  /\ seen = {}
  /\ rows = [i \in Ids |-> Nobody]
  /\ dead = {}
  /\ entity = Nobody
  /\ failed = {}

Message(r) == log[work[r].offset]
Id(r)      == IdOf[Message(r)]

Mapped(e) == KindOf[e] \in {"entity", "mapped"}

Goto(r, s) == work' = [work EXCEPT ![r].step = s]

kafka  == << log, committed, owner, moves, pos >>
tables == << seen, rows, dead, entity >>

----------------------------------------------------------------------------
(* A producer appends, perhaps a message it has sent before. *)
Produce ==
  /\ Len(log) < MaxMessages
  /\ \E e \in Events : log' = Append(log, e)
  /\ UNCHANGED << committed, owner, moves, pos, work, tables, failed >>

(* The group assigns the partition to r, which reads from the committed offset.
   If r was restarted it has dropped what it was handling; a replica that lost
   the partition, perhaps r a while ago, goes on with it. *)
Assign(r) ==
  /\ moves < MaxMoves
  /\ moves' = moves + 1
  /\ owner' = r
  /\ pos' = [pos EXCEPT ![r] = committed]
  /\ \E restarted \in BOOLEAN :
       work' = [q \in Replicas |->
                  IF work[q] = Idle \/ (restarted /\ q = r) THEN Idle ELSE [work[q] EXCEPT !.stale = TRUE]]
  /\ UNCHANGED << log, committed, tables, failed >>

(* FetchMessage. *)
Fetch(r) ==
  /\ owner = r
  /\ work[r] = Idle
  /\ pos[r] < Len(log)
  /\ pos' = [pos EXCEPT ![r] = @ + 1]
  /\ work' = [work EXCEPT ![r] = [offset |-> pos[r] + 1, step |-> "check", stale |-> FALSE]]
  /\ UNCHANGED << log, committed, owner, moves, tables, failed >>

(* Mutant of CheckSeen: the dedupe row is inserted up front. *)
CheckMarks(r) ==
  /\ work[r].step = "check"
  /\ KindOf[Message(r)] # "bad"
  /\ Goto(r, IF Id(r) \in seen THEN "commit" ELSE "project")
  /\ seen' = seen \cup {Id(r)}
  /\ UNCHANGED << kafka, rows, dead, entity, failed >>

(* Mutant of CheckSeen: what was handled before is handled again. *)
CheckIgnored(r) ==
  /\ work[r].step = "check"
  /\ KindOf[Message(r)] # "bad"
  /\ Goto(r, "project")
  /\ UNCHANGED << kafka, tables, failed >>

(* json.Unmarshal and SELECT EXISTS ... kafka_dedupe. *)
CheckSeen(r) ==
  /\ work[r].step = "check"
  /\ KindOf[Message(r)] # "bad"
  /\ Goto(r, IF Id(r) \in seen THEN "commit" ELSE "project")
  /\ UNCHANGED << kafka, tables, failed >>

(* store.AppendEvent under the idempotency key eventID: a row that has the key
   stays as it is. *)
AppendEvent(e) == rows' = [rows EXCEPT ![IdOf[e]] = IF @ = Nobody THEN e ELSE @]

(* deadLetter: best-effort, a failed write is logged and the event is gone; ON
   CONFLICT keeps one row for each id. *)
deadLetter(i) == dead' \in {dead, dead \cup {i}}

(* projectEvent: append, or dead-letter what mapEvent does not know. *)
Project(r) ==
  /\ work[r].step = "project"
  /\ LET e == Message(r) IN
     \/ Mapped(e) /\ AppendEvent(e) /\ Goto(r, "entity") /\ UNCHANGED dead
     \/ KindOf[e] = "unmapped" /\ deadLetter(Id(r)) /\ Goto(r, "mark") /\ UNCHANGED rows
  /\ UNCHANGED << kafka, seen, entity, failed >>

(* projectEntity: UpsertEntityProjection overwrites what is there; its error is
   dropped.  The other mapped events leave the projections alone. *)
ProjectEntity(r) ==
  /\ work[r].step = "entity"
  /\ \/ KindOf[Message(r)] = "entity" /\ entity' = Message(r)
     \/ UNCHANGED entity
  /\ Goto(r, "mark")
  /\ UNCHANGED << kafka, seen, rows, dead, failed >>

(* INSERT INTO kafka_dedupe ... ON CONFLICT DO NOTHING. *)
Mark(r) ==
  /\ work[r].step = "mark"
  /\ seen' = seen \cup {Id(r)}
  /\ Goto(r, "commit")
  /\ UNCHANGED << kafka, rows, dead, entity, failed >>

(* CommitMessages: everything up to this offset is done, as far as the group is
   concerned.  Refused for a zombie, and it may fail; the error is logged. *)
CommitMessages(r) ==
  /\ work[r].step = "commit"
  /\ \/ committed' = IF owner = r THEN work[r].offset ELSE committed
     \/ UNCHANGED committed
  /\ work' = [work EXCEPT ![r] = Idle]
  /\ UNCHANGED << log, owner, moves, pos, tables, failed >>

(* Handling r's message may return an error: bad JSON always does, a query, the
   append or the mark may. *)
MayFail(r) ==
  /\ work[r].step \in {"check", "project", "mark"}
  /\ \/ KindOf[Message(r)] = "bad"
     \/ work[r].offset \in failed
     \/ Cardinality({n \in failed : KindOf[log[n]] # "bad"}) < MaxFailed

(* Mutant of HandleFails: the same message is fetched again at once. *)
HandleFailsBlocks(r) ==
  /\ MayFail(r)
  /\ failed' = failed \cup {work[r].offset}
  /\ pos' = [pos EXCEPT ![r] = work[r].offset - 1]
  /\ work' = [work EXCEPT ![r] = Idle]
  /\ UNCHANGED << log, committed, owner, moves, tables >>

(* handleMessage returns an error: Run logs it and goes on with the next
   message, committing nothing. *)
HandleFails(r) ==
  /\ MayFail(r)
  /\ failed' = failed \cup {work[r].offset}
  /\ work' = [work EXCEPT ![r] = Idle]
  /\ UNCHANGED << kafka, tables >>

----------------------------------------------------------------------------
Handle(r) == Fetch(r) \/ CheckSeen(r) \/ Project(r) \/ ProjectEntity(r) \/ Mark(r) \/ CommitMessages(r)

Next ==
  \/ Produce
  \/ \E r \in Replicas : Assign(r) \/ Handle(r) \/ HandleFails(r)

Spec == Init /\ [][Next]_vars

(* The group gives the partition to some replica, and the one that has it keeps
   reading it.  Nothing says that handling ever succeeds. *)
Fairness ==
  /\ WF_vars(\E r \in Replicas : Assign(r))
  /\ \A r \in Replicas : WF_vars(Handle(r) \/ HandleFails(r))

FairSpec == Spec /\ Fairness

----------------------------------------------------------------------------
(* Type invariant: the committed offset, a reader's position and what is being
   handled are offsets of the partition. *)
TypeOK ==
  /\ log \in Seq(Events) /\ Len(log) <= MaxMessages
  /\ committed \in 0..Len(log)
  /\ owner \in Replicas \cup {Nobody}
  /\ moves \in 0..MaxMoves
  /\ pos \in [Replicas -> 0..MaxMessages]
  /\ work \in [Replicas -> [offset : 0..MaxMessages, step : Steps, stale : BOOLEAN]]
  /\ \A r \in Replicas : /\ pos[r] <= Len(log) /\ work[r].offset <= Len(log)
                         /\ work[r].offset = 0 <=> work[r] = Idle
                         /\ work[r].step = "fetch" <=> work[r] = Idle
  /\ seen \subseteq Ids
  /\ rows \in [Ids -> Events \cup {Nobody}]
  /\ dead \subseteq Ids
  /\ entity \in Events \cup {Nobody}

(* No other event is taken for e. *)
OwnId(e) == \A f \in Events : IdOf[f] = IdOf[e] => f = e

(* e is in the ledger if it belongs there and can be told from other events. *)
InLedger(e) == Mapped(e) /\ OwnId(e) => rows[IdOf[e]] = e

Recorded(n) == InLedger(log[n])

(* Nothing is skipped that is not in the ledger.  A dedupe mark never hides an
   event without its row: what failed half way is projected again when it is
   redelivered.  The group's offset never passes a message without its row,
   unless its handling failed once.  (Of events that share an id, the first
   that is handled is all the ledger sees.) *)
SkippedIsRecorded ==
  /\ \A e \in Events : IdOf[e] \in seen => InLedger(e)
  /\ \A n \in 1..committed : Recorded(n) \/ n \in failed

(* Every event in the partition is recorded or its handling fails: the consumer
   never stops reading. *)
RecordedOrFailed ==
  \A n \in 1..MaxMessages :
    Len(log) >= n ~> (n <= Len(log) /\ (Recorded(n) \/ n \in failed))

(* The first place of e in the partition. *)
First(e) == CHOOSE n \in 1..Len(log) : log[n] = e /\ \A m \in 1..(n - 1) : log[m] # e

(* An entity's state goes forward: as long as no handling has failed, a replica
   that has the partition since it fetched the message never replaces a later
   event's payload by an earlier one's, whatever is redelivered, sent twice or
   left behind by a restart.  (A replica that lost the partition may.) *)
EntityGoesForward ==
  [][\A r \in Replicas :
       /\ work[r].step = "entity" /\ work'[r].step = "mark" /\ ~work[r].stale
       /\ failed = {} /\ entity # Nobody
       => First(entity') >= First(entity)]_vars

(* A projection failure does not commit the offset, so the message is delivered
   again: the group's offset never passes an event that was not recorded. *)
FailureKeepsOffset == \A n \in 1..committed : Recorded(n)
============================================================================
