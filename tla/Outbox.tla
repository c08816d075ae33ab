------------------------------- MODULE Outbox -------------------------------
(***************************************************************************)
(* The transactional outbox: internal/store/outbox.go and the *Tx methods  *)
(* of store.go write event_outbox rows, internal/kafkabus/relay.go drains  *)
(* them to Kafka.                                                          *)
(*                                                                         *)
(* A writer is a request or consumer goroutine.  Publishing or revoking a  *)
(* lot's QR updates its lot_qr_codes row and inserts the outbox row in one *)
(* transaction, which holds the row lock from the first statement to its   *)
(* end.  Importing a QR from SCM inserts the row and says nothing to the   *)
(* outbox.  The token of a publication is represented by the id of its     *)
(* outbox row; the token a revocation names is QrLifecycle's business.     *)
(*                                                                         *)
(* A story_updated row is inserted on its own, with no lock.  Ids come     *)
(* from a BIGSERIAL: they are handed out before the commit, and an aborted *)
(* transaction burns its id.                                               *)
(*                                                                         *)
(* Every replica runs a relay and nothing keeps two of them from fetching  *)
(* the same rows.  Kafka keeps the order of a key's messages (the key is   *)
(* the lot); a consumer drops an envelope id it has seen, so a topic is    *)
(* represented by the first deliveries of each lot.                        *)
(***************************************************************************)
EXTENDS Naturals, Sequences, FiniteSets, SequencesExt

CONSTANTS
  Lots, Writers, Relays,
  MaxId,      \* bound on event_outbox ids
  Batch,      \* Relay.batch: rows fetched per pass
  Free,       \* a row lock nobody holds
  Imported,   \* the token of a QR that SCM published
  NoRow       \* an id with no committed row

ASSUME BoundsAssumption == MaxId \in Nat /\ Batch \in Nat \ {0}
ASSUME FreeAssumption == Free \notin Writers
ASSUME LotsAssumption == Lots # {}
ASSUME ImportedAssumption == Imported \notin 0..MaxId

VARIABLES
  qr,         \* qr[lot]: the committed lot_qr_codes row: its token (0: no row)
              \* and whether revoked_at IS NULL
  rowLock,    \* rowLock[lot]: the transaction that holds the lot's row
  rows,       \* committed event_outbox rows, by id
  nextId,     \* the BIGSERIAL
  published,  \* ids whose published_at is set
  wtx,        \* wtx[w]: the writer's transaction
  batch,      \* batch[r]: what relay r has fetched and not dealt with
  sent,       \* sent[r]: the head of batch[r] is published and not yet marked
  delivered,  \* delivered[lot]: ids in the order consumers first see them
  changes     \* history, changes[lot]: ids of QR rows in the order of commit

vars == << qr, rowLock, rows, nextId, published, wtx, batch, sent, delivered, changes >>

Ids == 1..MaxId
QRKinds == {"published", "revoked"}
Kinds == QRKinds \cup {"story"}

(* A committed row: its key and its event type. *)
Rows == [lot : Lots, kind : Kinds]

(* The "no row" mark is not a row. *)
ASSUME NoRowAssumption == NoRow \notin Rows

Tokens == 0..MaxId \cup {Imported}

NoQR == [token |-> 0, live |-> FALSE]

(* id = 0 until the INSERT INTO event_outbox has run. *)
IdleTx == [step |-> "idle", lot |-> CHOOSE l \in Lots : TRUE, kind |-> "story", id |-> 0]

Init ==
  /\ qr = [l \in Lots |-> NoQR]
  /\ rowLock = [l \in Lots |-> Free]
  /\ rows = [i \in Ids |-> NoRow]
  /\ nextId = 1
  /\ published = {}
  /\ wtx = [w \in Writers |-> IdleTx]
  /\ batch = [r \in Relays |-> << >>]
  /\ sent = [r \in Relays |-> FALSE]
  /\ delivered = [l \in Lots |-> << >>]
  /\ changes = [l \in Lots |-> << >>]

----------------------------------------------------------------------------
relayVars == << published, batch, sent, delivered >>

(* UpsertLotQRTx / RevokeLotQRTx, first statement.  revokeLotQR matches no
   row unless the QR is live and then returns ErrNotFound with no effect. *)
ChangeQR(w) ==
  /\ wtx[w].step = "idle"
  /\ \E lot \in Lots, kind \in QRKinds :
       /\ rowLock[lot] = Free
       /\ kind = "revoked" => qr[lot].live
       /\ rowLock' = [rowLock EXCEPT ![lot] = w]
       /\ wtx' = [wtx EXCEPT ![w] = [step |-> "enqueue", lot |-> lot, kind |-> kind, id |-> 0]]
  /\ UNCHANGED << qr, rows, nextId, changes, relayVars >>

(* copyQRCodes on a replica with SCM_DB_URL: one autocommitted INSERT, which
   waits for an uncommitted row of the lot and does nothing to a committed one;
   SCM may have revoked what it published. *)
ImportQR(lot) ==
  /\ rowLock[lot] = Free
  /\ qr[lot] = NoQR
  /\ \E live \in BOOLEAN : qr' = [qr EXCEPT ![lot] = [token |-> Imported, live |-> live]]
  /\ UNCHANGED << rowLock, rows, nextId, wtx, changes, relayVars >>

(* enqueueOutbox inside the transaction: the id is taken now. *)
Enqueue(w) ==
  /\ wtx[w].step = "enqueue"
  /\ nextId <= MaxId
  /\ nextId' = nextId + 1
  /\ wtx' = [wtx EXCEPT ![w].step = "commit", ![w].id = nextId]
  /\ UNCHANGED << qr, rowLock, rows, changes, relayVars >>

(* EnqueueOutbox (EmitLotStoryUpdated): its own transaction, no row lock. *)
EnqueueStory(w) ==
  /\ wtx[w].step = "idle"
  /\ nextId <= MaxId
  /\ nextId' = nextId + 1
  /\ \E lot \in Lots :
       wtx' = [wtx EXCEPT ![w] = [step |-> "commit", lot |-> lot, kind |-> "story", id |-> nextId]]
  /\ UNCHANGED << qr, rowLock, rows, changes, relayVars >>

Unlock(w) == [l \in Lots |-> IF rowLock[l] = w THEN Free ELSE rowLock[l]]

(* Mutant of NewQR: a publication that finds a row leaves its token alone. *)
NewQRKeepsToken(t) ==
  [token |-> IF qr[t.lot].token = 0 THEN t.id ELSE qr[t.lot].token, live |-> t.kind = "published"]

(* upsertLotQR replaces the token and clears revoked_at, revokeLotQR sets it. *)
NewQR(t) ==
  [token |-> IF t.kind = "published" THEN t.id ELSE qr[t.lot].token, live |-> t.kind = "published"]

Commit(w) ==
  LET t == wtx[w] IN
  /\ t.step = "commit"
  /\ rows' = [rows EXCEPT ![t.id] = [lot |-> t.lot, kind |-> t.kind]]
  /\ IF t.kind = "story"
       THEN UNCHANGED << qr, changes >>
       ELSE /\ qr' = [qr EXCEPT ![t.lot] = NewQR(t)]
            /\ changes' = [changes EXCEPT ![t.lot] = Append(@, t.id)]
  /\ rowLock' = Unlock(w)
  /\ wtx' = [wtx EXCEPT ![w] = IdleTx]
  /\ UNCHANGED << nextId, relayVars >>

(* A failed statement or commit, or a dead process: Rollback. *)
Abort(w) ==
  /\ wtx[w].step # "idle"
  /\ rowLock' = Unlock(w)
  /\ wtx' = [wtx EXCEPT ![w] = IdleTx]
  /\ UNCHANGED << qr, rows, nextId, changes, relayVars >>

----------------------------------------------------------------------------
writerVars == << qr, rowLock, rows, nextId, wtx, changes >>

Unpublished == {i \in Ids : rows[i] # NoRow /\ i \notin published}

(* The n lowest ids of S, in order. *)
Lowest(S, n) ==
  LET low == {i \in S : Cardinality({j \in S : j < i}) < n}
  IN CHOOSE s \in [1..Cardinality(low) -> low] :
       \A a, b \in 1..Cardinality(low) : a < b => s[a] < s[b]

(* Mutant of Fetch: a pass waits for a full batch. *)
FetchFullBatches(r) ==
  /\ batch[r] = << >>
  /\ Cardinality(Unpublished) >= Batch
  /\ batch' = [batch EXCEPT ![r] = Lowest(Unpublished, Batch)]
  /\ UNCHANGED << published, sent, delivered, writerVars >>

(* FetchUnpublishedOutbox at the start of a pass. *)
Fetch(r) ==
  /\ batch[r] = << >>
  /\ Unpublished # {}
  /\ batch' = [batch EXCEPT ![r] = Lowest(Unpublished, Batch)]
  /\ UNCHANGED << published, sent, delivered, writerVars >>

(* A copy of row i reaches the topic; a copy already there is ignored. *)
Deliver(i) ==
  LET lot == rows[i].lot IN
  delivered' = IF \E n \in 1..Len(delivered[lot]) : delivered[lot][n] = i
                 THEN delivered
                 ELSE [delivered EXCEPT ![lot] = Append(@, i)]

(* PublishEnvelope returns nil: the brokers have acknowledged. *)
Publish(r) ==
  /\ batch[r] # << >> /\ ~sent[r]
  /\ Deliver(Head(batch[r]))
  /\ sent' = [sent EXCEPT ![r] = TRUE]
  /\ UNCHANGED << published, batch, writerVars >>

(* MarkOutboxPublished, then the next row of the batch. *)
Mark(r) ==
  /\ batch[r] # << >> /\ sent[r]
  /\ published' = published \cup {Head(batch[r])}
  /\ batch' = [batch EXCEPT ![r] = Tail(@)]
  /\ sent' = [sent EXCEPT ![r] = FALSE]
  /\ UNCHANGED << delivered, writerVars >>

(* Mutant of EndPass: a failed row is skipped and the pass goes on. *)
EndPassSkips(r) ==
  /\ batch[r] # << >> /\ ~sent[r]
  /\ batch' = [batch EXCEPT ![r] = Tail(@)]
  /\ UNCHANGED << published, sent, delivered, writerVars >>

(* The pass ends early: PublishEnvelope fails, perhaps after the message got
   through (MarkOutboxFailed then only counts the attempt), marking fails, or
   the process stops. *)
EndPass(r) ==
  /\ batch[r] # << >>
  /\ \/ UNCHANGED delivered
     \/ ~sent[r] /\ Deliver(Head(batch[r]))
  /\ batch' = [batch EXCEPT ![r] = << >>]
  /\ sent' = [sent EXCEPT ![r] = FALSE]
  /\ UNCHANGED << published, writerVars >>

----------------------------------------------------------------------------
Next ==
  \/ \E w \in Writers : ChangeQR(w) \/ Enqueue(w) \/ EnqueueStory(w) \/ Commit(w) \/ Abort(w)
  \/ \E lot \in Lots : ImportQR(lot)
  \/ \E r \in Relays : Fetch(r) \/ Publish(r) \/ Mark(r) \/ EndPass(r)

Spec == Init /\ [][Next]_vars

(* Run calls drain on every tick; a broker and a database that fail for ever
   are ruled out, failures between successes are not. *)
Fairness ==
  \A r \in Relays : WF_vars(Fetch(r)) /\ SF_vars(Publish(r)) /\ SF_vars(Mark(r))

FairSpec == Spec /\ Fairness

----------------------------------------------------------------------------
(* Type invariant: an outbox row has a lot as its key and one of the three event
   types; the serial never leaves its range. *)
TypeOK ==
  /\ qr \in [Lots -> [token : Tokens, live : BOOLEAN]]
  /\ rowLock \in [Lots -> Writers \cup {Free}]
  /\ rows \in [Ids -> Rows \cup {NoRow}]
  /\ nextId \in 1..(MaxId + 1)
  /\ published \subseteq Ids
  /\ wtx \in [Writers -> [step : {"idle", "enqueue", "commit"}, lot : Lots, kind : Kinds, id : 0..MaxId]]
  /\ batch \in [Relays -> Seq(Ids)]
  /\ sent \in [Relays -> BOOLEAN]
  /\ delivered \in [Lots -> Seq(Ids)]
  /\ changes \in [Lots -> Seq(Ids)]

IsQR(i) == rows[i].kind \in QRKinds

(* Consumers first see a lot's qr_published and qr_revoked events in the order
   in which they happened, without a hole, however many relays drain the same
   rows and wherever they stop: whatever QR event is seen, all that happened
   before it have been, so that the last one seen is never an older state that
   overtook a newer one. *)
QREventsInOrder ==
  \A lot \in Lots : \A n \in 1..Len(delivered[lot]) :
    IsQR(delivered[lot][n]) =>
      \E k \in 1..Len(changes[lot]) :
        /\ changes[lot][k] = delivered[lot][n]
        /\ \A j \in 1..(k - 1) : \E m \in 1..(n - 1) : delivered[lot][m] = changes[lot][j]

IsPublication(i) == rows[i].kind = "published"

(* What a consumer makes of the QR events it has seen: the token of the last
   publication, dark if a revocation came after it. *)
Followed(seen) ==
  LET pubs == {n \in 1..Len(seen) : IsPublication(seen[n])}
      qrs  == {n \in 1..Len(seen) : IsQR(seen[n])}
  IN [token |-> IF pubs = {} THEN 0 ELSE seen[Max(pubs)],
      live  |-> qrs # {} /\ Max(qrs) \in pubs]

(* What of a lot_qr_codes row events have told: of an imported one, nothing. *)
Announced(row) == IF row.token = Imported THEN NoQR ELSE row

(* Once a lot's QR rows are all marked, a consumer that followed the topic has
   the token and the state of the lot_qr_codes row: no event was lost,
   overtaken or made up by a rolled-back publish or revoke.  It knows of no token
   as long as the row is the one imported from SCM, and has the row again when
   a publication has replaced that token. *)
ConsumersConverge ==
  \A lot \in Lots :
    (\A i \in Unpublished : rows[i].lot = lot => ~IsQR(i)) =>
      Announced(qr[lot]) = Followed(delivered[lot])

(* Every committed event is marked in the end, and consumers have it by then: the
   relay forgets nothing that a failure kept from them. *)
EventuallyDelivered ==
  \A i \in Ids : rows[i] # NoRow ~> i \in published /\ Contains(delivered[rows[i].lot], i)
============================================================================
