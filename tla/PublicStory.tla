---------------------------- MODULE PublicStory ----------------------------
(***************************************************************************)
(* The public story of one lot: how a scan composes it and what it makes   *)
(* public (internal/story compose.go).                                     *)
(*                                                                         *)
(* A scan asks SCM for the lot, reads the lot's events and then those of   *)
(* each of its batches, one query after the other while events go on       *)
(* arriving in any order of occurred_at; a query that fails is ignored.    *)
(* Of an event matter its entity, type, source, time, what a lab result    *)
(* says and the farmer it names.                                           *)
(***************************************************************************)
EXTENDS Integers, SequencesExt, TLC

CONSTANTS
  EventKinds,             \* what can be recorded: events without their time
  Ticks,                  \* occurred_at, two of them to a second
  BatchLists,             \* the batch_ids SCM may answer
  LotLimit, BatchLimit,   \* of ListEventsForEntity (100 and 50)
  PlaceholderJourney,     \* story.Options
  MaxEvents               \* bound on recorded events

ASSUME StoryAssumption ==
  /\ {LotLimit, BatchLimit, MaxEvents} \subseteq Nat \ {0}
  /\ PlaceholderJourney \in BOOLEAN
  /\ Ticks \subseteq Nat
  /\ \A batches \in BatchLists : batches \in Seq(ToSet(batches))

Lot == "lot"

(* An event of that kind, which occurred at t. *)
Event(kind, t) ==
  [entity |-> kind.entity, type |-> kind.type, source |-> kind.source,
   result |-> kind.result, farmer |-> kind.farmer, at |-> t]

TraceEvents == {Event(kind, t) : kind \in EventKinds, t \in Ticks}

VARIABLES
  ledger,  \* trace_events of the lot and of every batch
  scan,    \* the scan at work: entities left to list, events read so far;
           \* history: the ledger as it began, whether all queries answered
  shown    \* the story it served, with the scan that composed it (history)

storyVars == << ledger, scan, shown >>

NoScan == [step |-> "idle", left |-> << >>, events |-> << >>, begun |-> {}, whole |-> TRUE, order |-> << >>]
Nothing == [from |-> "nothing", journey |-> << >>, product |-> << >>, farmers |-> {}, scan |-> NoScan]

StoryInit == ledger = {} /\ scan = NoScan /\ shown = Nothing

----------------------------------------------------------------------------
Earlier(e, f) == e.at <= f.at
OfEntity(entity) == {e \in ledger : e.entity = entity}
Limit(entity) == IF entity = Lot THEN LotLimit ELSE BatchLimit

FirstOf(s, n) == SubSeq(s, 1, IF Len(s) < n THEN Len(s) ELSE n)

(* Mutant of ListEventsForEntity: newest first, as the ledger page has it. *)
ListNewestFirst(entity) ==
  {FirstOf(Reverse(s), Limit(entity)) : s \in {l \in SetToSeqs(OfEntity(entity)) : IsSorted(l, Earlier)}}

(* ListEvents of one entity: ORDER BY occurred_at ASC (ties in any order) LIMIT. *)
ListEventsForEntity(entity) ==
  {FirstOf(s, Limit(entity)) : s \in {l \in SetToSeqs(OfEntity(entity)) : IsSorted(l, Earlier)}}

(* The key composeJourney dedupes by: the type and the second. *)
Key(e) == << e.type, e.at \div 2 >>

(* journeyStage, for the types the model has. *)
journeyStage(type) ==
  CASE type = "LAB_RESULT_RECORDED" -> "Lab"
    [] type = "WET_MILL_COMPLETE" -> "Wet mill"
    [] type = "LOT_ASSEMBLED" -> "Export"
    [] OTHER -> type

Step(e) == [stage |-> journeyStage(e.type), key |-> Key(e), source |-> e.source]

(* The steps shown when there are none; they have no occurred_at. *)
defaultJourney ==
  << [stage |-> "Farm", source |-> "scm"], [stage |-> "Wet mill", source |-> "mes"],
     [stage |-> "Lab", source |-> "qc"], [stage |-> "Export", source |-> "scm"] >>

(* composeJourney's loop: the first event of a key makes the step. *)
AddStep(steps, e) ==
  IF \E n \in DOMAIN steps : steps[n].key = Key(e) THEN steps ELSE Append(steps, Step(e))
Steps(events) == FoldLeft(AddStep, << >>, events)

(* sort.Slice is not stable: any order by time. *)
composeJourney(events) ==
  {j \in SetToSeqs(ToSet(Steps(events))) : IsSorted(j, LAMBDA a, b : a.key[2] <= b.key[2])}

(* The product with the fields of a lab result put over its own. *)
Overwritten(product, result) ==
  [f \in DOMAIN result \cup DOMAIN product |-> IF f \in DOMAIN result THEN result[f] ELSE product[f]]

(* enrichProductFromEvents: every lab result overwrites the fields it has. *)
AddResult(product, e) == IF e.type = "LAB_RESULT_RECORDED" THEN Overwritten(product, e.result) ELSE product
enrichProductFromEvents(events) == FoldLeft(AddResult, << >>, events)

(* enrichFarmersFromProjections: one entry for each farmer an event names. *)
enrichFarmersFromProjections(events) == UNION {e.farmer : e \in ToSet(events)}

----------------------------------------------------------------------------
(* AppendEvent, by any path and in any order of occurred_at. *)
RecordEvent ==
  /\ Cardinality(ledger) < MaxEvents
  /\ \E e \in TraceEvents \ ledger : ledger' = ledger \cup {e}
  /\ UNCHANGED << scan, shown >>

(* GetQRPreview answers: its JSON is the story, and its journey, not the type
   resolvePublicQR looks for, is not copied beside it. *)
ServePreview ==
  /\ scan = NoScan
  /\ shown' = [Nothing EXCEPT !.from = "preview"]
  /\ UNCHANGED << ledger, scan >>

(* No preview: the batches come from GetExportLot, and there are none when SCM
   is down or not configured. *)
BeginCompose ==
  /\ scan = NoScan
  /\ \E batches \in BatchLists \cup {<< >>} :
       scan' = [NoScan EXCEPT !.step = "list", !.left = << Lot >> \o batches,
                              !.begun = ledger, !.order = << Lot >> \o batches]
  /\ shown' = Nothing
  /\ UNCHANGED ledger

(* Mutant of Merged: a lot with events of its own is not asked for its batches'. *)
MergedLotOnly(events, more) == IF events # << >> THEN events ELSE more

(* Each of batchEv is appended unless it is there already (seenEvent). *)
AppendNew(all, e) == IF e \in ToSet(all) THEN all ELSE Append(all, e)
Merged(events, more) == FoldLeft(AppendNew, events, more)

(* events, _ := ListEventsForEntity: after an error, the rows read up to it. *)
ListNext ==
  /\ scan.left # << >>
  /\ \E rows \in ListEventsForEntity(Head(scan.left)) :
       \E n \in 0..Len(rows), failed \in BOOLEAN :
         /\ ~failed => n = Len(rows)
         /\ scan' = [scan EXCEPT !.left = Tail(@), !.events = Merged(@, FirstOf(rows, n)),
                                 !.whole = @ /\ ~failed]
  /\ UNCHANGED << ledger, shown >>

(* composeLotProjection's result. *)
Compose ==
  /\ scan.step = "list" /\ scan.left = << >>
  /\ \E journey \in composeJourney(scan.events) :
       shown' = [from    |-> "events",
                 journey |-> IF journey = << >> /\ PlaceholderJourney THEN defaultJourney ELSE journey,
                 product |-> enrichProductFromEvents(scan.events),
                 farmers |-> enrichFarmersFromProjections(scan.events),
                 scan    |-> scan]
  /\ scan' = NoScan
  /\ UNCHANGED ledger

StoryNext == RecordEvent \/ ServePreview \/ BeginCompose \/ ListNext \/ Compose

StorySpec == StoryInit /\ [][StoryNext]_storyVars

----------------------------------------------------------------------------
(* The events a scan that met no error is sure to have read: recorded before it
   began, of an entity it listed that did not outgrow the query's LIMIT. *)
Sure(s) ==
  {e \in s.begun : e.entity \in ToSet(s.order) /\ Cardinality(OfEntity(e.entity)) <= Limit(e.entity)}

(* The steps shown that are not placeholders. *)
OwnSteps(journey) == IF PlaceholderJourney /\ journey = defaultJourney THEN << >> ELSE journey

(* What a scan shows of the journey is in time order, has one step for a type
   and second, and each step is a recorded event's; unless a query failed,
   every event that had been recorded has its step and its farmer, so that the
   placeholder stands for no event.  A failed query leaves holes and nothing
   else. *)
JourneyIsLedger ==
  shown.from = "events" =>
    LET j == OwnSteps(shown.journey) IN
    /\ IsSorted(j, LAMBDA a, b : a.key[2] <= b.key[2] /\ a.key # b.key)
    /\ \A n \in DOMAIN j : \E e \in ledger : j[n] = Step(e)
    /\ shown.scan.whole => \A e \in Sure(shown.scan) :
         e.farmer \subseteq shown.farmers /\ \E n \in DOMAIN j : j[n].key = Key(e)

Position(order, entity) == SelectInSeq(order, LAMBDA x : x = entity)
Carries(e, f) == e.type = "LAB_RESULT_RECORDED" /\ f \in DOMAIN e.result

(* Of what a scan reads, d replaces e: a later result for the same entity, or
   one for a batch further down the lot's list. *)
Replaces(order, d, e) ==
  \/ Position(order, d.entity) > Position(order, e.entity)
  \/ d.entity = e.entity /\ d.at > e.at

(* A lab result is not hidden by an older one of its batch, whichever arrived
   first: each product field is the value of a recorded result that no result
   recorded before the scan replaces, as long as the lot lists a batch once,
   and no field of those is missing. *)
ProductIsLatest ==
  shown.from = "events" /\ shown.scan.whole =>
    /\ \A f \in DOMAIN shown.product : \E e \in ledger :
         /\ Carries(e, f) /\ e.result[f] = shown.product[f]
         /\ IsInjective(shown.scan.order) =>
              ~\E d \in Sure(shown.scan) : Carries(d, f) /\ Replaces(shown.scan.order, d, e)
    /\ \A e \in Sure(shown.scan) :
         e.type = "LAB_RESULT_RECORDED" => DOMAIN e.result \subseteq DOMAIN shown.product
============================================================================
