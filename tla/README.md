# iag-traceability: TLA+ models, checks and proofs

TLA+ modules for the parts of iag-traceability whose correctness depends on
interleavings, failures or ordering; TLC configurations that check them on small
instances; and TLAPS proofs of the central safety properties for every instance.
Paths below are relative to the repository (`src/`).

## 1. The system

The service owns the custody ledger of the IAG supply chain and the public QR
pages of export lots. Any number of replicas run side by side over one
PostgreSQL database; Kafka and Redis are optional neighbours; SCM is the older
system the data comes from.

| component | state | operations |
|---|---|---|
| custody ledger and hash chain (`internal/store/{store,chain}.go`, `internal/hashchain`) | `trace_events`, `custody_chain`, each replica's `CHAIN_ENABLED` | AppendEvent with and without the chain, VerifyChain |
| chain backfill (`cmd/chain-backfill`) | one transaction | chain all batch events that have no block |
| Merkle tree, anchoring (`internal/merkle`, `internal/anchor`, `store/anchor.go`) | `anchor_batches` | CreateAnchor, Proof, the job loop |
| outbox and relay (`store/outbox.go`, `internal/kafkabus`) | `event_outbox` | enqueue in the QR transactions, drain to Kafka |
| public QR and cache (`internal/handlers`, `internal/cache`, `internal/story`) | `lot_qr_codes`, Redis entries | publish, revoke, edit, import, scan |
| story overrides (`store/qr_register.go`, `internal/story`) | `lot_story_overrides`, its audit, `lot_story_projections` | SetStoryOverride, recompose and store, a scan's reads |
| story composition and redaction (`internal/story/compose.go`) | none of its own | list and merge events, journey, product, farmers; redact |
| Kafka consumer (`internal/consumer`) | `kafka_dedupe`, dead letters, `entity_projections`, group offset | fetch, dedupe, project, mark, commit |
| SCM sync (`internal/scmsync`, `cmd/migrate-scm`) | `scm_sync_state`, tick counters | tick, full rescan, page, mark |
| schema migration (`internal/migrate`) | `schema_migrations` | Up at start-up |
| compliance gate and alerts (`handlers.go`, `story/compliance.go`, `scmclient`, `notify`) | the alert throttle, in memory | decide a publication, alert once in a window |
| rate limiter (`middleware/ratelimit.go`) | buckets by client, in memory | serve or refuse, drop idle buckets |
| authentication (`cmd/server/main.go`, `authclient`, `middleware/platform_auth.go`) | the key set, in memory | fetch at boot, refresh, verify |
| audit log, listings, configuration, metrics | see section 7 | |

How they interact: RecordEvent requests, the consumer and the SCM sync all end in
AppendEvent, and then refresh the lot's story (`story.AfterAppend`). Publishing
and revoking a QR write the QR row and an outbox row in one transaction; the
relays of all replicas deliver outbox rows; the cache in front of scans is cleared
after the transaction. Anchoring reads the chain that appends and backfills grow.

What is hard: the read-modify-write of the chain head under concurrency and
rollback; cutting over to the chain while old replicas still run; statements of
CreateAnchor with no transaction around them; relays that repeat each other; cache
fills that overtake deletes; row locks on rows that do not exist; at-least-once
delivery with a dedupe that is not atomic with the work; a high-water mark over
rows that commit out of order; replicas that migrate at the same time; a throttle
that is used up before the alert is out; keys that rotate behind a refresh loop;
buckets that are dropped while their clients still pay; a public document put
together from several queries while events arrive out of order.
`PROJECT.json` lists these hazards at their lines with the properties that watch
them.

## 2. Modules

| module | models | extends |
|---|---|---|
| `CustodyLedger` | rows, blocks, EventHash, VerifyChain, backfill order as operators | |
| `CustodyLog` | what the ledger promises: every append and backfill in one step | `CustodyLedger` |
| `CustodyChain` | AppendEvent and chain-backfill, statement by statement | `CustodyLedger`, instance of `CustodyLog` |
| `CustodyChain_proofs` | theorems | `CustodyChain`, TLAPS |
| `Merkle` | Root, Proof, VerifyProof | |
| `Anchoring` | CreateAnchor, job loop, Service.Proof | `Merkle` |
| `Anchoring_proofs` | theorems about anchoring and the Merkle tree | `MCAnchoring`, TLAPS |
| `Outbox` | QR transactions, outbox rows, relays, Kafka | |
| `Outbox_proofs` | theorems | `Outbox`, TLAPS |
| `QrLifecycle` | one lot's QR, its tokens and the cache | |
| `QrLifecycle_proofs` | theorems | `QrLifecycle`, TLAPS |
| `StoryOverride` | edits against recomposition and scans, one lot | |
| `PublicStory` | how a scan lists events and composes a lot's story | |
| `Redaction` | what the public story withholds | |
| `Story_proofs` | theorems about `StoryOverride`, `PublicStory` and `Redaction`, which share no state | these three, TLAPS |
| `Consumer` | one partition, a consumer group with zombies | |
| `Consumer_proofs` | theorems | `Consumer`, TLAPS |
| `ScmSync` | the sync loops of all replicas and the one-shot `cmd/migrate-scm` | |
| `ScmSync_proofs` | theorems | `ScmSync`, TLAPS |
| `Migrate` | replicas of several releases booting | |
| `TokenBucket` | what the rate limit promises: a bucket for each client, for ever | |
| `RateLimiter` | the map of buckets and its sweep | instance of `TokenBucket` |
| `Jwks` | boot, refresh loop, rotation and outages of the auth service | |
| `PublishGate` | the compliance gate and its alert, one replica | |
| `Replica_proofs` | theorems about `RateLimiter`, `Jwks`, `PublishGate` and `Migrate`, which share no state | `RateLimiter`, `Jwks`, `PublishGate`, `Migrate`, TLAPS |
| `MC*` | values for TLC; `MCAnchoring` also has `RootCommits`, which quantifies over altered chains; `MCStory` composes `StoryOverride`, `PublicStory` and `Redaction`, `MCReplica` the migration at start-up and the three in-memory parts of a replica | |

Components that interact are composed where they share state: appenders and backfills
in `CustodyChain`, writers and relays in `Outbox`, staff requests, scans and the
cache in `QrLifecycle`, patches, composers and scans in `StoryOverride`. `MCStory`
and `MCReplica` put side by side parts that share no variable; there a behaviour is
one part at work while the others rest, which loses no behaviour of any of them.

Conventions. A transaction's uncommitted writes are in a record of the process
that runs it; commit moves them to the tables, abort drops them. Statements of
READ COMMITTED transactions are separate steps wherever another process could come
between. A failing statement, a cancelled context and a dead process are one
action, because all three roll back. A definition named "Mutant of X" is a
plausible bug in X; nothing but the mutation checks uses it.

Abstractions that matter:

* *Payloads* (`CustodyLedger`). `Canon` is what a JSONB column does to a payload
  (`-0` becomes `0`). Business id, event type and actor are stored unchanged and
  are part of the payload. Only "is it a batch" is kept of an entity type.
* *Hashes*. SHA-256 is injective: a hash is the tuple of what it covers.
* *The chain in `Anchoring`* is its length. `CustodyLog` lets the chain only grow, and
  `CustodyChain` implements it (`ImplementsLog`).
* *Tokens*. A publication's token is the id of its outbox row in `Outbox`, a model
  value that is drawn once in `QrLifecycle`. SCM's token for a lot is the value
  `Imported` in `Outbox`; the import (`scmsync.go:347`) inserts the lot's row, live or
  revoked, when there is none, and no event, so `ConsumersConverge` says of an
  imported row that followers know of no token.
* *Event ids* (`Consumer`). `IdOf` maps an event to what `handleMessage` tells it by: the
  envelope's id or, without one, the Kafka key or the first 128 bytes
  (`consumer.go:100-109`), which other events share. Of events that share one, only the
  first that is handled is recorded, and the properties speak of events with an id
  of their own; the run has both sorts. Envelopes of the platform library always have
  an id. The append under an idempotency key is one step here; its statements and
  their races are `CustodyChain`'s.
* *Business ids* (`ScmSync`). SCM may give a row's entity its business id after a run has
  skipped the row (`Resolve`). That one is taken away again is left out.
* *The compliance gate* (`PublishGate`). SCM decides at one moment (`Decide`) and its
  answer arrives, or not, at a later one; any other answer may come in its place or
  without SCM having been asked. What scmclient tells apart is kept: below 400, 422,
  5xx, the rest, error texts that name a timeout, broken-off connections, silence.
* *Kafka*. One key's messages stay in order; a consumer drops an envelope id it
  has seen, so a topic is each lot's first deliveries. The relay's branch for a row
  it cannot decode is left out: no writer in this code can store such a row.
* *Time* exists only as order (a TTL may run out at any moment, a tick may come at
  any moment) except in `RateLimiter`, `Jwks` and `PublishGate`, where it passes in
  units and ages stop counting where they are no longer told apart.
* *Public documents*. In `Redaction` a JSON value is tagged and a coordinate is in
  thousandths of a degree; one key stands for each list of keys. `PublicStory` keeps
  an event's entity, type, source, time, lab values and farmer; two times make a
  second, because the journey dedupes by the second. Projections and previews are
  constants, any documents that are nested less deep than `MaxDepth`; the bound
  gives the recursion a domain, and encoding/json has one, too (10,000). `PreciseGeo`
  is off in the run, as it is in production; `PlaceholderJourney` is on, which is the
  harder case of the two. The theorems are about both values of both.
* *L3 providers*. The only one besides "none" answers ErrNotImplemented, which
  leaves an L2 anchor.
* *History variables* (`Outbox.changes`, `StoryOverride.asOf`,
  `Consumer.failed`, `ScmSync.behind`, `CustodyChain.sealed`, `QrLifecycle.named`,
  `Jwks.calm`, `PublishGate.raises`, `told`, `lost` and `blocked`, and the fields of
  `PublicStory.scan`, `StoryOverride.view`, `Consumer.work` and `PublishGate.request`
  marked as history) are read by properties only.

## 3. Runs that pass

Counts are distinct states. Deadlock is checked in `custody_chain`, `anchoring`,
`qr_lifecycle` and `scm_sync`; the other models stop when their bounds are
used up. `TypeOK` is an invariant of the `custody_chain` run; the type invariants
of the other modules hold on the instances below too; the proofs of section 5
include each of them in their inductive invariants.

| run | instance | states | shows |
|---|---|---|---|
| `custody_chain` | 2 appenders, 1 backfill, 3 events, 1 key, 2 times, 2 payloads | 326,985 | `ChainLinked`: numbering without gaps and correct links; `HeadStaysCurrent`: the head that was read is the head at commit; `BlocksMatchEvents`; `CutoverComplete`: an event without a block was appended by a replica with the chain off, and after a backfill with the chain on everywhere nothing is missing, ever; `OnlyNormalisedFlagged`: VerifyChain finds no broken link and blames nothing but normalised payloads; `ImplementsLog`: the transactions refine the atomic `CustodyLog` |
| `anchoring` | 2 CreateAnchor calls, 5 blocks | 21,314 | `NoBlockSkipped`, `AnchorsRecompute`, `EveryProofVerifies`; `RootCommits` over all runs of up to 5 different blocks; `EveryBlockAnchored` (liveness) |
| `outbox` | 1 lot, 2 writers, 2 relays, 3 rows, batches of 2, an import | 183,635 | `QREventsInOrder`; `ConsumersConverge`: whoever follows the events ends up with the lot's token and state, unless the row is the imported one, of which no event tells; `EventuallyDelivered` (liveness): delivered and marked |
| `qr_lifecycle` | 2 tokens, 2 staff requests, 2 scans, 1 edit, failing Redis | 143,986 | `NamedIsNotLive`: a token that a revocation event names never answers again, even when the event names one that was replaced meanwhile; `DarkStaysDark`; `RetiredGoesDark`, `EditsReachTheCache` (liveness) |
| `story` | 2 patches at a time, 3 in all, 1 composer, 1 scan, 1 text; 3 events of 5 kinds at 3 times, 2 batches in either order or one of them twice, limits of 2; documents with every mix of 7 keys | 4,538,539 | `ReadRowStays`; `ScanIsCurrent`: a scan shows each story field as it was at some moment of the scan; `JourneyIsLedger`: the journey is sorted, without repeats, made of recorded events, and complete unless a query failed or a limit was hit; `ProductIsLatest`: no lab result is hidden by an older one of a batch that is listed once; `RedactionSafe` |
| `consumer` | 2 replicas, 3 messages of 3 kinds with repeats, two of the events with one id, 2 assignments, 1 failure | 431,249 | `SkippedIsRecorded`: neither a dedupe mark nor the offset hides an event with an id of its own that is not recorded and did not fail; `EntityGoesForward`; `RecordedOrFailed` (liveness) |
| `scm_sync` | 2 replicas, 3 rows (one whose business id comes later or never, one perhaps refused for ever), pages of 1, cap 2, 1 failure | 375,692 | `NothingPassedOver`; `EventuallyCopied`, `RescanFindsLateRows` (liveness) |
| `replica` | 3 replicas, releases of 1, 2 and 3 files, 2 chunks each, 2 failures; 3 clients, room for 1 bucket, burst 3; 2 keys, 3 attempts, intervals 2 and 5; 2 requests, a window of 2 | 101,310 | `SchemaMatchesRecord`, `ServesMigrated`; `EveryReplicaServes` (liveness); `LimiterKeepsPromise`: the limiter refines `TokenBucket`; `KeysConverge`: after an outage, a rotation or a restart the replica has keys within the degraded interval and two fetches, and the right ones within the steady interval and two fetches; `MintedOnVerdict`: an outage, a late verdict and an error never open the gate, only a verdict and an answer below 400 that nobody read do; `AlertThrottled`; `DeskIsTold`, for a replica that has a notifier |

Why the bounds are enough to be interesting. Two processes and a backfill give
every pairwise race for the chain head; three events let a block have a
predecessor and a successor. Five leaves are the smallest tree with an odd node on
two levels. Two relays and two writers give duplicate fetches, ids that commit out
of order and a relay that stops half way through a batch. Two tokens give
revoke/republish races. Three patches and one text give a field that is set, cleared
and set again, so that an old value can come back; the theorems are about any number
of texts. Three messages let a repeated event straddle another
one. Three rows with a cap of two give a run of several pages, a late row and
a mark between them. Two lab results of one batch and one of another, with
and without a common field, arrive in every order of their times, one second apart
or in the same one. Two limits of 2 let an entity outgrow its query. Three clients
over a map of one make every request sweep; an idle time of 2 refills a burst of 3 just
in time. The JWKS intervals keep the order of the real ones (a boot
pause, then the degraded, then the steady interval). `MaxFails`, `MaxFailures`, `MaxMoves` bound only failures that
the code survives by doing the same thing again.

Fairness. Weak fairness says that a goroutine that can take its next step does,
that the anchor job, the relay and the sync loop tick for ever, that the
platform restarts a process that exits and that a TTL runs out. Strong fairness is
used where a step is tried for ever and must not fail every time (the
statements of an anchor job, the relay's publish and mark), and for the migration
lock, whose waiters PostgreSQL serves in order. The consumer's liveness needs
nothing about success: an event is recorded or its handling fails. `Jwks` needs no
fairness: what is due happens before time passes, and `KeysConverge` is a bound on
time.

## 4. Runs that violate what the repository says

| run | what happens | what the text says |
|---|---|---|
| `story_override_omitted` | Two first edits both find no row to lock; the second upsert clears the field it omitted. | handlers/qr_register.go:85 "omitted = unchanged" |
| `consumer_retry` | After a failed message the loop goes on, and the next commit moves the group's offset past it. | consumer.go:113 "a projection failure (which doesn't commit the Kafka offset)" |
| `replica_alert` | main.go:194 builds the API without the notifier it made at line 134; publications are refused with 503 and nobody is told. | handlers.go:253 "Tell the ops desk, throttled" |
| `replica_gate` | scmclient takes every status below 400 for the verdict and does not read the body (`client.go:144-147`): the page of a proxy, or of a redirect that was followed, mints a QR for a lot that SCM never found compliant. | compliance.go:11 "ValidateLotPublish blocks QR publish using SCM compliance gate when configured" |

Each has a property that does hold in a passing run: `ReadRowStays`,
`SkippedIsRecorded`, `DeskIsTold` with a notifier, `MintedOnVerdict`.

More deviations showed up while modelling and have no run of their own:

* A payload that holds `-0` is hashed as sent and stored as `0` (`store/chain.go:97`);
  VerifyChain then reports a chain nobody touched, where README.md:231 says it "should
  return `isValid: true`". `OnlyNormalisedFlagged` says that this is the only way.
* A scan read the live row, the revocation committed and deleted the cache key, the
  scan filled the cache (`cache/json_cache.go:47`): the token is served until the
  entry expires (5 minutes by default), where README.md:164 says "The token then 404s"
  and handlers.go:353 "within a minute". `RetiredGoesDark` says that it ends.
* Two CreateAnchor calls that read the same last anchored number and different heads
  both insert, with overlapping ranges, where `anchor/service.go:42` says that the
  losing insert fails. `EveryProofVerifies` and `AnchorsRecompute` hold regardless.
* A composer that read an override before it was cleared can store it in the
  fallback afterwards (`story/compose.go:77-79` says no stale value lingers).
  `ScanIsCurrent` says that this is the only way a scan gets to show one.
* When the re-read window holds as many rows as `MaxPerTick`, an incremental sync
  tick ends before any new row (`scmsync.go:185`); new rows wait for a full rescan,
  where README.md:188 says "the next tick". The run's cap exceeds its window.
* A full sync tick that finds the lock taken is counted all the same
  (`scmsync.go:102`), so replicas can rob each other of full rescans;
  `RescanFindsLateRows` assumes that they do not do so for ever.
* A row whose append is refused every time holds up every row behind its page
  (`scmsync.go:332`); `EventuallyCopied` says that it holds up no other.
* A replica that lost its partition in the middle of a message overwrites an entity's
  newer payload (`consumer.go:211`); `EntityGoesForward` excepts it.
* The compliance gate answers 422 COMPLIANCE_FAILED, as if the lot had failed, when
  SCM says 401, 403 or 404, when a connection breaks off and when the local query fails
  (`story/compliance.go:15-25`); the other way round, any error text with "timeout" in
  it, a 4xx page included, is answered 503. All of them refuse the publication
  (`MintedOnVerdict`).
* The gate's verdict is not looked at again at the mint (`handlers.go:271`): a lot that
  loses compliance in between is published. `MintedOnVerdict` bounds that by the
  request.
* A revocation reads the token before its transaction (`handlers.go:297-304`). When a
  publication comes in between, the newer token is revoked and the event names the
  older one; both are dark then (`NamedIsNotLive`), and the event's token is not the
  one that went dark.
* A QR imported from SCM (`scmsync.go:374`) is announced by no event: who follows the
  topic does not know its token until the lot is published again
  (`ConsumersConverge`).
* Events without an id that share a Kafka key are taken for one (`consumer.go:100-105`);
  only the first is recorded.
* A client that gives up while the gate is slow cancels the alert's publication, too,
  and the window is used up (`handlers.go:258`); `DeskIsTold` excepts a lost alert.
* An entity's events are listed oldest first with a limit of 100 and 50
  (`compose.go:122-134`): once there are more, it is the newest that are missing.
  Across batches the last one in the lot's list wins (`ProductIsLatest` says so).
* A batch that SCM lists twice is queried twice (`compose.go:133`), and the second time
  only ids that were read before are dropped. An older lab result that arrives between
  the two is put behind the newer one and wins. The run has such a list;
  `ProductIsLatest` says nothing of it but that no field is missing.
* SCM down or a failed query makes a story that silently lacks data
  (`JourneyIsLedger` says that nothing else is wrong with it), and a composer may store it
  over a richer projection.
* The journey of SCM's preview is a `[]any`, which `story.go:88` does not look for, so
  the payload's own journey stays null.
* Terms of sale are stripped from SCM's preview only, and a "map" that comes with
  an entity, or data nested below its top level, is passed on as it is.

## 5. Proofs

TLAPS checks the following for any number of processes, events, keys, payloads and
blocks.

`CustodyChain_proofs`. Assumptions: `Canon` is idempotent, times are naturals, the
null values are no real values, a process is not both an appender and a backfill,
and event ids and appenders are finite sets (fresh ids are counted against the
calls under way). The inductive invariant `IndInv` adds to `TypeOK`, `ChainLinked`
and `BlocksMatchEvents`:

* `Mutex` - exactly the lock's holder is past the lock statement;
* `Roles` - which statements an appender or a backfill can be at;
* `CallsOK` - a chained call is about a batch, and its row is nobody's until it
  commits;
* `StagedOK` - the head a transaction read and the blocks it has staged continue
  the committed chain, and a backfill's blocks copy different, committed,
  unchained events;
* `RowsCanonical` - a stored payload is the normal form of what was sent.

None of the properties is inductive alone: that a commit keeps the chain linked
needs the staged blocks to continue *the chain as it is now*, which needs the lock
to have kept everyone else away since the head was read. `Inductive` proves
`Spec => []IndInv` action by action; `TypeCorrect`, `ChainStaysLinked`,
`BlocksAreEvents` and `HeadIsCurrent` follow.

`Anchoring_proofs`. Assumption: `MaxSeq` is a natural. `IndInv` adds `LocalsOK`:
what a CreateAnchor has read remains true of tables that only grow (its head is in
the chain, its `last` is 0 or the end of an anchor, its root is the root of that
range). `NothingSkipped` and `RootsReproducible` follow: a stale `last` gives
overlapping ranges, never a hole. So far `Merkle!Root` is opaque.

The rest of the module opens it, for any number of leaves. The levels of the tree shrink
until one node is left (`LevelSizes`, `HeightExists`). `ProofsVerify`: what folding a
proof has reached after n steps is the leaf's ancestor on level n, because each entry
is the sibling, or the node itself where the odd one is duplicated
(`SiblingGivesParent`). `RootsDiffer`: nodes of one level are different if the leaves
are (`NextLevelDistinct`), so an odd node hashed with itself cannot be mistaken for
a pair, a level can be read off the one above (`NextLevelDetermines`), and two trees
with the same root have the same levels from the top down (`LowerTreeSame`), which end
together because a leaf's hash is no node's. That leaves are different is event_hash
UNIQUE; without it duplicating the odd node does let roots collide. Hashes are
injective in the model. `AnchoredBlocksVerify` and `RootsCommit` follow with `IndInv`,
for anchors that overlap in any way.

The second invariant of `CustodyChain_proofs`, `FullInv`, adds what `IndInv` does not
say: only plain rows lack a block (`PlainOnly`), what each block's hash covers
(`HashesOK`), that a sealed ledger is complete and every replica has the chain on
(`SealOK`), and what a transaction under way knows: its event's key is still free
(`KeysOK`), a backfill goes from old to new (`OrdersOK`) and, if it is to be the
cutover, has a block or a place in its list for every event without one (`CoversOK`,
`EnabledOK`). `CutoverIsComplete` and `OnlyNormalisedBlamed` follow, and
`ChainImplementsLog`, the refinement: a plain append is `Record`, the commit of
a chained one `RecordAndChain`, the commit of a backfill `Backfill`, every other step a
stutter. `KeysOK` and `OrdersOK` are there for the refinement only.

`Outbox_proofs`. Assumptions: a positive batch size, at least one lot, and marks that
are no values. The argument goes from the row lock to the topic. A lot's QR transactions
exclude each other and take their id under the lock, so ids grow in the order of commit
(`SerialOK`, `LockOK`, `ChangesOK`); a pass fetches the lowest unpublished ids, so
whatever QR row precedes a fetched one is in front of it in the batch or has
arrived (`BatchOK`, with lemma `LowestIsSorted` on the fetch); a pass that
fails gives up its whole batch and steps over nothing, so rows arrive in the order of
their ids (`OrderOK`), each once, and what is marked has arrived (`TopicOK`).
`QREventsStayInOrder` follows. With `QROK`, which says that the `lot_qr_codes` row is
what the committed events amount to or one that was imported before any of them, so
does `ConsumersAgree`. Two definitions were
restated for the proof, equivalently (TLC compared old and new on every state of the
run): `QREventsInOrder` and `Followed` speak of positions instead of filtered
sequences, about which the provers know nothing.

`QrLifecycle_proofs`. `NamedIsNotLive` is not inductive: a publication that has drawn a
token and not written it could still bring a named one to life. `TokenInv` says
that no publication has left to write what is in the row, named or about to be named.
`NamedTokensAreNotLive` follows; `DarkTokensStayDark` is proved step by step from the
types alone.

`Story_proofs` holds three independent proofs.

* Overrides. `ReadRowStays` needs only that a patch that wrote without getting the row
  is one that clears what is not there (`LockInv`). The row of the projection has a
  lock of its own, from the patch's mirror statement to its commit. `ScansAreCurrent`
  needs versions: what was composed or stored since the last edit shows that edit
  (`FreshInv`), and a scan's own record contains the override of this moment
  (`ViewInv`).
* Composition. Assumptions: positive limits, times that are naturals, batch lists that
  are sequences, which may repeat a batch. `ReadInv` relates what a scan has read to a
  ledger that grows under it: it has asked for a prefix of its list and holds, unless a
  query failed, every event it is sure to read of that prefix; when no entity is listed
  twice, no event stands before one it replaces. The three loops are followed one
  iteration after the other (`MergedHas`, `StepsHas`, `ProductHas`), and a sorted
  journey is any arrangement of the steps in time order (`JourneyHas`). The placeholder
  stands for no event (`PlaceholderStandsForNone`): steps of the ledger have a time, its
  own have none. `JourneyShowsLedger` and `ProductShowsLatest` follow. The proof of the
  second failed for lists that repeat a batch, TLC found the behaviour, and section 4
  has it.
* Redaction. Assumptions: documents are objects within `MaxDepth` whose numbers are
  numbers. `RoundingIsCoarse` is the arithmetic of `round2` on both sides of zero;
  `EntityIsRedacted` follows the two halves of sanitizePublicGeo and the sweep. What is
  nested in a document is the least set closed under children (`WithinCloses`,
  `WithinIsLeast`), so a set that is clean and closed and holds the public document has
  all of it: `PreviewIsClean` gives that set, and no term of sale is left at any
  depth. `RedactionIsSafe` follows.

`Consumer_proofs`. `RowInv`: the row is there before anything that lets the event be
skipped, namely its mark, and the steps of its handler after the append. `OffsetInv`: a
replica reads in order, so that everything before its message or its position is
done or failed, whoever did it; a rebalance goes back to the committed offset, for
which the same holds. `NothingSkippedUnrecorded` follows; the first event under an
id keeps its row, so that nothing is said of the others. For `EntityNeverGoesBack` a
second invariant, `EntityInv`, says that a handler that is not stale is the owner's,
and that what it projects for the first time stands after everything projected.

`ScmSync_proofs`. A run works with a mark it read earlier and writes it back without
looking, perhaps after its lock was lost, so `SyncInv` speaks of every run's own mark
and cursor and not of the stored mark alone. The first attempt failed for a good
reason: with a window of 2, pages of 1 and four rows, a row that SCM commits behind
the mark a run has *reached* but not stored was in nobody's account. Such a row is late
in the sense of the re-read window, and `behind` now counts it; the code is
unchanged by that, as `behind` is a history variable. A row that gets its business id
behind a run counts the same way: no page will show it to that run again.

`Replica_proofs` holds four independent proofs.

* Rate limiter. Assumption: `LimiterAssumption`, naturals with a positive burst and rate,
  and an hour that refills a bucket (`Burst <= Rate * (Hour + 1)`). `LimiterInv` says
  that idle time has been paid for: a bucket is full, or has gained `Rate` tokens for each
  unit since its client's last request. So (`ExpiredIsFull`) the sweep only drops
  full buckets, and a client without one gets a full one: the level `TokenBucket` sees
  does not change. `LimiterImplementsBuckets` is the refinement. Without the assumption
  it is false, and the map's size plays no part in it.
* Compliance gate. `GateOpensOnVerdict` from `VerdictInv`: a verdict that is on its way
  was true at some moment of the request, which the history field `ok` remembers.
  `OneAlertPerWindow` from `ThrottleInv`.
* Key set. `KeysArriveInTime` bounds time: `calm` since the last disturbance is never
  older than a fetch that failed or was stale, the pause it set and the fetch after that
  (`CalmInv`, from `FetchInv` and `PauseInv`). Assumption: the longest boot pause
  is no longer than the degraded interval and that no longer than the steady one, as in
  main.go.
* Migration. `TxInv`: a replica past the lock continues the script exactly where the
  database left it, its uncommitted statements and notes included. `MigratedExactly`
  and `ServingIsMigrated` follow for any set of releases.

Induction. The library's induction theorems take an operator, which the provers cannot
instantiate. Here an induction is about the *set* of the numbers that satisfy
what is being proved: `LeastExists` comes from the library's well-foundedness of the
naturals, `SetInduction` and `BoundedInduction` from that. Recursive functions and
folds get their unfolding the same way (`LevelsRecurse`, `FoldExists`,
`StripRecurses`): there is a function that satisfies the recursion, and CHOOSE finds
one. Some operators were written as recursive functions or as folds over a named
step for that reason; what they compute is the same.

The inductive invariants were checked with TLC on the runs' instances where a
proof attempt left doubt, before they were proved.

## 6. Only model-checked

* Liveness: `EveryBlockAnchored`, `EventuallyDelivered`, `RetiredGoesDark`,
  `EditsReachTheCache`, `RecordedOrFailed`, `EventuallyCopied`, `RescanFindsLateRows`,
  `EveryReplicaServes`. Liveness under fairness is outside what the prover can do.
* `DeskIsTold`, on a replica with a notifier. main.go sets none, so there is no service
  a theorem would speak of (section 4).

The other invariants and action properties of the passing runs are theorems, too, and
so are both refinements.

## 7. Not modelled

* The audit log: one insert per request after the request, errors logged, read by a
  listing only. No later step depends on it, so there is nothing to get wrong but the
  insert.
* Listings, search, filters, paging, routing and validation: read-only, one query each.
* Configuration, metrics, health checks: no protocol. The settings that decide
  something are constants or variables of the modules that read them.
* The vendored platform library but for the verifier's key set; JWT signatures and
  claims; the Vault and signature formats; the registration of permissions.
* How `splitStatements` parses SQL and how SCM's columns are mapped to an event's.

## 8. Plan

Done: the ledger and its abstract specification, anchoring over it, the components
that feed it or publish from it, then the replica's in-memory parts and the public
story. Every component that changes state is modelled.

Proved: every safety property of the passing runs but `DeskIsTold`, the action
properties and two refinements (section 5).

Left: liveness, which stays with TLC, and lists that repeat a batch, of which nothing
more can be said as long as the code reads them twice.

## 9. Running

    tlc -config CustodyChain.cfg MCCustodyChain     # and so on, see PROJECT.json
    tlapm CustodyChain_proofs.tla
    tlapm Outbox_proofs.tla                         # and the other *_proofs modules
