---------------------------- MODULE QrLifecycle ----------------------------
(***************************************************************************)
(* The public QR of one lot: publish, revoke, edit, scan, and the Redis    *)
(* cache in front of the scan (internal/handlers, internal/cache,          *)
(* internal/story).  Lots share nothing but the cache, whose keys are the  *)
(* tokens, so one lot is enough.                                           *)
(*                                                                         *)
(* A staff request changes the lot_qr_codes row in one transaction (Outbox *)
(* looks inside it) and afterwards deletes one cache key.  A scan reads    *)
(* the cache, on a miss the row and the story, and then fills the cache.   *)
(* Nothing orders a fill after the delete that was meant to undo it; what  *)
(* remains is the entry's TTL.                                             *)
(*                                                                         *)
(* The story is its edit number: the number of story overrides committed   *)
(* (StoryOverride looks inside an edit).  Composing the stored fallback    *)
(* (ComposeAndStoreLotStory) touches neither the row nor the cache.        *)
(***************************************************************************)
EXTENDS Naturals, FiniteSets

CONSTANTS
  Tokens,       \* public tokens; random ones are never drawn twice
  Staff,        \* concurrent staff requests
  Scanners,     \* concurrent GET /public/q/:token requests
  MaxEdits,     \* bound on story edits
  RedisFails,   \* whether Redis commands may fail
  NoToken,      \* no row, or a request that holds no token
  NoEntry       \* the cache has no such key

ASSUME EditsAssumption == MaxEdits \in Nat /\ RedisFails \in BOOLEAN
ASSUME NullsAssumption == NoToken \notin Tokens /\ NoEntry \notin Nat

VARIABLES
  row,      \* the lot_qr_codes row: token (NoToken: no row) and revoked_at IS NULL
  drawn,    \* tokens GeneratePublicToken or SCM has produced
  story,    \* committed story edits
  cache,    \* cache[t]: the story in trace:public:q:t
  staff,    \* staff[p]: the next step of p's request and the token it holds
  scan,     \* scan[s]: the next step of s's request, its token and story
  named     \* history: tokens that committed qr_revoked events name

vars == << row, drawn, story, cache, staff, scan, named >>

NoRequest == [step |-> "idle", token |-> NoToken]
NoScan    == [step |-> "idle", token |-> NoToken, story |-> 0]

Init ==
  /\ row = [token |-> NoToken, live |-> FALSE]
  /\ drawn = {}
  /\ story = 0
  /\ cache = [t \in Tokens |-> NoEntry]
  /\ staff = [p \in Staff |-> NoRequest]
  /\ scan = [s \in Scanners |-> NoScan]
  /\ named = {}

Live(t) == row.token = t /\ row.live

----------------------------------------------------------------------------
staffOnly == << story, cache, scan, named >>

(* Mutant of Publish: a republication brings the lot's old token back. *)
PublishReuses(p) ==
  /\ staff[p].step = "idle"
  /\ \E t \in Tokens :
       /\ row.token # NoToken => t = row.token
       /\ drawn' = drawn \cup {t}
       /\ staff' = [staff EXCEPT ![p] = [step |-> "upsert", token |-> t]]
  /\ UNCHANGED << row, staffOnly >>

(* PublishLotQR has passed the compliance gate: GeneratePublicToken. *)
Publish(p) ==
  /\ staff[p].step = "idle"
  /\ \E t \in Tokens \ drawn :
       /\ drawn' = drawn \cup {t}
       /\ staff' = [staff EXCEPT ![p] = [step |-> "upsert", token |-> t]]
  /\ UNCHANGED << row, staffOnly >>

(* UpsertLotQRTx: the new token replaces the old one and revoked_at is NULL. *)
UpsertLotQR(p) ==
  /\ staff[p].step = "upsert"
  /\ row' = [token |-> staff[p].token, live |-> TRUE]
  /\ staff' = [staff EXCEPT ![p].step = "evict"]
  /\ UNCHANGED << drawn, staffOnly >>

(* GetLotQRByLotID: finds only a live row. *)
LotToken == IF row.live THEN row.token ELSE NoToken

(* RevokeLotQR: the token to drop from the cache later.  On an error the handler
   goes on without one. *)
Revoke(p) ==
  /\ staff[p].step = "idle"
  /\ \E t \in {LotToken, NoToken} :
       staff' = [staff EXCEPT ![p] = [step |-> "revoke", token |-> t]]
  /\ UNCHANGED << row, drawn, staffOnly >>

(* RevokeLotQRTx: ErrNotFound, a 404, unless the row is live now.  The event it
   enqueues names the token the handler has read, which need not be the row's. *)
RevokeTx(p) ==
  /\ staff[p].step = "revoke"
  /\ IF row.live
       THEN /\ row' = [row EXCEPT !.live = FALSE]
            /\ staff' = [staff EXCEPT ![p].step = "evict"]
            /\ named' = named \cup ({staff[p].token} \ {NoToken})
       ELSE /\ staff' = [staff EXCEPT ![p] = NoRequest]
            /\ UNCHANGED << row, named >>
  /\ UNCHANGED << drawn, story, cache, scan >>

(* PatchQRStory: SetStoryOverride commits; a lot without a row is a 404. *)
PatchStory(p) ==
  /\ staff[p].step = "idle"
  /\ row.token # NoToken
  /\ story < MaxEdits
  /\ story' = story + 1
  /\ staff' = [staff EXCEPT ![p].step = "load"]
  /\ UNCHANGED << row, drawn, cache, scan, named >>

(* loadQRRow: the token to drop from the cache is the row's token now. *)
LoadRow(p) ==
  /\ staff[p].step = "load"
  /\ staff' = [staff EXCEPT ![p].step = "evict", ![p].token = row.token]
  /\ UNCHANGED << row, drawn, staffOnly >>

(* JSONCache.Delete: nothing for an empty token; a Redis error is ignored. *)
Delete(t) ==
  \/ t \in Tokens /\ cache' = [cache EXCEPT ![t] = NoEntry]
  \/ (t = NoToken \/ RedisFails) /\ UNCHANGED cache

(* The cache entry is dropped and the request answered with 200. *)
Evict(p) ==
  /\ staff[p].step = "evict"
  /\ Delete(staff[p].token)
  /\ staff' = [staff EXCEPT ![p] = NoRequest]
  /\ UNCHANGED << row, drawn, story, scan, named >>

(* The request fails or its replica dies between two steps. *)
StaffFails(p) ==
  /\ staff[p].step # "idle"
  /\ staff' = [staff EXCEPT ![p] = NoRequest]
  /\ UNCHANGED << row, drawn, staffOnly >>

(* copyQRCodes: a row SCM has and this service lacks, live or revoked. *)
ImportQR ==
  /\ row.token = NoToken
  /\ \E t \in Tokens \ drawn, live \in BOOLEAN :
       /\ row' = [token |-> t, live |-> live]
       /\ drawn' = drawn \cup {t}
  /\ UNCHANGED << story, cache, staff, scan, named >>

----------------------------------------------------------------------------
scanOnly == << row, drawn, story, staff, named >>

(* Mutant of Lookup: GetLotQRByToken without revoked_at IS NULL. *)
LookupIgnoresRevoked(s, t) ==
  /\ scan[s].step = "idle"
  /\ cache[t] = NoEntry
  /\ row.token = t
  /\ scan' = [scan EXCEPT ![s] = [step |-> "compose", token |-> t, story |-> 0]]
  /\ UNCHANGED << cache, scanOnly >>

(* PublicQR on a miss: GetLotQRByToken.  The other answers change nothing: a hit
   serves the entry, a token with no live row is a 404, and after a failing GET
   the story is composed and served but not stored. *)
Lookup(s, t) ==
  /\ scan[s].step = "idle"
  /\ cache[t] = NoEntry
  /\ Live(t)
  /\ scan' = [scan EXCEPT ![s] = [step |-> "compose", token |-> t, story |-> 0]]
  /\ UNCHANGED << cache, scanOnly >>

(* RebuildLotProjection and applyStoredOverride read the story. *)
Compose(s) ==
  /\ scan[s].step = "compose"
  /\ scan' = [scan EXCEPT ![s].step = "fill", ![s].story = story]
  /\ UNCHANGED << cache, scanOnly >>

(* Redis SET with the TTL, errors ignored; the payload is served. *)
Fill(s) ==
  /\ scan[s].step = "fill"
  /\ \/ cache' = [cache EXCEPT ![scan[s].token] = scan[s].story]
     \/ RedisFails /\ UNCHANGED cache
  /\ scan' = [scan EXCEPT ![s] = NoScan]
  /\ UNCHANGED scanOnly

(* Mutant of Expire: SET without a TTL. *)
ExpireNever(t) == FALSE /\ UNCHANGED vars

(* The entry's TTL runs out. *)
Expire(t) ==
  /\ cache[t] # NoEntry
  /\ cache' = [cache EXCEPT ![t] = NoEntry]
  /\ UNCHANGED << scan, scanOnly >>

----------------------------------------------------------------------------
StaffStep(p) == UpsertLotQR(p) \/ RevokeTx(p) \/ LoadRow(p) \/ Evict(p)

Next ==
  \/ \E p \in Staff : Publish(p) \/ Revoke(p) \/ PatchStory(p) \/ StaffStep(p) \/ StaffFails(p)
  \/ ImportQR
  \/ \E s \in Scanners : Compose(s) \/ Fill(s) \/ \E t \in Tokens : Lookup(s, t)
  \/ \E t \in Tokens : Expire(t)

Spec == Init /\ [][Next]_vars

(* A started request goes on, and a TTL runs out. *)
Fairness ==
  /\ \A p \in Staff : WF_vars(StaffStep(p))
  /\ \A s \in Scanners : WF_vars(Compose(s) \/ Fill(s))
  /\ \A t \in Tokens : WF_vars(Expire(t))

FairSpec == Spec /\ Fairness

----------------------------------------------------------------------------
(* Type invariant: a cache entry is a story, under a token; a request holds a token
   only in the steps that have one. *)
TypeOK ==
  /\ row \in [token : Tokens \cup {NoToken}, live : BOOLEAN]
  /\ drawn \subseteq Tokens
  /\ story \in 0..MaxEdits
  /\ cache \in [Tokens -> 0..MaxEdits \cup {NoEntry}]
  /\ staff \in [Staff -> [step : {"idle", "upsert", "revoke", "load", "evict"},
                          token : Tokens \cup {NoToken}]]
  /\ scan \in [Scanners -> [step : {"idle", "compose", "fill"},
                            token : Tokens \cup {NoToken}, story : 0..MaxEdits]]
  /\ named \subseteq Tokens

(* A token that was given out and will not be written to the row again. *)
Retired(t) ==
  /\ t \in drawn /\ ~Live(t)
  /\ \A p \in Staff : ~(staff[p].step = "upsert" /\ staff[p].token = t)

(* Nothing serves t a story and no scan is left that could store one. *)
Dark(t) ==
  /\ Retired(t)
  /\ cache[t] = NoEntry
  /\ \A s \in Scanners : scan[s].token # t

(* A revoked or replaced token never comes back: once it is out of the cache
   and no scan that found it live is still under way, no later publish,
   import, edit or scan makes it answer again. *)
DarkStaysDark == [][\A t \in Tokens : Dark(t) => Dark(t)']_vars

(* A revoked or replaced token stops answering in the end, whatever raced the
   revocation and whether or not the cache delete succeeded. *)
RetiredGoesDark == \A t \in Tokens : Retired(t) ~> [](cache[t] = NoEntry)

(* When edits stop, the cache ends up serving nothing but the last one. *)
EditsReachTheCache == <>[](\A t \in Tokens : cache[t] \in {NoEntry, story})

(* A qr_revoked event that names a token read too early does no harm: a token
   that some revocation has named is never the live one, before or after the
   republication that raced it, so a consumer that goes by the token darkens
   nothing that answers. *)
NamedIsNotLive == \A t \in named : ~Live(t)
============================================================================
