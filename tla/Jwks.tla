-------------------------------- MODULE Jwks --------------------------------
(***************************************************************************)
(* Token verification against a key set that is fetched from the auth      *)
(* service (cmd/server main.go refreshJWKSWithRetry and jwksRefreshLoop,   *)
(* platform-go authclient, internal/middleware platform_auth.go).          *)
(*                                                                         *)
(* At boot the set is fetched a few times with a growing pause; a replica  *)
(* that gets none starts all the same and refuses every token.  A loop     *)
(* then fetches it again, soon while there are no keys, rarely once there  *)
(* are.  The auth service goes down and comes back, and rotates its keys.  *)
(*                                                                         *)
(* Time passes in units; what is due happens before time goes on.  A fetch *)
(* is over within FetchTimeout, and succeeds if the service is up all the  *)
(* while.                                                                  *)
(***************************************************************************)
EXTENDS Integers

CONSTANTS
  Kids,             \* key ids of the auth service
  Attempts,         \* of refreshJWKSWithRetry
  Backoff,          \* pause after the i-th attempt: i * Backoff
  FetchTimeout,     \* of the verifier's http.Client
  DegradedInterval, SteadyInterval

(* 8 s is the longest pause at boot, 15 s the degraded interval, 15 min the
   steady one; 5 s the timeout. *)
ASSUME JwksAssumption ==
  /\ Attempts \in Nat \ {0} /\ Backoff \in Nat /\ FetchTimeout \in Nat
  /\ DegradedInterval \in Nat /\ SteadyInterval \in Nat
  /\ (Attempts - 1) * Backoff <= DegradedInterval
  /\ DegradedInterval <= SteadyInterval

VARIABLES
  keys,     \* Verifier.keys
  attempt,  \* number of the boot attempt, 0 once the loop runs
  task,     \* "wait" or "fetch"
  timer,    \* time left to wait, or time the fetch has taken
  docs,     \* what the service has published during this fetch
  healthy,  \* the service was up during the whole of this fetch
  served,   \* the key set the auth service publishes
  up,       \* the auth service answers
  calm      \* history: time since the service or the replica was disturbed

jwksVars == << keys, attempt, task, timer, docs, healthy, served, up, calm >>

(* What calm counts up to: further is not told apart. *)
CalmLimit == SteadyInterval + 2 * FetchTimeout + 1

KeySets == (SUBSET Kids) \ {{}}

JwksInit ==
  /\ keys = {}
  /\ attempt = 1
  /\ task = "fetch"
  /\ timer = 0
  /\ served \in KeySets
  /\ up \in BOOLEAN
  /\ docs = {served}
  /\ healthy = up
  /\ calm = 0

(* The auth service starts signing with new keys, goes down or comes back. *)
Disturb ==
  /\ \/ up' = ~up /\ UNCHANGED served
     \/ served' \in KeySets \ {served} /\ UNCHANGED up
  /\ IF task = "fetch"
       THEN docs' = docs \cup {served'} /\ healthy' = (healthy /\ up')
       ELSE docs' = {served'} /\ UNCHANGED healthy
  /\ calm' = 0
  /\ UNCHANGED << keys, attempt, task, timer >>

(* The replica is restarted: the keys were in memory only. *)
Restart ==
  /\ keys' = {}
  /\ attempt' = 1
  /\ task' = "fetch"
  /\ timer' = 0
  /\ docs' = {served}
  /\ healthy' = up
  /\ calm' = 0
  /\ UNCHANGED << served, up >>

Due ==
  \/ task = "wait" /\ timer = 0
  \/ task = "fetch" /\ timer = FetchTimeout

Pass ==
  /\ ~Due
  /\ timer' = IF task = "wait" THEN timer - 1 ELSE timer + 1
  /\ calm' = IF up /\ calm < CalmLimit THEN calm + 1 ELSE calm
  /\ UNCHANGED << keys, attempt, task, docs, healthy, served, up >>

Wait(n) == task' = "wait" /\ timer' = n /\ docs' = {served} /\ healthy' = TRUE

Fetch == task' = "fetch" /\ timer' = 0 /\ docs' = {served} /\ healthy' = up

(* Mutant of LoopWait: one interval for both, as it was before. *)
LoopWaitFlat(held) == Wait(SteadyInterval)

(* jwksRefreshLoop: how long it waits depends on HasKeys. *)
LoopWait(held) == Wait(IF held = {} THEN DegradedInterval ELSE SteadyInterval)

(* Refresh succeeds: the set is replaced by the one the service answered with,
   which may have been rotated since.  At boot, main goes on to start the
   loop, which waits first. *)
RefreshOK ==
  /\ task = "fetch" /\ up
  /\ keys' \in docs
  /\ attempt' = 0
  /\ LoopWait(keys')
  /\ UNCHANGED << served, up, calm >>

(* Refresh fails (unreachable, a bad answer, a set with no usable key, the
   timeout): the previous set stays.  After the last attempt at boot there is
   no pause but the loop's. *)
RefreshFails ==
  /\ task = "fetch" /\ ~healthy
  /\ IF attempt \in 1..(Attempts - 1)
       THEN attempt' = attempt + 1 /\ Wait(attempt * Backoff)
       ELSE attempt' = 0 /\ LoopWait(keys)
  /\ UNCHANGED << keys, served, up, calm >>

(* time.After: the next attempt at boot, or the next fetch of the loop. *)
Wake ==
  /\ task = "wait" /\ timer = 0
  /\ Fetch
  /\ UNCHANGED << keys, attempt, served, up, calm >>

JwksNext == Disturb \/ Restart \/ Pass \/ RefreshOK \/ RefreshFails \/ Wake

JwksSpec == JwksInit /\ [][JwksNext]_jwksVars

----------------------------------------------------------------------------
(* AttachPrincipal, RequireAuth and RequirePermission for a request that is
   not public and whose token is signed under kid; a request with no token is
   answered like one whose key is not held. *)
Answer(kid, permitted) ==
  IF kid \notin keys THEN "401" ELSE IF permitted THEN "next" ELSE "403"

(* Once the auth service is up and its keys stay, the replica converges in
   bounded time, whatever boot and the loop were doing: one that refuses every
   request for want of keys has some after a degraded interval and two fetches,
   and after a steady interval and two fetches a token is let in exactly if its
   key is still published. *)
KeysConverge ==
  /\ keys = {} => calm <= DegradedInterval + 2 * FetchTimeout
  /\ calm > SteadyInterval + 2 * FetchTimeout =>
       \A k \in Kids : Answer(k, TRUE) = IF k \in served THEN "next" ELSE "401"
============================================================================
