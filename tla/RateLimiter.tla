---------------------------- MODULE RateLimiter ----------------------------
(***************************************************************************)
(* The rate limit of the public endpoints (internal/middleware             *)
(* ratelimit.go): a map of token buckets by client address, made on first  *)
(* use and dropped when the map is large and they have been idle for an    *)
(* hour.  A client whose bucket was dropped gets a full one, so dropping   *)
(* must be something no client can notice.                                 *)
(*                                                                         *)
(* Time passes in units.  Instead of lastSeen the model keeps the time     *)
(* since, which stops counting one unit past the hour.  get() holds the    *)
(* mutex; between it and Allow, which has a lock of its own, a request     *)
(* does not wait for anything, so the two are one step: another request's  *)
(* get() in between cannot drop a bucket that was touched just now.        *)
(***************************************************************************)
EXTENDS Integers, FiniteSets

CONSTANTS
  Clients,     \* addresses, "_unknown" among them
  Burst, Rate, \* of rate.NewLimiter
  MaxBuckets,  \* the map is swept when it is larger (1024)
  Hour         \* how long a dropped bucket has been idle

(* The hour refills any bucket: with the defaults, 60 a minute and a burst of
   10, it would refill 360 of them. *)
ASSUME LimiterAssumption ==
  /\ Burst \in Nat \ {0} /\ Rate \in Nat \ {0} /\ Hour \in Nat /\ MaxBuckets \in Nat
  /\ Burst <= Rate * (Hour + 1)

VARIABLES
  buckets,  \* limiterMap.buckets: the tokens of the clients that have one
  idle,     \* limiterMap.lastSeen: time since, at most Hour + 1
  verdict   \* the last request and whether it was served

limiterVars == << buckets, idle, verdict >>

LimiterInit ==
  /\ buckets = << >>
  /\ idle = << >>
  /\ verdict \in [client : Clients, served : {TRUE}]

(* Entries the sweep deletes, with the requesting client already touched. *)
Expired(touched) == {k \in DOMAIN touched : touched[k] > Hour}

(* Mutant of Kept: the sweep makes room whoever has used it last. *)
KeptRecent(k, touched) == IF Cardinality(DOMAIN touched) > MaxBuckets THEN {k} ELSE DOMAIN touched

(* get: the keys that are left after k's request. *)
Kept(k, touched) ==
  IF Cardinality(DOMAIN touched) > MaxBuckets THEN DOMAIN touched \ Expired(touched) ELSE DOMAIN touched

(* rate.NewLimiter: a new bucket is full. *)
Tokens(k) == IF k \in DOMAIN buckets THEN buckets[k] ELSE Burst

(* get(key).Allow(): 429 when there is no token. *)
PublicRateLimit(k) ==
  LET touched == [j \in DOMAIN idle \cup {k} |-> IF j = k THEN 0 ELSE idle[j]]
      kept    == Kept(k, touched)
      served  == Tokens(k) > 0
  IN /\ verdict' = [client |-> k, served |-> served]
     /\ idle' = [j \in kept |-> touched[j]]
     /\ buckets' = [j \in kept |-> IF j = k /\ served THEN Tokens(j) - 1 ELSE Tokens(j)]

Refilled(n) == IF n + Rate > Burst THEN Burst ELSE n + Rate

(* A unit of time: rate.Limiter gains tokens, lastSeen recedes. *)
Elapse ==
  /\ buckets' = [k \in DOMAIN buckets |-> Refilled(buckets[k])]
  /\ idle' = [k \in DOMAIN idle |-> IF idle[k] > Hour THEN idle[k] ELSE idle[k] + 1]
  /\ UNCHANGED verdict

LimiterNext == Elapse \/ \E k \in Clients : PublicRateLimit(k)

LimiterSpec == LimiterInit /\ [][LimiterNext]_limiterVars

----------------------------------------------------------------------------
Promise == INSTANCE TokenBucket WITH
  level  <- [k \in Clients |-> Tokens(k)],
  answer <- verdict

(* Dropping buckets goes unnoticed: however many clients crowd the map, each
   is served and refused as if it had one bucket that is never dropped. *)
LimiterKeepsPromise == Promise!Spec
============================================================================
