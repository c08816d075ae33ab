--------------------------- MODULE Replica_proofs ---------------------------
(***************************************************************************)
(* What one replica keeps in memory or does at start-up, proved for any    *)
(* parameters: the rate limiter of the public endpoints, the compliance    *)
(* gate and its alert, the key set of the auth service, and the migration  *)
(* of the schema that replicas of several releases run.  The four modules  *)
(* share no state; each has an inductive invariant of its own.             *)
(***************************************************************************)
EXTENDS RateLimiter, Jwks, PublishGate, Migrate, TLAPS

----------------------------------------------------------------------------
(* The rate limiter implements TokenBucket for any clients, rate, burst and
   map size: no client can tell that idle buckets are dropped.  The invariant
   relates the two maps: a bucket that is not full has gained Rate tokens in
   every unit since it was last used, so that one idle for more than an hour
   is full, which is what a dropped one comes back as. *)


(* The maps have the same keys, and idle time has been paid for in tokens. *)
LimiterInv ==
  /\ DOMAIN buckets \subseteq Clients /\ DOMAIN idle = DOMAIN buckets
  /\ \A k \in DOMAIN buckets :
       /\ buckets[k] \in 0..Burst
       /\ idle[k] \in 0..(Hour + 1)
       /\ buckets[k] = Burst \/ buckets[k] >= Rate * idle[k]
  /\ verdict \in [client : Clients, served : BOOLEAN]

(* A bucket the sweep may drop is full. *)
LEMMA ExpiredIsFull ==
  ASSUME LimiterInv, NEW k \in DOMAIN buckets, idle[k] > Hour
  PROVE  buckets[k] = Burst
<1>1. idle[k] = Hour + 1
  BY LimiterAssumption DEF LimiterInv
<1>2. buckets[k] \in 0..Burst /\ (buckets[k] = Burst \/ buckets[k] >= Rate * (Hour + 1))
  BY <1>1 DEF LimiterInv
<1>3. Burst \in Nat /\ Burst <= Rate * (Hour + 1) /\ Rate * (Hour + 1) \in Nat
  BY LimiterAssumption
<1> QED BY <1>2, <1>3

(* Tokens are counted from 0 to Burst, for a client without a bucket, too. *)
LEMMA TokensType ==
  ASSUME LimiterInv, NEW k \in Clients
  PROVE  Tokens(k) \in 0..Burst
BY LimiterAssumption DEF LimiterInv, Tokens

(* No bucket yet. *)
LEMMA InitInv == LimiterInit => LimiterInv
<1> SUFFICES ASSUME LimiterInit PROVE LimiterInv
  OBVIOUS
<1>1. DOMAIN buckets = {} /\ DOMAIN idle = {}
  BY DEF LimiterInit
<1>2. verdict \in [client : Clients, served : BOOLEAN]
  BY DEF LimiterInit
<1> QED BY <1>1, <1>2 DEF LimiterInv

(* What a unit of time adds to a bucket keeps pace with its idle time. *)
LEMMA RefillPays ==
  ASSUME NEW n \in 0..Burst, NEW i \in 0..(Hour + 1), n = Burst \/ n >= Rate * i
  PROVE  /\ Refilled(n) \in 0..Burst
         /\ LET j == IF i > Hour THEN i ELSE i + 1
            IN j \in 0..(Hour + 1) /\ (Refilled(n) = Burst \/ Refilled(n) >= Rate * j)
<1>1. Burst \in Nat /\ Rate \in Nat /\ Hour \in Nat /\ Burst <= Rate * (Hour + 1)
  BY LimiterAssumption
<1>2. Refilled(n) \in 0..Burst /\ Refilled(n) >= n
  BY <1>1 DEF Refilled
<1>3. CASE i > Hour
  <2>1. i = Hour + 1
    BY <1>1, <1>3
  <2>2. n = Burst
    BY <1>1, <2>1
  <2> QED BY <1>1, <1>2, <1>3, <2>1, <2>2
<1>4. CASE ~(i > Hour)
  <2>1. Rate * (i + 1) = Rate * i + Rate
    BY <1>1
  <2>2. Refilled(n) = Burst \/ Refilled(n) >= Rate * (i + 1)
    BY <1>1, <2>1 DEF Refilled
  <2> QED BY <1>1, <1>2, <1>4, <2>2
<1> QED BY <1>3, <1>4

(* Time passes: the keys stay and every bucket is refilled. *)
LEMMA ElapseInv == LimiterInv /\ Elapse => LimiterInv'
<1> SUFFICES ASSUME LimiterInv, Elapse PROVE LimiterInv'
  OBVIOUS
<1>1. DOMAIN buckets' = DOMAIN buckets /\ DOMAIN idle' = DOMAIN idle /\ verdict' = verdict
  BY DEF Elapse
<1>2. ASSUME NEW k \in DOMAIN buckets'
      PROVE  /\ buckets'[k] \in 0..Burst
             /\ idle'[k] \in 0..(Hour + 1)
             /\ buckets'[k] = Burst \/ buckets'[k] >= Rate * idle'[k]
  <2>1. /\ buckets[k] \in 0..Burst /\ idle[k] \in 0..(Hour + 1)
        /\ buckets[k] = Burst \/ buckets[k] >= Rate * idle[k]
    BY <1>1, <1>2 DEF LimiterInv
  <2>2. buckets'[k] = Refilled(buckets[k])
    BY <1>1, <1>2 DEF Elapse
  <2>3. idle'[k] = IF idle[k] > Hour THEN idle[k] ELSE idle[k] + 1
    BY <1>1, <1>2 DEF Elapse, LimiterInv
  <2> QED BY <2>1, <2>2, <2>3, RefillPays
<1> QED BY <1>1, <1>2 DEF LimiterInv

(* The requesting client keeps its bucket, and those that go are expired. *)
LEMMA KeptOnes ==
  ASSUME NEW k \in Clients, NEW touched, k \in DOMAIN touched, touched[k] = 0
  PROVE  /\ k \in Kept(k, touched)
         /\ Kept(k, touched) \subseteq DOMAIN touched
         /\ \A j \in DOMAIN touched \ Kept(k, touched) : touched[j] > Hour
BY LimiterAssumption DEF Kept, Expired

(* A request: the state after it, in terms of the buckets that are kept. *)
LEMMA RequestInv ==
  ASSUME LimiterInv, NEW k \in Clients, PublicRateLimit(k)
  PROVE  /\ LimiterInv'
         /\ \A j \in Clients : Tokens(j)' = IF j = k /\ Tokens(k) > 0 THEN Tokens(k) - 1 ELSE Tokens(j)
<1> DEFINE touched == [j \in DOMAIN idle \cup {k} |-> IF j = k THEN 0 ELSE idle[j]]
           kept    == Kept(k, touched)
<1>1. /\ verdict' = [client |-> k, served |-> Tokens(k) > 0]
      /\ idle' = [j \in kept |-> touched[j]]
      /\ buckets' = [j \in kept |-> IF j = k /\ Tokens(k) > 0 THEN Tokens(j) - 1 ELSE Tokens(j)]
  BY DEF PublicRateLimit
<1>2. DOMAIN touched = DOMAIN buckets \cup {k} /\ touched[k] = 0
  BY DEF LimiterInv
<1>3. \A j \in DOMAIN touched : j # k => j \in DOMAIN buckets /\ touched[j] = idle[j]
  BY DEF LimiterInv
<1> HIDE DEF touched
<1>4. /\ k \in kept /\ kept \subseteq DOMAIN touched
      /\ \A j \in DOMAIN touched \ kept : touched[j] > Hour
  BY <1>2, KeptOnes
<1> HIDE DEF kept
<1>5. \A j \in Clients : Tokens(j) \in 0..Burst
  BY TokensType
<1>6. LimiterInv'
  <2>1. DOMAIN buckets' \subseteq Clients /\ DOMAIN idle' = DOMAIN buckets'
    BY <1>1, <1>2, <1>4 DEF LimiterInv
  <2>2. ASSUME NEW j \in DOMAIN buckets'
        PROVE  /\ buckets'[j] \in 0..Burst
               /\ idle'[j] \in 0..(Hour + 1)
               /\ buckets'[j] = Burst \/ buckets'[j] >= Rate * idle'[j]
    <3>1. j \in kept /\ j \in Clients
      BY <1>1, <2>1, <2>2
    <3>2. CASE j = k
      <4>1. idle'[j] = 0
        BY <1>1, <1>2, <3>1, <3>2
      <4>2. buckets'[j] \in 0..Burst
        BY <1>1, <1>5, <3>1, <3>2, LimiterAssumption
      <4>3. Rate * 0 = 0
        BY LimiterAssumption
      <4> QED BY <4>1, <4>2, <4>3, LimiterAssumption
    <3>3. CASE j # k
      <4>1. j \in DOMAIN buckets /\ idle'[j] = idle[j]
        BY <1>1, <1>3, <1>4, <3>1, <3>3
      <4>2. buckets'[j] = buckets[j]
        BY <1>1, <3>1, <3>3, <4>1 DEF Tokens
      <4> QED BY <4>1, <4>2 DEF LimiterInv
    <3> QED BY <3>2, <3>3
  <2>3. verdict' \in [client : Clients, served : BOOLEAN]
    BY <1>1
  <2> QED BY <2>1, <2>2, <2>3 DEF LimiterInv
<1>7. ASSUME NEW j \in Clients
      PROVE  Tokens(j)' = IF j = k /\ Tokens(k) > 0 THEN Tokens(k) - 1 ELSE Tokens(j)
  <2>1. CASE j \in kept
    BY <1>1, <2>1 DEF Tokens
  <2>2. CASE j \notin kept
    <3>1. Tokens(j)' = Burst
      BY <1>1, <2>2 DEF Tokens
    <3>2. j # k
      BY <1>4, <2>2
    <3>3. Tokens(j) = Burst
      <4>1. CASE j \in DOMAIN buckets
        <5>1. idle[j] > Hour
          BY <1>2, <1>3, <1>4, <2>2, <3>2, <4>1
        <5> QED BY <4>1, <5>1, ExpiredIsFull DEF Tokens
      <4>2. CASE j \notin DOMAIN buckets
        BY <4>2 DEF Tokens
      <4> QED BY <4>1, <4>2
    <3> QED BY <3>1, <3>2, <3>3
  <2> QED BY <2>1, <2>2
<1> QED BY <1>6, <1>7

(* The invariant holds throughout. *)
THEOREM LimiterInvariant == LimiterSpec => []LimiterInv
<1>1. ASSUME LimiterInv, [LimiterNext]_limiterVars PROVE LimiterInv'
  <2>1. CASE Elapse
    BY <1>1, <2>1, ElapseInv
  <2>2. CASE \E k \in Clients : PublicRateLimit(k)
    BY <1>1, <2>2, RequestInv
  <2>3. CASE UNCHANGED limiterVars
    BY <1>1, <2>3 DEF limiterVars, LimiterInv
  <2> QED BY <1>1, <2>1, <2>2, <2>3 DEF LimiterNext
<1> QED BY <1>1, InitInv, PTL DEF LimiterSpec

(* A unit of time is a refill of every client's bucket, dropped or not. *)
LEMMA ElapseRefills == ASSUME LimiterInv, Elapse PROVE Promise!Refill
<1>1. ASSUME NEW k \in Clients PROVE Tokens(k)' = Promise!Refilled(Tokens(k))
  <2>1. CASE k \in DOMAIN buckets
    BY <2>1 DEF Elapse, Tokens, Refilled, Promise!Refilled
  <2>2. CASE k \notin DOMAIN buckets
    BY <2>2, LimiterAssumption DEF Elapse, Tokens, Promise!Refilled
  <2> QED BY <2>1, <2>2
<1>2. [k \in Clients |-> Tokens(k)]' = [k \in Clients |-> Promise!Refilled([j \in Clients |-> Tokens(j)][k])]
  BY <1>1
<1> QED BY <1>2 DEF Promise!Refill, Elapse

(* A request takes a token or is refused for want of one. *)
LEMMA RequestServes ==
  ASSUME LimiterInv, NEW k \in Clients, PublicRateLimit(k)
  PROVE  Promise!Serve(k) \/ Promise!Refuse(k)
<1> DEFINE level == [j \in Clients |-> Tokens(j)]
<1>1. \A j \in Clients : Tokens(j)' = IF j = k /\ Tokens(k) > 0 THEN Tokens(k) - 1 ELSE Tokens(j)
  BY RequestInv
<1>2. verdict' = [client |-> k, served |-> Tokens(k) > 0]
  BY DEF PublicRateLimit
<1>3. Tokens(k) \in 0..Burst
  BY TokensType
<1>4. CASE Tokens(k) > 0
  <2>1. level' = [level EXCEPT ![k] = @ - 1]
    BY <1>1, <1>4
  <2> QED BY <1>2, <1>4, <2>1 DEF Promise!Serve
<1>5. CASE ~(Tokens(k) > 0)
  <2>1. Tokens(k) = 0
    BY <1>3, <1>5, LimiterAssumption
  <2>2. level' = level
    BY <1>1, <1>5
  <2>3. (Tokens(k) > 0) = FALSE
    BY <1>5
  <2>4. verdict' = [client |-> k, served |-> FALSE]
    BY <1>2, <2>3
  <2> QED BY <2>1, <2>2, <2>4 DEF Promise!Refuse
<1> QED BY <1>4, <1>5

(* Dropping buckets goes unnoticed: for any number of clients and any size of the
   map, PublicRateLimit answers as permanent buckets would. *)
THEOREM LimiterImplementsBuckets == LimiterSpec => LimiterKeepsPromise
<1>1. LimiterInit => Promise!Init
  <2> SUFFICES ASSUME LimiterInit PROVE Promise!Init
    OBVIOUS
  <2>1. DOMAIN buckets = {}
    BY DEF LimiterInit
  <2>2. [k \in Clients |-> Tokens(k)] = [k \in Clients |-> Burst]
    BY <2>1 DEF Tokens
  <2> QED BY <2>2 DEF LimiterInit, Promise!Init
<1>2. ASSUME LimiterInv, [LimiterNext]_limiterVars PROVE [Promise!Next]_(Promise!vars)
  <2>1. CASE Elapse
    BY <1>2, <2>1, ElapseRefills DEF Promise!Next
  <2>2. CASE \E k \in Clients : PublicRateLimit(k)
    BY <1>2, <2>2, RequestServes DEF Promise!Next
  <2>3. CASE UNCHANGED limiterVars
    BY <2>3 DEF limiterVars, Promise!vars, Tokens
  <2> QED BY <1>2, <2>1, <2>2, <2>3 DEF LimiterNext
<1> QED BY <1>1, <1>2, LimiterInvariant, PTL DEF LimiterSpec, LimiterKeepsPromise, Promise!Spec

----------------------------------------------------------------------------
(* The publish gate. *)

(* What a request may be. *)
GateRequests ==
  [step : {"idle", "gate", "mint", "alert", "publish"}, gone : BOOLEAN, ok : BOOLEAN,
   heard : {"nothing", "open", "closed", "page"}]

(* The values the gate's variables take. *)
GateType ==
  /\ scm \in BOOLEAN /\ addressed \in BOOLEAN /\ compliant \in BOOLEAN /\ blocked \in BOOLEAN
  /\ request \in [Requests -> GateRequests]
  /\ last \in 0..Window /\ told \in 0..Window /\ lost \in 0..Window
  /\ raises \in [0..(Window - 1) -> Nat]

(* A request that waits for its verdict remembers a compliance that still is, one
   whose verdict is on its way the compliance that the verdict was about. *)
VerdictInv ==
  \A r \in Requests :
    /\ request[r].step = "mint" => request[r].ok \/ request[r].heard = "page"
    /\ request[r].step = "gate" /\ compliant => request[r].ok
    /\ request[r].heard = "open" => request[r].step # "idle" /\ request[r].ok

(* What the throttle remembers is the one alert of the window. *)
ThrottleInv == \A a \in 0..(Window - 1) : raises[a] = IF a = last THEN 1 ELSE 0

(* The invariant of the gate. *)
GateInv == GateType /\ VerdictInv /\ ThrottleInv

LEMMA NoRequestIsIdle ==
  NoRequest \in GateRequests /\ NoRequest.step = "idle" /\ NoRequest.heard = "nothing"
BY DEF NoRequest, GateRequests

(* A request that is answered is at an end. *)
LEMMA GateAnswerKeeps ==
  ASSUME GateType, VerdictInv, NEW r \in Requests, GateAnswer(r), UNCHANGED compliant
  PROVE  VerdictInv' /\ request' \in [Requests -> GateRequests]
<1>1. \A q \in Requests : request'[q] = IF q = r THEN NoRequest ELSE request[q]
  BY DEF GateType, GateAnswer
<1>2. VerdictInv'
  BY <1>1, NoRequestIsIdle DEF VerdictInv
<1>3. request' \in [Requests -> GateRequests]
  BY NoRequestIsIdle DEF GateType, GateAnswer
<1> QED BY <1>2, <1>3

(* A request goes on to the alert. *)
LEMMA GateGotoKeeps ==
  ASSUME GateType, VerdictInv, UNCHANGED compliant, NEW r \in Requests,
         NEW s \in {"alert", "publish"}, GateGoto(r, s)
  PROVE  VerdictInv' /\ request' \in [Requests -> GateRequests]
<1>1. /\ request'[r].step = s
      /\ request'[r].ok = request[r].ok /\ request'[r].heard = request[r].heard
      /\ \A q \in Requests : q # r => request'[q] = request[q]
  BY DEF GateType, GateGoto, GateRequests
<1>2. request' \in [Requests -> GateRequests]
  BY DEF GateType, GateGoto, GateRequests
<1>3. VerdictInv'
  BY <1>1 DEF VerdictInv
<1> QED BY <1>2, <1>3

(* A request passes the gate. *)
LEMMA GatePassKeeps ==
  ASSUME GateType, VerdictInv, UNCHANGED compliant, NEW r \in Requests,
         NEW as \in {"open", "page"}, GatePass(r, as), as = "open" => request[r].ok
  PROVE  VerdictInv' /\ request' \in [Requests -> GateRequests]
<1>1. /\ request'[r].step = "mint"
      /\ request'[r].ok = request[r].ok /\ request'[r].heard = as
      /\ \A q \in Requests : q # r => request'[q] = request[q]
  BY DEF GateType, GatePass, GateRequests
<1>2. request' \in [Requests -> GateRequests]
  <2>1. request[r] \in GateRequests
    BY DEF GateType
  <2>2. [request[r] EXCEPT !.step = "mint", !.heard = as] \in GateRequests
    BY <2>1 DEF GateRequests
  <2>3. request' = [request EXCEPT ![r] = [request[r] EXCEPT !.step = "mint", !.heard = as]]
    BY DEF GateType, GatePass
  <2> QED BY <2>2, <2>3 DEF GateType
<1>3. VerdictInv'
  BY <1>1 DEF VerdictInv
<1> QED BY <1>2, <1>3

(* The invariant holds when the process comes up. *)
LEMMA GateInitInv == GateInit => GateInv
<1> SUFFICES ASSUME GateInit PROVE GateInv
  OBVIOUS
<1>1. Window \in Nat \ {0}
  BY GateAssumption
<1>2. raises \in [0..(Window - 1) -> Nat]
  BY <1>1 DEF GateInit
<1>3. request \in [Requests -> GateRequests]
  BY NoRequestIsIdle DEF GateInit
<1>4. last \in 0..Window /\ told \in 0..Window /\ lost \in 0..Window
  BY <1>1 DEF GateInit
<1>5. GateType
  BY <1>2, <1>3, <1>4 DEF GateInit, GateType
<1>6. VerdictInv
  BY NoRequestIsIdle DEF GateInit, VerdictInv
<1>7. ThrottleInv
  BY <1>1 DEF GateInit, ThrottleInv
<1> QED BY <1>5, <1>6, <1>7 DEF GateInv

(* A step that has nothing to do with alerts. *)
LEMMA GateQuiet ==
  ASSUME GateInv, request' \in [Requests -> GateRequests], VerdictInv', compliant' \in BOOLEAN,
         UNCHANGED << scm, addressed, blocked, alertVars >>
  PROVE  GateInv'
<1>1. UNCHANGED << scm, addressed, blocked >> /\ UNCHANGED << last, raises, told, lost >>
  BY DEF alertVars
<1>2. GateType'
  BY <1>1 DEF GateInv, GateType
<1>3. ThrottleInv'
  BY <1>1 DEF GateInv, ThrottleInv
<1> QED BY <1>2, <1>3 DEF GateInv

(* What the gate answers opens it only with a page or for a lot that was
   compliant when SCM, or this replica, decided. *)
LEMMA ValidateKeeps ==
  ASSUME GateType, VerdictInv, NEW r \in Requests, Validate(r)
  PROVE  VerdictInv' /\ request' \in [Requests -> GateRequests]
<1>1. compliant' = compliant /\ request[r].step = "gate"
  BY DEF Validate
<1>2. (compliant => request[r].ok) /\ (request[r].heard = "open" => request[r].ok)
  BY <1>1 DEF VerdictInv
<1>3. CASE GateAnswer(r)
  BY <1>1, <1>3, GateAnswerKeeps
<1>4. CASE GateGoto(r, "alert")
  BY <1>1, <1>4, GateGotoKeeps
<1>5. CASE compliant /\ GatePass(r, "open")
  BY <1>1, <1>2, <1>5, GatePassKeeps
<1>6. ASSUME scm, NEW reply \in Replies(r), Passes(reply), GatePass(r, Taken(reply))
      PROVE  VerdictInv' /\ request' \in [Requests -> GateRequests]
  <2>1. CASE reply = "page"
    BY <1>1, <1>6, <2>1, GatePassKeeps DEF Taken
  <2>2. CASE reply = "200"
    <3>1. request[r].heard = "open" /\ Taken(reply) = "open"
      BY <2>2, <1>6 DEF Replies, Taken
    <3> QED BY <1>1, <1>2, <1>6, <3>1, GatePassKeeps
  <2> QED BY <1>6, <2>1, <2>2 DEF Passes
<1>7. CASE scm
  <2>1. PICK reply \in Replies(r) : ValidateLotPublish(r, reply)
    BY <1>7 DEF Validate
  <2> QED BY <1>3, <1>4, <1>6, <1>7, <2>1 DEF ValidateLotPublish
<1>8. CASE ~scm
  BY <1>3, <1>5, <1>8 DEF Validate
<1> QED BY <1>7, <1>8

(* Every step of the gate keeps the invariant. *)
LEMMA GateStepInv == GateInv /\ [GateNext]_gateVars => GateInv'
<1> SUFFICES ASSUME GateInv, [GateNext]_gateVars PROVE GateInv'
  OBVIOUS
<1>w. Window \in Nat \ {0}
  BY GateAssumption
<1>t. GateType /\ VerdictInv /\ ThrottleInv
  BY DEF GateInv
<1>1. CASE Reassess
  <2>1. /\ compliant' \in BOOLEAN
        /\ UNCHANGED << scm, addressed, blocked, alertVars >>
        /\ \A q \in Requests :
             /\ request'[q].step = request[q].step /\ request'[q].heard = request[q].heard
             /\ request'[q].ok = (request[q].step # "idle" /\ (request[q].ok \/ compliant'))
    BY <1>1, <1>t DEF Reassess, GateType, GateRequests
  <2>2. request' \in [Requests -> GateRequests]
    <3>1. ASSUME NEW q \in Requests, NEW ok \in BOOLEAN
          PROVE  [request[q] EXCEPT !.ok = ok] \in GateRequests
      BY <1>t DEF GateType, GateRequests
    <3>2. \A q \in Requests : (request[q].step # "idle" /\ (request[q].ok \/ compliant')) \in BOOLEAN
      OBVIOUS
    <3> QED BY <1>1, <3>1, <3>2 DEF Reassess
  <2>3. VerdictInv'
    BY <1>t, <2>1 DEF VerdictInv
  <2> QED BY <2>1, <2>2, <2>3, GateQuiet
<1>2. ASSUME NEW r \in Requests, Leave(r) PROVE GateInv'
  <2>1. \A q \in Requests : /\ request'[q].step = request[q].step
                            /\ request'[q].ok = request[q].ok /\ request'[q].heard = request[q].heard
    BY <1>2, <1>t DEF Leave, GateType, GateRequests
  <2>2. request' \in [Requests -> GateRequests]
    BY <1>2, <1>t DEF Leave, GateType, GateRequests
  <2>3. UNCHANGED << scm, addressed, blocked, alertVars >> /\ compliant' = compliant
    BY <1>2 DEF Leave
  <2>4. VerdictInv' /\ compliant' \in BOOLEAN
    BY <1>t, <2>1, <2>3 DEF VerdictInv, GateType
  <2> QED BY <2>2, <2>3, <2>4, GateQuiet
<1>3. ASSUME NEW r \in Requests, PublishLotQR(r) PROVE GateInv'
  <2>1. UNCHANGED << scm, addressed, blocked, alertVars >> /\ compliant' = compliant /\ compliant' \in BOOLEAN
    BY <1>3, <1>t DEF PublishLotQR, GateType
  <2>2. CASE GateAnswer(r)
    BY <1>t, <2>1, <2>2, GateAnswerKeeps, GateQuiet
  <2>3. CASE request' = [request EXCEPT ![r] = [NoRequest EXCEPT !.step = "gate", !.ok = compliant]]
    <3>1. /\ request'[r].step = "gate" /\ request'[r].ok = compliant /\ request'[r].heard = "nothing"
          /\ \A q \in Requests : q # r => request'[q] = request[q]
      BY <1>t, <2>3 DEF GateType, NoRequest
    <3>2. request' \in [Requests -> GateRequests]
      BY <1>t, <2>3 DEF GateType, NoRequest, GateRequests
    <3>3. VerdictInv'
      BY <1>t, <2>1, <3>1 DEF VerdictInv
    <3> QED BY <2>1, <3>2, <3>3, GateQuiet
  <2> QED BY <1>3, <2>2, <2>3 DEF PublishLotQR
<1>4. ASSUME NEW r \in Requests, Decide(r) PROVE GateInv'
  <2>1. /\ UNCHANGED << scm, addressed, blocked, alertVars >> /\ compliant' = compliant /\ compliant' \in BOOLEAN
        /\ request[r].step = "gate"
    BY <1>4, <1>t DEF Decide, GateType
  <2>2. /\ request'[r].step = request[r].step /\ request'[r].ok = request[r].ok
        /\ request'[r].heard = IF compliant THEN "open" ELSE "closed"
        /\ \A q \in Requests : q # r => request'[q] = request[q]
    BY <1>4, <1>t DEF Decide, GateType, GateRequests
  <2>3. request' \in [Requests -> GateRequests]
    BY <1>4, <1>t DEF Decide, GateType, GateRequests
  <2>4. VerdictInv'
    BY <1>t, <2>1, <2>2 DEF VerdictInv
  <2> QED BY <2>1, <2>3, <2>4, GateQuiet
<1>5. ASSUME NEW r \in Requests, Validate(r) PROVE GateInv'
  <2>1. UNCHANGED << scm, addressed, blocked, alertVars >> /\ compliant' \in BOOLEAN
    BY <1>5, <1>t DEF Validate, GateType
  <2> QED BY <1>5, <1>t, <2>1, ValidateKeeps, GateQuiet
<1>6. ASSUME NEW r \in Requests, Mint(r) PROVE GateInv'
  <2>1. UNCHANGED << scm, addressed, blocked, alertVars >> /\ compliant' = compliant /\ compliant' \in BOOLEAN
        /\ GateAnswer(r)
    BY <1>6, <1>t DEF Mint, GateType
  <2> QED BY <1>t, <2>1, GateAnswerKeeps, GateQuiet
<1>7. ASSUME NEW r \in Requests, AlertOnce(r) PROVE GateInv'
  <2>1. UNCHANGED << scm, addressed, compliant, told, lost >> /\ compliant' = compliant
    BY <1>7 DEF AlertOnce
  <2>2. CASE NotifierSet /\ allow
    <3>1. /\ last' = 0 /\ raises' = [raises EXCEPT ![0] = @ + 1] /\ GateGoto(r, "publish") /\ blocked' = blocked
      BY <1>7, <2>2 DEF AlertOnce
    <3>2. VerdictInv' /\ request' \in [Requests -> GateRequests]
      BY <1>t, <2>1, <3>1, GateGotoKeeps
    <3>3. last = Window
      BY <1>w, <1>t, <2>2 DEF allow, GateType
    <3>4. GateType'
      BY <1>w, <1>t, <2>1, <3>1, <3>2 DEF GateType
    <3>5. ThrottleInv'
      <4>1. \A a \in 0..(Window - 1) : raises[a] = 0
        BY <1>w, <1>t, <3>3 DEF ThrottleInv
      <4>2. raises \in [0..(Window - 1) -> Nat]
        BY <1>t DEF GateType
      <4> QED BY <1>w, <3>1, <4>1, <4>2 DEF ThrottleInv
    <3> QED BY <3>2, <3>4, <3>5 DEF GateInv
  <2>3. CASE ~(NotifierSet /\ allow)
    <3>1. GateAnswer(r) /\ blocked' = TRUE /\ last' = last /\ raises' = raises
      BY <1>7, <2>3 DEF AlertOnce
    <3>2. VerdictInv' /\ request' \in [Requests -> GateRequests]
      BY <1>t, <2>1, <3>1, GateAnswerKeeps
    <3>3. GateType' /\ ThrottleInv'
      BY <1>t, <2>1, <3>1, <3>2 DEF GateType, ThrottleInv
    <3> QED BY <3>2, <3>3 DEF GateInv
  <2> QED BY <2>2, <2>3
<1>8. ASSUME NEW r \in Requests, Alert(r) PROVE GateInv'
  <2>1. UNCHANGED << scm, addressed, compliant, last, raises >> /\ GateAnswer(r) /\ compliant' = compliant
        /\ blocked' = TRUE /\ ((told' = 0 /\ lost' = lost) \/ (lost' = 0 /\ told' = told))
    BY <1>8 DEF Alert
  <2>2. VerdictInv' /\ request' \in [Requests -> GateRequests]
    BY <1>t, <2>1, GateAnswerKeeps
  <2>3. GateType' /\ ThrottleInv'
    BY <1>w, <1>t, <2>1, <2>2 DEF GateType, ThrottleInv
  <2> QED BY <2>2, <2>3 DEF GateInv
<1>9. CASE GateRestart
  <2>1. GateType'
    BY <1>9, <1>w, <1>t, NoRequestIsIdle DEF GateRestart, GateType
  <2>2. VerdictInv'
    BY <1>9, NoRequestIsIdle DEF GateRestart, VerdictInv
  <2>3. ThrottleInv'
    BY <1>9, <1>w DEF GateRestart, ThrottleInv
  <2> QED BY <2>1, <2>2, <2>3 DEF GateInv
<1>10. CASE GateTick
  <2>1. last \in 0..Window /\ told \in 0..Window /\ lost \in 0..Window /\ raises \in [0..(Window - 1) -> Nat]
    BY <1>t DEF GateType
  <2>2. last' \in 0..Window /\ told' \in 0..Window /\ lost' \in 0..Window
    BY <1>10, <1>w, <2>1 DEF GateTick, Older
  <2>3. raises' \in [0..(Window - 1) -> Nat]
    BY <1>10, <1>w, <2>1 DEF GateTick
  <2>4. GateType'
    BY <1>10, <1>t, <2>2, <2>3 DEF GateType, GateTick
  <2>5. VerdictInv'
    BY <1>10, <1>t DEF GateTick, VerdictInv
  <2>6. ThrottleInv'
    <3> SUFFICES ASSUME NEW a \in 0..(Window - 1) PROVE raises'[a] = IF a = last' THEN 1 ELSE 0
      BY DEF ThrottleInv
    <3>1. raises'[a] = IF a = 0 THEN 0 ELSE raises[a - 1]
      BY <1>10 DEF GateTick
    <3>2. a # 0 => raises[a - 1] = IF a - 1 = last THEN 1 ELSE 0
      BY <1>w, <1>t DEF ThrottleInv
    <3>3. last' = IF last < Window THEN last + 1 ELSE last
      BY <1>10 DEF GateTick, Older
    <3> QED BY <1>w, <2>1, <3>1, <3>2, <3>3
  <2> QED BY <2>4, <2>5, <2>6 DEF GateInv
<1>11. CASE UNCHANGED gateVars
  BY <1>11, <1>t DEF gateVars, GateInv, GateType, VerdictInv, ThrottleInv
<1> QED BY <1>1, <1>2, <1>3, <1>4, <1>5, <1>6, <1>7, <1>8, <1>9, <1>10, <1>11 DEF GateNext

(* What opens the gate: PublishLotQR mints for a lot that was compliant while its
   request ran, although SCM's verdict may be out of date when it arrives, or on a
   page below 400 that scmclient does not read; no outage, refusal, timeout or
   broken connection opens it. *)
THEOREM GateOpensOnVerdict == GateSpec => []MintedOnVerdict
<1>1. GateInv => MintedOnVerdict
  BY DEF GateInv, VerdictInv, MintedOnVerdict
<1> QED BY <1>1, GateInitInv, GateStepInv, PTL DEF GateSpec

(* The throttle of the alert lets one through in any window, however many
   requests find the compliance service down at the same moment. *)
THEOREM OneAlertPerWindow == GateSpec => []AlertThrottled
<1>1. ASSUME GateInv PROVE AlertThrottled
  <2>1. DOMAIN raises = 0..(Window - 1)
    BY <1>1 DEF GateInv, GateType
  <2> SUFFICES ASSUME NEW a \in 0..(Window - 1), NEW b \in 0..(Window - 1)
               PROVE  raises[a] <= 1 /\ (a # b => raises[a] + raises[b] <= 1)
    BY <2>1 DEF AlertThrottled
  <2>2. raises[a] = (IF a = last THEN 1 ELSE 0) /\ raises[b] = IF b = last THEN 1 ELSE 0
    BY <1>1 DEF GateInv, ThrottleInv
  <2> QED BY <2>2
<1> QED BY <1>1, GateInitInv, GateStepInv, PTL DEF GateSpec

----------------------------------------------------------------------------
(* The key set. *)

(* The values the key set's variables take. *)
JwksType ==
  /\ keys \in SUBSET Kids /\ attempt \in 0..Attempts /\ task \in {"wait", "fetch"} /\ timer \in Nat
  /\ docs \subseteq KeySets /\ served \in KeySets
  /\ healthy \in BOOLEAN /\ up \in BOOLEAN /\ calm \in Nat

(* A fetch that began after the last disturbance is sure to bring what is
   published; one that did not has been under way since before it. *)
FetchInv ==
  /\ ~up => calm = 0
  /\ task = "fetch" => /\ timer <= FetchTimeout
                       /\ healthy => up
                       /\ calm <= timer \/ (healthy /\ docs = {served})

(* The loop waits for the steady interval at most, and without keys for the
   degraded one, at boot included. *)
PauseInv == task = "wait" => timer <= SteadyInterval /\ (keys = {} => timer <= DegradedInterval)

(* A fetch that failed or was stale, a pause, the fetch that follows: calm
   cannot be older than what of these has gone by. *)
Within(interval) ==
  calm <= FetchTimeout + interval + (IF task = "fetch" THEN timer ELSE -timer)

(* Both bounds of KeysConverge, as they stand at every moment before they fall due. *)
CalmInv ==
  /\ keys = {} => Within(DegradedInterval)
  /\ keys # served => Within(SteadyInterval)

(* The invariant of the key set. *)
JwksInv == JwksType /\ FetchInv /\ PauseInv /\ CalmInv

(* What is assumed of the intervals. *)
LEMMA JwksNat ==
  /\ Attempts \in Nat \ {0} /\ Backoff \in Nat /\ FetchTimeout \in Nat
  /\ DegradedInterval \in Nat /\ SteadyInterval \in Nat
  /\ DegradedInterval <= SteadyInterval
BY JwksAssumption

(* The pauses at boot are shorter than the degraded interval. *)
LEMMA PauseBound ==
  ASSUME NEW a \in 1..(Attempts - 1)
  PROVE  a * Backoff \in Nat /\ a * Backoff <= DegradedInterval
<1>1. a \in Nat /\ Attempts - 1 \in Nat /\ Backoff \in Nat /\ a <= Attempts - 1
  BY JwksNat
<1>2. a * Backoff <= (Attempts - 1) * Backoff
  <2>1. (Attempts - 1) * Backoff = a * Backoff + ((Attempts - 1) - a) * Backoff
    BY <1>1
  <2>2. ((Attempts - 1) - a) * Backoff \in Nat /\ a * Backoff \in Nat
    BY <1>1
  <2> QED BY <2>1, <2>2
<1>3. a * Backoff \in Nat /\ (Attempts - 1) * Backoff \in Nat
  BY <1>1
<1> QED BY <1>2, <1>3, JwksAssumption

(* It holds when the process comes up. *)
LEMMA JwksInitInv == JwksInit => JwksInv
<1> SUFFICES ASSUME JwksInit PROVE JwksInv
  OBVIOUS
<1> USE JwksNat
<1>1. JwksType
  BY DEF JwksInit, JwksType, KeySets
<1>2. FetchInv /\ PauseInv /\ CalmInv
  BY DEF JwksInit, FetchInv, PauseInv, CalmInv, Within
<1> QED BY <1>1, <1>2 DEF JwksInv

(* A rotation or an outage starts the clock again. *)
LEMMA DisturbInv == ASSUME JwksInv, Disturb PROVE JwksInv'
<1> USE JwksNat
<1>1. /\ up' \in BOOLEAN /\ served' \in KeySets /\ calm' = 0
      /\ keys' = keys /\ attempt' = attempt /\ task' = task /\ timer' = timer
  BY DEF Disturb, JwksInv, JwksType
<1>2. task = "fetch" => docs' = docs \cup {served'} /\ healthy' = (healthy /\ up')
  BY DEF Disturb
<1>3. task # "fetch" => docs' = {served'} /\ healthy' = healthy
  BY DEF Disturb
<1>4. JwksType'
  BY <1>1, <1>2, <1>3 DEF JwksInv, JwksType
<1>5. FetchInv'
  BY <1>1, <1>2 DEF JwksInv, JwksType, FetchInv
<1>6. PauseInv'
  BY <1>1 DEF JwksInv, PauseInv
<1>7. CalmInv'
  BY <1>1 DEF JwksInv, JwksType, PauseInv, CalmInv, Within
<1> QED BY <1>4, <1>5, <1>6, <1>7 DEF JwksInv

(* A restart drops the keys and goes back to the boot loop. *)
LEMMA RestartInv == ASSUME JwksInv, Restart PROVE JwksInv'
<1> USE JwksNat
<1>1. JwksType'
  BY DEF Restart, JwksInv, JwksType
<1>2. FetchInv' /\ PauseInv' /\ CalmInv'
  BY DEF Restart, FetchInv, PauseInv, CalmInv, Within
<1> QED BY <1>1, <1>2 DEF JwksInv

(* Time passes, in a pause or in a fetch. *)
LEMMA PassInv == ASSUME JwksInv, Pass PROVE JwksInv'
<1> USE JwksNat
<1>0. /\ keys \in SUBSET Kids /\ task \in {"wait", "fetch"} /\ timer \in Nat /\ calm \in Nat
  BY DEF JwksInv, JwksType
<1>1. /\ keys' = keys /\ attempt' = attempt /\ task' = task /\ docs' = docs
      /\ healthy' = healthy /\ served' = served /\ up' = up
      /\ task = "wait" => timer # 0 /\ timer' = timer - 1
      /\ task = "fetch" => timer # FetchTimeout /\ timer' = timer + 1
  BY <1>0 DEF Pass, Due
<1>2. calm' = calm \/ (up /\ calm' = calm + 1)
  BY DEF Pass
<1>3. timer' \in Nat /\ calm' \in Nat
  BY <1>0, <1>1, <1>2
<1>4. JwksType'
  BY <1>1, <1>3 DEF JwksInv, JwksType
<1>5. FetchInv'
  <2>1. ~up' => calm' = 0
    BY <1>1, <1>2 DEF JwksInv, FetchInv
  <2>2. ASSUME task' = "fetch"
        PROVE  timer' <= FetchTimeout /\ (healthy' => up') /\ (calm' <= timer' \/ (healthy' /\ docs' = {served'}))
    <3>1. timer <= FetchTimeout /\ (healthy => up) /\ (calm <= timer \/ (healthy /\ docs = {served}))
      BY <1>1, <2>2 DEF JwksInv, FetchInv
    <3> QED BY <1>0, <1>1, <1>2, <2>2, <3>1
  <2> QED BY <2>1, <2>2 DEF FetchInv
<1>6. PauseInv'
  BY <1>0, <1>1 DEF JwksInv, PauseInv
<1>7. ASSUME NEW i \in Nat, Within(i) PROVE Within(i)'
  <2>1. CASE task = "fetch"
    BY <1>0, <1>1, <1>2, <1>7, <2>1 DEF Within
  <2>2. CASE task = "wait"
    BY <1>0, <1>1, <1>2, <1>7, <2>2 DEF Within
  <2> QED BY <1>0, <2>1, <2>2
<1>8. CalmInv'
  BY <1>1, <1>7 DEF JwksInv, CalmInv
<1> QED BY <1>4, <1>5, <1>6, <1>8 DEF JwksInv

(* A pause begins: it is short enough, and calm is young unless the fetch
   brought what is published. *)
LEMMA WaitInv ==
  ASSUME JwksInv, NEW n \in Nat, n <= SteadyInterval, Wait(n), keys' \in SUBSET Kids, attempt' \in 0..Attempts,
         UNCHANGED << served, up, calm >>,
         keys' = {} => n <= DegradedInterval /\ calm <= FetchTimeout,
         keys' # served => calm <= FetchTimeout
  PROVE  JwksInv'
<1> USE JwksNat
<1>1. task' = "wait" /\ timer' = n /\ docs' = {served} /\ healthy' = TRUE /\ served' = served /\ up' = up /\ calm' = calm
  BY DEF Wait
<1>2. JwksType'
  BY <1>1 DEF JwksInv, JwksType
<1>3. FetchInv' /\ PauseInv'
  BY <1>1 DEF JwksInv, FetchInv, PauseInv
<1>4. calm \in Nat
  BY DEF JwksInv, JwksType
<1>5. CalmInv'
  BY <1>1, <1>4 DEF CalmInv, Within
<1> QED BY <1>2, <1>3, <1>5 DEF JwksInv

(* A fetch brings one of the sets published while it ran. *)
LEMMA RefreshOKInv == ASSUME JwksInv, RefreshOK PROVE JwksInv'
<1> USE JwksNat
<1> DEFINE n == IF keys' = {} THEN DegradedInterval ELSE SteadyInterval
<1>1. /\ task = "fetch" /\ keys' \in docs /\ attempt' = 0 /\ Wait(n)
      /\ UNCHANGED << served, up, calm >>
  BY DEF RefreshOK, LoopWait
<1>2. keys' \in SUBSET Kids /\ keys' # {}
  BY <1>1 DEF JwksInv, JwksType, KeySets
<1>3. n \in Nat /\ n <= SteadyInterval /\ attempt' \in 0..Attempts
  BY <1>1
<1>4. keys' # served => calm <= FetchTimeout
  <2>1. timer <= FetchTimeout /\ timer \in Nat /\ calm \in Nat /\ (calm <= timer \/ docs = {served})
    BY <1>1 DEF JwksInv, JwksType, FetchInv
  <2> QED BY <1>1, <2>1
<1> HIDE DEF n
<1> QED BY <1>1, <1>2, <1>3, <1>4, WaitInv

(* A failed fetch sets the pause that follows it. *)
LEMMA RefreshFailsInv == ASSUME JwksInv, RefreshFails PROVE JwksInv'
<1> USE JwksNat
<1>1. task = "fetch" /\ ~healthy /\ keys' = keys /\ UNCHANGED << served, up, calm >>
  BY DEF RefreshFails
<1>2. calm <= FetchTimeout
  BY <1>1 DEF JwksInv, JwksType, FetchInv
<1>3. keys' \in SUBSET Kids /\ attempt \in 0..Attempts
  BY <1>1 DEF JwksInv, JwksType
<1>4. CASE attempt \in 1..(Attempts - 1)
  <2>1. attempt' = attempt + 1 /\ Wait(attempt * Backoff)
    BY <1>4 DEF RefreshFails
  <2> DEFINE n == attempt * Backoff
  <2>2. n \in Nat /\ n <= DegradedInterval /\ n <= SteadyInterval
    <3>1. n \in Nat /\ n <= DegradedInterval
      BY <1>4, PauseBound
    <3> HIDE DEF n
    <3> QED BY <3>1
  <2>3. attempt' \in 0..Attempts
    BY <1>4, <2>1
  <2> HIDE DEF n
  <2>4. Wait(n)
    BY <2>1 DEF n
  <2> QED BY <1>1, <1>2, <1>3, <2>2, <2>3, <2>4, WaitInv
<1>5. CASE attempt \notin 1..(Attempts - 1)
  <2> DEFINE n == IF keys = {} THEN DegradedInterval ELSE SteadyInterval
  <2>1. attempt' = 0 /\ Wait(n)
    BY <1>5 DEF RefreshFails, LoopWait
  <2>2. n \in Nat /\ n <= SteadyInterval /\ (keys' = {} => n <= DegradedInterval) /\ attempt' \in 0..Attempts
    BY <1>1, <2>1
  <2> HIDE DEF n
  <2> QED BY <1>1, <1>2, <1>3, <2>1, <2>2, WaitInv
<1> QED BY <1>4, <1>5

(* The pause is over and a fetch begins. *)
LEMMA WakeInv == ASSUME JwksInv, Wake PROVE JwksInv'
<1> USE JwksNat
<1>1. /\ task = "wait" /\ timer = 0 /\ task' = "fetch" /\ timer' = 0 /\ docs' = {served} /\ healthy' = up
      /\ keys' = keys /\ attempt' = attempt /\ served' = served /\ up' = up /\ calm' = calm
  BY DEF Wake, Fetch
<1>2. JwksType'
  BY <1>1 DEF JwksInv, JwksType
<1>3. FetchInv' /\ PauseInv'
  BY <1>1 DEF JwksInv, JwksType, FetchInv, PauseInv
<1>4. CalmInv'
  BY <1>1 DEF JwksInv, JwksType, CalmInv, Within
<1> QED BY <1>2, <1>3, <1>4 DEF JwksInv

(* A replica whose auth service is up and does not rotate its keys has some keys
   after the degraded interval and two fetch timeouts, and the published ones
   after the steady interval and two: no failure while starting leaves it
   without keys for longer. *)
THEOREM KeysArriveInTime == JwksSpec => []KeysConverge
<1>1. JwksInv /\ [JwksNext]_jwksVars => JwksInv'
  <2> SUFFICES ASSUME JwksInv, [JwksNext]_jwksVars PROVE JwksInv'
    OBVIOUS
  <2>1. CASE UNCHANGED jwksVars
    BY <2>1 DEF jwksVars, JwksInv, JwksType, FetchInv, PauseInv, CalmInv, Within
  <2> QED BY <2>1, DisturbInv, RestartInv, PassInv, RefreshOKInv, RefreshFailsInv, WakeInv DEF JwksNext
<1>2. ASSUME JwksInv PROVE KeysConverge
  <2> USE JwksNat
  <2>1. timer \in Nat /\ calm \in Nat /\ keys \in SUBSET Kids /\ served \in SUBSET Kids /\ task \in {"wait", "fetch"}
    BY <1>2 DEF JwksInv, JwksType, KeySets
  <2>2. ASSUME NEW i \in Nat, Within(i) PROVE calm <= i + 2 * FetchTimeout
    <3>1. CASE task = "fetch"
      BY <1>2, <2>1, <2>2, <3>1 DEF JwksInv, FetchInv, Within
    <3>2. CASE task = "wait"
      BY <2>1, <2>2, <3>2 DEF Within
    <3> QED BY <2>1, <3>1, <3>2
  <2>3. keys = {} => calm <= DegradedInterval + 2 * FetchTimeout
    BY <1>2, <2>2 DEF JwksInv, CalmInv
  <2>4. calm > SteadyInterval + 2 * FetchTimeout => keys = served
    BY <1>2, <2>1, <2>2 DEF JwksInv, CalmInv
  <2> QED BY <2>3, <2>4 DEF KeysConverge, Answer
<1> QED BY <1>1, <1>2, JwksInitInv, PTL DEF JwksSpec

----------------------------------------------------------------------------
(* Schema migration. *)

(* The first k statements of all the files. *)
Statement(k) == << ((k - 1) \div Chunks) + 1, ((k - 1) % Chunks) + 1 >>
(* The script up to statement k. *)
Part(k) == [i \in 1..k |-> Statement(i)]

(* What TypeOK says of a replica. *)
Process == [pc : {"down", "lock", "check", "exec", "record", "commit", "serving"},
            release : Releases \cup {0}, auto : BOOLEAN,
            file : Nat, chunk : Nat,
            ran : Seq(Statements), noted : SUBSET Files]

(* r is in its migration transaction. *)
InTx(r) == proc[r].pc \in {"check", "exec", "record", "commit"}

(* A replica's transaction continues the script where the database left it:
   m files are recorded or noted, and what would be committed is their script,
   with the chunks of the file that is being run. *)
Continues(r, m) ==
  LET p == proc[r] IN
  /\ recorded \cup p.noted = 1..m
  /\ p.file \in 1..(p.release + 1)
  /\ p.file <= m + 1
  /\ m = p.file - 1 \/ p.noted = {}
  /\ p.pc \in {"check", "commit"} => schema \o p.ran = Part(m * Chunks)
  /\ p.pc = "exec" => /\ p.file = m + 1 /\ p.file <= p.release
                      /\ p.chunk \in 1..Chunks
                      /\ schema \o p.ran = Part(m * Chunks + (p.chunk - 1))
  /\ p.pc = "record" => /\ p.file = m + 1 /\ p.file <= p.release
                        /\ schema \o p.ran = Part(m * Chunks + Chunks)
  /\ p.pc = "commit" => p.file = p.release + 1

(* A migration transaction holds the lock and continues the script. *)
TxInv ==
  \A r \in Replicas :
    /\ InTx(r) => lock = r /\ \E m \in Nat : Continues(r, m)
    /\ proc[r].pc = "lock" => proc[r].file = 1 /\ proc[r].ran = << >> /\ proc[r].noted = {}
    /\ proc[r].pc # "down" => proc[r].release \in Releases

(* The invariant of the migration; both properties are part of it. *)
MigrateInv == TypeOK /\ TxInv /\ SchemaMatchesRecord /\ ServesMigrated

(* Statement m * Chunks + c + 1 is chunk c + 1 of file m + 1. *)
LEMMA DivPlace ==
  ASSUME NEW m \in Nat, NEW c \in 0..(Chunks - 1)
  PROVE  (m * Chunks + c) \div Chunks = m /\ (m * Chunks + c) % Chunks = c
<1>1. Chunks \in Nat \ {0}
  BY MigrateBounds
<1> QED BY <1>1, Z3

(* One statement more. *)
LEMMA PartNext ==
  ASSUME NEW k \in Nat
  PROVE  Part(k + 1) = Append(Part(k), Statement(k + 1))
<1> DEFINE s == Part(k)
<1>1. s \in Seq({Statement(i) : i \in 1..k}) /\ Len(s) = k /\ \A i \in 1..k : s[i] = Statement(i)
  BY DEF Part
<1>2. DOMAIN Append(s, Statement(k + 1)) = 1..(k + 1)
  BY <1>1
<1>3. \A i \in 1..(k + 1) : Append(s, Statement(k + 1))[i] = Statement(i)
  BY <1>1
<1>4. Append(s, Statement(k + 1)) = [i \in 1..(k + 1) |-> Append(s, Statement(k + 1))[i]]
  BY <1>1, <1>2
<1> HIDE DEF s
<1>5. Append(s, Statement(k + 1)) = [i \in 1..(k + 1) |-> Statement(i)]
  BY <1>3, <1>4
<1> QED BY <1>5 DEF s, Part

(* The script of n files is its first n * Chunks statements. *)
LEMMA ScriptIsPart == ASSUME NEW n \in Nat PROVE Script(n) = Part(n * Chunks)
BY DEF Script, Part, Statement

(* Appending to the second part of a sequence appends to the whole. *)
LEMMA AppendLast ==
  ASSUME NEW T, NEW s \in Seq(T), NEW t \in Seq(T), NEW x \in T
  PROVE  s \o Append(t, x) = Append(s \o t, x)
OBVIOUS

(* What is assumed of the constants. *)
LEMMA ReleaseNat == Releases \cup {0} \subseteq Nat /\ Chunks \in Nat \ {0} /\ MaxFails \in Nat
BY ReleasesAssumption, MigrateBounds

(* An interval determines its end. *)
LEMMA IntervalTop == ASSUME NEW m \in Nat, NEW n \in Nat, 1..m = 1..n PROVE m = n
<1>1. m > n => m \in 1..m /\ m \notin 1..n
  OBVIOUS
<1>2. n > m => n \in 1..n /\ n \notin 1..m
  OBVIOUS
<1> QED BY <1>1, <1>2

(* A replica that has just come up, or gone on to serve. *)
LEMMA FreshProcess ==
  ASSUME NEW n \in Releases \cup {0}, NEW auto \in BOOLEAN, NEW s \in {"lock", "serving"}
  PROVE  LET w == [Down EXCEPT !.release = n, !.auto = auto, !.pc = s]
         IN  /\ w \in Process
             /\ w.pc = s /\ w.release = n /\ w.auto = auto /\ w.file = 1
             /\ w.ran = << >> /\ w.noted = {}
<1>1. Down \in Process /\ Down.file = 1 /\ Down.ran = << >> /\ Down.noted = {}
  BY DEF Down, Process
<1> HIDE DEF Down
<1>2. [Down EXCEPT !.release = n] \in Process
  BY <1>1 DEF Process
<1> DEFINE v == [Down EXCEPT !.release = n]
<1> DEFINE u == [v EXCEPT !.auto = auto]
<1>3. v.release = n /\ v.file = 1 /\ v.ran = << >> /\ v.noted = {}
  BY <1>1 DEF Process
<1> HIDE DEF v
<1>4. u \in Process
  BY <1>2 DEF Process, v
<1>5. u.release = n /\ u.file = 1 /\ u.ran = << >> /\ u.noted = {} /\ u.auto = auto
  BY <1>2, <1>3 DEF Process, v
<1> HIDE DEF u
<1> DEFINE w == [Down EXCEPT !.release = n, !.auto = auto, !.pc = s]
<1>6. w = [u EXCEPT !.pc = s]
  BY DEF u, v
<1> HIDE DEF w
<1>7. w \in Process
  BY <1>4, <1>6 DEF Process
<1>8. /\ w.pc = s /\ w.release = n /\ w.auto = auto /\ w.file = 1
      /\ w.ran = << >> /\ w.noted = {}
  BY <1>4, <1>5, <1>6 DEF Process
<1> QED BY <1>7, <1>8 DEF w

(* It holds of an empty database. *)
LEMMA MigrateInitInv == Init => MigrateInv
<1> SUFFICES ASSUME Init PROVE MigrateInv
  OBVIOUS
<1> USE ReleaseNat
<1>1. Down \in Process /\ Down.pc = "down"
  BY DEF Down, Process
<1>2. TypeOK
  BY <1>1 DEF Init, TypeOK, Process
<1>3. TxInv
  BY <1>1 DEF Init, TxInv, InTx
<1>4. SchemaMatchesRecord
  <2>1. 1..0 = {}
    OBVIOUS
  <2>2. Script(0) = << >>
    <3>1. 0 * Chunks = 0
      OBVIOUS
    <3> QED BY <3>1, <2>1 DEF Script
  <2> QED BY <2>1, <2>2 DEF Init, SchemaMatchesRecord
<1>5. ServesMigrated
  BY <1>1 DEF Init, ServesMigrated
<1> QED BY <1>2, <1>3, <1>4, <1>5 DEF MigrateInv

(* A replica's own step, which leaves the database alone. *)
LEMMA OwnStep ==
  ASSUME MigrateInv, NEW r \in Replicas,
         NEW w \in Process,
         proc' = [proc EXCEPT ![r] = w],
         schema' = schema, recorded' = recorded, fails' \in 0..MaxFails, lock' \in Replicas \cup {Free},
         \A q \in Replicas \ {r} : lock = q => lock' = q,
         InTx(r)' => lock' = r /\ \E m \in Nat : Continues(r, m)',
         w.pc = "lock" => w.file = 1 /\ w.ran = << >> /\ w.noted = {},
         w.pc # "down" => w.release \in Releases,
         w.pc = "serving" /\ w.auto => 1..w.release \subseteq recorded
  PROVE  MigrateInv'
<1>1. TypeOK'
  BY DEF MigrateInv, TypeOK, Process
<1>2. proc'[r] = w /\ \A q \in Replicas \ {r} : proc'[q] = proc[q]
  BY DEF MigrateInv, TypeOK
<1>3. TxInv'
  <2> SUFFICES ASSUME NEW q \in Replicas
               PROVE  /\ InTx(q)' => lock' = q /\ \E m \in Nat : Continues(q, m)'
                      /\ proc'[q].pc = "lock" => proc'[q].file = 1 /\ proc'[q].ran = << >> /\ proc'[q].noted = {}
                      /\ proc'[q].pc # "down" => proc'[q].release \in Releases
    BY DEF TxInv
  <2>1. CASE q = r
    BY <1>2, <2>1
  <2>2. CASE q # r
    <3>1. proc'[q] = proc[q]
      BY <1>2, <2>2
    <3>2. InTx(q)' <=> InTx(q)
      BY <3>1 DEF InTx
    <3>3. \A m \in Nat : Continues(q, m) => Continues(q, m)'
      BY <3>1 DEF Continues
    <3> QED BY <2>2, <3>1, <3>2, <3>3 DEF MigrateInv, TxInv
  <2> QED BY <2>1, <2>2
<1>4. SchemaMatchesRecord'
  BY DEF MigrateInv, SchemaMatchesRecord
<1>5. ServesMigrated'
  <2> SUFFICES ASSUME NEW q \in Replicas, proc'[q].pc = "serving", proc'[q].auto
               PROVE  1..proc'[q].release \subseteq recorded'
    BY DEF ServesMigrated
  <2> QED BY <1>2 DEF MigrateInv, ServesMigrated
<1> QED BY <1>1, <1>3, <1>4, <1>5 DEF MigrateInv

(* A replica comes up with some release. *)
LEMMA BootInv == ASSUME MigrateInv, NEW r \in Replicas, Boot(r) PROVE MigrateInv'
<1> USE ReleaseNat
<1>1. PICK n \in Releases, auto \in BOOLEAN :
        proc' = [proc EXCEPT ![r] = [Down EXCEPT !.release = n, !.auto = auto,
                                                 !.pc = IF auto THEN "lock" ELSE "serving"]]
  BY DEF Boot
<1> DEFINE s == IF auto THEN "lock" ELSE "serving"
<1> DEFINE w == [Down EXCEPT !.release = n, !.auto = auto, !.pc = s]
<1>s. s \in {"lock", "serving"} /\ (s = "serving" => ~auto)
  OBVIOUS
<1>2. w \in Process
      /\ w.pc = s /\ w.release = n /\ w.auto = auto /\ w.file = 1
      /\ w.ran = << >> /\ w.noted = {}
  <2>1. CASE auto = TRUE
    <3>1. w = [Down EXCEPT !.release = n, !.auto = TRUE, !.pc = "lock"] /\ s = "lock"
      BY <2>1
    <3>2. TRUE \in BOOLEAN /\ "lock" \in {"lock", "serving"} /\ n \in Releases \cup {0}
      OBVIOUS
    <3> HIDE DEF w, s
    <3> QED BY <2>1, <3>1, <3>2, FreshProcess
  <2>2. CASE auto = FALSE
    <3>1. w = [Down EXCEPT !.release = n, !.auto = FALSE, !.pc = "serving"] /\ s = "serving"
      BY <2>2
    <3>2. FALSE \in BOOLEAN /\ "serving" \in {"lock", "serving"} /\ n \in Releases \cup {0}
      OBVIOUS
    <3> HIDE DEF w, s
    <3> QED BY <2>2, <3>1, <3>2, FreshProcess
  <2> QED BY <2>1, <2>2
<1>3. proc' = [proc EXCEPT ![r] = w]
  BY <1>1
<1> HIDE DEF w, s
<1>4. ~InTx(r)'
  BY <1>s, <1>2, <1>3 DEF InTx, MigrateInv, TypeOK
<1>5. fails' \in 0..MaxFails /\ lock' \in Replicas \cup {Free} /\ lock' = lock /\ schema' = schema /\ recorded' = recorded
  BY DEF Boot, MigrateInv, TypeOK
<1> QED BY <1>s, <1>2, <1>3, <1>4, <1>5, OwnStep

(* With nothing noted the transaction starts from the database as it is. *)
LEMMA LockInv == ASSUME MigrateInv, NEW r \in Replicas, Lock(r) PROVE MigrateInv'
<1> USE ReleaseNat
<1> DEFINE w == [proc[r] EXCEPT !.pc = "check"]
<1>0. proc \in [Replicas -> Process]
      /\ schema \in Seq(Statements)
  BY DEF MigrateInv, TypeOK, Process
<1>1. /\ proc[r].pc = "lock" /\ proc[r].file = 1 /\ proc[r].ran = << >> /\ proc[r].noted = {}
      /\ proc[r].release \in Releases
  BY DEF Lock, MigrateInv, TxInv
<1>2. w \in Process
      /\ w.pc = "check" /\ w.release = proc[r].release /\ w.file = 1
      /\ w.ran = << >> /\ w.noted = {}
  BY <1>0, <1>1 DEF Process
<1>3. proc' = [proc EXCEPT ![r] = w]
  BY <1>0 DEF Lock
<1> HIDE DEF w
<1>4. fails' \in 0..MaxFails /\ lock' = r /\ lock = Free /\ schema' = schema /\ recorded' = recorded
  BY DEF Lock, MigrateInv, TypeOK
<1>5. PICK n \in Releases \cup {0} : recorded = 1..n /\ schema = Script(n)
  BY DEF MigrateInv, SchemaMatchesRecord
<1>6. proc'[r] = w
  BY <1>0, <1>3
<1>7. schema' \o w.ran = Part(n * Chunks)
  <2>1. schema' \o w.ran = schema
    BY <1>0, <1>2, <1>4
  <2> QED BY <1>5, <2>1, ScriptIsPart
<1>8. Continues(r, n)'
  <2>1. w.file \in 1..(w.release + 1) /\ w.file <= n + 1
    BY <1>1, <1>2
  <2>2. recorded' \cup w.noted = 1..n
    BY <1>2, <1>4, <1>5
  <2> QED BY <1>2, <1>6, <1>7, <2>1, <2>2 DEF Continues
<1>9. Free \notin Replicas
  BY MigrateFree
<1> QED BY <1>1, <1>2, <1>3, <1>4, <1>8, <1>9, OwnStep

(* What a replica in its transaction can count on. *)
LEMMA TxFacts ==
  ASSUME MigrateInv, NEW r \in Replicas, InTx(r)
  PROVE  /\ proc \in [Replicas -> Process]
         /\ schema \in Seq(Statements)
         /\ lock = r /\ proc[r].release \in Releases
         /\ fails \in 0..MaxFails
         /\ \E m \in Nat : Continues(r, m)
BY DEF MigrateInv, TypeOK, TxInv, InTx, Process

(* A file that is recorded is passed over, another is begun. *)
LEMMA CheckInv == ASSUME MigrateInv, NEW r \in Replicas, Check(r) PROVE MigrateInv'
<1> USE ReleaseNat
<1> DEFINE p == proc[r]
<1>0. InTx(r) /\ p.pc = "check"
  BY DEF Check, InTx
<1>1. PICK m \in Nat : Continues(r, m)
  BY <1>0, TxFacts
<1>2. /\ recorded \cup p.noted = 1..m /\ p.file \in 1..(p.release + 1) /\ p.file <= m + 1
      /\ m = p.file - 1 \/ p.noted = {}
      /\ schema \o p.ran = Part(m * Chunks)
  BY <1>0, <1>1 DEF Continues
<1> DEFINE w == IF p.file > p.release THEN [p EXCEPT !.pc = "commit"]
                ELSE IF p.file \in recorded \cup p.noted THEN [p EXCEPT !.file = @ + 1]
                ELSE [p EXCEPT !.pc = "exec", !.chunk = 1]
<1>p. p \in Process
  BY <1>0, TxFacts
<1>3. p.release \in Nat /\ p.file \in Nat
  BY <1>p DEF Process
<1>4. w \in Process /\ w.release = p.release /\ w.ran = p.ran /\ w.noted = p.noted
  <2> HIDE DEF p
  <2>1. CASE w = [p EXCEPT !.pc = "commit"]
    BY <1>p, <2>1 DEF Process
  <2>2. CASE w = [p EXCEPT !.file = @ + 1]
    <3>1. p.file + 1 \in Nat
      BY <1>3
    <3>2. \A f \in Nat : /\ [p EXCEPT !.file = f] \in Process
                         /\ [p EXCEPT !.file = f].release = p.release
                         /\ [p EXCEPT !.file = f].ran = p.ran
                         /\ [p EXCEPT !.file = f].noted = p.noted
      BY <1>p DEF Process
    <3> HIDE DEF w
    <3> QED BY <2>2, <3>1, <3>2
  <2>3. CASE w = [p EXCEPT !.pc = "exec", !.chunk = 1]
    BY <1>p, <2>3 DEF Process
  <2> QED BY <2>1, <2>2, <2>3
<1>5. \/ p.file > p.release /\ w.pc = "commit" /\ w.file = p.file
      \/ p.file <= p.release /\ p.file \in 1..m /\ w.pc = "check" /\ w.file = p.file + 1
      \/ p.file <= p.release /\ p.file \notin 1..m /\ w.pc = "exec" /\ w.file = p.file /\ w.chunk = 1
  BY <1>0, <1>p, <1>2, <1>3 DEF Process
<1>6. proc' = [proc EXCEPT ![r] = w] /\ schema' = schema /\ recorded' = recorded /\ lock' = lock /\ fails' = fails
  BY DEF Check
<1> HIDE DEF w
<1>7. proc'[r] = w
  BY <1>0, <1>6, TxFacts
<1>8. Continues(r, m)'
  <2>1. w.file \in 1..(w.release + 1) /\ w.file <= m + 1 /\ (m = w.file - 1 \/ w.noted = {})
    <3>1. p.file \in 1..(p.release + 1) /\ p.file <= m + 1 /\ (m = p.file - 1 \/ p.noted = {})
      BY <1>2
    <3> HIDE DEF p
    <3>2. CASE w.file = p.file
      BY <1>4, <3>1, <3>2
    <3>3. CASE p.file <= p.release /\ p.file \in 1..m /\ w.file = p.file + 1
      BY <1>3, <1>4, <3>1, <3>3
    <3> QED BY <1>5, <3>2, <3>3
  <2>2. w.pc \in {"check", "commit"} => schema \o w.ran = Part(m * Chunks)
    BY <1>2, <1>4
  <2>3. w.pc = "exec" => /\ w.file = m + 1 /\ w.file <= w.release
                         /\ w.chunk \in 1..Chunks
                         /\ schema \o w.ran = Part(m * Chunks + (w.chunk - 1))
    <3> SUFFICES ASSUME w.pc = "exec"
                 PROVE  /\ w.file = m + 1 /\ w.file <= w.release
                        /\ w.chunk \in 1..Chunks
                        /\ schema \o w.ran = Part(m * Chunks + (w.chunk - 1))
      OBVIOUS
    <3>1. w.chunk = 1 /\ w.file = p.file /\ p.file <= p.release /\ p.file \notin 1..m
      BY <1>5
    <3>2. m * Chunks + (w.chunk - 1) = m * Chunks
      BY <3>1
    <3> QED BY <1>2, <1>3, <1>4, <3>1, <3>2
  <2>4. w.pc = "commit" => w.file = w.release + 1
    BY <1>2, <1>3, <1>4, <1>5
  <2>5. w.pc # "record"
    BY <1>5
  <2>6. recorded' \cup w.noted = 1..m
    BY <1>2, <1>4, <1>6
  <2> HIDE DEF p
  <2>7. schema' = schema
    BY <1>6
  <2> QED BY <1>7, <2>1, <2>2, <2>3, <2>4, <2>5, <2>6, <2>7 DEF Continues
<1>9. w.pc # "lock" /\ w.pc # "serving"
  BY <1>5
<1>10. lock = r /\ fails \in 0..MaxFails /\ w.release \in Releases
  BY <1>0, <1>4, TxFacts
<1> QED BY <1>4, <1>6, <1>8, <1>9, <1>10, OwnStep

(* The chunk that execSQL runs is the next statement of the script. *)
LEMMA ExecInv == ASSUME MigrateInv, NEW r \in Replicas, Exec(r) PROVE MigrateInv'
<1> USE ReleaseNat
<1> DEFINE p == proc[r]
<1>0. InTx(r) /\ p.pc = "exec"
  BY DEF Exec, InTx
<1>1. PICK m \in Nat : Continues(r, m)
  BY <1>0, TxFacts
<1>2. /\ recorded \cup p.noted = 1..m /\ p.file \in 1..(p.release + 1) /\ p.file <= m + 1
      /\ m = p.file - 1 \/ p.noted = {}
      /\ p.file = m + 1 /\ p.file <= p.release /\ p.chunk \in 1..Chunks
      /\ schema \o p.ran = Part(m * Chunks + (p.chunk - 1))
  BY <1>0, <1>1 DEF Continues
<1>p. p \in Process
  BY <1>0, TxFacts
<1> DEFINE x == << p.file, p.chunk >>
<1> DEFINE w == [p EXCEPT !.ran = Append(@, x),
                          !.pc = IF p.chunk = Chunks THEN "record" ELSE "exec",
                          !.chunk = @ + 1]
<1>3. x \in Statements
  <2>1. p.file \in 1..p.release /\ p.release \in Releases
    BY <1>0, <1>2, TxFacts
  <2> QED BY <1>2, <2>1 DEF Statements, Files
<1>4. w \in Process
      /\ w.release = p.release /\ w.ran = Append(p.ran, x) /\ w.noted = p.noted
      /\ w.pc = (IF p.chunk = Chunks THEN "record" ELSE "exec") /\ w.file = p.file
      /\ w.chunk = p.chunk + 1
  <2> HIDE DEF x
  <2>1. Append(p.ran, x) \in Seq(Statements)
    BY <1>3, <1>p DEF Process
  <2>2. p.chunk + 1 \in Nat
    BY <1>p DEF Process
  <2> HIDE DEF p
  <2> QED BY <1>p, <2>1, <2>2 DEF Process
<1>5. proc' = [proc EXCEPT ![r] = w] /\ schema' = schema /\ recorded' = recorded /\ lock' = lock /\ fails' = fails
  BY <1>0, TxFacts DEF Exec
<1> HIDE DEF w
<1>6. proc'[r] = w
  BY <1>0, <1>5, TxFacts
<1>7. schema \o w.ran = Part(m * Chunks + p.chunk)
  <2> DEFINE k == m * Chunks + (p.chunk - 1)
  <2>0. p.chunk \in 1..Chunks /\ m * Chunks \in Nat
    BY <1>2
  <2>1. k \in Nat /\ k + 1 = m * Chunks + p.chunk /\ (k + 1) - 1 = k /\ p.chunk - 1 \in 0..(Chunks - 1)
    BY <2>0
  <2>2. k \div Chunks = m /\ k % Chunks = p.chunk - 1
    BY <2>1, DivPlace
  <2>3. schema \in Seq(Statements) /\ p.ran \in Seq(Statements)
    BY <1>0, <1>p, TxFacts DEF Process
  <2>4. schema \o w.ran = Append(Part(k), x)
    <3> HIDE DEF x, p
    <3>1. schema \o Append(p.ran, x) = Append(schema \o p.ran, x)
      BY <1>3, <2>3, AppendLast
    <3> QED BY <1>2, <1>4, <3>1
  <2> HIDE DEF k
  <2>5. Statement(k + 1) = x
    <3>1. p.file = m + 1 /\ p.chunk = (p.chunk - 1) + 1
      BY <1>2, <2>0
    <3> QED BY <2>1, <2>2, <3>1 DEF Statement
  <2> QED BY <2>1, <2>4, <2>5, PartNext
<1>8. Continues(r, m)'
  <2>1. w.pc = "exec" => /\ w.file = m + 1 /\ w.file <= w.release
                         /\ w.chunk \in 1..Chunks
                         /\ schema \o w.ran = Part(m * Chunks + (w.chunk - 1))
    <3>0. p.chunk \in 1..Chunks /\ w.chunk = p.chunk + 1
      BY <1>2, <1>4
    <3>1. w.chunk - 1 = p.chunk /\ (p.chunk # Chunks => w.chunk \in 1..Chunks)
      BY <3>0
    <3> QED BY <1>2, <1>4, <1>7, <3>1
  <2>2. w.pc = "record" => /\ w.file = m + 1 /\ w.file <= w.release
                           /\ schema \o w.ran = Part(m * Chunks + Chunks)
    BY <1>2, <1>4, <1>7
  <2>3. w.pc \in {"exec", "record"}
    BY <1>4
  <2> QED BY <1>2, <1>4, <1>5, <1>6, <2>1, <2>2, <2>3 DEF Continues
<1>9. w.pc # "lock" /\ w.pc # "serving"
  BY <1>4
<1>10. lock = r /\ fails \in 0..MaxFails /\ w.release \in Releases
  BY <1>0, <1>4, TxFacts
<1> QED BY <1>4, <1>5, <1>8, <1>9, <1>10, OwnStep

(* The file is noted in schema_migrations, not yet committed. *)
LEMMA RecordInv == ASSUME MigrateInv, NEW r \in Replicas, Record(r) PROVE MigrateInv'
<1> USE ReleaseNat
<1> DEFINE p == proc[r]
<1>0. InTx(r) /\ p.pc = "record"
  BY DEF Record, InTx
<1>1. PICK m \in Nat : Continues(r, m)
  BY <1>0, TxFacts
<1>2. /\ recorded \cup p.noted = 1..m /\ p.file = m + 1 /\ p.file <= p.release
      /\ schema \o p.ran = Part(m * Chunks + Chunks)
  BY <1>0, <1>1 DEF Continues
<1> DEFINE w == [p EXCEPT !.noted = @ \cup {p.file}, !.file = @ + 1, !.pc = "check"]
<1>3. p \in Process
      /\ p.release \in Releases
  BY <1>0, TxFacts
<1>4. w \in Process
      /\ w.release = p.release /\ w.ran = p.ran /\ w.noted = p.noted \cup {p.file}
      /\ w.pc = "check" /\ w.file = p.file + 1
  <2>1. p.file \in Files /\ p.file + 1 \in Nat
    BY <1>2, <1>3 DEF Files
  <2> HIDE DEF p
  <2> QED BY <1>3, <2>1 DEF Process
<1>5. proc' = [proc EXCEPT ![r] = w] /\ schema' = schema /\ recorded' = recorded /\ lock' = lock /\ fails' = fails
  BY <1>0, TxFacts DEF Record
<1> HIDE DEF w
<1>6. proc'[r] = w
  BY <1>0, <1>5, TxFacts
<1>7. Continues(r, m + 1)'
  <2>1. recorded \cup w.noted = 1..(m + 1)
    <3>1. recorded \cup w.noted = (1..m) \cup {m + 1}
      BY <1>2, <1>4
    <3>2. (1..m) \cup {m + 1} = 1..(m + 1)
      OBVIOUS
    <3> QED BY <3>1, <3>2
  <2>2. m * Chunks + Chunks = (m + 1) * Chunks
    OBVIOUS
  <2>3. schema \o w.ran = Part((m + 1) * Chunks)
    BY <1>2, <1>4, <2>2
  <2>4. w.file \in 1..(w.release + 1) /\ w.file <= (m + 1) + 1 /\ m + 1 = w.file - 1
    BY <1>2, <1>3, <1>4
  <2> QED BY <1>4, <1>5, <1>6, <2>1, <2>3, <2>4 DEF Continues
<1>8. lock = r /\ fails \in 0..MaxFails /\ w.release \in Releases
  BY <1>0, <1>4, TxFacts
<1>9. m + 1 \in Nat
  OBVIOUS
<1> QED BY <1>4, <1>5, <1>7, <1>8, <1>9, OwnStep

(* What a failed transaction ran and noted is gone. *)
LEMMA FailInv == ASSUME MigrateInv, NEW r \in Replicas, Fail(r) PROVE MigrateInv'
<1> USE ReleaseNat
<1>1. Down \in Process /\ Down.pc = "down"
  BY DEF Down, Process
<1>2. /\ proc' = [proc EXCEPT ![r] = Down] /\ schema' = schema /\ recorded' = recorded
      /\ lock' = IF lock = r THEN Free ELSE lock
      /\ fails' = fails + 1 /\ fails < MaxFails
  BY DEF Fail
<1>3. fails' \in 0..MaxFails /\ lock' \in Replicas \cup {Free}
  BY <1>2 DEF MigrateInv, TypeOK
<1>4. ~InTx(r)'
  BY <1>1, <1>2 DEF InTx, MigrateInv, TypeOK
<1>5. \A q \in Replicas \ {r} : lock = q => lock' = q
  BY <1>2
<1>6. Down.pc # "lock" /\ Down.pc # "serving"
  BY <1>1
<1> HIDE DEF Down
<1> QED BY <1>1, <1>2, <1>3, <1>4, <1>5, <1>6, OwnStep

(* What COMMIT makes visible is the script of the files it records, and the
   replica it starts to serve has all of its own. *)
LEMMA CommittedInv ==
  ASSUME MigrateInv, NEW r \in Replicas, proc[r].pc = "commit", Committed(r),
         NEW w \in Process,
         proc' = [proc EXCEPT ![r] = w], fails' \in 0..MaxFails,
         w.pc = "down" \/ (w.pc = "serving" /\ w.release = proc[r].release)
  PROVE  MigrateInv'
<1> USE ReleaseNat
<1> DEFINE p == proc[r]
<1>0. InTx(r)
  BY DEF InTx
<1>1. PICK m \in Nat : Continues(r, m)
  BY <1>0, TxFacts
<1>2. /\ recorded \cup p.noted = 1..m /\ p.file <= m + 1 /\ p.file = p.release + 1
      /\ m = p.file - 1 \/ p.noted = {}
      /\ schema \o p.ran = Part(m * Chunks)
  BY <1>1 DEF Continues
<1>3. schema' = Part(m * Chunks) /\ recorded' = 1..m /\ lock' = Free
  BY <1>2 DEF Committed
<1>4. p.release \in Releases /\ p.release <= m
  BY <1>0, <1>2, TxFacts
<1>5. m \in Releases \cup {0}
  <2>1. CASE m = p.file - 1
    BY <1>2, <1>4, <2>1
  <2>2. CASE p.noted = {}
    <3>1. PICK n \in Releases \cup {0} : recorded = 1..n
      BY DEF MigrateInv, SchemaMatchesRecord
    <3>2. 1..m = 1..n /\ n \in Nat
      BY <1>2, <2>2, <3>1
    <3> QED BY <3>2, IntervalTop
  <2> QED BY <1>2, <2>1, <2>2
<1>6. SchemaMatchesRecord'
  BY <1>3, <1>5, ScriptIsPart DEF SchemaMatchesRecord
<1>7. recorded \subseteq recorded' /\ 1..p.release \subseteq recorded'
  BY <1>2, <1>3, <1>4
<1>8. proc'[r] = w /\ \A q \in Replicas \ {r} : proc'[q] = proc[q]
  BY <1>0, TxFacts
<1>9. ServesMigrated'
  <2> SUFFICES ASSUME NEW q \in Replicas, proc'[q].pc = "serving", proc'[q].auto
               PROVE  1..proc'[q].release \subseteq recorded'
    BY DEF ServesMigrated
  <2>1. CASE q = r
    BY <1>7, <1>8, <2>1
  <2>2. CASE q # r
    BY <1>7, <1>8, <2>2 DEF MigrateInv, ServesMigrated
  <2> QED BY <2>1, <2>2
<1>10. TxInv'
  <2> SUFFICES ASSUME NEW q \in Replicas
               PROVE  /\ ~InTx(q)'
                      /\ proc'[q].pc = "lock" => proc'[q].file = 1 /\ proc'[q].ran = << >> /\ proc'[q].noted = {}
                      /\ proc'[q].pc # "down" => proc'[q].release \in Releases
    BY DEF TxInv
  <2>1. CASE q = r
    BY <1>4, <1>8, <2>1 DEF InTx
  <2>2. CASE q # r
    <3>1. proc'[q] = proc[q]
      BY <1>8, <2>2
    <3>2. ~InTx(q)
      BY <1>0, <2>2, TxFacts
    <3> QED BY <3>1, <3>2 DEF InTx, MigrateInv, TxInv
  <2> QED BY <2>1, <2>2
<1>11. TypeOK'
  <2>1. schema' \in Seq(Statements) /\ recorded' \subseteq Files
    <3>1. schema \in Seq(Statements) /\ p.ran \in Seq(Statements) /\ recorded \subseteq Files /\ p.noted \subseteq Files
      BY DEF MigrateInv, TypeOK
    <3> QED BY <3>1 DEF Committed
  <2> QED BY <1>0, <1>3, <2>1, TxFacts DEF TypeOK, Process
<1> QED BY <1>6, <1>9, <1>10, <1>11 DEF MigrateInv

(* Every step keeps the invariant. *)
LEMMA MigrateStepInv == MigrateInv /\ [Next]_vars => MigrateInv'
<1> SUFFICES ASSUME MigrateInv, [Next]_vars PROVE MigrateInv'
  OBVIOUS
<1> USE ReleaseNat
<1>1. ASSUME NEW r \in Replicas, Commit(r) PROVE MigrateInv'
  <2> DEFINE w == [Down EXCEPT !.pc = "serving", !.auto = TRUE, !.release = proc[r].release]
  <2>0. proc[r].pc = "commit" /\ Committed(r) /\ proc' = [proc EXCEPT ![r] = w] /\ fails' = fails
    BY <1>1 DEF Commit
  <2>1. proc[r].release \in Releases \cup {0} /\ fails \in 0..MaxFails
    BY DEF MigrateInv, TypeOK
  <2>2. w \in Process
        /\ w.pc = "serving" /\ w.release = proc[r].release
    <3>1. Down \in Process
      BY DEF Down, Process
    <3>2. w = [Down EXCEPT !.release = proc[r].release, !.auto = TRUE, !.pc = "serving"]
      BY <3>1, Zenon DEF Process
    <3>3. TRUE \in BOOLEAN /\ "serving" \in {"lock", "serving"}
      OBVIOUS
    <3> HIDE DEF w
    <3>4. proc[r].release \in Releases \cup {0}
      BY <2>1
    <3> QED BY <3>2, <3>3, <3>4, FreshProcess
  <2> HIDE DEF w
  <2> QED BY <2>0, <2>1, <2>2, CommittedInv
<1>2. ASSUME NEW r \in Replicas, CommitUnheard(r) PROVE MigrateInv'
  <2>1. Down \in Process /\ Down.pc = "down"
    BY DEF Down, Process
  <2>2. proc[r].pc = "commit" /\ Committed(r) /\ proc' = [proc EXCEPT ![r] = Down]
        /\ fails' = fails + 1 /\ fails < MaxFails
    BY <1>2 DEF CommitUnheard
  <2>3. fails' \in 0..MaxFails
    BY <2>2 DEF MigrateInv, TypeOK
  <2> QED BY <2>1, <2>2, <2>3, CommittedInv
<1>3. CASE UNCHANGED vars
  <2>1. schema' = schema /\ recorded' = recorded /\ lock' = lock /\ proc' = proc /\ fails' = fails
    BY <1>3 DEF vars
  <2>2. TypeOK'
    BY <2>1 DEF MigrateInv, TypeOK
  <2>3. TxInv'
    <3>1. \A r : InTx(r)' <=> InTx(r)
      BY <2>1 DEF InTx
    <3>2. \A r, m : Continues(r, m)' <=> Continues(r, m)
      BY <2>1 DEF Continues
    <3> QED BY <2>1, <3>1, <3>2 DEF MigrateInv, TxInv
  <2>4. SchemaMatchesRecord' /\ ServesMigrated'
    BY <2>1 DEF MigrateInv, SchemaMatchesRecord, ServesMigrated
  <2> QED BY <2>2, <2>3, <2>4 DEF MigrateInv
<1> QED BY <1>1, <1>2, <1>3, BootInv, LockInv, CheckInv, ExecInv, RecordInv, FailInv DEF Next, Work

(* The schema is at every moment the result of running exactly the recorded
   files, each once, whole and in order, whichever replicas of whichever releases
   start together and wherever they die. *)
THEOREM MigratedExactly == Spec => [](TypeOK /\ SchemaMatchesRecord)
<1>1. MigrateInv => TypeOK /\ SchemaMatchesRecord
  BY DEF MigrateInv
<1> QED BY <1>1, MigrateInitInv, MigrateStepInv, PTL DEF Spec

(* A replica that was to migrate serves only once every file of its release is
   recorded. *)
THEOREM ServingIsMigrated == Spec => []ServesMigrated
<1>1. MigrateInv => ServesMigrated
  BY DEF MigrateInv
<1> QED BY <1>1, MigrateInitInv, MigrateStepInv, PTL DEF Spec
============================================================================
