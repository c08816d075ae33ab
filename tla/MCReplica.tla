----------------------------- MODULE MCReplica -----------------------------
(***************************************************************************)
(* What a replica does of its own, for TLC: the migration at start-up, and *)
(* then what it keeps in memory: the rate limit, the key set and the       *)
(* compliance gate's alert.  These share the process and nothing else, so  *)
(* a behaviour is one of them at work while the others rest.  While the    *)
(* last three are at work all replicas serve and have not migrated.        *)
(***************************************************************************)
EXTENDS RateLimiter, Jwks, PublishGate, Migrate

VARIABLE part  \* the part at work

Rest == CHOOSE k \in Clients : TRUE
Serving == [Down EXCEPT !.pc = "serving", !.release = CHOOSE n \in Releases : TRUE]

MCInit ==
  /\ part \in {"migrate", "limiter", "jwks", "gate"}
  /\ IF part = "migrate"
       THEN Init
       ELSE /\ schema = << >> /\ recorded = {} /\ lock = Free /\ fails = 0
            /\ proc = [r \in Replicas |-> Serving]
  /\ LimiterInit /\ JwksInit /\ GateInit
  /\ part # "limiter" => verdict.client = Rest
  /\ part # "jwks" => up /\ served = Kids
  /\ part # "gate" => scm /\ addressed /\ compliant

MCNext ==
  /\ UNCHANGED part
  /\ \/ part = "migrate" /\ Next /\ UNCHANGED << limiterVars, jwksVars, gateVars >>
     \/ part = "limiter" /\ LimiterNext /\ UNCHANGED << vars, jwksVars, gateVars >>
     \/ part = "jwks" /\ JwksNext /\ UNCHANGED << vars, limiterVars, gateVars >>
     \/ part = "gate" /\ GateNext /\ UNCHANGED << vars, limiterVars, jwksVars >>

(* Migrate's fairness, for the behaviours that migrate. *)
MCFairness ==
  \A r \in Replicas :
    WF_vars(part = "migrate" /\ Work(r)) /\ SF_vars(part = "migrate" /\ Lock(r))

MCSpec == MCInit /\ [][MCNext]_<< part, vars, limiterVars, jwksVars, gateVars >> /\ MCFairness
============================================================================
