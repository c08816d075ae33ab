---------------------------- MODULE TokenBucket ----------------------------
(***************************************************************************)
(* What the public rate limit promises: every client has a token bucket of *)
(* its own that is there for ever, holds at most Burst tokens, starts full *)
(* and gains Rate tokens in a unit of time.  A request takes a token and   *)
(* is refused only when there is none.                                     *)
(***************************************************************************)
EXTENDS Integers

CONSTANTS
  Clients,
  Burst,    \* capacity of a bucket
  Rate      \* tokens gained in a unit of time

VARIABLES
  level,    \* level[k]: tokens k has
  answer    \* the last request: its client and whether it was served

vars == << level, answer >>

Init ==
  /\ level = [k \in Clients |-> Burst]
  /\ answer \in [client : Clients, served : {TRUE}]

Serve(k) ==
  /\ level[k] > 0
  /\ level' = [level EXCEPT ![k] = @ - 1]
  /\ answer' = [client |-> k, served |-> TRUE]

Refuse(k) ==
  /\ level[k] = 0
  /\ answer' = [client |-> k, served |-> FALSE]
  /\ UNCHANGED level

Refilled(n) == IF n + Rate > Burst THEN Burst ELSE n + Rate

Refill ==
  /\ level' = [k \in Clients |-> Refilled(level[k])]
  /\ UNCHANGED answer

Next == Refill \/ \E k \in Clients : Serve(k) \/ Refuse(k)

Spec == Init /\ [][Next]_vars
============================================================================
