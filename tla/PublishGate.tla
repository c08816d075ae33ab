---------------------------- MODULE PublishGate ----------------------------
(***************************************************************************)
(* The compliance gate in front of a QR publication and the alert that is  *)
(* raised when it cannot be asked (internal/handlers PublishLotQR,         *)
(* internal/story compliance.go, internal/scmclient, internal/notify).     *)
(*                                                                         *)
(* With SCM configured, its publish-gate endpoint decides; otherwise a     *)
(* certificate of analysis among the local events does.  When SCM cannot   *)
(* be asked the answer is 503 and the ops desk gets a mail, at most one in *)
(* a window.  Requests for one lot run concurrently; the window and the    *)
(* throttle are the replica's.  What follows a pass is QrLifecycle's       *)
(* Publish.                                                                *)
(*                                                                         *)
(* Ages are in units of time and stop counting at Window.                  *)
(***************************************************************************)
EXTENDS Integers

CONSTANTS
  Requests,     \* concurrent POST /lots/:businessId/qr requests
  Window,       \* complianceGateAlertWindow
  NotifierSet   \* whether API.Notify is set

ASSUME GateAssumption == Window \in Nat \ {0} /\ NotifierSet \in BOOLEAN

VARIABLES
  scm,        \* scmFetcher is enabled
  addressed,  \* a local environment or a public base URL
  compliant,  \* what SCM's gate says of the lot, or whether it has a CoA
  request,    \* request[r]: its step, whether its client has gone, what it heard
              \* of the gate, and (history) whether the lot was compliant at
              \* some time since it came in
  last,       \* Publisher.last["compliance-gate-unavailable"]: its age
  raises,     \* history, raises[a]: alerts this process raised a units ago
  told,       \* history: age of the last alert that reached Kafka
  lost,       \* history: age of the last alert that did not
  blocked     \* history: the gate's 503 was answered in this unit of time

gateVars == << scm, addressed, compliant, request, last, raises, told, lost, blocked >>

NoRequest == [step |-> "idle", gone |-> FALSE, ok |-> FALSE, heard |-> "nothing"]

GateInit ==
  /\ scm \in BOOLEAN
  /\ addressed \in BOOLEAN
  /\ compliant \in BOOLEAN
  /\ request = [r \in Requests |-> NoRequest]
  /\ last = Window
  /\ raises = [a \in 0..(Window - 1) |-> 0]
  /\ told = Window
  /\ lost = Window
  /\ blocked = FALSE

alertVars == << last, raises, told, lost >>

GateGoto(r, s) == request' = [request EXCEPT ![r].step = s]
GateAnswer(r)  == request' = [request EXCEPT ![r] = NoRequest]

----------------------------------------------------------------------------
(* The lot gains or loses compliance; local events are never deleted. *)
Reassess ==
  /\ scm \/ ~compliant
  /\ compliant' = ~compliant
  /\ request' = [r \in Requests |->
       [request[r] EXCEPT !.ok = request[r].step # "idle" /\ (@ \/ compliant')]]
  /\ UNCHANGED << scm, addressed, blocked, alertVars >>

(* The client gives up: the request's context is cancelled. *)
Leave(r) ==
  /\ request[r].step # "idle"
  /\ ~request[r].gone
  /\ request' = [request EXCEPT ![r].gone = TRUE]
  /\ UNCHANGED << scm, addressed, compliant, blocked, alertVars >>

(* PublishLotQR: with no public address the answer is 503 at once. *)
PublishLotQR(r) ==
  /\ request[r].step = "idle"
  /\ IF addressed
       THEN request' = [request EXCEPT
              ![r] = [NoRequest EXCEPT !.step = "gate", !.ok = compliant]]
       ELSE GateAnswer(r)
  /\ UNCHANGED << scm, addressed, compliant, blocked, alertVars >>

(* SCM decides on the lot; its answer travels while the lot may be reassessed. *)
Decide(r) ==
  /\ scm
  /\ request[r].step = "gate" /\ request[r].heard = "nothing"
  /\ request' = [request EXCEPT ![r].heard = IF compliant THEN "open" ELSE "closed"]
  /\ UNCHANGED << scm, addressed, compliant, blocked, alertVars >>

(* The statuses and errors scmclient's request for the lot can end with.  The
   verdict arrives as 200 or 422, or does not; in its place, or without SCM having
   been asked, come an error status, the page of a proxy or of a followed redirect
   with a status below 400, an error whose text speaks of a timeout, a connection
   that breaks off, or nothing in time.  A cancelled request hears nothing. *)
Replies(r) ==
  IF request[r].gone THEN {"none"}
  ELSE {"page", "4xx", "5xx", "worded", "reset", "none"}
       \cup {s \in {"200"} : request[r].heard = "open"}
       \cup {s \in {"422"} : request[r].heard = "closed"}

(* scmclient ValidateLotPublish returns nil below 400 and does not read the body. *)
Passes(reply) == reply \in {"200", "page"}

(* isSCMTransportError: deadlines, cancellation, 5xx and every text that speaks of
   a timeout are; a connection that breaks off is not. *)
isSCMTransportError(reply) == reply \in {"5xx", "worded", "none"}

(* The request passes the gate, by a verdict or by a page that is none. *)
GatePass(r, as) ==
  request' = [request EXCEPT ![r].step = "mint", ![r].heard = as]

(* What the request takes an answer that passes it for. *)
Taken(reply) == IF reply = "page" THEN "page" ELSE "open"

(* Mutant of ValidateLotPublish: a gate that cannot be asked does not block. *)
ValidateFailsOpen(r, reply) ==
  IF Passes(reply) \/ isSCMTransportError(reply) THEN GatePass(r, Taken(reply)) ELSE GateAnswer(r)

(* nil, ErrComplianceGateUnavailable, or an error that is answered with 422. *)
ValidateLotPublish(r, reply) ==
  CASE Passes(reply) -> GatePass(r, Taken(reply))
    [] isSCMTransportError(reply) -> GateGoto(r, "alert")
    [] OTHER -> GateAnswer(r)

(* story.ValidateLotPublish, by SCM or by LotHasCOA (whose error is a 422, too). *)
Validate(r) ==
  /\ request[r].step = "gate"
  /\ IF scm
       THEN \E reply \in Replies(r) : ValidateLotPublish(r, reply)
       ELSE \/ compliant /\ ~request[r].gone /\ GatePass(r, "open")
            \/ GateAnswer(r)
  /\ UNCHANGED << scm, addressed, compliant, blocked, alertVars >>

(* allow: no entry, or one that is Window old. *)
allow == last >= Window

(* Mutant of AlertOnce: the time of the alert is not kept. *)
AlertUnmarked(r) ==
  /\ request[r].step = "alert"
  /\ IF NotifierSet /\ allow
       THEN raises' = [raises EXCEPT ![0] = @ + 1] /\ GateGoto(r, "publish") /\ UNCHANGED blocked
       ELSE GateAnswer(r) /\ blocked' = TRUE /\ UNCHANGED raises
  /\ UNCHANGED << scm, addressed, compliant, told, lost, last >>

(* Mutant of AlertOnce: an alert that is held back restarts the window. *)
AlertSliding(r) ==
  /\ request[r].step = "alert"
  /\ IF NotifierSet /\ allow
       THEN raises' = [raises EXCEPT ![0] = @ + 1] /\ GateGoto(r, "publish") /\ UNCHANGED blocked
       ELSE GateAnswer(r) /\ blocked' = TRUE /\ UNCHANGED raises
  /\ last' = 0
  /\ UNCHANGED << scm, addressed, compliant, told, lost >>

(* AlertOnce marks the key, under the lock of the check, and goes on to publish;
   or it keeps silent and the 503 is answered. *)
AlertOnce(r) ==
  /\ request[r].step = "alert"
  /\ IF NotifierSet /\ allow
       THEN /\ last' = 0
            /\ raises' = [raises EXCEPT ![0] = @ + 1]
            /\ GateGoto(r, "publish")
            /\ UNCHANGED blocked
       ELSE /\ GateAnswer(r)
            /\ blocked' = TRUE
            /\ UNCHANGED << last, raises >>
  /\ UNCHANGED << scm, addressed, compliant, told, lost >>

(* Alert: Publish waits for the brokers; an error is logged, the mark stays.
   The context is the request's. *)
Alert(r) ==
  /\ request[r].step = "publish"
  /\ \/ ~request[r].gone /\ told' = 0 /\ UNCHANGED lost
     \/ lost' = 0 /\ UNCHANGED told
  /\ GateAnswer(r)
  /\ blocked' = TRUE
  /\ UNCHANGED << scm, addressed, compliant, last, raises >>

(* UpsertLotQRTx: a token is minted (or the transaction fails). *)
Mint(r) ==
  /\ request[r].step = "mint"
  /\ GateAnswer(r)
  /\ UNCHANGED << scm, addressed, compliant, blocked, alertVars >>

(* The replica restarts: its requests end, the throttle was in memory. *)
GateRestart ==
  /\ request' = [r \in Requests |-> NoRequest]
  /\ last' = Window
  /\ raises' = [a \in 0..(Window - 1) |-> 0]
  /\ lost' = IF \E r \in Requests : request[r].step = "publish" THEN 0 ELSE lost
  /\ UNCHANGED << scm, addressed, compliant, told, blocked >>

Older(age) == IF age < Window THEN age + 1 ELSE age

GateTick ==
  /\ last' = Older(last)
  /\ raises' = [a \in 0..(Window - 1) |-> IF a = 0 THEN 0 ELSE raises[a - 1]]
  /\ told' = Older(told)
  /\ lost' = Older(lost)
  /\ blocked' = FALSE
  /\ UNCHANGED << scm, addressed, compliant, request >>

GateNext ==
  \/ Reassess \/ GateRestart \/ GateTick
  \/ \E r \in Requests :
       \/ Leave(r) \/ PublishLotQR(r) \/ Decide(r) \/ Validate(r) \/ AlertOnce(r) \/ Alert(r) \/ Mint(r)

GateSpec == GateInit /\ [][GateNext]_gateVars

----------------------------------------------------------------------------
(* What PublishLotQR lets through had passed: a QR is minted for a lot that was
   compliant while its request ran, however late the verdict came and whatever
   SCM failed to answer, or on a page that scmclient took for the verdict. *)
MintedOnVerdict ==
  \A r \in Requests : request[r].step = "mint" => request[r].ok \/ request[r].heard = "page"

(* "ValidateLotPublish blocks QR publish using SCM compliance gate when
   configured": no QR is minted for a lot that was at no time compliant while its
   request ran.  scmclient lets any status below 400 through, so one is. *)
NonCompliantBlocked == \A r \in Requests : request[r].step = "mint" => request[r].ok

(* "At most once per window": however many requests meet the outage at once,
   a replica raises the desk's mail once in a window. *)
AlertThrottled ==
  \A a, b \in DOMAIN raises : raises[a] <= 1 /\ (a # b => raises[a] + raises[b] <= 1)

(* The desk learns of an outage: when a publication is blocked by a gate that
   cannot be asked, an alert of this window has been sent or is on its way,
   unless it got lost on the way to Kafka, which silences the rest of the
   window. *)
DeskIsTold ==
  blocked => told < Window \/ lost < Window \/ \E r \in Requests : request[r].step = "publish"
============================================================================
