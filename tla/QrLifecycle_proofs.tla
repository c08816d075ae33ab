------------------------ MODULE QrLifecycle_proofs ------------------------
(***************************************************************************)
(* Proofs about QrLifecycle, for any staff, scanners, tokens and number of *)
(* edits.  That a named token is not live is not inductive: a publication  *)
(* that has drawn a token and not written it yet could still bring it to   *)
(* life.  TokenInv rules that out: what is in the row, named, or about to  *)
(* be named, no publication has left to write.                             *)
(***************************************************************************)
EXTENDS QrLifecycle, TLAPS

(* t has been in the row, or will never be: no request is about to write it. *)
Used(t) == t \in drawn /\ \A p \in Staff : ~(staff[p].step = "upsert" /\ staff[p].token = t)

(* The token in the row, the one a revocation names and those already named were
   drawn, and no publication still has one of them to write. *)
TokenInv ==
  /\ row.token # NoToken => Used(row.token)
  /\ \A p \in Staff : staff[p].step = "revoke" /\ staff[p].token # NoToken => Used(staff[p].token)
  /\ \A t \in named : Used(t) /\ ~Live(t)
  /\ \A p \in Staff : staff[p].step = "upsert" => staff[p].token \in drawn
  /\ \A p, q \in Staff : staff[p].step = "upsert" /\ staff[q].step = "upsert" /\ p # q =>
       staff[p].token # staff[q].token

(* The inductive invariant. *)
IndInv == TypeOK /\ TokenInv

(* What TypeOK says of a member of staff's request. *)
Request == [step : {"idle", "upsert", "revoke", "load", "evict"}, token : Tokens \cup {NoToken}]

(* It holds before the first publication. *)
LEMMA InitInv == Init => IndInv
BY EditsAssumption, NullsAssumption
DEF Init, IndInv, TypeOK, TokenInv, NoRequest, NoScan, Used, Live

(* p's request becomes w. *)
LEMMA StaffType ==
  ASSUME TypeOK, NEW p \in Staff, NEW w \in Request, staff' = [staff EXCEPT ![p] = w]
  PROVE  /\ staff' \in [Staff -> Request] /\ staff'[p] = w
         /\ \A q \in Staff : q # p => staff'[q] = staff[q]
BY DEF TypeOK, Request

(* An idle member of staff. *)
LEMMA NoRequestType == NoRequest \in Request /\ NoRequest.step = "idle"
BY DEF NoRequest, Request

(* A step that draws no token, writes none to the row and prepares no upsert. *)
LEMMA TokenFrame ==
  ASSUME TypeOK, TokenInv, row' = row, drawn' = drawn, named' = named,
         \A p \in Staff :
           \/ staff'[p].step \notin {"upsert", "revoke"}
           \/ staff'[p] = staff[p]
  PROVE  TokenInv'
<1>1. \A t : Used(t) => Used(t)'
  BY DEF Used
<1>2. \A t : Live(t)' <=> Live(t)
  BY DEF Live
<1> QED BY <1>1, <1>2 DEF TokenInv

(* A new token is drawn. *)
LEMMA PublishInv == ASSUME NEW p \in Staff PROVE IndInv /\ Publish(p) => IndInv'
<1> SUFFICES ASSUME IndInv, Publish(p) PROVE IndInv'
  OBVIOUS
<1>1. PICK t \in Tokens \ drawn : /\ drawn' = drawn \cup {t}
                                  /\ staff' = [staff EXCEPT ![p] = [step |-> "upsert", token |-> t]]
  BY DEF Publish
<1> DEFINE w == [step |-> "upsert", token |-> t]
<1>2. UNCHANGED << row, story, cache, scan, named >>
  BY DEF Publish, staffOnly
<1>3. /\ staff' \in [Staff -> Request] /\ staff'[p] = w
      /\ \A q \in Staff : q # p => staff'[q] = staff[q]
  BY <1>1, StaffType DEF IndInv, Request
<1>4. \A x : Used(x) => Used(x)'
  BY <1>1, <1>3 DEF Used
<1>5. \A x : Live(x)' <=> Live(x)
  BY <1>2 DEF Live
<1>6. TokenInv'
  BY <1>1, <1>2, <1>3, <1>4, <1>5 DEF IndInv, TokenInv
<1> QED BY <1>1, <1>2, <1>3, <1>6 DEF IndInv, TypeOK, Request

(* The token is written to the row. *)
LEMMA UpsertInv == ASSUME NEW p \in Staff PROVE IndInv /\ UpsertLotQR(p) => IndInv'
<1> SUFFICES ASSUME IndInv, UpsertLotQR(p) PROVE IndInv'
  OBVIOUS
<1> DEFINE w == [staff[p] EXCEPT !.step = "evict"]
<1>1. UNCHANGED << drawn, story, cache, scan, named >> /\ staff[p].step = "upsert"
  BY DEF UpsertLotQR, staffOnly
<1>2. row' = [token |-> staff[p].token, live |-> TRUE] /\ staff' = [staff EXCEPT ![p] = w]
  BY DEF UpsertLotQR
<1>3. staff[p] \in Request /\ w \in Request /\ w.step = "evict"
  BY DEF IndInv, TypeOK, Request
<1> HIDE DEF w
<1>4. /\ staff' \in [Staff -> Request] /\ staff'[p] = w
      /\ \A q \in Staff : q # p => staff'[q] = staff[q]
  BY <1>2, <1>3, StaffType DEF IndInv
<1>5. row' \in [token : Tokens \cup {NoToken}, live : BOOLEAN] /\ row'.token = staff[p].token
  BY <1>2, <1>3 DEF Request
<1>6. (\A x : Used(x) => Used(x)') /\ Used(row.token)'
  <2>1. \A x : Used(x) => Used(x)'
    BY <1>1, <1>3, <1>4 DEF Used
  <2>2. \A q \in Staff : ~(staff'[q].step = "upsert" /\ staff'[q].token = row'.token)
    BY <1>1, <1>3, <1>4, <1>5 DEF IndInv, TokenInv
  <2>3. row'.token \in drawn'
    BY <1>1, <1>5 DEF IndInv, TokenInv
  <2> QED BY <2>1, <2>2, <2>3 DEF Used
<1>7. \A t \in named : ~(row'.token = t)
  BY <1>1, <1>5 DEF IndInv, TokenInv, Used
<1>8. TokenInv'
  <2>1. \A t \in named' : Used(t)' /\ ~Live(t)'
    BY <1>1, <1>6, <1>7 DEF IndInv, TokenInv, Live
  <2>2. \A q \in Staff : staff'[q].step = "revoke" /\ staff'[q].token # NoToken => Used(staff[q].token)'
    BY <1>3, <1>4, <1>6 DEF IndInv, TokenInv
  <2>3. \A q \in Staff : staff'[q].step = "upsert" => q # p
    BY <1>3, <1>4
  <2> QED BY <1>1, <1>4, <1>6, <2>1, <2>2, <2>3 DEF IndInv, TokenInv
<1> QED BY <1>1, <1>4, <1>5, <1>8 DEF IndInv, TypeOK, Request

(* A revocation reads the row. *)
LEMMA RevokeInv == ASSUME NEW p \in Staff PROVE IndInv /\ Revoke(p) => IndInv'
<1> SUFFICES ASSUME IndInv, Revoke(p) PROVE IndInv'
  OBVIOUS
<1>1. UNCHANGED << row, drawn, story, cache, scan, named >>
  BY DEF Revoke, staffOnly
<1>2. PICK t \in {LotToken, NoToken} : staff' = [staff EXCEPT ![p] = [step |-> "revoke", token |-> t]]
  BY DEF Revoke
<1> DEFINE w == [step |-> "revoke", token |-> t]
<1>3. w \in Request /\ w.step = "revoke" /\ w.token = t /\ t \in {row.token, NoToken}
  BY DEF LotToken, IndInv, TypeOK, Request
<1>4. /\ staff' \in [Staff -> Request] /\ staff'[p] = w
      /\ \A q \in Staff : q # p => staff'[q] = staff[q]
  BY <1>2, <1>3, StaffType DEF IndInv
<1> HIDE DEF w
<1>5. \A x : Used(x) => Used(x)'
  BY <1>1, <1>3, <1>4 DEF Used
<1>6. \A x : Live(x)' <=> Live(x)
  BY <1>1 DEF Live
<1>7. TokenInv'
  <2>1. \A q \in Staff : staff'[q].step = "revoke" /\ staff'[q].token # NoToken => Used(staff[q].token)'
    BY <1>3, <1>4, <1>5 DEF IndInv, TokenInv
  <2> QED BY <1>1, <1>3, <1>4, <1>5, <1>6, <2>1 DEF IndInv, TokenInv
<1> QED BY <1>1, <1>4, <1>7 DEF IndInv, TypeOK, Request

(* The row goes dark, and the event names the token that was read. *)
LEMMA RevokeTxInv == ASSUME NEW p \in Staff PROVE IndInv /\ RevokeTx(p) => IndInv'
<1> SUFFICES ASSUME IndInv, RevokeTx(p) PROVE IndInv'
  OBVIOUS
<1>1. UNCHANGED << drawn, story, cache, scan >> /\ staff[p].step = "revoke"
  BY DEF RevokeTx
<1>2. CASE row.live
  <2> DEFINE w == [staff[p] EXCEPT !.step = "evict"]
  <2>1. /\ row' = [row EXCEPT !.live = FALSE] /\ staff' = [staff EXCEPT ![p] = w]
        /\ named' = named \cup ({staff[p].token} \ {NoToken})
    BY <1>2 DEF RevokeTx
  <2>2. staff[p] \in Request /\ w \in Request /\ w.step = "evict"
    BY DEF IndInv, TypeOK, Request
  <2> HIDE DEF w
  <2>3. /\ staff' \in [Staff -> Request] /\ staff'[p] = w
        /\ \A q \in Staff : q # p => staff'[q] = staff[q]
    BY <2>1, <2>2, StaffType DEF IndInv
  <2>4. row' \in [token : Tokens \cup {NoToken}, live : BOOLEAN] /\ row'.token = row.token /\ ~row'.live
    BY <2>1 DEF IndInv, TypeOK
  <2>5. \A x : Used(x) => Used(x)'
    BY <1>1, <2>2, <2>3 DEF Used
  <2>6. \A x \in named' : Used(x)' /\ ~Live(x)' /\ x \in Tokens
    BY <1>1, <2>1, <2>2, <2>4, <2>5 DEF IndInv, TokenInv, TypeOK, Request, Live
  <2>7. TokenInv'
    BY <1>1, <2>2, <2>3, <2>4, <2>5, <2>6 DEF IndInv, TokenInv
  <2> QED BY <1>1, <2>3, <2>4, <2>6, <2>7 DEF IndInv, TypeOK, Request
<1>3. CASE ~row.live
  <2>1. UNCHANGED << row, named >> /\ staff' = [staff EXCEPT ![p] = NoRequest]
    BY <1>3 DEF RevokeTx
  <2>2. /\ staff' \in [Staff -> Request] /\ staff'[p] = NoRequest
        /\ \A q \in Staff : q # p => staff'[q] = staff[q]
    BY <2>1, NoRequestType, StaffType DEF IndInv
  <2>3. TokenInv'
    BY <1>1, <2>1, <2>2, NoRequestType, TokenFrame DEF IndInv
  <2> QED BY <1>1, <2>1, <2>2, <2>3 DEF IndInv, TypeOK, Request
<1> QED BY <1>2, <1>3

(* PatchStory, LoadRow, Evict and StaffFails only move a request on. *)
LEMMA OtherStaffInv ==
  ASSUME NEW p \in Staff
  PROVE  IndInv /\ (PatchStory(p) \/ LoadRow(p) \/ Evict(p) \/ StaffFails(p)) => IndInv'
<1> SUFFICES ASSUME IndInv, PatchStory(p) \/ LoadRow(p) \/ Evict(p) \/ StaffFails(p) PROVE IndInv'
  OBVIOUS
<1>1. UNCHANGED << row, drawn, scan, named >>
  BY DEF PatchStory, LoadRow, Evict, StaffFails, staffOnly
<1>2. story' \in 0..MaxEdits
  BY EditsAssumption DEF PatchStory, LoadRow, Evict, StaffFails, staffOnly, IndInv, TypeOK
<1>3. cache' \in [Tokens -> 0..MaxEdits \cup {NoEntry}]
  BY DEF PatchStory, LoadRow, Evict, Delete, StaffFails, staffOnly, IndInv, TypeOK
<1>4. PICK w \in Request : staff' = [staff EXCEPT ![p] = w] /\ w.step \notin {"upsert", "revoke"}
  <2>1. staff[p] \in Request /\ row.token \in Tokens \cup {NoToken}
    BY DEF IndInv, TypeOK, Request
  <2>2. CASE PatchStory(p)
    <3>1. [staff[p] EXCEPT !.step = "load"] \in Request /\ [staff[p] EXCEPT !.step = "load"].step = "load"
      BY <2>1 DEF Request
    <3> QED BY <2>2, <3>1 DEF PatchStory
  <2>3. CASE LoadRow(p)
    <3>1. /\ [staff[p] EXCEPT !.step = "evict", !.token = row.token] \in Request
          /\ [staff[p] EXCEPT !.step = "evict", !.token = row.token].step = "evict"
      BY <2>1 DEF Request
    <3> QED BY <2>3, <3>1 DEF LoadRow
  <2>4. CASE Evict(p) \/ StaffFails(p)
    BY <2>4, NoRequestType DEF Evict, StaffFails
  <2> QED BY <2>2, <2>3, <2>4
<1>5. /\ staff' \in [Staff -> Request] /\ staff'[p] = w
      /\ \A q \in Staff : q # p => staff'[q] = staff[q]
  BY <1>4, StaffType DEF IndInv
<1>6. TokenInv'
  BY <1>1, <1>4, <1>5, TokenFrame DEF IndInv
<1> QED BY <1>1, <1>2, <1>3, <1>5, <1>6 DEF IndInv, TypeOK, Request

(* An import writes a token of its own. *)
LEMMA ImportInv == IndInv /\ ImportQR => IndInv'
<1> SUFFICES ASSUME IndInv, ImportQR PROVE IndInv'
  OBVIOUS
<1>1. UNCHANGED << story, cache, staff, scan, named >>
  BY DEF ImportQR
<1>2. PICK t \in Tokens \ drawn, live \in BOOLEAN : row' = [token |-> t, live |-> live] /\ drawn' = drawn \cup {t}
  BY DEF ImportQR
<1>3. row' \in [token : Tokens \cup {NoToken}, live : BOOLEAN] /\ row'.token = t
  BY <1>2
<1>4. (\A x : Used(x) => Used(x)') /\ Used(t)'
  BY <1>1, <1>2 DEF Used, IndInv, TokenInv
<1>5. \A x \in named' : Used(x)' /\ ~Live(x)'
  BY <1>1, <1>2, <1>3, <1>4 DEF IndInv, TokenInv, Used, Live
<1>6. TokenInv'
  BY <1>1, <1>2, <1>3, <1>4, <1>5 DEF IndInv, TokenInv
<1> QED BY <1>1, <1>2, <1>3, <1>6 DEF IndInv, TypeOK

(* A scan reads the row and writes the cache. *)
LEMMA ScanInv ==
  ASSUME NEW s \in Scanners
  PROVE  IndInv /\ ((\E t \in Tokens : Lookup(s, t)) \/ Compose(s) \/ Fill(s)) => IndInv'
<1> SUFFICES ASSUME IndInv, (\E t \in Tokens : Lookup(s, t)) \/ Compose(s) \/ Fill(s) PROVE IndInv'
  OBVIOUS
<1>1. UNCHANGED << row, drawn, story, staff, named >>
  BY DEF Lookup, Compose, Fill, scanOnly
<1> DEFINE Scan == [step : {"idle", "compose", "fill"}, token : Tokens \cup {NoToken}, story : 0..MaxEdits]
<1>2. scan' \in [Scanners -> Scan]
  <2>1. scan \in [Scanners -> Scan] /\ scan[s] \in Scan /\ story \in 0..MaxEdits
    BY DEF IndInv, TypeOK
  <2>2. NoScan \in Scan /\ \A t \in Tokens : [step |-> "compose", token |-> t, story |-> 0] \in Scan
    BY EditsAssumption DEF NoScan
  <2>3. [scan[s] EXCEPT !.step = "fill", !.story = story] \in Scan
    BY <2>1
  <2>4. CASE \E t \in Tokens : Lookup(s, t)
    BY <2>1, <2>2, <2>4 DEF Lookup
  <2>5. CASE Compose(s)
    BY <2>1, <2>3, <2>5 DEF Compose
  <2>6. CASE Fill(s)
    BY <2>1, <2>2, <2>6 DEF Fill
  <2> QED BY <2>4, <2>5, <2>6
<1>3. cache' \in [Tokens -> 0..MaxEdits \cup {NoEntry}]
  <2>1. scan[s].story \in 0..MaxEdits
    BY DEF IndInv, TypeOK
  <2> QED BY <2>1 DEF Lookup, Compose, Fill, IndInv, TypeOK
<1>4. TokenInv'
  BY <1>1, TokenFrame DEF IndInv
<1> QED BY <1>1, <1>2, <1>3, <1>4 DEF IndInv, TypeOK

(* An entry's time runs out. *)
LEMMA ExpireInv == ASSUME NEW t \in Tokens PROVE IndInv /\ Expire(t) => IndInv'
<1> SUFFICES ASSUME IndInv, Expire(t) PROVE IndInv'
  OBVIOUS
<1>1. UNCHANGED << row, drawn, story, staff, named, scan >>
  BY DEF Expire, scanOnly
<1>2. cache' \in [Tokens -> 0..MaxEdits \cup {NoEntry}]
  BY DEF Expire, IndInv, TypeOK
<1>3. TokenInv'
  BY <1>1, TokenFrame DEF IndInv
<1> QED BY <1>1, <1>2, <1>3 DEF IndInv, TypeOK

(* Every step keeps the invariant. *)
LEMMA StepInv == IndInv /\ [Next]_vars => IndInv'
<1> SUFFICES ASSUME IndInv, [Next]_vars PROVE IndInv'
  OBVIOUS
<1>1. CASE UNCHANGED vars
  BY <1>1 DEF vars, IndInv, TypeOK, TokenInv, Used, Live
<1>2. CASE Next
  <2>1. CASE \E p \in Staff : Publish(p) \/ Revoke(p) \/ PatchStory(p) \/ StaffStep(p) \/ StaffFails(p)
    BY <2>1, PublishInv, UpsertInv, RevokeInv, RevokeTxInv, OtherStaffInv DEF StaffStep
  <2>2. CASE \E s \in Scanners : Compose(s) \/ Fill(s) \/ \E t \in Tokens : Lookup(s, t)
    BY <2>2, ScanInv
  <2> QED BY <1>2, <2>1, <2>2, ImportInv, ExpireInv DEF Next
<1> QED BY <1>1, <1>2

----------------------------------------------------------------------------
(* What could wake a dark token up does not: the row is given another token,
   a scan finds a live one, an entry is filled under the scan's own. *)
LEMMA DarkStep == ASSUME TypeOK, [Next]_vars, NEW t \in Tokens, Dark(t) PROVE Dark(t)'
<1>1. /\ t \in drawn /\ ~Live(t) /\ cache[t] = NoEntry /\ t # NoToken
      /\ \A p \in Staff : ~(staff[p].step = "upsert" /\ staff[p].token = t)
      /\ \A s \in Scanners : scan[s].token # t
  BY NullsAssumption DEF Dark, Retired
<1>2. /\ staff \in [Staff -> Request] /\ \A p \in Staff : staff[p] \in Request
      /\ cache \in [Tokens -> 0..MaxEdits \cup {NoEntry}]
      /\ scan \in [Scanners -> [step : {"idle", "compose", "fill"}, token : Tokens \cup {NoToken},
                                story : 0..MaxEdits]]
      /\ row \in [token : Tokens \cup {NoToken}, live : BOOLEAN]
  BY DEF TypeOK, Request
<1>3. CASE UNCHANGED vars
  BY <1>1, <1>3 DEF vars, Dark, Retired, Live
<1>4. ASSUME NEW p \in Staff, Publish(p) PROVE Dark(t)'
  BY <1>1, <1>2, <1>4, NullsAssumption DEF Publish, staffOnly, Dark, Retired, Live, Request
<1>5. ASSUME NEW p \in Staff, UpsertLotQR(p) PROVE Dark(t)'
  BY <1>1, <1>2, <1>5, NullsAssumption DEF UpsertLotQR, staffOnly, Dark, Retired, Live, Request
<1>6. ASSUME NEW p \in Staff, Revoke(p) PROVE Dark(t)'
  BY <1>1, <1>2, <1>6, NullsAssumption DEF Revoke, staffOnly, Dark, Retired, Live, Request
<1>7. ASSUME NEW p \in Staff, RevokeTx(p) PROVE Dark(t)'
  BY <1>1, <1>2, <1>7, NullsAssumption DEF RevokeTx, NoRequest, Dark, Retired, Live, Request
<1>8. ASSUME NEW p \in Staff, PatchStory(p) PROVE Dark(t)'
  BY <1>1, <1>2, <1>8, NullsAssumption DEF PatchStory, Dark, Retired, Live, Request
<1>9. ASSUME NEW p \in Staff, LoadRow(p) PROVE Dark(t)'
  BY <1>1, <1>2, <1>9, NullsAssumption DEF LoadRow, staffOnly, Dark, Retired, Live, Request
<1>10. ASSUME NEW p \in Staff, Evict(p) \/ StaffFails(p) PROVE Dark(t)'
  BY <1>1, <1>2, <1>10, NullsAssumption DEF Evict, Delete, StaffFails, staffOnly, NoRequest, Dark, Retired, Live, Request
<1>11. ASSUME NEW s \in Scanners, Compose(s) \/ Fill(s) PROVE Dark(t)'
  BY <1>1, <1>2, <1>11, NullsAssumption DEF Compose, Fill, scanOnly, NoScan, Dark, Retired, Live, Request
<1>12. ASSUME NEW s \in Scanners, NEW u \in Tokens, Lookup(s, u) PROVE Dark(t)'
  BY <1>1, <1>2, <1>12 DEF Lookup, scanOnly, Dark, Retired, Live
<1>13. CASE ImportQR
  BY <1>1, <1>2, <1>13 DEF ImportQR, Dark, Retired, Live
<1>14. ASSUME NEW u \in Tokens, Expire(u) PROVE Dark(t)'
  BY <1>1, <1>2, <1>14 DEF Expire, scanOnly, Dark, Retired, Live
<1> QED BY <1>3, <1>4, <1>5, <1>6, <1>7, <1>8, <1>9, <1>10, <1>11, <1>12, <1>13, <1>14 DEF Next, StaffStep

----------------------------------------------------------------------------
(* A token that a qr_revoked event has named is never the live one, also when a
   publication replaced the row between the handler's read and the revocation. *)
THEOREM NamedTokensAreNotLive == Spec => []NamedIsNotLive
<1>1. IndInv => NamedIsNotLive
  BY DEF IndInv, TokenInv, NamedIsNotLive
<1> QED BY <1>1, InitInv, StepInv, PTL DEF Spec

(* A revoked or replaced token that is out of the cache, and that no scan still
   carries, never answers again, whatever publish, import, edit or scan follows. *)
THEOREM DarkTokensStayDark == Spec => DarkStaysDark
<1>1. TypeOK /\ [Next]_vars => [\A t \in Tokens : Dark(t) => Dark(t)']_vars
  BY DarkStep
<1>2. IndInv => TypeOK
  BY DEF IndInv
<1> QED BY <1>1, <1>2, InitInv, StepInv, PTL DEF Spec, DarkStaysDark
============================================================================
