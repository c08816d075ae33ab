--------------------------- MODULE Outbox_proofs ---------------------------
(***************************************************************************)
(* Proofs about Outbox, for any number of lots, writers and relays, any    *)
(* batch size and any number of outbox rows: consumers see a lot's QR      *)
(* events in order, and once they have seen them all they agree with the   *)
(* table.                                                                  *)
(*                                                                         *)
(* Neither property is inductive.  What makes them hold is a chain of      *)
(* facts from the row lock to the topic: a lot's transactions exclude each *)
(* other, so ids grow in the order of commit; a pass fetches the lowest    *)
(* ids, so what precedes a fetched QR row is either in front of it in the  *)
(* batch or was marked before, and marked means delivered; a pass never    *)
(* steps over a row.  IndInv says all of that.                             *)
(***************************************************************************)
EXTENDS Outbox, TLAPS, FiniteSetTheorems, WellFoundedInduction

(* The committed QR rows of a lot. *)
QROf(lot) == {i \in Ids : rows[i] # NoRow /\ rows[i].lot = lot /\ IsQR(i)}

(* Row i has reached consumers. *)
Arrived(i) == \E n \in 1..Len(delivered[rows[i].lot]) : delivered[rows[i].lot][n] = i

(* Ids are handed out once, and a row appears under an id already taken. *)
SerialOK ==
  /\ \A i \in Ids : rows[i] # NoRow => i < nextId
  /\ \A w \in Writers : wtx[w].step = "commit" =>
       /\ wtx[w].id \in Ids /\ wtx[w].id < nextId /\ rows[wtx[w].id] = NoRow
       /\ \A v \in Writers : v # w /\ wtx[v].step = "commit" => wtx[v].id # wtx[w].id

(* A QR transaction holds the row lock of its lot and its id is later than
   every QR row committed for the lot. *)
LockOK ==
  \A w \in Writers :
    /\ wtx[w].step = "enqueue" => wtx[w].kind \in QRKinds
    /\ wtx[w].step # "idle" /\ wtx[w].kind \in QRKinds => rowLock[wtx[w].lot] = w
    /\ wtx[w].step = "commit" /\ wtx[w].kind \in QRKinds => \A i \in QROf(wtx[w].lot) : i < wtx[w].id

(* The history lists exactly the lot's QR rows and grows with the ids. *)
ChangesOK ==
  \A lot \in Lots :
    /\ \A a \in 1..Len(changes[lot]) : changes[lot][a] \in QROf(lot)
    /\ \A i \in QROf(lot) : \E a \in 1..Len(changes[lot]) : changes[lot][a] = i
    /\ \A a, b \in 1..Len(changes[lot]) : a < b => changes[lot][a] < changes[lot][b]

(* A topic holds committed rows under their own key, each once; what is
   marked has arrived. *)
TopicOK ==
  /\ \A lot \in Lots : \A n \in 1..Len(delivered[lot]) :
       /\ rows[delivered[lot][n]] # NoRow
       /\ rows[delivered[lot][n]].lot = lot
       /\ \A m \in 1..Len(delivered[lot]) : delivered[lot][m] = delivered[lot][n] => m = n
  /\ \A i \in published : rows[i] # NoRow /\ Arrived(i)

(* A batch holds committed rows, and the QR rows before one of its QR rows
   have arrived or stand in front of it. *)
BatchOK ==
  \A r \in Relays :
    /\ \A n \in 1..Len(batch[r]) : rows[batch[r][n]] # NoRow
    /\ \A lot \in Lots : \A n \in 1..Len(batch[r]) : batch[r][n] \in QROf(lot) =>
         \A j \in QROf(lot) : j < batch[r][n] =>
           Arrived(j) \/ \E m \in 1..(n - 1) : batch[r][m] = j
    /\ sent[r] => batch[r] # << >> /\ \A i \in Ids : i = Head(batch[r]) => Arrived(i)

(* Whatever QR row has arrived, the lot's lower ones arrived before it. *)
OrderOK ==
  \A lot \in Lots : \A n \in 1..Len(delivered[lot]) :
    IsQR(delivered[lot][n]) =>
      \A j \in QROf(lot) : j < delivered[lot][n] =>
        \E m \in 1..(n - 1) : delivered[lot][m] = j

(* The publications among them. *)
Pubs(lot) == {i \in QROf(lot) : IsPublication(i)}

(* The lot_qr_codes row the committed events amount to. *)
StateOf(lot) ==
  [token |-> IF Pubs(lot) = {} THEN 0 ELSE Max(Pubs(lot)),
   live  |-> QROf(lot) # {} /\ Max(QROf(lot)) \in Pubs(lot)]

(* The table says what the events say, but for the imported rows. *)
QROK == \A lot \in Lots : Announced(qr[lot]) = StateOf(lot)

(* What the writers see to, and what the relays do. *)
WriterOK == SerialOK /\ LockOK /\ ChangesOK /\ QROK
RelayOK  == TopicOK /\ BatchOK /\ OrderOK

(* The inductive invariant. *)
IndInv == TypeOK /\ WriterOK /\ RelayOK

----------------------------------------------------------------------------
(* Facts about the n lowest of a set of ids. *)

(* A set of ids and its subsets are finite. *)
LEMMA IdsFinite ==
  ASSUME NEW S, S \subseteq Ids
  PROVE  /\ S \subseteq Nat /\ IsFiniteSet(S) /\ Cardinality(S) \in Nat
         /\ \A T \in SUBSET S : IsFiniteSet(T) /\ Cardinality(T) \in Nat
         /\ \A T \in SUBSET S : Cardinality(T) <= Cardinality(S) /\ (Cardinality(T) = Cardinality(S) => T = S)
<1>1. MaxId \in Nat /\ Ids \subseteq Nat
  BY BoundsAssumption DEF Ids
<1>2. IsFiniteSet(Ids)
  BY <1>1, FS_Interval DEF Ids
<1>3. IsFiniteSet(S) /\ Cardinality(S) \in Nat
  BY <1>2, FS_Subset, FS_CardinalityType
<1>4. ASSUME NEW T \in SUBSET S
      PROVE  /\ IsFiniteSet(T) /\ Cardinality(T) \in Nat /\ Cardinality(T) <= Cardinality(S)
             /\ Cardinality(T) = Cardinality(S) => T = S
  BY <1>3, <1>4, FS_Subset, FS_CardinalityType
<1> QED BY <1>1, <1>3, <1>4

(* The members of S before i. *)
Below(S, i) == {j \in S : j < i}

(* The number of lower members orders a set of ids. *)
LEMMA RankGrows ==
  ASSUME NEW S, S \subseteq Ids, NEW i \in S, NEW k \in S, i < k
  PROVE  Cardinality(Below(S, i)) < Cardinality(Below(S, k))
<1>1. i \in Nat /\ k \in Nat /\ S \subseteq Nat
  BY IdsFinite
<1>2. Below(S, k) \subseteq Ids
  BY DEF Below
<1>3. Below(S, i) \in SUBSET Below(S, k) /\ i \in Below(S, k) /\ i \notin Below(S, i)
  <2>1. \A j \in S : j < i => j < k
    BY <1>1
  <2>2. ~(i < i)
    BY <1>1
  <2> QED BY <2>1, <2>2 DEF Below
<1>4. /\ Cardinality(Below(S, i)) <= Cardinality(Below(S, k))
      /\ Cardinality(Below(S, i)) = Cardinality(Below(S, k)) => Below(S, i) = Below(S, k)
      /\ Cardinality(Below(S, i)) \in Nat /\ Cardinality(Below(S, k)) \in Nat
  BY <1>2, <1>3, IdsFinite
<1> QED BY <1>3, <1>4

(* A set of ids can be listed in order. *)
LEMMA SortedExists ==
  ASSUME NEW S, S \subseteq Ids
  PROVE  \E s \in [1..Cardinality(S) -> S] :
           \A a, b \in 1..Cardinality(S) : a < b => s[a] < s[b]
<1> DEFINE c == Cardinality(S)
           rank == [i \in S |-> Cardinality(Below(S, i)) + 1]
<1>1. S \subseteq Nat /\ IsFiniteSet(S) /\ c \in Nat
  BY IdsFinite
<1>2. \A i \in S : Cardinality(Below(S, i)) \in Nat /\ Cardinality(Below(S, i)) < c
  <2>1. ASSUME NEW i \in S PROVE Cardinality(Below(S, i)) \in Nat /\ Cardinality(Below(S, i)) < c
    <3>1. Below(S, i) \in SUBSET S /\ i \notin Below(S, i)
      BY <1>1 DEF Below
    <3>2. Cardinality(Below(S, i)) <= c /\ (Cardinality(Below(S, i)) = c => Below(S, i) = S)
          /\ Cardinality(Below(S, i)) \in Nat
      BY <3>1, IdsFinite
    <3> QED BY <1>1, <3>1, <3>2
  <2> QED BY <2>1
<1>3. rank \in [S -> 1..c]
  <2> HIDE DEF c
  <2> QED BY <1>1, <1>2
<1>4. \A i, k \in S : i < k => rank[i] < rank[k]
  <2>1. \A i, k \in S : i < k => Cardinality(Below(S, i)) < Cardinality(Below(S, k))
    BY RankGrows
  <2> HIDE DEF c
  <2> QED BY <1>2, <2>1
<1> HIDE DEF rank
<1>5. rank \in Injection(S, 1..c)
  <2>1. \A i, k \in S : rank[i] = rank[k] => i = k
    BY <1>1, <1>3, <1>4
  <2> QED BY <1>3, <2>1 DEF Injection, IsInjective
<1>6. IsFiniteSet(1..c) /\ Cardinality(1..c) = c
  <2> HIDE DEF c
  <2> QED BY <1>1, FS_Interval
<1>7. rank \in Surjection(S, 1..c)
  BY <1>1, <1>5, <1>6, FS_Injection
<1>8. \A a \in 1..c : \E i \in S : rank[i] = a
  BY <1>7 DEF Surjection
<1> DEFINE s == [a \in 1..c |-> CHOOSE i \in S : rank[i] = a]
<1>9. \A a \in 1..c : s[a] \in S /\ rank[s[a]] = a
  BY <1>8
<1>10. s \in [1..c -> S]
  BY <1>9
<1> HIDE DEF s, c
<1>11. ASSUME NEW a \in 1..c, NEW b \in 1..c, a < b PROVE s[a] < s[b]
  <2>1. s[a] \in Nat /\ s[b] \in Nat
    BY <1>1, <1>9
  <2>4. a \in Nat /\ b \in Nat
    BY <1>1
  <2>2. s[b] < s[a] => b < a
    BY <1>4, <1>9
  <2>3. s[b] = s[a] => a = b
    BY <1>9
  <2> QED BY <1>11, <2>1, <2>2, <2>3, <2>4
<1> QED BY <1>10, <1>11 DEF c

(* What a pass fetches: rows of S in order, none of them passed over. *)
LEMMA LowestIsSorted ==
  ASSUME NEW S, S \subseteq Ids, NEW n \in Nat
  PROVE  /\ Lowest(S, n) \in Seq(S)
         /\ \A p \in 1..Len(Lowest(S, n)) : \A i \in S : i < Lowest(S, n)[p] =>
              \E m \in 1..(p - 1) : Lowest(S, n)[m] = i
<1> DEFINE low == {i \in S : Cardinality({j \in S : j < i}) < n}
           c   == Cardinality(low)
           P(t) == \A a, b \in 1..c : a < b => t[a] < t[b]
           s   == Lowest(S, n)
<1>1. s = CHOOSE t \in [1..c -> low] : P(t)
  BY DEF Lowest
<1>2. low \subseteq Ids
  OBVIOUS
<1>3. low \subseteq Nat /\ IsFiniteSet(low) /\ c \in Nat
  <2> HIDE DEF low
  <2> QED BY <1>2, IdsFinite
<1>4. \E t \in [1..c -> low] : P(t)
  <2> HIDE DEF low
  <2> QED BY <1>2, SortedExists
<1>5. s \in [1..c -> low] /\ P(s)
  <2> HIDE DEF P, low, c, s
  <2> QED BY <1>1, <1>4
<1>6. \A i \in low : \A j \in S : j < i => j \in low
  <2> SUFFICES ASSUME NEW i \in low, NEW j \in S, j < i PROVE j \in low
    OBVIOUS
  <2>1. Below(S, j) = {k \in S : k < j} /\ Below(S, i) = {k \in S : k < i}
    BY DEF Below
  <2>2. Cardinality(Below(S, j)) < Cardinality(Below(S, i))
    BY RankGrows
  <2>3. Cardinality(Below(S, j)) \in Nat /\ Cardinality(Below(S, i)) \in Nat
    <3>1. Below(S, j) \subseteq S /\ Below(S, i) \subseteq S
      BY DEF Below
    <3> QED BY <3>1, IdsFinite
  <2>4. Cardinality(Below(S, i)) < n
    BY <2>1
  <2>5. Cardinality(Below(S, j)) < n
    BY <2>2, <2>3, <2>4
  <2> QED BY <2>1, <2>5
<1>x. low \subseteq S
  OBVIOUS
<1> HIDE DEF low, s
<1>7. \A i \in low : \E a \in 1..c : s[a] = i
  <2>0. s \in [1..c -> low] /\ \A a, b \in 1..c : a < b => s[a] < s[b]
    BY <1>5
  <2> HIDE DEF c, P
  <2>1. \A a, b \in 1..c : s[a] = s[b] => a = b
    <3>0. \A a \in 1..c : s[a] \in low
      BY <2>0
    <3>1. \A a \in 1..c : s[a] \in Nat
      BY <3>0, <1>3
    <3>2. \A x \in Nat : ~(x < x)
      OBVIOUS
    <3>3. \A a, b \in 1..c : a # b => a < b \/ b < a
      BY <1>3
    <3> HIDE DEF P
    <3> QED BY <2>0, <3>1, <3>2, <3>3
  <2>2. s \in Injection(1..c, low)
    BY <2>0, <2>1 DEF Injection, IsInjective
  <2>3. Cardinality(1..c) = c
    BY <1>3, FS_Interval
  <2>4. c = Cardinality(low)
    BY DEF c
  <2>5. s \in Surjection(1..c, low)
    BY <1>3, <2>2, <2>3, <2>4, FS_Injection
  <2> QED BY <2>5 DEF Surjection
<1>8. \A a, b \in 1..c : s[a] < s[b] => a < b
  <2>1. \A a, b \in 1..c : a < b => s[a] < s[b]
    BY <1>5
  <2>2. \A a \in 1..c : s[a] \in Nat
    BY <1>3, <1>5
  <2> HIDE DEF c, P
  <2> QED BY <2>1, <2>2, <1>3
<1>9. s \in Seq(S) /\ Len(s) = c
  <2>1. s \in [1..c -> S]
    BY <1>5, <1>x
  <2> HIDE DEF c, P
  <2> QED BY <2>1, <1>3
<1>10. ASSUME NEW p \in 1..c, NEW i \in S, i < s[p] PROVE \E m \in 1..(p - 1) : s[m] = i
  <2>1. i \in low
    BY <1>5, <1>6, <1>10
  <2>2. PICK m \in 1..c : s[m] = i
    BY <1>7, <2>1
  <2>3. m < p
    BY <1>8, <1>10, <2>2
  <2> HIDE DEF c, P
  <2> QED BY <2>2, <2>3, <1>3
<1> QED BY <1>9, <1>10 DEF s

----------------------------------------------------------------------------
(* The writers. *)

(* What TypeOK says of a transaction. *)
Txs == [step : {"idle", "enqueue", "commit"}, lot : Lots, kind : Kinds, id : 0..MaxId]

(* A writer with no transaction. *)
LEMMA IdleType == IdleTx \in Txs /\ IdleTx.step = "idle"
<1>1. (CHOOSE l \in Lots : TRUE) \in Lots
  BY LotsAssumption
<1>2. 0 \in 0..MaxId
  BY BoundsAssumption
<1> QED BY <1>1, <1>2 DEF IdleTx, Txs, Kinds, QRKinds

(* A step of a writer that commits nothing leaves the relays' facts alone. *)
LEMMA RelaysUntouched ==
  ASSUME RelayOK, UNCHANGED rows, UNCHANGED relayVars
  PROVE  RelayOK'
BY DEF RelayOK, TopicOK, BatchOK, OrderOK, QROf, IsQR, Arrived, relayVars

(* ... and neither the table nor the history changes. *)
LEMMA HistoryUntouched ==
  ASSUME ChangesOK, QROK, UNCHANGED << qr, rows, changes >>
  PROVE  ChangesOK' /\ QROK'
BY DEF ChangesOK, QROK, QROf, IsQR, StateOf, Pubs, IsPublication, Announced

(* The row lock is taken: nobody else's transaction is about this lot. *)
LEMMA ChangeQRInv == ASSUME IndInv, NEW w \in Writers, ChangeQR(w) PROVE IndInv'
<1>1. PICK lot \in Lots, kind \in QRKinds :
        /\ rowLock[lot] = Free
        /\ rowLock' = [rowLock EXCEPT ![lot] = w]
        /\ wtx' = [wtx EXCEPT ![w] = [step |-> "enqueue", lot |-> lot, kind |-> kind, id |-> 0]]
  BY DEF ChangeQR
<1> DEFINE t == [step |-> "enqueue", lot |-> lot, kind |-> kind, id |-> 0]
<1>2. wtx[w].step = "idle" /\ UNCHANGED << qr, rows, nextId, changes, relayVars >>
  BY DEF ChangeQR
<1>3. t \in Txs /\ t.step = "enqueue" /\ t.lot = lot /\ t.kind = kind
  BY BoundsAssumption DEF Txs, Kinds
<1>4. wtx' = [wtx EXCEPT ![w] = t]
  BY <1>1
<1> HIDE DEF t
<1>5. wtx' \in [Writers -> Txs] /\ \A v \in Writers : wtx'[v] = IF v = w THEN t ELSE wtx[v]
  BY <1>3, <1>4 DEF IndInv, TypeOK, Txs
<1>6. TypeOK'
  BY <1>1, <1>2, <1>5 DEF IndInv, TypeOK, relayVars, Txs
<1>7. SerialOK'
  BY <1>2, <1>3, <1>5 DEF IndInv, WriterOK, SerialOK
<1>8. LockOK'
  <2>1. \A l : QROf(l)' = QROf(l)
    BY <1>2 DEF QROf, IsQR
  <2>2. rowLock'[lot] = w /\ \A l \in Lots : l # lot => rowLock'[l] = rowLock[l]
    BY <1>1 DEF IndInv, TypeOK
  <2>3. \A v \in Writers : wtx[v].lot \in Lots /\ v # Free
    BY FreeAssumption DEF IndInv, TypeOK
  <2> QED BY <1>1, <1>3, <1>5, <2>1, <2>2, <2>3 DEF IndInv, WriterOK, LockOK
<1> QED BY <1>2, <1>6, <1>7, <1>8, RelaysUntouched, HistoryUntouched DEF IndInv, WriterOK

(* Taking the next id, with or without the lock. *)
LEMMA TakeId ==
  ASSUME IndInv, NEW w \in Writers, NEW t \in Txs,
         wtx' = [wtx EXCEPT ![w] = t], nextId <= MaxId, nextId' = nextId + 1,
         t.step = "commit", t.id = nextId,
         t.kind \in QRKinds => rowLock[t.lot] = w,
         UNCHANGED << qr, rowLock, rows, changes, relayVars >>
  PROVE  IndInv'
<1>1. wtx' \in [Writers -> Txs] /\ \A v \in Writers : wtx'[v] = IF v = w THEN t ELSE wtx[v]
  BY DEF IndInv, TypeOK, Txs
<1>2. nextId \in Ids /\ nextId \in Nat /\ Ids \subseteq Nat
  BY BoundsAssumption DEF IndInv, TypeOK, Ids
<1>3. TypeOK'
  <2>1. nextId' \in 1..(MaxId + 1)
    BY <1>2, BoundsAssumption DEF Ids
  <2> QED BY <1>1, <2>1 DEF IndInv, TypeOK, relayVars, Txs
<1>4. rows[nextId] = NoRow
  BY <1>2 DEF IndInv, WriterOK, SerialOK
<1>5. SerialOK'
  <2>1. \A i \in Ids : rows[i] # NoRow => i < nextId'
    BY <1>2 DEF IndInv, WriterOK, SerialOK
  <2>2. ASSUME NEW v \in Writers, wtx'[v].step = "commit"
        PROVE  wtx'[v].id \in Ids /\ wtx'[v].id < nextId' /\ rows[wtx'[v].id] = NoRow
    <3>1. CASE v = w
      BY <1>1, <1>2, <1>4, <3>1
    <3>2. CASE v # w
      <4>1. wtx'[v] = wtx[v] /\ wtx[v].step = "commit"
        BY <1>1, <2>2, <3>2
      <4>2. wtx[v].id \in Ids /\ wtx[v].id < nextId /\ rows[wtx[v].id] = NoRow
        BY <4>1 DEF IndInv, WriterOK, SerialOK
      <4>3. \A x \in Ids : x < nextId => x < nextId'
        BY <1>2
      <4> QED BY <4>1, <4>2, <4>3
    <3> QED BY <3>1, <3>2
  <2>3. ASSUME NEW u \in Writers, NEW v \in Writers, u # v, wtx'[u].step = "commit", wtx'[v].step = "commit"
        PROVE  wtx'[v].id # wtx'[u].id
    <3>1. \A x \in Writers : wtx[x].step = "commit" => wtx[x].id # nextId
      BY <1>2 DEF IndInv, WriterOK, SerialOK
    <3> QED BY <1>1, <2>3, <3>1 DEF IndInv, WriterOK, SerialOK
  <2> QED BY <2>1, <2>2, <2>3 DEF SerialOK
<1>6. LockOK'
  <2>1. \A l : QROf(l)' = QROf(l)
    BY DEF QROf, IsQR
  <2>2. \A l : \A i \in QROf(l) : i < nextId
    BY DEF QROf, IndInv, WriterOK, SerialOK
  <2> QED BY <1>1, <2>1, <2>2 DEF IndInv, WriterOK, LockOK
<1> QED BY <1>3, <1>5, <1>6, RelaysUntouched, HistoryUntouched DEF IndInv, WriterOK

(* enqueueOutbox takes the id of a QR event under the lock. *)
LEMMA EnqueueInv == ASSUME IndInv, NEW w \in Writers, Enqueue(w) PROVE IndInv'
<1> DEFINE t == [wtx[w] EXCEPT !.step = "commit", !.id = nextId]
<1>1. wtx[w] \in Txs /\ nextId \in 0..MaxId
  BY BoundsAssumption DEF Enqueue, IndInv, TypeOK, Txs
<1>2. t \in Txs /\ t.step = "commit" /\ t.id = nextId /\ t.lot = wtx[w].lot /\ t.kind = wtx[w].kind
  BY <1>1 DEF Txs
<1>3. wtx' = [wtx EXCEPT ![w] = t]
  BY DEF Enqueue, IndInv, TypeOK
<1>4. t.kind \in QRKinds => rowLock[t.lot] = w
  BY <1>2 DEF Enqueue, IndInv, WriterOK, LockOK
<1> HIDE DEF t
<1> QED BY <1>2, <1>3, <1>4, TakeId DEF Enqueue

(* EnqueueOutbox takes one with no lock. *)
LEMMA EnqueueStoryInv == ASSUME IndInv, NEW w \in Writers, EnqueueStory(w) PROVE IndInv'
<1>1. PICK lot \in Lots :
        wtx' = [wtx EXCEPT ![w] = [step |-> "commit", lot |-> lot, kind |-> "story", id |-> nextId]]
  BY DEF EnqueueStory
<1> DEFINE t == [step |-> "commit", lot |-> lot, kind |-> "story", id |-> nextId]
<1>2. nextId \in 0..MaxId
  BY BoundsAssumption DEF EnqueueStory, IndInv, TypeOK
<1>3. t \in Txs /\ t.step = "commit" /\ t.id = nextId /\ t.kind \notin QRKinds
  BY <1>2 DEF Txs, Kinds, QRKinds
<1>4. wtx' = [wtx EXCEPT ![w] = t]
  BY <1>1
<1> HIDE DEF t
<1> QED BY <1>3, <1>4, TakeId DEF EnqueueStory

(* The end of a transaction: its writer is idle and its locks are free. *)
LEMMA TxEnds ==
  ASSUME IndInv, NEW w \in Writers, wtx' = [wtx EXCEPT ![w] = IdleTx], rowLock' = Unlock(w)
  PROVE  /\ wtx' \in [Writers -> Txs]
         /\ \A v \in Writers : wtx'[v] = IF v = w THEN IdleTx ELSE wtx[v]
         /\ rowLock' \in [Lots -> Writers \cup {Free}]
         /\ \A l \in Lots : rowLock[l] # w => rowLock'[l] = rowLock[l]
BY IdleType DEF IndInv, TypeOK, Txs, Unlock

(* A rollback burns the id. *)
LEMMA AbortInv == ASSUME IndInv, NEW w \in Writers, Abort(w) PROVE IndInv'
<1>1. /\ wtx' \in [Writers -> Txs]
      /\ \A v \in Writers : wtx'[v] = IF v = w THEN IdleTx ELSE wtx[v]
      /\ rowLock' \in [Lots -> Writers \cup {Free}]
      /\ \A l \in Lots : rowLock[l] # w => rowLock'[l] = rowLock[l]
  BY TxEnds DEF Abort
<1>2. UNCHANGED << qr, rows, nextId, changes, relayVars >>
  BY DEF Abort
<1>3. TypeOK'
  BY <1>1, <1>2 DEF IndInv, TypeOK, relayVars, Txs
<1>4. SerialOK'
  BY <1>1, <1>2, IdleType DEF IndInv, WriterOK, SerialOK
<1>5. LockOK'
  <2>1. \A l : QROf(l)' = QROf(l)
    BY <1>2 DEF QROf, IsQR
  <2>2. \A v \in Writers : wtx[v].lot \in Lots
    BY DEF IndInv, TypeOK
  <2> QED BY <1>1, <2>1, <2>2, IdleType DEF IndInv, WriterOK, LockOK
<1> QED BY <1>2, <1>3, <1>4, <1>5, RelaysUntouched, HistoryUntouched DEF IndInv, WriterOK

(* Max is the greatest member, if there is one. *)
LEMMA MaxIs ==
  ASSUME NEW S, S \subseteq Nat, NEW x \in S, \A y \in S : y <= x
  PROVE  Max(S) = x
<1>1. x \in Nat /\ \A y \in S : y \in Nat
  OBVIOUS
<1>2. \A y \in S : x >= y
  BY <1>1
<1>3. \A z \in S : (\A y \in S : z >= y) => z = x
  BY <1>1
<1> DEFINE P(z) == \A y \in S : z >= y
<1>4. Max(S) = CHOOSE z \in S : P(z)
  BY DEF Max
<1>5. P(x) /\ \A z \in S : P(z) => z = x
  BY <1>2, <1>3
<1> HIDE DEF P
<1> QED BY <1>4, <1>5

(* What a commit does to the committed rows. *)
LEMMA CommitRows ==
  ASSUME IndInv, NEW w \in Writers, Commit(w)
  PROVE  /\ wtx[w].step = "commit" /\ wtx[w].lot \in Lots /\ wtx[w].kind \in Kinds
         /\ wtx[w].id \in Ids /\ wtx[w].id < nextId
         /\ rows[wtx[w].id] = NoRow
         /\ rows' \in [Ids -> Rows \cup {NoRow}]
         /\ rows'[wtx[w].id] = [lot |-> wtx[w].lot, kind |-> wtx[w].kind]
         /\ rows'[wtx[w].id] # NoRow
         /\ \A i \in Ids : i # wtx[w].id => rows'[i] = rows[i]
         /\ \A i \in Ids : rows[i] # NoRow => rows'[i] = rows[i]
         /\ \A l \in Lots : QROf(l)' =
              IF l = wtx[w].lot /\ wtx[w].kind \in QRKinds THEN QROf(l) \cup {wtx[w].id} ELSE QROf(l)
         /\ wtx[w].kind \in QRKinds => \A i \in QROf(wtx[w].lot) : i < wtx[w].id
<1> DEFINE t == wtx[w]
           row == [lot |-> t.lot, kind |-> t.kind]
<1>1. t.step = "commit" /\ rows' = [rows EXCEPT ![t.id] = row]
  BY DEF Commit
<1>2. t.lot \in Lots /\ t.kind \in Kinds
  BY DEF IndInv, TypeOK
<1>3. t.id \in Ids /\ t.id < nextId /\ rows[t.id] = NoRow
  BY <1>1 DEF IndInv, WriterOK, SerialOK
<1>4. row \in Rows /\ row.lot = t.lot /\ row.kind = t.kind
  BY <1>2 DEF Rows
<1> HIDE DEF row
<1>5. rows' \in [Ids -> Rows \cup {NoRow}] /\ rows'[t.id] = row /\ row # NoRow
  BY <1>1, <1>3, <1>4, NoRowAssumption DEF IndInv, TypeOK
<1>6. \A i \in Ids : i # t.id => rows'[i] = rows[i]
  BY <1>1, <1>3 DEF IndInv, TypeOK
<1>7. ASSUME NEW l \in Lots
      PROVE  QROf(l)' = IF l = t.lot /\ t.kind \in QRKinds THEN QROf(l) \cup {t.id} ELSE QROf(l)
  <2>1. \A i \in Ids : i # t.id => (i \in QROf(l)' <=> i \in QROf(l))
    BY <1>6 DEF QROf, IsQR
  <2>2. t.id \in QROf(l)' <=> l = t.lot /\ t.kind \in QRKinds
    BY <1>3, <1>4, <1>5 DEF QROf, IsQR
  <2>3. t.id \notin QROf(l) /\ QROf(l) \subseteq Ids /\ QROf(l)' \subseteq Ids
    BY <1>3 DEF QROf
  <2> HIDE DEF t
  <2> QED BY <2>1, <2>2, <2>3, <1>3
<1>8. t.kind \in QRKinds => \A i \in QROf(t.lot) : i < t.id
  BY <1>1 DEF IndInv, WriterOK, LockOK
<1> QED BY <1>1, <1>2, <1>3, <1>5, <1>6, <1>7, <1>8 DEF row

(* A lot's new state is what its committed events, with the new one, amount to. *)
LEMMA CommitState ==
  ASSUME IndInv, NEW w \in Writers, Commit(w), NEW t, t = wtx[w], NEW l, l = t.lot, t.kind \in QRKinds
  PROVE  Announced(NewQR(t)) = StateOf(l)' /\ NewQR(t) \in [token : Tokens, live : BOOLEAN]
<1> DEFINE Q == QROf(l)
<1>1. /\ l \in Lots /\ t.id \in Ids /\ rows'[t.id] = [lot |-> t.lot, kind |-> t.kind]
      /\ QROf(l)' = Q \cup {t.id} /\ \A i \in Q : i < t.id
      /\ \A i \in Ids : i # t.id => rows'[i] = rows[i]
  BY CommitRows
<1>2. Q \subseteq Ids /\ Ids \subseteq Nat /\ t.id \in Nat /\ t.id \in 0..MaxId /\ t.id \notin Q
  <2>1. Q \subseteq Ids /\ Ids \subseteq Nat
    BY BoundsAssumption DEF QROf, Ids
  <2>2. t.id \in 0..MaxId
    BY <1>1, BoundsAssumption DEF Ids
  <2>3. t.id \in Nat
    BY <2>2, BoundsAssumption
  <2>4. ~(t.id < t.id)
    BY <2>3
  <2> QED BY <1>1, <2>1, <2>2, <2>3, <2>4
<1>u. \A y \in Q \cup {t.id} : y \in Nat /\ y <= t.id
  <2>1. ASSUME NEW y \in Q PROVE y \in Nat /\ y <= t.id
    <3>1. y \in Nat /\ y < t.id
      BY <1>1, <1>2
    <3> QED BY <1>2, <3>1
  <2>2. t.id <= t.id
    BY <1>2
  <2> HIDE DEF Q
  <2> QED BY <1>2, <2>1, <2>2
<1>3. Announced(qr[l]) = StateOf(l) /\ qr[l].token \in Tokens
  BY <1>1 DEF IndInv, WriterOK, QROK, TypeOK
<1>4. Max(QROf(l)') = t.id /\ QROf(l)' # {}
  <2>1. t.id \in QROf(l)' /\ QROf(l)' \subseteq Nat /\ \A y \in QROf(l)' : y <= t.id
    <3> HIDE DEF Q
    <3> QED BY <1>1, <1>u
  <2> QED BY <2>1, MaxIs
<1>5. (t.kind = "published" \/ t.kind = "revoked") /\ rows'[t.id].kind = t.kind
  BY <1>1 DEF QRKinds
<1>6. Pubs(l)' = IF t.kind = "published" THEN Pubs(l) \cup {t.id} ELSE Pubs(l)
  <2>1. \A i \in Q : IsPublication(i)' <=> IsPublication(i)
    BY <1>1, <1>2 DEF IsPublication
  <2>2. IsPublication(t.id)' <=> t.kind = "published"
    BY <1>5 DEF IsPublication
  <2>3. Pubs(l)' = {i \in Q \cup {t.id} : IsPublication(i)'} /\ Pubs(l) = {i \in Q : IsPublication(i)}
    BY <1>1 DEF Pubs
  <2> HIDE DEF Q
  <2> QED BY <2>1, <2>2, <2>3
<1>7. StateOf(l)' = [token |-> IF Pubs(l)' = {} THEN 0 ELSE Max(Pubs(l)'),
                     live |-> QROf(l)' # {} /\ Max(QROf(l)') \in Pubs(l)']
  BY DEF StateOf
<1>8. Pubs(l) \subseteq Q
  BY DEF Pubs
<1>9. CASE t.kind = "published"
  <2>1. t.id \in Pubs(l)' /\ Pubs(l)' \subseteq Nat /\ \A y \in Pubs(l)' : y <= t.id
    <3> HIDE DEF Q
    <3> QED BY <1>u, <1>6, <1>8, <1>9
  <2>2. Max(Pubs(l)') = t.id /\ Pubs(l)' # {}
    BY <2>1, MaxIs
  <2>3. StateOf(l)' = [token |-> t.id, live |-> TRUE]
    BY <1>4, <1>7, <2>1, <2>2
  <2>4. NewQR(t) = [token |-> t.id, live |-> TRUE]
    BY <1>9 DEF NewQR
  <2>5. Announced(NewQR(t)) = NewQR(t)
    BY <1>2, <2>4, ImportedAssumption DEF Announced
  <2> QED BY <1>2, <2>3, <2>4, <2>5 DEF Tokens
<1>10. CASE t.kind = "revoked"
  <2>1. Pubs(l)' = Pubs(l) /\ t.id \notin Pubs(l)'
    BY <1>2, <1>6, <1>8, <1>10
  <2>2. StateOf(l)' = [token |-> IF Pubs(l) = {} THEN 0 ELSE Max(Pubs(l)), live |-> FALSE]
    BY <1>4, <1>7, <2>1
  <2>3. (IF Pubs(l) = {} THEN 0 ELSE Max(Pubs(l))) = IF qr[l].token = Imported THEN 0 ELSE qr[l].token
    BY <1>3 DEF StateOf, Announced, NoQR
  <2>4. NewQR(t) = [token |-> qr[l].token, live |-> FALSE]
    BY <1>10 DEF NewQR
  <2> DEFINE a == IF Pubs(l) = {} THEN 0 ELSE Max(Pubs(l))
  <2>5. NewQR(t).token = qr[l].token
    BY <2>4
  <2>6. StateOf(l)' = [token |-> a, live |-> FALSE] /\ a = IF qr[l].token = Imported THEN 0 ELSE qr[l].token
    BY <2>2, <2>3
  <2> HIDE DEF a
  <2>7. ASSUME qr[l].token = Imported PROVE Announced(NewQR(t)) = StateOf(l)'
    BY <2>5, <2>6, <2>7 DEF Announced, NoQR
  <2>8. ASSUME qr[l].token # Imported PROVE Announced(NewQR(t)) = StateOf(l)'
    BY <2>4, <2>5, <2>6, <2>8 DEF Announced
  <2> QED BY <1>3, <2>4, <2>7, <2>8
<1> QED BY <1>5, <1>9, <1>10

(* Nothing that was fetched or has arrived is disturbed by a commit: the new QR
   row is later than the lot's others. *)
LEMMA CommitRelays ==
  ASSUME IndInv, NEW w \in Writers, Commit(w)
  PROVE  RelayOK'
<1>1. UNCHANGED relayVars /\ UNCHANGED << delivered, batch, sent, published >>
  BY DEF Commit, relayVars
<1>2. /\ \A i \in Ids : rows[i] # NoRow => rows'[i] = rows[i]
      /\ \A l \in Lots : QROf(l)' =
              IF l = wtx[w].lot /\ wtx[w].kind \in QRKinds THEN QROf(l) \cup {wtx[w].id} ELSE QROf(l)
      /\ wtx[w].kind \in QRKinds => \A i \in QROf(wtx[w].lot) : i < wtx[w].id
      /\ wtx[w].id \in Ids
  BY CommitRows
<1>3. Ids \subseteq Nat
  BY BoundsAssumption DEF Ids
<1>4. \A l \in Lots : \A i \in Ids : rows[i] # NoRow /\ rows[i].lot = l /\ IsQR(i) =>
         \A j \in QROf(l)' : j < i => j \in QROf(l)
  <2> SUFFICES ASSUME NEW l \in Lots, NEW i \in Ids, rows[i] # NoRow, rows[i].lot = l, IsQR(i),
                      NEW j \in QROf(l)', j < i
               PROVE  j \in QROf(l)
    OBVIOUS
  <2>1. i \in QROf(l) /\ i \in Nat /\ wtx[w].id \in Nat
    BY <1>2, <1>3 DEF QROf
  <2> QED BY <1>2, <2>1
<1>5. \A i \in Ids : rows[i] # NoRow => (rows'[i] # NoRow /\ rows'[i].lot = rows[i].lot /\ (IsQR(i)' <=> IsQR(i)))
  BY <1>2 DEF IsQR
<1>6. \A i \in Ids : rows[i] # NoRow /\ Arrived(i) => Arrived(i)'
  BY <1>1, <1>5 DEF Arrived
<1>7. /\ \A l \in Lots : \A n \in 1..Len(delivered[l]) : delivered[l][n] \in Ids
      /\ \A r \in Relays : \A n \in 1..Len(batch[r]) : batch[r][n] \in Ids
      /\ \A r \in Relays : batch[r] # << >> => 1 \in 1..Len(batch[r]) /\ Head(batch[r]) = batch[r][1]
      /\ \A i \in Ids : rows[i] # NoRow => rows[i].lot \in Lots
      /\ published \subseteq Ids
  BY DEF IndInv, TypeOK, Rows
<1>8. TopicOK'
  BY <1>1, <1>5, <1>6, <1>7 DEF IndInv, RelayOK, TopicOK
<1>9. OrderOK'
  BY <1>1, <1>4, <1>5, <1>7 DEF IndInv, RelayOK, TopicOK, OrderOK
<1>10. BatchOK'
  <2> SUFFICES ASSUME NEW r \in Relays
      PROVE  /\ \A n \in 1..Len(batch[r]) : rows'[batch[r][n]] # NoRow
             /\ \A l \in Lots : \A n \in 1..Len(batch[r]) : batch[r][n] \in QROf(l)' =>
                  \A j \in QROf(l)' : j < batch[r][n] =>
                    Arrived(j)' \/ \E m \in 1..(n - 1) : batch[r][m] = j
             /\ sent[r] => batch[r] # << >> /\ \A i \in Ids : i = Head(batch[r]) => Arrived(i)'
    BY <1>1 DEF BatchOK
  <2>1. \A n \in 1..Len(batch[r]) : batch[r][n] \in Ids /\ rows[batch[r][n]] # NoRow
    BY <1>7 DEF IndInv, RelayOK, BatchOK
  <2>2. sent[r] => batch[r] # << >> /\ \A i \in Ids : i = Head(batch[r]) => Arrived(i)'
    BY <1>6, <1>7, <2>1 DEF IndInv, RelayOK, BatchOK
  <2>3. ASSUME NEW l \in Lots, NEW n \in 1..Len(batch[r]), batch[r][n] \in QROf(l)',
               NEW j \in QROf(l)', j < batch[r][n]
        PROVE  Arrived(j)' \/ \E m \in 1..(n - 1) : batch[r][m] = j
    <3>0. rows[batch[r][n]].lot = l /\ IsQR(batch[r][n]) /\ batch[r][n] \in QROf(l)
      <4>1. PICK i \in Ids : i = batch[r][n]
        BY <2>1
      <4>2. i \in QROf(l)' /\ rows[i] # NoRow /\ rows'[i] = rows[i]
        BY <1>2, <2>1, <2>3, <4>1
      <4>3. rows[i].lot = l /\ IsQR(i)
        BY <4>2 DEF QROf, IsQR
      <4> QED BY <4>1, <4>2, <4>3 DEF QROf
    <3>1. j \in QROf(l)
      BY <1>4, <2>1, <2>3, <3>0
    <3>2. Arrived(j) \/ \E m \in 1..(n - 1) : batch[r][m] = j
      BY <2>3, <3>0, <3>1 DEF IndInv, RelayOK, BatchOK
    <3>3. j \in Ids /\ rows[j] # NoRow
      BY <3>1 DEF QROf
    <3> QED BY <1>6, <3>2, <3>3
  <2> QED BY <1>5, <2>1, <2>2, <2>3
<1> QED BY <1>8, <1>9, <1>10 DEF RelayOK

(* A commit: the row, the table and the history change together. *)
LEMMA CommitInv == ASSUME IndInv, NEW w \in Writers, Commit(w) PROVE IndInv'
<1>0. PICK t : t = wtx[w]
  OBVIOUS
<1>a. PICK lot : lot = t.lot
  OBVIOUS
<1>1. /\ t.step = "commit" /\ t.lot \in Lots /\ t.kind \in Kinds /\ t.id \in Ids /\ t.id < nextId
      /\ rows[t.id] = NoRow /\ rows' \in [Ids -> Rows \cup {NoRow}] /\ rows'[t.id] # NoRow
      /\ \A i \in Ids : i # t.id => rows'[i] = rows[i]
      /\ \A i \in Ids : rows[i] # NoRow => rows'[i] = rows[i]
      /\ \A l \in Lots : QROf(l)' = IF l = t.lot /\ t.kind \in QRKinds THEN QROf(l) \cup {t.id} ELSE QROf(l)
      /\ t.kind \in QRKinds => \A i \in QROf(t.lot) : i < t.id
  <2>1. /\ t.step = "commit" /\ t.lot \in Lots /\ t.kind \in Kinds /\ t.id \in Ids /\ t.id < nextId
        /\ rows[t.id] = NoRow /\ rows' \in [Ids -> Rows \cup {NoRow}] /\ rows'[t.id] # NoRow
    BY <1>0, CommitRows, Zenon
  <2>2. /\ \A i \in Ids : i # t.id => rows'[i] = rows[i]
        /\ \A i \in Ids : rows[i] # NoRow => rows'[i] = rows[i]
    BY <1>0, CommitRows, Zenon
  <2>3. \A l \in Lots : QROf(l)' = IF l = t.lot /\ t.kind \in QRKinds THEN QROf(l) \cup {t.id} ELSE QROf(l)
    <3>1. \A l \in Lots : QROf(l)' =
            IF l = wtx[w].lot /\ wtx[w].kind \in QRKinds THEN QROf(l) \cup {wtx[w].id} ELSE QROf(l)
      BY CommitRows
    <3> QED BY <1>0, <3>1
  <2>4. t.kind \in QRKinds => \A i \in QROf(t.lot) : i < t.id
    BY <1>0, CommitRows, Zenon
  <2> QED BY <2>1, <2>2, <2>3, <2>4
<1>2. /\ wtx' \in [Writers -> Txs]
      /\ \A v \in Writers : wtx'[v] = IF v = w THEN IdleTx ELSE wtx[v]
      /\ rowLock' \in [Lots -> Writers \cup {Free}]
      /\ \A l \in Lots : rowLock[l] # w => rowLock'[l] = rowLock[l]
  BY TxEnds DEF Commit
<1>3. UNCHANGED << nextId, relayVars >>
  BY DEF Commit
<1>4. /\ t.kind \notin QRKinds => UNCHANGED << qr, changes >>
      /\ t.kind \in QRKinds => /\ qr' = [qr EXCEPT ![t.lot] = NewQR(t)]
                               /\ changes' = [changes EXCEPT ![t.lot] = Append(changes[t.lot], t.id)]
  BY <1>0, <1>1 DEF Commit, Kinds, QRKinds
<1>5. t.kind \in QRKinds => Announced(NewQR(t)) = StateOf(lot)' /\ NewQR(t) \in [token : Tokens, live : BOOLEAN]
  BY <1>0, <1>a, CommitState
<1>6. changes \in [Lots -> Seq(Ids)] /\ qr \in [Lots -> [token : Tokens, live : BOOLEAN]]
  BY DEF IndInv, TypeOK
<1>7. TypeOK'
  <2>1. qr' \in [Lots -> [token : Tokens, live : BOOLEAN]] /\ changes' \in [Lots -> Seq(Ids)]
    <3> DEFINE q == NewQR(t)
    <3> HIDE DEF q
    <3>1. qr' = qr \/ (qr' = [qr EXCEPT ![lot] = q] /\ q \in [token : Tokens, live : BOOLEAN])
      BY <1>4, <1>5, <1>a DEF q
    <3>2. changes' \in [Lots -> Seq(Ids)]
      <4>1. Append(changes[t.lot], t.id) \in Seq(Ids)
        BY <1>1, <1>6
      <4> QED BY <1>1, <1>4, <1>6, <4>1
    <3>3. qr' \in [Lots -> [token : Tokens, live : BOOLEAN]]
      BY <3>1, <1>1, <1>6, <1>a
    <3> QED BY <3>2, <3>3
  <2> QED BY <1>1, <1>2, <1>3, <2>1 DEF IndInv, TypeOK, relayVars, Txs
<1>8. SerialOK'
  BY <1>0, <1>1, <1>2, <1>3, IdleType DEF IndInv, WriterOK, SerialOK
<1>9. LockOK'
  <2> SUFFICES ASSUME NEW v \in Writers, v # w
               PROVE  /\ wtx[v].step = "enqueue" => wtx[v].kind \in QRKinds
                      /\ wtx[v].step # "idle" /\ wtx[v].kind \in QRKinds => rowLock'[wtx[v].lot] = v
                      /\ wtx[v].step = "commit" /\ wtx[v].kind \in QRKinds =>
                           \A l \in Lots : l = wtx[v].lot => \A i \in QROf(l)' : i < wtx[v].id
    <3>1. \A v \in Writers : wtx'[v].lot \in Lots
      BY <1>2 DEF Txs
    <3> QED BY <1>2, <3>1, IdleType DEF LockOK
  <2>1. wtx[v].lot \in Lots
    BY DEF IndInv, TypeOK
  <2>2. wtx[v].step # "idle" /\ wtx[v].kind \in QRKinds => rowLock[wtx[v].lot] = v
    BY DEF IndInv, WriterOK, LockOK
  <2>3. wtx[v].step = "commit" /\ wtx[v].kind \in QRKinds =>
          \A l \in Lots : l = wtx[v].lot => QROf(l)' = QROf(l)
    <3>1. t.kind \in QRKinds => rowLock[t.lot] = w
      BY <1>0, <1>1 DEF IndInv, WriterOK, LockOK
    <3>2. ASSUME wtx[v].step = "commit", wtx[v].kind \in QRKinds PROVE ~(wtx[v].lot = t.lot /\ t.kind \in QRKinds)
      BY <2>2, <3>1, <3>2
    <3>3. ASSUME NEW l \in Lots, ~(l = t.lot /\ t.kind \in QRKinds) PROVE QROf(l)' = QROf(l)
      BY <1>1, <3>3
    <3>4. PICK l \in Lots : l = wtx[v].lot
      BY <2>1
    <3> QED BY <3>2, <3>3, <3>4
  <2> QED BY <1>2, <2>1, <2>2, <2>3 DEF IndInv, WriterOK, LockOK
<1>10. ChangesOK'
  <2>1. ASSUME NEW l \in Lots, l # t.lot \/ t.kind \notin QRKinds
        PROVE  changes'[l] = changes[l] /\ QROf(l)' = QROf(l)
    BY <1>1, <1>4, <1>6, <2>1
  <2>2. ASSUME NEW l \in Lots
        PROVE  /\ \A a \in 1..Len(changes'[l]) : changes'[l][a] \in QROf(l)'
               /\ \A i \in QROf(l)' : \E a \in 1..Len(changes'[l]) : changes'[l][a] = i
               /\ \A a, b \in 1..Len(changes'[l]) : a < b => changes'[l][a] < changes'[l][b]
    <3>1. CASE l # t.lot \/ t.kind \notin QRKinds
      BY <2>1, <3>1 DEF IndInv, WriterOK, ChangesOK
    <3>2. CASE l = t.lot /\ t.kind \in QRKinds
      <4> DEFINE c == changes[l]
                 d == changes'[l]
      <4>1. c \in Seq(Ids) /\ d = Append(c, t.id) /\ QROf(l)' = QROf(l) \cup {t.id}
        BY <1>1, <1>4, <1>6, <3>2
      <4>2. /\ \A a \in 1..Len(c) : c[a] \in QROf(l) /\ c[a] < t.id
            /\ \A i \in QROf(l) : \E a \in 1..Len(c) : c[a] = i
            /\ \A a, b \in 1..Len(c) : a < b => c[a] < c[b]
        BY <1>1, <3>2 DEF IndInv, WriterOK, ChangesOK
      <4> HIDE DEF c, d
      <4>3. /\ Len(d) = Len(c) + 1 /\ Len(c) \in Nat /\ d[Len(c) + 1] = t.id
            /\ \A a \in 1..Len(c) : d[a] = c[a]
            /\ \A a \in 1..Len(d) : a \in 1..Len(c) \/ a = Len(c) + 1
            /\ 1..Len(c) \subseteq 1..Len(d) /\ Len(c) + 1 \in 1..Len(d)
        BY <4>1, <1>1
      <4>4. \A a \in 1..Len(d) : d[a] \in QROf(l)'
        BY <4>1, <4>2, <4>3
      <4>5. \A i \in QROf(l)' : \E a \in 1..Len(d) : d[a] = i
        BY <4>1, <4>2, <4>3
      <4>6. \A a, b \in 1..Len(d) : a < b => d[a] < d[b]
        <5>1. \A a, b \in 1..Len(d) : a < b => a \in 1..Len(c)
          BY <4>3
        <5> QED BY <4>2, <4>3, <5>1
      <4> QED BY <4>4, <4>5, <4>6 DEF d
    <3> QED BY <3>1, <3>2
  <2> QED BY <2>2 DEF ChangesOK
<1>11. QROK'
  <2> SUFFICES ASSUME NEW l \in Lots PROVE Announced(qr'[l]) = StateOf(l)'
    BY DEF QROK, Announced
  <2>1. CASE l # t.lot \/ t.kind \notin QRKinds
    <3>1. qr'[l] = qr[l] /\ QROf(l)' = QROf(l)
      BY <1>1, <1>4, <1>6, <2>1
    <3>2. \A i \in QROf(l) : rows[i] # NoRow /\ i \in Ids
      BY DEF QROf
    <3>3. Pubs(l)' = Pubs(l)
      BY <1>1, <3>1, <3>2 DEF Pubs, IsPublication
    <3>4. StateOf(l)' = StateOf(l)
      BY <3>1, <3>3 DEF StateOf
    <3> QED BY <3>1, <3>4 DEF IndInv, WriterOK, QROK
  <2>2. CASE l = t.lot /\ t.kind \in QRKinds
    <3> DEFINE q == NewQR(t)
    <3>1. Announced(q) = StateOf(l)' /\ qr' = [qr EXCEPT ![l] = q]
      BY <1>4, <1>5, <1>a, <2>2
    <3> HIDE DEF q
    <3> QED BY <3>1, <1>6
  <2> QED BY <2>1, <2>2
<1> QED BY <1>7, <1>8, <1>9, <1>10, <1>11, CommitRelays DEF IndInv, WriterOK

(* An imported row takes the place of no row, and no event has told of either. *)
LEMMA ImportQRInv == ASSUME IndInv, NEW lot \in Lots, ImportQR(lot) PROVE IndInv'
<1>1. PICK live \in BOOLEAN : qr' = [qr EXCEPT ![lot] = [token |-> Imported, live |-> live]]
  BY DEF ImportQR
<1>2. qr[lot] = NoQR /\ UNCHANGED << rowLock, rows, nextId, wtx, changes, relayVars >>
  BY DEF ImportQR
<1>3. qr \in [Lots -> [token : Tokens, live : BOOLEAN]]
  BY DEF IndInv, TypeOK
<1>4. TypeOK'
  <2>1. qr' \in [Lots -> [token : Tokens, live : BOOLEAN]]
    BY <1>1, <1>3 DEF Tokens
  <2> QED BY <1>2, <2>1 DEF IndInv, TypeOK, relayVars
<1>5. \A l : QROf(l)' = QROf(l) /\ StateOf(l)' = StateOf(l)
  BY <1>2 DEF QROf, IsQR, StateOf, Pubs, IsPublication
<1>6. SerialOK' /\ LockOK' /\ ChangesOK'
  BY <1>2, <1>5 DEF IndInv, WriterOK, SerialOK, LockOK, ChangesOK
<1>7. QROK'
  <2>1. Announced(qr'[lot]) = NoQR /\ Announced(qr[lot]) = NoQR
    BY <1>1, <1>2, <1>3 DEF Announced
  <2>2. \A l \in Lots : l # lot => qr'[l] = qr[l]
    BY <1>1, <1>3
  <2>3. \A l \in Lots : Announced(qr'[l]) = Announced(qr[l])
    BY <2>1, <2>2
  <2>4. \A l \in Lots : Announced(qr[l])' = Announced(qr'[l])
    BY DEF Announced
  <2> QED BY <1>5, <2>3, <2>4 DEF IndInv, WriterOK, QROK
<1> QED BY <1>2, <1>4, <1>6, <1>7, RelaysUntouched DEF IndInv, WriterOK

----------------------------------------------------------------------------
(* The relays. *)

(* A relay writes nothing that the writers' facts are about. *)
LEMMA WritersUntouched == ASSUME WriterOK, UNCHANGED writerVars PROVE WriterOK'
BY DEF WriterOK, SerialOK, LockOK, ChangesOK, QROK, QROf, IsQR, StateOf, Pubs, IsPublication, Announced, writerVars

(* What the relays' steps need of the types. *)
LEMMA RelayTypes ==
  ASSUME IndInv
  PROVE  /\ Ids \subseteq Nat /\ published \subseteq Ids
         /\ \A l \in Lots : /\ delivered[l] \in Seq(Ids) /\ Len(delivered[l]) \in Nat
                            /\ \A n \in 1..Len(delivered[l]) : delivered[l][n] \in Ids
         /\ \A r \in Relays : /\ batch[r] \in Seq(Ids) /\ Len(batch[r]) \in Nat
                              /\ \A n \in 1..Len(batch[r]) : batch[r][n] \in Ids
         /\ \A r \in Relays : batch[r] # << >> =>
              /\ 1 \in 1..Len(batch[r]) /\ Head(batch[r]) = batch[r][1] /\ Head(batch[r]) \in Ids
              /\ rows[Head(batch[r])] # NoRow
         /\ \A i \in Ids : rows[i] # NoRow => rows[i].lot \in Lots
         /\ \A l \in Lots : \A i \in QROf(l) : i \in Ids /\ rows[i] # NoRow /\ rows[i].lot = l
<1>1. Ids \subseteq Nat
  BY BoundsAssumption DEF Ids
<1>2. /\ published \subseteq Ids /\ delivered \in [Lots -> Seq(Ids)] /\ batch \in [Relays -> Seq(Ids)]
      /\ rows \in [Ids -> Rows \cup {NoRow}]
  BY DEF IndInv, TypeOK
<1>3. \A i \in Ids : rows[i] # NoRow => rows[i].lot \in Lots
  BY <1>2 DEF Rows
<1>4. \A l \in Lots : /\ delivered[l] \in Seq(Ids) /\ Len(delivered[l]) \in Nat
                      /\ \A n \in 1..Len(delivered[l]) : delivered[l][n] \in Ids
  BY <1>2
<1>5. \A r \in Relays : /\ batch[r] \in Seq(Ids) /\ Len(batch[r]) \in Nat
                        /\ \A n \in 1..Len(batch[r]) : batch[r][n] \in Ids
  BY <1>2
<1>6. ASSUME NEW r \in Relays, batch[r] # << >>
      PROVE  /\ 1 \in 1..Len(batch[r]) /\ Head(batch[r]) = batch[r][1] /\ Head(batch[r]) \in Ids
             /\ rows[Head(batch[r])] # NoRow
  <2>1. 1 \in 1..Len(batch[r]) /\ Head(batch[r]) = batch[r][1] /\ Head(batch[r]) \in Ids
    BY <1>5, <1>6
  <2> QED BY <2>1 DEF IndInv, RelayOK, BatchOK
<1>7. \A l \in Lots : \A i \in QROf(l) : i \in Ids /\ rows[i] # NoRow /\ rows[i].lot = l
  BY DEF QROf
<1> QED BY <1>1, <1>2, <1>3, <1>4, <1>5, <1>6, <1>7

(* A pass fetches the lowest unpublished ids: what they pass over is marked. *)
LEMMA FetchInv == ASSUME IndInv, NEW r \in Relays, Fetch(r) PROVE IndInv'
<1>1. /\ batch[r] = << >> /\ UNCHANGED << published, sent, delivered, writerVars >>
      /\ batch' = [batch EXCEPT ![r] = Lowest(Unpublished, Batch)]
  BY DEF Fetch
<1>2. PICK b : b = Lowest(Unpublished, Batch)
  OBVIOUS
<1>3. Unpublished \subseteq Ids /\ \A i \in Unpublished : rows[i] # NoRow
  BY DEF Unpublished
<1>4. /\ b \in Seq(Unpublished)
      /\ \A p \in 1..Len(b) : \A i \in Unpublished : i < b[p] => \E m \in 1..(p - 1) : b[m] = i
  BY <1>2, <1>3, BoundsAssumption, LowestIsSorted
<1>5. b \in Seq(Ids) /\ \A n \in 1..Len(b) : b[n] \in Unpublished
  BY <1>3, <1>4
<1>6. batch' \in [Relays -> Seq(Ids)] /\ \A q \in Relays : batch'[q] = IF q = r THEN b ELSE batch[q]
  BY <1>1, <1>2, <1>5 DEF IndInv, TypeOK
<1>7. TypeOK'
  BY <1>1, <1>6 DEF IndInv, TypeOK, writerVars
<1>8. rows' = rows /\ sent' = sent /\ delivered' = delivered /\ published' = published
  BY <1>1 DEF writerVars
<1>9. /\ \A l : QROf(l)' = QROf(l)
      /\ \A j : Arrived(j)' <=> Arrived(j)
  BY <1>8 DEF QROf, IsQR, Arrived
<1>10. TopicOK'
  BY <1>8, <1>9 DEF IndInv, RelayOK, TopicOK
<1>11. OrderOK'
  BY <1>8, <1>9 DEF IndInv, RelayOK, OrderOK, IsQR
<1>12. BatchOK'
  <2>1. ASSUME NEW l \in Lots, NEW n \in 1..Len(b), NEW j \in QROf(l), j < b[n]
        PROVE  Arrived(j) \/ \E m \in 1..(n - 1) : b[m] = j
    <3>1. j \in Ids /\ rows[j] # NoRow
      BY DEF QROf
    <3>2. CASE j \in published
      BY <3>2 DEF IndInv, RelayOK, TopicOK
    <3>3. CASE j \notin published
      BY <1>4, <2>1, <3>1, <3>3 DEF Unpublished
    <3> QED BY <3>2, <3>3
  <2>2. ~sent[r]
    BY <1>1 DEF IndInv, RelayOK, BatchOK
  <2>3. \A n \in 1..Len(b) : rows[b[n]] # NoRow
    BY <1>3, <1>5
  <2>4. ASSUME NEW q \in Relays
        PROVE  /\ \A n \in 1..Len(batch'[q]) : rows[batch'[q][n]] # NoRow
               /\ \A l \in Lots : \A n \in 1..Len(batch'[q]) : batch'[q][n] \in QROf(l) =>
                    \A j \in QROf(l) : j < batch'[q][n] =>
                      Arrived(j) \/ \E m \in 1..(n - 1) : batch'[q][m] = j
               /\ sent[q] => batch'[q] # << >> /\ \A i \in Ids : i = Head(batch'[q]) => Arrived(i)
    <3>1. CASE q = r
      <4>1. batch'[q] = b
        BY <1>6, <3>1
      <4> QED BY <2>1, <2>2, <2>3, <3>1, <4>1
    <3>2. CASE q # r
      <4>1. batch'[q] = batch[q]
        BY <1>6, <3>2
      <4> QED BY <4>1 DEF IndInv, RelayOK, BatchOK
    <3> QED BY <3>1, <3>2
  <2> QED BY <1>8, <1>9, <2>4 DEF BatchOK
<1> QED BY <1>1, <1>7, <1>10, <1>11, <1>12, WritersUntouched DEF IndInv, RelayOK

(* The head of a batch reaches the topic: everything that was there stays, the
   head is there, and the order is kept. *)
LEMMA DeliverHead ==
  ASSUME IndInv, NEW r \in Relays, batch[r] # << >>, NEW i, i = Head(batch[r]), Deliver(i),
         UNCHANGED << rows, published >>
  PROVE  /\ delivered' \in [Lots -> Seq(Ids)] /\ Arrived(i)'
         /\ \A j \in Ids : rows[j] # NoRow /\ Arrived(j) => Arrived(j)'
         /\ TopicOK' /\ OrderOK'
<1>1. i \in Ids /\ rows[i] # NoRow /\ rows[i].lot \in Lots /\ 1 \in 1..Len(batch[r]) /\ i = batch[r][1]
  BY RelayTypes
<1>2. PICK lot \in Lots : lot = rows[i].lot
  BY <1>1
<1>3. Arrived(i) <=> \E n \in 1..Len(delivered[lot]) : delivered[lot][n] = i
  BY <1>2 DEF Arrived
<1>4. delivered \in [Lots -> Seq(Ids)]
  BY DEF IndInv, TypeOK
<1>5. \A l : QROf(l)' = QROf(l)
  BY DEF QROf, IsQR
<1>6. CASE Arrived(i)
  <2>1. delivered' = delivered
    BY <1>2, <1>3, <1>6 DEF Deliver
  <2>2. \A j : Arrived(j)' <=> Arrived(j)
    BY <2>1 DEF Arrived
  <2>3. TopicOK'
    BY <2>1, <2>2 DEF IndInv, RelayOK, TopicOK
  <2>4. OrderOK'
    BY <1>5, <2>1 DEF IndInv, RelayOK, OrderOK, IsQR
  <2> QED BY <1>4, <1>6, <2>1, <2>2, <2>3, <2>4
<1>7. CASE ~Arrived(i)
  <2> DEFINE d == delivered[lot]
             e == delivered'[lot]
             k == Len(delivered[lot]) + 1
  <2>1. delivered' = [delivered EXCEPT ![lot] = Append(delivered[lot], i)]
    BY <1>2, <1>3, <1>7 DEF Deliver
  <2>2. d \in Seq(Ids) /\ e = Append(d, i)
    BY <1>4, <2>1
  <2>3. delivered' \in [Lots -> Seq(Ids)] /\ \A l \in Lots : l # lot => delivered'[l] = delivered[l]
    <3>1. Append(delivered[lot], i) \in Seq(Ids)
      BY <1>1, <2>2
    <3> QED BY <1>4, <2>1, <3>1
  <2>4. \A n \in 1..Len(d) : d[n] # i
    BY <1>3, <1>7
  <2>5. /\ Len(e) = k /\ k \in Nat /\ e[k] = i /\ k \in 1..Len(e)
        /\ \A n \in 1..Len(d) : e[n] = d[n] /\ n \in 1..Len(e) /\ n # k
        /\ \A n \in 1..Len(e) : n \in 1..Len(d) \/ n = k
        /\ 1..(k - 1) = 1..Len(d)
    <3> HIDE DEF d, e
    <3>1. Len(d) \in Nat /\ k = Len(d) + 1
      BY <2>2 DEF d
    <3> HIDE DEF k
    <3> QED BY <1>1, <2>2, <3>1
  <2> HIDE DEF d, e, k
  <2>6. Arrived(i)'
    BY <1>2, <2>5 DEF Arrived, e
  <2>7. ASSUME NEW j \in Ids, rows[j] # NoRow, Arrived(j) PROVE Arrived(j)'
    <3>1. PICK n \in 1..Len(delivered[rows[j].lot]) : delivered[rows[j].lot][n] = j
      BY <2>7 DEF Arrived
    <3>2. rows[j].lot \in Lots
      BY <2>7, RelayTypes
    <3>3. CASE rows[j].lot = lot
      <4>1. n \in 1..Len(d) /\ d[n] = j
        BY <3>1, <3>3 DEF d
      <4>2. n \in 1..Len(e) /\ e[n] = j
        BY <4>1, <2>5
      <4> QED BY <3>3, <4>2 DEF Arrived, e
    <3>4. CASE rows[j].lot # lot
      BY <2>3, <3>1, <3>2, <3>4 DEF Arrived
    <3> QED BY <3>3, <3>4
  <2>8. TopicOK'
    <3>1. \A j \in published : rows[j] # NoRow /\ Arrived(j)'
      <4>1. \A j \in published : j \in Ids /\ rows[j] # NoRow /\ Arrived(j)
        BY RelayTypes DEF IndInv, RelayOK, TopicOK
      <4> QED BY <2>7, <4>1
    <3>2. /\ \A n \in 1..Len(d) : rows[d[n]] # NoRow /\ rows[d[n]].lot = lot
          /\ \A m, n \in 1..Len(d) : d[m] = d[n] => m = n
      BY DEF IndInv, RelayOK, TopicOK, d
    <3>3. \A n \in 1..Len(e) : rows[e[n]] # NoRow /\ rows[e[n]].lot = lot
      <4>1. \A n \in 1..Len(e) : e[n] = i \/ \E m \in 1..Len(d) : e[n] = d[m]
        BY <2>5
      <4> QED BY <1>1, <1>2, <3>2, <4>1
    <3>4. \A m, n \in 1..Len(e) : e[m] = e[n] => m = n
      BY <2>4, <2>5, <3>2
    <3>5. ASSUME NEW l \in Lots
          PROVE  \A n \in 1..Len(delivered'[l]) :
                   /\ rows[delivered'[l][n]] # NoRow
                   /\ rows[delivered'[l][n]].lot = l
                   /\ \A m \in 1..Len(delivered'[l]) : delivered'[l][m] = delivered'[l][n] => m = n
      <4>1. CASE l = lot
        BY <3>3, <3>4, <4>1 DEF e
      <4>2. CASE l # lot
        BY <2>3, <4>2 DEF IndInv, RelayOK, TopicOK
      <4> QED BY <4>1, <4>2
    <3> QED BY <3>1, <3>5 DEF TopicOK
  <2>9. OrderOK'
    <3>1. ASSUME NEW n \in 1..Len(e), IsQR(e[n]), NEW j \in QROf(lot), j < e[n]
          PROVE  \E m \in 1..(n - 1) : e[m] = j
      <4>1. CASE n \in 1..Len(d)
        <5>1. e[n] = d[n]
          BY <2>5, <4>1
        <5>2. PICK m \in 1..(n - 1) : d[m] = j
          BY <3>1, <4>1, <5>1 DEF IndInv, RelayOK, OrderOK, d
        <5>3. m \in 1..Len(d)
          <6>1. Len(d) \in Nat
            BY <2>2
          <6> QED BY <4>1, <6>1
        <5> QED BY <2>5, <5>2, <5>3
      <4>2. CASE n = k
        <5>1. e[n] = i
          BY <2>5, <4>2
        <5>2. i \in QROf(lot)
          BY <1>1, <1>2, <3>1, <5>1 DEF QROf
        <5>3. Arrived(j) \/ \E m \in 1..(1 - 1) : batch[r][m] = j
          BY <1>1, <3>1, <5>1, <5>2 DEF IndInv, RelayOK, BatchOK
        <5>4. Arrived(j) /\ rows[j].lot = lot
          BY <5>3, RelayTypes
        <5>5. PICK m \in 1..Len(d) : d[m] = j
          BY <5>4 DEF Arrived, d
        <5> QED BY <2>5, <4>2, <5>5
      <4> QED BY <2>5, <4>1, <4>2
    <3>2. ASSUME NEW l \in Lots, NEW n \in 1..Len(delivered'[l]), IsQR(delivered'[l][n]),
                 NEW j \in QROf(l), j < delivered'[l][n]
          PROVE  \E m \in 1..(n - 1) : delivered'[l][m] = j
      <4>1. CASE l = lot
        BY <3>1, <3>2, <4>1 DEF e
      <4>2. CASE l # lot
        <5>1. delivered'[l] = delivered[l]
          BY <2>3, <4>2
        <5>2. OrderOK
          BY DEF IndInv, RelayOK
        <5> QED BY <3>2, <5>1, <5>2 DEF OrderOK
      <4> QED BY <4>1, <4>2
    <3> QED BY <1>5, <3>2 DEF OrderOK, IsQR
  <2> QED BY <2>3, <2>6, <2>7, <2>8, <2>9
<1> QED BY <1>6, <1>7

(* What has arrived stays so, and a relay that says its head is sent has seen
   it arrive: the batches that are not emptied keep their facts. *)
LEMMA BatchesKept ==
  ASSUME IndInv, NEW r \in Relays, UNCHANGED rows,
         \A j \in Ids : rows[j] # NoRow /\ Arrived(j) => Arrived(j)',
         \A q \in Relays : q # r => batch'[q] = batch[q] /\ sent'[q] = sent[q],
         batch'[r] = << >> \/ batch'[r] = batch[r],
         sent'[r] => batch'[r] # << >> /\ \A i \in Ids : i = Head(batch'[r]) => Arrived(i)'
  PROVE  BatchOK'
<1>1. \A l : QROf(l)' = QROf(l)
  BY DEF QROf, IsQR
<1>2. ASSUME NEW q \in Relays
      PROVE  /\ \A n \in 1..Len(batch'[q]) : rows[batch'[q][n]] # NoRow
             /\ \A l \in Lots : \A n \in 1..Len(batch'[q]) : batch'[q][n] \in QROf(l) =>
                  \A j \in QROf(l) : j < batch'[q][n] =>
                    Arrived(j)' \/ \E m \in 1..(n - 1) : batch'[q][m] = j
             /\ sent'[q] => batch'[q] # << >> /\ \A i \in Ids : i = Head(batch'[q]) => Arrived(i)'
  <2>1. \A l \in Lots : \A j \in QROf(l) : Arrived(j) => Arrived(j)'
    BY RelayTypes
  <2>2. CASE batch'[q] = batch[q]
    <3>1. sent'[q] => batch'[q] # << >> /\ \A i \in Ids : i = Head(batch'[q]) => Arrived(i)'
      <4>1. CASE q = r
        BY <4>1
      <4>2. CASE q # r
        BY <2>2, <4>2, RelayTypes DEF IndInv, RelayOK, BatchOK
      <4> QED BY <4>1, <4>2
    <3> QED BY <2>1, <2>2, <3>1 DEF IndInv, RelayOK, BatchOK
  <2>3. CASE batch'[q] # batch[q]
    <3>1. q = r /\ batch'[q] = << >>
      BY <2>3
    <3>2. 1..Len(batch'[q]) = {}
      BY <3>1
    <3> QED BY <3>1, <3>2
  <2> QED BY <2>2, <2>3
<1> QED BY <1>1, <1>2 DEF BatchOK

(* The head is sent. *)
LEMMA PublishInv == ASSUME IndInv, NEW r \in Relays, Publish(r) PROVE IndInv'
<1>1. /\ batch[r] # << >> /\ Deliver(Head(batch[r])) /\ sent' = [sent EXCEPT ![r] = TRUE]
      /\ UNCHANGED << published, batch, writerVars >>
  BY DEF Publish
<1>2. PICK i : i = Head(batch[r])
  OBVIOUS
<1>3. rows' = rows /\ batch' = batch /\ published' = published
  BY <1>1 DEF writerVars
<1>4. Deliver(i)
  BY <1>1, <1>2 DEF Deliver
<1>5. /\ delivered' \in [Lots -> Seq(Ids)] /\ Arrived(i)'
      /\ \A j \in Ids : rows[j] # NoRow /\ Arrived(j) => Arrived(j)'
      /\ TopicOK' /\ OrderOK'
  BY <1>1, <1>2, <1>3, <1>4, DeliverHead
<1>6. sent' \in [Relays -> BOOLEAN] /\ \A q \in Relays : q # r => sent'[q] = sent[q]
  BY <1>1 DEF IndInv, TypeOK
<1>7. TypeOK'
  BY <1>1, <1>5, <1>6 DEF IndInv, TypeOK, writerVars
<1>8. BatchOK'
  <2>1. batch'[r] = batch[r] /\ batch'[r] # << >> /\ \A q \in Relays : batch'[q] = batch[q]
    BY <1>1, <1>3
  <2>2. \A x \in Ids : x = Head(batch'[r]) => Arrived(x)'
    <3>1. \A x \in Ids : x = Head(batch'[r]) => x = i
      BY <1>2, <2>1
    <3> QED BY <1>5, <3>1
  <2> QED BY <1>3, <1>5, <1>6, <2>1, <2>2, BatchesKept
<1> QED BY <1>1, <1>5, <1>7, <1>8, WritersUntouched DEF IndInv, RelayOK

(* A pass that ends early gives up the whole batch, so nothing is stepped over. *)
LEMMA EndPassInv == ASSUME IndInv, NEW r \in Relays, EndPass(r) PROVE IndInv'
<1>1. /\ batch[r] # << >> /\ batch' = [batch EXCEPT ![r] = << >>] /\ sent' = [sent EXCEPT ![r] = FALSE]
      /\ UNCHANGED << published, writerVars >>
      /\ delivered' = delivered \/ Deliver(Head(batch[r]))
  BY DEF EndPass
<1>2. PICK i : i = Head(batch[r])
  OBVIOUS
<1>3. rows' = rows /\ published' = published
  BY <1>1 DEF writerVars
<1>5. /\ delivered' \in [Lots -> Seq(Ids)]
      /\ \A j \in Ids : rows[j] # NoRow /\ Arrived(j) => Arrived(j)'
      /\ TopicOK' /\ OrderOK'
  <2>1. CASE delivered' = delivered
    <3>1. (\A l : QROf(l)' = QROf(l)) /\ \A j : Arrived(j)' <=> Arrived(j)
      BY <1>3, <2>1 DEF QROf, IsQR, Arrived
    <3>2. TopicOK'
      BY <1>3, <2>1, <3>1 DEF IndInv, RelayOK, TopicOK
    <3>3. OrderOK'
      BY <1>3, <2>1, <3>1 DEF IndInv, RelayOK, OrderOK, IsQR
    <3> QED BY <2>1, <3>1, <3>2, <3>3 DEF IndInv, TypeOK
  <2>2. CASE Deliver(Head(batch[r]))
    <3>1. Deliver(i)
      BY <1>2, <2>2 DEF Deliver
    <3> QED BY <1>1, <1>2, <1>3, <3>1, DeliverHead
  <2> QED BY <1>1, <2>1, <2>2
<1>6. /\ sent' \in [Relays -> BOOLEAN] /\ batch' \in [Relays -> Seq(Ids)]
      /\ \A q \in Relays : q # r => batch'[q] = batch[q] /\ sent'[q] = sent[q]
      /\ batch'[r] = << >> /\ ~sent'[r]
  BY <1>1 DEF IndInv, TypeOK
<1>7. TypeOK'
  BY <1>1, <1>5, <1>6 DEF IndInv, TypeOK, writerVars
<1>8. BatchOK'
  BY <1>3, <1>5, <1>6, BatchesKept
<1> QED BY <1>1, <1>5, <1>7, <1>8, WritersUntouched DEF IndInv, RelayOK

(* The head is marked once it has arrived, and the next row is the head. *)
LEMMA MarkInv == ASSUME IndInv, NEW r \in Relays, Mark(r) PROVE IndInv'
<1>1. /\ batch[r] # << >> /\ sent[r] /\ published' = published \cup {Head(batch[r])}
      /\ batch' = [batch EXCEPT ![r] = Tail(batch[r])] /\ sent' = [sent EXCEPT ![r] = FALSE]
      /\ UNCHANGED << delivered, writerVars >>
  BY DEF Mark
<1>2. rows' = rows /\ delivered' = delivered
  BY <1>1 DEF writerVars
<1>3. PICK i : i = Head(batch[r])
  OBVIOUS
<1>4. i \in Ids /\ rows[i] # NoRow /\ i = batch[r][1]
  BY <1>1, <1>3, RelayTypes
<1>5. Arrived(i)
  BY <1>1, <1>3, <1>4 DEF IndInv, RelayOK, BatchOK
<1>6. (\A l : QROf(l)' = QROf(l)) /\ \A j : Arrived(j)' <=> Arrived(j)
  BY <1>2 DEF QROf, IsQR, Arrived
<1> DEFINE b == batch[r]
           c == Tail(batch[r])
<1>7. b \in Seq(Ids) /\ c \in Seq(Ids)
  BY <1>1, RelayTypes
<1>8. /\ Len(b) \in Nat /\ Len(c) = Len(b) - 1 /\ \A n \in 1..Len(c) : c[n] = b[n + 1] /\ n + 1 \in 1..Len(b)
  <2> HIDE DEF b
  <2>1. b # << >> /\ c = Tail(b)
    BY <1>1 DEF b
  <2>2. Len(b) \in Nat /\ Len(b) # 0 /\ Len(Tail(b)) = Len(b) - 1
    BY <1>7, <2>1
  <2>3. \A n \in 1..(Len(b) - 1) : Tail(b)[n] = b[n + 1] /\ n + 1 \in 1..Len(b)
    BY <1>7, <2>1, <2>2
  <2> QED BY <2>1, <2>2, <2>3
<1>9. /\ sent' \in [Relays -> BOOLEAN] /\ batch' \in [Relays -> Seq(Ids)]
      /\ \A q \in Relays : q # r => batch'[q] = batch[q] /\ sent'[q] = sent[q]
      /\ batch'[r] = c /\ ~sent'[r]
  BY <1>1, <1>7 DEF IndInv, TypeOK
<1>10. TypeOK'
  <2>1. published' \subseteq Ids
    BY <1>1, <1>3, <1>4, RelayTypes
  <2> QED BY <1>1, <1>9, <2>1 DEF IndInv, TypeOK, writerVars
<1>11. TopicOK'
  <2>1. \A j \in published' : rows[j] # NoRow /\ Arrived(j)
    BY <1>1, <1>3, <1>4, <1>5 DEF IndInv, RelayOK, TopicOK
  <2> QED BY <1>2, <1>6, <2>1 DEF IndInv, RelayOK, TopicOK
<1>12. OrderOK'
  BY <1>2, <1>6 DEF IndInv, RelayOK, OrderOK, IsQR
<1> HIDE DEF b, c
<1>13. ASSUME NEW l \in Lots, NEW n \in 1..Len(c), c[n] \in QROf(l), NEW j \in QROf(l), j < c[n]
       PROVE  Arrived(j) \/ \E m \in 1..(n - 1) : c[m] = j
  <2>1. c[n] = b[n + 1] /\ n + 1 \in 1..Len(b) /\ n \in Nat
    BY <1>8
  <2>2. Arrived(j) \/ \E m \in 1..((n + 1) - 1) : b[m] = j
    BY <1>13, <2>1 DEF IndInv, RelayOK, BatchOK, b
  <2>3. ASSUME NEW m \in 1..((n + 1) - 1), b[m] = j, m # 1 PROVE \E k \in 1..(n - 1) : c[k] = j
    <3>1. m - 1 \in 1..(n - 1) /\ m - 1 \in 1..Len(c) /\ (m - 1) + 1 = m
      BY <1>8, <2>1, <2>3
    <3>2. c[m - 1] = b[m]
      BY <1>8, <3>1
    <3> QED BY <2>3, <3>1, <3>2
  <2>4. b[1] = i
    BY <1>4 DEF b
  <2> QED BY <1>5, <2>2, <2>3, <2>4
<1>14. \A n \in 1..Len(c) : rows[c[n]] # NoRow
  BY <1>8 DEF IndInv, RelayOK, BatchOK, b
<1>15. BatchOK'
  <2>1. ASSUME NEW q \in Relays
        PROVE  /\ \A n \in 1..Len(batch'[q]) : rows[batch'[q][n]] # NoRow
               /\ \A l \in Lots : \A n \in 1..Len(batch'[q]) : batch'[q][n] \in QROf(l) =>
                    \A j \in QROf(l) : j < batch'[q][n] =>
                      Arrived(j) \/ \E m \in 1..(n - 1) : batch'[q][m] = j
               /\ sent'[q] => batch'[q] # << >> /\ \A x \in Ids : x = Head(batch'[q]) => Arrived(x)
    <3>1. CASE q = r
      BY <1>9, <1>13, <1>14, <3>1
    <3>2. CASE q # r
      <4>1. batch'[q] = batch[q] /\ (sent'[q] => sent[q])
        BY <1>9, <3>2
      <4> QED BY <4>1 DEF IndInv, RelayOK, BatchOK
    <3> QED BY <3>1, <3>2
  <2> QED BY <1>2, <1>6, <2>1 DEF BatchOK
<1> QED BY <1>1, <1>10, <1>11, <1>12, <1>15, WritersUntouched DEF IndInv, RelayOK

----------------------------------------------------------------------------
(* It holds of an empty outbox. *)
LEMMA InitInv == Init => IndInv
<1> SUFFICES ASSUME Init PROVE IndInv
  OBVIOUS
<1>0. /\ \A i \in Ids : rows[i] = NoRow
      /\ \A l \in Lots : delivered[l] = << >> /\ changes[l] = << >> /\ qr[l] = NoQR
      /\ \A w \in Writers : wtx[w].step = "idle"
      /\ \A r \in Relays : batch[r] = << >> /\ ~sent[r]
      /\ published = {}
  BY IdleType DEF Init
<1>1. TypeOK
  <2>1. qr \in [Lots -> [token : Tokens, live : BOOLEAN]] /\ nextId \in 1..(MaxId + 1)
    BY BoundsAssumption DEF Init, NoQR, Tokens
  <2>2. wtx \in [Writers -> Txs]
    BY IdleType DEF Init
  <2> QED BY <2>1, <2>2 DEF Init, TypeOK, Txs
<1>2. \A l : QROf(l) = {}
  BY <1>0 DEF QROf
<1>3. 1..Len(<< >>) = {}
  OBVIOUS
<1>4. SerialOK /\ LockOK
  BY <1>0 DEF SerialOK, LockOK
<1>5. ChangesOK
  BY <1>0, <1>2, <1>3 DEF ChangesOK
<1>6. QROK
  BY <1>0, <1>2 DEF QROK, StateOf, Pubs, Announced, NoQR
<1>7. RelayOK
  BY <1>0, <1>3 DEF RelayOK, TopicOK, BatchOK, OrderOK
<1> QED BY <1>1, <1>4, <1>5, <1>6, <1>7 DEF IndInv, WriterOK

(* A step of something else. *)
LEMMA StutterInv == ASSUME IndInv, UNCHANGED vars PROVE IndInv'
<1>1. UNCHANGED rows /\ UNCHANGED relayVars /\ UNCHANGED writerVars
  BY DEF vars, relayVars, writerVars
<1>2. TypeOK'
  BY DEF IndInv, TypeOK, vars
<1> QED BY <1>1, <1>2, RelaysUntouched, WritersUntouched DEF IndInv

(* Every step keeps the invariant. *)
LEMMA NextInv == IndInv /\ [Next]_vars => IndInv'
<1> SUFFICES ASSUME IndInv, [Next]_vars PROVE IndInv'
  OBVIOUS
<1>1. CASE UNCHANGED vars
  BY <1>1, StutterInv
<1>2. ASSUME NEW w \in Writers, ChangeQR(w) \/ Enqueue(w) \/ EnqueueStory(w) \/ Commit(w) \/ Abort(w)
      PROVE  IndInv'
  BY <1>2, ChangeQRInv, EnqueueInv, EnqueueStoryInv, CommitInv, AbortInv
<1>4. ASSUME NEW lot \in Lots, ImportQR(lot) PROVE IndInv'
  BY <1>4, ImportQRInv
<1>3. ASSUME NEW r \in Relays, Fetch(r) \/ Publish(r) \/ Mark(r) \/ EndPass(r)
      PROVE  IndInv'
  BY <1>3, FetchInv, PublishInv, MarkInv, EndPassInv
<1> QED BY <1>1, <1>2, <1>3, <1>4 DEF Next

(* The inductive invariant: the lock orders a lot's ids, and what precedes a QR
   row on its way through the relays has arrived or is in front of it. *)
THEOREM OutboxInvariant == Spec => []IndInv
<1> QED BY InitInv, NextInv, PTL DEF Spec

----------------------------------------------------------------------------
(* Arrived in the order of their ids is arrived in the order of commit. *)
LEMMA InOrder == IndInv => QREventsInOrder
<1> SUFFICES ASSUME IndInv, NEW lot \in Lots, NEW n \in 1..Len(delivered[lot]), IsQR(delivered[lot][n])
             PROVE  \E k \in 1..Len(changes[lot]) :
                      /\ changes[lot][k] = delivered[lot][n]
                      /\ \A j \in 1..(k - 1) : \E m \in 1..(n - 1) : delivered[lot][m] = changes[lot][j]
  BY DEF QREventsInOrder
<1>1. delivered[lot][n] \in QROf(lot)
  BY RelayTypes DEF IndInv, RelayOK, TopicOK, QROf
<1>2. PICK k \in 1..Len(changes[lot]) : changes[lot][k] = delivered[lot][n]
  BY <1>1 DEF IndInv, WriterOK, ChangesOK
<1>3. ASSUME NEW j \in 1..(k - 1) PROVE \E m \in 1..(n - 1) : delivered[lot][m] = changes[lot][j]
  <2>1. Len(changes[lot]) \in Nat
    BY DEF IndInv, TypeOK
  <2>2. j \in 1..Len(changes[lot]) /\ j < k
    BY <2>1
  <2>3. changes[lot][j] \in QROf(lot) /\ changes[lot][j] < delivered[lot][n]
    BY <1>2, <2>2 DEF IndInv, WriterOK, ChangesOK
  <2> QED BY <2>3 DEF IndInv, RelayOK, OrderOK
<1> QED BY <1>2, <1>3

(* Every nonempty set of natural numbers has a least element. *)
LEMMA LeastExists ==
  ASSUME NEW S, S \subseteq Nat, S # {}
  PROVE  \E x \in S : \A y \in S : x <= y
<1> DEFINE R == {p \in Nat \X Nat : p[1] < p[2]}
<1>1. IsWellFoundedOn(R, Nat)
  BY NatLessThanWellFounded DEF OpToRel
<1>2. \A x, y \in Nat : y < x => << y, x >> \in R
  OBVIOUS
<1> HIDE DEF R
<1>3. PICK x \in S : \A y \in S : ~(<< y, x >> \in R)
  BY <1>1, WFMin
<1>4. \A y \in S : ~(y < x)
  BY <1>2, <1>3
<1> QED BY <1>4

(* A set of places in a sequence has a last one. *)
LEMMA LastPlace ==
  ASSUME NEW N \in Nat, NEW S, S \subseteq 1..N, S # {}
  PROVE  Max(S) \in S /\ \A y \in S : y <= Max(S)
<1> DEFINE T == {N - y : y \in S}
<1>1. T \subseteq Nat /\ T # {}
  OBVIOUS
<1>2. PICK z \in T : \A y \in T : z <= y
  <2> HIDE DEF T
  <2> QED BY <1>1, LeastExists
<1>3. PICK x \in S : z = N - x
  BY <1>2
<1>4. \A y \in S : y <= x
  <2> SUFFICES ASSUME NEW y \in S PROVE y <= x
    OBVIOUS
  <2>1. N - y \in T
    OBVIOUS
  <2>2. N - x <= N - y
    BY <1>2, <1>3, <2>1
  <2>3. x \in Nat /\ y \in Nat
    OBVIOUS
  <2> QED BY <2>2, <2>3
<1>5. S \subseteq Nat
  OBVIOUS
<1>6. Max(S) = x
  BY <1>4, <1>5, MaxIs
<1> QED BY <1>3, <1>4, <1>6

(* A consumer that has seen all of a lot's QR rows, in the order of their ids,
   makes of them what the rows amount to. *)
LEMMA FollowedAll ==
  ASSUME IndInv, NEW lot \in Lots, \A i \in QROf(lot) : Arrived(i)
  PROVE  Followed(delivered[lot]) = StateOf(lot)
<1> DEFINE d == delivered[lot]
           pubs == {n \in 1..Len(d) : IsPublication(d[n])}
           qrs == {n \in 1..Len(d) : IsQR(d[n])}
<1>1. Len(d) \in Nat /\ (\A n \in 1..Len(d) : d[n] \in Ids) /\ Ids \subseteq Nat
  BY RelayTypes
<1>2. \A n \in 1..Len(d) : rows[d[n]] # NoRow /\ rows[d[n]].lot = lot
  BY DEF IndInv, RelayOK, TopicOK
<1>3. \A n \in 1..Len(d) : (n \in qrs <=> d[n] \in QROf(lot)) /\ (n \in pubs <=> d[n] \in Pubs(lot))
  BY <1>1, <1>2 DEF QROf, Pubs, IsQR, IsPublication, QRKinds
<1>4. \A i \in QROf(lot) : \E n \in 1..Len(d) : d[n] = i
  BY RelayTypes DEF Arrived
<1>5. \A m, n \in qrs : m < n => d[m] < d[n]
  <2> SUFFICES ASSUME NEW m \in qrs, NEW n \in qrs, m < n PROVE d[m] < d[n]
    OBVIOUS
  <2>1. m \in 1..Len(d) /\ n \in 1..Len(d) /\ IsQR(d[m])
    OBVIOUS
  <2>2. d[m] # d[n]
    <3>1. m # n
      BY <1>1, <2>1
    <3> QED BY <2>1, <3>1 DEF IndInv, RelayOK, TopicOK
  <2>3. ASSUME d[n] < d[m] PROVE FALSE
    <3>1. d[n] \in QROf(lot)
      BY <1>3, <2>1
    <3>2. PICK k \in 1..(m - 1) : d[k] = d[n]
      BY <2>1, <2>3, <3>1 DEF IndInv, RelayOK, OrderOK
    <3>3. k \in 1..Len(d) /\ k # n
      BY <1>1, <2>1
    <3> QED BY <2>1, <3>2, <3>3 DEF IndInv, RelayOK, TopicOK
  <2>4. d[m] \in Nat /\ d[n] \in Nat
    BY <1>1, <2>1
  <2> QED BY <2>2, <2>3, <2>4
<1>6. pubs \subseteq qrs /\ qrs \subseteq 1..Len(d)
  BY DEF IsPublication, IsQR, QRKinds
<1>7. Pubs(lot) \subseteq QROf(lot) /\ QROf(lot) \subseteq Ids
  BY DEF Pubs, QROf
<1>8. Followed(d) = [token |-> IF pubs = {} THEN 0 ELSE d[Max(pubs)],
                     live  |-> qrs # {} /\ Max(qrs) \in pubs]
  BY DEF Followed
<1>9. StateOf(lot) = [token |-> IF Pubs(lot) = {} THEN 0 ELSE Max(Pubs(lot)),
                      live  |-> QROf(lot) # {} /\ Max(QROf(lot)) \in Pubs(lot)]
  BY DEF StateOf
<1>10. (pubs = {} <=> Pubs(lot) = {}) /\ (qrs = {} <=> QROf(lot) = {})
  <2> HIDE DEF pubs, qrs, d
  <2> QED BY <1>3, <1>4, <1>6, <1>7
<1> HIDE DEF d, pubs, qrs
<1>11. ASSUME NEW P, P \subseteq qrs, P # {}, NEW X, X \subseteq QROf(lot),
              \A n \in 1..Len(d) : n \in P <=> d[n] \in X
       PROVE  Max(P) \in P /\ d[Max(P)] = Max(X)
  <2>1. PICK x : x = Max(P)
    OBVIOUS
  <2>2. x \in P /\ \A y \in P : y <= x
    <3>1. P \subseteq 1..Len(d)
      BY <1>6, <1>11
    <3> QED BY <1>1, <1>11, <2>1, <3>1, LastPlace
  <2>3. x \in 1..Len(d) /\ d[x] \in X /\ X \subseteq Nat
    BY <1>1, <1>6, <1>7, <1>11, <2>2
  <2>4. ASSUME NEW i \in X PROVE i <= d[x]
    <3>1. PICK n \in 1..Len(d) : d[n] = i
      BY <1>4, <1>11, <2>4
    <3>2. n \in P /\ n <= x
      BY <1>11, <2>2, <2>4, <3>1
    <3>3. n < x => d[n] < d[x]
      BY <1>5, <1>11, <2>2, <3>2
    <3>4. n \in Nat /\ x \in Nat /\ d[n] \in Nat /\ d[x] \in Nat
      <4>1. n \in Nat /\ x \in Nat
        BY <1>1, <2>3, <3>1
      <4>2. d[n] \in Ids /\ d[x] \in Ids
        BY <1>1, <2>3, <3>1
      <4> QED BY <4>1, <4>2, <1>1
    <3>5. CASE n = x
      BY <3>1, <3>4, <3>5
    <3>6. CASE n < x
      BY <3>1, <3>3, <3>4, <3>6
    <3> QED BY <3>2, <3>4, <3>5, <3>6
  <2>5. Max(X) = d[x]
    BY <2>3, <2>4, MaxIs
  <2> QED BY <2>1, <2>2, <2>5
<1>12. pubs # {} => d[Max(pubs)] = Max(Pubs(lot))
  BY <1>3, <1>6, <1>7, <1>11
<1>13. qrs # {} => Max(qrs) \in qrs /\ d[Max(qrs)] = Max(QROf(lot))
  BY <1>3, <1>11
<1>14. qrs # {} => (Max(qrs) \in pubs <=> Max(QROf(lot)) \in Pubs(lot))
  BY <1>3, <1>6, <1>13
<1>15. Followed(d).token = StateOf(lot).token
  BY <1>8, <1>9, <1>10, <1>12
<1>16. (qrs # {} /\ Max(qrs) \in pubs) <=> (QROf(lot) # {} /\ Max(QROf(lot)) \in Pubs(lot))
  BY <1>10, <1>14
<1>17. (IF pubs = {} THEN 0 ELSE d[Max(pubs)]) = IF Pubs(lot) = {} THEN 0 ELSE Max(Pubs(lot))
  BY <1>10, <1>12
<1> DEFINE A == qrs # {} /\ Max(qrs) \in pubs
           B == QROf(lot) # {} /\ Max(QROf(lot)) \in Pubs(lot)
<1>18. CASE A
  BY <1>8, <1>9, <1>16, <1>17, <1>18 DEF d
<1>19. CASE ~A
  BY <1>8, <1>9, <1>16, <1>17, <1>19 DEF d
<1> QED BY <1>18, <1>19

(* A lot whose QR rows are all marked has all of them at the consumers. *)
LEMMA Converges == IndInv => ConsumersConverge
<1> SUFFICES ASSUME IndInv, NEW lot \in Lots, \A i \in Unpublished : rows[i].lot = lot => ~IsQR(i)
             PROVE  Announced(qr[lot]) = Followed(delivered[lot])
  BY DEF ConsumersConverge
<1>1. \A i \in QROf(lot) : i \in published
  BY DEF QROf, Unpublished
<1>2. \A i \in QROf(lot) : Arrived(i)
  BY <1>1 DEF IndInv, RelayOK, TopicOK
<1>3. Announced(qr[lot]) = StateOf(lot)
  BY DEF IndInv, WriterOK, QROK
<1> QED BY <1>2, <1>3, FollowedAll

(* Consumers first see a lot's qr_published and qr_revoked events in the order
   in which the transactions committed, and without a hole, however many relays
   drain the outbox and wherever a pass fails. *)
THEOREM QREventsStayInOrder == Spec => []QREventsInOrder
<1> QED BY OutboxInvariant, InOrder, PTL

(* Once a lot's QR rows are marked as published, a consumer that followed the
   topic has the token and the state of the lot_qr_codes row, or knows of no
   token while the row is an import's, which sends no event. *)
THEOREM ConsumersAgree == Spec => []ConsumersConverge
<1> QED BY OutboxInvariant, Converges, PTL

=============================================================================
