-------------------------- MODULE Anchoring_proofs --------------------------
(***************************************************************************)
(* Anchoring, for any number of concurrent anchorers and any chain length: *)
(* racing CreateAnchor calls skip no block and every anchor's root is      *)
(* reproducible.  The tables only grow, so what a call has read (LocalsOK) *)
(* stays true until it inserts; that is the whole strengthening.           *)
(*                                                                         *)
(* Then the Merkle tree, for any number of leaves: the proof of every leaf *)
(* folds into the root, and a root commits to the leaves it is of.  The    *)
(* inductions are on the level of the tree, as facts about sets of         *)
(* numbers.                                                                *)
(***************************************************************************)
EXTENDS MCAnchoring, FiniteSetTheorems, WellFoundedInduction, TLAPS

(* Roots of the ranges a call can read are Roots. *)
LEMMA RootType ==
  ASSUME NEW a \in 0..MaxSeq, NEW t \in 0..MaxSeq
  PROVE  Root(LeafRange(a, t)) \in Roots
BY DEF Roots

(* The locals of a call that has not started have their type. *)
LEMMA IdleLocType == IdleLoc \in [head : 0..MaxSeq, last : 0..MaxSeq, root : Roots]
<1>1. LeafRange(0, 0) = << >>
  BY DEF LeafRange
<1>2. NoRoot \in Roots
  BY <1>1 DEF Roots, Root
<1> QED BY <1>2, MaxSeqAssumption DEF IdleLoc

(* With no block and no anchor the invariant holds. *)
LEMMA InitInv == Init => IndInv
<1> SUFFICES ASSUME Init PROVE IndInv
  OBVIOUS
<1>1. TypeOK
  BY IdleLocType, MaxSeqAssumption DEF Init, TypeOK, States
<1>2. NoBlockSkipped /\ AnchorsRecompute
  BY DEF Init, NoBlockSkipped, AnchorsRecompute
<1>3. LocalsOK
  BY DEF Init, LocalsOK, LocalOK
<1> QED BY <1>1, <1>2, <1>3 DEF IndInv

(* What a call has read stays true while the tables grow. *)
LEMMA LocalGrows ==
  ASSUME NEW h \in Nat, NEW k \in Nat, h <= k, NEW A, NEW B, A \subseteq B, NEW s, NEW l,
         LocalOK(h, A, s, l)
  PROVE  LocalOK(k, B, s, l)
BY DEF LocalOK

(* New blocks change no anchor and make no leaf range different. *)
LEMMA ChainGrowsInv == IndInv /\ ChainGrows => IndInv'
<1> SUFFICES ASSUME IndInv, ChainGrows PROVE IndInv'
  OBVIOUS
<1> USE DEF IndInv
<1>1. /\ head \in 0..MaxSeq /\ head' \in 0..MaxSeq /\ head <= head'
      /\ UNCHANGED << anchors, pc, loc >>
  BY MaxSeqAssumption DEF ChainGrows, TypeOK
<1>2. TypeOK'
  BY <1>1 DEF TypeOK
<1>3. NoBlockSkipped'
  BY <1>1 DEF NoBlockSkipped, Anchored
<1>4. AnchorsRecompute'
  <2>1. \A a \in anchors : a.to \in 1..MaxSeq
    BY DEF TypeOK
  <2> QED BY <1>1, <2>1, MaxSeqAssumption DEF AnchorsRecompute
<1>5. LocalsOK'
  <2>1. head \in Nat /\ head' \in Nat
    BY <1>1, MaxSeqAssumption
  <2>2. \A p \in Anchorers : LocalOK(head', anchors, pc[p], loc[p])
    BY <1>1, <2>1, LocalGrows DEF LocalsOK
  <2> QED BY <1>1, <2>2 DEF LocalsOK
<1> QED BY <1>2, <1>3, <1>4, <1>5

(* A step of p that only moves p. *)
LEMMA OnlyP ==
  ASSUME IndInv, NEW p \in Anchorers, UNCHANGED << head, anchors >>,
         NEW s \in States, NEW l \in [head : 0..MaxSeq, last : 0..MaxSeq, root : Roots],
         pc' = [pc EXCEPT ![p] = s], loc' = [loc EXCEPT ![p] = l],
         LocalOK(head, anchors, s, l)
  PROVE  IndInv'
<1> USE DEF IndInv
<1>1. TypeOK'
  BY DEF TypeOK
<1>2. NoBlockSkipped' /\ AnchorsRecompute'
  BY DEF NoBlockSkipped, Anchored, AnchorsRecompute
<1>3. \A q \in Anchorers : /\ pc'[q] = IF q = p THEN s ELSE pc[q]
                           /\ loc'[q] = IF q = p THEN l ELSE loc[q]
  BY DEF TypeOK
<1>4. LocalsOK'
  BY <1>3 DEF LocalsOK
<1> QED BY <1>1, <1>2, <1>4

(* The head a call reads is a block that exists. *)
LEMMA ReadHeadInv ==
  ASSUME IndInv, NEW p \in Anchorers, ReadHead(p)
  PROVE  IndInv'
<1> DEFINE l == [loc[p] EXCEPT !.head = head]
<1>1. /\ loc' = [loc EXCEPT ![p] = l] /\ pc' = [pc EXCEPT ![p] = "last"]
      /\ UNCHANGED << head, anchors >> /\ head > 0
  BY DEF ReadHead
<1>2. head \in 0..MaxSeq
  BY DEF IndInv, TypeOK
<1>3. l \in [head : 0..MaxSeq, last : 0..MaxSeq, root : Roots] /\ l.head = head
  BY <1>2 DEF IndInv, TypeOK
<1>4. LocalOK(head, anchors, "last", l)
  BY <1>1, <1>2, <1>3, MaxSeqAssumption DEF LocalOK
<1> HIDE DEF l
<1> QED BY <1>1, <1>3, <1>4, OnlyP DEF States

(* A call that returns without inserting leaves the tables as they were. *)
LEMMA ReturnInv ==
  ASSUME IndInv, NEW p \in Anchorers, Return(p), UNCHANGED << head, anchors >>
  PROVE  IndInv'
<1>1. LocalOK(head, anchors, "idle", IdleLoc)
  BY DEF LocalOK
<1> QED BY <1>1, IdleLocType, OnlyP DEF Return, States

(* The last anchored number is 0 or the end of some anchor, and before the head. *)
LEMMA ReadLastInv ==
  ASSUME IndInv, NEW p \in Anchorers, ReadLast(p)
  PROVE  IndInv'
<1>1. PICK k \in 0..MaxSeq :
        /\ IsLastAnchored(k)
        /\ IF loc[p].head <= k
             THEN Return(p)
             ELSE /\ loc' = [loc EXCEPT ![p].last = k]
                  /\ pc' = [pc EXCEPT ![p] = "leaves"]
  BY DEF ReadLast
<1>2. pc[p] = "last" /\ UNCHANGED << head, anchors >>
  BY DEF ReadLast
<1>3. CASE loc[p].head <= k
  BY <1>1, <1>2, <1>3, ReturnInv
<1>4. CASE ~(loc[p].head <= k)
  <2> DEFINE l == [loc[p] EXCEPT !.last = k]
  <2>1. loc' = [loc EXCEPT ![p] = l] /\ pc' = [pc EXCEPT ![p] = "leaves"]
    BY <1>1, <1>4
  <2>2. /\ l \in [head : 0..MaxSeq, last : 0..MaxSeq, root : Roots]
        /\ l.head = loc[p].head /\ l.last = k
    BY DEF IndInv, TypeOK
  <2>3. LocalOK(head, anchors, "leaves", l)
    <3>1. loc[p].head \in 1..head
      BY <1>2 DEF IndInv, LocalsOK, LocalOK
    <3>2. k < loc[p].head
      BY <1>4, <3>1, MaxSeqAssumption DEF IndInv, TypeOK
    <3> QED BY <1>1, <2>2, <3>1, <3>2 DEF LocalOK, IsLastAnchored, ToSeqTaken
  <2> HIDE DEF l
  <2> QED BY <1>2, <2>1, <2>2, <2>3, OnlyP DEF States
<1> QED BY <1>3, <1>4

(* The root is that of the blocks between the two numbers. *)
LEMMA ReadLeavesInv ==
  ASSUME IndInv, NEW p \in Anchorers, ReadLeaves(p)
  PROVE  IndInv'
<1> DEFINE r == Root(LeafRange(loc[p].last, loc[p].head))
           l == [loc[p] EXCEPT !.root = r]
<1>1. /\ pc[p] = "leaves" /\ loc' = [loc EXCEPT ![p] = l] /\ pc' = [pc EXCEPT ![p] = "sign"]
      /\ UNCHANGED << head, anchors >>
  BY DEF ReadLeaves
<1>2. r \in Roots
  BY RootType DEF IndInv, TypeOK
<1>3. /\ loc[p].last < loc[p].head /\ loc[p].head \in 1..head
      /\ loc[p].last = 0 \/ ToSeqTaken(loc[p].last)
  BY <1>1 DEF IndInv, LocalsOK, LocalOK, ToSeqTaken
<1>4. /\ l \in [head : 0..MaxSeq, last : 0..MaxSeq, root : Roots]
      /\ l.head = loc[p].head /\ l.last = loc[p].last /\ l.root = r
  BY <1>2 DEF IndInv, TypeOK
<1>5. LocalOK(head, anchors, "sign", l)
  BY <1>3, <1>4 DEF LocalOK, ToSeqTaken
<1> HIDE DEF l
<1> QED BY <1>1, <1>4, <1>5, OnlyP DEF States

(* Signing moves the call on and changes nothing else. *)
LEMMA SignInv ==
  ASSUME IndInv, NEW p \in Anchorers, Sign(p)
  PROVE  IndInv'
<1>1. /\ pc[p] = "sign" /\ pc' = [pc EXCEPT ![p] = "insert"]
      /\ UNCHANGED << head, anchors, loc >>
  BY DEF Sign
<1>2. /\ loc[p] \in [head : 0..MaxSeq, last : 0..MaxSeq, root : Roots]
      /\ loc' = [loc EXCEPT ![p] = loc[p]]
  BY <1>1 DEF IndInv, TypeOK
<1>3. LocalOK(head, anchors, "insert", loc[p])
  BY <1>1 DEF IndInv, LocalsOK, LocalOK
<1> QED BY <1>1, <1>2, <1>3, OnlyP DEF States

(* The one step that writes: the new anchor continues an anchor that ends
   where this call's `last` was, or starts at the first block. *)
LEMMA InsertAnchorInv ==
  ASSUME IndInv, NEW p \in Anchorers, InsertAnchor(p)
  PROVE  IndInv'
<1> USE DEF IndInv
<1>1. pc[p] = "insert" /\ Return(p) /\ UNCHANGED head
  BY DEF InsertAnchor
<1>2. CASE ToSeqTaken(loc[p].head)
  <2>1. UNCHANGED << head, anchors >>
    BY <1>2 DEF InsertAnchor
  <2> HIDE DEF IndInv
  <2> QED BY <1>1, <2>1, ReturnInv
<1>3. CASE ~ToSeqTaken(loc[p].head)
  <2> DEFINE new == RowOf(p)
             last == loc[p].last
             to == loc[p].head
  <2>1. anchors' = anchors \cup {new}
    BY <1>3 DEF InsertAnchor
  <2>2. /\ last < to /\ to \in 1..head /\ last \in 0..MaxSeq /\ to \in 0..MaxSeq
        /\ last = 0 \/ ToSeqTaken(last)
        /\ loc[p].root = Root(LeafRange(last, to)) /\ loc[p].root \in Roots
        /\ head \in 0..MaxSeq
    BY <1>1 DEF LocalsOK, LocalOK, ToSeqTaken, TypeOK
  <2>3. /\ new.from = last + 1 /\ new.to = to /\ new.root = loc[p].root
        /\ new = [from |-> last + 1, to |-> to, root |-> loc[p].root]
    BY DEF RowOf, Anchor
  <2>4. last + 1 \in 1..MaxSeq /\ to \in 1..MaxSeq /\ last + 1 - 1 = last
    BY <2>2, MaxSeqAssumption
  <2> HIDE DEF new, last, to
  <2>5. \A a \in anchors : a.from \in 1..MaxSeq /\ a.to \in 1..MaxSeq
    BY DEF TypeOK
  <2>6. TypeOK'
    <3>1. new \in [from : 1..MaxSeq, to : 1..MaxSeq, root : Roots]
      BY <2>2, <2>3, <2>4
    <3>2. pc' \in [Anchorers -> States]
          /\ loc' \in [Anchorers -> [head : 0..MaxSeq, last : 0..MaxSeq, root : Roots]]
      BY <1>1, IdleLocType DEF Return, TypeOK, States
    <3> QED BY <1>1, <2>1, <3>1, <3>2 DEF TypeOK
  <2>7. NoBlockSkipped'
    <3>1. ASSUME NEW seq \in 1..last
          PROVE  Anchored(seq)
      <4>1. last # 0
        BY <2>2
      <4>2. PICK a \in anchors : a.to = last
        BY <2>2, <4>1 DEF ToSeqTaken
      <4> QED BY <4>2 DEF NoBlockSkipped
    <3>2. \A seq : Anchored(seq) => Anchored(seq)'
      BY <2>1 DEF Anchored
    <3>3. ASSUME NEW seq \in 1..to
          PROVE  Anchored(seq)'
      <4>1. CASE seq <= last
        BY <2>2, <3>1, <3>2, <4>1, MaxSeqAssumption
      <4>2. CASE ~(seq <= last)
        <5>1. Covers(new, seq)
          BY <2>2, <2>3, <4>2, MaxSeqAssumption DEF Covers
        <5> QED BY <2>1, <5>1 DEF Anchored
      <4> QED BY <4>1, <4>2
    <3> QED BY <2>1, <2>3, <3>2, <3>3 DEF NoBlockSkipped
  <2>8. AnchorsRecompute'
    <3>1. /\ 1 <= new.from /\ new.from <= new.to /\ new.to <= head
          /\ new.root = Root(LeafRange(new.from - 1, new.to))
      BY <2>2, <2>3, <2>4, MaxSeqAssumption
    <3>2. \A a \in anchors : a.to # new.to
      BY <1>3, <2>3 DEF ToSeqTaken, to
    <3> QED BY <1>1, <2>1, <3>1, <3>2 DEF AnchorsRecompute
  <2>9. LocalsOK'
    <3> SUFFICES ASSUME NEW q \in Anchorers PROVE LocalOK(head', anchors', pc'[q], loc'[q])
      BY DEF LocalsOK
    <3>1. CASE q = p
      <4>1. pc'[q] = "idle"
        BY <1>1, <3>1 DEF Return, TypeOK
      <4> QED BY <4>1 DEF LocalOK
    <3>2. CASE q # p
      <4>1. pc'[q] = pc[q] /\ loc'[q] = loc[q] /\ head' = head
        BY <1>1, <3>2 DEF Return, TypeOK
      <4>2. head \in Nat /\ head <= head /\ anchors \subseteq anchors'
        BY <2>1, <2>2, MaxSeqAssumption
      <4>3. LocalOK(head, anchors', pc[q], loc[q])
        BY <4>2, LocalGrows DEF LocalsOK
      <4> QED BY <4>1, <4>3
    <3> QED BY <3>1, <3>2
  <2> QED BY <2>6, <2>7, <2>8, <2>9
<1> QED BY <1>2, <1>3

(* A failure is a return without an insert. *)
LEMMA FailInv ==
  ASSUME IndInv, NEW p \in Anchorers, Fail(p)
  PROVE  IndInv'
BY ReturnInv DEF Fail

(* Every step of Next, or a stutter, keeps the invariant. *)
LEMMA StepInv == IndInv /\ [Next]_vars => IndInv'
<1> SUFFICES ASSUME IndInv, [Next]_vars PROVE IndInv'
  OBVIOUS
<1>1. CASE UNCHANGED vars
  BY <1>1 DEF vars, IndInv, TypeOK, NoBlockSkipped, Anchored, AnchorsRecompute, LocalsOK
<1>2. CASE ChainGrows
  BY <1>2, ChainGrowsInv
<1>3. ASSUME NEW p \in Anchorers, Advance(p)
      PROVE  IndInv'
  BY <1>3, ReadHeadInv, ReadLastInv, ReadLeavesInv, SignInv, InsertAnchorInv DEF Advance
<1>4. ASSUME NEW p \in Anchorers, Fail(p)
      PROVE  IndInv'
  BY <1>4, FailInv
<1> QED BY <1>1, <1>2, <1>3, <1>4 DEF Next

(* The strengthened invariant holds in every reachable state. *)
THEOREM Inductive == Spec => []IndInv
BY InitInv, StepInv, PTL DEF Spec

(* Racing anchorers leave no block behind: whatever is before an anchored
   block is anchored. *)
THEOREM NothingSkipped == Spec => []NoBlockSkipped
<1>1. IndInv => NoBlockSkipped
  BY DEF IndInv
<1> QED BY Inductive, <1>1, PTL

(* Every signed root is the Merkle root of the blocks its row names, for as
   long as the chain is append-only, and to_seq identifies an anchor. *)
THEOREM RootsReproducible == Spec => []AnchorsRecompute
<1>1. IndInv => AnchorsRecompute
  BY DEF IndInv
<1> QED BY Inductive, <1>1, PTL
----------------------------------------------------------------------------
(* Every nonempty set of natural numbers has a least element. *)
LEMMA LeastExists ==
  ASSUME NEW S, S \subseteq Nat, S # {}
  PROVE  \E x \in S : \A y \in S : x <= y
<1> DEFINE R == {p \in Nat \X Nat : p[1] < p[2]}
<1>1. IsWellFoundedOn(R, Nat)
  BY NatLessThanWellFounded DEF OpToRel
<1>2. \A x, y \in Nat : y < x => << y, x >> \in R
  OBVIOUS
<1> HIDE DEF R
<1>3. PICK x \in S : \A y \in S : ~(<< y, x >> \in R)
  BY <1>1, WFMin
<1>4. \A y \in S : ~(y < x)
  BY <1>2, <1>3
<1> QED BY <1>4

(* A set that holds 0 and the successors of its members holds every number: the
   induction of the lemmas below is about the set of the numbers that satisfy
   what is being proved. *)
LEMMA SetInduction ==
  ASSUME NEW S, 0 \in S, \A n \in Nat : n \in S => n + 1 \in S
  PROVE  Nat \subseteq S
<1> SUFFICES ASSUME Nat \ S # {} PROVE FALSE
  OBVIOUS
<1> DEFINE T == Nat \ S
<1>1. T \subseteq Nat /\ T # {}
  OBVIOUS
<1>2. PICK x \in T : \A y \in T : x <= y
  <2> HIDE DEF T
  <2> QED BY <1>1, LeastExists
<1>3. x # 0 /\ x - 1 \in Nat
  BY <1>2
<1>4. x - 1 \in S
  BY <1>2, <1>3
<1> QED BY <1>2, <1>3, <1>4

(* Induction up to a bound. *)
LEMMA BoundedInduction ==
  ASSUME NEW S, NEW N \in Nat, 0 \in S, \A n \in 0..(N - 1) : n \in S => n + 1 \in S
  PROVE  0..N \subseteq S
<1> DEFINE T == {n \in Nat : n \in S \/ n > N}
<1>1. 0 \in T
  OBVIOUS
<1>2. \A n \in Nat : n \in T => n + 1 \in T
  OBVIOUS
<1>3. Nat \subseteq T
  <2> HIDE DEF T
  <2> QED BY <1>1, <1>2, SetInduction
<1> QED BY <1>3

----------------------------------------------------------------------------
(* One pass of the loop of merkle.Root. *)
OnePass(level) == IF Len(level) > 1 THEN nextLevel(level) ELSE level
LeafLevel(leaves) == [i \in 1..Len(leaves) |-> hashLeaf(leaves[i])]

(* The levels exist: the recursion is well-founded. *)
LEMMA LevelsRecurse ==
  ASSUME NEW leaves, Len(leaves) \in Nat
  PROVE  /\ Levels(leaves)[0] = LeafLevel(leaves)
         /\ \A k \in 1..Len(leaves) : Levels(leaves)[k] = OnePass(Levels(leaves)[k - 1])
<1> DEFINE N == Len(leaves)
           Is(g, n) == g = [k \in 0..n |-> IF k = 0 THEN LeafLevel(leaves) ELSE OnePass(g[k-1])]
           S == {n \in Nat : \E g : Is(g, n)}
<1>0. Levels(leaves) = CHOOSE g : Is(g, N)
  BY DEF Levels, OnePass, LeafLevel
<1>1. 0 \in S
  <2>1. Is([k \in 0..0 |-> LeafLevel(leaves)], 0)
    OBVIOUS
  <2> QED BY <2>1
<1>2. \A n \in Nat : n \in S => n + 1 \in S
  <2> HIDE DEF Is
  <2> SUFFICES ASSUME NEW n \in Nat, NEW g, Is(g, n) PROVE \E h : Is(h, n + 1)
    OBVIOUS
  <2> USE DEF Is
  <2> DEFINE h == [k \in 0..(n + 1) |-> IF k = n + 1 THEN OnePass(g[n]) ELSE g[k]]
  <2>0. \A k \in 0..n : h[k] = g[k]
    OBVIOUS
  <2>1. \A k \in 0..n : h[k] = g[k] /\ g[k] = IF k = 0 THEN LeafLevel(leaves) ELSE OnePass(g[k-1])
    <3> DEFINE e == [k \in 0..n |-> IF k = 0 THEN LeafLevel(leaves) ELSE OnePass(g[k-1])]
    <3>1. \A k \in 0..n : e[k] = IF k = 0 THEN LeafLevel(leaves) ELSE OnePass(g[k-1])
      OBVIOUS
    <3>2. g = e
      OBVIOUS
    <3> HIDE DEF e, h
    <3> QED BY <2>0, <3>1, <3>2
  <2>2. h[n + 1] = OnePass(h[n])
    BY <2>1
  <2>3. \A k \in 0..(n + 1) : h[k] = IF k = 0 THEN LeafLevel(leaves) ELSE OnePass(h[k-1])
    <3> HIDE DEF h
    <3> SUFFICES ASSUME NEW k \in 0..(n + 1) PROVE h[k] = IF k = 0 THEN LeafLevel(leaves) ELSE OnePass(h[k-1])
      OBVIOUS
    <3>1. CASE k = n + 1
      BY <3>1, <2>2
    <3>2. CASE k \in 0..n
      <4>1. k # 0 => k - 1 \in 0..n
        BY <3>2
      <4> QED BY <3>2, <2>1, <4>1
    <3> QED BY <3>1, <3>2
  <2>4. Is(h, n + 1)
    <3> HIDE DEF h
    <3>1. h = [k \in 0..(n + 1) |-> h[k]]
      BY DEF h
    <3> QED BY <2>3, <3>1
  <2> QED BY <2>4
<1> HIDE DEF S, Is
<1>3. N \in S
  BY <1>1, <1>2, SetInduction
<1>4. Is(Levels(leaves), N)
  BY <1>0, <1>3 DEF S
<1> QED BY <1>4 DEF Is

(* The place of the parent of node i. *)
Parent(i) == ((i - 1) \div 2) + 1

(* The places exist: idx /= 2 is a recursion on the number of passes. *)
LEMMA AncestorRecurses ==
  ASSUME NEW i \in Nat
  PROVE  Ancestor(i, 0) = i /\ \A k \in Nat : Ancestor(i, k + 1) = Parent(Ancestor(i, k))
<1> DEFINE Is(g, n) == g = [k \in 0..n |-> IF k = 0 THEN i ELSE Parent(g[k-1])]
           S == {n \in Nat : \E g : Is(g, n)}
<1>0. \A k \in Nat : Ancestor(i, k) = (CHOOSE g : Is(g, k))[k]
  BY DEF Ancestor, Parent
<1>1. 0 \in S
  <2>1. Is([k \in 0..0 |-> i], 0)
    OBVIOUS
  <2> QED BY <2>1
<1>2. ASSUME NEW n \in Nat, NEW g, Is(g, n)
      PROVE  \A k \in 0..n : g[k] = IF k = 0 THEN i ELSE Parent(g[k-1])
  <2> DEFINE e == [k \in 0..n |-> IF k = 0 THEN i ELSE Parent(g[k-1])]
  <2>1. \A k \in 0..n : e[k] = IF k = 0 THEN i ELSE Parent(g[k-1])
    OBVIOUS
  <2>2. g = e
    BY <1>2
  <2> HIDE DEF e
  <2> QED BY <2>1, <2>2
<1>3. \A n \in Nat : n \in S => n + 1 \in S
  <2> HIDE DEF Is
  <2> SUFFICES ASSUME NEW n \in Nat, NEW g, Is(g, n) PROVE \E h : Is(h, n + 1)
    OBVIOUS
  <2> DEFINE h == [k \in 0..(n + 1) |-> IF k = n + 1 THEN Parent(g[n]) ELSE g[k]]
  <2>1. \A k \in 0..n : h[k] = g[k]
    OBVIOUS
  <2>2. h[n + 1] = Parent(h[n])
    BY <2>1
  <2>3. h = [k \in 0..(n + 1) |-> h[k]]
    OBVIOUS
  <2> HIDE DEF h
  <2>4. ASSUME NEW k \in 0..(n + 1) PROVE h[k] = IF k = 0 THEN i ELSE Parent(h[k-1])
    <3>1. CASE k = n + 1
      BY <3>1, <2>2
    <3>2. CASE k \in 0..n
      <4>1. k # 0 => k - 1 \in 0..n
        BY <3>2
      <4> QED BY <3>2, <2>1, <4>1, <1>2
    <3> QED BY <3>1, <3>2
  <2>5. Is(h, n + 1)
    BY <2>3, <2>4 DEF Is
  <2> QED BY <2>5
<1> HIDE DEF Is
<1>4. \A n \in Nat : \E g : Is(g, n)
  <2> HIDE DEF S
  <2>1. Nat \subseteq S
    BY <1>1, <1>3, SetInduction
  <2> QED BY <2>1 DEF S
(* the functions chosen for two numbers of passes agree *)
<1>5. ASSUME NEW m \in Nat, NEW n \in Nat, NEW f, NEW g, Is(f, m), Is(g, n), m <= n
      PROVE  f[m] = g[m]
  <2> DEFINE P == {k \in Nat : k > m \/ f[k] = g[k]}
  <2>1. 0 \in P
    BY <1>2, <1>5
  <2>2. \A k \in Nat : k \in P => k + 1 \in P
    <3> SUFFICES ASSUME NEW k \in Nat, k + 1 <= m, f[k] = g[k] PROVE f[k + 1] = g[k + 1]
      OBVIOUS
    <3>1. f[k + 1] = Parent(f[k])
      BY <1>2, <1>5
    <3>2. g[k + 1] = Parent(g[k])
      BY <1>2, <1>5
    <3> QED BY <3>1, <3>2
  <2>3. Nat \subseteq P
    <3> HIDE DEF P
    <3> QED BY <2>1, <2>2, SetInduction
  <2> QED BY <2>3
<1> DEFINE at(k) == CHOOSE g : Is(g, k)
<1>6. \A k \in Nat : Is(at(k), k)
  BY <1>4
<1> HIDE DEF at
<1>7. Ancestor(i, 0) = i
  BY <1>0, <1>2, <1>6 DEF at
<1>8. ASSUME NEW k \in Nat PROVE Ancestor(i, k + 1) = Parent(Ancestor(i, k))
  <2>1. at(k + 1)[k + 1] = Parent(at(k + 1)[k])
    BY <1>2, <1>6
  <2>2. at(k + 1)[k] = at(k)[k]
    BY <1>5, <1>6
  <2> QED BY <1>0, <2>1, <2>2 DEF at
<1> QED BY <1>7, <1>8

(* The hash that is run after n siblings. *)
Folded(running, node) == IF node.right THEN hashNode(running, node.hash) ELSE hashNode(node.hash, running)

(* VerifyProof's loop, as a recursion on the number of siblings folded. *)
LEMMA FoldRecurses ==
  ASSUME NEW leaf, NEW proof, Len(proof) \in Nat
  PROVE  \E run : /\ run[0] = hashLeaf(leaf)
                  /\ \A k \in 1..Len(proof) : run[k] = Folded(run[k - 1], proof[k])
                  /\ FoldProof(leaf, proof) = run[Len(proof)]
<1> DEFINE Is(g, n) == g = [k \in 0..n |-> IF k = 0 THEN hashLeaf(leaf) ELSE Folded(g[k-1], proof[k])]
           S == {n \in Nat : \E g : Is(g, n)}
<1>0. FoldProof(leaf, proof) = (CHOOSE g : Is(g, Len(proof)))[Len(proof)]
  BY DEF FoldProof, Folded
<1>1. 0 \in S
  <2>1. Is([k \in 0..0 |-> hashLeaf(leaf)], 0)
    OBVIOUS
  <2> QED BY <2>1
<1>2. ASSUME NEW n \in Nat, NEW g, Is(g, n)
      PROVE  \A k \in 0..n : g[k] = IF k = 0 THEN hashLeaf(leaf) ELSE Folded(g[k-1], proof[k])
  <2> DEFINE e == [k \in 0..n |-> IF k = 0 THEN hashLeaf(leaf) ELSE Folded(g[k-1], proof[k])]
  <2>1. \A k \in 0..n : e[k] = IF k = 0 THEN hashLeaf(leaf) ELSE Folded(g[k-1], proof[k])
    OBVIOUS
  <2>2. g = e
    BY <1>2
  <2> HIDE DEF e
  <2> QED BY <2>1, <2>2
<1>3. \A n \in Nat : n \in S => n + 1 \in S
  <2> HIDE DEF Is
  <2> SUFFICES ASSUME NEW n \in Nat, NEW g, Is(g, n) PROVE \E h : Is(h, n + 1)
    OBVIOUS
  <2> DEFINE h == [k \in 0..(n + 1) |-> IF k = n + 1 THEN Folded(g[n], proof[n + 1]) ELSE g[k]]
  <2>1. \A k \in 0..n : h[k] = g[k]
    OBVIOUS
  <2>2. h[n + 1] = Folded(h[n], proof[n + 1])
    BY <2>1
  <2>3. h = [k \in 0..(n + 1) |-> h[k]]
    OBVIOUS
  <2> HIDE DEF h
  <2>4. ASSUME NEW k \in 0..(n + 1) PROVE h[k] = IF k = 0 THEN hashLeaf(leaf) ELSE Folded(h[k-1], proof[k])
    <3>1. CASE k = n + 1
      BY <3>1, <2>2
    <3>2. CASE k \in 0..n
      <4>1. k # 0 => k - 1 \in 0..n
        BY <3>2
      <4> QED BY <3>2, <2>1, <4>1, <1>2
    <3> QED BY <3>1, <3>2
  <2>5. Is(h, n + 1)
    BY <2>3, <2>4 DEF Is
  <2> QED BY <2>5
<1> HIDE DEF Is
<1>4. Len(proof) \in S
  <2> HIDE DEF S
  <2> QED BY <1>1, <1>3, SetInduction
<1>5. PICK run : run = CHOOSE g : Is(g, Len(proof))
  OBVIOUS
<1>6. Is(run, Len(proof))
  BY <1>4, <1>5
<1>7. /\ run[0] = hashLeaf(leaf)
      /\ \A k \in 1..Len(proof) : run[k] = Folded(run[k - 1], proof[k])
  BY <1>2, <1>6
<1> QED BY <1>0, <1>5, <1>7

----------------------------------------------------------------------------
(* A list of nodes. *)
IsLevel(level) == Len(level) \in Nat /\ level = [i \in 1..Len(level) |-> level[i]]

(* A pass halves the number of nodes, rounding up, and node i goes under its parent. *)
LEMMA NextLevelNodes ==
  ASSUME NEW level, IsLevel(level)
  PROVE  LET next == nextLevel(level) IN
         /\ IsLevel(next) /\ Len(next) = (Len(level) + 1) \div 2
         /\ \A i \in 1..Len(next) :
              next[i] = hashNode(level[2*i - 1], IF 2*i <= Len(level) THEN level[2*i] ELSE level[2*i - 1])
<1> DEFINE n == (Len(level) + 1) \div 2
           F(i) == hashNode(level[2*i - 1], IF 2*i <= Len(level) THEN level[2*i] ELSE level[2*i - 1])
           next == [i \in 1..n |-> F(i)]
<1>0. nextLevel(level) = next
  BY DEF nextLevel
<1>1. n \in Nat
  BY DEF IsLevel
<1> HIDE DEF n, F
<1>2. Len(next) = n /\ \A i \in 1..n : next[i] = F(i)
  BY <1>1
<1>3. IsLevel(next)
  BY <1>1, <1>2 DEF IsLevel
<1> HIDE DEF next
<1> QED BY <1>0, <1>1, <1>2, <1>3 DEF n, F

(* Every level is a list of nodes, at least one, and the passes left are enough
   to bring it down to one. *)
LEMMA LevelSizes ==
  ASSUME NEW leaves, Len(leaves) \in Nat \ {0}
  PROVE  \A k \in 0..Len(leaves) :
           /\ IsLevel(Levels(leaves)[k])
           /\ Len(Levels(leaves)[k]) >= 1
           /\ Len(Levels(leaves)[k]) > 1 => Len(Levels(leaves)[k]) <= Len(leaves) - k
<1> DEFINE N == Len(leaves)
           up == Levels(leaves)
           Good(k) == IsLevel(up[k]) /\ Len(up[k]) >= 1 /\ (Len(up[k]) > 1 => Len(up[k]) <= N - k)
           S == {k \in 0..N : Good(k)}
<1>1. 0 \in S
  <2>1. up[0] = LeafLevel(leaves)
    BY LevelsRecurse
  <2>2. LeafLevel(leaves) = [i \in 1..N |-> hashLeaf(leaves[i])]
    BY DEF LeafLevel
  <2>3. Len(up[0]) = N /\ IsLevel(up[0])
    BY <2>1, <2>2 DEF IsLevel
  <2> HIDE DEF up
  <2> QED BY <2>3
<1>2. ASSUME NEW k \in 0..(N - 1), Good(k) PROVE Good(k + 1)
  <2>1. up[k + 1] = OnePass(up[k])
    BY LevelsRecurse
  <2>2. CASE Len(up[k]) > 1
    <3>1. up[k + 1] = nextLevel(up[k])
      BY <2>1, <2>2 DEF OnePass
    <3>2. IsLevel(up[k + 1]) /\ Len(up[k + 1]) = (Len(up[k]) + 1) \div 2
      BY <1>2, <3>1, NextLevelNodes
    <3> HIDE DEF up
    <3>3. Len(up[k]) \in Nat /\ Len(up[k]) <= N - k
      BY <1>2, <2>2 DEF IsLevel
    <3>4. \A n \in Nat : n > 1 => (n + 1) \div 2 >= 1 /\ (n + 1) \div 2 <= n - 1
      OBVIOUS
    <3>5. Len(up[k + 1]) >= 1 /\ Len(up[k + 1]) <= Len(up[k]) - 1
      BY <2>2, <3>2, <3>3, <3>4
    <3>6. Len(up[k + 1]) <= N - (k + 1)
      <4>1. Len(up[k + 1]) \in Nat
        BY <3>2 DEF IsLevel
      <4> QED BY <3>3, <3>5, <4>1
    <3> QED BY <3>2, <3>5, <3>6
  <2>3. CASE ~(Len(up[k]) > 1)
    <3>1. up[k + 1] = up[k]
      BY <2>1, <2>3 DEF OnePass
    <3> QED BY <1>2, <2>3, <3>1
  <2> QED BY <2>2, <2>3
<1>3. 0..N \subseteq S
  <2> HIDE DEF Good
  <2>1. \A k \in 0..(N - 1) : k \in S => k + 1 \in S
    BY <1>2
  <2> HIDE DEF S
  <2> QED BY <1>1, <2>1, BoundedInduction
<1> QED BY <1>3

(* The height of the tree: below it every level has a parent level, from it on
   the level is the root alone. *)
LEMMA HeightExists ==
  ASSUME NEW leaves, Len(leaves) \in Nat \ {0}
  PROVE  \E h \in 0..Len(leaves) :
           /\ \A k \in 0..Len(leaves) : k < h <=> Len(Levels(leaves)[k]) > 1
           /\ Len(Levels(leaves)[h]) = 1
           /\ Levels(leaves)[h] = Levels(leaves)[Len(leaves)]
<1> DEFINE N == Len(leaves)
           up == Levels(leaves)
           T == {k \in 0..N : Len(up[k]) = 1}
<1>1. \A k \in 0..N : Len(up[k]) \in Nat /\ Len(up[k]) >= 1
  BY LevelSizes DEF IsLevel
<1>2. N \in T
  <2>1. N \in 0..N
    OBVIOUS
  <2>2. Len(up[N]) > 1 => Len(up[N]) <= N - N
    BY <2>1, LevelSizes
  <2>3. Len(up[N]) \in Nat /\ Len(up[N]) >= 1
    BY <1>1, <2>1
  <2>4. \A n \in Nat : n >= 1 /\ (n > 1 => n <= N - N) => n = 1
    OBVIOUS
  <2>5. Len(up[N]) = 1
    BY <2>2, <2>3, <2>4, Zenon
  <2> QED BY <2>1, <2>5
<1>3. PICK h \in T : \A y \in T : h <= y
  <2>1. T \subseteq Nat /\ T # {}
    BY <1>2
  <2> HIDE DEF T
  <2> QED BY <2>1, LeastExists
<1>4. \A k \in 0..(N - 1) : Len(up[k]) = 1 => up[k + 1] = up[k]
  <2> SUFFICES ASSUME NEW k \in 0..(N - 1), Len(up[k]) = 1 PROVE up[k + 1] = up[k]
    OBVIOUS
  <2>1. up[k + 1] = OnePass(up[k])
    BY LevelsRecurse
  <2> QED BY <2>1 DEF OnePass
<1> HIDE DEF up
<1>5. \A k \in h..N : up[k] = up[h]
  <2> DEFINE S == {k \in 0..N : k < h \/ up[k] = up[h]}
  <2>1. 0 \in S
    BY <1>3
  <2>2. \A k \in 0..(N - 1) : k \in S => k + 1 \in S
    <3> SUFFICES ASSUME NEW k \in 0..(N - 1), k \in S PROVE k + 1 < h \/ up[k + 1] = up[h]
      OBVIOUS
    <3>1. CASE k < h
      BY <3>1, <1>3
    <3>2. CASE up[k] = up[h]
      BY <3>2, <1>3, <1>4
    <3> QED BY <3>1, <3>2
  <2>3. 0..N \subseteq S
    <3> HIDE DEF S
    <3> QED BY <2>1, <2>2, BoundedInduction
  <2> QED BY <2>3, <1>3
<1>6. \A k \in 0..N : k < h <=> Len(up[k]) > 1
  <2> SUFFICES ASSUME NEW k \in 0..N PROVE k < h <=> Len(up[k]) > 1
    OBVIOUS
  <2>1. CASE k < h
    <3>1. Len(up[k]) # 1
      BY <2>1, <1>3
    <3>2. Len(up[k]) \in Nat /\ Len(up[k]) >= 1
      BY <1>1
    <3>3. \A n \in Nat : n >= 1 /\ n # 1 => n > 1
      OBVIOUS
    <3>4. Len(up[k]) > 1
      BY <3>1, <3>2, <3>3, Zenon
    <3> QED BY <2>1, <3>4
  <2>2. CASE k >= h
    <3>1. Len(up[k]) = 1
      BY <2>2, <1>3, <1>5
    <3>2. ~(k < h)
      BY <2>2, <1>3
    <3> QED BY <3>1, <3>2
  <2> QED BY <1>3, <2>1, <2>2
<1> QED BY <1>3, <1>5, <1>6 DEF up

(* Folding its sibling into a node gives its parent. *)
LEMMA SiblingGivesParent ==
  ASSUME NEW level, IsLevel(level), NEW a \in 1..Len(level)
  PROVE  /\ Parent(a) \in 1..Len(nextLevel(level))
         /\ nextLevel(level)[Parent(a)] = Folded(level[a], Sibling(level, a))
<1>1. PICK n \in Nat : n = Len(level)
  BY DEF IsLevel
<1>2. PICK p : p = Parent(a)
  OBVIOUS
<1>3. /\ p \in 1..((n + 1) \div 2)
      /\ a % 2 = 1 => a = 2*p - 1 /\ a + 1 = 2*p
      /\ a % 2 # 1 => a = 2*p /\ a - 1 = 2*p - 1 /\ 2*p <= n
  <2>1. a \in 1..n
    BY <1>1
  <2> QED BY <1>2, <2>1 DEF Parent
<1>4. /\ Len(nextLevel(level)) = (n + 1) \div 2
      /\ nextLevel(level)[p] = hashNode(level[2*p - 1], IF 2*p <= n THEN level[2*p] ELSE level[2*p - 1])
  BY <1>1, <1>3, NextLevelNodes
<1>5. CASE a % 2 = 1
  <2>1. Sibling(level, a) = [hash |-> IF 2*p <= n THEN level[2*p] ELSE level[a], right |-> TRUE]
    BY <1>1, <1>3, <1>5 DEF Sibling
  <2>2. Folded(level[a], Sibling(level, a)) = hashNode(level[a], IF 2*p <= n THEN level[2*p] ELSE level[a])
    BY <2>1 DEF Folded
  <2> QED BY <1>2, <1>3, <1>4, <1>5, <2>2
<1>6. CASE a % 2 # 1
  <2>1. Sibling(level, a) = [hash |-> level[2*p - 1], right |-> FALSE]
    BY <1>3, <1>6 DEF Sibling
  <2>2. Folded(level[a], Sibling(level, a)) = hashNode(level[2*p - 1], level[a])
    BY <2>1 DEF Folded
  <2> QED BY <1>2, <1>3, <1>4, <1>6, <2>2
<1> QED BY <1>5, <1>6

(* Every inclusion proof verifies: for any leaves, however many, the proof for any
   of them folds into the root. *)
THEOREM ProofsVerify ==
  ASSUME NEW leaves, Len(leaves) \in Nat \ {0}, NEW i \in 1..Len(leaves)
  PROVE  VerifyProof(leaves[i], Proof(leaves, i), Root(leaves))
<1> DEFINE N == Len(leaves)
           up == Levels(leaves)
           proof == Proof(leaves, i)
<1>1. PICK h \in 0..N : /\ \A k \in 0..N : k < h <=> Len(up[k]) > 1
                        /\ Len(up[h]) = 1 /\ up[h] = up[N]
  BY HeightExists
<1>2. Root(leaves) = up[h][1]
  <2>1. leaves # << >>
    OBVIOUS
  <2> QED BY <1>1, <2>1 DEF Root
<1>3. proof = [k \in 1..h |-> Sibling(up[k-1], Ancestor(i, k-1))]
  <2>1. {k \in 0..N : Len(up[k]) > 1} = 0..(h - 1)
    <3> HIDE DEF up
    <3> QED BY <1>1
  <2>2. Cardinality(0..(h - 1)) = h
    BY <1>1, FS_Interval
  <2> QED BY <2>1, <2>2 DEF Proof
<1> HIDE DEF proof
<1>4. Len(proof) = h /\ \A k \in 1..h : proof[k] = Sibling(up[k-1], Ancestor(i, k-1))
  <2> HIDE DEF up
  <2> QED BY <1>1, <1>3
<1>5. PICK run : /\ run[0] = hashLeaf(leaves[i])
                 /\ \A k \in 1..h : run[k] = Folded(run[k - 1], proof[k])
                 /\ FoldProof(leaves[i], proof) = run[h]
  <2>1. Len(proof) \in Nat
    BY <1>4
  <2> QED BY <1>4, <2>1, FoldRecurses
<1>6. \A k \in 0..N : IsLevel(up[k])
  BY LevelSizes
<1> DEFINE S == {k \in 0..h : Ancestor(i, k) \in 1..Len(up[k]) /\ run[k] = up[k][Ancestor(i, k)]}
<1>7. 0 \in S
  <2>1. Ancestor(i, 0) = i
    BY AncestorRecurses
  <2>2. up[0] = LeafLevel(leaves)
    BY LevelsRecurse
  <2>3. Len(up[0]) = N /\ up[0][i] = hashLeaf(leaves[i])
    BY <2>2 DEF LeafLevel
  <2> HIDE DEF up
  <2> QED BY <1>5, <2>1, <2>3
<1>8. ASSUME NEW k \in 0..(h - 1), k \in S PROVE k + 1 \in S
  <2>1. k \in 0..N /\ k + 1 \in 1..N /\ k + 1 \in 1..h /\ k \in Nat
    BY <1>1
  <2>2. Len(up[k]) > 1
    BY <1>1, <2>1
  <2>3. up[k + 1] = nextLevel(up[k])
    BY <2>1, <2>2, LevelsRecurse DEF OnePass
  <2>4. PICK a \in 1..Len(up[k]) : a = Ancestor(i, k) /\ run[k] = up[k][a]
    BY <1>8
  <2>5. Ancestor(i, k + 1) = Parent(a)
    BY <2>1, <2>4, AncestorRecurses
  <2>6. run[k + 1] = Folded(run[k], Sibling(up[k], a))
    BY <1>4, <1>5, <2>1, <2>4
  <2>7. /\ Parent(a) \in 1..Len(up[k + 1])
        /\ up[k + 1][Parent(a)] = Folded(up[k][a], Sibling(up[k], a))
    BY <1>6, <2>1, <2>3, SiblingGivesParent
  <2> QED BY <2>1, <2>4, <2>5, <2>6, <2>7
<1>9. h \in S
  <2>1. h \in Nat
    BY <1>1
  <2> HIDE DEF S
  <2>2. 0..h \subseteq S
    BY <1>7, <1>8, <2>1, BoundedInduction
  <2> QED BY <2>1, <2>2
<1>10. run[h] = up[h][1]
  BY <1>1, <1>9
<1> QED BY <1>2, <1>5, <1>10 DEF VerifyProof, proof

----------------------------------------------------------------------------
(* Hashes of leaves and of nodes can be told apart and name what they hash. *)
LEMMA HashesInjective ==
  /\ \A x, y : hashLeaf(x) = hashLeaf(y) => x = y
  /\ \A a, b, c, d : hashNode(a, b) = hashNode(c, d) => a = c /\ b = d
  /\ \A x, a, b : hashLeaf(x) # hashNode(a, b)
  /\ \A x : hashLeaf(x) # NoRoot
  /\ \A a, b : hashNode(a, b) # NoRoot
BY DEF hashLeaf, hashNode, NoRoot

(* No node twice. *)
Distinct(level) == \A i, j \in 1..Len(level) : level[i] = level[j] => i = j

(* Pairs of different nodes have different parents. *)
LEMMA NextLevelDistinct ==
  ASSUME NEW level, IsLevel(level), Distinct(level)
  PROVE  Distinct(nextLevel(level))
<1> DEFINE next == nextLevel(level)
<1>1. PICK n \in Nat : n = Len(level)
  BY DEF IsLevel
<1>2. /\ Len(next) = (n + 1) \div 2
      /\ \A i \in 1..Len(next) : next[i] = hashNode(level[2*i - 1], IF 2*i <= n THEN level[2*i] ELSE level[2*i - 1])
  BY <1>1, NextLevelNodes
<1> HIDE DEF next
<1>3. ASSUME NEW i \in 1..Len(next), NEW j \in 1..Len(next), next[i] = next[j] PROVE i = j
  <2>1. level[2*i - 1] = level[2*j - 1]
    BY <1>2, <1>3, HashesInjective
  <2>2. i \in Nat /\ j \in Nat /\ 2*i - 1 \in 1..n /\ 2*j - 1 \in 1..n
    BY <1>2
  <2>3. 2*i - 1 = 2*j - 1
    BY <1>1, <2>1, <2>2 DEF Distinct
  <2> QED BY <2>2, <2>3
<1> QED BY <1>3 DEF Distinct, next

(* A level with no node twice can be read off the one above: the only node that
   is paired with itself is the odd one out. *)
LEMMA NextLevelDetermines ==
  ASSUME NEW c, IsLevel(c), Distinct(c), NEW d, IsLevel(d), Distinct(d),
         nextLevel(c) = nextLevel(d)
  PROVE  c = d
<1>1. PICK m \in Nat : m = Len(c)
  BY DEF IsLevel
<1>2. PICK n \in Nat : n = Len(d)
  BY DEF IsLevel
<1>3. PICK p \in Nat : p = (m + 1) \div 2 /\ p = (n + 1) \div 2
  <2>1. Len(nextLevel(c)) = (m + 1) \div 2 /\ Len(nextLevel(d)) = (n + 1) \div 2
    BY <1>1, <1>2, NextLevelNodes
  <2> QED BY <2>1
<1>4. \A i \in 1..p : /\ c[2*i - 1] = d[2*i - 1]
                      /\ (IF 2*i <= m THEN c[2*i] ELSE c[2*i - 1]) = (IF 2*i <= n THEN d[2*i] ELSE d[2*i - 1])
  <2> SUFFICES ASSUME NEW i \in 1..p
               PROVE  /\ c[2*i - 1] = d[2*i - 1]
                      /\ (IF 2*i <= m THEN c[2*i] ELSE c[2*i - 1]) = (IF 2*i <= n THEN d[2*i] ELSE d[2*i - 1])
    OBVIOUS
  <2>1. nextLevel(c)[i] = hashNode(c[2*i - 1], IF 2*i <= m THEN c[2*i] ELSE c[2*i - 1])
    BY <1>1, <1>3, NextLevelNodes
  <2>2. nextLevel(d)[i] = hashNode(d[2*i - 1], IF 2*i <= n THEN d[2*i] ELSE d[2*i - 1])
    BY <1>2, <1>3, NextLevelNodes
  <2>3. hashNode(c[2*i - 1], IF 2*i <= m THEN c[2*i] ELSE c[2*i - 1])
         = hashNode(d[2*i - 1], IF 2*i <= n THEN d[2*i] ELSE d[2*i - 1])
    BY <2>1, <2>2
  <2> QED BY <2>3, HashesInjective
<1>5. ~(m < n)
  <2> SUFFICES ASSUME m < n PROVE FALSE
    OBVIOUS
  <2>1. p \in 1..p /\ n = 2*p /\ 2*p > m
    BY <1>3
  <2>2. c[2*p - 1] = d[2*p - 1] /\ c[2*p - 1] = d[2*p]
    BY <1>4, <2>1
  <2>3. 2*p - 1 \in 1..n /\ 2*p \in 1..n /\ 2*p - 1 # 2*p
    BY <2>1
  <2> QED BY <1>2, <2>2, <2>3 DEF Distinct
<1>6. ~(n < m)
  <2> SUFFICES ASSUME n < m PROVE FALSE
    OBVIOUS
  <2>1. p \in 1..p /\ m = 2*p /\ 2*p > n
    BY <1>3
  <2>2. c[2*p - 1] = d[2*p - 1] /\ c[2*p] = d[2*p - 1]
    BY <1>4, <2>1
  <2>3. 2*p - 1 \in 1..m /\ 2*p \in 1..m /\ 2*p - 1 # 2*p
    BY <2>1
  <2> QED BY <1>1, <2>2, <2>3 DEF Distinct
<1>7. m = n
  BY <1>5, <1>6
<1>8. ASSUME NEW k \in 1..m PROVE c[k] = d[k]
  <2>1. PICK i \in 1..p : k = 2*i - 1 \/ k = 2*i
    <3>1. (k + 1) \div 2 \in 1..p /\ (k = 2*((k + 1) \div 2) - 1 \/ k = 2*((k + 1) \div 2))
      BY <1>3
    <3> QED BY <3>1
  <2>2. CASE k = 2*i - 1
    BY <1>4, <2>2
  <2>3. CASE k = 2*i
    <3>1. 2*i <= m /\ 2*i <= n
      BY <1>7, <2>3
    <3> QED BY <1>4, <2>3, <3>1
  <2> QED BY <2>1, <2>2, <2>3
<1> QED BY <1>1, <1>2, <1>7, <1>8 DEF IsLevel

(* No level of a tree over different leaves has a node twice. *)
LEMMA LevelsDistinct ==
  ASSUME NEW leaves, Len(leaves) \in Nat \ {0}, Distinct(leaves)
  PROVE  \A k \in 0..Len(leaves) : Distinct(Levels(leaves)[k])
<1> DEFINE N == Len(leaves)
           up == Levels(leaves)
           S == {k \in 0..N : Distinct(up[k])}
<1>1. 0 \in S
  <2>1. up[0] = LeafLevel(leaves)
    BY LevelsRecurse
  <2>2. Len(LeafLevel(leaves)) = N /\ \A i \in 1..N : LeafLevel(leaves)[i] = hashLeaf(leaves[i])
    BY DEF LeafLevel
  <2>3. Distinct(LeafLevel(leaves))
    BY <2>2, HashesInjective DEF Distinct
  <2> QED BY <2>1, <2>3
<1>2. ASSUME NEW k \in 0..(N - 1), k \in S PROVE k + 1 \in S
  <2>1. up[k + 1] = OnePass(up[k])
    BY LevelsRecurse
  <2>2. IsLevel(up[k])
    <3>1. k \in 0..N
      OBVIOUS
    <3> QED BY <3>1, LevelSizes
  <2>3. Distinct(up[k + 1])
    BY <1>2, <2>1, <2>2, NextLevelDistinct DEF OnePass
  <2> QED BY <2>3
<1>3. 0..N \subseteq S
  <2> HIDE DEF S
  <2> QED BY <1>1, <1>2, BoundedInduction
<1> QED BY <1>3

(* The same root, the lower tree first: going down from the roots the levels are
   equal, and a level of leaf hashes is not one of node hashes. *)
LEMMA LowerTreeSame ==
  ASSUME NEW s, Len(s) \in Nat \ {0}, Distinct(s), IsLevel(s),
         NEW t, Len(t) \in Nat \ {0}, Distinct(t), IsLevel(t),
         NEW g \in 0..Len(s), NEW h \in 0..Len(t), g <= h,
         \A k \in 0..Len(s) : k < g <=> Len(Levels(s)[k]) > 1,
         \A k \in 0..Len(t) : k < h <=> Len(Levels(t)[k]) > 1,
         Levels(s)[g] = Levels(t)[h]
  PROVE  s = t
<1> DEFINE c == Levels(s)
           d == Levels(t)
           S == {j \in 0..g : c[g - j] = d[h - j]}
<1>1. \A k \in 0..Len(s) : IsLevel(c[k]) /\ Distinct(c[k])
  BY LevelSizes, LevelsDistinct
<1>2. \A k \in 0..Len(t) : IsLevel(d[k]) /\ Distinct(d[k])
  BY LevelSizes, LevelsDistinct
<1>3. ASSUME NEW k \in 0..(g - 1) PROVE c[k + 1] = nextLevel(c[k])
  <2>1. k \in 0..Len(s) /\ k + 1 \in 1..Len(s) /\ k < g
    OBVIOUS
  <2> QED BY <2>1, LevelsRecurse DEF OnePass
<1>4. ASSUME NEW k \in 0..(h - 1) PROVE d[k + 1] = nextLevel(d[k])
  <2>1. k \in 0..Len(t) /\ k + 1 \in 1..Len(t) /\ k < h
    OBVIOUS
  <2> QED BY <2>1, LevelsRecurse DEF OnePass
<1>5. c[0] = LeafLevel(s) /\ d[0] = LeafLevel(t)
  BY LevelsRecurse
<1>6. c[g] = d[h]
  OBVIOUS
<1> HIDE DEF c, d
<1>7. 0 \in S
  BY <1>6
<1>8. ASSUME NEW j \in 0..(g - 1), j \in S PROVE j + 1 \in S
  <2> DEFINE k == g - (j + 1)
             l == h - (j + 1)
  <2>1. k \in 0..(g - 1) /\ l \in 0..(h - 1) /\ k + 1 = g - j /\ l + 1 = h - j /\ j + 1 \in 0..g
    OBVIOUS
  <2>2. k \in 0..Len(s) /\ l \in 0..Len(t)
    BY <2>1
  <2>3. c[k + 1] = d[l + 1]
    BY <1>8, <2>1
  <2> HIDE DEF k, l
  <2>4. nextLevel(c[k]) = nextLevel(d[l])
    BY <1>3, <1>4, <2>1, <2>3
  <2>5. c[k] = d[l]
    BY <1>1, <1>2, <2>2, <2>4, NextLevelDetermines
  <2> QED BY <2>1, <2>5 DEF k, l
<1>9. g \in S
  <2>1. g \in Nat
    OBVIOUS
  <2> HIDE DEF S
  <2>2. 0..g \subseteq S
    BY <1>7, <1>8, <2>1, BoundedInduction
  <2> QED BY <2>1, <2>2
<1>10. c[0] = d[h - g]
  BY <1>9
<1>11. /\ Len(LeafLevel(s)) = Len(s) /\ \A i \in 1..Len(s) : LeafLevel(s)[i] = hashLeaf(s[i])
       /\ Len(LeafLevel(t)) = Len(t) /\ \A i \in 1..Len(t) : LeafLevel(t)[i] = hashLeaf(t[i])
  BY DEF LeafLevel
<1>12. h = g
  <2> SUFFICES ASSUME h # g PROVE FALSE
    OBVIOUS
  <2> DEFINE l == h - g - 1
  <2>1. l \in 0..(h - 1) /\ l + 1 = h - g /\ l \in 0..Len(t)
    OBVIOUS
  <2> HIDE DEF l
  <2>2. LeafLevel(s) = nextLevel(d[l])
    BY <1>4, <1>5, <1>10, <2>1
  <2>3. 1 \in 1..Len(s)
    OBVIOUS
  <2>4. \A i \in 1..Len(nextLevel(d[l])) : \E a, b : nextLevel(d[l])[i] = hashNode(a, b)
    <3>1. IsLevel(d[l])
      BY <1>2, <2>1
    <3> DEFINE v == d[l]
    <3> HIDE DEF v
    <3>2. IsLevel(v) => \A i \in 1..Len(nextLevel(v)) : \E a, b : nextLevel(v)[i] = hashNode(a, b)
      BY NextLevelNodes
    <3> QED BY <3>1, <3>2 DEF v
  <2> QED BY <1>11, <2>2, <2>3, <2>4, HashesInjective
<1>13. LeafLevel(s) = LeafLevel(t)
  BY <1>5, <1>10, <1>12
<1>14. Len(s) = Len(t)
  BY <1>11, <1>13
<1>15. ASSUME NEW i \in 1..Len(s) PROVE s[i] = t[i]
  <2>1. hashLeaf(s[i]) = hashLeaf(t[i])
    BY <1>11, <1>13, <1>14
  <2> QED BY <2>1, HashesInjective
<1> QED BY <1>14, <1>15 DEF IsLevel

(* The root is the only node of the level at the height of the tree. *)
LEMMA RootOnTop ==
  ASSUME NEW leaves, Len(leaves) \in Nat \ {0}
  PROVE  \E h \in 0..Len(leaves) :
           /\ \A k \in 0..Len(leaves) : k < h <=> Len(Levels(leaves)[k]) > 1
           /\ Levels(leaves)[h] = [i \in 1..1 |-> Root(leaves)]
           /\ Root(leaves) # NoRoot
<1> DEFINE N == Len(leaves)
           up == Levels(leaves)
<1>1. PICK h \in 0..N : /\ \A k \in 0..N : k < h <=> Len(up[k]) > 1
                        /\ Len(up[h]) = 1 /\ up[h] = up[N]
  BY HeightExists
<1>2. Root(leaves) = up[h][1]
  <2>1. leaves # << >>
    OBVIOUS
  <2> QED BY <1>1, <2>1 DEF Root
<1>3. IsLevel(up[h])
  BY LevelSizes
<1>4. up[h] = [i \in 1..1 |-> Root(leaves)]
  <2> HIDE DEF up
  <2> QED BY <1>1, <1>2, <1>3 DEF IsLevel
<1>5. up[h][1] # NoRoot
  <2>1. CASE h = 0
    <3>1. up[0] = LeafLevel(leaves)
      BY LevelsRecurse
    <3>2. LeafLevel(leaves)[1] = hashLeaf(leaves[1])
      BY DEF LeafLevel
    <3> QED BY <2>1, <3>1, <3>2, HashesInjective
  <2>2. CASE h # 0
    <3>1. h - 1 \in 0..N /\ h \in 1..N /\ h - 1 < h
      BY <2>2
    <3>2. Len(up[h - 1]) > 1
      BY <1>1, <3>1
    <3>3. up[h] = nextLevel(up[h - 1])
      BY <3>1, <3>2, LevelsRecurse DEF OnePass
    <3>4. IsLevel(up[h - 1])
      BY <3>1, LevelSizes
    <3>5. PICK v : v = up[h - 1]
      OBVIOUS
    <3>6. Len(nextLevel(v)) = 1
      BY <1>1, <3>3, <3>5
    <3>7. \A i \in 1..Len(nextLevel(v)) : \E a, b : nextLevel(v)[i] = hashNode(a, b)
      <4>1. IsLevel(v)
        BY <3>4, <3>5
      <4> QED BY <4>1, NextLevelNodes
    <3>8. \E a, b : nextLevel(v)[1] = hashNode(a, b)
      BY <3>6, <3>7
    <3> QED BY <3>3, <3>5, <3>8, HashesInjective
  <2> QED BY <2>1, <2>2
<1> QED BY <1>1, <1>2, <1>4, <1>5

(* A root commits to its leaves and their order, if no leaf occurs twice. *)
THEOREM RootsDiffer ==
  ASSUME NEW s, IsLevel(s), Distinct(s), NEW t, IsLevel(t), Distinct(t),
         s # << >>, Root(s) = Root(t)
  PROVE  s = t
<1>1. Len(s) \in Nat \ {0}
  BY DEF IsLevel
<1>2. PICK g \in 0..Len(s) : /\ \A k \in 0..Len(s) : k < g <=> Len(Levels(s)[k]) > 1
                             /\ Levels(s)[g] = [i \in 1..1 |-> Root(s)] /\ Root(s) # NoRoot
  BY <1>1, RootOnTop
<1>3. t # << >>
  BY <1>2 DEF Root
<1>4. Len(t) \in Nat \ {0}
  BY <1>3 DEF IsLevel
<1>5. PICK h \in 0..Len(t) : /\ \A k \in 0..Len(t) : k < h <=> Len(Levels(t)[k]) > 1
                             /\ Levels(t)[h] = [i \in 1..1 |-> Root(t)]
  BY <1>4, RootOnTop
<1>6. Levels(s)[g] = Levels(t)[h]
  BY <1>2, <1>5
<1>7. CASE g <= h
  BY <1>1, <1>2, <1>4, <1>5, <1>6, <1>7, LowerTreeSame
<1>8. CASE h <= g
  BY <1>1, <1>2, <1>4, <1>5, <1>6, <1>8, LowerTreeSame
<1> QED BY <1>7, <1>8

----------------------------------------------------------------------------
(* The event hashes of a range are a list of different leaves. *)
LEMMA LeafRangeIs ==
  ASSUME NEW after \in Nat, NEW to \in Nat, after < to
  PROVE  LET leaves == LeafRange(after, to) IN
         /\ Len(leaves) = to - after /\ Len(leaves) \in Nat \ {0}
         /\ \A i \in 1..Len(leaves) : leaves[i] = after + i
         /\ IsLevel(leaves) /\ Distinct(leaves)
<1>1. PICK n \in Nat \ {0} : n = to - after
  OBVIOUS
<1>2. PICK leaves : leaves = [i \in 1..n |-> after + i]
  OBVIOUS
<1>3. LeafRange(after, to) = leaves
  BY <1>1, <1>2 DEF LeafRange
<1>4. Len(leaves) = n /\ \A i \in 1..n : leaves[i] = after + i
  BY <1>2
<1>5. IsLevel(leaves)
  BY <1>2, <1>4 DEF IsLevel
<1>6. Distinct(leaves)
  BY <1>4 DEF Distinct
<1> QED BY <1>1, <1>3, <1>4, <1>5, <1>6

(* AnchorCoveringSeq finds an anchor that covers the block. *)
LEMMA CoveringAnchorCovers ==
  ASSUME TypeOK, NEW seq, Anchored(seq)
  PROVE  CoveringAnchor(seq) \in anchors /\ Covers(CoveringAnchor(seq), seq)
<1> DEFINE C == {a \in anchors : Covers(a, seq)}
           D == {MaxSeq - a.to : a \in C}
<1>1. \A a \in C : a.to \in 1..MaxSeq
  BY DEF TypeOK
<1>2. D \subseteq Nat /\ D # {}
  <2>1. \A a \in C : MaxSeq - a.to \in Nat
    BY <1>1, MaxSeqAssumption
  <2>2. C # {}
    BY DEF Anchored
  <2> QED BY <2>1, <2>2
<1>3. PICK d \in D : \A e \in D : d <= e
  <2> HIDE DEF D
  <2> QED BY <1>2, LeastExists
<1>4. PICK a \in C : d = MaxSeq - a.to
  BY <1>3
<1>5. ASSUME NEW b \in C PROVE b.to <= a.to
  <2>1. MaxSeq - a.to <= MaxSeq - b.to
    BY <1>3, <1>4
  <2> QED BY <1>1, <2>1, MaxSeqAssumption
<1>6. a \in anchors /\ Covers(a, seq) /\ \A b \in anchors : Covers(b, seq) => b.to <= a.to
  BY <1>5
<1> QED BY <1>6 DEF CoveringAnchor

(* GET /anchors/proof verifies every block that has an anchor, for chains of any
   length, trees of any size and anchors that overlap in any way. *)
THEOREM AnchoredBlocksVerify == Spec => []EveryProofVerifies
<1>1. IndInv => EveryProofVerifies
  <2> SUFFICES ASSUME IndInv, NEW seq \in 1..head, Anchored(seq) PROVE ProofOK(seq)
    BY DEF EveryProofVerifies
  <2>1. PICK a \in anchors : a = CoveringAnchor(seq) /\ Covers(a, seq)
    BY CoveringAnchorCovers DEF IndInv
  <2>2. a.from \in Nat \ {0} /\ a.to \in Nat /\ seq \in Nat /\ a.from <= seq /\ seq <= a.to
    BY <2>1 DEF IndInv, TypeOK, Covers
  <2>3. a.root = Root(LeafRange(a.from - 1, a.to))
    BY DEF IndInv, AnchorsRecompute
  <2>4. PICK leaves : leaves = LeafRange(a.from - 1, a.to)
    OBVIOUS
  <2>5. a.from - 1 \in Nat /\ a.from - 1 < a.to
    BY <2>2
  <2>6. /\ Len(leaves) = a.to - (a.from - 1) /\ Len(leaves) \in Nat \ {0}
        /\ \A i \in 1..Len(leaves) : leaves[i] = (a.from - 1) + i
    BY <2>2, <2>4, <2>5, LeafRangeIs
  <2>7. PICK i \in 1..Len(leaves) : i = seq - (a.from - 1)
    BY <2>2, <2>6
  <2>8. leaves[i] = seq
    <3>1. (a.from - 1) + i = seq
      BY <2>2, <2>7
    <3> QED BY <2>6, <3>1
  <2>9. VerifyProof(leaves[i], Proof(leaves, i), Root(leaves))
    BY <2>6, ProofsVerify
  <2> QED BY <2>1, <2>3, <2>4, <2>8, <2>9 DEF ProofOK
<1> QED BY Inductive, <1>1, PTL

(* A signed root stands for its blocks and their order, for chains of any length:
   no other run of different blocks has that root. *)
THEOREM RootsCommit == Spec => []RootCommits
<1>1. IndInv => RootCommits
  <2> SUFFICES ASSUME IndInv, NEW a \in anchors, NEW s \in Runs, Root(s) = a.root
               PROVE  s = LeafRange(a.from - 1, a.to)
    BY DEF RootCommits, RootedRuns
  <2>1. a.from \in Nat \ {0} /\ a.to \in Nat /\ a.from <= a.to
    BY DEF IndInv, TypeOK, AnchorsRecompute
  <2>2. a.root = Root(LeafRange(a.from - 1, a.to))
    BY DEF IndInv, AnchorsRecompute
  <2>3. PICK leaves : leaves = LeafRange(a.from - 1, a.to)
    OBVIOUS
  <2>4. IsLevel(leaves) /\ Distinct(leaves) /\ leaves # << >>
    <3>1. a.from - 1 \in Nat /\ a.from - 1 < a.to
      BY <2>1
    <3>2. IsLevel(leaves) /\ Distinct(leaves) /\ Len(leaves) \in Nat \ {0}
      BY <2>1, <2>3, <3>1, LeafRangeIs
    <3> QED BY <3>2
  <2>5. IsLevel(s) /\ Distinct(s)
    <3>1. PICK n \in 0..MaxSeq : s \in Injection(1..n, 1..MaxSeq)
      BY DEF Runs
    <3>2. n \in Nat /\ s \in [1..n -> 1..MaxSeq] /\ \A i, j \in 1..n : s[i] = s[j] => i = j
      BY <3>1 DEF Injection, IsInjective
    <3>3. Len(s) = n /\ s = [i \in 1..n |-> s[i]]
      BY <3>2
    <3> QED BY <3>2, <3>3 DEF IsLevel, Distinct
  <2> QED BY <2>2, <2>3, <2>4, <2>5, RootsDiffer
<1> QED BY Inductive, <1>1, PTL
============================================================================
