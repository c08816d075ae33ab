----------------------------- MODULE Anchoring -----------------------------
(***************************************************************************)
(* Notarization of the custody chain (internal/anchor, internal/store/     *)
(* anchor.go): an anchorer reads the chain head and the last anchored      *)
(* number, signs the Merkle root of the blocks in between and inserts an   *)
(* anchor_batches row.  These are separate statements, outside any         *)
(* transaction, and every replica's job loop and every staff request runs  *)
(* them while the chain grows.                                             *)
(*                                                                         *)
(* The chain only grows (CustodyLog, which CustodyChain implements) and is *)
(* numbered from 1, so it is its length here, and a block's event_hash is  *)
(* its number.                                                             *)
(* The only L3 provider besides "none" always answers ErrNotImplemented,   *)
(* which leaves the row an L2 anchor: publication has no effect to model.  *)
(***************************************************************************)
EXTENDS Naturals, Sequences, Merkle

CONSTANTS
  Anchorers,  \* concurrent CreateAnchor calls
  MaxSeq      \* bound on the length of the chain

ASSUME MaxSeqAssumption == MaxSeq \in Nat

VARIABLES
  head,     \* number of committed custody_chain blocks
  anchors,  \* anchor_batches rows
  pc,       \* pc[p]: the next statement of p's CreateAnchor
  loc       \* loc[p]: its locals head, last and root

vars == << head, anchors, pc, loc >>

States == {"idle", "last", "leaves", "sign", "insert"}

IdleLoc == [head |-> 0, last |-> 0, root |-> NoRoot]

(* The event hashes of blocks after+1..to, in order (ChainLeafRange). *)
LeafRange(after, to) == [i \in 1..(to - after) |-> after + i]

(* The roots an anchor can carry; that of no leaves is NoRoot. *)
Roots == {Root(LeafRange(0, 0))} \cup {Root(LeafRange(a, t)) : a, t \in 0..MaxSeq}

Anchor(from, to, root) == [from |-> from, to |-> to, root |-> root]

Init ==
  /\ head = 0
  /\ anchors = {}
  /\ pc = [p \in Anchorers |-> "idle"]
  /\ loc = [p \in Anchorers |-> IdleLoc]

----------------------------------------------------------------------------
(* UNIQUE(to_seq). *)
ToSeqTaken(to) == \E a \in anchors : a.to = to

(* LastAnchoredSeq returns l: the greatest to_seq, 0 when there is no anchor. *)
IsLastAnchored(l) ==
  /\ l = 0 \/ ToSeqTaken(l)
  /\ \A a \in anchors : a.to <= l

Return(p) ==
  /\ pc' = [pc EXCEPT ![p] = "idle"]
  /\ loc' = [loc EXCEPT ![p] = IdleLoc]

(* Appends and backfills commit blocks, one or several at a time. *)
ChainGrows ==
  /\ \E h \in (head + 1)..MaxSeq : head' = h
  /\ UNCHANGED << anchors, pc, loc >>

(* ChainHeadSeq; an empty chain is ErrNothingToAnchor. *)
ReadHead(p) ==
  /\ pc[p] = "idle"
  /\ head > 0
  /\ loc' = [loc EXCEPT ![p].head = head]
  /\ pc' = [pc EXCEPT ![p] = "last"]
  /\ UNCHANGED << head, anchors >>

(* Mutant of ReadLast: a range of one block is not worth an anchor. *)
ReadLastOffByOne(p) ==
  /\ pc[p] = "last"
  /\ \E l \in 0..MaxSeq :
       /\ IsLastAnchored(l)
       /\ IF loc[p].head <= l + 1
            THEN Return(p)
            ELSE /\ loc' = [loc EXCEPT ![p].last = l]
                 /\ pc' = [pc EXCEPT ![p] = "leaves"]
  /\ UNCHANGED << head, anchors >>

(* LastAnchoredSeq; head <= last is ErrNothingToAnchor. *)
ReadLast(p) ==
  /\ pc[p] = "last"
  /\ \E l \in 0..MaxSeq :
       /\ IsLastAnchored(l)
       /\ IF loc[p].head <= l
            THEN Return(p)
            ELSE /\ loc' = [loc EXCEPT ![p].last = l]
                 /\ pc' = [pc EXCEPT ![p] = "leaves"]
  /\ UNCHANGED << head, anchors >>

(* ChainLeafRange and merkle.Root. *)
ReadLeaves(p) ==
  /\ pc[p] = "leaves"
  /\ loc' = [loc EXCEPT ![p].root = Root(LeafRange(loc[p].last, loc[p].head))]
  /\ pc' = [pc EXCEPT ![p] = "sign"]
  /\ UNCHANGED << head, anchors >>

(* signer.Sign succeeds; when it does not (Vault unreachable), Fail. *)
Sign(p) ==
  /\ pc[p] = "sign"
  /\ pc' = [pc EXCEPT ![p] = "insert"]
  /\ UNCHANGED << head, anchors, loc >>

(* Mutant of RowOf: from_seq is the head. *)
RowOfHeadOnly(p) == Anchor(loc[p].head, loc[p].head, loc[p].root)

(* The row CreateAnchor inserts: from_seq is the first block it read. *)
RowOf(p) == Anchor(loc[p].last + 1, loc[p].head, loc[p].root)

(* Mutant of InsertAnchor: no UNIQUE(to_seq). *)
InsertAnchorUnchecked(p) ==
  /\ pc[p] = "insert"
  /\ anchors' = anchors \cup {RowOf(p)}
  /\ Return(p)
  /\ UNCHANGED head

(* InsertAnchor: rejected by UNIQUE(to_seq), the call returns an error. *)
InsertAnchor(p) ==
  /\ pc[p] = "insert"
  /\ anchors' = IF ToSeqTaken(loc[p].head) THEN anchors ELSE anchors \cup {RowOf(p)}
  /\ Return(p)
  /\ UNCHANGED head

(* A statement or the signature fails, the 30 s job context expires or the
   replica dies: the call is over and has left nothing behind. *)
Fail(p) ==
  /\ pc[p] # "idle"
  /\ Return(p)
  /\ UNCHANGED << head, anchors >>

Advance(p) == ReadHead(p) \/ ReadLast(p) \/ ReadLeaves(p) \/ Sign(p) \/ InsertAnchor(p)

Next ==
  \/ ChainGrows
  \/ \E p \in Anchorers : Advance(p) \/ Fail(p)

Spec == Init /\ [][Next]_vars

(* anchorJobLoop calls CreateAnchor on every tick; a database, a signer and a
   job context that keep failing every time are not assumed away by weak
   fairness, so each statement must succeed if it is tried for ever. *)
Fairness ==
  \A p \in Anchorers :
    /\ WF_vars(ReadHead(p)) /\ SF_vars(ReadLast(p)) /\ SF_vars(ReadLeaves(p))
    /\ SF_vars(Sign(p)) /\ SF_vars(InsertAnchor(p))

FairSpec == Spec /\ Fairness

----------------------------------------------------------------------------
(* Type invariant: an anchor_batches row is over blocks 1..MaxSeq and carries a root
   merkle.Root can return. *)
TypeOK ==
  /\ head \in 0..MaxSeq
  /\ anchors \subseteq [from : 1..MaxSeq, to : 1..MaxSeq, root : Roots]
  /\ pc \in [Anchorers -> States]
  /\ loc \in [Anchorers -> [head : 0..MaxSeq, last : 0..MaxSeq, root : Roots]]

Covers(a, seq) == a.from <= seq /\ seq <= a.to

Anchored(seq) == \E a \in anchors : Covers(a, seq)

(* However CreateAnchor calls race each other and the growing chain, no block
   before an anchored one is left without an anchor.  The next CreateAnchor
   starts after the last anchored block, so such a block would never get one. *)
NoBlockSkipped == \A b \in anchors : \A seq \in 1..b.to : Anchored(seq)

(* Every anchor is over blocks that exist, its root is the one an auditor
   recomputes from the chain now, and no two anchors end at the same block. *)
AnchorsRecompute ==
  /\ \A a \in anchors :
       /\ 1 <= a.from /\ a.from <= a.to /\ a.to <= head
       /\ a.root = Root(LeafRange(a.from - 1, a.to))
  /\ \A a, b \in anchors : a.to = b.to => a = b

(* AnchorCoveringSeq: the covering anchor with the greatest to_seq. *)
CoveringAnchor(seq) ==
  CHOOSE a \in anchors : Covers(a, seq) /\ \A b \in anchors : Covers(b, seq) => b.to <= a.to

(* Service.Proof for a covered block: the leaves are read again from the chain,
   the block is found among them and the proof it returns is "verified". *)
ProofOK(seq) ==
  LET a      == CoveringAnchor(seq)
      leaves == LeafRange(a.from - 1, a.to)
  IN \E i \in 1..Len(leaves) :
       leaves[i] = seq /\ VerifyProof(leaves[i], Proof(leaves, i), a.root)

(* GET /anchors/proof answers verified: true for every block that has an
   anchor, overlapping anchors or not. *)
EveryProofVerifies == \A seq \in 1..head : Anchored(seq) => ProofOK(seq)

(* Every block is eventually covered by an anchor. *)
EveryBlockAnchored == \A n \in 1..MaxSeq : head >= n ~> Anchored(n)

----------------------------------------------------------------------------
(* A part of the inductive invariant: what a CreateAnchor has read stays true
   of the tables, which only grow. *)
LocalOK(h, ancs, s, l) ==
  /\ s # "idle" => l.head \in 1..h
  /\ s \in {"leaves", "sign", "insert"} =>
       /\ l.last < l.head
       /\ l.last = 0 \/ \E a \in ancs : a.to = l.last
  /\ s \in {"sign", "insert"} => l.root = Root(LeafRange(l.last, l.head))

LocalsOK == \A p \in Anchorers : LocalOK(head, anchors, pc[p], loc[p])

IndInv == TypeOK /\ NoBlockSkipped /\ AnchorsRecompute /\ LocalsOK
============================================================================
