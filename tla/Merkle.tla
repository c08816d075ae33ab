------------------------------- MODULE Merkle -------------------------------
(***************************************************************************)
(* The Merkle tree of internal/merkle, as functions of a sequence of       *)
(* leaves.  SHA-256 is taken to be injective: a hash is the tuple of what  *)
(* it hashes, the domain-separation prefix included.  Go indexes from 0,   *)
(* TLA+ from 1: node i of a level has index i - 1 in the code.             *)
(***************************************************************************)
EXTENDS Naturals, Sequences, FiniteSets

hashLeaf(b) == << "leaf", b >>

(* Mutant of hashNode: the order of the children is lost. *)
hashNodeUnordered(l, r) == << "node", {l, r} >>

hashNode(l, r) == << "node", l, r >>

(* Pair neighbours; an odd node out is paired with itself. *)
nextLevel(level) ==
  [i \in 1..((Len(level) + 1) \div 2) |->
     LET l == level[2*i - 1] IN
     hashNode(l, IF 2*i <= Len(level) THEN level[2*i] ELSE l)]

(* Levels(leaves)[k] is the level after k passes of the loop, which stops at
   a single node; Len(leaves) passes are more than enough to get there. *)
Levels(leaves) ==
  LET up[k \in 0..Len(leaves)] ==
        IF k = 0 THEN [i \in 1..Len(leaves) |-> hashLeaf(leaves[i])]
        ELSE IF Len(up[k-1]) > 1 THEN nextLevel(up[k-1])
        ELSE up[k-1]
  IN up

NoRoot == << >>

Root(leaves) ==
  IF leaves = << >> THEN NoRoot ELSE Levels(leaves)[Len(leaves)][1]

----------------------------------------------------------------------------
(* Mutant of Sibling: the odd node out is paired with its left neighbour. *)
SiblingOddLeft(level, i) ==
  IF i % 2 = 1
    THEN [hash |-> level[IF i + 1 <= Len(level) THEN i + 1 ELSE i - 1], right |-> TRUE]
    ELSE [hash |-> level[i - 1], right |-> FALSE]

(* The sibling of node i on a level, and the side it sits on. *)
Sibling(level, i) ==
  IF i % 2 = 1
    THEN [hash |-> IF i + 1 <= Len(level) THEN level[i + 1] ELSE level[i], right |-> TRUE]
    ELSE [hash |-> level[i - 1], right |-> FALSE]

(* The position of leaf i's ancestor after k passes: idx /= 2 each time. *)
Ancestor(i, k) ==
  LET at[n \in 0..k] == IF n = 0 THEN i ELSE ((at[n-1] - 1) \div 2) + 1
  IN at[k]

(* Proof(leaves, i): one sibling per level that has more than one node. *)
Proof(leaves, i) ==
  LET up     == Levels(leaves)
      height == Cardinality({k \in 0..Len(leaves) : Len(up[k]) > 1})
  IN [k \in 1..height |-> Sibling(up[k-1], Ancestor(i, k-1))]

(* Folding a proof into a leaf. *)
FoldProof(leaf, proof) ==
  LET run[k \in 0..Len(proof)] ==
        IF k = 0 THEN hashLeaf(leaf)
        ELSE IF proof[k].right THEN hashNode(run[k-1], proof[k].hash)
        ELSE hashNode(proof[k].hash, run[k-1])
  IN run[Len(proof)]

VerifyProof(leaf, proof, root) == FoldProof(leaf, proof) = root
============================================================================
