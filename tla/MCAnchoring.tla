---------------------------- MODULE MCAnchoring ----------------------------
(***************************************************************************)
(* Anchoring for TLC, and what its Merkle roots are worth to an auditor,   *)
(* which takes all the altered runs of blocks of a small chain.            *)
(***************************************************************************)
EXTENDS Anchoring, Functions

(* The runs of blocks an altered chain could show: any blocks in any order, but
   none twice.  event_hash is UNIQUE; duplicating the odd node would let runs
   that repeat a leaf share a root. *)
Runs == UNION {Injection(1..n, 1..MaxSeq) : n \in 0..MaxSeq}
RootedRuns == {<< Root(s), s >> : s \in Runs}

(* A signed root commits to its blocks and their order: dropping, replacing or
   swapping any of them afterwards gives another root (merkle.Root). *)
RootCommits ==
  \A a \in anchors, r \in RootedRuns :
    r[1] = a.root => r[2] = LeafRange(a.from - 1, a.to)
============================================================================
