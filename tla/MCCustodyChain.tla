--------------------------- MODULE MCCustodyChain ---------------------------
(***************************************************************************)
(* CustodyChain for TLC.  Two replicas and one backfill, three event ids.  *)
(* "neg" is a payload holding -0, which JSONB stores as the payload "zero".*)
(***************************************************************************)
EXTENDS CustodyChain, TLC

MCPayloads == {"zero", "neg"}
MCCanon == [p \in MCPayloads |-> "zero"]
MCTimes == {1, 2}

Symmetry == Permutations(Ids) \cup Permutations(Appenders)
============================================================================
