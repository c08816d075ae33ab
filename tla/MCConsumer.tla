----------------------------- MODULE MCConsumer -----------------------------
(***************************************************************************)
(* Consumer for TLC: two events of one farmer, one of an unknown type, one *)
(* that is not JSON.  The farmer's second event and the one of an unknown  *)
(* type have the same Kafka key and no id.                                 *)
(***************************************************************************)
EXTENDS Consumer

CONSTANTS e1, e2, unknown, garbage, key

MCKindOf ==
  [e \in Events |-> IF e = unknown THEN "unmapped" ELSE IF e = garbage THEN "bad" ELSE "entity"]

MCIdOf == [e \in Events |-> IF e \in {e2, unknown} THEN key ELSE e]
============================================================================
