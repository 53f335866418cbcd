--------------------------- MODULE MCSolanaReads ---------------------------
(***************************************************************************)
(* Inputs of the SolanaReads instances: the overview is one batch, the     *)
(* market snapshot one vital call and one optional call (getTokenSupply    *)
(* and getSlot) beside the market providers.                               *)
(***************************************************************************)
EXTENDS SolanaReads, TLC

OneVitalCall == [k \in Keys |-> 1]
OneOptionalForEnriched == [k \in Keys |-> IF k \in Enriched THEN 1 ELSE 0]
OneTick == [k \in Keys |-> 1]

AnyCall == Permutations(Calls)
============================================================================
