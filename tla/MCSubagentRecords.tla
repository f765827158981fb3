-------------------------- MODULE MCSubagentRecords --------------------------
(***************************************************************************)
(* Two agents and a cap of one, so that ending one run evicts the other.   *)
(***************************************************************************)
EXTENDS SubagentRecords, TLC

CONSTANTS a1, a2, c1, c2

Symmetry == Permutations(Agent) \cup Permutations(Caller)
=============================================================================
