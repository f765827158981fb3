----------------------------- MODULE MCSubagents -----------------------------
(***************************************************************************)
(* Two writers in two chats, with a slot for each or one for both: they    *)
(* meet at the lease or in the coordinator's queue.                        *)
(* Or three agents on a single slot, so that both queues fill: left        *)
(* launches the writers w1 and w2, right the reader r1.                    *)
(***************************************************************************)
EXTENDS Subagents, TLC

CONSTANTS w1, w2, r1, left, right

Apart == [r \in Agent |-> IF r = w1 THEN left ELSE right]
PairLimits == {[perChat |-> 2, global |-> n] : n \in 1..2}
PairTurns == [r \in Agent |-> IF r = w1 THEN 1 ELSE 2]

TwoChats == [r \in Agent |-> IF r = r1 THEN right ELSE left]
SoleLimits == {[perChat |-> 1, global |-> 1]}
TrioTurns == [r \in Agent |-> IF r = r1 THEN 2 ELSE 1]
=============================================================================
