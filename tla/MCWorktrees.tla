----------------------------- MODULE MCWorktrees -----------------------------
(***************************************************************************)
(* A file of HEAD and a new one; two calls at a time. The third run, which *)
(* may find what a removal and a run before it left, is followed where     *)
(* nothing is applied and no call is under way.                            *)
(***************************************************************************)
EXTENDS Worktrees, TLC

CONSTANTS f1, f2, c1, c2

Calls == Permutations(Call)
Sparse == launches = 3 => applied = {} /\ \A c \in Call : call[c] = Free
=============================================================================
