----------------------------- MODULE MCSessions -----------------------------
(***************************************************************************)
(* A window with its first tab and at most one more. Background runs are   *)
(* followed while there is one tab and no other window.                    *)
(***************************************************************************)
EXTENDS Sessions, TLC

CONSTANTS m0, m1, f1, f2, r1, r2

Accompanied == end[m1] # "unmade" \/ \E f \in File : lock[f] = Other
Sparse == Accompanied => \A r \in Run : run[r] = NotRun
=============================================================================
