--------------------------- MODULE MCSessionLock ---------------------------
(***************************************************************************)
(* Two openers on one machine, each in a process of its own.               *)
(***************************************************************************)
EXTENDS SessionLock, TLC

CONSTANTS c1, c2, p1, p2, h1

PairProcOf == (c1 :> p1) @@ (c2 :> p2)
PairHostOf == (p1 :> h1) @@ (p2 :> h1)
=============================================================================
