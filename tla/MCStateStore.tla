---------------------------- MODULE MCStateStore ----------------------------
(***************************************************************************)
(* Two programs and three mutations.                                       *)
(***************************************************************************)
EXTENDS StateStore

CONSTANTS s1, s2, u1, u2, u3
=============================================================================
