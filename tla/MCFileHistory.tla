--------------------------- MODULE MCFileHistory ---------------------------
(***************************************************************************)
(* Two interchangeable files for TLC.                                      *)
(***************************************************************************)
EXTENDS FileHistory, TLC

CONSTANTS f1, f2

Files == Permutations(Path)
=============================================================================
