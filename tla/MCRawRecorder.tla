---------------------------- MODULE MCRawRecorder ----------------------------
(***************************************************************************)
(* Two tabs and two sessions, one of which may be opened twice.            *)
(***************************************************************************)
EXTENDS RawRecorder, FiniteSets, TLC

CONSTANTS t1, t2, p1, p2, r1, r2, r3

Alike == Permutations(Path) \cup Permutations(Recorder)

MadeBy(t) == {r \in Recorder : owner[r] = t}

\* The second tab comes later and opens one session; the first opens two, and
\* leaves the second; not everything happens in one behaviour.
Sparse == /\ MadeBy(t1) = {} => stage[t2] = "none"
          /\ MadeBy(t2) # {} => stage[t2] # "locking"
          /\ Cardinality(MadeBy(t1)) = 2 => stage[t1] # "retiring"
          /\ faults = 0 \/ wipes = 0 \/ entries <= 1
=============================================================================
