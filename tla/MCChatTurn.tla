----------------------------- MODULE MCChatTurn -----------------------------
(***************************************************************************)
(* Message texts and environments for TLC.                                 *)
(***************************************************************************)
EXTENDS ChatTurn, TLC

CONSTANTS m1, m2, m3, m4, a, b

\* Three prompts, two of them with one text; and a /compact.
TwinTexts == (m1 :> a) @@ (m2 :> a) @@ (m3 :> b)
FourTexts == TwinTexts @@ (m4 :> CompactText)
\* Two prompts and a /compact.
CompactTexts == (m1 :> a) @@ (m2 :> b) @@ (m3 :> CompactText)

Often == {"preflightFails", "postCompaction"}
Failing == Often \cup {"queueEdits", "runFails", "prepareFails"}
Retrying == Failing \cup {"autoRetry", "compactInRun"}
\* Four messages where everybody waits their turn, three with commands and
\* steering, three where the user does not wait, and two where nobody does.
FourEnvs == { [kinds |-> Retrying, msgs |-> {m1, m2, m3, m4}],
              [kinds |-> Retrying \cup {"commands", "steering"}, msgs |-> {m1, m3, m4}],
              [kinds |-> Failing \cup Overtakings, msgs |-> {m1, m2, m3}],
              [kinds |-> EnvKinds, msgs |-> {m1, m2}] }
SparseEnv == { [kinds |-> Often, msgs |-> Msg] }
=============================================================================
