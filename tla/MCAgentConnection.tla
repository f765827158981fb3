------------------------- MODULE MCAgentConnection -------------------------
(***************************************************************************)
(* Two webviews that may overlap, as when a page is loaded again.  They    *)
(* are alike, so the order of their first loads is fixed; a page is        *)
(* followed through its second question for the first state only while it  *)
(* is the only one.  MaxWire messages are under way to the pages: what a   *)
(* first page is handed, its state and the answer.                         *)
(***************************************************************************)
EXTENDS AgentConnection

CONSTANTS c1, c2, MaxWire

PagesInOrder == /\ life[c1] = "unborn" => life[c2] = "unborn"
                /\ life[c2] # "unborn" => \A c \in Client : attempts[c] <= 1
                /\ Len(toClient) <= MaxWire
=============================================================================
