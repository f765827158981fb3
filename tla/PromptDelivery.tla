--------------------------- MODULE PromptDelivery ---------------------------
(***************************************************************************)
(* What a chat tab promises about the messages the user sends: each one    *)
(* waits until it becomes the prompt of exactly one run (or, if it is a    *)
(* command, is handled without one), unless the user withdraws it first or the    *)
(* tab answers it with an error. Nothing disappears and nothing runs twice.*)
(***************************************************************************)
CONSTANT Msg
VARIABLE state

State == {"unsent", "waiting", "run", "handled", "withdrawn", "refused"}
Final == {"run", "handled", "withdrawn", "refused"}

Init == state = [m \in Msg |-> "unsent"]

Send(m) == /\ state[m] = "unsent"
           /\ state' = [state EXCEPT ![m] = "waiting"]

\* The message becomes a run, is handled as a command, or answered with an error.
Leave(m) == /\ state[m] = "waiting"
            /\ \E s \in Final \ {"withdrawn"} : state' = [state EXCEPT ![m] = s]

\* The user removes some waiting messages, or replaces one by a new version.
Withdraw(S) == /\ \A m \in S : state[m] = "waiting"
               /\ state' = [m \in Msg |-> IF m \in S THEN "withdrawn" ELSE state[m]]

Replace(m, new) == /\ state[m] = "waiting" /\ state[new] = "unsent"
                   /\ state' = [state EXCEPT ![m] = "withdrawn", ![new] = "waiting"]

Next == \/ \E m \in Msg : Send(m) \/ Leave(m)
        \/ \E S \in SUBSET Msg : Withdraw(S)
        \/ \E m, new \in Msg : Replace(m, new)

Spec == Init /\ [][Next]_state

\* A waiting message is not forgotten: it leaves, or the user takes it back.
FairSpec == Spec /\ \A m \in Msg : (state[m] = "waiting") ~> (state[m] \in Final)
=============================================================================
