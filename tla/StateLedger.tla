---------------------------- MODULE StateLedger ----------------------------
(***************************************************************************)
(* What a shared state file promises to the programs that use it: it takes *)
(* their mutations one at a time, each at most once and only while it is   *)
(* waiting, those of one program in the order they were asked, and loses   *)
(* none that it has taken.                                                 *)
(***************************************************************************)
EXTENDS Naturals, Sequences, SequencesExt

CONSTANTS Client, Mutation

VARIABLES
    ledger,   \* mutations taken, in order; the state is what they make together
    waiting,  \* those asked and not answered, by program and in order
    answer    \* what their programs have been told

vars == <<ledger, waiting, answer>>

Init ==
    /\ ledger = <<>>
    /\ waiting = [c \in Client |-> <<>>]
    /\ answer = [m \in Mutation |-> "unasked"]

Ask(c, m) ==
    /\ answer[m] = "unasked"
    /\ answer' = [answer EXCEPT ![m] = "waiting"]
    /\ waiting' = [waiting EXCEPT ![c] = Append(@, m)]
    /\ UNCHANGED ledger

\* The oldest of a program's mutations is taken.
Take(c) ==
    /\ waiting[c] # <<>> /\ ~Contains(ledger, Head(waiting[c]))
    /\ ledger' = Append(ledger, Head(waiting[c]))
    /\ UNCHANGED <<waiting, answer>>

\* It is answered: "saved" only if it has been taken. A mutation that was taken
\* may be reported as failed.
Answer(c, a) ==
    /\ waiting[c] # <<>>
    /\ a = "saved" => Contains(ledger, Head(waiting[c]))
    /\ answer' = [answer EXCEPT ![Head(waiting[c])] = a]
    /\ waiting' = [waiting EXCEPT ![c] = Tail(@)]
    /\ UNCHANGED ledger

\* A program ends; what it asked for is forgotten.
End(c) ==
    /\ waiting' = [waiting EXCEPT ![c] = <<>>]
    /\ UNCHANGED <<ledger, answer>>

Next ==
    \E c \in Client :
        \/ \E m \in Mutation : Ask(c, m)
        \/ Take(c) \/ End(c)
        \/ Answer(c, "saved") \/ Answer(c, "failed")

Spec == Init /\ [][Next]_vars
=============================================================================
