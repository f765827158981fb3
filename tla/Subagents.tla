------------------------------ MODULE Subagents ------------------------------
(***************************************************************************)
(* Delegated runs from launch to settlement: the queue of each chat, the   *)
(* slots shared by all chats, the creation of the child session, its turns *)
(* and their budget, stops, timeouts, the closing of a chat and the        *)
(* shutdown of the host, and the lease on the shared workspace             *)
(* (pi/subagents/manager.ts, coordinator.ts, write-isolation.ts,           *)
(* pi-child-session.ts).                                                   *)
(*                                                                         *)
(* The host is one thread: an action is what runs between two awaits. A    *)
(* chain of promise reactions with nothing to wait for is one action,      *)
(* except the grant of a slot, whose holder checks for an abort when it    *)
(* resumes. The child's session is external: told to abort while it works  *)
(* it stops after at most one more turn; with no prompt in progress it     *)
(* has nothing to abort.                                                   *)
(***************************************************************************)
EXTENDS Naturals, Sequences, FiniteSets, SequencesExt

CONSTANTS
    Agent,      \* agent ids
    Chat,       \* chats of this window, one manager each
    ChatOf,     \* the chat that launches the agent
    Writer,     \* agents that write in the shared workspace
    NoAgent,
    Limits,     \* the settings of the window: runs per chat, runs in all
    MaxTurns,   \* of each agent: the turn budget of its spec
    MaxFaults   \* bound: failures, resumes, messages to children, disposals

ASSUME AgentAssumption == /\ ChatOf \in [Agent -> Chat]
                          /\ Writer \subseteq Agent
                          /\ NoAgent \notin Agent
ASSUME LimitAssumption == /\ Limits \subseteq [perChat: Nat \ {0}, global: Nat \ {0}]
                          /\ MaxTurns \in [Agent -> Nat \ {0}]
                          /\ MaxFaults \in Nat

\* Bound: no run takes more turns than this.
TurnCap(r) == MaxTurns[r] + 2

VARIABLES
    limits,     \* maxConcurrentRuns of the managers, maxConcurrency
    run,        \* the manager's row, its ActiveRun and its child session
    gate,       \* the queues and the slots
    lease,      \* sharedLeases: the writer of the shared workspace
    manager,    \* of each chat: "open", "closing" or "closed"
    down,       \* the coordinator was disposed
    faults      \* bound

moving == <<run, gate, lease, manager, down, faults>>  \* the settings stay
vars == <<limits, moving>>

(***************************************************************************)
(* Where a run stands: launched and in the queues or just granted a slot;  *)
(* a resume reopening its transcript; its session being created; its       *)
(* prompt in progress or just ended; its child being disposed; settled.    *)
(***************************************************************************)
Stage == {"absent", "scheduled", "opening", "creating", "prompting", "closing", "settled"}
Terminal == {"completed", "cancelled", "failed"}
Status == {"none", "queued", "starting", "running"} \cup Terminal
Reason == {"none", "cancelled", "timeout", "max-turns"}
Completion == {"none", "blank", "result"}
\* What executeRun settles with: "error" is an exception of a callee.
Outcome == {"none", "error"} \cup Terminal

Run == [stage: Stage, status: Status, outcome: Outcome,
        resuming: BOOLEAN, transcript: BOOLEAN,
        aborted: BOOLEAN, reason: Reason, timer: BOOLEAN,
        prompts: 0..2, turning: BOOLEAN, halting: BOOLEAN,
        turns: Nat, warned: BOOLEAN, completion: Completion,
        guided: BOOLEAN,
        extra: Nat,          \* history: turns owed to the parent's guidance
        stopped: BOOLEAN,    \* history: a stop was its last abort before closing
        deaf: BOOLEAN]       \* history: prompted after its abort

Launched(resuming, transcript) ==
    [stage |-> "scheduled", status |-> "queued", outcome |-> "none",
     resuming |-> resuming, transcript |-> transcript,
     aborted |-> FALSE, reason |-> "none", timer |-> FALSE,
     prompts |-> 0, turning |-> FALSE, halting |-> FALSE,
     turns |-> 0, warned |-> FALSE, completion |-> "none",
     guided |-> FALSE, extra |-> 0, stopped |-> FALSE, deaf |-> FALSE]

Absent == [Launched(FALSE, FALSE) EXCEPT !.stage = "absent", !.status = "none"]

Init ==
    /\ limits \in Limits
    /\ run = [r \in Agent |-> Absent]
    /\ gate = [waiting |-> [c \in Chat |-> <<>>], slots |-> [c \in Chat |-> 0],
               queue |-> <<>>, granted |-> {}, active |-> 0]
    /\ lease = NoAgent
    /\ manager = [c \in Chat |-> "open"]
    /\ down = FALSE
    /\ faults = 0

Fault == faults < MaxFaults /\ faults' = faults + 1

At(r, stages) == run[r].stage \in stages
Active(r)  == ~At(r, {"absent", "settled"})      \* activeRuns has it
Waiting(r) == r \in ToSet(gate.waiting[ChatOf[r]])
Queued(r)  == r \in ToSet(gate.queue)
Pending(r) == At(r, {"scheduled"}) /\ (Waiting(r) \/ Queued(r))
Signal(r)  == run[r].aborted \/ down             \* the combined signal

----------------------------------------------------------------------------
(***************************************************************************)
(* The two gates, as functions from gate to gate.                          *)
(***************************************************************************)

\* coordinator.acquire; a coordinator already disposed grants nothing.
Acquire(g, r) ==
    IF down THEN g
    ELSE IF g.active < limits.global
      THEN [g EXCEPT !.active = @ + 1, !.granted = @ \cup {r}]
      ELSE [g EXCEPT !.queue = Append(@, r)]

\* Mutant: the slot is freed and nobody is woken.
ReleaseAlone(g, r) == [g EXCEPT !.active = @ - 1, !.granted = @ \ {r}]

\* coordinator.release: the slot passes to the head of the queue.
Release(g, r) ==
    IF g.queue = <<>>
      THEN [g EXCEPT !.active = @ - 1, !.granted = @ \ {r}]
      ELSE [g EXCEPT !.queue = Tail(@), !.granted = (@ \ {r}) \cup {Head(g.queue)}]

\* pumpParentQueue; one slot at most is free when it runs.
Pump(g, c) ==
    IF g.slots[c] < limits.perChat /\ g.waiting[c] # <<>>
      THEN Acquire([g EXCEPT !.slots[c] = @ + 1, !.waiting[c] = Tail(@)], Head(g.waiting[c]))
      ELSE g

\* The unwinding of both schedule calls when r's operation settles.
Leave(g, r) ==
    LET c == ChatOf[r]
        inner == IF r \in g.granted THEN Release(g, r)
                 ELSE [g EXCEPT !.queue = Remove(@, r)] IN
    IF r \in ToSet(g.waiting[c]) THEN [g EXCEPT !.waiting[c] = Remove(@, r)]
    ELSE Pump([inner EXCEPT !.slots[c] = @ - 1], c)

----------------------------------------------------------------------------
(***************************************************************************)
(* Aborting and settling one run.                                          *)
(***************************************************************************)

\* normalizeFailure and the status it leads to; an abort of the queues that
\* nobody gave a reason for counts as a cancellation.
StatusOf(outcome, reason) ==
    IF outcome \in Terminal THEN outcome
    ELSE IF reason = "cancelled" THEN "cancelled" ELSE "failed"

\* The ActiveRun and the locals of executeRun are gone; of the row, the status
\* and whether there is a transcript are kept.
Ended(x, outcome) ==
    [Launched(FALSE, x.transcript) EXCEPT !.stage = "settled",
                                          !.status = StatusOf(outcome, x.reason)]

Settle(r, outcome) ==
    /\ run' = [run EXCEPT ![r] = Ended(@, outcome)]
    /\ gate' = Leave(gate, r)

\* active.reason, the controller and child.abort().
Abort(x, why) == [x EXCEPT !.aborted = TRUE, !.reason = why, !.halting = @ \/ x.turning]

Cancelled(x) == [Abort(x, "cancelled") EXCEPT !.stopped = @ \/ x.stage # "closing"]

ReleaseLease(r) == lease' = IF lease = r THEN NoAgent ELSE lease

----------------------------------------------------------------------------
(***************************************************************************)
(* Launching and scheduling.                                               *)
(***************************************************************************)

\* persist, launchRun and scheduleParent: into the chat's queue, then pump it.
Launch(r, x) ==
    LET c == ChatOf[r] IN
    /\ manager[c] = "open"
    /\ run' = [run EXCEPT ![r] = x]
    /\ gate' = Pump([gate EXCEPT !.waiting[c] = Append(@, r)], c)
    /\ UNCHANGED <<lease, manager, down>>

\* runForeground and runBackground.
Spawn(r) ==
    /\ At(r, {"absent"})
    /\ Launch(r, Launched(FALSE, FALSE))
    /\ UNCHANGED faults

\* resumeForeground of a run the manager still has in memory.
Resume(r) ==
    /\ At(r, {"settled"}) /\ run[r].transcript
    /\ Launch(r, Launched(TRUE, TRUE))
    /\ Fault

\* Mutant: the owner of the lease is not looked at.

TakeLeaseShared(r) ==
    /\ lease' = IF r \in Writer THEN r ELSE lease
    /\ run' = [run EXCEPT ![r].stage = "creating", ![r].status = "starting"]
    /\ UNCHANGED gate

\* prepare, then the creation of the session begins. A lease held by another
\* agent fails the run.
TakeLease(r) ==
    IF r \in Writer /\ lease \notin {NoAgent, r}
      THEN /\ Settle(r, "error")
           /\ UNCHANGED lease
      ELSE /\ lease' = IF r \in Writer THEN r ELSE lease
           /\ run' = [run EXCEPT ![r].stage = "creating", ![r].status = "starting"]
           /\ UNCHANGED gate

\* schedule resumes with its slot: a run aborted since then does not begin.
Start(r) ==
    /\ At(r, {"scheduled"}) /\ r \in gate.granted
    /\ \/ /\ Signal(r)
          /\ Settle(r, "cancelled")
          /\ UNCHANGED lease
       \/ /\ ~Signal(r) /\ run[r].resuming
          /\ run' = [run EXCEPT ![r].stage = "opening", ![r].status = "starting"]
          /\ UNCHANGED <<gate, lease>>
       \/ /\ ~Signal(r) /\ ~run[r].resuming
          /\ TakeLease(r)
    /\ UNCHANGED <<manager, down, faults>>

\* schedule on a disposed coordinator, and a queue entry it rejected.
Refuse(r) ==
    /\ At(r, {"scheduled"}) /\ ~Pending(r) /\ r \notin gate.granted
    /\ Settle(r, "cancelled")
    /\ UNCHANGED <<lease, manager, down, faults>>

----------------------------------------------------------------------------
(***************************************************************************)
(* The child's session.                                                    *)
(***************************************************************************)

\* A resume has imported the SDK and found the transcript, or not.
Open(r) ==
    /\ At(r, {"opening"})
    /\ TakeLease(r)
    /\ UNCHANGED <<manager, down, faults>>

OpenFails(r) ==
    /\ At(r, {"opening"}) /\ Fault
    /\ Settle(r, "error")
    /\ UNCHANGED <<lease, manager, down>>

\* The transcript's lock is refused, the model is gone, the SDK fails.
CreateFails(r) ==
    /\ At(r, {"creating"}) /\ Fault
    /\ ReleaseLease(r)
    /\ Settle(r, "error")
    /\ UNCHANGED <<manager, down>>

Prompted(x, deaf) ==
    [x EXCEPT !.stage = "prompting", !.status = "running", !.transcript = TRUE,
              !.timer = TRUE, !.prompts = 1, !.turning = TRUE, !.deaf = deaf]

\* The handle arrives: timer, then the task, whatever became of the signal.
Created(r) ==
    /\ At(r, {"creating"})
    /\ run' = [run EXCEPT ![r] = Prompted(@, Signal(r))]
    /\ UNCHANGED <<gate, lease, manager, down, faults>>

\* The finally of executeRun: the timer is cleared, the events are over.
Closing(x, outcome) ==
    [Launched(FALSE, x.transcript) EXCEPT
        !.stage = "closing", !.status = x.status, !.outcome = outcome,
        !.reason = x.reason, !.completion = x.completion, !.stopped = x.stopped]

\* session.prompt rejects: the first before any turn, the second with nothing
\* delivered yet.
PromptRejects(r) ==
    /\ At(r, {"prompting"}) /\ run[r].turning /\ Fault
    /\ run[r].turns = 0 \/ (run[r].prompts = 2 /\ run[r].completion = "none")
    /\ run' = [run EXCEPT ![r] = Closing(@, "error")]
    /\ UNCHANGED <<gate, lease, manager, down>>

\* Mutants: the abort is not looked at; the budget is one turn longer; the
\* warning comes with the last turn.
TurnEndedUnlessDelivered(r, x, calls) ==
    LET turns == x.turns + 1
        live == x.completion = "none" /\ calls
        cut == live /\ turns >= MaxTurns[r]
        y == IF cut THEN Abort(x, "max-turns") ELSE x IN
    [y EXCEPT !.turns = turns, !.warned = @ \/ (live /\ MaxTurns[r] - turns = 1)]

TurnEndedLate(r, x, calls) ==
    LET turns == x.turns + 1
        live == x.completion = "none" /\ calls /\ ~Signal(r)
        y == IF live /\ turns > MaxTurns[r] THEN Abort(x, "max-turns") ELSE x IN
    [y EXCEPT !.turns = turns, !.warned = @ \/ (live /\ MaxTurns[r] - turns = 1)]

\* The manager's handler of turn-ended: warn one turn before the end of the
\* budget, cut when it is spent, neither once the child has delivered.
TurnEnded(r, x, calls) ==
    LET turns == x.turns + 1
        live == x.completion = "none" /\ calls /\ ~Signal(r)
        cut == live /\ turns >= MaxTurns[r]
        y == IF cut THEN Abort(x, "max-turns") ELSE x IN
    [y EXCEPT !.turns = turns, !.warned = @ \/ (live /\ MaxTurns[r] - turns = 1)]

Turned(x, calls, delivers, goesOn) ==
    [x EXCEPT !.completion = IF delivers = "none" THEN @ ELSE delivers,
              !.turning = goesOn,
              !.guided = @ /\ ~goesOn,
              !.extra = IF goesOn /\ ~calls THEN @ + 1 ELSE @]

\* One turn of a working child. Tool calls ask for another turn, unless one of
\* them was complete_subagent and ends the prompt; so does guidance that came.
Turn(r) ==
    LET x == run[r] IN
    /\ At(r, {"prompting"}) /\ x.turning /\ ~x.halting
    /\ x.turns < TurnCap(r)
    /\ \E calls \in BOOLEAN, delivers \in Completion, goesOn \in BOOLEAN :
         /\ delivers # "none" => calls
         /\ delivers = "none" => (goesOn <=> calls \/ x.guided)
         /\ IF delivers = "blank" THEN Fault ELSE UNCHANGED faults
         /\ run' = [run EXCEPT ![r] = TurnEnded(r, Turned(x, calls, delivers, goesOn), calls)]
    /\ UNCHANGED <<gate, lease, manager, down>>

Halted(x, delivers) ==
    [x EXCEPT !.completion = IF delivers = "none" THEN @ ELSE delivers,
              !.turning = FALSE, !.halting = FALSE]

\* An aborted child stops, its last turn may still land.
Halt(r) ==
    LET x == run[r] IN
    /\ At(r, {"prompting"}) /\ x.turning /\ x.halting
    /\ \/ /\ x.turns = TurnCap(r)
          /\ run' = [run EXCEPT ![r] = Halted(x, "none")]
          /\ UNCHANGED faults
       \/ /\ x.turns < TurnCap(r)
          /\ \E delivers \in Completion :
               /\ IF delivers = "blank" THEN Fault ELSE UNCHANGED faults
               /\ run' = [run EXCEPT ![r] = TurnEnded(r, Halted(x, delivers), TRUE)]
    /\ UNCHANGED <<gate, lease, manager, down>>

\* abortFailure, by the reason of the abort.
AbortOutcome(x) == IF x.reason \in {"none", "cancelled"} THEN "cancelled" ELSE "failed"

Completed(x) == [Closing(x, "completed") EXCEPT !.status = "completed"]

\* Mutant: the abort counts before the completion.
PromptResultAbortFirst(r, x, text) ==
    IF Signal(r) THEN Closing(x, AbortOutcome(x))
    ELSE IF x.completion = "result" THEN Completed(x)
    ELSE IF x.completion = "blank" \/ x.prompts = 2 THEN Closing(x, "failed")
    ELSE [x EXCEPT !.prompts = 2, !.turning = TRUE]

\* What executeRun makes of a prompt that has returned: the completion counts
\* before the abort, a spent budget before the second prompt.
PromptResult(r, x, text) ==
    IF x.completion = "result" THEN Completed(x)
    ELSE IF x.completion = "blank" THEN Closing(x, "failed")
    ELSE IF Signal(r) THEN Closing(x, AbortOutcome(x))
    ELSE IF x.prompts = 2 THEN Closing(x, "failed")
    ELSE IF x.turns >= MaxTurns[r]
      THEN IF text THEN Completed(x)
           ELSE [Closing(x, "failed") EXCEPT !.reason = "max-turns"]
    ELSE [x EXCEPT !.prompts = 2, !.turning = TRUE]

PromptReturns(r) ==
    /\ At(r, {"prompting"}) /\ ~run[r].turning
    /\ \E text \in BOOLEAN : run' = [run EXCEPT ![r] = PromptResult(r, @, text)]
    /\ UNCHANGED <<gate, lease, manager, down, faults>>

\* child.dispose() ends, by an exception perhaps, and the run settles; a run
\* the handle's cleanup fails has failed.
Close(r) ==
    /\ At(r, {"closing"})
    /\ ReleaseLease(r)
    /\ \/ Settle(r, run[r].outcome) /\ UNCHANGED faults
       \/ Settle(r, "error") /\ Fault
    /\ UNCHANGED <<manager, down>>

----------------------------------------------------------------------------
(***************************************************************************)
(* What reaches a run from outside.                                        *)
(***************************************************************************)

\* stop, and the abort of the parent's turn where it is the first abort.
Stop(r) ==
    /\ Active(r)
    /\ IF Pending(r)
         THEN /\ run' = [run EXCEPT ![r] = Ended(Cancelled(@), "cancelled")]
              /\ gate' = Leave(gate, r)
         ELSE /\ run' = [run EXCEPT ![r] = Cancelled(@)]
              /\ UNCHANGED gate
    /\ UNCHANGED <<lease, manager, down, faults>>

Unheard(x) == [Cancelled(x) EXCEPT !.halting = x.halting]

\* The parent's turn is aborted after another abort: the signals fire once and
\* nobody calls child.abort(), so that only the reason changes.
ParentAborts(r) ==
    /\ Active(r) /\ ~Pending(r) /\ Signal(r)
    /\ run' = [run EXCEPT ![r] = Unheard(@)]
    /\ UNCHANGED <<gate, lease, manager, down, faults>>

TimedOut(x) == [Abort(x, "timeout") EXCEPT !.timer = FALSE, !.stopped = FALSE]

\* Mutant: the timer aborts the signal and not the child.
TimeOutSignalOnly(r) ==
    /\ At(r, {"prompting"}) /\ run[r].timer
    /\ run' = [run EXCEPT ![r] = [@ EXCEPT !.aborted = TRUE, !.reason = "timeout", !.timer = FALSE,
                                           !.halting = @ \/ (run[r].turning /\ ~Signal(r)),
                                           !.stopped = FALSE]]
    /\ UNCHANGED <<gate, lease, manager, down, faults>>

\* The timer of timeoutMinutes; a later reason replaces an earlier one.
TimeOut(r) ==
    /\ At(r, {"prompting"}) /\ run[r].timer
    /\ run' = [run EXCEPT ![r] = TimedOut(@)]
    /\ UNCHANGED <<gate, lease, manager, down, faults>>

\* steer: guidance for the child's next turn.
Steer(r) ==
    /\ At(r, {"prompting"}) /\ Fault
    /\ run' = [run EXCEPT ![r].guided = TRUE]
    /\ UNCHANGED <<gate, lease, manager, down>>

InChat(c, r) == ChatOf[r] = c

\* The manager's dispose: cancel what is active, then wait for it.
CloseChat(c) ==
    LET gone == {r \in Agent : InChat(c, r) /\ Pending(r)} IN
    /\ manager[c] = "open" /\ Fault
    /\ manager' = [manager EXCEPT ![c] = "closing"]
    /\ run' = [r \in Agent |->
                 IF ~InChat(c, r) \/ ~Active(r) THEN run[r]
                 ELSE IF r \in gone THEN Ended(Cancelled(run[r]), "cancelled")
                 ELSE Cancelled(run[r])]
    /\ gate' = [gate EXCEPT !.waiting[c] = <<>>,
                            !.queue = SelectSeq(@, LAMBDA r : ~InChat(c, r)),
                            !.slots[c] = @ - Cardinality({r \in gone : Queued(r)})]
    /\ UNCHANGED <<lease, down>>

CloseEnds(c) ==
    /\ manager[c] = "closing"
    /\ \A r \in Agent : InChat(c, r) => ~Active(r)
    /\ manager' = [manager EXCEPT ![c] = "closed"]
    /\ UNCHANGED <<run, gate, lease, down, faults>>

ShutOut(x) == [x EXCEPT !.halting = @ \/ (x.turning /\ ~x.aborted)]

\* The coordinator's dispose: every combined signal aborts, the queue is
\* rejected. A session aborts once: an earlier abort has used the listener.
Shutdown ==
    /\ ~down /\ Fault
    /\ down' = TRUE
    /\ run' = [r \in Agent |-> ShutOut(run[r])]
    /\ gate' = [gate EXCEPT !.queue = <<>>]
    /\ UNCHANGED <<lease, manager>>

----------------------------------------------------------------------------
Settles(r) ==
    \/ Start(r) \/ Refuse(r) \/ Open(r) \/ Created(r)
    \/ Halt(r) \/ PromptReturns(r) \/ Close(r)

Next ==
    /\ \/ \E r \in Agent :
            \/ Spawn(r) \/ Resume(r)
            \/ Start(r) \/ Refuse(r) \/ Open(r) \/ OpenFails(r)
            \/ Created(r) \/ CreateFails(r)
            \/ PromptRejects(r) \/ Turn(r) \/ Halt(r) \/ PromptReturns(r)
            \/ Close(r)
            \/ Stop(r) \/ ParentAborts(r) \/ TimeOut(r) \/ Steer(r)
       \/ \E c \in Chat : CloseChat(c) \/ CloseEnds(c)
       \/ Shutdown
    /\ UNCHANGED limits

\* Promises are resumed, sessions get created and disposed, an aborted child
\* stops and timers fire. Nobody has to stop anything, and a child may work
\* for as long as it likes.
Fairness ==
    /\ \A r \in Agent : WF_moving(Settles(r)) /\ WF_moving(TimeOut(r))
    /\ \A c \in Chat : WF_moving(CloseEnds(c))

Spec == Init /\ [][Next]_vars
LiveSpec == Spec /\ Fairness

----------------------------------------------------------------------------
(***************************************************************************)
(* Properties.                                                             *)
(***************************************************************************)

\* The rows, the holder of the lease and the managers' states.
TypeOK ==
    /\ limits \in Limits
    /\ run \in [Agent -> Run]
    /\ lease \in Writer \cup {NoAgent}
    /\ manager \in [Chat -> {"open", "closing", "closed"}]
    /\ down \in BOOLEAN
    /\ faults \in Nat

HasChild == {"creating", "prompting", "closing"}

\* The lease of the shared workspace: a writing child exists only while it
\* holds the lease, so that two never write at once, and no run that is over
\* keeps it (prepare, the release in create and resume, the handle's cleanup).
WritersExclude ==
    /\ \A r \in Writer : At(r, HasChild) => lease = r
    /\ lease # NoAgent => At(lease, HasChild)

\* A child that has delivered its result is not failed by a stop, a timeout
\* or a spent budget that arrives before the manager has read it; only the
\* disposal of the child can still fail it.
DeliveredWins ==
    [][\A r \in Agent :
         run[r].completion = "result" /\ run'[r].stage = "settled" /\ faults' = faults
         => run'[r].status = "completed"]_vars

\* A run whose last abort before it began to close was a stop is reported
\* cancelled, or completed if its result came first, and never as failed,
\* whatever fails on the way; a blank result is a failure all the same.
StopHonoured ==
    [][\A r \in Agent :
         run[r].stopped /\ run[r].completion # "blank" /\ run'[r].stage = "settled"
         => run'[r].status \in {"cancelled", "completed"}]_vars

\* A child takes its budget and the one turn that lands after the abort, and
\* a turn more for each message that kept it going; except a child that was
\* prompted after its abort and one that has delivered and goes on.
BudgetRespected ==
    \A r \in Agent :
        \/ run[r].turns <= MaxTurns[r] + 1 + run[r].extra
        \/ run[r].deaf
        \/ run[r].completion # "none"

\* Every launched run settles, with no help from the user: a waiting run gets
\* its slots, a child that never stops is ended by its timer.
RunsSettle == \A r \in Agent : Active(r) ~> ~Active(r)

\* And so the closing of a chat, which waits for its runs, ends.
ClosingEnds == \A c \in Chat : manager[c] = "closing" ~> manager[c] = "closed"
=============================================================================
