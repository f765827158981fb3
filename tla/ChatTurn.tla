------------------------------ MODULE ChatTurn ------------------------------
(***************************************************************************)
(* The life of a prompt in one chat tab, from the input box to a run of    *)
(* the agent: the client's decision to send or to queue, the host's direct *)
(* prompts, the message queue and its dispatch, the single retry, and the  *)
(* gate that decides which runs end in a notification                      *)
(* (core/chat/chat-service.ts, chat-host.ts, turn-notification-gate.ts).   *)
(*                                                                         *)
(* The extension host is one thread: an action is what runs between two    *)
(* awaits. The SDK session is external; it emits its events synchronously, *)
(* so one of its steps and the handler of the event it emits are one       *)
(* action. Every dispatch in flight is a task, suspended at its stage.     *)
(***************************************************************************)
EXTENDS Naturals, Sequences, SequencesExt

CONSTANTS
    Msg,         \* messages a user may type, edited versions included
    Text,        \* texts; two messages may have the same
    TextOf,      \* the text of each message
    CompactText, \* the text "/compact"
    NoText,      \* no retry head; the head of an empty queue
    Task,        \* bound: dispatches in flight
    NoMsg, NoTask, OtherRun,
    Envs,        \* the environments, each with what it may do and the messages typed in it
    MaxFaults    \* bound: failures, compactions and steps nobody typed

EnvKinds == {"hastyUser", "clientLag", "slowAccounting", "queueEdits",
             "prepareFails", "preflightFails", "runFails", "preCompaction", "postCompaction",
             "autoRetry", "compactInRun", "commands", "otherRun", "steering"}

ASSUME MessageAssumption == /\ TextOf \in [Msg -> Text]
                            /\ CompactText \in Text
                            /\ NoText \notin Text
                            /\ NoMsg \notin Msg
                            /\ NoTask \notin Task
                            /\ OtherRun \notin Task \cup {NoTask}
ASSUME BoundAssumption == /\ \A e \in Envs : e.kinds \subseteq EnvKinds /\ e.msgs \subseteq Msg
                          /\ MaxFaults \in Nat

VARIABLES
    env,         \* the environment of the tab, one of Envs
    wire,        \* commands the client has sent and the host has not handled
    queue,       \* tab.queuedMessages
    retryHead,   \* tab.queuedRetryHead
    retryTries,  \* tab.queuedRetryAttempts
    local,       \* tab.isStreamingLocal
    compacting,  \* tab.isCompacting
    task,        \* the dispatches in flight
    armed,       \* gate: the attempt the pending arm belongs to
    gate,        \* gate: run active, started by the user, completion kept
    phase,       \* the SDK session
    runOf,       \* whose prompt the current run is
    accounting,  \* agent_end handlers suspended in their accounting
    transcript,  \* user messages of the session
    fate,        \* history: what became of each message
    arrival,     \* history: messages in the order they entered the queue
    faults       \* bound

queueVars == <<queue, retryHead, retryTries>>
gateVars  == <<armed, gate>>
sdkVars   == <<phase, runOf, accounting, transcript>>
histVars  == <<fate, arrival>>
vars == <<env, wire, queue, retryHead, retryTries, local, compacting, task,
          armed, gate, phase, runOf, accounting, transcript, fate, arrival,
          faults>>

(***************************************************************************)
(* Stages of a dispatch: expanding file mentions; inside session.prompt    *)
(* before its run (possibly compacting first); its run; the promise about  *)
(* to settle; rejected; waiting for a session.compact to start, to end,    *)
(* ended; a retry scheduled as a microtask.                                *)
(***************************************************************************)
Stage == {"free", "augment", "preflight", "preCompact", "running", "returning",
          "rejected", "compactWait", "compact", "compactEnd", "retry"}
Prompting == {"preflight", "preCompact", "running", "returning"}
Reserved  == {"augment", "preflight", "preCompact"}

FreeTask == [stage |-> "free", msg |-> NoMsg, direct |-> FALSE,
             started |-> FALSE]
Phase == {"idle", "running", "ended", "endedCompacting"}
Fate  == {"unsent", "pending", "withdrawn", "refused", "handled"}

IsCompact(m) == TextOf[m] = CompactText
HeadText(q) == IF q = <<>> THEN NoText ELSE TextOf[Head(q)]

isStreaming == phase # "idle"            \* session.isStreaming
SdkRefuses == isStreaming \/ compacting  \* when session.prompt rejects a prompt

\* The host's own test before it starts a direct prompt.
isSessionBusy == isStreaming \/ compacting

Delivered == {transcript[i] : i \in DOMAIN transcript} \cap Msg
TasksIn(stages) == {t \in Task : task[t].stage \in stages}

Init ==
    /\ env \in Envs
    /\ wire = <<>> /\ queue = <<>>
    /\ retryHead = NoText /\ retryTries = 0
    /\ local = FALSE /\ compacting = FALSE
    /\ task = [t \in Task |-> FreeTask]
    /\ armed = NoTask
    /\ gate = [active |-> FALSE, user |-> FALSE, completion |-> FALSE]
    /\ phase = "idle" /\ runOf = NoTask /\ accounting = 0
    /\ transcript = <<>>
    /\ fate = [m \in Msg |-> "unsent"]
    /\ arrival = <<>>
    /\ faults = 0

Move(t, stage) == task' = [task EXCEPT ![t].stage = stage]
Fault(kind) == kind \in env.kinds /\ faults < MaxFaults /\ faults' = faults + 1

----------------------------------------------------------------------------
(***************************************************************************)
(* Dispatching the head of the queue.                                      *)
(***************************************************************************)

\* dispatchNextQueued up to its first await, run by task t on a non-empty
\* queue; base is the task table it starts from. A queued /compact leaves the
\* queue at once, any other head stays until its expansion is ready.
DispatchHead(t, base) ==
    LET head == Head(queue)
        start(stage) == [FreeTask EXCEPT !.stage = stage, !.msg = head] IN
    IF IsCompact(head)
      THEN /\ queue' = Tail(queue)
           /\ retryHead' = NoText /\ retryTries' = 0
           /\ task' = [base EXCEPT ![t] = start("compactWait")]
           /\ fate' = [fate EXCEPT ![head] = "handled"]
      ELSE /\ UNCHANGED <<queue, fate>>
           /\ task' = [base EXCEPT ![t] = start("augment")]
           /\ retryHead' = TextOf[head]
           /\ retryTries' = IF retryHead = TextOf[head] THEN retryTries ELSE 0

\* reserveQueuedDispatch and dispatchNextQueued when "allowed" holds and the
\* queue is not empty; otherwise the tab's streaming flag becomes "flag".
ReserveAndDispatch(allowed, base, flag) ==
    IF allowed /\ queue # <<>>
      THEN /\ local' = TRUE
           /\ \E t \in Task : base[t].stage = "free" /\ DispatchHead(t, base)
      ELSE /\ local' = flag
           /\ task' = base
           /\ UNCHANGED <<queueVars, fate>>

\* applyQueueControl: the queue becomes q; a head that changed forgets the
\* retry of the old one.
ApplyQueueControl(q) ==
    /\ queue' = q
    /\ IF retryHead = HeadText(q)
         THEN UNCHANGED <<retryHead, retryTries>>
         ELSE retryHead' = NoText /\ retryTries' = 0

----------------------------------------------------------------------------
(***************************************************************************)
(* The client and the host's command handlers.                             *)
(***************************************************************************)

\* A direct prompt or /compact that has not begun: the published state is idle.
BeingSent == \/ \E i \in DOMAIN wire : ~wire[i].queued
             \/ \E t \in TasksIn(Reserved \cup {"compactWait"}) : task[t].direct

\* The client sends a message as a prompt when the published state is idle and
\* queues it otherwise; a /compact is sent unless one is already running. Only
\* a "hastyUser" types on while a prompt is being sent.
Submit(m) ==
    /\ fate[m] = "unsent" /\ m \in env.msgs
    /\ IsCompact(m) => ~compacting /\ (isStreaming \/ local => "compactInRun" \in env.kinds)
    /\ LET queued == (local \/ compacting) /\ ~IsCompact(m) IN
       /\ BeingSent => queued \/ "hastyUser" \in env.kinds
       /\ wire' = Append(wire, [queued |-> queued, msg |-> m])
    /\ fate' = [fate EXCEPT ![m] = "pending"]
    /\ UNCHANGED <<queueVars, local, compacting, task, gateVars, sdkVars,
                   arrival, faults>>

Received == Head(wire).msg

QueueReceived ==
    /\ ApplyQueueControl(Append(queue, Received))
    /\ arrival' = Append(arrival, Received)
    /\ UNCHANGED <<task, fate>>

\* dispatchDirectPrompt: /compact goes to the session, a prompt for a busy
\* session is queued, any other is expanded. (Its turn is counted in FileHistory.)
ReceivePrompt ==
    /\ wire # <<>> /\ ~Head(wire).queued /\ ~IsCompact(Received)
    /\ IF isSessionBusy
         THEN QueueReceived
         ELSE /\ \E t \in TasksIn({"free"}) :
                   task' = [task EXCEPT ![t] = [FreeTask EXCEPT
                               !.stage = "augment", !.msg = Received,
                               !.direct = TRUE]]
              /\ UNCHANGED <<queueVars, arrival, fate>>
    /\ wire' = Tail(wire)
    /\ UNCHANGED <<local, compacting, gateVars, sdkVars, faults>>

ReceiveCompact ==
    /\ wire # <<>> /\ ~Head(wire).queued /\ IsCompact(Received)
    /\ \E t \in TasksIn({"free"}) :
         task' = [task EXCEPT ![t] = [FreeTask EXCEPT
                     !.stage = "compactWait", !.msg = Received, !.direct = TRUE]]
    /\ fate' = [fate EXCEPT ![Received] = "handled"]
    /\ wire' = Tail(wire)
    /\ UNCHANGED <<queueVars, local, compacting, gateVars, sdkVars,
                   arrival, faults>>

ReceiveQueue ==
    /\ wire # <<>> /\ Head(wire).queued
    /\ QueueReceived
    /\ wire' = Tail(wire)
    /\ UNCHANGED <<local, compacting, gateVars, sdkVars, faults>>

\* editQueuedMessage: message m takes the place of the i-th one.
EditQueued(i, m) ==
    /\ "queueEdits" \in env.kinds
    /\ fate[m] = "unsent" /\ m \in env.msgs
    /\ LET old == queue[i] IN
       /\ ApplyQueueControl(ReplaceAt(queue, i, m))
       /\ fate' = [fate EXCEPT ![old] = "withdrawn", ![m] = "pending"]
       /\ arrival' = [j \in DOMAIN arrival |->
                        IF arrival[j] = old THEN m ELSE arrival[j]]
    /\ UNCHANGED <<wire, local, compacting, task, gateVars, sdkVars, faults>>

\* removeQueuedMessage
RemoveQueued(i) ==
    /\ "queueEdits" \in env.kinds
    /\ ApplyQueueControl(RemoveAt(queue, i))
    /\ fate' = [fate EXCEPT ![queue[i]] = "withdrawn"]
    /\ UNCHANGED <<wire, local, compacting, task, gateVars, sdkVars,
                   arrival, faults>>

\* cancelQueue
CancelQueue ==
    /\ "queueEdits" \in env.kinds /\ queue # <<>>
    /\ ApplyQueueControl(<<>>)
    /\ fate' = [m \in Msg |-> IF m \in ToSet(queue) THEN "withdrawn" ELSE fate[m]]
    /\ UNCHANGED <<wire, local, compacting, task, gateVars, sdkVars,
                   arrival, faults>>

\* A steering message joins the current run.
Steer ==
    /\ phase = "running" /\ Fault("steering")
    /\ transcript' = Append(transcript, NoMsg)
    /\ UNCHANGED <<wire, queueVars, local, compacting, task, gateVars,
                   phase, runOf, accounting, histVars>>

----------------------------------------------------------------------------
(***************************************************************************)
(* The steps of a dispatch between its awaits.                             *)
(***************************************************************************)

\* A direct prompt is expanded: the gate is armed and session.prompt called.
PromptDirect(t) ==
    /\ task[t].stage = "augment" /\ task[t].direct
    /\ Move(t, "preflight")
    /\ armed' = t
    /\ UNCHANGED <<wire, queueVars, local, compacting, gate, sdkVars,
                   histVars, faults>>

\* The head of the queue is still the text this dispatch works for.
HeadIs(t) == HeadText(queue) = TextOf[task[t].msg]

\* A queued prompt is expanded. If the head is still the text it was expanded
\* from it leaves the queue; if not, the dispatch starts
\* over with the new head, or returns when there is none.
PromptQueued(t) ==
    /\ task[t].stage = "augment" /\ ~task[t].direct
    /\ IF HeadIs(t)
         THEN /\ queue' = Tail(queue)
              /\ task' = [task EXCEPT ![t].stage = "preflight",
                                      ![t].msg = Head(queue)]
              /\ armed' = t
              /\ UNCHANGED <<retryHead, retryTries, fate>>
         ELSE /\ IF queue = <<>>
                   THEN /\ task' = [task EXCEPT ![t] = FreeTask]
                        /\ UNCHANGED <<queueVars, fate>>
                   ELSE DispatchHead(t, task)
              /\ UNCHANGED armed
    /\ UNCHANGED <<wire, local, compacting, gate, sdkVars, arrival, faults>>

\* The expansion throws: a direct prompt is answered with the error, a queued
\* one stays in the queue and the tab is released.
PrepareFails(t) ==
    /\ task[t].stage = "augment" /\ Fault("prepareFails")
    /\ task' = [task EXCEPT ![t] = FreeTask]
    /\ IF task[t].direct
         THEN fate' = [fate EXCEPT ![task[t].msg] = "refused"] /\ UNCHANGED local
         ELSE local' = FALSE /\ UNCHANGED fate
    /\ UNCHANGED <<wire, queueVars, compacting, gateVars, sdkVars,
                   arrival>>

\* Variant for TLC to refute: any arm is taken back.
CancelAnyArm(t) == armed' = NoTask
\* The finally block of _runUserPrompt: an arm of this attempt is taken back.
CancelArm(t) == armed' = IF armed = t THEN NoTask ELSE armed

\* An extension command: session.prompt returns without a run.
CommandHandled(t) ==
    /\ task[t].stage = "preflight" /\ Fault("commands")
    /\ Move(t, "returning")
    /\ fate' = [fate EXCEPT ![task[t].msg] = "handled"]
    /\ UNCHANGED <<wire, queueVars, local, compacting, gateVars, sdkVars,
                   arrival>>

\* session.prompt throws because the session is busy.
PromptRefused(t) ==
    /\ task[t].stage = "preflight" /\ SdkRefuses
    /\ Move(t, "rejected")
    /\ UNCHANGED <<wire, queueVars, local, compacting, gateVars, sdkVars,
                   histVars, faults>>

\* session.prompt throws because its own checks fail, or its run failed.
PromptFails(t) ==
    /\ \/ task[t].stage = "preflight" /\ Fault("preflightFails")
       \/ task[t].stage = "returning" /\ task[t].msg \in Delivered /\ Fault("runFails")
    /\ Move(t, "rejected")
    /\ UNCHANGED <<wire, queueVars, local, compacting, gateVars, sdkVars,
                   histVars>>

DirectRejected(t) ==
    /\ task[t].stage = "rejected" /\ task[t].direct
    /\ CancelArm(t)
    /\ task' = [task EXCEPT ![t] = FreeTask]
    /\ fate' = IF task[t].msg \in Delivered THEN fate
               ELSE [fate EXCEPT ![task[t].msg] = "refused"]
    /\ UNCHANGED <<wire, queueVars, local, compacting, gate, sdkVars,
                   arrival, faults>>

\* Variants for TLC to refute: the text returns though its run began, returns to
\* the end of the queue, or not at all.
queueAfterRejectionAlways(t) == <<task[t].msg>> \o queue
queueAfterRejectionLast(t) == IF task[t].started THEN queue ELSE Append(queue, task[t].msg)
queueAfterRejectionNever(t) == queue
\* The text of a rejected prompt returns to the head of the queue.
queueAfterRejection(t) == IF task[t].started THEN queue ELSE <<task[t].msg>> \o queue

\* Variant for TLC to refute: a tab released though another run may have begun.
releasesTabAlways(t) == TRUE
releasesTab(t) == ~task[t].started /\ ~isStreaming

mayRetry == retryTries < 1

\* The end of a queued dispatch, its text put back or not (the queue is q):
\* unless a run began while its session.prompt was outstanding or one runs now,
\* the tab is released and a head of the same text retried once.
QueuedFinally(t, q) ==
    /\ queue' = q
    /\ local' = IF releasesTab(t) THEN FALSE ELSE local
    /\ IF releasesTab(t) /\ HeadText(q) = TextOf[task[t].msg] /\ mayRetry
         THEN retryTries' = retryTries + 1 /\ Move(t, "retry")
         ELSE UNCHANGED retryTries /\ task' = [task EXCEPT ![t] = FreeTask]
    /\ UNCHANGED retryHead

QueuedRejected(t) ==
    /\ task[t].stage = "rejected" /\ ~task[t].direct
    /\ CancelArm(t)
    /\ QueuedFinally(t, queueAfterRejection(t))
    /\ UNCHANGED <<wire, compacting, gate, sdkVars, histVars, faults>>

\* session.prompt resolves: after the run, or without one for a command.
PromptReturns(t) ==
    /\ task[t].stage = "returning"
    /\ CancelArm(t)
    /\ IF task[t].direct
         THEN task' = [task EXCEPT ![t] = FreeTask] /\ UNCHANGED <<queueVars, local>>
         ELSE QueuedFinally(t, queue)
    /\ UNCHANGED <<wire, compacting, gate, sdkVars, histVars, faults>>

\* The scheduled retry: nothing if the head changed or the session streams.
Retry(t) ==
    /\ task[t].stage = "retry"
    /\ ReserveAndDispatch(HeadIs(t) /\ ~isStreaming,
                          [task EXCEPT ![t] = FreeTask], local)
    /\ UNCHANGED <<wire, compacting, gateVars, sdkVars, arrival, faults>>

\* session.compact of a queued /compact returned or threw: the tab is released
\* and the next head follows.
CompactReturns(t) ==
    /\ task[t].stage = "compactEnd"
    /\ ReserveAndDispatch(~isStreaming, [task EXCEPT ![t] = FreeTask], FALSE)
    /\ UNCHANGED <<wire, compacting, gateVars, sdkVars, arrival, faults>>

----------------------------------------------------------------------------
(***************************************************************************)
(* The SDK session, each step with the handler of the event it emits.      *)
(***************************************************************************)

\* Which terminal events dispatch the queue. Variants for TLC to refute: every
\* event is treated like agent_end; a compaction's end does not count.
dispatchWhenIdle(event, streaming) == ~streaming
dispatchAfterRuns(event, streaming) ==
    CASE event = "agent_end"      -> ~streaming
      [] event = "agent_settled"  -> ~local
      [] event = "compaction_end" -> FALSE
shouldDispatchQueueAfterTerminal(event, streaming) ==
    CASE event = "agent_end"      -> ~streaming
      [] event = "agent_settled"  -> ~local
      [] event = "compaction_end" -> ~local /\ ~streaming

GateOnAgentStart ==
    IF gate.active THEN gate
                   ELSE [gate EXCEPT !.active = TRUE, !.user = (armed # NoTask)]

\* agent_start: the tab streams, the gate takes the pending arm for a new run,
\* and every queued prompt whose session.prompt is outstanding believes that
\* its run began (its watcher listens to any agent_start) and clears the retry.
Watching == {t \in TasksIn(Prompting) : ~task[t].direct}

AgentStarted(base) ==
    /\ local' = TRUE
    /\ gate' = GateOnAgentStart
    /\ armed' = IF gate.active THEN armed ELSE NoTask
    /\ task' = [t \in Task |-> IF t \in Watching
                               THEN [base[t] EXCEPT !.started = TRUE] ELSE base[t]]
    /\ IF Watching # {} THEN retryHead' = NoText /\ retryTries' = 0
                        ELSE UNCHANGED <<retryHead, retryTries>>

\* A run may begin while the previous agent_end is still being accounted for
\* only if the accounting (a network refresh) is slow.
AccountingDone == accounting = 0 \/ "slowAccounting" \in env.kinds

RunBegins(t) ==
    /\ task[t].stage = "preflight" /\ ~SdkRefuses /\ AccountingDone
    /\ phase' = "running" /\ runOf' = t
    /\ transcript' = Append(transcript, task[t].msg)
    /\ AgentStarted([task EXCEPT ![t].stage = "running"])
    /\ UNCHANGED <<wire, queue, compacting, accounting, histVars, faults>>

\* A run nobody typed: an extension sends a user message to the idle session.
OtherRunBegins ==
    /\ Fault("otherRun") /\ ~SdkRefuses /\ AccountingDone
    /\ phase' = "running" /\ runOf' = OtherRun
    /\ transcript' = Append(transcript, NoMsg)
    /\ AgentStarted(task)
    /\ UNCHANGED <<wire, queue, compacting, accounting, histVars>>

\* agent_end up to the await of its accounting.
AgentEnds ==
    /\ phase = "running"
    /\ phase' = "ended"
    /\ gate' = [gate EXCEPT !.completion = gate.completion \/ gate.user]
    /\ accounting' = accounting + 1
    /\ UNCHANGED <<wire, queueVars, local, compacting, task, armed, runOf,
                   transcript, histVars, faults>>

\* The rest of agent_end: the tab stops streaming, and a session that settled
\* meanwhile gets the next queued prompt.
AgentEndCompletes ==
    /\ accounting > 0
    /\ accounting' = accounting - 1
    /\ ReserveAndDispatch(shouldDispatchQueueAfterTerminal("agent_end", isStreaming),
                          task, FALSE)
    /\ UNCHANGED <<wire, compacting, gateVars, phase, runOf, transcript,
                   arrival, faults>>

\* The SDK retries the request inside the run.
AutoRetry ==
    /\ Fault("autoRetry") /\ phase = "ended" /\ AccountingDone
    /\ phase' = "running"
    /\ AgentStarted(task)
    /\ UNCHANGED <<wire, queue, compacting, runOf, accounting, transcript,
                   histVars>>

\* agent_settled: the gate closes the run, the next queued prompt is dispatched
\* unless agent_end has not completed.
Settled ==
    /\ phase = "ended"
    /\ phase' = "idle" /\ runOf' = NoTask
    /\ gate' = [active |-> FALSE, user |-> FALSE, completion |-> FALSE]
    /\ ReserveAndDispatch(shouldDispatchQueueAfterTerminal("agent_settled", FALSE),
                          [t \in Task |-> IF task[t].stage = "running"
                              THEN [task[t] EXCEPT !.stage = "returning"]
                              ELSE task[t]], local)
    /\ UNCHANGED <<wire, compacting, armed, accounting, transcript, arrival,
                   faults>>

\* compaction_start: before a prompt, after a run, or of a /compact, which
\* first waits for the run it aborts.
CompactionBegins ==
    /\ ~compacting /\ compacting' = TRUE
    /\ \/ /\ phase = "ended" /\ Fault("postCompaction")
          /\ phase' = "endedCompacting" /\ UNCHANGED task
       \/ /\ phase = "idle" /\ Fault("preCompaction")
          /\ \E t \in TasksIn({"preflight"}) : Move(t, "preCompact")
          /\ UNCHANGED phase
       \/ /\ phase = "idle"
          /\ \E t \in TasksIn({"compactWait"}) : Move(t, "compact")
          /\ UNCHANGED <<phase, faults>>
    /\ UNCHANGED <<wire, queueVars, local, gateVars, runOf, accounting,
                   transcript, histVars>>

\* Where the compaction that ends leaves the task that waits for it.
AfterCompaction(r) ==
    CASE r.stage = "preCompact" -> [r EXCEPT !.stage = "preflight"]
      [] r.stage = "compact" /\ ~r.direct -> [r EXCEPT !.stage = "compactEnd"]
      [] r.stage = "compact" /\ r.direct -> FreeTask
      [] OTHER -> r

\* compaction_end: the queue is dispatched when neither tab nor session streams.
CompactionEnds ==
    /\ compacting /\ compacting' = FALSE
    /\ phase' = IF phase = "endedCompacting" THEN "ended" ELSE phase
    /\ ReserveAndDispatch(shouldDispatchQueueAfterTerminal("compaction_end", isStreaming),
                          [t \in Task |-> AfterCompaction(task[t])], local)
    /\ UNCHANGED <<wire, gateVars, runOf, accounting, transcript, arrival,
                   faults>>

----------------------------------------------------------------------------
ClientStep ==
    /\ UNCHANGED env
    /\ \/ \E m \in Msg : Submit(m)
       \/ \E i \in DOMAIN queue : RemoveQueued(i) \/ \E m \in Msg : EditQueued(i, m)
       \/ CancelQueue
       \/ Steer

HostReceives == UNCHANGED env /\ (ReceivePrompt \/ ReceiveCompact \/ ReceiveQueue)

TaskStep(t) ==
    /\ UNCHANGED env
    /\ \/ PromptDirect(t) \/ PromptQueued(t) \/ PromptReturns(t) \/ PromptRefused(t)
       \/ DirectRejected(t) \/ QueuedRejected(t) \/ Retry(t) \/ CompactReturns(t)

SdkStep ==
    /\ UNCHANGED env
    /\ \/ \E t \in Task : RunBegins(t)
       \/ AgentEnds \/ AgentEndCompletes \/ Settled
       \/ CompactionBegins \/ CompactionEnds

EnvStep ==
    /\ UNCHANGED env
    /\ \/ OtherRunBegins \/ AutoRetry
       \/ \E t \in Task : PrepareFails(t) \/ PromptFails(t) \/ CommandHandled(t)

\* A retry is a microtask: it runs before any event or message is handled.
RetryPending == TasksIn({"retry"}) # {}
\* Without "clientLag" a command is handled before anything else happens.
Delivering == wire # <<>> /\ "clientLag" \notin env.kinds

Next ==
    IF RetryPending THEN \E t \in TasksIn({"retry"}) : TaskStep(t)
    ELSE IF Delivering THEN HostReceives
    ELSE ClientStep \/ HostReceives \/ EnvStep \/ SdkStep \/ \E t \in Task : TaskStep(t)

Spec == Init /\ [][Next]_vars

\* The event loop runs every handler that is ready, and the SDK every run and
\* compaction it has begun; the client need not act.
Fairness == /\ WF_vars(HostReceives)
            /\ \A t \in Task : WF_vars(TaskStep(t))
            /\ WF_vars(SdkStep)
FairSpec == Spec /\ Fairness

----------------------------------------------------------------------------
(***************************************************************************)
(* Properties.                                                             *)
(***************************************************************************)

\* The shape of the tab's state.
TypeOK ==
    /\ env \in Envs
    /\ wire \in Seq([queued : BOOLEAN, msg : Msg])
    /\ queue \in Seq(Msg)
    /\ retryHead \in Text \cup {NoText} /\ retryTries \in 0..1
    /\ local \in BOOLEAN /\ compacting \in BOOLEAN
    /\ task \in [Task -> [stage : Stage, msg : Msg \cup {NoMsg}, direct : BOOLEAN,
                          started : BOOLEAN]]
    /\ armed \in Task \cup {NoTask}
    /\ gate \in [active : BOOLEAN, user : BOOLEAN, completion : BOOLEAN]
    /\ phase \in Phase /\ runOf \in Task \cup {NoTask, OtherRun}
    /\ accounting \in Nat
    /\ transcript \in Seq(Msg \cup {NoMsg})
    /\ fate \in [Msg -> Fate]
    /\ arrival \in Seq(Msg)
    /\ faults \in Nat

\* Most promises are kept only in a tab where no prompt is sent while another is on
\* its way, and no run, compaction or network call of the SDK comes in between.
Crossings == {"slowAccounting", "preCompaction", "otherRun"}
Overtakings == {"hastyUser", "clientLag"}
Orderly == env.kinds \cap (Crossings \cup Overtakings) = {}

\* Where a message may wait between the input box and its run.
Held(m) ==
    \/ \E i \in DOMAIN wire : wire[i].msg = m
    \/ m \in ToSet(queue)
    \/ \E t \in Task :
         /\ task[t].msg = m
         /\ task[t].stage \in {"augment", "preflight", "preCompact", "rejected"}
         /\ task[t].stage = "augment" => task[t].direct
         /\ task[t].stage = "rejected" => task[t].direct \/ ~task[t].started

\* No message runs twice, and none that ran waits to run again, whatever is
\* rejected, retried or thrown after the run.
NoMessageTwice ==
    /\ \A i, j \in DOMAIN transcript :
         transcript[i] = transcript[j] /\ transcript[i] \in Msg => i = j
    /\ Delivered \cap ToSet(queue) = {}

\* Messages leave the queue in the order they entered it, retries included.
QueueIsFifo == Orderly =>
    \A i, j \in DOMAIN arrival :
        i < j /\ arrival[j] \in Delivered
            => arrival[i] \in Delivered \/ fate[arrival[i]] \in {"withdrawn", "handled"}

\* At most one dispatch owns the tab: the head of the queue is never prepared
\* twice at a time although reserveQueuedDispatch does not look.
OneDispatchAtATime == Orderly =>
    \A t, u \in TasksIn(Reserved) : ~task[t].direct /\ ~task[u].direct => t = u

\* While the agent runs, assertFileHistoryIdle refuses undo, restore and redo.
FileHistoryLockedInRun == Orderly /\ phase = "running" => local

\* A settled run notifies, once, if and only if it was the user's.
NotifiesUserRunsOnly ==
    [][Orderly /\ phase = "ended" /\ phase' = "idle"
        => /\ (gate.user /\ gate.completion) <=> runOf \in Task
           /\ ~gate'.completion]_vars

\* What the tab promises about each message (PromptDelivery): it leaves the
\* waiting state exactly once, as a run, a command, an error or at the user's
\* wish. A message held nowhere is "lost", a state the promise has not.
Delivery == INSTANCE PromptDelivery WITH state <- [m \in Msg |->
    IF ~Orderly THEN "unsent"     \* nothing is promised
    ELSE IF m \in Delivered THEN "run"
    ELSE IF fate[m] # "pending" THEN fate[m]
    ELSE IF Held(m) THEN "waiting" ELSE "lost"]
DeliveryKept == Delivery!FairSpec

\* The safety part of the same promise.
DeliveryKeptSafely == Delivery!Spec
=============================================================================
