--------------------------- MODULE ChatTurnProofs ---------------------------
(***************************************************************************)
(* Proofs about a chat tab's prompts and its queue, for every set of       *)
(* messages and texts, every number of dispatches in flight, all           *)
(* environments and every number of faults.                                *)
(***************************************************************************)
EXTENDS ChatTurn, SequenceTheorems, TLAPS

----------------------------------------------------------------------------
(***************************************************************************)
(* Types.                                                                  *)
(***************************************************************************)
Row == [stage : Stage, msg : Msg \cup {NoMsg}, direct : BOOLEAN, started : BOOLEAN]

\* A dispatch in flight has its message.
Busy(T) == \A t \in Task : T[t].stage # "free" => T[t].msg \in Msg
Typed == TypeOK /\ Busy(task)

LEMMA FreeRow == FreeTask \in Row /\ FreeTask.stage = "free"
  BY DEF FreeTask, Row, Stage

LEMMA Started ==
    ASSUME NEW s \in Stage, NEW m \in Msg, NEW b \in BOOLEAN
    PROVE  /\ [FreeTask EXCEPT !.stage = s, !.msg = m, !.direct = b] \in Row
           /\ [FreeTask EXCEPT !.stage = s, !.msg = m] \in Row
  BY DEF FreeTask, Row

LEMMA Moved ==
    ASSUME NEW r \in Row, NEW s \in Stage
    PROVE  [r EXCEPT !.stage = s] \in Row
  BY DEF Row

LEMMA TextType == ASSUME NEW m \in Msg PROVE TextOf[m] \in Text
  BY MessageAssumption

LEMMA HeadTextType ==
    ASSUME NEW q \in Seq(Msg) PROVE HeadText(q) \in Text \cup {NoText}
<1>1. q # <<>> => Head(q) \in Msg
  BY HeadTailProperties
<1>2. QED
  BY <1>1, TextType DEF HeadText

LEMMA TailType ==
    ASSUME NEW S, NEW q \in Seq(S), q # <<>>
    PROVE  Tail(q) \in Seq(S) /\ Head(q) \in S
  BY HeadTailProperties

\* Changes of one row.
LEMMA RowType ==
    ASSUME NEW T \in [Task -> Row], Busy(T), NEW t \in Task, NEW r \in Row,
           r.stage # "free" => r.msg \in Msg
    PROVE  [T EXCEPT ![t] = r] \in [Task -> Row] /\ Busy([T EXCEPT ![t] = r])
  BY DEF Busy

LEMMA StageType ==
    ASSUME NEW T \in [Task -> Row], Busy(T), NEW t \in Task, NEW s \in Stage,
           T[t].stage # "free"
    PROVE  /\ [T EXCEPT ![t].stage = s] \in [Task -> Row]
           /\ Busy([T EXCEPT ![t].stage = s])
<1>1. [T[t] EXCEPT !.stage = s] \in Row /\ [T[t] EXCEPT !.stage = s].msg \in Msg
  BY Moved DEF Busy, Row
<1>2. [T EXCEPT ![t].stage = s] = [T EXCEPT ![t] = [T[t] EXCEPT !.stage = s]]
  OBVIOUS
<1>3. QED
  BY <1>1, <1>2, RowType

LEMMA DispatchType ==
    ASSUME Typed, NEW base \in [Task -> Row], Busy(base), NEW t \in Task,
           queue # <<>>, DispatchHead(t, base)
    PROVE  /\ queue' \in Seq(Msg) /\ fate' \in [Msg -> Fate]
           /\ retryHead' \in Text \cup {NoText} /\ retryTries' \in 0..1
           /\ task' \in [Task -> Row] /\ Busy(task')
<1> DEFINE head == Head(queue)
           start(s) == [FreeTask EXCEPT !.stage = s, !.msg = head]
<1>1. head \in Msg /\ Tail(queue) \in Seq(Msg) /\ TextOf[head] \in Text
  BY TailType, TextType DEF Typed, TypeOK
<1>2. ASSUME NEW s \in {"compactWait", "augment"}
      PROVE  [base EXCEPT ![t] = start(s)] \in [Task -> Row] /\ Busy([base EXCEPT ![t] = start(s)])
  <2>1. s \in Stage
    BY DEF Stage
  <2>2. start(s) \in Row
    BY <1>1, <2>1, Started
  <2>3. start(s).msg = head
    BY DEF FreeTask
  <2>4. QED
    BY <2>2, <2>3, <1>1, RowType
<1>3. /\ queue \in Seq(Msg) /\ fate \in [Msg -> Fate]
      /\ retryHead \in Text \cup {NoText} /\ retryTries \in 0..1
  BY DEF Typed, TypeOK
<1>4. CASE IsCompact(head)
  <2>1. task' = [base EXCEPT ![t] = start("compactWait")]
    BY <1>4 DEF DispatchHead
  <2>2. task' \in [Task -> Row] /\ Busy(task')
    BY <2>1, <1>2
  <2>3. QED
    BY <1>1, <1>3, <1>4, <2>2, SMTT(30) DEF DispatchHead, Fate
<1>5. CASE ~IsCompact(head)
  <2>1. task' = [base EXCEPT ![t] = start("augment")]
    BY <1>5 DEF DispatchHead
  <2>2. task' \in [Task -> Row] /\ Busy(task')
    BY <2>1, <1>2
  <2>3. retryTries' \in 0..1 /\ retryHead' \in Text \cup {NoText}
    BY <1>1, <1>3, <1>5 DEF DispatchHead
  <2>4. QED
    BY <1>3, <1>5, <2>2, <2>3 DEF DispatchHead
<1>6. QED
  BY <1>4, <1>5

LEMMA ReserveType ==
    ASSUME Typed, NEW base \in [Task -> Row], Busy(base), NEW allowed \in BOOLEAN,
           NEW flag \in BOOLEAN, ReserveAndDispatch(allowed, base, flag)
    PROVE  /\ queue' \in Seq(Msg) /\ fate' \in [Msg -> Fate]
           /\ retryHead' \in Text \cup {NoText} /\ retryTries' \in 0..1
           /\ task' \in [Task -> Row] /\ Busy(task') /\ local' \in BOOLEAN
<1>1. CASE allowed /\ queue # <<>>
  BY <1>1, DispatchType DEF ReserveAndDispatch
<1>2. CASE ~(allowed /\ queue # <<>>)
  BY <1>2 DEF ReserveAndDispatch, Typed, TypeOK, queueVars
<1>3. QED
  BY <1>1, <1>2

LEMMA ControlType ==
    ASSUME Typed, NEW q \in Seq(Msg), ApplyQueueControl(q)
    PROVE  /\ queue' \in Seq(Msg)
           /\ retryHead' \in Text \cup {NoText} /\ retryTries' \in 0..1
  BY DEF ApplyQueueControl, Typed, TypeOK

LEMMA CutType ==
    ASSUME NEW S, NEW q \in Seq(S), NEW i \in DOMAIN q PROVE RemoveAt(q, i) \in Seq(S)
<1>1. SubSeq(q, 1, i - 1) \in Seq(S)
  BY SubSeqProperties
<1>2. SubSeq(q, i + 1, Len(q)) \in Seq(S)
  BY SubSeqProperties
<1>3. QED
  BY <1>1, <1>2, ConcatProperties DEF RemoveAt

\* The tasks after an agent_start.
LEMMA WatchedType ==
    ASSUME NEW base \in [Task -> Row], Busy(base), NEW W, NEW T,
           T = [t \in Task |-> IF t \in W THEN [base[t] EXCEPT !.started = TRUE] ELSE base[t]]
    PROVE  T \in [Task -> Row] /\ Busy(T)
<1>1. ASSUME NEW t \in Task
      PROVE  [base[t] EXCEPT !.started = TRUE] \in Row /\ base[t] \in Row
  BY DEF Row
<1>2. \A t \in Task : T[t].stage = base[t].stage /\ T[t].msg = base[t].msg
  BY DEF Row
<1>3. QED
  BY <1>1, <1>2 DEF Busy

\* What the tasks and the gate are after an agent_start.
LEMMA AgentStartType ==
    ASSUME Typed, NEW base \in [Task -> Row], Busy(base), AgentStarted(base)
    PROVE  /\ local' \in BOOLEAN /\ armed' \in Task \cup {NoTask}
           /\ gate' \in [active : BOOLEAN, user : BOOLEAN, completion : BOOLEAN]
           /\ retryHead' \in Text \cup {NoText} /\ retryTries' \in 0..1
           /\ task' \in [Task -> Row] /\ Busy(task')
<1>1. task' \in [Task -> Row] /\ Busy(task')
  BY WatchedType DEF AgentStarted
<1>2. retryHead' \in Text \cup {NoText} /\ retryTries' \in 0..1
  BY DEF AgentStarted, Typed, TypeOK
<1>3. gate' \in [active : BOOLEAN, user : BOOLEAN, completion : BOOLEAN]
  BY DEF AgentStarted, GateOnAgentStart, Typed, TypeOK
<1>4. QED
  BY <1>1, <1>2, <1>3 DEF AgentStarted, Typed, TypeOK

LEMMA FinallyType ==
    ASSUME Typed, NEW t \in Task, task[t].stage # "free", NEW q \in Seq(Msg),
           QueuedFinally(t, q)
    PROVE  /\ queue' \in Seq(Msg) /\ local' \in BOOLEAN
           /\ retryHead' \in Text \cup {NoText} /\ retryTries' \in 0..1
           /\ task' \in [Task -> Row] /\ Busy(task')
<1>1. task \in [Task -> Row] /\ Busy(task)
  BY DEF Typed, TypeOK, Row
<1>2. /\ [task EXCEPT ![t] = FreeTask] \in [Task -> Row]
      /\ Busy([task EXCEPT ![t] = FreeTask])
  BY <1>1, FreeRow, RowType
<1>3. /\ [task EXCEPT ![t].stage = "retry"] \in [Task -> Row]
      /\ Busy([task EXCEPT ![t].stage = "retry"])
  BY <1>1, StageType DEF Stage
<1>4. task' \in [Task -> Row] /\ Busy(task')
  BY <1>2, <1>3 DEF QueuedFinally, Move
<1>5. retryTries' \in 0..1
  BY DEF QueuedFinally, Typed, TypeOK, mayRetry
<1>6. QED
  BY <1>4, <1>5 DEF QueuedFinally, Typed, TypeOK

LEMMA SettledRows ==
    ASSUME NEW T \in [Task -> Row], Busy(T), NEW U,
           U = [t \in Task |-> IF T[t].stage = "running"
                               THEN [T[t] EXCEPT !.stage = "returning"] ELSE T[t]]
    PROVE  U \in [Task -> Row] /\ Busy(U)
<1>1. ASSUME NEW t \in Task PROVE [T[t] EXCEPT !.stage = "returning"] \in Row
  BY Moved DEF Stage
<1>2. \A t \in Task : U[t].msg = T[t].msg /\ (U[t].stage # "free" <=> T[t].stage # "free")
  BY DEF Row
<1>3. QED
  BY <1>1, <1>2 DEF Busy

LEMMA CompactedRow ==
    ASSUME NEW r \in Row, r.stage # "free" => r.msg \in Msg
    PROVE  /\ AfterCompaction(r) \in Row
           /\ AfterCompaction(r).stage # "free" => AfterCompaction(r).msg \in Msg
<1>1. /\ [r EXCEPT !.stage = "preflight"] \in Row
      /\ [r EXCEPT !.stage = "compactEnd"] \in Row
  BY Moved DEF Stage
<1>2. CASE r.stage = "preCompact"
  <2>1. AfterCompaction(r) = [r EXCEPT !.stage = "preflight"]
    BY <1>2 DEF AfterCompaction
  <2>2. QED
    BY <1>1, <1>2, <2>1 DEF Row
<1>3. CASE r.stage = "compact" /\ ~r.direct
  <2>1. AfterCompaction(r) = [r EXCEPT !.stage = "compactEnd"]
    BY <1>3 DEF AfterCompaction
  <2>2. QED
    BY <1>1, <1>3, <2>1 DEF Row
<1>4. CASE r.stage = "compact" /\ r.direct
  <2>1. AfterCompaction(r) = FreeTask
    BY <1>4 DEF AfterCompaction
  <2>2. QED
    BY <2>1, FreeRow
<1>5. CASE r.stage \notin {"preCompact", "compact"}
  BY <1>5 DEF AfterCompaction
<1>6. QED
  BY <1>2, <1>3, <1>4, <1>5 DEF Row

LEMMA CompactedRows ==
    ASSUME NEW T \in [Task -> Row], Busy(T), NEW U, U = [t \in Task |-> AfterCompaction(T[t])]
    PROVE  U \in [Task -> Row] /\ Busy(U)
  BY CompactedRow DEF Busy

LEMMA TypedFacts ==
    ASSUME Typed
    PROVE  /\ task \in [Task -> Row] /\ Busy(task) /\ queue \in Seq(Msg)
           /\ fate \in [Msg -> Fate] /\ local \in BOOLEAN
           /\ retryHead \in Text \cup {NoText} /\ retryTries \in 0..1
  BY DEF Typed, TypeOK, Row

LEMMA TypeInit == Init => Typed
<1> SUFFICES ASSUME Init PROVE Typed
  OBVIOUS
<1>1. task \in [Task -> Row] /\ Busy(task)
  BY FreeRow DEF Init, Busy
<1>2. fate \in [Msg -> Fate] /\ phase \in Phase
  BY DEF Init, Fate, Phase
<1>3. wire \in Seq([queued : BOOLEAN, msg : Msg]) /\ queue \in Seq(Msg)
  BY EmptySeq DEF Init
<1>4. transcript \in Seq(Msg \cup {NoMsg}) /\ arrival \in Seq(Msg)
  BY EmptySeq DEF Init
<1>5. gate \in [active : BOOLEAN, user : BOOLEAN, completion : BOOLEAN]
  BY DEF Init
<1>6. /\ env \in Envs /\ retryHead \in Text \cup {NoText}
      /\ local \in BOOLEAN /\ compacting \in BOOLEAN /\ armed \in Task \cup {NoTask}
      /\ runOf \in Task \cup {NoTask, OtherRun}
  BY Zenon DEF Init
<1>7. retryTries = 0 /\ accounting = 0 /\ faults = 0
  BY DEF Init
<1>8. retryTries \in 0..1 /\ accounting \in Nat /\ faults \in Nat
  BY <1>7
<1>9. QED
  BY <1>1, <1>2, <1>3, <1>4, <1>5, <1>6, <1>8 DEF Typed, TypeOK, Row

LEMMA TypeClient == Typed /\ ClientStep => Typed'
<1> SUFFICES ASSUME Typed, ClientStep PROVE Typed'
  OBVIOUS
<1> USE TypedFacts
<1>1. ASSUME NEW m \in Msg, Submit(m) PROVE Typed'
  <2>1. PICK b \in BOOLEAN : wire' = Append(wire, [queued |-> b, msg |-> m])
    BY <1>1 DEF Submit, Typed, TypeOK
  <2>2. wire' \in Seq([queued : BOOLEAN, msg : Msg])
    BY <2>1 DEF Typed, TypeOK
  <2>3. fate' \in [Msg -> Fate]
    BY <1>1 DEF Submit, Fate
  <2>4. QED
    BY <1>1, <2>2, <2>3 DEF Submit, ClientStep, Typed, TypeOK, queueVars, gateVars, sdkVars
<1>2. ASSUME NEW i \in DOMAIN queue, RemoveQueued(i) PROVE Typed'
  <2>1. RemoveAt(queue, i) \in Seq(Msg) /\ queue[i] \in Msg
    BY CutType
  <2>2. /\ queue' \in Seq(Msg)
        /\ retryHead' \in Text \cup {NoText} /\ retryTries' \in 0..1
    BY <1>2, <2>1, ControlType DEF RemoveQueued
  <2>3. fate' \in [Msg -> Fate]
    BY <1>2, <2>1 DEF RemoveQueued, Fate
  <2>4. QED
    BY <1>2, <2>2, <2>3 DEF RemoveQueued, ClientStep, Typed, TypeOK, gateVars, sdkVars
<1>3. ASSUME NEW i \in DOMAIN queue, NEW m \in Msg, EditQueued(i, m) PROVE Typed'
  <2>1. ReplaceAt(queue, i, m) \in Seq(Msg) /\ queue[i] \in Msg
    BY DEF ReplaceAt
  <2>2. /\ queue' \in Seq(Msg)
        /\ retryHead' \in Text \cup {NoText} /\ retryTries' \in 0..1
    BY <1>3, <2>1, ControlType DEF EditQueued
  <2>3. fate' \in [Msg -> Fate]
    BY <1>3, <2>1 DEF EditQueued, Fate
  <2>4. arrival' \in Seq(Msg)
    <3>1. \A j \in DOMAIN arrival : arrival[j] \in Msg
      BY DEF Typed, TypeOK
    <3>2. arrival \in Seq(Msg) /\ arrival' = [j \in DOMAIN arrival |->
                               IF arrival[j] = queue[i] THEN m ELSE arrival[j]]
      BY <1>3 DEF EditQueued, Typed, TypeOK
    <3>3. arrival' = [j \in 1..Len(arrival) |-> IF arrival[j] = queue[i] THEN m ELSE arrival[j]]
      BY <3>2
    <3>4. QED
      BY <3>1, <3>2, <3>3, IsASeq
  <2>5. QED
    BY <1>3, <2>2, <2>3, <2>4 DEF EditQueued, ClientStep, Typed, TypeOK, gateVars, sdkVars
<1>4. ASSUME CancelQueue PROVE Typed'
  <2>1. /\ queue' \in Seq(Msg)
        /\ retryHead' \in Text \cup {NoText} /\ retryTries' \in 0..1
    BY <1>4, ControlType, EmptySeq DEF CancelQueue
  <2>2. fate' \in [Msg -> Fate]
    BY <1>4 DEF CancelQueue, Fate
  <2>3. QED
    BY <1>4, <2>1, <2>2 DEF CancelQueue, ClientStep, Typed, TypeOK, gateVars, sdkVars
<1>5. ASSUME Steer PROVE Typed'
  <2>1. transcript' \in Seq(Msg \cup {NoMsg}) /\ faults' \in Nat
    BY <1>5 DEF Steer, Fault, Typed, TypeOK
  <2>2. QED
    BY <1>5, <2>1 DEF Steer, ClientStep, Typed, TypeOK, queueVars, gateVars, histVars
<1>6. QED
  BY <1>1, <1>2, <1>3, <1>4, <1>5 DEF ClientStep

LEMMA TypeHost == Typed /\ HostReceives => Typed'
<1> SUFFICES ASSUME Typed, HostReceives PROVE Typed'
  OBVIOUS
<1> USE TypedFacts
<1>1. wire # <<>>
  BY DEF HostReceives, ReceivePrompt, ReceiveCompact, ReceiveQueue
<1>2. Tail(wire) \in Seq([queued : BOOLEAN, msg : Msg]) /\ Received \in Msg
  <2>1. wire \in Seq([queued : BOOLEAN, msg : Msg])
    BY DEF Typed, TypeOK
  <2>2. Head(wire) \in [queued : BOOLEAN, msg : Msg]
    BY <1>1, <2>1, TailType
  <2>3. QED
    BY <1>1, <2>1, <2>2, TailType DEF Received
<1>3. ASSUME QueueReceived
      PROVE  /\ queue' \in Seq(Msg) /\ retryHead' \in Text \cup {NoText} /\ retryTries' \in 0..1
             /\ arrival' \in Seq(Msg)
  <2>1. Append(queue, Received) \in Seq(Msg)
    BY <1>2
  <2>2. arrival' \in Seq(Msg)
    BY <1>2, <1>3 DEF QueueReceived, Typed, TypeOK
  <2>3. QED
    BY <1>3, <2>1, <2>2, ControlType DEF QueueReceived
<1>4. ASSUME NEW t \in Task, NEW s \in Stage, s # "free",
             task' = [task EXCEPT ![t] = [FreeTask EXCEPT !.stage = s, !.msg = Received,
                                                          !.direct = TRUE]]
      PROVE  task' \in [Task -> Row] /\ Busy(task')
  <2>1. [FreeTask EXCEPT !.stage = s, !.msg = Received, !.direct = TRUE] \in Row
    BY <1>2, Started
  <2>2. [FreeTask EXCEPT !.stage = s, !.msg = Received, !.direct = TRUE].msg = Received
    BY DEF FreeTask
  <2>3. QED
    BY <1>2, <1>4, <2>1, <2>2, RowType
<1>5. ASSUME ReceivePrompt PROVE Typed'
  <2>1. CASE isSessionBusy
    BY <1>2, <1>3, <1>5, <2>1
    DEF ReceivePrompt, QueueReceived, HostReceives, Typed, TypeOK, queueVars, gateVars, sdkVars
  <2>2. CASE ~isSessionBusy
    <3>1. task' \in [Task -> Row] /\ Busy(task')
      BY <1>4, <1>5, <2>2 DEF ReceivePrompt, Stage, TasksIn
    <3>2. QED
      BY <1>2, <1>5, <2>2, <3>1
      DEF ReceivePrompt, HostReceives, Typed, TypeOK, Row, queueVars, gateVars, sdkVars
  <2>3. QED
    BY <2>1, <2>2
<1>6. ASSUME ReceiveCompact PROVE Typed'
  <2>1. task' \in [Task -> Row] /\ Busy(task')
    BY <1>4, <1>6 DEF ReceiveCompact, Stage, TasksIn
  <2>2. fate' \in [Msg -> Fate]
    BY <1>2, <1>6 DEF ReceiveCompact, Fate
  <2>3. QED
    BY <1>2, <1>6, <2>1, <2>2
    DEF ReceiveCompact, HostReceives, Typed, TypeOK, Row, queueVars, gateVars, sdkVars
<1>7. ASSUME ReceiveQueue PROVE Typed'
  BY <1>2, <1>3, <1>7
  DEF ReceiveQueue, QueueReceived, HostReceives, Typed, TypeOK, queueVars, gateVars, sdkVars
<1>8. QED
  BY <1>5, <1>6, <1>7 DEF HostReceives

LEMMA TypeTask == ASSUME NEW t \in Task PROVE Typed /\ TaskStep(t) => Typed'
<1> SUFFICES ASSUME Typed, TaskStep(t) PROVE Typed'
  OBVIOUS
<1> USE TypedFacts
<1>1. ASSUME NEW s \in Stage, task[t].stage # "free", Move(t, s)
      PROVE  task' \in [Task -> Row] /\ Busy(task')
  BY <1>1, StageType DEF Move
<1>2. ASSUME task' = [task EXCEPT ![t] = FreeTask]
      PROVE  task' \in [Task -> Row] /\ Busy(task')
  BY <1>2, FreeRow, RowType
<1>3. ASSUME CancelArm(t) PROVE armed' \in Task \cup {NoTask}
  BY <1>3 DEF CancelArm, Typed, TypeOK
<1>4. CASE PromptDirect(t)
  <2>1. task' \in [Task -> Row] /\ Busy(task')
    BY <1>1, <1>4 DEF PromptDirect, Stage
  <2>2. QED
    BY <1>4, <2>1
    DEF PromptDirect, TaskStep, Typed, TypeOK, Row, queueVars, sdkVars, histVars
<1>5. CASE PromptQueued(t)
  <2>1. CASE HeadIs(t)
    <3>1. queue # <<>>
      <4>1. TextOf[task[t].msg] \in Text
        BY <1>5, TextType DEF PromptQueued, Busy
      <4>2. QED
        BY <2>1, <4>1, MessageAssumption DEF HeadIs, HeadText
    <3>2. Head(queue) \in Msg /\ Tail(queue) \in Seq(Msg)
      BY <3>1, TailType
    <3>3. /\ task' = [task EXCEPT ![t] = [task[t] EXCEPT !.stage = "preflight", !.msg = Head(queue)]]
          /\ task[t] \in Row
      BY <1>5, <2>1 DEF PromptQueued
    <3>4. /\ [task[t] EXCEPT !.stage = "preflight", !.msg = Head(queue)] \in Row
          /\ [task[t] EXCEPT !.stage = "preflight", !.msg = Head(queue)].msg = Head(queue)
      BY <3>2, <3>3 DEF Row, Stage
    <3>5. task' \in [Task -> Row] /\ Busy(task')
      BY <3>2, <3>3, <3>4, RowType
    <3>6. QED
      BY <1>5, <2>1, <3>2, <3>5 DEF PromptQueued, TaskStep, Typed, TypeOK, Row, sdkVars
  <2>2. CASE ~HeadIs(t) /\ queue = <<>>
    <3>1. task' \in [Task -> Row] /\ Busy(task')
      BY <1>2, <1>5, <2>2 DEF PromptQueued
    <3>2. QED
      BY <1>5, <2>2, <3>1 DEF PromptQueued, TaskStep, Typed, TypeOK, Row, queueVars, sdkVars
  <2>3. CASE ~HeadIs(t) /\ queue # <<>>
    <3>1. DispatchHead(t, task)
      BY <1>5, <2>3 DEF PromptQueued
    <3>2. /\ queue' \in Seq(Msg) /\ fate' \in [Msg -> Fate]
          /\ retryHead' \in Text \cup {NoText} /\ retryTries' \in 0..1
          /\ task' \in [Task -> Row] /\ Busy(task')
      BY <2>3, <3>1, DispatchType
    <3>3. QED
      BY <1>5, <2>3, <3>2 DEF PromptQueued, TaskStep, Typed, TypeOK, Row, sdkVars
  <2>4. QED
    BY <2>1, <2>2, <2>3
<1>6. CASE PromptReturns(t)
  <2>1. CASE task[t].direct
    <3>1. task' \in [Task -> Row] /\ Busy(task')
      BY <1>2, <1>6, <2>1 DEF PromptReturns
    <3>2. QED
      BY <1>3, <1>6, <2>1, <3>1
      DEF PromptReturns, TaskStep, Typed, TypeOK, Row, queueVars, sdkVars, histVars
  <2>2. CASE ~task[t].direct
    <3>1. QueuedFinally(t, queue) /\ task[t].stage # "free"
      BY <1>6, <2>2 DEF PromptReturns
    <3>2. /\ queue' \in Seq(Msg) /\ local' \in BOOLEAN
          /\ retryHead' \in Text \cup {NoText} /\ retryTries' \in 0..1
          /\ task' \in [Task -> Row] /\ Busy(task')
      BY <3>1, FinallyType
    <3>3. QED
      BY <1>3, <1>6, <3>2 DEF PromptReturns, TaskStep, Typed, TypeOK, Row, sdkVars, histVars
  <2>3. QED
    BY <2>1, <2>2
<1>7. CASE PromptRefused(t)
  <2>1. task' \in [Task -> Row] /\ Busy(task')
    BY <1>1, <1>7 DEF PromptRefused, Stage
  <2>2. QED
    BY <1>7, <2>1
    DEF PromptRefused, TaskStep, Typed, TypeOK, Row, queueVars, gateVars, sdkVars, histVars
<1>8. CASE DirectRejected(t)
  <2>1. task' \in [Task -> Row] /\ Busy(task')
    BY <1>2, <1>8 DEF DirectRejected
  <2>2. fate' \in [Msg -> Fate]
    BY <1>8 DEF DirectRejected, Fate
  <2>3. QED
    BY <1>3, <1>8, <2>1, <2>2
    DEF DirectRejected, TaskStep, Typed, TypeOK, Row, queueVars, sdkVars
<1>9. CASE QueuedRejected(t)
  <2>1. task[t].msg \in Msg
    BY <1>9 DEF QueuedRejected, Busy
  <2>2. queueAfterRejection(t) \in Seq(Msg)
    BY <2>1, ConcatProperties DEF queueAfterRejection
  <2>3. /\ queue' \in Seq(Msg) /\ local' \in BOOLEAN
        /\ retryHead' \in Text \cup {NoText} /\ retryTries' \in 0..1
        /\ task' \in [Task -> Row] /\ Busy(task')
    BY <1>9, <2>2, FinallyType DEF QueuedRejected
  <2>4. QED
    BY <1>3, <1>9, <2>3 DEF QueuedRejected, TaskStep, Typed, TypeOK, Row, sdkVars, histVars
<1>10. /\ [task EXCEPT ![t] = FreeTask] \in [Task -> Row]
       /\ Busy([task EXCEPT ![t] = FreeTask])
  BY FreeRow, RowType
<1>11. CASE Retry(t)
  <2>1. (HeadIs(t) /\ ~isStreaming) \in BOOLEAN
    BY DEF HeadIs, isStreaming
  <2>2. /\ queue' \in Seq(Msg) /\ fate' \in [Msg -> Fate]
        /\ retryHead' \in Text \cup {NoText} /\ retryTries' \in 0..1
        /\ task' \in [Task -> Row] /\ Busy(task') /\ local' \in BOOLEAN
    BY <1>10, <1>11, <2>1, ReserveType DEF Retry
  <2>3. QED
    BY <1>11, <2>2 DEF Retry, TaskStep, Typed, TypeOK, Row, gateVars, sdkVars
<1>12. CASE CompactReturns(t)
  <2>1. (~isStreaming) \in BOOLEAN
    BY DEF isStreaming
  <2>2. /\ queue' \in Seq(Msg) /\ fate' \in [Msg -> Fate]
        /\ retryHead' \in Text \cup {NoText} /\ retryTries' \in 0..1
        /\ task' \in [Task -> Row] /\ Busy(task') /\ local' \in BOOLEAN
    BY <1>10, <1>12, <2>1, ReserveType DEF CompactReturns
  <2>3. QED
    BY <1>12, <2>2 DEF CompactReturns, TaskStep, Typed, TypeOK, Row, gateVars, sdkVars
<1>13. QED
  BY <1>4, <1>5, <1>6, <1>7, <1>8, <1>9, <1>11, <1>12 DEF TaskStep

LEMMA TypeSdk == Typed /\ SdkStep => Typed'
<1> SUFFICES ASSUME Typed, SdkStep PROVE Typed'
  OBVIOUS
<1> USE TypedFacts
<1>1. ASSUME NEW t \in Task, RunBegins(t) PROVE Typed'
  <2>1. /\ [task EXCEPT ![t].stage = "running"] \in [Task -> Row]
        /\ Busy([task EXCEPT ![t].stage = "running"])
    BY <1>1, StageType DEF RunBegins, Stage
  <2>2. /\ local' \in BOOLEAN /\ armed' \in Task \cup {NoTask}
        /\ gate' \in [active : BOOLEAN, user : BOOLEAN, completion : BOOLEAN]
        /\ retryHead' \in Text \cup {NoText} /\ retryTries' \in 0..1
        /\ task' \in [Task -> Row] /\ Busy(task')
    BY <1>1, <2>1, AgentStartType DEF RunBegins
  <2>3. transcript' \in Seq(Msg \cup {NoMsg})
    BY <1>1 DEF RunBegins, Busy, Typed, TypeOK
  <2>4. QED
    BY <1>1, <2>2, <2>3 DEF RunBegins, SdkStep, Typed, TypeOK, Row, Phase, histVars
<1>2. CASE AgentEnds
  <2>1. /\ gate' \in [active : BOOLEAN, user : BOOLEAN, completion : BOOLEAN]
        /\ accounting' \in Nat
    BY <1>2, SMTT(30) DEF AgentEnds, Typed, TypeOK
  <2>2. QED
    BY <1>2, <2>1 DEF AgentEnds, SdkStep, Typed, TypeOK, Phase, queueVars, histVars
<1>3. CASE AgentEndCompletes
  <2>1. shouldDispatchQueueAfterTerminal("agent_end", isStreaming) \in BOOLEAN
    BY DEF shouldDispatchQueueAfterTerminal, isStreaming
  <2>2. /\ queue' \in Seq(Msg) /\ fate' \in [Msg -> Fate]
        /\ retryHead' \in Text \cup {NoText} /\ retryTries' \in 0..1
        /\ task' \in [Task -> Row] /\ Busy(task') /\ local' \in BOOLEAN
    BY <1>3, <2>1, ReserveType DEF AgentEndCompletes
  <2>3. accounting' \in Nat
    BY <1>3 DEF AgentEndCompletes, Typed, TypeOK
  <2>4. QED
    BY <1>3, <2>2, <2>3 DEF AgentEndCompletes, SdkStep, Typed, TypeOK, Row, gateVars
<1>4. CASE Settled
  <2>1. shouldDispatchQueueAfterTerminal("agent_settled", FALSE) \in BOOLEAN
    BY DEF shouldDispatchQueueAfterTerminal
  <2> DEFINE base == [t \in Task |-> IF task[t].stage = "running"
                                     THEN [task[t] EXCEPT !.stage = "returning"] ELSE task[t]]
  <2>2. base \in [Task -> Row] /\ Busy(base)
    BY SettledRows
  <2>3. /\ queue' \in Seq(Msg) /\ fate' \in [Msg -> Fate]
        /\ retryHead' \in Text \cup {NoText} /\ retryTries' \in 0..1
        /\ task' \in [Task -> Row] /\ Busy(task') /\ local' \in BOOLEAN
    <3> HIDE DEF base
    <3>1. ReserveAndDispatch(shouldDispatchQueueAfterTerminal("agent_settled", FALSE), base, local)
      BY <1>4 DEF Settled, base
    <3>2. QED
      BY <2>1, <2>2, <3>1, ReserveType
  <2>4. QED
    BY <1>4, <2>3 DEF Settled, SdkStep, Typed, TypeOK, Row, Phase
<1>5. CASE CompactionBegins
  <2>1. ASSUME NEW s \in Stage, NEW t \in Task, task[t].stage # "free", Move(t, s)
        PROVE  task' \in [Task -> Row] /\ Busy(task')
    BY <2>1, StageType DEF Move
  <2>2. task' \in [Task -> Row] /\ Busy(task')
    BY <1>5, <2>1 DEF CompactionBegins, TasksIn, Stage
  <2>3. phase' \in Phase /\ faults' \in Nat
    BY <1>5 DEF CompactionBegins, Phase, Fault, Typed, TypeOK
  <2>4. QED
    BY <1>5, <2>2, <2>3
    DEF CompactionBegins, SdkStep, Typed, TypeOK, Row, queueVars, gateVars, histVars
<1>6. CASE CompactionEnds
  <2>1. shouldDispatchQueueAfterTerminal("compaction_end", isStreaming) \in BOOLEAN
    BY DEF shouldDispatchQueueAfterTerminal, isStreaming
  <2> DEFINE base == [t \in Task |-> AfterCompaction(task[t])]
  <2>2. base \in [Task -> Row] /\ Busy(base)
    BY CompactedRows
  <2>3. /\ queue' \in Seq(Msg) /\ fate' \in [Msg -> Fate]
        /\ retryHead' \in Text \cup {NoText} /\ retryTries' \in 0..1
        /\ task' \in [Task -> Row] /\ Busy(task') /\ local' \in BOOLEAN
    <3> HIDE DEF base
    <3>1. ReserveAndDispatch(shouldDispatchQueueAfterTerminal("compaction_end", isStreaming),
                             base, local)
      BY <1>6 DEF CompactionEnds, base
    <3>2. QED
      BY <2>1, <2>2, <3>1, ReserveType
  <2>4. phase' \in Phase /\ compacting' \in BOOLEAN
    BY <1>6 DEF CompactionEnds, Phase, Typed, TypeOK
  <2>5. QED
    BY <1>6, <2>3, <2>4 DEF CompactionEnds, SdkStep, Typed, TypeOK, Row, gateVars
<1>7. QED
  BY <1>1, <1>2, <1>3, <1>4, <1>5, <1>6 DEF SdkStep

LEMMA TypeEnv == Typed /\ EnvStep => Typed'
<1> SUFFICES ASSUME Typed, EnvStep PROVE Typed'
  OBVIOUS
<1> USE TypedFacts
<1>1. ASSUME NEW k, Fault(k) PROVE faults' \in Nat
  BY <1>1 DEF Fault, Typed, TypeOK
<1>2. CASE OtherRunBegins
  <2>1. /\ local' \in BOOLEAN /\ armed' \in Task \cup {NoTask}
        /\ gate' \in [active : BOOLEAN, user : BOOLEAN, completion : BOOLEAN]
        /\ retryHead' \in Text \cup {NoText} /\ retryTries' \in 0..1
        /\ task' \in [Task -> Row] /\ Busy(task')
    BY <1>2, AgentStartType DEF OtherRunBegins
  <2>2. transcript' \in Seq(Msg \cup {NoMsg}) /\ faults' \in Nat
    BY <1>1, <1>2 DEF OtherRunBegins, Typed, TypeOK
  <2>3. QED
    BY <1>2, <2>1, <2>2 DEF OtherRunBegins, EnvStep, Typed, TypeOK, Row, Phase, histVars
<1>3. CASE AutoRetry
  <2>1. /\ local' \in BOOLEAN /\ armed' \in Task \cup {NoTask}
        /\ gate' \in [active : BOOLEAN, user : BOOLEAN, completion : BOOLEAN]
        /\ retryHead' \in Text \cup {NoText} /\ retryTries' \in 0..1
        /\ task' \in [Task -> Row] /\ Busy(task')
    BY <1>3, AgentStartType DEF AutoRetry
  <2>2. faults' \in Nat
    BY <1>1, <1>3 DEF AutoRetry
  <2>3. QED
    BY <1>3, <2>1, <2>2 DEF AutoRetry, EnvStep, Typed, TypeOK, Row, Phase, histVars
<1>4. ASSUME NEW t \in Task, PrepareFails(t) PROVE Typed'
  <2>1. task' \in [Task -> Row] /\ Busy(task')
    BY <1>4, FreeRow, RowType DEF PrepareFails
  <2>2. fate' \in [Msg -> Fate] /\ local' \in BOOLEAN
    BY <1>4 DEF PrepareFails, Fate
  <2>3. faults' \in Nat
    BY <1>1, <1>4 DEF PrepareFails
  <2>4. QED
    BY <1>4, <2>1, <2>2, <2>3
    DEF PrepareFails, EnvStep, Typed, TypeOK, Row, queueVars, gateVars, sdkVars
<1>5. ASSUME NEW t \in Task, PromptFails(t) PROVE Typed'
  <2>1. task[t].stage # "free" /\ Move(t, "rejected") /\ faults' \in Nat
    BY <1>1, <1>5 DEF PromptFails
  <2>2. task' \in [Task -> Row] /\ Busy(task')
    BY <2>1, StageType DEF Move, Stage
  <2>3. QED
    BY <1>5, <2>1, <2>2
    DEF PromptFails, EnvStep, Typed, TypeOK, Row, queueVars, gateVars, sdkVars, histVars
<1>6. ASSUME NEW t \in Task, CommandHandled(t) PROVE Typed'
  <2>1. task[t].stage # "free" /\ Move(t, "returning") /\ faults' \in Nat
    BY <1>1, <1>6 DEF CommandHandled
  <2>2. task' \in [Task -> Row] /\ Busy(task')
    BY <2>1, StageType DEF Move, Stage
  <2>3. fate' \in [Msg -> Fate]
    BY <1>6 DEF CommandHandled, Fate
  <2>4. QED
    BY <1>6, <2>1, <2>2, <2>3
    DEF CommandHandled, EnvStep, Typed, TypeOK, Row, queueVars, gateVars, sdkVars
<1>7. QED
  BY <1>2, <1>3, <1>4, <1>5, <1>6 DEF EnvStep

LEMMA TypeNext == Typed /\ [Next]_vars => Typed'
<1>1. ASSUME Typed, UNCHANGED vars PROVE Typed'
  BY <1>1 DEF vars, Typed, TypeOK, Busy
<1>2. QED
  BY <1>1, TypeClient, TypeHost, TypeTask, TypeSdk, TypeEnv DEF Next, TasksIn

\* The tab's state keeps its shape, whatever the user, the SDK and the network do.
THEOREM TypeCorrect == Spec => []TypeOK
<1>1. Spec => []Typed
  BY TypeInit, TypeNext, PTL DEF Spec
<1>2. Typed => TypeOK
  BY DEF Typed
<1>3. QED
  BY <1>1, <1>2, PTL

----------------------------------------------------------------------------
(***************************************************************************)
(* Sequences without repetition, and sequences in the order of a relation. *)
(***************************************************************************)
Once(s) == \A i, j \in DOMAIN s : s[i] = s[j] => i = j
Sorted(s, R) == \A i, j \in DOMAIN s : i < j => <<s[i], s[j]>> \in R

LEMMA InSet == ASSUME NEW s, NEW i \in DOMAIN s PROVE s[i] \in ToSet(s)
  BY DEF ToSet

LEMMA Empties == ASSUME NEW R PROVE Once(<<>>) /\ Sorted(<<>>, R) /\ ToSet(<<>>) = {}
  BY DEF Once, Sorted, ToSet

LEMMA Appended ==
    ASSUME NEW S, NEW s \in Seq(S), NEW x \in S
    PROVE  /\ ToSet(Append(s, x)) = ToSet(s) \cup {x}
           /\ Once(s) /\ x \notin ToSet(s) => Once(Append(s, x))
           /\ \A R : Sorted(s, R) /\ (\A y \in ToSet(s) : <<y, x>> \in R)
                       => Sorted(Append(s, x), R)
<1> DEFINE r == Append(s, x)
           n == Len(s)
<1>1. /\ n \in Nat /\ DOMAIN s = 1..n /\ DOMAIN r = 1..(n + 1)
      /\ \A i \in 1..n : r[i] = s[i]
      /\ r[n + 1] = x
  BY AppendProperties, LenProperties
<1> HIDE DEF r, n
<1>2. ToSet(r) = ToSet(s) \cup {x}
  BY <1>1 DEF ToSet
<1>3. ASSUME Once(s), x \notin ToSet(s) PROVE Once(r)
  <2>1. \A i \in 1..n : s[i] # x
    BY <1>1, <1>3 DEF ToSet
  <2>2. QED
    BY <1>1, <1>3, <2>1 DEF Once
<1>4. ASSUME NEW R, Sorted(s, R), \A y \in ToSet(s) : <<y, x>> \in R PROVE Sorted(r, R)
  <2>1. \A i \in 1..n : <<s[i], x>> \in R
    BY <1>1, <1>4 DEF ToSet
  <2>2. ASSUME NEW i \in 1..(n + 1), NEW j \in 1..(n + 1), i < j PROVE <<r[i], r[j]>> \in R
    <3>1. i \in 1..n
      BY <1>1, <2>2
    <3>2. CASE j = n + 1
      BY <1>1, <2>1, <3>1, <3>2
    <3>3. CASE j # n + 1
      <4>1. j \in 1..n
        BY <1>1, <3>3
      <4>2. QED
        BY <1>1, <1>4, <2>2, <3>1, <4>1 DEF Sorted
    <3>4. QED
      BY <3>2, <3>3
  <2>3. QED
    BY <1>1, <2>2 DEF Sorted
<1>5. QED
  BY <1>2, <1>3, <1>4 DEF r

LEMMA Tailed ==
    ASSUME NEW S, NEW s \in Seq(S), s # <<>>
    PROVE  /\ Head(s) \in ToSet(s) /\ ToSet(Tail(s)) \subseteq ToSet(s)
           /\ ToSet(s) = ToSet(Tail(s)) \cup {Head(s)}
           /\ Once(s) => /\ Once(Tail(s)) /\ ToSet(Tail(s)) = ToSet(s) \ {Head(s)}
           /\ \A R : Sorted(s, R) => /\ Sorted(Tail(s), R)
                                     /\ \A y \in ToSet(Tail(s)) : <<Head(s), y>> \in R
<1> DEFINE r == Tail(s)
           n == Len(s)
<1>1. /\ n \in Nat /\ n >= 1 /\ DOMAIN s = 1..n
      /\ r \in Seq(S) /\ Len(r) = n - 1
      /\ \A i \in 1..(n - 1) : r[i] = s[i + 1]
      /\ Head(s) = s[1]
  BY HeadTailProperties, LenProperties, EmptySeq
<1>2. DOMAIN r = 1..(n - 1)
  BY <1>1, LenProperties
<1> HIDE DEF r, n
<1>3. \A i \in 2..n : i - 1 \in 1..(n - 1) /\ s[i] = r[i - 1]
  BY <1>1
<1>4. \A i \in 1..(n - 1) : i + 1 \in 1..n /\ r[i] = s[i + 1]
  BY <1>1
<1>5. Head(s) \in ToSet(s) /\ ToSet(r) \subseteq ToSet(s)
  BY <1>1, <1>2, <1>4, SMTT(30) DEF ToSet
<1>6. ToSet(s) \subseteq ToSet(r) \cup {Head(s)}
  <2>1. ASSUME NEW i \in 1..n PROVE s[i] \in ToSet(r) \cup {Head(s)}
    <3>1. CASE i = 1
      BY <1>1, <3>1
    <3>2. CASE i # 1
      <4>1. i - 1 \in 1..(n - 1) /\ s[i] = r[i - 1]
        BY <1>1, <1>3, <3>2
      <4>2. QED
        BY <1>2, <4>1 DEF ToSet
    <3>3. QED
      BY <3>1, <3>2
  <2>2. QED
    BY <1>1, <2>1 DEF ToSet
<1>7. ASSUME Once(s) PROVE Once(r) /\ Head(s) \notin ToSet(r)
  <2>1. ASSUME NEW i \in 1..(n - 1), NEW j \in 1..(n - 1), r[i] = r[j] PROVE i = j
    <3>1. i + 1 \in 1..n /\ j + 1 \in 1..n /\ s[i + 1] = s[j + 1]
      BY <1>4, <2>1
    <3>2. i + 1 = j + 1
      BY <1>1, <1>7, <3>1 DEF Once
    <3>3. QED
      BY <1>1, <3>2
  <2>2. \A i \in 1..(n - 1) : s[i + 1] # s[1]
    BY <1>1, <1>7 DEF Once
  <2>3. QED
    BY <1>1, <1>2, <2>1, <2>2 DEF ToSet, Once
<1>8. ASSUME NEW R, Sorted(s, R)
      PROVE  Sorted(r, R) /\ \A y \in ToSet(r) : <<Head(s), y>> \in R
  <2>1. ASSUME NEW i \in 1..(n - 1), NEW j \in 1..(n - 1), i < j PROVE <<r[i], r[j]>> \in R
    <3>1. i + 1 \in 1..n /\ j + 1 \in 1..n /\ i + 1 < j + 1
      BY <1>1, <2>1
    <3>2. QED
      BY <1>1, <1>8, <3>1 DEF Sorted
  <2>2. ASSUME NEW j \in 1..(n - 1) PROVE <<Head(s), r[j]>> \in R
    <3>1. 1 \in 1..n /\ j + 1 \in 1..n /\ 1 < j + 1
      BY <1>1
    <3>2. QED
      BY <1>1, <1>8, <3>1 DEF Sorted
  <2>3. QED
    BY <1>2, <2>1, <2>2 DEF Sorted, ToSet
<1>9. QED
  BY <1>5, <1>6, <1>7, <1>8 DEF r

LEMMA Pushed ==
    ASSUME NEW S, NEW s \in Seq(S), NEW x \in S
    PROVE  /\ ToSet(<<x>> \o s) = ToSet(s) \cup {x}
           /\ Once(s) /\ x \notin ToSet(s) => Once(<<x>> \o s)
           /\ \A R : Sorted(s, R) /\ (\A y \in ToSet(s) : <<x, y>> \in R)
                       => Sorted(<<x>> \o s, R)
<1> DEFINE r == <<x>> \o s
           n == Len(s)
<1>1. /\ n \in Nat /\ DOMAIN s = 1..n /\ DOMAIN r = 1..(n + 1)
      /\ r[1] = x
      /\ \A i \in 1..n : r[i + 1] = s[i]
  <2>1. <<x>> \in Seq(S) /\ Len(<<x>>) = 1 /\ <<x>>[1] = x
    OBVIOUS
  <2>2. n \in Nat /\ DOMAIN s = 1..n
    BY LenProperties
  <2>3. /\ r \in Seq(S) /\ Len(r) = 1 + n
        /\ \A i \in 1..(1 + n) : r[i] = IF i <= 1 THEN <<x>>[i] ELSE s[i - 1]
    BY <2>1, <2>2, ConcatProperties
  <2>4. DOMAIN r = 1..(n + 1)
    BY <2>2, <2>3, LenProperties
  <2> HIDE DEF r, n
  <2>5. ASSUME NEW i \in 1..n PROVE r[i + 1] = s[i]
    <3>1. i + 1 \in 1..(1 + n) /\ ~(i + 1 <= 1) /\ (i + 1) - 1 = i
      BY <2>2
    <3>2. QED
      BY <2>3, <3>1
  <2>6. r[1] = x
    BY <2>1, <2>2, <2>3
  <2>7. QED
    BY <2>2, <2>4, <2>5, <2>6
<1> HIDE DEF r, n
<1>2. ASSUME NEW j \in 1..(n + 1) PROVE j = 1 \/ \E i \in 1..n : j = i + 1
  <2>1. j # 1 => j - 1 \in 1..n /\ j = (j - 1) + 1
    BY <1>1
  <2>2. QED
    BY <2>1
<1>3. ToSet(r) = ToSet(s) \cup {x}
  <2>1. ASSUME NEW j \in DOMAIN r PROVE r[j] \in ToSet(s) \cup {x}
    <3>1. j = 1 \/ \E i \in 1..n : j = i + 1
      BY <1>1, <1>2, <2>1
    <3>2. ASSUME NEW i \in 1..n, j = i + 1 PROVE r[j] \in ToSet(s)
      BY <1>1, <3>2, InSet
    <3>3. QED
      BY <1>1, <3>1, <3>2
  <2>2. ASSUME NEW i \in DOMAIN s PROVE s[i] \in ToSet(r)
    <3>1. i + 1 \in DOMAIN r /\ r[i + 1] = s[i]
      BY <1>1, <2>2
    <3>2. QED
      BY <3>1, InSet
  <2>3. x \in ToSet(r)
    <3>1. 1 \in DOMAIN r
      BY <1>1
    <3>2. QED
      BY <1>1, <3>1, InSet
  <2>4. ToSet(r) \subseteq ToSet(s) \cup {x}
    BY <2>1 DEF ToSet
  <2>5. ToSet(s) \subseteq ToSet(r)
    BY <2>2 DEF ToSet
  <2>6. QED
    BY <2>3, <2>4, <2>5
<1>4. ASSUME Once(s), x \notin ToSet(s) PROVE Once(r)
  <2>1. \A i \in 1..n : s[i] # x
    BY <1>1, <1>4 DEF ToSet
  <2>2. ASSUME NEW i \in 1..(n + 1), NEW j \in 1..(n + 1), r[i] = r[j] PROVE i = j
    <3>1. CASE i = 1 /\ j = 1
      BY <3>1
    <3>2. ASSUME NEW k \in 1..n, i = k + 1, j = 1 PROVE FALSE
      BY <1>1, <2>1, <2>2, <3>2
    <3>3. ASSUME NEW k \in 1..n, j = k + 1, i = 1 PROVE FALSE
      BY <1>1, <2>1, <2>2, <3>3
    <3>4. ASSUME NEW k \in 1..n, i = k + 1, NEW l \in 1..n, j = l + 1 PROVE i = j
      <4>1. s[k] = s[l]
        BY <1>1, <2>2, <3>4
      <4>2. QED
        BY <1>1, <1>4, <3>4, <4>1 DEF Once
    <3>5. (i = 1 \/ \E k \in 1..n : i = k + 1) /\ (j = 1 \/ \E l \in 1..n : j = l + 1)
      BY <1>2
    <3>6. QED
      BY <3>1, <3>2, <3>3, <3>4, <3>5
  <2>3. QED
    BY <1>1, <2>2 DEF Once
<1>5. ASSUME NEW R, Sorted(s, R), \A y \in ToSet(s) : <<x, y>> \in R PROVE Sorted(r, R)
  <2>1. \A i \in 1..n : <<x, s[i]>> \in R
    BY <1>1, <1>5 DEF ToSet
  <2>2. ASSUME NEW i \in 1..(n + 1), NEW j \in 1..(n + 1), i < j PROVE <<r[i], r[j]>> \in R
    <3>1. j # 1
      BY <1>1, <2>2
    <3>2. PICK l \in 1..n : j = l + 1
      BY <1>2, <3>1
    <3>3. CASE i = 1
      BY <1>1, <2>1, <3>2, <3>3
    <3>4. CASE i # 1
      <4>1. PICK k \in 1..n : i = k + 1
        BY <1>2, <3>4
      <4>2. k < l
        BY <1>1, <2>2, <3>2, <4>1
      <4>3. <<s[k], s[l]>> \in R
        BY <1>1, <1>5, <3>2, <4>1, <4>2 DEF Sorted
      <4>4. QED
        BY <1>1, <3>2, <4>1, <4>3
    <3>5. QED
      BY <3>3, <3>4
  <2>3. QED
    BY <1>1, <2>2 DEF Sorted
<1>6. QED
  BY <1>3, <1>4, <1>5 DEF r

LEMMA Cut ==
    ASSUME NEW S, NEW s \in Seq(S), NEW i \in DOMAIN s
    PROVE  /\ ToSet(RemoveAt(s, i)) \subseteq ToSet(s)
           /\ ToSet(s) \subseteq ToSet(RemoveAt(s, i)) \cup {s[i]}
           /\ Once(s) => Once(RemoveAt(s, i)) /\ s[i] \notin ToSet(RemoveAt(s, i))
           /\ \A R : Sorted(s, R) => Sorted(RemoveAt(s, i), R)
<1> DEFINE r == RemoveAt(s, i)
           n == Len(s)
           f == SubSeq(s, 1, i - 1)
           g == SubSeq(s, i + 1, n)
<1>1. n \in Nat /\ DOMAIN s = 1..n /\ i \in Nat /\ i >= 1 /\ i <= n
  BY LenProperties
<1>2. f \in Seq(S) /\ Len(f) = i - 1 /\ \A j \in 1..(i - 1) : f[j] = s[j]
  BY <1>1, SubSeqProperties
<1>3. g \in Seq(S) /\ Len(g) = n - i /\ \A j \in 1..(n - i) : g[j] = s[i + j]
  BY <1>1, SubSeqProperties, SMTT(30)
<1>4. r = f \o g
  BY DEF RemoveAt
<1> HIDE DEF r, n, f, g
<1>5. r \in Seq(S) /\ Len(r) = Len(f) + Len(g)
      /\ \A j \in 1..(Len(f) + Len(g)) : r[j] = IF j <= Len(f) THEN f[j] ELSE g[j - Len(f)]
  BY <1>2, <1>3, <1>4, ConcatProperties
<1>6. DOMAIN r = 1..(n - 1)
  <2>1. Len(r) = n - 1
    BY <1>1, <1>2, <1>3, <1>5
  <2>2. QED
    BY <1>5, <2>1, LenProperties
<1>7. ASSUME NEW j \in 1..(n - 1) PROVE r[j] = s[IF j < i THEN j ELSE j + 1]
  <2>1. r[j] = IF j <= i - 1 THEN f[j] ELSE g[j - (i - 1)]
    BY <1>1, <1>2, <1>3, <1>5
  <2>2. CASE j < i
    <3>1. j \in 1..(i - 1)
      BY <1>1, <2>2
    <3>2. QED
      BY <1>1, <1>2, <2>1, <2>2, <3>1
  <2>3. CASE ~(j < i)
    <3>1. j - (i - 1) \in 1..(n - i) /\ i + (j - (i - 1)) = j + 1 /\ ~(j <= i - 1)
      BY <1>1, <2>3
    <3>2. g[j - (i - 1)] = s[i + (j - (i - 1))]
      BY <1>3, <3>1
    <3>3. r[j] = s[j + 1]
      BY <2>1, <3>1, <3>2
    <3>4. QED
      BY <2>3, <3>3
  <2>4. QED
    BY <2>2, <2>3
<1> DEFINE h(j) == IF j < i THEN j ELSE j + 1
<1>8. ASSUME NEW j \in 1..(n - 1)
      PROVE  /\ h(j) \in 1..n /\ h(j) # i
             /\ \A k \in 1..(n - 1) : (j < k => h(j) < h(k)) /\ (h(j) = h(k) => j = k)
  BY <1>1
<1>9. ASSUME NEW j \in 1..n, j # i PROVE \E k \in 1..(n - 1) : h(k) = j
  <2>1. CASE j < i
    <3>1. j \in 1..(n - 1) /\ h(j) = j
      BY <1>1, <2>1
    <3>2. QED
      BY <3>1
  <2>2. CASE ~(j < i)
    <3>1. j - 1 \in 1..(n - 1) /\ h(j - 1) = j
      BY <1>1, <1>9, <2>2
    <3>2. QED
      BY <3>1
  <2>3. QED
    BY <2>1, <2>2
<1>10. \A j \in 1..(n - 1) : r[j] = s[h(j)]
  BY <1>7
<1> HIDE DEF h
<1>11. ToSet(r) \subseteq ToSet(s)
  <2>1. ASSUME NEW j \in DOMAIN r PROVE r[j] \in ToSet(s)
    BY <1>1, <1>6, <1>8, <1>10, InSet
  <2>2. QED
    BY <2>1 DEF ToSet
<1>12. ToSet(s) \subseteq ToSet(r) \cup {s[i]}
  <2>1. ASSUME NEW j \in DOMAIN s, j # i PROVE s[j] \in ToSet(r)
    <3>1. PICK k \in 1..(n - 1) : h(k) = j
      BY <1>1, <1>9, <2>1
    <3>2. r[k] = s[j] /\ k \in DOMAIN r
      BY <1>6, <1>10, <3>1
    <3>3. QED
      BY <3>2, InSet
  <2>2. QED
    BY <2>1 DEF ToSet
<1>13. ASSUME Once(s) PROVE Once(r) /\ s[i] \notin ToSet(r)
  <2>1. ASSUME NEW j \in 1..(n - 1), NEW k \in 1..(n - 1), r[j] = r[k] PROVE j = k
    <3>1. s[h(j)] = s[h(k)]
      BY <1>10, <2>1
    <3>2. h(j) = h(k)
      BY <1>1, <1>8, <1>13, <3>1 DEF Once
    <3>3. QED
      BY <1>8, <3>2
  <2>2. ASSUME NEW j \in 1..(n - 1) PROVE r[j] # s[i]
    <3>1. h(j) \in 1..n /\ h(j) # i
      BY <1>8
    <3>2. QED
      BY <1>1, <1>10, <1>13, <3>1 DEF Once
  <2>3. QED
    BY <1>6, <2>1, <2>2 DEF Once, ToSet
<1>14. ASSUME NEW R, Sorted(s, R) PROVE Sorted(r, R)
  <2>1. ASSUME NEW j \in 1..(n - 1), NEW k \in 1..(n - 1), j < k PROVE <<r[j], r[k]>> \in R
    <3>1. h(j) \in 1..n /\ h(k) \in 1..n /\ h(j) < h(k)
      BY <1>8, <2>1
    <3>2. <<s[h(j)], s[h(k)]>> \in R
      BY <1>1, <1>14, <3>1 DEF Sorted
    <3>3. QED
      BY <1>10, <3>2
  <2>2. QED
    BY <1>6, <2>1 DEF Sorted
<1>15. QED
  BY <1>11, <1>12, <1>13, <1>14 DEF r

\* A sequence with one of its elements renamed.
Renamed(s, old, m) == [j \in DOMAIN s |-> IF s[j] = old THEN m ELSE s[j]]

LEMMA Renaming ==
    ASSUME NEW S, NEW s \in Seq(S), NEW old \in ToSet(s), NEW m \in S, m \notin ToSet(s)
    PROVE  /\ ToSet(Renamed(s, old, m)) = (ToSet(s) \ {old}) \cup {m}
           /\ Once(s) => Once(Renamed(s, old, m))
<1> DEFINE r == Renamed(s, old, m)
<1>1. DOMAIN r = DOMAIN s /\ \A j \in DOMAIN s : r[j] = IF s[j] = old THEN m ELSE s[j]
  BY DEF Renamed
<1> HIDE DEF r
<1>2. ToSet(r) = (ToSet(s) \ {old}) \cup {m}
  BY <1>1 DEF ToSet
<1>3. ASSUME Once(s) PROVE Once(r)
  BY <1>1, <1>3 DEF Once, ToSet
<1>4. QED
  BY <1>2, <1>3 DEF r

LEMMA Replaced ==
    ASSUME NEW S, NEW s \in Seq(S), NEW i \in DOMAIN s, NEW m \in S, Once(s)
    PROVE  ReplaceAt(s, i, m) = Renamed(s, s[i], m)
<1>1. DOMAIN ReplaceAt(s, i, m) = DOMAIN s
  BY DEF ReplaceAt
<1>2. \A j \in DOMAIN s : ReplaceAt(s, i, m)[j] = IF s[j] = s[i] THEN m ELSE s[j]
  BY DEF ReplaceAt, Once
<1>3. ReplaceAt(s, i, m) = [j \in DOMAIN s |-> ReplaceAt(s, i, m)[j]]
  BY <1>1 DEF ReplaceAt
<1>4. QED
  BY <1>2, <1>3 DEF Renamed

----------------------------------------------------------------------------
(***************************************************************************)
(* No message twice. A message is in at most one place: on the wire, in    *)
(* the queue, carried by one dispatch, or in the transcript.               *)
(***************************************************************************)

\* A dispatch carries its message from the moment nothing else holds it until
\* its run begins; one that failed without knowing of a run still has it. D is
\* what has been delivered.
Carry(r, D) ==
    \/ r.stage \in {"preflight", "preCompact"}
    \/ r.stage = "augment" /\ r.direct
    \/ r.stage \in {"running", "returning", "rejected"} /\ ~r.direct /\ ~r.started
    \/ r.stage = "rejected" /\ r.direct /\ r.msg \notin D

Letters(w) == [i \in DOMAIN w |-> w[i].msg]
Sent == ToSet(Letters(wire))

RunOnce(s) == \A i, j \in DOMAIN s : s[i] = s[j] /\ s[i] \in Msg => i = j

\* Where the messages are: sent, queued, delivered, carried; and their fates.
Spots(W, Q, D, T, f) ==
    /\ W \cap Q = {} /\ D \cap (W \cup Q) = {}
    /\ \A t \in Task : Carry(T[t], D) => T[t].msg \notin W \cup Q \cup D
    /\ \A t, u \in Task : Carry(T[t], D) /\ Carry(T[u], D) /\ T[t].msg = T[u].msg => t = u
    /\ \A m \in W \cup Q : f[m] = "pending"
    /\ \A t \in Task : Carry(T[t], D) =>
          f[T[t].msg] # "unsent" /\ (T[t].stage # "returning" => f[T[t].msg] = "pending")
    /\ \A m \in D : f[m] # "unsent"

Single == Once(Letters(wire)) /\ Once(queue) /\ RunOnce(transcript)
Placed == Single /\ Spots(Sent, ToSet(queue), Delivered, task, fate)

\* Messages may leave places, dispatches stop carrying, and no fate of a message
\* that is still somewhere changes.
LEMMA Fewer ==
    ASSUME NEW W, NEW Q, NEW D, NEW T, NEW f, Spots(W, Q, D, T, f),
           NEW V \in SUBSET W, NEW P \in SUBSET Q, NEW U, NEW g,
           \A t \in Task : Carry(U[t], D) =>
               /\ Carry(T[t], D) /\ U[t].msg = T[t].msg
               /\ g[U[t].msg] # "unsent"
               /\ U[t].stage # "returning" =>
                     T[t].stage # "returning" /\ g[U[t].msg] = f[U[t].msg],
           \A m \in V \cup P : g[m] = f[m],
           \A m \in D : g[m] # "unsent"
    PROVE  Spots(V, P, D, U, g)
  BY DEF Spots

LEMMA PlacesKept ==
    ASSUME UNCHANGED <<wire, transcript>>
    PROVE  Sent' = Sent /\ Delivered' = Delivered
  BY DEF Sent, Letters, Delivered

LEMMA FewerPlaced ==
    ASSUME Placed, UNCHANGED <<wire, transcript>>, Once(queue'), ToSet(queue') \subseteq ToSet(queue),
           \A t \in Task : Carry(task'[t], Delivered) =>
               /\ Carry(task[t], Delivered) /\ task'[t].msg = task[t].msg
               /\ fate'[task'[t].msg] # "unsent"
               /\ task'[t].stage # "returning" =>
                     task[t].stage # "returning" /\ fate'[task'[t].msg] = fate[task'[t].msg],
           \A m \in Sent \cup ToSet(queue') : fate'[m] = fate[m],
           \A m \in Delivered : fate'[m] # "unsent"
    PROVE  Placed'
<1>1. Sent' = Sent /\ Delivered' = Delivered
  BY PlacesKept
<1>2. Spots(Sent, ToSet(queue'), Delivered, task', fate')
  BY Fewer DEF Placed
<1>3. Single'
  BY DEF Placed, Single, Letters
<1>4. ToSet(queue)' = ToSet(queue')
  BY DEF ToSet
<1>5. QED
  BY <1>1, <1>2, <1>3, <1>4 DEF Placed

\* Dispatching the head moves nothing but a /compact, which leaves the queue.
LEMMA DispatchPlaced ==
    ASSUME Typed, Single, NEW base, Spots(Sent, ToSet(queue), Delivered, base, fate),
           base \in [Task -> Row], UNCHANGED <<wire, transcript>>, NEW t \in Task, queue # <<>>,
           DispatchHead(t, base)
    PROVE  Placed'
<1> DEFINE head == Head(queue)
           row(s) == [FreeTask EXCEPT !.stage = s, !.msg = head]
<1>1. queue \in Seq(Msg) /\ fate \in [Msg -> Fate]
  BY DEF Typed, TypeOK
<1>2. Once(queue) /\ Once(Letters(wire)) /\ RunOnce(transcript)
  BY DEF Single
<1>3. /\ head \in ToSet(queue) /\ ToSet(Tail(queue)) = ToSet(queue) \ {head}
      /\ Once(Tail(queue)) /\ head \in Msg
  BY <1>1, <1>2, Tailed, TailType
<1>4. Sent' = Sent /\ Delivered' = Delivered
  BY PlacesKept
<1>5. Once(Letters(wire))' /\ RunOnce(transcript)'
  BY <1>2 DEF Letters, RunOnce
<1>6. ~Carry(row("compactWait"), Delivered) /\ ~Carry(row("augment"), Delivered)
  BY DEF Carry, FreeTask
<1>7. ToSet(queue)' = ToSet(queue') /\ (Once(queue') => Once(queue)')
  BY DEF ToSet, Once
<1>8. CASE IsCompact(head)
  <2>1. /\ task' = [base EXCEPT ![t] = row("compactWait")]
        /\ queue' = Tail(queue)
        /\ fate' = [fate EXCEPT ![head] = "handled"]
    BY <1>8 DEF DispatchHead
  <2>2. task'[t] = row("compactWait") /\ \A u \in Task : u # t => task'[u] = base[u]
    BY <2>1
  <2>3. /\ \A m \in Msg : m # head => fate'[m] = fate[m]
        /\ fate'[head] = "handled"
    BY <1>1, <1>3, <2>1
  <2> HIDE DEF row, head
  <2>4. \A m \in Sent \cup ToSet(queue') : m # head /\ fate'[m] = fate[m]
    <3>1. \A m \in Sent \cup ToSet(queue') : m # head
      BY <1>3, <2>1 DEF Spots
    <3>2. fate' = [fate EXCEPT ![head] = "handled"] /\ fate \in [Msg -> Fate]
      BY <1>1, <2>1
    <3>3. \A m : m # head => fate'[m] = fate[m]
      BY <2>1
    <3>4. QED
      BY <3>1, <3>3
  <2>5. ASSUME NEW u \in Task, Carry(task'[u], Delivered)
        PROVE  /\ Carry(base[u], Delivered) /\ task'[u].msg = base[u].msg
               /\ fate'[task'[u].msg] = fate[task'[u].msg] /\ task'[u].stage = base[u].stage
    <3>1. u # t /\ task'[u] = base[u]
      BY <1>6, <2>2, <2>5
    <3>2. base[u].msg # head
      BY <1>3, <2>5, <3>1 DEF Spots
    <3>3. QED
      BY <2>1, <2>5, <3>1, <3>2
  <2>6. ASSUME NEW m \in Delivered PROVE fate'[m] # "unsent"
    <3>1. m # head /\ fate[m] # "unsent"
      BY <1>3, <2>6 DEF Spots
    <3>2. QED
      BY <2>1, <3>1
  <2>7. Spots(Sent, ToSet(queue'), Delivered, task', fate')
    <3>1. ToSet(queue') \subseteq ToSet(queue)
      BY <1>3, <2>1
    <3>2. \A u \in Task : Carry(task'[u], Delivered) =>
               /\ Carry(base[u], Delivered) /\ task'[u].msg = base[u].msg
               /\ fate'[task'[u].msg] # "unsent"
               /\ task'[u].stage # "returning" =>
                     base[u].stage # "returning" /\ fate'[task'[u].msg] = fate[task'[u].msg]
      BY <2>5 DEF Spots
    <3>3. QED
      BY <2>4, <2>6, <3>1, <3>2, Fewer
  <2>8. QED
    BY <1>3, <1>4, <1>5, <1>7, <2>1, <2>7 DEF Placed, Single
<1>9. CASE ~IsCompact(head)
  <2>1. task' = [base EXCEPT ![t] = row("augment")] /\ queue' = queue /\ fate' = fate
    BY <1>9 DEF DispatchHead
  <2>2. task'[t] = row("augment") /\ \A u \in Task : u # t => task'[u] = base[u]
    BY <2>1
  <2> HIDE DEF row, head
  <2>3. \A u \in Task : Carry(task'[u], Delivered) => Carry(base[u], Delivered) /\ task'[u] = base[u]
    BY <1>6, <2>2
  <2>4. Spots(Sent, ToSet(queue'), Delivered, task', fate')
    BY <2>1, <2>3 DEF Spots
  <2>5. QED
    BY <1>2, <1>4, <1>5, <1>7, <2>1, <2>4 DEF Placed, Single
<1>10. QED
  BY <1>8, <1>9

LEMMA ReservePlaced ==
    ASSUME Typed, Single, NEW base, Spots(Sent, ToSet(queue), Delivered, base, fate),
           base \in [Task -> Row], UNCHANGED <<wire, transcript>>, NEW allowed, NEW flag,
           ReserveAndDispatch(allowed, base, flag)
    PROVE  Placed'
<1>1. CASE allowed /\ queue # <<>>
  BY <1>1, DispatchPlaced DEF ReserveAndDispatch
<1>2. CASE ~(allowed /\ queue # <<>>)
  <2>1. task' = base /\ queue' = queue /\ fate' = fate
    BY <1>2 DEF ReserveAndDispatch, queueVars
  <2>2. Sent' = Sent /\ Delivered' = Delivered /\ ToSet(queue)' = ToSet(queue)
    BY <2>1, PlacesKept DEF ToSet
  <2>3. Single'
    BY <2>1 DEF Single, Letters, Once, RunOnce
  <2>4. QED
    BY <2>1, <2>2, <2>3 DEF Placed
<1>3. QED
  BY <1>1, <1>2

LEMMA PlacedFacts ==
    ASSUME Typed, Placed
    PROVE  /\ task \in [Task -> Row] /\ Busy(task) /\ queue \in Seq(Msg) /\ fate \in [Msg -> Fate]
           /\ wire \in Seq([queued : BOOLEAN, msg : Msg]) /\ transcript \in Seq(Msg \cup {NoMsg})
           /\ Once(Letters(wire)) /\ Once(queue) /\ RunOnce(transcript)
           /\ Spots(Sent, ToSet(queue), Delivered, task, fate)
           /\ Letters(wire) \in Seq(Msg)
           /\ Sent \subseteq Msg /\ ToSet(queue) \subseteq Msg /\ Delivered \subseteq Msg
           /\ \A t \in Task : Carry(task[t], Delivered) => task[t].msg \in Msg
<1>1. /\ task \in [Task -> Row] /\ Busy(task) /\ queue \in Seq(Msg) /\ fate \in [Msg -> Fate]
      /\ wire \in Seq([queued : BOOLEAN, msg : Msg]) /\ transcript \in Seq(Msg \cup {NoMsg})
  BY DEF Typed, TypeOK, Row
<1>2. Letters(wire) \in Seq(Msg)
  <2>1. ASSUME NEW i \in 1..Len(wire) PROVE wire[i].msg \in Msg
    <3>1. wire[i] \in [queued : BOOLEAN, msg : Msg]
      BY <1>1, ElementOfSeq
    <3>2. QED
      BY <3>1
  <2>2. Letters(wire) = [i \in 1..Len(wire) |-> wire[i].msg] /\ Len(wire) \in Nat
    BY <1>1 DEF Letters
  <2>3. QED
    BY <2>1, <2>2
<1>3. Sent \subseteq Msg /\ ToSet(queue) \subseteq Msg
  BY <1>1, <1>2 DEF Sent, ToSet
<1>4. \A t \in Task : Carry(task[t], Delivered) => task[t].msg \in Msg
  BY <1>1 DEF Busy, Carry
<1>5. QED
  BY <1>1, <1>2, <1>3, <1>4 DEF Placed, Single, Delivered

LEMMA PlacedInit == Init => Placed
<1> SUFFICES ASSUME Init PROVE Placed
  OBVIOUS
<1>1. Letters(wire) = <<>>
  BY DEF Init, Letters
<1>2. Sent = {} /\ ToSet(queue) = {} /\ Delivered = {} /\ Single
  BY <1>1, Empties DEF Init, Sent, Delivered, Single, RunOnce
<1>3. \A t \in Task : ~Carry(task[t], Delivered)
  BY DEF Init, FreeTask, Carry
<1>4. QED
  BY <1>2, <1>3 DEF Placed, Spots

\* Steps that leave the wire, the queue, the transcript and the fates alone, and
\* at most take a message from a dispatch.
LEMMA Resting ==
    ASSUME Typed, Placed, UNCHANGED <<wire, queue, transcript, fate>>,
           \A t \in Task : Carry(task'[t], Delivered) =>
               /\ Carry(task[t], Delivered) /\ task'[t].msg = task[t].msg
               /\ task'[t].stage # "returning" => task[t].stage # "returning"
    PROVE  Placed'
<1>1. Once(queue') /\ ToSet(queue') \subseteq ToSet(queue)
  BY DEF Placed, Single
<1>2. \A t \in Task : Carry(task[t], Delivered) => fate[task[t].msg] # "unsent"
  BY DEF Placed, Spots
<1>3. \A m \in Delivered : fate[m] # "unsent"
  BY DEF Placed, Spots
<1>4. QED
  BY <1>1, <1>2, <1>3, FewerPlaced

\* The same when one row changes.
LEMMA RestingRow ==
    ASSUME Typed, Placed, UNCHANGED <<wire, queue, transcript, fate>>,
           NEW t \in Task, NEW r, task' = [task EXCEPT ![t] = r],
           Carry(r, Delivered) =>
               /\ Carry(task[t], Delivered) /\ r.msg = task[t].msg
               /\ r.stage # "returning" => task[t].stage # "returning"
    PROVE  Placed'
<1>1. task'[t] = r /\ \A u \in Task : u # t => task'[u] = task[u]
  BY PlacedFacts
<1>2. QED
  BY <1>1, Resting

LEMMA FreeRowCarries == ASSUME NEW D PROVE ~Carry(FreeTask, D)
  BY DEF Carry, FreeTask

LEMMA FreeCarries == ~Carry(FreeTask, Delivered)
  BY FreeRowCarries

\* A dispatch that changes its stage.
LEMMA MoveRow ==
    ASSUME Typed, NEW t \in Task, NEW s, Move(t, s)
    PROVE  /\ task' = [task EXCEPT ![t] = [task[t] EXCEPT !.stage = s]]
           /\ LET r == [task[t] EXCEPT !.stage = s] IN
                 r.stage = s /\ r.msg = task[t].msg /\ r.direct = task[t].direct
                 /\ r.started = task[t].started
           /\ task[t] \in Row
  BY TypedFacts DEF Move, Row

LEMMA PlacedTask == ASSUME NEW t \in Task PROVE Typed /\ Placed /\ TaskStep(t) => Placed'
<1> SUFFICES ASSUME Typed, Placed, TaskStep(t) PROVE Placed'
  OBVIOUS
<1> DEFINE Moving(s) == [task[t] EXCEPT !.stage = s]
<1>1. CASE PromptDirect(t)
  <2>1. Carry(task[t], Delivered) /\ Move(t, "preflight") /\ task[t].stage # "returning"
    BY <1>1 DEF PromptDirect, Carry
  <2>2. UNCHANGED <<wire, queue, transcript, fate>>
    BY <1>1 DEF PromptDirect, queueVars, sdkVars, histVars
  <2>3. /\ task' = [task EXCEPT ![t] = Moving("preflight")]
        /\ Moving("preflight").msg = task[t].msg
    BY <2>1, MoveRow
  <2> HIDE DEF Moving
  <2>4. QED
    BY <2>1, <2>2, <2>3, RestingRow
<1>2. CASE PromptRefused(t)
  <2>1. Carry(task[t], Delivered) /\ Move(t, "rejected") /\ task[t].stage # "returning"
    BY <1>2 DEF PromptRefused, Carry
  <2>2. UNCHANGED <<wire, queue, transcript, fate>>
    BY <1>2 DEF PromptRefused, queueVars, sdkVars, histVars
  <2>3. /\ task' = [task EXCEPT ![t] = Moving("rejected")]
        /\ Moving("rejected").msg = task[t].msg
    BY <2>1, MoveRow
  <2> HIDE DEF Moving
  <2>4. QED
    BY <2>1, <2>2, <2>3, RestingRow
<1>3. CASE DirectRejected(t)
  <2> DEFINE x == task[t].msg
  <2>1. /\ task' = [task EXCEPT ![t] = FreeTask] /\ UNCHANGED <<wire, queue, transcript>>
        /\ fate' = IF x \in Delivered THEN fate ELSE [fate EXCEPT ![x] = "refused"]
    BY <1>3 DEF DirectRejected, queueVars, sdkVars
  <2>2. CASE x \in Delivered
    BY <2>1, <2>2, FreeCarries, RestingRow
  <2>3. CASE x \notin Delivered
    <3>1. Carry(task[t], Delivered)
      BY <1>3, <2>3 DEF DirectRejected, Carry
    <3>2. x \in Msg /\ fate' = [fate EXCEPT ![x] = "refused"]
      BY <2>1, <2>3, <3>1, PlacedFacts
    <3>3. task'[t] = FreeTask /\ \A u \in Task : u # t => task'[u] = task[u]
      BY <2>1, PlacedFacts
    <3>4. \A m : m # x => fate'[m] = fate[m]
      BY <3>2
    <3>5. x \notin Sent \cup ToSet(queue) /\ (\A u \in Task : Carry(task[u], Delivered) /\ task[u].msg = x => u = t)
      BY <3>1 DEF Placed, Spots
    <3> HIDE DEF x
    <3>6. \A u \in Task : Carry(task'[u], Delivered) =>
               /\ Carry(task[u], Delivered) /\ task'[u].msg = task[u].msg
               /\ fate'[task'[u].msg] # "unsent"
               /\ task'[u].stage # "returning" =>
                     task[u].stage # "returning" /\ fate'[task'[u].msg] = fate[task'[u].msg]
      <4>1. ASSUME NEW u \in Task, Carry(task'[u], Delivered)
            PROVE  task'[u] = task[u] /\ fate'[task[u].msg] = fate[task[u].msg]
        BY <3>3, <3>4, <3>5, <4>1, FreeCarries
      <4>2. \A u \in Task : Carry(task[u], Delivered) => fate[task[u].msg] # "unsent"
        BY DEF Placed, Spots
      <4>3. QED
        BY <4>1, <4>2
    <3>7. \A m \in Sent \cup ToSet(queue) : fate'[m] = fate[m]
      BY <3>4, <3>5
    <3>8. \A m \in Delivered : fate'[m] # "unsent"
      BY <2>3, <3>4 DEF Placed, Spots
    <3>9. Once(queue') /\ ToSet(queue') = ToSet(queue)
      BY <2>1 DEF Placed, Single
    <3>10. QED
      BY <2>1, <3>6, <3>7, <3>8, <3>9, FewerPlaced
  <2>4. QED
    BY <2>2, <2>3
<1>4. ASSUME queue' = queue, QueuedFinally(t, queue), UNCHANGED <<wire, transcript, fate>>
      PROVE  Placed'
  <2>1. task' = [task EXCEPT ![t] = FreeTask] \/ Move(t, "retry")
    BY <1>4 DEF QueuedFinally
  <2>2. CASE task' = [task EXCEPT ![t] = FreeTask]
    BY <1>4, <2>2, FreeCarries, RestingRow
  <2>3. CASE Move(t, "retry")
    <3>1. /\ task' = [task EXCEPT ![t] = Moving("retry")]
          /\ ~Carry(Moving("retry"), Delivered)
      BY <2>3, MoveRow DEF Carry
    <3> HIDE DEF Moving
    <3>2. QED
      BY <1>4, <3>1, RestingRow
  <2>4. QED
    BY <2>1, <2>2, <2>3
<1>5. CASE PromptReturns(t)
  <2>1. CASE task[t].direct
    <3>1. task' = [task EXCEPT ![t] = FreeTask] /\ UNCHANGED <<wire, queue, transcript, fate>>
      BY <1>5, <2>1 DEF PromptReturns, queueVars, sdkVars, histVars
    <3>2. QED
      BY <3>1, FreeCarries, RestingRow
  <2>2. CASE ~task[t].direct
    BY <1>4, <1>5, <2>2 DEF PromptReturns, QueuedFinally, sdkVars, histVars
  <2>3. QED
    BY <2>1, <2>2
<1>6. CASE QueuedRejected(t)
  <2>1. CASE task[t].started
    BY <1>4, <1>6, <2>1 DEF QueuedRejected, QueuedFinally, queueAfterRejection, sdkVars, histVars
  <2>2. CASE ~task[t].started
    <3> DEFINE x == task[t].msg
    <3>1. /\ Carry(task[t], Delivered) /\ task[t].stage # "returning"
          /\ UNCHANGED <<wire, transcript, fate>> /\ queue' = <<x>> \o queue
      BY <1>6, <2>2 DEF QueuedRejected, Carry, QueuedFinally, queueAfterRejection, sdkVars, histVars
    <3>2. x \in Msg /\ x \notin Sent \cup ToSet(queue) \cup Delivered /\ fate[x] = "pending"
      BY <3>1, PlacedFacts DEF Spots
    <3>3. Once(queue') /\ ToSet(queue') = ToSet(queue) \cup {x}
      BY <3>1, <3>2, PlacedFacts, Pushed
    <3>4. /\ ~Carry(task'[t], Delivered)
          /\ \A u \in Task : u # t => task'[u] = task[u]
      <4>1. task' = [task EXCEPT ![t] = FreeTask] \/ Move(t, "retry")
        BY <1>6 DEF QueuedRejected, QueuedFinally
      <4>2. CASE task' = [task EXCEPT ![t] = FreeTask]
        BY <4>2, FreeCarries, PlacedFacts
      <4>3. CASE Move(t, "retry")
        <5>1. /\ task' = [task EXCEPT ![t] = Moving("retry")]
              /\ ~Carry(Moving("retry"), Delivered)
          BY <4>3, MoveRow DEF Carry
        <5> HIDE DEF Moving
        <5>2. QED
          BY <5>1, PlacedFacts
      <4>4. QED
        BY <4>1, <4>2, <4>3
    <3>5. \A u \in Task : Carry(task[u], Delivered) /\ task[u].msg = x => u = t
      BY <3>1 DEF Placed, Spots
    <3> HIDE DEF x
    <3>6. Spots(Sent, ToSet(queue'), Delivered, task', fate')
      BY <3>1, <3>2, <3>3, <3>4, <3>5, PlacedFacts DEF Spots
    <3>7. Sent' = Sent /\ Delivered' = Delivered /\ ToSet(queue)' = ToSet(queue')
      BY <3>1, PlacesKept DEF ToSet
    <3>8. Single'
      BY <3>1, <3>3, PlacedFacts DEF Single, Letters, RunOnce, Once
    <3>9. QED
      BY <3>6, <3>7, <3>8 DEF Placed
  <2>3. QED
    BY <2>1, <2>2
<1>7. /\ [task EXCEPT ![t] = FreeTask] \in [Task -> Row]
      /\ Spots(Sent, ToSet(queue), Delivered, [task EXCEPT ![t] = FreeTask], fate)
  <2> DEFINE base == [task EXCEPT ![t] = FreeTask]
  <2>1. /\ base \in [Task -> Row]
        /\ base[t] = FreeTask /\ \A u \in Task : u # t => base[u] = task[u]
    BY PlacedFacts, FreeRow
  <2> HIDE DEF base
  <2>2. \A u \in Task : Carry(base[u], Delivered) => Carry(task[u], Delivered) /\ base[u] = task[u]
    BY <2>1, FreeCarries
  <2>3. Spots(Sent, ToSet(queue), Delivered, base, fate)
    BY <2>2 DEF Placed, Spots
  <2>4. QED
    BY <2>1, <2>3 DEF base
<1>8. CASE Retry(t)
  BY <1>7, <1>8, ReservePlaced DEF Retry, Placed, sdkVars
<1>9. CASE CompactReturns(t)
  BY <1>7, <1>9, ReservePlaced DEF CompactReturns, Placed, sdkVars
<1>10. CASE PromptQueued(t)
  <2>1. UNCHANGED <<wire, transcript>>
    BY <1>10 DEF PromptQueued, sdkVars
  <2>2. CASE HeadIs(t)
    <3> DEFINE x == Head(queue)
               r == [task[t] EXCEPT !.stage = "preflight", !.msg = x]
    <3>1. queue # <<>>
      <4>1. TextOf[task[t].msg] \in Text
        BY <1>10, PlacedFacts, TextType DEF PromptQueued, Busy
      <4>2. QED
        BY <2>2, <4>1, MessageAssumption DEF HeadIs, HeadText
    <3>2. queue' = Tail(queue) /\ fate' = fate /\ task' = [task EXCEPT ![t] = r]
      BY <1>10, <2>2, PlacedFacts DEF PromptQueued, histVars
    <3>3. r.stage = "preflight" /\ r.msg = x
      BY PlacedFacts DEF Row
    <3>4. ~Carry(task[t], Delivered)
      BY <1>10 DEF PromptQueued, Carry
    <3> HIDE DEF r
    <3>5. task'[t] = r /\ \A u \in Task : u # t => task'[u] = task[u]
      BY <3>2, PlacedFacts
    <3>6. /\ x \in ToSet(queue) /\ ToSet(queue') = ToSet(queue) \ {x} /\ Once(queue')
      BY <3>1, <3>2, Tailed, PlacedFacts
    <3> HIDE DEF x
    <3>7. Spots(Sent, ToSet(queue'), Delivered, task', fate')
      BY <3>2, <3>3, <3>4, <3>5, <3>6, PlacedFacts DEF Spots
    <3>8. Sent' = Sent /\ Delivered' = Delivered /\ ToSet(queue)' = ToSet(queue')
      BY <2>1, PlacesKept DEF ToSet
    <3>9. Single'
      BY <2>1, <3>6, PlacedFacts DEF Single, Letters, RunOnce, Once
    <3>10. QED
      BY <3>7, <3>8, <3>9 DEF Placed
  <2>3. CASE ~HeadIs(t) /\ queue = <<>>
    <3>1. task' = [task EXCEPT ![t] = FreeTask] /\ UNCHANGED <<wire, queue, transcript, fate>>
      BY <1>10, <2>1, <2>3 DEF PromptQueued, queueVars
    <3>2. QED
      BY <3>1, FreeCarries, RestingRow
  <2>4. CASE ~HeadIs(t) /\ queue # <<>>
    <3>1. DispatchHead(t, task)
      BY <1>10, <2>4 DEF PromptQueued
    <3>2. QED
      BY <2>1, <2>4, <3>1, DispatchPlaced, PlacedFacts DEF Placed
  <2>5. QED
    BY <2>2, <2>3, <2>4
<1>11. QED
  BY <1>1, <1>2, <1>3, <1>5, <1>6, <1>8, <1>9, <1>10 DEF TaskStep

LEMMA LettersAppend ==
    ASSUME NEW w \in Seq([queued : BOOLEAN, msg : Msg]), NEW c \in [queued : BOOLEAN, msg : Msg]
    PROVE  Letters(Append(w, c)) = Append(Letters(w), c.msg)
<1> DEFINE v == Append(w, c)
           n == Len(w)
<1>1. /\ n \in Nat /\ DOMAIN w = 1..n /\ DOMAIN v = 1..(n + 1)
      /\ \A i \in 1..n : v[i] = w[i]
      /\ v[n + 1] = c
  BY AppendProperties, LenProperties
<1>2. Letters(w) \in Seq({w[i].msg : i \in DOMAIN w}) /\ Len(Letters(w)) = n
  BY <1>1 DEF Letters
<1>3. ASSUME NEW i \in 1..(n + 1) PROVE Letters(v)[i] = Append(Letters(w), c.msg)[i]
  BY <1>1, <1>2, <1>3 DEF Letters
<1>4. DOMAIN Letters(v) = 1..(n + 1) /\ DOMAIN Append(Letters(w), c.msg) = 1..(n + 1)
  BY <1>1, <1>2 DEF Letters
<1>5. QED
  BY <1>3, <1>4 DEF Letters

LEMMA LettersTail ==
    ASSUME NEW w \in Seq([queued : BOOLEAN, msg : Msg]), w # <<>>
    PROVE  /\ Letters(Tail(w)) = Tail(Letters(w)) /\ Letters(w) # <<>>
           /\ Head(Letters(w)) = Head(w).msg
<1> DEFINE v == Tail(w)
           n == Len(w)
           l == Letters(w)
<1>1. /\ n \in Nat /\ n >= 1 /\ DOMAIN w = 1..n /\ DOMAIN v = 1..(n - 1)
      /\ \A i \in 1..(n - 1) : v[i] = w[i + 1]
      /\ Head(w) = w[1]
  <2>1. n \in Nat /\ n >= 1 /\ DOMAIN w = 1..n
    BY LenProperties, EmptySeq
  <2>2. v \in Seq([queued : BOOLEAN, msg : Msg]) /\ Len(v) = n - 1 /\ \A i \in 1..(n - 1) : v[i] = w[i + 1]
    BY HeadTailProperties
  <2>3. QED
    BY <2>1, <2>2, LenProperties
<1>2. /\ l \in Seq({w[i].msg : i \in DOMAIN w}) /\ Len(l) = n
      /\ \A i \in 1..n : l[i] = w[i].msg
  BY <1>1 DEF Letters
<1> HIDE DEF l, v, n
<1>3. l # <<>> /\ Head(l) = l[1]
  BY <1>1, <1>2
<1>4. /\ Tail(l) \in Seq({w[i].msg : i \in DOMAIN w}) /\ Len(Tail(l)) = n - 1
      /\ \A i \in 1..(n - 1) : Tail(l)[i] = l[i + 1]
  BY <1>2, <1>3, HeadTailProperties
<1>5. DOMAIN Tail(l) = 1..(n - 1)
  BY <1>4, LenProperties
<1>6. ASSUME NEW i \in 1..(n - 1) PROVE Tail(l)[i] = v[i].msg
  <2>1. i + 1 \in 1..n
    BY <1>1
  <2>2. QED
    BY <1>1, <1>2, <1>4, <2>1
<1>7. /\ Letters(v) = [i \in 1..(n - 1) |-> v[i].msg]
      /\ \A i \in 1..(n - 1) : v[i].msg \in {w[k].msg : k \in DOMAIN w}
  <2>1. ASSUME NEW i \in 1..(n - 1) PROVE i + 1 \in DOMAIN w /\ v[i].msg = w[i + 1].msg
    BY <1>1
  <2>2. QED
    BY <1>1, <2>1 DEF Letters
<1>8. Letters(v) \in Seq({w[i].msg : i \in DOMAIN w}) /\ Len(Letters(v)) = n - 1
  BY <1>1, <1>7
<1>9. Letters(v) = Tail(l)
  BY <1>4, <1>6, <1>7, <1>8, SeqEqual
<1>10. l[1] = w[1].msg
  BY <1>1, <1>2
<1>11. QED
  BY <1>1, <1>3, <1>9, <1>10 DEF l, v

\* What one more user message makes of the transcript.
LEMMA Spoken ==
    ASSUME Typed, Placed, NEW m \in Msg \cup {NoMsg}, m \notin Delivered,
           transcript' = Append(transcript, m)
    PROVE  RunOnce(transcript') /\ Delivered' = Delivered \cup ({m} \cap Msg)
<1> DEFINE n == Len(transcript)
<1>1. /\ n \in Nat /\ DOMAIN transcript = 1..n /\ DOMAIN transcript' = 1..(n + 1)
      /\ \A i \in 1..n : transcript'[i] = transcript[i]
      /\ transcript'[n + 1] = m
  BY AppendProperties, LenProperties, PlacedFacts
<1> HIDE DEF n
<1>2. Delivered' = Delivered \cup ({m} \cap Msg)
  BY <1>1 DEF Delivered
<1>3. \A i \in 1..n : transcript[i] = m => m \notin Msg
  BY <1>1 DEF Delivered
<1>4. RunOnce(transcript')
  <2>1. \A i, j \in 1..n : transcript[i] = transcript[j] /\ transcript[i] \in Msg => i = j
    BY <1>1, PlacedFacts DEF RunOnce
  <2>2. ASSUME NEW i \in 1..(n + 1), NEW j \in 1..(n + 1), transcript'[i] = transcript'[j],
               transcript'[i] \in Msg
        PROVE  i = j
    <3>1. CASE i \in 1..n /\ j \in 1..n
      BY <1>1, <2>1, <2>2, <3>1
    <3>2. CASE i = n + 1 /\ j \in 1..n
      BY <1>1, <1>3, <2>2, <3>2
    <3>3. CASE i \in 1..n /\ j = n + 1
      BY <1>1, <1>3, <2>2, <3>3
    <3>4. CASE i = n + 1 /\ j = n + 1
      BY <3>4
    <3>5. (i \in 1..n \/ i = n + 1) /\ (j \in 1..n \/ j = n + 1)
      BY <1>1
    <3>6. QED
      BY <3>1, <3>2, <3>3, <3>4, <3>5
  <2>3. QED
    BY <1>1, <2>2 DEF RunOnce
<1>5. QED
  BY <1>2, <1>4

LEMMA Slipped ==
    ASSUME Typed, Placed, transcript' = Append(transcript, NoMsg)
    PROVE  RunOnce(transcript') /\ Delivered' = Delivered
<1>1. NoMsg \notin Msg /\ NoMsg \notin Delivered
  BY MessageAssumption DEF Delivered
<1>2. RunOnce(transcript') /\ Delivered' = Delivered \cup ({NoMsg} \cap Msg)
  BY <1>1, Spoken
<1>3. QED
  BY <1>1, <1>2

LEMMA SetsOf == ToSet(queue)' = ToSet(queue') /\ Sent' = ToSet(Letters(wire'))
  BY DEF ToSet, Sent, Letters

\* A message the user has not sent is nowhere.
LEMMA UnsentNowhere ==
    ASSUME Typed, Placed, NEW m \in Msg, fate[m] = "unsent"
    PROVE  /\ m \notin Sent \cup ToSet(queue) \cup Delivered
           /\ \A t \in Task : Carry(task[t], Delivered) => task[t].msg # m
  BY DEF Placed, Spots

LEMMA PlacedClient == Typed /\ Placed /\ ClientStep => Placed'
<1> SUFFICES ASSUME Typed, Placed, ClientStep PROVE Placed'
  OBVIOUS
<1>1. ASSUME NEW m \in Msg, Submit(m) PROVE Placed'
  <2>1. PICK b \in BOOLEAN : wire' = Append(wire, [queued |-> b, msg |-> m])
    BY <1>1 DEF Submit, Typed, TypeOK
  <2>2. UNCHANGED <<queue, task, transcript>> /\ fate' = [fate EXCEPT ![m] = "pending"]
    BY <1>1 DEF Submit, queueVars, sdkVars
  <2>3. /\ m \notin Sent \cup ToSet(queue) \cup Delivered
        /\ \A t \in Task : Carry(task[t], Delivered) => task[t].msg # m
    BY <1>1, UnsentNowhere DEF Submit
  <2>4. Letters(wire') = Append(Letters(wire), m)
    BY <2>1, LettersAppend, PlacedFacts
  <2>5. Sent' = Sent \cup {m} /\ Once(Letters(wire'))
    BY <2>3, <2>4, Appended, SetsOf, PlacedFacts DEF Sent
  <2>6. Delivered' = Delivered /\ ToSet(queue)' = ToSet(queue)
    BY <2>2 DEF Delivered, ToSet
  <2>7. fate'[m] = "pending" /\ \A n : n # m => fate'[n] = fate[n]
    BY <2>2, PlacedFacts
  <2>8. Spots(Sent', ToSet(queue), Delivered, task, fate')
    BY <2>3, <2>5, <2>7, PlacedFacts, ZenonT(60) DEF Spots
  <2>9. Single'
    BY <2>2, <2>5, PlacedFacts DEF Single, Letters, Once, RunOnce
  <2>10. QED
    BY <2>2, <2>6, <2>8, <2>9 DEF Placed
<1>2. ASSUME NEW i \in DOMAIN queue, RemoveQueued(i) PROVE Placed'
  <2> DEFINE x == queue[i]
  <2>1. /\ UNCHANGED <<wire, task, transcript>> /\ queue' = RemoveAt(queue, i)
        /\ fate' = [fate EXCEPT ![x] = "withdrawn"]
    BY <1>2 DEF RemoveQueued, ApplyQueueControl, sdkVars
  <2>2. /\ x \in ToSet(queue) /\ ToSet(queue') \subseteq ToSet(queue)
        /\ Once(queue') /\ x \notin ToSet(queue')
    BY <2>1, Cut, InSet, PlacedFacts
  <2> HIDE DEF x
  <2>3. \A n : n # x => fate'[n] = fate[n]
    BY <2>1
  <2>4. /\ x \notin Sent \cup Delivered
        /\ \A t \in Task : Carry(task[t], Delivered) => task[t].msg # x
    BY <2>2 DEF Placed, Spots
  <2>5. \A t \in Task : Carry(task[t], Delivered) => fate'[task[t].msg] # "unsent"
                                              /\ fate'[task[t].msg] = fate[task[t].msg]
    BY <2>3, <2>4 DEF Placed, Spots
  <2>6. \A n \in Sent \cup ToSet(queue') : fate'[n] = fate[n]
    BY <2>2, <2>3, <2>4
  <2>7. \A n \in Delivered : fate'[n] # "unsent"
    BY <2>3, <2>4 DEF Placed, Spots
  <2>8. QED
    BY <2>1, <2>2, <2>5, <2>6, <2>7, FewerPlaced
<1>3. ASSUME NEW i \in DOMAIN queue, NEW m \in Msg, EditQueued(i, m) PROVE Placed'
  <2> DEFINE x == queue[i]
  <2>1. /\ UNCHANGED <<wire, task, transcript>> /\ queue' = ReplaceAt(queue, i, m)
        /\ fate' = [fate EXCEPT ![x] = "withdrawn", ![m] = "pending"]
        /\ fate[m] = "unsent"
    BY <1>3 DEF EditQueued, ApplyQueueControl, sdkVars
  <2>2. /\ m \notin Sent \cup ToSet(queue) \cup Delivered
        /\ \A t \in Task : Carry(task[t], Delivered) => task[t].msg # m
    BY <2>1, UnsentNowhere
  <2>3. x \in ToSet(queue) /\ queue' = Renamed(queue, x, m)
    BY <2>1, InSet, Replaced, PlacedFacts
  <2> HIDE DEF x
  <2>4. ToSet(queue') = (ToSet(queue) \ {x}) \cup {m} /\ Once(queue')
    BY <2>2, <2>3, Renaming, PlacedFacts
  <2>5. fate'[m] = "pending" /\ \A n \in Msg : n # x /\ n # m => fate'[n] = fate[n]
    <3>1. fate \in [Msg -> Fate]
      BY PlacedFacts
    <3>2. QED
      BY <2>1, <3>1
  <2>6. Spots(Sent, ToSet(queue'), Delivered, task, fate')
    <3>1. /\ x \notin Sent \cup Delivered
          /\ \A t \in Task : Carry(task[t], Delivered) => task[t].msg # x
      BY <2>3 DEF Placed, Spots
    <3>2. \A n \in Sent \cup ToSet(queue') : fate'[n] = "pending"
      BY <2>2, <2>4, <2>5, <3>1, PlacedFacts DEF Spots
    <3>3. \A n \in Delivered : fate'[n] = fate[n]
      BY <2>2, <2>5, <3>1, PlacedFacts
    <3>4. \A t \in Task : Carry(task[t], Delivered) => fate'[task[t].msg] = fate[task[t].msg]
      BY <2>2, <2>5, <3>1, PlacedFacts
    <3>5. QED
      BY <2>2, <2>4, <3>2, <3>3, <3>4, PlacedFacts DEF Spots
  <2>7. Single'
    BY <2>1, <2>4, PlacedFacts DEF Single, Letters, RunOnce, Once
  <2>8. QED
    BY <2>1, <2>6, <2>7, PlacesKept, SetsOf DEF Placed
<1>4. ASSUME CancelQueue PROVE Placed'
  <2>1. /\ UNCHANGED <<wire, task, transcript>> /\ queue' = <<>>
        /\ fate' = [m \in Msg |-> IF m \in ToSet(queue) THEN "withdrawn" ELSE fate[m]]
    BY <1>4 DEF CancelQueue, ApplyQueueControl, sdkVars
  <2>2. ToSet(queue') = {} /\ Once(queue')
    BY <2>1, Empties
  <2>3. \A n \in Msg : n \notin ToSet(queue) => fate'[n] = fate[n]
    BY <2>1
  <2>4. \A n \in Sent \cup Delivered : fate'[n] = fate[n]
    BY <2>3, PlacedFacts DEF Spots
  <2>5. \A t \in Task : Carry(task[t], Delivered) => fate'[task[t].msg] = fate[task[t].msg]
    BY <2>3, PlacedFacts DEF Spots
  <2>6. \A t \in Task : Carry(task[t], Delivered) => fate'[task[t].msg] # "unsent"
    BY <2>5 DEF Placed, Spots
  <2>7. \A n \in Delivered : fate'[n] # "unsent"
    BY <2>4 DEF Placed, Spots
  <2>8. \A n \in Sent \cup ToSet(queue') : fate'[n] = fate[n]
    BY <2>2, <2>4
  <2>9. QED
    BY <2>1, <2>2, <2>5, <2>6, <2>7, <2>8, FewerPlaced
<1>5. ASSUME Steer PROVE Placed'
  <2>1. UNCHANGED <<wire, queue, task, fate>> /\ transcript' = Append(transcript, NoMsg)
    BY <1>5 DEF Steer, queueVars, histVars
  <2>2. Delivered' = Delivered /\ RunOnce(transcript')
    BY <2>1, PlacedFacts, Slipped
  <2>3. Single'
    BY <2>1, <2>2, PlacedFacts DEF Single, Letters, RunOnce, Once
  <2>4. Sent' = Sent /\ ToSet(queue)' = ToSet(queue)
    BY <2>1, SetsOf DEF Sent
  <2>5. QED
    BY <2>1, <2>2, <2>3, <2>4 DEF Placed
<1>6. QED
  BY <1>1, <1>2, <1>3, <1>4, <1>5 DEF ClientStep

LEMMA PlacedHost == Typed /\ Placed /\ HostReceives => Placed'
<1> SUFFICES ASSUME Typed, Placed, HostReceives PROVE Placed'
  OBVIOUS
<1> DEFINE x == Received
<1>1. wire # <<>> /\ wire' = Tail(wire) /\ UNCHANGED transcript
  BY DEF HostReceives, ReceivePrompt, ReceiveCompact, ReceiveQueue, sdkVars
<1>2. /\ x \in Sent /\ Once(Letters(wire')) /\ Sent' = Sent \ {x}
  <2>1. /\ Letters(wire') = Tail(Letters(wire)) /\ Letters(wire) # <<>>
        /\ Head(Letters(wire)) = x
    BY <1>1, LettersTail, PlacedFacts DEF Received
  <2>2. QED
    BY <2>1, Tailed, SetsOf, PlacedFacts DEF Sent
<1>3. Delivered' = Delivered
  BY <1>1 DEF Delivered
<1>4. /\ x \in Msg /\ x \notin ToSet(queue) \cup Delivered /\ fate[x] = "pending"
      /\ \A u \in Task : Carry(task[u], Delivered) => task[u].msg # x
  BY <1>2, PlacedFacts DEF Spots
<1> HIDE DEF x
<1>5. ASSUME Once(queue') PROVE Single'
  BY <1>1, <1>2, <1>5, PlacedFacts DEF Single, Letters, RunOnce, Once
<1>6. ASSUME QueueReceived PROVE Placed'
  <2>1. queue' = Append(queue, x) /\ task' = task /\ fate' = fate
    BY <1>6 DEF QueueReceived, ApplyQueueControl, x
  <2>2. ToSet(queue') = ToSet(queue) \cup {x} /\ Once(queue')
    BY <1>4, <2>1, Appended, PlacedFacts
  <2>3. Spots(Sent', ToSet(queue'), Delivered, task', fate')
    BY <1>2, <1>4, <2>1, <2>2, PlacedFacts DEF Spots
  <2>4. QED
    BY <1>3, <1>5, <2>2, <2>3, SetsOf DEF Placed
<1>7. ASSUME NEW t \in Task, task[t].stage = "free", queue' = queue, NEW r,
             task' = [task EXCEPT ![t] = r], r.msg = x, fate' = fate
      PROVE  Placed'
  <2>1. task'[t] = r /\ \A u \in Task : u # t => task'[u] = task[u]
    BY <1>7, PlacedFacts
  <2>2. ToSet(queue') = ToSet(queue) /\ Once(queue')
    BY <1>7, PlacedFacts
  <2>3. Spots(Sent', ToSet(queue'), Delivered, task', fate')
    BY <1>2, <1>4, <1>7, <2>1, <2>2, PlacedFacts DEF Spots
  <2>4. QED
    BY <1>3, <1>5, <2>2, <2>3, SetsOf DEF Placed
<1> DEFINE row(s) == [FreeTask EXCEPT !.stage = s, !.msg = x, !.direct = TRUE]
<1>8. \A s : row(s).msg = x /\ row(s).stage = s
  BY DEF FreeTask
<1>9. CASE ReceivePrompt
  <2>1. CASE isSessionBusy
    BY <1>6, <1>9, <2>1 DEF ReceivePrompt
  <2>2. CASE ~isSessionBusy
    <3>1. PICK t \in Task : task[t].stage = "free" /\ task' = [task EXCEPT ![t] = row("augment")]
      BY <1>9, <2>2 DEF ReceivePrompt, TasksIn, x
    <3>2. queue' = queue /\ fate' = fate
      BY <1>9, <2>2 DEF ReceivePrompt, queueVars
    <3> HIDE DEF row
    <3>3. QED
      BY <1>7, <1>8, <3>1, <3>2
  <2>3. QED
    BY <2>1, <2>2
<1>10. CASE ReceiveQueue
  BY <1>6, <1>10 DEF ReceiveQueue
<1>11. CASE ReceiveCompact
  <2>1. PICK t \in Task : task[t].stage = "free" /\ task' = [task EXCEPT ![t] = row("compactWait")]
    BY <1>11 DEF ReceiveCompact, TasksIn, x
  <2>2. queue' = queue /\ fate' = [fate EXCEPT ![x] = "handled"]
    BY <1>11 DEF ReceiveCompact, queueVars, x
  <2>3. ~Carry(row("compactWait"), Delivered)
    BY <1>8 DEF Carry
  <2> HIDE DEF row
  <2>4. \A u \in Task : Carry(task'[u], Delivered) => Carry(task[u], Delivered) /\ task'[u] = task[u]
    BY <2>1, <2>3, PlacedFacts
  <2>5. fate'[x] = "handled" /\ \A n : n # x => fate'[n] = fate[n]
    BY <1>4, <2>2, PlacedFacts
  <2>6. ToSet(queue') = ToSet(queue) /\ Once(queue')
    BY <2>2, PlacedFacts
  <2>7. Spots(Sent', ToSet(queue'), Delivered, task', fate')
    <3>1. \A u \in Task : Carry(task'[u], Delivered) =>
               /\ Carry(task[u], Delivered) /\ task'[u].msg = task[u].msg
               /\ fate'[task'[u].msg] # "unsent"
               /\ task'[u].stage # "returning" =>
                     task[u].stage # "returning" /\ fate'[task'[u].msg] = fate[task'[u].msg]
      BY <1>4, <2>4, <2>5 DEF Placed, Spots
    <3>2. \A m \in Sent' \cup ToSet(queue') : fate'[m] = fate[m]
      BY <1>2, <1>4, <2>5, <2>6
    <3>3. \A m \in Delivered : fate'[m] # "unsent"
      BY <1>4, <2>5 DEF Placed, Spots
    <3>4. Sent' \subseteq Sent /\ ToSet(queue') \subseteq ToSet(queue)
      BY <1>2, <2>6
    <3>5. QED
      BY <3>1, <3>2, <3>3, <3>4, Fewer DEF Placed
  <2>8. QED
    BY <1>3, <1>5, <2>6, <2>7, SetsOf DEF Placed
<1>12. QED
  BY <1>9, <1>10, <1>11 DEF HostReceives

\* The tasks after an agent_start: only "started" changes, of queued prompts whose
\* session.prompt is outstanding.
LEMMA WatchedCarry ==
    ASSUME Typed, NEW base \in [Task -> Row], AgentStarted(base)
    PROVE  \A t \in Task : /\ task'[t].stage = base[t].stage /\ task'[t].msg = base[t].msg
                           /\ task'[t].direct = base[t].direct
                           /\ task'[t].started = (base[t].started \/ t \in Watching)
<1>1. task' = [t \in Task |-> IF t \in Watching THEN [base[t] EXCEPT !.started = TRUE] ELSE base[t]]
  BY DEF AgentStarted
<1>2. ASSUME NEW t \in Task
      PROVE  /\ task'[t].stage = base[t].stage /\ task'[t].msg = base[t].msg
             /\ task'[t].direct = base[t].direct
             /\ task'[t].started = (base[t].started \/ t \in Watching)
  <2>1. base[t] \in Row
    OBVIOUS
  <2>2. CASE t \in Watching
    BY <1>1, <2>1, <2>2 DEF Row
  <2>3. CASE t \notin Watching
    BY <1>1, <2>1, <2>3 DEF Row
  <2>4. QED
    BY <2>2, <2>3
<1>3. QED
  BY <1>2

\* An agent_start takes a message from no dispatch to another.
LEMMA StartedCarry ==
    ASSUME Typed, AgentStarted(task), NEW t \in Task, NEW D, Carry(task'[t], D)
    PROVE  Carry(task[t], D) /\ task'[t].msg = task[t].msg /\ task'[t].stage = task[t].stage
<1>1. /\ task'[t].stage = task[t].stage /\ task'[t].msg = task[t].msg
      /\ task'[t].direct = task[t].direct /\ (task[t].started => task'[t].started)
  BY WatchedCarry, TypedFacts
<1>2. QED
  BY <1>1 DEF Carry

LEMMA PlacedEnv == Typed /\ Placed /\ EnvStep => Placed'
<1> SUFFICES ASSUME Typed, Placed, EnvStep PROVE Placed'
  OBVIOUS
<1>1. CASE OtherRunBegins
  <2>1. UNCHANGED <<wire, queue, fate>> /\ transcript' = Append(transcript, NoMsg) /\ AgentStarted(task)
    BY <1>1 DEF OtherRunBegins, histVars
  <2>2. Delivered' = Delivered /\ RunOnce(transcript')
    BY <2>1, Slipped
  <2>3. Sent' = Sent /\ ToSet(queue') = ToSet(queue)
    BY <2>1, SetsOf DEF Sent
  <2>4. Spots(Sent, ToSet(queue'), Delivered, task', fate')
    <3>1. \A t \in Task : Carry(task'[t], Delivered) =>
             Carry(task[t], Delivered) /\ task'[t].msg = task[t].msg /\ task'[t].stage = task[t].stage
      BY <2>1, StartedCarry
    <3>2. QED
      BY <2>1, <2>3, <3>1 DEF Placed, Spots
  <2>5. Single'
    BY <2>1, <2>2, PlacedFacts DEF Single, Letters, RunOnce, Once
  <2>6. QED
    BY <2>2, <2>3, <2>4, <2>5, SetsOf DEF Placed
<1>2. CASE AutoRetry
  <2>1. UNCHANGED <<wire, queue, fate, transcript>> /\ AgentStarted(task)
    BY <1>2 DEF AutoRetry, histVars
  <2>2. QED
    BY <2>1, StartedCarry, Resting
<1>3. ASSUME NEW t \in Task, Move(t, "rejected"), UNCHANGED <<wire, queue, transcript, fate>>,
             \/ task[t].stage = "preflight"
             \/ task[t].stage = "returning" /\ task[t].msg \in Delivered
      PROVE  Placed'
  <2> DEFINE r == [task[t] EXCEPT !.stage = "rejected"]
  <2>1. /\ task' = [task EXCEPT ![t] = r]
        /\ r.stage = "rejected" /\ r.msg = task[t].msg /\ r.direct = task[t].direct
        /\ r.started = task[t].started
    BY <1>3, MoveRow
  <2> HIDE DEF r
  <2>2. ASSUME Carry(r, Delivered) PROVE Carry(task[t], Delivered) /\ task[t].stage # "returning"
    <3>1. CASE task[t].stage = "preflight"
      BY <3>1 DEF Carry
    <3>2. CASE task[t].stage = "returning" /\ task[t].msg \in Delivered
      <4>1. Carry(task[t], Delivered)
        BY <2>1, <2>2, <3>2 DEF Carry
      <4>2. QED
        BY <3>2, <4>1 DEF Placed, Spots
    <3>3. QED
      BY <1>3, <3>1, <3>2
  <2>3. QED
    BY <1>3, <2>1, <2>2, RestingRow
<1>4. ASSUME NEW t \in Task, PromptFails(t) PROVE Placed'
  BY <1>3, <1>4 DEF PromptFails, queueVars, sdkVars, histVars
<1>5. ASSUME NEW t \in Task, NEW r, NEW how \in Fate \ {"unsent"}, task' = [task EXCEPT ![t] = r],
             Carry(task[t], Delivered), UNCHANGED <<wire, queue, transcript>>,
             fate' = [fate EXCEPT ![task[t].msg] = how],
             Carry(r, Delivered) => r.stage = "returning" /\ r.msg = task[t].msg
      PROVE  Placed'
  <2> DEFINE x == task[t].msg
  <2>1. task'[t] = r /\ \A u \in Task : u # t => task'[u] = task[u]
    BY <1>5, PlacedFacts
  <2>2. x \in Msg /\ x \notin Sent \cup ToSet(queue) \cup Delivered
        /\ \A u \in Task : Carry(task[u], Delivered) /\ task[u].msg = x => u = t
    BY <1>5, PlacedFacts DEF Spots
  <2>3. fate'[x] = how /\ \A n : n # x => fate'[n] = fate[n]
    BY <1>5, <2>2, PlacedFacts
  <2> HIDE DEF x
  <2>4. \A u \in Task : Carry(task'[u], Delivered) =>
               /\ Carry(task[u], Delivered) /\ task'[u].msg = task[u].msg
               /\ fate'[task'[u].msg] # "unsent"
               /\ task'[u].stage # "returning" =>
                     task[u].stage # "returning" /\ fate'[task'[u].msg] = fate[task'[u].msg]
    <3>1. ASSUME NEW u \in Task, Carry(task'[u], Delivered), u # t
          PROVE  /\ Carry(task[u], Delivered) /\ task'[u] = task[u]
                 /\ fate'[task[u].msg] = fate[task[u].msg] /\ fate[task[u].msg] # "unsent"
      <4>1. Carry(task[u], Delivered) /\ task'[u] = task[u]
        BY <2>1, <3>1
      <4>2. task[u].msg # x
        BY <2>2, <3>1, <4>1
      <4>3. QED
        BY <2>3, <4>1, <4>2 DEF Placed, Spots
    <3>2. Carry(task'[t], Delivered) =>
             /\ task'[t].stage = "returning" /\ task'[t].msg = task[t].msg
             /\ fate'[task'[t].msg] # "unsent"
      BY <1>5, <2>1, <2>3 DEF x
    <3>3. QED
      BY <1>5, <3>1, <3>2
  <2>5. \A n \in Sent \cup ToSet(queue') : fate'[n] = fate[n]
    BY <1>5, <2>2, <2>3
  <2>6. \A n \in Delivered : fate'[n] # "unsent"
    BY <2>2, <2>3 DEF Placed, Spots
  <2>7. Once(queue') /\ ToSet(queue') = ToSet(queue)
    BY <1>5, PlacedFacts
  <2>8. QED
    BY <1>5, <2>4, <2>5, <2>6, <2>7, FewerPlaced
<1>6. ASSUME NEW t \in Task, PrepareFails(t) PROVE Placed'
  <2>1. task' = [task EXCEPT ![t] = FreeTask] /\ UNCHANGED <<wire, queue, transcript>>
    BY <1>6 DEF PrepareFails, queueVars, sdkVars
  <2>2. CASE task[t].direct
    <3>1. Carry(task[t], Delivered) /\ fate' = [fate EXCEPT ![task[t].msg] = "refused"]
      BY <1>6, <2>2 DEF PrepareFails, Carry
    <3>2. QED
      BY <1>5, <2>1, <3>1, FreeCarries DEF Fate
  <2>3. CASE ~task[t].direct
    <3>1. fate' = fate
      BY <1>6, <2>3 DEF PrepareFails
    <3>2. QED
      BY <2>1, <3>1, FreeCarries, RestingRow
  <2>4. QED
    BY <2>2, <2>3
<1>7. ASSUME NEW t \in Task, CommandHandled(t) PROVE Placed'
  <2> DEFINE r == [task[t] EXCEPT !.stage = "returning"]
  <2>1. /\ Move(t, "returning") /\ UNCHANGED <<wire, queue, transcript>>
        /\ Carry(task[t], Delivered) /\ fate' = [fate EXCEPT ![task[t].msg] = "handled"]
    BY <1>7 DEF CommandHandled, Carry, queueVars, sdkVars
  <2>2. task' = [task EXCEPT ![t] = r] /\ r.stage = "returning" /\ r.msg = task[t].msg
    BY <2>1, MoveRow
  <2> HIDE DEF r
  <2>3. QED
    BY <1>5, <2>1, <2>2 DEF Fate
<1>8. QED
  BY <1>1, <1>2, <1>4, <1>6, <1>7 DEF EnvStep

\* The tasks after agent_settled and after a compaction.
LEMMA SettledCarry ==
    ASSUME NEW r \in Row, NEW D,
           Carry(IF r.stage = "running" THEN [r EXCEPT !.stage = "returning"] ELSE r, D)
    PROVE  /\ Carry(r, D)
           /\ (IF r.stage = "running" THEN [r EXCEPT !.stage = "returning"] ELSE r).msg = r.msg
  BY DEF Carry, Row

LEMMA CompactedCarry ==
    ASSUME NEW r \in Row, NEW D, Carry(AfterCompaction(r), D)
    PROVE  Carry(r, D) /\ AfterCompaction(r).msg = r.msg
                       /\ (AfterCompaction(r).stage # "returning" => r.stage # "returning")
<1>1. CASE r.stage = "preCompact"
  BY <1>1 DEF AfterCompaction, Carry, Row
<1>2. CASE r.stage = "compact" /\ ~r.direct
  BY <1>2 DEF AfterCompaction, Carry, Row
<1>3. CASE r.stage = "compact" /\ r.direct
  BY <1>3, FreeRowCarries DEF AfterCompaction
<1>4. CASE r.stage \notin {"preCompact", "compact"}
  BY <1>4 DEF AfterCompaction
<1>5. QED
  BY <1>1, <1>2, <1>3, <1>4 DEF Row

LEMMA PlacedSdk == Typed /\ Placed /\ SdkStep => Placed'
<1> SUFFICES ASSUME Typed, Placed, SdkStep PROVE Placed'
  OBVIOUS
<1>1. ASSUME NEW t \in Task, RunBegins(t) PROVE Placed'
  <2> DEFINE x == task[t].msg
             base == [task EXCEPT ![t].stage = "running"]
  <2>1. /\ task[t].stage = "preflight" /\ AgentStarted(base) /\ UNCHANGED <<wire, queue, fate>>
        /\ transcript' = Append(transcript, x)
    BY <1>1 DEF RunBegins, histVars
  <2>2. /\ base \in [Task -> Row] /\ base[t].stage = "running" /\ base[t].direct = task[t].direct
        /\ \A u \in Task : u # t => base[u] = task[u]
    <3>1. task \in [Task -> Row] /\ task[t] \in Row
      BY PlacedFacts
    <3>2. [task[t] EXCEPT !.stage = "running"] \in Row
      BY <3>1 DEF Row, Stage
    <3>3. base[t] = [task[t] EXCEPT !.stage = "running"]
      BY <3>1
    <3>4. \A u \in Task : u # t => base[u] = task[u]
      BY <3>1
    <3>5. base \in [Task -> Row]
      BY <3>1, <3>2
    <3>6. base[t].stage = "running" /\ base[t].direct = task[t].direct
      BY <3>1, <3>3 DEF Row
    <3>7. QED
      BY <3>4, <3>5, <3>6
  <2>3. Carry(task[t], Delivered)
    BY <2>1 DEF Carry
  <2>4. x \in Msg /\ x \notin Sent \cup ToSet(queue) \cup Delivered /\ fate[x] # "unsent"
        /\ \A u \in Task : Carry(task[u], Delivered) /\ task[u].msg = x => u = t
    BY <2>3, PlacedFacts DEF Spots
  <2> HIDE DEF base, x
  <2>5. Delivered' = Delivered \cup {x} /\ RunOnce(transcript')
    BY <2>1, <2>4, Spoken
  <2>6. ~Carry(task'[t], Delivered')
    <3>1. /\ task'[t].stage = "running" /\ task'[t].direct = task[t].direct
          /\ task'[t].started = (base[t].started \/ t \in Watching)
      BY <2>1, <2>2, WatchedCarry
    <3>2. ~task[t].direct => t \in Watching
      BY <2>1 DEF Watching, TasksIn, Prompting
    <3>3. QED
      BY <3>1, <3>2 DEF Carry
  <2>7. ASSUME NEW u \in Task, Carry(task'[u], Delivered')
        PROVE  /\ u # t /\ Carry(task[u], Delivered) /\ task'[u].msg = task[u].msg
               /\ task'[u].stage = task[u].stage /\ task[u].msg # x
    <3>1. u # t
      BY <2>6, <2>7
    <3>2. /\ task'[u].stage = task[u].stage /\ task'[u].msg = task[u].msg
          /\ task'[u].direct = task[u].direct /\ (task[u].started => task'[u].started)
      BY <2>1, <2>2, <3>1, WatchedCarry, ZenonT(60)
    <3>3. Carry(task[u], Delivered)
      BY <2>5, <2>7, <3>2 DEF Carry
    <3>4. QED
      BY <2>4, <3>1, <3>2, <3>3
  <2>8. Sent' = Sent /\ ToSet(queue') = ToSet(queue)
    BY <2>1, SetsOf DEF Sent
  <2>9. Spots(Sent, ToSet(queue), Delivered', task', fate)
    <3>1. \A u \in Task : Carry(task'[u], Delivered') =>
            /\ Carry(task[u], Delivered) /\ task'[u].msg = task[u].msg
            /\ task'[u].stage = task[u].stage /\ task[u].msg # x
      BY <2>7
    <3>2. QED
      BY <2>4, <2>5, <3>1, PlacedFacts DEF Spots
  <2>10. Single'
    BY <2>1, <2>5, PlacedFacts DEF Single, Letters, RunOnce, Once
  <2>11. QED
    BY <2>1, <2>8, <2>9, <2>10, SetsOf DEF Placed
<1>2. CASE AgentEnds
  BY <1>2, Resting DEF AgentEnds, queueVars, histVars
<1>3. CASE AgentEndCompletes
  BY <1>3, ReservePlaced, PlacedFacts DEF AgentEndCompletes, Placed
<1>4. CASE Settled
  <2> DEFINE base == [t \in Task |-> IF task[t].stage = "running"
                                     THEN [task[t] EXCEPT !.stage = "returning"] ELSE task[t]]
  <2>1. base \in [Task -> Row]
    BY SettledRows, PlacedFacts
  <2>2. \A t \in Task : Carry(base[t], Delivered) => Carry(task[t], Delivered)
                                                  /\ base[t].msg = task[t].msg
                                                  /\ (base[t].stage = "returning" \/ base[t] = task[t])
    <3>1. ASSUME NEW t \in Task, Carry(base[t], Delivered)
          PROVE  /\ Carry(task[t], Delivered) /\ base[t].msg = task[t].msg
                 /\ (base[t].stage = "returning" \/ base[t] = task[t])
      <4>1. task[t] \in Row
        BY PlacedFacts
      <4>2. QED
        BY <3>1, <4>1, SettledCarry DEF Row
    <3>2. QED
      BY <3>1
  <2>3. ReserveAndDispatch(shouldDispatchQueueAfterTerminal("agent_settled", FALSE), base, local)
        /\ UNCHANGED <<wire, transcript>>
    BY <1>4 DEF Settled
  <2> HIDE DEF base
  <2>4. Spots(Sent, ToSet(queue), Delivered, base, fate)
    BY <2>2, PlacedFacts DEF Spots
  <2>5. QED
    BY <2>1, <2>3, <2>4, ReservePlaced DEF Placed
<1>5. CASE CompactionBegins
  <2>1. UNCHANGED <<wire, queue, transcript, fate>>
    BY <1>5 DEF CompactionBegins, queueVars, histVars
  <2>2. CASE task' = task
    BY <2>1, <2>2, Resting
  <2>3. ASSUME NEW t \in Task, NEW s, Move(t, s),
               \/ task[t].stage = "preflight" /\ s = "preCompact"
               \/ task[t].stage = "compactWait" /\ s = "compact"
        PROVE  Placed'
    <3> DEFINE r == [task[t] EXCEPT !.stage = s]
    <3>1. task' = [task EXCEPT ![t] = r] /\ r.stage = s /\ r.msg = task[t].msg
      BY <2>3, MoveRow
    <3>2. Carry(r, Delivered) => Carry(task[t], Delivered) /\ task[t].stage # "returning"
      BY <2>3, <3>1 DEF Carry
    <3> HIDE DEF r
    <3>3. QED
      BY <2>1, <3>1, <3>2, RestingRow
  <2>4. QED
    BY <1>5, <2>2, <2>3 DEF CompactionBegins, TasksIn
<1>6. CASE CompactionEnds
  <2> DEFINE base == [t \in Task |-> AfterCompaction(task[t])]
  <2>1. base \in [Task -> Row]
    BY CompactedRows, PlacedFacts
  <2>2. \A t \in Task : Carry(base[t], Delivered) =>
            /\ Carry(task[t], Delivered) /\ base[t].msg = task[t].msg
            /\ base[t].stage # "returning" => task[t].stage # "returning"
    BY CompactedCarry, PlacedFacts
  <2>3. ReserveAndDispatch(shouldDispatchQueueAfterTerminal("compaction_end", isStreaming), base, local)
        /\ UNCHANGED <<wire, transcript>>
    BY <1>6 DEF CompactionEnds
  <2> HIDE DEF base
  <2>4. Spots(Sent, ToSet(queue), Delivered, base, fate)
    BY <2>2, PlacedFacts DEF Spots
  <2>5. QED
    BY <2>1, <2>3, <2>4, ReservePlaced DEF Placed
<1>7. QED
  BY <1>1, <1>2, <1>3, <1>4, <1>5, <1>6 DEF SdkStep

LEMMA PlacedNext == Typed /\ Placed /\ [Next]_vars => Placed'
<1>1. ASSUME Typed, Placed, UNCHANGED vars PROVE Placed'
  BY <1>1, Resting DEF vars
<1>2. QED
  BY <1>1, PlacedClient, PlacedHost, PlacedTask, PlacedSdk, PlacedEnv DEF Next, TasksIn

LEMMA PlacedAlways == Spec => [](Typed /\ Placed)
  BY TypeInit, TypeNext, PlacedInit, PlacedNext, PTL DEF Spec

\* No message becomes two prompts, and none that was one waits to be one again,
\* whatever is rejected, retried, edited or thrown, in every environment.
THEOREM RunsOnce == Spec => []NoMessageTwice
<1>1. Placed => NoMessageTwice
  BY DEF Placed, Single, Spots, RunOnce, NoMessageTwice
<1>2. QED
  BY <1>1, PlacedAlways, PTL

----------------------------------------------------------------------------
(***************************************************************************)
(* The orderly tab: who has it, and what its flags then say.               *)
(***************************************************************************)

\* A dispatch of the queue that has the tab; a direct prompt on its way to the
\* session; any dispatch that a run must come from; a /compact on its way.
Owns(r) == ~r.direct /\ \/ r.stage \in {"augment", "preflight", "compactWait", "compact", "compactEnd"}
                        \/ r.stage \in {"returning", "rejected"} /\ ~r.started
Asks(r)  == r.direct /\ r.stage \in {"augment", "preflight"}
Takes(r) == Owns(r) \/ Asks(r) \/ r.stage = "retry"
Waits(r) == r.direct /\ r.stage = "compactWait"

\* What the row r of dispatch t says, the gate armed for "arm", the session in phase ph.
Sound(r, t, arm, ph) ==
    /\ r.stage # "preCompact"
    /\ r.stage = "compactEnd" => ~r.direct
    /\ r.stage \in {"augment", "preflight"} => ~r.started
    /\ r.stage = "preflight" => arm = t
    /\ r.stage = "running" => ph # "idle" /\ (r.direct \/ r.started)
Rows == \A t \in Task : Sound(task[t], t, armed, phase)

\* One dispatch at a time, in an idle session whose last run is accounted for; the
\* tab streams if it is the queue's, and only the queue lets the client send.
Alone == \A t, u \in Task : Takes(task[t]) /\ Takes(task[u]) => t = u
Taken == \A t \in Task : Takes(task[t]) =>
    /\ phase = "idle" /\ accounting = 0 /\ (local <=> Owns(task[t]))
    /\ Owns(task[t]) \/ wire = <<>>
    /\ Asks(task[t]) => ~compacting /\ \A u \in Task : ~Waits(task[u])

\* The tab streams until the agent_end that follows the run is accounted for.
Flags ==
    /\ accounting \in 0..1
    /\ accounting = 1 => local /\ phase # "running"
    /\ phase = "running" => local
    /\ phase \in {"ended", "endedCompacting"} /\ accounting = 0 => ~local
    /\ phase = "endedCompacting" => compacting

\* The gate of a run is the user's, whose prompt the run is.
Gated ==
    /\ gate.active <=> phase # "idle"
    /\ phase # "idle" => gate.user /\ runOf \in Task
    /\ phase \in {"ended", "endedCompacting"} => gate.completion
    /\ phase = "idle" => ~gate.user /\ ~gate.completion

\* At most one command is under way, and a prompt or a /compact only to a tab that
\* was ready for it.
Wired == wire # <<>> =>
    /\ Tail(wire) = <<>>
    /\ ~Head(wire).queued =>
        /\ ~compacting /\ \A t \in Task : ~Waits(task[t]) /\ ~Asks(task[t])
        /\ IsCompact(Head(wire).msg) \/ ~local

Calm  == Rows /\ Alone /\ Taken /\ Flags /\ Gated /\ Wired
Quiet == Orderly => Calm

calmVars == <<wire, local, compacting, task, armed, gate, phase, runOf, accounting>>

LEMMA CalmInit == Init => Calm
<1> SUFFICES ASSUME Init PROVE Calm
  OBVIOUS
<1>1. \A t \in Task : task[t] = FreeTask
  BY DEF Init
<1>2. Rows /\ Alone /\ Taken
  BY <1>1 DEF Rows, Sound, Alone, Taken, Takes, Owns, Asks, FreeTask
<1>3. Flags /\ Gated /\ Wired
  BY DEF Init, Flags, Gated, Wired
<1>4. QED
  BY <1>2, <1>3 DEF Calm

LEMMA CalmStays == Calm /\ UNCHANGED calmVars => Calm'
<1> SUFFICES ASSUME Calm, UNCHANGED calmVars PROVE Calm'
  OBVIOUS
<1>1. /\ wire' = wire /\ local' = local /\ compacting' = compacting /\ task' = task
      /\ armed' = armed /\ gate' = gate /\ phase' = phase /\ runOf' = runOf
      /\ accounting' = accounting
  BY DEF calmVars
<1>2. Rows' /\ Alone'
  BY <1>1 DEF Calm, Rows, Alone
<1>3. Taken'
  BY <1>1 DEF Calm, Taken
<1>4. Flags' /\ Gated' /\ Wired'
  BY <1>1 DEF Calm, Flags, Gated, Wired
<1>5. QED
  BY <1>2, <1>3, <1>4 DEF Calm

\* A step after which no dispatch takes more than it took.
LEMMA TakenStays ==
    ASSUME Calm, UNCHANGED <<phase, accounting, local, compacting, wire>>,
           \A t \in Task : /\ Takes(task'[t]) => Takes(task[t])
                           /\ Takes(task'[t]) => (Owns(task'[t]) <=> Owns(task[t]))
                           /\ Asks(task'[t]) => Asks(task[t])
                           /\ Waits(task'[t]) => Waits(task[t])
    PROVE  Alone' /\ Taken' /\ Flags' /\ Wired'
<1>1. /\ wire' = wire /\ local' = local /\ compacting' = compacting
      /\ phase' = phase /\ accounting' = accounting
  OBVIOUS
<1>2. Alone'
  BY DEF Calm, Alone
<1>3. Taken'
  BY <1>1 DEF Calm, Taken
<1>4. Flags'
  BY <1>1 DEF Calm, Flags
<1>5. Wired'
  BY <1>1 DEF Calm, Wired
<1>6. QED
  BY <1>2, <1>3, <1>4, <1>5

\* A step after which nobody has the tab.
LEMMA NobodyTakes ==
    ASSUME \A t \in Task : ~Takes(task'[t])
    PROVE  Alone' /\ Taken'
  BY DEF Alone, Taken

\* A step after which t alone has it.
LEMMA OneTakes ==
    ASSUME NEW t \in Task, \A u \in Task : u # t => ~Takes(task'[u]),
           phase' = "idle", accounting' = 0, wire' = <<>>, local' <=> Owns(task'[t]),
           Asks(task'[t]) => ~compacting' /\ \A u \in Task : ~Waits(task'[u])
    PROVE  Alone' /\ Taken'
<1>1. Alone'
  BY DEF Alone
<1>2. Taken'
  BY DEF Taken
<1>3. QED
  BY <1>1, <1>2

\* What a reservation makes of the tasks.
LEMMA DispatchTakes ==
    ASSUME NEW base \in [Task -> Row], NEW t \in Task, DispatchHead(t, base)
    PROVE  /\ task'[t].stage \in {"augment", "compactWait"} /\ ~task'[t].direct /\ ~task'[t].started
           /\ \A u \in Task : u # t => task'[u] = base[u]
<1> DEFINE start(s) == [FreeTask EXCEPT !.stage = s, !.msg = Head(queue)]
<1>1. \E s \in {"augment", "compactWait"} : task' = [base EXCEPT ![t] = start(s)]
  BY DEF DispatchHead
<1>2. PICK s \in {"augment", "compactWait"} : task' = [base EXCEPT ![t] = start(s)]
  BY <1>1
<1>3. start(s).stage = s /\ ~start(s).direct /\ ~start(s).started
  BY DEF FreeTask
<1> HIDE DEF start
<1>4. task'[t] = start(s) /\ \A u \in Task : u # t => task'[u] = base[u]
  BY <1>2
<1>5. QED
  BY <1>3, <1>4

LEMMA ReserveTakes ==
    ASSUME NEW base \in [Task -> Row], NEW allowed, NEW flag, ReserveAndDispatch(allowed, base, flag)
    PROVE  \/ task' = base /\ local' = flag
           \/ /\ allowed /\ local'
              /\ \E t \in Task :
                   /\ base[t].stage = "free"
                   /\ task'[t].stage \in {"augment", "compactWait"} /\ ~task'[t].direct /\ ~task'[t].started
                   /\ \A u \in Task : u # t => task'[u] = base[u]
<1>1. CASE allowed /\ queue # <<>>
  <2>1. PICK t \in Task : base[t].stage = "free" /\ DispatchHead(t, base)
    BY <1>1 DEF ReserveAndDispatch
  <2>2. allowed /\ local'
    BY <1>1 DEF ReserveAndDispatch
  <2>3. QED
    BY <2>1, <2>2, DispatchTakes
<1>2. CASE ~(allowed /\ queue # <<>>)
  BY <1>2 DEF ReserveAndDispatch
<1>3. QED
  BY <1>1, <1>2

LEMMA ReserveCalm ==
    ASSUME NEW base \in [Task -> Row], NEW allowed, NEW flag, ReserveAndDispatch(allowed, base, flag),
           \A t \in Task : ~Takes(base[t]) /\ Sound(base[t], t, armed', phase'),
           wire' = <<>>, allowed => phase' = "idle" /\ accounting' = 0
    PROVE  Rows' /\ Alone' /\ Taken'
<1>1. CASE task' = base
  BY <1>1, NobodyTakes DEF Rows
<1>2. ASSUME NEW t \in Task, allowed, local',
             task'[t].stage \in {"augment", "compactWait"}, ~task'[t].direct, ~task'[t].started,
             \A u \in Task : u # t => task'[u] = base[u]
      PROVE  Rows' /\ Alone' /\ Taken'
  <2>1. Owns(task'[t]) /\ ~Asks(task'[t]) /\ Sound(task'[t], t, armed', phase')
    BY <1>2 DEF Owns, Asks, Sound
  <2>2. Alone' /\ Taken'
    BY <1>2, <2>1, OneTakes
  <2>3. Rows'
    BY <1>2, <2>1 DEF Rows
  <2>4. QED
    BY <2>2, <2>3
<1>3. QED
  BY <1>1, <1>2, ReserveTakes

LEMMA CalmTypes ==
    ASSUME Typed
    PROVE  /\ task \in [Task -> Row] /\ Busy(task) /\ queue \in Seq(Msg)
           /\ wire \in Seq([queued : BOOLEAN, msg : Msg])
           /\ local \in BOOLEAN /\ compacting \in BOOLEAN /\ phase \in Phase
           /\ armed \in Task \cup {NoTask} /\ accounting \in Nat
           /\ gate \in [active : BOOLEAN, user : BOOLEAN, completion : BOOLEAN]
  BY DEF Typed, TypeOK, Row

\* The steps of an orderly tab: the client's, an event's or a dispatch's, when no
\* command waits to be handled and no retry is due.
Free == wire = <<>> /\ ~RetryPending

LEMMA FirstSent ==
    ASSUME NEW c, NEW w, w = Append(<<>>, c)
    PROVE  w # <<>> /\ Tail(w) = <<>> /\ Head(w) = c
<1>1. <<>> \in Seq({c}) /\ Len(<<>>) = 0
  OBVIOUS
<1>2. w \in Seq({c}) /\ Len(w) = 1 /\ w[1] = c
  BY <1>1, AppendProperties
<1>3. <<c>> \in Seq({c}) /\ Len(<<c>>) = 1 /\ <<c>>[1] = c
  OBVIOUS
<1>4. w = <<c>>
  BY <1>2, <1>3, SeqEqual
<1>5. QED
  BY <1>4

LEMMA OrderlyKinds ==
    ASSUME Orderly
    PROVE  {"hastyUser", "clientLag", "slowAccounting", "preCompaction", "otherRun"} \cap env.kinds = {}
  BY DEF Orderly, Crossings, Overtakings

LEMMA CalmSubmit ==
    ASSUME Typed, Orderly, Calm, Free, NEW m \in Msg, Submit(m)
    PROVE  Calm'
<1> DEFINE cmd == [queued |-> (local \/ compacting) /\ ~IsCompact(m), msg |-> m]
<1>1. /\ wire' = Append(wire, cmd) /\ (BeingSent => cmd.queued)
      /\ UNCHANGED <<local, compacting, task, armed, gate, phase, runOf, accounting>>
      /\ IsCompact(m) => ~compacting
  <2>1. /\ wire' = Append(wire, cmd) /\ (BeingSent => cmd.queued \/ "hastyUser" \in env.kinds)
        /\ UNCHANGED <<local, compacting, task, armed, gate, phase, runOf, accounting>>
        /\ IsCompact(m) => ~compacting
    BY DEF Submit, gateVars, sdkVars
  <2>2. "hastyUser" \notin env.kinds
    BY OrderlyKinds
  <2>3. QED
    BY <2>1, <2>2
<1> HIDE DEF cmd
<1>2. wire' = Append(<<>>, cmd)
  BY <1>1 DEF Free
<1>3. wire' # <<>> /\ Tail(wire') = <<>> /\ Head(wire') = cmd
  BY <1>2, FirstSent
<1>4. cmd.queued = ((local \/ compacting) /\ ~IsCompact(m)) /\ cmd.msg = m
  BY DEF cmd
<1>5. ~cmd.queued => \A t \in Task : ~Waits(task[t]) /\ ~Asks(task[t])
  BY <1>1 DEF BeingSent, TasksIn, Reserved, Waits, Asks
<1>6. \A t \in Task : Takes(task[t]) => Owns(task[t])
  <2>1. ASSUME NEW t \in Task, Takes(task[t]), ~Owns(task[t]) PROVE FALSE
    <3>1. Asks(task[t])
      BY <2>1 DEF Takes, Free, RetryPending, TasksIn
    <3>2. ~local /\ ~compacting
      BY <2>1, <3>1, CalmTypes DEF Calm, Taken
    <3>3. QED
      BY <1>4, <1>5, <3>1, <3>2
  <2>2. QED
    BY <2>1
<1>7. Rows' /\ Alone'
  BY <1>1 DEF Calm, Rows, Alone
<1>8. Taken'
  BY <1>1, <1>6 DEF Calm, Taken
<1>9. Flags' /\ Gated'
  BY <1>1 DEF Calm, Flags, Gated
<1>10. Wired'
  BY <1>1, <1>3, <1>4, <1>5 DEF Wired
<1>11. QED
  BY <1>7, <1>8, <1>9, <1>10 DEF Calm

LEMMA CalmClient == Typed /\ Orderly /\ Calm /\ Free /\ ClientStep => Calm'
<1> SUFFICES ASSUME Typed, Orderly, Calm, Free, ClientStep PROVE Calm'
  OBVIOUS
<1>1. ASSUME NEW m \in Msg, Submit(m) PROVE Calm'
  BY <1>1, CalmSubmit
<1>2. CASE CancelQueue \/ Steer
  BY <1>2, CalmStays DEF CancelQueue, Steer, calmVars, gateVars, sdkVars
<1>3. ASSUME NEW i \in DOMAIN queue, NEW m \in Msg, RemoveQueued(i) \/ EditQueued(i, m) PROVE Calm'
  BY <1>3, CalmStays DEF RemoveQueued, EditQueued, calmVars, gateVars, sdkVars
<1>4. ASSUME NEW i \in DOMAIN queue, RemoveQueued(i) PROVE Calm'
  BY <1>4, CalmStays DEF RemoveQueued, calmVars, gateVars, sdkVars
<1>5. QED
  BY <1>1, <1>2, <1>3, <1>4 DEF ClientStep

\* The wire is empty once its command is handled.
LEMMA CalmReceives ==
    ASSUME Typed, Calm, wire # <<>>, wire' = Tail(wire)
    PROVE  wire' = <<>> /\ Wired'
  BY DEF Calm, Wired

LEMMA CalmQueueReceived ==
    ASSUME Typed, Calm, wire # <<>>, wire' = Tail(wire),
           UNCHANGED <<local, compacting, task, armed, gate, phase, runOf, accounting>>
    PROVE  Calm'
<1>1. wire' = <<>> /\ Wired'
  BY CalmReceives
<1>2. Rows' /\ Alone'
  BY DEF Calm, Rows, Alone
<1>3. Taken'
  BY <1>1 DEF Calm, Taken
<1>4. Flags' /\ Gated'
  BY DEF Calm, Flags, Gated
<1>5. QED
  BY <1>1, <1>2, <1>3, <1>4 DEF Calm

LEMMA CalmHost == Typed /\ Orderly /\ Calm /\ ~RetryPending /\ HostReceives => Calm'
<1> SUFFICES ASSUME Typed, Orderly, Calm, ~RetryPending, HostReceives PROVE Calm'
  OBVIOUS
<1>1. CASE ReceiveQueue
  BY <1>1, CalmQueueReceived DEF ReceiveQueue, QueueReceived, gateVars, sdkVars
<1>2. CASE ReceivePrompt /\ isSessionBusy
  BY <1>2, CalmQueueReceived DEF ReceivePrompt, QueueReceived, gateVars, sdkVars
<1>3. CASE ReceivePrompt /\ ~isSessionBusy
  <2> DEFINE r == [FreeTask EXCEPT !.stage = "augment", !.msg = Received, !.direct = TRUE]
  <2>1. /\ wire # <<>> /\ wire' = Tail(wire) /\ ~Head(wire).queued /\ ~IsCompact(Head(wire).msg)
        /\ phase = "idle" /\ ~compacting
        /\ UNCHANGED <<local, compacting, armed, gate, phase, runOf, accounting>>
        /\ \E t \in Task : task[t].stage = "free" /\ task' = [task EXCEPT ![t] = r]
    BY <1>3 DEF ReceivePrompt, Received, isSessionBusy, isStreaming, TasksIn, gateVars, sdkVars
  <2>2. PICK t \in Task : task[t].stage = "free" /\ task' = [task EXCEPT ![t] = r]
    BY <2>1
  <2>3. r.stage = "augment" /\ r.direct /\ ~r.started
    BY DEF FreeTask
  <2> HIDE DEF r
  <2>4. task'[t] = r /\ \A u \in Task : u # t => task'[u] = task[u]
    BY <2>2, CalmTypes
  <2>5. wire' = <<>> /\ Wired'
    BY <2>1, CalmReceives
  <2>6. ~local /\ \A u \in Task : ~Waits(task[u]) /\ ~Asks(task[u])
    BY <2>1 DEF Calm, Wired
  <2>7. accounting = 0
    BY <2>6 DEF Calm, Flags
  <2>8. \A u \in Task : ~Takes(task[u])
    BY <2>6, CalmTypes DEF Calm, Taken, Takes, RetryPending, TasksIn
  <2>9. Asks(r) /\ ~Owns(r) /\ ~Waits(r) /\ Sound(r, t, armed, phase)
    BY <2>3 DEF Asks, Owns, Waits, Sound
  <2>10. \A u \in Task : ~Waits(task'[u])
    BY <2>4, <2>6, <2>9
  <2>11. Alone' /\ Taken'
    BY <2>1, <2>4, <2>5, <2>6, <2>7, <2>8, <2>9, <2>10, OneTakes
  <2>12. Rows'
    BY <2>1, <2>4, <2>9 DEF Calm, Rows
  <2>13. Flags' /\ Gated'
    BY <2>1 DEF Calm, Flags, Gated
  <2>14. QED
    BY <2>5, <2>11, <2>12, <2>13 DEF Calm
<1>4. CASE ReceiveCompact
  <2> DEFINE r == [FreeTask EXCEPT !.stage = "compactWait", !.msg = Received, !.direct = TRUE]
  <2>1. /\ wire # <<>> /\ wire' = Tail(wire) /\ ~Head(wire).queued
        /\ UNCHANGED <<local, compacting, armed, gate, phase, runOf, accounting>>
        /\ \E t \in Task : task[t].stage = "free" /\ task' = [task EXCEPT ![t] = r]
    BY <1>4 DEF ReceiveCompact, TasksIn, gateVars, sdkVars
  <2>2. PICK t \in Task : task[t].stage = "free" /\ task' = [task EXCEPT ![t] = r]
    BY <2>1
  <2>3. r.stage = "compactWait" /\ r.direct
    BY DEF FreeTask
  <2> HIDE DEF r
  <2>4. task'[t] = r /\ \A u \in Task : u # t => task'[u] = task[u]
    BY <2>2, CalmTypes
  <2>5. wire' = <<>> /\ Wired'
    BY <2>1, CalmReceives
  <2>6. \A u \in Task : ~Asks(task[u])
    BY <2>1 DEF Calm, Wired
  <2>7. ~Takes(r) /\ ~Asks(r) /\ Sound(r, t, armed, phase)
    BY <2>3 DEF Takes, Owns, Asks, Sound
  <2>8. Rows' /\ Alone'
    BY <2>1, <2>4, <2>7 DEF Calm, Rows, Alone
  <2>9. Taken'
    BY <2>1, <2>4, <2>5, <2>6, <2>7 DEF Calm, Taken
  <2>10. Flags' /\ Gated'
    BY <2>1 DEF Calm, Flags, Gated
  <2>11. QED
    BY <2>5, <2>8, <2>9, <2>10 DEF Calm
<1>5. QED
  BY <1>1, <1>2, <1>3, <1>4 DEF HostReceives

\* The steps of dispatch t, and what its environment does to it.
Apart(t, T) == \A u \in Task : u # t => T[u] = task[u]

\* A step that leaves the dispatch t where it takes no more than it took.
LEMMA CalmMove ==
    ASSUME Typed, Calm, NEW t \in Task, task' \in [Task -> Row], Apart(t, task'),
           UNCHANGED <<wire, local, compacting, gate, phase, runOf, accounting>>,
           \/ armed' = armed \/ (armed = t /\ armed' = NoTask)
           \/ armed' = t /\ \A u \in Task : u # t => task[u].stage # "preflight",
           Sound(task'[t], t, armed', phase'),
           Takes(task'[t]) => Takes(task[t]) /\ (Owns(task'[t]) <=> Owns(task[t])),
           Asks(task'[t]) => Asks(task[t]),
           Waits(task'[t]) => Waits(task[t])
    PROVE  Calm'
<1>1. Alone' /\ Taken' /\ Flags' /\ Wired'
  BY TakenStays DEF Apart
<1>2. Gated'
  BY DEF Calm, Gated
<1>3. ASSUME NEW u \in Task, u # t PROVE Sound(task'[u], u, armed', phase')
  BY <1>3 DEF Calm, Rows, Sound, Apart
<1>4. Rows'
  BY <1>3 DEF Rows
<1>5. QED
  BY <1>1, <1>2, <1>4 DEF Calm

\* A step that takes the tab from the queue's dispatch t and leaves it in a row that
\* owns nothing.
LEMMA CalmRelease ==
    ASSUME Typed, Calm, NEW t \in Task, Owns(task[t]), task' \in [Task -> Row], Apart(t, task'),
           UNCHANGED <<wire, compacting, gate, phase, runOf, accounting>>, wire = <<>>,
           ~local', Sound(task'[t], t, armed', phase'), ~Owns(task'[t]), ~Asks(task'[t]),
           armed' = armed \/ (armed = t /\ armed' = NoTask)
    PROVE  Calm'
<1>1. /\ phase = "idle" /\ accounting = 0
      /\ \A u \in Task : u # t => ~Takes(task[u])
  BY DEF Calm, Taken, Alone, Takes
<1>2. \A u \in Task : u # t => ~Takes(task'[u])
  BY <1>1 DEF Apart
<1>3. Alone' /\ Taken'
  BY <1>1, <1>2, OneTakes
<1>4. Gated'
  BY DEF Calm, Gated
<1>5. Flags' /\ Wired'
  BY <1>1 DEF Calm, Flags, Wired
<1>6. ASSUME NEW u \in Task, u # t PROVE Sound(task'[u], u, armed', phase')
  BY <1>6 DEF Calm, Rows, Sound, Apart
<1>7. Rows'
  BY <1>6 DEF Rows
<1>8. QED
  BY <1>3, <1>4, <1>5, <1>7 DEF Calm

LEMMA FreeTakes ==
    /\ FreeTask \in Row /\ ~Takes(FreeTask) /\ ~Owns(FreeTask) /\ ~Asks(FreeTask) /\ ~Waits(FreeTask)
    /\ \A t, arm, ph : Sound(FreeTask, t, arm, ph)
<1>1. FreeTask.stage = "free"
  BY DEF FreeTask
<1>2. QED
  BY <1>1, FreeRow DEF Takes, Owns, Asks, Waits, Sound

\* The new row of a dispatch that moved.
LEMMA RowAt ==
    ASSUME NEW T \in [Task -> Row], NEW t \in Task, NEW r \in Row
    PROVE  /\ [T EXCEPT ![t] = r] \in [Task -> Row] /\ [T EXCEPT ![t] = r][t] = r
           /\ \A u \in Task : u # t => [T EXCEPT ![t] = r][u] = T[u]
  OBVIOUS

LEMMA StageAt ==
    ASSUME NEW T \in [Task -> Row], NEW t \in Task, NEW s \in Stage
    PROVE  LET R == [T EXCEPT ![t].stage = s] IN
           /\ R \in [Task -> Row] /\ R[t] \in Row
           /\ R[t].stage = s /\ R[t].msg = T[t].msg /\ R[t].direct = T[t].direct /\ R[t].started = T[t].started
           /\ \A u \in Task : u # t => R[u] = T[u]
<1> DEFINE r == [T[t] EXCEPT !.stage = s]
<1>1. r \in Row /\ r.stage = s /\ r.msg = T[t].msg /\ r.direct = T[t].direct /\ r.started = T[t].started
  BY Moved DEF Row
<1>2. [T EXCEPT ![t].stage = s] = [T EXCEPT ![t] = r]
  OBVIOUS
<1> HIDE DEF r
<1>3. QED
  BY <1>1, <1>2, RowAt

LEMMA CalmFinally ==
    ASSUME Typed, Calm, wire = <<>>, NEW t \in Task, NEW q, QueuedFinally(t, q), CancelArm(t),
           task[t].stage \in {"returning", "rejected"}, ~task[t].direct,
           UNCHANGED <<wire, compacting, gate, phase, runOf, accounting>>
    PROVE  Calm'
<1>1. task \in [Task -> Row] /\ local \in BOOLEAN
  BY CalmTypes
<1>2. armed' = armed \/ (armed = t /\ armed' = NoTask)
  BY DEF CancelArm
<1>3. \/ task' = [task EXCEPT ![t] = FreeTask]
      \/ releasesTab(t) /\ task' = [task EXCEPT ![t].stage = "retry"]
  BY DEF QueuedFinally, Move
<1>4. "retry" \in Stage
  BY DEF Stage
<1>5. task' \in [Task -> Row] /\ Apart(t, task')
      /\ (task'[t] = FreeTask \/ (releasesTab(t) /\ task'[t].stage = "retry" /\ ~task'[t].direct))
  <2>1. CASE task' = [task EXCEPT ![t] = FreeTask]
    BY <1>1, <2>1, RowAt, FreeTakes DEF Apart
  <2>2. CASE releasesTab(t) /\ task' = [task EXCEPT ![t].stage = "retry"]
    BY <1>1, <1>4, <2>2, StageAt DEF Apart
  <2>3. QED
    BY <1>3, <2>1, <2>2
<1>6. Sound(task'[t], t, armed', phase') /\ ~Owns(task'[t]) /\ ~Asks(task'[t]) /\ ~Waits(task'[t])
  BY <1>5, FreeTakes DEF Sound, Owns, Asks, Waits
<1>7. CASE releasesTab(t)
  <2>1. Owns(task[t])
    BY <1>7 DEF Owns, releasesTab
  <2>2. ~local'
    BY <1>7 DEF QueuedFinally
  <2>3. QED
    BY <1>2, <1>5, <1>6, <2>1, <2>2, CalmRelease
<1>8. CASE ~releasesTab(t)
  <2>1. local' = local /\ task'[t] = FreeTask
    BY <1>5, <1>8 DEF QueuedFinally
  <2>2. QED
    BY <1>2, <1>5, <1>6, <2>1, CalmMove, FreeTakes
<1>9. QED
  BY <1>7, <1>8

\* A dispatch that becomes free without anything else.
LEMMA CalmFrees ==
    ASSUME Typed, Calm, NEW t \in Task, task' = [task EXCEPT ![t] = FreeTask],
           UNCHANGED <<wire, local, compacting, gate, phase, runOf, accounting>>,
           armed' = armed \/ (armed = t /\ armed' = NoTask)
    PROVE  Calm'
<1>1. task \in [Task -> Row]
  BY CalmTypes
<1>2. task' \in [Task -> Row] /\ Apart(t, task') /\ task'[t] = FreeTask
  BY <1>1, RowAt, FreeTakes DEF Apart
<1>3. QED
  BY <1>2, CalmMove, FreeTakes

\* A prompt that returns or is rejected: a dispatch of the queue that began no run
\* keeps the tab.
LEMMA CalmStage ==
    ASSUME Typed, Calm, NEW t \in Task, NEW s \in {"returning", "rejected"},
           task[t].stage \in {"preflight", "returning"}, task' = [task EXCEPT ![t].stage = s],
           UNCHANGED <<wire, local, compacting, armed, gate, phase, runOf, accounting>>
    PROVE  Calm'
<1>1. task \in [Task -> Row] /\ s \in Stage
  BY CalmTypes DEF Stage
<1>2. /\ task' \in [Task -> Row] /\ Apart(t, task') /\ task'[t] \in Row
      /\ task'[t].stage = s /\ task'[t].direct = task[t].direct /\ task'[t].started = task[t].started
  BY <1>1, StageAt DEF Apart
<1>3. Sound(task'[t], t, armed', phase') /\ ~Asks(task'[t]) /\ ~Waits(task'[t])
  BY <1>2 DEF Sound, Asks, Waits
<1>4. Takes(task'[t]) => Owns(task'[t]) /\ Owns(task[t]) /\ Takes(task[t])
  BY <1>2 DEF Takes, Owns, Asks
<1>5. QED
  BY <1>2, <1>3, <1>4, CalmMove

\* The one dispatch that is before its prompt.
LEMMA OnePrompts ==
    ASSUME Typed, Calm, NEW t \in Task, task[t].stage \in {"augment", "preflight"}
    PROVE  /\ Takes(task[t]) /\ ~task[t].started
           /\ phase = "idle" /\ accounting = 0
           /\ \A u \in Task : u # t => ~Takes(task[u]) /\ task[u].stage \notin {"augment", "preflight"}
           /\ \A u \in Task : task[u].stage # "running"
<1>1. task \in [Task -> Row]
  BY CalmTypes
<1>2. Takes(task[t]) /\ ~task[t].started
  BY <1>1 DEF Takes, Owns, Asks, Calm, Rows, Sound
<1>3. \A u \in Task : u # t => ~Takes(task[u])
  BY <1>2 DEF Calm, Alone
<1>4. \A u \in Task : task[u].stage \in {"augment", "preflight"} => Takes(task[u])
  BY <1>1 DEF Takes, Owns, Asks
<1>5. phase = "idle" /\ accounting = 0
  BY <1>2 DEF Calm, Taken
<1>6. \A u \in Task : task[u].stage # "running"
  BY <1>5 DEF Calm, Rows, Sound
<1>7. QED
  BY <1>2, <1>3, <1>4, <1>5, <1>6

LEMMA CalmQueued ==
    ASSUME Typed, Calm, wire = <<>>, NEW t \in Task, PromptQueued(t)
    PROVE  Calm'
<1>1. /\ task \in [Task -> Row] /\ task[t].stage = "augment" /\ ~task[t].direct
      /\ UNCHANGED <<wire, local, compacting, gate, phase, runOf, accounting>>
  BY CalmTypes DEF PromptQueued, sdkVars
<1>2. CASE HeadIs(t)
  <2> DEFINE r == [task[t] EXCEPT !.stage = "preflight", !.msg = Head(queue)]
  <2>1. armed' = t /\ task' = [task EXCEPT ![t].stage = "preflight", ![t].msg = Head(queue)]
    BY <1>2 DEF PromptQueued
  <2>2. Head(queue) \in Msg
    <3>1. queue # <<>>
      <4>1. task[t].msg \in Msg
        BY <1>1, CalmTypes DEF Busy
      <4>2. QED
        BY <1>2, <4>1, TextType, MessageAssumption DEF HeadIs, HeadText
    <3>2. QED
      BY <3>1, TailType, CalmTypes
  <2>3. r \in Row /\ r.stage = "preflight" /\ r.direct = task[t].direct /\ r.started = task[t].started
    BY <1>1, <2>2 DEF Row, Stage
  <2>4. task' = [task EXCEPT ![t] = r]
    BY <2>1
  <2> HIDE DEF r
  <2>5. task' \in [Task -> Row] /\ Apart(t, task') /\ task'[t] = r
    BY <1>1, <2>3, <2>4, RowAt DEF Apart
  <2>6. \A u \in Task : u # t => task[u].stage # "preflight"
    BY <1>1, OnePrompts
  <2>7. Sound(r, t, armed', phase')
    BY <1>1, <2>1, <2>3, OnePrompts DEF Sound
  <2>8. Takes(r) /\ Owns(r) /\ Takes(task[t]) /\ Owns(task[t]) /\ ~Asks(r) /\ ~Waits(r)
    BY <1>1, <2>3 DEF Takes, Owns, Asks, Waits
  <2>9. QED
    BY <1>1, <2>1, <2>5, <2>6, <2>7, <2>8, CalmMove
<1>3. CASE ~HeadIs(t) /\ queue = <<>>
  <2>1. armed' = armed /\ task' = [task EXCEPT ![t] = FreeTask]
    BY <1>3 DEF PromptQueued
  <2>2. QED
    BY <1>1, <2>1, CalmFrees
<1>4. CASE ~HeadIs(t) /\ queue # <<>>
  <2>1. armed' = armed /\ DispatchHead(t, task)
    BY <1>4 DEF PromptQueued
  <2>2. /\ task'[t].stage \in {"augment", "compactWait"} /\ ~task'[t].direct /\ ~task'[t].started
        /\ Apart(t, task')
    BY <1>1, <2>1, DispatchTakes DEF Apart
  <2>3. task' \in [Task -> Row]
    BY <1>4, <2>1, DispatchType, CalmTypes
  <2>4. Sound(task'[t], t, armed', phase')
    BY <2>2 DEF Sound
  <2>5. /\ Takes(task'[t]) /\ Owns(task'[t]) /\ Takes(task[t]) /\ Owns(task[t])
        /\ ~Asks(task'[t]) /\ ~Waits(task'[t])
    BY <1>1, <2>2 DEF Takes, Owns, Asks, Waits
  <2>6. QED
    BY <1>1, <2>1, <2>2, <2>3, <2>4, <2>5, CalmMove
<1>5. QED
  BY <1>2, <1>3, <1>4

\* A reservation by a dispatch that ends.
LEMMA CalmHandsOver ==
    ASSUME Typed, Calm, wire = <<>>, NEW t \in Task, Takes(task[t]), task[t].stage # "preflight",
           NEW allowed, NEW flag, ~flag,
           ReserveAndDispatch(allowed, [task EXCEPT ![t] = FreeTask], flag),
           UNCHANGED <<wire, compacting, armed, gate, phase, runOf, accounting>>
    PROVE  Calm'
<1> DEFINE base == [task EXCEPT ![t] = FreeTask]
<1>1. task \in [Task -> Row]
  BY CalmTypes
<1>2. /\ base \in [Task -> Row] /\ base[t] = FreeTask
      /\ \A u \in Task : u # t => base[u] = task[u]
  BY <1>1, RowAt, FreeTakes
<1>3. ReserveAndDispatch(allowed, base, flag)
  OBVIOUS
<1> HIDE DEF base
<1>4. phase = "idle" /\ accounting = 0 /\ \A u \in Task : u # t => ~Takes(task[u])
  BY DEF Calm, Taken, Alone
<1>5. \A u \in Task : ~Takes(base[u]) /\ Sound(base[u], u, armed', phase')
  BY <1>2, <1>4, FreeTakes DEF Calm, Rows
<1>6. Rows' /\ Alone' /\ Taken'
  BY <1>2, <1>3, <1>4, <1>5, ReserveCalm
<1>7. Flags' /\ Wired'
  BY <1>4 DEF Flags, Wired
<1>8. Gated'
  BY DEF Calm, Gated
<1>9. QED
  BY <1>6, <1>7, <1>8 DEF Calm

LEMMA CalmRetry == ASSUME Typed, Calm, NEW t \in Task, Retry(t) PROVE Calm'
<1>1. /\ task[t].stage = "retry"
      /\ ReserveAndDispatch(HeadIs(t) /\ ~isStreaming, [task EXCEPT ![t] = FreeTask], local)
      /\ UNCHANGED <<wire, compacting, armed, gate, phase, runOf, accounting>>
  BY DEF Retry, gateVars, sdkVars
<1>2. Takes(task[t]) /\ ~Owns(task[t])
  BY <1>1 DEF Takes, Owns
<1>3. wire = <<>> /\ ~local
  BY <1>2 DEF Calm, Taken
<1>4. QED
  BY <1>1, <1>2, <1>3, CalmHandsOver

LEMMA CalmReturns == ASSUME Typed, Calm, wire = <<>>, NEW t \in Task, CompactReturns(t) PROVE Calm'
<1>1. /\ task[t].stage = "compactEnd"
      /\ ReserveAndDispatch(~isStreaming, [task EXCEPT ![t] = FreeTask], FALSE)
      /\ UNCHANGED <<wire, compacting, armed, gate, phase, runOf, accounting>>
  BY DEF CompactReturns, gateVars, sdkVars
<1>2. Takes(task[t])
  BY <1>1, CalmTypes DEF Takes, Owns, Calm, Rows, Sound
<1>3. QED
  BY <1>1, <1>2, CalmHandsOver

LEMMA CalmTask ==
    ASSUME Typed, Orderly, Calm, NEW t \in Task, TaskStep(t), wire = <<>> \/ task[t].stage = "retry"
    PROVE  Calm'
<1>1. CASE Retry(t)
  BY <1>1, CalmRetry
<1>2. CASE ~Retry(t)
  <2>1. wire = <<>>
    BY <1>2 DEF TaskStep, PromptDirect, PromptQueued, PromptReturns, PromptRefused,
                DirectRejected, QueuedRejected, CompactReturns
  <2>2. task \in [Task -> Row]
    BY CalmTypes
  <2>3. CASE PromptDirect(t)
    <3>1. /\ task[t].stage = "augment" /\ task[t].direct
          /\ task' = [task EXCEPT ![t].stage = "preflight"] /\ armed' = t
          /\ UNCHANGED <<wire, local, compacting, gate, phase, runOf, accounting>>
      BY <2>3 DEF PromptDirect, Move, sdkVars
    <3>2. ~task[t].started /\ \A u \in Task : u # t => task[u].stage # "preflight"
      BY <3>1, OnePrompts
    <3>3. "preflight" \in Stage
      BY DEF Stage
    <3>4. /\ task' \in [Task -> Row] /\ Apart(t, task') /\ task'[t].stage = "preflight"
          /\ task'[t].direct = task[t].direct /\ task'[t].started = task[t].started
      <4>1. task' = [task EXCEPT ![t].stage = "preflight"] /\ "preflight" \in Stage
        BY <3>1, <3>3
      <4>2. /\ task' \in [Task -> Row] /\ task'[t].stage = "preflight"
            /\ task'[t].direct = task[t].direct /\ task'[t].started = task[t].started
            /\ \A u \in Task : u # t => task'[u] = task[u]
        BY ONLY <2>2, <4>1, StageAt
      <4>3. QED
        BY <4>2 DEF Apart
    <3>5. /\ Sound(task'[t], t, armed', phase') /\ ~Waits(task'[t])
          /\ Takes(task[t]) /\ Asks(task[t]) /\ ~Owns(task'[t]) /\ ~Owns(task[t])
      BY <3>1, <3>2, <3>4 DEF Sound, Takes, Owns, Asks, Waits
    <3>6. QED
      BY <3>1, <3>2, <3>4, <3>5, CalmMove
  <2>4. CASE PromptQueued(t)
    BY <2>1, <2>4, CalmQueued
  <2>5. CASE PromptRefused(t)
    <3>1. /\ task[t].stage = "preflight" /\ armed' = armed
          /\ task' = [task EXCEPT ![t].stage = "rejected"]
          /\ UNCHANGED <<wire, local, compacting, gate, phase, runOf, accounting>>
      BY <2>5 DEF PromptRefused, Move, gateVars, sdkVars
    <3>2. QED
      BY <3>1, CalmStage
  <2>6. CASE PromptReturns(t) /\ task[t].direct
    <3>1. /\ task' = [task EXCEPT ![t] = FreeTask] /\ CancelArm(t)
          /\ UNCHANGED <<wire, local, compacting, gate, phase, runOf, accounting>>
      BY <2>6 DEF PromptReturns, sdkVars
    <3>2. QED
      BY <3>1, CalmFrees DEF CancelArm
  <2>7. CASE PromptReturns(t) /\ ~task[t].direct
    <3>1. /\ task[t].stage = "returning" /\ CancelArm(t) /\ QueuedFinally(t, queue)
          /\ UNCHANGED <<wire, compacting, gate, phase, runOf, accounting>>
      BY <2>7 DEF PromptReturns, sdkVars
    <3>2. QED
      BY <2>1, <2>7, <3>1, CalmFinally
  <2>8. CASE DirectRejected(t)
    <3>1. /\ task' = [task EXCEPT ![t] = FreeTask] /\ CancelArm(t)
          /\ UNCHANGED <<wire, local, compacting, gate, phase, runOf, accounting>>
      BY <2>8 DEF DirectRejected, sdkVars
    <3>2. QED
      BY <3>1, CalmFrees DEF CancelArm
  <2>9. CASE QueuedRejected(t)
    <3>1. /\ task[t].stage = "rejected" /\ ~task[t].direct /\ CancelArm(t)
          /\ QueuedFinally(t, queueAfterRejection(t))
          /\ UNCHANGED <<wire, compacting, gate, phase, runOf, accounting>>
      BY <2>9 DEF QueuedRejected, sdkVars
    <3>2. QED
      BY <2>1, <3>1, CalmFinally
  <2>10. CASE CompactReturns(t)
    BY <2>1, <2>10, CalmReturns
  <2>11. QED
    BY <1>2, <2>3, <2>4, <2>5, <2>6, <2>7, <2>8, <2>9, <2>10 DEF TaskStep
<1>3. QED
  BY <1>1, <1>2

LEMMA CalmPrepareFails ==
    ASSUME Typed, Calm, wire = <<>>, NEW t \in Task, PrepareFails(t)
    PROVE  Calm'
<1>1. /\ task[t].stage = "augment" /\ task' = [task EXCEPT ![t] = FreeTask]
      /\ UNCHANGED <<wire, compacting, armed, gate, phase, runOf, accounting>>
      /\ IF task[t].direct THEN local' = local ELSE ~local'
  BY DEF PrepareFails, gateVars, sdkVars
<1>2. CASE task[t].direct
  BY <1>1, <1>2, CalmFrees
<1>3. CASE ~task[t].direct
  <2>1. Owns(task[t])
    BY <1>1, <1>3 DEF Owns
  <2>2. task' \in [Task -> Row] /\ Apart(t, task') /\ task'[t] = FreeTask
    BY <1>1, RowAt, FreeTakes, CalmTypes DEF Apart
  <2>3. QED
    BY <1>1, <1>3, <2>1, <2>2, CalmRelease, FreeTakes
<1>4. QED
  BY <1>2, <1>3

LEMMA CalmEnv == Typed /\ Orderly /\ Calm /\ Free /\ EnvStep => Calm'
<1> SUFFICES ASSUME Typed, Orderly, Calm, Free, EnvStep PROVE Calm'
  OBVIOUS
<1>1. wire = <<>> /\ task \in [Task -> Row]
  BY CalmTypes DEF Free
<1>2. ~OtherRunBegins
  BY OrderlyKinds DEF OtherRunBegins, Fault
<1>3. CASE AutoRetry
  <2>1. phase = "ended" /\ phase' = "running" /\ UNCHANGED <<wire, compacting, runOf, accounting>>
        /\ AgentStarted(task) /\ AccountingDone
    BY <1>3 DEF AutoRetry
  <2>2. accounting = 0
    BY <2>1, OrderlyKinds DEF AccountingDone
  <2>3. gate' = gate /\ armed' = armed /\ local'
    BY <2>1, CalmTypes DEF AgentStarted, GateOnAgentStart, Calm, Gated
  <2>4. \A u \in Task : task'[u] = IF u \in Watching THEN [task[u] EXCEPT !.started = TRUE] ELSE task[u]
    BY <2>1 DEF AgentStarted
  <2>5. ASSUME NEW u \in Task
        PROVE  ~Takes(task'[u]) /\ Sound(task'[u], u, armed', phase')
    <3>1. ~Takes(task[u]) /\ Sound(task[u], u, armed, phase) /\ task[u] \in Row
      BY <1>1, <2>1 DEF Calm, Taken, Rows
    <3>2. /\ task'[u].stage = task[u].stage /\ task'[u].direct = task[u].direct
          /\ task[u].started => task'[u].started
      BY <2>4, <3>1 DEF Row
    <3>3. task[u].stage \notin {"augment", "preflight"}
      BY <3>1 DEF Takes, Owns, Asks, Row
    <3>4. ~Takes(task'[u])
      BY <3>1, <3>2 DEF Takes, Owns, Asks, Row
    <3>5. Sound(task'[u], u, armed', phase')
      BY <2>1, <3>1, <3>2, <3>3 DEF Sound, Row
    <3>6. QED
      BY <3>4, <3>5
  <2>6. Rows' /\ Alone' /\ Taken'
    BY <2>5, NobodyTakes DEF Rows
  <2>7. Flags' /\ Gated' /\ Wired'
    BY <1>1, <2>1, <2>2, <2>3 DEF Calm, Flags, Gated, Wired
  <2>8. QED
    BY <2>6, <2>7 DEF Calm
<1>4. ASSUME NEW t \in Task, PrepareFails(t) PROVE Calm'
  BY <1>1, <1>4, CalmPrepareFails
<1>5. ASSUME NEW t \in Task, PromptFails(t) PROVE Calm'
  <2>1. /\ task[t].stage \in {"preflight", "returning"} /\ armed' = armed
        /\ task' = [task EXCEPT ![t].stage = "rejected"]
        /\ UNCHANGED <<wire, local, compacting, gate, phase, runOf, accounting>>
    BY <1>5 DEF PromptFails, Move, gateVars, sdkVars
  <2>2. QED
    BY <2>1, CalmStage
<1>6. ASSUME NEW t \in Task, CommandHandled(t) PROVE Calm'
  <2>1. /\ task[t].stage = "preflight" /\ armed' = armed
        /\ task' = [task EXCEPT ![t].stage = "returning"]
        /\ UNCHANGED <<wire, local, compacting, gate, phase, runOf, accounting>>
    BY <1>6 DEF CommandHandled, Move, gateVars, sdkVars
  <2>2. QED
    BY <2>1, CalmStage
<1>7. QED
  BY <1>2, <1>3, <1>4, <1>5, <1>6 DEF EnvStep

\* The rows of the dispatches after a run began: a watcher's row says no less of it.
LEMMA StartedRows ==
    ASSUME NEW base \in [Task -> Row], AgentStarted(base), NEW u \in Task
    PROVE  /\ task'[u].stage = base[u].stage /\ task'[u].direct = base[u].direct
           /\ task'[u].started = (base[u].started \/ u \in Watching)
<1>1. task'[u] = IF u \in Watching THEN [base[u] EXCEPT !.started = TRUE] ELSE base[u]
  BY DEF AgentStarted
<1>2. QED
  BY <1>1 DEF Row

LEMMA CalmBegins ==
    ASSUME Typed, Orderly, Calm, wire = <<>>, NEW t \in Task, RunBegins(t)
    PROVE  Calm'
<1> DEFINE base == [task EXCEPT ![t].stage = "running"]
<1>1. /\ task[t].stage = "preflight" /\ ~compacting /\ phase' = "running" /\ runOf' = t
      /\ AgentStarted(base)
      /\ UNCHANGED <<wire, compacting, accounting>>
  BY DEF RunBegins, SdkRefuses
<1>2. task \in [Task -> Row] /\ task[t] \in Row
  BY CalmTypes
<1>3. /\ base \in [Task -> Row] /\ base[t].stage = "running" /\ base[t].direct = task[t].direct
      /\ \A u \in Task : u # t => base[u] = task[u]
  <2>1. "running" \in Stage
    BY DEF Stage
  <2>2. QED
    BY ONLY <1>2, <2>1, StageAt
<1>4. ~task[t].direct => t \in Watching
  BY <1>1 DEF Watching, TasksIn, Prompting
<1> HIDE DEF base
<1>5. /\ phase = "idle" /\ accounting = 0
      /\ \A u \in Task : u # t => ~Takes(task[u]) /\ task[u].stage \notin {"augment", "preflight"}
      /\ \A u \in Task : task[u].stage # "running"
  BY <1>1, OnePrompts
<1>6. task'[t].stage = "running" /\ (task'[t].direct \/ task'[t].started)
  BY <1>1, <1>3, <1>4, StartedRows
<1>7. ~Takes(task'[t]) /\ Sound(task'[t], t, armed', phase')
  BY <1>1, <1>6 DEF Takes, Owns, Asks, Sound
<1>8. ASSUME NEW u \in Task, u # t PROVE ~Takes(task'[u]) /\ Sound(task'[u], u, armed', phase')
  <2>1. ~Takes(task[u]) /\ task[u].stage \notin {"augment", "preflight"} /\ Sound(task[u], u, armed, phase)
    BY <1>5, <1>8 DEF Calm, Rows
  <2>2. /\ task'[u].stage = task[u].stage /\ task'[u].direct = task[u].direct
        /\ task[u].started => task'[u].started
    BY <1>1, <1>3, <1>8, StartedRows, ZenonT(60)
  <2>3. ~Takes(task'[u])
    BY <2>1, <2>2 DEF Takes, Owns, Asks
  <2>4. Sound(task'[u], u, armed', phase')
    BY <1>1, <1>5, <1>8, <2>1, <2>2 DEF Sound
  <2>5. QED
    BY <2>3, <2>4
<1>9. Rows' /\ Alone' /\ Taken'
  BY <1>7, <1>8, NobodyTakes DEF Rows
<1>10. armed = t /\ ~gate.active
  BY <1>1, <1>5 DEF Calm, Rows, Sound, Gated
<1>11. gate'.active /\ gate'.user /\ local'
  BY <1>1, <1>10, MessageAssumption, CalmTypes DEF AgentStarted, GateOnAgentStart
<1>12. Gated'
  BY <1>1, <1>11 DEF Gated
<1>13. Flags' /\ Wired'
  BY <1>1, <1>5, <1>11 DEF Flags, Wired
<1>14. QED
  BY <1>9, <1>12, <1>13 DEF Calm

\* In a session that is not idle, or whose last run is not accounted for, nobody has
\* the tab.
LEMMA BusyTakesNone ==
    ASSUME Calm, phase # "idle" \/ accounting # 0, NEW u \in Task
    PROVE  ~Takes(task[u]) /\ Sound(task[u], u, armed, phase)
  BY DEF Calm, Taken, Rows

LEMMA CalmEnds == ASSUME Typed, Calm, wire = <<>>, AgentEnds PROVE Calm'
<1>1. /\ phase = "running" /\ phase' = "ended" /\ accounting' = accounting + 1
      /\ gate' = [gate EXCEPT !.completion = gate.completion \/ gate.user]
      /\ UNCHANGED <<wire, local, compacting, task, armed, runOf>>
  BY DEF AgentEnds
<1>2. accounting = 0 /\ local
  BY <1>1 DEF Calm, Flags
<1>3. gate'.active /\ gate'.user /\ gate'.completion /\ runOf \in Task
  BY <1>1, CalmTypes DEF Calm, Gated
<1>4. \A u \in Task : ~Takes(task'[u]) /\ Sound(task'[u], u, armed', phase')
  BY <1>1, BusyTakesNone DEF Sound
<1>5. Rows' /\ Alone' /\ Taken'
  BY <1>4, NobodyTakes DEF Rows
<1>6. Flags'
  BY <1>1, <1>2 DEF Flags
<1>7. Gated' /\ Wired'
  BY <1>1, <1>3 DEF Gated, Wired
<1>8. QED
  BY <1>5, <1>6, <1>7 DEF Calm

LEMMA CalmCompletes == ASSUME Typed, Calm, wire = <<>>, AgentEndCompletes PROVE Calm'
<1>1. /\ accounting > 0 /\ accounting' = accounting - 1
      /\ ReserveAndDispatch(~isStreaming, task, FALSE)
      /\ UNCHANGED <<wire, compacting, armed, gate, phase, runOf>>
  BY DEF AgentEndCompletes, gateVars, shouldDispatchQueueAfterTerminal
<1>2. accounting = 1 /\ accounting' = 0 /\ phase # "running"
  BY <1>1, CalmTypes DEF Calm, Flags
<1>3. \A u \in Task : ~Takes(task[u]) /\ Sound(task[u], u, armed', phase')
  BY <1>1, <1>2, BusyTakesNone
<1>4. task \in [Task -> Row] /\ (~isStreaming => phase' = "idle" /\ accounting' = 0)
  BY <1>1, <1>2, CalmTypes DEF isStreaming
<1>5. Rows' /\ Alone' /\ Taken'
  BY <1>1, <1>3, <1>4, ReserveCalm
<1>6. ~isStreaming \/ ~local'
  BY <1>1, <1>4, ReserveTakes
<1>7. Flags'
  BY <1>1, <1>2, <1>6 DEF Calm, Flags, isStreaming
<1>8. Gated' /\ Wired'
  BY <1>1 DEF Calm, Gated, Wired
<1>9. QED
  BY <1>5, <1>7, <1>8 DEF Calm

LEMMA CalmSettled == ASSUME Typed, Calm, wire = <<>>, Settled PROVE Calm'
<1> DEFINE base == [t \in Task |-> IF task[t].stage = "running"
                                   THEN [task[t] EXCEPT !.stage = "returning"] ELSE task[t]]
<1>1. /\ phase = "ended" /\ phase' = "idle"
      /\ gate' = [active |-> FALSE, user |-> FALSE, completion |-> FALSE]
      /\ ReserveAndDispatch(~local, base, local)
      /\ UNCHANGED <<wire, compacting, armed, accounting>>
  BY DEF Settled, shouldDispatchQueueAfterTerminal
<1>2. task \in [Task -> Row]
  BY CalmTypes
<1>3. ASSUME NEW u \in Task
      PROVE  base[u] \in Row /\ ~Takes(base[u]) /\ Sound(base[u], u, armed', phase')
  <2>1. ~Takes(task[u]) /\ Sound(task[u], u, armed, phase) /\ task[u] \in Row
    BY <1>1, <1>2, BusyTakesNone
  <2>2. CASE task[u].stage = "running"
    <3>1. base[u] = [task[u] EXCEPT !.stage = "returning"]
      BY <2>2
    <3>2. "returning" \in Stage
      BY DEF Stage
    <3>3. /\ base[u] \in Row /\ base[u].stage = "returning" /\ base[u].direct = task[u].direct
          /\ base[u].started = task[u].started
      BY <2>1, <3>1, <3>2 DEF Row
    <3>4. QED
      BY <2>1, <2>2, <3>3 DEF Takes, Owns, Asks, Sound
  <2>3. CASE task[u].stage # "running"
    <3>1. base[u] = task[u]
      BY <2>3
    <3>2. QED
      BY <1>1, <2>1, <2>3, <3>1 DEF Sound
  <2>4. QED
    BY <2>2, <2>3
<1>4. base \in [Task -> Row]
  BY <1>3
<1> HIDE DEF base
<1>5. ~local => accounting = 0
  BY DEF Calm, Flags
<1>6. Rows' /\ Alone' /\ Taken'
  BY <1>1, <1>3, <1>4, <1>5, ReserveCalm
<1>7. accounting = 1 => local'
  BY <1>1, <1>4, ReserveTakes DEF Calm, Flags
<1>8. Flags'
  BY <1>1, <1>7 DEF Calm, Flags
<1>9. Gated' /\ Wired'
  BY <1>1 DEF Gated, Wired
<1>10. QED
  BY <1>6, <1>8, <1>9 DEF Calm

\* A compaction begins: after the run, or for a /compact that waited for the session.
LEMMA CalmCompacts == ASSUME Typed, Orderly, Calm, wire = <<>>, CompactionBegins PROVE Calm'
<1>1. /\ ~compacting /\ compacting' = TRUE
      /\ UNCHANGED <<wire, local, armed, gate, runOf, accounting>>
  BY DEF CompactionBegins, gateVars
<1>2. task \in [Task -> Row]
  BY CalmTypes
<1>3. CASE phase = "ended" /\ phase' = "endedCompacting" /\ task' = task
  <2>1. \A u \in Task : ~Takes(task'[u]) /\ Sound(task'[u], u, armed', phase')
    BY <1>1, <1>3, BusyTakesNone DEF Sound
  <2>2. Rows' /\ Alone' /\ Taken'
    BY <2>1, NobodyTakes DEF Rows
  <2>3. Flags' /\ Gated' /\ Wired'
    BY <1>1, <1>3 DEF Calm, Flags, Gated, Wired
  <2>4. QED
    BY <2>2, <2>3 DEF Calm
<1>4. ASSUME phase = "idle", phase' = phase, NEW t \in Task, task[t].stage = "compactWait",
             Move(t, "compact")
      PROVE  Calm'
  <2>1. /\ task'[t].stage = "compact" /\ task'[t].direct = task[t].direct
        /\ \A u \in Task : u # t => task'[u] = task[u]
    <3>1. task' = [task EXCEPT ![t].stage = "compact"] /\ "compact" \in Stage
      BY <1>4 DEF Move, Stage
    <3>2. QED
      BY ONLY <1>2, <3>1, StageAt
  <2>2. /\ (Takes(task'[t]) <=> Takes(task[t])) /\ (Owns(task'[t]) <=> Owns(task[t]))
        /\ ~Asks(task'[t]) /\ ~Asks(task[t]) /\ ~Waits(task'[t])
        /\ Sound(task'[t], t, armed', phase')
    BY <1>4, <2>1 DEF Takes, Owns, Asks, Waits, Sound
  <2>3. \A u \in Task : ~Asks(task[u])
    <3>1. CASE Waits(task[t])
      BY <3>1 DEF Calm, Taken, Takes
    <3>2. CASE ~Waits(task[t])
      <4>1. Takes(task[t])
        BY <1>4, <3>2 DEF Waits, Takes, Owns
      <4>2. QED
        BY <2>2, <4>1 DEF Calm, Alone, Takes
    <3>3. QED
      BY <3>1, <3>2
  <2>4. \A u \in Task : /\ (Takes(task'[u]) <=> Takes(task[u])) /\ (Owns(task'[u]) <=> Owns(task[u]))
                        /\ ~Asks(task'[u])
    BY <2>1, <2>2, <2>3
  <2>5. Alone'
    BY <2>4 DEF Calm, Alone
  <2>6. Taken'
    BY <1>1, <1>4, <2>4 DEF Calm, Taken
  <2>7. Rows'
    BY <1>1, <1>4, <2>1, <2>2 DEF Calm, Rows
  <2>8. Flags' /\ Gated' /\ Wired'
    BY <1>1, <1>4 DEF Calm, Flags, Gated, Wired
  <2>9. QED
    BY <2>5, <2>6, <2>7, <2>8 DEF Calm
<1>5. "preCompaction" \notin env.kinds
  BY OrderlyKinds
<1>6. \/ phase = "ended" /\ phase' = "endedCompacting" /\ task' = task
      \/ phase = "idle" /\ phase' = phase /\ \E t \in Task : task[t].stage = "compactWait" /\ Move(t, "compact")
  BY <1>5 DEF CompactionBegins, Fault, TasksIn
<1>7. QED
  BY <1>3, <1>4, <1>6

LEMMA CompactedTakes ==
    ASSUME NEW r \in Row, r.stage # "preCompact"
    PROVE  /\ (Takes(AfterCompaction(r)) <=> Takes(r)) /\ (Owns(AfterCompaction(r)) <=> Owns(r))
           /\ (Asks(AfterCompaction(r)) <=> Asks(r)) /\ (Waits(AfterCompaction(r)) <=> Waits(r))
           /\ \A t, arm, ph, q : Sound(r, t, arm, ph) /\ (q = "idle" <=> ph = "idle")
                              => Sound(AfterCompaction(r), t, arm, q)
<1>1. CASE r.stage = "compact" /\ ~r.direct
  <2>1. AfterCompaction(r) = [r EXCEPT !.stage = "compactEnd"]
    BY <1>1 DEF AfterCompaction
  <2>2. AfterCompaction(r).stage = "compactEnd" /\ AfterCompaction(r).direct = r.direct
    BY <2>1 DEF Row
  <2>3. QED
    BY <1>1, <2>2 DEF Takes, Owns, Asks, Waits, Sound
<1>2. CASE r.stage = "compact" /\ r.direct
  <2>1. AfterCompaction(r) = FreeTask
    BY <1>2 DEF AfterCompaction
  <2>2. QED
    BY <1>2, <2>1, FreeTakes DEF Takes, Owns, Asks, Waits
<1>3. CASE r.stage # "compact"
  <2>1. AfterCompaction(r) = r
    BY <1>3 DEF AfterCompaction
  <2>2. QED
    BY <2>1 DEF Sound
<1>4. QED
  BY <1>1, <1>2, <1>3

LEMMA CalmCompacted == ASSUME Typed, Calm, wire = <<>>, ~RetryPending, CompactionEnds PROVE Calm'
<1> DEFINE base == [t \in Task |-> AfterCompaction(task[t])]
<1>1. /\ compacting /\ compacting' = FALSE
      /\ phase' = IF phase = "endedCompacting" THEN "ended" ELSE phase
      /\ ReserveAndDispatch(~local /\ ~isStreaming, base, local)
      /\ UNCHANGED <<wire, armed, gate, runOf, accounting>>
  BY DEF CompactionEnds, gateVars, shouldDispatchQueueAfterTerminal
<1>2. task \in [Task -> Row] /\ base \in [Task -> Row]
  BY CompactedRows, CalmTypes
<1>3. (phase' = "idle" <=> phase = "idle") /\ phase' # "endedCompacting"
  BY <1>1
<1>4. ASSUME NEW u \in Task
      PROVE  /\ (Takes(base[u]) <=> Takes(task[u])) /\ (Owns(base[u]) <=> Owns(task[u]))
             /\ (Asks(base[u]) <=> Asks(task[u])) /\ (Waits(base[u]) <=> Waits(task[u]))
             /\ Sound(base[u], u, armed', phase')
  <2>1. task[u] \in Row /\ Sound(task[u], u, armed, phase) /\ task[u].stage # "preCompact"
    BY <1>2 DEF Calm, Rows, Sound
  <2>2. base[u] = AfterCompaction(task[u]) /\ armed' = armed
    BY <1>1
  <2>3. QED
    BY <1>3, <2>1, <2>2, CompactedTakes
<1> HIDE DEF base
<1>5. CASE task' = base /\ local' = local
  <2>1. Alone'
    BY <1>4, <1>5 DEF Calm, Alone
  <2>2. Taken'
    <3>1. ASSUME NEW t \in Task, Takes(task'[t])
          PROVE  /\ phase' = "idle" /\ accounting' = 0 /\ (local' <=> Owns(task'[t]))
                 /\ Owns(task'[t]) \/ wire' = <<>>
                 /\ Asks(task'[t]) => ~compacting' /\ \A u \in Task : ~Waits(task'[u])
      <4>1. Takes(task[t]) /\ (Owns(task'[t]) <=> Owns(task[t])) /\ (Asks(task'[t]) <=> Asks(task[t]))
        BY <1>4, <1>5, <3>1
      <4>2. ~Asks(task[t]) /\ phase = "idle" /\ accounting = 0 /\ (local <=> Owns(task[t]))
        BY <1>1, <4>1 DEF Calm, Taken
      <4>3. QED
        BY <1>1, <1>3, <1>5, <4>1, <4>2
    <3>2. QED
      BY <3>1 DEF Taken
  <2>3. Rows'
    BY <1>4, <1>5 DEF Rows
  <2>4. Flags'
    BY <1>1, <1>3, <1>5 DEF Calm, Flags
  <2>5. Gated' /\ Wired'
    BY <1>1, <1>3 DEF Calm, Gated, Wired
  <2>6. QED
    BY <2>1, <2>2, <2>3, <2>4, <2>5 DEF Calm
<1>6. CASE ~local /\ ~isStreaming /\ local'
  <2>1. phase = "idle" /\ accounting = 0 /\ phase' = "idle" /\ accounting' = 0
    BY <1>1, <1>3, <1>6 DEF isStreaming, Calm, Flags
  <2>2. ASSUME NEW u \in Task PROVE ~Takes(base[u])
    BY <1>1, <1>4, <1>6 DEF Calm, Taken, Takes, RetryPending, TasksIn
  <2>3. Rows' /\ Alone' /\ Taken'
    BY <1>1, <1>2, <1>4, <2>1, <2>2, ReserveCalm
  <2>4. Flags'
    BY <1>6, <2>1 DEF Flags
  <2>5. Gated' /\ Wired'
    BY <1>1, <2>1 DEF Calm, Gated, Wired
  <2>6. QED
    BY <2>3, <2>4, <2>5 DEF Calm
<1>7. QED
  BY <1>1, <1>2, <1>5, <1>6, ReserveTakes

LEMMA CalmSdk == Typed /\ Orderly /\ Calm /\ Free /\ SdkStep => Calm'
  BY CalmBegins, CalmEnds, CalmCompletes, CalmSettled, CalmCompacts, CalmCompacted DEF SdkStep, Free

LEMMA QuietNext == Typed /\ Quiet /\ [Next]_vars => Quiet'
<1> SUFFICES ASSUME Typed, Quiet, [Next]_vars PROVE Quiet'
  OBVIOUS
<1>1. CASE UNCHANGED vars
  <2>1. Orderly' = Orderly /\ UNCHANGED calmVars
    BY <1>1 DEF vars, Orderly, calmVars
  <2>2. QED
    BY <2>1, CalmStays DEF Quiet
<1>2. CASE Next
  <2>1. Orderly' <=> Orderly
    BY <1>2 DEF Next, ClientStep, HostReceives, TaskStep, SdkStep, EnvStep, Orderly, TasksIn
  <2>2. SUFFICES ASSUME Orderly PROVE Calm'
    BY <2>1 DEF Quiet
  <2>3. Calm /\ (~Delivering => wire = <<>>)
    BY <2>2, OrderlyKinds DEF Quiet, Delivering
  <2>4. CASE RetryPending
    BY <1>2, <2>2, <2>3, <2>4, CalmTask DEF Next, TasksIn
  <2>5. CASE ~RetryPending /\ Delivering
    BY <1>2, <2>2, <2>3, <2>5, CalmHost DEF Next
  <2>6. CASE ~RetryPending /\ ~Delivering
    <3>1. Free /\ ~HostReceives
      BY <2>3, <2>6 DEF Free, HostReceives, ReceivePrompt, ReceiveCompact, ReceiveQueue
    <3>2. ClientStep \/ EnvStep \/ SdkStep \/ \E t \in Task : TaskStep(t)
      BY <1>2, <2>6, <3>1 DEF Next
    <3>3. wire = <<>>
      BY <3>1 DEF Free
    <3>4. QED
      BY <2>2, <2>3, <3>1, <3>2, <3>3, CalmClient, CalmEnv, CalmSdk, CalmTask
  <2>7. QED
    BY <2>4, <2>5, <2>6
<1>3. QED
  BY <1>1, <1>2

LEMMA QuietAlways == Spec => [](Typed /\ Quiet)
<1>1. Init => Quiet
  BY CalmInit DEF Quiet
<1>2. QED
  BY <1>1, TypeInit, TypeNext, QuietNext, PTL DEF Spec

\* An orderly tab never prepares the head of its queue twice at a time, although
\* reserveQueuedDispatch does not look whether a dispatch is under way.
THEOREM OneDispatch == Spec => []OneDispatchAtATime
<1>1. Quiet => OneDispatchAtATime
  BY DEF Quiet, Calm, Alone, Rows, Sound, Takes, Owns, OneDispatchAtATime, TasksIn, Reserved
<1>2. QED
  BY <1>1, QuietAlways, PTL

\* An orderly tab streams as long as its agent runs, so that assertFileHistoryIdle
\* refuses undo, restore and redo.
THEOREM LockedInRun == Spec => []FileHistoryLockedInRun
<1>1. Quiet => FileHistoryLockedInRun
  BY DEF Quiet, Calm, Flags, FileHistoryLockedInRun
<1>2. QED
  BY <1>1, QuietAlways, PTL

\* A run of an orderly tab that settles leaves a completion to notify, the user's,
\* and the next run begins with none.
THEOREM NotifiesUser == Spec => NotifiesUserRunsOnly
<1>1. Quiet /\ Quiet' /\ [Next]_vars =>
        [Orderly /\ phase = "ended" /\ phase' = "idle"
           => /\ (gate.user /\ gate.completion) <=> runOf \in Task
              /\ ~gate'.completion]_vars
  <2> SUFFICES ASSUME Quiet, Quiet', Next, Orderly, phase = "ended", phase' = "idle"
               PROVE  gate.user /\ gate.completion /\ runOf \in Task /\ ~gate'.completion
    BY DEF vars
  <2>1. Orderly'
    BY DEF Next, ClientStep, HostReceives, TaskStep, SdkStep, EnvStep, Orderly, TasksIn
  <2>2. QED
    BY <2>1 DEF Quiet, Calm, Gated
<1>2. QED
  BY <1>1, QuietAlways, PTL DEF Spec, NotifiesUserRunsOnly

----------------------------------------------------------------------------
(***************************************************************************)
(* The orderly tab as a ledger: where each message is (on its way to the   *)
(* host, queued, asked by a direct prompt, drawn from the queue by a       *)
(* dispatch, delivered), and the few ways in which a step moves one.       *)
(***************************************************************************)

\* A dispatch has its message in hand until its run begins or it gives up.
Grips(r, D) == Carry(r, D) /\ r.stage \notin {"running", "returning"}
Gripped(T, D, b) == {T[t].msg : t \in {u \in Task : Grips(T[u], D) /\ T[u].direct = b}}
Asked == Gripped(task, Delivered, TRUE)
Drawn == Gripped(task, Delivered, FALSE)

SameHands  == Asked' = Asked /\ Drawn' = Drawn /\ Delivered' = Delivered
SamePapers == queue' = queue /\ fate' = fate /\ arrival' = arrival

Still   == SameHands /\ SamePapers /\ Sent' = Sent
Sends(m) ==
    /\ fate[m] = "unsent" /\ fate' = [fate EXCEPT ![m] = "pending"]
    /\ Sent' = Sent \cup {m} /\ queue' = queue /\ arrival' = arrival /\ SameHands
Enters(m) ==
    /\ m \in Sent /\ Sent' = Sent \ {m}
    /\ queue' = Append(queue, m) /\ arrival' = Append(arrival, m) /\ fate' = fate /\ SameHands
Starts(m) ==
    /\ m \in Sent /\ Sent' = Sent \ {m} /\ Asked' = Asked \cup {m}
    /\ Drawn' = Drawn /\ Delivered' = Delivered /\ SamePapers
Ends(m, s) ==
    /\ m \in Sent \cup Asked \cup Drawn /\ s \in {"handled", "refused"}
    /\ m \in Drawn => s = "handled"
    /\ Sent' = Sent \ {m} /\ Asked' = Asked \ {m} /\ Drawn' = Drawn \ {m} /\ Delivered' = Delivered
    /\ fate' = [fate EXCEPT ![m] = s] /\ queue' = queue /\ arrival' = arrival
Drops ==
    /\ queue # <<>> /\ queue' = Tail(queue) /\ fate' = [fate EXCEPT ![Head(queue)] = "handled"]
    /\ arrival' = arrival /\ Sent' = Sent /\ SameHands
Draws ==
    /\ queue # <<>> /\ queue' = Tail(queue) /\ Drawn = {} /\ Drawn' = {Head(queue)}
    /\ fate' = fate /\ arrival' = arrival
    /\ Sent' = Sent /\ Asked' = Asked /\ Delivered' = Delivered
PutsBack(m) ==
    /\ m \in Drawn /\ Drawn' = Drawn \ {m} /\ queue' = <<m>> \o queue
    /\ fate' = fate /\ arrival' = arrival
    /\ Sent' = Sent /\ Asked' = Asked /\ Delivered' = Delivered
Runs(m) ==
    /\ m \in Asked \cup Drawn /\ Asked' = Asked \ {m} /\ Drawn' = Drawn \ {m}
    /\ Delivered' = Delivered \cup {m} /\ Sent' = Sent /\ SamePapers
Edits(m, new) ==
    /\ m \in ToSet(queue) /\ fate[new] = "unsent"
    /\ queue' = Renamed(queue, m, new) /\ arrival' = Renamed(arrival, m, new)
    /\ fate' = [fate EXCEPT ![m] = "withdrawn", ![new] = "pending"]
    /\ Sent' = Sent /\ SameHands
Removes(i) ==
    /\ queue' = RemoveAt(queue, i) /\ fate' = [fate EXCEPT ![queue[i]] = "withdrawn"]
    /\ arrival' = arrival /\ Sent' = Sent /\ SameHands
Cancels ==
    /\ queue' = <<>> /\ fate' = [m \in Msg |-> IF m \in ToSet(queue) THEN "withdrawn" ELSE fate[m]]
    /\ arrival' = arrival /\ Sent' = Sent /\ SameHands

Ledger ==
    \/ Still \/ Drops \/ Draws \/ Cancels
    \/ \E m \in Msg : \/ Sends(m) \/ Enters(m) \/ Starts(m) \/ Runs(m) \/ PutsBack(m)
                      \/ \E s \in {"handled", "refused"} : Ends(m, s)
                      \/ \E new \in Msg : Edits(m, new)
    \/ \E i \in DOMAIN queue : Removes(i)

\* What happens to the messages in hand when rows change: nothing, one is let go,
\* one is taken.
Agree(S, D, T, E, u) ==
    /\ Grips(T[u], E) <=> Grips(S[u], D)
    /\ Grips(S[u], D) => T[u].msg = S[u].msg /\ T[u].direct = S[u].direct

LEMMA AllAgree ==
    ASSUME NEW S, NEW D, NEW T, NEW E, \A u \in Task : Agree(S, D, T, E, u)
    PROVE  \A b : Gripped(T, E, b) = Gripped(S, D, b)
  BY DEF Agree, Gripped

LEMMA OneLetsGo ==
    ASSUME NEW S, NEW D, NEW T, NEW E, NEW t \in Task,
           \A u \in Task : u # t => Agree(S, D, T, E, u),
           Grips(S[t], D), ~Grips(T[t], E),
           \A u \in Task : Grips(S[u], D) /\ S[u].msg = S[t].msg => u = t
    PROVE  \A b : Gripped(T, E, b) = Gripped(S, D, b) \ {S[t].msg}
<1> SUFFICES ASSUME NEW b PROVE Gripped(T, E, b) = Gripped(S, D, b) \ {S[t].msg}
  OBVIOUS
<1>1. ASSUME NEW x \in Gripped(T, E, b) PROVE x \in Gripped(S, D, b) /\ x # S[t].msg
  <2>1. PICK u \in Task : Grips(T[u], E) /\ T[u].direct = b /\ T[u].msg = x
    BY <1>1 DEF Gripped
  <2>2. u # t /\ Grips(S[u], D) /\ S[u].msg = x /\ S[u].direct = b
    BY <2>1 DEF Agree
  <2>3. QED
    BY <2>2 DEF Gripped
<1>2. ASSUME NEW x \in Gripped(S, D, b), x # S[t].msg PROVE x \in Gripped(T, E, b)
  <2>1. PICK u \in Task : Grips(S[u], D) /\ S[u].direct = b /\ S[u].msg = x
    BY <1>2 DEF Gripped
  <2>2. Grips(T[u], E) /\ T[u].msg = x /\ T[u].direct = b
    BY <1>2, <2>1 DEF Agree
  <2>3. QED
    BY <2>2 DEF Gripped
<1>3. QED
  BY <1>1, <1>2

LEMMA OneGrips ==
    ASSUME NEW S, NEW D, NEW T, NEW E, NEW t \in Task,
           \A u \in Task : u # t => Agree(S, D, T, E, u),
           ~Grips(S[t], D), Grips(T[t], E)
    PROVE  \A b : Gripped(T, E, b) = IF T[t].direct = b THEN Gripped(S, D, b) \cup {T[t].msg}
                                                        ELSE Gripped(S, D, b)
<1> SUFFICES ASSUME NEW b
             PROVE  Gripped(T, E, b) = IF T[t].direct = b THEN Gripped(S, D, b) \cup {T[t].msg}
                                                          ELSE Gripped(S, D, b)
  OBVIOUS
<1>1. ASSUME NEW x \in Gripped(T, E, b)
      PROVE  x \in Gripped(S, D, b) \/ (T[t].direct = b /\ x = T[t].msg)
  <2>1. PICK u \in Task : Grips(T[u], E) /\ T[u].direct = b /\ T[u].msg = x
    BY <1>1 DEF Gripped
  <2>2. u # t => Grips(S[u], D) /\ S[u].msg = x /\ S[u].direct = b
    BY <2>1 DEF Agree
  <2>3. QED
    BY <2>1, <2>2 DEF Gripped
<1>2. ASSUME NEW x \in Gripped(S, D, b) PROVE x \in Gripped(T, E, b)
  <2>1. PICK u \in Task : Grips(S[u], D) /\ S[u].direct = b /\ S[u].msg = x
    BY <1>2 DEF Gripped
  <2>2. u # t /\ Grips(T[u], E) /\ T[u].msg = x /\ T[u].direct = b
    BY <2>1 DEF Agree
  <2>3. QED
    BY <2>2 DEF Gripped
<1>3. T[t].direct = b => T[t].msg \in Gripped(T, E, b)
  BY DEF Gripped
<1>4. QED
  BY <1>1, <1>2, <1>3

LEMMA InHand ==
    ASSUME Typed, Placed, NEW t \in Task, Grips(task[t], Delivered)
    PROVE  /\ task[t].msg \in Msg
           /\ IF task[t].direct THEN task[t].msg \in Asked /\ task[t].msg \notin Drawn
                                ELSE task[t].msg \in Drawn /\ task[t].msg \notin Asked
           /\ \A u \in Task : Grips(task[u], Delivered) /\ task[u].msg = task[t].msg => u = t
<1>1. \A u \in Task : Grips(task[u], Delivered) => Carry(task[u], Delivered)
  BY DEF Grips
<1>2. \A u \in Task : Grips(task[u], Delivered) /\ task[u].msg = task[t].msg => u = t
  BY <1>1, PlacedFacts DEF Spots
<1>3. task[t].msg \in Msg /\ task[t].direct \in BOOLEAN
  BY <1>1, PlacedFacts DEF Row
<1>4. IF task[t].direct THEN task[t].msg \in Asked ELSE task[t].msg \in Drawn
  BY <1>3 DEF Asked, Drawn, Gripped
<1>5. ASSUME NEW b, b # task[t].direct, task[t].msg \in Gripped(task, Delivered, b) PROVE FALSE
  <2>1. PICK u \in Task : Grips(task[u], Delivered) /\ task[u].direct = b /\ task[u].msg = task[t].msg
    BY <1>5 DEF Gripped
  <2>2. QED
    BY <1>2, <1>5, <2>1
<1>6. /\ task[t].direct => task[t].msg \notin Drawn
      /\ ~task[t].direct => task[t].msg \notin Asked
  BY <1>3, <1>5 DEF Asked, Drawn
<1>7. QED
  BY <1>2, <1>3, <1>4, <1>6

\* No row differs in what it grips; or only that of dispatch t may.
Aside(t) == \A u \in Task : u # t => task'[u] = task[u]

LEMMA HandsAgree ==
    ASSUME Delivered' = Delivered, \A u \in Task : Agree(task, Delivered, task', Delivered, u)
    PROVE  SameHands
<1>1. \A b : Gripped(task', Delivered', b) = Gripped(task, Delivered, b)
  BY AllAgree
<1>2. QED
  BY <1>1 DEF SameHands, Asked, Drawn

LEMMA HandsStay ==
    ASSUME Delivered' = Delivered, NEW t \in Task, Aside(t),
           Grips(task'[t], Delivered) <=> Grips(task[t], Delivered),
           Grips(task[t], Delivered) => task'[t].msg = task[t].msg /\ task'[t].direct = task[t].direct
    PROVE  SameHands
<1>1. \A u \in Task : Agree(task, Delivered, task', Delivered, u)
  BY DEF Agree, Aside
<1>2. QED
  BY <1>1, HandsAgree

LEMMA HandOpens ==
    ASSUME Typed, Placed, Delivered' = Delivered, NEW t \in Task, Aside(t),
           Grips(task[t], Delivered), ~Grips(task'[t], Delivered)
    PROVE  Asked' = Asked \ {task[t].msg} /\ Drawn' = Drawn \ {task[t].msg}
<1>1. \A u \in Task : u # t => Agree(task, Delivered, task', Delivered', u)
  BY DEF Agree, Aside
<1>2. \A b : Gripped(task', Delivered', b) = Gripped(task, Delivered, b) \ {task[t].msg}
  BY <1>1, InHand, OneLetsGo
<1>3. QED
  BY <1>2 DEF Asked, Drawn

LEMMA HandCloses ==
    ASSUME Typed, Delivered' = Delivered, NEW t \in Task, Aside(t),
           ~Grips(task[t], Delivered), Grips(task'[t], Delivered), task'[t].direct \in BOOLEAN
    PROVE  IF task'[t].direct THEN Asked' = Asked \cup {task'[t].msg} /\ Drawn' = Drawn
                              ELSE Asked' = Asked /\ Drawn' = Drawn \cup {task'[t].msg}
<1>1. \A u \in Task : u # t => Agree(task, Delivered, task', Delivered', u)
  BY DEF Agree, Aside
<1>2. \A b : Gripped(task', Delivered', b) =
               IF task'[t].direct = b THEN Gripped(task, Delivered, b) \cup {task'[t].msg}
                                      ELSE Gripped(task, Delivered, b)
  BY <1>1, OneGrips
<1>3. QED
  BY <1>2 DEF Asked, Drawn

LEMMA ClientMoves == Typed /\ Placed /\ ClientStep => Ledger
<1> SUFFICES ASSUME Typed, Placed, ClientStep PROVE Ledger
  OBVIOUS
<1>1. ASSUME NEW m \in Msg, Submit(m) PROVE Sends(m)
  <2>1. PICK b \in BOOLEAN : wire' = Append(wire, [queued |-> b, msg |-> m])
    BY <1>1 DEF Submit, Typed, TypeOK
  <2>2. /\ UNCHANGED <<queue, task, transcript, arrival>>
        /\ fate[m] = "unsent" /\ fate' = [fate EXCEPT ![m] = "pending"]
    BY <1>1 DEF Submit, queueVars, sdkVars
  <2>3. Letters(wire') = Append(Letters(wire), m)
    BY <2>1, LettersAppend, PlacedFacts
  <2>4. Sent' = Sent \cup {m}
    BY <2>3, Appended, SetsOf, PlacedFacts DEF Sent
  <2>5. SameHands
    BY <2>2 DEF SameHands, Asked, Drawn, Delivered
  <2>6. QED
    BY <2>2, <2>4, <2>5 DEF Sends
<1>2. ASSUME UNCHANGED <<wire, task, transcript>> PROVE Sent' = Sent /\ SameHands
  BY <1>2 DEF Sent, Letters, SameHands, Asked, Drawn, Delivered
<1>3. ASSUME NEW i \in DOMAIN queue, RemoveQueued(i) PROVE Removes(i)
  <2>1. /\ UNCHANGED <<wire, task, transcript, arrival>> /\ queue' = RemoveAt(queue, i)
        /\ fate' = [fate EXCEPT ![queue[i]] = "withdrawn"]
    BY <1>3 DEF RemoveQueued, ApplyQueueControl, sdkVars
  <2>2. QED
    BY <1>2, <2>1 DEF Removes
<1>4. ASSUME NEW i \in DOMAIN queue, NEW m \in Msg, EditQueued(i, m)
      PROVE  queue[i] \in Msg /\ Edits(queue[i], m)
  <2>1. /\ UNCHANGED <<wire, task, transcript>> /\ queue' = ReplaceAt(queue, i, m) /\ fate[m] = "unsent"
        /\ fate' = [fate EXCEPT ![queue[i]] = "withdrawn", ![m] = "pending"]
        /\ arrival' = Renamed(arrival, queue[i], m)
    BY <1>4 DEF EditQueued, ApplyQueueControl, sdkVars, Renamed
  <2>2. queue[i] \in ToSet(queue) /\ queue' = Renamed(queue, queue[i], m) /\ queue[i] \in Msg
    BY <2>1, InSet, Replaced, PlacedFacts
  <2>3. QED
    BY <1>2, <2>1, <2>2 DEF Edits
<1>5. CASE CancelQueue
  <2>1. /\ UNCHANGED <<wire, task, transcript, arrival>> /\ queue' = <<>>
        /\ fate' = [m \in Msg |-> IF m \in ToSet(queue) THEN "withdrawn" ELSE fate[m]]
    BY <1>5 DEF CancelQueue, ApplyQueueControl, sdkVars
  <2>2. Cancels
    BY <1>2, <2>1 DEF Cancels
  <2>3. QED
    BY <2>2 DEF Ledger
<1>6. CASE Steer
  <2>1. UNCHANGED <<wire, queue, task, fate, arrival>> /\ transcript' = Append(transcript, NoMsg)
    BY <1>6 DEF Steer, queueVars, histVars
  <2>2. Delivered' = Delivered
    BY <2>1, Slipped
  <2>3. Still
    BY <2>1, <2>2 DEF Still, SameHands, SamePapers, Sent, Letters, Asked, Drawn
  <2>4. QED
    BY <2>3 DEF Ledger
<1>7. QED
  BY <1>1, <1>3, <1>4, <1>5, <1>6 DEF ClientStep, Ledger

LEMMA HostMoves == Typed /\ Placed /\ HostReceives => Ledger
<1> SUFFICES ASSUME Typed, Placed, HostReceives PROVE Ledger
  OBVIOUS
<1> DEFINE x == Received
<1>1. wire # <<>> /\ wire' = Tail(wire) /\ UNCHANGED transcript
  BY DEF HostReceives, ReceivePrompt, ReceiveCompact, ReceiveQueue, sdkVars
<1>2. x \in Sent /\ x \in Msg /\ Sent' = Sent \ {x}
  <2>1. /\ Letters(wire') = Tail(Letters(wire)) /\ Letters(wire) # <<>>
        /\ Head(Letters(wire)) = x
    BY <1>1, LettersTail, PlacedFacts DEF Received
  <2>2. QED
    BY <2>1, Tailed, SetsOf, PlacedFacts DEF Sent
<1>3. Delivered' = Delivered
  BY <1>1 DEF Delivered
<1>4. ASSUME QueueReceived PROVE Ledger
  <2>1. /\ queue' = Append(queue, x) /\ arrival' = Append(arrival, x) /\ task' = task /\ fate' = fate
    BY <1>4 DEF QueueReceived, ApplyQueueControl
  <2>2. SameHands
    BY <1>3, <2>1 DEF SameHands, Asked, Drawn
  <2>3. QED
    BY <1>2, <2>1, <2>2 DEF Enters, Ledger
<1> DEFINE row(s) == [FreeTask EXCEPT !.stage = s, !.msg = x, !.direct = TRUE]
<1>5. ASSUME NEW s, NEW t \in Task, task[t].stage = "free", task' = [task EXCEPT ![t] = row(s)]
      PROVE  /\ Aside(t) /\ ~Grips(task[t], Delivered)
             /\ task'[t].stage = s /\ task'[t].msg = x /\ task'[t].direct
  <2>1. row(s).msg = x /\ row(s).stage = s /\ row(s).direct
    BY DEF FreeTask
  <2> HIDE DEF row
  <2>2. task'[t] = row(s) /\ Aside(t)
    BY <1>5, PlacedFacts DEF Aside
  <2>3. QED
    BY <1>5, <2>1, <2>2 DEF Grips, Carry
<1> HIDE DEF row
<1>6. CASE ReceivePrompt /\ ~isSessionBusy
  <2>1. PICK t \in Task : task[t].stage = "free" /\ task' = [task EXCEPT ![t] = row("augment")]
    BY <1>6 DEF ReceivePrompt, TasksIn, row
  <2>2. SamePapers
    BY <1>6 DEF ReceivePrompt, SamePapers, queueVars
  <2>3. /\ Aside(t) /\ ~Grips(task[t], Delivered)
        /\ task'[t].stage = "augment" /\ task'[t].msg = x /\ task'[t].direct = TRUE
    <3>1. /\ Aside(t) /\ ~Grips(task[t], Delivered)
          /\ task'[t].stage = "augment" /\ task'[t].msg = x /\ task'[t].direct
      BY <1>5, <2>1
    <3>2. task'[t].direct \in BOOLEAN
      BY <2>1, PlacedFacts DEF row, FreeTask
    <3>3. QED
      BY <3>1, <3>2
  <2>4. Grips(task'[t], Delivered)
    BY <2>3 DEF Grips, Carry
  <2>5. Asked' = Asked \cup {x} /\ Drawn' = Drawn
    BY <1>3, <2>3, <2>4, HandCloses
  <2>6. Starts(x)
    BY <1>2, <1>3, <2>2, <2>5 DEF Starts
  <2>7. QED
    BY <1>2, <2>6 DEF Ledger
<1>7. CASE ReceiveCompact
  <2>1. PICK t \in Task : task[t].stage = "free" /\ task' = [task EXCEPT ![t] = row("compactWait")]
    BY <1>7 DEF ReceiveCompact, TasksIn, row
  <2>2. queue' = queue /\ arrival' = arrival /\ fate' = [fate EXCEPT ![x] = "handled"]
    BY <1>7 DEF ReceiveCompact, queueVars
  <2>3. Aside(t) /\ ~Grips(task[t], Delivered) /\ task'[t].stage = "compactWait"
    BY <1>5, <2>1
  <2>4. ~Grips(task'[t], Delivered)
    BY <2>3 DEF Grips, Carry
  <2>5. SameHands
    BY <1>3, <2>3, <2>4, HandsStay
  <2>6. x \notin Asked /\ x \notin Drawn
    BY <1>2, PlacedFacts DEF Spots, Asked, Drawn, Gripped, Grips
  <2>7. Ends(x, "handled")
    BY <1>2, <2>2, <2>5, <2>6 DEF Ends, SameHands
  <2>8. QED
    BY <1>2, <2>7 DEF Ledger
<1>8. CASE ReceiveQueue \/ (ReceivePrompt /\ isSessionBusy)
  BY <1>4, <1>8 DEF ReceiveQueue, ReceivePrompt
<1>9. QED
  BY <1>6, <1>7, <1>8 DEF HostReceives

\* A reservation moves no message but a queued /compact.
LEMMA DispatchMoves ==
    ASSUME Delivered' = Delivered, Sent' = Sent, arrival' = arrival,
           NEW base \in [Task -> Row], NEW t \in Task, queue # <<>>, DispatchHead(t, base),
           \A u \in Task : Agree(task, Delivered, base, Delivered, u),
           ~Grips(base[t], Delivered)
    PROVE  Ledger
<1>1. /\ task'[t].stage \in {"augment", "compactWait"} /\ ~task'[t].direct
      /\ \A u \in Task : u # t => task'[u] = base[u]
  BY DispatchTakes
<1>2. ~Grips(task'[t], Delivered)
  BY <1>1 DEF Grips, Carry
<1>3. \A u \in Task : Agree(task, Delivered, task', Delivered, u)
  BY <1>1, <1>2 DEF Agree
<1>4. SameHands
  BY <1>3, HandsAgree
<1>5. CASE IsCompact(Head(queue))
  <2>1. Drops
    BY <1>4, <1>5 DEF DispatchHead, Drops
  <2>2. QED
    BY <2>1 DEF Ledger
<1>6. CASE ~IsCompact(Head(queue))
  <2>1. Still
    BY <1>4, <1>6 DEF DispatchHead, Still, SamePapers
  <2>2. QED
    BY <2>1 DEF Ledger
<1>7. QED
  BY <1>5, <1>6

LEMMA ReserveMoves ==
    ASSUME UNCHANGED <<wire, transcript, arrival>>,
           NEW base \in [Task -> Row], NEW allowed, NEW flag, ReserveAndDispatch(allowed, base, flag),
           \A u \in Task : Agree(task, Delivered, base, Delivered, u)
    PROVE  Ledger
<1>1. Sent' = Sent /\ Delivered' = Delivered
  BY PlacesKept
<1>2. CASE allowed /\ queue # <<>>
  <2>1. PICK t \in Task : base[t].stage = "free" /\ DispatchHead(t, base)
    BY <1>2 DEF ReserveAndDispatch
  <2>2. ~Grips(base[t], Delivered)
    BY <2>1 DEF Grips, Carry
  <2>3. QED
    BY <1>1, <1>2, <2>1, <2>2, DispatchMoves
<1>3. CASE ~(allowed /\ queue # <<>>)
  <2>1. task' = base /\ SamePapers
    BY <1>3 DEF ReserveAndDispatch, queueVars, SamePapers
  <2>2. SameHands
    BY <1>1, <2>1, HandsAgree
  <2>3. Still
    BY <1>1, <2>1, <2>2 DEF Still
  <2>4. QED
    BY <2>3 DEF Ledger
<1>4. QED
  BY <1>2, <1>3

\* A dispatch that held nothing and ends with a reservation.
LEMMA HandOverMoves ==
    ASSUME Typed, UNCHANGED <<wire, transcript, arrival>>, NEW t \in Task, ~Grips(task[t], Delivered),
           NEW allowed, NEW flag, ReserveAndDispatch(allowed, [task EXCEPT ![t] = FreeTask], flag)
    PROVE  Ledger
<1> DEFINE base == [task EXCEPT ![t] = FreeTask]
<1>1. /\ base \in [Task -> Row] /\ base[t] = FreeTask
      /\ \A u \in Task : u # t => base[u] = task[u]
  BY RowAt, FreeTakes, CalmTypes
<1>2. ReserveAndDispatch(allowed, base, flag)
  OBVIOUS
<1> HIDE DEF base
<1>3. ~Grips(base[t], Delivered)
  BY <1>1, FreeRowCarries DEF Grips
<1>4. \A u \in Task : Agree(task, Delivered, base, Delivered, u)
  BY <1>1, <1>3 DEF Agree
<1>5. QED
  BY <1>1, <1>2, <1>4, ReserveMoves

\* The row of a dispatch that becomes free, or goes on to another stage.
LEMMA FreedHand ==
    ASSUME Typed, NEW t \in Task, task' = [task EXCEPT ![t] = FreeTask]
    PROVE  Aside(t) /\ ~Grips(task'[t], Delivered)
<1>1. task'[t] = FreeTask /\ Aside(t)
  BY RowAt, FreeTakes, CalmTypes DEF Aside
<1>2. QED
  BY <1>1, FreeRowCarries DEF Grips

LEMMA MovedHand ==
    ASSUME Typed, NEW t \in Task, NEW s \in Stage, Move(t, s)
    PROVE  /\ Aside(t) /\ task'[t].stage = s /\ task'[t].msg = task[t].msg
           /\ task'[t].direct = task[t].direct /\ task'[t].started = task[t].started
<1>1. task' = [task EXCEPT ![t].stage = s] /\ task \in [Task -> Row]
  BY CalmTypes DEF Move
<1>2. QED
  BY ONLY <1>1, StageAt DEF Aside

\* The end of a queued dispatch puts its message back or has none.
LEMMA FinallyMoves ==
    ASSUME Typed, Placed, NEW t \in Task, NEW q, QueuedFinally(t, q), ~task[t].direct,
           UNCHANGED <<wire, transcript, fate, arrival>>,
           IF Grips(task[t], Delivered) THEN q = <<task[t].msg>> \o queue ELSE q = queue
    PROVE  Ledger
<1>1. Sent' = Sent /\ Delivered' = Delivered
  BY PlacesKept
<1>2. Aside(t) /\ ~Grips(task'[t], Delivered)
  <2>1. task' = [task EXCEPT ![t] = FreeTask] \/ Move(t, "retry")
    BY DEF QueuedFinally
  <2>2. CASE task' = [task EXCEPT ![t] = FreeTask]
    BY <2>2, FreedHand
  <2>3. CASE Move(t, "retry")
    <3>1. "retry" \in Stage
      BY DEF Stage
    <3>2. Aside(t) /\ task'[t].stage = "retry"
      BY <2>3, <3>1, MovedHand
    <3>3. QED
      BY <3>2 DEF Grips, Carry
  <2>4. QED
    BY <2>1, <2>2, <2>3
<1>3. queue' = q
  BY DEF QueuedFinally
<1>4. CASE Grips(task[t], Delivered)
  <2>1. Asked' = Asked \ {task[t].msg} /\ Drawn' = Drawn \ {task[t].msg}
    BY <1>1, <1>2, <1>4, HandOpens
  <2>2. task[t].msg \in Msg /\ task[t].msg \in Drawn /\ task[t].msg \notin Asked
    BY <1>4, InHand
  <2>3. PutsBack(task[t].msg)
    BY <1>1, <1>3, <1>4, <2>1, <2>2 DEF PutsBack
  <2>4. QED
    BY <2>2, <2>3 DEF Ledger
<1>5. CASE ~Grips(task[t], Delivered)
  <2>1. SameHands
    BY <1>1, <1>2, <1>5, HandsStay
  <2>2. Still
    BY <1>1, <1>3, <1>5, <2>1 DEF Still, SamePapers
  <2>3. QED
    BY <2>2 DEF Ledger
<1>6. QED
  BY <1>4, <1>5

\* A dispatch goes on and keeps what it has.
LEMMA KeepsHand ==
    ASSUME Typed, NEW t \in Task, NEW s \in Stage, Move(t, s), UNCHANGED <<wire, transcript>>, SamePapers,
           Grips(task'[t], Delivered) <=> Grips(task[t], Delivered)
    PROVE  Ledger
<1>1. Sent' = Sent /\ Delivered' = Delivered
  BY PlacesKept
<1>2. SameHands
  BY <1>1, MovedHand, HandsStay
<1>3. Still
  BY <1>1, <1>2 DEF Still
<1>4. QED
  BY <1>3 DEF Ledger

\* The prompt of dispatch t, in hand until the session takes it, is not started.
LEMMA InHandRow ==
    ASSUME Typed, Placed, Calm, NEW t \in Task
    PROVE  /\ task[t].stage = "preflight" => Grips(task[t], Delivered) /\ ~task[t].started
                                             /\ task[t].msg \notin Delivered
           /\ task[t].stage = "augment" => (Grips(task[t], Delivered) <=> task[t].direct)
           /\ task[t].stage = "rejected" /\ ~task[t].direct =>
                 (Grips(task[t], Delivered) <=> ~task[t].started)
           /\ task[t].stage = "rejected" /\ task[t].direct =>
                 (Grips(task[t], Delivered) <=> task[t].msg \notin Delivered)
           /\ task[t].stage \notin {"preflight", "augment", "rejected"} => ~Grips(task[t], Delivered)
<1>1. /\ task[t].stage # "preCompact"
      /\ task[t].stage \in {"augment", "preflight"} => ~task[t].started
  BY DEF Calm, Rows, Sound
<1>2. Carry(task[t], Delivered) => task[t].msg \notin Delivered
  BY PlacedFacts DEF Spots
<1>3. QED
  BY <1>1, <1>2 DEF Grips, Carry

LEMMA QueuedMoves ==
    ASSUME Typed, Placed, Calm, NEW t \in Task, PromptQueued(t)
    PROVE  Ledger
<1>1. /\ task \in [Task -> Row] /\ task[t].stage = "augment" /\ ~task[t].direct
      /\ UNCHANGED <<wire, transcript, arrival>>
  BY CalmTypes DEF PromptQueued, sdkVars
<1>2. Sent' = Sent /\ Delivered' = Delivered /\ ~Grips(task[t], Delivered)
  BY <1>1, PlacesKept, InHandRow
<1>3. CASE HeadIs(t)
  <2> DEFINE r == [task[t] EXCEPT !.stage = "preflight", !.msg = Head(queue)]
  <2>1. queue' = Tail(queue) /\ fate' = fate /\ task' = [task EXCEPT ![t] = r]
    BY <1>3 DEF PromptQueued
  <2>2. queue # <<>>
    <3>1. TextOf[task[t].msg] \in Text
      BY <1>1, CalmTypes, TextType DEF Busy
    <3>2. QED
      BY <1>3, <3>1, MessageAssumption DEF HeadIs, HeadText
  <2>3. Head(queue) \in Msg
    BY <2>2, TailType, CalmTypes
  <2>4. r \in Row /\ r.stage = "preflight" /\ r.msg = Head(queue) /\ r.direct = FALSE
    BY <1>1, <2>3 DEF Row, Stage
  <2> HIDE DEF r
  <2>5. task'[t] = r /\ Aside(t)
    BY <1>1, <2>1, <2>4, RowAt DEF Aside
  <2>6. Grips(task'[t], Delivered)
    BY <2>4, <2>5 DEF Grips, Carry
  <2>7. Asked' = Asked /\ Drawn' = Drawn \cup {Head(queue)}
    BY <1>2, <2>4, <2>5, <2>6, HandCloses
  <2>8. Drawn = {}
    <3>1. ASSUME NEW u \in Task, Grips(task[u], Delivered), task[u].direct = FALSE PROVE FALSE
      <4>1. u # t
        BY <1>2, <3>1
      <4>2. ~Takes(task[u]) /\ task[u].stage \notin {"augment", "preflight"}
        BY <1>1, <4>1, OnePrompts
      <4>3. task[u].stage = "rejected" /\ ~task[u].started
        BY <3>1, <4>2, InHandRow
      <4>4. QED
        BY <3>1, <4>2, <4>3 DEF Takes, Owns
    <3>2. QED
      BY <3>1 DEF Drawn, Gripped
  <2>9. Draws
    BY <1>1, <1>2, <2>1, <2>2, <2>7, <2>8 DEF Draws
  <2>10. QED
    BY <2>9 DEF Ledger
<1>4. CASE ~HeadIs(t) /\ queue = <<>>
  <2>1. task' = [task EXCEPT ![t] = FreeTask] /\ SamePapers
    BY <1>1, <1>4 DEF PromptQueued, SamePapers, queueVars
  <2>2. SameHands
    BY <1>2, <2>1, FreedHand, HandsStay
  <2>3. Still
    BY <1>2, <2>1, <2>2 DEF Still
  <2>4. QED
    BY <2>3 DEF Ledger
<1>5. CASE ~HeadIs(t) /\ queue # <<>>
  <2>1. DispatchHead(t, task)
    BY <1>5 DEF PromptQueued
  <2>2. \A u \in Task : Agree(task, Delivered, task, Delivered, u)
    BY DEF Agree
  <2>3. QED
    BY <1>1, <1>2, <1>5, <2>1, <2>2, DispatchMoves
<1>6. QED
  BY <1>3, <1>4, <1>5

LEMMA TaskMoves ==
    ASSUME Typed, Placed, Calm, NEW t \in Task, TaskStep(t)
    PROVE  Ledger
<1>1. CASE PromptDirect(t)
  <2>1. /\ task[t].stage = "augment" /\ task[t].direct /\ Move(t, "preflight") /\ "preflight" \in Stage
        /\ UNCHANGED <<wire, transcript>> /\ SamePapers
    BY <1>1 DEF PromptDirect, Stage, SamePapers, queueVars, sdkVars, histVars
  <2>2. task'[t].stage = "preflight"
    BY <2>1, MovedHand
  <2>3. Grips(task'[t], Delivered) /\ Grips(task[t], Delivered)
    BY <2>1, <2>2 DEF Grips, Carry
  <2>4. QED
    BY <2>1, <2>3, KeepsHand
<1>2. CASE PromptQueued(t)
  BY <1>2, QueuedMoves
<1>3. CASE PromptReturns(t) /\ task[t].direct
  <2>1. /\ task[t].stage = "returning" /\ task' = [task EXCEPT ![t] = FreeTask]
        /\ UNCHANGED <<wire, transcript>> /\ SamePapers
    BY <1>3 DEF PromptReturns, SamePapers, queueVars, sdkVars, histVars
  <2>2. Sent' = Sent /\ Delivered' = Delivered
    BY <2>1, PlacesKept
  <2>3. SameHands
    BY <2>1, <2>2, FreedHand, InHandRow, HandsStay
  <2>4. Still
    BY <2>1, <2>2, <2>3 DEF Still
  <2>5. QED
    BY <2>4 DEF Ledger
<1>4. CASE PromptReturns(t) /\ ~task[t].direct
  <2>1. /\ task[t].stage = "returning" /\ QueuedFinally(t, queue)
        /\ UNCHANGED <<wire, transcript, fate, arrival>>
    BY <1>4 DEF PromptReturns, sdkVars, histVars
  <2>2. ~Grips(task[t], Delivered)
    BY <2>1, InHandRow
  <2>3. QED
    BY <1>4, <2>1, <2>2, FinallyMoves
<1>5. CASE PromptRefused(t)
  <2>1. /\ task[t].stage = "preflight" /\ Move(t, "rejected") /\ "rejected" \in Stage
        /\ UNCHANGED <<wire, transcript>> /\ SamePapers
    BY <1>5 DEF PromptRefused, Stage, SamePapers, queueVars, sdkVars, histVars
  <2>2. /\ task'[t].stage = "rejected" /\ task'[t].msg = task[t].msg
        /\ task'[t].direct = task[t].direct /\ task'[t].started = task[t].started
    BY <2>1, MovedHand
  <2>3. Grips(task[t], Delivered) /\ ~task[t].started /\ task[t].msg \notin Delivered
    BY <2>1, InHandRow
  <2>4. Grips(task'[t], Delivered)
    BY <2>2, <2>3 DEF Grips, Carry
  <2>5. QED
    BY <2>1, <2>3, <2>4, KeepsHand
<1>6. CASE DirectRejected(t)
  <2> DEFINE x == task[t].msg
  <2>1. /\ task[t].stage = "rejected" /\ task[t].direct /\ task' = [task EXCEPT ![t] = FreeTask]
        /\ UNCHANGED <<wire, queue, transcript, arrival>>
        /\ fate' = IF x \in Delivered THEN fate ELSE [fate EXCEPT ![x] = "refused"]
    BY <1>6 DEF DirectRejected, queueVars, sdkVars
  <2>2. Sent' = Sent /\ Delivered' = Delivered /\ Aside(t) /\ ~Grips(task'[t], Delivered)
    BY <2>1, PlacesKept, FreedHand
  <2>3. CASE x \in Delivered
    <3>1. ~Grips(task[t], Delivered)
      BY <2>1, <2>3, InHandRow
    <3>2. SameHands
      BY <2>2, <3>1, HandsStay
    <3>3. Still
      BY <2>1, <2>2, <2>3, <3>2 DEF Still, SamePapers
    <3>4. QED
      BY <3>3 DEF Ledger
  <2>4. CASE x \notin Delivered
    <3>1. Grips(task[t], Delivered)
      BY <2>1, <2>4, InHandRow
    <3>2. x \in Msg /\ x \in Asked /\ x \notin Drawn
      BY <2>1, <3>1, InHand
    <3>3. Asked' = Asked \ {x} /\ Drawn' = Drawn \ {x}
      BY <2>2, <3>1, HandOpens
    <3>4. x \notin Sent
      BY <3>1, PlacedFacts DEF Spots, Grips
    <3> HIDE DEF x
    <3>5. Ends(x, "refused")
      BY <2>1, <2>2, <2>4, <3>2, <3>3, <3>4 DEF Ends
    <3>6. QED
      BY <3>2, <3>5 DEF Ledger
  <2>5. QED
    BY <2>3, <2>4
<1>7. CASE QueuedRejected(t)
  <2>1. /\ task[t].stage = "rejected" /\ ~task[t].direct /\ QueuedFinally(t, queueAfterRejection(t))
        /\ UNCHANGED <<wire, transcript, fate, arrival>>
    BY <1>7 DEF QueuedRejected, sdkVars, histVars
  <2>2. Grips(task[t], Delivered) <=> ~task[t].started
    BY <2>1, InHandRow
  <2>3. QED
    BY <2>1, <2>2, FinallyMoves DEF queueAfterRejection
<1>8. CASE Retry(t)
  <2>1. /\ task[t].stage = "retry" /\ UNCHANGED <<wire, transcript, arrival>>
        /\ ReserveAndDispatch(HeadIs(t) /\ ~isStreaming, [task EXCEPT ![t] = FreeTask], local)
    BY <1>8 DEF Retry, sdkVars
  <2>2. QED
    BY <2>1, InHandRow, HandOverMoves
<1>9. CASE CompactReturns(t)
  <2>1. /\ task[t].stage = "compactEnd" /\ UNCHANGED <<wire, transcript, arrival>>
        /\ ReserveAndDispatch(~isStreaming, [task EXCEPT ![t] = FreeTask], FALSE)
    BY <1>9 DEF CompactReturns, sdkVars
  <2>2. QED
    BY <2>1, InHandRow, HandOverMoves
<1>10. QED
  BY <1>1, <1>2, <1>3, <1>4, <1>5, <1>6, <1>7, <1>8, <1>9 DEF TaskStep

\* A message in hand is answered: a command handled, a prompt refused.
LEMMA EndMoves ==
    ASSUME Typed, Placed, NEW t \in Task, Aside(t), UNCHANGED <<wire, queue, transcript, arrival>>,
           Grips(task[t], Delivered), ~Grips(task'[t], Delivered),
           NEW s \in {"handled", "refused"}, fate' = [fate EXCEPT ![task[t].msg] = s],
           ~task[t].direct => s = "handled"
    PROVE  Ledger
<1> DEFINE x == task[t].msg
<1>1. Sent' = Sent /\ Delivered' = Delivered
  BY PlacesKept
<1>2. Asked' = Asked \ {x} /\ Drawn' = Drawn \ {x}
  BY <1>1, HandOpens
<1>3. x \in Msg /\ x \in Asked \cup Drawn /\ (x \in Drawn => s = "handled")
  BY InHand
<1>4. x \notin Sent
  BY PlacedFacts DEF Spots, Grips
<1>5. fate' = [fate EXCEPT ![x] = s]
  OBVIOUS
<1> HIDE DEF x
<1>6. Ends(x, s)
  BY <1>1, <1>2, <1>3, <1>4, <1>5 DEF Ends
<1>7. QED
  BY <1>3, <1>6 DEF Ledger

LEMMA EnvMoves ==
    ASSUME Typed, Placed, Orderly, Calm, EnvStep
    PROVE  Ledger
<1>1. ~OtherRunBegins
  BY OrderlyKinds DEF OtherRunBegins, Fault
<1>2. CASE AutoRetry
  <2>1. phase = "ended" /\ AgentStarted(task) /\ UNCHANGED <<wire, transcript>> /\ SamePapers
    BY <1>2 DEF AutoRetry, SamePapers, histVars
  <2>2. Sent' = Sent /\ Delivered' = Delivered /\ task \in [Task -> Row]
    BY <2>1, PlacesKept, CalmTypes
  <2>3. ASSUME NEW u \in Task PROVE Agree(task, Delivered, task', Delivered, u)
    <3>1. task'[u] = IF u \in Watching THEN [task[u] EXCEPT !.started = TRUE] ELSE task[u]
      BY <2>1 DEF AgentStarted
    <3>2. CASE u \notin Watching
      BY <3>1, <3>2 DEF Agree
    <3>3. CASE u \in Watching
      <4>1. task[u].stage \in Prompting /\ task[u].stage # "preflight" /\ task[u].stage # "preCompact"
        BY <2>1, <3>3, BusyTakesNone DEF Watching, TasksIn, Takes, Owns, Sound
      <4>2. task'[u].stage = task[u].stage
        BY <2>1, <2>2, StartedRows
      <4>3. QED
        BY <4>1, <4>2 DEF Agree, Grips, Carry, Prompting
    <3>4. QED
      BY <3>2, <3>3
  <2>4. SameHands
    BY <2>2, <2>3, HandsAgree
  <2>5. Still
    BY <2>1, <2>2, <2>4 DEF Still
  <2>6. QED
    BY <2>5 DEF Ledger
<1>3. ASSUME NEW t \in Task, PrepareFails(t) PROVE Ledger
  <2>1. /\ task[t].stage = "augment" /\ task' = [task EXCEPT ![t] = FreeTask]
        /\ UNCHANGED <<wire, queue, transcript, arrival>>
        /\ IF task[t].direct THEN fate' = [fate EXCEPT ![task[t].msg] = "refused"] ELSE fate' = fate
    BY <1>3 DEF PrepareFails, queueVars, sdkVars
  <2>2. Sent' = Sent /\ Delivered' = Delivered /\ Aside(t) /\ ~Grips(task'[t], Delivered)
    BY <2>1, PlacesKept, FreedHand
  <2>3. CASE task[t].direct
    BY <2>1, <2>2, <2>3, InHandRow, EndMoves
  <2>4. CASE ~task[t].direct
    <3>1. SameHands
      BY <2>1, <2>2, <2>4, InHandRow, HandsStay
    <3>2. Still
      BY <2>1, <2>2, <2>4, <3>1 DEF Still, SamePapers
    <3>3. QED
      BY <3>2 DEF Ledger
  <2>5. QED
    BY <2>3, <2>4
<1>4. ASSUME NEW t \in Task, PromptFails(t) PROVE Ledger
  <2>1. /\ task[t].stage = "preflight" \/ (task[t].stage = "returning" /\ task[t].msg \in Delivered)
        /\ Move(t, "rejected") /\ "rejected" \in Stage /\ UNCHANGED <<wire, transcript>> /\ SamePapers
    BY <1>4 DEF PromptFails, Stage, SamePapers, queueVars, sdkVars, histVars
  <2>2. /\ task'[t].stage = "rejected" /\ task'[t].msg = task[t].msg
        /\ task'[t].direct = task[t].direct /\ task'[t].started = task[t].started
    BY <2>1, MovedHand
  <2>3. CASE task[t].stage = "preflight"
    <3>1. Grips(task[t], Delivered) /\ ~task[t].started /\ task[t].msg \notin Delivered
      BY <2>3, InHandRow
    <3>2. Grips(task'[t], Delivered)
      BY <2>2, <3>1 DEF Grips, Carry
    <3>3. QED
      BY <2>1, <3>1, <3>2, KeepsHand
  <2>4. CASE task[t].stage = "returning" /\ task[t].msg \in Delivered
    <3>1. ~Grips(task[t], Delivered) /\ ~Carry(task[t], Delivered)
      BY <2>4, InHandRow, PlacedFacts DEF Spots
    <3>2. ~Grips(task'[t], Delivered)
      BY <2>2, <2>4, <3>1 DEF Grips, Carry
    <3>3. QED
      BY <2>1, <3>1, <3>2, KeepsHand
  <2>5. QED
    BY <2>1, <2>3, <2>4
<1>5. ASSUME NEW t \in Task, CommandHandled(t) PROVE Ledger
  <2>1. /\ task[t].stage = "preflight" /\ Move(t, "returning") /\ "returning" \in Stage
        /\ UNCHANGED <<wire, queue, transcript, arrival>> /\ fate' = [fate EXCEPT ![task[t].msg] = "handled"]
    BY <1>5 DEF CommandHandled, Stage, queueVars, sdkVars
  <2>2. Aside(t) /\ task'[t].stage = "returning"
    BY <2>1, MovedHand
  <2>3. Grips(task[t], Delivered) /\ ~Grips(task'[t], Delivered)
    BY <2>1, <2>2, InHandRow DEF Grips
  <2>4. QED
    BY <2>1, <2>2, <2>3, EndMoves
<1>6. QED
  BY <1>1, <1>2, <1>3, <1>4, <1>5 DEF EnvStep

LEMMA RunMoves ==
    ASSUME Typed, Placed, Calm, NEW t \in Task, RunBegins(t)
    PROVE  Ledger
<1> DEFINE x == task[t].msg
           base == [task EXCEPT ![t].stage = "running"]
<1>1. /\ task[t].stage = "preflight" /\ AgentStarted(base) /\ UNCHANGED wire /\ SamePapers
      /\ transcript' = Append(transcript, x)
  BY DEF RunBegins, SamePapers, histVars
<1>2. /\ base \in [Task -> Row] /\ base[t].stage = "running"
      /\ \A u \in Task : u # t => base[u] = task[u]
  <2>1. "running" \in Stage /\ task \in [Task -> Row]
    BY CalmTypes DEF Stage
  <2>2. QED
    BY ONLY <2>1, StageAt
<1>3. Grips(task[t], Delivered) /\ x \notin Delivered
  BY <1>1, InHandRow
<1>4. x \in Msg /\ x \in Asked \cup Drawn /\ \A u \in Task : Grips(task[u], Delivered) /\ task[u].msg = x => u = t
  BY <1>3, InHand
<1> HIDE DEF base, x
<1>5. Delivered' = Delivered \cup {x} /\ Sent' = Sent
  BY <1>1, <1>3, <1>4, Spoken DEF Sent, Letters
<1>6. ~Grips(task'[t], Delivered')
  BY <1>1, <1>2, StartedRows DEF Grips
<1>7. ASSUME NEW u \in Task, u # t PROVE Agree(task, Delivered, task', Delivered', u)
  <2>1. /\ task'[u] = IF u \in Watching THEN [task[u] EXCEPT !.started = TRUE] ELSE task[u]
    BY <1>1, <1>2, <1>7 DEF AgentStarted
  <2>2. CASE u \in Watching
    <3>1. task[u].stage \in {"running", "returning"}
      BY <1>1, <1>7, <2>2, OnePrompts DEF Watching, TasksIn, Prompting, Calm, Rows, Sound
    <3>2. task'[u].stage = task[u].stage
      BY <1>1, <1>2, <1>7, StartedRows
    <3>3. QED
      BY <3>1, <3>2 DEF Agree, Grips
  <2>3. CASE u \notin Watching
    <3>1. task'[u] = task[u]
      BY <2>1, <2>3
    <3>2. Grips(task[u], Delivered) => task[u].msg # x
      BY <1>4, <1>7
    <3>3. Grips(task[u], Delivered') <=> Grips(task[u], Delivered)
      <4>1. CASE task[u].msg = x
        <5>1. ~Grips(task[u], Delivered)
          BY <3>2, <4>1
        <5>2. QED
          BY <1>5, <4>1, <5>1 DEF Grips, Carry
      <4>2. CASE task[u].msg # x
        BY <1>5, <4>2 DEF Grips, Carry
      <4>3. QED
        BY <4>1, <4>2
    <3>4. QED
      BY <3>1, <3>3 DEF Agree
  <2>4. QED
    BY <2>2, <2>3
<1>8. \A b : Gripped(task', Delivered', b) = Gripped(task, Delivered, b) \ {task[t].msg}
  <2>1. \A u \in Task : Grips(task[u], Delivered) /\ task[u].msg = task[t].msg => u = t
    BY <1>4 DEF x
  <2>2. \A u \in Task : u # t => Agree(task, Delivered, task', Delivered', u)
    BY <1>7
  <2>3. QED
    BY <1>3, <1>6, <2>1, <2>2, OneLetsGo
<1>9. Asked' = Asked \ {x} /\ Drawn' = Drawn \ {x}
  BY <1>8 DEF Asked, Drawn, x
<1>10. Runs(x)
  BY <1>1, <1>4, <1>5, <1>9 DEF Runs
<1>11. QED
  BY <1>4, <1>10 DEF Ledger

LEMMA SdkMoves ==
    ASSUME Typed, Placed, Orderly, Calm, SdkStep
    PROVE  Ledger
<1>1. ASSUME NEW t \in Task, RunBegins(t) PROVE Ledger
  BY <1>1, RunMoves
<1>2. CASE AgentEnds
  <2>1. UNCHANGED <<wire, task, transcript>> /\ SamePapers
    BY <1>2 DEF AgentEnds, SamePapers, queueVars, histVars
  <2>2. Still
    BY <2>1 DEF Still, SameHands, Sent, Letters, Asked, Drawn, Delivered
  <2>3. QED
    BY <2>2 DEF Ledger
<1>3. CASE AgentEndCompletes
  <2>1. /\ UNCHANGED <<wire, transcript, arrival>>
        /\ ReserveAndDispatch(~isStreaming, task, FALSE)
    BY <1>3 DEF AgentEndCompletes, shouldDispatchQueueAfterTerminal
  <2>2. \A u \in Task : Agree(task, Delivered, task, Delivered, u)
    BY DEF Agree
  <2>3. QED
    BY <2>1, <2>2, CalmTypes, ReserveMoves
<1>4. CASE Settled
  <2> DEFINE base == [t \in Task |-> IF task[t].stage = "running"
                                     THEN [task[t] EXCEPT !.stage = "returning"] ELSE task[t]]
  <2>1. UNCHANGED <<wire, transcript, arrival>> /\ ReserveAndDispatch(~local, base, local)
    BY <1>4 DEF Settled, shouldDispatchQueueAfterTerminal
  <2>2. task \in [Task -> Row]
    BY CalmTypes
  <2>3. ASSUME NEW u \in Task PROVE base[u] \in Row /\ Agree(task, Delivered, base, Delivered, u)
    <3>1. CASE task[u].stage = "running"
      <4>1. base[u] = [task[u] EXCEPT !.stage = "returning"] /\ "returning" \in Stage /\ task[u] \in Row
        BY <2>2, <3>1 DEF Stage
      <4>2. base[u] \in Row /\ base[u].stage = "returning"
        BY <4>1 DEF Row
      <4>3. QED
        BY <3>1, <4>2 DEF Agree, Grips
    <3>2. CASE task[u].stage # "running"
      <4>1. base[u] = task[u]
        BY <3>2
      <4>2. QED
        BY <2>2, <4>1 DEF Agree
    <3>3. QED
      BY <3>1, <3>2
  <2>4. base \in [Task -> Row]
    BY <2>3
  <2> HIDE DEF base
  <2>5. QED
    BY <2>1, <2>3, <2>4, ReserveMoves
<1>5. CASE CompactionBegins
  <2>1. UNCHANGED <<wire, transcript>> /\ SamePapers
    BY <1>5 DEF CompactionBegins, SamePapers, queueVars, histVars
  <2>2. Sent' = Sent /\ Delivered' = Delivered /\ "preCompaction" \notin env.kinds /\ "compact" \in Stage
    BY <2>1, PlacesKept, OrderlyKinds DEF Stage
  <2>3. task' = task \/ \E t \in Task : task[t].stage = "compactWait" /\ Move(t, "compact")
    BY <1>5, <2>2 DEF CompactionBegins, Fault, TasksIn
  <2>4. CASE task' = task
    <3>1. Still
      BY <2>1, <2>2, <2>4 DEF Still, SameHands, Asked, Drawn
    <3>2. QED
      BY <3>1 DEF Ledger
  <2>5. ASSUME NEW t \in Task, task[t].stage = "compactWait", Move(t, "compact") PROVE Ledger
    <3>1. task'[t].stage = "compact"
      BY <2>2, <2>5, MovedHand
    <3>2. ~Grips(task'[t], Delivered) /\ ~Grips(task[t], Delivered)
      BY <2>5, <3>1 DEF Grips, Carry
    <3>3. QED
      BY <2>1, <2>2, <2>5, <3>2, KeepsHand
  <2>6. QED
    BY <2>3, <2>4, <2>5
<1>6. CASE CompactionEnds
  <2> DEFINE base == [t \in Task |-> AfterCompaction(task[t])]
  <2>1. /\ UNCHANGED <<wire, transcript, arrival>>
        /\ ReserveAndDispatch(~local /\ ~isStreaming, base, local)
    BY <1>6 DEF CompactionEnds, shouldDispatchQueueAfterTerminal
  <2>2. base \in [Task -> Row]
    BY CompactedRows, CalmTypes
  <2>3. ASSUME NEW u \in Task PROVE Agree(task, Delivered, base, Delivered, u)
    <3>1. base[u] = AfterCompaction(task[u]) /\ task[u] \in Row /\ task[u].stage # "preCompact"
      BY CalmTypes DEF Calm, Rows, Sound
    <3>2. CASE task[u].stage = "compact"
      <4>1. AfterCompaction(task[u]).stage \in {"free", "compactEnd"}
        BY <3>1, <3>2, FreeRow DEF AfterCompaction, Row
      <4>2. QED
        BY <3>1, <3>2, <4>1 DEF Agree, Grips, Carry
    <3>3. CASE task[u].stage # "compact"
      <4>1. AfterCompaction(task[u]) = task[u]
        BY <3>1, <3>3 DEF AfterCompaction
      <4>2. QED
        BY <3>1, <4>1 DEF Agree
    <3>4. QED
      BY <3>2, <3>3
  <2> HIDE DEF base
  <2>4. QED
    BY <2>1, <2>2, <2>3, ReserveMoves
<1>7. QED
  BY <1>1, <1>2, <1>3, <1>4, <1>5, <1>6 DEF SdkStep

\* Every step of an orderly tab moves at most one message, in one of these ways.
LEMMA Moves == Typed /\ Placed /\ Quiet /\ Orderly /\ [Next]_vars => Ledger
<1> SUFFICES ASSUME Typed, Placed, Quiet, Orderly, [Next]_vars PROVE Ledger
  OBVIOUS
<1>1. Calm
  BY DEF Quiet
<1>2. CASE UNCHANGED vars
  <2>1. UNCHANGED <<wire, task, transcript>> /\ SamePapers
    BY <1>2 DEF vars, SamePapers
  <2>2. Still
    BY <2>1 DEF Still, SameHands, Sent, Letters, Asked, Drawn, Delivered
  <2>3. QED
    BY <2>2 DEF Ledger
<1>3. CASE Next
  BY <1>1, <1>3, ClientMoves, HostMoves, TaskMoves, EnvMoves, SdkMoves DEF Next, TasksIn
<1>4. QED
  BY <1>2, <1>3

\* Each message is in at most one place and pending there; a delivered one was sent.
Filed ==
    /\ queue \in Seq(Msg) /\ arrival \in Seq(Msg) /\ fate \in [Msg -> Fate] /\ Once(queue)
    /\ ToSet(queue) \subseteq Msg /\ ToSet(arrival) \subseteq Msg
    /\ Sent \cup Asked \cup Drawn \cup Delivered \subseteq Msg
    /\ ToSet(queue) \cap (Sent \cup Asked \cup Drawn \cup Delivered) = {}
    /\ Sent \cap (Asked \cup Drawn \cup Delivered) = {}
    /\ Asked \cap (Drawn \cup Delivered) = {} /\ Drawn \cap Delivered = {}
    /\ \A m \in Sent \cup ToSet(queue) \cup Asked \cup Drawn : fate[m] = "pending"
    /\ \A m \in Delivered : fate[m] # "unsent"

LEMMA AllFiled == Typed /\ Placed => Filed
<1> SUFFICES ASSUME Typed, Placed PROVE Filed
  OBVIOUS
<1>1. arrival \in Seq(Msg) /\ ToSet(arrival) \subseteq Msg
  <2>1. arrival \in Seq(Msg)
    BY DEF Typed, TypeOK
  <2>2. QED
    BY <2>1 DEF ToSet
<1>2. ASSUME NEW m \in Asked \cup Drawn
      PROVE  /\ m \in Msg /\ fate[m] = "pending"
             /\ m \notin Sent \cup ToSet(queue) \cup Delivered
             /\ ~(m \in Asked /\ m \in Drawn)
  <2>1. PICK t \in Task : Grips(task[t], Delivered) /\ task[t].msg = m
    BY <1>2 DEF Asked, Drawn, Gripped
  <2>2. m \in Msg /\ ~(m \in Asked /\ m \in Drawn)
    BY <2>1, InHand
  <2>3. Carry(task[t], Delivered) /\ task[t].stage # "returning"
    BY <2>1 DEF Grips
  <2>4. QED
    BY <2>1, <2>2, <2>3, PlacedFacts DEF Spots
<1>3. /\ ToSet(queue) \cap (Sent \cup Delivered) = {} /\ Sent \cap Delivered = {}
      /\ \A m \in Sent \cup ToSet(queue) : fate[m] = "pending"
      /\ \A m \in Delivered : fate[m] # "unsent"
  BY PlacedFacts DEF Spots
<1>4. QED
  BY <1>1, <1>2, <1>3, PlacedFacts DEF Filed

----------------------------------------------------------------------------
(***************************************************************************)
(* Nothing is lost: the tab keeps what it promises of each message.        *)
(***************************************************************************)
Somewhere(m) == m \in Sent \cup ToSet(queue) \cup Asked \cup Drawn \cup Delivered
NoneLost == \A m \in Msg : fate[m] = "pending" => Somewhere(m)
Lossless == Orderly => NoneLost

LEMMA NoneLostInit == Init => NoneLost
  BY DEF Init, NoneLost

LEMMA NoneLostNext == Filed /\ NoneLost /\ Ledger => NoneLost'
<1> SUFFICES ASSUME Filed, NoneLost, Ledger, NEW m \in Msg, fate'[m] = "pending"
             PROVE  m \in Sent' \cup ToSet(queue') \cup Asked' \cup Drawn' \cup Delivered'
  BY SetsOf DEF NoneLost, Somewhere
<1> DEFINE Q == ToSet(queue)
           P == ToSet(queue')
<1>1. fate[m] = "pending" => m \in Sent \cup Q \cup Asked \cup Drawn \cup Delivered
  BY DEF NoneLost, Somewhere
<1>2. /\ fate \in [Msg -> Fate]
      /\ queue # <<>> => /\ Head(queue) \in Msg
                         /\ Q = ToSet(Tail(queue)) \cup {Head(queue)}
  BY Tailed DEF Filed
<1>3. ASSUME Still PROVE m \in Sent' \cup P \cup Asked' \cup Drawn' \cup Delivered'
  BY <1>1, <1>3 DEF Still, SameHands, SamePapers
<1>4. ASSUME Drops PROVE m \in Sent' \cup P \cup Asked' \cup Drawn' \cup Delivered'
  <2>1. m # Head(queue) /\ fate[m] = "pending"
    BY <1>2, <1>4 DEF Drops
  <2>2. QED
    BY <1>1, <1>2, <1>4, <2>1 DEF Drops, SameHands
<1>5. ASSUME Draws PROVE m \in Sent' \cup P \cup Asked' \cup Drawn' \cup Delivered'
  BY <1>1, <1>2, <1>5 DEF Draws
<1>6. ASSUME Cancels PROVE m \in Sent' \cup P \cup Asked' \cup Drawn' \cup Delivered'
  <2>1. m \notin Q /\ fate[m] = "pending"
    BY <1>6 DEF Cancels
  <2>2. QED
    BY <1>1, <1>6, <2>1 DEF Cancels, SameHands
<1>7. ASSUME NEW x \in Msg, Sends(x) PROVE m \in Sent' \cup P \cup Asked' \cup Drawn' \cup Delivered'
  <2>1. m # x => fate[m] = "pending"
    BY <1>2, <1>7 DEF Sends
  <2>2. QED
    BY <1>1, <1>7, <2>1 DEF Sends, SameHands
<1>8. ASSUME NEW x \in Msg, Enters(x) PROVE m \in Sent' \cup P \cup Asked' \cup Drawn' \cup Delivered'
  <2>1. P = Q \cup {x}
    BY <1>8, Appended DEF Enters, Filed
  <2>2. QED
    BY <1>1, <1>8, <2>1 DEF Enters, SameHands
<1>9. ASSUME NEW x \in Msg, Starts(x) PROVE m \in Sent' \cup P \cup Asked' \cup Drawn' \cup Delivered'
  BY <1>1, <1>9 DEF Starts, SamePapers
<1>10. ASSUME NEW x \in Msg, Runs(x) PROVE m \in Sent' \cup P \cup Asked' \cup Drawn' \cup Delivered'
  BY <1>1, <1>10 DEF Runs, SamePapers
<1>11. ASSUME NEW x \in Msg, PutsBack(x) PROVE m \in Sent' \cup P \cup Asked' \cup Drawn' \cup Delivered'
  <2>1. P = Q \cup {x}
    BY <1>11, Pushed DEF PutsBack, Filed
  <2>2. QED
    BY <1>1, <1>11, <2>1 DEF PutsBack
<1>12. ASSUME NEW x \in Msg, NEW s \in {"handled", "refused"}, Ends(x, s)
       PROVE  m \in Sent' \cup P \cup Asked' \cup Drawn' \cup Delivered'
  <2>1. m # x /\ fate[m] = "pending"
    BY <1>2, <1>12 DEF Ends
  <2>2. QED
    BY <1>1, <1>12, <2>1 DEF Ends
<1>13. ASSUME NEW x \in Msg, NEW new \in Msg, Edits(x, new)
       PROVE  m \in Sent' \cup P \cup Asked' \cup Drawn' \cup Delivered'
  <2>1. new \notin Q /\ x # new
    BY <1>13 DEF Edits, Filed
  <2>2. P = (Q \ {x}) \cup {new}
    BY <1>13, <2>1, Renaming DEF Edits, Filed
  <2>3. m = new \/ (m # x /\ fate[m] = "pending")
    BY <1>2, <1>13 DEF Edits
  <2>4. QED
    BY <1>1, <1>13, <2>2, <2>3 DEF Edits, SameHands
<1>14. ASSUME NEW i \in DOMAIN queue, Removes(i) PROVE m \in Sent' \cup P \cup Asked' \cup Drawn' \cup Delivered'
  <2>1. Q \subseteq P \cup {queue[i]} /\ queue[i] \in Msg
    BY <1>14, Cut, InSet DEF Removes, Filed
  <2>2. m # queue[i] /\ fate[m] = "pending"
    BY <1>2, <1>14, <2>1 DEF Removes
  <2>3. QED
    BY <1>1, <1>14, <2>1, <2>2 DEF Removes, SameHands
<1>15. QED
  BY <1>3, <1>4, <1>5, <1>6, <1>7, <1>8, <1>9, <1>10, <1>11, <1>12, <1>13, <1>14 DEF Ledger

LEMMA HeldSomewhere ==
    ASSUME NEW m, m \in Sent \cup ToSet(queue) \cup Asked \cup Drawn
    PROVE  Held(m)
<1>1. CASE m \in Sent
  BY <1>1 DEF Sent, Letters, ToSet, Held
<1>2. CASE m \in ToSet(queue)
  BY <1>2 DEF Held
<1>3. CASE m \in Asked \cup Drawn
  <2>1. PICK t \in Task : Grips(task[t], Delivered) /\ task[t].msg = m
    BY <1>3 DEF Asked, Drawn, Gripped
  <2>2. /\ task[t].stage \in {"augment", "preflight", "preCompact", "rejected"}
        /\ task[t].stage = "augment" => task[t].direct
        /\ task[t].stage = "rejected" => task[t].direct \/ ~task[t].started
    BY <2>1 DEF Grips, Carry
  <2>3. QED
    BY <2>1, <2>2 DEF Held
<1>4. QED
  BY <1>1, <1>2, <1>3

\* What the promise sees of the messages of an orderly tab that has lost none.
Outcomes(D, f) == [m \in Msg |-> IF m \in D THEN "run"
                                 ELSE IF f[m] # "pending" THEN f[m] ELSE "waiting"]
\* The refinement mapping of Delivery.
Promised == [m \in Msg |->
    IF ~Orderly THEN "unsent"
    ELSE IF m \in Delivered THEN "run"
    ELSE IF fate[m] # "pending" THEN fate[m]
    ELSE IF Held(m) THEN "waiting" ELSE "lost"]

LEMMA PromisedIs == Orderly /\ NoneLost => Promised = Outcomes(Delivered, fate)
<1> SUFFICES ASSUME Orderly, NoneLost PROVE Promised = Outcomes(Delivered, fate)
  OBVIOUS
<1>1. ASSUME NEW m \in Msg, m \notin Delivered, fate[m] = "pending" PROVE Held(m)
  BY <1>1, HeldSomewhere DEF NoneLost, Somewhere
<1>2. QED
  BY <1>1 DEF Promised, Outcomes

\* The steps of the promise, from outcomes s to outcomes r.
Promises(s, r) ==
    \/ r = s
    \/ \E m \in Msg : s[m] = "unsent" /\ r = [s EXCEPT ![m] = "waiting"]
    \/ \E m \in Msg : /\ s[m] = "waiting"
                      /\ \E o \in {"run", "handled", "refused"} : r = [s EXCEPT ![m] = o]
    \/ \E S \in SUBSET Msg : /\ \A m \in S : s[m] = "waiting"
                             /\ r = [m \in Msg |-> IF m \in S THEN "withdrawn" ELSE s[m]]
    \/ \E m, new \in Msg : /\ s[m] = "waiting" /\ s[new] = "unsent"
                           /\ r = [s EXCEPT ![m] = "withdrawn", ![new] = "waiting"]

LEMMA WaitingAre ==
    ASSUME Filed
    PROVE  /\ \A m \in Sent \cup ToSet(queue) \cup Asked \cup Drawn :
                 m \in Msg /\ Outcomes(Delivered, fate)[m] = "waiting"
           /\ \A m \in Msg : fate[m] = "unsent" => Outcomes(Delivered, fate)[m] = "unsent"
           /\ \A m \in Msg : Outcomes(Delivered, fate)[m] # "unsent" => fate[m] # "unsent"
  BY DEF Filed, Outcomes

LEMMA LedgerPromises ==
    ASSUME Filed, Ledger
    PROVE  Promises(Outcomes(Delivered, fate), Outcomes(Delivered', fate'))
<1> DEFINE s == Outcomes(Delivered, fate)
           r == Outcomes(Delivered', fate')
<1>1. /\ fate \in [Msg -> Fate]
      /\ \A m \in Sent \cup ToSet(queue) \cup Asked \cup Drawn :
            m \in Msg /\ m \notin Delivered /\ fate[m] = "pending" /\ s[m] = "waiting"
      /\ \A m \in Msg : fate[m] = "unsent" => s[m] = "unsent" /\ m \notin Delivered
      /\ queue # <<>> => Head(queue) \in ToSet(queue)
  BY WaitingAre, Tailed DEF Filed
<1>2. /\ s = [m \in Msg |-> IF m \in Delivered THEN "run"
                            ELSE IF fate[m] # "pending" THEN fate[m] ELSE "waiting"]
      /\ r = [m \in Msg |-> IF m \in Delivered' THEN "run"
                            ELSE IF fate'[m] # "pending" THEN fate'[m] ELSE "waiting"]
  BY DEF Outcomes
<1> HIDE DEF s, r
<1>3. ASSUME Delivered' = Delivered, fate' = fate PROVE Promises(s, r)
  BY <1>2, <1>3 DEF Promises
<1>4. ASSUME NEW x \in Msg, NEW o \in {"handled", "refused"}, fate[x] = "pending", s[x] = "waiting",
             x \notin Delivered, Delivered' = Delivered, fate' = [fate EXCEPT ![x] = o]
      PROVE  Promises(s, r)
  <2>1. r = [s EXCEPT ![x] = o]
    BY <1>1, <1>2, <1>4
  <2>2. QED
    BY <1>4, <2>1 DEF Promises
<1>5. ASSUME Drops PROVE Promises(s, r)
  BY <1>1, <1>4, <1>5 DEF Drops, SameHands
<1>6. ASSUME NEW x \in Msg, NEW o \in {"handled", "refused"}, Ends(x, o) PROVE Promises(s, r)
  BY <1>1, <1>4, <1>6 DEF Ends
<1>7. ASSUME NEW x \in Msg, Sends(x) PROVE Promises(s, r)
  <2>1. s[x] = "unsent" /\ r = [s EXCEPT ![x] = "waiting"]
    BY <1>1, <1>2, <1>7 DEF Sends, SameHands
  <2>2. QED
    BY <2>1 DEF Promises
<1>8. ASSUME NEW x \in Msg, Runs(x) PROVE Promises(s, r)
  <2>1. s[x] = "waiting" /\ r = [s EXCEPT ![x] = "run"]
    BY <1>1, <1>2, <1>8 DEF Runs, SamePapers
  <2>2. QED
    BY <2>1 DEF Promises
<1>9. ASSUME NEW S \in SUBSET ToSet(queue), Delivered' = Delivered,
             \A m \in Msg : fate'[m] = IF m \in S THEN "withdrawn" ELSE fate[m]
      PROVE  Promises(s, r)
  <2>1. r = [m \in Msg |-> IF m \in S THEN "withdrawn" ELSE s[m]]
    BY <1>1, <1>2, <1>9
  <2>2. S \in SUBSET Msg /\ \A m \in S : s[m] = "waiting"
    BY <1>1, <1>9
  <2>3. QED
    BY <2>1, <2>2 DEF Promises
<1>10. ASSUME Cancels PROVE Promises(s, r)
  BY <1>9, <1>10 DEF Cancels, SameHands
<1>11. ASSUME NEW i \in DOMAIN queue, Removes(i) PROVE Promises(s, r)
  <2>1. queue[i] \in ToSet(queue) /\ queue[i] \in Msg
    BY <1>1, InSet
  <2>2. \A m \in Msg : fate'[m] = IF m \in {queue[i]} THEN "withdrawn" ELSE fate[m]
    BY <1>1, <1>11, <2>1 DEF Removes
  <2>3. QED
    BY <1>9, <1>11, <2>1, <2>2 DEF Removes, SameHands
<1>12. ASSUME NEW x \in Msg, NEW new \in Msg, Edits(x, new) PROVE Promises(s, r)
  <2>1. s[x] = "waiting" /\ s[new] = "unsent"
    BY <1>1, <1>12 DEF Edits
  <2>2. r = [s EXCEPT ![x] = "withdrawn", ![new] = "waiting"]
    <3>1. x # new /\ x \notin Delivered /\ new \notin Delivered
      BY <1>1, <1>12 DEF Edits
    <3>2. QED
      BY <1>1, <1>2, <1>12, <3>1 DEF Edits, SameHands
  <2>3. QED
    BY <2>1, <2>2 DEF Promises
<1>13. ASSUME Still \/ Draws \/ \E m \in Msg : Enters(m) \/ Starts(m) \/ PutsBack(m)
       PROVE  Promises(s, r)
  BY <1>3, <1>13 DEF Still, Draws, Enters, Starts, PutsBack, SameHands, SamePapers
<1>14. Promises(s, r)
  BY <1>5, <1>6, <1>7, <1>8, <1>10, <1>11, <1>12, <1>13 DEF Ledger
<1>15. QED
  BY <1>14 DEF s, r

LEMMA PromisesAre ==
    ASSUME Promises(Promised, Promised')
    PROVE  [Delivery!Next]_Promised
  BY DEF Promises, Delivery!Next, Delivery!Send, Delivery!Leave, Delivery!Final,
         Delivery!Withdraw, Delivery!Replace, Promised

LEMMA EnvStays == [Next]_vars => Orderly' = Orderly
<1>1. [Next]_vars => env' = env
  BY DEF Next, vars, TasksIn, ClientStep, HostReceives, TaskStep, SdkStep, EnvStep
<1>2. QED
  BY <1>1 DEF Orderly

LEMMA LosslessNext == Typed /\ Placed /\ Quiet /\ Lossless /\ [Next]_vars => Lossless'
<1> SUFFICES ASSUME Typed, Placed, Quiet, Lossless, [Next]_vars, Orderly' PROVE NoneLost'
  BY DEF Lossless
<1>1. Orderly /\ NoneLost
  BY EnvStays DEF Lossless
<1>2. Ledger /\ Filed
  BY <1>1, Moves, AllFiled
<1>3. QED
  BY <1>1, <1>2, NoneLostNext

LEMMA LosslessAlways == Spec => [](Typed /\ Placed /\ Quiet /\ Lossless)
<1>1. Init => Lossless
  BY NoneLostInit DEF Lossless
<1>2. QED
  BY <1>1, PlacedAlways, QuietAlways, LosslessNext, PTL DEF Spec

PromiseIs == Promised = Outcomes(Delivered, fate)

LEMMA PromisedNext == Orderly' /\ NoneLost' => PromiseIs'
<1>1. Orderly /\ NoneLost => PromiseIs
  BY PromisedIs DEF PromiseIs
<1>2. QED
  BY <1>1, PTL

LEMMA PromisedStep ==
    Typed /\ Placed /\ Quiet /\ Lossless /\ Lossless' /\ [Next]_vars => [Delivery!Next]_Promised
<1> SUFFICES ASSUME Typed, Placed, Quiet, Lossless, Lossless', [Next]_vars
             PROVE  [Delivery!Next]_Promised
  OBVIOUS
<1>1. Orderly' = Orderly
  BY EnvStays
<1>2. CASE Orderly
  <2>1. Promised = Outcomes(Delivered, fate)
    BY <1>2, PromisedIs DEF Lossless
  <2>2. Promised' = Outcomes(Delivered', fate')
    <3>1. Orderly' /\ NoneLost'
      BY <1>1, <1>2 DEF Lossless
    <3>2. Outcomes(Delivered, fate)' = Outcomes(Delivered', fate')
      BY DEF Outcomes
    <3>3. QED
      BY <3>1, <3>2, PromisedNext DEF PromiseIs
  <2>3. Promises(Outcomes(Delivered, fate), Outcomes(Delivered', fate'))
    BY <1>2, AllFiled, Moves, LedgerPromises
  <2>4. QED
    BY <2>1, <2>2, <2>3, PromisesAre
<1>3. CASE ~Orderly
  <2>1. Promised' = Promised
    BY <1>1, <1>3 DEF Promised
  <2>2. QED
    BY <2>1
<1>4. QED
  BY <1>2, <1>3

\* Each message of an orderly tab leaves the waiting state exactly once, as a run, a
\* handled command, an error or at the user's wish, and is never held nowhere: the tab
\* implements the safety part of its promise, step by step.
THEOREM DeliverySafe == Spec => DeliveryKeptSafely
<1>1. Init => Delivery!Init
  <2>1. Init => \A m \in Msg : m \notin Delivered /\ fate[m] = "unsent"
    BY DEF Init, Delivered
  <2>2. QED
    BY <2>1 DEF Delivery!Init
<1>2. Promised = [m \in Msg |->
        IF ~Orderly THEN "unsent"
        ELSE IF m \in Delivered THEN "run"
        ELSE IF fate[m] # "pending" THEN fate[m]
        ELSE IF Held(m) THEN "waiting" ELSE "lost"]
  BY DEF Promised
<1>3. QED
  BY <1>1, LosslessAlways, PromisedStep, PTL DEF Spec, DeliveryKeptSafely, Delivery!Spec, Promised

----------------------------------------------------------------------------
(***************************************************************************)
(* The queue is first in, first out: what waits in it, and before that what *)
(* a dispatch has drawn from it, is in the order of arrival, and all that   *)
(* arrived before has been delivered, withdrawn or handled.                 *)
(***************************************************************************)
\* The pairs of elements of a sequence, the earlier one first.
Before(s) == {p \in ToSet(s) \X ToSet(s) : \E i, j \in DOMAIN s : i < j /\ p = <<s[i], s[j]>>}

LEMMA BeforeIs ==
    ASSUME NEW s, NEW a, NEW b
    PROVE  <<a, b>> \in Before(s) <=> \E i, j \in DOMAIN s : i < j /\ s[i] = a /\ s[j] = b
<1>1. ASSUME NEW i \in DOMAIN s, NEW j \in DOMAIN s, i < j, s[i] = a, s[j] = b
      PROVE  <<a, b>> \in Before(s)
  <2>1. <<a, b>> \in ToSet(s) \X ToSet(s) /\ <<a, b>> = <<s[i], s[j]>>
    BY <1>1, InSet
  <2>2. QED
    BY <1>1, <2>1 DEF Before
<1>2. ASSUME <<a, b>> \in Before(s)
      PROVE  \E i, j \in DOMAIN s : i < j /\ s[i] = a /\ s[j] = b
  <2>1. PICK i \in DOMAIN s, j \in DOMAIN s : i < j /\ <<a, b>> = <<s[i], s[j]>>
    BY <1>2 DEF Before
  <2>2. QED
    BY <2>1
<1>3. QED
  BY <1>1, <1>2

LEMMA BeforeOrders ==
    ASSUME NEW S, NEW s \in Seq(S), Once(s), NEW a, NEW b, <<a, b>> \in Before(s)
    PROVE  a \in ToSet(s) /\ b \in ToSet(s) /\ a # b /\ <<b, a>> \notin Before(s)
<1>1. PICK i \in DOMAIN s, j \in DOMAIN s : i < j /\ s[i] = a /\ s[j] = b
  BY BeforeIs
<1>2. i \in Nat /\ j \in Nat
  BY LenProperties
<1>3. a # b
  BY <1>1, <1>2 DEF Once
<1>4. ASSUME NEW k \in DOMAIN s, NEW l \in DOMAIN s, k < l, s[k] = b, s[l] = a PROVE FALSE
  <2>1. k = j /\ l = i
    BY <1>1, <1>4 DEF Once
  <2>2. QED
    BY <1>1, <1>2, <1>4, <2>1
<1>5. <<b, a>> \notin Before(s)
  BY <1>4, BeforeIs
<1>6. QED
  BY <1>1, <1>3, <1>5, InSet

LEMMA BeforeAppended ==
    ASSUME NEW S, NEW s \in Seq(S), NEW x \in S, NEW a, NEW b
    PROVE  <<a, b>> \in Before(Append(s, x)) <=>
              <<a, b>> \in Before(s) \/ (a \in ToSet(s) /\ b = x)
<1> DEFINE r == Append(s, x)
           n == Len(s)
<1>1. /\ n \in Nat /\ DOMAIN s = 1..n /\ DOMAIN r = 1..(n + 1)
      /\ \A i \in 1..n : r[i] = s[i]
      /\ r[n + 1] = x
  BY AppendProperties, LenProperties
<1> HIDE DEF r, n
<1>2. ASSUME <<a, b>> \in Before(r) PROVE <<a, b>> \in Before(s) \/ (a \in ToSet(s) /\ b = x)
  <2>1. PICK i \in DOMAIN r, j \in DOMAIN r : i < j /\ r[i] = a /\ r[j] = b
    BY <1>2, BeforeIs
  <2>2. i \in 1..n /\ (j \in 1..n \/ j = n + 1)
    BY <1>1, <2>1
  <2>3. s[i] = a /\ (j \in 1..n => s[j] = b) /\ (j = n + 1 => b = x)
    BY <1>1, <2>1, <2>2
  <2>4. a \in ToSet(s)
    BY <1>1, <2>2, <2>3, InSet
  <2>5. j \in 1..n => <<a, b>> \in Before(s)
    BY <1>1, <2>1, <2>2, <2>3, BeforeIs
  <2>6. QED
    BY <2>2, <2>3, <2>4, <2>5
<1>3. ASSUME <<a, b>> \in Before(s) PROVE <<a, b>> \in Before(r)
  <2>1. PICK i \in DOMAIN s, j \in DOMAIN s : i < j /\ s[i] = a /\ s[j] = b
    BY <1>3, BeforeIs
  <2>2. i \in DOMAIN r /\ j \in DOMAIN r /\ r[i] = a /\ r[j] = b
    BY <1>1, <2>1
  <2>3. QED
    BY <2>1, <2>2, BeforeIs
<1>4. ASSUME a \in ToSet(s), b = x PROVE <<a, b>> \in Before(r)
  <2>1. PICK i \in DOMAIN s : s[i] = a
    BY <1>4 DEF ToSet
  <2>2. i \in DOMAIN r /\ n + 1 \in DOMAIN r /\ i < n + 1 /\ r[i] = a /\ r[n + 1] = b
    BY <1>1, <1>4, <2>1
  <2>3. QED
    BY <2>2, BeforeIs
<1>5. QED
  BY <1>2, <1>3, <1>4 DEF r

\* Renaming an element keeps the order.
Named(x, old, m) == IF x = old THEN m ELSE x

LEMMA BeforeNamed ==
    ASSUME NEW s, NEW old, NEW m, NEW a, NEW b, <<a, b>> \in Before(s)
    PROVE  <<Named(a, old, m), Named(b, old, m)>> \in Before(Renamed(s, old, m))
<1> DEFINE r == Renamed(s, old, m)
<1>1. DOMAIN r = DOMAIN s /\ \A j \in DOMAIN s : r[j] = Named(s[j], old, m)
  BY DEF Renamed, Named
<1> HIDE DEF r
<1>2. PICK i \in DOMAIN s, j \in DOMAIN s : i < j /\ s[i] = a /\ s[j] = b
  BY BeforeIs
<1>3. i \in DOMAIN r /\ j \in DOMAIN r /\ r[i] = Named(a, old, m) /\ r[j] = Named(b, old, m)
  BY <1>1, <1>2
<1>4. <<Named(a, old, m), Named(b, old, m)>> \in Before(r)
  BY <1>2, <1>3, BeforeIs
<1>5. QED
  BY <1>4 DEF r

NamesOf(c, d, s, old, m) ==
    \E a, b : <<a, b>> \in Before(s) /\ c = Named(a, old, m) /\ d = Named(b, old, m)

LEMMA NamedBefore ==
    ASSUME NEW s, NEW old, NEW m, NEW c, NEW d, <<c, d>> \in Before(Renamed(s, old, m))
    PROVE  NamesOf(c, d, s, old, m)
<1> DEFINE r == Renamed(s, old, m)
<1>1. DOMAIN r = DOMAIN s /\ \A j \in DOMAIN s : r[j] = Named(s[j], old, m)
  BY DEF Renamed, Named
<1> HIDE DEF r
<1>2. <<c, d>> \in Before(r)
  BY DEF r
<1>3. PICK i \in DOMAIN r, j \in DOMAIN r : i < j /\ r[i] = c /\ r[j] = d
  BY <1>2, BeforeIs
<1>4. <<s[i], s[j]>> \in Before(s)
  BY <1>1, <1>3, BeforeIs
<1>5. c = Named(s[i], old, m) /\ d = Named(s[j], old, m)
  BY <1>1, <1>3
<1>6. QED
  BY <1>4, <1>5 DEF NamesOf

LEMMA SortedRenamed ==
    ASSUME NEW s, NEW q, NEW old, NEW m, Sorted(q, Before(s))
    PROVE  Sorted(Renamed(q, old, m), Before(Renamed(s, old, m)))
<1> DEFINE r == Renamed(q, old, m)
<1>1. DOMAIN r = DOMAIN q /\ \A j \in DOMAIN q : r[j] = Named(q[j], old, m)
  BY DEF Renamed, Named
<1> HIDE DEF r
<1>2. ASSUME NEW i \in DOMAIN q, NEW j \in DOMAIN q, i < j
      PROVE  <<r[i], r[j]>> \in Before(Renamed(s, old, m))
  <2>1. <<q[i], q[j]>> \in Before(s)
    BY <1>2 DEF Sorted
  <2>2. QED
    BY <1>1, <2>1, BeforeNamed
<1>3. QED
  BY <1>1, <1>2 DEF r, Sorted

\* A message that has been run, handled or withdrawn.
Past(m, D, f) == m \in D \/ f[m] \in {"withdrawn", "handled"}

\* For the arrivals A in the order R: the queue q, the message drawn from it H, and what
\* came before are in that order; what is sent S or asked K never queued.
LinedUp(A, R, q, S, K, H, D, f) ==
    /\ Sorted(q, R) /\ ToSet(q) \cup H \subseteq A
    /\ \A m \in H : \A n \in ToSet(q) : <<m, n>> \in R
    /\ \A m, n \in H : m = n
    /\ \A m \in A : m \in ToSet(q) \cup H \/ Past(m, D, f)
    /\ A \cap (S \cup K) = {}
    /\ \A m \in A : f[m] # "unsent"
    /\ \A m, n : <<m, n>> \in R /\ n \in D => Past(m, D, f)

LinedNow == LinedUp(ToSet(arrival), Before(arrival), queue, Sent, Asked, Drawn, Delivered, fate)
InOrder == Once(arrival) /\ LinedNow

LEMMA InOrderInit == Init => InOrder
<1> SUFFICES ASSUME Init PROVE InOrder
  OBVIOUS
<1>1. Once(arrival) /\ Sorted(queue, Before(arrival)) /\ ToSet(queue) = {} /\ ToSet(arrival) = {}
  BY Empties DEF Init
<1>2. \A t \in Task : ~Grips(task[t], Delivered)
  BY DEF Init, FreeTask, Grips, Carry
<1>3. Drawn = {} /\ Delivered = {}
  <2>1. Delivered = {}
    BY DEF Init, Delivered
  <2>2. Drawn = {}
    BY <1>2 DEF Drawn, Gripped
  <2>3. QED
    BY <2>1, <2>2
<1>4. QED
  BY <1>1, <1>3 DEF InOrder, LinedNow, LinedUp

LEMMA OrderNext == Filed /\ InOrder /\ Ledger => InOrder'
<1> SUFFICES ASSUME Filed, InOrder, Ledger
             PROVE  /\ Once(arrival')
                    /\ LinedUp(ToSet(arrival'), Before(arrival'), queue', Sent', Asked', Drawn',
                               Delivered', fate')
  <2>1. ASSUME LinedUp(ToSet(arrival'), Before(arrival'), queue', Sent', Asked', Drawn',
                       Delivered', fate')
        PROVE  LinedNow'
    BY <2>1 DEF LinedNow, LinedUp, Before, ToSet, Sorted, Past
  <2>2. Once(arrival') => Once(arrival)'
    BY DEF Once
  <2>3. QED
    BY <2>1, <2>2 DEF InOrder
<1> DEFINE A == ToSet(arrival)
           R == Before(arrival)
           Q == ToSet(queue)
           New(q, S, K, H, D, f) == LinedUp(A, R, q, S, K, H, D, f)
<1>1. /\ Sorted(queue, R) /\ Q \cup Drawn \subseteq A
      /\ \A m \in Drawn : \A n \in Q : <<m, n>> \in R
      /\ \A m, n \in Drawn : m = n
      /\ \A m \in A : m \in Q \cup Drawn \/ Past(m, Delivered, fate)
      /\ A \cap (Sent \cup Asked) = {}
      /\ \A m \in A : fate[m] # "unsent"
      /\ \A m, n : <<m, n>> \in R /\ n \in Delivered => Past(m, Delivered, fate)
  BY DEF InOrder, LinedNow, LinedUp
<1>2. /\ fate \in [Msg -> Fate] /\ A \subseteq Msg /\ Q \subseteq Msg /\ Once(queue)
      /\ Sent \cup Asked \cup Drawn \cup Delivered \subseteq Msg
      /\ queue \in Seq(Msg) /\ arrival \in Seq(Msg)
      /\ Q \cap (Sent \cup Asked \cup Drawn \cup Delivered) = {}
      /\ Sent \cap (Asked \cup Drawn \cup Delivered) = {}
      /\ Asked \cap (Drawn \cup Delivered) = {} /\ Drawn \cap Delivered = {}
      /\ \A m \in Sent \cup Q \cup Asked \cup Drawn : fate[m] = "pending"
      /\ \A m \in Delivered : fate[m] # "unsent"
  BY DEF Filed
<1>3. Once(arrival) /\ \A m, n : <<m, n>> \in R => /\ m \in A /\ n \in A /\ m # n
                                                    /\ <<n, m>> \notin R
  BY <1>2, BeforeOrders DEF InOrder
<1> HIDE DEF A, R, Q
\* Only fates of messages that never queued change, or not at all; the rest stays.
<1>4. ASSUME NEW q, ToSet(q) \subseteq Q, Sorted(q, R), NEW H, NEW f, NEW S, NEW K,
             \A m \in H : m \in Drawn \/ (m \in Q /\ Drawn = {}),
             \A m \in H : \A n \in ToSet(q) : <<m, n>> \in R,
             \A m, n \in H : m = n,
             \A m \in Q \cup Drawn : m \in ToSet(q) \cup H \/ f[m] \in {"withdrawn", "handled"},
             A \cap (S \cup K) = {},
             \A m \in A : f[m] = fate[m] \/ f[m] \in {"withdrawn", "handled"}
      PROVE  LinedUp(A, R, q, S, K, H, Delivered, f)
  <2>1. ToSet(q) \cup H \subseteq A
    BY <1>1, <1>4
  <2>2. \A m \in A : Past(m, Delivered, fate) => Past(m, Delivered, f)
    BY <1>4 DEF Past
  <2>3. \A m \in A : m \in ToSet(q) \cup H \/ Past(m, Delivered, f)
    BY <1>1, <1>4, <2>2 DEF Past
  <2>4. \A m \in A : f[m] # "unsent"
    BY <1>1, <1>4
  <2>5. \A m, n : <<m, n>> \in R /\ n \in Delivered => Past(m, Delivered, f)
    BY <1>1, <1>3, <2>2
  <2>6. QED
    BY <1>4, <2>1, <2>3, <2>4, <2>5 DEF LinedUp
<1> DEFINE Goal == /\ Once(arrival')
                   /\ LinedUp(ToSet(arrival'), Before(arrival'), queue', Sent', Asked', Drawn',
                              Delivered', fate')
<1>5. ASSUME arrival' = arrival,
             LinedUp(A, R, queue', Sent', Asked', Drawn', Delivered', fate')
      PROVE  Goal
  BY <1>3, <1>5 DEF A, R
<1> HIDE DEF Goal
<1>6. ASSUME Still PROVE Goal
  BY <1>1, <1>5, <1>6 DEF Still, SameHands, SamePapers, LinedUp, Q
<1>7. ASSUME queue # <<>>
      PROVE  /\ Head(queue) \in Q /\ Q = ToSet(Tail(queue)) \cup {Head(queue)}
             /\ ToSet(Tail(queue)) \subseteq Q /\ Sorted(Tail(queue), R)
             /\ \A n \in ToSet(Tail(queue)) : <<Head(queue), n>> \in R
  BY <1>1, <1>2, <1>7, Tailed DEF Q
<1>8. ASSUME Drops PROVE Goal
  <2> DEFINE q == Tail(queue)
  <2>1. queue # <<>> /\ queue' = q /\ Sent' = Sent /\ Asked' = Asked /\ Drawn' = Drawn
        /\ Delivered' = Delivered /\ arrival' = arrival /\ fate' = [fate EXCEPT ![Head(queue)] = "handled"]
    BY <1>8 DEF Drops, SameHands
  <2> HIDE DEF q
  <2>2. /\ ToSet(q) \subseteq Q /\ Sorted(q, R) /\ Head(queue) \in Q
        /\ \A m \in Q \cup Drawn : m \in ToSet(q) \cup Drawn \/ fate'[m] \in {"withdrawn", "handled"}
    BY <1>2, <1>7, <2>1 DEF q
  <2>3. \A m \in A : fate'[m] = fate[m] \/ fate'[m] \in {"withdrawn", "handled"}
    BY <1>2, <2>1
  <2>4. LinedUp(A, R, q, Sent, Asked, Drawn, Delivered, fate')
    BY <1>1, <1>4, <2>2, <2>3
  <2>5. QED
    BY <1>5, <2>1, <2>4
<1>9. ASSUME Draws PROVE Goal
  <2> DEFINE q == Tail(queue)
             H == {Head(queue)}
  <2>1. queue # <<>> /\ queue' = q /\ Sent' = Sent /\ Asked' = Asked /\ Drawn = {} /\ Drawn' = H
        /\ Delivered' = Delivered /\ arrival' = arrival /\ fate' = fate
    BY <1>9 DEF Draws
  <2> HIDE DEF q
  <2>2. /\ ToSet(q) \subseteq Q /\ Sorted(q, R)
        /\ \A m \in H : m \in Q /\ \A n \in ToSet(q) : <<m, n>> \in R
        /\ \A m \in Q \cup Drawn : m \in ToSet(q) \cup H
    BY <1>7, <2>1 DEF q
  <2>3. \A m, n \in H : m = n
    OBVIOUS
  <2> HIDE DEF H
  <2>4. LinedUp(A, R, q, Sent, Asked, H, Delivered, fate)
    BY <1>1, <1>4, <2>1, <2>2, <2>3
  <2>5. QED
    BY <1>5, <2>1, <2>4
<1>10. ASSUME Cancels PROVE Goal
  <2>1. /\ queue' = <<>> /\ Sent' = Sent /\ Asked' = Asked /\ Drawn' = Drawn
        /\ Delivered' = Delivered /\ arrival' = arrival
        /\ \A m \in Msg : fate'[m] = IF m \in Q THEN "withdrawn" ELSE fate[m]
    BY <1>10 DEF Cancels, SameHands, Q
  <2>2. ToSet(<<>>) = {} /\ Sorted(<<>>, R)
    BY Empties
  <2>3. /\ \A m \in Q \cup Drawn : m \in ToSet(<<>>) \cup Drawn \/ fate'[m] \in {"withdrawn", "handled"}
        /\ \A m \in A : fate'[m] = fate[m] \/ fate'[m] \in {"withdrawn", "handled"}
    BY <1>2, <2>1
  <2>4. LinedUp(A, R, <<>>, Sent, Asked, Drawn, Delivered, fate')
    <3> DEFINE e == <<>>
    <3> HIDE DEF e
    <3>1. LinedUp(A, R, e, Sent, Asked, Drawn, Delivered, fate')
      BY <1>1, <1>4, <2>2, <2>3 DEF e
    <3>2. QED
      BY <3>1 DEF e
  <2>5. QED
    BY <1>5, <2>1, <2>4
<1>11. ASSUME NEW i \in DOMAIN queue, Removes(i) PROVE Goal
  <2> DEFINE q == RemoveAt(queue, i)
  <2>1. /\ queue' = q /\ Sent' = Sent /\ Asked' = Asked /\ Drawn' = Drawn
        /\ Delivered' = Delivered /\ arrival' = arrival
        /\ fate' = [fate EXCEPT ![queue[i]] = "withdrawn"]
    BY <1>11 DEF Removes, SameHands
  <2>2. ToSet(q) \subseteq Q /\ Q \subseteq ToSet(q) \cup {queue[i]} /\ Sorted(q, R) /\ queue[i] \in Q
    BY <1>1, <1>2, <1>11, Cut, InSet DEF Q
  <2> HIDE DEF q
  <2>3. /\ \A m \in Q \cup Drawn : m \in ToSet(q) \cup Drawn \/ fate'[m] \in {"withdrawn", "handled"}
        /\ \A m \in A : fate'[m] = fate[m] \/ fate'[m] \in {"withdrawn", "handled"}
    BY <1>2, <2>1, <2>2
  <2>4. LinedUp(A, R, q, Sent, Asked, Drawn, Delivered, fate')
    BY <1>1, <1>4, <2>2, <2>3
  <2>5. QED
    BY <1>5, <2>1, <2>4
\* Moves that leave the queue and what is drawn from it alone.
<1>12. ASSUME arrival' = arrival, queue' = queue, Drawn' = Drawn, Delivered' = Delivered,
              A \cap (Sent' \cup Asked') = {},
              \A m \in A : fate'[m] = fate[m] \/ fate'[m] \in {"withdrawn", "handled"}
       PROVE  Goal
  <2>1. ToSet(queue) = Q
    BY DEF Q
  <2>2. LinedUp(A, R, queue, Sent', Asked', Drawn, Delivered, fate')
    BY <1>1, <1>4, <1>12, <2>1
  <2>3. QED
    BY <1>5, <1>12, <2>2
<1>13. ASSUME NEW x \in Msg, Sends(x) PROVE Goal
  <2>1. x \notin A
    BY <1>1, <1>13 DEF Sends
  <2>2. /\ A \cap (Sent' \cup Asked') = {}
        /\ \A m \in A : fate'[m] = fate[m]
    BY <1>1, <1>2, <1>13, <2>1 DEF Sends, SameHands
  <2>3. QED
    BY <1>12, <1>13, <2>2 DEF Sends, SameHands
<1>14. ASSUME NEW x \in Msg, Starts(x) PROVE Goal
  BY <1>1, <1>12, <1>14 DEF Starts, SamePapers
<1>15. ASSUME NEW x \in Msg, NEW s \in {"handled", "refused"}, Ends(x, s) PROVE Goal
  <2>1. /\ queue' = queue /\ Sent' = Sent \ {x} /\ Asked' = Asked \ {x} /\ Drawn' = Drawn \ {x}
        /\ Delivered' = Delivered /\ arrival' = arrival /\ fate' = [fate EXCEPT ![x] = s]
    BY <1>15 DEF Ends
  <2>2. x \in Sent \cup Asked => x \notin A
    BY <1>1
  <2>3. x \notin Drawn => x \in Sent \cup Asked
    BY <1>15 DEF Ends
  <2>4. x \in Drawn => s = "handled"
    BY <1>15 DEF Ends
  <2>5. \A m \in A : fate'[m] = fate[m] \/ fate'[m] \in {"withdrawn", "handled"}
    BY <1>2, <2>1, <2>2, <2>3, <2>4
  <2>6. ToSet(queue) = Q
    BY DEF Q
  <2>7. \A m \in Q \cup Drawn : m \in ToSet(queue) \cup Drawn' \/ fate'[m] \in {"withdrawn", "handled"}
    BY <1>2, <2>1, <2>2, <2>3, <2>4, <2>6
  <2>8. A \cap (Sent' \cup Asked') = {}
    BY <1>1, <2>1
  <2>9. /\ \A m \in Drawn' : m \in Drawn
    BY <2>1
  <2>10. LinedUp(A, R, queue, Sent', Asked', Drawn', Delivered, fate')
    BY <1>1, <1>4, <2>5, <2>6, <2>7, <2>8, <2>9
  <2>11. QED
    BY <1>5, <2>1, <2>10
<1>16. ASSUME NEW x \in Msg, Runs(x) PROVE Goal
  <2>1. /\ x \in Asked \cup Drawn /\ Asked' = Asked \ {x} /\ Drawn' = Drawn \ {x}
        /\ Delivered' = Delivered \cup {x} /\ Sent' = Sent
        /\ queue' = queue /\ fate' = fate /\ arrival' = arrival
    BY <1>16 DEF Runs, SamePapers
  <2>2. \A m : Past(m, Delivered, fate) => Past(m, Delivered', fate)
    BY <2>1 DEF Past
  <2>3. \A m \in A : m \in Q \cup Drawn' \/ Past(m, Delivered', fate)
    BY <1>1, <2>1, <2>2 DEF Past
  <2>4. ASSUME NEW m, <<m, x>> \in R PROVE Past(m, Delivered', fate)
    <3>1. m \in A /\ x \in A /\ m # x /\ <<x, m>> \notin R
      BY <1>3, <2>4
    <3>2. x \in Drawn
      BY <1>1, <2>1, <3>1
    <3>3. m \notin Q /\ m \notin Drawn
      BY <1>1, <3>1, <3>2
    <3>4. QED
      BY <1>1, <2>2, <3>1, <3>3
  <2>5. \A m, n : <<m, n>> \in R /\ n \in Delivered' => Past(m, Delivered', fate)
    BY <1>1, <2>1, <2>2, <2>4
  <2>6. LinedUp(A, R, queue, Sent, Asked', Drawn', Delivered', fate)
    <3>1. ToSet(queue) = Q
      BY DEF Q
    <3>2. QED
      BY <1>1, <2>1, <2>3, <2>5, <3>1 DEF LinedUp
  <2>7. QED
    BY <1>5, <2>1, <2>6
<1>17. ASSUME NEW x \in Msg, PutsBack(x) PROVE Goal
  <2> DEFINE q == <<x>> \o queue
  <2>1. /\ x \in Drawn /\ Drawn' = Drawn \ {x} /\ queue' = q
        /\ fate' = fate /\ arrival' = arrival
        /\ Sent' = Sent /\ Asked' = Asked /\ Delivered' = Delivered
    BY <1>17 DEF PutsBack
  <2>2. ToSet(q) = Q \cup {x} /\ Sorted(q, R)
    BY <1>1, <1>2, <2>1, Pushed DEF Q
  <2> HIDE DEF q
  <2>3. Drawn' = {}
    BY <1>1, <2>1
  <2>4. ToSet(q) \cup Drawn' = Q \cup Drawn
    BY <1>1, <2>1, <2>2
  <2>5. LinedUp(A, R, q, Sent, Asked, Drawn', Delivered, fate)
    BY <1>1, <2>2, <2>3, <2>4 DEF LinedUp
  <2>6. QED
    BY <1>5, <2>1, <2>5
<1>18. ASSUME NEW x \in Msg, Enters(x) PROVE Goal
  <2> DEFINE q == Append(queue, x)
             s == Append(arrival, x)
             B == ToSet(s)
             P == Before(s)
  <2>1. /\ x \in Sent /\ Sent' = Sent \ {x} /\ queue' = q /\ arrival' = s /\ fate' = fate
        /\ Asked' = Asked /\ Drawn' = Drawn /\ Delivered' = Delivered
    BY <1>18 DEF Enters, SameHands
  <2>2. x \notin A /\ x \notin Q \cup Drawn \cup Delivered \cup Asked
    BY <1>1, <1>2, <2>1
  <2>3. B = A \cup {x} /\ Once(s)
    BY <1>2, <1>3, <2>2, Appended DEF A
  <2>4. /\ \A m, n : <<m, n>> \in R => <<m, n>> \in P
        /\ \A m \in A : <<m, x>> \in P
        /\ \A m, n : <<m, n>> \in P => <<m, n>> \in R \/ n = x
    BY <1>2, BeforeAppended DEF A, R
  <2> HIDE DEF B, P
  <2>5. ToSet(q) = Q \cup {x} /\ Sorted(q, P)
    <3>1. Sorted(queue, P)
      BY <1>1, <2>4 DEF Sorted
    <3>2. \A y \in Q : <<y, x>> \in P
      BY <1>1, <2>4
    <3>3. QED
      BY <1>2, <3>1, <3>2, Appended DEF Q
  <2> HIDE DEF q
  <2>6. /\ \A m \in Drawn : \A n \in ToSet(q) : <<m, n>> \in P
        /\ \A m, n : <<m, n>> \in P /\ n \in Delivered => Past(m, Delivered, fate)
    BY <1>1, <2>2, <2>4, <2>5
  <2>7. fate[x] # "unsent" /\ B \cap (Sent' \cup Asked) = {}
    BY <1>1, <1>2, <2>1, <2>2, <2>3
  <2>8. LinedUp(B, P, q, Sent', Asked, Drawn, Delivered, fate)
    BY <1>1, <2>3, <2>5, <2>6, <2>7 DEF LinedUp
  <2>9. QED
    BY <2>1, <2>3, <2>8 DEF B, P, Goal
<1>19. ASSUME NEW x \in Msg, NEW y \in Msg, Edits(x, y) PROVE Goal
  <2> DEFINE q == Renamed(queue, x, y)
             s == Renamed(arrival, x, y)
             B == ToSet(s)
             P == Before(s)
  <2>1. /\ x \in Q /\ fate[y] = "unsent" /\ queue' = q /\ arrival' = s
        /\ fate' = [fate EXCEPT ![x] = "withdrawn", ![y] = "pending"]
        /\ Sent' = Sent /\ Asked' = Asked /\ Drawn' = Drawn /\ Delivered' = Delivered
    BY <1>19 DEF Edits, SameHands, Q
  <2>2. /\ x \in A /\ y \notin A /\ x # y /\ y \notin Q
        /\ x \notin Drawn \cup Delivered \cup Sent \cup Asked
        /\ y \notin Drawn \cup Delivered \cup Sent \cup Asked
    BY <1>1, <1>2, <2>1
  <2>3. B = (A \ {x}) \cup {y} /\ Once(s)
    BY <1>2, <1>3, <2>2, Renaming DEF A
  <2>4. ToSet(q) = (Q \ {x}) \cup {y}
    BY <1>2, <2>1, <2>2, Renaming DEF Q
  <2>5. Sorted(q, P)
    BY <1>1, SortedRenamed DEF R
  <2>6. ASSUME NEW m, NEW n, <<m, n>> \in R
        PROVE  <<Named(m, x, y), Named(n, x, y)>> \in P
    BY <2>6, BeforeNamed DEF R
  <2> HIDE DEF B, P, q, s
  <2>7. ASSUME NEW m \in Drawn, NEW n \in ToSet(q) PROVE <<m, n>> \in P
    <3>1. PICK k \in Q : n = Named(k, x, y)
      BY <2>1, <2>4, <2>7 DEF Named
    <3>2. <<m, k>> \in R /\ m = Named(m, x, y)
      BY <1>1, <2>2, <2>7 DEF Named
    <3>3. QED
      BY <2>6, <3>1, <3>2
  <2>8. fate'[y] = "pending" /\ \A m \in A : m # x => fate'[m] = fate[m]
    BY <1>2, <2>1, <2>2
  <2>9. \A m \in A : m # x /\ Past(m, Delivered, fate) => Past(m, Delivered, fate')
    BY <2>8 DEF Past
  <2>10. ~Past(x, Delivered, fate)
    BY <1>2, <2>1, <2>2 DEF Past
  <2>11. ASSUME NEW c, NEW d, <<c, d>> \in P, d \in Delivered PROVE Past(c, Delivered, fate')
    <3>0. <<c, d>> \in Before(Renamed(arrival, x, y))
      BY <2>11 DEF P, s
    <3>1. PICK m, n : <<m, n>> \in R /\ c = Named(m, x, y) /\ d = Named(n, x, y)
      <4>1. NamesOf(c, d, arrival, x, y)
        BY <3>0, NamedBefore
      <4>2. QED
        BY <4>1 DEF NamesOf, R
    <3>2. n \in Delivered
      BY <2>2, <2>11, <3>1 DEF Named
    <3>3. Past(m, Delivered, fate) /\ m \in A
      BY <1>1, <1>3, <3>1, <3>2
    <3>4. m # x
      BY <2>10, <3>3
    <3>5. QED
      BY <2>9, <3>1, <3>3, <3>4 DEF Named
  <2>12. \A m \in B : m \in ToSet(q) \cup Drawn \/ Past(m, Delivered, fate')
    BY <1>1, <2>3, <2>4, <2>9
  <2>13. \A m \in B : fate'[m] # "unsent"
    BY <1>1, <2>3, <2>8
  <2>14. B \cap (Sent \cup Asked) = {} /\ ToSet(q) \cup Drawn \subseteq B
    BY <1>1, <2>2, <2>3, <2>4
  <2>15. LinedUp(B, P, q, Sent, Asked, Drawn, Delivered, fate')
    BY <1>1, <2>5, <2>7, <2>11, <2>12, <2>13, <2>14 DEF LinedUp
  <2>16. QED
    BY <2>1, <2>3, <2>15 DEF B, P, Goal
<1>20. Goal
  BY <1>6, <1>8, <1>9, <1>10, <1>11, <1>13, <1>14, <1>15, <1>16, <1>17, <1>18, <1>19 DEF Ledger
<1>21. QED
  BY <1>20 DEF Goal

Ordered == Orderly => InOrder

LEMMA OrderedNext == Typed /\ Placed /\ Quiet /\ Ordered /\ [Next]_vars => Ordered'
<1> SUFFICES ASSUME Typed, Placed, Quiet, Ordered, [Next]_vars, Orderly' PROVE InOrder'
  BY DEF Ordered
<1>1. Orderly /\ InOrder
  BY EnvStays DEF Ordered
<1>2. Ledger /\ Filed
  BY <1>1, Moves, AllFiled
<1>3. QED
  BY <1>1, <1>2, OrderNext

\* Messages of an orderly tab leave the queue in the order they entered it, whatever is
\* rejected and put back, retried, edited, removed or compacted in between.
THEOREM FirstInFirstOut == Spec => []QueueIsFifo
<1>1. Init => Ordered
  BY InOrderInit DEF Ordered
<1>2. Spec => [](Typed /\ Placed /\ Quiet /\ Ordered)
  BY <1>1, PlacedAlways, QuietAlways, OrderedNext, PTL DEF Spec
<1>3. Typed /\ Ordered => QueueIsFifo
  <2> SUFFICES ASSUME Typed, Ordered, Orderly, NEW i \in DOMAIN arrival, NEW j \in DOMAIN arrival,
                      i < j, arrival[j] \in Delivered
               PROVE  arrival[i] \in Delivered \/ fate[arrival[i]] \in {"withdrawn", "handled"}
    BY DEF QueueIsFifo
  <2>1. <<arrival[i], arrival[j]>> \in Before(arrival)
    BY BeforeIs
  <2>2. Past(arrival[i], Delivered, fate)
    BY <2>1 DEF Ordered, InOrder, LinedNow, LinedUp
  <2>3. QED
    BY <2>2 DEF Past
<1>4. QED
  BY <1>2, <1>3, PTL
=============================================================================
