--------------------------- MODULE SubagentsProofs ---------------------------
(***************************************************************************)
(* Proofs about delegated runs, for every number of agents, chats and      *)
(* writers, every setting of the two limits and every turn budget; and, at *)
(* the end, about the worktree of an agent, for every number of files,     *)
(* tool calls, runs, failures and crashes.                                 *)
(***************************************************************************)
EXTENDS Subagents, Worktrees, TLAPS

Typed == run \in [Agent -> Run]

\* What the operations make of a row is a row.
LEMMA LaunchedInRun ==
    ASSUME NEW a \in BOOLEAN, NEW b \in BOOLEAN PROVE Launched(a, b) \in Run
  BY DEF Launched, Run, Stage, Status, Terminal, Outcome, Reason, Completion

LEMMA AbsentInRun == Absent \in Run
<1>1. Launched(FALSE, FALSE) \in Run
  BY LaunchedInRun
<1>2. QED
  BY <1>1 DEF Absent, Run, Stage, Status

LEMMA EndedInRun ==
    ASSUME NEW x \in Run, NEW outcome \in Outcome PROVE Ended(x, outcome) \in Run
<1>1. StatusOf(outcome, x.reason) \in Status
  BY DEF StatusOf, Outcome, Status, Terminal
<1>2. Launched(FALSE, x.transcript) \in Run
  BY LaunchedInRun, ZenonT(60) DEF Run
<1>3. ASSUME NEW y \in Run, NEW s \in Status
      PROVE  [y EXCEPT !.stage = "settled", !.status = s] \in Run
  BY DEF Run, Stage
<1>4. QED
  BY <1>1, <1>2, <1>3 DEF Ended

LEMMA AbortInRun ==
    ASSUME NEW x \in Run, NEW why \in Reason PROVE Abort(x, why) \in Run
  BY DEF Abort, Run

LEMMA CancelledInRun == ASSUME NEW x \in Run PROVE Cancelled(x) \in Run
<1>1. Abort(x, "cancelled") \in Run
  BY AbortInRun DEF Reason
<1>2. ASSUME NEW y \in Run, NEW b \in BOOLEAN PROVE [y EXCEPT !.stopped = b] \in Run
  BY DEF Run
<1>3. (x.stopped \/ x.stage # "closing") \in BOOLEAN
  OBVIOUS
<1>4. QED
  BY <1>1, <1>2, <1>3 DEF Cancelled, Abort

LEMMA ClosingInRun ==
    ASSUME NEW x \in Run, NEW outcome \in Outcome PROVE Closing(x, outcome) \in Run
<1>1. Launched(FALSE, x.transcript) \in Run
  BY LaunchedInRun DEF Run
<1>2. QED
  BY <1>1 DEF Closing, Run, Stage

LEMMA TurnEndedInRun ==
    ASSUME NEW r \in Agent, NEW x \in Run, NEW calls \in BOOLEAN
    PROVE  TurnEnded(r, x, calls) \in Run
<1> DEFINE live == x.completion = "none" /\ calls /\ ~Signal(r)
           cut == live /\ x.turns + 1 >= MaxTurns[r]
           y == IF cut THEN Abort(x, "max-turns") ELSE x
<1>1. y \in Run
  BY AbortInRun DEF Reason
<1>2. x.turns + 1 \in Nat
  BY DEF Run
<1>3. TurnEnded(r, x, calls) = [y EXCEPT !.turns = x.turns + 1,
                                         !.warned = @ \/ (live /\ MaxTurns[r] - (x.turns + 1) = 1)]
  BY DEF TurnEnded
<1> HIDE DEF y, live
<1>4. QED
  BY <1>1, <1>2, <1>3, ZenonT(60) DEF Run

LEMMA PromptResultInRun ==
    ASSUME NEW r \in Agent, NEW x \in Run, NEW text \in BOOLEAN
    PROVE  PromptResult(r, x, text) \in Run
<1>1. Closing(x, "failed") \in Run /\ Closing(x, "completed") \in Run
      /\ Closing(x, AbortOutcome(x)) \in Run
  BY ClosingInRun DEF Outcome, Terminal, AbortOutcome
<1>2. Completed(x) \in Run
  BY <1>1 DEF Completed, Run, Status, Terminal
<1>3. [Closing(x, "failed") EXCEPT !.reason = "max-turns"] \in Run
  BY <1>1 DEF Run, Reason
<1>4. [x EXCEPT !.prompts = 2, !.turning = TRUE] \in Run
  <2>1. 2 \in 0..2
    OBVIOUS
  <2>2. ASSUME NEW p \in 0..2, NEW b \in BOOLEAN
        PROVE  [x EXCEPT !.prompts = p, !.turning = b] \in Run
    BY DEF Run
  <2>3. QED
    BY <2>1, <2>2
<1>5. QED
  BY <1>1, <1>2, <1>3, <1>4 DEF PromptResult

LEMMA TurnedInRun ==
    ASSUME NEW x \in Run, NEW calls \in BOOLEAN, NEW delivers \in Completion,
           NEW goesOn \in BOOLEAN
    PROVE  Turned(x, calls, delivers, goesOn) \in Run
<1>1. ASSUME NEW d \in Completion, NEW g \in BOOLEAN, NEW e \in Nat
      PROVE  [x EXCEPT !.completion = d, !.turning = goesOn, !.guided = g, !.extra = e] \in Run
  BY DEF Run
<1>2. /\ (IF delivers = "none" THEN x.completion ELSE delivers) \in Completion
      /\ (x.guided /\ ~goesOn) \in BOOLEAN
      /\ (IF goesOn /\ ~calls THEN x.extra + 1 ELSE x.extra) \in Nat
  BY DEF Run
<1>3. QED
  BY <1>1, <1>2 DEF Turned

LEMMA HaltedInRun ==
    ASSUME NEW x \in Run, NEW delivers \in Completion PROVE Halted(x, delivers) \in Run
  BY DEF Halted, Run

LEMMA PromptedInRun ==
    ASSUME NEW x \in Run, NEW deaf \in BOOLEAN PROVE Prompted(x, deaf) \in Run
<1>1. 1 \in 0..2
  OBVIOUS
<1>2. ASSUME NEW p \in 0..2
      PROVE  [x EXCEPT !.stage = "prompting", !.status = "running", !.transcript = TRUE,
                       !.timer = TRUE, !.prompts = p, !.turning = TRUE, !.deaf = deaf] \in Run
  BY DEF Run, Stage, Status
<1>3. QED
  BY <1>1, <1>2 DEF Prompted

LEMMA TimedOutInRun == ASSUME NEW x \in Run PROVE TimedOut(x) \in Run
<1>1. Abort(x, "timeout") \in Run
  BY AbortInRun DEF Reason
<1>2. QED
  BY <1>1 DEF TimedOut, Run

LEMMA UnheardInRun == ASSUME NEW x \in Run PROVE Unheard(x) \in Run
<1>1. Cancelled(x) \in Run
  BY CancelledInRun
<1>2. QED
  BY <1>1 DEF Unheard, Run

LEMMA ShutOutInRun == ASSUME NEW x \in Run PROVE ShutOut(x) \in Run
<1>1. (x.halting \/ (x.turning /\ ~x.aborted)) \in BOOLEAN
  OBVIOUS
<1>2. ASSUME NEW h \in BOOLEAN PROVE [x EXCEPT !.halting = h] \in Run
  BY DEF Run
<1>3. QED
  BY <1>1, <1>2 DEF ShutOut

LEMMA SettleTyped ==
    ASSUME Typed, NEW r \in Agent, NEW outcome \in Outcome, Settle(r, outcome) PROVE Typed'
<1>1. Ended(run[r], outcome) \in Run
  BY EndedInRun DEF Typed
<1>2. QED
  BY <1>1 DEF Settle, Typed

LEMMA MovedTyped ==
    ASSUME Typed, NEW r \in Agent, NEW s \in Stage, NEW t \in Status,
           run' = [run EXCEPT ![r].stage = s, ![r].status = t]
    PROVE  Typed'
<1>1. run' = [run EXCEPT ![r] = [run[r] EXCEPT !.stage = s, !.status = t]]
  BY DEF Typed
<1>2. [run[r] EXCEPT !.stage = s, !.status = t] \in Run
  <2>1. run[r] \in Run
    BY DEF Typed
  <2>2. QED
    BY <2>1, ZenonT(30) DEF Run
<1>3. QED
  BY <1>1, <1>2 DEF Typed

LEMMA TakeLeaseTyped == ASSUME Typed, NEW r \in Agent, TakeLease(r) PROVE Typed'
<1>1. CASE Settle(r, "error")
  BY <1>1, SettleTyped DEF Outcome
<1>2. CASE run' = [run EXCEPT ![r].stage = "creating", ![r].status = "starting"]
  BY <1>2, MovedTyped DEF Stage, Status
<1>3. QED
  BY <1>1, <1>2 DEF TakeLease

LEMMA TypedStep == Typed /\ [Next]_vars => Typed'
<1> SUFFICES ASSUME Typed, [Next]_vars PROVE Typed'
  OBVIOUS
<1> USE DEF Typed
<1>1. CASE UNCHANGED vars
  BY <1>1 DEF vars, moving
<1>2. ASSUME NEW r \in Agent, Spawn(r) PROVE Typed'
  BY <1>2, LaunchedInRun DEF Spawn, Launch
<1>3. ASSUME NEW r \in Agent, Resume(r) PROVE Typed'
  BY <1>3, LaunchedInRun DEF Resume, Launch
<1>4. ASSUME NEW r \in Agent, Start(r) PROVE Typed'
  <2>1. CASE Settle(r, "cancelled")
    BY <2>1, SettleTyped DEF Outcome, Terminal
  <2>2. CASE run' = [run EXCEPT ![r].stage = "opening", ![r].status = "starting"]
    BY <2>2, MovedTyped DEF Stage, Status
  <2>3. CASE TakeLease(r)
    BY <2>3, TakeLeaseTyped
  <2>4. QED
    BY <1>4, <2>1, <2>2, <2>3 DEF Start
<1>5. ASSUME NEW r \in Agent, Refuse(r) PROVE Typed'
  BY <1>5, SettleTyped DEF Refuse, Outcome, Terminal
<1>6. ASSUME NEW r \in Agent, Open(r) PROVE Typed'
  BY <1>6, TakeLeaseTyped DEF Open
<1>7. ASSUME NEW r \in Agent, OpenFails(r) PROVE Typed'
  BY <1>7, SettleTyped DEF OpenFails, Outcome
<1>8. ASSUME NEW r \in Agent, Created(r) PROVE Typed'
  <2>1. Signal(r) \in BOOLEAN
    BY DEF Signal
  <2>2. QED
    BY <1>8, <2>1, PromptedInRun DEF Created
<1>9. ASSUME NEW r \in Agent, CreateFails(r) PROVE Typed'
  BY <1>9, SettleTyped DEF CreateFails, Outcome
<1>10. ASSUME NEW r \in Agent, PromptRejects(r) PROVE Typed'
  <2>1. Closing(run[r], "error") \in Run
    BY ClosingInRun DEF Outcome
  <2>2. QED
    BY <1>10, <2>1 DEF PromptRejects
<1>11. ASSUME NEW r \in Agent, Turn(r) PROVE Typed'
  BY <1>11, TurnedInRun, TurnEndedInRun DEF Turn
<1>12. ASSUME NEW r \in Agent, Halt(r) PROVE Typed'
  BY <1>12, HaltedInRun, TurnEndedInRun DEF Halt, Completion
<1>13. ASSUME NEW r \in Agent, PromptReturns(r) PROVE Typed'
  BY <1>13, PromptResultInRun DEF PromptReturns
<1>14. ASSUME NEW r \in Agent, Close(r) PROVE Typed'
  <2>1. run[r].outcome \in Outcome
    BY DEF Run
  <2>2. QED
    BY <1>14, <2>1, SettleTyped DEF Close, Outcome
<1>15. ASSUME NEW r \in Agent, Stop(r) PROVE Typed'
  <2>1. Cancelled(run[r]) \in Run
    BY CancelledInRun
  <2>2. Ended(Cancelled(run[r]), "cancelled") \in Run
    BY <2>1, EndedInRun DEF Outcome, Terminal
  <2>3. QED
    BY <1>15, <2>1, <2>2 DEF Stop
<1>16. ASSUME NEW r \in Agent, TimeOut(r) PROVE Typed'
  BY <1>16, TimedOutInRun DEF TimeOut
<1>17. ASSUME NEW r \in Agent, Steer(r) PROVE Typed'
  <2>1. run' = [run EXCEPT ![r] = [run[r] EXCEPT !.guided = TRUE]]
    BY <1>17 DEF Steer
  <2>2. [run[r] EXCEPT !.guided = TRUE] \in Run
    <3>1. run[r] \in Run
      OBVIOUS
    <3>2. QED
      BY <3>1, ZenonT(30) DEF Run
  <2>3. QED
    BY <2>1, <2>2
<1>18. ASSUME NEW c \in Chat, CloseChat(c) PROVE Typed'
  <2>1. ASSUME NEW r \in Agent
        PROVE  Cancelled(run[r]) \in Run /\ Ended(Cancelled(run[r]), "cancelled") \in Run
    BY CancelledInRun, EndedInRun DEF Outcome, Terminal
  <2>2. QED
    BY <1>18, <2>1 DEF CloseChat
<1>19. ASSUME NEW c \in Chat, CloseEnds(c) PROVE Typed'
  BY <1>19 DEF CloseEnds
<1>20. CASE Shutdown
  BY <1>20, ShutOutInRun DEF Shutdown
<1>21. ASSUME NEW r \in Agent, ParentAborts(r) PROVE Typed'
  BY <1>21, UnheardInRun DEF ParentAborts
<1>22. QED
  BY <1>1, <1>2, <1>3, <1>4, <1>5, <1>6, <1>7, <1>8, <1>9, <1>10, <1>11, <1>12, <1>13,
     <1>14, <1>15, <1>16, <1>17, <1>18, <1>19, <1>20, <1>21 DEF Next

LEMMA TypedInit == Init => Typed
  BY AbsentInRun DEF Init, Typed

----------------------------------------------------------------------------
(***************************************************************************)
(* Writers exclude each other. The invariant is inductive once the holder  *)
(* of the lease is known to be a writer: every change of a row either      *)
(* leaves its having a child alone, or takes or releases the lease.        *)
(***************************************************************************)
LeaseHeld == lease \in Writer \cup {NoAgent} /\ WritersExclude

\* A row that has a child goes on having one, or none before and after.
LEMMA LeaseKept ==
    ASSUME Typed, LeaseHeld, NEW r \in Agent, NEW y, lease' = lease,
           run' = [run EXCEPT ![r] = y], y.stage \in HasChild <=> run[r].stage \in HasChild
    PROVE  LeaseHeld'
  BY AgentAssumption DEF Typed, LeaseHeld, WritersExclude, At

\* A row loses its child and the lease with it.
LEMMA LeaseLeft ==
    ASSUME Typed, LeaseHeld, NEW r \in Agent, NEW y, ReleaseLease(r),
           run' = [run EXCEPT ![r] = y], y.stage \notin HasChild
    PROVE  LeaseHeld'
  BY AgentAssumption DEF Typed, LeaseHeld, WritersExclude, At, ReleaseLease

\* A row without a child gets one, if it may.
LEMMA LeaseTaken ==
    ASSUME Typed, LeaseHeld, NEW r \in Agent, run[r].stage \notin HasChild, TakeLease(r)
    PROVE  LeaseHeld'
<1>1. CASE Settle(r, "error") /\ UNCHANGED lease
  <2>1. Ended(run[r], "error").stage = "settled"
    BY DEF Ended, Launched
  <2>2. QED
    BY <1>1, <2>1, LeaseKept DEF Settle, HasChild
<1>2. CASE /\ r \in Writer => lease \in {NoAgent, r}
           /\ lease' = IF r \in Writer THEN r ELSE lease
           /\ run' = [run EXCEPT ![r].stage = "creating", ![r].status = "starting"]
  <2>1. /\ run'[r].stage = "creating"
        /\ \A s \in Agent \ {r} : run'[s] = run[s]
    BY <1>2 DEF Typed, Run
  <2>2. QED
    BY <1>2, <2>1, AgentAssumption DEF LeaseHeld, WritersExclude, At, HasChild
<1>3. QED
  BY <1>1, <1>2 DEF TakeLease

\* What an operation makes of a row's stage.
LEMMA CancelledStage == ASSUME NEW x \in Run PROVE Cancelled(x).stage = x.stage
  BY DEF Abort, Cancelled, Run

LEMMA TurnedStage ==
    ASSUME NEW x \in Run, NEW calls, NEW delivers, NEW goesOn
    PROVE  Turned(x, calls, delivers, goesOn).stage = x.stage
  BY DEF Turned, Run

LEMMA EndedStage ==
    ASSUME NEW x, NEW outcome
    PROVE  Ended(x, outcome).stage = "settled" /\ Closing(x, outcome).stage = "closing"
  BY DEF Ended, Closing, Launched

LEMMA TurnEndedStage ==
    ASSUME NEW r \in Agent, NEW x \in Run, NEW calls \in BOOLEAN
    PROVE  TurnEnded(r, x, calls).stage = x.stage
<1>1. \A why : Abort(x, why).stage = x.stage
  BY DEF Abort, Run
<1>2. QED
  BY <1>1 DEF TurnEnded, Run, Abort

LEMMA PromptResultStage ==
    ASSUME NEW r \in Agent, NEW x \in Run, x.stage = "prompting", NEW text \in BOOLEAN
    PROVE  PromptResult(r, x, text).stage \in HasChild
<1>1. \A outcome : Closing(x, outcome).stage = "closing"
  BY EndedStage
<1>2. QED
  BY <1>1 DEF PromptResult, Completed, Closing, Launched, HasChild, Run

LEMMA LeaseHeldStep == Typed /\ LeaseHeld /\ [Next]_vars => LeaseHeld'
<1> SUFFICES ASSUME Typed, LeaseHeld, [Next]_vars PROVE LeaseHeld'
  OBVIOUS
<1>0. \A r \in Agent : run[r] \in Run
  BY DEF Typed
<1>1. CASE UNCHANGED vars
  BY <1>1 DEF vars, moving, LeaseHeld, WritersExclude, At
<1>2. ASSUME NEW r \in Agent, Spawn(r) PROVE LeaseHeld'
  BY <1>2, LeaseKept DEF Spawn, Launch, Launched, At, HasChild
<1>3. ASSUME NEW r \in Agent, Resume(r) PROVE LeaseHeld'
  BY <1>3, LeaseKept DEF Resume, Launch, Launched, At, HasChild
<1>4. ASSUME NEW r \in Agent, Start(r) PROVE LeaseHeld'
  <2>1. run[r].stage \notin HasChild
    BY <1>4 DEF Start, At, HasChild
  <2>2. CASE Settle(r, "cancelled") /\ UNCHANGED lease
    BY <2>1, <2>2, EndedStage, LeaseKept DEF Settle, HasChild
  <2>3. CASE /\ run' = [run EXCEPT ![r].stage = "opening", ![r].status = "starting"]
             /\ UNCHANGED lease
    <3>1. run' = [run EXCEPT ![r] = [run[r] EXCEPT !.stage = "opening", !.status = "starting"]]
      BY <2>3 DEF Typed
    <3>2. QED
      BY <1>0, <2>1, <2>3, <3>1, LeaseKept DEF HasChild, Run
  <2>4. CASE TakeLease(r)
    BY <2>1, <2>4, LeaseTaken
  <2>5. QED
    BY <1>4, <2>2, <2>3, <2>4 DEF Start
<1>5. ASSUME NEW r \in Agent, Refuse(r) PROVE LeaseHeld'
  BY <1>5, EndedStage, LeaseKept DEF Refuse, Settle, At, HasChild
<1>6. ASSUME NEW r \in Agent, Open(r) PROVE LeaseHeld'
  BY <1>6, LeaseTaken DEF Open, At, HasChild
<1>7. ASSUME NEW r \in Agent, OpenFails(r) PROVE LeaseHeld'
  BY <1>7, EndedStage, LeaseKept DEF OpenFails, Settle, At, HasChild
<1>8. ASSUME NEW r \in Agent, Created(r) PROVE LeaseHeld'
  <2>1. Prompted(run[r], Signal(r)).stage = "prompting"
    BY <1>0 DEF Prompted, Run
  <2>2. QED
    BY <1>8, <2>1, LeaseKept DEF Created, At, HasChild
<1>9. ASSUME NEW r \in Agent, CreateFails(r) PROVE LeaseHeld'
  BY <1>9, EndedStage, LeaseLeft DEF CreateFails, Settle, HasChild
<1>10. ASSUME NEW r \in Agent, PromptRejects(r) PROVE LeaseHeld'
  BY <1>10, EndedStage, LeaseKept, ZenonT(60) DEF PromptRejects, At, HasChild
<1>11. ASSUME NEW r \in Agent, Turn(r) PROVE LeaseHeld'
  <2>1. PICK calls \in BOOLEAN, delivers \in Completion, goesOn \in BOOLEAN :
          run' = [run EXCEPT ![r] = TurnEnded(r, Turned(run[r], calls, delivers, goesOn), calls)]
    BY <1>11 DEF Turn
  <2>2. TurnEnded(r, Turned(run[r], calls, delivers, goesOn), calls).stage = run[r].stage
    BY <1>0, TurnedInRun, TurnedStage, TurnEndedStage
  <2>3. QED
    BY <1>11, <2>1, <2>2, LeaseKept DEF Turn
<1>12. ASSUME NEW r \in Agent, Halt(r) PROVE LeaseHeld'
  <2>1. ASSUME NEW delivers \in Completion
        PROVE  /\ Halted(run[r], delivers).stage = run[r].stage
               /\ TurnEnded(r, Halted(run[r], delivers), TRUE).stage = run[r].stage
    <3>1. Halted(run[r], delivers) \in Run /\ Halted(run[r], delivers).stage = run[r].stage
      BY <1>0, HaltedInRun, ZenonT(60) DEF Halted, Run
    <3>2. QED
      BY <3>1, TurnEndedStage
  <2>2. QED
    BY <1>12, <2>1, LeaseKept DEF Halt, Completion
<1>13. ASSUME NEW r \in Agent, PromptReturns(r) PROVE LeaseHeld'
  BY <1>0, <1>13, PromptResultStage, LeaseKept DEF PromptReturns, At, HasChild
<1>14. ASSUME NEW r \in Agent, Close(r) PROVE LeaseHeld'
  BY <1>14, EndedStage, LeaseLeft DEF Close, Settle, HasChild
<1>15. ASSUME NEW r \in Agent, Stop(r) PROVE LeaseHeld'
  <2>1. CASE Pending(r) /\ run' = [run EXCEPT ![r] = Ended(Cancelled(@), "cancelled")]
    BY <1>15, <2>1, EndedStage, LeaseKept DEF Stop, Pending, At, HasChild
  <2>2. CASE run' = [run EXCEPT ![r] = Cancelled(@)]
    BY <1>0, <1>15, <2>2, CancelledStage, LeaseKept DEF Stop
  <2>3. QED
    BY <1>15, <2>1, <2>2 DEF Stop
<1>16. ASSUME NEW r \in Agent, TimeOut(r) PROVE LeaseHeld'
  <2>1. TimedOut(run[r]).stage = run[r].stage
    BY <1>0 DEF TimedOut, Abort, Run
  <2>2. QED
    BY <1>16, <2>1, LeaseKept DEF TimeOut
<1>17. ASSUME NEW r \in Agent, Steer(r) PROVE LeaseHeld'
  <2>1. run' = [run EXCEPT ![r] = [run[r] EXCEPT !.guided = TRUE]]
    BY <1>17 DEF Steer
  <2>2. QED
    BY <1>0, <1>17, <2>1, LeaseKept DEF Steer, Run
<1>18. ASSUME NEW c \in Chat, CloseChat(c) PROVE LeaseHeld'
  <2>1. ASSUME NEW r \in Agent
        PROVE  run'[r].stage \in HasChild <=> run[r].stage \in HasChild
    <3>1. Pending(r) => run[r].stage \notin HasChild
      BY DEF Pending, At, HasChild
    <3>2. \/ run'[r] = run[r]
          \/ run'[r] = Cancelled(run[r])
          \/ Pending(r) /\ run'[r] = Ended(Cancelled(run[r]), "cancelled")
      BY <1>18 DEF CloseChat
    <3>3. QED
      BY <1>0, <3>1, <3>2, CancelledStage, EndedStage DEF HasChild
  <2>2. QED
    BY <1>18, <2>1, AgentAssumption DEF CloseChat, LeaseHeld, WritersExclude, At
<1>19. ASSUME NEW c \in Chat, CloseEnds(c) PROVE LeaseHeld'
  BY <1>19 DEF CloseEnds, LeaseHeld, WritersExclude, At
<1>20. CASE Shutdown
  <2>1. \A r \in Agent : run'[r].stage = run[r].stage
    <3>1. \A r \in Agent : ShutOut(run[r]).stage = run[r].stage
      BY <1>0 DEF ShutOut, Run
    <3>2. QED
      BY <1>20, <3>1 DEF Shutdown
  <2>2. QED
    BY <1>20, <2>1, AgentAssumption DEF Shutdown, LeaseHeld, WritersExclude, At
<1>21. ASSUME NEW r \in Agent, ParentAborts(r) PROVE LeaseHeld'
  <2>1. Unheard(run[r]).stage = run[r].stage
    BY <1>0 DEF Unheard, Cancelled, Abort, Run
  <2>2. QED
    BY <1>21, <2>1, LeaseKept DEF ParentAborts
<1>22. QED
  BY <1>1, <1>2, <1>3, <1>4, <1>5, <1>6, <1>7, <1>8, <1>9, <1>10, <1>11, <1>12, <1>13,
     <1>14, <1>15, <1>16, <1>17, <1>18, <1>19, <1>20, <1>21 DEF Next

\* Two children never write in the shared workspace at once, and a run that
\* is over holds no lease, whatever stops, failures, resumes and disposals
\* come in between.
THEOREM WritersNeverMeet == Spec => []WritersExclude
<1>1. Init => LeaseHeld
  BY AgentAssumption DEF Init, LeaseHeld, WritersExclude, At, Absent, Launched, HasChild
<1>2. LeaseHeld => WritersExclude
  BY DEF LeaseHeld
<1>3. QED
  BY <1>1, <1>2, TypedInit, TypedStep, LeaseHeldStep, PTL DEF Spec

----------------------------------------------------------------------------
(***************************************************************************)
(* A stop is honoured. While a run that was stopped is not closing, its    *)
(* signal is aborted, so that nothing replaces the reason but its timer,   *)
(* which also takes the record of the stop away; once it is closing, what  *)
(* it settles with was chosen from that reason.                            *)
(***************************************************************************)
StopRecorded(x) ==
    x.stopped =>
      /\ x.stage \notin {"absent", "settled"}
      /\ x.reason = "cancelled"
      /\ x.stage # "closing" => x.aborted
      /\ x.stage = "closing" /\ x.completion # "blank"
           => x.outcome \in {"completed", "cancelled", "error"}

StopsRecorded == \A r \in Agent : StopRecorded(run[r])

\* What a step may make of row x: y.
StopKept(x, y) ==
    /\ StopRecorded(y)
    /\ x.stopped /\ x.completion # "blank" /\ y.stage = "settled"
         => y.status \in {"cancelled", "completed"}

StopsKept == \A r \in Agent : StopKept(run[r], run'[r])

LEMMA StopUntouched == ASSUME NEW x, StopRecorded(x) PROVE StopKept(x, x)
  BY DEF StopKept, StopRecorded

LEMMA StopOneRow ==
    ASSUME Typed, StopsRecorded, NEW r \in Agent, NEW y,
           run' = [run EXCEPT ![r] = y], StopKept(run[r], y)
    PROVE  StopsKept
  BY StopUntouched DEF Typed, StopsRecorded, StopsKept

LEMMA StopEnded ==
    ASSUME NEW x \in Run, StopRecorded(x), NEW outcome,
           x.stopped /\ x.completion # "blank"
             => StatusOf(outcome, x.reason) \in {"cancelled", "completed"}
    PROVE  StopKept(x, Ended(x, outcome))
<1>1. /\ Ended(x, outcome).stopped = FALSE
      /\ Ended(x, outcome).status = StatusOf(outcome, x.reason)
  BY DEF Ended, Launched
<1>2. QED
  BY <1>1 DEF StopKept, StopRecorded

LEMMA StopSettled ==
    ASSUME NEW x \in Run, StopRecorded(x), NEW outcome \in {"cancelled", "error"}
    PROVE  StopKept(x, Ended(x, outcome))
<1>1. x.stopped => StatusOf(outcome, x.reason) \in {"cancelled", "completed"}
  BY DEF StopRecorded, StatusOf, Terminal
<1>2. QED
  BY <1>1, StopEnded

LEMMA StopCancelled ==
    ASSUME NEW x \in Run, StopRecorded(x), x.stage \notin {"absent", "settled"}
    PROVE  StopKept(x, Cancelled(x)) /\ StopKept(x, Ended(Cancelled(x), "cancelled"))
<1>1. StopKept(x, Cancelled(x))
  BY DEF StopKept, StopRecorded, Cancelled, Abort, Run
<1>2. /\ Ended(Cancelled(x), "cancelled").stopped = FALSE
      /\ Ended(Cancelled(x), "cancelled").status = "cancelled"
  BY DEF Ended, Launched, StatusOf, Terminal
<1>3. QED
  BY <1>1, <1>2 DEF StopKept, StopRecorded

LEMMA StopClosing ==
    ASSUME NEW x \in Run, StopRecorded(x), NEW outcome,
           x.stopped /\ x.completion # "blank" => outcome \in {"completed", "cancelled", "error"}
    PROVE  StopKept(x, Closing(x, outcome))
  BY DEF StopKept, StopRecorded, Closing, Launched

LEMMA StopTurnEnded ==
    ASSUME NEW r \in Agent, NEW x \in Run, StopRecorded(x), x.stage = "prompting",
           x.aborted => Signal(r), NEW calls \in BOOLEAN
    PROVE  StopRecorded(TurnEnded(r, x, calls)) /\ TurnEnded(r, x, calls).stage = "prompting"
<1>1. CASE Signal(r)
  BY <1>1 DEF TurnEnded, StopRecorded, Run
<1>2. CASE ~Signal(r)
  <2>1. x.stopped = FALSE
    BY <1>2 DEF StopRecorded, Run
  <2>2. TurnEnded(r, x, calls).stopped = FALSE
    BY <2>1 DEF TurnEnded, Abort, Run
  <2>3. QED
    BY <2>2, TurnEndedStage DEF StopRecorded
<1>3. QED
  BY <1>1, <1>2

LEMMA StopPromptResult ==
    ASSUME NEW r \in Agent, StopRecorded(run[r]), run[r] \in Run,
           run[r].stage = "prompting", NEW text \in BOOLEAN
    PROVE  StopKept(run[r], PromptResult(r, run[r], text))
<1> DEFINE x == run[r]
<1>1. x.stopped => Signal(r) /\ AbortOutcome(x) = "cancelled"
  BY DEF StopRecorded, Signal, AbortOutcome
<1>2. ASSUME NEW outcome, outcome = "completed" \/ ~x.stopped \/ x.completion = "blank"
                          \/ outcome = AbortOutcome(x)
      PROVE  StopKept(x, Closing(x, outcome)) /\ Closing(x, outcome).stopped = x.stopped
  BY <1>1, <1>2, StopClosing DEF Closing, Launched
<1>3. StopKept(x, Completed(x))
  BY <1>2 DEF Completed, StopKept, StopRecorded, Closing, Launched
<1>4. ~x.stopped => StopKept(x, [Closing(x, "failed") EXCEPT !.reason = "max-turns"])
  BY DEF StopKept, StopRecorded, Closing, Launched
<1>5. StopKept(x, [x EXCEPT !.prompts = 2, !.turning = TRUE])
  BY DEF StopKept, StopRecorded, Run
<1>6. QED
  BY <1>1, <1>2, <1>3, <1>4, <1>5 DEF PromptResult

LEMMA StopsKeptStep == Typed /\ StopsRecorded /\ [Next]_vars => StopsKept
<1> SUFFICES ASSUME Typed, StopsRecorded, [Next]_vars PROVE StopsKept
  OBVIOUS
<1>0. \A r \in Agent : run[r] \in Run /\ StopRecorded(run[r])
  BY DEF Typed, StopsRecorded
<1>1. ASSUME UNCHANGED run PROVE StopsKept
  BY <1>0, <1>1, StopUntouched DEF StopsKept
<1>2. ASSUME NEW r \in Agent, Spawn(r) \/ Resume(r) PROVE StopsKept
  <2>1. PICK a, b : run' = [run EXCEPT ![r] = Launched(a, b)]
    BY <1>2 DEF Spawn, Resume, Launch
  <2>2. StopKept(run[r], Launched(a, b))
    BY DEF StopKept, StopRecorded, Launched
  <2>3. QED
    BY <2>1, <2>2, StopOneRow
<1>3. ASSUME NEW r \in Agent, NEW outcome \in {"cancelled", "error"}, Settle(r, outcome)
      PROVE  StopsKept
  <2>1. StopKept(run[r], Ended(run[r], outcome))
    BY <1>0, StopSettled
  <2>2. QED
    BY <1>3, <2>1, StopOneRow DEF Settle
<1>4. ASSUME NEW r \in Agent, NEW s \in {"opening", "creating"},
             run' = [run EXCEPT ![r].stage = s, ![r].status = "starting"],
             At(r, {"scheduled", "opening"})
      PROVE  StopsKept
  <2>1. run' = [run EXCEPT ![r] = [run[r] EXCEPT !.stage = s, !.status = "starting"]]
    BY <1>4 DEF Typed
  <2>2. StopKept(run[r], [run[r] EXCEPT !.stage = s, !.status = "starting"])
    BY <1>0, <1>4 DEF StopKept, StopRecorded, Run, At
  <2>3. QED
    BY <2>1, <2>2, StopOneRow
<1>5. ASSUME NEW r \in Agent, Start(r) \/ Refuse(r) \/ Open(r) PROVE StopsKept
  BY <1>3, <1>4, <1>5 DEF Start, Refuse, Open, TakeLease, At
<1>6. ASSUME NEW r \in Agent, OpenFails(r) \/ CreateFails(r) PROVE StopsKept
  BY <1>3, <1>6 DEF OpenFails, CreateFails
<1>7. ASSUME NEW r \in Agent, Created(r) PROVE StopsKept
  <2>1. StopKept(run[r], Prompted(run[r], Signal(r)))
    BY <1>0, <1>7 DEF Created, StopKept, StopRecorded, Prompted, Run, At
  <2>2. QED
    BY <1>7, <2>1, StopOneRow DEF Created
<1>8. ASSUME NEW r \in Agent, PromptRejects(r) PROVE StopsKept
  BY <1>0, <1>8, StopClosing, StopOneRow DEF PromptRejects
<1>9. ASSUME NEW r \in Agent, NEW y \in Run, StopRecorded(y), y.stage = "prompting",
             y.aborted = run[r].aborted, NEW calls \in BOOLEAN,
             run' = [run EXCEPT ![r] = TurnEnded(r, y, calls)]
      PROVE  StopsKept
  <2>1. y.aborted => Signal(r)
    BY <1>9 DEF Signal
  <2>2. StopKept(run[r], TurnEnded(r, y, calls))
    BY <1>9, <2>1, StopTurnEnded DEF StopKept
  <2>3. QED
    BY <1>9, <2>2, StopOneRow
<1>10. ASSUME NEW r \in Agent, Turn(r) PROVE StopsKept
  <2>1. PICK calls \in BOOLEAN, delivers \in Completion, goesOn \in BOOLEAN :
          run' = [run EXCEPT ![r] = TurnEnded(r, Turned(run[r], calls, delivers, goesOn), calls)]
    BY <1>10 DEF Turn
  <2> DEFINE y == Turned(run[r], calls, delivers, goesOn)
  <2>2. /\ y.stage = "prompting" /\ y.aborted = run[r].aborted
        /\ y.stopped = run[r].stopped /\ y.reason = run[r].reason
    BY <1>0, <1>10 DEF Turn, At, Turned, Run
  <2>3. y \in Run
    BY <1>0, TurnedInRun
  <2> HIDE DEF y
  <2>4. StopRecorded(y)
    BY <1>0, <1>10, <2>2 DEF StopRecorded, Turn, At
  <2>5. QED
    BY <1>9, <2>1, <2>2, <2>3, <2>4 DEF y
<1>11. ASSUME NEW r \in Agent, Halt(r) PROVE StopsKept
  <2>1. ASSUME NEW delivers \in Completion
        PROVE  /\ Halted(run[r], delivers) \in Run
               /\ StopRecorded(Halted(run[r], delivers))
               /\ Halted(run[r], delivers).stage = "prompting"
               /\ Halted(run[r], delivers).aborted = run[r].aborted
    <3> DEFINE y == Halted(run[r], delivers)
    <3>1. /\ y.stage = "prompting" /\ y.aborted = run[r].aborted
          /\ y.stopped = run[r].stopped /\ y.reason = run[r].reason
      BY <1>0, <1>11 DEF Halt, At, Halted, Run
    <3>2. y \in Run
      BY <1>0, HaltedInRun
    <3> HIDE DEF y
    <3>3. StopRecorded(y)
      BY <1>0, <1>11, <3>1 DEF StopRecorded, Halt, At
    <3>4. QED
      BY <3>1, <3>2, <3>3 DEF y
  <2>2. CASE run' = [run EXCEPT ![r] = Halted(run[r], "none")]
    BY <2>1, <2>2, StopOneRow DEF StopKept, Completion
  <2>3. ASSUME NEW delivers \in Completion,
               run' = [run EXCEPT ![r] = TurnEnded(r, Halted(run[r], delivers), TRUE)]
        PROVE  StopsKept
    BY <1>9, <2>1, <2>3
  <2>4. QED
    BY <1>11, <2>2, <2>3 DEF Halt
<1>12. ASSUME NEW r \in Agent, PromptReturns(r) PROVE StopsKept
  BY <1>0, <1>12, StopPromptResult, StopOneRow DEF PromptReturns, At
<1>13. ASSUME NEW r \in Agent, Close(r) PROVE StopsKept
  <2>1. run[r].stopped /\ run[r].completion # "blank"
          => StatusOf(run[r].outcome, run[r].reason) \in {"cancelled", "completed"}
    BY <1>0, <1>13 DEF Close, At, StopRecorded, StatusOf, Terminal
  <2>2. StopKept(run[r], Ended(run[r], run[r].outcome))
    BY <1>0, <2>1, StopEnded
  <2>3. QED
    BY <1>3, <1>13, <2>2, StopOneRow DEF Close, Settle
<1>14. ASSUME NEW r \in Agent, Stop(r) PROVE StopsKept
  BY <1>0, <1>14, StopCancelled, StopOneRow DEF Stop, Active, At
<1>15. ASSUME NEW r \in Agent, TimeOut(r) PROVE StopsKept
  <2>1. StopKept(run[r], TimedOut(run[r]))
    BY <1>0, <1>15 DEF StopKept, StopRecorded, TimedOut, Abort, Run, TimeOut, At
  <2>2. QED
    BY <1>15, <2>1, StopOneRow DEF TimeOut
<1>16. ASSUME NEW r \in Agent, Steer(r) PROVE StopsKept
  <2>1. run' = [run EXCEPT ![r] = [run[r] EXCEPT !.guided = TRUE]]
    BY <1>16 DEF Steer
  <2>2. StopKept(run[r], [run[r] EXCEPT !.guided = TRUE])
    BY <1>0, <1>16 DEF StopKept, StopRecorded, Run, Steer, At
  <2>3. QED
    BY <2>1, <2>2, StopOneRow
<1>17. ASSUME NEW c \in Chat, CloseChat(c) PROVE StopsKept
  <2>1. ASSUME NEW r \in Agent PROVE StopKept(run[r], run'[r])
    <3>1. \/ run'[r] = run[r]
          \/ /\ Active(r)
             /\ run'[r] = Cancelled(run[r]) \/ run'[r] = Ended(Cancelled(run[r]), "cancelled")
      BY <1>17 DEF CloseChat
    <3>2. QED
      BY <1>0, <3>1, StopUntouched, StopCancelled DEF Active, At
  <2>2. QED
    BY <2>1 DEF StopsKept
<1>18. CASE Shutdown
  <2>1. ASSUME NEW r \in Agent PROVE StopKept(run[r], ShutOut(run[r]))
    BY <1>0 DEF StopKept, StopRecorded, ShutOut, Run
  <2>2. QED
    BY <1>18, <2>1 DEF Shutdown, StopsKept
<1>19. ASSUME NEW r \in Agent, ParentAborts(r) PROVE StopsKept
  <2>1. StopKept(run[r], Unheard(run[r]))
    BY <1>0, <1>19 DEF StopKept, StopRecorded, Unheard, Cancelled, Abort, Run, ParentAborts, Active, At
  <2>2. QED
    BY <1>19, <2>1, StopOneRow DEF ParentAborts
<1>20. QED
  BY <1>1, <1>2, <1>5, <1>6, <1>7, <1>8, <1>10, <1>11, <1>12, <1>13, <1>14, <1>15, <1>16,
     <1>17, <1>18, <1>19 DEF Next, vars, moving, CloseEnds

\* A run whose last abort before it began to close was a stop is settled as
\* cancelled, or as completed, whatever fails on the way.
THEOREM StopIsHonoured == Spec => StopHonoured
<1>1. Init => StopsRecorded
  <2>1. Absent.stopped = FALSE
    BY DEF Absent, Launched
  <2>2. QED
    BY <2>1 DEF Init, StopsRecorded, StopRecorded
<1>2. Typed /\ StopsRecorded /\ [Next]_vars => StopsRecorded'
  BY StopsKeptStep DEF StopsKept, StopKept, StopsRecorded
<1>3. Typed /\ StopsRecorded /\ [Next]_vars
        => [\A r \in Agent :
              run[r].stopped /\ run[r].completion # "blank" /\ run'[r].stage = "settled"
              => run'[r].status \in {"cancelled", "completed"}]_vars
  BY StopsKeptStep DEF StopsKept, StopKept
<1>4. QED
  BY <1>1, <1>2, <1>3, TypedInit, TypedStep, PTL DEF Spec, StopHonoured

----------------------------------------------------------------------------
(***************************************************************************)
(* The result. It is there only while the child is prompted or closes; a   *)
(* first prompt that is rejected has had no turn to deliver in; and once   *)
(* the prompt has returned with it the outcome is chosen.                  *)
(***************************************************************************)
DeliveryNoted(x) ==
    /\ x.completion # "none" => x.stage \in {"prompting", "closing"}
    /\ x.completion # "none" /\ x.stage = "prompting" => x.turns # 0
    /\ x.completion = "result" /\ x.stage = "closing" => x.outcome = "completed"

DeliveriesNoted == \A r \in Agent : DeliveryNoted(run[r])

\* What a step may make of row x: y.
DeliveryHeld(x, y) ==
    /\ DeliveryNoted(y)
    /\ x.completion = "result" /\ y.stage = "settled" /\ faults' = faults
         => y.status = "completed"

DeliveriesHeld == \A r \in Agent : DeliveryHeld(run[r], run'[r])

LEMMA DeliveryUntouched == ASSUME NEW x, DeliveryNoted(x) PROVE DeliveryHeld(x, x)
  BY DEF DeliveryHeld, DeliveryNoted

LEMMA DeliveryOneRow ==
    ASSUME Typed, DeliveriesNoted, NEW r \in Agent, NEW y,
           run' = [run EXCEPT ![r] = y], DeliveryHeld(run[r], y)
    PROVE  DeliveriesHeld
  BY DeliveryUntouched DEF Typed, DeliveriesNoted, DeliveriesHeld

\* A row that settles keeps the promise if it settles as completed, with a
\* fault, or without a result.
LEMMA DeliveryEnded ==
    ASSUME NEW x, NEW outcome,
           x.completion = "result" /\ faults' = faults => outcome = "completed"
    PROVE  DeliveryHeld(x, Ended(x, outcome))
<1>1. /\ Ended(x, outcome).completion = "none"
      /\ Ended(x, outcome).status = StatusOf(outcome, x.reason)
  BY DEF Ended, Launched
<1>2. StatusOf("completed", x.reason) = "completed"
  BY DEF StatusOf, Terminal
<1>3. QED
  BY <1>1, <1>2 DEF DeliveryHeld, DeliveryNoted

LEMMA DeliveryClosing ==
    ASSUME NEW x, NEW outcome, x.completion = "result" => outcome = "completed"
    PROVE  DeliveryHeld(x, Closing(x, outcome))
  BY DEF DeliveryHeld, DeliveryNoted, Closing, Launched

LEMMA DeliveryCancelled ==
    ASSUME NEW x \in Run, DeliveryNoted(x), x.stage # "settled"
    PROVE  DeliveryHeld(x, Cancelled(x))
  BY DEF DeliveryHeld, DeliveryNoted, Cancelled, Abort, Run

LEMMA DeliveryTurnEnded ==
    ASSUME NEW r \in Agent, NEW x \in Run, x.stage = "prompting", NEW calls \in BOOLEAN, NEW w
    PROVE  DeliveryHeld(w, TurnEnded(r, x, calls))
<1> DEFINE y == TurnEnded(r, x, calls)
<1>1. y.stage = "prompting" /\ y.turns = x.turns + 1
  BY DEF TurnEnded, Abort, Run
<1>2. x.turns \in Nat
  BY DEF Run
<1> HIDE DEF y
<1>3. DeliveryHeld(w, y)
  BY <1>1, <1>2 DEF DeliveryHeld, DeliveryNoted
<1>4. QED
  BY <1>3 DEF y

LEMMA DeliveryPromptResult ==
    ASSUME NEW r \in Agent, DeliveryNoted(run[r]), run[r] \in Run,
           run[r].stage = "prompting", NEW text \in BOOLEAN
    PROVE  DeliveryHeld(run[r], PromptResult(r, run[r], text))
<1> DEFINE x == run[r]
<1>1. ASSUME NEW outcome, x.completion = "result" => outcome = "completed"
      PROVE  DeliveryHeld(x, Closing(x, outcome))
  BY <1>1, DeliveryClosing
<1>2. DeliveryHeld(x, Completed(x))
  BY DEF Completed, DeliveryHeld, DeliveryNoted, Closing, Launched
<1>3. x.completion # "result"
        => DeliveryHeld(x, [Closing(x, "failed") EXCEPT !.reason = "max-turns"])
  BY DEF DeliveryHeld, DeliveryNoted, Closing, Launched
<1>4. DeliveryHeld(x, [x EXCEPT !.prompts = 2, !.turning = TRUE])
  BY DEF DeliveryHeld, DeliveryNoted, Run
<1>5. QED
  BY <1>1, <1>2, <1>3, <1>4 DEF PromptResult

LEMMA FaultsCounted == faults \in Nat /\ Fault => faults' # faults
  BY DEF Fault

LEMMA DeliveriesHeldStep ==
    Typed /\ faults \in Nat /\ DeliveriesNoted /\ [Next]_vars => DeliveriesHeld
<1> SUFFICES ASSUME Typed, faults \in Nat, DeliveriesNoted, [Next]_vars PROVE DeliveriesHeld
  OBVIOUS
<1>0. \A r \in Agent : run[r] \in Run /\ DeliveryNoted(run[r])
  BY DEF Typed, DeliveriesNoted
<1>1. ASSUME UNCHANGED run PROVE DeliveriesHeld
  BY <1>0, <1>1, DeliveryUntouched DEF DeliveriesHeld
<1>2. ASSUME NEW r \in Agent, Spawn(r) \/ Resume(r) PROVE DeliveriesHeld
  <2>1. PICK a, b : run' = [run EXCEPT ![r] = Launched(a, b)]
    BY <1>2 DEF Spawn, Resume, Launch
  <2>2. DeliveryHeld(run[r], Launched(a, b))
    BY DEF DeliveryHeld, DeliveryNoted, Launched
  <2>3. QED
    BY <2>1, <2>2, DeliveryOneRow
<1>3. ASSUME NEW r \in Agent, NEW outcome, Settle(r, outcome),
             At(r, {"scheduled", "opening", "creating"}) \/ Fault
      PROVE  DeliveriesHeld
  <2>1. run[r].completion # "result" \/ faults' # faults
    BY <1>0, <1>3, FaultsCounted DEF At, DeliveryNoted
  <2>2. DeliveryHeld(run[r], Ended(run[r], outcome))
    BY <2>1, DeliveryEnded
  <2>3. QED
    BY <1>3, <2>2, DeliveryOneRow DEF Settle
<1>4. ASSUME NEW r \in Agent, NEW s \in {"opening", "creating"},
             run' = [run EXCEPT ![r].stage = s, ![r].status = "starting"],
             At(r, {"scheduled", "opening"})
      PROVE  DeliveriesHeld
  <2>1. run' = [run EXCEPT ![r] = [run[r] EXCEPT !.stage = s, !.status = "starting"]]
    BY <1>4 DEF Typed
  <2>2. DeliveryHeld(run[r], [run[r] EXCEPT !.stage = s, !.status = "starting"])
    BY <1>0, <1>4 DEF DeliveryHeld, DeliveryNoted, Run, At
  <2>3. QED
    BY <2>1, <2>2, DeliveryOneRow
<1>5. ASSUME NEW r \in Agent, Start(r) \/ Refuse(r) \/ Open(r) PROVE DeliveriesHeld
  BY <1>3, <1>4, <1>5 DEF Start, Refuse, Open, TakeLease, At
<1>6. ASSUME NEW r \in Agent, OpenFails(r) \/ CreateFails(r) PROVE DeliveriesHeld
  BY <1>3, <1>6 DEF OpenFails, CreateFails
<1>7. ASSUME NEW r \in Agent, Created(r) PROVE DeliveriesHeld
  <2>1. DeliveryHeld(run[r], Prompted(run[r], Signal(r)))
    BY <1>0, <1>7 DEF Created, DeliveryHeld, DeliveryNoted, Prompted, Run, At
  <2>2. QED
    BY <1>7, <2>1, DeliveryOneRow DEF Created
<1>8. ASSUME NEW r \in Agent, PromptRejects(r) PROVE DeliveriesHeld
  <2>1. run[r].completion = "none"
    BY <1>0, <1>8 DEF PromptRejects, At, DeliveryNoted
  <2>2. DeliveryHeld(run[r], Closing(run[r], "error"))
    BY <2>1, DeliveryClosing
  <2>3. QED
    BY <1>8, <2>2, DeliveryOneRow DEF PromptRejects
<1>9. ASSUME NEW r \in Agent, NEW y \in Run, y.stage = "prompting", NEW calls \in BOOLEAN,
             run' = [run EXCEPT ![r] = TurnEnded(r, y, calls)]
      PROVE  DeliveriesHeld
  <2>1. DeliveryHeld(run[r], TurnEnded(r, y, calls))
    BY <1>9, DeliveryTurnEnded
  <2>2. QED
    BY <1>9, <2>1, DeliveryOneRow
<1>10. ASSUME NEW r \in Agent, Turn(r) PROVE DeliveriesHeld
  <2>1. PICK calls \in BOOLEAN, delivers \in Completion, goesOn \in BOOLEAN :
          run' = [run EXCEPT ![r] = TurnEnded(r, Turned(run[r], calls, delivers, goesOn), calls)]
    BY <1>10 DEF Turn
  <2> DEFINE y == Turned(run[r], calls, delivers, goesOn)
  <2>2. y.stage = "prompting"
    BY <1>0, <1>10 DEF Turn, At, Turned, Run
  <2>3. y \in Run
    BY <1>0, TurnedInRun
  <2> HIDE DEF y
  <2>4. QED
    BY <1>9, <2>1, <2>2, <2>3 DEF y
<1>11. ASSUME NEW r \in Agent, Halt(r) PROVE DeliveriesHeld
  <2>1. ASSUME NEW delivers \in Completion
        PROVE  Halted(run[r], delivers) \in Run /\ Halted(run[r], delivers).stage = "prompting"
    BY <1>0, <1>11, HaltedInRun, ZenonT(60) DEF Halt, At, Halted, Run
  <2>2. CASE run' = [run EXCEPT ![r] = Halted(run[r], "none")]
    <3>1. DeliveryHeld(run[r], Halted(run[r], "none"))
      BY <1>0, <1>11, ZenonT(60) DEF Halt, At, Halted, Run, DeliveryHeld, DeliveryNoted
    <3>2. QED
      BY <2>2, <3>1, DeliveryOneRow
  <2>3. ASSUME NEW delivers \in Completion,
               run' = [run EXCEPT ![r] = TurnEnded(r, Halted(run[r], delivers), TRUE)]
        PROVE  DeliveriesHeld
    BY <1>9, <2>1, <2>3
  <2>4. QED
    BY <1>11, <2>2, <2>3 DEF Halt
<1>12. ASSUME NEW r \in Agent, PromptReturns(r) PROVE DeliveriesHeld
  BY <1>0, <1>12, DeliveryPromptResult, DeliveryOneRow DEF PromptReturns, At
<1>13. ASSUME NEW r \in Agent, Close(r) PROVE DeliveriesHeld
  <2>1. run[r].completion = "result" => run[r].outcome = "completed"
    BY <1>0, <1>13 DEF Close, At, DeliveryNoted
  <2>2. DeliveryHeld(run[r], Ended(run[r], run[r].outcome))
    BY <2>1, DeliveryEnded
  <2>3. QED
    BY <1>3, <1>13, <2>2, DeliveryOneRow DEF Close, Settle
<1>14. ASSUME NEW r \in Agent, Stop(r) PROVE DeliveriesHeld
  <2>1. CASE Pending(r)
    <3>1. Cancelled(run[r]).completion = run[r].completion
      BY <1>0 DEF Cancelled, Abort, Run
    <3>2. run[r].completion = "none"
      BY <1>0, <2>1 DEF Pending, At, DeliveryNoted
    <3>3. DeliveryHeld(run[r], Ended(Cancelled(run[r]), "cancelled"))
      BY <3>1, <3>2 DEF DeliveryHeld, DeliveryNoted, Ended, Launched
    <3>4. QED
      BY <1>14, <2>1, <3>3, DeliveryOneRow DEF Stop
  <2>2. CASE ~Pending(r)
    BY <1>0, <1>14, <2>2, DeliveryCancelled, DeliveryOneRow DEF Stop, Active, At
  <2>3. QED
    BY <2>1, <2>2
<1>15. ASSUME NEW r \in Agent, TimeOut(r) PROVE DeliveriesHeld
  <2>1. DeliveryHeld(run[r], TimedOut(run[r]))
    BY <1>0, <1>15 DEF DeliveryHeld, DeliveryNoted, TimedOut, Abort, Run, TimeOut, At
  <2>2. QED
    BY <1>15, <2>1, DeliveryOneRow DEF TimeOut
<1>16. ASSUME NEW r \in Agent, Steer(r) PROVE DeliveriesHeld
  <2>1. run' = [run EXCEPT ![r] = [run[r] EXCEPT !.guided = TRUE]]
    BY <1>16 DEF Steer
  <2>2. DeliveryHeld(run[r], [run[r] EXCEPT !.guided = TRUE])
    BY <1>0, <1>16 DEF DeliveryHeld, DeliveryNoted, Run, Steer, At
  <2>3. QED
    BY <2>1, <2>2, DeliveryOneRow
<1>17. ASSUME NEW c \in Chat, CloseChat(c) PROVE DeliveriesHeld
  <2>1. ASSUME NEW r \in Agent PROVE DeliveryHeld(run[r], run'[r])
    <3>1. faults' # faults
      BY <1>17, FaultsCounted DEF CloseChat
    <3>2. DeliveryNoted(Ended(Cancelled(run[r]), "cancelled"))
      BY DEF DeliveryNoted, Ended, Launched
    <3>3. \/ run'[r] = run[r]
          \/ /\ Active(r)
             /\ run'[r] = Cancelled(run[r]) \/ run'[r] = Ended(Cancelled(run[r]), "cancelled")
      BY <1>17 DEF CloseChat
    <3>4. QED
      BY <1>0, <3>1, <3>2, <3>3, DeliveryUntouched, DeliveryCancelled
         DEF Active, At, DeliveryHeld
  <2>2. QED
    BY <2>1 DEF DeliveriesHeld
<1>18. CASE Shutdown
  <2>1. ASSUME NEW r \in Agent PROVE DeliveryHeld(run[r], ShutOut(run[r]))
    <3>1. /\ ShutOut(run[r]).completion = run[r].completion
          /\ ShutOut(run[r]).stage = run[r].stage /\ ShutOut(run[r]).turns = run[r].turns
          /\ ShutOut(run[r]).outcome = run[r].outcome
      BY <1>0 DEF ShutOut, Run
    <3>2. QED
      BY <1>0, <3>1 DEF DeliveryHeld, DeliveryNoted
  <2>2. QED
    BY <1>18, <2>1 DEF Shutdown, DeliveriesHeld
<1>19. ASSUME NEW r \in Agent, ParentAborts(r) PROVE DeliveriesHeld
  <2>1. DeliveryHeld(run[r], Unheard(run[r]))
    BY <1>0, <1>19 DEF DeliveryHeld, DeliveryNoted, Unheard, Cancelled, Abort, Run,
                       ParentAborts, Active, At
  <2>2. QED
    BY <1>19, <2>1, DeliveryOneRow DEF ParentAborts
<1>20. QED
  BY <1>1, <1>2, <1>5, <1>6, <1>7, <1>8, <1>10, <1>11, <1>12, <1>13, <1>14, <1>15, <1>16,
     <1>17, <1>18, <1>19 DEF Next, vars, moving, CloseEnds

LEMMA FaultsStep == faults \in Nat /\ [Next]_vars => (faults \in Nat)'
<1> SUFFICES ASSUME faults \in Nat, [Next]_vars PROVE faults' \in Nat
  OBVIOUS
<1>1. ASSUME UNCHANGED faults \/ Fault PROVE faults' \in Nat
  BY <1>1 DEF Fault
<1>2. ASSUME NEW r \in Agent, Spawn(r) \/ Resume(r) PROVE faults' \in Nat
  BY <1>1, <1>2 DEF Spawn, Resume
<1>3. ASSUME NEW r \in Agent,
             Start(r) \/ Refuse(r) \/ Open(r) \/ OpenFails(r) \/ Created(r) \/ CreateFails(r)
      PROVE  faults' \in Nat
  BY <1>1, <1>3 DEF Start, Refuse, Open, OpenFails, Created, CreateFails
<1>4. ASSUME NEW r \in Agent, PromptRejects(r) \/ PromptReturns(r) \/ Close(r)
      PROVE  faults' \in Nat
  BY <1>1, <1>4 DEF PromptRejects, PromptReturns, Close
<1>5. ASSUME NEW r \in Agent, Turn(r) \/ Halt(r) PROVE faults' \in Nat
  BY <1>1, <1>5 DEF Turn, Halt
<1>6. ASSUME NEW r \in Agent, Stop(r) \/ ParentAborts(r) \/ TimeOut(r) \/ Steer(r)
      PROVE  faults' \in Nat
  BY <1>1, <1>6 DEF Stop, ParentAborts, TimeOut, Steer
<1>7. ASSUME NEW c \in Chat, CloseChat(c) \/ CloseEnds(c) PROVE faults' \in Nat
  BY <1>1, <1>7 DEF CloseChat, CloseEnds
<1>8. CASE Shutdown
  BY <1>1, <1>8 DEF Shutdown
<1>9. QED
  BY <1>1, <1>2, <1>3, <1>4, <1>5, <1>6, <1>7, <1>8 DEF Next, vars, moving

\* A child that has delivered its result is settled as completed, whatever
\* abort, timeout or spent budget came between, unless its disposal fails.
THEOREM DeliveredIsKept == Spec => DeliveredWins
<1>1. Init => DeliveriesNoted /\ faults \in Nat
  <2>1. Absent.completion = "none"
    BY DEF Absent, Launched
  <2>2. QED
    BY <2>1 DEF Init, DeliveriesNoted, DeliveryNoted
<1>2. Typed /\ faults \in Nat /\ DeliveriesNoted /\ [Next]_vars => DeliveriesNoted'
  BY DeliveriesHeldStep DEF DeliveriesHeld, DeliveryHeld, DeliveriesNoted
<1>3. Typed /\ faults \in Nat /\ DeliveriesNoted /\ [Next]_vars
        => [\A r \in Agent :
              run[r].completion = "result" /\ run'[r].stage = "settled" /\ faults' = faults
              => run'[r].status = "completed"]_vars
  BY DeliveriesHeldStep DEF DeliveriesHeld, DeliveryHeld
<1>4. QED
  BY <1>1, <1>2, <1>3, TypedInit, TypedStep, FaultsStep, PTL DEF Spec, DeliveredWins

----------------------------------------------------------------------------
(***************************************************************************)
(* The budget. A child at work that is aborted is told to halt, unless it  *)
(* was prompted after its abort; so its turns beyond the budget are the    *)
(* one that lands while it halts and those the parent's guidance asked     *)
(* for. d stands for the coordinator being down.                           *)
(***************************************************************************)
Paced(r, x, d) ==
    /\ x.stage # "prompting" =>
         /\ ~x.turning /\ x.turns = 0
         /\ x.completion = "none" \/ x.stage = "closing"
    /\ x.turning /\ (x.aborted \/ d) => x.halting \/ x.deaf
    /\ x.completion = "none" /\ ~x.deaf =>
         /\ ~x.turning => x.turns <= MaxTurns[r] + 1 + x.extra
         /\ x.turning /\ x.halting => x.turns <= MaxTurns[r] + x.extra
         /\ x.turning /\ ~x.halting => x.turns < MaxTurns[r] + x.extra

AllPaced == \A r \in Agent : Paced(r, run[r], down)

LEMMA PacedOneRow ==
    ASSUME Typed, AllPaced, NEW r \in Agent, NEW y, down' = down,
           run' = [run EXCEPT ![r] = y], Paced(r, y, down)
    PROVE  AllPaced'
  BY DEF Typed, AllPaced

\* A row with no prompt and no turns.
LEMMA PacedAtRest ==
    ASSUME NEW r \in Agent, NEW x \in Run, x.turning = FALSE, x.turns = 0,
           x.stage = "closing" \/ x.completion = "none", x.stage # "prompting", NEW d
    PROVE  Paced(r, x, d)
<1>1. 0 <= MaxTurns[r] + 1 + x.extra
  BY LimitAssumption DEF Run
<1>2. QED
  BY <1>1 DEF Paced

LEMMA PacedEnded ==
    ASSUME NEW r \in Agent, NEW x \in Run, NEW outcome \in Outcome, NEW d
    PROVE  Paced(r, Ended(x, outcome), d) /\ Paced(r, Closing(x, outcome), d)
<1>1. Ended(x, outcome) \in Run /\ Closing(x, outcome) \in Run
  BY EndedInRun, ClosingInRun
<1>2. /\ Ended(x, outcome).turning = FALSE /\ Ended(x, outcome).turns = 0
      /\ Ended(x, outcome).completion = "none" /\ Ended(x, outcome).stage = "settled"
  BY DEF Ended, Launched
<1>3. /\ Closing(x, outcome).turning = FALSE /\ Closing(x, outcome).turns = 0
      /\ Closing(x, outcome).stage = "closing"
  BY DEF Closing, Launched
<1>4. QED
  BY <1>1, <1>2, <1>3, PacedAtRest

LEMMA PacedAborted ==
    ASSUME NEW r \in Agent, NEW x \in Run, NEW d \in BOOLEAN, Paced(r, x, d)
    PROVE  Paced(r, Cancelled(x), d) /\ Paced(r, TimedOut(x), d)
<1>1. ASSUME NEW y \in Run, y.turning = x.turning, y.turns = x.turns, y.stage = x.stage,
             y.halting = (x.halting \/ x.turning), y.completion = x.completion,
             y.extra = x.extra, y.deaf = x.deaf
      PROVE  Paced(r, y, d)
  BY <1>1, LimitAssumption DEF Paced, Run
<1>2. /\ Cancelled(x).turning = x.turning /\ Cancelled(x).turns = x.turns
      /\ Cancelled(x).halting = (x.halting \/ x.turning)
      /\ Cancelled(x).completion = x.completion /\ Cancelled(x).extra = x.extra
      /\ Cancelled(x).deaf = x.deaf /\ Cancelled(x).stage = x.stage
  BY DEF Cancelled, Abort, Run
<1>3. /\ TimedOut(x).turning = x.turning /\ TimedOut(x).turns = x.turns
      /\ TimedOut(x).halting = (x.halting \/ x.turning)
      /\ TimedOut(x).completion = x.completion /\ TimedOut(x).extra = x.extra
      /\ TimedOut(x).deaf = x.deaf /\ TimedOut(x).stage = x.stage
  BY DEF TimedOut, Abort, Run
<1>4. QED
  BY <1>1, <1>2, <1>3, CancelledInRun, TimedOutInRun

LEMMA PacedUnheard ==
    ASSUME NEW r \in Agent, NEW x \in Run, NEW d \in BOOLEAN, Paced(r, x, d), x.aborted \/ d
    PROVE  Paced(r, Unheard(x), d)
<1>1. /\ Unheard(x).turning = x.turning /\ Unheard(x).turns = x.turns
      /\ Unheard(x).halting = x.halting
      /\ Unheard(x).completion = x.completion /\ Unheard(x).extra = x.extra
      /\ Unheard(x).deaf = x.deaf /\ Unheard(x).stage = x.stage
  BY DEF Unheard, Cancelled, Abort, Run
<1>2. QED
  BY <1>1 DEF Paced

LEMMA PacedShutOut ==
    ASSUME NEW r \in Agent, NEW x \in Run, NEW d \in BOOLEAN, Paced(r, x, d)
    PROVE  Paced(r, ShutOut(x), TRUE)
<1>1. /\ ShutOut(x).turning = x.turning /\ ShutOut(x).turns = x.turns
      /\ ShutOut(x).halting = (x.halting \/ (x.turning /\ ~x.aborted))
      /\ ShutOut(x).completion = x.completion /\ ShutOut(x).extra = x.extra
      /\ ShutOut(x).deaf = x.deaf /\ ShutOut(x).stage = x.stage
      /\ ShutOut(x).aborted = x.aborted
  BY DEF ShutOut, Run
<1>2. QED
  BY <1>1, LimitAssumption DEF Paced, Run

\* A turn: it was not halting, so that either nothing had aborted it or it
\* could not hear; the handler halts it when its budget is spent.
LEMMA PacedTurn ==
    ASSUME Typed, AllPaced, NEW r \in Agent, At(r, {"prompting"}),
           run[r].turning, ~run[r].halting,
           NEW calls \in BOOLEAN, NEW delivers \in Completion, NEW goesOn \in BOOLEAN,
           down \in BOOLEAN
    PROVE  Paced(r, TurnEnded(r, Turned(run[r], calls, delivers, goesOn), calls), down)
<1> DEFINE x == run[r]
           y == Turned(x, calls, delivers, goesOn)
           z == TurnEnded(r, y, calls)
<1> SUFFICES Paced(r, z, down)
  OBVIOUS
<1>1. x \in Run /\ y \in Run /\ z \in Run
  BY TurnedInRun, TurnEndedInRun DEF Typed
<1>2. /\ y.stage = "prompting" /\ y.turning = goesOn /\ ~y.halting
      /\ y.turns = x.turns /\ y.aborted = x.aborted /\ y.deaf = x.deaf
      /\ y.completion = "none" => x.completion = "none"
      /\ y.extra = IF goesOn /\ ~calls THEN x.extra + 1 ELSE x.extra
  BY <1>1 DEF Turned, Run, At
<1>3. /\ x.aborted \/ down => x.deaf
      /\ x.completion = "none" /\ ~x.deaf => x.turns < MaxTurns[r] + x.extra
  BY DEF AllPaced, Paced
<1>4. MaxTurns[r] \in Nat /\ x.turns \in Nat /\ x.extra \in Nat
  BY <1>1, LimitAssumption DEF Run
<1> HIDE DEF x, y
<1>5. CASE y.completion = "none" /\ calls /\ ~Signal(r) /\ y.turns + 1 >= MaxTurns[r]
  <2>1. /\ z.stage = "prompting" /\ z.turning = goesOn /\ z.halting = goesOn
        /\ z.turns = y.turns + 1 /\ z.deaf = y.deaf /\ z.extra = y.extra
        /\ z.completion = y.completion
    BY <1>1, <1>2, <1>5 DEF TurnEnded, Abort, Run
  <2> HIDE DEF z
  <2>2. QED
    BY <1>2, <1>3, <1>4, <1>5, <2>1 DEF Paced
<1>6. CASE ~(y.completion = "none" /\ calls /\ ~Signal(r) /\ y.turns + 1 >= MaxTurns[r])
  <2>1. /\ z.stage = "prompting" /\ z.turning = goesOn /\ ~z.halting
        /\ z.turns = y.turns + 1 /\ z.deaf = y.deaf /\ z.extra = y.extra
        /\ z.completion = y.completion /\ z.aborted = y.aborted
    BY <1>1, <1>2, <1>6 DEF TurnEnded, Run
  <2> HIDE DEF z
  <2>2. Signal(r) => x.deaf
    BY <1>3 DEF Signal, x
  <2>3. QED
    BY <1>2, <1>3, <1>4, <1>6, <2>1, <2>2 DEF Paced
<1>7. QED
  BY <1>5, <1>6

\* The turn that lands while the child halts.
LEMMA PacedHalt ==
    ASSUME Typed, AllPaced, NEW r \in Agent, At(r, {"prompting"}),
           run[r].turning, run[r].halting, NEW delivers \in Completion
    PROVE  /\ Paced(r, Halted(run[r], delivers), down)
           /\ Paced(r, TurnEnded(r, Halted(run[r], delivers), TRUE), down)
<1> DEFINE x == run[r]
           y == Halted(x, delivers)
           z == TurnEnded(r, y, TRUE)
<1>1. x \in Run /\ y \in Run /\ z \in Run
  BY HaltedInRun, TurnEndedInRun DEF Typed
<1>2. /\ y.stage = "prompting" /\ ~y.turning /\ ~y.halting
      /\ y.turns = x.turns /\ y.deaf = x.deaf /\ y.extra = x.extra
      /\ y.completion = "none" => x.completion = "none"
  BY <1>1 DEF Halted, Run, At
<1>3. Paced(r, x, down)
  BY DEF AllPaced
<1> HIDE DEF x, y
<1>4. /\ z.stage = "prompting" /\ ~z.turning /\ z.turns = y.turns + 1
      /\ z.deaf = y.deaf /\ z.extra = y.extra /\ z.completion = y.completion
  BY <1>1, <1>2 DEF TurnEnded, Abort, Run
<1> HIDE DEF z
<1>5. Paced(r, y, down) /\ Paced(r, z, down)
  BY <1>1, <1>2, <1>3, <1>4, LimitAssumption DEF Paced, Run, x
<1>6. QED
  BY <1>5 DEF x, y, z

\* The second prompt is given to a child that has turns left.
LEMMA PacedPromptResult ==
    ASSUME NEW r \in Agent, run[r] \in Run, At(r, {"prompting"}), NEW text \in BOOLEAN,
           Paced(r, run[r], down)
    PROVE  Paced(r, PromptResult(r, run[r], text), down)
<1> DEFINE x == run[r]
<1>1. ASSUME NEW outcome \in {"failed", "completed", AbortOutcome(x)}
      PROVE  Paced(r, Closing(x, outcome), down) /\ Closing(x, outcome) \in Run
             /\ Closing(x, outcome).turning = FALSE /\ Closing(x, outcome).turns = 0
             /\ Closing(x, outcome).stage = "closing"
  <2>1. outcome \in Outcome
    BY DEF AbortOutcome, Outcome, Terminal
  <2>2. QED
    BY <2>1, PacedEnded, ClosingInRun DEF Closing, Launched
<1>2. Paced(r, Completed(x), down)
  <2>1. /\ Completed(x) \in Run
        /\ Completed(x).turning = FALSE /\ Completed(x).turns = 0
        /\ Completed(x).stage = "closing"
    BY <1>1, ZenonT(60) DEF Completed, Run, Status, Terminal
  <2>2. QED
    BY <2>1, PacedAtRest
<1>3. Paced(r, [Closing(x, "failed") EXCEPT !.reason = "max-turns"], down)
  <2> DEFINE y == [Closing(x, "failed") EXCEPT !.reason = "max-turns"]
  <2>1. y \in Run /\ y.turning = FALSE /\ y.turns = 0 /\ y.stage = "closing"
    BY <1>1, ZenonT(60) DEF Run, Reason
  <2>2. QED
    BY <2>1, PacedAtRest
<1>4. ~Signal(r) /\ ~(x.turns >= MaxTurns[r])
        => Paced(r, [x EXCEPT !.prompts = 2, !.turning = TRUE], down)
  <2> DEFINE y == [x EXCEPT !.prompts = 2, !.turning = TRUE]
  <2>1. /\ y.turning /\ y.turns = x.turns /\ y.stage = "prompting" /\ y.extra = x.extra
        /\ y.aborted = x.aborted
    BY DEF Run, At
  <2> HIDE DEF y
  <2>2. ~Signal(r) /\ ~(x.turns >= MaxTurns[r]) => Paced(r, y, down)
    BY <2>1, LimitAssumption DEF Paced, Signal, Run
  <2>3. QED
    BY <2>2 DEF y
<1>5. QED
  BY <1>1, <1>2, <1>3, <1>4 DEF PromptResult

LEMMA AllPacedStep == Typed /\ down \in BOOLEAN /\ AllPaced /\ [Next]_vars => AllPaced'
<1> SUFFICES ASSUME Typed, down \in BOOLEAN, AllPaced, [Next]_vars PROVE AllPaced'
  OBVIOUS
<1>0. \A r \in Agent : run[r] \in Run /\ Paced(r, run[r], down)
  BY DEF Typed, AllPaced
<1>1. ASSUME UNCHANGED <<run, down>> PROVE AllPaced'
  BY <1>1 DEF AllPaced
<1>2. ASSUME NEW r \in Agent, NEW outcome \in Outcome, Settle(r, outcome), down' = down
      PROVE  AllPaced'
  BY <1>0, <1>2, PacedEnded, PacedOneRow DEF Settle
<1>3. ASSUME NEW r \in Agent, Spawn(r) \/ Resume(r) PROVE AllPaced'
  <2>1. PICK a \in BOOLEAN, b \in BOOLEAN : run' = [run EXCEPT ![r] = Launched(a, b)]
    BY <1>3 DEF Spawn, Resume, Launch
  <2>2. /\ Launched(a, b).turning = FALSE /\ Launched(a, b).turns = 0
        /\ Launched(a, b).completion = "none" /\ Launched(a, b).stage = "scheduled"
    BY DEF Launched
  <2>3. Paced(r, Launched(a, b), down)
    BY <2>2, LaunchedInRun, PacedAtRest
  <2>4. QED
    BY <1>3, <2>1, <2>3, PacedOneRow DEF Spawn, Resume, Launch
<1>4. ASSUME NEW r \in Agent, NEW s \in {"opening", "creating"}, down' = down,
             run' = [run EXCEPT ![r].stage = s, ![r].status = "starting"],
             At(r, {"scheduled", "opening"})
      PROVE  AllPaced'
  <2> DEFINE y == [run[r] EXCEPT !.stage = s, !.status = "starting"]
  <2>1. run' = [run EXCEPT ![r] = y]
    BY <1>4 DEF Typed
  <2>2. y \in Run
    <3>1. s \in Stage /\ "starting" \in Status
      BY DEF Stage, Status
    <3>2. QED
      BY <1>0, <3>1, ZenonT(60) DEF Run
  <2>3. y.turning = FALSE /\ y.turns = 0 /\ y.completion = "none" /\ y.stage = s
    BY <1>0, <1>4 DEF Paced, Run, At
  <2> HIDE DEF y
  <2>4. Paced(r, y, down)
    BY <2>2, <2>3, PacedAtRest
  <2>5. QED
    BY <1>4, <2>1, <2>4, PacedOneRow
<1>5. ASSUME NEW r \in Agent, Start(r) \/ Refuse(r) \/ Open(r) PROVE AllPaced'
  BY <1>2, <1>4, <1>5 DEF Start, Refuse, Open, TakeLease, At, Outcome, Terminal
<1>6. ASSUME NEW r \in Agent, OpenFails(r) \/ CreateFails(r) \/ Close(r) PROVE AllPaced'
  <2>1. run[r].outcome \in Outcome /\ "error" \in Outcome
    BY <1>0 DEF Run, Outcome
  <2>2. QED
    BY <1>2, <1>6, <2>1 DEF OpenFails, CreateFails, Close
<1>7. ASSUME NEW r \in Agent, Created(r) PROVE AllPaced'
  <2> DEFINE y == Prompted(run[r], Signal(r))
  <2>1. /\ y.stage = "prompting" /\ y.turning /\ y.turns = 0 /\ y.deaf = Signal(r)
        /\ y.extra = run[r].extra /\ y.aborted = run[r].aborted
    BY <1>0, <1>7 DEF Prompted, Run, Paced, Created, At
  <2> HIDE DEF y
  <2>2. Paced(r, y, down)
    BY <1>0, <2>1, LimitAssumption DEF Paced, Signal, Run
  <2>3. QED
    BY <1>7, <2>2, PacedOneRow DEF Created, y
<1>8. ASSUME NEW r \in Agent, PromptRejects(r) PROVE AllPaced'
  BY <1>0, <1>8, PacedEnded, PacedOneRow DEF PromptRejects, Outcome
<1>9. ASSUME NEW r \in Agent, Turn(r) PROVE AllPaced'
  BY <1>9, PacedTurn, PacedOneRow DEF Turn
<1>10. ASSUME NEW r \in Agent, Halt(r) PROVE AllPaced'
  BY <1>10, PacedHalt, PacedOneRow DEF Halt, Completion
<1>11. ASSUME NEW r \in Agent, PromptReturns(r) PROVE AllPaced'
  BY <1>0, <1>11, PacedPromptResult, PacedOneRow DEF PromptReturns
<1>12. ASSUME NEW r \in Agent, Stop(r) PROVE AllPaced'
  <2>1. Paced(r, Cancelled(run[r]), down) /\ Cancelled(run[r]) \in Run /\ "cancelled" \in Outcome
    BY <1>0, PacedAborted, CancelledInRun DEF Outcome, Terminal
  <2>2. Paced(r, Ended(Cancelled(run[r]), "cancelled"), down)
    BY <2>1, PacedEnded
  <2>3. QED
    BY <1>12, <2>1, <2>2, PacedOneRow DEF Stop
<1>13. ASSUME NEW r \in Agent, TimeOut(r) PROVE AllPaced'
  BY <1>0, <1>13, PacedAborted, PacedOneRow DEF TimeOut
<1>14. ASSUME NEW r \in Agent, Steer(r) PROVE AllPaced'
  <2> DEFINE y == [run[r] EXCEPT !.guided = TRUE]
  <2>1. run' = [run EXCEPT ![r] = y]
    BY <1>14 DEF Steer
  <2>2. Paced(r, y, down)
    BY <1>0 DEF Paced, Run
  <2>3. QED
    BY <1>14, <2>1, <2>2, PacedOneRow DEF Steer
<1>15. ASSUME NEW c \in Chat, CloseChat(c) PROVE AllPaced'
  <2>1. ASSUME NEW r \in Agent PROVE Paced(r, run'[r], down)
    <3>1. \/ run'[r] = run[r]
          \/ run'[r] = Cancelled(run[r])
          \/ run'[r] = Ended(Cancelled(run[r]), "cancelled")
      BY <1>15 DEF CloseChat
    <3>2. Cancelled(run[r]) \in Run /\ "cancelled" \in Outcome
      BY <1>0, CancelledInRun DEF Outcome, Terminal
    <3>3. QED
      BY <1>0, <3>1, <3>2, PacedAborted, PacedEnded
  <2>2. QED
    BY <1>15, <2>1 DEF CloseChat, AllPaced
<1>16. CASE Shutdown
  <2>1. \A r \in Agent : Paced(r, ShutOut(run[r]), TRUE)
    BY <1>0, PacedShutOut
  <2>2. QED
    BY <1>16, <2>1 DEF Shutdown, AllPaced
<1>17. ASSUME NEW r \in Agent, ParentAborts(r) PROVE AllPaced'
  <2>1. Paced(r, Unheard(run[r]), down)
    BY <1>0, <1>17, PacedUnheard DEF ParentAborts, Signal
  <2>2. QED
    BY <1>17, <2>1, PacedOneRow DEF ParentAborts
<1>18. QED
  BY <1>1, <1>3, <1>5, <1>6, <1>7, <1>8, <1>9, <1>10, <1>11, <1>12, <1>13, <1>14, <1>15,
     <1>16, <1>17 DEF Next, vars, moving, CloseEnds

LEMMA DownStep == down \in BOOLEAN /\ [Next]_vars => (down \in BOOLEAN)'
  BY ZenonT(60) DEF Next, vars, moving, Spawn, Resume, Launch, Start, Refuse, Open, OpenFails, Created,
         CreateFails, PromptRejects, Turn, Halt, PromptReturns, Close, Stop, ParentAborts, TimeOut,
         Steer, CloseChat, CloseEnds, Shutdown

LEMMA ManagersStep ==
    ASSUME manager \in [Chat -> {"open", "closing", "closed"}], limits \in Limits, [Next]_vars
    PROVE  manager' \in [Chat -> {"open", "closing", "closed"}] /\ limits' \in Limits
<1>1. CASE \E c \in Chat : CloseChat(c) \/ CloseEnds(c)
  BY <1>1 DEF CloseChat, CloseEnds, Next, vars, moving
<1>2. CASE ~\E c \in Chat : CloseChat(c) \/ CloseEnds(c)
  <2>1. manager' = manager
    BY <1>2 DEF Next, vars, moving, Spawn, Resume, Launch, Start, Refuse, Open, OpenFails,
           Created, CreateFails, PromptRejects, Turn, Halt, PromptReturns, Close, Stop,
           ParentAborts, TimeOut, Steer, Shutdown
  <2>2. QED
    BY <2>1 DEF Next, vars, moving
<1>3. QED
  BY <1>1, <1>2

\* Every variable of Subagents but the gate keeps its type.
THEOREM TypeCorrect == Spec => []TypeOK
<1> DEFINE Managed == manager \in [Chat -> {"open", "closing", "closed"}] /\ limits \in Limits
<1>1. Init => Managed /\ LeaseHeld /\ down \in BOOLEAN /\ faults \in Nat
  <2>1. Init => LeaseHeld
    BY AgentAssumption DEF Init, LeaseHeld, WritersExclude, At, Absent, Launched, HasChild
  <2>2. Init => manager \in [Chat -> {"open", "closing", "closed"}] /\ limits \in Limits
    BY DEF Init
  <2>3. Init => down \in BOOLEAN
    BY Zenon DEF Init
  <2>4. Init => faults \in Nat
    BY DEF Init
  <2>5. QED
    BY <2>1, <2>2, <2>3, <2>4
<1>2. Managed /\ [Next]_vars => Managed'
  BY ManagersStep
<1>3. Typed /\ Managed /\ LeaseHeld /\ down \in BOOLEAN /\ faults \in Nat => TypeOK
  BY DEF Typed, LeaseHeld, TypeOK
<1> HIDE DEF Managed
<1>4. QED
  BY <1>1, <1>2, <1>3, TypedInit, TypedStep, LeaseHeldStep, DownStep, FaultsStep, PTL DEF Spec

\* A child takes no turns beyond its budget but the one that lands after the
\* abort and those the parent asked for, except when it is prompted after its
\* abort or goes on after delivering.
THEOREM BudgetIsRespected == Spec => []BudgetRespected
<1>1. Init => AllPaced /\ down \in BOOLEAN
  <2>1. /\ Absent.turning = FALSE /\ Absent.turns = 0
        /\ Absent.completion = "none" /\ Absent.stage = "absent"
    BY DEF Absent, Launched
  <2>2. \A r \in Agent : Paced(r, Absent, FALSE)
    BY <2>1, AbsentInRun, PacedAtRest
  <2>3. QED
    BY <2>2 DEF Init, AllPaced
<1>2. Typed /\ AllPaced => BudgetRespected
  <2> SUFFICES ASSUME Typed, AllPaced, NEW r \in Agent, ~run[r].deaf, run[r].completion = "none"
               PROVE  run[r].turns <= MaxTurns[r] + 1 + run[r].extra
    BY DEF BudgetRespected
  <2>1. run[r] \in Run /\ Paced(r, run[r], down)
    BY DEF Typed, AllPaced
  <2>2. QED
    BY <2>1, LimitAssumption DEF Paced, Run
<1>3. QED
  BY <1>1, <1>2, TypedInit, TypedStep, DownStep, AllPacedStep, PTL DEF Spec
----------------------------------------------------------------------------
(***************************************************************************)
(* The worktree of an agent: types.                                        *)
(***************************************************************************)
CallRow == [stage: {"free", "reading", "diffing", "writing", "applying", "tidying",
                    "removing", "removed"} \cup Kind,
            diff: SUBSET File, begun: SUBSET File, quiet: BOOLEAN]
TreesTyped == TreeTypeOK /\ (child # "idle" => row # None)

LEMMA TreesTypedInit == TreeInit => TreesTyped
<1> SUFFICES ASSUME TreeInit PROVE TreesTyped
  OBVIOUS
<1>1. Free \in CallRow
  BY DEF Free, CallRow
<1>2. call \in [Call -> CallRow]
  BY <1>1 DEF TreeInit
<1>3. queue \in Seq(Row) /\ launches \in Nat /\ mishaps \in Nat
  BY SMT DEF TreeInit
<1>4. dir \in (SUBSET File) \cup {None} /\ patchFile \in (SUBSET File) \cup {None}
  BY DEF TreeInit
<1>5. noted \subseteq File /\ applied \subseteq File /\ work \subseteq File
  BY DEF TreeInit
<1>6. row \in Row \cup {None} /\ disk \in Row \cup {None} /\ last \in Row \cup {None}
  BY DEF TreeInit
<1>7. /\ registered \in BOOLEAN /\ dated \in BOOLEAN /\ missed \in BOOLEAN /\ crossed \in BOOLEAN
      /\ child \in ChildStage /\ child = "idle"
  BY DEF TreeInit, ChildStage
<1>8. QED
  BY <1>2, <1>3, <1>4, <1>5, <1>6, <1>7, Zenon DEF TreesTyped, TreeTypeOK, CallRow

LEMMA Persisted ==
    ASSUME TreesTyped, NEW r \in Row, Persist(r)
    PROVE  /\ row' \in Row /\ last' \in Row /\ disk' \in Row \cup {None} /\ queue' \in Seq(Row)
           /\ row' # None
<1>1. None \notin Row
  BY WorktreesAssumption DEF Row
<1>2. QED
  BY <1>1 DEF Persist, TreesTyped, TreeTypeOK

LEMMA CallChanges ==
    ASSUME call \in [Call -> CallRow], NEW c \in Call,
           \/ \E s \in {"reading", "diffing", "writing", "applying", "tidying", "removing", "removed"} :
                 call' = [call EXCEPT ![c].stage = s]
           \/ Done(c)
    PROVE  call' \in [Call -> CallRow]
<1>1. Free \in CallRow
  BY DEF Free, CallRow
<1>2. QED
  BY <1>1 DEF Done, CallRow

LEMMA TreesTypedNext == TreesTyped /\ [TreeNext]_treeVars => TreesTyped'
<1> SUFFICES ASSUME TreesTyped, [TreeNext]_treeVars PROVE TreesTyped'
  OBVIOUS
<1> USE DEF tree, record, told
<1>1. /\ TreeTypeOK /\ (child # "idle" => row \in Row)
      /\ call \in [Call -> CallRow] /\ Free \in CallRow
      /\ None \notin Row
  BY WorktreesAssumption DEF TreesTyped, TreeTypeOK, CallRow, Free, Row
<1>2. CASE UNCHANGED treeVars
  BY <1>1, <1>2 DEF treeVars, TreesTyped, TreeTypeOK
<1>3. Mishap => mishaps' \in Nat
  BY <1>1 DEF Mishap, TreeTypeOK
\* Steps that write a record, or none, and change of the rest what they say.
<1>4. ASSUME NEW r \in Row, Persist(r), child' \in ChildStage,
             dir' \in (SUBSET File) \cup {None}, registered' \in BOOLEAN, noted' \subseteq File,
             patchFile' = patchFile, applied' = applied, call' \in [Call -> CallRow],
             work' \subseteq File, dated' = dated, missed' \in BOOLEAN, crossed' \in BOOLEAN,
             launches' \in Nat, mishaps' \in Nat
      PROVE  TreesTyped'
  BY <1>1, <1>4, Persisted DEF TreesTyped, TreeTypeOK, CallRow
<1>5. ASSUME row' = row, disk' = disk, queue' = queue, last' = last, dated' = dated,
             child' \in ChildStage, child' # "idle" => child # "idle",
             dir' \in (SUBSET File) \cup {None}, registered' \in BOOLEAN, noted' \subseteq File,
             patchFile' \in (SUBSET File) \cup {None}, applied' \subseteq File,
             call' \in [Call -> CallRow], work' \subseteq File, missed' \in BOOLEAN,
             crossed' = crossed, launches' = launches, mishaps' \in Nat
      PROVE  TreesTyped'
  BY <1>1, <1>5 DEF TreesTyped, TreeTypeOK, CallRow
<1>6. /\ dir \in (SUBSET File) \cup {None} /\ registered \in BOOLEAN /\ noted \subseteq File
      /\ patchFile \in (SUBSET File) \cup {None} /\ applied \subseteq File /\ work \subseteq File
      /\ missed \in BOOLEAN /\ crossed \in BOOLEAN /\ launches \in Nat /\ mishaps \in Nat
      /\ child \in ChildStage /\ dated \in BOOLEAN
      /\ row \in Row \cup {None} /\ disk \in Row \cup {None} /\ last \in Row \cup {None}
      /\ queue \in Seq(Row)
  BY <1>1 DEF TreeTypeOK
<1>7. ASSUME Started PROVE /\ child' \in ChildStage /\ crossed' \in BOOLEAN
                           /\ call' \in [Call -> CallRow] /\ launches' \in Nat
  <2>1. launches' \in Nat
    BY <1>6, <1>7 DEF Started
  <2>2. \A c \in Call : [call[c] EXCEPT !.quiet = call[c] = Free] \in CallRow
    BY <1>1 DEF CallRow
  <2>3. QED
    BY <1>6, <1>7, <2>1, <2>2 DEF Started, ChildStage
<1>8. CASE WriteRecord
  <2>1. queue' \in Seq(Row) /\ Head(queue) \in Row
    BY <1>6, <1>8 DEF WriteRecord
  <2>2. QED
    BY <1>1, <1>3, <1>8, <2>1 DEF WriteRecord, TreesTyped, TreeTypeOK, CallRow
<1>9. CASE Evict
  BY <1>1, <1>6, <1>9 DEF Evict, TreesTyped, TreeTypeOK
<1>10. CASE ReadBack
  BY <1>1, <1>6, <1>10 DEF ReadBack, TreesTyped, TreeTypeOK
<1>11. CASE Crash
  <2>1. call' \in [Call -> CallRow] /\ mishaps' \in Nat /\ queue' = <<>>
    BY <1>1, <1>3, <1>11 DEF Crash
  <2>2. QED
    BY <1>1, <1>6, <1>11, <2>1 DEF Crash, TreesTyped, TreeTypeOK, CallRow, ChildStage
<1>12. CASE SpawnChild
  <2>1. [path |-> FALSE, ran |-> FALSE] \in Row
    BY DEF Row
  <2>2. QED
    BY <1>4, <1>6, <1>7, <1>12, <2>1 DEF SpawnChild
<1>13. CASE ResumeChild
  BY <1>4, <1>6, <1>7, <1>13 DEF ResumeChild
<1>14. CASE Prepare \/ Attach
  BY <1>1, <1>5, <1>6, <1>14 DEF Prepare, Attach, Go, ChildStage
<1>15. CASE Wipe \/ Add
  BY <1>1, <1>5, <1>6, <1>15 DEF Wipe, Add, Go, ChildStage
<1>16. CASE Stopped \/ AttachRefused \/ Ends \/ SessionFails
  <2>1. Over /\ child # "idle" /\ mishaps' \in Nat
        /\ UNCHANGED <<dir, registered, noted>>
    BY <1>3, <1>6, <1>16 DEF Stopped, AttachRefused, Ends, SessionFails, Over
  <2>2. QED
    BY <1>1, <1>4, <1>6, <2>1 DEF Over, ChildStage
<1>17. CASE SessionMade
  <2>1. [path |-> TRUE, ran |-> TRUE] \in Row
    BY DEF Row
  <2>2. QED
    BY <1>1, <1>4, <1>6, <1>17, <2>1 DEF SessionMade, ChildStage
<1>18. ASSUME NEW f \in File, Edit(f) PROVE TreesTyped'
  <2>1. dir' \in SUBSET File /\ work' \subseteq File
    BY <1>6, <1>18 DEF Edit
  <2>2. QED
    BY <1>1, <1>5, <1>6, <1>18, <2>1 DEF Edit
<1>19. ASSUME NEW c \in Call PROVE
         /\ call[c] \in CallRow /\ Edits \subseteq File
         /\ \A s \in {"reading", "diffing", "writing", "applying", "tidying", "removing", "removed"} :
              CallAt(c, s) => call' \in [Call -> CallRow]
         /\ Done(c) => call' \in [Call -> CallRow]
  BY <1>1, <1>6, CallChanges DEF CallAt, Edits
<1>20. ASSUME NEW c \in Call, NEW kind \in Kind, Ask(c, kind) PROVE TreesTyped'
  <2>1. [stage |-> kind, diff |-> {}, quiet |-> TRUE, begun |-> Edits] \in CallRow
    BY <1>19 DEF CallRow
  <2>2. call' \in [Call -> CallRow]
    BY <1>1, <1>20, <2>1 DEF Ask
  <2>3. QED
    BY <1>5, <1>6, <1>20, <2>2 DEF Ask
<1>21. ASSUME NEW c \in Call, Note(c) PROVE TreesTyped'
  <2>1. call' \in [Call -> CallRow] /\ noted' \subseteq File
    BY <1>6, <1>19, <1>21 DEF Note, Attachable, Noted
  <2>2. QED
    BY <1>5, <1>6, <1>21, <2>1 DEF Note
<1>22. ASSUME NEW c \in Call, Diff(c) PROVE TreesTyped'
  <2>1. CASE Done(c)
    BY <1>5, <1>6, <1>19, <1>22, <2>1 DEF Diff
  <2>2. CASE dir # None /\ call' = [call EXCEPT ![c].stage = "writing", ![c].diff = Differing]
    <3>1. Differing \subseteq File
      BY <1>6, <2>2 DEF Differing
    <3>2. call' \in [Call -> CallRow]
      BY <1>1, <2>2, <3>1, ZenonT(60) DEF CallRow
    <3>3. QED
      BY <1>5, <1>6, <1>22, <3>2 DEF Diff
  <2>3. QED
    BY <1>22, <2>1, <2>2 DEF Diff, Attachable
<1>23. ASSUME NEW c \in Call, WritePatch(c) \/ Tidy(c) PROVE TreesTyped'
  <2>1. call[c].diff \in SUBSET File
    BY <1>19 DEF CallRow
  <2>2. patchFile' \in (SUBSET File) \cup {None} /\ call' \in [Call -> CallRow]
    BY <1>19, <1>23, <2>1 DEF WritePatch, Tidy
  <2>3. QED
    BY <1>5, <1>6, <1>23, <2>2 DEF WritePatch, Tidy
<1>24. ASSUME NEW c \in Call, ApplyPatch(c) PROVE TreesTyped'
  <2>1. applied' \subseteq File
    BY <1>6, <1>24 DEF ApplyPatch, Applicable
  <2>2. QED
    BY <1>5, <1>6, <1>19, <1>24, <2>1 DEF ApplyPatch
<1>25. ASSUME NEW c \in Call, AskRemoval(c) PROVE TreesTyped'
  BY <1>5, <1>6, <1>19, <1>25 DEF AskRemoval
<1>26. ASSUME NEW c \in Call, RemoveTree(c) PROVE TreesTyped'
  <2>1. call' \in [Call -> CallRow] /\ dir' \in (SUBSET File) \cup {None} /\ work' \subseteq File
        /\ registered' \in BOOLEAN /\ noted' \subseteq File
    BY <1>6, <1>19, <1>26 DEF RemoveTree, Uprooted
  <2>2. QED
    BY <1>5, <1>6, <1>26, <2>1 DEF RemoveTree
<1>27. ASSUME NEW c \in Call, RemoveFails(c) PROVE TreesTyped'
  <2>1. registered' \in BOOLEAN /\ missed' \in BOOLEAN
    BY <1>6, <1>27 DEF RemoveFails
  <2>2. QED
    BY <1>3, <1>5, <1>6, <1>19, <1>27, <2>1 DEF RemoveFails
<1>28. ASSUME NEW c \in Call, Clear(c) PROVE TreesTyped'
  <2>1. dir' \in (SUBSET File) \cup {None} /\ work' \subseteq File /\ call' \in [Call -> CallRow]
    BY <1>6, <1>19, <1>28 DEF Clear, Uprooted
  <2>2. CASE row # None /\ Persist(Cleared) /\ missed' = missed
    <3>1. Cleared \in Row
      BY <1>6, <2>2 DEF Cleared, Row
    <3>2. QED
      BY <1>4, <1>6, <1>28, <2>1, <2>2, <3>1 DEF Clear
  <2>3. CASE missed' = TRUE /\ UNCHANGED record
    BY <1>5, <1>6, <1>28, <2>1, <2>3 DEF Clear
  <2>4. QED
    BY <1>28, <2>2, <2>3 DEF Clear
<1>29. CASE TreeNext
  BY <1>8, <1>9, <1>10, <1>11, <1>12, <1>13, <1>14, <1>15, <1>16, <1>17, <1>18, <1>20,
     <1>21, <1>22, <1>23, <1>24, <1>25, <1>26, <1>27, <1>28, <1>29 DEF TreeNext
<1>30. QED
  BY <1>2, <1>29

\* The directory, the records and the calls keep their shapes, whatever is resumed,
\* reviewed, applied, removed or lost.
THEOREM TreeTypeCorrect == TreeSpec => []TreeTypeOK
<1>1. TreeSpec => []TreesTyped
  BY TreesTypedInit, TreesTypedNext, PTL DEF TreeSpec
<1>2. TreesTyped => TreeTypeOK
  BY DEF TreesTyped
<1>3. QED
  BY <1>1, <1>2, PTL

----------------------------------------------------------------------------
(***************************************************************************)
(* What a row in memory knows of the worktree, as long as it was not made  *)
(* of an older record: it is the row last persisted, the edits in the      *)
(* directory are those the child made since the last removal, and a        *)
(* directory with edits is named. A first run finds nothing to wipe.       *)
(***************************************************************************)
Known ==
    /\ child # "idle" => row # None
    /\ row # None => row = last
    /\ Edits = work
    /\ work # {} => last # None /\ last.path
    /\ child \in {"wiping", "adding"} => work = {}
    /\ child = "working" /\ dir # None => row.path

KnownUnlessDated == ~dated => Known

LEMMA KnownInit == TreeInit => KnownUnlessDated
  BY DEF TreeInit, KnownUnlessDated, Known, Edits

LEMMA KnownNext == TreesTyped /\ KnownUnlessDated /\ [TreeNext]_treeVars => KnownUnlessDated'
<1> SUFFICES ASSUME TreesTyped, KnownUnlessDated, [TreeNext]_treeVars, ~dated'
             PROVE  Known'
  BY DEF KnownUnlessDated
<1> USE DEF tree, record, told
<1>1. /\ None \notin Row /\ dir \in (SUBSET File) \cup {None} /\ dated \in BOOLEAN
      /\ \A S \in SUBSET File : S # None
      /\ row \in Row \cup {None} /\ last \in Row \cup {None} /\ disk \in Row \cup {None}
      /\ (child # "idle" => row # None) /\ work \subseteq File
  BY WorktreesAssumption DEF TreesTyped, TreeTypeOK, Row
<1>2. ASSUME ~dated PROVE Known
  BY <1>2 DEF KnownUnlessDated
<1>3. CASE UNCHANGED <<dir, row, last, child, work, dated>>
  BY <1>2, <1>3 DEF Known, Edits
<1>4. CASE UNCHANGED treeVars
  BY <1>3, <1>4 DEF treeVars
<1>5. CASE WriteRecord
  BY <1>3, <1>5 DEF WriteRecord
<1>6. CASE Evict
  BY <1>2, <1>6 DEF Evict, Known, Edits
<1>7. CASE ReadBack
  BY <1>1, <1>2, <1>7 DEF ReadBack, Known, Edits
<1>8. CASE Crash
  BY <1>2, <1>8 DEF Crash, Known, Edits
<1>9. CASE SpawnChild
  <2>1. [path |-> FALSE, ran |-> FALSE] \in Row
    BY DEF Row
  <2>2. QED
    BY <1>1, <1>2, <1>9, <2>1 DEF SpawnChild, Started, Persist, Known, Edits
<1>10. CASE ResumeChild
  BY <1>1, <1>2, <1>10 DEF ResumeChild, Started, Persist, Known, Edits
<1>11. CASE Prepare
  BY <1>1, <1>2, <1>11 DEF Prepare, Go, Recorded, Known, Edits
<1>12. CASE Attach
  BY <1>2, <1>12 DEF Attach, Go, Known, Edits
<1>13. CASE Wipe
  BY <1>2, <1>13 DEF Wipe, Go, Known, Edits
<1>14. CASE Add
  BY <1>2, <1>14 DEF Add, Go, Known, Edits
<1>15. CASE Stopped \/ AttachRefused \/ Ends \/ SessionFails
  <2>1. Over /\ child # "idle" /\ UNCHANGED dir
    BY <1>15 DEF Stopped, AttachRefused, Ends, SessionFails, Over
  <2>2. QED
    BY <1>1, <1>2, <2>1 DEF Over, Persist, Known, Edits
<1>16. CASE SessionMade
  <2>1. [path |-> TRUE, ran |-> TRUE] \in Row
    BY DEF Row
  <2>2. QED
    BY <1>1, <1>2, <1>16, <2>1 DEF SessionMade, Persist, Known, Edits
<1>17. ASSUME NEW f \in File, Edit(f) PROVE Known'
  BY <1>1, <1>2, <1>17 DEF Edit, Known, Edits
<1>18. ASSUME NEW c \in Call,
              \/ \E kind \in Kind : Ask(c, kind)
              \/ Note(c) \/ Diff(c) \/ WritePatch(c) \/ ApplyPatch(c) \/ Tidy(c)
              \/ AskRemoval(c) \/ RemoveFails(c)
       PROVE Known'
  BY <1>3, <1>18 DEF Ask, Note, Diff, WritePatch, ApplyPatch, Tidy, AskRemoval, RemoveFails
<1>19. ASSUME NEW c \in Call, RemoveTree(c) PROVE Known'
  BY <1>2, <1>19 DEF RemoveTree, Uprooted, Known, Edits
<1>20. ASSUME NEW c \in Call, Clear(c) PROVE Known'
  <2>1. row # None => Cleared \in Row
    BY <1>1 DEF Cleared, Row
  <2>2. QED
    BY <1>1, <1>2, <1>20, <2>1 DEF Clear, Uprooted, Persist, Known, Edits
<1>21. CASE TreeNext
  BY <1>5, <1>6, <1>7, <1>8, <1>9, <1>10, <1>11, <1>12, <1>13, <1>14, <1>15, <1>16, <1>17,
     <1>18, <1>19, <1>20, <1>21 DEF TreeNext
<1>22. QED
  BY <1>4, <1>21

\* What an agent's child wrote is there when it starts to work again, unless it
\* was removed on demand or its row was made of an older record.
THEOREM ResumedWithItsEdits == TreeSpec => ResumesWithItsEdits
<1>1. KnownUnlessDated /\ [TreeNext]_treeVars => [SessionMade => dated \/ Edits = work]_treeVars
  BY DEF KnownUnlessDated, Known
<1>2. QED
  BY <1>1, TreesTypedInit, TreesTypedNext, KnownInit, KnownNext, PTL
     DEF TreeSpec, ResumesWithItsEdits

----------------------------------------------------------------------------
(***************************************************************************)
(* Which worktrees are there, as long as no removal ended half-way or met  *)
(* a run, and no row was made of an older record. A run and a removal shut *)
(* each other out; between the two halves of a removal there is no         *)
(* worktree; otherwise a row with a worktree names one that can be         *)
(* managed, and a run that goes on to its session has made or found one.   *)
(***************************************************************************)
Removed(c) == call[c].stage = "removed"
HalfRemoved == \E c \in Call : Removed(c)

Apart == child # "idle" => Removing = {}
Gone == HalfRemoved => ~registered /\ dir = None
Named == last # None /\ last.path /\ ~HalfRemoved => Attachable
Launching ==
    /\ child \in {"wiping", "adding"} => ~last.path
    /\ child = "creating" => Attachable
    /\ child \in {"attaching", "working"} => last.path
Standing == Apart /\ Gone /\ Named /\ Launching

StandingWhenOrderly == ~dated /\ ~missed /\ ~crossed => Standing

LEMMA StandingInit == TreeInit => StandingWhenOrderly
  BY DEF TreeInit, StandingWhenOrderly, Standing, Apart, Gone, Named, Launching, Removing,
         HalfRemoved, Removed, Free

\* A step in which no removal goes on, and none begins.
LEMMA RemovingKept ==
    ASSUME \A c \in Call : call'[c].stage # call[c].stage =>
                             /\ call[c].stage \notin {"removing", "removed"}
                             /\ call'[c].stage \notin {"removing", "removed"}
    PROVE  Removing' = Removing /\ HalfRemoved' = HalfRemoved
  BY DEF Removing, HalfRemoved, Removed

LEMMA HalfRemovedRemoving == HalfRemoved => Removing # {}
  BY DEF HalfRemoved, Removed, Removing

\* What a call does to the stages of the calls.
LEMMA CallMoves ==
    ASSUME call \in [Call -> CallRow], NEW c \in Call
    PROVE  /\ \A s : CallAt(c, s) => call'[c].stage = s /\ \A d \in Call \ {c} : call'[d] = call[d]
           /\ Done(c) => call'[c] = Free /\ \A d \in Call \ {c} : call'[d] = call[d]
<1>1. ASSUME NEW s, CallAt(c, s)
      PROVE  call'[c].stage = s /\ \A d \in Call \ {c} : call'[d] = call[d]
  BY <1>1 DEF CallAt, CallRow
<1>2. ASSUME Done(c) PROVE call'[c] = Free /\ \A d \in Call \ {c} : call'[d] = call[d]
  BY <1>2 DEF Done
<1>3. QED
  BY <1>1, <1>2

LEMMA StandingNext ==
    TreesTyped /\ KnownUnlessDated /\ StandingWhenOrderly /\ [TreeNext]_treeVars
      => StandingWhenOrderly'
<1> SUFFICES ASSUME TreesTyped, KnownUnlessDated, StandingWhenOrderly, [TreeNext]_treeVars,
                    ~dated', ~missed', ~crossed'
             PROVE  Standing'
  BY DEF StandingWhenOrderly
<1> USE DEF tree, record, told
<1>1. /\ None \notin Row /\ dir \in (SUBSET File) \cup {None}
      /\ \A S \in SUBSET File : S # None
      /\ row \in Row \cup {None} /\ last \in Row \cup {None} /\ disk \in Row \cup {None}
      /\ (child # "idle" => row # None)
      /\ call \in [Call -> CallRow]
      /\ dated \in BOOLEAN /\ missed \in BOOLEAN /\ crossed \in BOOLEAN
  BY WorktreesAssumption DEF TreesTyped, TreeTypeOK, CallRow, Row
<1>2. ASSUME ~dated, ~missed, ~crossed PROVE Known /\ Standing
  BY <1>2 DEF KnownUnlessDated, StandingWhenOrderly
<1>3. ASSUME ~dated, ~missed, ~crossed, UNCHANGED <<dir, registered, last, child>>,
             Removing' = Removing, HalfRemoved' = HalfRemoved
      PROVE  Standing'
  BY <1>2, <1>3 DEF Standing, Apart, Gone, Named, Launching, Attachable
<1>4. call' = call => Removing' = Removing /\ HalfRemoved' = HalfRemoved
  BY DEF Removing, HalfRemoved, Removed
<1>5. CASE UNCHANGED treeVars
  BY <1>3, <1>4, <1>5 DEF treeVars
<1>6. CASE WriteRecord \/ Evict
  BY <1>3, <1>4, <1>6 DEF WriteRecord, Evict
<1>7. CASE ReadBack
  BY <1>3, <1>4, <1>7 DEF ReadBack
<1>8. CASE Crash
  <2>1. Removing = {} /\ ~missed /\ child' = "idle" /\ UNCHANGED <<dir, registered, last>>
    BY <1>8 DEF Crash
  <2>2. ~HalfRemoved /\ ~HalfRemoved'
    <3>1. ~HalfRemoved
      BY <2>1, HalfRemovedRemoving
    <3>2. \A c \in Call : call'[c].stage = "free"
      BY <1>8 DEF Crash, Free
    <3>3. QED
      BY <3>1, <3>2 DEF HalfRemoved, Removed
  <2>3. QED
    BY <1>2, <1>8, <2>1, <2>2 DEF Crash, Standing, Apart, Gone, Named, Launching, Attachable
<1>9. ASSUME Started PROVE Removing = {} /\ ~crossed /\ Removing' = {} /\ ~HalfRemoved /\ ~HalfRemoved'
  <2>1. \A c \in Call : call'[c].stage = call[c].stage
    BY <1>1, <1>9 DEF Started, CallRow
  <2>2. Removing' = Removing /\ HalfRemoved' = HalfRemoved
    BY <2>1, RemovingKept
  <2>3. QED
    BY <1>1, <1>9, <2>2, HalfRemovedRemoving DEF Started
<1>10. CASE SpawnChild
  BY <1>9, <1>10 DEF SpawnChild, Started, Persist, Standing, Apart, Gone, Named, Launching
<1>11. CASE ResumeChild
  <2>1. Started /\ row # None /\ last' = row /\ child' = "queued"
        /\ UNCHANGED <<dir, registered, dated, missed>>
    BY <1>11 DEF ResumeChild, Started, Persist
  <2>2. QED
    BY <1>2, <1>9, <2>1 DEF Known, Standing, Apart, Gone, Named, Launching, Attachable
<1>12. CASE Prepare
  BY <1>1, <1>2, <1>4, <1>12
     DEF Prepare, Go, Recorded, Known, Standing, Apart, Gone, Named, Launching, Attachable
<1>13. CASE Attach
  BY <1>2, <1>4, <1>13 DEF Attach, Go, Standing, Apart, Gone, Named, Launching, Attachable
<1>14. CASE Wipe
  BY <1>2, <1>4, <1>14 DEF Wipe, Go, Standing, Apart, Gone, Named, Launching
<1>15. CASE Add
  <2>1. Attachable' /\ ~HalfRemoved'
    BY <1>1, <1>2, <1>4, <1>15, HalfRemovedRemoving DEF Add, Go, Attachable, Standing, Apart
  <2>2. QED
    BY <1>2, <1>4, <1>15, <2>1 DEF Add, Go, Standing, Apart, Gone, Named, Launching
<1>16. CASE Stopped \/ AttachRefused \/ Ends \/ SessionFails
  <2>1. /\ Over /\ child # "idle" /\ UNCHANGED <<dir, registered, call>>
        /\ ~dated /\ ~missed /\ ~crossed
    BY <1>16 DEF Stopped, AttachRefused, Ends, SessionFails, Over
  <2>2. last' = last /\ child' = "idle"
    BY <1>1, <1>2, <2>1 DEF Over, Persist, Known
  <2>3. QED
    BY <1>2, <1>4, <2>1, <2>2 DEF Standing, Apart, Gone, Named, Launching, Attachable
<1>17. CASE SessionMade
  <2>1. last' # None /\ last'.path /\ child' = "working" /\ UNCHANGED <<dir, registered, call>>
        /\ ~dated /\ ~missed /\ ~crossed /\ child = "creating"
    <3>1. [path |-> TRUE, ran |-> TRUE] \in Row
      BY DEF Row
    <3>2. QED
      BY <1>1, <1>17, <3>1 DEF SessionMade, Persist
  <2>2. QED
    BY <1>2, <1>4, <2>1 DEF Standing, Apart, Gone, Named, Launching, Attachable
<1>18. ASSUME NEW f \in File, Edit(f) PROVE Standing'
  <2>1. dir # None /\ dir' # None
    BY <1>1, <1>18 DEF Edit
  <2>2. QED
    BY <1>2, <1>4, <1>18, <2>1 DEF Edit, Standing, Apart, Gone, Named, Launching, Attachable
<1>19. ASSUME NEW c \in Call,
              \/ \E kind \in Kind : Ask(c, kind)
              \/ Note(c) \/ Diff(c) \/ WritePatch(c) \/ ApplyPatch(c) \/ Tidy(c)
       PROVE  Standing'
  <2>1. /\ call[c].stage \notin {"removing", "removed"}
        /\ call'[c].stage \notin {"removing", "removed"}
        /\ \A d \in Call \ {c} : call'[d] = call[d]
    <3>1. CASE \E kind \in Kind : Ask(c, kind)
      BY <1>1, <3>1 DEF Ask, Kind, Free
    <3>2. CASE Note(c)
      BY <1>1, <3>2, CallMoves DEF Note, Kind, Free
    <3>3. CASE Diff(c)
      BY <1>1, <3>3, CallMoves DEF Diff, Free, CallRow
    <3>4. CASE WritePatch(c) \/ ApplyPatch(c) \/ Tidy(c)
      BY <1>1, <3>4, CallMoves DEF WritePatch, ApplyPatch, Tidy, Free
    <3>5. QED
      BY <1>19, <3>1, <3>2, <3>3, <3>4
  <2>2. Removing' = Removing /\ HalfRemoved' = HalfRemoved
    BY <2>1, RemovingKept
  <2>3. QED
    BY <1>3, <1>19, <2>2 DEF Ask, Note, Diff, WritePatch, ApplyPatch, Tidy
<1>20. ASSUME NEW c \in Call, AskRemoval(c) PROVE Standing'
  <2>1. HalfRemoved' = HalfRemoved
    BY <1>1, <1>20, CallMoves DEF AskRemoval, HalfRemoved, Removed, Free
  <2>2. QED
    BY <1>2, <1>20, <2>1 DEF AskRemoval, Manageable, Standing, Apart, Gone, Named, Launching,
                             Attachable
\* A removal that goes on: no run is under way.
<1>21. ASSUME NEW c \in Call, call[c].stage \in {"removing", "removed"},
              ~dated, ~missed, ~crossed, child' = child
       PROVE  child = "idle" /\ child' = "idle"
  BY <1>2, <1>21 DEF Standing, Apart, Removing
<1>22. ASSUME NEW c \in Call, RemoveTree(c) PROVE Standing'
  <2>1. CASE registered
    <3>1. HalfRemoved' /\ ~registered' /\ dir' = None /\ child' = "idle"
      BY <1>1, <1>21, <1>22, <2>1, CallMoves DEF RemoveTree, Uprooted, HalfRemoved, Removed
    <3>2. QED
      BY <3>1 DEF Standing, Apart, Gone, Named, Launching
  <2>2. CASE ~registered
    <3>1. HalfRemoved' = HalfRemoved
      BY <1>1, <1>22, <2>2, CallMoves DEF RemoveTree, HalfRemoved, Removed, Free
    <3>2. child' = "idle" /\ UNCHANGED <<dir, registered, last>>
      BY <1>21, <1>22, <2>2 DEF RemoveTree
    <3>3. QED
      BY <1>2, <1>22, <3>1, <3>2 DEF RemoveTree, Standing, Apart, Gone, Named, Launching, Attachable
  <2>3. QED
    BY <2>1, <2>2
<1>23. ASSUME NEW c \in Call, RemoveFails(c) PROVE Standing'
  <2>1. HalfRemoved' = HalfRemoved
    BY <1>1, <1>23, CallMoves DEF RemoveFails, HalfRemoved, Removed, Free
  <2>2. child' = "idle" /\ UNCHANGED <<dir, registered, last>> /\ ~missed
    BY <1>21, <1>23 DEF RemoveFails
  <2>3. QED
    BY <1>2, <1>23, <2>1, <2>2 DEF RemoveFails, Standing, Apart, Gone, Named, Launching, Attachable
<1>24. ASSUME NEW c \in Call, Clear(c) PROVE Standing'
  <2>1. row # None /\ ~missed /\ ~dated /\ ~crossed /\ child' = "idle" /\ dir' = None
        /\ registered' = registered /\ last' = Cleared
    BY <1>21, <1>24 DEF Clear, Uprooted, Persist
  <2>2. ~last'.path
    BY <1>1, <2>1 DEF Cleared, Row
  <2>3. ~registered
    BY <1>2, <1>24, <2>1 DEF Clear, Standing, Gone, HalfRemoved, Removed
  <2>4. QED
    BY <2>1, <2>2, <2>3 DEF Standing, Apart, Gone, Named, Launching
<1>25. CASE TreeNext
  BY <1>6, <1>7, <1>8, <1>10, <1>11, <1>12, <1>13, <1>14, <1>15, <1>16, <1>17, <1>18,
     <1>19, <1>20, <1>22, <1>23, <1>24, <1>25 DEF TreeNext
<1>26. QED
  BY <1>5, <1>25

\* At rest a row names a worktree that can be managed, and a worktree with edits
\* is named, for any number of calls, runs, failures and crashes.
THEOREM NeverStranded == TreeSpec => []NotStranded
<1>1. KnownUnlessDated /\ StandingWhenOrderly => NotStranded
  BY HalfRemovedRemoving
     DEF KnownUnlessDated, StandingWhenOrderly, NotStranded, Known, Standing, Named
<1>2. QED
  BY <1>1, TreesTypedInit, TreesTypedNext, KnownInit, KnownNext, StandingInit, StandingNext, PTL
     DEF TreeSpec

----------------------------------------------------------------------------
(***************************************************************************)
(* What the tool calls know. A call is fresh while no run of the child     *)
(* began since it was asked for. The child does not run then, so the       *)
(* worktree is as the call found it or gone; the patch a fresh call made   *)
(* is all of what it found; fresh calls that found something found the     *)
(* same. The patch file is of a call that goes on to apply or to remove    *)
(* it.                                                                     *)
(***************************************************************************)
Fresh(c) == call[c].stage # "free" /\ call[c].quiet
Early == {"review", "apply", "reading", "diffing"}
Late == {"writing", "applying", "tidying"}

Fits(c) ==
    /\ call[c].stage = "free" => call[c] = Free
    /\ call[c].stage \in {"removing", "removed"} => call[c].begun = {}
    /\ Fresh(c) => child = "idle"
    /\ Fresh(c) /\ call[c].stage \in Early \cup Late /\ dir # None => call[c].begun = dir
    /\ Fresh(c) /\ call[c].stage \in {"reading", "diffing"} /\ dir # None => dir \subseteq noted
    /\ Fresh(c) /\ call[c].stage \in Late => call[c].begun = call[c].diff
AllFit == \A c \in Call : Fits(c)
Agree ==
    \A c, d \in Call : Fresh(c) /\ Fresh(d) /\ call[c].begun # {} /\ call[d].begun # {}
                         => call[c].begun = call[d].begun
PatchOfACall ==
    (\E c \in Call : call[c].stage = "applying") /\ patchFile # None
      => \E d \in Call : call[d].stage \in {"applying", "tidying"} /\ call[d].diff = patchFile
CallsFit == AllFit /\ Agree /\ PatchOfACall

LEMMA CallsFitInit == TreeInit => CallsFit
  BY DEF TreeInit, CallsFit, AllFit, Fits, Agree, PatchOfACall, Fresh, Free

LEMMA CallsFitNext == TreesTyped /\ CallsFit /\ [TreeNext]_treeVars => CallsFit'
<1> SUFFICES ASSUME TreesTyped, CallsFit, [TreeNext]_treeVars PROVE CallsFit'
  OBVIOUS
<1> USE DEF tree, record, told
<1>1. /\ call \in [Call -> CallRow] /\ dir \in (SUBSET File) \cup {None}
      /\ \A S \in SUBSET File : S # None
  BY WorktreesAssumption DEF TreesTyped, TreeTypeOK, CallRow
<1>2. \A c \in Call : Fits(c)
  BY DEF CallsFit, AllFit
\* A call that does not move, while the worktree stays or goes.
<1>3. ASSUME NEW d \in Call, call'[d] = call[d], child' = child, dir' = dir \/ dir' = None,
             dir' = None \/ noted' = noted \/ noted' = dir
      PROVE  Fits(d)'
  BY <1>2, <1>3 DEF Fits, Fresh
<1>4. ASSUME \A d \in Call : Fresh(d)' => Fresh(d) /\ call'[d].begun = call[d].begun
      PROVE  Agree'
  BY <1>4 DEF CallsFit, Agree
<1>5. ASSUME patchFile' = patchFile,
             \A d \in Call : /\ call[d].stage \in {"applying", "tidying"} =>
                                  /\ call'[d].stage \in {"applying", "tidying"}
                                  /\ call'[d].diff = call[d].diff
                             /\ call'[d].stage = "applying" => call[d].stage = "applying"
      PROVE  PatchOfACall'
  BY <1>5 DEF CallsFit, PatchOfACall
<1>6. CASE UNCHANGED <<dir, noted, patchFile, child, call>>
  <2>1. AllFit'
    BY <1>3, <1>6 DEF AllFit
  <2>2. Agree'
    BY <1>4, <1>6 DEF Fresh
  <2>3. QED
    BY <1>5, <1>6, <2>1, <2>2 DEF CallsFit
\* A step of a run under way: no call is fresh.
<1>7. ASSUME child # "idle", UNCHANGED <<call, patchFile>> PROVE CallsFit'
  <2>1. \A d \in Call : ~Fresh(d) /\ ~Fresh(d)'
    BY <1>2, <1>7 DEF Fits, Fresh
  <2>2. AllFit'
    BY <1>2, <1>7, <2>1 DEF AllFit, Fits
  <2>3. Agree'
    BY <1>4, <2>1
  <2>4. QED
    BY <1>5, <1>7, <2>2, <2>3 DEF CallsFit
<1>8. CASE UNCHANGED treeVars
  BY <1>6, <1>8 DEF treeVars
<1>9. CASE WriteRecord \/ Evict \/ ReadBack
  BY <1>6, <1>9 DEF WriteRecord, Evict, ReadBack
<1>10. CASE Crash
  <2>1. \A d \in Call : call'[d] = Free
    BY <1>10 DEF Crash
  <2>2. QED
    BY <2>1 DEF CallsFit, AllFit, Fits, Agree, PatchOfACall, Fresh, Free
<1>11. CASE SpawnChild \/ ResumeChild
  <2>1. /\ \A d \in Call : call'[d] = [call[d] EXCEPT !.quiet = call[d] = Free]
        /\ patchFile' = patchFile
    BY <1>1, <1>11 DEF SpawnChild, ResumeChild, Started
  <2>2. ASSUME NEW d \in Call
        PROVE  /\ call'[d].stage = call[d].stage /\ call'[d].diff = call[d].diff
               /\ call'[d].begun = call[d].begun
               /\ call'[d].quiet => call[d] = Free
               /\ call[d] = Free => call'[d] = Free
    <3> DEFINE known == call[d] = Free
    <3>1. known \in BOOLEAN /\ call[d] \in CallRow /\ call'[d] = [call[d] EXCEPT !.quiet = known]
      BY <1>1, <2>1
    <3>2. known => call[d] = Free /\ known = TRUE
      OBVIOUS
    <3> HIDE DEF known
    <3>3. /\ call'[d].stage = call[d].stage /\ call'[d].diff = call[d].diff
          /\ call'[d].begun = call[d].begun /\ call'[d].quiet = known
      BY <3>1 DEF CallRow
    <3>4. ASSUME known PROVE call'[d] = Free
      <4>1. call'[d] \in CallRow
        BY <3>1 DEF CallRow
      <4>2. /\ call'[d].stage = "free" /\ call'[d].diff = {} /\ call'[d].begun = {}
            /\ call'[d].quiet = TRUE
        BY <3>2, <3>3, <3>4 DEF Free
      <4>3. QED
        BY <4>1, <4>2 DEF CallRow, Free
    <3>5. QED
      BY <3>2, <3>3, <3>4 DEF known
  <2>3. \A d \in Call : ~Fresh(d)'
    BY <2>2 DEF Fresh, Free
  <2>4. AllFit'
    BY <1>2, <2>2, <2>3 DEF AllFit, Fits
  <2>5. Agree'
    BY <1>4, <2>3
  <2>6. QED
    BY <1>5, <2>1, <2>2, <2>4, <2>5 DEF CallsFit
<1>12. CASE \/ Prepare \/ Stopped \/ Attach \/ AttachRefused \/ Wipe \/ Add
            \/ SessionMade \/ SessionFails \/ Ends
            \/ \E f \in File : Edit(f)
  <2>1. child # "idle" /\ UNCHANGED <<call, patchFile>>
    BY <1>12 DEF Prepare, Stopped, Attach, AttachRefused, Wipe, Add, SessionMade, SessionFails,
                 Ends, Edit, Over, Go
  <2>2. QED
    BY <1>7, <2>1
<1>13. ASSUME NEW c \in Call, NEW kind \in Kind, Ask(c, kind) PROVE CallsFit'
  <2>1. /\ call[c] = Free /\ child = "idle" /\ UNCHANGED <<dir, noted, child, patchFile>>
        /\ call'[c] = [stage |-> kind, diff |-> {}, quiet |-> TRUE, begun |-> Edits]
        /\ \A d \in Call \ {c} : call'[d] = call[d]
    BY <1>1, <1>13 DEF Ask, Manageable
  <2>2. Fits(c)'
    BY <2>1 DEF Fits, Fresh, Early, Late, Kind, Edits
  <2>3. AllFit'
    BY <1>3, <2>1, <2>2 DEF AllFit
  \* What another fresh call found is there still, or the worktree is gone.
  <2>4. ASSUME NEW d \in Call, d # c, Fresh(d), call[d].begun # {} PROVE Edits = {} \/ Edits = call[d].begun
    <3>1. call[d].stage \in Early \cup Late
      BY <1>1, <1>2, <2>4 DEF Fits, Early, Late, CallRow, Kind, Fresh
    <3>2. QED
      BY <1>2, <2>4, <3>1 DEF Fits, Edits
  <2>5. ASSUME NEW d \in Call, NEW e \in Call, Fresh(d)', Fresh(e)',
               call'[d].begun # {}, call'[e].begun # {}
        PROVE  call'[d].begun = call'[e].begun
    <3>1. \A b \in Call \ {c} : (Fresh(b)' <=> Fresh(b)) /\ call'[b].begun = call[b].begun
      BY <2>1 DEF Fresh
    <3>2. call'[c].begun = Edits
      BY <2>1
    <3>3. CASE d # c /\ e # c
      BY <2>5, <3>1, <3>3 DEF CallsFit, Agree
    <3>4. CASE d = c \/ e = c
      BY <2>4, <2>5, <3>1, <3>2, <3>4
    <3>5. QED
      BY <3>3, <3>4
  <2>6. Agree'
    BY <2>5 DEF Agree
  <2>7. PatchOfACall'
    BY <1>5, <2>1 DEF Free, Kind
  <2>8. QED
    BY <2>3, <2>6, <2>7 DEF CallsFit
\* A call that moves, or is over, as it was asked for.
<1>14. ASSUME NEW c \in Call, \A d \in Call \ {c} : call'[d] = call[d],
              call'[c].stage # "free" => call[c].stage # "free" /\ call'[c].begun = call[c].begun
                                         /\ call'[c].quiet = call[c].quiet
       PROVE  Agree'
  BY <1>4, <1>14 DEF Fresh
<1>15. ASSUME NEW c \in Call, Note(c) PROVE CallsFit'
  <2>1. UNCHANGED <<dir, child, patchFile>> /\ (noted' = noted \/ noted' = dir)
        /\ \A d \in Call \ {c} : call'[d] = call[d]
    BY <1>1, <1>15, CallMoves DEF Note, Noted
  <2>2. CASE Done(c)
    <3>1. call'[c] = Free
      BY <1>1, <2>2, CallMoves
    <3>2. Fits(c)'
      BY <3>1 DEF Fits, Fresh, Free
    <3>3. AllFit' /\ Agree'
      BY <1>3, <1>14, <2>1, <3>1, <3>2 DEF AllFit, Free
    <3>4. PatchOfACall'
      BY <1>5, <1>15, <2>1, <3>1 DEF Note, Kind, Free
    <3>5. QED
      BY <3>3, <3>4 DEF CallsFit
  <2>3. CASE Attachable /\ noted' = dir /\ \E s \in {"reading", "diffing"} : CallAt(c, s)
    <3>1. /\ call[c].stage \in Kind /\ call'[c].stage \in {"reading", "diffing"}
          /\ call'[c].begun = call[c].begun /\ call'[c].quiet = call[c].quiet
      BY <1>1, <1>15, <2>3 DEF Note, CallAt, CallRow
    <3>2. Fits(c)'
      BY <1>2, <2>1, <2>3, <3>1 DEF Fits, Fresh, Early, Late, Kind
    <3>3. AllFit' /\ Agree'
      BY <1>3, <1>14, <2>1, <3>1, <3>2 DEF AllFit, Kind
    <3>4. PatchOfACall'
      BY <1>5, <2>1, <3>1 DEF Kind
    <3>5. QED
      BY <3>3, <3>4 DEF CallsFit
  <2>4. QED
    BY <1>15, <2>2, <2>3 DEF Note, Noted
<1>16. ASSUME NEW c \in Call, Diff(c) PROVE CallsFit'
  <2>1. UNCHANGED <<dir, noted, child, patchFile>> /\ call[c].stage \in {"reading", "diffing"}
        /\ \A d \in Call \ {c} : call'[d] = call[d]
    BY <1>1, <1>16, CallMoves DEF Diff
  <2>2. CASE Done(c)
    <3>1. call'[c] = Free
      BY <1>1, <2>2, CallMoves
    <3>2. Fits(c)'
      BY <3>1 DEF Fits, Fresh, Free
    <3>3. AllFit' /\ Agree'
      BY <1>3, <1>14, <2>1, <3>1, <3>2 DEF AllFit, Free
    <3>4. PatchOfACall'
      BY <1>5, <2>1, <3>1 DEF Free
    <3>5. QED
      BY <3>3, <3>4 DEF CallsFit
  <2>3. CASE /\ Attachable
             /\ call' = [call EXCEPT ![c].stage = "writing", ![c].diff = Differing]
    <3>1. /\ call'[c].stage = "writing" /\ call'[c].diff = Differing
          /\ call'[c].begun = call[c].begun /\ call'[c].quiet = call[c].quiet
      BY <1>1, <2>3 DEF CallRow
    <3>2. dir # None /\ (Fresh(c) => dir \subseteq noted /\ call[c].begun = dir)
      BY <1>2, <2>1, <2>3 DEF Attachable, Fits, Early
    <3>3. Fresh(c) => Differing = call[c].begun
      BY <3>2 DEF Differing
    <3>4. Fits(c)'
      BY <1>2, <2>1, <3>1, <3>2, <3>3 DEF Fits, Fresh, Early, Late
    <3>5. AllFit' /\ Agree'
      BY <1>3, <1>14, <2>1, <3>1, <3>4 DEF AllFit
    <3>6. PatchOfACall'
      BY <1>5, <2>1, <3>1
    <3>7. QED
      BY <3>5, <3>6 DEF CallsFit
  <2>4. QED
    BY <1>16, <2>2, <2>3 DEF Diff
<1>17. ASSUME NEW c \in Call, WritePatch(c) \/ ApplyPatch(c) PROVE CallsFit'
  <2>1. /\ UNCHANGED <<dir, noted, child>> /\ call[c].stage \in Late
        /\ call'[c].stage \in {"applying", "tidying"}
        /\ call'[c].begun = call[c].begun /\ call'[c].quiet = call[c].quiet
        /\ call'[c].diff = call[c].diff
        /\ \A d \in Call \ {c} : call'[d] = call[d]
    BY <1>1, <1>17, CallMoves DEF WritePatch, ApplyPatch, CallAt, CallRow, Late
  <2>2. Fits(c)'
    BY <1>2, <2>1 DEF Fits, Fresh, Early, Late
  <2>3. AllFit' /\ Agree'
    BY <1>3, <1>14, <2>1, <2>2 DEF AllFit, Late
  <2>4. PatchOfACall'
    <3>1. CASE WritePatch(c)
      BY <2>1, <3>1 DEF WritePatch, PatchOfACall
    <3>2. CASE ApplyPatch(c)
      BY <1>1, <1>5, <2>1, <3>2, CallMoves DEF ApplyPatch
    <3>3. QED
      BY <1>17, <3>1, <3>2
  <2>5. QED
    BY <2>3, <2>4 DEF CallsFit
<1>18. ASSUME NEW c \in Call, Tidy(c) PROVE CallsFit'
  <2>1. /\ UNCHANGED <<dir, noted, child>> /\ patchFile' = None /\ call'[c] = Free
        /\ \A d \in Call \ {c} : call'[d] = call[d]
    BY <1>1, <1>18, CallMoves DEF Tidy
  <2>2. Fits(c)'
    BY <2>1 DEF Fits, Fresh, Free
  <2>3. AllFit' /\ Agree'
    BY <1>3, <1>14, <2>1, <2>2 DEF AllFit, Free
  <2>4. QED
    BY <2>1, <2>3 DEF CallsFit, PatchOfACall
<1>19. ASSUME NEW c \in Call, AskRemoval(c) PROVE CallsFit'
  <2>1. /\ UNCHANGED <<dir, noted, child, patchFile>> /\ child = "idle" /\ call[c] = Free
        /\ call'[c].stage = "removing" /\ call'[c].begun = {}
        /\ \A d \in Call \ {c} : call'[d] = call[d]
    BY <1>1, <1>19, CallMoves DEF AskRemoval, Manageable, CallAt, CallRow, Free
  <2>2. Fits(c)'
    BY <2>1 DEF Fits, Fresh, Early, Late
  <2>3. AllFit'
    BY <1>3, <2>1, <2>2 DEF AllFit
  <2>4. Agree'
    BY <2>1 DEF CallsFit, Agree, Fresh
  <2>5. QED
    BY <1>5, <2>1, <2>3, <2>4 DEF CallsFit, Free
<1>20. ASSUME NEW c \in Call, RemoveTree(c) \/ RemoveFails(c) \/ Clear(c) PROVE CallsFit'
  <2>1. /\ UNCHANGED <<child, patchFile>> /\ call[c].stage \in {"removing", "removed"}
        /\ dir' = None \/ (dir' = dir /\ noted' = noted)
        /\ call'[c] = Free \/ (call[c].stage = "removing" /\ CallAt(c, "removed"))
        /\ \A d \in Call \ {c} : call'[d] = call[d]
    BY <1>1, <1>20, CallMoves DEF RemoveTree, RemoveFails, Clear, Uprooted
  <2>2. call'[c] = Free \/ /\ call'[c].stage = "removed" /\ call[c].stage = "removing"
                           /\ call'[c].begun = call[c].begun /\ call'[c].quiet = call[c].quiet
    BY <1>1, <2>1 DEF CallAt, CallRow
  <2>3. Fits(c)'
    BY <1>2, <2>1, <2>2 DEF Fits, Fresh, Free, Early, Late
  <2>4. AllFit'
    BY <1>3, <2>1, <2>3 DEF AllFit
  <2>5. Agree'
    BY <1>14, <2>1, <2>2 DEF Free
  <2>6. QED
    BY <1>5, <2>1, <2>2, <2>4, <2>5 DEF CallsFit, Free
<1>21. CASE TreeNext
  BY <1>9, <1>10, <1>11, <1>12, <1>13, <1>15, <1>16, <1>17, <1>18, <1>19, <1>20, <1>21
     DEF TreeNext
<1>22. QED
  BY <1>8, <1>21

\* Only the apply of a patch changes the workspace, and only for its own call.
LEMMA WorkspaceChanges ==
    ASSUME TreesTyped, TreeNext, NEW c \in Call, call[c].stage = "applying",
           applied' # applied, call'[c].stage = "tidying"
    PROVE  patchFile # None /\ applied' = applied \cup patchFile
<1> USE DEF tree, record, told
<1>1. call \in [Call -> CallRow]
  BY DEF TreesTyped, TreeTypeOK, CallRow
<1>2. \E d \in Call : ApplyPatch(d)
  BY DEF TreeNext, WriteRecord, Evict, ReadBack, Crash, SpawnChild, ResumeChild, Prepare, Go,
         Stopped, Attach, AttachRefused, Over, Wipe, Add, SessionMade, SessionFails, Ends, Edit,
         Ask, Note, Diff, WritePatch, Tidy, AskRemoval, RemoveTree, RemoveFails, Clear
<1>3. PICK d \in Call : ApplyPatch(d)
  BY <1>2
<1>4. QED
  BY <1>3 DEF ApplyPatch, Applicable

\* An apply that succeeds brings all the worktree had when it was asked for,
\* whatever other calls do to the patch file meanwhile, as long as the child did
\* not work.
THEOREM AppliedWhole == TreeSpec => AppliesWhole
<1> DEFINE Whole ==
      \A c \in Call : call[c].stage = "applying" /\ applied' # applied
        /\ call'[c].stage = "tidying" /\ (\A d \in Call : call[d].quiet)
        => call[c].begun \subseteq applied'
<1>1. TreesTyped /\ CallsFit /\ [TreeNext]_treeVars => [Whole]_treeVars
  <2> SUFFICES ASSUME TreesTyped, CallsFit, TreeNext, NEW c \in Call,
                      call[c].stage = "applying", applied' # applied,
                      call'[c].stage = "tidying", \A d \in Call : call[d].quiet
               PROVE  call[c].begun \subseteq applied'
    OBVIOUS
  <2>1. patchFile # None /\ applied' = applied \cup patchFile
    BY WorkspaceChanges
  <2>2. PICK d \in Call : call[d].stage \in {"applying", "tidying"} /\ call[d].diff = patchFile
    BY <2>1 DEF CallsFit, PatchOfACall
  <2>3. Fresh(c) /\ Fresh(d) /\ call[d].begun = patchFile
    BY <2>2 DEF Fresh, CallsFit, AllFit, Fits, Late
  <2>4. patchFile # {}
    BY <2>1
  <2>5. call[c].begun = {} \/ call[c].begun = patchFile
    BY <2>3, <2>4 DEF CallsFit, Agree
  <2>6. QED
    BY <2>1, <2>5
<1>2. QED
  BY <1>1, TreesTypedInit, TreesTypedNext, CallsFitInit, CallsFitNext, PTL
     DEF TreeSpec, AppliesWhole
=============================================================================
