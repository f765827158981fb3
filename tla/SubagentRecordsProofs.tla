------------------------ MODULE SubagentRecordsProofs ------------------------
(***************************************************************************)
(* Proofs about the rows of a chat's delegated runs, for every set of      *)
(* agents and callers, every cap, and every number of launches and faults. *)
(***************************************************************************)
EXTENDS SubagentRecords, SequenceTheorems, TLAPS

\* What an execution holds is a row.
HoldsARow == \A a \in Agent : Running(a) => exec[a].held \in Record

\* What is left of a run that delivered is not active any more.
ClosingIsOver == \A a \in Agent : exec[a].stage = "closing" => ~isActive(exec[a].held)

LEMMA SharedOnly ==
  ASSUME NEW e \in Execution, NEW v \in BOOLEAN
  PROVE  /\ [e EXCEPT !.shared = v].stage = e.stage
         /\ [e EXCEPT !.shared = v].held = e.held
         /\ [e EXCEPT !.shared = v].shared = v
  BY DEF Execution

LEMMA EndedType ==
  ASSUME NEW execs \in [Agent -> Execution], NEW a \in Agent, NEW r \in Record,
         NEW stage \in {"none", "closing"}
  PROVE  [execs EXCEPT ![a] = IF stage = "none" THEN NoExec
                              ELSE [@ EXCEPT !.stage = stage, !.held = r]]
           \in [Agent -> Execution]
<1> DEFINE e == [execs[a] EXCEPT !.stage = stage, !.held = r]
<1>1. e \in Execution /\ NoExec \in Execution
  BY DEF Execution, NoExec
<1> HIDE DEF e
<1>2. [execs EXCEPT ![a] = IF stage = "none" THEN NoExec ELSE e] \in [Agent -> Execution]
  BY <1>1
<1> QED
  BY <1>2 DEF e

LEMMA KeepType ==
  ASSUME NEW rows \in [Agent -> Record \cup {None}], NEW kept
  PROVE  Keep(rows, kept) \in [Agent -> Record \cup {None}]
  BY DEF Keep

LEMMA DetachType ==
  ASSUME NEW execs \in [Agent -> Execution], NEW rows
  PROVE  Detach(execs, rows) \in [Agent -> Execution]
  BY DEF Detach, Execution

\* Only the bond with the row may be lost.
LEMMA DetachKeeps ==
  ASSUME NEW execs \in [Agent -> Execution], NEW rows
  PROVE  \A b \in Agent : /\ Detach(execs, rows)[b].stage = execs[b].stage
                          /\ Detach(execs, rows)[b].held = execs[b].held
                          /\ Detach(execs, rows)[b].shared = (execs[b].shared /\ rows[b] # None)
<1> SUFFICES ASSUME NEW b \in Agent
    PROVE  /\ Detach(execs, rows)[b].stage = execs[b].stage
           /\ Detach(execs, rows)[b].held = execs[b].held
           /\ Detach(execs, rows)[b].shared = (execs[b].shared /\ rows[b] # None)
  OBVIOUS
<1> DEFINE v == execs[b].shared /\ rows[b] # None
<1>1. Detach(execs, rows)[b] = [execs[b] EXCEPT !.shared = v]
  BY DEF Detach
<1>2. v \in BOOLEAN /\ execs[b] \in Execution
  OBVIOUS
<1> HIDE DEF v
<1>3. /\ Detach(execs, rows)[b].stage = execs[b].stage
      /\ Detach(execs, rows)[b].held = execs[b].held
      /\ Detach(execs, rows)[b].shared = v
  BY <1>1, <1>2, SharedOnly
<1>4. QED
  BY <1>3 DEF v

LEMMA SaveType ==
  ASSUME NEW a \in Agent, NEW r \in Record PROVE Save(a, r) \in Write
  BY DEF Save, Write

LEMMA SettledType == ASSUME NEW r \in Record PROVE Settled(r) \in Record /\ ~isActive(Settled(r))
  BY DEF Settled, Record, Status, isActive

\* The parts of the type invariant that an update of a row changes.
RowsTyped == /\ row \in [Agent -> Record \cup {None}]
             /\ spec \in [Agent -> BOOLEAN]
             /\ timer \subseteq Agent
             /\ exec \in [Agent -> Execution]
             /\ queue \in Seq(Write)
             /\ last \in [Agent -> Record \cup {None}]
             /\ awaited \subseteq Agent

LEMMA UpdateType ==
  ASSUME RowsTyped, NEW a \in Agent, exec[a].held \in Record,
         NEW status \in Status, NEW stage \in {"none", "closing"},
         updateRun(a, status, stage), spec' = spec
  PROVE  RowsTyped'
<1> DEFINE r == [exec[a].held EXCEPT !.status = status]
           rows == IF exec[a].shared THEN [row EXCEPT ![a] = r] ELSE row
           execs == [exec EXCEPT ![a] = IF stage = "none" THEN NoExec
                                        ELSE [@ EXCEPT !.stage = stage, !.held = r]]
<1>1. r \in Record
  BY DEF Record
<1>2. rows \in [Agent -> Record \cup {None}]
  BY <1>1 DEF RowsTyped
<1>3. execs \in [Agent -> Execution]
  <2>1. exec \in [Agent -> Execution]
    BY DEF RowsTyped
  <2> HIDE DEF r
  <2>2. CASE stage = "none"
    <3>1. NoExec \in Execution /\ execs = [exec EXCEPT ![a] = NoExec]
      BY <2>2 DEF NoExec, Execution
    <3>2. QED
      BY <2>1, <3>1
  <2>3. CASE stage = "closing"
    <3>1. [exec[a] EXCEPT !.stage = stage, !.held = r] \in Execution
      BY <1>1, <2>1, <2>3 DEF Execution
    <3>2. QED
      BY <2>1, <2>3, <3>1
  <2>4. QED
    BY <2>2, <2>3
<1>4. queue' \in Seq(Write) /\ last' \in [Agent -> Record \cup {None}]
  <2>1. CASE spec[a]
    <3>1. queue' = Append(queue, Save(a, r)) /\ last' = [last EXCEPT ![a] = r]
      BY <2>1 DEF updateRun, persist
    <3> HIDE DEF r
    <3>2. QED
      BY <1>1, <3>1, SaveType DEF RowsTyped
  <2>2. CASE ~spec[a]
    BY <2>2 DEF updateRun, RowsTyped
  <2>3. QED
    BY <2>1, <2>2
<1>5. row' \in [Agent -> Record \cup {None}] /\ exec' \in [Agent -> Execution]
  <2>1. PICK kept \in Cuts(rows) : row' = Keep(rows, kept) /\ exec' = Detach(execs, row')
    BY DEF updateRun
  <2> HIDE DEF rows, execs
  <2>2. QED
    BY <1>2, <1>3, <2>1, KeepType, DetachType
<1>6. timer' \subseteq Agent /\ awaited' \subseteq Agent
  BY DEF updateRun, RowsTyped
<1>7. QED
  BY <1>4, <1>5, <1>6 DEF RowsTyped

LEMMA LaunchType ==
  ASSUME RowsTyped, NEW a \in Agent, launches \in 0..MaxLaunches, launchRun(a),
         awaited' = awaited
  PROVE  RowsTyped' /\ launches' \in 0..MaxLaunches
<1> DEFINE r == [status |-> "active", launch |-> launches + 1]
<1>1. r \in Record /\ launches' \in 0..MaxLaunches
  BY RecordsAssumption DEF launchRun, Record, Status
<1>2. queue' \in Seq(Write)
  BY <1>1, SaveType DEF launchRun, persist, RowsTyped
<1>3. QED
  BY <1>1, <1>2 DEF launchRun, persist, RowsTyped, Execution

----------------------------------------------------------------------------
(***************************************************************************)
(* Every row that is active has its execution, and the other way round.    *)
(***************************************************************************)
LEMMA UpdateLive ==
  ASSUME RowsTyped, HoldsARow, ClosingIsOver, LiveRunsAreShown, NEW a \in Agent,
         Running(a), NEW status \in Status \ {"active"}, NEW stage \in {"none", "closing"},
         updateRun(a, status, stage), spec' = spec
  PROVE  HoldsARow' /\ ClosingIsOver' /\ LiveRunsAreShown'
<1> DEFINE r == [exec[a].held EXCEPT !.status = status]
           rows == IF exec[a].shared THEN [row EXCEPT ![a] = r] ELSE row
           execs == [exec EXCEPT ![a] = IF stage = "none" THEN NoExec
                                        ELSE [@ EXCEPT !.stage = stage, !.held = r]]
<1>1. r \in Record /\ ~isActive(r)
  BY DEF Record, HoldsARow, isActive
<1>2. PICK kept \in Cuts(rows) : row' = Keep(rows, kept) /\ exec' = Detach(execs, row')
  BY DEF updateRun
<1>3. ASSUME NEW b \in Agent, b # a
      PROVE  /\ rows[b] = row[b] /\ execs[b] = exec[b]
  BY <1>3 DEF RowsTyped
<1>4. /\ ~isActive(rows[a]) \/ rows[a] = None
      /\ execs[a].stage = stage
      /\ stage = "closing" => execs[a].held = r
  BY <1>1 DEF RowsTyped, Execution, NoExec, LiveRunsAreShown, Running
<1>5. \A b \in Agent : /\ exec'[b].stage = execs[b].stage
                       /\ exec'[b].held = execs[b].held
                       /\ exec'[b].shared = (execs[b].shared /\ row'[b] # None)
  <2>1. execs \in [Agent -> Execution]
    BY <1>1, EndedType, ZenonT(60) DEF RowsTyped
  <2> HIDE DEF execs
  <2>2. QED
    BY <1>2, <2>1, DetachKeeps
<1>6. \A b \in Agent : row'[b] = rows[b] \/ (row'[b] = None /\ ~isActive(rows[b]))
  BY <1>2 DEF Keep
<1> HIDE DEF r, rows, execs
<1>7. ASSUME NEW b \in Agent, b # a
      PROVE  /\ Running(b)' => exec'[b].held \in Record
             /\ exec'[b].stage = "closing" => ~isActive(exec'[b].held)
             /\ exec'[b].stage = "running" => /\ row'[b] = exec'[b].held /\ isActive(row'[b])
                                             /\ exec'[b].shared /\ spec'[b]
             /\ row'[b] # None /\ isActive(row'[b]) => exec'[b].stage = "running"
  <2>1. rows[b] = row[b] /\ execs[b] = exec[b]
    BY <1>3, <1>7
  <2>2. exec[b].stage = "running" => row[b] # None /\ isActive(row[b])
    BY NoneIsNoRecord DEF LiveRunsAreShown, HoldsARow, Running
  <2>3. exec'[b].stage = exec[b].stage /\ exec'[b].held = exec[b].held
    BY <1>5, <2>1
  <2>4. exec[b].stage = "running" => row'[b] = row[b] /\ exec'[b].shared
    BY <1>5, <1>6, <2>1, <2>2 DEF LiveRunsAreShown
  <2>5. row'[b] # None /\ isActive(row'[b]) => row[b] # None /\ isActive(row[b])
    BY <1>6, <2>1
  <2>6. QED
    BY <2>2, <2>3, <2>4, <2>5 DEF LiveRunsAreShown, HoldsARow, ClosingIsOver, Running
<1>8. /\ Running(a)' => exec'[a].held \in Record
      /\ exec'[a].stage = "closing" => ~isActive(exec'[a].held)
      /\ exec'[a].stage # "running"
      /\ ~(row'[a] # None /\ isActive(row'[a]))
  BY <1>1, <1>4, <1>5, <1>6 DEF Running
<1>9. QED
  BY <1>7, <1>8 DEF LiveRunsAreShown, HoldsARow, ClosingIsOver

\* A row that is over is dropped.
LEMMA DropLive ==
  ASSUME row \in [Agent -> Record \cup {None}], exec \in [Agent -> Execution], spec \in [Agent -> BOOLEAN],
         HoldsARow, ClosingIsOver, LiveRunsAreShown, NEW a \in Agent,
         row' = row \/ (row[a] # None /\ ~isActive(row[a]) /\ row' = [row EXCEPT ![a] = None]),
         spec' = spec \/ (row[a] # None /\ ~isActive(row[a]) /\ spec' = [spec EXCEPT ![a] = FALSE]),
         exec' = Detach(exec, row')
  PROVE  HoldsARow' /\ ClosingIsOver' /\ LiveRunsAreShown'
<1>1. \A b \in Agent : /\ exec'[b].stage = exec[b].stage
                       /\ exec'[b].held = exec[b].held
                       /\ exec'[b].shared = (exec[b].shared /\ row'[b] # None)
  BY DetachKeeps
<1>2. \A b \in Agent : exec[b].stage = "running" =>
        row'[b] = row[b] /\ spec'[b] = spec[b] /\ row[b] # None
  BY NoneIsNoRecord DEF LiveRunsAreShown, HoldsARow, Running
<1>3. \A b \in Agent : row'[b] # None => row'[b] = row[b]
  OBVIOUS
<1>4. QED
  BY <1>1, <1>2, <1>3 DEF LiveRunsAreShown, HoldsARow, ClosingIsOver, Running

LEMMA LaunchLive ==
  ASSUME RowsTyped, HoldsARow, ClosingIsOver, LiveRunsAreShown, NEW a \in Agent,
         launches \in 0..MaxLaunches, launchRun(a)
  PROVE  HoldsARow' /\ ClosingIsOver' /\ LiveRunsAreShown'
<1> DEFINE r == [status |-> "active", launch |-> launches + 1]
<1>1. r \in Record /\ isActive(r)
  BY RecordsAssumption DEF launchRun, Record, Status, isActive
<1>2. /\ row' = [row EXCEPT ![a] = r] /\ spec' = [spec EXCEPT ![a] = TRUE]
      /\ exec' = [exec EXCEPT ![a] = [stage |-> "running", held |-> r, shared |-> TRUE]]
  BY DEF launchRun
<1> HIDE DEF r
<1>3. QED
  BY <1>1, <1>2 DEF RowsTyped, HoldsARow, ClosingIsOver, LiveRunsAreShown, Running

----------------------------------------------------------------------------
Inv == TypeOK /\ HoldsARow /\ ClosingIsOver /\ LiveRunsAreShown

LEMMA TypedRows == TypeOK => RowsTyped
  BY DEF TypeOK, RowsTyped

LEMMA InitInv == Init => Inv
<1> SUFFICES ASSUME Init PROVE Inv
  OBVIOUS
<1>1. TypeOK
  BY RecordsAssumption DEF Init, TypeOK, NoExec, Execution, Call
<1>2. QED
  BY <1>1 DEF Init, Inv, HoldsARow, ClosingIsOver, LiveRunsAreShown, NoExec, Running

\* The end of an update that changes no row but by updateRun.
LEMMA UpdateStep ==
  ASSUME Inv, NEW a \in Agent, Running(a),
         NEW status \in Status \ {"active"}, NEW stage \in {"none", "closing"},
         updateRun(a, status, stage),
         UNCHANGED <<spec, disk, call, manager, flush, gone, lost, late, launches>>,
         faults' \in 0..MaxFaults
  PROVE  Inv'
<1>1. exec[a].held \in Record /\ RowsTyped
  BY TypedRows DEF Inv, HoldsARow
<1>2. RowsTyped'
  BY <1>1, UpdateType
<1>3. HoldsARow' /\ ClosingIsOver' /\ LiveRunsAreShown'
  BY <1>1, UpdateLive DEF Inv
<1>4. QED
  BY <1>2, <1>3 DEF Inv, TypeOK, RowsTyped

\* A launch that changes nothing else that the invariant is about.
LEMMA LaunchStep ==
  ASSUME Inv, NEW a \in Agent, launchRun(a), UNCHANGED <<disk, closing, lost, faults>>,
         call' \in [Caller -> Call]
  PROVE  Inv'
<1>1. RowsTyped /\ launches \in 0..MaxLaunches /\ awaited' = awaited
  BY TypedRows DEF Inv, TypeOK, closing
<1>2. RowsTyped' /\ launches' \in 0..MaxLaunches
  BY <1>1, LaunchType
<1>3. HoldsARow' /\ ClosingIsOver' /\ LiveRunsAreShown'
  BY <1>1, LaunchLive DEF Inv
<1>4. gone' \subseteq Agent /\ late' \subseteq Agent
  BY DEF launchRun, Inv, TypeOK
<1>5. QED
  BY <1>2, <1>3, <1>4 DEF Inv, TypeOK, RowsTyped, closing

LEMMA NextInv == Inv /\ [Next]_vars => Inv'
<1> SUFFICES ASSUME Inv, [Next]_vars PROVE Inv'
  OBVIOUS
<1>0. MaxFaults \in Nat /\ MaxLaunches \in Nat /\ faults \in 0..MaxFaults
  BY RecordsAssumption DEF Inv, TypeOK
<1>1. CASE UNCHANGED vars
  BY <1>1 DEF vars, memory, closing, history, Inv, TypeOK, HoldsARow, ClosingIsOver,
              LiveRunsAreShown, Running
<1>2. ASSUME NEW a \in Agent, Spawn(a) PROVE Inv'
  <2>1. call' \in [Caller -> Call]
    BY <1>2 DEF Spawn, Inv, TypeOK
  <2>2. QED
    BY <1>2, <2>1, LaunchStep DEF Spawn
<1>3. ASSUME NEW a \in Agent, Resume(a) PROVE Inv'
  <2>1. call' \in [Caller -> Call]
    BY <1>3 DEF Resume, Inv, TypeOK
  <2>2. QED
    BY <1>3, <2>1, LaunchStep DEF Resume
<1>4. ASSUME NEW a \in Agent, Delivers(a) PROVE Inv'
  BY <1>0, <1>4, UpdateStep DEF Delivers, Running, Status
<1>5. ASSUME NEW a \in Agent, Fails(a) PROVE Inv'
  BY <1>0, <1>5, UpdateStep DEF Fails, Running, Status
<1>6. ASSUME NEW a \in Agent, CloseFails(a) PROVE Inv'
  <2>1. faults' \in 0..MaxFaults
    BY <1>0, <1>6 DEF CloseFails, Fault
  <2>2. QED
    BY <1>6, <2>1, UpdateStep DEF CloseFails, Running, Status
<1>7. ASSUME NEW a \in Agent, CloseEnds(a) PROVE Inv'
  <2>1. TypeOK'
    BY <1>7 DEF CloseEnds, Inv, TypeOK, Execution, NoExec, history
  <2>2. HoldsARow' /\ ClosingIsOver' /\ LiveRunsAreShown'
    BY <1>7 DEF CloseEnds, Inv, TypeOK, HoldsARow, ClosingIsOver, LiveRunsAreShown, Running, NoExec
  <2>3. QED
    BY <2>1, <2>2 DEF Inv
<1>8. ASSUME NEW a \in Agent, TimerFires(a) PROVE Inv'
  <2>1. TypeOK'
    <3>1. row' \in [Agent -> Record \cup {None}] /\ timer' \subseteq Agent
      BY <1>8 DEF TimerFires, Inv, TypeOK
    <3>2. exec' \in [Agent -> Execution]
      BY <1>8, DetachType DEF TimerFires, Inv, TypeOK
    <3>3. QED
      BY <1>8, <3>1, <3>2 DEF TimerFires, Inv, TypeOK, history, closing
  <2>2. HoldsARow' /\ ClosingIsOver' /\ LiveRunsAreShown'
    BY <1>8, DropLive DEF TimerFires, Over, Inv, TypeOK
  <2>3. QED
    BY <2>1, <2>2 DEF Inv
<1>9. ASSUME NEW a \in Agent, Dismiss(a) PROVE Inv'
  <2>1. TypeOK'
    <3>1. row' \in [Agent -> Record \cup {None}] /\ spec' \in [Agent -> BOOLEAN]
          /\ timer' \subseteq Agent /\ gone' \subseteq Agent
      BY <1>9 DEF Dismiss, Inv, TypeOK
    <3>2. exec' \in [Agent -> Execution]
      BY <1>9, DetachType DEF Dismiss, Inv, TypeOK
    <3>3. queue' \in Seq(Write)
      <4>1. [kind |-> "dismiss", agent |-> a, run |-> None] \in Write
        BY DEF Write
      <4>2. queue \in Seq(Write)
        BY DEF Inv, TypeOK
      <4>3. QED
        BY <1>9, <4>1, <4>2, AppendProperties DEF Dismiss
    <3>4. QED
      BY <1>9, <3>1, <3>2, <3>3 DEF Dismiss, Inv, TypeOK, closing
  <2>2. HoldsARow' /\ ClosingIsOver' /\ LiveRunsAreShown'
    BY <1>9, DropLive DEF Dismiss, dismissable, Over, Inv, TypeOK
  <2>3. QED
    BY <2>1, <2>2 DEF Inv
<1>10. ASSUME NEW c \in Caller, NEW a \in Agent, Ask(c, a) PROVE Inv'
  BY <1>10 DEF Ask, Inv, TypeOK, Call, history, closing, HoldsARow, ClosingIsOver,
               LiveRunsAreShown, Running
<1>11. ASSUME NEW c \in Caller, ReadFile(c) PROVE Inv'
  <2>1. call' \in [Caller -> Call] /\ faults' \in 0..MaxFaults
    <3> DEFINE Reading == [stage: {"reading", "read"}, agent: Agent, found: Stored \cup {None}]
    <3>1. call \in [Caller -> Call] /\ disk \in [Agent -> Stored \cup {None}]
          /\ faults \in 0..MaxFaults
      BY DEF Inv, TypeOK
    <3>2. call[c] \in Reading /\ Reading \subseteq Call
      BY <1>11, <3>1 DEF ReadFile, Call, Idle
    <3>3. /\ [call[c] EXCEPT !.stage = "read"] \in Reading
          /\ [call[c] EXCEPT !.stage = "read", !.found = disk[call[c].agent]] \in Reading
      BY <3>1, <3>2
    <3> HIDE DEF Reading
    <3>4. \/ call' = [call EXCEPT ![c] = [call[c] EXCEPT !.stage = "read"]]
          \/ call' = [call EXCEPT ![c] =
                        [call[c] EXCEPT !.stage = "read", !.found = disk[call[c].agent]]]
      BY <1>11, <3>1 DEF ReadFile
    <3>5. call' \in [Caller -> Call]
      BY <3>1, <3>2, <3>3, <3>4
    <3>6. faults' \in 0..MaxFaults
      BY <1>0, <1>11, <3>1 DEF ReadFile, Fault
    <3>7. QED
      BY <3>5, <3>6
  <2>2. QED
    BY <1>11, <2>1 DEF ReadFile, Inv, TypeOK, history, closing, HoldsARow, ClosingIsOver,
               LiveRunsAreShown, Running
<1>12. ASSUME NEW c \in Caller, Adopt(c) PROVE Inv'
  <2> DEFINE a == call[c].agent
             found == call[c].found
  <2>1. a \in Agent /\ found \in Stored \cup {None} /\ call' \in [Caller -> Call]
    BY <1>12 DEF Adopt, Inv, TypeOK, Call, Idle
  <2>2. CASE ~adopts(a, found)
    BY <1>12, <2>1, <2>2 DEF Adopt, Inv, TypeOK, closing, HoldsARow, ClosingIsOver,
               LiveRunsAreShown, Running
  <2>3. CASE adopts(a, found)
    <3>1. /\ row' = [row EXCEPT ![a] = Settled(found.run)]
          /\ spec' = [spec EXCEPT ![a] = TRUE] /\ timer' = timer \cup {a}
          /\ exec' = [exec EXCEPT ![a].shared = FALSE] /\ gone' = gone \ {a}
      BY <1>12, <2>3 DEF Adopt
    <3>2. Settled(found.run) \in Record /\ ~isActive(Settled(found.run))
      BY <2>1, <2>3, SettledType DEF adopts, Stored
    <3>3. exec[a].stage # "running"
      BY <2>1, <2>3, NoneIsNoRecord DEF adopts, Inv, LiveRunsAreShown, HoldsARow, Running
    <3> HIDE DEF a, found
    <3>4. TypeOK'
      <4>1. exec' \in [Agent -> Execution]
        <5>1. exec \in [Agent -> Execution]
          BY DEF Inv, TypeOK
        <5>2. [exec[a] EXCEPT !.shared = FALSE] \in Execution
          BY <2>1, <5>1 DEF Execution
        <5>3. QED
          BY <3>1, <5>1, <5>2
      <4>2. /\ row' \in [Agent -> Record \cup {None}] /\ spec' \in [Agent -> BOOLEAN]
            /\ timer' \subseteq Agent /\ gone' \subseteq Agent
        BY <2>1, <3>1, <3>2 DEF Inv, TypeOK
      <4>3. QED
        BY <1>12, <2>1, <4>1, <4>2 DEF Adopt, Inv, TypeOK, closing
    <3>5. HoldsARow' /\ ClosingIsOver' /\ LiveRunsAreShown'
      BY <2>1, <3>1, <3>2, <3>3 DEF Inv, TypeOK, Execution, HoldsARow, ClosingIsOver,
         LiveRunsAreShown, Running
    <3>6. QED
      BY <3>4, <3>5 DEF Inv
  <2>4. QED
    BY <2>2, <2>3
<1>13. ASSUME NEW c \in Caller, ResumeRead(c) PROVE Inv'
  <2> DEFINE a == call[c].agent
             r == Resumable(a, call[c].found)
  <2>1. a \in Agent /\ call' \in [Caller -> Call]
    BY <1>13 DEF ResumeRead, Inv, TypeOK, Call, Idle
  <2>2. CASE resumable(a, r)
    <3>1. launchRun(a) /\ UNCHANGED <<disk, closing, lost, faults>>
      BY <1>13, <2>2 DEF ResumeRead
    <3> HIDE DEF a
    <3>2. QED
      BY <2>1, <3>1, LaunchStep
  <2>3. CASE ~resumable(a, r)
    BY <1>13, <2>1, <2>3 DEF ResumeRead, Inv, TypeOK, closing, HoldsARow, ClosingIsOver,
               LiveRunsAreShown, Running
  <2>4. QED
    BY <2>2, <2>3
<1>14. CASE WriteFile
  <2>1. queue' \in Seq(Write) /\ flush' \in Nat
    BY <1>14 DEF WriteFile, Flushed, Inv, TypeOK
  <2>2. disk' \in [Agent -> Stored \cup {None}] /\ lost' \subseteq Agent
    <3>1. Head(queue) \in Write
      BY <1>14 DEF WriteFile, Inv, TypeOK
    <3>2. disk[Head(queue).agent] \in Stored \cup {None}
      BY <3>1 DEF Write, Inv, TypeOK
    <3>3. /\ Head(queue).kind = "save" => Head(queue).run \in Record
          /\ Head(queue).agent \in Agent
      BY <3>1 DEF Write
    <3>4. disk' \in [Agent -> Stored \cup {None}]
      BY <1>14, <3>2, <3>3 DEF WriteFile, Inv, TypeOK, Stored
    <3>5. QED
      BY <1>14, <3>3, <3>4 DEF WriteFile, Inv, TypeOK
  <2>3. QED
    BY <1>14, <2>1, <2>2 DEF WriteFile, memory, Inv, TypeOK, HoldsARow, ClosingIsOver,
       LiveRunsAreShown, Running
<1>15. CASE WriteFails
  <2>1. queue' \in Seq(Write) /\ flush' \in Nat /\ lost' \subseteq Agent /\ faults' \in 0..MaxFaults
    <3>1. Head(queue) \in Write /\ queue' \in Seq(Write)
      BY <1>15 DEF WriteFails, Inv, TypeOK
    <3>2. Head(queue).agent \in Agent
      BY <3>1 DEF Write
    <3>3. QED
      BY <1>0, <1>15, <3>1, <3>2 DEF WriteFails, Flushed, Inv, TypeOK, Fault
  <2>2. QED
    BY <1>15, <2>1 DEF WriteFails, memory, Inv, TypeOK, HoldsARow, ClosingIsOver,
       LiveRunsAreShown, Running
<1>16. CASE Dispose
  BY <1>0, <1>16 DEF Dispose, Fault, memory, history, Inv, TypeOK, HoldsARow, ClosingIsOver,
     LiveRunsAreShown, Running
<1>17. CASE RunsOver
  BY <1>17 DEF RunsOver, memory, history, Inv, TypeOK, HoldsARow, ClosingIsOver,
     LiveRunsAreShown, Running
<1>18. CASE DisposeEnds
  BY <1>18 DEF DisposeEnds, history, Inv, TypeOK, HoldsARow, ClosingIsOver,
     LiveRunsAreShown, Running
<1>19. CASE Crash
  <2>1. TypeOK'
    BY <1>0, <1>19 DEF Crash, Fault, history, Inv, TypeOK, NoExec, Execution, Call
  <2>2. QED
    BY <1>19, <2>1 DEF Crash, Inv, HoldsARow, ClosingIsOver, LiveRunsAreShown, NoExec, Running
<1>20. CASE Reopen
  <2> DEFINE found == [a \in Agent |-> IF Kept(a) THEN Settled(disk[a].run) ELSE None]
  <2>1. found \in [Agent -> Record \cup {None}]
        /\ \A a \in Agent : found[a] # None => ~isActive(found[a])
    BY SettledType DEF Kept, Inv, TypeOK, Stored
  <2>2. \A a \in Agent : ~Running(a)
    BY <1>20 DEF Reopen
  <2>3. PICK kept \in Cuts(found) :
          /\ row' = Keep(found, kept)
          /\ timer' = {a \in Agent : row'[a] # None}
    BY <1>20 DEF Reopen
  <2>4. disk' \in [Agent -> Stored \cup {None}] /\ last' \in [Agent -> Record \cup {None}]
    <3>1. /\ disk' = [a \in Agent |-> IF Kept(a) THEN [disk[a] EXCEPT !.run = found[a]] ELSE disk[a]]
          /\ last' = [a \in Agent |-> IF Kept(a) THEN found[a] ELSE last[a]]
      BY <1>20 DEF Reopen
    <3>2. \A a \in Agent : Kept(a) => found[a] \in Record
      BY SettledType DEF Kept, Inv, TypeOK, Stored
    <3> HIDE DEF found
    <3>3. QED
      BY <2>1, <3>1, <3>2 DEF Kept, Inv, TypeOK, Stored
  <2>5. row' \in [Agent -> Record \cup {None}]
        /\ \A a \in Agent : row'[a] # None => ~isActive(row'[a])
    <3> HIDE DEF found
    <3>1. QED
      BY <2>1, <2>3, KeepType DEF Keep
  <2>6. TypeOK'
    <3>1. call' \in [Caller -> Call] /\ spec' \in [Agent -> BOOLEAN]
      BY <1>20 DEF Reopen, Call, Kept
    <3>2. timer' \subseteq Agent /\ gone' \subseteq Agent
      BY <1>20, <2>3 DEF Reopen, Inv, TypeOK
    <3>3. QED
      BY <1>20, <2>4, <2>5, <3>1, <3>2 DEF Reopen, Inv, TypeOK
  <2>7. HoldsARow' /\ ClosingIsOver' /\ LiveRunsAreShown'
    <3>1. exec' = exec
      BY <1>20 DEF Reopen
    <3>2. \A a \in Agent : exec[a].stage = "none"
      BY <2>2 DEF Running
    <3>3. QED
      BY <2>5, <3>1, <3>2 DEF HoldsARow, ClosingIsOver, LiveRunsAreShown, Running
  <2>8. QED
    BY <2>6, <2>7 DEF Inv
<1>21. QED
  BY <1>1, <1>2, <1>3, <1>4, <1>5, <1>6, <1>7, <1>8, <1>9, <1>10, <1>11, <1>12, <1>13, <1>14,
     <1>15, <1>16, <1>17, <1>18, <1>19, <1>20 DEF Next

\* Every variable keeps its type.
THEOREM TypeCorrect == Spec => []TypeOK
<1>1. Inv => TypeOK
  BY DEF Inv
<1>2. QED
  BY <1>1, InitInv, NextInv, PTL DEF Spec

\* resolveRun may rely on "a live run is never absent from memory".
THEOREM LiveRunsShown == Spec => []LiveRunsAreShown
<1>1. Inv => LiveRunsAreShown
  BY DEF Inv
<1>2. QED
  BY <1>1, InitInv, NextInv, PTL DEF Spec
----------------------------------------------------------------------------
(***************************************************************************)
(* The records run behind the rows: what is last in the queue, or on disk  *)
(* when nothing is queued, is what was last handed to persist.             *)
(***************************************************************************)
Writes(a) == {i \in DOMAIN queue : queue[i].agent = a}
Saves(a) == {i \in Writes(a) : queue[i].kind = "save"}

LastSaved(a) == \A i \in Saves(a) : queue[i].run = last[a] \/ \E j \in Saves(a) : j > i
OnDisk(a) == manager # "dead" /\ a \notin lost /\ Kept(a) /\ Saves(a) = {} =>
                disk[a].run = last[a]

\* What was last written as active is running, unless a dismissal hides it.
LastIsLive(a) == manager # "dead" /\ last[a] # None /\ isActive(last[a])
                    /\ (Kept(a) \/ Saves(a) # {}) => exec[a].stage = "running"

\* A row that is dismissed is not written again, and its last write says so.
StaysGone(a) == a \in gone =>
    /\ ~spec[a]
    /\ \A i \in Writes(a) : queue[i].kind = "dismiss" \/ \E j \in Writes(a) : j > i
    /\ manager # "dead" /\ a \notin lost /\ Writes(a) = {} => ~Kept(a)

Behind(a) == LastSaved(a) /\ OnDisk(a) /\ LastIsLive(a) /\ StaysGone(a)
AllBehind == \A a \in Agent : Behind(a)

LEMMA QueueGrows ==
  ASSUME queue \in Seq(Write), NEW w \in Write, queue' = Append(queue, w)
  PROVE  /\ DOMAIN queue' = DOMAIN queue \cup {Len(queue) + 1}
         /\ \A i \in DOMAIN queue : queue'[i] = queue[i] /\ i < Len(queue) + 1
         /\ queue'[Len(queue) + 1] = w
<1>1. /\ Len(queue) \in Nat /\ DOMAIN queue = 1..Len(queue) /\ queue' \in Seq(Write)
      /\ Len(queue') = Len(queue) + 1
      /\ \A i \in 1..Len(queue) : queue'[i] = queue[i]
      /\ queue'[Len(queue) + 1] = w
  BY AppendProperties, LenProperties
<1>2. DOMAIN queue' = 1..(Len(queue) + 1)
  BY <1>1, LenProperties
<1> QED
  BY <1>1, <1>2

LEMMA QueueShrinks ==
  ASSUME queue \in Seq(Write), queue # <<>>, queue' = Tail(queue)
  PROVE  /\ 1 \in DOMAIN queue /\ Head(queue) = queue[1] /\ Head(queue) \in Write
         /\ \A i \in DOMAIN queue : i \in Nat \ {0}
         /\ \A i \in DOMAIN queue' : i \in Nat /\ i + 1 \in DOMAIN queue /\ queue'[i] = queue[i + 1]
         /\ \A i \in DOMAIN queue : i > 1 => i - 1 \in DOMAIN queue' /\ queue'[i - 1] = queue[i]
<1>1. /\ Head(queue) = queue[1] /\ Len(queue) \in Nat /\ DOMAIN queue = 1..Len(queue)
      /\ Len(queue) # 0 /\ Head(queue) \in Write
      /\ Tail(queue) \in Seq(Write) /\ Len(Tail(queue)) = Len(queue) - 1
      /\ \A i \in 1..Len(Tail(queue)) : Tail(queue)[i] = queue[i + 1]
  BY HeadTailProperties, LenProperties, EmptySeq
<1>2. DOMAIN Tail(queue) = 1..Len(Tail(queue))
  BY <1>1, LenProperties
<1>3. DOMAIN queue' = 1..(Len(queue) - 1)
  BY <1>1, <1>2
<1>4. \A i \in DOMAIN queue : i > 1 => i - 1 \in 1..(Len(queue) - 1) /\ (i - 1) + 1 = i
  BY <1>1
<1> QED
  BY <1>1, <1>3, <1>4

\* Nothing is queued or written; no run stops; what is gone stays or comes back.
LEMMA QuietBehind ==
  ASSUME AllBehind, UNCHANGED <<queue, disk, last, lost>>, manager = "dead" => manager' = "dead",
         \A a \in Agent : exec[a].stage = "running" => exec'[a].stage = "running",
         gone' \subseteq gone, \A a \in gone' : ~spec'[a]
  PROVE  AllBehind'
<1> SUFFICES ASSUME NEW a \in Agent PROVE Behind(a)'
  BY DEF AllBehind
<1>1. Behind(a)
  BY DEF AllBehind
<1>2. /\ Writes(a)' = Writes(a) /\ Saves(a)' = Saves(a) /\ (Kept(a)' <=> Kept(a))
  BY DEF Writes, Saves, Kept
<1>3. LastSaved(a)' /\ OnDisk(a)'
  BY <1>1, <1>2 DEF Behind, LastSaved, OnDisk
<1>4. LastIsLive(a)'
  BY <1>1, <1>2 DEF Behind, LastIsLive
<1>5. StaysGone(a)'
  BY <1>1, <1>2 DEF Behind, StaysGone
<1> QED
  BY <1>3, <1>4, <1>5 DEF Behind

\* The row a is written behind the others: what is active runs.
LEMMA PersistBehind ==
  ASSUME AllBehind, queue \in Seq(Write), last \in [Agent -> Record \cup {None}],
         NEW a \in Agent, NEW r \in Record,
         persist(a, r), UNCHANGED <<disk, lost, manager>>,
         isActive(r) => exec'[a].stage = "running",
         \A b \in Agent \ {a} : exec'[b].stage = exec[b].stage /\ spec'[b] = spec[b],
         gone' \subseteq gone \ {a}
  PROVE  AllBehind'
<1>1. /\ queue' = Append(queue, Save(a, r)) /\ Save(a, r) \in Write
      /\ last' = [last EXCEPT ![a] = r]
  BY SaveType DEF persist
<1> DEFINE n == Len(queue) + 1
<1>2. /\ DOMAIN queue' = DOMAIN queue \cup {n}
      /\ \A i \in DOMAIN queue : queue'[i] = queue[i] /\ i < n
      /\ queue'[n] = Save(a, r)
  BY <1>1, QueueGrows
<1> HIDE DEF n
<1>3. Save(a, r).agent = a /\ Save(a, r).kind = "save" /\ Save(a, r).run = r
  BY DEF Save
<1>4. \A b \in Agent : (Kept(b)' <=> Kept(b))
  BY DEF Kept
<1>5. ASSUME NEW b \in Agent \ {a} PROVE Behind(b)'
  <2>1. Writes(b)' = Writes(b) /\ \A i \in Writes(b) : queue'[i] = queue[i]
    BY <1>2, <1>3 DEF Writes
  <2>2. Saves(b)' = Saves(b) /\ Saves(b) \subseteq Writes(b)
    BY <2>1 DEF Saves
  <2>3. last'[b] = last[b] /\ Behind(b)
    BY <1>1 DEF AllBehind
  <2>4. LastSaved(b)' /\ OnDisk(b)'
    BY <1>4, <2>1, <2>2, <2>3 DEF Behind, LastSaved, OnDisk
  <2>5. LastIsLive(b)'
    BY <1>4, <2>2, <2>3 DEF Behind, LastIsLive
  <2>6. StaysGone(b)'
    BY <1>4, <2>1, <2>3 DEF Behind, StaysGone
  <2> QED
    BY <2>4, <2>5, <2>6 DEF Behind
<1>6. Behind(a)'
  <2>1. last'[a] = r /\ n \in Saves(a)'
    BY <1>1, <1>2, <1>3 DEF Saves, Writes
  <2>2. LastSaved(a)'
    <3>1. ASSUME NEW i \in Saves(a)' PROVE queue'[i].run = last'[a] \/ \E j \in Saves(a)' : j > i
      <4>1. i = n \/ i < n
        BY <1>2 DEF Saves, Writes
      <4> QED
        BY <1>2, <1>3, <2>1, <4>1
    <3> QED
      BY <3>1 DEF LastSaved
  <2>3. OnDisk(a)'
    BY <2>1 DEF OnDisk
  <2>4. LastIsLive(a)'
    BY <2>1 DEF LastIsLive
  <2>5. StaysGone(a)'
    BY DEF StaysGone
  <2> QED
    BY <2>2, <2>3, <2>4, <2>5 DEF Behind
<1> QED
  BY <1>5, <1>6 DEF AllBehind

LEMMA UpdateBehind ==
  ASSUME Inv, AllBehind, NEW a \in Agent, Running(a),
         NEW status \in Status \ {"active"}, NEW stage \in {"none", "closing"},
         updateRun(a, status, stage), UNCHANGED <<spec, disk, manager, gone, lost>>
  PROVE  AllBehind'
<1> DEFINE r == [exec[a].held EXCEPT !.status = status]
<1>1. /\ exec[a].held \in Record /\ RowsTyped /\ queue \in Seq(Write)
      /\ last \in [Agent -> Record \cup {None}] /\ exec \in [Agent -> Execution]
  BY TypedRows DEF Inv, HoldsARow, RowsTyped
<1>2. r \in Record /\ ~isActive(r)
  BY <1>1 DEF Record, isActive
<1>3. \A b \in Agent \ {a} : exec'[b].stage = exec[b].stage
  <2> DEFINE execs == [exec EXCEPT ![a] = IF stage = "none" THEN NoExec
                                          ELSE [@ EXCEPT !.stage = stage, !.held = r]]
  <2>1. exec' = Detach(execs, row')
    BY DEF updateRun
  <2>2. execs \in [Agent -> Execution]
    BY <1>1, <1>2, EndedType, ZenonT(60)
  <2>3. \A b \in Agent \ {a} : execs[b] = exec[b]
    BY <1>1
  <2> HIDE DEF execs
  <2> QED
    BY <2>1, <2>2, <2>3, DetachKeeps
<1> HIDE DEF r
<1>4. CASE spec[a]
  <2>1. persist(a, r)
    BY <1>4 DEF updateRun, r
  <2>2. a \notin gone
    BY <1>4 DEF AllBehind, Behind, StaysGone
  <2> QED
    BY <1>1, <1>2, <1>3, <2>1, <2>2, PersistBehind
<1>5. CASE ~spec[a]
  <2>1. UNCHANGED <<queue, last>>
    BY <1>5 DEF updateRun
  <2>2. exec[a].stage # "running"
    BY <1>5 DEF Inv, LiveRunsAreShown
  <2>3. \A b \in Agent : exec[b].stage = "running" => exec'[b].stage = "running"
    BY <1>3, <2>2
  <2>4. \A b \in gone : ~spec[b]
    BY DEF AllBehind, Behind, StaysGone, Inv, TypeOK
  <2> QED
    BY <2>1, <2>3, <2>4, QuietBehind
<1> QED
  BY <1>4, <1>5

LEMMA LaunchBehind ==
  ASSUME Inv, AllBehind, NEW a \in Agent, launchRun(a), UNCHANGED <<disk, manager, lost>>
  PROVE  AllBehind'
<1> DEFINE r == [status |-> "active", launch |-> launches + 1]
<1>1. r \in Record
  BY RecordsAssumption DEF launchRun, Record, Status, Inv, TypeOK
<1>2. persist(a, r)
  BY DEF launchRun
<1>3. /\ queue \in Seq(Write) /\ last \in [Agent -> Record \cup {None}]
      /\ exec \in [Agent -> Execution] /\ spec \in [Agent -> BOOLEAN]
  BY DEF Inv, TypeOK
<1> HIDE DEF r
<1>4. /\ exec'[a].stage = "running"
      /\ \A b \in Agent \ {a} : exec'[b].stage = exec[b].stage /\ spec'[b] = spec[b]
  BY <1>3 DEF launchRun
<1>5. gone' \subseteq gone \ {a}
  BY DEF launchRun
<1> QED
  BY <1>1, <1>2, <1>3, <1>4, <1>5, PersistBehind

LEMMA DismissBehind ==
  ASSUME Inv, AllBehind, NEW a \in Agent, Dismiss(a) PROVE AllBehind'
<1> DEFINE w == [kind |-> "dismiss", agent |-> a, run |-> None]
           n == Len(queue) + 1
<1>1. /\ queue' = Append(queue, w) /\ w \in Write /\ queue \in Seq(Write)
      /\ gone' = gone \cup {a} /\ spec' = [spec EXCEPT ![a] = FALSE]
      /\ spec \in [Agent -> BOOLEAN]
      /\ UNCHANGED <<disk, last, lost, manager>>
  BY DEF Dismiss, Write, closing, Inv, TypeOK
<1>2. /\ DOMAIN queue' = DOMAIN queue \cup {n}
      /\ \A i \in DOMAIN queue : queue'[i] = queue[i] /\ i < n
      /\ queue'[n] = w
  BY <1>1, QueueGrows
<1>3. \A b \in Agent : exec'[b].stage = exec[b].stage
  <2>1. exec \in [Agent -> Execution] /\ exec' = Detach(exec, row')
    BY DEF Inv, TypeOK, Dismiss
  <2> QED
    BY <2>1, DetachKeeps
<1>4. w.agent = a /\ w.kind = "dismiss"
  OBVIOUS
<1> HIDE DEF w, n
<1>5. \A b \in Agent : (Kept(b)' <=> Kept(b))
  BY <1>1 DEF Kept
<1>6. \A b \in Agent : Saves(b)' = Saves(b) /\ \A i \in Saves(b) : queue'[i] = queue[i]
  BY <1>2, <1>4 DEF Saves, Writes
<1>7. ASSUME NEW b \in Agent PROVE LastSaved(b)' /\ OnDisk(b)' /\ LastIsLive(b)'
  <2>1. Behind(b)
    BY DEF AllBehind
  <2>2. LastSaved(b)' /\ OnDisk(b)'
    BY <1>1, <1>5, <1>6, <2>1 DEF Behind, LastSaved, OnDisk
  <2>3. LastIsLive(b)'
    BY <1>1, <1>3, <1>5, <1>6, <2>1 DEF Behind, LastIsLive
  <2> QED
    BY <2>2, <2>3
<1>8. ASSUME NEW b \in Agent \ {a} PROVE StaysGone(b)'
  <2>1. Writes(b)' = Writes(b) /\ \A i \in Writes(b) : queue'[i] = queue[i]
    BY <1>2, <1>4 DEF Writes
  <2>2. b \in gone' <=> b \in gone
    BY <1>1
  <2>3. spec'[b] = spec[b] /\ Behind(b)
    BY <1>1 DEF AllBehind
  <2> QED
    BY <1>1, <1>5, <2>1, <2>2, <2>3 DEF Behind, StaysGone
<1>9. StaysGone(a)'
  <2>1. ~spec'[a] /\ n \in Writes(a)'
    BY <1>1, <1>2, <1>4 DEF Writes
  <2>2. ASSUME NEW i \in Writes(a)' PROVE queue'[i].kind = "dismiss" \/ \E j \in Writes(a)' : j > i
    <3>1. i = n \/ i < n
      BY <1>2 DEF Writes
    <3> QED
      BY <1>2, <1>4, <2>1, <3>1
  <2> QED
    BY <2>1, <2>2 DEF StaysGone
<1> QED
  BY <1>7, <1>8, <1>9 DEF AllBehind, Behind

\* The oldest write leaves the queue, done or not.
LEMMA Shifted ==
  ASSUME queue \in Seq(Write), queue # <<>>, queue' = Tail(queue), last' = last
  PROVE  /\ \A b \in Agent : LastSaved(b) => LastSaved(b)'
         /\ \A b \in Agent : \A i \in Writes(b) : i > 1 => i - 1 \in Writes(b)'
         /\ \A b \in Agent : \A i \in Saves(b) : i > 1 => i - 1 \in Saves(b)'
         /\ \A b \in Agent : \A i \in Writes(b)' :
               i + 1 \in Writes(b) /\ queue'[i] = queue[i + 1] /\ i \in Nat
         /\ \A b \in Agent : \A i \in Saves(b)' : i + 1 \in Saves(b)
         /\ \A b \in Agent : Writes(b) \subseteq Nat \ {0}
<1>1. /\ \A i \in DOMAIN queue : i \in Nat \ {0}
      /\ \A i \in DOMAIN queue' : i \in Nat /\ i + 1 \in DOMAIN queue /\ queue'[i] = queue[i + 1]
      /\ \A i \in DOMAIN queue : i > 1 => i - 1 \in DOMAIN queue' /\ queue'[i - 1] = queue[i]
  BY QueueShrinks
<1>2. /\ \A b \in Agent : \A i \in Writes(b) : i > 1 => i - 1 \in Writes(b)'
      /\ \A b \in Agent : \A i \in Saves(b) : i > 1 => i - 1 \in Saves(b)'
  BY <1>1 DEF Writes, Saves
<1>3. /\ \A b \in Agent : \A i \in Writes(b)' :
            i + 1 \in Writes(b) /\ queue'[i] = queue[i + 1] /\ i \in Nat
      /\ \A b \in Agent : \A i \in Saves(b)' : i + 1 \in Saves(b)
      /\ \A b \in Agent : Writes(b) \subseteq Nat \ {0} /\ Saves(b) \subseteq Nat
      /\ \A b \in Agent : \A i \in Saves(b)' : i \in Writes(b)'
  BY <1>1 DEF Writes, Saves
<1>4. ASSUME NEW b \in Agent, LastSaved(b), NEW i \in Saves(b)'
      PROVE  queue'[i].run = last'[b] \/ \E j \in Saves(b)' : j > i
  <2>1. i + 1 \in Saves(b) /\ queue'[i] = queue[i + 1] /\ i \in Nat
    BY <1>3
  <2>2. CASE queue[i + 1].run = last[b]
    BY <2>1, <2>2
  <2>3. CASE queue[i + 1].run # last[b]
    <3>1. PICK j \in Saves(b) : j > i + 1
      BY <1>4, <2>1, <2>3 DEF LastSaved
    <3>2. j \in Nat /\ j - 1 \in Saves(b)' /\ j - 1 > i
      BY <1>2, <1>3, <2>1, <3>1
    <3> QED
      BY <3>2
  <2> QED
    BY <2>2, <2>3
<1>5. \A b \in Agent : LastSaved(b) => LastSaved(b)'
  BY <1>4 DEF LastSaved
<1> QED
  BY <1>2, <1>3, <1>5

LEMMA WriteFileBehind ==
  ASSUME Inv, AllBehind, WriteFile PROVE AllBehind'
<1> DEFINE w == Head(queue)
<1>0. PICK a \in Agent : a = w.agent
  <2>1. w \in Write
    BY DEF WriteFile, Inv, TypeOK
  <2> QED
    BY <2>1 DEF Write
<1>1. /\ queue # <<>> /\ queue' = Tail(queue) /\ queue \in Seq(Write)
      /\ disk' = [disk EXCEPT ![a] =
                    IF w.kind = "save" THEN [run |-> w.run, dismissed |-> FALSE]
                    ELSE IF @ = None THEN None ELSE [@ EXCEPT !.dismissed = TRUE]]
      /\ lost' = (IF w.kind = "save" THEN lost \ {a} ELSE lost)
      /\ UNCHANGED <<exec, spec, gone, last, manager>>
      /\ disk \in [Agent -> Stored \cup {None}]
  BY <1>0 DEF WriteFile, memory, Inv, TypeOK
<1>2. 1 \in DOMAIN queue /\ w = queue[1] /\ w \in Write
  BY <1>1, QueueShrinks
<1>3. a \in Agent /\ w.kind \in {"save", "dismiss"} /\ 1 \in Writes(a)
      /\ (w.kind = "save" => 1 \in Saves(a))
  BY <1>0, <1>2 DEF Write, Writes, Saves
<1> HIDE DEF w
<1>4. /\ \A b \in Agent : LastSaved(b)'
      /\ \A b \in Agent : \A i \in Writes(b) : i > 1 => i - 1 \in Writes(b)'
      /\ \A b \in Agent : \A i \in Saves(b) : i > 1 => i - 1 \in Saves(b)'
      /\ \A b \in Agent : \A i \in Writes(b)' :
            i + 1 \in Writes(b) /\ queue'[i] = queue[i + 1] /\ i \in Nat
      /\ \A b \in Agent : \A i \in Saves(b)' : i + 1 \in Saves(b)
      /\ \A b \in Agent : Writes(b) \subseteq Nat \ {0}
  BY <1>1, Shifted DEF AllBehind, Behind
<1>5. ASSUME NEW b \in Agent, b \in gone, NEW i \in Writes(b)'
      PROVE  queue'[i].kind = "dismiss" \/ \E j \in Writes(b)' : j > i
  <2>1. i + 1 \in Writes(b) /\ queue'[i] = queue[i + 1] /\ i \in Nat
    BY <1>4
  <2>2. CASE queue[i + 1].kind = "dismiss"
    BY <2>1, <2>2
  <2>3. CASE queue[i + 1].kind # "dismiss"
    <3>1. PICK j \in Writes(b) : j > i + 1
      BY <1>5, <2>1, <2>3 DEF AllBehind, Behind, StaysGone
    <3>2. j \in Nat /\ j - 1 \in Writes(b)' /\ j - 1 > i
      BY <1>4, <2>1, <3>1
    <3> QED
      BY <3>2
  <2> QED
    BY <2>2, <2>3
<1>6. ASSUME NEW b \in Agent \ {a} PROVE Behind(b)'
  <2>1. 1 \notin Writes(b) /\ Saves(b) \subseteq Writes(b)
    BY <1>0, <1>2 DEF Writes, Saves
  <2>2. \A i \in Writes(b) : i > 1
    BY <1>4, <2>1
  <2>3. (Writes(b)' = {} => Writes(b) = {}) /\ (Saves(b)' = {} <=> Saves(b) = {})
    BY <1>4, <2>1, <2>2
  <2>4. disk'[b] = disk[b] /\ (b \in lost' <=> b \in lost)
    BY <1>1, <1>3
  <2>5. (Kept(b)' <=> Kept(b)) /\ Behind(b)
    BY <2>4 DEF Kept, AllBehind
  <2>6. OnDisk(b)' /\ LastIsLive(b)'
    BY <1>1, <2>3, <2>4, <2>5 DEF Behind, OnDisk, LastIsLive
  <2>7. StaysGone(b)'
    BY <1>1, <1>5, <2>3, <2>4, <2>5 DEF Behind, StaysGone
  <2> QED
    BY <1>4, <2>6, <2>7 DEF Behind
<1>7. Behind(a)'
  <2>1. Behind(a)
    BY <1>3 DEF AllBehind
  <2>2. CASE w.kind = "save"
    <3>1. disk'[a] = [run |-> w.run, dismissed |-> FALSE]
      BY <1>1, <1>3, <2>2
    <3>2. disk'[a].run = w.run
      BY <3>1
    <3>3. Saves(a)' = {} => w.run = last[a]
      <4> SUFFICES ASSUME Saves(a)' = {}, w.run # last[a] PROVE FALSE
        OBVIOUS
      <4>1. PICK j \in Saves(a) : j > 1
        BY <1>2, <1>3, <2>1, <2>2 DEF Behind, LastSaved
      <4> QED
        BY <1>3, <1>4, <4>1
    <3>4. OnDisk(a)'
      BY <1>1, <3>2, <3>3 DEF OnDisk
    <3>5. LastIsLive(a)'
      BY <1>1, <1>3, <2>1, <2>2 DEF Behind, LastIsLive
    <3>6. a \in gone => Writes(a)' # {}
      <4> SUFFICES ASSUME a \in gone PROVE Writes(a)' # {}
        OBVIOUS
      <4>1. queue[1].kind # "dismiss"
        BY <1>2, <2>2
      <4>2. PICK j \in Writes(a) : j > 1
        BY <1>3, <2>1, <4>1 DEF Behind, StaysGone
      <4> QED
        BY <1>3, <1>4, <4>2
    <3>7. StaysGone(a)'
      BY <1>1, <1>3, <1>5, <2>1, <3>6 DEF Behind, StaysGone
    <3> QED
      BY <1>3, <1>4, <3>4, <3>5, <3>7 DEF Behind
  <2>3. CASE w.kind = "dismiss"
    <3>1. ~Kept(a)'
      <4>1. disk'[a] = IF disk[a] = None THEN None ELSE [disk[a] EXCEPT !.dismissed = TRUE]
        BY <1>1, <1>3, <2>3
      <4>2. disk[a] # None => disk[a] \in Stored
        BY <1>1, <1>3
      <4> QED
        BY <4>1, <4>2 DEF Kept, Stored
    <3>2. Saves(a)' # {} => Saves(a) # {}
      BY <1>3, <1>4
    <3>3. OnDisk(a)'
      BY <3>1 DEF OnDisk
    <3>4. LastIsLive(a)'
      BY <1>1, <2>1, <3>1, <3>2 DEF Behind, LastIsLive
    <3>5. StaysGone(a)'
      BY <1>1, <1>3, <1>5, <2>1, <3>1 DEF Behind, StaysGone
    <3> QED
      BY <1>3, <1>4, <3>3, <3>4, <3>5 DEF Behind
  <2> QED
    BY <1>3, <2>2, <2>3
<1> QED
  BY <1>6, <1>7 DEF AllBehind

LEMMA WriteFailsBehind ==
  ASSUME Inv, AllBehind, WriteFails PROVE AllBehind'
<1> DEFINE a == Head(queue).agent
<1>1. /\ queue # <<>> /\ queue' = Tail(queue) /\ queue \in Seq(Write)
      /\ lost' = lost \cup {a}
      /\ UNCHANGED <<exec, spec, gone, last, manager, disk>>
  BY DEF WriteFails, memory, Inv, TypeOK
<1>2. 1 \in DOMAIN queue /\ Head(queue) = queue[1]
  BY <1>1, QueueShrinks
<1> HIDE DEF a
<1>4. /\ \A b \in Agent : LastSaved(b)'
      /\ \A b \in Agent : \A i \in Writes(b) : i > 1 => i - 1 \in Writes(b)'
      /\ \A b \in Agent : \A i \in Saves(b) : i > 1 => i - 1 \in Saves(b)'
      /\ \A b \in Agent : \A i \in Writes(b)' :
            i + 1 \in Writes(b) /\ queue'[i] = queue[i + 1] /\ i \in Nat
      /\ \A b \in Agent : \A i \in Saves(b)' : i + 1 \in Saves(b)
      /\ \A b \in Agent : Writes(b) \subseteq Nat \ {0}
  BY <1>1, Shifted DEF AllBehind, Behind
<1>5. ASSUME NEW b \in Agent, b \in gone, NEW i \in Writes(b)'
      PROVE  queue'[i].kind = "dismiss" \/ \E j \in Writes(b)' : j > i
  <2>1. i + 1 \in Writes(b) /\ queue'[i] = queue[i + 1] /\ i \in Nat
    BY <1>4
  <2>2. CASE queue[i + 1].kind = "dismiss"
    BY <2>1, <2>2
  <2>3. CASE queue[i + 1].kind # "dismiss"
    <3>1. PICK j \in Writes(b) : j > i + 1
      BY <1>5, <2>1, <2>3 DEF AllBehind, Behind, StaysGone
    <3>2. j \in Nat /\ j - 1 \in Writes(b)' /\ j - 1 > i
      BY <1>4, <2>1, <3>1
    <3> QED
      BY <3>2
  <2> QED
    BY <2>2, <2>3
<1>6. ASSUME NEW b \in Agent PROVE Behind(b)'
  <2>1. (Kept(b)' <=> Kept(b)) /\ Behind(b)
    BY <1>1 DEF Kept, AllBehind
  <2>2. Saves(b)' # {} => Saves(b) # {}
    BY <1>4
  <2>3. LastIsLive(b)'
    BY <1>1, <2>1, <2>2 DEF Behind, LastIsLive
  <2>4. b # a => 1 \notin Writes(b) /\ Saves(b) \subseteq Writes(b)
    BY <1>2 DEF Writes, Saves, a
  <2>5. b # a => (Writes(b)' = {} => Writes(b) = {}) /\ (Saves(b)' = {} => Saves(b) = {})
    <3>1. b # a => \A i \in Writes(b) : i > 1
      BY <1>4, <2>4
    <3> QED
      BY <1>4, <2>4, <3>1
  <2>6. OnDisk(b)'
    BY <1>1, <2>1, <2>5 DEF Behind, OnDisk
  <2>7. StaysGone(b)'
    BY <1>1, <1>5, <2>1, <2>5 DEF Behind, StaysGone
  <2> QED
    BY <1>4, <2>3, <2>6, <2>7 DEF Behind
<1> QED
  BY <1>6 DEF AllBehind

\* Only files are left of a host that died, and no one has read them yet.
LEMMA CrashBehind ==
  ASSUME Inv, AllBehind, Crash PROVE AllBehind'
<1>1. \A a \in Agent : Writes(a)' = {} /\ Saves(a)' = {}
  BY DEF Crash, Writes, Saves
<1>2. manager' = "dead" /\ \A a \in Agent : ~spec'[a]
  BY DEF Crash
<1> QED
  BY <1>1, <1>2 DEF AllBehind, Behind, LastSaved, OnDisk, LastIsLive, StaysGone

LEMMA ReopenBehind ==
  ASSUME Inv, AllBehind, Reopen PROVE AllBehind'
<1> DEFINE found == [a \in Agent |-> IF Kept(a) THEN Settled(disk[a].run) ELSE None]
<1>1. /\ queue' = <<>> /\ manager' = "open" /\ exec' = exec
      /\ disk' = [a \in Agent |-> IF Kept(a) THEN [disk[a] EXCEPT !.run = found[a]] ELSE disk[a]]
      /\ last' = [a \in Agent |-> IF Kept(a) THEN found[a] ELSE last[a]]
      /\ gone' = gone \ {a \in Agent : Kept(a)}
      /\ spec' = [a \in Agent |-> Kept(a)]
  BY DEF Reopen
<1>2. \A a \in Agent : Writes(a)' = {} /\ Saves(a)' = {}
  BY <1>1 DEF Writes, Saves
<1>3. ASSUME NEW a \in Agent PROVE Behind(a)'
  <2>1. CASE Kept(a)
    <3>1. disk[a] \in Stored /\ found[a] \in Record /\ ~isActive(found[a])
      BY <2>1, SettledType DEF Kept, Inv, TypeOK, Stored
    <3> HIDE DEF found
    <3>2. disk'[a].run = found[a] /\ last'[a] = found[a]
      BY <1>1, <2>1, <3>1 DEF Stored
    <3>3. a \notin gone'
      BY <1>1, <2>1
    <3> QED
      BY <1>2, <3>1, <3>2, <3>3 DEF Behind, LastSaved, OnDisk, LastIsLive, StaysGone
  <2>2. CASE ~Kept(a)
    <3>1. disk'[a] = disk[a]
      BY <1>1, <2>2
    <3>2. ~Kept(a)'
      BY <2>2, <3>1 DEF Kept
    <3>3. ~spec'[a]
      BY <1>1, <2>2
    <3> QED
      BY <1>2, <3>2, <3>3 DEF Behind, LastSaved, OnDisk, LastIsLive, StaysGone
  <2> QED
    BY <2>1, <2>2
<1> QED
  BY <1>3 DEF AllBehind

LEMMA BehindStays == Inv /\ AllBehind /\ [Next]_vars => AllBehind'
<1> SUFFICES ASSUME Inv, AllBehind, [Next]_vars PROVE AllBehind'
  OBVIOUS
<1>0. \A a \in gone : ~spec[a]
  BY DEF AllBehind, Behind, StaysGone, Inv, TypeOK
<1>1. ASSUME NEW a \in Agent, Spawn(a) \/ Resume(a) PROVE AllBehind'
  BY <1>1, LaunchBehind DEF Spawn, Resume, closing
<1>2. ASSUME NEW a \in Agent, Delivers(a) \/ Fails(a) \/ CloseFails(a) PROVE AllBehind'
  BY <1>2, UpdateBehind DEF Delivers, Fails, CloseFails, Running, Status
<1>3. ASSUME NEW a \in Agent, CloseEnds(a) PROVE AllBehind'
  <2>1. /\ UNCHANGED <<queue, disk, last, lost, manager, gone, spec>>
        /\ exec[a].stage = "closing" /\ exec' = [exec EXCEPT ![a] = NoExec]
    BY <1>3 DEF CloseEnds, history
  <2>2. exec \in [Agent -> Execution]
    BY DEF Inv, TypeOK
  <2>3. \A b \in Agent : exec[b].stage = "running" => exec'[b].stage = "running"
    BY <2>1, <2>2
  <2> QED
    BY <1>0, <2>1, <2>3, QuietBehind
<1>4. ASSUME NEW a \in Agent, TimerFires(a) PROVE AllBehind'
  <2>1. UNCHANGED <<queue, disk, last, lost, manager, gone, spec>> /\ exec' = Detach(exec, row')
    BY <1>4 DEF TimerFires, history, closing
  <2>2. exec \in [Agent -> Execution]
    BY DEF Inv, TypeOK
  <2>3. \A b \in Agent : exec[b].stage = "running" => exec'[b].stage = "running"
    BY <2>1, <2>2, DetachKeeps
  <2> QED
    BY <1>0, <2>1, <2>3, QuietBehind
<1>5. ASSUME NEW a \in Agent, Dismiss(a) PROVE AllBehind'
  BY <1>5, DismissBehind
<1>6. ASSUME NEW c \in Caller, (\E a \in Agent : Ask(c, a)) \/ ReadFile(c) PROVE AllBehind'
  <2>1. UNCHANGED <<queue, disk, last, lost, manager, gone, spec, exec>>
    BY <1>6 DEF Ask, ReadFile, history, closing
  <2> QED
    BY <1>0, <2>1, QuietBehind
<1>7. ASSUME NEW c \in Caller, Adopt(c) PROVE AllBehind'
  <2> DEFINE a == call[c].agent
  <2>1. UNCHANGED <<queue, disk, last, lost, manager>>
    BY <1>7 DEF Adopt, closing
  <2>2. CASE ~adopts(a, call[c].found)
    <3>1. UNCHANGED <<spec, exec, gone>>
      BY <1>7, <2>2 DEF Adopt
    <3> QED
      BY <1>0, <2>1, <3>1, QuietBehind
  <2>3. CASE adopts(a, call[c].found)
    <3>1. /\ spec' = [spec EXCEPT ![a] = TRUE] /\ exec' = [exec EXCEPT ![a].shared = FALSE]
          /\ gone' = gone \ {a}
      BY <1>7, <2>3 DEF Adopt
    <3>2. spec \in [Agent -> BOOLEAN] /\ exec \in [Agent -> Execution] /\ gone \subseteq Agent
      BY DEF Inv, TypeOK
    <3>3. \A b \in gone' : ~spec'[b]
      BY <1>0, <3>1, <3>2
    <3>4. \A b \in Agent : exec'[b].stage = exec[b].stage
      BY <3>1, <3>2 DEF Execution
    <3>5. gone' \subseteq gone
      BY <3>1
    <3> QED
      BY <2>1, <3>3, <3>4, <3>5, QuietBehind
  <2> QED
    BY <2>2, <2>3
<1>8. ASSUME NEW c \in Caller, ResumeRead(c) PROVE AllBehind'
  <2> DEFINE a == call[c].agent
  <2>1. UNCHANGED <<disk, manager, lost>>
    BY <1>8 DEF ResumeRead, closing
  <2>2. CASE resumable(a, Resumable(a, call[c].found))
    <3>1. launchRun(a)
      BY <1>8, <2>2 DEF ResumeRead
    <3>2. a \in Agent
      BY <1>8 DEF ResumeRead, Inv, TypeOK, Call, Idle
    <3> QED
      BY <2>1, <3>1, <3>2, LaunchBehind
  <2>3. CASE ~resumable(a, Resumable(a, call[c].found))
    <3>1. UNCHANGED <<spec, exec, queue, last, gone>>
      BY <1>8, <2>3 DEF ResumeRead
    <3> QED
      BY <1>0, <2>1, <3>1, QuietBehind
  <2> QED
    BY <2>2, <2>3
<1>9. ASSUME WriteFile \/ WriteFails \/ Crash \/ Reopen PROVE AllBehind'
  BY <1>9, WriteFileBehind, WriteFailsBehind, CrashBehind, ReopenBehind
<1>10. ASSUME Dispose \/ RunsOver \/ DisposeEnds \/ UNCHANGED vars PROVE AllBehind'
  <2>1. /\ UNCHANGED <<queue, disk, last, lost, gone, spec, exec>>
        /\ manager = "dead" => manager' = "dead"
    BY <1>10 DEF Dispose, RunsOver, DisposeEnds, vars, memory, history, closing
  <2> QED
    BY <1>0, <2>1, QuietBehind
<1> QED
  BY <1>1, <1>2, <1>3, <1>4, <1>5, <1>6, <1>7, <1>8, <1>9, <1>10 DEF Next

LEMMA BehindHolds == Spec => [](Inv /\ AllBehind)
<1>1. Init => AllBehind
  BY DEF Init, AllBehind, Behind, LastSaved, OnDisk, LastIsLive, StaysGone, Writes, Saves, Kept
<1> QED
  BY <1>1, InitInv, NextInv, BehindStays, PTL DEF Spec

\* While a chat is open its records catch up with its runs: one that says a run
\* is under way has one, or the write that ends it is queued, or a write failed.
THEOREM RecordsCatchUp == Spec => []DiskCatchesUp
<1>1. Inv /\ AllBehind => DiskCatchesUp
  <2> SUFFICES ASSUME Inv, AllBehind, manager = "open", NEW a \in Agent \ lost, Kept(a),
                      isActive(disk[a].run),
                      ~\E i \in DOMAIN queue : queue[i].agent = a /\ queue[i].kind = "save"
               PROVE  Running(a)
    BY DEF DiskCatchesUp
  <2>1. Saves(a) = {} /\ Behind(a)
    BY DEF Saves, Writes, AllBehind
  <2>2. disk[a].run = last[a] /\ disk[a].run \in Record
    BY <2>1 DEF Behind, OnDisk, Kept, Inv, TypeOK, Stored
  <2> QED
    BY <2>1, <2>2, NoneIsNoRecord DEF Behind, LastIsLive, Running
<1> QED
  BY <1>1, BehindHolds, PTL

\* A chat that was closed in good order opens with every row as it was left, and
\* without those that were dismissed.
THEOREM ReopenedAsLeft == Spec => ReopensAsLeft
<1>1. Inv /\ AllBehind /\ [Next]_vars =>
        [manager = "disposed" /\ manager' = "open" =>
           \A a \in Agent \ lost : row'[a] # None => row'[a] = last[a] /\ a \notin gone]_vars
  <2> SUFFICES ASSUME Inv, AllBehind, [Next]_vars, manager = "disposed", manager' = "open",
                      NEW a \in Agent \ lost, row'[a] # None
               PROVE  row'[a] = last[a] /\ a \notin gone
    OBVIOUS
  <2>1. Reopen
    BY DEF Next, Spawn, Delivers, Fails, CloseEnds, CloseFails, TimerFires, Dismiss, Resume, Ask,
       ReadFile, Adopt, ResumeRead, WriteFile, WriteFails, Dispose, RunsOver, DisposeEnds, Crash,
       vars, closing
  <2>2. Kept(a) /\ row'[a] = Settled(disk[a].run)
    BY <2>1 DEF Reopen, Keep
  <2>3. Writes(a) = {} /\ Saves(a) = {} /\ exec[a].stage = "none" /\ Behind(a)
    BY <2>1 DEF Reopen, Writes, Saves, Running, AllBehind
  <2>4. disk[a].run = last[a] /\ disk[a].run \in Record
    BY <2>2, <2>3 DEF Behind, OnDisk, Kept, Inv, TypeOK, Stored
  <2>5. ~isActive(disk[a].run)
    BY <2>2, <2>3, <2>4, NoneIsNoRecord DEF Behind, LastIsLive
  <2>6. a \notin gone
    BY <2>2, <2>3 DEF Behind, StaysGone
  <2> QED
    BY <2>2, <2>4, <2>5, <2>6 DEF Settled
<1> QED
  BY <1>1, BehindHolds, PTL DEF Spec, ReopensAsLeft

----------------------------------------------------------------------------
(***************************************************************************)
(* What dispose waits for: the runs it found, then the writes it found;    *)
(* what comes after is launched late, or gone.                             *)
(***************************************************************************)
Ending == manager \in {"flushing", "disposed"}
Waited ==
    /\ manager = "closing" => \A a \in Agent : Running(a) => a \in awaited \cup late
    /\ Ending => \A a \in Agent : Running(a) => a \in late
    /\ Ending => \A i \in DOMAIN queue : i > flush => queue[i].agent \in late \cup gone
    /\ manager = "disposed" => flush = 0

\* Nothing starts and nothing is queued.
LEMMA QuietWaited ==
  ASSUME Waited, UNCHANGED <<manager, queue, flush, late, gone>>,
         \A a \in Agent : Running(a)' => Running(a),
         \A a \in Agent : a \in awaited /\ Running(a)' => a \in awaited'
  PROVE  Waited'
  BY DEF Waited, Ending

\* A write is queued by a run that is awaited or late, or by a dismissal.
LEMMA QueuedWaited ==
  ASSUME Waited, queue \in Seq(Write), flush \in Nat, NEW w \in Write, queue' = Append(queue, w),
         UNCHANGED <<manager, flush>>, late \subseteq late',
         Ending => w.agent \in late' \cup gone' /\ gone \subseteq gone' \cup late',
         \A a \in Agent : Running(a)' => Running(a) \/ manager = "open" \/ a \in late',
         \A a \in Agent : a \in awaited /\ Running(a)' => a \in awaited'
  PROVE  Waited'
<1>1. /\ DOMAIN queue' = DOMAIN queue \cup {Len(queue) + 1}
      /\ \A i \in DOMAIN queue : queue'[i] = queue[i] /\ i < Len(queue) + 1
      /\ queue'[Len(queue) + 1] = w
  BY QueueGrows
<1>2. manager = "closing" => \A a \in Agent : Running(a)' => a \in awaited' \cup late'
  BY DEF Waited
<1>3. Ending => \A a \in Agent : Running(a)' => a \in late'
  BY DEF Waited, Ending
<1>4. Ending => \A i \in DOMAIN queue' : i > flush => queue'[i].agent \in late' \cup gone'
  BY <1>1 DEF Waited
<1> QED
  BY <1>2, <1>3, <1>4 DEF Waited, Ending

LEMMA UpdateWaited ==
  ASSUME Inv, Waited, NEW a \in Agent, Running(a),
         NEW status \in Status \ {"active"}, NEW stage \in {"none", "closing"},
         updateRun(a, status, stage), UNCHANGED <<spec, manager, flush, gone, late>>
  PROVE  Waited'
<1> DEFINE r == [exec[a].held EXCEPT !.status = status]
           execs == [exec EXCEPT ![a] = IF stage = "none" THEN NoExec
                                        ELSE [@ EXCEPT !.stage = stage, !.held = r]]
<1>1. /\ exec[a].held \in Record /\ exec \in [Agent -> Execution] /\ queue \in Seq(Write)
      /\ flush \in Nat
  BY DEF Inv, HoldsARow, TypeOK
<1>2. r \in Record
  BY <1>1 DEF Record
<1>3. execs \in [Agent -> Execution]
  BY <1>1, <1>2, EndedType, ZenonT(60)
<1>4. /\ \A b \in Agent \ {a} : execs[b] = exec[b]
      /\ execs[a].stage = stage
  BY <1>1 DEF NoExec, Execution
<1>5. exec' = Detach(execs, row')
  BY DEF updateRun
<1> HIDE DEF r, execs
<1>6. /\ \A b \in Agent \ {a} : exec'[b].stage = exec[b].stage
      /\ exec'[a].stage = stage
  BY <1>3, <1>4, <1>5, DetachKeeps
<1>7. \A b \in Agent : Running(b)' => Running(b)
  BY <1>6 DEF Running
<1>8. \A b \in Agent : b \in awaited /\ Running(b)' => b \in awaited'
  BY <1>6 DEF updateRun, Running
<1>9. CASE spec[a]
  <2>1. queue' = Append(queue, Save(a, r)) /\ Save(a, r) \in Write /\ Save(a, r).agent = a
    BY <1>2, <1>9, SaveType DEF updateRun, persist, Save, r
  <2>2. Ending => a \in late
    BY DEF Waited
  <2> QED
    BY <1>1, <1>7, <1>8, <2>1, <2>2, QueuedWaited
<1>10. CASE ~spec[a]
  <2>1. UNCHANGED queue
    BY <1>10 DEF updateRun
  <2> QED
    BY <1>7, <1>8, <2>1, QuietWaited
<1> QED
  BY <1>9, <1>10

LEMMA LaunchWaited ==
  ASSUME Inv, Waited, NEW a \in Agent, launchRun(a), UNCHANGED closing
  PROVE  Waited'
<1> DEFINE r == [status |-> "active", launch |-> launches + 1]
<1>1. r \in Record
  BY RecordsAssumption DEF launchRun, Record, Status, Inv, TypeOK
<1>2. /\ queue' = Append(queue, Save(a, r)) /\ Save(a, r) \in Write /\ Save(a, r).agent = a
      /\ queue \in Seq(Write) /\ flush \in Nat /\ exec \in [Agent -> Execution]
  BY <1>1, SaveType DEF launchRun, persist, Save, Inv, TypeOK
<1>3. /\ gone' = gone \ {a} /\ late' = IF manager = "open" THEN late ELSE late \cup {a}
      /\ exec' = [exec EXCEPT ![a] = [stage |-> "running", held |-> r, shared |-> TRUE]]
      /\ UNCHANGED <<manager, awaited, flush>>
  BY DEF launchRun, Disposed, closing
<1> HIDE DEF r
<1>4. \A b \in Agent \ {a} : Running(b)' => Running(b)
  BY <1>2, <1>3 DEF Running
<1>5. \A b \in Agent : Running(b)' => Running(b) \/ manager = "open" \/ b \in late'
  BY <1>3, <1>4
<1>6. Ending => a \in late' /\ gone \subseteq gone' \cup late'
  BY <1>3 DEF Ending
<1> QED
  BY <1>2, <1>3, <1>5, <1>6, QueuedWaited

LEMMA NextIsAhead ==
  \A m, n, i \in Nat : m <= n + 1 /\ i > n => i + 1 > m
  OBVIOUS

\* The oldest write leaves, and one fewer is waited for.
LEMMA WrittenWaited ==
  ASSUME Inv, Waited, queue # <<>>, queue' = Tail(queue), Flushed,
         UNCHANGED <<exec, manager, awaited, late, gone>>
  PROVE  Waited'
<1>1. flush \in Nat /\ queue \in Seq(Write)
  BY DEF Inv, TypeOK
<1>2. \A i \in DOMAIN queue' : i \in Nat /\ i + 1 \in DOMAIN queue /\ queue'[i] = queue[i + 1]
  BY <1>1, QueueShrinks
<1>3. flush' \in Nat /\ (flush = 0 => flush' = 0) /\ flush <= flush' + 1
  BY <1>1 DEF Flushed
<1>4. \A i \in Nat : i > flush' => i + 1 > flush
  BY <1>1, <1>3, NextIsAhead
<1>5. Ending => \A i \in DOMAIN queue' : i > flush' => queue'[i].agent \in late' \cup gone'
  <2> SUFFICES ASSUME Ending, NEW i \in DOMAIN queue', i > flush'
               PROVE  queue'[i].agent \in late' \cup gone'
    OBVIOUS
  <2>1. /\ i + 1 \in DOMAIN queue /\ i + 1 > flush
        /\ queue'[i] = queue[i + 1]
    BY <1>2, <1>4
  <2>2. queue[i + 1].agent \in late \cup gone
    BY <2>1 DEF Waited
  <2> QED
    BY <2>1, <2>2
<1>6. manager = "closing" => \A a \in Agent : Running(a)' => a \in awaited' \cup late'
  BY DEF Waited, Running
<1>7. Ending => \A a \in Agent : Running(a)' => a \in late'
  BY DEF Waited, Running
<1>8. manager = "disposed" => flush' = 0
  BY <1>3 DEF Waited
<1>9. Ending' <=> Ending
  BY DEF Ending
<1> QED
  BY <1>5, <1>6, <1>7, <1>8, <1>9 DEF Waited

LEMMA WaitedStays == Inv /\ Waited /\ [Next]_vars => Waited'
<1> SUFFICES ASSUME Inv, Waited, [Next]_vars PROVE Waited'
  OBVIOUS
<1>0. /\ exec \in [Agent -> Execution] /\ queue \in Seq(Write) /\ flush \in Nat
      /\ awaited \subseteq Agent
  BY DEF Inv, TypeOK
<1>1. ASSUME NEW a \in Agent, Spawn(a) \/ Resume(a) PROVE Waited'
  BY <1>1, LaunchWaited DEF Spawn, Resume
<1>2. ASSUME NEW a \in Agent, Delivers(a) \/ Fails(a) \/ CloseFails(a) PROVE Waited'
  BY <1>2, UpdateWaited DEF Delivers, Fails, CloseFails, Running, Status
<1>3. ASSUME NEW a \in Agent, CloseEnds(a) PROVE Waited'
  <2>1. /\ UNCHANGED <<queue, flush, late, gone, manager>> /\ awaited' = awaited \ {a}
        /\ exec' = [exec EXCEPT ![a] = NoExec]
    BY <1>3 DEF CloseEnds, history
  <2>2. \A b \in Agent : Running(b)' => Running(b) /\ b # a
    BY <1>0, <2>1 DEF Running, NoExec
  <2> QED
    BY <2>1, <2>2, QuietWaited
<1>4. ASSUME NEW a \in Agent, TimerFires(a) PROVE Waited'
  <2>1. UNCHANGED <<queue, flush, late, gone, manager, awaited>> /\ exec' = Detach(exec, row')
    BY <1>4 DEF TimerFires, history, closing
  <2>2. \A b \in Agent : Running(b)' <=> Running(b)
    BY <1>0, <2>1, DetachKeeps DEF Running
  <2> QED
    BY <2>1, <2>2, QuietWaited
<1>5. ASSUME NEW a \in Agent, Dismiss(a) PROVE Waited'
  <2> DEFINE w == [kind |-> "dismiss", agent |-> a, run |-> None]
  <2>1. /\ queue' = Append(queue, w) /\ w \in Write /\ w.agent = a /\ gone' = gone \cup {a}
        /\ UNCHANGED <<manager, awaited, flush, late>> /\ exec' = Detach(exec, row')
    BY <1>5 DEF Dismiss, Write, closing
  <2>2. \A b \in Agent : Running(b)' <=> Running(b)
    BY <1>0, <2>1, DetachKeeps DEF Running
  <2> HIDE DEF w
  <2> QED
    BY <1>0, <2>1, <2>2, QueuedWaited
<1>6. ASSUME NEW c \in Caller, (\E a \in Agent : Ask(c, a)) \/ ReadFile(c) PROVE Waited'
  <2>1. UNCHANGED <<queue, flush, late, gone, manager, awaited, exec>>
    BY <1>6 DEF Ask, ReadFile, history, closing
  <2> QED
    BY <2>1, QuietWaited DEF Running
<1>7. ASSUME NEW c \in Caller, Adopt(c) PROVE Waited'
  <2> DEFINE a == call[c].agent
  <2>1. UNCHANGED <<queue, flush, late, manager, awaited>>
    BY <1>7 DEF Adopt, closing
  <2>2. CASE ~adopts(a, call[c].found)
    <3>1. UNCHANGED <<gone, exec>>
      BY <1>7, <2>2 DEF Adopt
    <3> QED
      BY <2>1, <3>1, QuietWaited DEF Running
  <2>3. CASE adopts(a, call[c].found)
    <3>1. manager = "open"
      BY <2>3 DEF adopts, Disposed
    <3> QED
      BY <2>1, <3>1 DEF Waited, Ending
  <2> QED
    BY <2>2, <2>3
<1>8. ASSUME NEW c \in Caller, ResumeRead(c) PROVE Waited'
  <2> DEFINE a == call[c].agent
  <2>1. UNCHANGED closing
    BY <1>8 DEF ResumeRead
  <2>2. CASE resumable(a, Resumable(a, call[c].found))
    <3>1. launchRun(a) /\ a \in Agent
      BY <1>8, <2>2 DEF ResumeRead, Inv, TypeOK, Call, Idle
    <3> QED
      BY <2>1, <3>1, LaunchWaited
  <2>3. CASE ~resumable(a, Resumable(a, call[c].found))
    <3>1. UNCHANGED <<queue, late, gone, exec>>
      BY <1>8, <2>3 DEF ResumeRead
    <3> QED
      BY <2>1, <3>1, QuietWaited DEF Running, closing
  <2> QED
    BY <2>2, <2>3
<1>9. ASSUME WriteFile \/ WriteFails PROVE Waited'
  BY <1>9, WrittenWaited DEF WriteFile, WriteFails, memory
<1>10. CASE Dispose
  BY <1>10 DEF Dispose, Waited, Ending, Running, memory
<1>11. CASE RunsOver
  <2>1. /\ manager = "closing" /\ manager' = "flushing" /\ flush' = Len(queue) /\ awaited = {}
        /\ UNCHANGED <<queue, late, gone, exec>>
    BY <1>11 DEF RunsOver, memory, history
  <2>2. \A i \in DOMAIN queue : ~(i > Len(queue))
    BY <1>0, LenProperties
  <2>3. \A a \in Agent : Running(a) => a \in late
    BY <2>1 DEF Waited
  <2> QED
    BY <2>1, <2>2, <2>3 DEF Waited, Ending, Running
<1>12. CASE DisposeEnds
  BY <1>12 DEF DisposeEnds, Waited, Ending, Running, history
<1>13. CASE Crash \/ Reopen
  BY <1>13 DEF Crash, Reopen, Waited, Ending
<1>14. CASE UNCHANGED vars
  BY <1>14, QuietWaited DEF vars, memory, closing, history, Running
<1> QED
  BY <1>1, <1>2, <1>3, <1>4, <1>5, <1>6, <1>7, <1>8, <1>9, <1>10, <1>11, <1>12, <1>13, <1>14 DEF Next

\* When dispose has returned no run is under way and nothing is left to write,
\* but for what was resumed or dismissed while it waited.
THEOREM DisposalIsFinal == Spec => []DisposedIsFinal
<1>1. Init => Waited
  BY DEF Init, Waited, Ending
<1>2. Spec => [](Inv /\ Waited)
  BY <1>1, InitInv, NextInv, WaitedStays, PTL DEF Spec
<1>3. Inv /\ Waited => DisposedIsFinal
  <2> SUFFICES ASSUME Inv, Waited, manager = "disposed" PROVE DisposedIsFinal
    BY DEF DisposedIsFinal
  <2>1. \A i \in DOMAIN queue : i > flush
    <3>1. queue \in Seq(Write)
      BY DEF Inv, TypeOK
    <3>2. \A i \in DOMAIN queue : i \in 1..Len(queue) /\ Len(queue) \in Nat
      BY <3>1, LenProperties
    <3> QED
      BY <3>2 DEF Waited
  <2> QED
    BY <2>1 DEF Waited, Ending, DisposedIsFinal
<1> QED
  BY <1>2, <1>3, PTL
=============================================================================
