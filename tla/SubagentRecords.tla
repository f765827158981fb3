--------------------------- MODULE SubagentRecords ---------------------------
(***************************************************************************)
(* The rows of a chat's delegated runs in memory and their records on      *)
(* disk: every change of a row is written behind the one before it, old    *)
(* rows are dropped and read back on demand, the user dismisses rows, and  *)
(* a manager is disposed, or dies with the host, and is made again from    *)
(* the records (pi/subagents/manager.ts, persistence.ts).                  *)
(*                                                                         *)
(* The host is one thread: an action is what runs between two awaits. What *)
(* a run does is in Subagents; here it is under way, closing its child, or *)
(* over. Writes of rows still under way do not change what is modelled of  *)
(* a record and are left out, the first of each launch excepted.           *)
(***************************************************************************)
EXTENDS Naturals, Sequences, FiniteSets

CONSTANTS
    Agent,        \* agent ids of the chat
    Caller,       \* bound: calls that read storage at a time
    None,         \* no row, no record
    MaxRetained,  \* maxRetainedTerminalRuns
    MaxLaunches,  \* bound: launches in all, resumes included
    MaxQueue,     \* bound: a row is dismissed with fewer writes waiting
    MaxFaults     \* bound: failures, crashes and disposals

ASSUME RecordsAssumption == /\ IsFiniteSet(Agent)
                            /\ MaxRetained \in Nat /\ MaxQueue \in Nat /\ MaxFaults \in Nat
                            /\ MaxLaunches \in Nat \ {0}

VARIABLES
    row,      \* runs: what the launcher and the tools show
    spec,     \* runSpecs
    timer,    \* rows with a timer in terminalTimers that is theirs
    exec,     \* activeRuns, with the run object the execution updates
    queue,    \* persistenceTail: writes not done yet, in order
    disk,     \* the record files
    call,     \* resolveRun in its await, for a tool or for a resume
    manager,  \* "open", "closing" (runs), "flushing" (writes), "disposed", "dead"
    awaited,  \* the runs in flight that dispose waits for
    flush,    \* the writes that dispose waits for
    last,     \* history: the row as it was last handed to persist
    gone,     \* history: dismissed and not come back
    lost,     \* history: its last write failed
    late,     \* history: launched by a manager already disposed
    launches, \* bound
    faults    \* bound

memory  == <<row, spec, timer, exec, call>>
closing == <<manager, awaited, flush>>
history == <<last, gone, lost, late>>
vars == <<memory, queue, disk, closing, history, launches, faults>>

\* "active" stands for queued, starting and running, "failed" for cancelled
\* too; "interrupted" is the failure a restart writes.
Status  == {"active", "completed", "failed", "interrupted"}
Record  == [status: Status, launch: 1..MaxLaunches]
ASSUME NoneIsNoRecord == None \notin Record
Stored  == [run: Record, dismissed: BOOLEAN]
Write   == [kind: {"save"}, agent: Agent, run: Record]
           \cup [kind: {"dismiss"}, agent: Agent, run: {None}]
Execution == [stage: {"none", "running", "closing"}, held: Record \cup {None}, shared: BOOLEAN]
Idle    == [stage |-> "idle", agent |-> None, found |-> None]
Call    == [stage: {"reading", "read"}, agent: Agent, found: Stored \cup {None}] \cup {Idle}
NoExec  == [stage |-> "none", held |-> None, shared |-> FALSE]

isActive(r) == r.status = "active"
Over(a) == row[a] # None /\ ~isActive(row[a])
Disposed == manager # "open"
Running(a) == exec[a].stage # "none"

Init ==
    /\ row = [a \in Agent |-> None] /\ spec = [a \in Agent |-> FALSE]
    /\ timer = {} /\ exec = [a \in Agent |-> NoExec]
    /\ queue = <<>> /\ disk = [a \in Agent |-> None]
    /\ call = [c \in Caller |-> Idle]
    /\ manager = "open" /\ awaited = {} /\ flush = 0
    /\ last = [a \in Agent |-> None] /\ gone = {} /\ lost = {} /\ late = {}
    /\ launches = 0 /\ faults = 0

Fault == faults < MaxFaults /\ faults' = faults + 1

----------------------------------------------------------------------------
(***************************************************************************)
(* Rows in memory.                                                         *)
(***************************************************************************)

Save(a, r) == [kind |-> "save", agent |-> a, run |-> r]

persist(a, r) == /\ queue' = Append(queue, Save(a, r))
                 /\ last' = [last EXCEPT ![a] = r]

\* The rows that are over, cut to the cap; the finish times decide which go.
Keep(rows, kept) ==
    [a \in Agent |-> IF rows[a] = None \/ isActive(rows[a]) \/ a \in kept
                     THEN rows[a] ELSE None]
OverIn(rows) == {a \in Agent : rows[a] # None /\ ~isActive(rows[a])}
Cuts(rows) == {kept \in SUBSET OverIn(rows) :
                 Cardinality(kept) = IF Cardinality(OverIn(rows)) < MaxRetained
                                     THEN Cardinality(OverIn(rows)) ELSE MaxRetained}

\* An execution whose row was dropped keeps updating an object nobody sees.
Detach(execs, rows) ==
    [a \in Agent |-> [execs[a] EXCEPT !.shared = @ /\ rows[a] # None]]

\* updateRun to a status that ends the run, and what is left of the execution:
\* the row if it is still this object, a write if the spec is known, a timer,
\* and the cap on the rows that are over.
updateRun(a, status, stage) ==
    LET r == [exec[a].held EXCEPT !.status = status]
        rows == IF exec[a].shared THEN [row EXCEPT ![a] = r] ELSE row
        execs == [exec EXCEPT ![a] = IF stage = "none" THEN NoExec
                                     ELSE [@ EXCEPT !.stage = stage, !.held = r]] IN
    /\ IF spec[a] THEN persist(a, r) ELSE UNCHANGED <<queue, last>>
    /\ \E kept \in Cuts(rows) :
         /\ row' = Keep(rows, kept)
         /\ timer' = {b \in (timer \ {a}) \cup (IF exec[a].shared THEN {a} ELSE {}) :
                        row'[b] # None}
         /\ exec' = Detach(execs, row')
    /\ awaited' = IF stage = "none" THEN awaited \ {a} ELSE awaited

\* The row is queued, written and given to launchRun.
launchRun(a) ==
    LET r == [status |-> "active", launch |-> launches + 1] IN
    /\ launches < MaxLaunches /\ launches' = launches + 1
    /\ row' = [row EXCEPT ![a] = r]
    /\ spec' = [spec EXCEPT ![a] = TRUE]
    /\ timer' = timer \ {a}
    /\ exec' = [exec EXCEPT ![a] = [stage |-> "running", held |-> r, shared |-> TRUE]]
    /\ persist(a, r)
    /\ gone' = gone \ {a}
    /\ late' = IF Disposed THEN late \cup {a} ELSE late

\* runForeground and runBackground.
Spawn(a) ==
    /\ ~Disposed /\ last[a] = None
    /\ launchRun(a)
    /\ UNCHANGED <<disk, call, closing, lost, faults>>

\* The run delivers: its row says so before its child is disposed.
Delivers(a) ==
    /\ exec[a].stage = "running"
    /\ updateRun(a, "completed", "closing")
    /\ UNCHANGED <<spec, disk, call, manager, flush, gone, lost, late, faults, launches>>

\* It fails or is stopped: its child is disposed first.
Fails(a) ==
    /\ exec[a].stage = "running"
    /\ updateRun(a, "failed", "none")
    /\ UNCHANGED <<spec, disk, call, manager, flush, gone, lost, late, faults, launches>>

\* The child of a run that delivered is disposed,
CloseEnds(a) ==
    /\ exec[a].stage = "closing"
    /\ exec' = [exec EXCEPT ![a] = NoExec]
    /\ awaited' = awaited \ {a}
    /\ UNCHANGED <<row, spec, timer, call, queue, disk, manager, flush, history, faults, launches>>

\* or its disposal fails, and with it the run.
CloseFails(a) ==
    /\ exec[a].stage = "closing" /\ Fault
    /\ updateRun(a, "failed", "none")
    /\ UNCHANGED <<spec, disk, call, manager, flush, gone, lost, late, launches>>

\* The retention timer of retainTerminalRun; it drops the row it was armed for.
TimerFires(a) ==
    /\ a \in timer
    /\ timer' = timer \ {a}
    /\ row' = IF Over(a) THEN [row EXCEPT ![a] = None] ELSE row
    /\ exec' = Detach(exec, row')
    /\ UNCHANGED <<spec, call, queue, disk, closing, history, faults, launches>>

\* Mutant: a row is dropped whatever its status.
dismissActive(a) == row[a] # None
dismissable(a) == Over(a)

\* dismiss, reachable until dispose has returned.
Dismiss(a) ==
    /\ dismissable(a) /\ manager \in {"open", "closing", "flushing"}
    /\ Len(queue) < MaxQueue
    /\ row' = [row EXCEPT ![a] = None]
    /\ spec' = [spec EXCEPT ![a] = FALSE]
    /\ timer' = timer \ {a}
    /\ exec' = Detach(exec, row')
    /\ queue' = Append(queue, [kind |-> "dismiss", agent |-> a, run |-> None])
    /\ gone' = gone \cup {a}
    /\ UNCHANGED <<disk, call, closing, last, lost, late, faults, launches>>

----------------------------------------------------------------------------
(***************************************************************************)
(* Reading a record back.                                                  *)
(***************************************************************************)

\* resolveRun of a row not in memory, for a tool or the start of a resume.
Ask(c, a) ==
    /\ call[c] = Idle /\ ~Disposed
    /\ row[a] = None \/ ~spec[a]
    /\ call' = [call EXCEPT ![c] = [stage |-> "reading", agent |-> a, found |-> None]]
    /\ UNCHANGED <<row, spec, timer, exec, queue, disk, closing, history, faults, launches>>

\* The file is read; the answer is still to be delivered. A file that cannot be
\* read counts as none.
ReadFile(c) ==
    LET a == call[c].agent IN
    /\ call[c].stage = "reading"
    /\ \/ call' = [call EXCEPT ![c].stage = "read", ![c].found = disk[a]]
          /\ UNCHANGED faults
       \/ call' = [call EXCEPT ![c].stage = "read"] /\ Fault
    /\ UNCHANGED <<row, spec, timer, exec, queue, disk, closing, history, launches>>

\* Mutant: the records are taken as they are.
SettledNever(r) == r
\* A record of a live run cannot be read: the host that wrote it is gone.
Settled(r) == IF isActive(r) THEN [r EXCEPT !.status = "interrupted"] ELSE r

adopts(a, found) == /\ found # None /\ ~found.dismissed /\ ~Disposed
                    /\ row[a] = None \/ ~spec[a]

\* The rest of resolveRun: the record becomes a row again unless it was
\* dismissed, the manager disposed, or another caller was first.
Adopt(c) ==
    LET a == call[c].agent IN
    /\ call[c].stage = "read"
    /\ call' = [call EXCEPT ![c] = Idle]
    /\ IF adopts(a, call[c].found)
         THEN /\ row' = [row EXCEPT ![a] = Settled(call[c].found.run)]
              /\ spec' = [spec EXCEPT ![a] = TRUE]
              /\ timer' = timer \cup {a}
              /\ exec' = [exec EXCEPT ![a].shared = FALSE]
              /\ gone' = gone \ {a}
         ELSE UNCHANGED <<row, spec, timer, exec, gone>>
    /\ UNCHANGED <<queue, disk, closing, last, lost, late, faults, launches>>

\* What resumeForeground launches: the row, or the record just adopted.
Resumable(a, found) == IF row[a] # None /\ spec[a] THEN row[a]
                       ELSE IF adopts(a, found) THEN Settled(found.run) ELSE None

resumable(a, r) == r # None /\ ~Running(a)

\* resumeForeground once it knows the row: refused when there is none or when
\* the run is in flight. It does not look again whether the manager is disposed.
ResumeRead(c) ==
    LET a == call[c].agent
        r == Resumable(a, call[c].found) IN
    /\ call[c].stage = "read"
    /\ call' = [call EXCEPT ![c] = Idle]
    /\ IF resumable(a, r)
         THEN launchRun(a)
         ELSE UNCHANGED <<row, spec, timer, exec, queue, last, gone, late, launches>>
    /\ UNCHANGED <<disk, closing, lost, faults>>

\* resumeForeground of a row in memory.
Resume(a) ==
    /\ ~Disposed /\ row[a] # None /\ spec[a] /\ resumable(a, row[a])
    /\ launchRun(a)
    /\ UNCHANGED <<disk, call, closing, lost, faults>>

----------------------------------------------------------------------------
(***************************************************************************)
(* Writing.                                                                *)
(***************************************************************************)
Flushed == flush' = IF flush > 0 THEN flush - 1 ELSE 0

\* The oldest write: save replaces the file, dismiss rereads it and marks it.
WriteFile ==
    LET w == Head(queue)
        a == w.agent IN
    /\ queue # <<>>
    /\ queue' = Tail(queue) /\ Flushed
    /\ disk' = [disk EXCEPT ![a] =
                  IF w.kind = "save" THEN [run |-> w.run, dismissed |-> FALSE]
                  ELSE IF @ = None THEN None ELSE [@ EXCEPT !.dismissed = TRUE]]
    /\ lost' = IF w.kind = "save" THEN lost \ {a} ELSE lost
    /\ UNCHANGED <<memory, manager, awaited, last, gone, late, faults, launches>>

\* A write fails: logged, and the next one is tried all the same.
WriteFails ==
    /\ queue # <<>> /\ Fault
    /\ queue' = Tail(queue) /\ Flushed
    /\ lost' = lost \cup {Head(queue).agent}
    /\ UNCHANGED <<memory, disk, manager, awaited, last, gone, late, launches>>

----------------------------------------------------------------------------
(***************************************************************************)
(* The end of a manager and the next one.                                  *)
(***************************************************************************)

\* dispose: the runs are cancelled, then waited for,
Dispose ==
    /\ manager = "open" /\ Fault
    /\ manager' = "closing"
    /\ awaited' = {a \in Agent : Running(a)}
    /\ UNCHANGED <<memory, queue, disk, flush, history, launches>>

\* Mutant: dispose does not wait for the writes.
RunsOverUnflushed ==
    /\ manager = "closing" /\ awaited = {}
    /\ manager' = "flushing" /\ flush' = 0
    /\ UNCHANGED <<memory, queue, disk, awaited, history, faults, launches>>

\* then the writes queued by now,
RunsOver ==
    /\ manager = "closing" /\ awaited = {}
    /\ manager' = "flushing" /\ flush' = Len(queue)
    /\ UNCHANGED <<memory, queue, disk, awaited, history, faults, launches>>

\* and the timers are cleared.
DisposeEnds ==
    /\ manager = "flushing" /\ flush = 0
    /\ manager' = "disposed"
    /\ timer' = {}
    /\ UNCHANGED <<row, spec, exec, call, queue, disk, awaited, flush, history, faults, launches>>

\* The host dies: only the files are left.
Crash ==
    /\ Fault
    /\ manager' = "dead" /\ awaited' = {} /\ flush' = 0
    /\ row' = [a \in Agent |-> None] /\ spec' = [a \in Agent |-> FALSE]
    /\ timer' = {} /\ exec' = [a \in Agent |-> NoExec]
    /\ call' = [c \in Caller |-> Idle]
    /\ queue' = <<>>
    /\ UNCHANGED <<disk, history, launches>>

\* Mutant: the user's dismissals are not read.
KeptAll(a) == disk[a] # None
Kept(a) == disk[a] # None /\ ~disk[a].dismissed

\* loadParent rewrites the records of runs that were under way, and the next
\* manager is made from what is not dismissed, under the cap. A run a disposed
\* manager has launched late, and its writes, are over by then (bound).
Reopen ==
    LET found == [a \in Agent |-> IF Kept(a) THEN Settled(disk[a].run) ELSE None] IN
    /\ manager \in {"disposed", "dead"}
    /\ queue = <<>> /\ \A a \in Agent : ~Running(a)
    /\ manager' = "open"
    /\ disk' = [a \in Agent |-> IF Kept(a) THEN [disk[a] EXCEPT !.run = found[a]] ELSE disk[a]]
    /\ \E kept \in Cuts(found) :
         /\ row' = Keep(found, kept)
         /\ timer' = {a \in Agent : row'[a] # None}
    /\ spec' = [a \in Agent |-> Kept(a)]
    /\ call' = [c \in Caller |-> Idle]
    /\ last' = [a \in Agent |-> IF Kept(a) THEN found[a] ELSE last[a]]
    /\ gone' = gone \ {a \in Agent : Kept(a)} /\ lost' = {} /\ late' = {}
    /\ UNCHANGED <<exec, queue, awaited, flush, faults, launches>>

Next ==
    \/ \E a \in Agent : \/ Spawn(a) \/ Delivers(a) \/ Fails(a) \/ CloseEnds(a) \/ CloseFails(a)
                        \/ TimerFires(a) \/ Dismiss(a) \/ Resume(a)
    \/ \E c \in Caller : \/ \E a \in Agent : Ask(c, a)
                         \/ ReadFile(c) \/ Adopt(c) \/ ResumeRead(c)
    \/ WriteFile \/ WriteFails
    \/ Dispose \/ RunsOver \/ DisposeEnds \/ Crash \/ Reopen

Spec == Init /\ [][Next]_vars

----------------------------------------------------------------------------
(***************************************************************************)
(* Properties.                                                             *)
(***************************************************************************)
TypeOK ==
    /\ row \in [Agent -> Record \cup {None}]
    /\ spec \in [Agent -> BOOLEAN]
    /\ timer \subseteq Agent
    /\ exec \in [Agent -> Execution]
    /\ queue \in Seq(Write)
    /\ disk \in [Agent -> Stored \cup {None}]
    /\ call \in [Caller -> Call]
    /\ manager \in {"open", "closing", "flushing", "disposed", "dead"}
    /\ awaited \subseteq Agent /\ flush \in Nat
    /\ last \in [Agent -> Record \cup {None}]
    /\ gone \subseteq Agent /\ lost \subseteq Agent /\ late \subseteq Agent
    /\ launches \in 0..MaxLaunches /\ faults \in 0..MaxFaults

\* resolveRun relies on "a live run is never absent from memory": a run under
\* way is shown, by the very object it updates, whatever is evicted, dismissed,
\* read back or restored meanwhile; and a row that says it is active has a run.
LiveRunsAreShown ==
    \A a \in Agent :
        /\ exec[a].stage = "running" => /\ row[a] = exec[a].held /\ isActive(row[a])
                                        /\ exec[a].shared /\ spec[a]
        /\ row[a] # None /\ isActive(row[a]) => exec[a].stage = "running"

\* A record that says a run is under way has one, or the write that ends it is
\* queued, or that write failed; records of a host that died are put right when
\* the chat is opened again.
DiskCatchesUp ==
    manager = "open" => \A a \in Agent \ lost :
        Kept(a) /\ isActive(disk[a].run) =>
            \/ Running(a)
            \/ \E i \in DOMAIN queue : queue[i].agent = a /\ queue[i].kind = "save"

\* A chat closed and opened again shows every run as it was left, and none the
\* user has dismissed, unless a write failed.
ReopensAsLeft ==
    [][manager = "disposed" /\ manager' = "open" =>
         \A a \in Agent \ lost :
             row'[a] # None => row'[a] = last[a] /\ a \notin gone]_vars

\* Once dispose has returned no run is under way and nothing is left to write,
\* except of a run resumed by a call that was reading storage when dispose began,
\* and of a row dismissed while dispose was waiting.
DisposedIsFinal ==
    manager = "disposed" =>
        /\ \A a \in Agent : Running(a) => a \in late
        /\ \A i \in DOMAIN queue : queue[i].agent \in late \cup gone
=============================================================================
