---------------------------- MODULE FileHistory ----------------------------
(***************************************************************************)
(* What a chat tab remembers about the files its agent changes, and how    *)
(* undo, restore and redo use it: the checkpoint of every turn             *)
(* (core/files/checkpoint-manager.ts), the list of changes with the first  *)
(* content of each file (core/files/diff-manager.ts), and the messages cut *)
(* from the agent's context (ChatService.restoreCheckpoint).               *)
(*                                                                         *)
(* Three numberings of the same messages meet here: the tab's turn counter *)
(* (checkpoints and changes), the position in the agent's context (where   *)
(* it is cut), and the position among the messages the client has loaded   *)
(* (what the user clicks).                                                 *)
(***************************************************************************)
EXTENDS Integers, FiniteSets, Sequences, SequencesExt

CONSTANTS
    Path,
    Env,          \* what the environment may do, a subset of EnvKinds
    PageTurns,    \* user messages in one page of the persisted transcript
    MaxResumed,   \* bound: user messages of a session that is opened
    MaxTurn,      \* bound on the turn counter
    MaxFaults,    \* bound on the steps of EnvKinds that are counted
    MaxWrites     \* bound on the contents written

EnvKinds == {"promptFails", "steering", "compaction", "toolFails", "ioFails",
             "otherSession"}

ASSUME HistoryAssumption == /\ Env \subseteq EnvKinds
                            /\ PageTurns \in Nat \ {0}
                            /\ MaxResumed \in Nat
                            /\ MaxTurn \in Nat
                            /\ MaxFaults \in Nat
                            /\ MaxWrites \in Nat

VARIABLES
    disk,         \* the content of each file
    writes,       \* contents written so far; each write is a new one
    activity,     \* "idle", "preparing" a prompt of the user, "dequeued": preparing
                  \* one of the queue, "running"
    turn,         \* tab.turnCounter
    currentTurn,  \* CheckpointManager._currentTurn, DiffManager._currentTurn
    checkpoints,  \* turn -> path -> content before the turn
    suspended,    \* turn -> the same, and the contents after it
    rollback,     \* CheckpointManager._rollbackPoint
    changes,      \* DiffManager._fileChanges
    originals,    \* DiffManager._originalContents
    pending,      \* DiffManager._pendingEdits
    cutChanges,   \* DiffManager._suspendedChanges
    cutOriginals, \* DiffManager._suspendedOriginals
    branch,       \* persisted user messages, each by its turn
    context,      \* session.state.messages, user messages only
    cutMessages,  \* tab.suspendedMessages
    hidden,       \* persisted user messages the client has not loaded
    before,       \* history: turn -> the files when it began
    astray,       \* history: path -> the turn in which the file was last undone by
                  \* hand, written unseen, or left by an operation that failed
    bare,         \* history: files undone by hand while a rollback kept changes of
                  \* them, and not captured since
    rolledAt,     \* history: the turn in which the last restore was made
    saved,        \* history: what the first restore of a rollback replaced
    faults        \* bound

checkpointVars == <<currentTurn, checkpoints, suspended, rollback>>
diffVars       == <<changes, originals, pending, cutChanges, cutOriginals>>
messageVars    == <<branch, context, cutMessages, hidden>>
historyVars == <<before, astray, bare, rolledAt, saved>>
vars == <<disk, writes, activity, turn, checkpointVars, diffVars, messageVars,
          historyVars, faults>>

Absent   == 0                 \* the content of a file that does not exist
Content  == 0..(MaxWrites + 1)
NoPoint  == -1                \* no rollback
Steering == 0                 \* a user message that is not a turn
NoSaved  == [valid |-> FALSE, again |-> FALSE, lost |-> {}, disk |-> <<>>,
             changes |-> {}, context |-> <<>>]

\* A partial function, newer entries replacing older ones.
Merge(older, newer) == [x \in DOMAIN older \cup DOMAIN newer |->
                          IF x \in DOMAIN newer THEN newer[x] ELSE older[x]]
Only(f, S) == [x \in DOMAIN f \cap S |-> f[x]]
Least(S)    == CHOOSE n \in S : \A m \in S : n <= m
Greatest(S) == CHOOSE n \in S : \A m \in S : m <= n

Fault(kind) == kind \in Env /\ faults < MaxFaults /\ faults' = faults + 1

\* File operations that fail are skipped, file by file.
Failing == IF "ioFails" \in Env THEN SUBSET Path ELSE {{}}
Skips(paths) == IF paths = {} THEN UNCHANGED faults ELSE Fault("ioFails")

----------------------------------------------------------------------------
\* A tab on a session of k persisted turns, shown from its last page.
ShowPage(len) == IF len > PageTurns THEN len - PageTurns ELSE 0

FirstTurns(k) == [i \in 1..k |-> i]

Init ==
    /\ disk \in [Path -> {Absent, 1}] /\ writes = 1
    /\ activity = "idle" /\ currentTurn = 0
    /\ \E k \in 0..MaxResumed :
         /\ turn = k /\ hidden = ShowPage(k)
         /\ branch = FirstTurns(k) /\ context = FirstTurns(k)
    /\ checkpoints = <<>> /\ suspended = <<>> /\ rollback = NoPoint
    /\ changes = {} /\ originals = <<>> /\ pending = {}
    /\ cutChanges = {} /\ cutOriginals = <<>> /\ cutMessages = <<>>
    /\ before = <<>> /\ astray = [p \in Path |-> 0] /\ bare = {} /\ rolledAt = 0
    /\ saved = NoSaved /\ faults = 0

\* resetSessionProjection: the tab shows another session.
LoadSession(k) ==
    /\ Fault("otherSession") /\ activity = "idle"
    /\ turn' = k /\ currentTurn' = 0
    /\ branch' = FirstTurns(k) /\ context' = FirstTurns(k)
    /\ hidden' = ShowPage(k) /\ cutMessages' = <<>>
    /\ checkpoints' = <<>> /\ suspended' = <<>> /\ rollback' = NoPoint
    /\ changes' = {} /\ originals' = <<>> /\ pending' = {}
    /\ cutChanges' = {} /\ cutOriginals' = <<>>
    /\ before' = <<>> /\ astray' = [p \in Path |-> 0] /\ bare' = {} /\ rolledAt' = 0
    /\ saved' = NoSaved
    /\ UNCHANGED <<disk, writes, activity>>

----------------------------------------------------------------------------
(***************************************************************************)
(* Turns.                                                                  *)
(***************************************************************************)

\* discardSuspended of both managers, and tab.suspendedMessages cleared.
\* Variant for TLC to refute: the messages are kept.
DiscardSuspendedFilesOnly ==
    /\ suspended' = <<>> /\ rollback' = NoPoint
    /\ cutChanges' = {} /\ cutOriginals' = <<>>
    /\ UNCHANGED cutMessages
DiscardSuspended ==
    /\ suspended' = <<>> /\ rollback' = NoPoint
    /\ cutChanges' = {} /\ cutOriginals' = <<>>
    /\ cutMessages' = <<>>

\* dispatchDirectPrompt and dispatchNextQueued up to session.prompt: a new turn
\* abandons what was rolled back. A queued prompt has reserved the tab
\* (reserveQueuedDispatch), a direct one marks it only at agent_start.
Preparing == activity \in {"preparing", "dequeued"}

StartTurn ==
    /\ activity = "idle" /\ turn < MaxTurn
    /\ activity' \in {"preparing", "dequeued"}
    /\ turn' = turn + 1 /\ currentTurn' = turn + 1
    /\ checkpoints' = Merge([t \in {turn + 1} |-> <<>>], checkpoints)
    /\ IF rollback # NoPoint
         THEN DiscardSuspended
         ELSE UNCHANGED <<suspended, rollback, cutChanges, cutOriginals, cutMessages>>
    /\ before' = Merge(before, [t \in {turn + 1} |-> disk])
    /\ saved' = NoSaved
    /\ UNCHANGED <<disk, writes, changes, originals, pending, branch, context,
                   hidden, astray, bare, rolledAt, faults>>

\* agent_start: the session has taken the prompt as a user message.
RunBegins ==
    /\ Preparing /\ activity' = "running"
    /\ branch' = Append(branch, turn) /\ context' = Append(context, turn)
    /\ saved' = NoSaved
    /\ UNCHANGED <<disk, writes, turn, checkpointVars, diffVars, cutMessages,
                   hidden, before, astray, bare, rolledAt, faults>>

\* The prompt is refused, or was a command: no user message.
PromptFails ==
    /\ Fault("promptFails")
    /\ Preparing /\ activity' = "idle"
    /\ UNCHANGED <<disk, writes, turn, checkpointVars, diffVars, messageVars,
                   historyVars>>

\* A steering message is a user message of the running turn.
Steer ==
    /\ Fault("steering") /\ activity = "running"
    /\ branch' = Append(branch, Steering) /\ context' = Append(context, Steering)
    /\ UNCHANGED <<disk, writes, activity, turn, checkpointVars, diffVars,
                   cutMessages, hidden, historyVars>>

AgentEnds ==
    /\ activity = "running" /\ pending = {} /\ activity' = "idle"
    /\ UNCHANGED <<disk, writes, turn, checkpointVars, diffVars, messageVars,
                   historyVars, faults>>

\* The SDK shortens the context; the persisted branch keeps every message.
Compacts ==
    /\ Fault("compaction") /\ activity = "idle" /\ context # <<>>
    /\ context' = Tail(context)
    /\ saved' = NoSaved
    /\ UNCHANGED <<disk, writes, activity, turn, checkpointVars, diffVars, branch,
                   cutMessages, hidden, before, astray, bare, rolledAt>>

----------------------------------------------------------------------------
(***************************************************************************)
(* Tool events: an edit or write, of the agent or of a child that shares   *)
(* the workspace, is captured before it runs and listed after it.          *)
(***************************************************************************)

\* The first content of a file in the turn, and the first the tab knows.
recordFileState(p) ==
    IF currentTurn \in DOMAIN checkpoints
      THEN [checkpoints EXCEPT ![currentTurn] = Merge([q \in {p} |-> disk[p]], @)]
      ELSE checkpoints

captureOriginal(p) == Merge([q \in {p} |-> disk[p]], originals)

ToolStart(p) ==
    /\ activity = "running" /\ \A e \in pending : e.path # p
    /\ checkpoints' = recordFileState(p)
    /\ originals' = captureOriginal(p) /\ bare' = bare \ {p}
    /\ pending' = pending \cup {[path |-> p, turn |-> currentTurn]}
    /\ UNCHANGED <<disk, writes, activity, turn, currentTurn, suspended, rollback,
                   changes, cutChanges, cutOriginals, messageVars, before, astray,
                   rolledAt, saved, faults>>

\* A content of its own for file p.
Write(p) ==
    /\ writes <= MaxWrites
    /\ writes' = writes + 1 /\ disk' = [disk EXCEPT ![p] = writes + 1]
Stray(p) == astray' = [astray EXCEPT ![p] = turn]

\* A tool on a file that cannot be read when it starts: nothing is captured, no
\* edit is pending, and when it ends its write goes unseen.
ToolUnseen(p) ==
    /\ activity = "running" /\ \A e \in pending : e.path # p
    /\ Fault("ioFails") /\ Write(p) /\ Stray(p)
    /\ UNCHANGED <<activity, turn, checkpointVars, diffVars, messageVars, before,
                   bare, rolledAt, saved>>

\* The tool has written the file; the change is listed if the file can be read.
\* The content before is lost if a restore has deleted the turn's checkpoint.
ToolEnd(e) ==
    /\ e \in pending /\ Write(e.path)
    /\ pending' = pending \ {e}
    /\ \/ changes' = changes \cup {e} /\ UNCHANGED faults
       \/ Fault("ioFails") /\ UNCHANGED changes
    /\ IF currentTurn \in DOMAIN checkpoints THEN UNCHANGED astray ELSE Stray(e.path)
    /\ UNCHANGED <<activity, turn, checkpointVars, originals, cutChanges,
                   cutOriginals, messageVars, before, bare, rolledAt, saved>>

\* The tool failed and wrote nothing: the captures stay.
ToolFails(e) ==
    /\ e \in pending /\ Fault("toolFails")
    /\ pending' = pending \ {e}
    /\ UNCHANGED <<disk, writes, activity, turn, checkpointVars, changes, originals,
                   cutChanges, cutOriginals, messageVars, historyVars>>

----------------------------------------------------------------------------
(***************************************************************************)
(* Undo, restore and redo, refused while the tab streams or compacts. They *)
(* may slip in while a direct prompt is prepared.                          *)
(***************************************************************************)

\* assertFileHistoryIdle
FileHistoryIdle == activity \in {"idle", "preparing"}

\* undoFileChange: the file returns to its first known content, also while a
\* rollback keeps changes of it, which a redo will list again.
UndoFile(p) ==
    /\ FileHistoryIdle
    /\ p \in DOMAIN originals
    /\ \/ disk' = [disk EXCEPT ![p] = originals[p]] /\ UNCHANGED faults
       \/ Fault("ioFails") /\ UNCHANGED disk
    /\ changes' = {c \in changes : c.path # p}
    /\ originals' = Only(originals, Path \ {p})
    /\ Stray(p)
    /\ bare' = IF \E c \in cutChanges : c.path = p THEN bare \cup {p} ELSE bare
    /\ saved' = IF rollback = NoPoint THEN saved ELSE [saved EXCEPT !.lost = @ \cup {p}]
    /\ UNCHANGED <<writes, activity, turn, checkpointVars, pending, cutChanges,
                   cutOriginals, messageVars, before, rolledAt>>

\* The user messages on show; those rolled back are dimmed and take no clicks.
\* The index restoreCheckpoint gets for one.
Clickable(pos) == rollback = NoPoint \/ pos <= rollback
Shown == 1..(Len(branch) - hidden)
MessageIndex(pos) == pos - 1

TurnsAfter(index) == {t \in DOMAIN checkpoints : t > index}
CheckpointsLeft(turns) == DOMAIN checkpoints \ turns

\* The content of each file before the first of the turns that changed it.
\* Variant for TLC to refute: before the last.
FilesBeforeLast(turns) ==
    [p \in UNION {DOMAIN checkpoints[t] : t \in turns} |->
        checkpoints[Greatest({t \in turns : p \in DOMAIN checkpoints[t]})][p]]
FilesBefore(turns) ==
    [p \in UNION {DOMAIN checkpoints[t] : t \in turns} |->
        checkpoints[Least({t \in turns : p \in DOMAIN checkpoints[t]})][p]]

Astray(paths) == astray' = [p \in Path |-> IF p \in paths THEN turn ELSE astray[p]]

\* CheckpointManager.restoreCheckpoint; unreadable files have no content to
\* redo, files that cannot be written stay as they are.
RestoreFiles(index, unreadable, failed) ==
    LET turns == TurnsAfter(index) IN
    /\ suspended' = Merge(suspended, [t \in turns |->
          [before |-> checkpoints[t],
           after  |-> Only(disk, DOMAIN checkpoints[t] \ unreadable)]])
    /\ checkpoints' = Only(checkpoints, CheckpointsLeft(turns))
    /\ disk' = Merge(disk, Only(FilesBefore(turns), Path \ failed))
    /\ rollback' = index
    /\ Astray(unreadable \cup failed) /\ Skips(unreadable \cup failed)
    /\ rolledAt' = turn
    /\ saved' = IF rollback # NoPoint
                  THEN [saved EXCEPT !.again = TRUE, !.lost = @ \cup unreadable]
                  ELSE [valid |-> TRUE, again |-> FALSE, lost |-> unreadable,
                        disk |-> disk, changes |-> changes, context |-> context]

\* DiffManager.suspendChangesAfter: it keeps only the changes it cuts now.
SuspendChangesAfter(index) ==
    LET kept == {c \in changes : c.turn <= index}
        keptPaths == {c.path : c \in kept} IN
    /\ cutChanges' = changes \ kept
    /\ changes' = kept
    /\ originals' = Only(originals, keptPaths)
    /\ cutOriginals' = Merge(cutOriginals, Only(originals, Path \ keptPaths))

\* findMessageCutoff and the cut: the context keeps "index" user messages.
CutMessages(index) ==
    IF index < Len(context)
      THEN /\ cutMessages' = SubSeq(context, index + 1, Len(context))
           /\ context' = SubSeq(context, 1, index)
      ELSE UNCHANGED <<cutMessages, context>>

Restore(pos, unreadable, failed) ==
    /\ FileHistoryIdle /\ Clickable(pos)
    /\ RestoreFiles(MessageIndex(pos), unreadable, failed)
    /\ SuspendChangesAfter(MessageIndex(pos))
    /\ CutMessages(MessageIndex(pos))
    /\ UNCHANGED <<writes, activity, turn, currentTurn, pending, branch, hidden,
                   before, bare>>

\* CheckpointManager.redoCheckpoint: turn by turn, the last content wins.
\* Variant for TLC to refute: the first wins.
FilesAfterFirst == [p \in UNION {DOMAIN suspended[t].after : t \in DOMAIN suspended} |->
    suspended[Least({t \in DOMAIN suspended : p \in DOMAIN suspended[t].after})].after[p]]
FilesAfter == [p \in UNION {DOMAIN suspended[t].after : t \in DOMAIN suspended} |->
    suspended[Greatest({t \in DOMAIN suspended : p \in DOMAIN suspended[t].after})].after[p]]

\* DiffManager.redoChanges; a baseline taken since the restore is kept.
\* Variant for TLC to refute: the baselines are not brought back.
RedoOriginalsNever == originals
RedoOriginals == Merge(cutOriginals, originals)

Redo(failed) ==
    /\ FileHistoryIdle /\ rollback # NoPoint
    /\ disk' = Merge(disk, Only(FilesAfter, Path \ failed))
    /\ Astray(failed) /\ Skips(failed)
    /\ checkpoints' = Merge(checkpoints,
                            [t \in DOMAIN suspended |-> suspended[t].before])
    /\ suspended' = <<>> /\ rollback' = NoPoint
    /\ changes' = changes \cup cutChanges
    /\ originals' = RedoOriginals
    /\ cutChanges' = {} /\ cutOriginals' = <<>>
    /\ context' = context \o cutMessages /\ cutMessages' = <<>>
    /\ saved' = NoSaved
    /\ UNCHANGED <<writes, activity, turn, currentTurn, pending, branch, hidden,
                   before, bare, rolledAt>>

----------------------------------------------------------------------------
(***************************************************************************)
(* The client's transcript.                                                *)
(***************************************************************************)

\* The client shows the session afresh, from its last page.
ShowSession ==
    /\ hidden' = ShowPage(Len(branch)) /\ hidden' # hidden
    /\ UNCHANGED <<disk, writes, activity, turn, checkpointVars, diffVars, branch,
                   context, cutMessages, historyVars, faults>>

\* The user scrolls up to an earlier page.
LoadOlder ==
    /\ hidden > 0
    /\ hidden' = ShowPage(hidden)
    /\ UNCHANGED <<disk, writes, activity, turn, checkpointVars, diffVars, branch,
                   context, cutMessages, historyVars, faults>>

----------------------------------------------------------------------------
Next ==
    \/ StartTurn \/ RunBegins \/ PromptFails \/ Steer \/ AgentEnds \/ Compacts
    \/ \E k \in 0..MaxResumed : LoadSession(k)
    \/ \E p \in Path : ToolStart(p) \/ ToolUnseen(p) \/ UndoFile(p)
    \/ \E e \in pending : ToolEnd(e) \/ ToolFails(e)
    \/ \E pos \in Shown, unreadable, failed \in Failing : Restore(pos, unreadable, failed)
    \/ \E failed \in Failing : Redo(failed)
    \/ ShowSession \/ LoadOlder

Spec == Init /\ [][Next]_vars

----------------------------------------------------------------------------
(***************************************************************************)
(* Properties.                                                             *)
(***************************************************************************)

\* The shape of the state.
TypeOK ==
    /\ disk \in [Path -> Content] /\ writes \in Content
    /\ activity \in {"idle", "preparing", "dequeued", "running"}
    /\ turn \in Nat /\ currentTurn \in 0..turn
    /\ DOMAIN checkpoints \subseteq 1..turn
    /\ \A t \in DOMAIN checkpoints :
         DOMAIN checkpoints[t] \subseteq Path /\ ToSet(checkpoints[t]) \subseteq Content
    /\ DOMAIN suspended \subseteq (1..turn) \ DOMAIN checkpoints
    /\ rollback \in Nat \cup {NoPoint}
    /\ changes \cup cutChanges \cup pending \subseteq [path : Path, turn : 1..turn]
    /\ DOMAIN originals \cup DOMAIN cutOriginals \subseteq Path
    /\ branch \in Seq(0..turn) /\ context \in Seq(0..turn)
    /\ cutMessages \in Seq(0..turn)
    /\ hidden \in 0..Len(branch)
    /\ astray \in [Path -> 0..turn] /\ bare \subseteq Path /\ rolledAt \in 0..turn

\* A restore to the pos-th message on show returns every file it can write to
\* what it was when that message was sent, but for files undone by hand since,
\* left by a failed operation, or written without a checkpoint.
ReachesCheckpoint(pos, unreadable, failed) ==
    LET t == branch[hidden + pos] IN
    Restore(pos, unreadable, failed) /\ t \in DOMAIN checkpoints
        => \A p \in Path \ failed : astray[p] < t => disk'[p] = before[t][p]

\* "Restore your workspace to any previous checkpoint": a restore does so, file
\* by file, while the three numberings agree, that is while every user message
\* is a turn that began and the client has loaded them all.
Aligned == hidden = 0 /\ \A i \in DOMAIN branch : branch[i] = i
RestoreReachesCheckpointWhenAligned ==
    [][Aligned => \A pos \in Shown, unreadable, failed \in Failing :
                     ReachesCheckpoint(pos, unreadable, failed)]_vars

\* "... then redo to get changes back": a redo before the next run returns every
\* file it can write to what the rollback replaced, and after a single restore
\* the listed changes and the agent's context too; but for the files no restore
\* could read and those undone by hand meanwhile. A second restore overwrites
\* what the first kept of changes and context (restoreCheckpoint,
\* suspendChangesAfter).
Elsewhere(cs, paths) == {c \in cs : c.path \notin paths}
RedoUndoesRestore ==
    [][\A failed \in Failing : Redo(failed) /\ saved.valid
        => /\ \A p \in Path \ (failed \cup saved.lost) : disk'[p] = saved.disk[p]
           /\ \/ saved.again
              \/ /\ Elsewhere(changes', saved.lost) = Elsewhere(saved.changes, saved.lost)
                 /\ context' = saved.context]_vars

\* "Do not offer redo across a branch that already diverged": a prompt abandons
\* every rollback made before it, so that one in effect during a run was made
\* while its own prompt was prepared, which only a direct prompt allows; and
\* without a rollback nothing is suspended, in any of the three places.
RollbackIsWhole ==
    /\ activity # "idle" /\ rollback # NoPoint => rolledAt = turn
    /\ activity = "dequeued" => rollback = NoPoint
    /\ rollback = NoPoint => /\ suspended = <<>> /\ cutMessages = <<>>
                             /\ cutChanges = {} /\ cutOriginals = <<>>

\* Every listed change can be undone: its first content is known. Only a file
\* undone by hand while a rollback kept changes of it may be listed without, when
\* a redo brings those back, until a tool captures it again.
ChangesHaveBaselines == \A c \in changes : c.path \in DOMAIN originals \cup bare
=============================================================================
