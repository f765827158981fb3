# A TLA+ verification of Pi Code

Pi Code is a VS Code extension (and a standalone desktop host) around the Pi
coding agent. This directory holds TLA+ modules for the parts of it whose
correctness depends on the order in which things happen, the TLC runs that check
them on small instances, and TLAPS proofs of the properties that matter most.

Paths below are relative to `src/src/` unless they begin with `src/`.
`PROJECT.json` holds the same information for tools: `map` gives the source lines
of every definition, `mutants` a plausible bug that breaks every property.

Contents: 1 the system · 2 what is hard in it · 3 the modules and the code ·
4 the runs · 5 the fairness · 6 the proofs · 7 seen while modelling · 8 what is
not modelled · 9 what is left.

## 1. The system

One extension host process per VS Code window, single-threaded; webviews (chat,
launcher, settings, raw) talk to it by messages; the Pi SDK's agent session runs
in the host and calls back with events. Several windows, and the standalone
host, share session files and a state file on disk.

| Part | Source | State it keeps | Operations | Correct when |
|---|---|---|---|---|
| Writable-session lock | `adapters/node/session-lock.ts`, `core/session/session-lock-recovery.ts` | a sidecar file and recovery-claim files per session | acquire, release, recoverStale | one writer per session; a lock left by a crash can be reclaimed |
| Chat turns and message queue | `core/chat/chat-service.ts`, `chat-command-service.ts`, `chat-event-policy.ts`, `turn-notification-gate.ts`, parts of `chat-host.ts` and `controllers/chat-controller.ts` | queue, retry head and count, streaming and compaction flags, gate | send, queue, edit, remove, cancel, steer, dispatch, retry, agent events | every message leaves exactly once, in order; the tab does not hang; exactly the user's runs notify |
| File history | `core/files/checkpoint-manager.ts`, `diff-manager.ts`, parts of `chat-service.ts` and `webview/main.ts` | checkpoints by turn, change list with baselines, the suspended halves of both, cut messages | startTurn, captures, undo, restore, redo, session reset | a restore is exact; a redo undoes it; nothing listed is without a baseline |
| Subagents: scheduling and lifecycle | `pi/subagents/manager.ts`, `coordinator.ts`, `pi-child-session.ts`, `completion-tool.ts` | rows and active runs, a queue per chat, slots and queue of the window, the workspace lease | launch, resume, stop, steer, turn, timeout, dispose, shutdown | limits, budgets, stops and results are respected; every run settles; writers exclude each other |
| Subagents: worktrees | `pi/subagents/write-isolation.ts`, parts of `pi/session.ts`, `manager.ts`, `pi-child-session.ts` | a directory, git's registration of it, a patch file, the path in the row | prepare, reattach, review, apply, clean up | a resumed child finds its edits; no edits out of reach; an apply is whole |
| Subagents: records | `pi/subagents/persistence.ts`, parts of `manager.ts` | rows in memory, records on disk, a queue of writes | persist, evict, resolve, dismiss, resume, dispose, restart | a run under way is shown; a dismissed one does not come back; a chat opens as it was left |
| Subagents: catalogue | `pi/subagents/registry.ts`, `resolver.ts`, `claude-agents.ts`, `package-agents.ts`, … | definitions found on disk | reload, resolve | precedence of sources |
| Session runtime | `pi/session-runtime.ts`, `pi/session.ts` | the SDK session, its lock and event binding, the transition under way, undelivered notices of background runs | start, replace, clear, dispose, notify | a session is open only under its lock; a closed tab keeps nothing; a notice reaches the chat that asked |
| Chat host, tabs, controller | `core/chat/chat-host.ts`, `tab-runtime.ts`, `tab-registry.ts`, `controllers/chat-controller.ts` | tabs, panels, attention, preferences | open, focus, switch session, close, delete a chat | one tab per session; no open chat is deleted; events reach their tab |
| Agent connection | `shared/agent-connection-client.ts`, `shared/*protocol*.ts`, `providers/chat-panel-connection.ts` | pending requests, event epoch and sequence, recovery flag | request, receive, close, initial state | events are heard once and in order; a gap is repaired |
| State store | `adapters/node/json-state-store.ts` | visible, committed and pending values; the file | update, mutate, flush | no update of another process is lost |
| Raw mode | `core/raw/*`, `adapters/vscode/raw-storage.ts`, `pi/session.ts` | a recorder per open session, sequence numbers, write chain | record, clear, delete, close | the numbers of a file rise; what is wiped stays wiped; an open session is recorded |
| Todo list | `pi/todo/*` | tasks and their dependencies | reduce, replay | no cycle; replay gives the state back |
| OAuth login | `pi/oauth-login-flow.ts` | one pending input | prompt, submit, cancel, finish | an answer goes to the prompt that asked |
| Tool timing, turn metrics | `shared/tool-timing.ts`, `turn-metrics.ts` | intervals | merge, total | overlapping tools are not counted twice |
| Accounts, models, providers, usage | `pi/auth.ts`, `models.ts`, `codex-*`, `deepseek-*`, `providers/*` | cached answers of services | fetch, parse | – |
| Claude compatibility, MCP import, LSP tools, file mentions | `pi/claude-compat/*`, `pi/mcp/*`, `pi/lsp/*`, `*/file-mentions.ts` | none between calls | discover, parse, format | – |
| Webviews | `webview/*` | the projection on show | render, decide to send or to queue | – |
| Host glue | `extension.ts`, `providers/*`, `adapters/vscode/*`, `core/ports/*` | registrations | activate, deactivate | order of shutdown |

How they interact:

* A chat tab owns a session runtime, which holds the session's lock; opening a
  session acquires it (`acquireSessionLock`), and a refused open is shown to the
  user, who may try again. Subagent children open transcripts through the same
  path, and the state store uses the same lock class on its own file.
* A webview sends commands; the host may have changed state by the time it
  handles them. SDK events are delivered synchronously; their handlers await
  accounting and then act on state that other handlers have changed.
* The controller dispatches the head of a tab's queue from four terminal events
  (`agent_end`, `agent_settled`, `compaction_end`, the end of a queued task).
* Tools call the file history before and after they write; a prompt starts a
  turn in it; undo, restore and redo come from the webview.
* The parent's tool call launches subagents through the manager of its chat;
  every manager of the window shares one coordinator. Deactivation disposes the
  coordinator first and the managers after it. The same tool resumes, reviews,
  applies and cleans up; the parent may make several such calls at a time.
* A tab makes a raw recorder for every session it opens, looked up by the path
  of the session; the settings clear raw files of sessions that may be open.
* A panel and its page talk over two one-way message channels; a reloaded page
  is a new client of the same panel.

## 2. What is hard in it

`PROJECT.json` lists the hazards line by line. In groups:

1. *Files by name.* The lock is an `open('wx')`, a write and an unlink, each a
   separate await; processes crash between any two.
2. *Published state that is out of date.* A client decides to send or to queue
   from a snapshot; `isSessionBusy` looks at the session, not at a dispatch that
   has reserved the tab.
3. *Code after an await.* The head of the queue is edited, removed or replaced
   while it is expanded; `agent_end` accounting ends after the next run began.
4. *One thing, several numberings.* Turns count attempts, the agent's context
   holds what was not cut or compacted, the client counts the messages on show.
5. *Aborts with three owners.* A stop, a timeout and a spent budget all abort a
   child and each writes the reason; the child may deliver in the same turn.
6. *Nested queues.* A run waits for its chat's slot and then for the window's.
7. *Memory over disk.* Rows are evicted and read back beside the writes that are
   queued behind them; a state file is read from memory and written on top of
   what another program has written; a worktree is named by a row that may be
   older than it.
8. *Leaving one session for another.* Stop the subagents, unbind, release, lock,
   create, activate: each step may fail, and the tab may be closed or its chat
   deleted meanwhile.
9. *A stream with gaps.* Events are numbered within epochs; a client that sees a
   gap asks for the whole state while the stream goes on.
10. *Found by path.* A recorder is looked up by the path of its session, which
    two tabs may have had one after the other.

## 3. The modules and the code

| Module | What it is |
|---|---|
| `SessionLock` | the lock, one action per awaited system call |
| `ChatTurn` | queue, dispatch, retry, SDK session, notification gate; implements `PromptDelivery` |
| `PromptDelivery` | abstract: what a tab promises about each message |
| `FileHistory` | checkpoints, changes, message cut, client numbering |
| `Subagents` | launch, queues, creation, turns, stops, timeouts, closing, lease |
| `SubagentRecords` | rows, records, the queue of writes, eviction, dismissal, reading back, restart |
| `Worktrees` | the git worktree of one agent and the tool calls on it |
| `Sessions` | tabs, session managers and their locks, notices, deletion of chats |
| `StateStore` | the shared state file; implements `StateLedger` |
| `StateLedger` | abstract: what a shared state file promises its programs |
| `AgentConnection` | panel, wire and webviews: epochs, sequences, gaps, recovery |
| `RawRecorder` | recorders, their registry, numbering, clears and deletions |
| `MC…` | one per module: model values, bounds, symmetry |
| `…Proofs` | the theorems of every module: those of `SessionLock` are in `SessionsProofs`, those of `Worktrees` in `SubagentsProofs`, the others in the module's own |

The modules meet at their interfaces. `Sessions` and `StateStore` take from
`SessionLock` that a lock is granted when nobody has it; `Sessions` takes from
`Subagents` that subagents told to stop settle; `SubagentRecords` has of a run only
whether it is under way, and `Worktrees` of a row only whether it names a worktree.

Mutants (`…Any`, `…Never`, `…AtOnce`, …) stand before the definition they would
replace, marked as variants or mutants in their comments; no specification uses
them.

### SessionLock

`lock` is the sidecar file with the fields that matter (owner id, creator, boot
instant, readable or not, older than `staleAfterMs` or not), `claims` the recovery
claim files by the owner they evict, `pc[c]` the await an opener is suspended at.
`AcquireOpen` to `AcquireUnwind` are `acquire`, `ConflictRead` and `ConflictStat`
the read that makes a conflict's verdict (two calls, since an unreadable file is
also stat-ed), `ClaimRecovery` to `FinishRecovery` are `recoverStale`, `ReleaseRead`
and `ReleaseUnlink` are `release`. `Crash`, `Start` and `Reboot` are the environment;
`Age` makes a lock `old`: its payload's `acquiredAt`, or the mtime of a file that
cannot be read, is `staleAfterMs` behind. `OwnerLiveness` is what the code can
find out about the owner of a readable lock: dead if the boot instants are known
and differ, otherwise what the probe of its process answers, `unknown` being a
possible answer for any process; a machine may have no boot instant at all
(`UnknownBoot`). Owner ids are random in the code and therefore fresh here. A
recovery that has found its owner dead goes to stage `evict`, one that has only
waited out the stale age (an unreadable lock, or an owner of unknown liveness) to
`evictGuess`. `guessed` is a history variable: a recovery of the second kind
unlinked the lock of a running creator, or another lock than it had judged. That a
read or a stat of the file itself fails is not modelled.

### ChatTurn and PromptDelivery

The host is one thread, so an action is what runs between two awaits. A call of
`dispatchNextQueued` or `dispatchDirectPrompt` in flight is a *task* suspended at a
stage (expanding mentions, SDK preflight, waiting for a compaction, rejected,
retrying, …). The SDK is external: it emits synchronously, so a step of it and
the handler of its event are one action. `wire` holds commands the client has
sent from state that may be old. Text matters in two ways only: two messages may
have the *same* text (the retry head is compared by text) and a text may be
`/compact`.

`env` says what may happen besides, and which messages are sent: the initial state
picks one of `Envs`, so that one run has several environments and a property says
under which of them it holds. `Orderly` excludes the overtakings (`hastyUser`,
`clientLag`) and the crossings (`slowAccounting`, `preCompaction`, `otherRun`).

| Kind | What it allows |
|---|---|
| `clientLag` | other steps between a command's sending and its handling |
| `hastyUser` | a send while another direct send is under way |
| `slowAccounting` | other events while `agent_end` awaits its accounting |
| `queueEdits` | edit, remove, cancel |
| `prepareFails`, `preflightFails`, `runFails` | the expansion, the SDK's checks or the run throw |
| `preCompaction`, `postCompaction`, `compactInRun` | automatic compaction before, after and during a run |
| `autoRetry` | the SDK retries a run on its own |
| `commands` | an extension command answers a prompt without a run |
| `otherRun` | an extension starts a run |
| `steering` | messages into a running turn |

Refinement: `Delivery == INSTANCE PromptDelivery WITH state <- …` maps each message
to unsent, waiting, run, handled, withdrawn, refused – or to a value the
abstract module does not have if it is held nowhere. Of a tab that is not
orderly nothing is promised, and the mapping says "unsent".

### FileHistory

`checkpoints`/`suspended`/`rollback` are the fields of `CheckpointManager`;
`changes`/`originals`/`pending`/`cutChanges`/`cutOriginals` those of `DiffManager`;
`branch`, `context`, `cutMessages`, `hidden` the persisted user messages, the agent's
context, `tab.suspendedMessages` and the number of messages the client has not
loaded. Contents are numbers, each write a new one. `Restore` is the whole of
`restoreCheckpoint`: both managers, the cut and the files, with sets of unreadable
and unwritable files that are skipped one by one. A prompt of the queue reserves
the tab while it is prepared ("dequeued"); a direct one marks it only at
`agent_start`, so a restore, redo or undo may slip in ("preparing") and delete the
checkpoint the turn has just opened: what its run writes is then captured nowhere.
History: `before` (the files when each turn began), `astray` (the turn in which a
file was last undone by hand, left by a failed operation, or written without a
checkpoint), `rolledAt` (the turn of the last restore), `bare` (files undone by hand
while a rollback kept changes of them), `saved` (what the first restore of a
rollback replaced, and the files lost to it).

### Subagents

`run[r]` joins the manager's row, its `ActiveRun` and the child's session. `gate` has
both queues: `waiting[c]` and `slots[c]` per chat, `queue`, `granted` and `active` for the
window. A chain of promise reactions with nothing to wait for is one action,
except the grant of a slot: its holder looks at the abort signal when it resumes
(`Start`, `Refuse`). `Created` is everything from the created session to the first
prompt, which is sent without a look at the signal (section 7). `Turn` is one turn of the
child with the manager's `turn_end` handler; `PromptReturns` everything from the end
of the prompt to `dispose` of the handle; `Close` the handle's disposal, the lease,
both slots and the next grants. `Spawn`, `Resume`, `Stop`, `ParentAborts`,
`TimeOut`, `Steer`, `CloseChat`, `Shutdown` are the callers. `extra`, `stopped` and `deaf` are history. The
import of the SDK that may fail before the `try` block of `create` is left out.

### SubagentRecords

`row`, `spec`, `timer` and `exec` are the maps of a manager, `queue` its
`persistenceTail`, `disk` the record files, `call` a `resolveRun` that awaits storage.
An execution keeps the object it was launched with (`held`, `shared`): a row read
back meanwhile is another object. `Dispose` to `DisposeEnds` wait for the runs in
flight and for the writes queued by then; `Crash` forgets memory, `Reopen` is the
next manager of the chat, with the rewriting of records that say "active". The
statuses are cut to active, completed, failed and interrupted.

### Worktrees

`dir` is the set of files that differ from HEAD, `registered` what `git worktree
list` says, `noted` the index after `add --intent-to-add`. `row`, `disk` and `queue`
are those of `SubagentRecords`, cut to "names a worktree" and "has a transcript". A
run goes through attaching *or* wiping and adding, then creating, then working; a
tool call through note, diff, write, apply, tidy, or remove and clear, each an
awaited git or file operation. The tool looks at the status of the run once, when
it begins, so a resume in a parallel call may overtake it (`crossed`); `dated` says
that a row was made of a record older than it was, `missed` that a removal ended
half-way or without a row to clear. HEAD is fixed, writes of a child whose
directory is gone are left out, and so is the truncation of the shared patch file
while it is rewritten, since git refuses an empty patch.

### Sessions

A manager has a stage of its transition (`step`) and one of its life (`end`); the
two queue behind each other as `_runLifecycleTransition` and `dispose` do. `Replace`
is `newSession` and `loadSession`, `Leave` to `Activated` the rest of them: stop the
subagents, invalidate, release, acquire, create, activate, with the clean-up of
each failing step. `Delete` to `Unlink` are `deleteHistorySession`, which waits for
the tab to be gone. `Settle` delivers the notice of a background run at once or
puts it into `pending` while the agent streams. `named` are file names given out: the
SDK never gives one twice.

### StateStore and StateLedger

A mutation is a function of the state, so a state is the sequence of mutations
that made it. `Begin`, `Acquire`, `Read`, `Write`, `Fails`, `Release`, `Settle` are
`_writeMergedWithLock` and `_enqueueWrite`; `shared` tells a store with a lock from
one without. A crash leaves its lock to be recovered (`Dead`); a release that
fails leaves it taken until the program ends.

### AgentConnection

`bound`, `epoch`, `sequence`, `buffer` are the panel's, `current`, `retired`, `last`,
`recovering` the client's; `boot` is `requestInitialAgentState` with its retries. The
wire keeps the order; `Lose` and `Repeat` act on any message in it. Only `getState` is
modelled as a request. `Constructed` is the constructor: adding the sink replays the
account snapshots that are known (up to `MaxEarly`), then come ready, the raw mode's
switch and the state. `missed` (a gap was seen and no state since) is history.

### RawRecorder

Stages follow a tab from the lock to the open session: `Retired`, `ReadSeq`, `Make`,
`Created`, and the ways back. `chain` is a recorder's `_writeChain`, `mounted` the
registry by path, `clear` and `del` the two ways to wipe. Entries carry the `era` of
their recorder, which a wipe ends. History tells the cases in which the code does not
keep the numbers, or the recorder, of a session: `unread` tabs and the recorders
`restarted` at 0 for them (`getNextSeq` failed), sessions `shared` because another
recorder was in use (`Beside`) when the first number was asked for, and the
recorders a deletion has disposed (`deleted`).

## 4. The runs

Twelve runs, all of which terminate without error; every property has a mutant
that its run refutes, and the runs together fire every action.

| Run | Instance | Question |
|---|---|---|
| `lock` | 2 openers, 2 processes, 1 machine with or without a boot instant, 3 owner ids, 1 reboot, fairness | Is exclusion broken only by a recovery without proof? Is what a proven recovery unlinks what it judged? Is an abandoned lock reclaimed? |
| `turns` | four environments: 4 messages with failures, edits and retries; 3 with commands and steering; 3 that overtake each other; 2 with everything; 2 faults, 1.0 M states | Does a message ever run twice? In an orderly tab: order, one dispatch, history locked in a run, notifications, nothing lost? |
| `turn_drains` | 2 prompts and a `/compact`, 1 failure, fairness | Is `PromptDelivery` implemented, liveness included? |
| `history` | 2 files, 1 earlier turn, 2 turns in all, 2 writes, 1 fault | Are restore, redo and undo exact while the numberings agree, wherever they slip in? |
| `subagents` | 2 writers in two chats, 1 or 2 slots, budgets 1 and 2, 3 faults | Do writers exclude each other? Are budgets, stops and results respected? |
| `subagents_settle` | 2 writers in one chat and a reader in another, 1 slot in all, 1 fault, fairness | Does every run settle and every closing end? |
| `records` | 2 agents, 2 callers, 1 retained row, 2 launches, 1 fault | Is a live run always shown? Does the disk catch up? Does a chat open as it was left? |
| `worktrees` | 2 files of which one new, 2 calls, 3 runs, 1 fault, 2.4 M states | Are the edits of a child kept, within reach, and applied whole? |
| `sessions` | 2 tabs, 2 files, another window, 2 background runs, 1 fault, 1.8 M states | Is a session open only under its lock? Does a closed tab keep anything? Do notices come home? Is an open chat ever deleted? |
| `store` | 2 programs, 3 mutations, 2 faults, fairness | Is `StateLedger` implemented? What do readers see? Is every mutation answered? |
| `connection` | 2 webviews, buffer of 4, up to 1 early snapshot, 2 attempts, 2 events, 1 fault, 6 messages under way, 2.9 M states | Is every page welcomed? Are events heard in order and once? Does one gap heal? |
| `raw` | 2 tabs, 2 sessions, 3 recorders, 2 records, 1 wipe, 1 fault, 0.8 M states | Do numbers rise? Do wipes hold? Is an open session recorded? |

Why the bounds suffice:

* *lock*: a broken exclusion needs one abandoned lock and two openers; three owner
  ids are the abandoned lock, the one that takes its place and the one the
  recoverer creates. A recycled process id needs one reboot. The theorems cover
  any number.
* *turns*: every race is between one dispatch, the prompt that overtakes it and the
  one queued behind it, with two of one text so that the retry head may be
  mistaken; the fourth message is a `/compact` in the queue. Two faults: the
  second failure of a retried head.
* *history*: a second restore, an undo between, a change of one file in two turns,
  and a run across a rollback need two turns and two writes; two files tell "all
  but the failed ones" from "all".
* *subagents*: two writers meet at the lease, or at the coordinator's queue if
  there is one slot; with three agents on one slot both queues hold somebody.
  Turns are capped two above the budget, past which only children nobody will
  stop go on. `MaxFaults` counts failures, resumes, guidance, disposals and the
  shutdown. Stops and timeouts are not counted.
* *records*: a cap of one row makes the end of one run evict the other; two
  callers race to adopt a record; a second launch is a resume.
* *worktrees*: the first run leaves edits, the second resumes over them or after
  a removal, the third finds what these left; it is followed (`Sparse`) where
  nothing is applied and no call is under way. Two calls share the patch file.
* *sessions*: a switch needs two files and a deletion two managers. Background
  runs are followed (`Sparse`) while there is one tab and no other window: notices
  are a matter of one manager and its sessions.
* *store*: a lost update needs two programs and a mutation each; the third waits
  behind one of its own program.
* *connection*: epochs change when a page is loaded again, so two clients; a gap
  needs two events and one loss. A buffer of four is full after one event, or after
  the constructor if a snapshot came first (100, and two snapshots, in the code).
  With two faults a recovery may be lost too (section 7). `PagesInOrder` names the
  first page, follows its second question for the first state only while it is
  alone, and bounds the wire (`MaxWire`).
* *raw*: the second tab opens one session, the first two, so that one session is
  opened by both and one tab leaves it; `Sparse` excludes failures together with
  wipes and with many entries.

`CHECK_DEADLOCK FALSE` where every message has been handled, every write used,
every run settled or every bound reached: the system rests there. The lock's run
checks deadlock.

## 5. The fairness

* `SessionLock!FairLockSpec`: a started operation of a running process goes on, a user
  whose open was refused tries again, a file grows old. Nobody has to release,
  to fail, to crash or to come back.
* `ChatTurn!FairSpec`: commands are handled, tasks go on, the SDK ends what it has
  begun. The client need not act and nothing need fail.
* `Subagents!LiveSpec`: promises resume, sessions are created and disposed, an
  aborted child stops within a turn, timers fire. Nobody has to stop a run and a
  child may work as long as it likes: it is the timer that ends it.
* `StateStore!FairSpec`: file operations end, and the deadline for a lock passes.

All are weak fairness of the event loop, of timers or of system calls that the
code awaits without a time limit. Where such a call may hang in reality
(`factory.create` has no timeout and holds two slots) the liveness properties say
nothing.

## 6. The proofs

Every theorem is for all values of the constants, under the named ASSUMEs of the
module it extends (placements are functions, bounds are naturals). Every invariant
and every action property that a run checks has one; so does the refinement of
`StateLedger` and the safety part of that of `PromptDelivery`.

| Module | Theorem | Statement | Argument |
|---|---|---|---|
| `ChatTurnProofs` | `RunsOnce` | `[]NoMessageTwice` | `Placed` |
| | `OneDispatch` | `[]OneDispatchAtATime` | `Calm` |
| | `LockedInRun` | `[]FileHistoryLockedInRun` | `Calm` |
| | `NotifiesUser` | `NotifiesUserRunsOnly` | `Calm` |
| | `DeliverySafe` | `DeliveryKeptSafely` | `Ledger`, `NoneLost` |
| | `FirstInFirstOut` | `[]QueueIsFifo` | `Ledger`, `InOrder` |
| `SessionsProofs`, of the lock | `LockExclusion` | `[]ExclusionUnlessGuessed` | `LockInv` |
| | `ClaimExclusive` | `[]ClaimExclusion` | part of `LockInv` |
| | `EvictionsAreJustified` | `EvictionsJustified` | from `LockInv` |
| `SessionsProofs`, of the chats | `SessionsLocked` | `[]OpenUnderLock` | `IInv` |
| | `ClosedIsEmpty` | `[]ClosedHoldsNothing` | `IInv` |
| | `DeletionIsSafe` | `DeletesClosedChats` | `IInv` |
| | `NoticesReachTheirChat` | `[]NoticesComeHome` | `Reports` |
| `FileHistoryProofs` | `RollbackWhole` | `[]RollbackIsWhole` | `Numbered`, `NothingSuspended`, `Abandoned` |
| | `BaselinesKept` | `[]ChangesHaveBaselines` | `Baselined`, `CutOriginalsType` |
| | `RestoreReaches` | `RestoreReachesCheckpointWhenAligned` | `Ways` |
| | `RedoReturns` | `RedoUndoesRestore` | `Reversible` |
| `SubagentsProofs`, of runs | `WritersNeverMeet` | `[]WritersExclude` | `LeaseHeld` |
| | `StopIsHonoured` | `StopHonoured` | `StopsRecorded` |
| | `BudgetIsRespected` | `[]BudgetRespected` | `AllPaced` |
| | `DeliveredIsKept` | `DeliveredWins` | `DeliveriesNoted` |
| `SubagentsProofs`, of worktrees | `ResumedWithItsEdits` | `ResumesWithItsEdits` | `Known` |
| | `NeverStranded` | `[]NotStranded` | `Standing` |
| | `AppliedWhole` | `AppliesWhole` | `CallsFit` |
| `SubagentRecordsProofs` | `LiveRunsShown` | `[]LiveRunsAreShown` | `Inv` |
| | `RecordsCatchUp` | `[]DiskCatchesUp` | `AllBehind` |
| | `ReopenedAsLeft` | `ReopensAsLeft` | `AllBehind` |
| | `DisposalIsFinal` | `[]DisposedIsFinal` | `Waited` |
| `StateStoreProofs` | `ReadersAreServed` | `[]ReadersSeeThePast` | `IInv` |
| | `StoreIsALedger` | `Spec => Ledger!Spec` | a step or a stutter of the ledger per action |
| `AgentConnectionProofs` | `ListenersHearInOrder` | `HeardInOrder` | `AllHeard` |
| | `EveryPageIsWelcomed` | `[]PagesAreWelcomed` | `Opens` |
| | `GapHealsAfterAFault` | `[](faults <= 1 => GapsHeal)` | `Healing` |
| `RawRecorderProofs` | `WipesHold` | `[]WipedStaysWiped` | `Placed`, `OwnChain`, `OwnFile` |
| | `OpenSessionsRecorded` | `[]OpenIsRecorded` | `Seating`, `PausedForClear` |
| | `FileNumbersRise` | `[]NumbersRise` | `Numbers` |

All are of the form `Spec => …`, from the assumptions on the constants alone.
Besides, `TypeCorrect` proves `[]TypeOK` of each of these modules
(`LockTypeCorrect` and `TreeTypeCorrect` in the two that share a file), so TLC does
not run the type invariants again. The inductive invariants were checked by
TLC on the instances of the runs before they were proved.

*Chat turns.* Three invariants, each on top of the one before. `Placed` holds in every
environment: a message is in at most one place (sent, queued, carried by one
dispatch, in the transcript), and what has been in the transcript is nowhere
else; so a message cannot run twice. `Calm` holds in an orderly tab and says who
has it: a dispatch, a run, a terminal event or the client's next command, one at a
time, and what the streaming flag, the retry head and the armed gate are then.
The three properties of flags are read off it. With `Calm` every step of an orderly
tab is one line of a `Ledger`: a message is sent, enters the queue, is drawn from
its head, put back at its head, run, edited, removed, or nothing moves; that the
many branches of `dispatchNextQueued` amount to these few is most of the proof. The
two results on delivery are then about the ledger alone. `NoneLost`: a pending
message is somewhere, so the mapping of `PromptDelivery` is defined and every line
is a step or a stutter of it. `InOrder`: what a dispatch has drawn, followed by the
queue, is in the order of `arrival`, and what arrived before has been delivered,
withdrawn or handled.

*The lock.* Exclusion alone is not inductive: a second holder could appear because
the file was unlinked under the first. `LockInv` adds three parts. `HandlesInv`: owner
ids are fresh and belong to one opener, only running openers build or hold
handles. `ClaimsInv`: an opener in a recovery stage has its claim file and shares
it with nobody. `FilesInv`, which holds until a guess goes wrong: every handle is
backed by the lock file, and a recovery that has found its owner dead has before
it, until it unlinks, the readable lock of that owner, who is gone, on its own
machine – the step that fails for one that only waited. Exclusion follows since
the file has one owner id.

*File history.* A rollback ends in four ways (redo, next turn, another session, no
rollback at all) and each clears all three places; `Abandoned` says that a prompt has
ended every rollback made before its turn. Baselines: a redo lists the suspended
changes again, so the domain of `originals` joined with the suspended ones and
`bare` must cover them at all times, and pending edits keep their baseline until
their tool ends. Restore: with the
turns from `t` on undone a file has the content of the first of their checkpoints
that holds it (`Returns`); `Rewinds` says that this is the content the file had when the
turn began, for files not astray, and a restore computes just it. A rollback
divides the turns (`Divided`): a restore moves those after it to the suspended ones,
a redo takes them back, and `Redoes` says that the checkpoints lead back as before
once it has. Both hold during a run across a rollback, too: either the current
turn's checkpoint is still there, and then no turn is suspended
(`CurrentIsCalm`), or nothing is captured and what is written goes astray
(`StrayWays`). `Reversible` says that the suspended halves still add up to what was
saved, file by file; an undo by hand takes its file out of it.

*Subagents.* `LeaseHeld` needs only types: each way into a stage with a child takes
the lease and each way out returns it. `StopRecorded` ties the history flag to the
reason kept by the manager: the last abort wins, the outcome is chosen from it
once, and a later exception of `dispose` becomes cancelled, too. `DeliveryNoted`
says where a result may be, and that the outcome chosen with it is completed;
only an exception of `dispose`, which the property excepts, can undo that. `Paced` counts the
turns: a working child that was told to halt has at most one more, and only one
that was prompted after its abort is never told.

*Records.* A run under way holds the object that is its row: eviction and
dismissal need a row that is over, and a read adopts its record only where there
is no row with a specification. The disk lags: what is last in the queue, or on
disk when nothing is queued, is what was last handed to `persist`, unless that write
failed; what was last written as active is running; a dismissed row is not
written again. A disposal first waits for the runs it found and then for the
writes it found, so what is left is of a later launch or dismissal (`Waited`).

*Worktrees.* `Known` ties what the three hold together: the row in memory is the one
last persisted, the directory has the edits made since the last removal, and a
directory with edits is named. It needs only that no row was made of an older
record. `Standing` needs also that no removal ended half-way or met a run: a run and
a removal shut each other out, there is no worktree between the two halves of a
removal, and at all other times the worktree of a row can be managed. `CallsFit` is
about calls asked for since the last run: what such a call found is there or
gone, its patch is all of what it found, and all that found something found the
same – which is why it does no harm that they share one patch file.

*Sessions.* A manager's stage says which lock it has: that of its session, of the
session it creates, or of the one it has just left. A manager is disposed only
between transitions, so a closed one has none; a deletion waits for the tab it
found, and every session it could not see is noted in `del.late`. A background run in
flight is in the chat its manager has open, because a chat is left only with none
in flight and none starts on the way to the next; so its notice goes there, or
waits there, and is noted as stranded if the chat is left before.

*The store.* Under the lock the base of a write is the file; what is committed is
a prefix of the file; what is pending is not in the file but for the head of a
write that has just been made. So the file only grows, by the head of a queue.

*The connection.* What was heard is of retired epochs, or of the current one and not
after `last`. The buffer holds one ready, with nothing but passing events before it,
and one state behind it; these two are never what goes when it is full, so the
first page is handed both. For gaps: until the
fault strikes, every event of a client's stream has been passed or is preceded, on
the wire or in the panel, by the one before it (`Linked`, with no holes); the fault
leaves at most one hole; and once the hole has been seen, `Healing` says how far the
recovery has come – asked, worked on, answered, taken – with nothing missing after it.
A second fault could take the recovery itself, which is why the theorem has one.

*The raw files.* A recorder stays at the path it was made for, and its entries are
in its own chain and file; so those a clear waits for are all that could bring an
entry of an earlier era back. Of a path that was not shared, `Seating` says that at
most one recorder is busy (not closed, or with writes on their way), that some tab
has it in hand as candidate, current or retiring one unless a deletion disposed it,
that it is the mounted one until it closes, and that where a tab is about to make
one none is busy; so a retirement, which finds it by path, finds its own or none.
What a recorder has on its way rises from above what it has on disk, and from above
all that is on disk if it could read the file before it began (`Numbers`).

Left to TLC are the five liveness properties: `GoneOwnerReclaimedUnlessOrphaned`,
`DeliveryKept`, `RunsSettle`, `ClosingEnds` and `UpdatesAnswered`. They rest on fairness,
thus on ENABLED, which the provers installed here do not handle. That an upper bound
on failures is needed for `GapsHeal` is TLC's finding, too.

## 7. Seen while modelling

The properties hold; each says in its statement what it excepts. What it excepts
are these behaviours of the code, each found as a counterexample when the
exception was left out.

The lock:
* `recoverStale` for a lock that vanished between EEXIST and the conflict read
  (session-lock.ts:152) takes a file that is gone for one that is still
  unreadable, and unlinks by name: the lock a fresh owner has just created
  (`guessed` in `ExclusionUnlessGuessed`).
* A running owner whose process cannot be probed (any errno but ESRCH and EPERM) is
  evicted once its lock is older than `staleAfterMs` (:213), however recently it
  wrote the session (`guessed` again).
* A claim file orphaned by a crash blocks recovery of that lock for good (:133).

Chat turns:
* `isSessionBusy` (chat-service.ts:721) looks at the session, not at a dispatch that
  has reserved the tab; a prompt sent between `agent_end` and settlement runs beside
  the queued head, whose watcher takes the other run for its own (`clientLag`).
  So the queued message may be lost or overtaken, with `clientLag` or with `hastyUser`
  alone: order and delivery are promised of an orderly tab (`QueueIsFifo`,
  `DeliveryKept`); that nothing runs twice holds in all.
* A queued message may be edited into `/compact` (webview/main.ts:1798), and is then
  dispatched as one.
* `dispatchNextQueued` returns on an empty queue without clearing the reservation
  (:824), so that cancelling the queue at the right moment leaves the tab marked
  as streaming until the next run.
* `isStreamingLocal` may be cleared by the accounting of an earlier run (:635,
  `slowAccounting`).

File history:
* The client numbers the user messages it has loaded (webview/main.ts:939): with older
  pages not loaded, after failed prompts or steering, the number is not the turn
  (`Aligned`).
* After two restores a redo brings back the files, but of messages and changes only
  what the second restore cut. An undo by hand during a rollback drops a baseline
  the redo needs (`bare`).
* "Do not offer redo across a branch that already diverged" (wiki,
  checkpoint-rollback-redo.md:71) is kept for rollbacks made before a prompt. One
  made while a direct prompt is prepared stays in effect in the run: its edits have no checkpoint, and a redo after
  it appends the messages cut before to those of the run.

Subagents:
* After `factory.create` the run is prompted without a look at the signal
  (manager.ts:527): a stop during creation is not heard (`deaf`). A disposal waits
  for such a run.
* A timeout after a stop turns its outcome into a failure; a delivered result is
  discarded if the child's `dispose` throws.
* The import before the `try` block of `create` (pi-child-session.ts:60) would leave the
  lease taken if it failed. It is left out of the model: an import of the bundled
  SDK that fails once fails always.
* A resume that waits for storage launches after `dispose` (manager.ts:270, `late`).

Worktrees:
* A crash, or a failed write, between a fresh worktree and its record leaves a record
  that names none; the next resume takes the create path and wipes the child's
  edits (manager.ts:421, `dated`).
* A half-failed `git worktree remove`, or a clean-up whose row left memory meanwhile,
  leaves a row whose resume is refused from then on (session.ts:1422, `missed`).
* A resume and a clean-up in parallel tool calls: the child is uprooted, and the row
  names a worktree that is gone (`crossed`).
* A second apply after a resume is refused by git: the diff is against HEAD and
  contains what has been applied and staged. A dismissal leaves the worktree.
* The launcher's review, apply and clean-up messages are sent by no webview; the
  parent's tool calls are the only way.

Sessions:
* A switch leaves the old session before it locks the new one, so a chat that is
  locked elsewhere leaves the tab without a session; `newSession` and `loadSession` on
  such a tab return without a word.
* A failing release makes the disposal reject, and the tab stays in the registry. A
  panel opened during a disposal stays in `_openPanels`.
* `deleteHistorySession` does not take the session's lock. Notices that wait while
  the agent streams are appended to the next chat if the tab is switched
  (`stranded`). `restoreTabs` is called by nobody.

State file, connection, raw mode:
* A release that fails after the write reports a mutation that is on disk as failed.
* One recovery stands for every gap seen while it is under way: with a lost event
  *and* a lost or failed recovery the gap may stay until the next one (`GapsHeal` is
  checked with one fault). Two pages of one panel do not occur in VS Code; the model
  allows them.
* A tab releases a session's lock before it retires its recorder, and finds the
  recorder by path: another tab that has opened the session meanwhile may lose
  its own (session.ts:503–509), and their numbers may overlap (`shared`). So they
  may when a chat is opened whose deletion has disposed the recorder and waits for its
  appends; a deletion begun before a chat is open disposes the chat's own
  (`deleted`).
* If the first number cannot be read the recorder starts at 0 over a file with entries
  (session.ts:482, `restarted`).
* A straggler of a recorder closed before a clear may write after it.

## 8. What is not modelled

Of the modelled parts: `/name` commands, attachments, tool and compaction timings
and transcript projections (chat); diff text and paths (file history); transcripts,
removal of records by age and with their chat, file-change events of children
(records); models, tools, branches and statistics (sessions); the active tab,
attention and preferences (tabs); the message shapes and requests other than
`getState` (connection); the panel, the caches and the ring buffer (raw mode); path
canonicalisation and the schema of the lock file (lock). Their effect on the modelled
state is none, or one of the environment's choices.

Of the rest of the program:

* Parsing, formatting and discovery (Claude compatibility, catalogue, LSP, MCP,
  mentions), requests to services (accounts, models, usage), rendering (webviews)
  and registration (host glue) keep no state over which steps could be interleaved.
  They are most of the source.
* The todo list is one reducer, applied synchronously and restored from the last
  snapshot in the session file; moving between branches, where the two could
  differ, is not offered by this program. The login flow is one synchronous object
  whose prompts come one at a time. Tool timings are pure functions. Their unit
  tests go through the cases.

## 9. What is left

* Proofs: the slot counters of `Subagents` (`slots[c]` and `active` are the numbers of runs
  that hold a slot), which no property needs but the limits rest on.
* Closing a tab under fairness: `ClosingEnds` of `Subagents` is checked, and every stage of
  `Sessions` has one that follows it, but the composition of the two is not.
* Models: the removal of records by age at activation, beside a chat that is being
  opened; the projections of the chat host with their deferred publication.
