------------------------------ MODULE Sessions ------------------------------
(***************************************************************************)
(* The chats of a window: a tab owns a session manager, the manager owns   *)
(* at most one open session with its lock, switches it, and is disposed    *)
(* with its tab; chats are deleted from the history; background subagents  *)
(* report to the chat while all this goes on (pi/session.ts,               *)
(* pi/session-runtime.ts, core/chat/chat-host.ts, chat-controller.ts).     *)
(*                                                                         *)
(* The host is one thread: an action is what runs between two awaits. The  *)
(* lock is what SessionLock promises: granted when nobody has it.          *)
(***************************************************************************)
EXTENDS Naturals, FiniteSets

CONSTANTS
    Manager,   \* session managers, one per tab
    First,     \* the manager of the tab the window starts with
    File,      \* session files
    Past,      \* those in the history at the start
    Run,       \* background subagents
    None,
    Other,     \* another window
    Lost,      \* a lock this window failed to release, and keeps
    MaxFaults  \* bound: failures of a step

ASSUME SessionsAssumption == /\ First \in Manager /\ Past \subseteq File
                             /\ MaxFaults \in Nat
                             /\ {None, Other, Lost} \cap (Manager \cup File) = {}
                             /\ None \notin {Other, Lost} /\ Other # Lost

VARIABLES
    lock,      \* the holder of each file's lock
    files,     \* the session files on disk
    named,     \* files that have been given out: the SDK names new ones afresh
    bound,     \* PiSessionRuntime._state: the open session
    step,      \* the lifecycle transition, up to its next await
    want,      \* the session it creates
    end,       \* the manager: not made yet, in use, or the stage of its disposal
    tabs,      \* TabRegistry
    panels,    \* _openPanels
    turn,      \* a run of the main agent: isStreaming unless "idle"
    run,       \* background runs: in flight for a chat, or over
    pending,   \* _pendingBackgroundNotifications
    log,       \* notices appended to each session
    del,       \* deleteHistorySession
    stranded,  \* history: notices waiting when their chat was left
    faults     \* bound

chats    == <<tabs, panels>>
work     == <<turn, run, pending, log, stranded>>
sessions == <<lock, files, named, bound, step, want, end>>
vars == <<sessions, chats, work, del, faults>>

Step == {"idle", "stopping", "unlocking", "locking", "creating", "cleaning",
         "activating", "clearing"}
End  == {"unmade", "open", "asked", "children", "recorder", "unlocking", "closed"}
NotRun == [state |-> "none", by |-> None, chat |-> None]
NoDel  == [stage |-> "none", file |-> None, tab |-> None, late |-> {}]

InFlight(m) == {r \in Run : run[r].state = "running" /\ run[r].by = m}
Fault == faults < MaxFaults /\ faults' = faults + 1

\* The window starts with one tab, whose session is made at once only when
\* prewarm.full is set.
Init ==
    /\ lock = [f \in File |-> None] /\ files = Past
    /\ bound = [m \in Manager |-> None]
    /\ \/ /\ step = [m \in Manager |-> "idle"] /\ want = [m \in Manager |-> None]
          /\ named = Past
       \/ \E f \in File \ Past :
             /\ step = [m \in Manager |-> IF m = First THEN "locking" ELSE "idle"]
             /\ want = [m \in Manager |-> IF m = First THEN f ELSE None]
             /\ named = Past \cup {f}
    /\ end = [m \in Manager |-> IF m = First THEN "open" ELSE "unmade"]
    /\ tabs = {First} /\ panels = {}
    /\ turn = [m \in Manager |-> "idle"] /\ run = [r \in Run |-> NotRun]
    /\ pending = [m \in Manager |-> {}] /\ log = [f \in File |-> {}]
    /\ del = NoDel /\ stranded = {} /\ faults = 0

----------------------------------------------------------------------------
(***************************************************************************)
(* Tabs.                                                                   *)
(***************************************************************************)

\* The factory of a tab: a manager is made and starts its session.
MakeManager(m, f) ==
    /\ end[m] = "unmade"
    /\ end' = [end EXCEPT ![m] = "open"]
    /\ step' = [step EXCEPT ![m] = "locking"] /\ want' = [want EXCEPT ![m] = f]
    /\ UNCHANGED <<lock, files, bound, chats, work, del, faults>>

\* createTab, with a file the SDK has just named.
CreateTab(m, f) == f \notin named /\ named' = named \cup {f} /\ MakeManager(m, f)

findTabIdBySessionPath(f) == {t \in tabs : bound[t] = f}

\* openSession from the launcher, or a panel restored by the editor: a tab that
\* shows the session is revealed, else the session is read into a new tab.
OpenSession(m, f) ==
    /\ f \in files /\ findTabIdBySessionPath(f) = {}
    /\ UNCHANGED named /\ MakeManager(m, f)

\* openOrFocusPanel; the user closes a panel, and its tab stays.
ShowPanel(m) ==
    /\ m \in tabs \ panels
    /\ panels' = panels \cup {m}
    /\ UNCHANGED <<sessions, tabs, work, del, faults>>
ClosePanel(m) ==
    /\ m \in panels
    /\ panels' = panels \ {m}
    /\ UNCHANGED <<sessions, tabs, work, del, faults>>

\* dropTab: the panel goes, and the resources of the tab are disposed.
CloseTab(m) ==
    /\ m \in tabs /\ end[m] = "open"
    /\ end' = [end EXCEPT ![m] = "asked"] /\ panels' = panels \ {m}
    /\ UNCHANGED <<lock, files, named, bound, step, want, tabs, work, del, faults>>

----------------------------------------------------------------------------
(***************************************************************************)
(* Transitions of a manager. One at a time, and none once it is disposed.  *)
(***************************************************************************)
Go(m, stage) == step' = [step EXCEPT ![m] = stage]

\* newSession and loadSession, asked by a panel whatever its tab is doing. A
\* manager without a session returns without a word.
Replace(m, f) ==
    /\ m \in panels /\ end[m] = "open" /\ step[m] = "idle" /\ bound[m] # None
    /\ \/ f \notin named /\ named' = named \cup {f}
       \/ f \in files /\ UNCHANGED named
    /\ Go(m, "stopping") /\ want' = [want EXCEPT ![m] = f]
    /\ UNCHANGED <<lock, files, bound, end, chats, work, del, faults>>

\* _invalidateCurrent up to the release of the lock: events unbound, session
\* disposed in the middle of whatever it does.
Invalidate(m) ==
    /\ bound' = [bound EXCEPT ![m] = None] /\ turn' = [turn EXCEPT ![m] = "idle"]
    /\ stranded' = stranded \cup pending[m]

\* Mutant: the session is left before its subagents have been stopped.
LeaveAtOnce(m) == TRUE
Stopped(m) == InFlight(m) = {}

\* The subagents are stopped; the session is left.
Leave(m) ==
    /\ step[m] = "stopping" /\ Stopped(m)
    /\ Invalidate(m) /\ Go(m, "unlocking")
    /\ UNCHANGED <<lock, files, named, want, end, chats, run, pending, log, del, faults>>

Freed(m) == [f \in File |-> IF lock[f] = m THEN None ELSE lock[f]]

\* Releasing a lock may fail, and it stays taken.
Release(m) ==
    \/ lock' = Freed(m) /\ UNCHANGED faults
    \/ Fault /\ lock' = [f \in File |-> IF lock[f] = m THEN Lost ELSE lock[f]]

Done(m) == Go(m, "idle") /\ want' = [want EXCEPT ![m] = None]

\* A transition fails: the factory of a new tab disposes the manager, a tab that
\* exists stays without a session.
Fail(m) ==
    /\ Done(m)
    /\ end' = IF m \in tabs THEN end ELSE [end EXCEPT ![m] = "asked"]

\* The lock is free again and the new session is next; a failed release fails
\* the transition.
Unlocked(m) ==
    /\ step[m] = "unlocking" /\ Release(m)
    /\ IF lock' = Freed(m) THEN Go(m, "locking") /\ UNCHANGED <<end, want>> ELSE Fail(m)
    /\ UNCHANGED <<files, named, bound, chats, work, del>>

\* Mutant: a lock held by another is taken over.
GrantedAlways(m) == TRUE
Granted(m) == lock[want[m]] = None

\* acquireSessionLock, before the SDK opens the file.
Lock(m) ==
    /\ step[m] = "locking" /\ Granted(m)
    /\ lock' = [lock EXCEPT ![want[m]] = m] /\ Go(m, "creating")
    /\ UNCHANGED <<files, named, bound, want, end, chats, work, del, faults>>

\* Another tab or window has the session open, or the lock cannot be written.
LockRefused(m) ==
    /\ step[m] = "locking"
    /\ \/ ~Granted(m) /\ UNCHANGED faults
       \/ Fault
    /\ Fail(m)
    /\ UNCHANGED <<lock, files, named, bound, chats, work, del>>

\* The session is made and bound. A deletion under way has not seen it.
Created(m) ==
    /\ step[m] = "creating"
    /\ bound' = [bound EXCEPT ![m] = want[m]] /\ Go(m, "activating")
    /\ del' = IF del.file = want[m] THEN [del EXCEPT !.late = @ \cup {m}] ELSE del
    /\ UNCHANGED <<lock, files, named, want, end, chats, work, faults>>

\* Making or binding it fails: what there is of it is disposed,
CreateFails(m) ==
    /\ step[m] = "creating" /\ Fault /\ Go(m, "cleaning")
    /\ UNCHANGED <<lock, files, named, bound, want, end, chats, work, del>>

\* or making its subagent manager fails, and it is left,
ActivateFails(m) ==
    /\ step[m] = "activating" /\ Fault
    /\ Invalidate(m) /\ Go(m, "clearing")
    /\ UNCHANGED <<lock, files, named, want, end, chats, run, pending, log, del>>

\* and its lock released. A failing release changes nothing about the outcome.
Cleaned(m) ==
    /\ step[m] \in {"cleaning", "clearing"} /\ Release(m) /\ Fail(m)
    /\ UNCHANGED <<files, named, bound, chats, work, del>>

\* The manager of its subagents is made. A new tab is registered and shown.
Activated(m) ==
    /\ step[m] = "activating" /\ Done(m)
    /\ tabs' = tabs \cup {m}
    /\ panels' = IF m \in tabs THEN panels ELSE panels \cup {m}
    /\ UNCHANGED <<lock, files, named, bound, end, work, del, faults>>

----------------------------------------------------------------------------
(***************************************************************************)
(* Disposal of a manager.                                                  *)
(***************************************************************************)

\* Mutant: dispose does not wait for the transition under way.
QuietAnyway(m) == TRUE
Quiet(m) == step[m] = "idle"

\* dispose, once the transition under way has ended: the subagents are stopped,
DisposeBegins(m) ==
    /\ end[m] = "asked" /\ Quiet(m)
    /\ end' = [end EXCEPT ![m] = "children"]
    /\ UNCHANGED <<lock, files, named, bound, step, want, chats, work, del, faults>>

\* A notice needs an open session to be appended to.
Append(notices, f) == log' = IF f = None THEN log ELSE [log EXCEPT ![f] = @ \cup notices]

\* the notices flushed, the raw recorder retired,
DisposeFlushes(m) ==
    /\ end[m] = "children" /\ InFlight(m) = {}
    /\ Append(pending[m], bound[m]) /\ pending' = [pending EXCEPT ![m] = {}]
    /\ end' = [end EXCEPT ![m] = "recorder"]
    /\ UNCHANGED <<lock, files, named, bound, step, want, chats, turn, run, stranded, del, faults>>

\* the session left,
DisposeLeaves(m) ==
    /\ end[m] = "recorder"
    /\ Invalidate(m) /\ end' = [end EXCEPT ![m] = "unlocking"]
    /\ UNCHANGED <<lock, files, named, step, want, chats, run, pending, log, del, faults>>

\* and its lock released. The tab leaves the registry only if all went well; a
\* panel opened meanwhile stays.
Disposed(m) ==
    /\ end[m] = "unlocking" /\ Release(m)
    /\ end' = [end EXCEPT ![m] = "closed"]
    /\ tabs' = IF lock' = Freed(m) THEN tabs \ {m} ELSE tabs
    /\ UNCHANGED <<files, named, bound, step, want, panels, work, del>>

----------------------------------------------------------------------------
(***************************************************************************)
(* Turns, background subagents and their notices.                          *)
(***************************************************************************)

\* A prompt; the session file is written.
StartTurn(m) ==
    /\ m \in tabs /\ bound[m] # None /\ turn[m] = "idle"
    /\ turn' = [turn EXCEPT ![m] = "running"] /\ files' = files \cup {bound[m]}
    /\ UNCHANGED <<lock, named, bound, step, want, end, chats, run, pending, log, stranded, del,
                   faults>>

\* runBackground, by the main agent; the manager of the subagents must exist.
Spawn(m, r) ==
    /\ turn[m] = "running" /\ step[m] = "idle" /\ end[m] \in {"open", "asked"}
    /\ run[r] = NotRun
    /\ run' = [run EXCEPT ![r] = [state |-> "running", by |-> m, chat |-> bound[m]]]
    /\ UNCHANGED <<sessions, chats, turn, pending, log, stranded, del, faults>>

\* onBackgroundSettled: the notice waits while the agent streams.
Settle(r) ==
    LET m == run[r].by IN
    /\ run[r].state = "running"
    /\ run' = [run EXCEPT ![r].state = "over"]
    /\ IF turn[m] # "idle" THEN pending' = [pending EXCEPT ![m] = @ \cup {r}] /\ UNCHANGED log
                           ELSE Append({r}, bound[m]) /\ UNCHANGED pending
    /\ UNCHANGED <<sessions, chats, turn, stranded, del, faults>>

\* agent_end flushes the notices, unless dispose has unsubscribed; isStreaming
\* goes down a little later.
AgentEnds(m) ==
    /\ turn[m] = "running" /\ turn' = [turn EXCEPT ![m] = "ending"]
    /\ IF end[m] \in {"recorder", "unlocking", "closed"} THEN UNCHANGED <<log, pending>>
       ELSE Append(pending[m], bound[m]) /\ pending' = [pending EXCEPT ![m] = {}]
    /\ UNCHANGED <<sessions, chats, run, stranded, del, faults>>
TurnSettles(m) ==
    /\ turn[m] = "ending" /\ turn' = [turn EXCEPT ![m] = "idle"]
    /\ UNCHANGED <<sessions, chats, run, pending, log, stranded, del, faults>>

----------------------------------------------------------------------------
(***************************************************************************)
(* Deleting a chat from the history; another window.                       *)
(***************************************************************************)

\* deleteHistorySession: refused while a panel shows the chat; a tab without a
\* panel that has it open is detached.
Delete(f) ==
    LET open == findTabIdBySessionPath(f) IN
    /\ del = NoDel /\ f \in files
    /\ open \cap panels = {}
    /\ \E t \in open \cup {None} :
         /\ t = None => open = {}
         /\ del' = [stage |-> "detaching", file |-> f, tab |-> t,
                     late |-> {m \in Manager \ tabs : bound[m] = f}]
         /\ end' = IF t # None /\ end[t] = "open" THEN [end EXCEPT ![t] = "asked"] ELSE end
    /\ UNCHANGED <<lock, files, named, bound, step, want, chats, work, faults>>

\* Mutant: the deletion does not wait for the tab to be gone.
DetachedAtOnce == TRUE
Detached == \A t \in {del.tab} \ {None} : end[t] = "closed"

DetachFailed == del.tab \in tabs /\ end[del.tab] = "closed"

\* The tab is gone; then the records and the raw log go. A tab that could not be
\* closed ends the deletion.
DeleteDetached ==
    /\ del.stage = "detaching" /\ Detached
    /\ del' = IF DetachFailed THEN NoDel ELSE [del EXCEPT !.stage = "removing"]
    /\ UNCHANGED <<sessions, chats, work, faults>>

\* unlink.
Unlink ==
    /\ del.stage = "removing"
    /\ files' = files \ {del.file} /\ del' = NoDel
    /\ UNCHANGED <<lock, named, bound, step, want, end, chats, work, faults>>

\* Another window opens a chat, and leaves it (bound: one at a time).
OtherWindow(f) ==
    /\ f \in files
    /\ \/ lock[f] = None /\ lock' = [lock EXCEPT ![f] = Other]
          /\ \A g \in File : lock[g] # Other
       \/ lock[f] = Other /\ lock' = [lock EXCEPT ![f] = None]
    /\ UNCHANGED <<files, named, bound, step, want, end, chats, work, del, faults>>

----------------------------------------------------------------------------
Transition(m) ==
    \/ Leave(m) \/ Unlocked(m) \/ Lock(m) \/ LockRefused(m) \/ Created(m) \/ CreateFails(m)
    \/ ActivateFails(m) \/ Cleaned(m) \/ Activated(m)
Disposal(m) == DisposeBegins(m) \/ DisposeFlushes(m) \/ DisposeLeaves(m) \/ Disposed(m)

Next ==
    \/ \E m \in Manager :
         \/ \E f \in File : CreateTab(m, f) \/ OpenSession(m, f) \/ Replace(m, f)
         \/ ShowPanel(m) \/ ClosePanel(m) \/ CloseTab(m)
         \/ Transition(m) \/ Disposal(m)
         \/ StartTurn(m) \/ AgentEnds(m) \/ TurnSettles(m)
         \/ \E r \in Run : Spawn(m, r)
    \/ \E r \in Run : Settle(r)
    \/ \E f \in File : Delete(f) \/ OtherWindow(f)
    \/ DeleteDetached \/ Unlink

Spec == Init /\ [][Next]_vars

----------------------------------------------------------------------------
(***************************************************************************)
(* Properties.                                                             *)
(***************************************************************************)
TypeOK ==
    /\ lock \in [File -> Manager \cup {None, Other, Lost}]
    /\ files \subseteq named /\ named \subseteq File
    /\ bound \in [Manager -> named \cup {None}]
    /\ step \in [Manager -> Step] /\ want \in [Manager -> named \cup {None}]
    /\ end \in [Manager -> End]
    /\ \A m \in Manager : step[m] = "idle" <=> want[m] = None
    /\ tabs \cup panels \subseteq Manager
    /\ turn \in [Manager -> {"idle", "running", "ending"}]
    /\ run \in [Run -> [state: {"none", "running", "over"}, by: Manager \cup {None},
                        chat: File \cup {None}]]
    /\ pending \in [Manager -> SUBSET Run] /\ log \in [File -> SUBSET Run]
    /\ del \in [stage: {"none", "detaching", "removing"}, file: File \cup {None},
                tab: Manager \cup {None}, late: SUBSET Manager]
    /\ stranded \subseteq Run
    /\ faults \in 0..MaxFaults

\* A session is made, open or being left only under its manager's lock, so no
\* two tabs and no two windows write one session file.
OpenUnderLock ==
    \A m \in Manager :
        /\ bound[m] # None => lock[bound[m]] = m
        /\ step[m] \in {"creating", "cleaning"} => lock[want[m]] = m

\* A disposed manager has no session, no transition, no subagent and no lock but
\* one whose release failed.
ClosedHoldsNothing ==
    \A m \in Manager : end[m] = "closed" =>
        /\ bound[m] = None /\ step[m] = "idle" /\ InFlight(m) = {}
        /\ \A f \in File : lock[f] # m

\* The notice of a background run is appended to the chat that spawned it, or
\* waits there, unless it was waiting when the chat was left.
NoticesComeHome ==
    \A r \in Run \ stranded : run[r].state = "over" =>
        \/ r \in log[run[r].chat]
        \/ r \in pending[run[r].by] /\ bound[run[r].by] = run[r].chat

\* A session file is unlinked under an open session of this window only if the
\* session was on its way to a tab when the deletion began, or came later.
DeletesClosedChats ==
    [][del.stage = "removing" /\ del' = NoDel =>
         \A m \in Manager : bound[m] = del.file => m \in del.late]_vars
=============================================================================
