------------------------------ MODULE Worktrees ------------------------------
(***************************************************************************)
(* The git worktree of a delegated child: made for its first run, attached *)
(* again when it is resumed, read and applied to the workspace by the      *)
(* parent, and removed (pi/subagents/write-isolation.ts, with its callers  *)
(* in pi/session.ts, manager.ts and pi-child-session.ts).                  *)
(*                                                                         *)
(* A worktree belongs to one agent id, so this is the story of one agent.  *)
(* Its row and record are in SubagentRecords; here they say whether it has *)
(* a worktree (isolationPath) and a transcript. The parent may make        *)
(* several tool calls at a time. An edit is a file that differs from HEAD. *)
(***************************************************************************)
EXTENDS Naturals, Sequences

CONSTANTS
    File,        \* the files an edit may be of
    New,         \* those HEAD does not have
    Call,        \* bound: tool calls at a time
    None,        \* no row, no record, no directory, no patch file
    MaxLaunches, \* bound: runs of the child
    MaxQueue,    \* bound: record writes waiting
    MaxMishaps   \* bound: failures and crashes

ASSUME WorktreesAssumption == /\ New \subseteq File /\ \A S \in SUBSET File : S # None
                              /\ None \notin [path: BOOLEAN, ran: BOOLEAN]
                              /\ MaxLaunches \in Nat /\ MaxQueue \in Nat /\ MaxMishaps \in Nat

VARIABLES
    dir,        \* the directory of the worktree: the edits in it
    registered, \* git knows the worktree
    noted,      \* its index: the new files of an add --intent-to-add
    patchFile,  \* <worktree>.patch, shared by the calls
    applied,    \* the edits in the workspace
    row,        \* the run in memory
    disk,       \* its record
    queue,      \* records on their way to disk
    child,      \* where the run under way is
    call,       \* the tool calls under way
    last,       \* history: the row as it was last persisted
    work,       \* history: edits made since the last removal
    dated,      \* history: a row was made of an older record
    missed,     \* history: a removal ended half-way, or without its row
    crossed,    \* history: a removal and a run met
    launches, mishaps

tree   == <<dir, registered, noted>>
record == <<row, disk, queue, last>>
told   == <<work, dated, missed, crossed>>
treeVars == <<tree, patchFile, applied, record, child, call, told, launches, mishaps>>

Row   == [path: BOOLEAN, ran: BOOLEAN]
ChildStage == {"idle", "queued", "attaching", "wiping", "adding", "creating", "working"}
Free  == [stage |-> "free", diff |-> {}, begun |-> {}, quiet |-> TRUE]
Kind  == {"review", "apply"}

TreeInit ==
    /\ dir = None /\ registered = FALSE /\ noted = {}
    /\ patchFile = None /\ applied = {}
    /\ row = None /\ disk = None /\ queue = <<>> /\ last = None
    /\ child = "idle" /\ call = [c \in Call |-> Free]
    /\ work = {} /\ dated = FALSE /\ missed = FALSE /\ crossed = FALSE
    /\ launches = 0 /\ mishaps = 0

Mishap == mishaps < MaxMishaps /\ mishaps' = mishaps + 1
Edits == IF dir = None THEN {} ELSE dir
Removing == {c \in Call : call[c].stage \in {"removing", "removed"}}

----------------------------------------------------------------------------
(***************************************************************************)
(* The row and its record.                                                 *)
(***************************************************************************)

\* updateRun: the row changes and is written behind what waits.
Persist(r) == /\ row' = r /\ last' = r /\ queue' = Append(queue, r)
              /\ Len(queue) < MaxQueue
              /\ UNCHANGED disk

\* The oldest write is done, or fails and is logged.
WriteRecord ==
    /\ queue # <<>> /\ queue' = Tail(queue)
    /\ \/ disk' = Head(queue) /\ UNCHANGED mishaps
       \/ Mishap /\ UNCHANGED disk
    /\ UNCHANGED <<tree, patchFile, applied, row, last, child, call, told, launches>>

\* A row of a run that is over leaves memory,
Evict ==
    /\ row # None /\ child = "idle" /\ row' = None
    /\ UNCHANGED <<tree, patchFile, applied, disk, queue, last, child, call, told,
                   launches, mishaps>>

\* and is read back for the next tool call (resolveRun, loadParent).
ReadBack ==
    /\ row = None /\ disk # None
    /\ row' = disk /\ last' = disk
    /\ dated' = (dated \/ disk # last)
    /\ UNCHANGED <<tree, patchFile, applied, disk, queue, child, call, work, missed, crossed,
                   launches, mishaps>>

----------------------------------------------------------------------------
(***************************************************************************)
(* Runs of the child.                                                      *)
(***************************************************************************)
Started == /\ child = "idle" /\ launches < MaxLaunches /\ launches' = launches + 1
           /\ child' = "queued"
           /\ crossed' = (crossed \/ Removing # {})
           /\ call' = [c \in Call |-> [call[c] EXCEPT !.quiet = call[c] = Free]]

\* runForeground and runBackground.
SpawnChild ==
    /\ last = None /\ Started /\ Persist([path |-> FALSE, ran |-> FALSE])
    /\ UNCHANGED <<tree, patchFile, applied, work, dated, missed, mishaps>>

\* resumeForeground, of a run that has a transcript.
ResumeChild ==
    /\ row # None /\ row.ran /\ Started /\ Persist(row)
    /\ UNCHANGED <<tree, patchFile, applied, work, dated, missed, mishaps>>

\* Mutant: the recorded worktree is not handed to the child's session.
NoneRecorded == FALSE
Recorded == row.path

Go(stage) == child' = stage /\ UNCHANGED <<record, call, applied, patchFile, told, launches>>

\* The run has its slots; the session is made, in the worktree of its record if
\* it has one.
Prepare ==
    /\ child = "queued" /\ Go(IF Recorded THEN "attaching" ELSE "wiping")
    /\ UNCHANGED <<tree, mishaps>>

\* A run that is stopped, or fails, or is over.
Over ==
    /\ child' = "idle" /\ Persist(row)
    /\ UNCHANGED <<tree, patchFile, applied, call, told, launches>>

Stopped == child = "queued" /\ Over /\ UNCHANGED mishaps

\* assertReattachable: the worktree must be there and git must know it.
Attachable == registered /\ dir # None
Attach ==
    /\ child = "attaching" /\ Attachable
    /\ Go("creating") /\ UNCHANGED <<tree, mishaps>>
AttachRefused == child = "attaching" /\ ~Attachable /\ Over /\ UNCHANGED mishaps

\* The create path of prepare: rm of the directory, then git worktree add.
Wipe ==
    /\ child = "wiping" /\ Go("adding")
    /\ dir' = None /\ UNCHANGED <<registered, noted, mishaps>>
Add ==
    /\ child = "adding" /\ Go("creating")
    /\ dir' = {} /\ registered' = TRUE /\ noted' = {} /\ UNCHANGED mishaps

\* The child's session is there: the row learns of its worktree and transcript.
SessionMade ==
    /\ child = "creating" /\ child' = "working"
    /\ Persist([path |-> TRUE, ran |-> TRUE])
    /\ UNCHANGED <<tree, patchFile, applied, call, told, launches, mishaps>>

\* git or the making of the session fails.
SessionFails == child \in {"wiping", "adding", "creating"} /\ Mishap /\ Over

Edit(f) ==
    /\ child = "working" /\ dir # None /\ f \notin dir
    /\ dir' = dir \cup {f} /\ work' = work \cup {f}
    /\ UNCHANGED <<registered, noted, patchFile, applied, record, child, call, dated, missed,
                   crossed, launches, mishaps>>

Ends == child = "working" /\ Over /\ UNCHANGED mishaps

----------------------------------------------------------------------------
(***************************************************************************)
(* review, apply and cleanup.                                              *)
(***************************************************************************)
CallAt(c, stage) == call' = [call EXCEPT ![c].stage = stage]
Done(c) == call' = [call EXCEPT ![c] = Free]

Manageable == row # None /\ row.path /\ child = "idle"

\* The tool call: refused while the run is active, or without a worktree.
Ask(c, kind) ==
    /\ call[c] = Free /\ Manageable
    /\ call' = [call EXCEPT ![c] = [stage |-> kind, diff |-> {}, quiet |-> TRUE,
                                    begun |-> Edits]]
    /\ UNCHANGED <<tree, patchFile, applied, record, child, told, launches, mishaps>>

\* Mutant: untracked files stay unknown to git diff.
NotedNever == {}
Noted == dir

\* getWorktreeDiff: git add --intent-to-add, then git diff HEAD.
Note(c) ==
    /\ call[c].stage \in Kind
    /\ IF Attachable
         THEN /\ noted' = Noted
              /\ CallAt(c, IF call[c].stage = "review" THEN "reading" ELSE "diffing")
         ELSE Done(c) /\ UNCHANGED noted
    /\ UNCHANGED <<dir, registered, patchFile, applied, record, child, told, launches, mishaps>>

Differing == {f \in dir : f \in New => f \in noted}

\* An empty patch is refused; a review only shows it.
Diff(c) ==
    /\ call[c].stage \in {"reading", "diffing"}
    /\ IF call[c].stage = "diffing" /\ Attachable /\ Differing # {}
         THEN call' = [call EXCEPT ![c].stage = "writing", ![c].diff = Differing]
         ELSE Done(c)
    /\ UNCHANGED <<tree, patchFile, applied, record, child, told, launches, mishaps>>

\* applyWorktree: the patch file is named after the worktree, not the call;
WritePatch(c) ==
    /\ call[c].stage = "writing" /\ CallAt(c, "applying")
    /\ patchFile' = call[c].diff
    /\ UNCHANGED <<tree, applied, record, child, told, launches, mishaps>>

\* git apply takes all of a patch or nothing: it needs the file, and a workspace
\* that has none of it yet;
Applicable == patchFile # None /\ patchFile \cap applied = {}
ApplyPatch(c) ==
    /\ call[c].stage = "applying" /\ CallAt(c, "tidying")
    /\ applied' = IF Applicable THEN applied \cup patchFile ELSE applied
    /\ UNCHANGED <<tree, patchFile, record, child, told, launches, mishaps>>

\* and the file is removed.
Tidy(c) ==
    /\ call[c].stage = "tidying" /\ Done(c) /\ patchFile' = None
    /\ UNCHANGED <<tree, applied, record, child, told, launches, mishaps>>

\* cleanup begins as review and apply do.
AskRemoval(c) ==
    /\ call[c] = Free /\ Manageable /\ CallAt(c, "removing")
    /\ UNCHANGED <<tree, patchFile, applied, record, child, told, launches, mishaps>>

Uprooted == dir' = None /\ work' = {}

\* git worktree remove --force, of a worktree git knows.
RemoveTree(c) ==
    /\ call[c].stage = "removing"
    /\ IF registered
         THEN Uprooted /\ registered' = FALSE /\ noted' = {} /\ CallAt(c, "removed")
         ELSE Done(c) /\ UNCHANGED <<tree, work>>
    /\ UNCHANGED <<patchFile, applied, record, child, dated, missed, crossed, launches, mishaps>>

\* It fails before, or with the directory still there and git's entry gone.
RemoveFails(c) ==
    /\ call[c].stage = "removing" /\ Mishap /\ Done(c)
    /\ \/ UNCHANGED <<registered, missed>>
       \/ registered /\ registered' = FALSE /\ missed' = TRUE
    /\ UNCHANGED <<dir, noted, patchFile, applied, record, child, work, dated, crossed, launches>>

\* Mutant: the row keeps the path of the worktree.
NotCleared == row
Cleared == [row EXCEPT !.path = FALSE]

\* What is left of the directory goes; then the row, if it is in memory, forgets
\* the worktree.
Clear(c) ==
    /\ call[c].stage = "removed" /\ Done(c) /\ Uprooted
    /\ IF row # None /\ row.path THEN Persist(Cleared) /\ UNCHANGED missed
                                 ELSE missed' = TRUE /\ UNCHANGED record
    /\ UNCHANGED <<registered, noted, patchFile, applied, child, dated, crossed, launches, mishaps>>

\* The host dies: the files are left.
Crash ==
    /\ Mishap
    /\ row' = None /\ queue' = <<>> /\ child' = "idle"
    /\ call' = [c \in Call |-> Free]
    /\ missed' = (missed \/ Removing # {})
    /\ UNCHANGED <<tree, patchFile, applied, disk, last, work, dated, crossed, launches>>

----------------------------------------------------------------------------
TreeNext ==
    \/ WriteRecord \/ Evict \/ ReadBack \/ Crash
    \/ SpawnChild \/ ResumeChild \/ Prepare \/ Stopped \/ Attach \/ AttachRefused \/ Wipe \/ Add
    \/ SessionMade \/ SessionFails \/ Ends
    \/ \E f \in File : Edit(f)
    \/ \E c \in Call : \/ \E kind \in Kind : Ask(c, kind)
                       \/ Note(c) \/ Diff(c) \/ WritePatch(c) \/ ApplyPatch(c) \/ Tidy(c)
                       \/ AskRemoval(c) \/ RemoveTree(c) \/ RemoveFails(c) \/ Clear(c)

TreeSpec == TreeInit /\ [][TreeNext]_treeVars

----------------------------------------------------------------------------
(***************************************************************************)
(* Properties.                                                             *)
(***************************************************************************)

\* The shape of the worktree's state, of its record and of the tool calls.
TreeTypeOK ==
    /\ dir \in (SUBSET File) \cup {None} /\ registered \in BOOLEAN /\ noted \subseteq File
    /\ patchFile \in (SUBSET File) \cup {None} /\ applied \subseteq File
    /\ row \in Row \cup {None} /\ disk \in Row \cup {None} /\ last \in Row \cup {None}
    /\ queue \in Seq(Row)
    /\ child \in ChildStage
    /\ call \in [Call -> [stage: {"free", "reading", "diffing", "writing", "applying", "tidying",
                                  "removing", "removed"} \cup Kind,
                          diff: SUBSET File, begun: SUBSET File, quiet: BOOLEAN]]
    /\ work \subseteq File
    /\ dated \in BOOLEAN /\ missed \in BOOLEAN /\ crossed \in BOOLEAN
    /\ launches \in Nat /\ mishaps \in Nat

\* "resumes in the same worktree with its unfinished edits intact"
\* (CHANGELOG.md:53): when a child starts to work, what it wrote before is there,
\* unless it was removed on demand or its row was made of an older record.
ResumesWithItsEdits ==
    [][SessionMade => dated \/ Edits = work]_treeVars

\* "a worktree can no longer be stranded on disk with no way to apply or delete
\* it" (CHANGELOG.md:56): at rest a row names a worktree that can be managed,
\* and a worktree with edits is named, unless a removal ended half-way or met a
\* run of the child, or the row was made of an older record.
NotStranded ==
    row # None /\ child = "idle" /\ Removing = {} /\ ~dated /\ ~missed /\ ~crossed =>
        /\ row.path => Attachable
        /\ work # {} => row.path

\* An apply that succeeds brings all the edits the worktree had when it was
\* asked for, whatever other calls read, write and delete the patch file, as
\* long as the child did not work in the meantime.
AppliesWhole ==
    [][\A c \in Call : call[c].stage = "applying" /\ applied' # applied
         /\ call'[c].stage = "tidying" /\ (\A d \in Call : call[d].quiet)
         => call[c].begun \subseteq applied']_treeVars
=============================================================================
