---------------------------- MODULE RawRecorder ----------------------------
(***************************************************************************)
(* Raw mode: each session that is opened gets a recorder, which numbers    *)
(* what happens and appends it to the raw file of the session              *)
(* (core/raw/raw-recorder.ts, pi/session.ts, adapters/vscode/raw-storage). *)
(* A tab retires its recorder when it makes the next or closes; the        *)
(* settings clear one raw file or all, the history deletes one.            *)
(*                                                                         *)
(* An action is what runs between two awaits.  The recorder of a session   *)
(* is looked up by path.  bindSessionPath and the pending recorders are    *)
(* left out: the program names every session before it records.  The       *)
(* ring buffer of recent entries is left out: nothing reads it.            *)
(***************************************************************************)
EXTENDS Integers, SequencesExt

CONSTANTS
    Tab, Path,
    Recorder,      \* recorders, each made once
    None,
    MaxEntries, MaxWipes, MaxFaults   \* bounds: records, clears and deletions, failures

ASSUME RawAssumption == /\ None \notin Tab \cup Path \cup Recorder
                        /\ MaxEntries \in Nat /\ MaxWipes \in Nat /\ MaxFaults \in Nat

VARIABLES
    lock,      \* the tab that holds each session's lock
    stage,     \* where a tab is: up to its next await
    want,      \* the session a tab has, makes or has just left
    current,   \* _currentRawRecorder
    candidate, \* candidateRawRecorder
    retiring,  \* the recorder whose last appends a tab waits for
    seqRead,   \* what getNextSeq returned
    at, owner, \* a recorder's session, None before it is made, and its tab
    next,      \* _nextSeq
    closed, paused,
    chain,     \* _writeChain: the appends under way
    mounted,   \* RawRecorderRegistry._byPath
    file,      \* the raw file of each session
    clear,     \* the clear under way: _dataClearChain has one at a time
    del,       \* deleteHistorySession
    era,       \* history: how often what a recorder wrote has been wiped
    shared,    \* history: sessions that got a recorder while another was in use
    deleted,   \* history: recorders a deletion from the history has disposed
    unread,    \* history: tabs that could not read their first number,
    restarted, \* and the recorders that start at 0 for it
    entries, wipes, faults

tabs == <<lock, stage, want, current, candidate, retiring, seqRead>>
recorders == <<at, owner, next, closed, paused, chain, era>>
wiping == <<clear, del>>
history == <<shared, deleted, unread, restarted>>
bounds == <<entries, wipes, faults>>
vars == <<tabs, recorders, mounted, file, wiping, history, bounds>>

Stage == {"none", "locking", "retiring", "reading", "making", "creating", "undoing",
          "open", "closing"}
Entry == [by: Recorder, seq: Nat, era: Nat]
NoClear == [stage |-> "none", paths |-> {}, of |-> {}]
NoDel == [stage |-> "none", path |-> None, of |-> None]
Fault == faults < MaxFaults /\ faults' = faults + 1

Init ==
    /\ lock = [p \in Path |-> None]
    /\ stage = [t \in Tab |-> "none"] /\ want = [t \in Tab |-> None]
    /\ current = [t \in Tab |-> None] /\ candidate = [t \in Tab |-> None]
    /\ retiring = [t \in Tab |-> None] /\ seqRead = [t \in Tab |-> 0]
    /\ at = [r \in Recorder |-> None] /\ owner = [r \in Recorder |-> None]
    /\ next = [r \in Recorder |-> 0] /\ era = [r \in Recorder |-> 0]
    /\ closed = [r \in Recorder |-> FALSE] /\ paused = [r \in Recorder |-> FALSE]
    /\ chain = [r \in Recorder |-> <<>>]
    /\ mounted = [p \in Path |-> None] /\ file = [p \in Path |-> <<>>]
    /\ clear = NoClear /\ del = NoDel
    /\ shared = {} /\ deleted = {} /\ unread = {} /\ restarted = {}
    /\ entries = 0 /\ wipes = 0 /\ faults = 0

-----------------------------------------------------------------------------
(* Recording. *)

NewEntry(r) == [by |-> r, seq |-> next[r], era |-> era[r]]

(* record(), by a session that is open or being made.  A recorder that is  *)
(* closed or paused drops the entry.                                       *)
Records(t, r) == r = IF stage[t] = "open" THEN current[t] ELSE candidate[t]
Record(t, r) ==
    /\ stage[t] \in {"creating", "open"} /\ Records(t, r)
    /\ ~closed[r] /\ ~paused[r] /\ entries < MaxEntries
    /\ entries' = entries + 1
    /\ next' = [next EXCEPT ![r] = @ + 1]
    /\ chain' = [chain EXCEPT ![r] = Append(@, NewEntry(r))]
    /\ UNCHANGED <<tabs, at, owner, closed, paused, era, mounted, file, wiping, history,
                   wipes, faults>>

(* The next append of the chain, *)
Write(r) ==
    /\ chain[r] # <<>>
    /\ file' = [file EXCEPT ![at[r]] = Append(@, Head(chain[r]))]
    /\ chain' = [chain EXCEPT ![r] = Tail(@)]
    /\ UNCHANGED <<tabs, at, owner, next, closed, paused, era, mounted, wiping, history,
                   bounds>>

(* which may fail: a marker that is not written takes a number. *)
WriteFails(r) ==
    /\ chain[r] # <<>> /\ Fault
    /\ next' = [next EXCEPT ![r] = @ + 1]
    /\ chain' = [chain EXCEPT ![r] = Tail(@)]
    /\ UNCHANGED <<tabs, at, owner, closed, paused, era, mounted, file, wiping, history,
                   entries, wipes>>

-----------------------------------------------------------------------------
(* The tabs. *)

Go(t, s) == stage' = [stage EXCEPT ![t] = s]
Freed(t) == [p \in Path |-> IF lock[p] = t THEN None ELSE lock[p]]

(* A tab opens a session, or its session is left for another. *)
Open(t, p) ==
    /\ \/ stage[t] = "none" /\ current[t] = None
       \/ stage[t] = "open"
    /\ lock' = Freed(t)
    /\ Go(t, "locking") /\ want' = [want EXCEPT ![t] = p]
    /\ UNCHANGED <<current, candidate, retiring, seqRead, recorders, mounted, file, wiping,
                   history, bounds>>

(* RawRecorderRegistry.dispose: whoever is mounted there is closed. *)
Dispose(p) ==
    LET r == mounted[p] IN
    /\ mounted' = [mounted EXCEPT ![p] = None]
    /\ closed' = IF r = None THEN closed ELSE [closed EXCEPT ![r] = TRUE]

(* _retireCurrentRawRecorder, up to the drain. *)
Retire(t) ==
    IF current[t] = None
    THEN retiring' = [retiring EXCEPT ![t] = None] /\ UNCHANGED <<current, mounted, closed>>
    ELSE /\ Dispose(at[current[t]])
         /\ retiring' = [retiring EXCEPT ![t] = mounted[at[current[t]]]]
         /\ current' = [current EXCEPT ![t] = None]

Lock(t) ==
    /\ stage[t] = "locking" /\ lock[want[t]] = None
    /\ lock' = [lock EXCEPT ![want[t]] = t]
    /\ Retire(t) /\ Go(t, "retiring")
    /\ UNCHANGED <<want, candidate, seqRead, at, owner, next, paused, chain, era, file, wiping,
                   history, bounds>>

(* The session is open elsewhere: the tab stays without one, and keeps the *)
(* recorder of the session it has left.                                    *)
LockRefused(t) ==
    /\ stage[t] = "locking"
    /\ \/ lock[want[t]] # None /\ UNCHANGED faults
       \/ Fault
    /\ Go(t, "none") /\ want' = [want EXCEPT ![t] = None]
    /\ UNCHANGED <<lock, current, candidate, retiring, seqRead, recorders, mounted, file,
                   wiping, history, entries, wipes>>

(* Mutant: the last appends are not waited for. *)
DrainedAtOnce(r) == TRUE
Drained(r) == r # None => chain[r] = <<>>

Retired(t) ==
    /\ stage[t] = "retiring" /\ Drained(retiring[t])
    /\ Go(t, "reading") /\ retiring' = [retiring EXCEPT ![t] = None]
    /\ UNCHANGED <<lock, want, current, candidate, seqRead, recorders, mounted, file,
                   wiping, history, bounds>>

(* getNextSeq: one after the last entry of the file, or 0 when it fails.   *)
(* The session's earlier recorder may still be in use: it has appends      *)
(* under way or is not closed, and is another tab's or a deletion has      *)
(* disposed it; or another tab has yet to retire it.                       *)
LastSeq(s) == IF s = <<>> THEN -1 ELSE Last(s).seq
InUse(r) == ~closed[r] \/ chain[r] # <<>>
Beside(t, r) ==
    /\ at[r] = want[t]
    /\ \/ InUse(r) /\ (owner[r] # t \/ r \in deleted)
       \/ \E s \in Tab \ {t} : r \in {current[s], candidate[s]}
ReadSeq(t) ==
    /\ stage[t] = "reading" /\ Go(t, "making")
    /\ \/ /\ seqRead' = [seqRead EXCEPT ![t] = LastSeq(file[want[t]]) + 1]
          /\ UNCHANGED <<unread, faults>>
       \/ /\ Fault /\ seqRead' = [seqRead EXCEPT ![t] = 0]
          /\ unread' = unread \cup {t}
    /\ shared' = shared \cup {p \in {want[t]} : \E r \in Recorder : Beside(t, r)}
    /\ UNCHANGED <<lock, want, current, candidate, retiring, recorders, mounted, file, wiping,
                   deleted, restarted, entries, wipes>>

(* The recorder is made and registered; its first entry, if raw mode is    *)
(* on, is recorder_start.                                                  *)
Make(t, r) ==
    /\ stage[t] = "making" /\ at[r] = None
    /\ at' = [at EXCEPT ![r] = want[t]] /\ owner' = [owner EXCEPT ![r] = t]
    /\ \/ /\ next' = [next EXCEPT ![r] = seqRead[t]] /\ UNCHANGED <<chain, entries>>
       \/ /\ entries < MaxEntries /\ entries' = entries + 1
          /\ next' = [next EXCEPT ![r] = seqRead[t] + 1]
          /\ chain' = [chain EXCEPT ![r] = <<[by |-> r, seq |-> seqRead[t], era |-> era[r]]>>]
    /\ mounted' = [mounted EXCEPT ![want[t]] = r]
    /\ candidate' = [candidate EXCEPT ![t] = r] /\ Go(t, "creating")
    /\ seqRead' = [seqRead EXCEPT ![t] = 0] /\ unread' = unread \ {t}
    /\ restarted' = restarted \cup {q \in {r} : t \in unread}
    /\ UNCHANGED <<lock, want, current, retiring, closed, paused, era, file, wiping,
                   shared, deleted, wipes, faults>>

Created(t) ==
    /\ stage[t] = "creating" /\ Go(t, "open")
    /\ current' = [current EXCEPT ![t] = candidate[t]]
    /\ candidate' = [candidate EXCEPT ![t] = None]
    /\ UNCHANGED <<lock, want, retiring, seqRead, recorders, mounted, file, wiping, history,
                   bounds>>

(* The session cannot be made: the lock is released, *)
CreateFails(t) ==
    /\ stage[t] = "creating" /\ Fault
    /\ Go(t, "undoing") /\ lock' = Freed(t)
    /\ UNCHANGED <<want, current, candidate, retiring, seqRead, recorders, mounted, file,
                   wiping, history, entries, wipes>>

(* and the recorder mounted again, to be disposed; one that is closed      *)
(* already is not waited for.                                              *)
Undone(t) ==
    /\ stage[t] = "undoing" /\ Go(t, "closing")
    /\ retiring' = [retiring EXCEPT ![t] = IF closed[candidate[t]] THEN None
                                           ELSE candidate[t]]
    /\ mounted' = [mounted EXCEPT ![at[candidate[t]]] = None]
    /\ closed' = [closed EXCEPT ![candidate[t]] = TRUE]
    /\ candidate' = [candidate EXCEPT ![t] = None]
    /\ UNCHANGED <<lock, want, current, seqRead, at, owner, next, paused, chain, era,
                   file, wiping, history, bounds>>

(* dispose of the session manager: the recorder first, then the lock, if   *)
(* there is one.                                                           *)
Close(t) ==
    /\ stage[t] = "open" \/ (stage[t] = "none" /\ current[t] # None)
    /\ Retire(t) /\ Go(t, "closing")
    /\ UNCHANGED <<lock, want, candidate, seqRead, at, owner, next, paused, chain, era, file,
                   wiping, history, bounds>>
Closed(t) ==
    /\ stage[t] = "closing" /\ Drained(retiring[t])
    /\ Go(t, "none") /\ lock' = Freed(t)
    /\ want' = [want EXCEPT ![t] = None] /\ retiring' = [retiring EXCEPT ![t] = None]
    /\ UNCHANGED <<current, candidate, seqRead, recorders, mounted, file,
                   wiping, history, bounds>>

-----------------------------------------------------------------------------
(* Clearing from the settings. *)

Pause(rs) == paused' = [r \in Recorder |-> paused[r] \/ r \in rs]

(* Mutant: capture is not resumed. *)
StayPaused(rs) == UNCHANGED paused
Resume(rs) == paused' = [r \in Recorder |-> paused[r] /\ (r \notin rs \/ closed[r])]

(* clearSessionData and clearAllData: the recorders mounted at ps pause.   *)
MountedAt(ps) == {mounted[p] : p \in ps} \ {None}
Clear(ps) ==
    /\ clear = NoClear /\ wipes < MaxWipes /\ wipes' = wipes + 1
    /\ Pause(MountedAt(ps))
    /\ clear' = [stage |-> "flushing", paths |-> ps, of |-> MountedAt(ps)]
    /\ UNCHANGED <<tabs, at, owner, next, closed, chain, era, mounted, file, del, history,
                   entries, faults>>

(* Mutant: the appends under way are not waited for. *)
FlushedAtOnce(rs) == TRUE
Flushed(rs) == \A r \in rs : chain[r] = <<>>

Reset(rs) ==
    /\ next' = [r \in Recorder |-> IF r \in rs THEN 0 ELSE next[r]]
    /\ era' = [r \in Recorder |-> IF r \in rs THEN era[r] + 1 ELSE era[r]]

(* The files go; their recorders start again at 0. *)
Cleared ==
    /\ clear.stage = "flushing" /\ Flushed(clear.of)
    /\ file' = [p \in Path |-> IF p \in clear.paths THEN <<>> ELSE file[p]]
    /\ Reset(clear.of) /\ Resume(clear.of)
    /\ clear' = NoClear
    /\ UNCHANGED <<tabs, at, owner, closed, chain, mounted, del, history, bounds>>

(* Some files cannot be removed: the recorders go on where they were.      *)
ClearFails ==
    /\ clear.stage = "flushing" /\ Flushed(clear.of) /\ Fault
    /\ \E ps \in SUBSET clear.paths :
          file' = [p \in Path |-> IF p \in ps THEN <<>> ELSE file[p]]
    /\ Resume(clear.of)
    /\ clear' = NoClear
    /\ UNCHANGED <<tabs, at, owner, next, closed, chain, era, mounted, del, history, entries,
                   wipes>>

(* Deleting a chat from the history, which no tab has open: its recorder   *)
(* is disposed, after the records of its subagents; then the file goes.    *)
Delete(p) ==
    /\ del = NoDel /\ wipes < MaxWipes /\ wipes' = wipes + 1
    /\ \A t \in Tab : ~(stage[t] = "open" /\ want[t] = p)
    /\ del' = [stage |-> "records", path |-> p, of |-> None]
    /\ UNCHANGED <<tabs, recorders, mounted, file, clear, history, entries, faults>>
DeleteDisposes ==
    /\ del.stage = "records"
    /\ Dispose(del.path)
    /\ del' = [del EXCEPT !.stage = "draining", !.of = mounted[del.path]]
    /\ deleted' = deleted \cup ({mounted[del.path]} \ {None})
    /\ UNCHANGED <<tabs, at, owner, next, paused, chain, era, file, clear, shared, unread,
                   restarted, bounds>>
Deleted ==
    /\ del.stage = "draining" /\ Drained(del.of)
    /\ file' = [file EXCEPT ![del.path] = <<>>]
    /\ era' = [r \in Recorder |-> IF r = del.of THEN era[r] + 1 ELSE era[r]]
    /\ del' = NoDel
    /\ UNCHANGED <<tabs, at, owner, next, closed, paused, chain, mounted, clear, history, bounds>>

-----------------------------------------------------------------------------
Next ==
    \/ \E t \in Tab :
          \/ \E p \in Path : Open(t, p)
          \/ \E r \in Recorder : Record(t, r) \/ Make(t, r)
          \/ Lock(t) \/ LockRefused(t) \/ Retired(t) \/ ReadSeq(t)
          \/ Created(t) \/ CreateFails(t) \/ Undone(t) \/ Close(t) \/ Closed(t)
    \/ \E r \in Recorder : Write(r) \/ WriteFails(r)
    \/ \E p \in Path : Clear({p}) \/ Delete(p)
    \/ Clear(Path) \/ Cleared \/ ClearFails \/ DeleteDisposes \/ Deleted

Spec == Init /\ [][Next]_vars

-----------------------------------------------------------------------------
TypeOK ==
    /\ lock \in [Path -> Tab \cup {None}] /\ stage \in [Tab -> Stage]
    /\ want \in [Tab -> Path \cup {None}]
    /\ \A t \in Tab : stage[t] \notin {"none", "closing"} => want[t] \in Path
    /\ current \in [Tab -> Recorder \cup {None}] /\ candidate \in [Tab -> Recorder \cup {None}]
    /\ retiring \in [Tab -> Recorder \cup {None}] /\ seqRead \in [Tab -> Nat]
    /\ at \in [Recorder -> Path \cup {None}] /\ owner \in [Recorder -> Tab \cup {None}]
    /\ next \in [Recorder -> Nat] /\ era \in [Recorder -> Nat]
    /\ closed \in [Recorder -> BOOLEAN] /\ paused \in [Recorder -> BOOLEAN]
    /\ chain \in [Recorder -> Seq(Entry)]
    /\ mounted \in [Path -> Recorder \cup {None}] /\ file \in [Path -> Seq(Entry)]
    /\ clear \in [stage: {"none", "flushing"}, paths: SUBSET Path, of: SUBSET Recorder]
    /\ del \in [stage: {"none", "records", "draining"}, path: Path \cup {None},
                of: Recorder \cup {None}]
    /\ shared \subseteq Path /\ deleted \subseteq Recorder
    /\ unread \subseteq Tab /\ restarted \subseteq Recorder
    /\ entries \in Nat /\ wipes \in Nat /\ faults \in Nat

(* What a clear or a deletion has wiped does not come back: the recorder   *)
(* it found mounted has no earlier entry on disk or on its way there       *)
(* (clearPersistedData pauses and drains before it deletes).               *)
WipedStaysWiped ==
    /\ \A p \in Path : \A i \in DOMAIN file[p] : file[p][i].era = era[file[p][i].by]
    /\ \A r \in Recorder : \A i \in DOMAIN chain[r] : chain[r][i].era = era[r]

(* The numbers of a raw file rise, over reopenings, clears, deletions and  *)
(* failed appends, which is how its view tells new entries from old.  What *)
(* one recorder writes always rises.  From one recorder to the next they   *)
(* rise unless the next could not read the file (its getNextSeq fails and  *)
(* it starts at 0), or the session got a recorder while another was still  *)
(* in use: another tab's, or one that a deletion has disposed but whose    *)
(* appends are under way.                                                  *)
NumbersRise ==
    \A p \in Path : \A j, k \in DOMAIN file[p] :
        LET old == file[p][j]
            new == file[p][k]
        IN /\ (j < k /\ old.by = new.by) => old.seq < new.seq
           /\ (k = j + 1 /\ p \notin shared /\ new.by \notin restarted)
                => old.seq < new.seq

(* An open session is recorded: its recorder is the one its path finds, is *)
(* not closed, and pauses only for a clear under way; unless the session   *)
(* got a recorder while another was still in use, as above, or a deletion  *)
(* of the chat, begun before it was open, has disposed its recorder.       *)
OpenIsRecorded ==
    \A t \in Tab :
        (stage[t] = "open" /\ want[t] \notin shared /\ current[t] \notin deleted) =>
            /\ mounted[want[t]] = current[t]
            /\ ~closed[current[t]]
            /\ paused[current[t]] => current[t] \in clear.of
=============================================================================
