----------------------------- MODULE StateStore -----------------------------
(***************************************************************************)
(* JsonStateStore (adapters/node/json-state-store.ts): a state file shared *)
(* by programs that read it from memory at once and write it one mutation  *)
(* at a time, under the lock of the file and on top of what is there.      *)
(*                                                                         *)
(* Mutations are functions of the state, so a state is the sequence of the *)
(* mutations that made it. The lock is what SessionLock promises: granted  *)
(* when nobody, or only a program that ended, has it.                      *)
(***************************************************************************)
EXTENDS Naturals, Sequences, SequencesExt

CONSTANTS
    Store,     \* programs with the file open
    Mutation,
    None,
    Dead,      \* the holder of a lock whose program has ended
    MaxFaults  \* bound: failing steps and ends of programs

ASSUME StateStoreAssumption == None \notin Store /\ Dead \notin Store /\ None # Dead
                               /\ MaxFaults \in Nat

VARIABLES
    shared,    \* the stores have a lock; without one there is one program
    file,      \* the state on disk
    lock,      \* its lock
    up,        \* programs that run
    phase,     \* the write at the head of the queue
    base,      \* the state it is applied to
    committed, \* _committedValues
    pending,   \* _pendingMutations, the write queue
    values,    \* _values, what readers get
    answer,    \* the promise of each mutation
    faults     \* bound

vars == <<shared, file, lock, up, phase, base, committed, pending, values, answer, faults>>

Phase == {"idle", "locking", "reading", "writing", "written", "failing", "saved", "failed"}
Fault == faults < MaxFaults /\ faults' = faults + 1

Init ==
    /\ shared \in BOOLEAN
    /\ file = <<>> /\ lock = None /\ up = {}
    /\ phase = [s \in Store |-> "idle"] /\ base = [s \in Store |-> <<>>]
    /\ committed = [s \in Store |-> <<>>] /\ pending = [s \in Store |-> <<>>]
    /\ values = [s \in Store |-> <<>>]
    /\ answer = [m \in Mutation |-> "unasked"] /\ faults = 0

----------------------------------------------------------------------------
\* open: the file is read.
Open(s) ==
    /\ s \notin up /\ (shared \/ up = {})
    /\ up' = up \cup {s}
    /\ committed' = [committed EXCEPT ![s] = file] /\ values' = [values EXCEPT ![s] = file]
    /\ UNCHANGED <<shared, file, lock, phase, base, pending, answer, faults>>

\* update and mutate: readers see the mutation at once.
Update(s, m) ==
    /\ s \in up /\ answer[m] = "unasked"
    /\ answer' = [answer EXCEPT ![m] = "waiting"]
    /\ pending' = [pending EXCEPT ![s] = Append(@, m)]
    /\ values' = [values EXCEPT ![s] = Append(@, m)]
    /\ UNCHANGED <<shared, file, lock, up, phase, base, committed, faults>>

\* The oldest mutation is written: with a lock, once the lock has been acquired.
Begin(s) ==
    /\ phase[s] = "idle" /\ pending[s] # <<>>
    /\ phase' = [phase EXCEPT ![s] = IF shared THEN "locking" ELSE "writing"]
    /\ base' = [base EXCEPT ![s] = committed[s]]
    /\ UNCHANGED <<shared, file, lock, up, committed, pending, values, answer, faults>>

\* Mutant: the state is not read again under the lock.
Remembered(s) == committed[s]
Current(s) == file

\* acquireStateLock: acquire, or recoverStale of a lock left behind.
Acquire(s) ==
    /\ phase[s] = "locking" /\ lock \in {None, Dead}
    /\ lock' = s /\ phase' = [phase EXCEPT ![s] = "reading"]
    /\ UNCHANGED <<shared, file, up, base, committed, pending, values, answer, faults>>

Read(s) ==
    /\ phase[s] = "reading"
    /\ base' = [base EXCEPT ![s] = Current(s)]
    /\ phase' = [phase EXCEPT ![s] = "writing"]
    /\ UNCHANGED <<shared, file, lock, up, committed, pending, values, answer, faults>>

\* The file is replaced by a rename.
Write(s) ==
    /\ phase[s] = "writing"
    /\ file' = Append(base[s], Head(pending[s]))
    /\ phase' = [phase EXCEPT ![s] = "written"]
    /\ UNCHANGED <<shared, lock, up, base, committed, pending, values, answer, faults>>

\* The file cannot be read, holds something else, or cannot be replaced.
Fails(s) ==
    /\ phase[s] \in {"reading", "writing"} /\ Fault
    /\ phase' = [phase EXCEPT ![s] = "failing"]
    /\ UNCHANGED <<shared, file, lock, up, base, committed, pending, values, answer>>

\* The lock is released. A failing release fails the mutation, written or not, and
\* the lock stays.
Release(s) ==
    /\ phase[s] \in {"written", "failing"}
    /\ \/ /\ lock' = IF shared THEN None ELSE lock
          /\ phase' = [phase EXCEPT ![s] = IF @ = "written" THEN "saved" ELSE "failed"]
          /\ UNCHANGED faults
       \/ /\ shared /\ Fault
          /\ phase' = [phase EXCEPT ![s] = "failed"] /\ UNCHANGED lock
    /\ UNCHANGED <<shared, file, up, base, committed, pending, values, answer>>

\* Mutant: the wait for the lock has no end.
NeverExpires == FALSE
Expired == lock # None

\* The deadline passes while the lock is taken, or the lock cannot be written.
NoLock(s) ==
    /\ phase[s] = "locking"
    /\ \/ Expired /\ UNCHANGED faults
       \/ Fault
    /\ phase' = [phase EXCEPT ![s] = "failed"]
    /\ UNCHANGED <<shared, file, lock, up, base, committed, pending, values, answer>>

\* Mutant: what still waits is forgotten by readers.
Overlooked(state, waiting) == state
Rebuilt(state, waiting) == state \o waiting
Rest(s) == Tail(pending[s])

\* The mutation is answered and leaves the queue; readers see what is committed,
\* and on top of it what still waits (_rebuildVisibleValues).
Settle(s) ==
    /\ phase[s] \in {"saved", "failed"}
    /\ answer' = [answer EXCEPT ![Head(pending[s])] = phase[s]]
    /\ committed' = [committed EXCEPT ![s] =
                       IF phase[s] = "saved" THEN Append(base[s], Head(pending[s])) ELSE @]
    /\ values' = [values EXCEPT ![s] = Rebuilt(committed'[s], Rest(s))]
    /\ pending' = [pending EXCEPT ![s] = Rest(s)] /\ phase' = [phase EXCEPT ![s] = "idle"]
    /\ UNCHANGED <<shared, file, lock, up, base, faults>>

\* A program ends, whatever it is doing; its lock stays.
Crash(s) ==
    /\ s \in up /\ Fault
    /\ up' = up \ {s}
    /\ lock' = IF lock = s THEN Dead ELSE lock
    /\ phase' = [phase EXCEPT ![s] = "idle"] /\ pending' = [pending EXCEPT ![s] = <<>>]
    /\ UNCHANGED <<shared, file, base, committed, values, answer>>

----------------------------------------------------------------------------
Writing(s) ==
    \/ Begin(s) \/ Acquire(s) \/ Read(s) \/ Write(s) \/ Fails(s)
    \/ Release(s) \/ NoLock(s) \/ Settle(s)

Next ==
    \E s \in Store :
        \/ \E m \in Mutation : Update(s, m)
        \/ Open(s) \/ Writing(s) \/ Crash(s)

Spec == Init /\ [][Next]_vars

\* File operations end, and the deadline passes.
FairSpec == Spec /\ \A s \in Store : WF_vars(Writing(s))

----------------------------------------------------------------------------
(***************************************************************************)
(* Properties.                                                             *)
(***************************************************************************)
TypeOK ==
    /\ shared \in BOOLEAN
    /\ file \in Seq(Mutation) /\ lock \in Store \cup {None, Dead} /\ up \subseteq Store
    /\ phase \in [Store -> Phase]
    /\ base \in [Store -> Seq(Mutation)] /\ committed \in [Store -> Seq(Mutation)]
    /\ pending \in [Store -> Seq(Mutation)] /\ values \in [Store -> Seq(Mutation)]
    /\ answer \in [Mutation -> {"unasked", "waiting", "saved", "failed"}]
    /\ \A s \in Store : \A i \in 1..Len(pending[s]) : answer[pending[s][i]] = "waiting"
    /\ faults \in 0..MaxFaults

\* What a reader gets is the file as it was at some time, and on top of it the
\* mutations its own program waits for, each once and in order.
ReadersSeeThePast ==
    \A s \in up : \E n \in 0..Len(file) : values[s] = SubSeq(file, 1, n) \o pending[s]

\* The file takes every mutation at most once, the oldest of its program first, and
\* loses none: no program undoes what another has written.
Ledger == INSTANCE StateLedger WITH
    Client <- Store, ledger <- file, waiting <- pending, answer <- answer
NoUpdateLost == Ledger!Spec

\* A mutation does not wait for ever, even for a lock that is never given back.
UpdatesAnswered ==
    \A s \in Store, m \in Mutation : Contains(pending[s], m) ~> ~Contains(pending[s], m)
=============================================================================
