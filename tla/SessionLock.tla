---------------------------- MODULE SessionLock ----------------------------
(***************************************************************************)
(* The writable-session lock: an exclusive sidecar file                    *)
(* <session>.pi-code.lock next to one session file, shared by every Pi     *)
(* Code host that may open that session (adapters/node/session-lock.ts),   *)
(* and the acquire-then-reclaim path every opener takes                    *)
(* (core/session/session-lock-recovery.ts).                                *)
(*                                                                         *)
(* Every await on the file system is a separate step, so that the steps of *)
(* openers in different processes interleave as the system calls do.  A    *)
(* lock file exists, empty, from open('wx') until its payload is written.  *)
(***************************************************************************)
EXTENDS Naturals, FiniteSets

CONSTANTS
    Client,        \* concurrent openers of the session (a chat tab, a child run)
    Process,       \* extension host processes, i.e. process ids
    NoClient,      \* the creator of a file that does not exist
    Host,          \* machines that share the session directory
    ProcOf,        \* the process each client runs in
    HostOf,        \* the machine each process runs on
    MaxOwner,      \* bound: lock payloads (random owner ids) ever created
    MaxBoot,       \* bound: last boot of a machine whose boot instant is known
    StaleElapses   \* whether a lock file may stay for staleAfterMs

ASSUME PlacementAssumption == /\ NoClient \notin Client
                              /\ ProcOf \in [Client -> Process]
                              /\ HostOf \in [Process -> Host]
ASSUME BoundAssumption == /\ MaxOwner \in Nat
                          /\ MaxBoot \in Nat \ {0}
                          /\ StaleElapses \in BOOLEAN

VARIABLES
    sidecar,     \* the lock file
    claims,      \* recovery-claim files, named by the owner to be evicted
    alive,       \* processes that run
    boot,        \* the current boot of every machine
    pc,          \* where each client is between two awaits
    mine,        \* owner id of the handle a client builds or holds, 0 if none
    expect,      \* owner id a recovery expects to evict, 0 for "unreadable"
    recovering,  \* whether the client has a recovery-claim file open
    nextOwner,   \* next fresh owner id
    guessed      \* history: a recovery that had no proof its owner was gone
                 \* removed a running creator's lock, or not the one it judged

fileVars   == <<sidecar, claims>>
envVars    == <<alive, boot>>
lockVars   == <<sidecar, claims, alive, boot, pc, mine, expect, recovering, nextOwner, guessed>>

Unidentified == 0
UnknownBoot == 0    \* the instant of a machine whose uptime cannot be read
OwnerId == 1..MaxOwner
ClaimKey == OwnerId \cup {Unidentified}
NoLock == [id |-> 0, by |-> NoClient, boot |-> 0, readable |-> FALSE, old |-> FALSE]
LockFile == [id : OwnerId, by : Client, boot : 0..MaxBoot,
             readable : BOOLEAN, old : BOOLEAN]

\* Between which awaits a client may be.
Stage == {"idle", "opened", "written", "unwind", "conflict", "conflictStat",
          "claim", "recheck", "recheckStat", "evict", "evictGuess", "reopen",
          "unclaim", "held", "releasing"}
\* Stages in which the client has created a lock file it has not given up.
Owning == {"opened", "written", "unwind", "held", "releasing"}
\* Stages that only occur while a recovery claim is open.
Recovery == {"recheck", "recheckStat", "evict", "evictGuess", "reopen", "unclaim"}

HostOfClient(c) == HostOf[ProcOf[c]]
Running(c) == ProcOf[c] \in alive

\* The creator of lock file l still runs and has not given the file up.
CreatorLives(l) == \E c \in Client : mine[c] = l.id

----------------------------------------------------------------------------
LockInit ==
    /\ sidecar = NoLock
    /\ claims = {}
    /\ alive = Process
    /\ boot \in [Host -> {UnknownBoot, 1}]
    /\ pc = [c \in Client |-> "idle"]
    /\ mine = [c \in Client |-> 0]
    /\ expect = [c \in Client |-> Unidentified]
    /\ recovering = [c \in Client |-> FALSE]
    /\ nextOwner = 1
    /\ guessed = FALSE

GoTo(c, stage) == pc' = [pc EXCEPT ![c] = stage]

\* Variant for TLC to refute: a verdict that asks only for the process id.
OwnerLivenessPidOnly(l) == {IF ProcOf[l.by] \in alive THEN "alive" ELSE "dead", "unknown"}

\* What is found out about the owner of readable lock l on its own machine: a
\* lock from an earlier boot is dead whatever its process id says; otherwise the
\* process is probed, and the probe may fail to tell.
OwnerLiveness(l) ==
    LET owner == ProcOf[l.by]
        now   == boot[HostOf[owner]]
    IN IF l.boot # UnknownBoot /\ now # UnknownBoot /\ l.boot # now
         THEN {"dead"}
         ELSE {IF owner \in alive THEN "alive" ELSE "dead", "unknown"}

\* Variant for TLC to refute: an unknown owner is given up without waiting.
StaleRecoveryImpatient(c, l, liveness) ==
    HostOf[ProcOf[l.by]] = HostOfClient(c) /\ liveness # "alive"

\* Another machine's owner is never guessed, a dead one needs no waiting, and
\* one that may live or not is given up once staleAfterMs has passed.
StaleRecoveryAllowed(c, l, liveness) ==
    /\ HostOf[ProcOf[l.by]] = HostOfClient(c)
    /\ liveness = "dead" \/ (liveness = "unknown" /\ l.old)

\* open(lockPath, 'wx'): creates the file, still empty, or meets EEXIST.
AcquireOpen(c) ==
    /\ pc[c] \in {"idle", "reopen"}
    /\ Running(c)
    /\ IF sidecar = NoLock
         THEN /\ nextOwner <= MaxOwner
              /\ sidecar' = [id |-> nextOwner, by |-> c,
                             boot |-> boot[HostOfClient(c)],
                             readable |-> FALSE, old |-> FALSE]
              /\ mine' = [mine EXCEPT ![c] = nextOwner]
              /\ nextOwner' = nextOwner + 1
              /\ GoTo(c, "opened")
         ELSE /\ GoTo(c, IF recovering[c] THEN "unclaim" ELSE "conflict")
              /\ UNCHANGED <<sidecar, mine, nextOwner>>
    /\ UNCHANGED <<claims, envVars, expect, recovering, guessed>>

\* handle.writeFile(payload): reaches the file the handle was opened on, which
\* may no longer be the one lockPath names.
AcquireWrite(c) ==
    /\ pc[c] = "opened"
    /\ sidecar' = IF sidecar.id = mine[c]
                    THEN [sidecar EXCEPT !.readable = TRUE]
                    ELSE sidecar
    /\ GoTo(c, "written")
    /\ UNCHANGED <<claims, envVars, mine, expect, recovering, nextOwner, guessed>>

\* sync and close succeed: acquire resolves with the handle.
AcquireClose(c) ==
    /\ pc[c] = "written"
    /\ GoTo(c, IF recovering[c] THEN "unclaim" ELSE "held")
    /\ UNCHANGED <<fileVars, envVars, mine, expect, recovering, nextOwner, guessed>>

\* writeFile, sync or close rejects: the error path closes, then unlinks.
AcquireFail(c) ==
    /\ pc[c] \in {"opened", "written"}
    /\ GoTo(c, "unwind")
    /\ UNCHANGED <<fileVars, envVars, mine, expect, recovering, nextOwner, guessed>>

\* The unlink of the error path, by name, whatever file is there by now.
AcquireUnwind(c) ==
    /\ pc[c] = "unwind"
    /\ sidecar' = NoLock
    /\ mine' = [mine EXCEPT ![c] = 0]
    /\ GoTo(c, IF recovering[c] THEN "unclaim" ELSE "idle")
    /\ UNCHANGED <<claims, envVars, expect, recovering, nextOwner, guessed>>

----------------------------------------------------------------------------
\* _readConflict after EEXIST, first await (readFile): a readable payload gives
\* the verdict at once, a missing or unparseable file needs its age.
ConflictRead(c) ==
    /\ pc[c] = "conflict"
    /\ IF sidecar.readable
         THEN \E liveness \in OwnerLiveness(sidecar) :
                IF StaleRecoveryAllowed(c, sidecar, liveness)
                  THEN /\ expect' = [expect EXCEPT ![c] = sidecar.id]
                       /\ GoTo(c, "claim")
                  ELSE /\ GoTo(c, "idle")
                       /\ UNCHANGED expect
         ELSE /\ GoTo(c, "conflictStat")
              /\ UNCHANGED expect
    /\ UNCHANGED <<fileVars, envVars, mine, recovering, nextOwner, guessed>>

\* A missing file, or one older than the stale threshold, may be recovered.
SidecarRecoverable == sidecar = NoLock \/ sidecar.old

\* _readConflict, second await (stat): acquireSessionLock goes on to recovery
\* with an undefined owner, or gives up.
ConflictStat(c) ==
    /\ pc[c] = "conflictStat"
    /\ expect' = [expect EXCEPT ![c] = Unidentified]
    /\ GoTo(c, IF SidecarRecoverable THEN "claim" ELSE "idle")
    /\ UNCHANGED <<fileVars, envVars, mine, recovering, nextOwner, guessed>>

\* recoverStale opens the claim file for the expected owner with 'wx'.
ClaimRecovery(c) ==
    /\ pc[c] = "claim"
    /\ IF expect[c] \in claims
         THEN /\ GoTo(c, "idle")
              /\ UNCHANGED <<claims, recovering>>
         ELSE /\ claims' = claims \cup {expect[c]}
              /\ recovering' = [recovering EXCEPT ![c] = TRUE]
              /\ GoTo(c, "recheck")
    /\ UNCHANGED <<sidecar, envVars, mine, expect, nextOwner, guessed>>

\* A variant that trusts the verdict taken before the claim.
RecheckReadTrusting(c) ==
    /\ pc[c] = "recheck"
    /\ GoTo(c, IF expect[c] # Unidentified THEN "evict" ELSE "recheckStat")
    /\ UNCHANGED <<fileVars, envVars, mine, expect, recovering, nextOwner, guessed>>

\* recoverStale reads the conflict again under the claim (readFile).  The stage
\* remembers whether the owner is known to be dead or only presumed to be.
RecheckRead(c) ==
    /\ pc[c] = "recheck"
    /\ IF sidecar.readable
         THEN \E liveness \in OwnerLiveness(sidecar) :
                GoTo(c, IF ~(/\ StaleRecoveryAllowed(c, sidecar, liveness)
                             /\ sidecar.id = expect[c]) THEN "unclaim"
                        ELSE IF liveness = "dead" THEN "evict" ELSE "evictGuess")
         ELSE GoTo(c, "recheckStat")
    /\ UNCHANGED <<fileVars, envVars, mine, expect, recovering, nextOwner, guessed>>

\* ... and, for a file that was missing or unreadable, its age (stat).
RecheckStat(c) ==
    /\ pc[c] = "recheckStat"
    /\ GoTo(c, IF SidecarRecoverable /\ expect[c] = Unidentified
                 THEN "evictGuess" ELSE "unclaim")
    /\ UNCHANGED <<fileVars, envVars, mine, expect, recovering, nextOwner, guessed>>

\* What lies under the lock's name is what client c judged: the named lock, or
\* a file that is still unreadable.
StillJudged(c) ==
    IF expect[c] = Unidentified THEN ~sidecar.readable ELSE sidecar.id = expect[c]

\* The unlink of the stale lock, by name.
EvictStale(c) ==
    /\ pc[c] \in {"evict", "evictGuess"}
    /\ sidecar' = NoLock
    /\ GoTo(c, "reopen")
    /\ guessed' = (guessed \/ /\ pc[c] = "evictGuess"
                              /\ sidecar # NoLock
                              /\ ~StillJudged(c) \/ CreatorLives(sidecar))
    /\ UNCHANGED <<claims, envVars, mine, expect, recovering, nextOwner>>

\* The finally block removes the claim; the handle, if any, is then returned.
FinishRecovery(c) ==
    /\ pc[c] = "unclaim"
    /\ claims' = claims \ {expect[c]}
    /\ recovering' = [recovering EXCEPT ![c] = FALSE]
    /\ expect' = [expect EXCEPT ![c] = Unidentified]
    /\ GoTo(c, IF mine[c] # 0 THEN "held" ELSE "idle")
    /\ UNCHANGED <<sidecar, envVars, mine, nextOwner, guessed>>

----------------------------------------------------------------------------
\* handle.release(), first await: unlink only if the file still names us.
ReleaseRead(c) ==
    /\ pc[c] = "held"
    /\ IF sidecar.readable /\ sidecar.id = mine[c]
         THEN /\ GoTo(c, "releasing")
              /\ UNCHANGED mine
         ELSE /\ GoTo(c, "idle")
              /\ mine' = [mine EXCEPT ![c] = 0]
    /\ UNCHANGED <<fileVars, envVars, expect, recovering, nextOwner, guessed>>

ReleaseUnlink(c) ==
    /\ pc[c] = "releasing"
    /\ sidecar' = NoLock
    /\ mine' = [mine EXCEPT ![c] = 0]
    /\ GoTo(c, "idle")
    /\ UNCHANGED <<claims, envVars, expect, recovering, nextOwner, guessed>>

----------------------------------------------------------------------------
\* What a client in a process of P remembers is gone; the files stay.
Forget(P) ==
    LET keep(f, v) == [c \in Client |-> IF ProcOf[c] \in P THEN v ELSE f[c]] IN
    /\ pc' = keep(pc, "idle")
    /\ mine' = keep(mine, 0)
    /\ expect' = keep(expect, Unidentified)
    /\ recovering' = keep(recovering, FALSE)

\* A process is killed between any two awaits.
Crash(p) ==
    /\ p \in alive
    /\ alive' = alive \ {p}
    /\ Forget({p})
    /\ UNCHANGED <<fileVars, boot, nextOwner, guessed>>

\* The process id runs again: a restarted host, or an unrelated process.
Start(p) ==
    /\ p \notin alive
    /\ alive' = alive \cup {p}
    /\ UNCHANGED <<fileVars, boot, pc, mine, expect, recovering, nextOwner, guessed>>

\* Power loss or restart of a machine: every process dies and the boot instant,
\* where it can be read, moves.
Reboot(h) ==
    LET gone == {p \in Process : HostOf[p] = h} IN
    /\ boot[h] < MaxBoot
    /\ boot' = [boot EXCEPT ![h] = IF @ = UnknownBoot THEN @ ELSE @ + 1]
    /\ alive' = alive \ gone
    /\ Forget(gone)
    /\ UNCHANGED <<fileVars, nextOwner, guessed>>

\* staleAfterMs passes over a lock file: by its payload's acquiredAt for one that
\* can be read, by the file's mtime for one that cannot.
Age ==
    /\ StaleElapses
    /\ sidecar # NoLock
    /\ ~sidecar.old
    /\ sidecar' = [sidecar EXCEPT !.old = TRUE]
    /\ UNCHANGED <<claims, envVars, pc, mine, expect, recovering, nextOwner, guessed>>

----------------------------------------------------------------------------
\* The steps of acquireSessionLock(sessionPath) once it has begun.
OpenerStep(c) ==
    \/ AcquireWrite(c) \/ AcquireClose(c) \/ AcquireUnwind(c)
    \/ ConflictRead(c) \/ ConflictStat(c) \/ ClaimRecovery(c)
    \/ RecheckRead(c) \/ RecheckStat(c) \/ EvictStale(c)
    \/ FinishRecovery(c) \/ ReleaseUnlink(c)

ClientStep(c) ==
    \/ AcquireOpen(c) \/ AcquireFail(c) \/ ReleaseRead(c) \/ OpenerStep(c)

LockNext ==
    \/ \E c \in Client : ClientStep(c)
    \/ \E p \in Process : Crash(p) \/ Start(p)
    \/ \E h \in Host : Reboot(h)
    \/ Age

LockSpec == LockInit /\ [][LockNext]_lockVars

\* A started operation runs to its end, a user whose open was refused tries
\* again, and a lock file grows old.  Nobody has to release, to fail,
\* to crash or to restart.
Fairness ==
    /\ \A c \in Client : WF_lockVars(AcquireOpen(c)) /\ WF_lockVars(OpenerStep(c))
    /\ WF_lockVars(Age)

FairLockSpec == LockSpec /\ Fairness
----------------------------------------------------------------------------
LockTypeOK ==
    /\ sidecar \in LockFile \cup {NoLock}
    /\ claims \subseteq ClaimKey
    /\ alive \subseteq Process
    /\ boot \in [Host -> 0..MaxBoot]
    /\ pc \in [Client -> Stage]
    /\ mine \in [Client -> OwnerId \cup {0}]
    /\ expect \in [Client -> ClaimKey]
    /\ recovering \in [Client -> BOOLEAN]
    /\ nextOwner \in 1..(MaxOwner + 1)
    /\ guessed \in BOOLEAN
    /\ \A c \in Client : pc[c] \in Owning => mine[c] \in OwnerId

\* Two openers never write one session at the same time, which is what the
\* lock is for (SessionLockPort; "recovery has a claim file" in its design page).
MutualExclusion ==
    \A c, d \in Client : pc[c] = "held" /\ pc[d] = "held" => c = d

\* Only a guess can ever break the exclusion, i.e. a recovery, past the stale
\* age, of a lock that cannot be read or whose owner's liveness is unknown, when
\* that owner runs after all or another lock has taken the place.  Nothing else
\* can, in any interleaving: neither crashes, reboots and recycled process ids,
\* nor recoveries of owners found dead, failed writes and late releases.
ExclusionUnlessGuessed == ~guessed => MutualExclusion

\* At most one running opener recovers a given owner's lock at a time: the claim
\* file is exclusive from its creation to the finally block of recoverStale.
ClaimExclusion ==
    \A c, d \in Client :
        recovering[c] /\ recovering[d] /\ expect[c] = expect[d] => c = d

\* What recoverStale unlinks, although its verdict is as old as its read: for an
\* owner found dead always the very lock that was judged, whose creator is gone.
\* A lock known by name is removed only on its owner's machine, and without proof
\* of the owner's death only past the stale age.
EvictionsJustified ==
    [][\A c \in Client :
          EvictStale(c) /\ sidecar # NoLock /\ ~guessed =>
              /\ pc[c] = "evict" => StillJudged(c) /\ ~CreatorLives(sidecar)
              /\ sidecar.id = expect[c] =>
                    /\ HostOf[ProcOf[sidecar.by]] = HostOfClient(c)
                    /\ pc[c] = "evictGuess" => sidecar.old]_lockVars

\* Lock i was left behind by an owner that opener c can prove gone: it predates
\* the known boot of their machine, its process id is free, or it was never
\* written.
ProvablyGone(c, i) ==
    /\ sidecar.id = i
    /\ ~CreatorLives(sidecar)
    /\ sidecar.readable =>
          LET owner == ProcOf[sidecar.by]
              now   == boot[HostOf[owner]]
          IN /\ HostOf[owner] = HostOfClient(c)
             /\ \/ sidecar.boot # UnknownBoot /\ sidecar.boot < now
                \/ owner \notin alive

\* A claim file whose recovery died with its process.
OrphanClaim(k) ==
    k \in claims /\ \A c \in Client : ~(recovering[c] /\ expect[c] = k)

\* An opener that keeps trying does not meet a provably gone owner's lock for
\* ever ("provably gone owners are reclaimed, and reclaiming happens on the
\* ordinary open path"), unless some recovery of that owner was itself cut
\* short: the claim file it left behind is never removed.
GoneOwnerReclaimedUnlessOrphaned ==
    \A c \in Client, i \in OwnerId :
        []<>~(/\ Running(c) /\ mine[c] = 0 /\ ProvablyGone(c, i)
              /\ ~OrphanClaim(i) /\ ~OrphanClaim(Unidentified))

----------------------------------------------------------------------------
\* The inductive strengthening of ExclusionUnlessGuessed.

\* Owner ids are fresh, and only running clients build or hold a handle.
HandlesInv ==
    /\ sidecar.id < nextOwner
    /\ \A c \in Client :
          /\ mine[c] < nextOwner /\ expect[c] < nextOwner
          /\ mine[c] # 0 => pc[c] \in Owning \cup {"unclaim"}
          /\ pc[c] # "idle" => Running(c)
          /\ mine[c] # 0 /\ mine[c] = sidecar.id =>
                sidecar.by = c /\ sidecar.boot = boot[HostOfClient(c)]
    /\ \A c, d \in Client : mine[c] = mine[d] /\ mine[c] # 0 => c = d

\* A client in a recovery stage has its claim file, and no other has the same.
ClaimsInv ==
    /\ \A c \in Client :
          /\ pc[c] \in Recovery => recovering[c]
          /\ recovering[c] => /\ pc[c] \in Recovery \cup {"opened", "written", "unwind"}
                              /\ expect[c] \in claims
    /\ ClaimExclusion

\* Every handle is still backed by the lock file; a recovery of a dead owner that
\* is about to unlink has before it that owner's lock; and one of an owner
\* presumed dead, while the lock is the same, an old lock of its own machine.
FilesInv ==
    /\ \A c \in Client : mine[c] # 0 => sidecar.id = mine[c]
    /\ \A c \in Client :
          pc[c] = "evict" =>
              /\ expect[c] # Unidentified
              /\ sidecar.id = expect[c]
              /\ sidecar.readable
              /\ HostOf[ProcOf[sidecar.by]] = HostOfClient(c)
              /\ ~CreatorLives(sidecar)
    /\ \A c \in Client :
          pc[c] = "evictGuess" /\ expect[c] # Unidentified /\ sidecar.id = expect[c] =>
              HostOf[ProcOf[sidecar.by]] = HostOfClient(c) /\ sidecar.old

LockInv == LockTypeOK /\ HandlesInv /\ ClaimsInv /\ (~guessed => FilesInv)
=============================================================================
