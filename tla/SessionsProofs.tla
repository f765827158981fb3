--------------------------- MODULE SessionsProofs ---------------------------
(***************************************************************************)
(* Proofs about the writable-session lock, for every placement of openers  *)
(* on processes and machines and every number of lock generations, and     *)
(* about the chats of a window that hold such locks, for every set of      *)
(* managers, session files and subagents, and every number of failures.    *)
(* Two modules that share no name: each theorem is about one of them.      *)
(***************************************************************************)
EXTENDS SessionLock, Sessions, TLAPS

----------------------------------------------------------------------------
(***************************************************************************)
(* The lock.                                                               *)
(***************************************************************************)
USE DEF Unidentified, UnknownBoot, OwnerId, ClaimKey, Stage, Owning, Recovery

\* A new, empty lock file is a lock file; so is one that was written or aged.
LEMMA NewLockFile ==
    ASSUME NEW c \in Client, NEW i \in OwnerId, NEW b \in 0..MaxBoot
    PROVE  [id |-> i, by |-> c, boot |-> b, readable |-> FALSE, old |-> FALSE] \in LockFile
  BY DEF LockFile

LEMMA ChangedLockFile ==
    ASSUME NEW l \in LockFile
    PROVE  /\ [l EXCEPT !.readable = TRUE] \in LockFile
           /\ [l EXCEPT !.old = TRUE] \in LockFile
  BY DEF LockFile

\* A lock file has an owner id, a missing file has none.
LEMMA LockFileId ==
    ASSUME NEW l \in LockFile \cup {NoLock}
    PROVE  /\ l.id # 0 <=> l \in LockFile
           /\ l.id = 0 <=> l = NoLock
           /\ l.readable => l.id # 0
           /\ l.id \in Nat
  BY BoundAssumption DEF LockFile, NoLock

LEMMA BootInRange ==
    ASSUME NEW c \in Client, LockTypeOK PROVE boot[HostOfClient(c)] \in 0..MaxBoot
  BY PlacementAssumption DEF LockTypeOK, HostOfClient

\* A crash makes the clients of the processes in P forget, and nobody else.
LEMMA ForgetType ==
    ASSUME LockTypeOK, NEW P, Forget(P)
    PROVE  /\ pc' \in [Client -> Stage]
           /\ mine' \in [Client -> OwnerId \cup {0}]
           /\ expect' \in [Client -> ClaimKey]
           /\ recovering' \in [Client -> BOOLEAN]
           /\ \A c \in Client :
                IF ProcOf[c] \in P
                  THEN /\ pc'[c] = "idle" /\ mine'[c] = 0
                       /\ recovering'[c] = FALSE /\ expect'[c] = 0
                  ELSE /\ pc'[c] = pc[c] /\ mine'[c] = mine[c]
                       /\ recovering'[c] = recovering[c] /\ expect'[c] = expect[c]
<1>1. pc' \in [Client -> Stage] /\ mine' \in [Client -> OwnerId \cup {0}]
  BY DEF LockTypeOK, Forget
<1>2. expect' \in [Client -> ClaimKey] /\ recovering' \in [Client -> BOOLEAN]
  BY DEF LockTypeOK, Forget
<1>3. ASSUME NEW c \in Client
      PROVE  IF ProcOf[c] \in P
               THEN /\ pc'[c] = "idle" /\ mine'[c] = 0
                    /\ recovering'[c] = FALSE /\ expect'[c] = 0
               ELSE /\ pc'[c] = pc[c] /\ mine'[c] = mine[c]
                    /\ recovering'[c] = recovering[c] /\ expect'[c] = expect[c]
  BY DEF Forget
<1> QED
  BY <1>1, <1>2, <1>3

Forgotten(d) == /\ pc'[d] = "idle" /\ mine'[d] = 0
                /\ recovering'[d] = FALSE /\ expect'[d] = 0
LockKept(d) == /\ pc'[d] = pc[d] /\ mine'[d] = mine[d]
           /\ recovering'[d] = recovering[d] /\ expect'[d] = expect[d]

\* A crash or a restart of the machine costs a client its memory, or leaves it
\* with its process running in the same boot.
Spared(d) == /\ LockKept(d)
             /\ ProcOf[d] \in alive => ProcOf[d] \in alive'
             /\ boot'[HostOf[ProcOf[d]]] = boot[HostOf[ProcOf[d]]]

LEMMA CrashEffect ==
    ASSUME LockTypeOK, NEW p \in Process, Crash(p), NEW d \in Client
    PROVE  Forgotten(d) \/ Spared(d)
<1> DEFINE gone == {p}
<1>1. Forget(gone)
  BY DEF Crash
<1>2. ProcOf[d] \notin gone /\ ProcOf[d] \in alive => ProcOf[d] \in alive'
  BY DEF Crash
<1>3. boot' = boot
  BY DEF Crash
<1> HIDE DEF gone
<1>4. IF ProcOf[d] \in gone THEN Forgotten(d) ELSE LockKept(d)
  BY <1>1, ForgetType DEF Forgotten, LockKept
<1> QED
  BY <1>2, <1>3, <1>4 DEF Spared

LEMMA RebootEffect ==
    ASSUME LockTypeOK, NEW h \in Host, Reboot(h), NEW d \in Client
    PROVE  Forgotten(d) \/ Spared(d)
<1> DEFINE gone == {p \in Process : HostOf[p] = h}
<1>1. Forget(gone)
  BY DEF Reboot
<1>2. ProcOf[d] \in gone <=> HostOf[ProcOf[d]] = h
  BY PlacementAssumption
<1>3. HostOf[ProcOf[d]] # h => boot'[HostOf[ProcOf[d]]] = boot[HostOf[ProcOf[d]]]
  BY PlacementAssumption DEF Reboot, LockTypeOK
<1>4. ProcOf[d] \notin gone /\ ProcOf[d] \in alive => ProcOf[d] \in alive'
  BY DEF Reboot
<1> HIDE DEF gone
<1>5. IF ProcOf[d] \in gone THEN Forgotten(d) ELSE LockKept(d)
  BY <1>1, ForgetType DEF Forgotten, LockKept
<1> QED
  BY <1>2, <1>3, <1>4, <1>5 DEF Spared

\* A client goes on to a stage in which no lock file is its own.
LEMMA GoType ==
    ASSUME LockTypeOK, NEW c \in Client, NEW stage \in Stage \ Owning, GoTo(c, stage),
           UNCHANGED mine
    PROVE  /\ pc' \in [Client -> Stage]
           /\ \A d \in Client : pc'[d] \in Owning => mine'[d] \in OwnerId
  BY DEF GoTo, LockTypeOK

\* Every step of the lock protocol keeps the shape of its state.
LEMMA TypeStep == LockTypeOK /\ [LockNext]_lockVars => LockTypeOK'
<1> SUFFICES ASSUME LockTypeOK, [LockNext]_lockVars PROVE LockTypeOK'
  OBVIOUS
<1> USE BoundAssumption
<1>0. sidecar = NoLock \/ sidecar \in LockFile
  BY DEF LockTypeOK
<1>1. ASSUME NEW c \in Client, AcquireOpen(c) PROVE LockTypeOK'
  <2>1. sidecar' \in LockFile \cup {NoLock}
    BY <1>0, <1>1, BootInRange, NewLockFile DEF AcquireOpen, LockTypeOK
  <2>2. QED
    BY <1>1, <2>1 DEF AcquireOpen, LockTypeOK, envVars, GoTo
<1>2. ASSUME NEW c \in Client, AcquireWrite(c) PROVE LockTypeOK'
  <2>1. sidecar.id = mine[c] => sidecar \in LockFile
    BY <1>0, <1>2, LockFileId DEF AcquireWrite, LockTypeOK
  <2>2. sidecar' \in LockFile \cup {NoLock}
    BY <1>0, <1>2, <2>1, ChangedLockFile DEF AcquireWrite
  <2>3. QED
    BY <1>2, <2>2 DEF AcquireWrite, LockTypeOK, envVars, GoTo
<1>3. ASSUME NEW c \in Client, AcquireClose(c) \/ AcquireFail(c) PROVE LockTypeOK'
  BY <1>3 DEF AcquireClose, AcquireFail, LockTypeOK, fileVars, envVars, GoTo
<1>4. ASSUME NEW c \in Client, AcquireUnwind(c) \/ ReleaseUnlink(c) PROVE LockTypeOK'
  <2>1. PICK s \in {"idle", "unclaim"} : GoTo(c, s)
    BY <1>4 DEF AcquireUnwind, ReleaseUnlink
  <2>2. s \in Stage \ Owning
    BY DEF Stage, Owning
  <2>3. mine' = [mine EXCEPT ![c] = 0] /\ sidecar' = NoLock
    BY <1>4 DEF AcquireUnwind, ReleaseUnlink
  <2>4. UNCHANGED <<claims, alive, boot, expect, recovering, nextOwner, guessed>>
    BY <1>4 DEF AcquireUnwind, ReleaseUnlink, envVars
  <2>5. QED
    BY <2>1, <2>2, <2>3, <2>4 DEF LockTypeOK, GoTo
<1>5. ASSUME NEW c \in Client, ConflictRead(c) PROVE LockTypeOK'
  <2>1. sidecar.readable => sidecar.id \in OwnerId
    BY <1>0, LockFileId DEF LockFile, LockTypeOK
  <2>2. expect' \in [Client -> ClaimKey] /\ UNCHANGED mine
    BY <1>5, <2>1 DEF ConflictRead, LockTypeOK, ClaimKey
  <2>3. PICK s \in {"claim", "idle", "conflictStat"} : GoTo(c, s)
    BY <1>5 DEF ConflictRead
  <2>4. s \in Stage \ Owning
    BY DEF Stage, Owning
  <2>5. QED
    BY <1>5, <2>2, <2>3, <2>4, GoType DEF ConflictRead, LockTypeOK, fileVars, envVars
<1>6. ASSUME NEW c \in Client, ConflictStat(c) \/ RecheckRead(c) \/ RecheckStat(c)
      PROVE LockTypeOK'
  <2>1. expect' \in [Client -> ClaimKey] /\ UNCHANGED mine
    BY <1>6 DEF ConflictStat, RecheckRead, RecheckStat, LockTypeOK, ClaimKey
  <2>2. PICK s \in {"claim", "idle", "evict", "evictGuess", "unclaim", "recheckStat"} : GoTo(c, s)
    BY <1>6 DEF ConflictStat, RecheckRead, RecheckStat
  <2>3. s \in Stage \ Owning
    BY DEF Stage, Owning
  <2>4. QED
    BY <1>6, <2>1, <2>2, <2>3, GoType
       DEF ConflictStat, RecheckRead, RecheckStat, LockTypeOK, fileVars, envVars
<1>7. ASSUME NEW c \in Client, ClaimRecovery(c) PROVE LockTypeOK'
  <2>1. claims' \subseteq ClaimKey /\ recovering' \in [Client -> BOOLEAN]
    BY <1>7, ZenonT(60) DEF ClaimRecovery, LockTypeOK
  <2>2. PICK s \in {"idle", "recheck"} : GoTo(c, s)
    BY <1>7 DEF ClaimRecovery
  <2>3. s \in Stage \ Owning
    BY DEF Stage, Owning
  <2>4. UNCHANGED <<sidecar, alive, boot, mine, expect, nextOwner, guessed>>
    BY <1>7 DEF ClaimRecovery, envVars
  <2>5. QED
    BY <2>1, <2>2, <2>3, <2>4, GoType DEF LockTypeOK
<1>8. ASSUME NEW c \in Client, EvictStale(c) PROVE LockTypeOK'
  BY <1>8 DEF EvictStale, LockTypeOK, envVars, GoTo
<1>9. ASSUME NEW c \in Client, FinishRecovery(c) PROVE LockTypeOK'
  BY <1>9 DEF FinishRecovery, LockTypeOK, envVars, GoTo
<1>10. ASSUME NEW c \in Client, ReleaseRead(c) PROVE LockTypeOK'
  BY <1>10 DEF ReleaseRead, LockTypeOK, fileVars, envVars, GoTo
<1>11. ASSUME NEW p \in Process, Crash(p) PROVE LockTypeOK'
  BY <1>11, ForgetType DEF Crash, LockTypeOK, fileVars
<1>12. ASSUME NEW p \in Process, Start(p) PROVE LockTypeOK'
  BY <1>12 DEF Start, LockTypeOK, fileVars
<1>13. ASSUME NEW h \in Host, Reboot(h) PROVE LockTypeOK'
  <2>1. boot' \in [Host -> 0..MaxBoot]
    BY <1>13 DEF Reboot, LockTypeOK
  <2>2. QED
    BY <1>13, <2>1, ForgetType DEF Reboot, LockTypeOK, fileVars
<1>14. CASE Age
  <2>1. sidecar' \in LockFile
    BY <1>0, <1>14, ChangedLockFile DEF Age
  <2>2. UNCHANGED <<claims, alive, boot, pc, mine, expect, recovering, nextOwner, guessed>>
    BY <1>14 DEF Age, envVars
  <2>3. QED
    BY <2>1, <2>2 DEF LockTypeOK
<1>15. CASE UNCHANGED lockVars
  BY <1>15 DEF lockVars, LockTypeOK
<1> QED
  BY <1>1, <1>2, <1>3, <1>4, <1>5, <1>6, <1>7, <1>8, <1>9, <1>10, <1>11, <1>12,
     <1>13, <1>14, <1>15
  DEF LockNext, ClientStep, OpenerStep

LEMMA LockTypeInit == LockInit => LockTypeOK
<1> SUFFICES ASSUME LockInit PROVE LockTypeOK
  OBVIOUS
<1>1. boot \in [Host -> 0..MaxBoot] /\ nextOwner \in 1..(MaxOwner + 1)
  BY BoundAssumption DEF LockInit
<1>2. /\ pc \in [Client -> Stage] /\ mine \in [Client -> OwnerId \cup {0}]
      /\ expect \in [Client -> ClaimKey] /\ recovering \in [Client -> BOOLEAN]
  BY DEF LockInit
<1>3. \A c \in Client : pc[c] \notin Owning
  BY DEF LockInit
<1> QED
  BY <1>1, <1>2, <1>3 DEF LockInit, LockTypeOK

\* The state of the session lock keeps its shape in every behaviour.
THEOREM LockTypeCorrect == LockSpec => []LockTypeOK
  BY LockTypeInit, TypeStep, PTL DEF LockSpec

\* A claim file belongs to one running recovery from its creation on.
LEMMA ClaimsStep ==
    ASSUME LockTypeOK, LockTypeOK', ClaimsInv, [LockNext]_lockVars PROVE ClaimsInv'
<1> USE BoundAssumption, PlacementAssumption DEF LockTypeOK, ClaimsInv, ClaimExclusion, fileVars, envVars, GoTo
<1>1. ASSUME NEW c \in Client, AcquireOpen(c) PROVE ClaimsInv'
  BY <1>1 DEF AcquireOpen
<1>2. ASSUME NEW c \in Client, AcquireWrite(c) PROVE ClaimsInv'
  BY <1>2 DEF AcquireWrite
<1>3. ASSUME NEW c \in Client, AcquireClose(c) PROVE ClaimsInv'
  BY <1>3 DEF AcquireClose
<1>4. ASSUME NEW c \in Client, AcquireFail(c) PROVE ClaimsInv'
  BY <1>4 DEF AcquireFail
<1>5. ASSUME NEW c \in Client, AcquireUnwind(c) PROVE ClaimsInv'
  BY <1>5 DEF AcquireUnwind
<1>6. ASSUME NEW c \in Client, ConflictRead(c) PROVE ClaimsInv'
  BY <1>6 DEF ConflictRead
<1>7. ASSUME NEW c \in Client, ConflictStat(c) PROVE ClaimsInv'
  BY <1>7 DEF ConflictStat
<1>8. ASSUME NEW c \in Client, ClaimRecovery(c) PROVE ClaimsInv'
  BY <1>8 DEF ClaimRecovery
<1>9. ASSUME NEW c \in Client, RecheckRead(c) PROVE ClaimsInv'
  BY <1>9 DEF RecheckRead
<1>10. ASSUME NEW c \in Client, RecheckStat(c) PROVE ClaimsInv'
  BY <1>10 DEF RecheckStat
<1>11. ASSUME NEW c \in Client, EvictStale(c) PROVE ClaimsInv'
  BY <1>11 DEF EvictStale
<1>12. ASSUME NEW c \in Client, FinishRecovery(c) PROVE ClaimsInv'
  BY <1>12 DEF FinishRecovery
<1>13. ASSUME NEW c \in Client, ReleaseRead(c) PROVE ClaimsInv'
  BY <1>13 DEF ReleaseRead
<1>14. ASSUME NEW c \in Client, ReleaseUnlink(c) PROVE ClaimsInv'
  BY <1>14 DEF ReleaseUnlink
<1>15. ASSUME NEW p \in Process, Crash(p) PROVE ClaimsInv'
  <2>1. UNCHANGED claims
    BY <1>15 DEF Crash
  <2>2. \A d \in Client : Forgotten(d) \/ Spared(d)
    BY <1>15, CrashEffect
  <2> QED
    BY <2>1, <2>2 DEF Forgotten, LockKept, Spared
<1>16. ASSUME NEW p \in Process, Start(p) PROVE ClaimsInv'
  BY <1>16 DEF Start
<1>17. ASSUME NEW h \in Host, Reboot(h) PROVE ClaimsInv'
  <2>1. UNCHANGED claims
    BY <1>17 DEF Reboot
  <2>2. \A d \in Client : Forgotten(d) \/ Spared(d)
    BY <1>17, RebootEffect
  <2> QED
    BY <2>1, <2>2 DEF Forgotten, LockKept, Spared
<1>18. CASE Age
  BY <1>18 DEF Age
<1>19. CASE UNCHANGED lockVars
  BY <1>19 DEF lockVars
<1> QED
  BY <1>1, <1>2, <1>3, <1>4, <1>5, <1>6, <1>7, <1>8, <1>9, <1>10, <1>11,
     <1>12, <1>13, <1>14, <1>15, <1>16, <1>17, <1>18, <1>19
  DEF LockNext, ClientStep, OpenerStep

\* Handles keep naming distinct, fresh locks of running clients.
LEMMA HandlesStep ==
    ASSUME LockTypeOK, LockTypeOK', ClaimsInv, HandlesInv, [LockNext]_lockVars PROVE HandlesInv'
<1> USE BoundAssumption, PlacementAssumption DEF LockTypeOK, HandlesInv, fileVars, envVars, GoTo, HostOfClient, Running
<1>1. ASSUME NEW c \in Client, AcquireOpen(c) PROVE HandlesInv'
  BY <1>1 DEF AcquireOpen
<1>2. ASSUME NEW c \in Client, AcquireWrite(c) PROVE HandlesInv'
  BY <1>2 DEF AcquireWrite
<1>3. ASSUME NEW c \in Client, AcquireClose(c) PROVE HandlesInv'
  BY <1>3 DEF AcquireClose
<1>4. ASSUME NEW c \in Client, AcquireFail(c) PROVE HandlesInv'
  BY <1>4 DEF AcquireFail
<1>5. ASSUME NEW c \in Client, AcquireUnwind(c) PROVE HandlesInv'
  <2>1. sidecar'.id = 0
    BY <1>5 DEF AcquireUnwind, NoLock
  <2>2. /\ mine' = [mine EXCEPT ![c] = 0]
        /\ \A d \in Client : d # c => pc'[d] = pc[d]
        /\ UNCHANGED <<alive, boot, nextOwner, expect>>
        /\ pc[c] # "idle"
    BY <1>5 DEF AcquireUnwind
  <2> QED
    BY <2>1, <2>2
<1>6. ASSUME NEW c \in Client, ConflictRead(c) PROVE HandlesInv'
  BY <1>6 DEF ConflictRead
<1>7. ASSUME NEW c \in Client, ConflictStat(c) PROVE HandlesInv'
  BY <1>7 DEF ConflictStat
<1>8. ASSUME NEW c \in Client, ClaimRecovery(c) PROVE HandlesInv'
  BY <1>8 DEF ClaimRecovery
<1>9. ASSUME NEW c \in Client, RecheckRead(c) PROVE HandlesInv'
  BY <1>9 DEF RecheckRead
<1>10. ASSUME NEW c \in Client, RecheckStat(c) PROVE HandlesInv'
  BY <1>10 DEF RecheckStat
<1>11. ASSUME NEW c \in Client, EvictStale(c) PROVE HandlesInv'
  <2>1. sidecar'.id = 0
    BY <1>11 DEF EvictStale, NoLock
  <2>2. /\ pc[c] \in Recovery /\ mine[c] = 0
        /\ \A d \in Client : d # c => pc'[d] = pc[d]
        /\ UNCHANGED <<alive, boot, mine, nextOwner, expect>>
    BY <1>11 DEF EvictStale
  <2>3. pc'[c] = "reopen" /\ Running(c)
    BY <1>11 DEF EvictStale
  <2> QED
    BY <2>1, <2>2, <2>3
<1>12. ASSUME NEW c \in Client, FinishRecovery(c) PROVE HandlesInv'
  BY <1>12 DEF FinishRecovery
<1>13. ASSUME NEW c \in Client, ReleaseRead(c) PROVE HandlesInv'
  BY <1>13 DEF ReleaseRead
<1>14. ASSUME NEW c \in Client, ReleaseUnlink(c) PROVE HandlesInv'
  <2>1. sidecar'.id = 0
    BY <1>14 DEF ReleaseUnlink, NoLock
  <2>2. /\ mine' = [mine EXCEPT ![c] = 0]
        /\ \A d \in Client : d # c => pc'[d] = pc[d]
        /\ UNCHANGED <<alive, boot, nextOwner, expect>>
        /\ pc[c] # "idle"
    BY <1>14 DEF ReleaseUnlink
  <2> QED
    BY <2>1, <2>2
<1>15. ASSUME NEW p \in Process, Crash(p) PROVE HandlesInv'
  <2>1. UNCHANGED <<sidecar, nextOwner>>
    BY <1>15 DEF Crash
  <2>2. \A d \in Client : Forgotten(d) \/ Spared(d)
    BY <1>15, CrashEffect
  <2> QED
    BY <2>1, <2>2 DEF Forgotten, LockKept, Spared
<1>16. ASSUME NEW p \in Process, Start(p) PROVE HandlesInv'
  BY <1>16 DEF Start
<1>17. ASSUME NEW h \in Host, Reboot(h) PROVE HandlesInv'
  <2>1. UNCHANGED <<sidecar, nextOwner>>
    BY <1>17 DEF Reboot
  <2>2. \A d \in Client : Forgotten(d) \/ Spared(d)
    BY <1>17, RebootEffect
  <2> QED
    BY <2>1, <2>2 DEF Forgotten, LockKept, Spared
<1>18. CASE Age
  BY <1>18 DEF Age
<1>19. CASE UNCHANGED lockVars
  BY <1>19 DEF lockVars
<1> QED
  BY <1>1, <1>2, <1>3, <1>4, <1>5, <1>6, <1>7, <1>8, <1>9, <1>10, <1>11,
     <1>12, <1>13, <1>14, <1>15, <1>16, <1>17, <1>18, <1>19
  DEF LockNext, ClientStep, OpenerStep

\* While no guess went wrong, every handle is backed by the lock file and a
\* recovery of a dead owner unlinks the lock it checked.
LEMMA FilesStep ==
    ASSUME LockTypeOK, LockTypeOK', ClaimsInv, HandlesInv, FilesInv, ~guessed', [LockNext]_lockVars
    PROVE  FilesInv'
<1> USE BoundAssumption, PlacementAssumption
    DEF LockTypeOK, HandlesInv, FilesInv, fileVars, envVars, GoTo, HostOfClient, CreatorLives
<1>1. ASSUME NEW c \in Client, AcquireOpen(c) PROVE FilesInv'
  <2>1. CASE sidecar = NoLock
    <3>1. \A d \in Client : mine[d] = 0
      BY <2>1 DEF NoLock
    <3>2. /\ sidecar'.id = nextOwner /\ mine' = [mine EXCEPT ![c] = nextOwner]
          /\ pc' = [pc EXCEPT ![c] = "opened"] /\ expect' = expect
      BY <1>1, <2>1 DEF AcquireOpen
    <3>3. \A d \in Client : pc[d] # "evict"
      BY <2>1 DEF NoLock
    <3>4. \A d \in Client : expect[d] # nextOwner
      OBVIOUS
    <3> QED
      BY <3>1, <3>2, <3>3, <3>4
  <2>2. CASE sidecar # NoLock
    BY <1>1, <2>2 DEF AcquireOpen
  <2> QED
    BY <2>1, <2>2
<1>2. ASSUME NEW c \in Client, AcquireWrite(c) PROVE FilesInv'
  <2>1. sidecar \in LockFile
    BY <1>2, LockFileId DEF AcquireWrite
  <2>2. /\ sidecar'.id = sidecar.id /\ sidecar'.by = sidecar.by /\ sidecar'.readable
        /\ sidecar'.old = sidecar.old /\ UNCHANGED <<mine, expect>> /\ pc' = [pc EXCEPT ![c] = "written"]
    BY <1>2, <2>1 DEF AcquireWrite, LockFile
  <2> QED
    BY <2>2
<1>3. ASSUME NEW c \in Client, AcquireClose(c) \/ AcquireFail(c) PROVE FilesInv'
  BY <1>3 DEF AcquireClose, AcquireFail
<1>4. ASSUME NEW c \in Client, AcquireUnwind(c) \/ ReleaseUnlink(c) PROVE FilesInv'
  <2>1. mine[c] \in OwnerId /\ sidecar.id = mine[c]
    BY <1>4 DEF AcquireUnwind, ReleaseUnlink
  <2>2. /\ mine' = [mine EXCEPT ![c] = 0] /\ sidecar'.id = 0
        /\ expect' = expect /\ \A d \in Client : pc'[d] = "evict" => pc[d] = "evict"
        /\ \A d \in Client : pc'[d] = "evictGuess" => pc[d] = "evictGuess"
    BY <1>4 DEF AcquireUnwind, ReleaseUnlink, NoLock
  <2>3. \A d \in Client : d # c => mine[d] = 0
    BY <2>1
  <2>4. \A d \in Client : pc[d] # "evict"
    BY <2>1
  <2> QED
    BY <2>2, <2>3, <2>4
<1>5. ASSUME NEW c \in Client,
             \/ ConflictRead(c) \/ ConflictStat(c) \/ ClaimRecovery(c)
             \/ RecheckStat(c) \/ FinishRecovery(c) \/ ReleaseRead(c)
      PROVE FilesInv'
  BY <1>5 DEF ConflictRead, ConflictStat, ClaimRecovery, RecheckStat,
              FinishRecovery, ReleaseRead
<1>6. ASSUME NEW c \in Client, RecheckRead(c) PROVE FilesInv'
  <2> DEFINE verdict(v) == /\ v \in OwnerLiveness(sidecar)
                           /\ StaleRecoveryAllowed(c, sidecar, v)
                           /\ sidecar.id = expect[c]
  <2>1. ASSUME "dead" \in OwnerLiveness(sidecar), sidecar.readable,
               NEW d \in Client, mine[d] = sidecar.id
        PROVE  FALSE
    <3>1. mine[d] # 0
      BY <2>1, LockFileId
    <3>2. sidecar.by = d /\ sidecar.boot = boot[HostOf[ProcOf[sidecar.by]]]
      BY <2>1, <3>1
    <3>3. ProcOf[d] \in alive
      BY <3>1 DEF Running
    <3>4. OwnerLiveness(sidecar) = {"alive", "unknown"}
      BY <3>2, <3>3 DEF OwnerLiveness
    <3> QED
      BY <2>1, <3>4
  <2>2. pc'[c] = "evict" => sidecar.readable /\ verdict("dead")
    BY <1>6 DEF RecheckRead
  <2>3. pc'[c] = "evictGuess" => \E v : verdict(v) /\ v # "dead"
    BY <1>6 DEF RecheckRead
  <2>4. /\ \A d \in Client : d # c => pc'[d] = pc[d]
        /\ UNCHANGED <<sidecar, mine, expect>>
    BY <1>6 DEF RecheckRead
  <2>5. pc'[c] = "evict" =>
             /\ sidecar.id = expect[c] /\ expect[c] # 0 /\ sidecar.readable
             /\ HostOf[ProcOf[sidecar.by]] = HostOf[ProcOf[c]]
             /\ ~CreatorLives(sidecar)
    BY <2>1, <2>2, LockFileId DEF StaleRecoveryAllowed
  <2>6. pc'[c] = "evictGuess" =>
             HostOf[ProcOf[sidecar.by]] = HostOf[ProcOf[c]] /\ sidecar.old
    BY <2>3 DEF StaleRecoveryAllowed
  <2> QED
    BY <2>4, <2>5, <2>6
<1>7. ASSUME NEW c \in Client, EvictStale(c) PROVE FilesInv'
  <2>1. ~CreatorLives(sidecar) \/ sidecar = NoLock
    BY <1>7 DEF EvictStale
  <2>2. \A d \in Client : mine[d] = 0
    BY <2>1 DEF NoLock
  <2>3. sidecar = NoLock \/ StillJudged(c)
    BY <1>7 DEF EvictStale, StillJudged
  <2>4. \A d \in Client : d # c /\ pc[d] = "evict" => expect[d] # expect[c]
    BY <1>7 DEF EvictStale, ClaimsInv, ClaimExclusion
  <2>5. \A d \in Client : d # c => pc[d] # "evict"
    BY <2>3, <2>4 DEF StillJudged, NoLock
  <2>6. /\ pc'[c] = "reopen" /\ \A d \in Client : d # c => pc'[d] = pc[d]
        /\ UNCHANGED <<mine, expect>> /\ sidecar'.id = 0
    BY <1>7 DEF EvictStale, NoLock
  <2> QED
    BY <2>2, <2>5, <2>6
<1>8. ASSUME NEW p \in Process, Crash(p) PROVE FilesInv'
  <2>1. UNCHANGED sidecar
    BY <1>8 DEF Crash
  <2>2. \A d \in Client : Forgotten(d) \/ Spared(d)
    BY <1>8, CrashEffect
  <2> QED
    BY <2>1, <2>2, LockFileId DEF Forgotten, Spared, LockKept
<1>9. ASSUME NEW p \in Process, Start(p) PROVE FilesInv'
  BY <1>9 DEF Start
<1>10. ASSUME NEW h \in Host, Reboot(h) PROVE FilesInv'
  <2>1. UNCHANGED sidecar
    BY <1>10 DEF Reboot
  <2>2. \A d \in Client : Forgotten(d) \/ Spared(d)
    BY <1>10, RebootEffect
  <2> QED
    BY <2>1, <2>2, LockFileId DEF Forgotten, Spared, LockKept
<1>11. CASE Age
  <2>1. sidecar \in LockFile
    BY <1>11 DEF Age
  <2>2. /\ sidecar'.id = sidecar.id /\ sidecar'.by = sidecar.by /\ sidecar'.readable = sidecar.readable
        /\ sidecar'.old /\ UNCHANGED <<pc, mine, expect>>
    BY <1>11, <2>1 DEF Age, LockFile
  <2> QED
    BY <2>2
<1>12. CASE UNCHANGED lockVars
  BY <1>12 DEF lockVars
<1> QED
  BY <1>1, <1>2, <1>3, <1>4, <1>5, <1>6, <1>7, <1>8, <1>9, <1>10, <1>11, <1>12
  DEF LockNext, ClientStep, OpenerStep

LEMMA BlindStays == ASSUME [LockNext]_lockVars, guessed PROVE guessed'
  BY DEF LockNext, ClientStep, OpenerStep, lockVars, AcquireOpen, AcquireWrite, AcquireClose,
     AcquireFail, AcquireUnwind, ConflictRead, ConflictStat, ClaimRecovery, RecheckRead,
     RecheckStat, EvictStale, FinishRecovery, ReleaseRead, ReleaseUnlink, Crash, Start,
     Reboot, Age

\* The inductive invariant of the lock protocol.
THEOREM LockInvariant == LockSpec => []LockInv
<1>1. LockInit => LockInv
  <2> SUFFICES ASSUME LockInit, LockTypeOK PROVE LockInv
    BY LockTypeInit
  <2>1. HandlesInv
    BY BoundAssumption DEF LockInit, HandlesInv, NoLock, LockTypeOK
  <2>2. ClaimsInv
    BY DEF LockInit, ClaimsInv, ClaimExclusion
  <2>3. FilesInv
    BY DEF LockInit, FilesInv
  <2> QED
    BY <2>1, <2>2, <2>3 DEF LockInv
<1>2. LockInv /\ [LockNext]_lockVars => LockInv'
  <2> SUFFICES ASSUME LockInv, [LockNext]_lockVars, LockTypeOK, LockTypeOK' PROVE LockInv'
    BY TypeStep DEF LockInv
  <2>1. ClaimsInv'
    BY ClaimsStep DEF LockInv
  <2>2. HandlesInv'
    BY HandlesStep DEF LockInv
  <2>3. ~guessed' => ~guessed
    BY BlindStays
  <2>4. ~guessed' => FilesInv'
    BY <2>3, FilesStep DEF LockInv
  <2> QED
    BY <2>1, <2>2, <2>4 DEF LockInv
<1> QED
  BY <1>1, <1>2, PTL DEF LockSpec

\* Only a recovery that guessed, past the stale age, can let two openers write one
\* session: crashes, reboots, recycled process ids, recoveries of owners found
\* dead, failed writes and late releases never do.
THEOREM LockExclusion == LockSpec => []ExclusionUnlessGuessed
<1>1. LockInv => ExclusionUnlessGuessed
  BY DEF LockInv, HandlesInv, FilesInv, ExclusionUnlessGuessed, MutualExclusion, LockTypeOK
<1> QED
  BY <1>1, LockInvariant, PTL

\* Two running openers never recover the same owner's lock at once.
THEOREM ClaimExclusive == LockSpec => []ClaimExclusion
<1>1. LockInv => ClaimExclusion
  BY DEF LockInv, ClaimsInv
<1> QED
  BY <1>1, LockInvariant, PTL

\* A recovery of an owner found dead unlinks the lock it judged, of a creator that
\* is gone; a lock known by name goes only on its own machine, and without proof
\* of its owner's death only past the stale age.
THEOREM EvictionsAreJustified == LockSpec => EvictionsJustified
<1> DEFINE Justified ==
      \A c \in Client :
          EvictStale(c) /\ sidecar # NoLock /\ ~guessed =>
              /\ pc[c] = "evict" => StillJudged(c) /\ ~CreatorLives(sidecar)
              /\ sidecar.id = expect[c] =>
                    /\ HostOf[ProcOf[sidecar.by]] = HostOfClient(c)
                    /\ pc[c] = "evictGuess" => sidecar.old
<1>1. LockInv /\ [LockNext]_lockVars => [Justified]_lockVars
  <2> SUFFICES ASSUME LockInv, NEW c \in Client, EvictStale(c), sidecar # NoLock, ~guessed
               PROVE  /\ pc[c] = "evict" => StillJudged(c) /\ ~CreatorLives(sidecar)
                      /\ sidecar.id = expect[c] =>
                            /\ HostOf[ProcOf[sidecar.by]] = HostOfClient(c)
                            /\ pc[c] = "evictGuess" => sidecar.old
    OBVIOUS
  <2>1. FilesInv /\ pc[c] \in {"evict", "evictGuess"}
    BY DEF LockInv, EvictStale
  <2>2. sidecar.id # 0
    BY LockFileId DEF LockInv, LockTypeOK
  <2> QED
    BY <2>1, <2>2 DEF FilesInv, StillJudged
<1> QED
  BY <1>1, LockInvariant, PTL DEF LockSpec, EvictionsJustified

HIDE DEF Unidentified, UnknownBoot, OwnerId, ClaimKey, Stage, Owning, Recovery

----------------------------------------------------------------------------
(***************************************************************************)
(* The chats of a window.                                                  *)
(***************************************************************************)
\* What the stage of a transition or of a disposal says of the session.
StagesAgree ==
    \A m \in Manager :
        /\ step[m] \in {"unlocking", "locking", "creating", "cleaning", "clearing"} => bound[m] = None
        /\ end[m] \notin {"open", "asked"} => step[m] = "idle"
        /\ end[m] \in {"unmade", "unlocking", "closed"} => bound[m] = None
        /\ end[m] \in {"recorder", "unlocking", "closed"} => InFlight(m) = {}

\* A manager that is gone has no lock.
ClosedIsFree == \A m \in Manager : end[m] = "closed" => \A f \in File : lock[f] # m

\* While a chat is deleted, the sessions that have it open are on their way to a
\* tab, or in the tab that is being detached.
DeletionSeesAll ==
    /\ del # NoDel => del.file \in File /\ del.stage \in {"detaching", "removing"}
    /\ \A m \in Manager \ del.late : del # NoDel /\ bound[m] = del.file =>
          del.stage = "detaching" /\ m = del.tab

IInv == TypeOK /\ OpenUnderLock /\ StagesAgree /\ ClosedIsFree /\ DeletionSeesAll

----------------------------------------------------------------------------

LEMMA TypeInit == Init => TypeOK
  BY SessionsAssumption DEF Init, TypeOK, Step, End, NotRun, NoDel

LEMMA TypeStutter ==
  ASSUME TypeOK, UNCHANGED vars PROVE TypeOK'
  BY DEF TypeOK, vars, sessions, chats, work

LEMMA TypeCreateTab ==
  ASSUME TypeOK, NEW m \in Manager, NEW f \in File, CreateTab(m, f) PROVE TypeOK'
  BY SessionsAssumption DEF TypeOK, CreateTab, MakeManager, Step, End, chats, work, sessions

LEMMA TypeOpenSession ==
  ASSUME TypeOK, NEW m \in Manager, NEW f \in File, OpenSession(m, f) PROVE TypeOK'
  BY SessionsAssumption DEF TypeOK, OpenSession, MakeManager, Step, End, chats, work,
     sessions

LEMMA TypeShowPanel ==
  ASSUME TypeOK, NEW m \in Manager, ShowPanel(m) PROVE TypeOK'
  BY SessionsAssumption DEF TypeOK, ShowPanel, Step, End, chats, work, sessions

LEMMA TypeClosePanel ==
  ASSUME TypeOK, NEW m \in Manager, ClosePanel(m) PROVE TypeOK'
  BY SessionsAssumption DEF TypeOK, ClosePanel, Step, End, chats, work, sessions

LEMMA TypeCloseTab ==
  ASSUME TypeOK, NEW m \in Manager, CloseTab(m) PROVE TypeOK'
  BY SessionsAssumption DEF TypeOK, CloseTab, Step, End, chats, work, sessions

LEMMA TypeReplace ==
  ASSUME TypeOK, NEW m \in Manager, NEW f \in File, Replace(m, f) PROVE TypeOK'
  BY SessionsAssumption DEF TypeOK, Replace, Go, Step, End, chats, work, sessions

LEMMA TypeLeave ==
  ASSUME TypeOK, NEW m \in Manager, Leave(m) PROVE TypeOK'
  BY SessionsAssumption DEF TypeOK, Leave, Invalidate, Go, Stopped, Step, End, chats,
     work, sessions

LEMMA TypeUnlocked ==
  ASSUME TypeOK, NEW m \in Manager, Unlocked(m) PROVE TypeOK'
  BY SessionsAssumption DEF TypeOK, Unlocked, Release, Freed, Fail, Done, Go, Fault,
     Step, End, chats, work, sessions

LEMMA TypeLock ==
  ASSUME TypeOK, NEW m \in Manager, Lock(m) PROVE TypeOK'
  BY SessionsAssumption DEF TypeOK, Lock, Granted, Go, Step, End, chats, work, sessions

LEMMA TypeLockRefused ==
  ASSUME TypeOK, NEW m \in Manager, LockRefused(m) PROVE TypeOK'
  BY SessionsAssumption DEF TypeOK, LockRefused, Fail, Done, Go, Fault, Step, End,
     chats, work, sessions

LEMMA TypeCreated ==
  ASSUME TypeOK, NEW m \in Manager, Created(m) PROVE TypeOK'
  BY SessionsAssumption DEF TypeOK, Created, Go, Step, End, chats, work, sessions

LEMMA TypeCreateFails ==
  ASSUME TypeOK, NEW m \in Manager, CreateFails(m) PROVE TypeOK'
  BY SessionsAssumption DEF TypeOK, CreateFails, Go, Fault, Step, End, chats, work, sessions

LEMMA TypeActivateFails ==
  ASSUME TypeOK, NEW m \in Manager, ActivateFails(m) PROVE TypeOK'
  BY SessionsAssumption DEF TypeOK, ActivateFails, Invalidate, Go, Fault, Step, End,
     chats, work, sessions

LEMMA TypeCleaned ==
  ASSUME TypeOK, NEW m \in Manager, Cleaned(m) PROVE TypeOK'
  BY SessionsAssumption DEF TypeOK, Cleaned, Release, Freed, Fail, Done, Go, Fault,
     Step, End, chats, work, sessions

LEMMA TypeActivated ==
  ASSUME TypeOK, NEW m \in Manager, Activated(m) PROVE TypeOK'
  BY SessionsAssumption DEF TypeOK, Activated, Done, Go, Step, End, chats, work, sessions

LEMMA TypeDisposeBegins ==
  ASSUME TypeOK, NEW m \in Manager, DisposeBegins(m) PROVE TypeOK'
  BY SessionsAssumption DEF TypeOK, DisposeBegins, Quiet, Step, End, chats, work, sessions

LEMMA TypeDisposeFlushes ==
  ASSUME TypeOK, NEW m \in Manager, DisposeFlushes(m) PROVE TypeOK'
  BY SessionsAssumption DEF TypeOK, DisposeFlushes, Append, Step, End, chats, work, sessions

LEMMA TypeDisposeLeaves ==
  ASSUME TypeOK, NEW m \in Manager, DisposeLeaves(m) PROVE TypeOK'
  BY SessionsAssumption DEF TypeOK, DisposeLeaves, Invalidate, Step, End, chats, work,
     sessions

LEMMA TypeDisposed ==
  ASSUME TypeOK, NEW m \in Manager, Disposed(m) PROVE TypeOK'
  BY SessionsAssumption DEF TypeOK, Disposed, Release, Freed, Fault, Step, End, chats,
     work, sessions

LEMMA TypeStartTurn ==
  ASSUME TypeOK, NEW m \in Manager, StartTurn(m) PROVE TypeOK'
  BY SessionsAssumption DEF TypeOK, StartTurn, Step, End, chats, work, sessions

LEMMA TypeSpawn ==
  ASSUME TypeOK, NEW m \in Manager, NEW r \in Run, Spawn(m, r) PROVE TypeOK'
  BY SessionsAssumption DEF TypeOK, Spawn, NotRun, Step, End, chats, work, sessions

LEMMA TypeSettle ==
  ASSUME TypeOK, NEW r \in Run, Settle(r) PROVE TypeOK'
  BY SessionsAssumption DEF TypeOK, Settle, Append, Step, End, chats, work, sessions

LEMMA TypeAgentEnds ==
  ASSUME TypeOK, NEW m \in Manager, AgentEnds(m) PROVE TypeOK'
  BY SessionsAssumption DEF TypeOK, AgentEnds, Append, Step, End, chats, work, sessions

LEMMA TypeTurnSettles ==
  ASSUME TypeOK, NEW m \in Manager, TurnSettles(m) PROVE TypeOK'
  BY SessionsAssumption DEF TypeOK, TurnSettles, Step, End, chats, work, sessions

LEMMA TypeDelete ==
  ASSUME TypeOK, NEW f \in File, Delete(f) PROVE TypeOK'
  BY SessionsAssumption DEF TypeOK, Delete, findTabIdBySessionPath, Step, End, chats,
     work, sessions

LEMMA TypeDeleteDetached ==
  ASSUME TypeOK, DeleteDetached PROVE TypeOK'
  BY SessionsAssumption DEF TypeOK, DeleteDetached, NoDel, Step, End, chats, work, sessions

LEMMA TypeUnlink ==
  ASSUME TypeOK, Unlink PROVE TypeOK'
  BY SessionsAssumption DEF TypeOK, Unlink, NoDel, Step, End, chats, work, sessions

LEMMA TypeOtherWindow ==
  ASSUME TypeOK, NEW f \in File, OtherWindow(f) PROVE TypeOK'
  BY SessionsAssumption DEF TypeOK, OtherWindow, Step, End, chats, work, sessions

----------------------------------------------------------------------------
\* Steps that concern neither locks, sessions nor deletions.
LEMMA QuietStep ==
  ASSUME IInv, TypeOK', UNCHANGED <<lock, bound, step, want, end, del>>,
         \A m \in Manager : InFlight(m)' \subseteq InFlight(m)
  PROVE  IInv'
<1>1. OpenUnderLock'
  BY DEF IInv, OpenUnderLock
<1>2. StagesAgree'
  BY DEF IInv, StagesAgree
<1>3. ClosedIsFree' /\ DeletionSeesAll'
  BY DEF IInv, ClosedIsFree, DeletionSeesAll
<1>4. QED
  BY <1>1, <1>2, <1>3 DEF IInv

LEMMA StepCreateTab ==
  ASSUME IInv, NEW m \in Manager, NEW f \in File, CreateTab(m, f) PROVE IInv'
<1>1. TypeOK'
  BY TypeCreateTab DEF IInv
<1>2. OpenUnderLock'
  BY SessionsAssumption DEF IInv, TypeOK, OpenUnderLock, StagesAgree, Step, End,
     CreateTab, MakeManager, chats, work, sessions
<1>3. StagesAgree'
  BY SessionsAssumption DEF IInv, TypeOK, StagesAgree, InFlight, Step, End, CreateTab,
     MakeManager, chats, work, sessions
<1>4. ClosedIsFree'
  BY SessionsAssumption DEF IInv, TypeOK, ClosedIsFree, StagesAgree, Step, End,
     CreateTab, MakeManager, chats, work, sessions
<1>5. DeletionSeesAll'
  BY SessionsAssumption DEF IInv, TypeOK, DeletionSeesAll, OpenUnderLock, StagesAgree,
     Detached, CreateTab, MakeManager, NoDel, chats, work, sessions
<1>6. QED
  BY <1>1, <1>2, <1>3, <1>4, <1>5 DEF IInv

LEMMA StepOpenSession ==
  ASSUME IInv, NEW m \in Manager, NEW f \in File, OpenSession(m, f) PROVE IInv'
<1>1. TypeOK'
  BY TypeOpenSession DEF IInv
<1>2. OpenUnderLock'
  BY SessionsAssumption DEF IInv, TypeOK, OpenUnderLock, StagesAgree, Step, End,
     OpenSession, MakeManager, chats, work, sessions
<1>3. StagesAgree'
  BY SessionsAssumption DEF IInv, TypeOK, StagesAgree, InFlight, Step, End,
     OpenSession, MakeManager, chats, work, sessions
<1>4. ClosedIsFree'
  BY SessionsAssumption DEF IInv, TypeOK, ClosedIsFree, StagesAgree, Step, End,
     OpenSession, MakeManager, chats, work, sessions
<1>5. DeletionSeesAll'
  BY SessionsAssumption DEF IInv, TypeOK, DeletionSeesAll, OpenUnderLock, StagesAgree,
     Detached, OpenSession, MakeManager, NoDel, chats, work, sessions
<1>6. QED
  BY <1>1, <1>2, <1>3, <1>4, <1>5 DEF IInv

LEMMA StepShowPanel ==
  ASSUME IInv, NEW m \in Manager, ShowPanel(m) PROVE IInv'
  BY TypeShowPanel, QuietStep DEF IInv, ShowPanel, InFlight, chats, work, sessions

LEMMA StepClosePanel ==
  ASSUME IInv, NEW m \in Manager, ClosePanel(m) PROVE IInv'
  BY TypeClosePanel, QuietStep DEF IInv, ClosePanel, InFlight, chats, work, sessions

LEMMA StepCloseTab ==
  ASSUME IInv, NEW m \in Manager, CloseTab(m) PROVE IInv'
<1>1. TypeOK'
  BY TypeCloseTab DEF IInv
<1>2. OpenUnderLock'
  BY SessionsAssumption DEF IInv, TypeOK, OpenUnderLock, StagesAgree, Step, End,
     CloseTab, chats, work, sessions
<1>3. StagesAgree'
  BY SessionsAssumption DEF IInv, TypeOK, StagesAgree, InFlight, Step, End, CloseTab,
     chats, work, sessions
<1>4. ClosedIsFree'
  BY SessionsAssumption DEF IInv, TypeOK, ClosedIsFree, StagesAgree, Step, End,
     CloseTab, chats, work, sessions
<1>5. DeletionSeesAll'
  BY SessionsAssumption DEF IInv, TypeOK, DeletionSeesAll, OpenUnderLock, StagesAgree,
     Detached, CloseTab, NoDel, chats, work, sessions
<1>6. QED
  BY <1>1, <1>2, <1>3, <1>4, <1>5 DEF IInv

LEMMA StepReplace ==
  ASSUME IInv, NEW m \in Manager, NEW f \in File, Replace(m, f) PROVE IInv'
<1>1. TypeOK'
  BY TypeReplace DEF IInv
<1>2. OpenUnderLock'
  BY SessionsAssumption DEF IInv, TypeOK, OpenUnderLock, StagesAgree, Step, End,
     Replace, Go, chats, work, sessions
<1>3. StagesAgree'
  BY SessionsAssumption DEF IInv, TypeOK, StagesAgree, InFlight, Step, End, Replace,
     Go, chats, work, sessions
<1>4. ClosedIsFree'
  BY SessionsAssumption DEF IInv, TypeOK, ClosedIsFree, StagesAgree, Step, End,
     Replace, Go, chats, work, sessions
<1>5. DeletionSeesAll'
  BY SessionsAssumption DEF IInv, TypeOK, DeletionSeesAll, OpenUnderLock, StagesAgree,
     Detached, Replace, Go, NoDel, chats, work, sessions
<1>6. QED
  BY <1>1, <1>2, <1>3, <1>4, <1>5 DEF IInv

LEMMA StepLeave ==
  ASSUME IInv, NEW m \in Manager, Leave(m) PROVE IInv'
<1>1. TypeOK'
  BY TypeLeave DEF IInv
<1>2. OpenUnderLock'
  BY SessionsAssumption DEF IInv, TypeOK, OpenUnderLock, StagesAgree, Step, End, Leave,
     Invalidate, Go, Stopped, chats, work, sessions
<1>3. StagesAgree'
  BY SessionsAssumption DEF IInv, TypeOK, StagesAgree, InFlight, Step, End, Leave,
     Invalidate, Go, Stopped, chats, work, sessions
<1>4. ClosedIsFree'
  BY SessionsAssumption DEF IInv, TypeOK, ClosedIsFree, StagesAgree, Step, End, Leave,
     Invalidate, Go, Stopped, chats, work, sessions
<1>5. DeletionSeesAll'
  BY SessionsAssumption DEF IInv, TypeOK, DeletionSeesAll, OpenUnderLock, StagesAgree,
     Detached, Leave, Invalidate, Go, Stopped, NoDel, chats, work, sessions
<1>6. QED
  BY <1>1, <1>2, <1>3, <1>4, <1>5 DEF IInv

LEMMA StepUnlocked ==
  ASSUME IInv, NEW m \in Manager, Unlocked(m) PROVE IInv'
<1>1. TypeOK'
  BY TypeUnlocked DEF IInv
<1>2. OpenUnderLock'
  BY SessionsAssumption DEF IInv, TypeOK, OpenUnderLock, StagesAgree, Step, End,
     Unlocked, Release, Freed, Fail, Done, Go, Fault, chats, work, sessions
<1>3. StagesAgree'
  BY SessionsAssumption DEF IInv, TypeOK, StagesAgree, InFlight, Step, End, Unlocked,
     Release, Freed, Fail, Done, Go, Fault, chats, work, sessions
<1>4. ClosedIsFree'
  BY SessionsAssumption DEF IInv, TypeOK, ClosedIsFree, StagesAgree, Step, End,
     Unlocked, Release, Freed, Fail, Done, Go, Fault, chats, work, sessions
<1>5. DeletionSeesAll'
  BY SessionsAssumption DEF IInv, TypeOK, DeletionSeesAll, OpenUnderLock, StagesAgree,
     Detached, Unlocked, Release, Freed, Fail, Done, Go, Fault, NoDel, chats, work,
     sessions
<1>6. QED
  BY <1>1, <1>2, <1>3, <1>4, <1>5 DEF IInv

LEMMA StepLock ==
  ASSUME IInv, NEW m \in Manager, Lock(m) PROVE IInv'
<1>1. TypeOK'
  BY TypeLock DEF IInv
<1>2. OpenUnderLock'
  BY SessionsAssumption DEF IInv, TypeOK, OpenUnderLock, StagesAgree, Step, End, Lock,
     Granted, Go, chats, work, sessions
<1>3. StagesAgree'
  BY SessionsAssumption DEF IInv, TypeOK, StagesAgree, InFlight, Step, End, Lock,
     Granted, Go, chats, work, sessions
<1>4. ClosedIsFree'
  BY SessionsAssumption DEF IInv, TypeOK, ClosedIsFree, StagesAgree, Step, End, Lock,
     Granted, Go, chats, work, sessions
<1>5. DeletionSeesAll'
  BY SessionsAssumption DEF IInv, TypeOK, DeletionSeesAll, OpenUnderLock, StagesAgree,
     Detached, Lock, Granted, Go, NoDel, chats, work, sessions
<1>6. QED
  BY <1>1, <1>2, <1>3, <1>4, <1>5 DEF IInv

LEMMA StepLockRefused ==
  ASSUME IInv, NEW m \in Manager, LockRefused(m) PROVE IInv'
<1>1. TypeOK'
  BY TypeLockRefused DEF IInv
<1>2. OpenUnderLock'
  BY SessionsAssumption DEF IInv, TypeOK, OpenUnderLock, StagesAgree, Step, End,
     LockRefused, Fail, Done, Go, Fault, chats, work, sessions
<1>3. StagesAgree'
  BY SessionsAssumption DEF IInv, TypeOK, StagesAgree, InFlight, Step, End,
     LockRefused, Fail, Done, Go, Fault, chats, work, sessions
<1>4. ClosedIsFree'
  BY SessionsAssumption DEF IInv, TypeOK, ClosedIsFree, StagesAgree, Step, End,
     LockRefused, Fail, Done, Go, Fault, chats, work, sessions
<1>5. DeletionSeesAll'
  BY SessionsAssumption DEF IInv, TypeOK, DeletionSeesAll, OpenUnderLock, StagesAgree,
     Detached, LockRefused, Fail, Done, Go, Fault, NoDel, chats, work, sessions
<1>6. QED
  BY <1>1, <1>2, <1>3, <1>4, <1>5 DEF IInv

LEMMA StepCreated ==
  ASSUME IInv, NEW m \in Manager, Created(m) PROVE IInv'
<1>1. TypeOK'
  BY TypeCreated DEF IInv
<1>2. OpenUnderLock'
  BY SessionsAssumption DEF IInv, TypeOK, OpenUnderLock, StagesAgree, Step, End,
     Created, Go, chats, work, sessions
<1>3. StagesAgree'
  BY SessionsAssumption DEF IInv, TypeOK, StagesAgree, InFlight, Step, End, Created,
     Go, chats, work, sessions
<1>4. ClosedIsFree'
  BY SessionsAssumption DEF IInv, TypeOK, ClosedIsFree, StagesAgree, Step, End,
     Created, Go, chats, work, sessions
<1>5. DeletionSeesAll'
  <2>1. CASE del.file = want[m]
    <3>1. del # NoDel
      BY <2>1, SessionsAssumption DEF IInv, TypeOK, Created, NoDel
    <3>2. /\ del'.file = del.file /\ del'.stage = del.stage /\ del'.tab = del.tab
          /\ del'.late = del.late \cup {m}
      BY <2>1 DEF IInv, TypeOK, Created
    <3>3. del' # NoDel
      BY <3>1, <3>2, SessionsAssumption DEF IInv, DeletionSeesAll, NoDel
    <3>4. QED
      BY <3>1, <3>2, <3>3 DEF IInv, TypeOK, DeletionSeesAll, Created
  <2>2. CASE del.file # want[m]
    BY <2>2 DEF IInv, TypeOK, DeletionSeesAll, Created
  <2>3. QED
    BY <2>1, <2>2
<1>6. QED
  BY <1>1, <1>2, <1>3, <1>4, <1>5 DEF IInv

LEMMA StepCreateFails ==
  ASSUME IInv, NEW m \in Manager, CreateFails(m) PROVE IInv'
<1>1. TypeOK'
  BY TypeCreateFails DEF IInv
<1>2. OpenUnderLock'
  BY SessionsAssumption DEF IInv, TypeOK, OpenUnderLock, StagesAgree, Step, End,
     CreateFails, Go, Fault, chats, work, sessions
<1>3. StagesAgree'
  BY SessionsAssumption DEF IInv, TypeOK, StagesAgree, InFlight, Step, End,
     CreateFails, Go, Fault, chats, work, sessions
<1>4. ClosedIsFree'
  BY SessionsAssumption DEF IInv, TypeOK, ClosedIsFree, StagesAgree, Step, End,
     CreateFails, Go, Fault, chats, work, sessions
<1>5. DeletionSeesAll'
  BY SessionsAssumption DEF IInv, TypeOK, DeletionSeesAll, OpenUnderLock, StagesAgree,
     Detached, CreateFails, Go, Fault, NoDel, chats, work, sessions
<1>6. QED
  BY <1>1, <1>2, <1>3, <1>4, <1>5 DEF IInv

LEMMA StepActivateFails ==
  ASSUME IInv, NEW m \in Manager, ActivateFails(m) PROVE IInv'
<1>1. TypeOK'
  BY TypeActivateFails DEF IInv
<1>2. OpenUnderLock'
  BY SessionsAssumption DEF IInv, TypeOK, OpenUnderLock, StagesAgree, Step, End,
     ActivateFails, Invalidate, Go, Fault, chats, work, sessions
<1>3. StagesAgree'
  BY SessionsAssumption DEF IInv, TypeOK, StagesAgree, InFlight, Step, End,
     ActivateFails, Invalidate, Go, Fault, chats, work, sessions
<1>4. ClosedIsFree'
  BY SessionsAssumption DEF IInv, TypeOK, ClosedIsFree, StagesAgree, Step, End,
     ActivateFails, Invalidate, Go, Fault, chats, work, sessions
<1>5. DeletionSeesAll'
  BY SessionsAssumption DEF IInv, TypeOK, DeletionSeesAll, OpenUnderLock, StagesAgree,
     Detached, ActivateFails, Invalidate, Go, Fault, NoDel, chats, work, sessions
<1>6. QED
  BY <1>1, <1>2, <1>3, <1>4, <1>5 DEF IInv

LEMMA StepCleaned ==
  ASSUME IInv, NEW m \in Manager, Cleaned(m) PROVE IInv'
<1>1. TypeOK'
  BY TypeCleaned DEF IInv
<1>2. OpenUnderLock'
  BY SessionsAssumption DEF IInv, TypeOK, OpenUnderLock, StagesAgree, Step, End,
     Cleaned, Release, Freed, Fail, Done, Go, Fault, chats, work, sessions
<1>3. StagesAgree'
  BY SessionsAssumption DEF IInv, TypeOK, StagesAgree, InFlight, Step, End, Cleaned,
     Release, Freed, Fail, Done, Go, Fault, chats, work, sessions
<1>4. ClosedIsFree'
  BY SessionsAssumption DEF IInv, TypeOK, ClosedIsFree, StagesAgree, Step, End,
     Cleaned, Release, Freed, Fail, Done, Go, Fault, chats, work, sessions
<1>5. DeletionSeesAll'
  BY SessionsAssumption DEF IInv, TypeOK, DeletionSeesAll, OpenUnderLock, StagesAgree,
     Detached, Cleaned, Release, Freed, Fail, Done, Go, Fault, NoDel, chats, work,
     sessions
<1>6. QED
  BY <1>1, <1>2, <1>3, <1>4, <1>5 DEF IInv

LEMMA StepActivated ==
  ASSUME IInv, NEW m \in Manager, Activated(m) PROVE IInv'
<1>1. TypeOK'
  BY TypeActivated DEF IInv
<1>2. OpenUnderLock'
  BY SessionsAssumption DEF IInv, TypeOK, OpenUnderLock, StagesAgree, Step, End,
     Activated, Done, Go, chats, work, sessions
<1>3. StagesAgree'
  BY SessionsAssumption DEF IInv, TypeOK, StagesAgree, InFlight, Step, End, Activated,
     Done, Go, chats, work, sessions
<1>4. ClosedIsFree'
  BY SessionsAssumption DEF IInv, TypeOK, ClosedIsFree, StagesAgree, Step, End,
     Activated, Done, Go, chats, work, sessions
<1>5. DeletionSeesAll'
  BY SessionsAssumption DEF IInv, TypeOK, DeletionSeesAll, OpenUnderLock, StagesAgree,
     Detached, Activated, Done, Go, NoDel, chats, work, sessions
<1>6. QED
  BY <1>1, <1>2, <1>3, <1>4, <1>5 DEF IInv

LEMMA StepDisposeBegins ==
  ASSUME IInv, NEW m \in Manager, DisposeBegins(m) PROVE IInv'
<1>1. TypeOK'
  BY TypeDisposeBegins DEF IInv
<1>2. OpenUnderLock'
  BY SessionsAssumption DEF IInv, TypeOK, OpenUnderLock, StagesAgree, Step, End,
     DisposeBegins, Quiet, chats, work, sessions
<1>3. StagesAgree'
  BY SessionsAssumption DEF IInv, TypeOK, StagesAgree, InFlight, Step, End,
     DisposeBegins, Quiet, chats, work, sessions
<1>4. ClosedIsFree'
  BY SessionsAssumption DEF IInv, TypeOK, ClosedIsFree, StagesAgree, Step, End,
     DisposeBegins, Quiet, chats, work, sessions
<1>5. DeletionSeesAll'
  BY SessionsAssumption DEF IInv, TypeOK, DeletionSeesAll, OpenUnderLock, StagesAgree,
     Detached, DisposeBegins, Quiet, NoDel, chats, work, sessions
<1>6. QED
  BY <1>1, <1>2, <1>3, <1>4, <1>5 DEF IInv

LEMMA StepDisposeFlushes ==
  ASSUME IInv, NEW m \in Manager, DisposeFlushes(m) PROVE IInv'
<1>1. TypeOK'
  BY TypeDisposeFlushes DEF IInv
<1>2. OpenUnderLock'
  BY SessionsAssumption DEF IInv, TypeOK, OpenUnderLock, StagesAgree, Step, End,
     DisposeFlushes, Append, chats, work, sessions
<1>3. StagesAgree'
  BY SessionsAssumption DEF IInv, TypeOK, StagesAgree, InFlight, Step, End,
     DisposeFlushes, Append, chats, work, sessions
<1>4. ClosedIsFree'
  BY SessionsAssumption DEF IInv, TypeOK, ClosedIsFree, StagesAgree, Step, End,
     DisposeFlushes, Append, chats, work, sessions
<1>5. DeletionSeesAll'
  BY SessionsAssumption DEF IInv, TypeOK, DeletionSeesAll, OpenUnderLock, StagesAgree,
     Detached, DisposeFlushes, Append, NoDel, chats, work, sessions
<1>6. QED
  BY <1>1, <1>2, <1>3, <1>4, <1>5 DEF IInv

LEMMA StepDisposeLeaves ==
  ASSUME IInv, NEW m \in Manager, DisposeLeaves(m) PROVE IInv'
<1>1. TypeOK'
  BY TypeDisposeLeaves DEF IInv
<1>2. OpenUnderLock'
  BY SessionsAssumption DEF IInv, TypeOK, OpenUnderLock, StagesAgree, Step, End,
     DisposeLeaves, Invalidate, chats, work, sessions
<1>3. StagesAgree'
  BY SessionsAssumption DEF IInv, TypeOK, StagesAgree, InFlight, Step, End,
     DisposeLeaves, Invalidate, chats, work, sessions
<1>4. ClosedIsFree'
  BY SessionsAssumption DEF IInv, TypeOK, ClosedIsFree, StagesAgree, Step, End,
     DisposeLeaves, Invalidate, chats, work, sessions
<1>5. DeletionSeesAll'
  BY SessionsAssumption DEF IInv, TypeOK, DeletionSeesAll, OpenUnderLock, StagesAgree,
     Detached, DisposeLeaves, Invalidate, NoDel, chats, work, sessions
<1>6. QED
  BY <1>1, <1>2, <1>3, <1>4, <1>5 DEF IInv

LEMMA StepDisposed ==
  ASSUME IInv, NEW m \in Manager, Disposed(m) PROVE IInv'
<1>1. TypeOK'
  BY TypeDisposed DEF IInv
<1>2. OpenUnderLock'
  BY SessionsAssumption DEF IInv, TypeOK, OpenUnderLock, StagesAgree, Step, End,
     Disposed, Release, Freed, Fault, chats, work, sessions
<1>3. StagesAgree'
  BY SessionsAssumption DEF IInv, TypeOK, StagesAgree, InFlight, Step, End, Disposed,
     Release, Freed, Fault, chats, work, sessions
<1>4. ClosedIsFree'
  BY SessionsAssumption DEF IInv, TypeOK, ClosedIsFree, StagesAgree, Step, End,
     Disposed, Release, Freed, Fault, chats, work, sessions
<1>5. DeletionSeesAll'
  BY SessionsAssumption DEF IInv, TypeOK, DeletionSeesAll, OpenUnderLock, StagesAgree,
     Detached, Disposed, Release, Freed, Fault, NoDel, chats, work, sessions
<1>6. QED
  BY <1>1, <1>2, <1>3, <1>4, <1>5 DEF IInv

LEMMA StepStartTurn ==
  ASSUME IInv, NEW m \in Manager, StartTurn(m) PROVE IInv'
  BY TypeStartTurn, QuietStep DEF IInv, StartTurn, InFlight, chats, work, sessions

LEMMA StepSpawn ==
  ASSUME IInv, NEW m \in Manager, NEW r \in Run, Spawn(m, r) PROVE IInv'
<1>1. TypeOK'
  BY TypeSpawn DEF IInv
<1>2. OpenUnderLock'
  BY SessionsAssumption DEF IInv, TypeOK, OpenUnderLock, StagesAgree, Step, End, Spawn,
     NotRun, chats, work, sessions
<1>3. StagesAgree'
  BY SessionsAssumption DEF IInv, TypeOK, StagesAgree, InFlight, Step, End, Spawn,
     NotRun, chats, work, sessions
<1>4. ClosedIsFree'
  BY SessionsAssumption DEF IInv, TypeOK, ClosedIsFree, StagesAgree, Step, End, Spawn,
     NotRun, chats, work, sessions
<1>5. DeletionSeesAll'
  BY SessionsAssumption DEF IInv, TypeOK, DeletionSeesAll, OpenUnderLock, StagesAgree,
     Detached, Spawn, NotRun, NoDel, chats, work, sessions
<1>6. QED
  BY <1>1, <1>2, <1>3, <1>4, <1>5 DEF IInv

LEMMA StepSettle ==
  ASSUME IInv, NEW r \in Run, Settle(r) PROVE IInv'
<1>1. TypeOK'
  BY TypeSettle DEF IInv
<1>2. OpenUnderLock'
  BY SessionsAssumption DEF IInv, TypeOK, OpenUnderLock, StagesAgree, Step, End,
     Settle, Append, chats, work, sessions
<1>3. StagesAgree'
  BY SessionsAssumption DEF IInv, TypeOK, StagesAgree, InFlight, Step, End, Settle,
     Append, chats, work, sessions
<1>4. ClosedIsFree'
  BY SessionsAssumption DEF IInv, TypeOK, ClosedIsFree, StagesAgree, Step, End, Settle,
     Append, chats, work, sessions
<1>5. DeletionSeesAll'
  BY SessionsAssumption DEF IInv, TypeOK, DeletionSeesAll, OpenUnderLock, StagesAgree,
     Detached, Settle, Append, NoDel, chats, work, sessions
<1>6. QED
  BY <1>1, <1>2, <1>3, <1>4, <1>5 DEF IInv

LEMMA StepAgentEnds ==
  ASSUME IInv, NEW m \in Manager, AgentEnds(m) PROVE IInv'
  BY TypeAgentEnds, QuietStep DEF IInv, AgentEnds, InFlight, chats, work, sessions

LEMMA StepTurnSettles ==
  ASSUME IInv, NEW m \in Manager, TurnSettles(m) PROVE IInv'
  BY TypeTurnSettles, QuietStep DEF IInv, TurnSettles, InFlight, chats, work, sessions

LEMMA StepDelete ==
  ASSUME IInv, NEW f \in File, Delete(f) PROVE IInv'
<1>1. TypeOK'
  BY TypeDelete DEF IInv
<1>2. OpenUnderLock'
  BY SessionsAssumption DEF IInv, TypeOK, OpenUnderLock, StagesAgree, Step, End,
     Delete, findTabIdBySessionPath, chats, work, sessions
<1>3. StagesAgree'
  BY SessionsAssumption DEF IInv, TypeOK, StagesAgree, InFlight, Step, End, Delete,
     findTabIdBySessionPath, chats, work, sessions
<1>4. ClosedIsFree'
  BY SessionsAssumption DEF IInv, TypeOK, ClosedIsFree, StagesAgree, Step, End, Delete,
     findTabIdBySessionPath, chats, work, sessions
<1>5. DeletionSeesAll'
  BY SessionsAssumption DEF IInv, TypeOK, DeletionSeesAll, OpenUnderLock, StagesAgree,
     Detached, Delete, findTabIdBySessionPath, NoDel, chats, work, sessions
<1>6. QED
  BY <1>1, <1>2, <1>3, <1>4, <1>5 DEF IInv

LEMMA StepDeleteDetached ==
  ASSUME IInv, DeleteDetached PROVE IInv'
<1>1. TypeOK'
  BY TypeDeleteDetached DEF IInv
<1>2. OpenUnderLock'
  BY SessionsAssumption DEF IInv, TypeOK, OpenUnderLock, StagesAgree, Step, End,
     DeleteDetached, NoDel, chats, work, sessions
<1>3. StagesAgree'
  BY SessionsAssumption DEF IInv, TypeOK, StagesAgree, InFlight, Step, End,
     DeleteDetached, NoDel, chats, work, sessions
<1>4. ClosedIsFree'
  BY SessionsAssumption DEF IInv, TypeOK, ClosedIsFree, StagesAgree, Step, End,
     DeleteDetached, NoDel, chats, work, sessions
<1>5. DeletionSeesAll'
  BY SessionsAssumption DEF IInv, TypeOK, DeletionSeesAll, OpenUnderLock, StagesAgree,
     Detached, DeleteDetached, NoDel, chats, work, sessions
<1>6. QED
  BY <1>1, <1>2, <1>3, <1>4, <1>5 DEF IInv

LEMMA StepUnlink ==
  ASSUME IInv, Unlink PROVE IInv'
<1>1. TypeOK'
  BY TypeUnlink DEF IInv
<1>2. OpenUnderLock'
  BY SessionsAssumption DEF IInv, TypeOK, OpenUnderLock, StagesAgree, Step, End,
     Unlink, NoDel, chats, work, sessions
<1>3. StagesAgree'
  BY SessionsAssumption DEF IInv, TypeOK, StagesAgree, InFlight, Step, End, Unlink,
     NoDel, chats, work, sessions
<1>4. ClosedIsFree'
  BY SessionsAssumption DEF IInv, TypeOK, ClosedIsFree, StagesAgree, Step, End, Unlink,
     NoDel, chats, work, sessions
<1>5. DeletionSeesAll'
  BY SessionsAssumption DEF IInv, TypeOK, DeletionSeesAll, OpenUnderLock, StagesAgree,
     Detached, Unlink, NoDel, chats, work, sessions
<1>6. QED
  BY <1>1, <1>2, <1>3, <1>4, <1>5 DEF IInv

LEMMA StepOtherWindow ==
  ASSUME IInv, NEW f \in File, OtherWindow(f) PROVE IInv'
<1>1. TypeOK'
  BY TypeOtherWindow DEF IInv
<1>2. OpenUnderLock'
  BY SessionsAssumption DEF IInv, TypeOK, OpenUnderLock, StagesAgree, Step, End,
     OtherWindow, chats, work, sessions
<1>3. StagesAgree'
  BY SessionsAssumption DEF IInv, TypeOK, StagesAgree, InFlight, Step, End,
     OtherWindow, chats, work, sessions
<1>4. ClosedIsFree'
  BY SessionsAssumption DEF IInv, TypeOK, ClosedIsFree, StagesAgree, Step, End,
     OtherWindow, chats, work, sessions
<1>5. DeletionSeesAll'
  BY SessionsAssumption DEF IInv, TypeOK, DeletionSeesAll, OpenUnderLock, StagesAgree,
     Detached, OtherWindow, NoDel, chats, work, sessions
<1>6. QED
  BY <1>1, <1>2, <1>3, <1>4, <1>5 DEF IInv

----------------------------------------------------------------------------
LEMMA Initially == Init => IInv
<1>1. Init => OpenUnderLock /\ ClosedIsFree
  BY DEF Init, OpenUnderLock, ClosedIsFree
<1>2. Init => StagesAgree /\ DeletionSeesAll
  BY SessionsAssumption DEF Init, StagesAgree, DeletionSeesAll, InFlight, NotRun, NoDel
<1>3. QED
  BY <1>1, <1>2, TypeInit DEF IInv

\* Every step of a window keeps the invariant.
LEMMA Kept == IInv /\ [Next]_vars => IInv'
<1> SUFFICES ASSUME IInv, [Next]_vars PROVE IInv'
  OBVIOUS
<1>1. ASSUME NEW m \in Manager, Transition(m) PROVE IInv'
  BY <1>1, StepLeave, StepUnlocked, StepLock, StepLockRefused, StepCreated,
     StepCreateFails, StepActivateFails, StepCleaned, StepActivated DEF Transition
<1>2. ASSUME NEW m \in Manager, Disposal(m) PROVE IInv'
  BY <1>2, StepDisposeBegins, StepDisposeFlushes, StepDisposeLeaves, StepDisposed DEF
     Disposal
<1>3. CASE UNCHANGED vars
  BY <1>3, TypeStutter, QuietStep DEF IInv, InFlight, vars, sessions, chats, work
<1>4. QED
  BY <1>1, <1>2, <1>3, StepCreateTab, StepOpenSession, StepShowPanel, StepClosePanel,
     StepCloseTab, StepReplace, StepStartTurn, StepSpawn, StepSettle, StepAgentEnds,
     StepTurnSettles, StepDelete, StepDeleteDetached, StepUnlink, StepOtherWindow DEF
     Next

LEMMA Invariance == Spec => []IInv
  BY Initially, Kept, PTL DEF Spec

\* Every variable keeps its type.
THEOREM TypeCorrect == Spec => []TypeOK
  BY Invariance, PTL DEF IInv

\* Whatever is opened, switched, closed, deleted or fails, a session is made, open
\* or being left only under its manager's lock (pi/session.ts, session-runtime.ts).
THEOREM SessionsLocked == Spec => []OpenUnderLock
  BY Invariance, PTL DEF IInv

\* A manager that has been disposed keeps no session, subagent or lock.
THEOREM ClosedIsEmpty == Spec => []ClosedHoldsNothing
<1>1. IInv => ClosedHoldsNothing
  BY DEF IInv, StagesAgree, ClosedIsFree, ClosedHoldsNothing
<1>2. QED
  BY <1>1, Invariance, PTL

\* No session file is unlinked under a session that the deletion could have seen
\* (deleteHistorySession).
THEOREM DeletionIsSafe == Spec => DeletesClosedChats
<1>1. IInv /\ [Next]_vars => [del.stage = "removing" /\ del' = NoDel =>
         \A m \in Manager : bound[m] = del.file => m \in del.late]_vars
  BY DEF IInv, DeletionSeesAll, NoDel
<1>2. QED
  BY <1>1, Invariance, PTL DEF Spec, DeletesClosedChats

----------------------------------------------------------------------------
(***************************************************************************)
(* The notices of background subagents. A run in flight is in the chat its *)
(* manager has open, since a chat is left only when none is in flight and  *)
(* none is started on the way to the next one.                             *)
(***************************************************************************)
RunsAtHome ==
    \A r \in Run : run[r].state # "none" =>
        /\ run[r].by \in Manager /\ run[r].chat \in File
        /\ run[r].state = "running" => bound[run[r].by] = run[r].chat
NewHasNoRuns == \A m \in Manager : step[m] = "activating" => InFlight(m) = {}
TurnHasChat == \A m \in Manager : turn[m] # "idle" => bound[m] # None

Reports == RunsAtHome /\ NewHasNoRuns /\ TurnHasChat /\ NoticesComeHome

\* Steps that concern no session and no notice.
LEMMA ReportsStep ==
  ASSUME Reports, UNCHANGED <<bound, turn, run, pending, log, stranded>>,
         \A m \in Manager : step'[m] = "activating" => step[m] = "activating"
  PROVE  Reports'
<1>1. RunsAtHome' /\ TurnHasChat'
  BY DEF Reports, RunsAtHome, TurnHasChat
<1>2. NewHasNoRuns'
  BY DEF Reports, NewHasNoRuns, InFlight
<1>3. NoticesComeHome'
  BY DEF Reports, NoticesComeHome
<1> QED
  BY <1>1, <1>2, <1>3 DEF Reports

\* A chat is left: what still waits there is stranded.
LEMMA ReportsLeave ==
  ASSUME IInv, Reports, NEW m \in Manager, Invalidate(m), InFlight(m) = {},
         UNCHANGED <<run, pending, log>>,
         \A n \in Manager : step'[n] = "activating" => step[n] = "activating"
  PROVE  Reports'
<1>1. /\ bound' = [bound EXCEPT ![m] = None] /\ turn' = [turn EXCEPT ![m] = "idle"]
      /\ stranded' = stranded \cup pending[m]
      /\ \A n \in Manager \ {m} : bound'[n] = bound[n] /\ turn'[n] = turn[n]
      /\ turn'[m] = "idle"
  BY DEF Invalidate, IInv, TypeOK
<1>2. RunsAtHome'
  BY <1>1 DEF Reports, RunsAtHome, InFlight
<1>3. NewHasNoRuns'
  BY DEF Reports, NewHasNoRuns, InFlight
<1>4. TurnHasChat'
  BY <1>1 DEF Reports, TurnHasChat
<1>5. NoticesComeHome'
  <2> SUFFICES ASSUME NEW r \in Run, r \notin stranded, r \notin pending[m],
                      run[r].state = "over", r \notin log[run[r].chat]
               PROVE  r \in pending[run[r].by] /\ bound'[run[r].by] = run[r].chat
    BY <1>1 DEF NoticesComeHome
  <2>1. r \in pending[run[r].by] /\ bound[run[r].by] = run[r].chat
    BY DEF Reports, NoticesComeHome
  <2>2. run[r].by \in Manager
    BY DEF Reports, RunsAtHome
  <2> QED
    BY <1>1, <2>1, <2>2
<1> QED
  BY <1>2, <1>3, <1>4, <1>5 DEF Reports

\* The notices that wait are appended to the session of the chat.
LEMMA ReportsFlush ==
  ASSUME IInv, Reports, NEW m \in Manager, Append(pending[m], bound[m]),
         pending' = [pending EXCEPT ![m] = {}], UNCHANGED <<bound, step, run, stranded>>,
         \A n \in Manager : turn'[n] # "idle" => turn[n] # "idle"
  PROVE  Reports'
<1>1. RunsAtHome' /\ NewHasNoRuns' /\ TurnHasChat'
  BY DEF Reports, RunsAtHome, NewHasNoRuns, TurnHasChat, InFlight
<1>2. \A n \in Manager \ {m} : pending'[n] = pending[n]
  BY DEF IInv, TypeOK
<1>3. \A f \in File : log[f] \subseteq log'[f] /\ (bound[m] = f => pending[m] \subseteq log'[f])
  BY SessionsAssumption DEF Append, IInv, TypeOK
<1>4. NoticesComeHome'
  <2> SUFFICES ASSUME NEW r \in Run, r \notin stranded, run[r].state = "over",
                      r \notin log'[run[r].chat]
               PROVE  r \in pending'[run[r].by] /\ bound[run[r].by] = run[r].chat
    BY DEF NoticesComeHome
  <2>1. run[r].by \in Manager /\ run[r].chat \in File
    BY DEF Reports, RunsAtHome
  <2>2. r \in pending[run[r].by] /\ bound[run[r].by] = run[r].chat
    BY <1>3, <2>1 DEF Reports, NoticesComeHome
  <2> QED
    BY <1>2, <1>3, <2>1, <2>2
<1> QED
  BY <1>1, <1>4 DEF Reports

LEMMA ReportsCreated ==
  ASSUME IInv, Reports, NEW m \in Manager, Created(m) PROVE Reports'
<1>1. /\ UNCHANGED <<turn, run, pending, log, stranded>> /\ step[m] = "creating"
      /\ bound[m] = None /\ bound'[m] # None
      /\ \A n \in Manager \ {m} : bound'[n] = bound[n] /\ step'[n] = step[n]
  BY SessionsAssumption DEF Created, Go, work, IInv, TypeOK, StagesAgree
<1>2. None \notin File
  BY SessionsAssumption
<1>3. InFlight(m) = {}
  BY <1>1, <1>2 DEF Reports, RunsAtHome, InFlight
<1>4. RunsAtHome'
  BY <1>1, <1>3 DEF Reports, RunsAtHome, InFlight
<1>5. NewHasNoRuns'
  BY <1>1, <1>3 DEF Reports, NewHasNoRuns, InFlight
<1>6. TurnHasChat'
  BY <1>1 DEF Reports, TurnHasChat
<1>7. NoticesComeHome'
  <2> SUFFICES ASSUME NEW r \in Run, r \notin stranded, run[r].state = "over",
                      r \notin log[run[r].chat]
               PROVE  r \in pending[run[r].by] /\ bound'[run[r].by] = run[r].chat
    BY <1>1 DEF NoticesComeHome
  <2>1. run[r].by \in Manager /\ run[r].chat \in File
    BY DEF Reports, RunsAtHome
  <2>2. r \in pending[run[r].by] /\ bound[run[r].by] = run[r].chat
    BY DEF Reports, NoticesComeHome
  <2> QED
    BY <1>1, <1>2, <2>1, <2>2
<1> QED
  BY <1>4, <1>5, <1>6, <1>7 DEF Reports

LEMMA ReportsStartTurn ==
  ASSUME IInv, Reports, NEW m \in Manager, StartTurn(m) PROVE Reports'
<1>1. /\ UNCHANGED <<bound, step, run, pending, log, stranded>> /\ bound[m] # None
      /\ turn' = [turn EXCEPT ![m] = "running"]
  BY DEF StartTurn
<1>2. RunsAtHome' /\ NewHasNoRuns' /\ NoticesComeHome'
  BY <1>1 DEF Reports, RunsAtHome, NewHasNoRuns, NoticesComeHome, InFlight
<1>3. TurnHasChat'
  BY <1>1 DEF Reports, TurnHasChat, IInv, TypeOK
<1> QED
  BY <1>2, <1>3 DEF Reports

LEMMA ReportsSpawn ==
  ASSUME IInv, Reports, NEW m \in Manager, NEW r \in Run, Spawn(m, r) PROVE Reports'
<1>1. /\ UNCHANGED <<bound, step, turn, pending, log, stranded>>
      /\ step[m] = "idle" /\ bound[m] \in File
      /\ run'[r] = [state |-> "running", by |-> m, chat |-> bound[m]]
      /\ \A s \in Run \ {r} : run'[s] = run[s]
  BY DEF Spawn, sessions, Reports, TurnHasChat, IInv, TypeOK
<1>2. RunsAtHome'
  BY <1>1 DEF Reports, RunsAtHome
<1>3. NewHasNoRuns'
  <2> SUFFICES ASSUME NEW n \in Manager, step[n] = "activating", NEW s \in Run,
                      run'[s].state = "running", run'[s].by = n
               PROVE  FALSE
    BY <1>1 DEF NewHasNoRuns, InFlight
  <2>1. s # r
    BY <1>1
  <2> QED
    BY <1>1, <2>1 DEF Reports, NewHasNoRuns, InFlight
<1>4. TurnHasChat'
  BY <1>1 DEF Reports, TurnHasChat
<1>5. NoticesComeHome'
  BY <1>1 DEF Reports, NoticesComeHome
<1> QED
  BY <1>2, <1>3, <1>4, <1>5 DEF Reports

LEMMA ReportsSettle ==
  ASSUME IInv, Reports, NEW r \in Run, Settle(r) PROVE Reports'
<1>1. PICK m : m = run[r].by
  OBVIOUS
<1>2. /\ UNCHANGED <<bound, step, turn, stranded>> /\ run[r].state = "running"
      /\ run'[r].state = "over" /\ run'[r].by = m /\ run'[r].chat = run[r].chat
      /\ \A s \in Run \ {r} : run'[s] = run[s]
  BY <1>1 DEF Settle, sessions, IInv, TypeOK
<1>3. m \in Manager /\ run[r].chat \in File /\ bound[m] = run[r].chat
  BY <1>1, <1>2 DEF Reports, RunsAtHome
<1>4. /\ r \in log'[bound[m]] \/ r \in pending'[m]
      /\ \A f \in File : log[f] \subseteq log'[f]
      /\ \A n \in Manager : pending[n] \subseteq pending'[n]
  <2>1. /\ log \in [File -> SUBSET Run] /\ pending \in [Manager -> SUBSET Run]
        /\ bound[m] # None
    BY <1>3, SessionsAssumption DEF IInv, TypeOK
  <2>2. CASE turn[m] # "idle"
    <3>1. pending' = [pending EXCEPT ![m] = @ \cup {r}] /\ UNCHANGED log
      BY <1>1, <2>2 DEF Settle
    <3> QED
      BY <1>3, <2>1, <3>1
  <2>3. CASE turn[m] = "idle"
    <3>1. log' = [log EXCEPT ![bound[m]] = @ \cup {r}] /\ UNCHANGED pending
      BY <1>1, <2>1, <2>3 DEF Settle, Append
    <3> QED
      BY <1>3, <2>1, <3>1
  <2> QED
    BY <2>2, <2>3
<1>5. RunsAtHome'
  BY <1>2, <1>3 DEF Reports, RunsAtHome
<1>6. NewHasNoRuns'
  BY <1>2 DEF Reports, NewHasNoRuns, InFlight
<1>7. TurnHasChat'
  BY <1>2 DEF Reports, TurnHasChat
<1>8. NoticesComeHome'
  <2> SUFFICES ASSUME NEW s \in Run, s \notin stranded, run'[s].state = "over",
                      s \notin log'[run'[s].chat]
               PROVE  s \in pending'[run'[s].by] /\ bound[run'[s].by] = run'[s].chat
    BY <1>2 DEF NoticesComeHome
  <2>1. CASE s = r
    BY <1>2, <1>3, <1>4, <2>1
  <2>2. CASE s # r
    <3>1. run'[s] = run[s] /\ run[s].by \in Manager /\ run[s].chat \in File
      BY <1>2, <2>2 DEF Reports, RunsAtHome
    <3> QED
      BY <1>4, <3>1 DEF Reports, NoticesComeHome
  <2> QED
    BY <2>1, <2>2
<1> QED
  BY <1>5, <1>6, <1>7, <1>8 DEF Reports

LEMMA ReportsAgentEnds ==
  ASSUME IInv, Reports, NEW m \in Manager, AgentEnds(m) PROVE Reports'
<1>1. /\ UNCHANGED <<bound, step, run, stranded>> /\ turn[m] = "running"
      /\ turn' = [turn EXCEPT ![m] = "ending"]
  BY DEF AgentEnds, sessions
<1>2. \A n \in Manager : turn'[n] # "idle" => turn[n] # "idle"
  BY <1>1 DEF IInv, TypeOK
<1>3. CASE end[m] \in {"recorder", "unlocking", "closed"}
  <2>1. UNCHANGED <<log, pending>>
    BY <1>3 DEF AgentEnds
  <2>2. RunsAtHome' /\ NewHasNoRuns' /\ TurnHasChat' /\ NoticesComeHome'
    BY <1>1, <1>2, <2>1
    DEF Reports, RunsAtHome, NewHasNoRuns, TurnHasChat, NoticesComeHome, InFlight
  <2> QED
    BY <2>2 DEF Reports
<1>4. CASE end[m] \notin {"recorder", "unlocking", "closed"}
  <2>1. Append(pending[m], bound[m]) /\ pending' = [pending EXCEPT ![m] = {}]
    BY <1>4 DEF AgentEnds
  <2> QED
    BY <1>1, <1>2, <2>1, ReportsFlush
<1> QED
  BY <1>3, <1>4

LEMMA ReportsTurnSettles ==
  ASSUME IInv, Reports, NEW m \in Manager, TurnSettles(m) PROVE Reports'
<1>1. /\ UNCHANGED <<bound, step, run, pending, log, stranded>>
      /\ turn' = [turn EXCEPT ![m] = "idle"]
  BY DEF TurnSettles, sessions
<1>2. RunsAtHome' /\ NewHasNoRuns' /\ NoticesComeHome'
  BY <1>1 DEF Reports, RunsAtHome, NewHasNoRuns, NoticesComeHome, InFlight
<1>3. TurnHasChat'
  BY <1>1 DEF Reports, TurnHasChat, IInv, TypeOK
<1> QED
  BY <1>2, <1>3 DEF Reports

LEMMA ReportsTransition ==
  ASSUME IInv, Reports, NEW m \in Manager, Transition(m) PROVE Reports'
<1>1. CASE Leave(m)
  <2>1. /\ Invalidate(m) /\ InFlight(m) = {} /\ UNCHANGED <<run, pending, log>>
        /\ \A n \in Manager : step'[n] = "activating" => step[n] = "activating"
    BY <1>1 DEF Leave, Stopped, Go, IInv, TypeOK
  <2> QED
    BY <2>1, ReportsLeave
<1>2. CASE ActivateFails(m)
  <2>1. /\ Invalidate(m) /\ InFlight(m) = {} /\ UNCHANGED <<run, pending, log>>
        /\ \A n \in Manager : step'[n] = "activating" => step[n] = "activating"
    BY <1>2 DEF ActivateFails, Go, IInv, TypeOK, Reports, NewHasNoRuns
  <2> QED
    BY <2>1, ReportsLeave
<1>3. CASE Created(m)
  BY <1>3, ReportsCreated
<1>4. CASE Unlocked(m) \/ Lock(m) \/ LockRefused(m) \/ CreateFails(m) \/ Cleaned(m) \/ Activated(m)
  <2>1. UNCHANGED <<bound, turn, run, pending, log, stranded>>
    BY <1>4 DEF Unlocked, Lock, LockRefused, CreateFails, Cleaned, Activated, work
  <2>2. PICK v \in Step \ {"activating"} : Go(m, v)
    BY <1>4 DEF Unlocked, Lock, LockRefused, CreateFails, Cleaned, Activated, Fail, Done, Step
  <2>3. \A n \in Manager : step'[n] = "activating" => step[n] = "activating"
    BY <2>2 DEF Go, IInv, TypeOK
  <2> QED
    BY <2>1, <2>3, ReportsStep
<1> QED
  BY <1>1, <1>2, <1>3, <1>4 DEF Transition

LEMMA ReportsDisposal ==
  ASSUME IInv, Reports, NEW m \in Manager, Disposal(m) PROVE Reports'
<1>1. CASE DisposeBegins(m) \/ Disposed(m)
  <2>1. UNCHANGED <<bound, turn, run, pending, log, stranded, step>>
    BY <1>1 DEF DisposeBegins, Disposed, work
  <2> QED
    BY <2>1, ReportsStep
<1>2. CASE DisposeFlushes(m)
  BY <1>2, ReportsFlush DEF DisposeFlushes
<1>3. CASE DisposeLeaves(m)
  <2>1. Invalidate(m) /\ InFlight(m) = {} /\ UNCHANGED <<run, pending, log, step>>
    BY <1>3 DEF DisposeLeaves, IInv, StagesAgree
  <2> QED
    BY <2>1, ReportsLeave
<1> QED
  BY <1>1, <1>2, <1>3 DEF Disposal

LEMMA ReportsStart == Init => Reports
<1>1. Init => RunsAtHome /\ NoticesComeHome /\ TurnHasChat
  BY DEF Init, NotRun, RunsAtHome, NoticesComeHome, TurnHasChat
<1>2. Init => NewHasNoRuns
  BY DEF Init, NewHasNoRuns
<1> QED
  BY <1>1, <1>2 DEF Reports

LEMMA ReportsStay == IInv /\ Reports /\ [Next]_vars => Reports'
<1> SUFFICES ASSUME IInv, Reports, [Next]_vars PROVE Reports'
  OBVIOUS
<1>1. ASSUME NEW m \in Manager, NEW f \in File,
             CreateTab(m, f) \/ OpenSession(m, f) \/ Replace(m, f)
      PROVE  Reports'
  <2>1. UNCHANGED <<bound, turn, run, pending, log, stranded>>
    BY <1>1 DEF CreateTab, OpenSession, Replace, MakeManager, work
  <2>2. \A n \in Manager : step'[n] = "activating" => step[n] = "activating"
    BY <1>1 DEF CreateTab, OpenSession, Replace, MakeManager, Go, IInv, TypeOK
  <2> QED
    BY <2>1, <2>2, ReportsStep
<1>2. ASSUME NEW m \in Manager, ShowPanel(m) \/ ClosePanel(m) \/ CloseTab(m) PROVE Reports'
  BY <1>2, ReportsStep DEF ShowPanel, ClosePanel, CloseTab, sessions, work
<1>3. ASSUME NEW f \in File, Delete(f) \/ OtherWindow(f) PROVE Reports'
  BY <1>3, ReportsStep DEF Delete, OtherWindow, work
<1>4. CASE DeleteDetached \/ Unlink
  BY <1>4, ReportsStep DEF DeleteDetached, Unlink, sessions, work
<1>5. CASE UNCHANGED vars
  BY <1>5, ReportsStep DEF vars, sessions, work
<1> QED
  BY <1>1, <1>2, <1>3, <1>4, <1>5, ReportsTransition, ReportsDisposal, ReportsStartTurn,
     ReportsSpawn, ReportsSettle, ReportsAgentEnds, ReportsTurnSettles DEF Next

\* Whatever chats are opened, switched, closed and deleted meanwhile, the notice
\* of a background run gets to the chat that spawned it, or waits there, unless
\* it was waiting when the chat was left (onBackgroundSettled, flushes on
\* agent_end and in dispose).
THEOREM NoticesReachTheirChat == Spec => []NoticesComeHome
  BY Invariance, ReportsStart, ReportsStay, PTL DEF Spec, Reports

=============================================================================
