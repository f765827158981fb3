------------------------- MODULE FileHistoryProofs -------------------------
(***************************************************************************)
(* Proofs about a tab's file history, for every set of files, every number *)
(* of turns and writes, and every page size.                               *)
(***************************************************************************)
EXTENDS FileHistory, SequenceTheorems, WellFoundedInduction, TLAPS

\* Without a rollback nothing is suspended, in any of the three places that
\* keep what a restore replaced.
NothingSuspended ==
    rollback = NoPoint => /\ suspended = <<>> /\ cutMessages = <<>>
                          /\ cutChanges = {} /\ cutOriginals = <<>>

\* A restore knows its index: the message clicked is one of those on show.
Numbered == turn \in Nat /\ branch \in Seq(Nat) /\ hidden \in Nat

LEMMA PageInNat == ASSUME NEW n \in Nat PROVE ShowPage(n) \in Nat
  BY HistoryAssumption DEF ShowPage

LEMMA NumberedStep == Numbered /\ [Next]_vars => Numbered'
<1> SUFFICES ASSUME Numbered, [Next]_vars PROVE Numbered'
  OBVIOUS
<1> USE HistoryAssumption DEF Numbered
<1>1. CASE UNCHANGED vars
  BY <1>1 DEF vars, messageVars
<1>2. CASE StartTurn
  BY <1>2 DEF StartTurn
<1>3. CASE RunBegins
  BY <1>3 DEF RunBegins
<1>4. CASE PromptFails
  BY <1>4 DEF PromptFails, messageVars
<1>5. CASE Steer
  BY <1>5 DEF Steer, Steering
<1>6. CASE AgentEnds
  BY <1>6 DEF AgentEnds, messageVars
<1>7. CASE Compacts
  BY <1>7 DEF Compacts
<1>8. ASSUME NEW k \in 0..MaxResumed, LoadSession(k) PROVE Numbered'
  <2>1. k \in Nat /\ FirstTurns(k) \in Seq(Nat)
    BY DEF FirstTurns
  <2>2. QED
    BY <1>8, <2>1, PageInNat DEF LoadSession
<1>9. ASSUME NEW p \in Path, ToolStart(p) PROVE Numbered'
  BY <1>9 DEF ToolStart, messageVars
<1>10. ASSUME NEW p \in Path, UndoFile(p) PROVE Numbered'
  BY <1>10 DEF UndoFile, messageVars
<1>11. ASSUME NEW e \in pending, ToolEnd(e) PROVE Numbered'
  BY <1>11 DEF ToolEnd, messageVars
<1>12. ASSUME NEW e \in pending, ToolFails(e) PROVE Numbered'
  BY <1>12 DEF ToolFails, messageVars
<1>13. ASSUME NEW pos \in Shown, NEW unreadable \in Failing, NEW failed \in Failing,
              Restore(pos, unreadable, failed)
       PROVE  Numbered'
  BY <1>13 DEF Restore
<1>14. ASSUME NEW failed \in Failing, Redo(failed) PROVE Numbered'
  BY <1>14 DEF Redo
<1>15. CASE ShowSession
  <2>1. Len(branch) \in Nat
    OBVIOUS
  <2>2. QED
    BY <1>15, <2>1, PageInNat DEF ShowSession
<1>16. CASE LoadOlder
  BY <1>16, PageInNat DEF LoadOlder
<1>18. ASSUME NEW p \in Path, ToolUnseen(p) PROVE Numbered'
  BY <1>18 DEF ToolUnseen, Write, Stray, Fault, messageVars
<1>17. QED
  BY <1>1, <1>2, <1>3, <1>4, <1>5, <1>6, <1>7, <1>8, <1>9, <1>10, <1>11, <1>12,
     <1>13, <1>14, <1>15, <1>16, <1>18 DEF Next

\* A restore sets a rollback, whatever message is clicked.
LEMMA RestoreRollsBack ==
    ASSUME Numbered, NEW pos \in Shown, NEW unreadable, NEW failed,
           Restore(pos, unreadable, failed)
    PROVE  rollback' # NoPoint
<1>1. pos \in Nat /\ pos >= 1
  BY DEF Shown, Numbered
<1>2. rollback' = pos - 1
  BY DEF Restore, RestoreFiles, MessageIndex
<1>3. QED
  BY <1>1, <1>2 DEF NoPoint

\* Only a restore, a redo, the next turn and another session move a rollback,
\* and each of them moves all of it.
LEMMA SuspendedStep == Numbered /\ NothingSuspended /\ [Next]_vars => NothingSuspended'
<1> SUFFICES ASSUME Numbered, NothingSuspended, [Next]_vars PROVE NothingSuspended'
  OBVIOUS
<1> USE DEF NothingSuspended, checkpointVars, diffVars, messageVars
<1>1. CASE UNCHANGED vars
  BY <1>1 DEF vars
<1>2. CASE StartTurn
  BY <1>2 DEF StartTurn, DiscardSuspended
<1>3. CASE RunBegins
  BY <1>3 DEF RunBegins
<1>4. CASE PromptFails
  BY <1>4 DEF PromptFails
<1>5. CASE Steer
  BY <1>5 DEF Steer
<1>6. CASE AgentEnds
  BY <1>6 DEF AgentEnds
<1>7. CASE Compacts
  BY <1>7 DEF Compacts
<1>8. ASSUME NEW k \in 0..MaxResumed, LoadSession(k) PROVE NothingSuspended'
  BY <1>8 DEF LoadSession
<1>9. ASSUME NEW p \in Path, ToolStart(p) PROVE NothingSuspended'
  BY <1>9 DEF ToolStart
<1>10. ASSUME NEW p \in Path, UndoFile(p) PROVE NothingSuspended'
  BY <1>10 DEF UndoFile
<1>11. ASSUME NEW e \in pending, ToolEnd(e) PROVE NothingSuspended'
  BY <1>11 DEF ToolEnd
<1>12. ASSUME NEW e \in pending, ToolFails(e) PROVE NothingSuspended'
  BY <1>12 DEF ToolFails
<1>13. ASSUME NEW pos \in Shown, NEW unreadable \in Failing, NEW failed \in Failing,
              Restore(pos, unreadable, failed)
       PROVE  NothingSuspended'
  BY <1>13, RestoreRollsBack
<1>14. ASSUME NEW failed \in Failing, Redo(failed) PROVE NothingSuspended'
  BY <1>14 DEF Redo
<1>15. CASE ShowSession
  BY <1>15 DEF ShowSession
<1>16. CASE LoadOlder
  BY <1>16 DEF LoadOlder
<1>18. ASSUME NEW p \in Path, ToolUnseen(p) PROVE NothingSuspended'
  BY <1>18 DEF ToolUnseen
<1>17. QED
  BY <1>1, <1>2, <1>3, <1>4, <1>5, <1>6, <1>7, <1>8, <1>9, <1>10, <1>11, <1>12,
     <1>13, <1>14, <1>15, <1>16, <1>18 DEF Next

\* A prompt has abandoned every rollback made before it; only a direct one lets
\* a restore slip in while it is prepared.
Abandoned ==
    /\ activity # "idle" /\ rollback # NoPoint => rolledAt = turn
    /\ activity = "dequeued" => rollback = NoPoint

LEMMA AbandonedStep == Abandoned /\ [Next]_vars => Abandoned'
<1> SUFFICES ASSUME Abandoned, [Next]_vars PROVE Abandoned'
  OBVIOUS
<1> USE DEF Abandoned, checkpointVars, historyVars
<1>1. CASE UNCHANGED vars
  BY <1>1 DEF vars
<1>2. CASE StartTurn
  BY <1>2 DEF StartTurn, DiscardSuspended
<1>3. CASE RunBegins
  BY <1>3 DEF RunBegins, Preparing
<1>4. CASE PromptFails
  BY <1>4 DEF PromptFails
<1>5. CASE Steer
  BY <1>5 DEF Steer
<1>6. CASE AgentEnds
  BY <1>6 DEF AgentEnds
<1>7. CASE Compacts
  BY <1>7 DEF Compacts
<1>8. ASSUME NEW k \in 0..MaxResumed, LoadSession(k) PROVE Abandoned'
  BY <1>8 DEF LoadSession
<1>9. ASSUME NEW p \in Path, ToolStart(p) \/ ToolUnseen(p) PROVE Abandoned'
  BY <1>9 DEF ToolStart, ToolUnseen
<1>10. ASSUME NEW p \in Path, UndoFile(p) PROVE Abandoned'
  BY <1>10 DEF UndoFile
<1>11. ASSUME NEW e \in pending, ToolEnd(e) PROVE Abandoned'
  BY <1>11 DEF ToolEnd
<1>12. ASSUME NEW e \in pending, ToolFails(e) PROVE Abandoned'
  BY <1>12 DEF ToolFails
<1>13. ASSUME NEW pos \in Shown, NEW unreadable \in Failing, NEW failed \in Failing,
              Restore(pos, unreadable, failed)
       PROVE  Abandoned'
  BY <1>13 DEF Restore, RestoreFiles, FileHistoryIdle
<1>14. ASSUME NEW failed \in Failing, Redo(failed) PROVE Abandoned'
  BY <1>14 DEF Redo
<1>15. CASE ShowSession
  BY <1>15 DEF ShowSession
<1>16. CASE LoadOlder
  BY <1>16 DEF LoadOlder
<1>17. QED
  BY <1>1, <1>2, <1>3, <1>4, <1>5, <1>6, <1>7, <1>8, <1>9, <1>10, <1>11, <1>12,
     <1>13, <1>14, <1>15, <1>16 DEF Next

LEMMA RollbackInit == Init => Numbered /\ NothingSuspended /\ Abandoned
<1> SUFFICES ASSUME Init PROVE Numbered /\ NothingSuspended /\ Abandoned
  OBVIOUS
<1>1. PICK k \in 0..MaxResumed : /\ turn = k /\ hidden = ShowPage(k)
                                 /\ branch = FirstTurns(k) /\ context = FirstTurns(k)
  BY DEF Init
<1>2. k \in Nat
  BY HistoryAssumption
<1>3. Numbered
  BY <1>1, <1>2, PageInNat DEF Numbered, FirstTurns
<1>4. NothingSuspended /\ Abandoned
  BY DEF Init, NothingSuspended, Abandoned
<1> QED
  BY <1>3, <1>4

\* A prompt abandons every rollback made before it, in all of the three places;
\* one that is in effect during a run was made while its direct prompt was
\* prepared (assertFileHistoryIdle, dispatchDirectPrompt, dispatchNextQueued).
THEOREM RollbackWhole == Spec => []RollbackIsWhole
<1> DEFINE Inv == Numbered /\ NothingSuspended /\ Abandoned
<1>1. Init => Inv
  BY RollbackInit
<1>2. Inv /\ [Next]_vars => Inv'
  BY NumberedStep, SuspendedStep, AbandonedStep
<1>3. Inv => RollbackIsWhole
  BY DEF RollbackIsWhole, NothingSuspended, Abandoned
<1> HIDE DEF Inv
<1> QED
  BY <1>1, <1>2, <1>3, PTL DEF Spec
----------------------------------------------------------------------------
\* Baselines exist for what is listed, for the edits whose tool still runs, and,
\* among the suspended or the current ones, for the changes a redo would list;
\* but for the files undone by hand during a rollback.
PathsOf(cs) == {c.path : c \in cs}
Baselined ==
    /\ PathsOf(changes) \subseteq DOMAIN originals \cup bare
    /\ PathsOf(pending) \subseteq DOMAIN originals
    /\ PathsOf(cutChanges) \subseteq DOMAIN originals \cup DOMAIN cutOriginals \cup bare
    /\ DOMAIN originals \subseteq Path
    /\ activity # "running" => pending = {}

LEMMA MergeDomain ==
    ASSUME NEW f, NEW g PROVE DOMAIN Merge(f, g) = DOMAIN f \cup DOMAIN g
  BY DEF Merge

LEMMA OnlyDomain ==
    ASSUME NEW f, NEW S PROVE DOMAIN Only(f, S) = DOMAIN f \cap S
  BY DEF Only

\* Undo by hand drops a file's baseline with its listed changes; if a rollback
\* keeps others, the file is marked.
LEMMA UndoBaselined ==
    ASSUME Baselined, NEW p \in Path, UndoFile(p)
    PROVE  Baselined'
<1>1. UNCHANGED <<cutChanges, cutOriginals, pending, activity>>
      /\ changes' = {c \in changes : c.path # p}
      /\ bare \subseteq bare' /\ (p \in PathsOf(cutChanges) => p \in bare')
  BY DEF UndoFile, PathsOf
<1>2. DOMAIN originals' = DOMAIN originals \ {p}
  <2> DEFINE rest == Path \ {p}
  <2>1. originals' = Only(originals, rest)
    BY DEF UndoFile
  <2>2. DOMAIN originals \cap rest = DOMAIN originals \ {p}
    BY DEF Baselined
  <2> HIDE DEF rest
  <2>3. QED
    BY <2>1, <2>2, OnlyDomain
<1>3. PathsOf(changes') \subseteq DOMAIN originals' \cup bare'
  BY <1>1, <1>2 DEF Baselined, PathsOf
<1>4. PathsOf(cutChanges) \subseteq DOMAIN originals' \cup DOMAIN cutOriginals \cup bare'
  BY <1>1, <1>2 DEF Baselined
<1>5. pending = {}
  BY DEF UndoFile, Baselined, FileHistoryIdle
<1>6. QED
  BY <1>1, <1>2, <1>3, <1>4, <1>5 DEF Baselined, PathsOf

\* A restore cuts a baseline only with all the changes of its file, and keeps it
\* beside them.
LEMMA RestoreBaselined ==
    ASSUME Baselined, NEW pos, NEW unreadable, NEW failed,
           Restore(pos, unreadable, failed)
    PROVE  Baselined'
<1> DEFINE index == MessageIndex(pos)
           kept == {c \in changes : c.turn <= index}
           keptPaths == {c.path : c \in kept}
<1>1. /\ cutChanges' = changes \ kept /\ changes' = kept /\ bare' = bare
      /\ originals' = Only(originals, keptPaths)
      /\ cutOriginals' = Merge(cutOriginals, Only(originals, Path \ keptPaths))
  BY DEF Restore, SuspendChangesAfter
<1>2. pending' = {}
  BY DEF Restore, Baselined, FileHistoryIdle
<1>3. keptPaths \subseteq PathsOf(changes)
  BY DEF PathsOf
<1> HIDE DEF index
<1>4. DOMAIN originals' = DOMAIN originals \cap keptPaths
  BY <1>1, OnlyDomain
<1>5. DOMAIN cutOriginals' = DOMAIN cutOriginals \cup (DOMAIN originals \cap (Path \ keptPaths))
  <2> DEFINE rest == Path \ keptPaths
             cut == Only(originals, rest)
  <2>1. DOMAIN cut = DOMAIN originals \cap rest
    BY OnlyDomain
  <2> HIDE DEF cut
  <2>2. DOMAIN Merge(cutOriginals, cut) = DOMAIN cutOriginals \cup DOMAIN cut
    BY MergeDomain
  <2>3. QED
    BY <1>1, <2>1, <2>2 DEF cut
<1>6. PathsOf(changes') \subseteq DOMAIN originals' \cup bare'
  BY <1>1, <1>3, <1>4 DEF Baselined, PathsOf
<1>7. PathsOf(cutChanges') \subseteq PathsOf(changes)
  BY <1>1 DEF PathsOf
<1> HIDE DEF kept, keptPaths
<1>8. PathsOf(cutChanges') \subseteq DOMAIN originals' \cup DOMAIN cutOriginals' \cup bare'
  BY <1>1, <1>4, <1>5, <1>7 DEF Baselined
<1>9. QED
  <2>1. DOMAIN originals' \subseteq Path
    BY <1>4 DEF Baselined
  <2>2. PathsOf(pending') = {}
    BY <1>2 DEF PathsOf
  <2>3. QED
    BY <1>2, <1>6, <1>8, <2>1, <2>2 DEF Baselined

\* A redo lists the suspended changes again, and brings their baselines back.
LEMMA RedoBaselined ==
    ASSUME Baselined, DOMAIN cutOriginals \subseteq Path, NEW failed, Redo(failed)
    PROVE  Baselined'
<1>1. DOMAIN originals' = DOMAIN originals \cup DOMAIN cutOriginals
  <2>1. originals' = Merge(cutOriginals, originals)
    BY DEF Redo, RedoOriginals
  <2>2. DOMAIN Merge(cutOriginals, originals) = DOMAIN cutOriginals \cup DOMAIN originals
    BY MergeDomain
  <2>3. QED
    BY <2>1, <2>2
<1>2. PathsOf(changes') = PathsOf(changes) \cup PathsOf(cutChanges)
  BY DEF Redo, PathsOf
<1>3. cutChanges' = {} /\ pending' = {} /\ bare' = bare
  BY DEF Redo, Baselined, FileHistoryIdle
<1>4. QED
  BY <1>1, <1>2, <1>3 DEF Baselined, PathsOf

\* Suspended baselines are of files too.
CutOriginalsType == DOMAIN cutOriginals \subseteq Path

LEMMA CutOriginalsStep ==
    ASSUME CutOriginalsType, DOMAIN originals \subseteq Path, [Next]_vars
    PROVE  CutOriginalsType'
<1> USE DEF CutOriginalsType, diffVars
<1>1. CASE UNCHANGED vars
  BY <1>1 DEF vars
<1>2. CASE StartTurn
  BY <1>2 DEF StartTurn, DiscardSuspended
<1>3. CASE RunBegins \/ PromptFails \/ Steer \/ AgentEnds \/ Compacts
  BY <1>3 DEF RunBegins, PromptFails, Steer, AgentEnds, Compacts
<1>4. ASSUME NEW k \in 0..MaxResumed, LoadSession(k) PROVE CutOriginalsType'
  BY <1>4 DEF LoadSession
<1>5. ASSUME NEW p \in Path, ToolStart(p) \/ ToolUnseen(p) \/ UndoFile(p) PROVE CutOriginalsType'
  BY <1>5 DEF ToolStart, ToolUnseen, UndoFile
<1>6. ASSUME NEW e \in pending, ToolEnd(e) \/ ToolFails(e) PROVE CutOriginalsType'
  BY <1>6 DEF ToolEnd, ToolFails
<1>7. ASSUME NEW pos \in Shown, NEW unreadable \in Failing, NEW failed \in Failing,
             Restore(pos, unreadable, failed)
      PROVE  CutOriginalsType'
  <2>1. PICK keptPaths :
            cutOriginals' = Merge(cutOriginals, Only(originals, Path \ keptPaths))
    BY <1>7 DEF Restore, SuspendChangesAfter
  <2> DEFINE rest == Path \ keptPaths
             cut == Only(originals, rest)
  <2>2. DOMAIN cut = DOMAIN originals \cap rest
    BY OnlyDomain
  <2>3. cutOriginals' = Merge(cutOriginals, cut)
    BY <2>1
  <2> HIDE DEF cut
  <2>4. DOMAIN cutOriginals' = DOMAIN cutOriginals \cup DOMAIN cut
    BY <2>3, MergeDomain
  <2>5. QED
    BY <2>2, <2>4
<1>8. ASSUME NEW failed \in Failing, Redo(failed) PROVE CutOriginalsType'
  BY <1>8 DEF Redo
<1>9. CASE ShowSession \/ LoadOlder
  BY <1>9 DEF ShowSession, LoadOlder
<1>10. QED
  BY <1>1, <1>2, <1>3, <1>4, <1>5, <1>6, <1>7, <1>8, <1>9 DEF Next

LEMMA BaselinedStep ==
    ASSUME CutOriginalsType, Baselined, [Next]_vars
    PROVE  Baselined'
<1>1. CASE UNCHANGED vars
  BY <1>1 DEF vars, diffVars, historyVars, Baselined, PathsOf
<1>2. CASE StartTurn
  <2>1. cutChanges' \subseteq cutChanges /\ pending = {} /\ pending' = {}
        /\ originals' = originals /\ changes' = changes /\ bare' = bare
        /\ (cutOriginals' = cutOriginals \/ cutChanges' = {})
    BY <1>2 DEF StartTurn, DiscardSuspended, Baselined
  <2>2. QED
    BY <2>1 DEF Baselined, PathsOf
<1>3. CASE RunBegins \/ PromptFails \/ Steer \/ AgentEnds \/ Compacts
  <2>1. UNCHANGED <<diffVars, bare>>
        /\ (activity' # "running" => activity # "running" \/ pending = {})
    BY <1>3 DEF RunBegins, PromptFails, Steer, AgentEnds, Compacts, Preparing, historyVars
  <2>2. QED
    BY <2>1 DEF Baselined, PathsOf, diffVars
<1>4. ASSUME NEW k \in 0..MaxResumed, LoadSession(k) PROVE Baselined'
  BY <1>4 DEF LoadSession, Baselined, PathsOf
<1>5. ASSUME NEW p \in Path, ToolStart(p) PROVE Baselined'
  <2>1. DOMAIN originals' = DOMAIN originals \cup {p}
    <3> DEFINE captured == [q \in {p} |-> disk[p]]
    <3>1. originals' = Merge(captured, originals)
      BY <1>5 DEF ToolStart, captureOriginal
    <3>2. DOMAIN captured = {p}
      OBVIOUS
    <3> HIDE DEF captured
    <3>3. DOMAIN Merge(captured, originals) = DOMAIN captured \cup DOMAIN originals
      BY MergeDomain
    <3>4. QED
      BY <3>1, <3>2, <3>3
  <2>2. PathsOf(pending') \subseteq PathsOf(pending) \cup {p}
    <3> DEFINE e == [path |-> p, turn |-> currentTurn]
    <3>1. pending' = pending \cup {e}
      BY <1>5 DEF ToolStart
    <3>2. e.path = p
      OBVIOUS
    <3> HIDE DEF e
    <3>3. QED
      BY <3>1, <3>2 DEF PathsOf
  <2>3. UNCHANGED <<changes, cutChanges, cutOriginals, activity>> /\ activity = "running"
        /\ bare \subseteq bare' \cup {p}
    BY <1>5 DEF ToolStart
  <2>4. PathsOf(pending)' = PathsOf(pending') /\ PathsOf(changes)' = PathsOf(changes)
        /\ PathsOf(cutChanges)' = PathsOf(cutChanges)
    BY <2>3 DEF PathsOf
  <2>5. QED
    BY <2>1, <2>2, <2>3, <2>4 DEF Baselined
<1>6. ASSUME NEW p \in Path, UndoFile(p) PROVE Baselined'
  BY <1>6, UndoBaselined
<1>7. ASSUME NEW e \in pending, ToolEnd(e) PROVE Baselined'
  <2>1. /\ PathsOf(changes') \subseteq PathsOf(changes) \cup PathsOf(pending)
        /\ PathsOf(pending') \subseteq PathsOf(pending)
        /\ pending # {}
    BY <1>7 DEF ToolEnd, PathsOf
  <2>2. UNCHANGED <<originals, cutChanges, cutOriginals, activity, bare>>
    BY <1>7 DEF ToolEnd
  <2>3. QED
    BY <2>1, <2>2 DEF Baselined, PathsOf
<1>8. ASSUME NEW e \in pending, ToolFails(e) PROVE Baselined'
  <2>1. PathsOf(pending') \subseteq PathsOf(pending) /\ pending # {}
    BY <1>8 DEF ToolFails, PathsOf
  <2>2. UNCHANGED <<changes, originals, cutChanges, cutOriginals, activity, bare>>
    BY <1>8 DEF ToolFails, historyVars
  <2>3. QED
    BY <2>1, <2>2 DEF Baselined, PathsOf
<1>9. ASSUME NEW pos \in Shown, NEW unreadable \in Failing, NEW failed \in Failing,
             Restore(pos, unreadable, failed)
      PROVE  Baselined'
  BY <1>9, RestoreBaselined
<1>10. ASSUME NEW failed \in Failing, Redo(failed) PROVE Baselined'
  BY <1>10, RedoBaselined DEF CutOriginalsType
<1>11. CASE ShowSession \/ LoadOlder
  <2>1. UNCHANGED <<diffVars, activity, bare>>
    BY <1>11 DEF ShowSession, LoadOlder, historyVars
  <2>2. QED
    BY <2>1 DEF Baselined, PathsOf, diffVars
<1>12. ASSUME NEW p \in Path, ToolUnseen(p) PROVE Baselined'
  <2>1. UNCHANGED <<diffVars, activity, bare>>
    BY <1>12 DEF ToolUnseen
  <2>2. QED
    BY <2>1 DEF Baselined, PathsOf, diffVars
<1>13. QED
  BY <1>1, <1>2, <1>3, <1>4, <1>5, <1>6, <1>7, <1>8, <1>9, <1>10, <1>11, <1>12 DEF Next

\* Every listed change can be undone, after any sequence of edits, restores, undos
\* and redos, but for a file undone by hand while a rollback kept changes of it
\* (DiffManager.undoFileChange drops the baseline those need).
THEOREM BaselinesKept == Spec => []ChangesHaveBaselines
<1> DEFINE Inv == CutOriginalsType /\ Baselined
<1>1. Init => Inv
  BY DEF Init, CutOriginalsType, Baselined, PathsOf
<1>2. Inv /\ [Next]_vars => Inv'
  <2>1. Inv => DOMAIN originals \subseteq Path
    BY DEF Baselined
  <2>2. QED
    BY <2>1, CutOriginalsStep, BaselinedStep
<1>3. Inv => ChangesHaveBaselines
  BY DEF ChangesHaveBaselines, Baselined, PathsOf
<1> HIDE DEF Inv
<1> QED
  BY <1>1, <1>2, <1>3, PTL DEF Spec
----------------------------------------------------------------------------
(***************************************************************************)
(* Partial functions, and the first and last of a set of turns.            *)
(***************************************************************************)
LEMMA MergeAt ==
    ASSUME NEW f, NEW g, NEW x \in DOMAIN f \cup DOMAIN g
    PROVE  Merge(f, g)[x] = IF x \in DOMAIN g THEN g[x] ELSE f[x]
  BY DEF Merge

LEMMA OnlyAt ==
    ASSUME NEW f, NEW S, NEW x \in DOMAIN f \cap S
    PROVE  Only(f, S)[x] = f[x]
  BY DEF Only

LEMMA LeastIn ==
    ASSUME NEW S, S \subseteq Nat, S # {}
    PROVE  Least(S) \in S /\ \A m \in S : Least(S) <= m
<1> DEFINE R == OpToRel(<, Nat)
<1>1. PICK n \in S : \A m \in S : ~ (<<m, n>> \in R)
  <2> HIDE DEF R
  <2>1. IsWellFoundedOn(R, Nat)
    BY NatLessThanWellFounded DEF R
  <2> QED
    BY <2>1, WFMin
<1>2. ASSUME NEW m \in S PROVE n <= m
  <2>1. <<m, n>> \in Nat \X Nat /\ <<m, n>>[1] = m /\ <<m, n>>[2] = n
    OBVIOUS
  <2>2. ~ (m < n)
    BY <1>1, <2>1 DEF OpToRel
  <2> QED
    BY <2>2
<1> QED
  BY <1>2 DEF Least

LEMMA LeastIs ==
    ASSUME NEW S, S \subseteq Nat, NEW n \in S, \A m \in S : n <= m
    PROVE  Least(S) = n
<1>1. Least(S) \in S /\ Least(S) <= n
  BY LeastIn
<1>2. n <= Least(S)
  BY <1>1
<1>3. n \in Nat /\ Least(S) \in Nat
  BY <1>1
<1> QED
  BY <1>1, <1>2, <1>3

LEMMA GreatestIn ==
    ASSUME NEW n \in Nat, NEW S, S \subseteq 0..n, S # {}
    PROVE  Greatest(S) \in S /\ \A m \in S : m <= Greatest(S)
<1> DEFINE D == {n - m : m \in S}
<1>1. D \subseteq Nat /\ D # {}
  <2>1. ASSUME NEW m \in S PROVE n - m \in Nat
    <3>1. m \in 0..n
      OBVIOUS
    <3> QED
      BY <3>1
  <2> QED
    BY <2>1
<1> HIDE DEF D
<1>2. Least(D) \in D /\ \A d \in D : Least(D) <= d
  BY <1>1, LeastIn
<1>3. PICK k \in S : Least(D) = n - k
  BY <1>2 DEF D
<1>4. ASSUME NEW m \in S PROVE m <= k
  <2>1. n - m \in D
    BY DEF D
  <2>2. n - k <= n - m
    BY <1>2, <1>3, <2>1
  <2> QED
    BY <2>2
<1> QED
  BY <1>4 DEF Greatest

LEMMA GreatestIs ==
    ASSUME NEW S, S \subseteq Nat, NEW n \in S, \A m \in S : m <= n
    PROVE  Greatest(S) = n
<1>1. n \in Nat /\ S \subseteq 0..n
  OBVIOUS
<1>2. Greatest(S) \in S /\ n <= Greatest(S)
  BY <1>1, GreatestIn
<1>3. Greatest(S) \in Nat /\ Greatest(S) <= n
  BY <1>2
<1> QED
  BY <1>1, <1>2, <1>3

----------------------------------------------------------------------------
(***************************************************************************)
(* Type correctness.                                                       *)
(***************************************************************************)

\* The contents of some files.
Snapshot(f) == DOMAIN f \subseteq Path /\ \A p \in DOMAIN f : f[p] \in Content

FilesTyped ==
    /\ disk \in [Path -> Content] /\ writes \in Content
    /\ activity \in {"idle", "preparing", "dequeued", "running"}
    /\ turn \in Nat /\ currentTurn \in 0..turn
    /\ activity # "idle" => currentTurn # 0
    /\ astray \in [Path -> 0..turn] /\ bare \subseteq Path /\ rolledAt \in 0..turn
CheckpointsTyped ==
    /\ DOMAIN checkpoints \subseteq 1..turn
    /\ \A t \in DOMAIN checkpoints : Snapshot(checkpoints[t])
    /\ DOMAIN suspended \subseteq (1..turn) \ DOMAIN checkpoints
    /\ \A t \in DOMAIN suspended :
         /\ Snapshot(suspended[t].before) /\ Snapshot(suspended[t].after)
         /\ DOMAIN suspended[t].after \subseteq DOMAIN suspended[t].before
    /\ rollback \in Nat \cup {NoPoint}
ChangesTyped ==
    /\ changes \cup cutChanges \cup pending \subseteq [path : Path, turn : 1..turn]
    /\ Snapshot(originals) /\ Snapshot(cutOriginals)
MessagesTyped ==
    /\ branch \in Seq(0..turn) /\ context \in Seq(0..turn) /\ cutMessages \in Seq(0..turn)
    /\ hidden \in 0..Len(branch)
Typed == FilesTyped /\ CheckpointsTyped /\ ChangesTyped /\ MessagesTyped

LEMMA TypedIsTyped == Typed => TypeOK
<1> SUFFICES ASSUME Typed PROVE TypeOK
  OBVIOUS
<1>1. \A t \in DOMAIN checkpoints :
         DOMAIN checkpoints[t] \subseteq Path /\ ToSet(checkpoints[t]) \subseteq Content
  BY DEF Typed, CheckpointsTyped, Snapshot, ToSet
<1> QED
  BY <1>1 DEF Typed, FilesTyped, CheckpointsTyped, ChangesTyped, MessagesTyped, Snapshot, TypeOK

LEMMA SnapshotMerge ==
    ASSUME NEW f, NEW g, Snapshot(f), Snapshot(g)
    PROVE  Snapshot(Merge(f, g))
<1>1. DOMAIN Merge(f, g) = DOMAIN f \cup DOMAIN g
  BY MergeDomain
<1>2. ASSUME NEW p \in DOMAIN Merge(f, g)
      PROVE  p \in Path /\ Merge(f, g)[p] \in Content
  <2>1. p \in DOMAIN f \cup DOMAIN g
    BY <1>1, <1>2
  <2>2. Merge(f, g)[p] = IF p \in DOMAIN g THEN g[p] ELSE f[p]
    BY <2>1, MergeAt
  <2> QED
    BY <2>1, <2>2 DEF Snapshot
<1> QED
  BY <1>2 DEF Snapshot

LEMMA SnapshotOnly ==
    ASSUME NEW f, NEW S, Snapshot(f)
    PROVE  Snapshot(Only(f, S))
<1>1. DOMAIN Only(f, S) = DOMAIN f \cap S
  BY OnlyDomain
<1>2. ASSUME NEW p \in DOMAIN Only(f, S)
      PROVE  p \in Path /\ Only(f, S)[p] \in Content
  <2>1. p \in DOMAIN f \cap S
    BY <1>1, <1>2
  <2>2. Only(f, S)[p] = f[p]
    BY <2>1, OnlyAt
  <2> QED
    BY <2>1, <2>2 DEF Snapshot
<1> QED
  BY <1>2 DEF Snapshot

LEMMA SnapshotOne ==
    ASSUME NEW p \in Path, NEW v \in Content
    PROVE  Snapshot([q \in {p} |-> v])
  BY DEF Snapshot

LEMMA SnapshotNone == Snapshot(<<>>)
  BY DEF Snapshot

LEMMA WrittenOver ==
    ASSUME NEW f \in [Path -> Content], NEW g, Snapshot(g)
    PROVE  Merge(f, g) \in [Path -> Content]
  BY DEF Merge, Snapshot

\* A later turn is a wider range of turns.
LEMMA WiderSeq ==
    ASSUME NEW n \in Nat, NEW k \in Nat, n <= k, NEW s \in Seq(0..n)
    PROVE  s \in Seq(0..k)
<1>1. Len(s) \in Nat /\ DOMAIN s = 1..Len(s)
  BY LenProperties
<1>2. s \in [1..Len(s) -> 0..n]
  BY LenProperties
<1>3. 0..n \subseteq 0..k
  OBVIOUS
<1>4. s \in [1..Len(s) -> 0..k]
  BY <1>2, <1>3
<1> QED
  BY <1>1, <1>4, SeqDef

LEMMA PartOfSeq ==
    ASSUME NEW S, NEW s \in Seq(S), NEW i \in Nat, i <= Len(s)
    PROVE  /\ SubSeq(s, 1, i) \in Seq(S) /\ SubSeq(s, i + 1, Len(s)) \in Seq(S)
           /\ SubSeq(s, 1, i) \o SubSeq(s, i + 1, Len(s)) = s
<1>1. Len(s) \in Nat /\ \A k \in 1..Len(s) : s[k] \in S
  BY LenProperties, ElementOfSeq
<1>2. \A k \in 1..i : k \in 1..Len(s)
  BY <1>1
<1>3. \A k \in (i + 1)..Len(s) : k \in 1..Len(s)
  BY <1>1
<1> DEFINE a == SubSeq(s, 1, i)
           b == SubSeq(s, i + 1, Len(s))
<1>4. a \in Seq(S) /\ Len(a) = i /\ \A k \in 1..i : a[k] = s[k]
  <2>1. \A k \in 1..i : s[k] \in S
    BY <1>1, <1>2
  <2> QED
    BY <2>1, <1>1, SubSeqProperties
<1>5. b \in Seq(S) /\ Len(b) = Len(s) - i /\ \A k \in 1..(Len(s) - i) : b[k] = s[i + k]
  <2>1. \A k \in (i + 1)..Len(s) : s[k] \in S
    BY <1>1, <1>3
  <2> QED
    BY <2>1, <1>1, SubSeqProperties
<1> HIDE DEF a, b
<1>6. a \o b = s
  <2>1. a \o b \in Seq(S) /\ Len(a \o b) = Len(s)
    BY <1>1, <1>4, <1>5, ConcatProperties
  <2>2. ASSUME NEW k \in 1..Len(s) PROVE (a \o b)[k] = s[k]
    <3>1. CASE k <= i
      BY <3>1, <1>1, <1>4, <1>5, ConcatProperties
    <3>2. CASE ~(k <= i)
      <4>1. k - i \in 1..(Len(s) - i) /\ i + (k - i) = k
        BY <3>2, <1>1
      <4> QED
        <5>1. (a \o b)[k] = b[k - i]
          BY <3>2, <1>1, <1>4, <1>5, ConcatProperties
        <5>2. b[k - i] = s[i + (k - i)]
          BY <4>1, <1>5
        <5> QED
          BY <4>1, <5>1, <5>2
    <3> QED
      BY <3>1, <3>2
  <2> QED
    BY <2>1, <2>2, SeqEqual
<1> QED
  BY <1>4, <1>5, <1>6 DEF a, b

LEMMA PageIn == ASSUME NEW n \in Nat PROVE ShowPage(n) \in 0..n
  BY HistoryAssumption DEF ShowPage

LEMMA TurnsTyped ==
    ASSUME NEW k \in Nat
    PROVE  FirstTurns(k) \in Seq(0..k) /\ Len(FirstTurns(k)) = k
<1>1. FirstTurns(k) \in [1..k -> 0..k]
  BY DEF FirstTurns
<1>2. FirstTurns(k) \in Seq(0..k)
  BY <1>1, SeqDef
<1> QED
  BY <1>2, LenProperties DEF FirstTurns

\* What the files are returned to, and what a redo brings back.
LEMMA FilesBeforeTyped ==
    ASSUME Typed, NEW turns, turns \subseteq DOMAIN checkpoints
    PROVE  /\ Snapshot(FilesBefore(turns))
           /\ DOMAIN FilesBefore(turns) = UNION {DOMAIN checkpoints[t] : t \in turns}
<1>1. DOMAIN FilesBefore(turns) = UNION {DOMAIN checkpoints[t] : t \in turns}
  BY DEF FilesBefore
<1>2. ASSUME NEW p \in DOMAIN FilesBefore(turns)
      PROVE  p \in Path /\ FilesBefore(turns)[p] \in Content
  <2> DEFINE S == {t \in turns : p \in DOMAIN checkpoints[t]}
  <2>1. S # {} /\ S \subseteq Nat /\ S \subseteq DOMAIN checkpoints
    BY <1>1, <1>2 DEF Typed, CheckpointsTyped
  <2>2. FilesBefore(turns)[p] = checkpoints[Least(S)][p]
    BY <1>1, <1>2 DEF FilesBefore
  <2> HIDE DEF S
  <2>3. Least(S) \in S
    BY <2>1, LeastIn
  <2>4. Least(S) \in DOMAIN checkpoints /\ p \in DOMAIN checkpoints[Least(S)]
    BY <2>1, <2>3 DEF S
  <2> QED
    BY <2>2, <2>4 DEF Typed, CheckpointsTyped, Snapshot
<1> QED
  BY <1>1, <1>2 DEF Snapshot

LEMMA FilesAfterTyped ==
    ASSUME Typed
    PROVE  /\ Snapshot(FilesAfter)
           /\ DOMAIN FilesAfter = UNION {DOMAIN suspended[t].after : t \in DOMAIN suspended}
<1>1. DOMAIN FilesAfter = UNION {DOMAIN suspended[t].after : t \in DOMAIN suspended}
  BY DEF FilesAfter
<1>2. ASSUME NEW p \in DOMAIN FilesAfter
      PROVE  p \in Path /\ FilesAfter[p] \in Content
  <2> DEFINE S == {t \in DOMAIN suspended : p \in DOMAIN suspended[t].after}
  <2>1. S # {} /\ S \subseteq 0..turn /\ turn \in Nat /\ S \subseteq DOMAIN suspended
    BY <1>1, <1>2 DEF Typed, FilesTyped, CheckpointsTyped
  <2>2. FilesAfter[p] = suspended[Greatest(S)].after[p]
    BY <1>1, <1>2 DEF FilesAfter
  <2> HIDE DEF S
  <2>3. Greatest(S) \in S
    BY <2>1, GreatestIn
  <2>4. Greatest(S) \in DOMAIN suspended /\ p \in DOMAIN suspended[Greatest(S)].after
    BY <2>1, <2>3 DEF S
  <2> QED
    BY <2>2, <2>4 DEF Typed, CheckpointsTyped, Snapshot
<1> QED
  BY <1>1, <1>2 DEF Snapshot

LEMMA TypedStart == Init => Typed
<1> SUFFICES ASSUME Init PROVE Typed
  OBVIOUS
<1>1. PICK k \in 0..MaxResumed : /\ turn = k /\ hidden = ShowPage(k)
                                 /\ branch = FirstTurns(k) /\ context = FirstTurns(k)
  BY DEF Init
<1>2. k \in Nat
  BY HistoryAssumption
<1>3. FilesTyped
  <2>1. {Absent, 1} \subseteq Content /\ 1 \in Content
    BY HistoryAssumption DEF Absent, Content
  <2>2. disk \in [Path -> Content]
    BY <2>1 DEF Init
  <2> QED
    BY <1>1, <1>2, <2>1, <2>2 DEF Init, FilesTyped
<1>4. CheckpointsTyped
  BY DEF Init, CheckpointsTyped
<1>5. ChangesTyped
  BY SnapshotNone DEF Init, ChangesTyped
<1>6. MessagesTyped
  BY <1>1, <1>2, PageIn, TurnsTyped DEF Init, MessagesTyped
<1> QED
  BY <1>3, <1>4, <1>5, <1>6 DEF Typed

LEMMA TypedLoadSession ==
    ASSUME Typed, NEW k \in 0..MaxResumed, LoadSession(k)
    PROVE  Typed'
<1>1. k \in Nat /\ turn' = k /\ hidden' = ShowPage(k)
  BY HistoryAssumption DEF LoadSession
<1>2. FilesTyped'
  BY <1>1 DEF LoadSession, Typed, FilesTyped
<1>3. CheckpointsTyped'
  BY DEF LoadSession, CheckpointsTyped
<1>4. ChangesTyped'
  BY SnapshotNone DEF LoadSession, ChangesTyped, Snapshot
<1>5. MessagesTyped'
  BY <1>1, PageIn, TurnsTyped DEF LoadSession, MessagesTyped
<1> QED
  BY <1>2, <1>3, <1>4, <1>5 DEF Typed

LEMMA TypedStartTurn ==
    ASSUME Typed, StartTurn
    PROVE  Typed'
<1>1. turn \in Nat /\ turn' = turn + 1 /\ currentTurn' = turn + 1 /\ activity' \in {"preparing", "dequeued"}
      /\ UNCHANGED <<disk, writes, changes, originals, pending, branch, context, hidden, astray>>
      /\ UNCHANGED <<bare, rolledAt>>
      /\ checkpoints' = Merge([t \in {turn + 1} |-> <<>>], checkpoints)
  BY DEF StartTurn, Typed, FilesTyped
<1>2. /\ suspended' = suspended \/ suspended' = <<>>
      /\ rollback' = rollback \/ rollback' = NoPoint
      /\ cutChanges' = cutChanges \/ cutChanges' = {}
      /\ cutOriginals' = cutOriginals \/ cutOriginals' = <<>>
      /\ cutMessages' = cutMessages \/ cutMessages' = <<>>
  BY DEF StartTurn, DiscardSuspended
<1>3. FilesTyped'
  BY <1>1 DEF Typed, FilesTyped
<1>4. CheckpointsTyped'
  <2> DEFINE new == [t \in {turn + 1} |-> <<>>]
  <2>1. DOMAIN new = {turn + 1} /\ new[turn + 1] = <<>>
    OBVIOUS
  <2>2. checkpoints' = Merge(new, checkpoints)
    BY <1>1
  <2> HIDE DEF new
  <2>3. /\ DOMAIN checkpoints' = DOMAIN new \cup DOMAIN checkpoints
        /\ \A t \in DOMAIN checkpoints' :
              checkpoints'[t] = IF t \in DOMAIN checkpoints THEN checkpoints[t] ELSE new[t]
    BY <2>2 DEF Merge
  <2>4. \A t \in DOMAIN checkpoints' :
           checkpoints'[t] = IF t \in DOMAIN checkpoints THEN checkpoints[t] ELSE <<>>
    BY <2>1, <2>3
  <2>5. DOMAIN checkpoints \subseteq 1..turn /\ DOMAIN suspended \subseteq (1..turn) \ DOMAIN checkpoints
    BY DEF Typed, CheckpointsTyped
  <2>6. DOMAIN checkpoints' \subseteq 1..turn'
    BY <1>1, <2>1, <2>3, <2>5
  <2>7. DOMAIN suspended' \subseteq (1..turn') \ DOMAIN checkpoints'
    BY <1>1, <1>2, <2>1, <2>3, <2>5
  <2>8. \A t \in DOMAIN checkpoints' : Snapshot(checkpoints'[t])
    BY <2>4, SnapshotNone DEF Typed, CheckpointsTyped
  <2> QED
    BY <1>2, <2>6, <2>7, <2>8 DEF Typed, CheckpointsTyped
<1>5. ChangesTyped'
  <2>1. [path : Path, turn : 1..turn] \subseteq [path : Path, turn : 1..turn']
    BY <1>1
  <2> QED
    BY <1>1, <1>2, <2>1, SnapshotNone DEF Typed, ChangesTyped
<1>6. MessagesTyped'
  <2>1. turn <= turn + 1 /\ turn + 1 \in Nat
    BY <1>1
  <2>2. branch \in Seq(0..(turn + 1)) /\ context \in Seq(0..(turn + 1))
        /\ cutMessages \in Seq(0..(turn + 1)) /\ <<>> \in Seq(0..(turn + 1))
    BY <1>1, <2>1, WiderSeq DEF Typed, MessagesTyped
  <2> QED
    BY <1>1, <1>2, <2>2 DEF Typed, MessagesTyped
<1> QED
  BY <1>3, <1>4, <1>5, <1>6 DEF Typed

\* The user's and the agent's messages.
LEMMA TypedMessages ==
    ASSUME Typed, RunBegins \/ PromptFails \/ Steer \/ AgentEnds \/ Compacts
    PROVE  Typed'
<1>1. UNCHANGED <<disk, writes, turn, currentTurn, astray, checkpoints, suspended, rollback>>
      /\ UNCHANGED <<changes, originals, pending, cutChanges, cutOriginals, cutMessages, hidden>>
      /\ UNCHANGED <<bare, rolledAt>>
  BY DEF RunBegins, PromptFails, Steer, AgentEnds, Compacts, checkpointVars, diffVars,
     messageVars, historyVars
<1>2. activity' \in {"idle", "running"} /\ (activity' # "idle" => activity # "idle")
  BY DEF RunBegins, PromptFails, Steer, AgentEnds, Compacts, Preparing
<1>3. FilesTyped' /\ CheckpointsTyped' /\ ChangesTyped'
  BY <1>1, <1>2 DEF Typed, FilesTyped, CheckpointsTyped, ChangesTyped
<1>4. /\ branch' \in Seq(0..turn) /\ context' \in Seq(0..turn)
      /\ Len(branch) \in Nat /\ Len(branch') \in Nat /\ Len(branch) <= Len(branch')
  <2>1. /\ branch \in Seq(0..turn) /\ context \in Seq(0..turn)
        /\ turn \in 0..turn /\ Steering \in 0..turn
    BY DEF Typed, FilesTyped, MessagesTyped, Steering
  <2>2. CASE \E m \in 0..turn : branch' = Append(branch, m) /\ context' = Append(context, m)
    BY <2>1, <2>2, AppendProperties, LenProperties
  <2>3. CASE UNCHANGED <<branch, context>>
    BY <2>1, <2>3, LenProperties
  <2>4. CASE branch' = branch /\ context # <<>> /\ context' = Tail(context)
    BY <2>1, <2>4, HeadTailProperties, LenProperties
  <2>5. CASE RunBegins \/ Steer
    BY <2>1, <2>2, <2>5 DEF RunBegins, Steer
  <2>6. CASE PromptFails \/ AgentEnds
    BY <2>3, <2>6 DEF PromptFails, AgentEnds, messageVars
  <2>7. CASE Compacts
    BY <2>4, <2>7 DEF Compacts
  <2> QED
    BY <2>5, <2>6, <2>7
<1>5. MessagesTyped'
  BY <1>1, <1>4 DEF Typed, MessagesTyped
<1> QED
  BY <1>3, <1>5 DEF Typed

LEMMA TypedToolStart ==
    ASSUME Typed, NEW p \in Path, ToolStart(p)
    PROVE  Typed'
<1>1. UNCHANGED <<disk, writes, activity, turn, currentTurn, astray, rolledAt, suspended, rollback>>
      /\ UNCHANGED <<changes, cutChanges, cutOriginals, branch, context, cutMessages, hidden>>
      /\ activity = "running" /\ bare' \subseteq bare
  BY DEF ToolStart, messageVars
<1> DEFINE one == [q \in {p} |-> disk[p]]
<1>2. Snapshot(one)
  BY SnapshotOne DEF Typed, FilesTyped
<1>3. FilesTyped' /\ MessagesTyped'
  BY <1>1 DEF Typed, FilesTyped, MessagesTyped
<1>4. CheckpointsTyped'
  <2>1. ASSUME currentTurn \in DOMAIN checkpoints PROVE Snapshot(Merge(one, checkpoints[currentTurn]))
    <3> HIDE DEF one
    <3> QED
      BY <1>2, <2>1, SnapshotMerge DEF Typed, CheckpointsTyped
  <2>2. \/ checkpoints' = checkpoints
        \/ /\ currentTurn \in DOMAIN checkpoints
           /\ checkpoints' = [checkpoints EXCEPT ![currentTurn] = Merge(one, checkpoints[currentTurn])]
    BY DEF ToolStart, recordFileState
  <2> HIDE DEF one
  <2>3. /\ DOMAIN checkpoints' = DOMAIN checkpoints
        /\ \A t \in DOMAIN checkpoints' : Snapshot(checkpoints'[t])
    BY <2>1, <2>2 DEF Typed, CheckpointsTyped
  <2> QED
    BY <1>1, <2>3 DEF Typed, CheckpointsTyped
<1>5. ChangesTyped'
  <2>1. originals' = Merge(one, originals)
    BY DEF ToolStart, captureOriginal
  <2> HIDE DEF one
  <2>2. Snapshot(originals')
    BY <1>2, <2>1, SnapshotMerge DEF Typed, ChangesTyped
  <2>3. [path |-> p, turn |-> currentTurn] \in [path : Path, turn : 1..turn]
    BY <1>1 DEF Typed, FilesTyped
  <2>4. pending' = pending \cup {[path |-> p, turn |-> currentTurn]}
    BY DEF ToolStart
  <2> QED
    BY <1>1, <2>2, <2>3, <2>4 DEF Typed, ChangesTyped
<1> QED
  BY <1>3, <1>4, <1>5 DEF Typed

LEMMA TypedWrite ==
    ASSUME Typed, NEW p, Write(p)
    PROVE  disk' \in [Path -> Content] /\ writes' \in Content
<1>1. disk \in [Path -> Content] /\ writes \in Content /\ MaxWrites \in Nat
  BY HistoryAssumption DEF Typed, FilesTyped
<1>2. writes + 1 \in Content
  BY <1>1 DEF Write, Content
<1> QED
  BY <1>1, <1>2 DEF Write

LEMMA TypedToolEnd ==
    ASSUME Typed, NEW e \in pending, ToolEnd(e) \/ ToolFails(e)
    PROVE  Typed'
<1>1. UNCHANGED <<activity, turn, currentTurn, bare, rolledAt, checkpoints, suspended, rollback>>
      /\ UNCHANGED <<originals, cutChanges, cutOriginals, branch, context, cutMessages, hidden>>
      /\ pending' = pending \ {e} /\ changes' \subseteq changes \cup {e}
  BY DEF ToolEnd, ToolFails, checkpointVars, messageVars, historyVars
<1>2. disk' \in [Path -> Content] /\ writes' \in Content
  <2>1. CASE ToolEnd(e)
    BY <2>1, TypedWrite DEF ToolEnd
  <2>2. CASE ToolFails(e)
    BY <2>2 DEF ToolFails, Typed, FilesTyped
  <2> QED
    BY <2>1, <2>2
<1>3. astray' \in [Path -> 0..turn]
  <2>1. astray \in [Path -> 0..turn] /\ turn \in 0..turn
    BY DEF Typed, FilesTyped
  <2>2. astray' = astray \/ astray' = [astray EXCEPT ![e.path] = turn]
    BY DEF ToolEnd, ToolFails, Stray, historyVars
  <2> QED
    BY <2>1, <2>2
<1>4. FilesTyped' /\ CheckpointsTyped' /\ MessagesTyped'
  <2>1. FilesTyped'
    BY <1>1, <1>2, <1>3 DEF Typed, FilesTyped
  <2> QED
    BY <1>1, <2>1 DEF Typed, CheckpointsTyped, MessagesTyped
<1>5. ChangesTyped'
  BY <1>1 DEF Typed, ChangesTyped
<1> QED
  BY <1>4, <1>5 DEF Typed

LEMMA TypedToolUnseen ==
    ASSUME Typed, NEW p \in Path, ToolUnseen(p)
    PROVE  Typed'
<1>1. UNCHANGED <<activity, turn, currentTurn, bare, rolledAt, checkpoints, suspended, rollback>>
      /\ UNCHANGED <<changes, originals, pending, cutChanges, cutOriginals>>
      /\ UNCHANGED <<branch, context, cutMessages, hidden>>
  BY DEF ToolUnseen, checkpointVars, diffVars, messageVars
<1>2. disk' \in [Path -> Content] /\ writes' \in Content
  BY TypedWrite DEF ToolUnseen
<1>3. astray' \in [Path -> 0..turn]
  BY DEF ToolUnseen, Stray, Typed, FilesTyped
<1>4. FilesTyped'
  BY <1>1, <1>2, <1>3 DEF Typed, FilesTyped
<1> QED
  BY <1>1, <1>4 DEF Typed, CheckpointsTyped, ChangesTyped, MessagesTyped

LEMMA TypedUndoFile ==
    ASSUME Typed, NEW p \in Path, UndoFile(p)
    PROVE  Typed'
<1>1. UNCHANGED <<writes, activity, turn, currentTurn, rolledAt, checkpoints, suspended, rollback>>
      /\ UNCHANGED <<pending, cutChanges, cutOriginals, branch, context, cutMessages, hidden>>
      /\ changes' \subseteq changes /\ astray' = [astray EXCEPT ![p] = turn]
      /\ originals' = Only(originals, Path \ {p}) /\ bare' \subseteq bare \cup {p}
  BY DEF UndoFile, Stray, checkpointVars, messageVars
<1>2. disk' \in [Path -> Content]
  <2>1. p \in DOMAIN originals /\ originals[p] \in Content /\ disk \in [Path -> Content]
    BY DEF UndoFile, Typed, FilesTyped, ChangesTyped, Snapshot
  <2> QED
    BY <2>1 DEF UndoFile
<1>3. FilesTyped' /\ CheckpointsTyped' /\ MessagesTyped'
  <2>1. astray' \in [Path -> 0..turn]
    BY <1>1 DEF Typed, FilesTyped
  <2>2. FilesTyped'
    BY <1>1, <1>2, <2>1 DEF Typed, FilesTyped
  <2> QED
    BY <1>1, <2>2 DEF Typed, CheckpointsTyped, MessagesTyped
<1>4. ChangesTyped'
  <2>1. Snapshot(originals')
    BY <1>1, SnapshotOnly DEF Typed, ChangesTyped
  <2> QED
    BY <1>1, <2>1 DEF Typed, ChangesTyped
<1> QED
  BY <1>3, <1>4 DEF Typed

LEMMA TypedRestore ==
    ASSUME Typed, NEW pos \in Shown, NEW unreadable, NEW failed, Restore(pos, unreadable, failed)
    PROVE  Typed'
<1>1. PICK index \in Nat : index = MessageIndex(pos)
  BY DEF Typed, MessagesTyped, Shown, MessageIndex
<1>2. UNCHANGED <<writes, activity, turn, currentTurn, pending, branch, hidden, bare>>
      /\ RestoreFiles(index, unreadable, failed) /\ SuspendChangesAfter(index) /\ CutMessages(index)
  BY <1>1 DEF Restore
<1>3. FilesTyped'
  <2>1. TurnsAfter(index) \subseteq DOMAIN checkpoints
    BY DEF TurnsAfter
  <2>2. Snapshot(FilesBefore(TurnsAfter(index)))
    BY <2>1, FilesBeforeTyped
  <2>3. Snapshot(Only(FilesBefore(TurnsAfter(index)), Path \ failed))
    BY <2>2, SnapshotOnly
  <2>4. disk' \in [Path -> Content]
    BY <1>2, <2>3, WrittenOver DEF RestoreFiles, Typed, FilesTyped
  <2>5. astray' \in [Path -> 0..turn] /\ rolledAt' = turn
    BY <1>2 DEF RestoreFiles, Astray, Typed, FilesTyped
  <2> QED
    BY <1>2, <2>4, <2>5 DEF Typed, FilesTyped
<1>4. CheckpointsTyped'
  <2> DEFINE turns == TurnsAfter(index)
             moved == [t \in turns |->
                          [before |-> checkpoints[t],
                           after  |-> Only(disk, DOMAIN checkpoints[t] \ unreadable)]]
  <2>1. turns \subseteq DOMAIN checkpoints
    BY DEF TurnsAfter
  <2>2. suspended' = Merge(suspended, moved) /\ rollback' = index
        /\ checkpoints' = Only(checkpoints, CheckpointsLeft(turns))
    BY <1>2 DEF RestoreFiles
  <2>3. DOMAIN moved = turns
    OBVIOUS
  <2>4. ASSUME NEW t \in turns
        PROVE  /\ Snapshot(moved[t].before) /\ Snapshot(moved[t].after)
               /\ DOMAIN moved[t].after \subseteq DOMAIN moved[t].before
    <3>1. moved[t].before = checkpoints[t]
          /\ moved[t].after = Only(disk, DOMAIN checkpoints[t] \ unreadable)
      OBVIOUS
    <3>2. Snapshot(disk)
      BY DEF Typed, FilesTyped, Snapshot
    <3> HIDE DEF moved, turns
    <3>3. Snapshot(moved[t].after)
      BY <3>1, <3>2, SnapshotOnly
    <3>4. DOMAIN moved[t].after \subseteq DOMAIN checkpoints[t]
      <4>1. DOMAIN moved[t].after = DOMAIN disk \cap (DOMAIN checkpoints[t] \ unreadable)
        BY <3>1 DEF Only
      <4> QED
        BY <4>1
    <3> QED
      BY <2>1, <3>1, <3>3, <3>4 DEF Typed, CheckpointsTyped
  <2> HIDE DEF moved, turns
  <2>5. DOMAIN suspended' = DOMAIN suspended \cup turns
        /\ \A t \in DOMAIN suspended' : suspended'[t] = IF t \in turns THEN moved[t] ELSE suspended[t]
    <3>1. DOMAIN suspended' = DOMAIN suspended \cup DOMAIN moved
          /\ \A t \in DOMAIN suspended' :
                suspended'[t] = IF t \in DOMAIN moved THEN moved[t] ELSE suspended[t]
      <4>1. suspended' = Merge(suspended, moved)
        BY <2>2
      <4> QED
        BY <4>1 DEF Merge
    <3> QED
      BY <2>3, <3>1
  <2>6. DOMAIN checkpoints' = DOMAIN checkpoints \ turns
        /\ \A t \in DOMAIN checkpoints' : checkpoints'[t] = checkpoints[t]
    <3>1. DOMAIN checkpoints' = DOMAIN checkpoints \cap CheckpointsLeft(turns)
          /\ \A t \in DOMAIN checkpoints' : checkpoints'[t] = checkpoints[t]
      <4>1. checkpoints' = Only(checkpoints, CheckpointsLeft(turns))
        BY <2>2
      <4> QED
        BY <4>1 DEF Only
    <3> QED
      BY <3>1 DEF CheckpointsLeft
  <2>7. \A t \in DOMAIN suspended' :
           /\ Snapshot(suspended'[t].before) /\ Snapshot(suspended'[t].after)
           /\ DOMAIN suspended'[t].after \subseteq DOMAIN suspended'[t].before
    BY <2>4, <2>5 DEF Typed, CheckpointsTyped
  <2>8. DOMAIN suspended' \subseteq (1..turn) \ DOMAIN checkpoints'
    BY <2>1, <2>5, <2>6 DEF Typed, CheckpointsTyped
  <2> QED
    BY <1>2, <2>2, <2>6, <2>7, <2>8 DEF Typed, CheckpointsTyped
<1>5. ChangesTyped'
  <2>1. PICK keptPaths :
           /\ originals' = Only(originals, keptPaths)
           /\ cutOriginals' = Merge(cutOriginals, Only(originals, Path \ keptPaths))
           /\ changes' \subseteq changes /\ cutChanges' \subseteq changes
    BY <1>2 DEF SuspendChangesAfter
  <2>2. Snapshot(originals') /\ Snapshot(Only(originals, Path \ keptPaths))
    BY <2>1, SnapshotOnly DEF Typed, ChangesTyped
  <2>3. Snapshot(cutOriginals')
    BY <2>1, <2>2, SnapshotMerge DEF Typed, ChangesTyped
  <2> QED
    BY <1>2, <2>1, <2>2, <2>3 DEF Typed, ChangesTyped
<1>6. MessagesTyped'
  <2>1. context \in Seq(0..turn) /\ Len(context) \in Nat /\ cutMessages \in Seq(0..turn)
    BY LenProperties DEF Typed, MessagesTyped
  <2>2. context' \in Seq(0..turn) /\ cutMessages' \in Seq(0..turn)
    <3>1. CASE index < Len(context)
      <4>1. /\ context' = SubSeq(context, 1, index)
            /\ cutMessages' = SubSeq(context, index + 1, Len(context))
        BY <1>2, <3>1 DEF CutMessages
      <4>2. SubSeq(context, 1, index) \in Seq(0..turn)
            /\ SubSeq(context, index + 1, Len(context)) \in Seq(0..turn)
        <5>1. index \in Nat /\ index <= Len(context)
          BY <2>1, <3>1
        <5> QED
          BY <2>1, <5>1, PartOfSeq
      <4> QED
        BY <4>1, <4>2
    <3>2. CASE ~(index < Len(context))
      BY <1>2, <2>1, <3>2 DEF CutMessages
    <3> QED
      BY <3>1, <3>2
  <2> QED
    BY <1>2, <2>2 DEF Typed, MessagesTyped
<1> QED
  BY <1>3, <1>4, <1>5, <1>6 DEF Typed

LEMMA TypedRedo ==
    ASSUME Typed, NEW failed, Redo(failed)
    PROVE  Typed'
<1>1. UNCHANGED <<writes, activity, turn, currentTurn, pending, branch, hidden, bare, rolledAt>>
  BY DEF Redo
<1>2. FilesTyped'
  <2>1. Snapshot(Only(FilesAfter, Path \ failed))
    BY FilesAfterTyped, SnapshotOnly
  <2>2. disk' \in [Path -> Content]
    BY <2>1, WrittenOver DEF Redo, Typed, FilesTyped
  <2>3. astray' \in [Path -> 0..turn]
    BY DEF Redo, Astray, Typed, FilesTyped
  <2> QED
    BY <1>1, <2>2, <2>3 DEF Typed, FilesTyped
<1>3. CheckpointsTyped'
  <2> DEFINE back == [t \in DOMAIN suspended |-> suspended[t].before]
  <2>1. checkpoints' = Merge(checkpoints, back) /\ suspended' = <<>> /\ rollback' = NoPoint
    BY DEF Redo
  <2>2. DOMAIN back = DOMAIN suspended /\ \A t \in DOMAIN suspended : back[t] = suspended[t].before
    OBVIOUS
  <2> HIDE DEF back
  <2>3. DOMAIN checkpoints' = DOMAIN checkpoints \cup DOMAIN suspended
        /\ \A t \in DOMAIN checkpoints' :
              checkpoints'[t] = IF t \in DOMAIN suspended THEN suspended[t].before ELSE checkpoints[t]
    <3>1. DOMAIN checkpoints' = DOMAIN checkpoints \cup DOMAIN back
          /\ \A t \in DOMAIN checkpoints' :
                checkpoints'[t] = IF t \in DOMAIN back THEN back[t] ELSE checkpoints[t]
      <4>1. checkpoints' = Merge(checkpoints, back)
        BY <2>1
      <4> QED
        BY <4>1 DEF Merge
    <3> QED
      BY <2>2, <3>1
  <2>4. \A t \in DOMAIN checkpoints' : Snapshot(checkpoints'[t])
    BY <2>3 DEF Typed, CheckpointsTyped
  <2>5. DOMAIN checkpoints' \subseteq 1..turn
    BY <2>3 DEF Typed, CheckpointsTyped
  <2> QED
    BY <1>1, <2>1, <2>4, <2>5 DEF CheckpointsTyped
<1>4. ChangesTyped'
  <2>1. Snapshot(originals') /\ Snapshot(cutOriginals')
    BY SnapshotMerge, SnapshotNone DEF Redo, RedoOriginals, Typed, ChangesTyped
  <2>2. changes' = changes \cup cutChanges /\ cutChanges' = {}
    BY DEF Redo
  <2> QED
    BY <1>1, <2>1, <2>2 DEF Typed, ChangesTyped
<1>5. MessagesTyped'
  <2>1. context' \in Seq(0..turn) /\ cutMessages' \in Seq(0..turn)
    BY ConcatProperties DEF Redo, Typed, MessagesTyped
  <2> QED
    BY <1>1, <2>1 DEF Typed, MessagesTyped
<1> QED
  BY <1>2, <1>3, <1>4, <1>5 DEF Typed

LEMMA TypedPages ==
    ASSUME Typed, ShowSession \/ LoadOlder \/ UNCHANGED vars
    PROVE  Typed'
<1>1. UNCHANGED <<disk, writes, activity, turn, currentTurn, astray, checkpoints, suspended, rollback>>
      /\ UNCHANGED <<changes, originals, pending, cutChanges, cutOriginals, bare, rolledAt>>
      /\ UNCHANGED <<branch, context, cutMessages>>
  BY DEF ShowSession, LoadOlder, vars, checkpointVars, diffVars, messageVars, historyVars
<1>2. hidden' \in 0..Len(branch)
  <2>1. Len(branch) \in Nat /\ hidden \in 0..Len(branch)
    BY LenProperties DEF Typed, MessagesTyped
  <2>2. hidden' = ShowPage(Len(branch)) \/ hidden' = ShowPage(hidden) \/ hidden' = hidden
    BY DEF ShowSession, LoadOlder, vars, messageVars
  <2>3. ShowPage(Len(branch)) \in 0..Len(branch) /\ ShowPage(hidden) \in 0..hidden
    BY <2>1, PageIn
  <2> QED
    BY <2>1, <2>2, <2>3
<1>3. FilesTyped' /\ CheckpointsTyped' /\ ChangesTyped'
  BY <1>1 DEF Typed, FilesTyped, CheckpointsTyped, ChangesTyped
<1>4. MessagesTyped'
  BY <1>1, <1>2 DEF Typed, MessagesTyped
<1> QED
  BY <1>3, <1>4 DEF Typed

LEMMA TypedStays == Typed /\ [Next]_vars => Typed'
  BY TypedLoadSession, TypedStartTurn, TypedMessages, TypedToolStart, TypedToolUnseen,
     TypedToolEnd, TypedUndoFile, TypedRestore, TypedRedo, TypedPages DEF Next

\* Every variable keeps its type, whatever the environment does: the three
\* numberings stay within the turns and the messages there are, and a turn is
\* never both kept and suspended.
THEOREM TypeCorrect == Spec => []TypeOK
  BY TypedStart, TypedStays, TypedIsTyped, PTL DEF Spec

----------------------------------------------------------------------------
(***************************************************************************)
(* Restore and redo.                                                       *)
(*                                                                         *)
(* The checkpoints of a tab are a way back: with the turns from t on       *)
(* undone, a file has the content of the first of their checkpoints that   *)
(* holds it, and if none does the content it has.                          *)
(***************************************************************************)
Holds(chk, t, p, u) == u \in DOMAIN chk /\ u >= t /\ p \in DOMAIN chk[u]
Returns(chk, files, t, p, v) ==
    \/ files[p] = v /\ \A u \in DOMAIN chk : ~ Holds(chk, t, p, u)
    \/ \E u \in DOMAIN chk : /\ Holds(chk, t, p, u) /\ chk[u][p] = v
                             /\ \A w \in DOMAIN chk : Holds(chk, t, p, w) => u <= w

LEMMA ReturnsOne ==
    ASSUME NEW chk, DOMAIN chk \subseteq Nat, NEW files, NEW t, NEW p, NEW v, NEW w,
           Returns(chk, files, t, p, v), Returns(chk, files, t, p, w)
    PROVE  v = w
<1>1. CASE \A u \in DOMAIN chk : ~ Holds(chk, t, p, u)
  BY <1>1 DEF Returns
<1>2. CASE \E u \in DOMAIN chk : Holds(chk, t, p, u)
  <2>1. PICK a \in DOMAIN chk : /\ Holds(chk, t, p, a) /\ chk[a][p] = v
                                /\ \A x \in DOMAIN chk : Holds(chk, t, p, x) => a <= x
    BY <1>2 DEF Returns
  <2>2. PICK b \in DOMAIN chk : /\ Holds(chk, t, p, b) /\ chk[b][p] = w
                                /\ \A x \in DOMAIN chk : Holds(chk, t, p, x) => b <= x
    BY <1>2 DEF Returns
  <2>3. a <= b /\ b <= a /\ a \in Nat /\ b \in Nat
    BY <2>1, <2>2
  <2>4. a = b
    BY <2>3
  <2> QED
    BY <2>1, <2>2, <2>4
<1> QED
  BY <1>1, <1>2

LEMMA ReturnsSame ==
    ASSUME NEW chk, NEW files, NEW t, NEW p, NEW v, Returns(chk, files, t, p, v),
           NEW chk2, NEW files2, DOMAIN chk2 = DOMAIN chk,
           \A u \in DOMAIN chk : chk2[u] = chk[u], files2[p] = files[p]
    PROVE  Returns(chk2, files2, t, p, v)
<1>1. \A u \in DOMAIN chk : Holds(chk2, t, p, u) <=> Holds(chk, t, p, u)
  BY DEF Holds
<1> QED
  BY <1>1 DEF Returns

\* A turn begins: its checkpoint is empty.
LEMMA ReturnsBegun ==
    ASSUME NEW chk, NEW files, NEW t, NEW p, NEW v, Returns(chk, files, t, p, v),
           NEW n, n \notin DOMAIN chk, NEW chk2, DOMAIN chk2 = DOMAIN chk \cup {n},
           \A u \in DOMAIN chk : chk2[u] = chk[u], DOMAIN chk2[n] = {}
    PROVE  Returns(chk2, files, t, p, v)
<1>1. \A u \in DOMAIN chk : Holds(chk2, t, p, u) <=> Holds(chk, t, p, u)
  BY DEF Holds
<1>2. ~ Holds(chk2, t, p, n)
  BY DEF Holds
<1>3. CASE files[p] = v /\ \A u \in DOMAIN chk : ~ Holds(chk, t, p, u)
  BY <1>1, <1>2, <1>3 DEF Returns
<1>4. ASSUME NEW u \in DOMAIN chk, Holds(chk, t, p, u), chk[u][p] = v,
             \A w \in DOMAIN chk : Holds(chk, t, p, w) => u <= w
      PROVE  Returns(chk2, files, t, p, v)
  BY <1>1, <1>2, <1>4 DEF Returns
<1> QED
  BY <1>3, <1>4 DEF Returns

\* Its first state is the one it begins with.
LEMMA ReturnsNow ==
    ASSUME NEW chk, NEW n \in Nat, DOMAIN chk \subseteq 0..n, DOMAIN chk[n] = {},
           NEW files, NEW p
    PROVE  Returns(chk, files, n, p, files[p])
<1>1. ASSUME NEW u \in DOMAIN chk PROVE ~ Holds(chk, n, p, u)
  <2>1. u \in Nat /\ u <= n
    OBVIOUS
  <2>2. u >= n => u = n
    BY <2>1
  <2> QED
    BY <2>2 DEF Holds
<1> QED
  BY <1>1 DEF Returns

\* The newest turn captures a file before it changes it.
LEMMA ReturnsCaptured ==
    ASSUME NEW chk, NEW n \in Nat, DOMAIN chk \subseteq 0..n, n \in DOMAIN chk,
           NEW files, NEW t \in Nat, t <= n, NEW p, NEW v, Returns(chk, files, t, p, v),
           NEW q, NEW chk2, DOMAIN chk2 = DOMAIN chk,
           \A u \in DOMAIN chk : u # n => chk2[u] = chk[u],
           DOMAIN chk2[n] = DOMAIN chk[n] \cup {q},
           \A x \in DOMAIN chk[n] : chk2[n][x] = chk[n][x],
           q \notin DOMAIN chk[n] => chk2[n][q] = files[q]
    PROVE  Returns(chk2, files, t, p, v)
<1>1. \A u \in DOMAIN chk : Holds(chk, t, p, u) => Holds(chk2, t, p, u) /\ chk2[u][p] = chk[u][p]
  BY DEF Holds
<1>2. \A u \in DOMAIN chk : Holds(chk2, t, p, u) => Holds(chk, t, p, u) \/ (u = n /\ p = q)
  BY DEF Holds
<1>3. \A u \in DOMAIN chk : u \in Nat /\ u <= n
  OBVIOUS
<1>4. CASE files[p] = v /\ \A u \in DOMAIN chk : ~ Holds(chk, t, p, u)
  <2>1. CASE p = q
    <3>1. Holds(chk2, t, p, n)
      BY <2>1 DEF Holds
    <3>2. p \notin DOMAIN chk[n]
      BY <1>4 DEF Holds
    <3>3. chk2[n][p] = v
      BY <1>4, <2>1, <3>2
    <3>4. \A w \in DOMAIN chk2 : Holds(chk2, t, p, w) => n <= w
      BY <1>2, <1>4
    <3> QED
      BY <3>1, <3>3, <3>4 DEF Returns
  <2>2. CASE p # q
    BY <1>2, <1>4, <2>2 DEF Returns
  <2> QED
    BY <2>1, <2>2
<1>5. ASSUME NEW u \in DOMAIN chk, Holds(chk, t, p, u), chk[u][p] = v,
             \A w \in DOMAIN chk : Holds(chk, t, p, w) => u <= w
      PROVE  Returns(chk2, files, t, p, v)
  <2>1. Holds(chk2, t, p, u) /\ chk2[u][p] = v
    BY <1>1, <1>5
  <2>2. \A w \in DOMAIN chk2 : Holds(chk2, t, p, w) => u <= w
    BY <1>2, <1>3, <1>5
  <2> QED
    BY <2>1, <2>2 DEF Returns
<1> QED
  BY <1>4, <1>5 DEF Returns

\* Then it may be written: what it returns to is captured.
LEMMA ReturnsWritten ==
    ASSUME NEW chk, NEW files, NEW t, NEW p, NEW v, Returns(chk, files, t, p, v),
           NEW n, Holds(chk, t, p, n), NEW files2
    PROVE  Returns(chk, files2, t, p, v)
<1>1. n \in DOMAIN chk
  BY DEF Holds
<1> QED
  BY <1>1 DEF Returns

\* The turns after i are undone: what a file returns to in the turns before
\* stays the same.
LEMMA ReturnsRestored ==
    ASSUME NEW chk, DOMAIN chk \subseteq Nat, NEW files, NEW i \in Nat, NEW t \in Nat, t <= i,
           NEW p, NEW v, Returns(chk, files, t, p, v),
           NEW files2, Returns(chk, files, i + 1, p, files2[p]),
           NEW chk2, DOMAIN chk2 = {u \in DOMAIN chk : ~ (u > i)},
           \A u \in DOMAIN chk2 : chk2[u] = chk[u]
    PROVE  Returns(chk2, files2, t, p, v)
<1>1. \A u \in DOMAIN chk2 : Holds(chk2, t, p, u) <=> Holds(chk, t, p, u)
  BY DEF Holds
<1>2. \A u \in DOMAIN chk : Holds(chk, i + 1, p, u) <=> Holds(chk, t, p, u) /\ u \notin DOMAIN chk2
  <2>1. ASSUME NEW u \in DOMAIN chk PROVE u >= i + 1 <=> u >= t /\ u \notin DOMAIN chk2
    <3>1. u \in Nat
      OBVIOUS
    <3> QED
      BY <3>1
  <2> QED
    BY <2>1 DEF Holds
<1>3. ASSUME NEW u \in DOMAIN chk2, Holds(chk, t, p, u)
      PROVE  Returns(chk2, files2, t, p, v)
  <2>1. PICK a \in DOMAIN chk : /\ Holds(chk, t, p, a) /\ chk[a][p] = v
                                /\ \A w \in DOMAIN chk : Holds(chk, t, p, w) => a <= w
    BY <1>3 DEF Returns
  <2>2. a \in Nat /\ u \in Nat /\ a <= u /\ ~ (u > i)
    BY <1>3, <2>1
  <2>3. a \in DOMAIN chk2
    BY <2>2
  <2> QED
    BY <1>1, <2>1, <2>3 DEF Returns
<1>4. CASE \A u \in DOMAIN chk2 : ~ Holds(chk, t, p, u)
  <2>1. \A u \in DOMAIN chk : Holds(chk, i + 1, p, u) <=> Holds(chk, t, p, u)
    BY <1>2, <1>4
  <2>2. Returns(chk, files, t, p, files2[p])
    BY <2>1 DEF Returns
  <2>3. files2[p] = v
    BY <2>2, ReturnsOne
  <2> QED
    BY <1>1, <1>4, <2>3 DEF Returns
<1> QED
  BY <1>3, <1>4

----------------------------------------------------------------------------
\* A redo brings every file to the last content it had in the suspended turns,
\* and takes all their checkpoints back.
FilesRedone == Merge(disk, FilesAfter)
AllCheckpoints == Merge(checkpoints, [t \in DOMAIN suspended |-> suspended[t].before])

Latest(sus, files, p, v) ==
    \/ files[p] = v /\ \A u \in DOMAIN sus : p \notin DOMAIN sus[u].after
    \/ \E u \in DOMAIN sus : /\ p \in DOMAIN sus[u].after /\ sus[u].after[p] = v
                             /\ \A w \in DOMAIN sus : p \in DOMAIN sus[w].after => w <= u

LEMMA LatestOne ==
    ASSUME NEW sus, DOMAIN sus \subseteq Nat, NEW files, NEW p, NEW v, NEW w,
           Latest(sus, files, p, v), Latest(sus, files, p, w)
    PROVE  v = w
<1>1. CASE \A u \in DOMAIN sus : p \notin DOMAIN sus[u].after
  BY <1>1 DEF Latest
<1>2. CASE \E u \in DOMAIN sus : p \in DOMAIN sus[u].after
  <2>1. PICK a \in DOMAIN sus : /\ p \in DOMAIN sus[a].after /\ sus[a].after[p] = v
                                /\ \A x \in DOMAIN sus : p \in DOMAIN sus[x].after => x <= a
    BY <1>2 DEF Latest
  <2>2. PICK b \in DOMAIN sus : /\ p \in DOMAIN sus[b].after /\ sus[b].after[p] = w
                                /\ \A x \in DOMAIN sus : p \in DOMAIN sus[x].after => x <= b
    BY <1>2 DEF Latest
  <2>3. a <= b /\ b <= a /\ a \in Nat /\ b \in Nat
    BY <2>1, <2>2
  <2>4. a = b
    BY <2>3
  <2> QED
    BY <2>1, <2>2, <2>4
<1> QED
  BY <1>1, <1>2

\* A restore suspends older turns than those suspended before it, with the
\* contents the files have: what a redo brings stays the same, be the file
\* restored or left as it is.
LEMMA LatestRestored ==
    ASSUME NEW sus, NEW files, NEW p, NEW v, Latest(sus, files, p, v),
           NEW n \in Nat, NEW chk, DOMAIN chk \subseteq 0..n, NEW i \in Nat,
           DOMAIN sus \cap DOMAIN chk = {}, \A u \in DOMAIN sus, w \in DOMAIN chk : w <= u,
           NEW sus2, DOMAIN sus2 = DOMAIN sus \cup {u \in DOMAIN chk : u > i},
           \A u \in DOMAIN sus : sus2[u] = sus[u],
           \A u \in DOMAIN sus2 \ DOMAIN sus :
              /\ p \in DOMAIN sus2[u].after <=> p \in DOMAIN chk[u]
              /\ p \in DOMAIN chk[u] => sus2[u].after[p] = files[p],
           NEW files2, Returns(chk, files, i + 1, p, files2[p]) \/ files2[p] = files[p]
    PROVE  Latest(sus2, files2, p, v)
<1>1. ASSUME NEW u \in DOMAIN sus, p \in DOMAIN sus[u].after
      PROVE  Latest(sus2, files2, p, v)
  <2>1. PICK a \in DOMAIN sus : /\ p \in DOMAIN sus[a].after /\ sus[a].after[p] = v
                                /\ \A x \in DOMAIN sus : p \in DOMAIN sus[x].after => x <= a
    BY <1>1 DEF Latest
  <2>2. a \in DOMAIN sus2 /\ p \in DOMAIN sus2[a].after /\ sus2[a].after[p] = v
    BY <2>1
  <2>3. \A x \in DOMAIN sus2 : p \in DOMAIN sus2[x].after => x <= a
    BY <2>1
  <2> QED
    BY <2>2, <2>3 DEF Latest
<1>2. CASE \A u \in DOMAIN sus : p \notin DOMAIN sus[u].after
  <2>1. files[p] = v
    BY <1>2 DEF Latest
  <2> DEFINE S == {u \in DOMAIN sus2 \ DOMAIN sus : p \in DOMAIN chk[u]}
  <2>2. S \subseteq 0..n
    OBVIOUS
  <2>3. \A u \in DOMAIN sus2 : p \in DOMAIN sus2[u].after <=> u \in S
    BY <1>2
  <2>4. \A u \in S : u \in DOMAIN sus2 /\ sus2[u].after[p] = v
    BY <2>1
  <2>5. \A u \in DOMAIN chk : Holds(chk, i + 1, p, u) => u \in S
    <3>1. \A u \in DOMAIN chk : u >= i + 1 => u > i
      OBVIOUS
    <3> QED
      BY <3>1 DEF Holds
  <2> HIDE DEF S
  <2>6. CASE S # {}
    <3>1. Greatest(S) \in S /\ \A m \in S : m <= Greatest(S)
      BY <2>2, <2>6, GreatestIn
    <3> QED
      BY <2>3, <2>4, <3>1 DEF Latest
  <2>7. CASE S = {}
    <3>1. files2[p] = v
      BY <2>1, <2>5, <2>7 DEF Returns
    <3> QED
      BY <2>3, <2>7, <3>1 DEF Latest
  <2> QED
    BY <2>6, <2>7
<1> QED
  BY <1>1, <1>2

RedoneLatest ==
    /\ FilesRedone \in [Path -> Content]
    /\ \A p \in Path : Latest(suspended, disk, p, FilesRedone[p])

LEMMA RedoneIsLatest == Typed => RedoneLatest
<1> SUFFICES ASSUME Typed PROVE RedoneLatest
  OBVIOUS
<1>1. disk \in [Path -> Content] /\ turn \in Nat /\ DOMAIN suspended \subseteq 0..turn
  BY DEF Typed, FilesTyped, CheckpointsTyped
<1>2. FilesRedone \in [Path -> Content]
  BY <1>1, FilesAfterTyped, WrittenOver DEF FilesRedone
<1>3. ASSUME NEW p \in Path PROVE Latest(suspended, disk, p, FilesRedone[p])
  <2> DEFINE S == {t \in DOMAIN suspended : p \in DOMAIN suspended[t].after}
  <2>1. S \subseteq 0..turn /\ \A t \in DOMAIN suspended : p \in DOMAIN suspended[t].after <=> t \in S
    BY <1>1
  <2>2. p \in DOMAIN FilesAfter <=> S # {}
    BY DEF FilesAfter
  <2>3. p \in DOMAIN FilesAfter => FilesAfter[p] = suspended[Greatest(S)].after[p]
    BY DEF FilesAfter
  <2>4. FilesRedone[p] = IF p \in DOMAIN FilesAfter THEN FilesAfter[p] ELSE disk[p]
    BY <1>1 DEF FilesRedone, Merge
  <2>5. S \subseteq DOMAIN suspended
    OBVIOUS
  <2> HIDE DEF S
  <2>6. CASE S # {}
    <3>1. Greatest(S) \in S /\ \A m \in S : m <= Greatest(S)
      BY <1>1, <2>1, <2>6, GreatestIn
    <3>2. FilesRedone[p] = suspended[Greatest(S)].after[p]
      BY <2>2, <2>3, <2>4, <2>6
    <3> QED
      BY <2>1, <2>5, <3>1, <3>2 DEF Latest
  <2>7. CASE S = {}
    <3>1. FilesRedone[p] = disk[p]
      BY <2>2, <2>4, <2>7
    <3> QED
      BY <2>1, <2>7, <3>1 DEF Latest
  <2> QED
    BY <2>6, <2>7
<1> QED
  BY <1>2, <1>3 DEF RedoneLatest

LEMMA RedoneIsLatestNext == Typed' => RedoneLatest'
  BY RedoneIsLatest, PTL

LEMMA AllCheckpointsAt ==
    /\ DOMAIN AllCheckpoints = DOMAIN checkpoints \cup DOMAIN suspended
    /\ \A t \in DOMAIN AllCheckpoints :
          AllCheckpoints[t] = IF t \in DOMAIN suspended THEN suspended[t].before ELSE checkpoints[t]
  BY DEF AllCheckpoints, Merge

\* A restore returns every file it could read and write to the checkpoint of
\* the turn restored.
LEMMA RestoreReturns ==
    ASSUME Typed, NEW index \in Nat, NEW unreadable, NEW failed,
           RestoreFiles(index, unreadable, failed), NEW p \in Path \ failed
    PROVE  Returns(checkpoints, disk, index + 1, p, disk'[p])
<1> DEFINE turns == TurnsAfter(index)
           S == {t \in turns : p \in DOMAIN checkpoints[t]}
           back == Only(FilesBefore(turns), Path \ failed)
<1>1. DOMAIN disk = Path /\ DOMAIN checkpoints \subseteq Nat
  BY DEF Typed, FilesTyped, CheckpointsTyped
<1>2. \A u \in DOMAIN checkpoints : Holds(checkpoints, index + 1, p, u) <=> u \in S
  <2>1. \A u \in DOMAIN checkpoints : u >= index + 1 <=> u > index
    BY <1>1
  <2> QED
    BY <2>1 DEF Holds, TurnsAfter
<1>3. S \subseteq DOMAIN checkpoints /\ S \subseteq Nat
  BY <1>1 DEF TurnsAfter
<1>4. p \in DOMAIN FilesBefore(turns) <=> S # {}
  BY DEF FilesBefore
<1>5. p \in DOMAIN FilesBefore(turns) => FilesBefore(turns)[p] = checkpoints[Least(S)][p]
  BY DEF FilesBefore
<1>6. disk' = Merge(disk, back)
  BY DEF RestoreFiles
<1> HIDE DEF S, turns
<1>7. /\ p \in DOMAIN back <=> p \in DOMAIN FilesBefore(turns)
      /\ p \in DOMAIN back => back[p] = FilesBefore(turns)[p]
  BY DEF Only
<1> HIDE DEF back
<1>8. disk'[p] = IF p \in DOMAIN back THEN back[p] ELSE disk[p]
  BY <1>1, <1>6 DEF Merge
<1>9. CASE S # {}
  <2>1. Least(S) \in S /\ \A m \in S : Least(S) <= m
    BY <1>3, <1>9, LeastIn
  <2>2. disk'[p] = checkpoints[Least(S)][p]
    BY <1>4, <1>5, <1>7, <1>8, <1>9
  <2>3. Least(S) \in DOMAIN checkpoints /\ Holds(checkpoints, index + 1, p, Least(S))
        /\ \A w \in DOMAIN checkpoints : Holds(checkpoints, index + 1, p, w) => Least(S) <= w
    BY <1>2, <1>3, <2>1
  <2> QED
    BY <2>2, <2>3 DEF Returns
<1>10. CASE S = {}
  <2>1. disk'[p] = disk[p] /\ \A u \in DOMAIN checkpoints : ~ Holds(checkpoints, index + 1, p, u)
    BY <1>2, <1>4, <1>7, <1>8, <1>10
  <2> QED
    BY <2>1 DEF Returns
<1> QED
  BY <1>9, <1>10

\* A file it could not write stays as it is.
LEMMA RestoreSkips ==
    ASSUME Typed, NEW index \in Nat, NEW unreadable, NEW failed,
           RestoreFiles(index, unreadable, failed), NEW p \in Path, p \in failed
    PROVE  disk'[p] = disk[p]
<1> DEFINE back == Only(FilesBefore(TurnsAfter(index)), Path \ failed)
<1>1. DOMAIN disk = Path /\ disk' = Merge(disk, back)
  BY DEF RestoreFiles, Typed, FilesTyped
<1>2. p \notin DOMAIN back
  BY DEF Only
<1> HIDE DEF back
<1> QED
  BY <1>1, <1>2 DEF Merge

----------------------------------------------------------------------------
\* A prompt and its run are those of the current turn, and the tools that run
\* have captured their files in its checkpoint, unless a restore that slipped in
\* has suspended it.
Working ==
    /\ activity # "idle" => currentTurn = turn
    /\ activity = "running" => ~ saved.valid
    /\ pending # {} => activity = "running"
    /\ \A e \in pending : e.turn = turn
    /\ \A e \in pending : turn \in DOMAIN checkpoints => e.path \in DOMAIN checkpoints[turn]

\* A rollback divides the turns: those up to it are kept, those after it are
\* suspended.
Divided ==
    rollback # NoPoint => /\ \A t \in DOMAIN checkpoints : t <= rollback
                          /\ \A t \in DOMAIN suspended : ~ (t <= rollback)

Dated == DOMAIN checkpoints \cup DOMAIN suspended \subseteq DOMAIN before

\* The checkpoints lead back to the files each of their turns began with, now
\* and once a redo has taken the suspended ones back.
Rewinds ==
    \A t \in DOMAIN checkpoints, p \in Path :
       astray[p] < t => Returns(checkpoints, disk, t, p, before[t][p])
Redoes ==
    \A t \in DOMAIN AllCheckpoints, p \in Path :
       astray[p] < t => Returns(AllCheckpoints, FilesRedone, t, p, before[t][p])

\* What the rollback replaced can still be put together, but for the files that
\* are lost to it.
Reversible ==
    /\ DOMAIN saved = {"valid", "again", "lost", "disk", "changes", "context"}
    /\ saved.valid =>
          /\ \A p \in Path \ saved.lost : saved.disk[p] = FilesRedone[p]
          /\ \/ saved.again
             \/ /\ Elsewhere(changes \cup cutChanges, saved.lost)
                       = Elsewhere(saved.changes, saved.lost)
                /\ context \o cutMessages = saved.context

\* Nothing is saved without a rollback.
NoRollback == rollback = NoPoint => ~ saved.valid

\* Without suspended turns a redo would change nothing.
Calm == DOMAIN suspended = {}
RedoneAlready == FilesRedone = disk

LEMMA CalmRedoes == Typed /\ Calm /\ Rewinds => Redoes /\ RedoneAlready
<1> SUFFICES ASSUME Typed, Calm, Rewinds
             PROVE  Redoes /\ RedoneAlready
  OBVIOUS
<1>1. DOMAIN suspended = {}
  BY DEF Calm
<1>2. \A p \in Path : FilesRedone[p] = disk[p]
  BY <1>1, RedoneIsLatest DEF Latest, RedoneLatest
<1>3. FilesRedone = disk
  <2>1. disk \in [Path -> Content] /\ FilesRedone \in [Path -> Content]
    BY RedoneIsLatest DEF Typed, FilesTyped, RedoneLatest
  <2> QED
    BY <1>2, <2>1
<1>4. DOMAIN AllCheckpoints = DOMAIN checkpoints
      /\ \A t \in DOMAIN checkpoints : AllCheckpoints[t] = checkpoints[t]
  BY <1>1, AllCheckpointsAt
<1>5. ASSUME NEW t \in DOMAIN AllCheckpoints, NEW p \in Path, astray[p] < t
      PROVE  Returns(AllCheckpoints, FilesRedone, t, p, before[t][p])
  <2>1. Returns(checkpoints, disk, t, p, before[t][p])
    BY <1>4, <1>5 DEF Rewinds
  <2> QED
    BY <1>2, <1>4, <2>1, ReturnsSame
<1> QED
  BY <1>3, <1>5 DEF Redoes, RedoneAlready

LEMMA CalmRedoesNext ==
    Typed' /\ Calm' /\ Rewinds' => Redoes' /\ RedoneAlready'
  BY CalmRedoes, PTL

\* A step that leaves the files and their checkpoints alone.
LEMMA SameWays ==
    ASSUME Divided, Dated, Rewinds, Redoes,
           UNCHANGED <<disk, checkpoints, suspended, rollback, before, astray>>
    PROVE  Divided' /\ Dated' /\ Rewinds' /\ Redoes' /\ FilesRedone' = FilesRedone
<1>1. AllCheckpoints' = AllCheckpoints /\ FilesRedone' = FilesRedone
  BY DEF AllCheckpoints, FilesRedone, FilesAfter
<1> QED
  BY <1>1 DEF Divided, Dated, Rewinds, Redoes

Ways == Divided /\ Dated /\ Rewinds /\ Redoes
Kept == Typed /\ NothingSuspended /\ NoRollback /\ Working /\ Ways /\ Reversible

\* While the checkpoint of the current turn is there, none is suspended.
LEMMA CurrentIsCalm ==
    ASSUME Typed, NothingSuspended, Divided, turn \in DOMAIN checkpoints
    PROVE  Calm
<1>1. turn \in Nat /\ DOMAIN suspended \subseteq 1..turn /\ rollback \in Nat \cup {NoPoint}
  BY DEF Typed, FilesTyped, CheckpointsTyped
<1>2. CASE rollback = NoPoint
  BY <1>2 DEF NothingSuspended, Calm
<1>3. CASE rollback # NoPoint
  <2>1. rollback \in Nat /\ turn <= rollback
    BY <1>1, <1>3 DEF Divided
  <2>2. ASSUME NEW t \in DOMAIN suspended PROVE FALSE
    <3>1. ~ (t <= rollback) /\ t \in Nat /\ t <= turn
      BY <1>1, <1>3, <2>2 DEF Divided
    <3> QED
      BY <1>1, <2>1, <3>1
  <2> QED
    BY <2>2 DEF Calm
<1> QED
  BY <1>2, <1>3

\* What a redo brings of the other files stays when one is written.
LEMMA RedoneElsewhere ==
    ASSUME Typed, Typed', suspended' = suspended,
           NEW p \in Path, disk'[p] = disk[p]
    PROVE  FilesRedone'[p] = FilesRedone[p]
<1>1. Latest(suspended, disk, p, FilesRedone[p]) /\ Latest(suspended', disk', p, FilesRedone'[p])
  BY RedoneIsLatest, RedoneIsLatestNext DEF RedoneLatest
<1>2. Latest(suspended, disk, p, FilesRedone'[p])
  BY <1>1 DEF Latest
<1>3. DOMAIN suspended \subseteq Nat
  BY DEF Typed, FilesTyped, CheckpointsTyped
<1> QED
  BY <1>1, <1>2, <1>3, LatestOne

\* A file written past the checkpoints leaves the ways of the others alone.
LEMMA StrayWays ==
    ASSUME Typed, Typed', Ways, NEW q \in Path, Stray(q),
           UNCHANGED <<turn, checkpoints, suspended, rollback, before>>,
           \A p \in Path : p # q => disk'[p] = disk[p]
    PROVE  /\ Ways'
           /\ \A p \in Path : p # q => FilesRedone'[p] = FilesRedone[p]
<1>1. /\ turn \in Nat /\ DOMAIN checkpoints \subseteq 1..turn /\ DOMAIN suspended \subseteq 1..turn
      /\ astray \in [Path -> 0..turn]
  BY DEF Typed, FilesTyped, CheckpointsTyped
<1>2. astray'[q] = turn /\ \A p \in Path : p # q => astray'[p] = astray[p]
  BY <1>1 DEF Stray
<1>3. ASSUME NEW t \in 1..turn, NEW p \in Path, astray'[p] < t
      PROVE  p # q /\ astray[p] < t
  BY <1>1, <1>2, <1>3
<1>4. ASSUME NEW p \in Path, p # q PROVE FilesRedone'[p] = FilesRedone[p]
  BY <1>4, RedoneElsewhere
<1>5. Divided' /\ Dated'
  BY DEF Divided, Dated, Ways
<1>6. Rewinds'
  <2>1. ASSUME NEW t \in DOMAIN checkpoints, NEW p \in Path, astray'[p] < t
        PROVE  Returns(checkpoints, disk', t, p, before[t][p])
    <3>1. p # q /\ astray[p] < t
      BY <1>1, <1>3, <2>1
    <3>2. Returns(checkpoints, disk, t, p, before[t][p]) /\ disk'[p] = disk[p]
      BY <3>1 DEF Ways, Rewinds
    <3> QED
      BY <3>2, ReturnsSame
  <2> QED
    BY <2>1 DEF Rewinds
<1>7. AllCheckpoints' = AllCheckpoints /\ DOMAIN AllCheckpoints \subseteq 1..turn
  BY <1>1, AllCheckpointsAt DEF AllCheckpoints
<1>8. Redoes'
  <2>1. ASSUME NEW t \in DOMAIN AllCheckpoints, NEW p \in Path, astray'[p] < t
        PROVE  Returns(AllCheckpoints, FilesRedone', t, p, before[t][p])
    <3>1. p # q /\ astray[p] < t
      BY <1>3, <1>7, <2>1
    <3>2. Returns(AllCheckpoints, FilesRedone, t, p, before[t][p])
      BY <3>1 DEF Ways, Redoes
    <3>3. FilesRedone'[p] = FilesRedone[p]
      BY <1>4, <3>1
    <3> QED
      BY <3>2, <3>3, ReturnsSame
  <2> QED
    BY <1>7, <2>1 DEF Redoes
<1> QED
  BY <1>4, <1>5, <1>6, <1>8 DEF Ways

LEMMA KeptStart == Init => Working /\ Ways /\ Reversible
<1> SUFFICES ASSUME Init PROVE Working /\ Ways /\ Reversible
  OBVIOUS
<1>1. checkpoints = <<>> /\ suspended = <<>> /\ rollback = NoPoint /\ pending = {}
      /\ activity = "idle" /\ saved = NoSaved
  BY DEF Init
<1>2. DOMAIN checkpoints = {} /\ DOMAIN suspended = {}
  BY <1>1
<1>3. Working /\ Divided /\ Dated /\ Rewinds
  BY <1>1, <1>2 DEF Working, Divided, Dated, Rewinds
<1>4. Redoes
  BY <1>2, AllCheckpointsAt DEF Redoes
<1>5. Reversible
  BY <1>1 DEF Reversible, NoSaved
<1> QED
  BY <1>3, <1>4, <1>5 DEF Ways

LEMMA KeptLoadSession ==
    ASSUME Kept, Typed', NEW k \in 0..MaxResumed, LoadSession(k)
    PROVE  Working' /\ Ways' /\ Reversible'
<1>1. checkpoints' = <<>> /\ suspended' = <<>> /\ rollback' = NoPoint /\ pending' = {}
      /\ activity' = "idle" /\ saved' = NoSaved
  BY DEF LoadSession
<1>2. DOMAIN checkpoints' = {} /\ DOMAIN suspended' = {}
  BY <1>1
<1>3. Working' /\ Divided' /\ Dated' /\ Rewinds'
  BY <1>1, <1>2 DEF Working, Divided, Dated, Rewinds
<1>4. Redoes'
  BY <1>1, <1>3, CalmRedoesNext DEF Calm
<1>5. Reversible'
  BY <1>1 DEF Reversible, NoSaved
<1> QED
  BY <1>3, <1>4, <1>5 DEF Ways

LEMMA KeptStartTurn ==
    ASSUME Kept, Typed', StartTurn
    PROVE  Working' /\ Ways' /\ Reversible'
<1> DEFINE n == turn + 1
           first == [t \in {n} |-> <<>>]
           now == [t \in {n} |-> disk]
<1>1. /\ activity = "idle" /\ activity' # "running" /\ turn' = n /\ currentTurn' = n
      /\ UNCHANGED <<disk, pending, astray>> /\ saved' = NoSaved
      /\ checkpoints' = Merge(first, checkpoints) /\ before' = Merge(before, now)
  BY DEF StartTurn
<1>2. suspended' = <<>> /\ rollback' = NoPoint
  BY DEF StartTurn, DiscardSuspended, Kept, NothingSuspended
<1>3. turn \in Nat /\ DOMAIN checkpoints \subseteq 1..turn /\ disk \in [Path -> Content]
      /\ DOMAIN checkpoints \subseteq DOMAIN before
  BY DEF Kept, Typed, FilesTyped, CheckpointsTyped, Ways, Dated
<1>4. n \in Nat /\ n \notin DOMAIN checkpoints
  BY <1>3
<1>5. DOMAIN first = {n} /\ DOMAIN first[n] = {} /\ DOMAIN now = {n} /\ now[n] = disk
  OBVIOUS
<1> HIDE DEF first, now, n
<1>6. /\ DOMAIN checkpoints' = DOMAIN first \cup DOMAIN checkpoints
      /\ \A t \in DOMAIN checkpoints' :
            checkpoints'[t] = IF t \in DOMAIN checkpoints THEN checkpoints[t] ELSE first[t]
  BY <1>1 DEF Merge
<1>7. /\ DOMAIN before' = DOMAIN before \cup DOMAIN now
      /\ \A t \in DOMAIN before' : before'[t] = IF t \in DOMAIN now THEN now[t] ELSE before[t]
  BY <1>1 DEF Merge
<1>8. /\ DOMAIN checkpoints' = DOMAIN checkpoints \cup {n}
      /\ \A t \in DOMAIN checkpoints : checkpoints'[t] = checkpoints[t] /\ before'[t] = before[t]
      /\ DOMAIN checkpoints'[n] = {} /\ before'[n] = disk /\ n \in DOMAIN before'
      /\ DOMAIN checkpoints' \subseteq DOMAIN before'
  BY <1>3, <1>4, <1>5, <1>6, <1>7
<1>9. Working'
  BY <1>1, <1>2, <1>8 DEF Working, Kept, NoSaved
<1>10. Divided' /\ Dated'
  <2>1. DOMAIN suspended' = {}
    BY <1>2
  <2> QED
    BY <1>2, <1>8, <2>1 DEF Divided, Dated
<1>11. ASSUME NEW t \in DOMAIN checkpoints', NEW p \in Path, astray'[p] < t
       PROVE  Returns(checkpoints', disk', t, p, before'[t][p])
  <2>1. CASE t \in DOMAIN checkpoints
    <3>1. Returns(checkpoints, disk, t, p, before[t][p])
      BY <1>1, <1>11, <2>1 DEF Kept, Ways, Rewinds
    <3>2. Returns(checkpoints', disk, t, p, before[t][p])
      BY <1>4, <1>8, <3>1, ReturnsBegun
    <3> QED
      BY <1>1, <1>8, <2>1, <3>2
  <2>2. CASE t = n
    <3>1. DOMAIN checkpoints' \subseteq 0..n
      BY <1>1 DEF Typed, CheckpointsTyped
    <3>2. Returns(checkpoints', disk, n, p, disk[p])
      BY <1>4, <1>8, <3>1, ReturnsNow
    <3> QED
      BY <1>1, <1>8, <2>2, <3>2
  <2> QED
    BY <1>8, <2>1, <2>2
<1>12. Rewinds'
  BY <1>11 DEF Rewinds
<1>13. Redoes'
  BY <1>2, <1>12, CalmRedoesNext DEF Calm
<1>14. Reversible'
  BY <1>1 DEF Reversible, NoSaved
<1> QED
  BY <1>9, <1>10, <1>12, <1>13, <1>14 DEF Ways

\* The steps of the prompt, of the client, and a tool that fails, which leave
\* the files and their checkpoints alone.
LEMMA KeptQuiet ==
    ASSUME Kept, \/ RunBegins \/ PromptFails \/ Steer \/ AgentEnds \/ Compacts
                 \/ \E e \in pending : ToolFails(e)
                 \/ ShowSession \/ LoadOlder \/ UNCHANGED vars
    PROVE  Working' /\ Ways' /\ Reversible'
<1>1. UNCHANGED <<disk, checkpoints, suspended, rollback, before, astray>>
      /\ UNCHANGED <<turn, currentTurn, changes, cutChanges, cutMessages>>
  BY DEF RunBegins, PromptFails, Steer, AgentEnds, Compacts, ToolFails, ShowSession, LoadOlder,
     vars, checkpointVars, diffVars, messageVars, historyVars
<1>2. Ways' /\ FilesRedone' = FilesRedone
  BY <1>1, SameWays DEF Kept, Ways
<1>3. /\ saved' = saved \/ saved' = NoSaved
      /\ context' = context \/ saved' = NoSaved \/ activity = "running"
      /\ activity' # "idle" => activity # "idle"
      /\ activity' = "running" => activity = "running" \/ saved' = NoSaved
      /\ pending' \subseteq pending
      /\ activity' = activity \/ activity # "running" \/ pending = {}
  BY DEF RunBegins, PromptFails, Steer, AgentEnds, Compacts, ToolFails, ShowSession, LoadOlder,
     Preparing, vars, checkpointVars, diffVars, messageVars, historyVars
<1>4. Working'
  BY <1>1, <1>3 DEF Working, Kept, NoSaved
<1>5. Reversible'
  <2>1. CASE saved' = NoSaved
    BY <2>1 DEF Reversible, NoSaved
  <2>2. CASE saved' = saved /\ context' = context
    BY <1>1, <1>2, <2>2 DEF Kept, Reversible
  <2>3. CASE saved' = saved /\ activity = "running"
    BY <2>3 DEF Kept, Working, Reversible
  <2> QED
    BY <1>3, <2>1, <2>2, <2>3
<1> QED
  BY <1>2, <1>4, <1>5

LEMMA KeptCapture ==
    ASSUME Kept, Typed', NEW q \in Path, ToolStart(q), turn \in DOMAIN checkpoints
    PROVE  Working' /\ Ways'
<1> DEFINE old == checkpoints[turn]
           one == [x \in {q} |-> disk[q]]
           e == [path |-> q, turn |-> turn]
<1>1. UNCHANGED <<disk, activity, turn, currentTurn, suspended, rollback, before, astray, saved>>
  BY DEF ToolStart
<1>2. activity = "running" /\ currentTurn = turn
  BY DEF ToolStart, Kept, Working
<1>3. Calm /\ Calm'
  BY <1>1, CurrentIsCalm DEF Kept, Ways, Calm
<1>4. turn \in Nat /\ DOMAIN checkpoints \subseteq 1..turn
  BY DEF Kept, Typed, FilesTyped, CheckpointsTyped
<1>5. checkpoints' = [checkpoints EXCEPT ![turn] = Merge(one, old)] /\ pending' = pending \cup {e}
  BY <1>2 DEF ToolStart, recordFileState
<1>6. e.turn = turn /\ e.path = q
  OBVIOUS
<1>7. /\ DOMAIN Merge(one, old) = DOMAIN old \cup {q}
      /\ \A x \in DOMAIN old : Merge(one, old)[x] = old[x]
      /\ q \notin DOMAIN old => Merge(one, old)[q] = disk[q]
  BY DEF Merge
<1> DEFINE new == Merge(one, old)
<1>8. checkpoints' = [checkpoints EXCEPT ![turn] = new]
  BY <1>5
<1> HIDE DEF one, e, new
<1>9. /\ DOMAIN checkpoints' = DOMAIN checkpoints
      /\ \A t \in DOMAIN checkpoints : t # turn => checkpoints'[t] = checkpoints[t]
      /\ checkpoints'[turn] = new
  BY <1>8
<1>10. /\ DOMAIN checkpoints'[turn] = DOMAIN checkpoints[turn] \cup {q}
       /\ \A x \in DOMAIN checkpoints[turn] : checkpoints'[turn][x] = checkpoints[turn][x]
       /\ q \notin DOMAIN checkpoints[turn] => checkpoints'[turn][q] = disk[q]
  BY <1>7, <1>9 DEF new
<1> HIDE DEF old
<1>11. Working'
  <2>1. ASSUME NEW x \in pending'
        PROVE  x.turn = turn /\ x.path \in DOMAIN checkpoints'[turn]
    BY <1>5, <1>6, <1>10 DEF Kept, Working
  <2> QED
    BY <1>1, <1>2, <2>1 DEF Working, Kept
<1>12. Divided' /\ Dated'
  BY <1>1, <1>9 DEF Divided, Dated, Kept, Ways
<1>13. ASSUME NEW t \in DOMAIN checkpoints', NEW p \in Path, astray'[p] < t
       PROVE  Returns(checkpoints', disk', t, p, before'[t][p])
  <2>1. Returns(checkpoints, disk, t, p, before[t][p])
    BY <1>1, <1>9, <1>13 DEF Kept, Ways, Rewinds
  <2>2. t \in Nat /\ t <= turn /\ DOMAIN checkpoints \subseteq 0..turn
    BY <1>4, <1>9
  <2>3. Returns(checkpoints', disk, t, p, before[t][p])
    BY <1>4, <1>9, <1>10, <2>1, <2>2, ReturnsCaptured
  <2> QED
    BY <1>1, <2>3
<1>14. Rewinds'
  BY <1>13 DEF Rewinds
<1>15. Redoes'
  BY <1>3, <1>14, CalmRedoesNext
<1> QED
  BY <1>11, <1>12, <1>14, <1>15 DEF Ways

LEMMA KeptToolStart ==
    ASSUME Kept, Typed', NEW q \in Path, ToolStart(q)
    PROVE  Working' /\ Ways' /\ Reversible'
<1>1. UNCHANGED <<disk, activity, turn, currentTurn, suspended, rollback, before, astray, saved>>
      /\ activity = "running" /\ currentTurn = turn /\ ~ saved.valid
  BY DEF ToolStart, Kept, Working
<1>2. ASSUME turn \in DOMAIN checkpoints PROVE Working' /\ Ways'
  BY <1>2, KeptCapture
<1>3. ASSUME turn \notin DOMAIN checkpoints PROVE Working' /\ Ways'
  <2> DEFINE e == [path |-> q, turn |-> turn]
  <2>1. checkpoints' = checkpoints /\ pending' = pending \cup {e}
    BY <1>1, <1>3 DEF ToolStart, recordFileState
  <2>2. e.turn = turn
    OBVIOUS
  <2> HIDE DEF e
  <2>3. Working'
    BY <1>1, <1>3, <2>1, <2>2 DEF Working, Kept
  <2>4. Ways'
    BY <1>1, <2>1, SameWays DEF Kept, Ways
  <2> QED
    BY <2>3, <2>4
<1>4. Working' /\ Ways'
  BY <1>2, <1>3
<1>5. Reversible'
  BY <1>1 DEF Reversible, Kept
<1> QED
  BY <1>4, <1>5

LEMMA KeptToolUnseen ==
    ASSUME Kept, Typed', NEW q \in Path, ToolUnseen(q)
    PROVE  Working' /\ Ways' /\ Reversible'
<1>1. UNCHANGED <<activity, turn, currentTurn, checkpoints, suspended, rollback, before, saved, pending>>
      /\ activity = "running"
  BY DEF ToolUnseen, checkpointVars, diffVars
<1>2. \A p \in Path : p # q => disk'[p] = disk[p]
  BY DEF ToolUnseen, Write, Kept, Typed, FilesTyped
<1>3. Working'
  BY <1>1 DEF Working, Kept
<1>4. Ways'
  <2>1. Typed /\ Ways /\ Stray(q)
    BY DEF ToolUnseen, Kept
  <2> QED
    BY <1>1, <1>2, <2>1, StrayWays
<1>5. Reversible'
  BY <1>1 DEF Reversible, Kept, Working
<1> QED
  BY <1>3, <1>4, <1>5

LEMMA KeptToolEnd ==
    ASSUME Kept, Typed', NEW e \in pending, ToolEnd(e)
    PROVE  Working' /\ Ways' /\ Reversible'
<1>1. UNCHANGED <<activity, turn, currentTurn, checkpoints, suspended, rollback, before, saved>>
      /\ pending' \subseteq pending
  BY DEF ToolEnd, checkpointVars
<1>2. /\ activity = "running" /\ currentTurn = turn /\ ~ saved.valid /\ e.path \in Path
      /\ turn \in DOMAIN checkpoints => e.path \in DOMAIN checkpoints[turn]
  BY DEF Kept, Working, Typed, ChangesTyped
<1>3. turn \in Nat /\ DOMAIN checkpoints \subseteq 1..turn
      /\ \A p \in Path : p # e.path => disk'[p] = disk[p]
  BY DEF Kept, Typed, FilesTyped, CheckpointsTyped, ToolEnd, Write
<1>4. Working'
  BY <1>1 DEF Working, Kept
<1>5. CASE turn \in DOMAIN checkpoints
  <2>1. astray' = astray
    BY <1>2, <1>5 DEF ToolEnd
  <2>2. Calm'
    BY <1>1, <1>5, CurrentIsCalm DEF Kept, Ways, Calm
  <2>3. Divided' /\ Dated'
    BY <1>1 DEF Divided, Dated, Kept, Ways
  <2>4. ASSUME NEW t \in DOMAIN checkpoints, NEW p \in Path, astray[p] < t
        PROVE  Returns(checkpoints, disk', t, p, before[t][p])
    <3>1. Returns(checkpoints, disk, t, p, before[t][p])
      BY <2>4 DEF Kept, Ways, Rewinds
    <3>2. CASE p = e.path
      <4>1. turn >= t
        BY <1>3
      <4>2. Holds(checkpoints, t, p, turn)
        BY <1>2, <1>5, <3>2, <4>1 DEF Holds
      <4> QED
        BY <3>1, <4>2, ReturnsWritten
    <3>3. CASE p # e.path
      <4>1. disk'[p] = disk[p]
        BY <1>3, <3>3
      <4> QED
        BY <3>1, <4>1, ReturnsSame
    <3> QED
      BY <3>2, <3>3
  <2>5. Rewinds'
    BY <1>1, <2>1, <2>4 DEF Rewinds
  <2>6. Redoes'
    BY <2>2, <2>5, CalmRedoesNext
  <2> QED
    BY <1>1, <1>2, <1>4, <2>3, <2>5, <2>6 DEF Ways, Reversible, Kept
<1>6. CASE turn \notin DOMAIN checkpoints
  <2>1. Stray(e.path)
    BY <1>2, <1>6 DEF ToolEnd
  <2>2. Ways'
    <3>1. Typed /\ Ways
      BY DEF Kept
    <3> QED
      BY <1>1, <1>2, <1>3, <2>1, <3>1, StrayWays
  <2> QED
    BY <1>1, <1>2, <1>4, <2>2 DEF Reversible, Kept
<1> QED
  BY <1>5, <1>6

\* A file undone by hand leaves the way back, and is lost to a rollback.
LEMMA KeptUndoFile ==
    ASSUME Kept, Typed', NEW q \in Path, UndoFile(q)
    PROVE  Working' /\ Ways' /\ Reversible'
<1>1. UNCHANGED <<activity, turn, currentTurn, checkpoints, suspended, rollback, before, pending>>
      /\ UNCHANGED <<cutChanges, context, cutMessages>>
      /\ Stray(q) /\ activity # "running" /\ changes' = {c \in changes : c.path # q}
  BY DEF UndoFile, checkpointVars, messageVars, FileHistoryIdle
<1>2. \A p \in Path : p # q => disk'[p] = disk[p]
  BY DEF UndoFile, Kept, Typed, FilesTyped
<1>3. Typed /\ Ways
  BY DEF Kept
<1>4. Ways' /\ \A p \in Path : p # q => FilesRedone'[p] = FilesRedone[p]
  BY <1>1, <1>2, <1>3, StrayWays
<1>5. Working'
  BY <1>1 DEF Working, Kept
<1>6. Reversible'
  <2>1. CASE rollback = NoPoint
    <3>1. saved' = saved
      BY <2>1 DEF UndoFile
    <3>2. ~ saved.valid
      BY <2>1 DEF Kept, NoRollback
    <3> QED
      BY <3>1, <3>2 DEF Kept, Reversible
  <2>2. CASE rollback # NoPoint
    <3> DEFINE lost == saved.lost \cup {q}
    <3>1. saved' = [saved EXCEPT !.lost = lost]
      BY <2>2 DEF UndoFile
    <3> HIDE DEF lost
    <3>2. DOMAIN saved = {"valid", "again", "lost", "disk", "changes", "context"}
      BY DEF Kept, Reversible
    <3>3. /\ DOMAIN saved' = DOMAIN saved /\ saved'.lost = lost
          /\ saved'.valid = saved.valid /\ saved'.again = saved.again /\ saved'.disk = saved.disk
          /\ saved'.changes = saved.changes /\ saved'.context = saved.context
      BY <3>1, <3>2
    <3>4. ASSUME saved.valid, NEW p \in Path \ lost
          PROVE  saved.disk[p] = FilesRedone'[p]
      BY <1>4, <3>4 DEF lost, Kept, Reversible
    <3>5. ASSUME Elsewhere(changes \cup cutChanges, saved.lost) = Elsewhere(saved.changes, saved.lost)
          PROVE  Elsewhere(changes' \cup cutChanges, lost) = Elsewhere(saved.changes, lost)
      BY <1>1, <3>5 DEF Elsewhere, lost
    <3> QED
      BY <1>1, <3>2, <3>3, <3>4, <3>5 DEF Kept, Reversible
  <2> QED
    BY <2>1, <2>2
<1> QED
  BY <1>4, <1>5, <1>6

\* What a restore makes of the checkpoints.
LEMMA RestoreSuspends ==
    ASSUME Typed, NEW index \in Nat, NEW unreadable, NEW failed,
           RestoreFiles(index, unreadable, failed)
    PROVE  /\ DOMAIN checkpoints' = {t \in DOMAIN checkpoints : ~ (t > index)}
           /\ \A t \in DOMAIN checkpoints' : checkpoints'[t] = checkpoints[t]
           /\ DOMAIN suspended' = DOMAIN suspended \cup {t \in DOMAIN checkpoints : t > index}
           /\ \A t \in DOMAIN suspended : suspended'[t] = suspended[t]
           /\ \A t \in DOMAIN suspended' \ DOMAIN suspended :
                 /\ suspended'[t].before = checkpoints[t]
                 /\ DOMAIN suspended'[t].after = DOMAIN checkpoints[t] \ unreadable
                 /\ \A p \in DOMAIN suspended'[t].after : suspended'[t].after[p] = disk[p]
<1> DEFINE turns == TurnsAfter(index)
           moved == [t \in turns |->
                       [before |-> checkpoints[t],
                        after  |-> Only(disk, DOMAIN checkpoints[t] \ unreadable)]]
<1>1. turns = {t \in DOMAIN checkpoints : t > index} /\ DOMAIN moved = turns
  BY DEF TurnsAfter
<1>2. DOMAIN suspended \cap DOMAIN checkpoints = {} /\ DOMAIN disk = Path
      /\ \A t \in DOMAIN checkpoints : DOMAIN checkpoints[t] \subseteq Path
  BY DEF Typed, FilesTyped, CheckpointsTyped, Snapshot
<1>3. ASSUME NEW t \in turns
      PROVE  /\ moved[t].before = checkpoints[t]
             /\ DOMAIN moved[t].after = DOMAIN checkpoints[t] \ unreadable
             /\ \A p \in DOMAIN moved[t].after : moved[t].after[p] = disk[p]
  <2> DEFINE kept == Only(disk, DOMAIN checkpoints[t] \ unreadable)
  <2>1. moved[t].before = checkpoints[t] /\ moved[t].after = kept
    OBVIOUS
  <2>2. DOMAIN kept = DOMAIN disk \cap (DOMAIN checkpoints[t] \ unreadable)
        /\ \A p \in DOMAIN kept : kept[p] = disk[p]
    BY DEF Only
  <2>3. t \in DOMAIN checkpoints
    BY <1>1
  <2> HIDE DEF moved, kept, turns
  <2>4. DOMAIN kept = DOMAIN checkpoints[t] \ unreadable
    BY <1>2, <2>2, <2>3
  <2> QED
    BY <2>1, <2>2, <2>4
<1>4. suspended' = Merge(suspended, moved)
      /\ checkpoints' = Only(checkpoints, CheckpointsLeft(turns))
  BY DEF RestoreFiles
<1> HIDE DEF moved, turns
<1>5. /\ DOMAIN checkpoints' = DOMAIN checkpoints \cap (DOMAIN checkpoints \ turns)
      /\ \A t \in DOMAIN checkpoints' : checkpoints'[t] = checkpoints[t]
  BY <1>4 DEF Only, CheckpointsLeft
<1>6. /\ DOMAIN suspended' = DOMAIN suspended \cup DOMAIN moved
      /\ \A t \in DOMAIN suspended' :
            suspended'[t] = IF t \in DOMAIN moved THEN moved[t] ELSE suspended[t]
  BY <1>4 DEF Merge
<1>7. /\ DOMAIN checkpoints' = {t \in DOMAIN checkpoints : ~ (t > index)}
      /\ DOMAIN suspended' = DOMAIN suspended \cup {t \in DOMAIN checkpoints : t > index}
  BY <1>1, <1>5, <1>6
<1>8. \A t \in DOMAIN suspended : suspended'[t] = suspended[t]
  BY <1>1, <1>2, <1>6
<1>9. \A t \in DOMAIN suspended' \ DOMAIN suspended : t \in turns /\ suspended'[t] = moved[t]
  BY <1>1, <1>6
<1> QED
  BY <1>3, <1>5, <1>7, <1>8, <1>9

LEMMA KeptRestore ==
    ASSUME Kept, Typed',
           NEW pos \in Shown, NEW unreadable, NEW failed, Restore(pos, unreadable, failed)
    PROVE  Working' /\ Ways' /\ Reversible'
<1>1. PICK index \in Nat : index = MessageIndex(pos)
  BY DEF Kept, Typed, MessagesTyped, Shown, MessageIndex
<1>2. RestoreFiles(index, unreadable, failed) /\ SuspendChangesAfter(index) /\ CutMessages(index)
      /\ UNCHANGED <<activity, turn, currentTurn, pending, before>> /\ activity # "running"
      /\ (rollback # NoPoint => index + 1 <= rollback)
  <2>1. pos = index + 1
    BY <1>1 DEF MessageIndex, Shown
  <2> QED
    BY <1>1, <2>1 DEF Restore, FileHistoryIdle, Clickable
<1>3. rollback' = index
      /\ astray' = [p \in Path |-> IF p \in unreadable \cup failed THEN turn ELSE astray[p]]
  BY <1>2 DEF RestoreFiles, Astray
<1>4. Typed
  BY DEF Kept
<1>5. turn \in Nat /\ DOMAIN checkpoints \subseteq 1..turn /\ DOMAIN suspended \subseteq 1..turn
      /\ DOMAIN suspended \cap DOMAIN checkpoints = {} /\ rollback \in Nat \cup {NoPoint}
  BY <1>4 DEF Typed, FilesTyped, CheckpointsTyped
<1>6. /\ DOMAIN checkpoints' = {t \in DOMAIN checkpoints : ~ (t > index)}
      /\ \A t \in DOMAIN checkpoints' : checkpoints'[t] = checkpoints[t]
      /\ DOMAIN suspended' = DOMAIN suspended \cup {t \in DOMAIN checkpoints : t > index}
      /\ \A t \in DOMAIN suspended : suspended'[t] = suspended[t]
      /\ \A t \in DOMAIN suspended' \ DOMAIN suspended :
            /\ suspended'[t].before = checkpoints[t]
            /\ DOMAIN suspended'[t].after = DOMAIN checkpoints[t] \ unreadable
            /\ \A p \in DOMAIN suspended'[t].after : suspended'[t].after[p] = disk[p]
  BY <1>2, <1>4, RestoreSuspends
<1>7. Working'
  BY <1>2 DEF Kept, Working
<1>8. Dated'
  BY <1>2, <1>6 DEF Kept, Ways, Dated
<1>9. rollback = NoPoint => DOMAIN suspended = {}
  BY DEF Kept, NothingSuspended
<1>10. \A t \in DOMAIN suspended, u \in DOMAIN checkpoints : rollback # NoPoint /\ ~ (t <= rollback) /\ u <= rollback
  BY <1>9 DEF Kept, Ways, Divided
<1>11. Divided'
  <2>1. ASSUME NEW t \in DOMAIN checkpoints' PROVE t <= index
    BY <1>5, <1>6
  <2>2. ASSUME NEW t \in DOMAIN suspended' PROVE ~ (t <= index)
    <3>1. CASE t \in DOMAIN suspended
      <4>1. rollback # NoPoint /\ ~ (t <= rollback)
        BY <1>9, <3>1 DEF Kept, Ways, Divided
      <4> QED
        BY <1>2, <1>5, <3>1, <4>1 DEF NoPoint
    <3>2. CASE t \in DOMAIN checkpoints /\ t > index
      BY <1>5, <3>2
    <3> QED
      BY <1>6, <3>1, <3>2
  <2> QED
    BY <1>3, <2>1, <2>2 DEF Divided
<1>12. ASSUME NEW t \in DOMAIN AllCheckpoints, NEW p \in Path, astray'[p] < t
       PROVE  astray[p] < t /\ p \notin unreadable \cup failed
  <2>1. t \in Nat /\ t <= turn
    BY <1>5, AllCheckpointsAt
  <2> QED
    BY <1>3, <1>5, <1>12, <2>1
<1>13. ASSUME NEW p \in Path \ failed PROVE Returns(checkpoints, disk, index + 1, p, disk'[p])
  BY <1>2, <1>4, RestoreReturns
<1>14. Rewinds'
  <2>1. ASSUME NEW t \in DOMAIN checkpoints', NEW p \in Path, astray'[p] < t
        PROVE  Returns(checkpoints', disk', t, p, before'[t][p])
    <3>1. t \in DOMAIN checkpoints /\ t \in DOMAIN AllCheckpoints /\ t \in Nat /\ t <= index
      BY <1>5, <1>6, AllCheckpointsAt
    <3>2. astray[p] < t /\ p \notin failed
      BY <1>12, <2>1, <3>1
    <3>3. Returns(checkpoints, disk, t, p, before[t][p])
      BY <3>1, <3>2 DEF Kept, Ways, Rewinds
    <3>4. Returns(checkpoints, disk, index + 1, p, disk'[p])
      BY <1>13, <3>2
    <3>5. DOMAIN checkpoints \subseteq Nat
      BY <1>5
    <3>6. Returns(checkpoints', disk', t, p, before[t][p])
      BY <1>6, <3>1, <3>3, <3>4, <3>5, ReturnsRestored
    <3> QED
      BY <1>2, <3>6
  <2> QED
    BY <2>1 DEF Rewinds
<1>15. /\ DOMAIN AllCheckpoints' = DOMAIN AllCheckpoints
       /\ \A t \in DOMAIN AllCheckpoints : AllCheckpoints'[t] = AllCheckpoints[t]
  <2>1. /\ DOMAIN AllCheckpoints' = DOMAIN checkpoints' \cup DOMAIN suspended'
        /\ \A t \in DOMAIN AllCheckpoints' :
              AllCheckpoints'[t] = IF t \in DOMAIN suspended' THEN suspended'[t].before ELSE checkpoints'[t]
    BY DEF AllCheckpoints, Merge
  <2>2. DOMAIN AllCheckpoints' = DOMAIN AllCheckpoints
    BY <1>6, <2>1, AllCheckpointsAt
  <2>3. ASSUME NEW t \in DOMAIN AllCheckpoints PROVE AllCheckpoints'[t] = AllCheckpoints[t]
    <3>1. CASE t \in DOMAIN suspended
      BY <1>6, <2>1, <2>2, <3>1, AllCheckpointsAt
    <3>2. CASE t \notin DOMAIN suspended /\ t \in DOMAIN suspended'
      BY <1>6, <2>1, <2>2, <3>2, AllCheckpointsAt
    <3>3. CASE t \notin DOMAIN suspended'
      BY <1>6, <2>1, <2>2, <3>3, AllCheckpointsAt
    <3> QED
      BY <3>1, <3>2, <3>3
  <2> QED
    BY <2>2, <2>3
<1>16. ASSUME NEW p \in Path, p \notin unreadable
       PROVE  FilesRedone'[p] = FilesRedone[p]
  <2>1. Latest(suspended, disk, p, FilesRedone[p]) /\ Latest(suspended', disk', p, FilesRedone'[p])
    BY <1>4, RedoneIsLatest, RedoneIsLatestNext DEF RedoneLatest
  <2>2. Returns(checkpoints, disk, index + 1, p, disk'[p]) \/ disk'[p] = disk[p]
    <3>1. CASE p \in failed
      BY <1>2, <1>4, <3>1, RestoreSkips
    <3> QED
      BY <1>13, <3>1
  <2>3. \A u \in DOMAIN suspended, w \in DOMAIN checkpoints : w <= u
    <3>1. ASSUME NEW u \in DOMAIN suspended, NEW w \in DOMAIN checkpoints PROVE w <= u
      <4>1. rollback \in Nat /\ ~ (u <= rollback) /\ w <= rollback
        BY <1>5, <1>10
      <4> QED
        BY <1>5, <4>1
    <3> QED
      BY <3>1
  <2>4. \A u \in DOMAIN suspended' \ DOMAIN suspended :
           /\ p \in DOMAIN suspended'[u].after <=> p \in DOMAIN checkpoints[u]
           /\ p \in DOMAIN checkpoints[u] => suspended'[u].after[p] = disk[p]
    BY <1>6, <1>16
  <2>5. DOMAIN checkpoints \subseteq 0..turn /\ DOMAIN suspended' \subseteq Nat
    BY <1>5, <1>6
  <2>6. Latest(suspended', disk', p, FilesRedone[p])
    BY <1>5, <1>6, <2>1, <2>2, <2>3, <2>4, <2>5, LatestRestored
  <2> QED
    BY <2>1, <2>5, <2>6, LatestOne
<1>17. Redoes'
  <2>1. ASSUME NEW t \in DOMAIN AllCheckpoints', NEW p \in Path, astray'[p] < t
        PROVE  Returns(AllCheckpoints', FilesRedone', t, p, before'[t][p])
    <3>1. t \in DOMAIN AllCheckpoints
      BY <1>15, <2>1
    <3>2. astray[p] < t /\ p \notin unreadable \cup failed
      BY <1>12, <2>1, <3>1
    <3>3. Returns(AllCheckpoints, FilesRedone, t, p, before[t][p])
      BY <3>1, <3>2 DEF Kept, Ways, Redoes
    <3>4. FilesRedone'[p] = FilesRedone[p]
      BY <1>16, <3>2
    <3>5. Returns(AllCheckpoints', FilesRedone', t, p, before[t][p])
      BY <1>15, <3>3, <3>4, ReturnsSame
    <3> QED
      BY <1>2, <3>5
  <2> QED
    BY <2>1 DEF Redoes
<1>18. Reversible'
  <2>1. CASE rollback # NoPoint
    <3> DEFINE lost == saved.lost \cup unreadable
    <3>1. saved' = [saved EXCEPT !.again = TRUE, !.lost = lost]
      BY <1>2, <2>1 DEF RestoreFiles
    <3> HIDE DEF lost
    <3>2. DOMAIN saved = {"valid", "again", "lost", "disk", "changes", "context"}
      BY DEF Kept, Reversible
    <3>3. /\ saved'.valid = saved.valid /\ saved'.disk = saved.disk /\ saved'.again
          /\ saved'.lost = lost /\ DOMAIN saved' = DOMAIN saved
      BY <3>1, <3>2
    <3>4. ASSUME saved.valid, NEW p \in Path \ lost PROVE saved.disk[p] = FilesRedone'[p]
      BY <1>16, <3>4 DEF lost, Kept, Reversible
    <3> QED
      BY <3>2, <3>3, <3>4 DEF Reversible
  <2>2. CASE rollback = NoPoint
    <3>1. saved' = [valid |-> TRUE, again |-> FALSE, lost |-> unreadable, disk |-> disk,
                    changes |-> changes, context |-> context]
      BY <1>2, <2>2 DEF RestoreFiles
    <3>2. saved'.lost = unreadable /\ saved'.disk = disk /\ saved'.changes = changes
          /\ saved'.context = context
          /\ DOMAIN saved' = {"valid", "again", "lost", "disk", "changes", "context"}
      BY <3>1
    <3>3. FilesRedone = disk
      <4>1. Calm
        BY <2>2 DEF Kept, NothingSuspended, Calm
      <4> QED
        BY <4>1, CalmRedoes DEF Kept, Ways, RedoneAlready
    <3>4. \A p \in Path \ unreadable : FilesRedone'[p] = disk[p]
      BY <1>16, <3>3
    <3>5. changes' \cup cutChanges' = changes
      BY <1>2 DEF SuspendChangesAfter
    <3>6. context' \o cutMessages' = context
      <4>1. context \in Seq(0..turn) /\ cutMessages = <<>> /\ Len(context) \in Nat
        BY <2>2, LenProperties DEF Kept, NothingSuspended, Typed, MessagesTyped
      <4>2. CASE index < Len(context)
        <5>1. index <= Len(context)
          BY <4>1, <4>2
        <5>2. SubSeq(context, 1, index) \o SubSeq(context, index + 1, Len(context)) = context
          BY <4>1, <5>1, PartOfSeq
        <5> QED
          BY <1>2, <4>2, <5>2 DEF CutMessages
      <4>3. CASE ~ (index < Len(context))
        <5>1. context' = context /\ cutMessages' = <<>>
          BY <1>2, <4>1, <4>3 DEF CutMessages
        <5> QED
          BY <4>1, <5>1, ConcatEmptySeq
      <4> QED
        BY <4>2, <4>3
    <3> QED
      BY <3>2, <3>4, <3>5, <3>6 DEF Reversible
  <2> QED
    BY <2>1, <2>2
<1> QED
  BY <1>7, <1>8, <1>11, <1>14, <1>17, <1>18 DEF Ways

\* A redo brings the files it could write to where they were.
LEMMA RedoBrings ==
    ASSUME Typed, NEW failed, Redo(failed)
    PROVE  /\ checkpoints' = AllCheckpoints
           /\ \A p \in Path \ failed : disk'[p] = FilesRedone[p]
           /\ Path \cap failed = {} => disk' = FilesRedone
<1>1. disk \in [Path -> Content] /\ Snapshot(FilesAfter)
  BY FilesAfterTyped DEF Typed, FilesTyped
<1>2. disk' = Merge(disk, Only(FilesAfter, Path \ failed))
  BY DEF Redo
<1> DEFINE back == Only(FilesAfter, Path \ failed)
<1>3. DOMAIN back = DOMAIN FilesAfter \ failed /\ \A p \in DOMAIN back : back[p] = FilesAfter[p]
  BY <1>1 DEF Only, Snapshot
<1>4. disk' = Merge(disk, back)
  BY <1>2
<1>5. Snapshot(back)
  BY <1>1, SnapshotOnly
<1> HIDE DEF back
<1>6. disk' \in [Path -> Content] /\ FilesRedone \in [Path -> Content]
  BY <1>1, <1>4, <1>5, WrittenOver DEF FilesRedone
<1>7. \A p \in Path : /\ disk'[p] = IF p \in DOMAIN back THEN back[p] ELSE disk[p]
                      /\ FilesRedone[p] = IF p \in DOMAIN FilesAfter THEN FilesAfter[p] ELSE disk[p]
  BY <1>1, <1>4 DEF FilesRedone, Merge
<1>8. \A p \in Path \ failed : disk'[p] = FilesRedone[p]
  BY <1>3, <1>7
<1>9. Path \cap failed = {} => disk' = FilesRedone
  BY <1>6, <1>8
<1> QED
  BY <1>8, <1>9 DEF Redo, AllCheckpoints

LEMMA KeptRedo ==
    ASSUME Kept, Typed', NEW failed, Redo(failed)
    PROVE  Working' /\ Ways' /\ Reversible'
<1>1. /\ UNCHANGED <<activity, turn, currentTurn, pending, before>> /\ activity # "running"
      /\ suspended' = <<>> /\ rollback' = NoPoint /\ saved' = NoSaved
      /\ astray' = [p \in Path |-> IF p \in failed THEN turn ELSE astray[p]]
  BY DEF Redo, FileHistoryIdle, Astray
<1>2. Calm' /\ DOMAIN suspended' = {}
  BY <1>1 DEF Calm
<1>3. checkpoints' = AllCheckpoints /\ \A p \in Path \ failed : disk'[p] = FilesRedone[p]
  BY RedoBrings DEF Kept
<1>4. turn \in Nat /\ DOMAIN AllCheckpoints \subseteq 1..turn /\ DOMAIN AllCheckpoints \subseteq DOMAIN before
  BY AllCheckpointsAt DEF Kept, Typed, FilesTyped, CheckpointsTyped, Ways, Dated
<1>5. Working' /\ Divided' /\ Dated'
  BY <1>1, <1>2, <1>3, <1>4 DEF Working, Divided, Dated, Kept
<1>6. ASSUME NEW t \in DOMAIN AllCheckpoints, NEW p \in Path, astray'[p] < t
      PROVE  Returns(AllCheckpoints, disk', t, p, before[t][p])
  <2>1. t \in Nat /\ t <= turn
    BY <1>4
  <2>2. p \notin failed /\ astray[p] < t
    BY <1>1, <1>4, <1>6, <2>1
  <2>3. Returns(AllCheckpoints, FilesRedone, t, p, before[t][p])
    BY <2>2 DEF Kept, Ways, Redoes
  <2>4. disk'[p] = FilesRedone[p]
    BY <1>3, <2>2
  <2> QED
    BY <2>3, <2>4, ReturnsSame
<1>7. Rewinds'
  BY <1>1, <1>3, <1>6 DEF Rewinds
<1>8. Redoes'
  BY <1>2, <1>7, CalmRedoesNext
<1>9. Reversible'
  BY <1>1 DEF Reversible, NoSaved
<1> QED
  BY <1>5, <1>7, <1>8, <1>9 DEF Ways

LEMMA NoRollbackStays == Numbered /\ NoRollback /\ [Next]_vars => NoRollback'
<1> SUFFICES ASSUME Numbered, NoRollback, [Next]_vars PROVE NoRollback'
  OBVIOUS
<1>1. CASE \E pos \in Shown, unreadable, failed \in Failing : Restore(pos, unreadable, failed)
  BY <1>1, RestoreRollsBack DEF NoRollback
<1>2. ASSUME \/ \E k \in 0..MaxResumed : LoadSession(k)
             \/ \E failed \in Failing : Redo(failed)
             \/ StartTurn \/ RunBegins \/ Compacts
      PROVE  saved' = NoSaved
  BY <1>2 DEF LoadSession, Redo, StartTurn, RunBegins, Compacts
<1>3. ASSUME \/ \E p \in Path : ToolStart(p) \/ ToolUnseen(p)
             \/ \E e \in pending : ToolEnd(e) \/ ToolFails(e)
             \/ PromptFails \/ Steer \/ AgentEnds \/ ShowSession \/ LoadOlder \/ UNCHANGED vars
      PROVE  UNCHANGED <<saved, rollback>>
  BY <1>3 DEF ToolStart, ToolUnseen, ToolEnd, ToolFails, PromptFails, Steer, AgentEnds,
     ShowSession, LoadOlder, vars, checkpointVars, historyVars
<1>4. ASSUME NEW p \in Path, UndoFile(p)
      PROVE  rollback' = rollback /\ (rollback = NoPoint => saved' = saved)
  BY <1>4 DEF UndoFile, checkpointVars
<1> QED
  BY <1>1, <1>2, <1>3, <1>4 DEF Next, NoRollback, NoSaved

LEMMA KeptStays == Kept /\ [Next]_vars => Kept'
<1> SUFFICES ASSUME Kept, [Next]_vars PROVE Kept'
  OBVIOUS
<1>1. Typed'
  BY TypedStays DEF Kept
<1>2. NothingSuspended' /\ NoRollback'
  <2>1. Numbered
    <3>1. branch \in Seq(0..turn) /\ turn \in Nat /\ hidden \in Nat
      BY LenProperties DEF Kept, Typed, FilesTyped, MessagesTyped
    <3>2. branch \in Seq(Nat)
      BY <3>1
    <3> QED
      BY <3>1, <3>2 DEF Numbered
  <2> QED
    BY <2>1, SuspendedStep, NoRollbackStays DEF Kept
<1>3. Working' /\ Ways' /\ Reversible'
  <2>1. CASE \/ RunBegins \/ PromptFails \/ Steer \/ AgentEnds \/ Compacts
             \/ \E e \in pending : ToolFails(e)
             \/ ShowSession \/ LoadOlder \/ UNCHANGED vars
    BY <2>1, KeptQuiet
  <2>2. CASE \E k \in 0..MaxResumed : LoadSession(k)
    BY <1>1, <2>2, KeptLoadSession
  <2>3. CASE StartTurn
    BY <1>1, <2>3, KeptStartTurn
  <2>4. CASE \E p \in Path : ToolStart(p) \/ ToolUnseen(p)
    BY <1>1, <2>4, KeptToolStart, KeptToolUnseen
  <2>5. CASE \E e \in pending : ToolEnd(e)
    BY <1>1, <2>5, KeptToolEnd
  <2>6. CASE \E p \in Path : UndoFile(p)
    BY <1>1, <2>6, KeptUndoFile
  <2>7. CASE \E pos \in Shown, unreadable, failed \in Failing : Restore(pos, unreadable, failed)
    BY <1>1, <2>7, KeptRestore
  <2>8. CASE \E failed \in Failing : Redo(failed)
    BY <1>1, <2>8, KeptRedo
  <2> QED
    BY <2>1, <2>2, <2>3, <2>4, <2>5, <2>6, <2>7, <2>8 DEF Next
<1> QED
  BY <1>1, <1>2, <1>3 DEF Kept

LEMMA KeptBegins == Init => Kept
<1>1. Init => NoRollback
  BY DEF Init, NoRollback, NoSaved
<1> QED
  BY <1>1, TypedStart, RollbackInit, KeptStart DEF Kept

\* A restore returns every file it can write to the content it had when the
\* message clicked was sent, but for files undone by hand since, left by a failed
\* operation or written without a checkpoint, while the three numberings agree
\* (ChatService.restoreCheckpoint counts the loaded messages, CheckpointManager
\* the turns).
THEOREM RestoreReaches == Spec => RestoreReachesCheckpointWhenAligned
<1> DEFINE Reaches == Aligned => \A pos \in Shown, unreadable, failed \in Failing :
                                   ReachesCheckpoint(pos, unreadable, failed)
<1>1. Kept /\ [Next]_vars => [Reaches]_vars
  <2> SUFFICES ASSUME Kept, Aligned, NEW pos \in Shown,
                      NEW unreadable \in Failing, NEW failed \in Failing,
                      Restore(pos, unreadable, failed),
                      branch[hidden + pos] \in DOMAIN checkpoints,
                      NEW p \in Path \ failed, astray[p] < branch[hidden + pos]
               PROVE  disk'[p] = before[branch[hidden + pos]][p]
    BY DEF ReachesCheckpoint
  <2>1. pos \in Nat /\ pos - 1 \in Nat /\ (pos - 1) + 1 = pos /\ branch[hidden + pos] = pos
    <3>1. Len(branch) \in Nat /\ DOMAIN branch = 1..Len(branch) /\ hidden = 0
      BY LenProperties DEF Kept, Typed, MessagesTyped, Aligned
    <3>2. pos \in 1..Len(branch) /\ hidden + pos = pos
      BY <3>1 DEF Shown
    <3> QED
      BY <3>1, <3>2 DEF Aligned
  <2>2. RestoreFiles(pos - 1, unreadable, failed)
    BY DEF Restore, MessageIndex
  <2>3. Returns(checkpoints, disk, (pos - 1) + 1, p, disk'[p])
    BY <2>1, <2>2, RestoreReturns DEF Kept
  <2>4. Returns(checkpoints, disk, pos, p, before[pos][p])
    BY <2>1 DEF Kept, Ways, Rewinds
  <2>5. DOMAIN checkpoints \subseteq Nat
    BY DEF Kept, Typed, CheckpointsTyped
  <2> QED
    BY <2>1, <2>3, <2>4, <2>5, ReturnsOne
<1> QED
  BY <1>1, KeptBegins, KeptStays, PTL DEF Spec, RestoreReachesCheckpointWhenAligned

\* A redo before the next run returns every file it can write to what the
\* rollback replaced, however many restores it took, and after a single one the
\* listed changes and the agent's context too; but for the files no restore could
\* read and those undone by hand meanwhile (ChatService.redoCheckpoint).
THEOREM RedoReturns == Spec => RedoUndoesRestore
<1> DEFINE Undoes(failed) ==
             /\ \A p \in Path \ (failed \cup saved.lost) : disk'[p] = saved.disk[p]
             /\ \/ saved.again
                \/ /\ Elsewhere(changes', saved.lost) = Elsewhere(saved.changes, saved.lost)
                   /\ context' = saved.context
           Undone == \A failed \in Failing : Redo(failed) /\ saved.valid => Undoes(failed)
<1>1. Kept /\ [Next]_vars => [Undone]_vars
  <2> SUFFICES ASSUME Kept, NEW failed \in Failing, Redo(failed), saved.valid
               PROVE  Undoes(failed)
    OBVIOUS
  <2>1. \A p \in Path \ failed : disk'[p] = FilesRedone[p]
    BY RedoBrings DEF Kept
  <2>2. changes' = changes \cup cutChanges /\ context' = context \o cutMessages
    BY DEF Redo
  <2> QED
    BY <2>1, <2>2 DEF Kept, Reversible
<1> QED
  BY <1>1, KeptBegins, KeptStays, PTL DEF Spec, RedoUndoesRestore
=============================================================================
