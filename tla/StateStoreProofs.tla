-------------------------- MODULE StateStoreProofs --------------------------
(***************************************************************************)
(* Proofs about the state file, for every number of programs, mutations    *)
(* and failures.                                                           *)
(***************************************************************************)
EXTENDS StateStore, SequenceTheorems, TLAPS

\* With a lock, a program reads and writes the file only while it has it; without
\* one there is one program.
Locked == \A s \in Store :
    shared /\ phase[s] \in {"reading", "writing", "written", "failing"} => lock = s
Alone == ~shared => \A s, t \in up : s = t

\* A program that does not run has nothing to write; a write has a mutation.
Ended == \A s \in Store \ up : phase[s] = "idle" /\ pending[s] = <<>>
Busy  == \A s \in Store : phase[s] # "idle" => pending[s] # <<>>

\* A mutation waits in one place, and is not in the file before its write.
Distinct == \A s, t \in Store : \A i \in 1..Len(pending[s]), j \in 1..Len(pending[t]) :
    pending[s][i] = pending[t][j] => s = t /\ i = j
FileAsked == \A k \in 1..Len(file) : answer[file[k]] # "unasked"
NotYet == \A s \in Store : \A i \in 1..Len(pending[s]) :
    i > 1 \/ phase[s] \in {"idle", "locking", "reading", "writing"} =>
        \A k \in 1..Len(file) : file[k] # pending[s][i]

\* A state the file has had.
Past(state) == Len(state) <= Len(file) /\ \A k \in 1..Len(state) : state[k] = file[k]

\* What is written is the file and the mutation.
BaseIsFile == \A s \in Store :
    /\ phase[s] = "writing" => base[s] = file
    /\ phase[s] = "written" => file = Append(base[s], Head(pending[s]))
    /\ phase[s] = "saved" => Past(Append(base[s], Head(pending[s])))

CommittedIsPast == \A s \in up : Past(committed[s])

\* A program without a lock knows the file.
AloneKnows == ~shared => \A s \in up :
    /\ phase[s] \notin {"written", "saved"} => committed[s] = file
    /\ phase[s] = "saved" => file = Append(base[s], Head(pending[s]))

Visible == \A s \in up : values[s] = committed[s] \o pending[s]

IInv == TypeOK /\ Locked /\ Alone /\ Ended /\ Busy /\ Distinct /\ FileAsked /\ NotYet
        /\ BaseIsFile /\ CommittedIsPast /\ AloneKnows /\ Visible

----------------------------------------------------------------------------

LEMMA StepOpen ==
  ASSUME IInv, NEW s \in Store, Open(s) PROVE IInv'
<1>1. TypeOK'
  BY StateStoreAssumption DEF IInv, TypeOK, Busy, Phase, Open
<1>2. Locked'
  BY DEF IInv, Locked, Open
<1>3. Alone'
  BY StateStoreAssumption DEF IInv, TypeOK, Alone, Open
<1>4. Ended'
  BY StateStoreAssumption DEF IInv, TypeOK, Ended, Open
<1>5. Busy'
  BY DEF IInv, Busy, Open
<1>6. Distinct'
  BY DEF IInv, Distinct, Open
<1>7. FileAsked'
  BY DEF IInv, FileAsked, Open
<1>8. NotYet'
  BY DEF IInv, NotYet, Open
<1>9. BaseIsFile'
  <2>1. UNCHANGED <<file, phase, base, pending>> /\ BaseIsFile
    BY DEF Open, IInv
  <2>2. QED
    BY <2>1 DEF BaseIsFile, Past
<1>10. CommittedIsPast'
  BY StateStoreAssumption DEF IInv, TypeOK, BaseIsFile, Busy, Past, AloneKnows, Ended,
     CommittedIsPast, Open
<1>11. AloneKnows'
  BY StateStoreAssumption DEF IInv, TypeOK, Alone, Ended, Busy, BaseIsFile, AloneKnows, Open
<1>12. Visible'
  <2>1. file \o <<>> = file
    BY ConcatEmptySeq DEF IInv, TypeOK
  <2>2. values'[s] = file /\ committed'[s] = file /\ pending'[s] = <<>>
    BY DEF IInv, TypeOK, Ended, Open
  <2>3. ASSUME NEW t \in up, t # s PROVE values'[t] = committed'[t] \o pending'[t]
    BY <2>3 DEF IInv, TypeOK, Visible, Open
  <2>4. QED
    BY <2>1, <2>2, <2>3 DEF Visible, Open
<1>20. QED
  BY <1>1, <1>2, <1>3, <1>4, <1>5, <1>6, <1>7, <1>8, <1>9, <1>10, <1>11, <1>12 DEF IInv

LEMMA StepUpdate ==
  ASSUME IInv, NEW s \in Store, NEW m \in Mutation, Update(s, m) PROVE IInv'
<1>1. TypeOK'
  <2>1. pending' \in [Store -> Seq(Mutation)] /\ values' \in [Store -> Seq(Mutation)]
        /\ answer' \in [Mutation -> {"unasked", "waiting", "saved", "failed"}]
    BY DEF IInv, TypeOK, Update
  <2>2. ASSUME NEW t \in Store, NEW i \in 1..Len(pending'[t]) PROVE answer'[pending'[t][i]] = "waiting"
    <3>1. CASE t = s /\ i = Len(pending[s]) + 1
      BY <3>1 DEF IInv, TypeOK, Update
    <3>2. CASE ~(t = s /\ i = Len(pending[s]) + 1)
      <4>1. i \in 1..Len(pending[t]) /\ pending'[t][i] = pending[t][i] /\ pending[t][i] \in Mutation
        BY <3>2, SMTT(30) DEF IInv, TypeOK, Update
      <4>2. QED
        BY <4>1 DEF IInv, TypeOK, Update
    <3>3. QED
      BY <3>1, <3>2
  <2>3. QED
    BY <2>1, <2>2 DEF IInv, TypeOK, Update
<1>2. Locked'
  BY DEF IInv, Locked, Update
<1>3. Alone'
  BY DEF IInv, Alone, Update
<1>4. Ended'
  BY StateStoreAssumption DEF IInv, TypeOK, Ended, Update
<1>5. Busy'
  <2>1. pending[s] \in Seq(Mutation)
    BY DEF IInv, TypeOK
  <2>2. Append(pending[s], m) # <<>>
    BY <2>1, AppendProperties
  <2>3. QED
    BY <2>2 DEF IInv, TypeOK, Busy, Update
<1>6. Distinct'
  <2>1. \A t \in Store : \A i \in 1..Len(pending[t]) : pending[t][i] # m
    BY DEF IInv, TypeOK, Update
  <2>2. /\ Len(pending'[s]) = Len(pending[s]) + 1 /\ pending'[s][Len(pending[s]) + 1] = m
        /\ \A i \in 1..Len(pending[s]) : pending'[s][i] = pending[s][i]
        /\ Len(pending[s]) \in Nat
    BY DEF IInv, TypeOK, Update
  <2>3. \A t \in Store \ {s} : pending'[t] = pending[t]
    BY DEF IInv, TypeOK, Update
  <2>4. ASSUME NEW t \in Store, NEW i \in 1..Len(pending'[t])
        PROVE  \/ t = s /\ i = Len(pending[s]) + 1 /\ pending'[t][i] = m
               \/ i \in 1..Len(pending[t]) /\ pending'[t][i] = pending[t][i]
    BY <2>2, <2>3
  <2>5. QED
    BY <2>1, <2>4, SMTT(30) DEF IInv, Distinct
<1>7. FileAsked'
  BY DEF IInv, TypeOK, FileAsked, Update
<1>8. NotYet'
  BY StateStoreAssumption, SMTT(30) DEF IInv, TypeOK, FileAsked, Distinct, BaseIsFile, Busy,
     Ended, NotYet, Update
<1>9. BaseIsFile'
  <2>1. UNCHANGED <<file, phase, base>> /\ BaseIsFile
    BY DEF Update, IInv
  <2>2. \A t \in Store : phase[t] # "idle" => Head(pending'[t]) = Head(pending[t])
    BY DEF IInv, TypeOK, Busy, Update
  <2>3. QED
    BY <2>1, <2>2 DEF BaseIsFile, Past
<1>10. CommittedIsPast'
  BY DEF IInv, CommittedIsPast, Past, Update
<1>11. AloneKnows'
  BY StateStoreAssumption DEF IInv, TypeOK, Alone, Ended, Busy, BaseIsFile, AloneKnows,
     Update
<1>12. Visible'
  <2>1. ASSUME NEW p \in Seq(Mutation), NEW q \in Seq(Mutation)
        PROVE  Append(p \o q, m) = p \o Append(q, m)
    OBVIOUS
  <2>2. ASSUME NEW t \in up PROVE values'[t] = committed'[t] \o pending'[t]
    <3>1. t \in Store /\ values[t] = committed[t] \o pending[t] /\ committed'[t] = committed[t]
      BY DEF IInv, TypeOK, Visible, Update
    <3>2. CASE t = s
      <4>1. values'[s] = Append(committed[s] \o pending[s], m) /\ pending'[s] = Append(pending[s], m)
        BY <3>1, <3>2 DEF IInv, TypeOK, Update
      <4>2. committed[s] \in Seq(Mutation) /\ pending[s] \in Seq(Mutation)
        BY DEF IInv, TypeOK
      <4>3. Append(committed[s] \o pending[s], m) = committed[s] \o Append(pending[s], m)
        BY <4>2, <2>1
      <4>4. QED
        BY <4>1, <4>3, <3>1, <3>2
    <3>3. CASE t # s
      BY <3>1, <3>3 DEF IInv, TypeOK, Update
    <3>4. QED
      BY <3>2, <3>3
  <2>3. QED
    BY <2>2 DEF Visible, Update
<1>20. QED
  BY <1>1, <1>2, <1>3, <1>4, <1>5, <1>6, <1>7, <1>8, <1>9, <1>10, <1>11, <1>12 DEF IInv

LEMMA StepBegin ==
  ASSUME IInv, NEW s \in Store, Begin(s) PROVE IInv'
<1>1. TypeOK'
  BY StateStoreAssumption DEF IInv, TypeOK, Busy, Phase, Begin
<1>2. Locked'
  BY StateStoreAssumption DEF IInv, TypeOK, Locked, Begin
<1>3. Alone'
  BY DEF IInv, Alone, Begin
<1>4. Ended'
  BY StateStoreAssumption DEF IInv, TypeOK, Ended, Begin
<1>5. Busy'
  BY StateStoreAssumption DEF IInv, TypeOK, Ended, Busy, Begin
<1>6. Distinct'
  BY DEF IInv, Distinct, Begin
<1>7. FileAsked'
  BY DEF IInv, FileAsked, Begin
<1>8. NotYet'
  BY StateStoreAssumption, SMTT(30) DEF IInv, TypeOK, FileAsked, Distinct, BaseIsFile, Busy,
     Ended, NotYet, Begin
<1>9. BaseIsFile'
  <2>1. UNCHANGED <<file, pending>> /\ BaseIsFile
    BY DEF Begin, IInv
  <2>2. \A t \in Store \ {s} : phase'[t] = phase[t] /\ base'[t] = base[t]
    BY DEF Begin, IInv, TypeOK
  <2>3. phase'[s] = "locking" \/ (phase'[s] = "writing" /\ base'[s] = file)
    BY DEF Begin, IInv, TypeOK, Ended, AloneKnows
  <2>4. QED
    BY <2>1, <2>2, <2>3 DEF BaseIsFile, Past
<1>10. CommittedIsPast'
  BY DEF IInv, CommittedIsPast, Past, Begin
<1>11. AloneKnows'
  BY StateStoreAssumption DEF IInv, TypeOK, Alone, Ended, Busy, BaseIsFile, AloneKnows,
     Begin
<1>12. Visible'
  BY DEF IInv, Visible, Begin
<1>20. QED
  BY <1>1, <1>2, <1>3, <1>4, <1>5, <1>6, <1>7, <1>8, <1>9, <1>10, <1>11, <1>12 DEF IInv

LEMMA StepAcquire ==
  ASSUME IInv, NEW s \in Store, Acquire(s) PROVE IInv'
<1>1. TypeOK'
  BY StateStoreAssumption DEF IInv, TypeOK, Busy, Phase, Acquire
<1>2. Locked'
  BY StateStoreAssumption DEF IInv, TypeOK, Locked, Acquire
<1>3. Alone'
  BY DEF IInv, Alone, Acquire
<1>4. Ended'
  BY StateStoreAssumption DEF IInv, TypeOK, Ended, Acquire
<1>5. Busy'
  BY StateStoreAssumption DEF IInv, TypeOK, Ended, Busy, Acquire
<1>6. Distinct'
  BY DEF IInv, Distinct, Acquire
<1>7. FileAsked'
  BY DEF IInv, FileAsked, Acquire
<1>8. NotYet'
  BY StateStoreAssumption DEF IInv, TypeOK, FileAsked, Distinct, BaseIsFile, Busy,
     Ended, NotYet, Acquire
<1>9. BaseIsFile'
  BY StateStoreAssumption DEF IInv, TypeOK, Locked, Alone, Ended, Past, Busy,
     BaseIsFile, Acquire
<1>10. CommittedIsPast'
  BY DEF IInv, CommittedIsPast, Past, Acquire
<1>11. AloneKnows'
  BY StateStoreAssumption DEF IInv, TypeOK, Alone, Ended, Busy, BaseIsFile, AloneKnows,
     Acquire
<1>12. Visible'
  BY DEF IInv, Visible, Acquire
<1>20. QED
  BY <1>1, <1>2, <1>3, <1>4, <1>5, <1>6, <1>7, <1>8, <1>9, <1>10, <1>11, <1>12 DEF IInv

LEMMA StepRead ==
  ASSUME IInv, NEW s \in Store, Read(s) PROVE IInv'
<1>1. TypeOK'
  BY StateStoreAssumption DEF IInv, TypeOK, Busy, Phase, Read, Current
<1>2. Locked'
  BY StateStoreAssumption DEF IInv, TypeOK, Locked, Read, Current
<1>3. Alone'
  BY DEF IInv, Alone, Read
<1>4. Ended'
  BY StateStoreAssumption DEF IInv, TypeOK, Ended, Read, Current
<1>5. Busy'
  BY StateStoreAssumption DEF IInv, TypeOK, Ended, Busy, Read, Current
<1>6. Distinct'
  BY DEF IInv, Distinct, Read
<1>7. FileAsked'
  BY DEF IInv, FileAsked, Read
<1>8. NotYet'
  BY StateStoreAssumption, SMTT(30) DEF IInv, TypeOK, FileAsked, Distinct, BaseIsFile, Busy,
     Ended, NotYet, Read, Current
<1>9. BaseIsFile'
  BY StateStoreAssumption DEF IInv, TypeOK, Locked, Alone, Ended, Past, Busy,
     BaseIsFile, Read, Current
<1>10. CommittedIsPast'
  BY DEF IInv, CommittedIsPast, Past, Read
<1>11. AloneKnows'
  BY StateStoreAssumption DEF IInv, TypeOK, Alone, Ended, Busy, BaseIsFile, AloneKnows,
     Read, Current
<1>12. Visible'
  BY DEF IInv, Visible, Read
<1>20. QED
  BY <1>1, <1>2, <1>3, <1>4, <1>5, <1>6, <1>7, <1>8, <1>9, <1>10, <1>11, <1>12 DEF IInv

LEMMA StepWrite ==
  ASSUME IInv, NEW s \in Store, Write(s) PROVE IInv'
<1>1. TypeOK'
  BY StateStoreAssumption DEF IInv, TypeOK, Busy, Phase, Write
<1>2. Locked'
  BY StateStoreAssumption DEF IInv, TypeOK, Locked, Write
<1>3. Alone'
  BY DEF IInv, Alone, Write
<1>4. Ended'
  BY StateStoreAssumption DEF IInv, TypeOK, Ended, Write
<1>5. Busy'
  BY StateStoreAssumption DEF IInv, TypeOK, Ended, Busy, Write
<1>6. Distinct'
  BY DEF IInv, Distinct, Write
<1>7. FileAsked'
  BY StateStoreAssumption, SMTT(30) DEF IInv, TypeOK, BaseIsFile, Busy, FileAsked, Write
<1>8. NotYet'
  BY StateStoreAssumption, SMTT(30) DEF IInv, TypeOK, FileAsked, Distinct, BaseIsFile, Busy,
     Ended, NotYet, Write
<1>9. BaseIsFile'
  <2>1. UNCHANGED <<pending, base>> /\ BaseIsFile /\ file' = Append(file, Head(pending[s]))
    BY DEF Write, IInv, BaseIsFile
  <2>2. ASSUME NEW t \in Store \ {s} PROVE phase'[t] = phase[t] /\ phase[t] \notin {"writing", "written"}
    BY DEF Write, IInv, TypeOK, Locked, Alone, Ended
  <2>3. phase'[s] = "written" /\ file' = Append(base'[s], Head(pending'[s]))
    BY DEF Write, IInv, TypeOK
  <2>4. ASSUME NEW x \in Seq(Mutation), Past(x) PROVE Past(x)'
    <3>1. Head(pending[s]) \in Mutation
      BY HeadTailProperties DEF IInv, TypeOK, Busy, Write
    <3>2. /\ Len(file') = Len(file) + 1
          /\ \A k \in 1..Len(file) : file'[k] = file[k]
      BY <2>1, <3>1, AppendProperties DEF IInv, TypeOK
    <3>3. QED
      BY <3>2, <2>4, LenProperties DEF Past, IInv, TypeOK
  <2>5. ASSUME NEW t \in Store \ {s}, phase[t] = "saved"
        PROVE  Append(base[t], Head(pending[t])) \in Seq(Mutation)
    BY <2>5, HeadTailProperties, AppendProperties DEF IInv, TypeOK, Busy
  <2>6. QED
    BY <2>1, <2>2, <2>3, <2>4, <2>5 DEF BaseIsFile
<1>10. CommittedIsPast'
  BY StateStoreAssumption, SMTT(30) DEF IInv, TypeOK, BaseIsFile, Busy, Past, AloneKnows, Ended,
     CommittedIsPast, Write
<1>11. AloneKnows'
  BY StateStoreAssumption DEF IInv, TypeOK, Alone, Ended, Busy, BaseIsFile, AloneKnows,
     Write
<1>12. Visible'
  BY DEF IInv, Visible, Write
<1>20. QED
  BY <1>1, <1>2, <1>3, <1>4, <1>5, <1>6, <1>7, <1>8, <1>9, <1>10, <1>11, <1>12 DEF IInv

LEMMA StepFails ==
  ASSUME IInv, NEW s \in Store, Fails(s) PROVE IInv'
<1>1. TypeOK'
  BY StateStoreAssumption DEF IInv, TypeOK, Busy, Phase, Fails, Fault
<1>2. Locked'
  BY StateStoreAssumption DEF IInv, TypeOK, Locked, Fails, Fault
<1>3. Alone'
  BY DEF IInv, Alone, Fails
<1>4. Ended'
  BY StateStoreAssumption DEF IInv, TypeOK, Ended, Fails, Fault
<1>5. Busy'
  BY StateStoreAssumption DEF IInv, TypeOK, Ended, Busy, Fails, Fault
<1>6. Distinct'
  BY DEF IInv, Distinct, Fails
<1>7. FileAsked'
  BY DEF IInv, FileAsked, Fails
<1>8. NotYet'
  <2>1. UNCHANGED <<file, pending>> /\ NotYet
    BY DEF Fails, IInv
  <2>2. \A t \in Store : phase'[t] \in {"idle", "locking", "reading", "writing"}
                             => phase'[t] = phase[t]
    BY DEF Fails, IInv, TypeOK
  <2>3. QED
    BY <2>1, <2>2 DEF NotYet
<1>9. BaseIsFile'
  BY StateStoreAssumption, SMTT(30) DEF IInv, TypeOK, Locked, Alone, Ended, Past, Busy,
     BaseIsFile, Fails, Fault
<1>10. CommittedIsPast'
  BY DEF IInv, CommittedIsPast, Past, Fails
<1>11. AloneKnows'
  BY StateStoreAssumption DEF IInv, TypeOK, Alone, Ended, Busy, BaseIsFile, AloneKnows,
     Fails, Fault
<1>12. Visible'
  BY DEF IInv, Visible, Fails
<1>20. QED
  BY <1>1, <1>2, <1>3, <1>4, <1>5, <1>6, <1>7, <1>8, <1>9, <1>10, <1>11, <1>12 DEF IInv

LEMMA StepRelease ==
  ASSUME IInv, NEW s \in Store, Release(s) PROVE IInv'
<1>1. TypeOK'
  <2>1. phase' \in [Store -> Phase]
    BY ZenonT(60) DEF IInv, TypeOK, Release, Phase
  <2>2. lock' \in Store \cup {None, Dead} /\ faults' \in 0..MaxFaults
    BY StateStoreAssumption DEF IInv, TypeOK, Release, Fault
  <2>3. QED
    BY <2>1, <2>2 DEF IInv, TypeOK, Release
<1>2. Locked'
  BY StateStoreAssumption DEF IInv, TypeOK, Locked, Release, Fault
<1>3. Alone'
  BY DEF IInv, Alone, Release
<1>4. Ended'
  BY StateStoreAssumption DEF IInv, TypeOK, Ended, Release, Fault
<1>5. Busy'
  BY StateStoreAssumption DEF IInv, TypeOK, Ended, Busy, Release, Fault
<1>6. Distinct'
  BY DEF IInv, Distinct, Release
<1>7. FileAsked'
  BY DEF IInv, FileAsked, Release
<1>8. NotYet'
  <2>1. UNCHANGED <<file, pending>> /\ NotYet
    BY DEF Release, IInv
  <2>2. \A t \in Store : phase'[t] \in {"idle", "locking", "reading", "writing"}
                             => phase'[t] = phase[t]
    BY DEF Release, IInv, TypeOK
  <2>3. QED
    BY <2>1, <2>2 DEF NotYet
<1>9. BaseIsFile'
  <2>1. UNCHANGED <<file, pending, base>> /\ BaseIsFile
    BY DEF Release, IInv
  <2>2. \A t \in Store \ {s} : phase'[t] = phase[t]
    BY DEF Release, IInv, TypeOK
  <2>3. phase'[s] \in {"saved", "failed"} /\ (phase'[s] = "saved" => phase[s] = "written")
    BY DEF Release, IInv, TypeOK
  <2>4. Past(file)
    BY DEF Past, IInv, TypeOK
  <2>5. QED
    BY <2>1, <2>2, <2>3, <2>4 DEF BaseIsFile, Past
<1>10. CommittedIsPast'
  BY DEF IInv, CommittedIsPast, Past, Release
<1>11. AloneKnows'
  BY StateStoreAssumption, SMTT(30) DEF IInv, TypeOK, Alone, Ended, Busy, BaseIsFile, AloneKnows,
     Release, Fault
<1>12. Visible'
  BY DEF IInv, Visible, Release
<1>20. QED
  BY <1>1, <1>2, <1>3, <1>4, <1>5, <1>6, <1>7, <1>8, <1>9, <1>10, <1>11, <1>12 DEF IInv

LEMMA StepNoLock ==
  ASSUME IInv, NEW s \in Store, NoLock(s) PROVE IInv'
<1>1. TypeOK'
  BY StateStoreAssumption DEF IInv, TypeOK, Busy, Phase, NoLock, Fault, Expired
<1>2. Locked'
  BY StateStoreAssumption DEF IInv, TypeOK, Locked, NoLock, Fault, Expired
<1>3. Alone'
  BY DEF IInv, Alone, NoLock
<1>4. Ended'
  BY StateStoreAssumption DEF IInv, TypeOK, Ended, NoLock, Fault, Expired
<1>5. Busy'
  BY StateStoreAssumption DEF IInv, TypeOK, Ended, Busy, NoLock, Fault, Expired
<1>6. Distinct'
  BY DEF IInv, Distinct, NoLock
<1>7. FileAsked'
  BY DEF IInv, FileAsked, NoLock
<1>8. NotYet'
  <2>1. UNCHANGED <<file, pending>> /\ NotYet
    BY DEF NoLock, IInv
  <2>2. \A t \in Store : phase'[t] \in {"idle", "locking", "reading", "writing"}
                             => phase'[t] = phase[t]
    BY DEF NoLock, IInv, TypeOK
  <2>3. QED
    BY <2>1, <2>2 DEF NotYet
<1>9. BaseIsFile'
  BY StateStoreAssumption DEF IInv, TypeOK, Locked, Alone, Ended, Past, Busy,
     BaseIsFile, NoLock, Fault, Expired
<1>10. CommittedIsPast'
  BY DEF IInv, CommittedIsPast, Past, NoLock
<1>11. AloneKnows'
  BY StateStoreAssumption DEF IInv, TypeOK, Alone, Ended, Busy, BaseIsFile, AloneKnows,
     NoLock, Fault, Expired
<1>12. Visible'
  BY DEF IInv, Visible, NoLock
<1>20. QED
  BY <1>1, <1>2, <1>3, <1>4, <1>5, <1>6, <1>7, <1>8, <1>9, <1>10, <1>11, <1>12 DEF IInv

LEMMA StepSettle ==
  ASSUME IInv, NEW s \in Store, Settle(s) PROVE IInv'
<1>1. TypeOK'
  <2>1. pending[s] # <<>> /\ Head(pending[s]) \in Mutation /\ Tail(pending[s]) \in Seq(Mutation)
    BY HeadTailProperties DEF IInv, TypeOK, Busy, Settle
  <2>2. phase' \in [Store -> Phase] /\ pending' \in [Store -> Seq(Mutation)]
        /\ answer' \in [Mutation -> {"unasked", "waiting", "saved", "failed"}]
    BY <2>1 DEF IInv, TypeOK, Settle, Rest, Phase
  <2>3. committed' \in [Store -> Seq(Mutation)]
    BY <2>1 DEF IInv, TypeOK, Settle
  <2>4. values' \in [Store -> Seq(Mutation)]
    BY <2>1, <2>3 DEF IInv, TypeOK, Settle, Rest, Rebuilt
  <2>5. ASSUME NEW t \in Store, NEW i \in 1..Len(pending'[t]) PROVE answer'[pending'[t][i]] = "waiting"
    <3>1. PICK j \in 1..Len(pending[t]) : pending'[t][i] = pending[t][j] /\ (t = s => j > 1)
      <4>1. CASE t = s
        <5>1. pending'[s] = Tail(pending[s]) /\ i + 1 \in 1..Len(pending[s])
              /\ Tail(pending[s])[i] = pending[s][i + 1] /\ i + 1 > 1
          BY <2>1, <4>1, HeadTailProperties DEF IInv, TypeOK, Settle, Rest
        <5>2. QED
          BY <5>1, <4>1
      <4>2. CASE t # s
        BY <4>2 DEF IInv, TypeOK, Settle
      <4>3. QED
        BY <4>1, <4>2
    <3>2. pending[t][j] \in Mutation /\ pending[t][j] # Head(pending[s])
      <4>1. Head(pending[s]) = pending[s][1] /\ 1 \in 1..Len(pending[s])
        BY <2>1, HeadTailProperties, EmptySeq, LenProperties DEF IInv, TypeOK
      <4>2. pending[t][j] \in Mutation
        BY <3>1 DEF IInv, TypeOK
      <4>3. QED
        BY <3>1, <4>1, <4>2 DEF IInv, Distinct
    <3>3. QED
      BY <3>1, <3>2 DEF IInv, TypeOK, Settle
  <2>6. QED
    BY <2>2, <2>3, <2>4, <2>5 DEF IInv, TypeOK, Settle
<1>2. Locked'
  BY StateStoreAssumption DEF IInv, TypeOK, Locked, Settle, Rest, Rebuilt
<1>3. Alone'
  BY DEF IInv, Alone, Settle
<1>4. Ended'
  BY StateStoreAssumption DEF IInv, TypeOK, Ended, Settle, Rest, Rebuilt
<1>5. Busy'
  BY StateStoreAssumption DEF IInv, TypeOK, Ended, Busy, Settle, Rest, Rebuilt
<1>6. Distinct'
  BY StateStoreAssumption, SMTT(30) DEF IInv, TypeOK, Ended, Distinct, Settle, Rest, Rebuilt
<1>7. FileAsked'
  BY StateStoreAssumption DEF IInv, TypeOK, BaseIsFile, Busy, FileAsked, Settle, Rest,
     Rebuilt
<1>8. NotYet'
  BY StateStoreAssumption, SMTT(30) DEF IInv, TypeOK, FileAsked, Distinct, BaseIsFile, Busy,
     Ended, NotYet, Settle, Rest, Rebuilt
<1>9. BaseIsFile'
  BY StateStoreAssumption DEF IInv, TypeOK, Locked, Alone, Ended, Past, Busy,
     BaseIsFile, Settle, Rest, Rebuilt
<1>10. CommittedIsPast'
  BY StateStoreAssumption DEF IInv, TypeOK, BaseIsFile, Busy, Past, AloneKnows, Ended,
     CommittedIsPast, Settle, Rest, Rebuilt
<1>11. AloneKnows'
  BY StateStoreAssumption DEF IInv, TypeOK, Alone, Ended, Busy, BaseIsFile, AloneKnows,
     Settle, Rest, Rebuilt
<1>12. Visible'
  BY StateStoreAssumption DEF IInv, TypeOK, Ended, Busy, Visible, Settle, Rest, Rebuilt
<1>20. QED
  BY <1>1, <1>2, <1>3, <1>4, <1>5, <1>6, <1>7, <1>8, <1>9, <1>10, <1>11, <1>12 DEF IInv

LEMMA StepCrash ==
  ASSUME IInv, NEW s \in Store, Crash(s) PROVE IInv'
<1>1. TypeOK'
  BY StateStoreAssumption DEF IInv, TypeOK, Busy, Phase, Crash, Fault
<1>2. Locked'
  BY StateStoreAssumption DEF IInv, TypeOK, Locked, Crash, Fault
<1>3. Alone'
  BY StateStoreAssumption DEF IInv, TypeOK, Alone, Crash, Fault
<1>4. Ended'
  BY StateStoreAssumption DEF IInv, TypeOK, Ended, Crash, Fault
<1>5. Busy'
  BY StateStoreAssumption DEF IInv, TypeOK, Ended, Busy, Crash, Fault
<1>6. Distinct'
  BY StateStoreAssumption DEF IInv, TypeOK, Ended, Distinct, Crash, Fault
<1>7. FileAsked'
  BY StateStoreAssumption DEF IInv, TypeOK, BaseIsFile, Busy, FileAsked, Crash, Fault
<1>8. NotYet'
  BY StateStoreAssumption DEF IInv, TypeOK, FileAsked, Distinct, BaseIsFile, Busy,
     Ended, NotYet, Crash, Fault
<1>9. BaseIsFile'
  BY StateStoreAssumption DEF IInv, TypeOK, Locked, Alone, Ended, Past, Busy,
     BaseIsFile, Crash, Fault
<1>10. CommittedIsPast'
  BY StateStoreAssumption DEF IInv, TypeOK, BaseIsFile, Busy, Past, AloneKnows, Ended,
     CommittedIsPast, Crash, Fault
<1>11. AloneKnows'
  BY StateStoreAssumption DEF IInv, TypeOK, Alone, Ended, Busy, BaseIsFile, AloneKnows,
     Crash, Fault
<1>12. Visible'
  BY StateStoreAssumption DEF IInv, TypeOK, Ended, Busy, Visible, Crash, Fault
<1>20. QED
  BY <1>1, <1>2, <1>3, <1>4, <1>5, <1>6, <1>7, <1>8, <1>9, <1>10, <1>11, <1>12 DEF IInv

----------------------------------------------------------------------------

LEMMA Initially == Init => IInv
  BY StateStoreAssumption DEF Init, IInv, TypeOK, Phase, Locked, Alone, Ended, Busy,
     Distinct, FileAsked,
     NotYet, BaseIsFile, CommittedIsPast, AloneKnows, Visible, Past

LEMMA StepNone ==
  ASSUME IInv, UNCHANGED vars PROVE IInv'
<1>1. TypeOK'
  BY DEF vars, IInv, TypeOK
<1>2. Locked' /\ Alone' /\ Ended' /\ Busy'
  BY DEF vars, IInv, Locked, Alone, Ended, Busy
<1>3. Distinct' /\ FileAsked' /\ NotYet'
  BY DEF vars, IInv, Distinct, FileAsked, NotYet
<1>4. BaseIsFile' /\ CommittedIsPast'
  BY DEF vars, IInv, BaseIsFile, CommittedIsPast, Past
<1>5. AloneKnows' /\ Visible'
  BY DEF vars, IInv, AloneKnows, Visible
<1>6. QED
  BY <1>1, <1>2, <1>3, <1>4, <1>5 DEF IInv

LEMMA Invariance == Spec => []IInv
<1>1. IInv /\ [Next]_vars => IInv'
  BY StepOpen, StepUpdate, StepBegin, StepAcquire, StepRead, StepWrite, StepFails,
     StepRelease,
     StepNoLock, StepSettle, StepCrash, StepNone DEF Next, Writing
<1>2. QED
  BY <1>1, Initially, PTL DEF Spec

\* Every variable keeps its type, and what waits has not been answered.
THEOREM TypeCorrect == Spec => []TypeOK
  BY Invariance, PTL DEF IInv

\* Readers see a past state of the file and their own waiting mutations
\* (JsonStateStore.get, _rebuildVisibleValues).
THEOREM ReadersAreServed == Spec => []ReadersSeeThePast
<1>1. ASSUME IInv PROVE ReadersSeeThePast
  <2> SUFFICES ASSUME NEW s \in up
               PROVE  \E n \in 0..Len(file) : values[s] = SubSeq(file, 1, n) \o pending[s]
    BY DEF ReadersSeeThePast
  <2>1. s \in Store /\ values[s] = committed[s] \o pending[s] /\ Past(committed[s])
    BY <1>1 DEF IInv, TypeOK, Visible, CommittedIsPast
  <2>2. committed[s] \in Seq(Mutation) /\ file \in Seq(Mutation)
    BY <1>1, <2>1 DEF IInv, TypeOK
  <2>3. committed[s] = SubSeq(file, 1, Len(committed[s]))
    BY <2>1, <2>2 DEF Past
  <2>4. Len(committed[s]) \in 0..Len(file)
    BY <2>1, <2>2, LenProperties DEF Past
  <2>5. QED
    BY <2>1, <2>3, <2>4
<1>2. QED
  BY <1>1, Invariance, PTL

----------------------------------------------------------------------------
\* The oldest mutation is in the file once it has been written.
LEMMA SavedIsThere ==
  ASSUME IInv, NEW s \in Store, phase[s] = "saved" PROVE Contains(file, Head(pending[s]))
<1>1. base[s] \in Seq(Mutation) /\ Head(pending[s]) \in Mutation /\ file \in Seq(Mutation)
  BY HeadTailProperties DEF IInv, TypeOK, Busy
<1>2. Past(Append(base[s], Head(pending[s])))
  BY DEF IInv, BaseIsFile
<1>3. Len(base[s]) + 1 \in 1..Len(file) /\ file[Len(base[s]) + 1] = Head(pending[s])
  BY <1>1, <1>2, AppendProperties, LenProperties DEF Past
<1>4. QED
  BY <1>3 DEF Contains

LEMMA StepRefines ==
  ASSUME IInv, [Next]_vars PROVE [Ledger!Next]_(Ledger!vars)
<1>1. ASSUME NEW s \in Store, NEW m \in Mutation, Update(s, m) PROVE Ledger!Next
  BY <1>1 DEF Update, Ledger!Next, Ledger!Ask
<1>2. ASSUME NEW s \in Store, Write(s) PROVE Ledger!Next
  <2>1. pending[s] # <<>> /\ file' = Append(file, Head(pending[s])) /\ UNCHANGED <<pending, answer>>
    BY <1>2 DEF Write, IInv, Busy, BaseIsFile
  <2>2. 1 \in 1..Len(pending[s]) /\ pending[s][1] = Head(pending[s])
    BY <2>1 DEF IInv, TypeOK
  <2>3. ~Contains(file, Head(pending[s]))
    BY <1>2, <2>2 DEF Write, IInv, NotYet, Contains
  <2>4. QED
    BY <2>1, <2>3 DEF Ledger!Next, Ledger!Take, Ledger!Contains, Contains
<1>3. ASSUME NEW s \in Store, Settle(s) PROVE Ledger!Next
  <2>1. pending[s] # <<>> /\ phase[s] \in {"saved", "failed"}
    BY <1>3 DEF Settle, IInv, Busy
  <2>2. phase[s] = "saved" => Contains(file, Head(pending[s]))
    BY SavedIsThere
  <2>3. Ledger!Answer(s, phase[s])
    BY <1>3, <2>1, <2>2 DEF Settle, Rest, Ledger!Answer, Ledger!Contains, Contains
  <2>4. QED
    BY <2>1, <2>3 DEF Ledger!Next
<1>4. ASSUME NEW s \in Store, Crash(s) PROVE Ledger!Next
  BY <1>4 DEF Crash, Ledger!Next, Ledger!End
<1>5. ASSUME NEW s \in Store,
             Open(s) \/ Begin(s) \/ Acquire(s) \/ Read(s) \/ Fails(s) \/ Release(s) \/ NoLock(s)
      PROVE  UNCHANGED Ledger!vars
  BY <1>5 DEF Open, Begin, Acquire, Read, Fails, Release, NoLock, Ledger!vars
<1>6. CASE UNCHANGED vars
  BY <1>6 DEF vars, Ledger!vars
<1>7. QED
  BY <1>1, <1>2, <1>3, <1>4, <1>5, <1>6 DEF Next, Writing

\* The state file is a ledger: what a program has written no program undoes, and each
\* mutation is taken at most once, in the order of its program (_writeMergedWithLock).
THEOREM StoreIsALedger == Spec => NoUpdateLost
<1>1. Init => Ledger!Init
  BY DEF Init, Ledger!Init
<1>2. QED
  BY <1>1, StepRefines, Invariance, PTL DEF Spec, NoUpdateLost, Ledger!Spec

=============================================================================
