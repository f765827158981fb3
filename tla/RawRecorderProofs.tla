------------------------- MODULE RawRecorderProofs -------------------------
(***************************************************************************)
(* What is wiped stays wiped, an open session is recorded and the numbers  *)
(* of a raw file rise, for every number of tabs, sessions, recorders,      *)
(* clears and failures.                                                    *)
(***************************************************************************)
EXTENDS RawRecorder, SequenceTheorems, TLAPS

USE DEF history, InUse

\* A recorder is looked up, held and waited for only under the path it was made for.
Placed ==
    /\ \A p \in Path : mounted[p] # None => at[mounted[p]] = p
    /\ \A t \in Tab : current[t] # None => at[current[t]] \in Path
    /\ \A t \in Tab : stage[t] \in {"creating", "undoing"} =>
          candidate[t] # None /\ at[candidate[t]] \in Path
    /\ \A r \in clear.of : at[r] \in clear.paths
    /\ del.of # None => at[del.of] = del.path /\ del.path \in Path
    /\ del.stage # "none" => del.path \in Path

\* What a recorder has on its way or on disk is its own, and in its own file.
OwnChain ==
    /\ \A r \in Recorder : chain[r] # <<>> => at[r] \in Path
    /\ \A r \in Recorder : \A i \in DOMAIN chain[r] : chain[r][i].by = r
OwnFile == \A p \in Path : \A i \in DOMAIN file[p] : at[file[p][i].by] = p

IInv == TypeOK /\ Placed /\ OwnChain /\ OwnFile /\ WipedStaysWiped

kept == <<at, chain, file, era>>

-----------------------------------------------------------------------------
LEMMA Typed ==
  ASSUME TypeOK
  PROVE  /\ \A r \in Recorder : chain[r] \in Seq(Entry) /\ era[r] \in Nat /\ next[r] \in Nat
         /\ \A p \in Path : file[p] \in Seq(Entry)
  BY DEF TypeOK

\* Where the elements of a longer or a shorter sequence come from.
LEMMA OfAppend ==
  ASSUME NEW s \in Seq(Entry), NEW e \in Entry, NEW i \in DOMAIN Append(s, e)
  PROVE  (i \in DOMAIN s /\ Append(s, e)[i] = s[i]) \/ Append(s, e)[i] = e
  BY AppendProperties, LenProperties

LEMMA OfTail ==
  ASSUME NEW s \in Seq(Entry), s # <<>>
  PROVE  /\ Head(s) \in Entry /\ 1 \in DOMAIN s /\ Head(s) = s[1]
         /\ Tail(s) \in Seq(Entry)
         /\ \A i \in DOMAIN Tail(s) : i + 1 \in DOMAIN s /\ Tail(s)[i] = s[i + 1]
<1>1. /\ Head(s) = s[1] /\ Len(s) \in Nat /\ DOMAIN s = 1..Len(s) /\ Len(s) # 0
      /\ Tail(s) \in Seq(Entry) /\ Len(Tail(s)) = Len(s) - 1
      /\ \A i \in 1..Len(Tail(s)) : Tail(s)[i] = s[i + 1]
  BY HeadTailProperties, LenProperties, EmptySeq
<1>2. DOMAIN Tail(s) = 1..Len(Tail(s))
  BY <1>1, LenProperties
<1>3. s[1] \in Entry
  BY <1>1, ElementOfSeq
<1> QED
  BY <1>1, <1>2, <1>3

LEMMA Authors ==
  ASSUME TypeOK
  PROVE  \A p \in Path : \A i \in DOMAIN file[p] : file[p][i].by \in Recorder
<1> SUFFICES ASSUME NEW p \in Path, NEW i \in DOMAIN file[p] PROVE file[p][i].by \in Recorder
  OBVIOUS
<1>1. file[p] \in Seq(Entry)
  BY Typed
<1>2. i \in 1..Len(file[p])
  BY <1>1, LenProperties
<1>3. file[p][i] \in Entry
  BY <1>1, <1>2, ElementOfSeq
<1> QED
  BY <1>3 DEF Entry

\* Steps that leave the entries alone.
LEMMA EntriesKept ==
  ASSUME OwnChain, OwnFile, WipedStaysWiped, UNCHANGED kept
  PROVE  OwnChain' /\ OwnFile' /\ WipedStaysWiped'
  BY DEF OwnChain, OwnFile, WipedStaysWiped, kept

-----------------------------------------------------------------------------
(* Recording. *)

LEMMA RecordKeeps ==
  ASSUME IInv, NEW t \in Tab, NEW r \in Recorder, Record(t, r) PROVE IInv'
<1> USE DEF IInv
<1>1. at[r] \in Path
  BY RawAssumption DEF Record, Records, Placed, TypeOK
<1>2. NewEntry(r) \in Entry /\ NewEntry(r).by = r /\ NewEntry(r).era = era[r]
  BY Typed DEF NewEntry, Entry
<1>3. chain[r] \in Seq(Entry) /\ Append(chain[r], NewEntry(r)) \in Seq(Entry)
  BY <1>2, Typed, AppendProperties
<1>4. TypeOK'
  <2>1. chain' \in [Recorder -> Seq(Entry)]
    BY <1>3 DEF Record, TypeOK
  <2>2. next' \in [Recorder -> Nat] /\ entries' \in Nat
    BY DEF Record, TypeOK
  <2> QED
    BY <2>1, <2>2 DEF Record, TypeOK, tabs, wiping
<1>5. Placed'
  BY DEF Record, Placed, tabs, wiping
<1>6. \A q \in Recorder : q # r => chain'[q] = chain[q]
  BY DEF Record, TypeOK
<1>7. chain'[r] = Append(chain[r], NewEntry(r))
  BY DEF Record, TypeOK
<1>8. ASSUME NEW i \in DOMAIN chain'[r] PROVE chain'[r][i].by = r /\ chain'[r][i].era = era[r]
  BY <1>2, <1>3, <1>7, <1>8, OfAppend DEF OwnChain, WipedStaysWiped
<1>9. UNCHANGED <<at, file, era>>
  BY DEF Record
<1>10. OwnChain' /\ OwnFile'
  BY <1>1, <1>6, <1>8, <1>9 DEF OwnChain, OwnFile
<1>11. WipedStaysWiped'
  BY <1>6, <1>8, <1>9 DEF WipedStaysWiped
<1> QED
  BY <1>4, <1>5, <1>10, <1>11

\* A chain that loses its head.
LEMMA ShorterChain ==
  ASSUME TypeOK, OwnChain, WipedStaysWiped, NEW r \in Recorder, chain[r] # <<>>,
         chain' = [chain EXCEPT ![r] = Tail(@)], UNCHANGED <<at, era>>
  PROVE  /\ chain' \in [Recorder -> Seq(Entry)] /\ OwnChain'
         /\ \A q \in Recorder : \A i \in DOMAIN chain'[q] : chain'[q][i].era = era'[q]
<1>1. chain[r] \in Seq(Entry)
  BY Typed
<1>2. /\ Tail(chain[r]) \in Seq(Entry)
      /\ \A i \in DOMAIN Tail(chain[r]) :
            i + 1 \in DOMAIN chain[r] /\ Tail(chain[r])[i] = chain[r][i + 1]
  BY <1>1, OfTail
<1>3. /\ \A q \in Recorder : q # r => chain'[q] = chain[q]
      /\ chain'[r] = Tail(chain[r])
  BY DEF TypeOK
<1>4. chain' \in [Recorder -> Seq(Entry)]
  BY <1>2 DEF TypeOK
<1>5. \A i \in DOMAIN chain'[r] : chain'[r][i].by = r /\ chain'[r][i].era = era[r]
  BY <1>2, <1>3 DEF OwnChain, WipedStaysWiped
<1> QED
  BY <1>3, <1>4, <1>5 DEF OwnChain, WipedStaysWiped

LEMMA WriteKeeps ==
  ASSUME IInv, NEW r \in Recorder, Write(r) PROVE IInv'
<1> USE DEF IInv
<1>1. chain[r] # <<>> /\ chain' = [chain EXCEPT ![r] = Tail(@)] /\ UNCHANGED <<at, era>>
  BY DEF Write
<1>2. /\ chain' \in [Recorder -> Seq(Entry)] /\ OwnChain'
      /\ \A q \in Recorder : \A i \in DOMAIN chain'[q] : chain'[q][i].era = era'[q]
  BY <1>1, ShorterChain
<1> DEFINE p == at[r]
           e == Head(chain[r])
<1>3. p \in Path /\ chain[r] \in Seq(Entry) /\ file[p] \in Seq(Entry)
  BY <1>1, Typed DEF OwnChain
<1>4. e \in Entry /\ e.by = r /\ e.era = era[r]
  BY <1>1, <1>3, OfTail DEF OwnChain, WipedStaysWiped
<1>5. Append(file[p], e) \in Seq(Entry)
  BY <1>3, <1>4, AppendProperties
<1>6. /\ \A q \in Path : q # p => file'[q] = file[q]
      /\ file'[p] = Append(file[p], e)
      /\ file' \in [Path -> Seq(Entry)]
  BY <1>3, <1>5 DEF Write, TypeOK
<1>7. TypeOK' /\ Placed'
  BY <1>2, <1>6 DEF Write, TypeOK, Placed, tabs, wiping, bounds
<1>8. ASSUME NEW i \in DOMAIN file'[p]
      PROVE  at[file'[p][i].by] = p /\ file'[p][i].era = era[file'[p][i].by]
  <2> HIDE DEF p, e
  <2>1. (i \in DOMAIN file[p] /\ file'[p][i] = file[p][i]) \/ file'[p][i] = e
    BY <1>3, <1>4, <1>6, <1>8, OfAppend
  <2>2. CASE i \in DOMAIN file[p] /\ file'[p][i] = file[p][i]
    BY <2>2, <1>3 DEF OwnFile, WipedStaysWiped
  <2>3. CASE file'[p][i] = e
    BY <2>3, <1>4 DEF p
  <2> QED
    BY <2>1, <2>2, <2>3
<1>9. OwnFile'
  <2> HIDE DEF p, e
  <2> QED
    BY <1>1, <1>6, <1>8, ZenonT(60) DEF OwnFile
<1>10. \A q \in Path : \A i \in DOMAIN file'[q] : file'[q][i].era = era'[file'[q][i].by]
  <2> HIDE DEF p, e
  <2>1. ASSUME NEW q \in Path, NEW i \in DOMAIN file'[q]
        PROVE  file'[q][i].era = era[file'[q][i].by]
    <3>1. CASE q = p
      BY <3>1, <1>8
    <3>2. CASE q # p
      BY <3>2, <1>6 DEF WipedStaysWiped
    <3> QED
      BY <3>1, <3>2
  <2> QED
    BY <2>1, <1>1
<1> QED
  BY <1>2, <1>7, <1>9, <1>10 DEF WipedStaysWiped

LEMMA WriteFailsKeeps ==
  ASSUME IInv, NEW r \in Recorder, WriteFails(r) PROVE IInv'
<1> USE DEF IInv
<1>1. chain[r] # <<>> /\ chain' = [chain EXCEPT ![r] = Tail(@)] /\ UNCHANGED <<at, era, file>>
  BY DEF WriteFails
<1>2. /\ chain' \in [Recorder -> Seq(Entry)] /\ OwnChain'
      /\ \A q \in Recorder : \A i \in DOMAIN chain'[q] : chain'[q][i].era = era'[q]
  BY <1>1, ShorterChain
<1>3. next' \in [Recorder -> Nat] /\ faults' \in Nat
  BY DEF WriteFails, Fault, TypeOK
<1>4. TypeOK' /\ Placed'
  BY <1>2, <1>3 DEF WriteFails, TypeOK, Placed, tabs, wiping
<1>5. OwnFile' /\ WipedStaysWiped'
  BY <1>1, <1>2 DEF OwnFile, WipedStaysWiped
<1> QED
  BY <1>2, <1>4, <1>5

-----------------------------------------------------------------------------
(* The tabs. *)

LEMMA OpenKeeps ==
  ASSUME IInv, NEW t \in Tab, NEW p \in Path, Open(t, p) PROVE IInv'
<1> USE DEF IInv
<1>1. TypeOK'
  BY DEF Open, Freed, Go, Stage, TypeOK, recorders, wiping, bounds
<1>2. Placed'
  BY DEF Open, Go, Placed, TypeOK, recorders, wiping
<1>3. UNCHANGED kept
  BY DEF Open, recorders, kept
<1> QED
  BY <1>1, <1>2, <1>3, EntriesKept

LEMMA RetireKeeps ==
  ASSUME TypeOK, Placed, NEW t \in Tab, Retire(t), UNCHANGED at
  PROVE  /\ current' \in [Tab -> Recorder \cup {None}]
         /\ retiring' \in [Tab -> Recorder \cup {None}]
         /\ mounted' \in [Path -> Recorder \cup {None}] /\ closed' \in [Recorder -> BOOLEAN]
         /\ \A p \in Path : mounted'[p] # None => at'[mounted'[p]] = p
         /\ \A s \in Tab : current'[s] # None => at'[current'[s]] \in Path
<1>1. CASE current[t] = None
  BY <1>1, ZenonT(60) DEF Retire, TypeOK, Placed
<1>2. CASE current[t] # None
  <2> DEFINE p == at[current[t]]
  <2>1. p \in Path /\ mounted[p] \in Recorder \cup {None}
    BY <1>2 DEF Placed, TypeOK
  <2>2. /\ mounted' = [mounted EXCEPT ![p] = None]
        /\ closed' = IF mounted[p] = None THEN closed ELSE [closed EXCEPT ![mounted[p]] = TRUE]
        /\ retiring' = [retiring EXCEPT ![t] = mounted[p]]
        /\ current' = [current EXCEPT ![t] = None]
    BY <1>2 DEF Retire, Dispose
  <2> HIDE DEF p
  <2> QED
    BY <2>1, <2>2 DEF TypeOK, Placed
<1> QED
  BY <1>1, <1>2

LEMMA LockKeeps ==
  ASSUME IInv, NEW t \in Tab, Lock(t) PROVE IInv'
<1> USE DEF IInv
<1>1. Retire(t) /\ UNCHANGED at
  BY DEF Lock
<1>2. /\ current' \in [Tab -> Recorder \cup {None}]
      /\ retiring' \in [Tab -> Recorder \cup {None}]
      /\ mounted' \in [Path -> Recorder \cup {None}] /\ closed' \in [Recorder -> BOOLEAN]
      /\ \A p \in Path : mounted'[p] # None => at'[mounted'[p]] = p
      /\ \A s \in Tab : current'[s] # None => at'[current'[s]] \in Path
  BY <1>1, RetireKeeps
<1>3. want[t] \in Path
  BY DEF Lock, TypeOK
<1>4. lock' \in [Path -> Tab \cup {None}] /\ stage' \in [Tab -> Stage]
  BY DEF Lock, Go, Stage, TypeOK
<1>5. TypeOK'
  BY <1>2, <1>3, <1>4 DEF Lock, Go, TypeOK, wiping, bounds
<1>6. Placed'
  BY <1>2 DEF Lock, Go, Placed, TypeOK, wiping
<1>7. UNCHANGED kept
  BY DEF Lock, kept
<1> QED
  BY <1>5, <1>6, <1>7, EntriesKept

LEMMA CloseKeeps ==
  ASSUME IInv, NEW t \in Tab, Close(t) PROVE IInv'
<1> USE DEF IInv
<1>1. Retire(t) /\ UNCHANGED at
  BY DEF Close
<1>2. /\ current' \in [Tab -> Recorder \cup {None}]
      /\ retiring' \in [Tab -> Recorder \cup {None}]
      /\ mounted' \in [Path -> Recorder \cup {None}] /\ closed' \in [Recorder -> BOOLEAN]
      /\ \A p \in Path : mounted'[p] # None => at'[mounted'[p]] = p
      /\ \A s \in Tab : current'[s] # None => at'[current'[s]] \in Path
  BY <1>1, RetireKeeps
<1>3. stage' \in [Tab -> Stage]
  BY DEF Close, Go, Stage, TypeOK
<1>4. TypeOK'
  BY <1>2, <1>3 DEF Close, Go, TypeOK, wiping, bounds
<1>5. Placed'
  BY <1>2 DEF Close, Go, Placed, TypeOK, wiping
<1>6. UNCHANGED kept
  BY DEF Close, kept
<1> QED
  BY <1>4, <1>5, <1>6, EntriesKept

LEMMA StagesKeep ==
  ASSUME IInv, NEW t \in Tab,
         LockRefused(t) \/ Retired(t) \/ CreateFails(t) \/ Closed(t)
  PROVE  IInv'
<1> USE DEF IInv
<1>1. UNCHANGED <<recorders, mounted, wiping, current, candidate, file>>
  BY DEF LockRefused, Retired, CreateFails, Closed
<1>2. stage' \in [Tab -> Stage] /\ faults' \in Nat /\ entries' \in Nat /\ wipes' \in Nat
  <2>1. CASE LockRefused(t)
    BY <2>1 DEF LockRefused, Go, Stage, Fault, TypeOK
  <2>2. CASE Retired(t)
    BY <2>2 DEF Retired, Go, Stage, TypeOK, bounds
  <2>3. CASE CreateFails(t)
    BY <2>3 DEF CreateFails, Go, Stage, Fault, TypeOK
  <2>4. CASE Closed(t)
    BY <2>4 DEF Closed, Go, Stage, TypeOK, bounds
  <2> QED
    BY <2>1, <2>2, <2>3, <2>4
<1>3. TypeOK'
  <2>1. /\ lock' \in [Path -> Tab \cup {None}] /\ want' \in [Tab -> Path \cup {None}]
        /\ retiring' \in [Tab -> Recorder \cup {None}]
    BY DEF LockRefused, Retired, CreateFails, Closed, Freed, TypeOK
  <2>2. seqRead' \in [Tab -> Nat] /\ UNCHANGED history
    BY DEF LockRefused, Retired, CreateFails, Closed, TypeOK
  <2>3. \A s \in Tab : stage'[s] \notin {"none", "closing"} => want'[s] \in Path
    <3>1. \A s \in Tab \ {t} : stage'[s] = stage[s] /\ want'[s] = want[s]
      BY DEF LockRefused, Retired, CreateFails, Closed, Go, TypeOK
    <3>2. stage'[t] = "none" \/ (want' = want /\ stage[t] \in {"retiring", "creating"})
      BY DEF LockRefused, Retired, CreateFails, Closed, Go, TypeOK
    <3> QED
      BY <3>1, <3>2 DEF TypeOK
  <2> QED
    BY <1>1, <1>2, <2>1, <2>2, <2>3 DEF TypeOK, recorders, wiping
<1>4. \A s \in Tab : stage'[s] \in {"creating", "undoing"} => stage[s] \in {"creating", "undoing"}
  BY DEF LockRefused, Retired, CreateFails, Closed, Go, TypeOK
<1>5. Placed'
  BY <1>1, <1>4 DEF Placed, recorders, wiping
<1>6. UNCHANGED kept
  BY <1>1 DEF recorders, kept
<1> QED
  BY <1>3, <1>5, <1>6, EntriesKept

LEMMA ReadSeqKeeps ==
  ASSUME IInv, NEW t \in Tab, ReadSeq(t) PROVE IInv'
<1> USE DEF IInv
<1>1. want[t] \in Path
  BY DEF ReadSeq, TypeOK
<1>2. LastSeq(file[want[t]]) + 1 \in Nat
  <2>1. file[want[t]] \in Seq(Entry)
    BY <1>1, Typed
  <2>2. CASE file[want[t]] = <<>>
    BY <2>2 DEF LastSeq
  <2>3. CASE file[want[t]] # <<>>
    <3>1. Len(file[want[t]]) \in 1..Len(file[want[t]])
      BY <2>1, <2>3, LenProperties, EmptySeq
    <3>2. file[want[t]][Len(file[want[t]])] \in Entry
      BY <2>1, <3>1, ElementOfSeq
    <3> QED
      BY <2>3, <3>2 DEF LastSeq, Last, Entry
  <2> QED
    BY <2>2, <2>3
<1>3. /\ seqRead' \in [Tab -> Nat] /\ faults' \in Nat
      /\ shared' \subseteq Path /\ unread' \subseteq Tab
  <2> DEFINE n == LastSeq(file[want[t]]) + 1
  <2>1. n \in Nat
    BY <1>2
  <2>2. seqRead' = [seqRead EXCEPT ![t] = n] \/ seqRead' = [seqRead EXCEPT ![t] = 0]
    BY DEF ReadSeq
  <2>3. shared' \subseteq shared \cup {want[t]} /\ unread' \subseteq unread \cup {t}
    BY DEF ReadSeq
  <2>4. faults' = faults \/ faults' = faults + 1
    BY DEF ReadSeq, Fault
  <2>5. /\ seqRead \in [Tab -> Nat] /\ faults \in Nat
        /\ shared \subseteq Path /\ unread \subseteq Tab
    BY DEF TypeOK
  <2> HIDE DEF n, IInv
  <2>6. seqRead' \in [Tab -> Nat]
    BY <2>1, <2>2, <2>5
  <2>7. shared' \subseteq Path /\ unread' \subseteq Tab
    BY <1>1, <2>3, <2>5
  <2>8. faults' \in Nat
    BY <2>4, <2>5
  <2> QED
    BY <2>6, <2>7, <2>8
<1>4. stage' \in [Tab -> Stage]
  BY DEF ReadSeq, Go, Stage, TypeOK
<1>5. TypeOK'
  BY <1>1, <1>3, <1>4 DEF ReadSeq, Go, TypeOK, recorders, wiping
<1>6. Placed'
  BY DEF ReadSeq, Go, Placed, TypeOK, recorders, wiping
<1>7. UNCHANGED kept
  BY DEF ReadSeq, recorders, kept
<1> QED
  BY <1>5, <1>6, <1>7, EntriesKept

LEMMA MakeKeeps ==
  ASSUME IInv, NEW t \in Tab, NEW r \in Recorder, Make(t, r) PROVE IInv'
<1> USE DEF IInv
<1>1. want[t] \in Path /\ at[r] = None /\ stage[t] = "making" /\ seqRead[t] \in Nat
  BY DEF Make, TypeOK
<1>2. chain[r] = <<>>
  BY <1>1, RawAssumption DEF OwnChain
<1> DEFINE e == [by |-> r, seq |-> seqRead[t], era |-> era[r]]
<1>3. e \in Entry /\ e.by = r /\ e.era = era[r] /\ <<e>> \in Seq(Entry)
  BY <1>1, Typed DEF Entry
<1>4. chain' = chain \/ chain' = [chain EXCEPT ![r] = <<e>>]
  BY DEF Make
<1>5. UNCHANGED <<era, file>> /\ at' = [at EXCEPT ![r] = want[t]]
  BY DEF Make
<1>6. /\ \A q \in Recorder : q # r => chain'[q] = chain[q] /\ at'[q] = at[q]
      /\ chain'[r] \in {<<>>, <<e>>} /\ at'[r] = want[t]
      /\ chain' \in [Recorder -> Seq(Entry)]
  <2>1. at \in [Recorder -> Path \cup {None}] /\ chain \in [Recorder -> Seq(Entry)]
    BY DEF TypeOK
  <2> HIDE DEF e, IInv
  <2> QED
    BY <1>2, <1>3, <1>4, <1>5, <2>1
<1>7. next' \in [Recorder -> Nat] /\ entries' \in Nat
  <2>1. \/ next' = [next EXCEPT ![r] = seqRead[t]] /\ UNCHANGED entries
        \/ next' = [next EXCEPT ![r] = seqRead[t] + 1] /\ entries' = entries + 1
    BY DEF Make
  <2>2. next \in [Recorder -> Nat] /\ entries \in Nat
    BY DEF TypeOK
  <2> HIDE DEF IInv
  <2>3. CASE next' = [next EXCEPT ![r] = seqRead[t]] /\ UNCHANGED entries
    BY <2>2, <2>3, <1>1
  <2>4. CASE next' = [next EXCEPT ![r] = seqRead[t] + 1] /\ entries' = entries + 1
    BY <2>2, <2>4, <1>1
  <2> QED
    BY <2>1, <2>3, <2>4
<1>8. stage' \in [Tab -> Stage]
  BY DEF Make, Go, Stage, TypeOK
<1>9. TypeOK'
  BY <1>1, <1>6, <1>7, <1>8 DEF Make, Go, TypeOK, wiping
<1>10. \A q \in Recorder : at[q] \in Path => at'[q] = at[q]
  BY <1>1, <1>6, RawAssumption
<1>11. Placed'
  <2>1. mounted' = [mounted EXCEPT ![want[t]] = r] /\ candidate' = [candidate EXCEPT ![t] = r]
        /\ stage' = [stage EXCEPT ![t] = "creating"] /\ UNCHANGED <<current, wiping>>
    BY DEF Make, Go
  <2>2. \A p \in Path : mounted'[p] # None => at'[mounted'[p]] = p
    BY <2>1, <1>1, <1>6, <1>10, RawAssumption DEF Placed, TypeOK
  <2>3. \A s \in Tab : current'[s] # None => at'[current'[s]] \in Path
    BY <2>1, <1>10, RawAssumption DEF Placed, TypeOK
  <2>4. \A s \in Tab : stage'[s] \in {"creating", "undoing"} =>
            candidate'[s] # None /\ at'[candidate'[s]] \in Path
    BY <2>1, <1>1, <1>6, <1>10, RawAssumption DEF Placed, TypeOK
  <2>5. (\A q \in clear.of : at[q] \in clear.paths) /\ clear.of \subseteq Recorder
        /\ clear.paths \subseteq Path
    BY DEF Placed, TypeOK
  <2>6. \A q \in clear'.of : at'[q] \in clear'.paths
    BY <2>1, <2>5, <1>10 DEF wiping
  <2>7. del'.of # None => at'[del'.of] = del'.path /\ del'.path \in Path
    <3>1. del' = del /\ del.of \in Recorder \cup {None}
      BY <2>1 DEF wiping, TypeOK
    <3>2. del.of # None => at[del.of] = del.path /\ del.path \in Path
      BY DEF Placed
    <3> QED
      BY <3>1, <3>2, <1>10
  <2>8. del'.stage # "none" => del'.path \in Path
    BY <2>1 DEF Placed, wiping
  <2> QED
    BY <2>2, <2>3, <2>4, <2>6, <2>7, <2>8 DEF Placed
<1>12. ASSUME NEW i \in DOMAIN chain'[r] PROVE chain'[r][i].by = r /\ chain'[r][i].era = era[r]
  <2>1. CASE chain'[r] = <<>>
    BY <2>1, <1>12
  <2>2. CASE chain'[r] = <<e>>
    BY <2>2, <1>12, <1>3
  <2> QED
    BY <2>1, <2>2, <1>6
<1>13. OwnChain'
  <2> HIDE DEF e
  <2> QED
    BY <1>1, <1>6, <1>12 DEF OwnChain
<1>14. OwnFile'
  BY <1>5, <1>10, Authors DEF OwnFile
<1>15. WipedStaysWiped'
  <2> HIDE DEF e
  <2> QED
    BY <1>5, <1>6, <1>12 DEF WipedStaysWiped
<1> QED
  BY <1>9, <1>11, <1>13, <1>14, <1>15

LEMMA CreatedKeeps ==
  ASSUME IInv, NEW t \in Tab, Created(t) PROVE IInv'
<1> USE DEF IInv
<1>1. TypeOK'
  BY DEF Created, Go, Stage, TypeOK, recorders, wiping, bounds
<1>2. Placed'
  BY DEF Created, Go, Placed, TypeOK, recorders, wiping
<1>3. UNCHANGED kept
  BY DEF Created, recorders, kept
<1> QED
  BY <1>1, <1>2, <1>3, EntriesKept

LEMMA UndoneKeeps ==
  ASSUME IInv, NEW t \in Tab, Undone(t) PROVE IInv'
<1> USE DEF IInv
<1>1. candidate[t] \in Recorder /\ at[candidate[t]] \in Path
  BY DEF Undone, Placed, TypeOK
<1>2. TypeOK'
  BY <1>1 DEF Undone, Go, Stage, TypeOK, wiping, bounds
<1>3. Placed'
  BY <1>1 DEF Undone, Go, Placed, TypeOK, wiping
<1>4. UNCHANGED kept
  BY DEF Undone, kept
<1> QED
  BY <1>2, <1>3, <1>4, EntriesKept

-----------------------------------------------------------------------------
(* Clearing and deleting. *)

LEMMA ClearKeeps ==
  ASSUME IInv, NEW ps \in SUBSET Path, Clear(ps) PROVE IInv'
<1> USE DEF IInv
<1>1. MountedAt(ps) \subseteq Recorder /\ \A r \in MountedAt(ps) : at[r] \in ps
  BY DEF MountedAt, Placed, TypeOK
<1>2. paused' \in [Recorder -> BOOLEAN]
  BY DEF Clear, Pause, TypeOK
<1>3. TypeOK'
  BY <1>1, <1>2 DEF Clear, TypeOK, tabs
<1>4. Placed'
  BY <1>1 DEF Clear, Placed, tabs
<1>5. UNCHANGED kept
  BY DEF Clear, kept
<1> QED
  BY <1>3, <1>4, <1>5, EntriesKept

LEMMA ResumeType ==
  ASSUME TypeOK, NEW rs, Resume(rs) PROVE paused' \in [Recorder -> BOOLEAN]
  BY DEF Resume, TypeOK

\* The recorders rs have nothing on its way, and their files ps are emptied.
LEMMA WipeKeeps ==
  ASSUME TypeOK, OwnChain, OwnFile, WipedStaysWiped,
         NEW ps \in SUBSET Path, NEW rs \in SUBSET Recorder,
         \A r \in rs : at[r] \in ps /\ chain[r] = <<>>,
         file' = [p \in Path |-> IF p \in ps THEN <<>> ELSE file[p]],
         era' = [r \in Recorder |-> IF r \in rs THEN era[r] + 1 ELSE era[r]],
         UNCHANGED <<at, chain>>
  PROVE  /\ file' \in [Path -> Seq(Entry)] /\ era' \in [Recorder -> Nat]
         /\ OwnChain' /\ OwnFile' /\ WipedStaysWiped'
<1>1. file' \in [Path -> Seq(Entry)] /\ era' \in [Recorder -> Nat]
  <2>1. \A p \in Path : (IF p \in ps THEN <<>> ELSE file[p]) \in Seq(Entry)
    BY EmptySeq, Typed
  <2>2. \A r \in Recorder : (IF r \in rs THEN era[r] + 1 ELSE era[r]) \in Nat
    BY Typed
  <2> QED
    BY <2>1, <2>2
<1>2. \A p \in Path : \A i \in DOMAIN file[p] : file[p][i].by \in Recorder
  BY Authors
<1>3. OwnChain'
  BY DEF OwnChain
<1>4. \A p \in Path : \A i \in DOMAIN file'[p] :
          p \notin ps /\ i \in DOMAIN file[p] /\ file'[p][i] = file[p][i]
  OBVIOUS
<1>5. OwnFile'
  BY <1>4 DEF OwnFile
<1>6. \A r \in Recorder : \A i \in DOMAIN chain'[r] : chain'[r][i].era = era'[r]
  BY DEF WipedStaysWiped
<1>7. ASSUME NEW p \in Path, NEW i \in DOMAIN file'[p]
      PROVE  file'[p][i].era = era'[file'[p][i].by]
  <2>1. /\ p \notin ps /\ i \in DOMAIN file[p] /\ file'[p][i] = file[p][i]
        /\ file[p][i].by \in Recorder /\ at[file[p][i].by] = p
    BY <1>2, <1>4 DEF OwnFile
  <2>2. file[p][i].by \notin rs
    BY <2>1
  <2> QED
    BY <2>1, <2>2 DEF WipedStaysWiped
<1> QED
  BY <1>1, <1>3, <1>5, <1>6, <1>7 DEF WipedStaysWiped

LEMMA ClearedKeeps ==
  ASSUME IInv, Cleared PROVE IInv'
<1> USE DEF IInv
<1> DEFINE ps == clear.paths
           rs == clear.of
<1>1. /\ ps \in SUBSET Path /\ rs \in SUBSET Recorder
      /\ \A r \in rs : at[r] \in ps /\ chain[r] = <<>>
  BY DEF Cleared, Flushed, Placed, TypeOK
<1>2. /\ file' = [p \in Path |-> IF p \in ps THEN <<>> ELSE file[p]]
      /\ era' = [r \in Recorder |-> IF r \in rs THEN era[r] + 1 ELSE era[r]]
      /\ UNCHANGED <<at, chain>>
  BY DEF Cleared, Reset
<1>3. /\ file' \in [Path -> Seq(Entry)] /\ era' \in [Recorder -> Nat]
      /\ OwnChain' /\ OwnFile' /\ WipedStaysWiped'
  <2> HIDE DEF ps, rs
  <2> QED
    BY <1>1, <1>2, WipeKeeps
<1>4. paused' \in [Recorder -> BOOLEAN] /\ next' \in [Recorder -> Nat]
  BY ResumeType DEF Cleared, Reset, TypeOK
<1>5. TypeOK'
  BY <1>3, <1>4 DEF Cleared, NoClear, TypeOK, tabs, bounds
<1>6. Placed'
  BY DEF Cleared, NoClear, Placed, tabs
<1> QED
  BY <1>3, <1>5, <1>6

LEMMA ClearFailsKeeps ==
  ASSUME IInv, ClearFails PROVE IInv'
<1> USE DEF IInv
<1>1. PICK ps \in SUBSET clear.paths :
          file' = [p \in Path |-> IF p \in ps THEN <<>> ELSE file[p]]
  BY DEF ClearFails
<1>2. ps \in SUBSET Path /\ {} \in SUBSET Recorder /\ UNCHANGED <<at, chain, era>>
  BY DEF ClearFails, TypeOK
<1>3. era' = [r \in Recorder |-> IF r \in {} THEN era[r] + 1 ELSE era[r]]
  BY <1>2 DEF TypeOK
<1>4. /\ file' \in [Path -> Seq(Entry)] /\ OwnChain' /\ OwnFile' /\ WipedStaysWiped'
  BY <1>1, <1>2, <1>3, WipeKeeps
<1>5. paused' \in [Recorder -> BOOLEAN] /\ faults' \in Nat
  BY ResumeType DEF ClearFails, Fault, TypeOK
<1>6. TypeOK'
  BY <1>4, <1>5 DEF ClearFails, NoClear, TypeOK, tabs
<1>7. Placed'
  BY DEF ClearFails, NoClear, Placed, tabs
<1> QED
  BY <1>4, <1>6, <1>7

LEMMA DeleteKeeps ==
  ASSUME IInv, NEW p \in Path, Delete(p) PROVE IInv'
<1> USE DEF IInv
<1>1. TypeOK'
  BY DEF Delete, TypeOK, tabs, recorders
<1>2. Placed'
  BY DEF Delete, Placed, tabs, recorders
<1>3. UNCHANGED kept
  BY DEF Delete, recorders, kept
<1> QED
  BY <1>1, <1>2, <1>3, EntriesKept

LEMMA DeleteDisposesKeeps ==
  ASSUME IInv, DeleteDisposes PROVE IInv'
<1> USE DEF IInv
<1> DEFINE p == del.path
<1>1. p \in Path /\ mounted[p] \in Recorder \cup {None}
      /\ (mounted[p] # None => at[mounted[p]] = p)
  BY DEF DeleteDisposes, Placed, TypeOK
<1>2. /\ mounted' = [mounted EXCEPT ![p] = None]
      /\ closed' = IF mounted[p] = None THEN closed ELSE [closed EXCEPT ![mounted[p]] = TRUE]
      /\ del' = [del EXCEPT !.stage = "draining", !.of = mounted[p]]
      /\ deleted' = deleted \cup ({mounted[p]} \ {None})
  BY DEF DeleteDisposes, Dispose
<1>3. TypeOK'
  BY <1>1, <1>2 DEF DeleteDisposes, TypeOK, tabs, bounds
<1>4. Placed'
  BY <1>1, <1>2 DEF DeleteDisposes, Placed, TypeOK, tabs
<1>5. UNCHANGED kept
  BY DEF DeleteDisposes, kept
<1> QED
  BY <1>3, <1>4, <1>5, EntriesKept

LEMMA DeletedKeeps ==
  ASSUME IInv, Deleted PROVE IInv'
<1> USE DEF IInv
<1> DEFINE ps == {del.path}
           rs == {del.of} \ {None}
<1>1. /\ ps \in SUBSET Path /\ rs \in SUBSET Recorder
      /\ \A r \in rs : at[r] \in ps /\ chain[r] = <<>>
  BY DEF Deleted, Drained, Placed, TypeOK
<1>2. /\ file' = [p \in Path |-> IF p \in ps THEN <<>> ELSE file[p]]
      /\ era' = [r \in Recorder |-> IF r \in rs THEN era[r] + 1 ELSE era[r]]
      /\ UNCHANGED <<at, chain>>
  <2>1. file' = [file EXCEPT ![del.path] = <<>>] /\ UNCHANGED <<at, chain>>
        /\ era' = [r \in Recorder |-> IF r = del.of THEN era[r] + 1 ELSE era[r]]
    BY DEF Deleted
  <2>2. file' = [p \in Path |-> IF p \in ps THEN <<>> ELSE file[p]]
    BY <2>1 DEF TypeOK
  <2>3. \A r \in Recorder : r = del.of <=> r \in rs
    BY RawAssumption
  <2> HIDE DEF rs
  <2> QED
    BY <2>1, <2>2, <2>3
<1>3. /\ file' \in [Path -> Seq(Entry)] /\ era' \in [Recorder -> Nat]
      /\ OwnChain' /\ OwnFile' /\ WipedStaysWiped'
  <2> HIDE DEF ps, rs
  <2> QED
    BY <1>1, <1>2, WipeKeeps
<1>4. TypeOK'
  BY <1>3 DEF Deleted, NoDel, TypeOK, tabs, bounds
<1>5. Placed'
  BY DEF Deleted, NoDel, Placed, tabs
<1> QED
  BY <1>3, <1>4, <1>5

-----------------------------------------------------------------------------
LEMMA Starts == Init => IInv
<1> SUFFICES ASSUME Init PROVE IInv
  OBVIOUS
<1>1. TypeOK
  BY EmptySeq DEF Init, TypeOK, Stage, NoClear, NoDel
<1>2. Placed
  BY DEF Init, Placed, NoClear, NoDel
<1>3. OwnChain /\ OwnFile /\ WipedStaysWiped
  BY DEF Init, OwnChain, OwnFile, WipedStaysWiped
<1> QED
  BY <1>1, <1>2, <1>3 DEF IInv

LEMMA Stays == IInv /\ [Next]_vars => IInv'
<1> SUFFICES ASSUME IInv, [Next]_vars PROVE IInv'
  OBVIOUS
<1>1. ASSUME NEW t \in Tab, NEW p \in Path, Open(t, p) PROVE IInv'
  BY <1>1, OpenKeeps
<1>2. ASSUME NEW t \in Tab, NEW r \in Recorder, Record(t, r) \/ Make(t, r) PROVE IInv'
  BY <1>2, RecordKeeps, MakeKeeps
<1>3. ASSUME NEW t \in Tab,
             Lock(t) \/ LockRefused(t) \/ Retired(t) \/ ReadSeq(t) \/ Created(t)
             \/ CreateFails(t) \/ Undone(t) \/ Close(t) \/ Closed(t)
      PROVE  IInv'
  BY <1>3, LockKeeps, StagesKeep, ReadSeqKeeps, CreatedKeeps, UndoneKeeps, CloseKeeps
<1>4. ASSUME NEW r \in Recorder, Write(r) \/ WriteFails(r) PROVE IInv'
  BY <1>4, WriteKeeps, WriteFailsKeeps
<1>5. ASSUME NEW p \in Path, Clear({p}) \/ Delete(p) PROVE IInv'
  BY <1>5, ClearKeeps, DeleteKeeps
<1>6. ASSUME Clear(Path) \/ Cleared \/ ClearFails \/ DeleteDisposes \/ Deleted PROVE IInv'
  BY <1>6, ClearKeeps, ClearedKeeps, ClearFailsKeeps, DeleteDisposesKeeps, DeletedKeeps
<1>7. CASE UNCHANGED vars
  <2>1. TypeOK' /\ Placed'
    BY <1>7 DEF IInv, TypeOK, Placed, vars, tabs, recorders, wiping, bounds
  <2>2. UNCHANGED kept
    BY <1>7 DEF vars, recorders, kept
  <2> QED
    BY <2>1, <2>2, EntriesKept DEF IInv
<1> QED
  BY <1>1, <1>2, <1>3, <1>4, <1>5, <1>6, <1>7 DEF Next

LEMMA Invariant == Spec => []IInv
  BY Starts, Stays, PTL DEF Spec

\* Every variable of RawRecorder keeps its type.
THEOREM TypeCorrect == Spec => []TypeOK
<1>1. IInv => TypeOK
  BY DEF IInv
<1> QED
  BY <1>1, Invariant, PTL

\* However many tabs, clears and failures there are, nothing that was recorded
\* before a clear or a deletion is written after it by the recorder it found.
THEOREM WipesHold == Spec => []WipedStaysWiped
<1>1. IInv => WipedStaysWiped
  BY DEF IInv
<1> QED
  BY <1>1, Invariant, PTL
-----------------------------------------------------------------------------
(* Who records a session: of the paths that were not shared, each has at   *)
(* most one recorder that is not closed and drained.                       *)

Unshared == Path \ shared
Busy(r) == at[r] \in Path /\ InUse(r)
Hand(t) == {current[t], candidate[t], retiring[t]}

Seat(t) ==
    /\ stage[t] \notin {"none", "locking", "open"} => current[t] = None
    /\ stage[t] \notin {"creating", "undoing"} => candidate[t] = None
    /\ stage[t] \notin {"retiring", "closing"} => retiring[t] = None
    /\ current[t] # None => owner[current[t]] = t
    /\ candidate[t] # None => owner[candidate[t]] = t /\ at[candidate[t]] = want[t]
    /\ retiring[t] # None => closed[retiring[t]]
    /\ stage[t] = "open" => current[t] # None /\ at[current[t]] = want[t]
    /\ stage[t] \in {"retiring", "reading", "making", "creating", "open"} =>
          want[t] \in Path /\ lock[want[t]] = t
Seats == \A t \in Tab : Seat(t)

Held(t) == {current[t], candidate[t]} \cap Recorder

SeatLive == \A t \in Tab : \A r \in Held(t) :
                at[r] \in Unshared /\ r \notin deleted => ~closed[r]
InHand == \A r \in Recorder : Busy(r) /\ at[r] \in Unshared /\ r \notin deleted =>
              owner[r] \in Tab /\ r \in Hand(owner[r])
LiveMounted == \A r \in Recorder : at[r] \in Unshared /\ ~closed[r] => mounted[at[r]] = r
MountedLive == \A p \in Path : mounted[p] # None => ~closed[mounted[p]]
AloneAt(t, p) == \A r \in Recorder : at[r] = p =>
                     /\ owner[r] # t => ~Busy(r)
                     /\ \A s \in Tab \ {t} : r \notin {current[s], candidate[s]}
Alone == \A t \in Tab : stage[t] \in {"making", "creating", "open"} /\ want[t] \in Unshared =>
             AloneAt(t, want[t])
VacantAt(p) == \A r \in Recorder : at[r] = p => ~Busy(r)
Vacant == \A t \in Tab : stage[t] = "making" /\ want[t] \in Unshared => VacantAt(want[t])
HeldAlone == \A t \in Tab : \A h \in Held(t) : \A q \in Recorder :
                 at[h] \in Unshared /\ at[q] = at[h] /\ ~closed[q] => q = h
DeletedClosed == \A r \in deleted : closed[r]
OneBusy == \A r, q \in Recorder :
               Busy(r) /\ Busy(q) /\ at[r] = at[q] /\ at[r] \in Unshared => r = q
Unmade == \A r \in Recorder : at[r] = None => ~closed[r]

Living == LiveMounted /\ MountedLive /\ DeletedClosed /\ Unmade
Sole == Alone /\ Vacant /\ HeldAlone /\ OneBusy
Seating == Seats /\ SeatLive /\ InHand /\ Living /\ Sole

\* What the proofs below need of the types.
LEMMA TabTypes ==
  ASSUME TypeOK
  PROVE  /\ \A t \in Tab : /\ current[t] \in Recorder \cup {None}
                           /\ candidate[t] \in Recorder \cup {None}
                           /\ retiring[t] \in Recorder \cup {None}
                           /\ want[t] \in Path \cup {None} /\ stage[t] \in Stage
                           /\ stage[t] \notin {"none", "closing"} => want[t] \in Path
         /\ \A r \in Recorder : at[r] \in Path \cup {None} /\ closed[r] \in BOOLEAN
         /\ \A p \in Path : mounted[p] \in Recorder \cup {None}
         /\ None \notin Tab \cup Path \cup Recorder
         /\ deleted \subseteq Recorder
  BY RawAssumption DEF TypeOK

\* The tabs stay, the recorders mounted stay, and none becomes busy.
LEMMA SeatsFrame ==
  ASSUME Seating,
         UNCHANGED <<lock, stage, want, current, candidate, retiring, at, owner, mounted, closed,
                     deleted>>,
         shared \subseteq shared', \A r \in Recorder : Busy(r)' => Busy(r)
  PROVE  Seating'
<1>1. Seats'
  BY DEF Seating, Seats, Seat
<1>2. Unshared' \subseteq Unshared
  BY DEF Unshared
<1>3. SeatLive' /\ Living'
  BY <1>2 DEF Seating, SeatLive, Held, Living, LiveMounted, MountedLive, DeletedClosed, Unmade
<1>4. InHand'
  BY <1>2 DEF Seating, InHand, Hand
<1>5. Alone' /\ Vacant'
  BY <1>2 DEF Seating, Sole, Alone, AloneAt, Vacant, VacantAt
<1>6. OneBusy' /\ HeldAlone'
  BY <1>2 DEF Seating, Sole, OneBusy, HeldAlone, Held
<1> QED
  BY <1>1, <1>3, <1>4, <1>5, <1>6 DEF Seating, Sole

-----------------------------------------------------------------------------
(* A step of one tab. *)

Elsewhere(t) == \A s \in Tab \ {t} :
    /\ stage'[s] = stage[s] /\ want'[s] = want[s] /\ current'[s] = current[s]
    /\ candidate'[s] = candidate[s] /\ retiring'[s] = retiring[s]
    /\ \A p \in Path : lock[p] = s => lock'[p] = s

LEMMA OthersSeated ==
  ASSUME TypeOK, Placed, Seats, NEW t \in Tab, Elsewhere(t),
         \A r \in Recorder : at[r] \in Path => at'[r] = at[r] /\ owner'[r] = owner[r],
         \A r \in Recorder : closed[r] => closed'[r]
  PROVE  \A s \in Tab \ {t} : Seat(s)'
<1> SUFFICES ASSUME NEW s \in Tab \ {t} PROVE Seat(s)'
  OBVIOUS
<1>1. /\ stage'[s] = stage[s] /\ want'[s] = want[s] /\ current'[s] = current[s]
      /\ candidate'[s] = candidate[s] /\ retiring'[s] = retiring[s]
      /\ \A p \in Path : lock[p] = s => lock'[p] = s
  BY DEF Elsewhere
<1>2. Seat(s)
  BY DEF Seats
<1>3. current[s] # None => at'[current[s]] = at[current[s]] /\ owner'[current[s]] = owner[current[s]]
  BY TabTypes DEF Placed
<1>4. candidate[s] # None => /\ at'[candidate[s]] = at[candidate[s]]
                             /\ owner'[candidate[s]] = owner[candidate[s]]
  BY <1>2, TabTypes DEF Placed, Seat
<1>5. retiring[s] # None => (closed[retiring[s]] => closed'[retiring[s]])
  BY TabTypes
<1> QED
  BY <1>1, <1>2, <1>3, <1>4, <1>5 DEF Seat

\* One that leaves the recorders alone.
LEMMA TabStep ==
  ASSUME TypeOK, Placed, Seating, NEW t \in Tab, Elsewhere(t),
         UNCHANGED <<at, owner, closed, chain, mounted, deleted>>, shared \subseteq shared',
         Seat(t)',
         {current'[t], candidate'[t]} \subseteq {current[t], candidate[t], None},
         \A r \in Recorder : Busy(r) /\ r \in Hand(t) => r \in Hand(t)',
         stage'[t] \in {"making", "creating", "open"} /\ want'[t] \in Unshared' =>
            AloneAt(t, want'[t]),
         stage'[t] = "making" /\ want'[t] \in Unshared' => VacantAt(want'[t])
  PROVE  Seating'
<1>1. Seats'
  BY OthersSeated DEF Seating, Seats
<1>2. Unshared' \subseteq Unshared
  BY DEF Unshared
<1>3. \A s \in Tab : {current'[s], candidate'[s]} \subseteq {current[s], candidate[s], None}
  BY DEF Elsewhere
<1>4. SeatLive' /\ HeldAlone'
  <2>1. \A s \in Tab : Held(s)' \subseteq Held(s)
    BY <1>3, TabTypes DEF Held
  <2> QED
    BY <1>2, <2>1 DEF Seating, SeatLive, Sole, HeldAlone
<1>5. Living'
  BY <1>2 DEF Seating, Living, LiveMounted, MountedLive, DeletedClosed, Unmade
<1>6. \A r \in Recorder : Busy(r)' <=> Busy(r)
  BY DEF Busy
<1>7. OneBusy'
  BY <1>2, <1>6 DEF Seating, Sole, OneBusy
<1>8. InHand'
  <2>1. ASSUME NEW r \in Recorder, Busy(r), at[r] \in Unshared, r \notin deleted
        PROVE  owner[r] \in Tab /\ r \in Hand(owner[r])'
    <3>1. owner[r] \in Tab /\ r \in Hand(owner[r])
      BY <2>1 DEF Seating, InHand
    <3>2. CASE owner[r] = t
      BY <2>1, <3>1, <3>2
    <3>3. CASE owner[r] # t
      BY <3>1, <3>3 DEF Elsewhere, Hand
    <3> QED
      BY <3>2, <3>3, <3>1
  <2> QED
    BY <2>1, <1>2, <1>6 DEF InHand, Hand
<1>9. Alone'
  <2> SUFFICES ASSUME NEW s \in Tab, stage'[s] \in {"making", "creating", "open"},
                      want'[s] \in Unshared'
               PROVE  AloneAt(s, want'[s])
    BY <1>3, <1>6, TabTypes DEF Alone, AloneAt
  <2>1. CASE s = t
    BY <2>1
  <2>2. CASE s # t
    BY <2>2, <1>2 DEF Elsewhere, Seating, Sole, Alone
  <2> QED
    BY <2>1, <2>2
<1>10. Vacant'
  <2> SUFFICES ASSUME NEW s \in Tab, stage'[s] = "making", want'[s] \in Unshared'
               PROVE  VacantAt(want'[s])
    BY <1>6 DEF Vacant, VacantAt
  <2>1. CASE s = t
    BY <2>1
  <2>2. CASE s # t
    BY <2>2, <1>2 DEF Elsewhere, Seating, Sole, Vacant
  <2> QED
    BY <2>1, <2>2
<1> QED
  BY <1>1, <1>4, <1>5, <1>7, <1>8, <1>9, <1>10 DEF Seating, Sole

\* One that disposes of what is mounted at the path p of its recorder h.
LEMMA DisposeStep ==
  ASSUME TypeOK, Placed, Seating, NEW t \in Tab, Elsewhere(t), NEW h \in Recorder, NEW x,
         at[h] \in Path, h \in {current[t], candidate[t]}, Hand(t) \subseteq {h, None},
         UNCHANGED <<at, owner, chain, shared, deleted>>,
         mounted' = [mounted EXCEPT ![at[h]] = None],
         closed' = IF x = None THEN closed ELSE [closed EXCEPT ![x] = TRUE],
         x # None => x \in Recorder /\ at[x] = at[h],
         at[h] \in Unshared => x \in {None, h} /\ closed'[h],
         at[h] \in Unshared /\ h \notin deleted => h \in Hand(t)',
         current'[t] = None, candidate'[t] = None,
         Seat(t)', stage'[t] \notin {"making", "creating", "open"}
  PROVE  Seating'
<1>1. \A r \in Recorder : closed[r] => closed'[r]
  BY DEF TypeOK
<1>2. Seats'
  BY <1>1, OthersSeated DEF Seating, Seats
<1>3. Unshared' = Unshared
  BY DEF Unshared
<1>4. \A r \in Recorder : Busy(r)' => Busy(r)
  BY <1>1 DEF Busy
<1>5. OneBusy'
  BY <1>3, <1>4 DEF Seating, Sole, OneBusy
<1>6. \A r \in Recorder : at[r] \in Unshared /\ closed'[r] /\ ~closed[r] => r = h /\ at[h] \in Unshared
  BY DEF TypeOK
<1>7. owner[h] = t
  BY TabTypes DEF Seating, Seats, Seat
<1>8. SeatLive'
  <2> SUFFICES ASSUME NEW s \in Tab, NEW r \in {current'[s], candidate'[s]} \cap Recorder,
                      at[r] \in Unshared, r \notin deleted, closed'[r]
               PROVE  FALSE
    BY <1>3 DEF SeatLive, Held
  <2>1. s # t
    BY TabTypes
  <2>2. r \in {current[s], candidate[s]} /\ ~closed[r]
    BY <2>1 DEF Elsewhere, Seating, SeatLive, Held
  <2>3. r = h
    BY <2>2, <1>6
  <2>4. owner[r] = s
    BY <2>2, TabTypes DEF Seating, Seats, Seat
  <2> QED
    BY <1>7, <2>1, <2>3, <2>4
<1>9. LiveMounted'
  <2> SUFFICES ASSUME NEW r \in Recorder, at[r] \in Unshared, ~closed'[r]
               PROVE  mounted'[at[r]] = r
    BY <1>3 DEF LiveMounted
  <2>1. ~closed[r] /\ mounted[at[r]] = r
    BY <1>1 DEF Seating, Living, LiveMounted
  <2>2. at[r] # at[h]
    <3> SUFFICES ASSUME at[r] = at[h] PROVE FALSE
      OBVIOUS
    <3>1. r = h
      BY <2>1 DEF Seating, Sole, HeldAlone, Held
    <3> QED
      BY <3>1
  <2>3. at[r] \in Path
    BY DEF Unshared
  <2> QED
    BY <2>1, <2>2, <2>3 DEF TypeOK
<1>10. InHand'
  <2> SUFFICES ASSUME NEW r \in Recorder, Busy(r), at[r] \in Unshared, r \notin deleted
               PROVE  owner[r] \in Tab /\ r \in Hand(owner[r])'
    BY <1>3, <1>4 DEF InHand, Hand
  <2>1. owner[r] \in Tab /\ r \in Hand(owner[r])
    BY DEF Seating, InHand
  <2>2. CASE owner[r] = t
    BY <2>1, <2>2, TabTypes
  <2>3. CASE owner[r] # t
    BY <2>1, <2>3 DEF Elsewhere, Hand
  <2> QED
    BY <2>1, <2>2, <2>3
<1>11. Alone'
  <2> SUFFICES ASSUME NEW s \in Tab, stage'[s] \in {"making", "creating", "open"},
                      want'[s] \in Unshared
               PROVE  AloneAt(s, want[s])'
    BY <1>3 DEF Alone
  <2>1. s # t
    OBVIOUS
  <2>2. AloneAt(s, want[s]) /\ want'[s] = want[s]
    BY <2>1 DEF Elsewhere, Seating, Sole, Alone
  <2>3. \A u \in Tab : {current'[u], candidate'[u]} \subseteq {current[u], candidate[u], None}
    BY DEF Elsewhere
  <2> QED
    BY <2>2, <2>3, <1>4, RawAssumption DEF AloneAt
<1>12. Unmade' /\ DeletedClosed'
  <2>1. \A r \in Recorder : at[r] = None => r # x /\ ~closed[r]
    BY RawAssumption DEF Seating, Living, Unmade
  <2>2. closed \in [Recorder -> BOOLEAN]
    BY DEF TypeOK
  <2> QED
    BY <1>1, <2>1, <2>2, TabTypes DEF Unmade, Seating, Living, DeletedClosed
<1>13. MountedLive'
  <2> SUFFICES ASSUME NEW p \in Path, mounted'[p] # None PROVE ~closed'[mounted'[p]]
    BY DEF MountedLive
  <2>1. p # at[h] /\ mounted'[p] = mounted[p] /\ mounted[p] \in Recorder
    BY TabTypes DEF TypeOK
  <2>2. at[mounted[p]] = p /\ ~closed[mounted[p]]
    BY <2>1 DEF Placed, Seating, Living, MountedLive
  <2>3. mounted[p] # x
    BY <2>1, <2>2
  <2> QED
    BY <2>1, <2>2, <2>3 DEF TypeOK
<1>14. HeldAlone'
  <2>1. \A s \in Tab : Held(s)' \subseteq Held(s)
    BY TabTypes DEF Held, Elsewhere
  <2> QED
    BY <1>1, <1>3, <2>1 DEF Seating, Sole, HeldAlone
<1>15. Vacant'
  <2> SUFFICES ASSUME NEW s \in Tab, stage'[s] = "making", want'[s] \in Unshared
               PROVE  VacantAt(want[s])'
    BY <1>3 DEF Vacant
  <2>1. s # t
    OBVIOUS
  <2>2. VacantAt(want[s]) /\ want'[s] = want[s]
    BY <2>1 DEF Elsewhere, Seating, Sole, Vacant
  <2> QED
    BY <2>2, <1>4 DEF VacantAt
<1> QED
  BY <1>2, <1>5, <1>8, <1>9, <1>10, <1>11, <1>12, <1>13, <1>14, <1>15 DEF Seating, Living, Sole

-----------------------------------------------------------------------------
(* The steps that seat no one. *)

LEMMA AppendsSeat ==
  ASSUME IInv, Seating, NEW r \in Recorder, WriteFails(r) \/ Write(r) PROVE Seating'
<1>1. UNCHANGED <<lock, stage, want, current, candidate, retiring, at, owner, mounted, closed>>
      /\ UNCHANGED <<shared, deleted>>
  BY DEF WriteFails, Write, tabs
<1>2. chain[r] # <<>> /\ chain' = [chain EXCEPT ![r] = Tail(@)] /\ chain \in [Recorder -> Seq(Entry)]
  BY DEF WriteFails, Write, IInv, TypeOK
<1>3. \A q \in Recorder : chain'[q] # <<>> => chain[q] # <<>>
  BY <1>2
<1>4. \A q \in Recorder : Busy(q)' => Busy(q)
  BY <1>1, <1>3 DEF Busy
<1> QED
  BY <1>1, <1>4, SeatsFrame

LEMMA RecordSeats ==
  ASSUME IInv, Seating, NEW t \in Tab, NEW r \in Recorder, Record(t, r) PROVE Seating'
<1>1. UNCHANGED <<lock, stage, want, current, candidate, retiring, at, owner, mounted, closed>>
      /\ UNCHANGED <<shared, deleted>>
  BY DEF Record, tabs
<1>2. at[r] \in Path /\ ~closed[r]
  BY RawAssumption DEF Record, Records, IInv, Placed, TypeOK
<1>3. \A q \in Recorder \ {r} : chain'[q] = chain[q]
  BY DEF Record, IInv, TypeOK
<1>4. \A q \in Recorder : Busy(q)' => Busy(q)
  BY <1>1, <1>2, <1>3 DEF Busy
<1> QED
  BY <1>1, <1>4, SeatsFrame

LEMMA WipingSeats ==
  ASSUME Seating,
         (\E ps \in SUBSET Path : Clear(ps)) \/ Cleared \/ ClearFails \/ Deleted
         \/ (\E p \in Path : Delete(p))
  PROVE  Seating'
<1>1. UNCHANGED <<lock, stage, want, current, candidate, retiring, at, owner, mounted, closed>>
      /\ UNCHANGED <<shared, deleted, chain>>
  BY DEF Clear, Cleared, ClearFails, Delete, Deleted, tabs, recorders
<1>2. \A q \in Recorder : Busy(q)' => Busy(q)
  BY <1>1 DEF Busy
<1> QED
  BY <1>1, <1>2, SeatsFrame

\* Whoever a deletion disposes of is closed, not mounted and known as deleted.
LEMMA DeleteDisposesSeats ==
  ASSUME IInv, Seating, DeleteDisposes PROVE Seating'
<1> DEFINE p == del.path
           m == mounted[del.path]
<1>1. /\ p \in Path /\ m \in Recorder \cup {None} /\ (m # None => at[m] = p)
  BY DEF DeleteDisposes, IInv, Placed, TypeOK
<1>2. /\ UNCHANGED <<lock, stage, want, current, candidate, retiring, at, owner, chain, shared>>
      /\ mounted' = [mounted EXCEPT ![p] = None]
      /\ closed' = IF m = None THEN closed ELSE [closed EXCEPT ![m] = TRUE]
      /\ deleted' = deleted \cup ({m} \ {None})
  BY DEF DeleteDisposes, Dispose, tabs
<1>3. /\ mounted \in [Path -> Recorder \cup {None}] /\ closed \in [Recorder -> BOOLEAN]
      /\ TypeOK /\ None \notin Recorder /\ Placed
  BY RawAssumption DEF IInv, TypeOK
<1>4. mounted'[p] = None /\ \A q \in Path \ {p} : mounted'[q] = mounted[q]
  BY <1>1, <1>2, <1>3
<1>5. mounted[p] = m
  OBVIOUS
<1> HIDE DEF p, m
<1>6. \A q \in Recorder : (closed[q] => closed'[q]) /\ (q # m => closed'[q] = closed[q])
  BY <1>1, <1>2, <1>3
<1>7. m # None => closed'[m]
  BY <1>1, <1>2, <1>3
<1>8. Unshared' = Unshared /\ deleted \subseteq deleted' /\ (m # None => m \in deleted')
  BY <1>2 DEF Unshared
<1>9. \A q \in Recorder : Busy(q)' => Busy(q)
  BY <1>2, <1>6 DEF Busy
<1>10. Seats'
  <2>1. \A s \in Tab : Seat(s)
    BY DEF Seating, Seats
  <2>2. \A s \in Tab : retiring[s] # None => (closed[retiring[s]] => closed'[retiring[s]])
    BY <1>3, <1>6, TabTypes
  <2> QED
    BY <1>2, <2>1, <2>2 DEF Seats, Seat
<1>11. SeatLive'
  BY <1>2, <1>3, <1>6, <1>8 DEF Seating, SeatLive, Held
<1>12. InHand'
  BY <1>2, <1>8, <1>9 DEF Seating, InHand, Hand
<1>13. LiveMounted'
  <2> SUFFICES ASSUME NEW q \in Recorder, at[q] \in Unshared, ~closed'[q]
               PROVE  mounted'[at[q]] = q
    BY <1>2, <1>8 DEF LiveMounted
  <2>1. mounted[at[q]] = q /\ at[q] \in Path
    BY <1>6 DEF Seating, Living, LiveMounted, Unshared
  <2>2. at[q] # p
    BY <2>1, <1>3, <1>5, <1>7
  <2> QED
    BY <2>1, <2>2, <1>4
<1>14. MountedLive'
  <2> SUFFICES ASSUME NEW q \in Path, mounted'[q] # None PROVE ~closed'[mounted'[q]]
    BY DEF MountedLive
  <2>1. q # p /\ mounted'[q] = mounted[q] /\ mounted[q] \in Recorder
    BY <1>3, <1>4
  <2>2. at[mounted[q]] = q /\ ~closed[mounted[q]]
    BY <2>1, <1>3 DEF Placed, Seating, Living, MountedLive
  <2>3. mounted[q] # m
    BY <2>1, <2>2, <1>1, <1>3
  <2> QED
    BY <2>1, <2>2, <2>3, <1>6
<1>15. DeletedClosed' /\ Unmade'
  <2>1. DeletedClosed'
    BY <1>1, <1>2, <1>3, <1>6, <1>7, TabTypes DEF Seating, Living, DeletedClosed
  <2>2. \A q \in Recorder : at[q] = None => q # m
    BY <1>1, <1>3, RawAssumption
  <2> QED
    BY <1>2, <1>6, <2>1, <2>2 DEF Seating, Living, Unmade
<1>16. Alone' /\ Vacant'
  BY <1>2, <1>8, <1>9 DEF Seating, Sole, Alone, AloneAt, Vacant, VacantAt
<1>17. HeldAlone' /\ OneBusy'
  BY <1>2, <1>6, <1>8, <1>9 DEF Seating, Sole, HeldAlone, Held, OneBusy
<1> QED
  BY <1>10, <1>11, <1>12, <1>13, <1>14, <1>15, <1>16, <1>17 DEF Seating, Living, Sole

-----------------------------------------------------------------------------
(* The tabs. *)

\* Only a tab's own locks go when it frees them.
LEMMA FreedKeepsOthers ==
  ASSUME NEW t \in Tab, lock' = Freed(t)
  PROVE  \A p \in Path : \A s \in Tab \ {t} : lock[p] = s => lock'[p] = s
  BY DEF Freed

LEMMA OpenSeats ==
  ASSUME IInv, Seating, NEW t \in Tab, NEW p \in Path, Open(t, p) PROVE Seating'
<1>1. /\ UNCHANGED <<current, candidate, retiring, at, owner, closed, chain, mounted,
                   shared, deleted>>
      /\ stage' = [stage EXCEPT ![t] = "locking"] /\ want' = [want EXCEPT ![t] = p]
      /\ lock' = Freed(t) /\ stage[t] \in {"none", "open"}
  BY DEF Open, Go, recorders
<1>2. /\ TypeOK /\ Placed /\ Seat(t)
      /\ stage \in [Tab -> Stage] /\ want \in [Tab -> Path \cup {None}]
  BY DEF IInv, TypeOK, Seating, Seats
<1>3. stage'[t] = "locking"
  BY <1>1, <1>2
<1>4. Elsewhere(t)
  BY <1>1, <1>2, FreedKeepsOthers DEF Elsewhere
<1>5. candidate[t] = None /\ retiring[t] = None
  BY <1>1, <1>2 DEF Seat
<1>6. Seat(t)'
  BY <1>1, <1>2, <1>3, <1>5 DEF Seat
<1> QED
  BY <1>1, <1>2, <1>3, <1>4, <1>6, TabStep DEF Hand

LEMMA LockRefusedSeats ==
  ASSUME IInv, Seating, NEW t \in Tab, LockRefused(t) PROVE Seating'
<1>1. /\ UNCHANGED <<lock, current, candidate, retiring, at, owner, closed, chain, mounted,
                   shared, deleted>>
      /\ stage' = [stage EXCEPT ![t] = "none"] /\ want' = [want EXCEPT ![t] = None]
      /\ stage[t] = "locking"
  BY DEF LockRefused, Go, recorders
<1>2. /\ TypeOK /\ Placed /\ Seat(t)
      /\ stage \in [Tab -> Stage] /\ want \in [Tab -> Path \cup {None}]
  BY DEF IInv, TypeOK, Seating, Seats
<1>3. stage'[t] = "none"
  BY <1>1, <1>2
<1>4. Elsewhere(t)
  BY <1>1, <1>2 DEF Elsewhere
<1>5. Seat(t)'
  BY <1>1, <1>2, <1>3 DEF Seat
<1> QED
  BY <1>1, <1>2, <1>3, <1>4, <1>5, TabStep DEF Hand

\* What a tab has waited for is closed and drained.
LEMMA WaitedFor ==
  ASSUME TypeOK, Seating, NEW t \in Tab, Drained(retiring[t]), NEW r \in Recorder, Busy(r)
  PROVE  r # retiring[t]
  BY TabTypes DEF Seating, Seats, Seat, Drained, Busy

LEMMA RetiredSeats ==
  ASSUME IInv, Seating, NEW t \in Tab, Retired(t) PROVE Seating'
<1>1. /\ UNCHANGED <<lock, want, current, candidate, at, owner, closed, chain, mounted,
                   shared, deleted>>
      /\ stage' = [stage EXCEPT ![t] = "reading"] /\ retiring' = [retiring EXCEPT ![t] = None]
      /\ stage[t] = "retiring" /\ Drained(retiring[t])
  BY DEF Retired, Go, recorders
<1>2. /\ TypeOK /\ Placed /\ Seat(t)
      /\ stage \in [Tab -> Stage] /\ retiring \in [Tab -> Recorder \cup {None}]
  BY DEF IInv, TypeOK, Seating, Seats
<1>3. stage'[t] = "reading" /\ retiring'[t] = None
  BY <1>1, <1>2
<1>4. Elsewhere(t)
  BY <1>1, <1>2 DEF Elsewhere
<1>5. Seat(t)'
  BY <1>1, <1>2, <1>3 DEF Seat
<1>6. \A r \in Recorder : Busy(r) /\ r \in Hand(t) => r \in Hand(t)'
  BY <1>1, <1>2, WaitedFor DEF Hand
<1> QED
  BY <1>1, <1>2, <1>3, <1>4, <1>5, <1>6, TabStep

LEMMA ClosedSeats ==
  ASSUME IInv, Seating, NEW t \in Tab, Closed(t) PROVE Seating'
<1>1. /\ UNCHANGED <<current, candidate, at, owner, closed, chain, mounted,
                   shared, deleted>>
      /\ stage' = [stage EXCEPT ![t] = "none"] /\ retiring' = [retiring EXCEPT ![t] = None]
      /\ want' = [want EXCEPT ![t] = None] /\ lock' = Freed(t)
      /\ stage[t] = "closing" /\ Drained(retiring[t])
  BY DEF Closed, Go, recorders
<1>2. /\ TypeOK /\ Placed /\ Seat(t) /\ want \in [Tab -> Path \cup {None}]
      /\ stage \in [Tab -> Stage] /\ retiring \in [Tab -> Recorder \cup {None}]
  BY DEF IInv, TypeOK, Seating, Seats
<1>3. stage'[t] = "none" /\ retiring'[t] = None
  BY <1>1, <1>2
<1>4. Elsewhere(t)
  BY <1>1, <1>2, FreedKeepsOthers DEF Elsewhere
<1>5. candidate[t] = None
  BY <1>1, <1>2 DEF Seat
<1>6. Seat(t)'
  BY <1>1, <1>2, <1>3, <1>5 DEF Seat
<1>7. \A r \in Recorder : Busy(r) /\ r \in Hand(t) => r \in Hand(t)'
  BY <1>1, <1>2, WaitedFor DEF Hand
<1> QED
  BY <1>1, <1>2, <1>3, <1>4, <1>6, <1>7, TabStep

\* The tab that reads the next number is alone, or its session is shared.
LEMMA ReadSeqSeats ==
  ASSUME IInv, Seating, NEW t \in Tab, ReadSeq(t) PROVE Seating'
<1>1. /\ UNCHANGED <<lock, want, current, candidate, retiring, at, owner, closed, chain, mounted>>
      /\ stage' = [stage EXCEPT ![t] = "making"] /\ stage[t] = "reading"
      /\ shared \subseteq shared' /\ UNCHANGED deleted
  BY DEF ReadSeq, Go, recorders
<1>2. (\E r \in Recorder : Beside(t, r)) => want[t] \in shared'
  BY DEF ReadSeq
<1>3. TypeOK /\ Placed /\ Seat(t) /\ stage \in [Tab -> Stage]
  BY DEF IInv, TypeOK, Seating, Seats
<1>4. stage'[t] = "making"
  BY <1>1, <1>3
<1>5. Elsewhere(t)
  BY <1>1, <1>3 DEF Elsewhere
<1>6. Seat(t)'
  BY <1>1, <1>3, <1>4 DEF Seat
<1>7. want[t] \in Unshared' => AloneAt(t, want[t])
  BY <1>2 DEF Unshared, AloneAt, Beside, Busy
<1>8. want[t] \in Unshared' => VacantAt(want[t])
  <2> SUFFICES ASSUME want[t] \in Unshared', NEW r \in Recorder, at[r] = want[t], Busy(r)
               PROVE  FALSE
    BY DEF VacantAt
  <2>1. owner[r] = t /\ r \notin deleted
    BY <1>2 DEF Unshared, Beside, Busy
  <2>2. want[t] \in Unshared
    BY <1>1 DEF Unshared
  <2>3. r \in Hand(t)
    BY <2>1, <2>2 DEF Seating, InHand
  <2> QED
    BY <1>1, <1>3, <2>3, RawAssumption DEF Seat, Hand
<1> QED
  BY <1>1, <1>3, <1>5, <1>6, <1>7, <1>8, TabStep DEF Hand

LEMMA CreatedSeats ==
  ASSUME IInv, Seating, NEW t \in Tab, Created(t) PROVE Seating'
<1>1. /\ UNCHANGED <<lock, want, retiring, at, owner, closed, chain, mounted, shared, deleted>>
      /\ stage' = [stage EXCEPT ![t] = "open"] /\ stage[t] = "creating"
      /\ current' = [current EXCEPT ![t] = candidate[t]]
      /\ candidate' = [candidate EXCEPT ![t] = None]
  BY DEF Created, Go, recorders
<1>2. /\ TypeOK /\ Placed /\ Seat(t) /\ stage \in [Tab -> Stage]
      /\ current \in [Tab -> Recorder \cup {None}] /\ candidate \in [Tab -> Recorder \cup {None}]
  BY DEF IInv, TypeOK, Seating, Seats
<1>3. stage'[t] = "open" /\ current'[t] = candidate[t] /\ candidate'[t] = None
  BY <1>1, <1>2
<1>4. Elsewhere(t)
  BY <1>1, <1>2 DEF Elsewhere
<1>5. candidate[t] # None /\ current[t] = None
  BY <1>1, <1>2 DEF Placed, Seat
<1>6. Seat(t)'
  BY <1>1, <1>2, <1>3, <1>5 DEF Seat
<1>7. \A r \in Recorder : r \in Hand(t) => r \in Hand(t)'
  BY <1>1, <1>2, <1>3, <1>5, TabTypes DEF Hand
<1>8. want'[t] \in Unshared' => AloneAt(t, want'[t])
  BY <1>1 DEF Unshared, Seating, Sole, Alone
<1> QED
  BY <1>1, <1>2, <1>3, <1>4, <1>6, <1>7, <1>8, TabStep

LEMMA CreateFailsSeats ==
  ASSUME IInv, Seating, NEW t \in Tab, CreateFails(t) PROVE Seating'
<1>1. /\ UNCHANGED <<want, current, candidate, retiring, at, owner, closed, chain, mounted,
                   shared, deleted>>
      /\ stage' = [stage EXCEPT ![t] = "undoing"] /\ lock' = Freed(t) /\ stage[t] = "creating"
  BY DEF CreateFails, Go, recorders
<1>2. TypeOK /\ Placed /\ Seat(t) /\ stage \in [Tab -> Stage]
  BY DEF IInv, TypeOK, Seating, Seats
<1>3. stage'[t] = "undoing"
  BY <1>1, <1>2
<1>4. Elsewhere(t)
  BY <1>1, <1>2, FreedKeepsOthers DEF Elsewhere
<1>5. Seat(t)'
  BY <1>1, <1>2, <1>3 DEF Seat
<1> QED
  BY <1>1, <1>2, <1>3, <1>4, <1>5, TabStep DEF Hand

\* A tab that goes from a session to the next, or closes, retires its recorder.
LEMMA RetireSeats ==
  ASSUME IInv, Seating, NEW t \in Tab, Retire(t), stage[t] \in {"none", "locking", "open"},
         UNCHANGED <<want, candidate, at, owner, chain, shared, deleted>>,
         \A s \in Tab \ {t} : stage'[s] = stage[s],
         \A p \in Path : \A s \in Tab \ {t} : lock[p] = s => lock'[p] = s,
         stage'[t] = "closing"
            \/ (stage'[t] = "retiring" /\ want[t] \in Path /\ lock'[want[t]] = t)
  PROVE  Seating'
<1>1. /\ TypeOK /\ Placed /\ Seat(t) /\ None \notin Recorder
      /\ current \in [Tab -> Recorder \cup {None}] /\ retiring \in [Tab -> Recorder \cup {None}]
      /\ candidate[t] = None /\ retiring[t] = None
  BY RawAssumption DEF IInv, TypeOK, Seating, Seats, Seat
<1>2. CASE current[t] = None
  <2>1. UNCHANGED <<current, mounted, closed>> /\ retiring' = [retiring EXCEPT ![t] = None]
    BY <1>2 DEF Retire
  <2>2. retiring' = retiring
    BY <1>1, <2>1
  <2>3. Elsewhere(t)
    BY <2>1, <2>2 DEF Elsewhere
  <2>4. Seat(t)'
    BY <1>1, <1>2, <2>1, <2>2 DEF Seat
  <2> QED
    BY <1>1, <2>1, <2>2, <2>3, <2>4, TabStep DEF Hand
<1>3. CASE current[t] # None
  <2> DEFINE h == current[t]
             p == at[h]
             x == mounted[p]
  <2>1. /\ mounted' = [mounted EXCEPT ![p] = None]
        /\ closed' = IF x = None THEN closed ELSE [closed EXCEPT ![x] = TRUE]
        /\ retiring' = [retiring EXCEPT ![t] = x] /\ current' = [current EXCEPT ![t] = None]
    BY <1>3 DEF Retire, Dispose
  <2>2. h \in Recorder /\ p \in Path /\ x \in Recorder \cup {None} /\ (x # None => at[x] = p)
    BY <1>1, <1>3, TabTypes DEF Placed
  <2>3. /\ p \in Unshared => x \in {None, h}
        /\ p \in Unshared /\ ~closed[h] => x = h
        /\ p \in Unshared /\ h \notin deleted => ~closed[h]
    <3>1. h \in Held(t)
      BY <2>2 DEF Held
    <3> QED
      BY <2>2, <3>1 DEF Seating, SeatLive, Living, LiveMounted, MountedLive, Sole, HeldAlone
  <2>4. current'[t] = None /\ retiring'[t] = x /\ (x # None => closed'[x])
    BY <1>1, <2>1, <2>2 DEF TypeOK
  <2>5. Elsewhere(t)
    BY <1>1, <2>1 DEF Elsewhere
  <2>6. Seat(t)'
    BY <1>1, <2>4 DEF Seat
  <2>7. Hand(t) \subseteq {h, None} /\ h \in {current[t], candidate[t]}
    BY <1>1 DEF Hand
  <2>8. /\ p \in Unshared => x \in {None, h} /\ closed'[h]
        /\ p \in Unshared /\ h \notin deleted => h \in Hand(t)'
    <3>1. closed \in [Recorder -> BOOLEAN] /\ h # None
      BY <1>3 DEF IInv, TypeOK
    <3>2. CASE x = h
      BY <2>2, <2>4, <3>1, <3>2 DEF Hand
    <3>3. CASE x = None
      BY <2>1, <2>3, <3>1, <3>3
    <3>4. CASE x \notin {None, h}
      BY <2>3, <3>4
    <3> QED
      BY <3>2, <3>3, <3>4
  <2>9. candidate'[t] = None
    BY <1>1
  <2>10. stage'[t] \notin {"making", "creating", "open"}
    OBVIOUS
  <2> HIDE DEF h, x, IInv
  <2> QED
    BY <1>1, <2>1, <2>2, <2>4, <2>5, <2>6, <2>7, <2>8, <2>9, <2>10, DisposeStep
<1> QED
  BY <1>2, <1>3

LEMMA LockSeats ==
  ASSUME IInv, Seating, NEW t \in Tab, Lock(t) PROVE Seating'
<1>1. /\ Retire(t) /\ UNCHANGED <<want, candidate, at, owner, chain, shared, deleted>>
      /\ stage' = [stage EXCEPT ![t] = "retiring"] /\ stage[t] = "locking"
      /\ lock' = [lock EXCEPT ![want[t]] = t] /\ lock[want[t]] = None
  BY DEF Lock, Go
<1>2. /\ want[t] \in Path /\ stage \in [Tab -> Stage] /\ lock \in [Path -> Tab \cup {None}]
      /\ None \notin Tab
  BY <1>1, RawAssumption DEF IInv, TypeOK
<1>3. /\ \A s \in Tab \ {t} : stage'[s] = stage[s]
      /\ stage'[t] = "retiring" /\ lock'[want[t]] = t
  BY <1>1, <1>2
<1>4. \A p \in Path : \A s \in Tab \ {t} : lock[p] = s => lock'[p] = s
  BY <1>1, <1>2
<1> QED
  BY <1>1, <1>2, <1>3, <1>4, RetireSeats

LEMMA CloseSeats ==
  ASSUME IInv, Seating, NEW t \in Tab, Close(t) PROVE Seating'
<1>1. /\ Retire(t) /\ UNCHANGED <<lock, want, candidate, at, owner, chain, shared, deleted>>
      /\ stage' = [stage EXCEPT ![t] = "closing"] /\ stage[t] \in {"none", "open"}
  BY DEF Close, Go
<1>2. stage \in [Tab -> Stage]
  BY DEF IInv, TypeOK
<1>3. (\A s \in Tab \ {t} : stage'[s] = stage[s]) /\ stage'[t] = "closing"
  BY <1>1, <1>2
<1> QED
  BY <1>1, <1>3, RetireSeats

LEMMA UndoneSeats ==
  ASSUME IInv, Seating, NEW t \in Tab, Undone(t) PROVE Seating'
<1> DEFINE h == candidate[t]
<1>1. /\ UNCHANGED <<lock, want, current, at, owner, chain, shared, deleted>>
      /\ stage' = [stage EXCEPT ![t] = "closing"] /\ stage[t] = "undoing"
      /\ retiring' = [retiring EXCEPT ![t] = IF closed[h] THEN None ELSE h]
      /\ mounted' = [mounted EXCEPT ![at[h]] = None]
      /\ closed' = [closed EXCEPT ![h] = TRUE]
      /\ candidate' = [candidate EXCEPT ![t] = None]
  BY DEF Undone, Go
<1>2. /\ TypeOK /\ Placed /\ Seat(t) /\ None \notin Recorder /\ stage \in [Tab -> Stage]
      /\ candidate \in [Tab -> Recorder \cup {None}] /\ retiring \in [Tab -> Recorder \cup {None}]
      /\ closed \in [Recorder -> BOOLEAN]
  BY RawAssumption DEF IInv, TypeOK, Seating, Seats
<1>3. h \in Recorder /\ at[h] \in Path /\ current[t] = None /\ retiring[t] = None
  BY <1>1, <1>2, TabTypes DEF Placed, Seat
<1>4. /\ stage'[t] = "closing" /\ current'[t] = None /\ candidate'[t] = None /\ closed'[h]
      /\ retiring'[t] = IF closed[h] THEN None ELSE h
  BY <1>1, <1>2, <1>3
<1>5. Elsewhere(t)
  BY <1>1, <1>2 DEF Elsewhere
<1>6. Seat(t)'
  BY <1>2, <1>4 DEF Seat
<1>7. at[h] \in Unshared /\ h \notin deleted => h \in Hand(t)'
  BY <1>3, <1>4 DEF Seating, SeatLive, Held, Hand
<1>8. Hand(t) \subseteq {h, None} /\ h \in {current[t], candidate[t]}
  BY <1>3 DEF Hand
<1>9. closed' = IF h = None THEN closed ELSE [closed EXCEPT ![h] = TRUE]
  BY <1>1, <1>2, <1>3
<1> HIDE DEF h
<1> QED
  BY <1>1, <1>2, <1>3, <1>4, <1>5, <1>6, <1>7, <1>8, <1>9, DisposeStep

\* Who makes a recorder holds the lock, has retired the last one, and is alone.
LEMMA MakeSeats ==
  ASSUME IInv, Seating, NEW t \in Tab, NEW r \in Recorder, Make(t, r) PROVE Seating'
<1>1. /\ UNCHANGED <<lock, want, current, retiring, closed, shared, deleted>>
      /\ stage' = [stage EXCEPT ![t] = "creating"] /\ stage[t] = "making"
      /\ at' = [at EXCEPT ![r] = want[t]] /\ owner' = [owner EXCEPT ![r] = t] /\ at[r] = None
      /\ mounted' = [mounted EXCEPT ![want[t]] = r]
      /\ candidate' = [candidate EXCEPT ![t] = r]
  BY DEF Make, Go
<1>2. /\ TypeOK /\ Placed /\ Seat(t) /\ None \notin Recorder \cup Path /\ stage \in [Tab -> Stage]
      /\ candidate \in [Tab -> Recorder \cup {None}] /\ at \in [Recorder -> Path \cup {None}]
      /\ owner \in [Recorder -> Tab \cup {None}] /\ mounted \in [Path -> Recorder \cup {None}]
  BY RawAssumption DEF IInv, TypeOK, Seating, Seats
<1>3. chain[r] = <<>> /\ \A q \in Recorder \ {r} : chain'[q] = chain[q]
  BY <1>1, RawAssumption DEF Make, IInv, OwnChain, TypeOK
<1>4. /\ want[t] \in Path /\ lock[want[t]] = t /\ current[t] = None /\ candidate[t] = None
      /\ retiring[t] = None
  BY <1>1, <1>2 DEF Seat
<1>5. stage'[t] = "creating" /\ candidate'[t] = r /\ at'[r] = want[t] /\ owner'[r] = t
  BY <1>1, <1>2
<1>6. \A q \in Recorder \ {r} : /\ at'[q] = at[q] /\ owner'[q] = owner[q] /\ (Busy(q)' <=> Busy(q))
  BY <1>1, <1>2, <1>3 DEF Busy
<1>7. \A q \in Recorder : at[q] \in Path => q # r
  BY <1>1, <1>2
<1>8. Elsewhere(t)
  BY <1>1, <1>2 DEF Elsewhere
<1>9. Seats'
  <2>1. \A s \in Tab \ {t} : Seat(s)'
    BY <1>1, <1>2, <1>6, <1>7, <1>8, OthersSeated DEF Seating
  <2>2. Seat(t)'
    BY <1>1, <1>2, <1>4, <1>5 DEF Seat
  <2> QED
    BY <2>1, <2>2 DEF Seats
<1>10. Unshared' = Unshared /\ Unshared \subseteq Path
  BY <1>1 DEF Unshared
\* No one else is busy where the recorder is made.
<1>11. \A q \in Recorder : at[q] = want[t] /\ want[t] \in Unshared => ~Busy(q)
  BY <1>1 DEF Seating, Sole, Vacant, VacantAt
<1>12. SeatLive'
  <2> SUFFICES ASSUME NEW s \in Tab, NEW q \in {current'[s], candidate'[s]} \cap Recorder,
                      at'[q] \in Unshared, q \notin deleted, closed[q]
               PROVE  FALSE
    BY <1>1, <1>10 DEF SeatLive, Held
  <2>1. q \in {current[s], candidate[s]} \/ (s = t /\ q = r)
    BY <1>1, <1>5, <1>8 DEF Elsewhere
  <2>2. CASE q = r
    BY <2>2, <1>1 DEF Seating, Living, Unmade
  <2>3. CASE q # r
    BY <2>1, <2>3, <1>6 DEF Seating, SeatLive, Held
  <2> QED
    BY <2>2, <2>3
<1>13. LiveMounted'
  <2> SUFFICES ASSUME NEW q \in Recorder, at'[q] \in Unshared, ~closed[q]
               PROVE  mounted'[at'[q]] = q
    BY <1>1, <1>10 DEF LiveMounted
  <2>1. CASE q = r
    <3>1. mounted'[want[t]] = r
      BY <1>1, <1>2, <1>4
    <3> QED
      BY <2>1, <3>1, <1>5
  <2>2. CASE q # r
    <3>1. at'[q] = at[q] /\ mounted[at[q]] = q /\ at[q] \in Path
      BY <2>2, <1>6, <1>10 DEF Seating, Living, LiveMounted
    <3>2. at[q] # want[t]
      BY <3>1, <1>11 DEF Busy
    <3> QED
      BY <3>1, <3>2, <1>1, <1>2
  <2> QED
    BY <2>1, <2>2
<1>14. InHand'
  <2> SUFFICES ASSUME NEW q \in Recorder, Busy(q)', at'[q] \in Unshared, q \notin deleted
               PROVE  owner'[q] \in Tab /\ q \in Hand(owner[q])'
    BY <1>1, <1>10 DEF InHand, Hand
  <2>1. CASE q = r
    BY <2>1, <1>5 DEF Hand
  <2>2. CASE q # r
    <3>1. owner'[q] = owner[q] /\ owner[q] \in Tab /\ q \in Hand(owner[q])
      BY <2>2, <1>6 DEF Seating, InHand
    <3>2. owner[q] # t
      BY <3>1, <1>2, <1>4 DEF Hand
    <3> QED
      BY <3>1, <3>2, <1>8 DEF Elsewhere, Hand
  <2> QED
    BY <2>1, <2>2
\* No one else wants, and no one holds, the session where it is made.
<1>15. \A s \in Tab \ {t} : stage[s] \in {"making", "creating", "open"} => want[s] # want[t]
  BY <1>4 DEF Seating, Seats, Seat
<1>16. \A s \in Tab : r \notin {current[s], candidate[s]}
  <2>1. \A s \in Tab : Seat(s)
    BY DEF Seating, Seats
  <2> QED
    BY <2>1, <1>1, <1>2, TabTypes DEF Placed, Seat
<1>17. \A s \in Tab \ {t} : current'[s] = current[s] /\ candidate'[s] = candidate[s]
                              /\ stage'[s] = stage[s] /\ want'[s] = want[s]
  BY <1>8 DEF Elsewhere
<1>18. Alone'
  <2> SUFFICES ASSUME NEW s \in Tab, stage'[s] \in {"making", "creating", "open"},
                      want'[s] \in Unshared, NEW q \in Recorder, at'[q] = want'[s]
               PROVE  /\ owner'[q] # s => ~Busy(q)'
                      /\ \A u \in Tab \ {s} : q \notin {current'[u], candidate'[u]}
    BY <1>10 DEF Alone, AloneAt
  <2>1. CASE q = r
    <3>1. s = t
      BY <2>1, <1>5, <1>15, <1>17
    <3> QED
      BY <2>1, <3>1, <1>5, <1>16, <1>17
  <2>2. CASE q # r /\ s = t
    <3>1. AloneAt(t, want[t]) /\ at[q] = want[t]
      BY <2>2, <1>1, <1>6 DEF Seating, Sole, Alone
    <3> QED
      BY <2>2, <3>1, <1>1, <1>6, <1>11, <1>17 DEF AloneAt
  <2>3. CASE q # r /\ s # t
    <3>1. AloneAt(s, want[s]) /\ at[q] = want[s]
      BY <2>3, <1>1, <1>6, <1>17 DEF Seating, Sole, Alone
    <3>2. \A u \in Tab : {current'[u], candidate'[u]} \subseteq {current[u], candidate[u], r}
      BY <1>1, <1>5, <1>17
    <3> QED
      BY <2>3, <3>1, <3>2, <1>6 DEF AloneAt
  <2> QED
    BY <2>1, <2>2, <2>3
<1>19. Vacant'
  <2> SUFFICES ASSUME NEW s \in Tab, stage'[s] = "making", want'[s] \in Unshared,
                      NEW q \in Recorder, at'[q] = want'[s]
               PROVE  ~Busy(q)'
    BY <1>10 DEF Vacant, VacantAt
  <2>1. s # t /\ stage[s] = "making" /\ want'[s] = want[s]
    BY <1>5, <1>17
  <2>2. q # r
    BY <2>1, <1>5, <1>15
  <2> QED
    BY <2>1, <2>2, <1>6 DEF Seating, Sole, Vacant, VacantAt
<1>20. HeldAlone'
  <2> SUFFICES ASSUME NEW s \in Tab, NEW h \in {current'[s], candidate'[s]} \cap Recorder,
                      NEW q \in Recorder, at'[h] \in Unshared, at'[q] = at'[h], ~closed[q]
               PROVE  q = h
    BY <1>1, <1>10 DEF HeldAlone, Held
  <2>1. CASE h = r
    BY <2>1, <1>5, <1>6, <1>10, <1>11 DEF Busy
  <2>2. CASE h # r /\ q = r
    <3>1. s # t
      BY <2>2, <1>1, <1>4, <1>5, RawAssumption
    <3>2. AloneAt(t, want[t]) /\ at[h] = want[t]
      BY <2>2, <1>1, <1>5, <1>6 DEF Seating, Sole, Alone
    <3> QED
      BY <3>1, <3>2, <1>17 DEF AloneAt
  <2>3. CASE h # r /\ q # r
    <3>1. h \in Held(s)
      BY <2>3, <1>1, <1>5, <1>17 DEF Held
    <3> QED
      BY <2>3, <3>1, <1>6 DEF Seating, Sole, HeldAlone
  <2> QED
    BY <2>1, <2>2, <2>3
<1>21. OneBusy'
  <2> SUFFICES ASSUME NEW q \in Recorder, NEW u \in Recorder, Busy(q)', Busy(u)',
                      at'[q] = at'[u], at'[q] \in Unshared
               PROVE  q = u
    BY <1>10 DEF OneBusy
  <2>1. CASE q # r /\ u # r
    BY <2>1, <1>6 DEF Seating, Sole, OneBusy
  <2>2. CASE q = r /\ u # r
    BY <2>2, <1>5, <1>6, <1>11
  <2>3. CASE q # r /\ u = r
    BY <2>3, <1>5, <1>6, <1>11
  <2> QED
    BY <2>1, <2>2, <2>3
<1>22. Unmade' /\ DeletedClosed'
  BY <1>1, <1>2, <1>4, <1>6, <1>5 DEF Seating, Living, Unmade, DeletedClosed
<1>23. MountedLive'
  <2>1. ~closed[r]
    BY <1>1 DEF Seating, Living, Unmade
  <2>2. mounted'[want[t]] = r /\ \A p \in Path \ {want[t]} : mounted'[p] = mounted[p]
    BY <1>1, <1>2, <1>4
  <2> QED
    BY <2>1, <2>2, <1>1 DEF Seating, Living, MountedLive
<1> QED
  BY <1>9, <1>12, <1>13, <1>14, <1>18, <1>19, <1>20, <1>21, <1>22, <1>23 DEF Seating, Living, Sole

LEMMA SeatingStays == IInv /\ Seating /\ [Next]_vars => Seating'
<1> SUFFICES ASSUME IInv, Seating, [Next]_vars PROVE Seating'
  OBVIOUS
<1>1. ASSUME NEW t \in Tab, NEW p \in Path, Open(t, p) PROVE Seating'
  BY <1>1, OpenSeats
<1>2. ASSUME NEW t \in Tab, NEW r \in Recorder, Record(t, r) \/ Make(t, r) PROVE Seating'
  BY <1>2, RecordSeats, MakeSeats
<1>3. ASSUME NEW t \in Tab,
             Lock(t) \/ LockRefused(t) \/ Retired(t) \/ ReadSeq(t) \/ Created(t)
             \/ CreateFails(t) \/ Undone(t) \/ Close(t) \/ Closed(t)
      PROVE  Seating'
  BY <1>3, LockSeats, LockRefusedSeats, RetiredSeats, ReadSeqSeats, CreatedSeats,
     CreateFailsSeats, UndoneSeats, CloseSeats, ClosedSeats
<1>4. ASSUME NEW r \in Recorder, Write(r) \/ WriteFails(r) PROVE Seating'
  BY <1>4, AppendsSeat
<1>5. ASSUME NEW p \in Path, Clear({p}) \/ Delete(p) PROVE Seating'
  BY <1>5, WipingSeats
<1>6. ASSUME Clear(Path) \/ Cleared \/ ClearFails \/ DeleteDisposes \/ Deleted PROVE Seating'
  BY <1>6, WipingSeats, DeleteDisposesSeats
<1>7. CASE UNCHANGED vars
  <2>1. UNCHANGED <<lock, stage, want, current, candidate, retiring, at, owner, mounted, closed>>
        /\ UNCHANGED <<shared, deleted, chain>>
    BY <1>7 DEF vars, tabs, recorders
  <2>2. \A r \in Recorder : Busy(r)' => Busy(r)
    BY <2>1 DEF Busy
  <2> QED
    BY <2>1, <2>2, SeatsFrame
<1> QED
  BY <1>1, <1>2, <1>3, <1>4, <1>5, <1>6, <1>7 DEF Next

LEMMA SeatingStarts == Init => Seating
<1> SUFFICES ASSUME Init PROVE Seating
  OBVIOUS
<1>1. \A t \in Tab : stage[t] = "none" /\ current[t] = None /\ candidate[t] = None
                     /\ retiring[t] = None
  BY DEF Init
<1>2. \A r \in Recorder : at[r] = None /\ ~closed[r]
  BY DEF Init
<1>3. None \notin Path /\ None \notin Recorder
  BY RawAssumption
<1>4. Seats
  BY <1>1 DEF Seats, Seat
<1>5. SeatLive /\ Sole
  BY <1>1, <1>2, <1>3 DEF SeatLive, Held, Sole, Alone, Vacant, HeldAlone, OneBusy, Unshared, Busy
<1>6. InHand /\ Living
  <2>1. deleted = {} /\ \A p \in Path : mounted[p] = None
    BY DEF Init
  <2> QED
    BY <1>2, <1>3, <2>1 DEF InHand, Living, LiveMounted, MountedLive, DeletedClosed, Unmade,
                            Unshared, Busy
<1> QED
  BY <1>4, <1>5, <1>6 DEF Seating

\* Capture pauses for a clear under way only; what is closed may stay paused.
PausedForClear == \A r \in Recorder : paused[r] => closed[r] \/ r \in clear.of

LEMMA ClosedStays ==
  ASSUME IInv, [Next]_vars PROVE \A r \in Recorder : closed[r] => closed'[r]
<1>1. closed \in [Recorder -> BOOLEAN]
  BY DEF IInv, TypeOK
<1>2. CASE UNCHANGED closed
  BY <1>2
<1>3. ASSUME NEW r, closed' = [closed EXCEPT ![r] = TRUE]
      PROVE  \A q \in Recorder : closed[q] => closed'[q]
  BY <1>1, <1>3
<1>4. UNCHANGED closed \/ \E r : closed' = [closed EXCEPT ![r] = TRUE]
  <2>1. ASSUME NEW t \in Tab, Retire(t)
        PROVE  UNCHANGED closed \/ \E r : closed' = [closed EXCEPT ![r] = TRUE]
    BY <2>1 DEF Retire, Dispose
  <2>2. ASSUME DeleteDisposes
        PROVE  UNCHANGED closed \/ \E r : closed' = [closed EXCEPT ![r] = TRUE]
    BY <2>2 DEF DeleteDisposes, Dispose
  <2>3. ASSUME NEW t \in Tab, Undone(t) PROVE \E r : closed' = [closed EXCEPT ![r] = TRUE]
    BY <2>3 DEF Undone
  <2>4. ASSUME NEW t \in Tab,
               (\E p \in Path : Open(t, p)) \/ LockRefused(t) \/ Retired(t) \/ ReadSeq(t)
               \/ Created(t) \/ CreateFails(t) \/ Closed(t)
               \/ (\E r \in Recorder : Record(t, r) \/ Make(t, r))
        PROVE  UNCHANGED closed
    BY <2>4 DEF Open, LockRefused, Retired, ReadSeq, Created, CreateFails, Closed, Record, Make,
       recorders
  <2>5. ASSUME NEW t \in Tab, Lock(t) \/ Close(t) PROVE Retire(t)
    BY <2>5 DEF Lock, Close
  <2>6. ASSUME \/ \E r \in Recorder : Write(r) \/ WriteFails(r)
               \/ \E p \in Path : Clear({p}) \/ Delete(p)
               \/ Clear(Path) \/ Cleared \/ ClearFails \/ Deleted \/ UNCHANGED vars
        PROVE  UNCHANGED closed
    BY <2>6 DEF Write, WriteFails, Clear, Delete, Cleared, ClearFails, Deleted, vars, recorders
  <2> QED
    BY <2>1, <2>2, <2>3, <2>4, <2>5, <2>6 DEF Next
<1> QED
  BY <1>2, <1>3, <1>4

LEMMA PausedStays == IInv /\ PausedForClear /\ [Next]_vars => PausedForClear'
<1> SUFFICES ASSUME IInv, PausedForClear, [Next]_vars PROVE PausedForClear'
  OBVIOUS
<1>1. \A r \in Recorder : closed[r] => closed'[r]
  BY ClosedStays
<1>2. ASSUME NEW ps, Clear(ps) PROVE PausedForClear'
  <2>1. clear.of = {} /\ clear'.of = MountedAt(ps)
    BY <1>2 DEF Clear, NoClear
  <2>2. paused' = [r \in Recorder |-> paused[r] \/ r \in MountedAt(ps)]
    BY <1>2 DEF Clear, Pause
  <2> QED
    BY <1>1, <2>1, <2>2 DEF PausedForClear
<1>3. ASSUME Cleared \/ ClearFails PROVE PausedForClear'
  <2>1. paused' = [r \in Recorder |-> paused[r] /\ (r \notin clear.of \/ closed[r])]
    BY <1>3 DEF Cleared, ClearFails, Resume
  <2> QED
    BY <1>1, <2>1 DEF PausedForClear
<1>4. ASSUME UNCHANGED <<paused, clear>> PROVE PausedForClear'
  BY <1>1, <1>4 DEF PausedForClear
<1>5. ASSUME NEW t \in Tab,
             (\E p \in Path : Open(t, p)) \/ LockRefused(t) \/ Retired(t) \/ ReadSeq(t)
             \/ Created(t) \/ CreateFails(t) \/ Closed(t)
             \/ (\E r \in Recorder : Record(t, r) \/ Make(t, r))
             \/ Lock(t) \/ Undone(t) \/ Close(t)
      PROVE  UNCHANGED <<paused, clear>>
  BY <1>5 DEF Open, LockRefused, Retired, ReadSeq, Created, CreateFails, Closed, Record, Make,
     Lock, Undone, Close, recorders, wiping
<1>6. ASSUME \/ \E r \in Recorder : Write(r) \/ WriteFails(r)
             \/ \E p \in Path : Delete(p)
             \/ DeleteDisposes \/ Deleted \/ UNCHANGED vars
      PROVE  UNCHANGED <<paused, clear>>
  BY <1>6 DEF Write, WriteFails, Delete, DeleteDisposes, Deleted, vars, recorders, wiping
<1> QED
  BY <1>2, <1>3, <1>4, <1>5, <1>6 DEF Next

\* An open session is recorded by the recorder that its path finds: retiring,
\* disposing, clearing and deleting, in any order, never close or unmount it, nor
\* leave it paused.  Excepted are a session that got a recorder while another of
\* its recorders was in use (another tab's, or a deleted one with appends under
\* way), and one whose recorder a deletion begun before it was open has disposed.
THEOREM OpenSessionsRecorded == Spec => []OpenIsRecorded
<1>1. Init => PausedForClear
  BY DEF Init, PausedForClear
<1>2. Spec => [](IInv /\ Seating /\ PausedForClear)
  <2>1. Init => Seating /\ PausedForClear
    BY <1>1, SeatingStarts
  <2>2. IInv /\ Seating /\ PausedForClear /\ [Next]_vars => Seating' /\ PausedForClear'
    BY SeatingStays, PausedStays
  <2> QED
    BY <2>1, <2>2, Invariant, PTL DEF Spec
<1>3. IInv /\ Seating /\ PausedForClear => OpenIsRecorded
  <2> SUFFICES ASSUME IInv, Seating, PausedForClear, NEW t \in Tab, stage[t] = "open",
                      want[t] \notin shared, current[t] \notin deleted
               PROVE  /\ mounted[want[t]] = current[t] /\ ~closed[current[t]]
                      /\ paused[current[t]] => current[t] \in clear.of
    BY DEF OpenIsRecorded
  <2>1. want[t] \in Unshared /\ current[t] \in Recorder /\ at[current[t]] = want[t]
    BY TabTypes DEF IInv, Unshared, Seating, Seats, Seat
  <2>2. ~closed[current[t]]
    BY <2>1 DEF Seating, SeatLive, Held
  <2>3. mounted[want[t]] = current[t]
    BY <2>1, <2>2 DEF Seating, Living, LiveMounted
  <2> QED
    BY <2>1, <2>2, <2>3 DEF PausedForClear
<1> QED
  BY <1>2, <1>3, PTL

-----------------------------------------------------------------------------
(* The numbers of a raw file. *)

Rising(s) == \A j, k \in DOMAIN s : j < k => s[j].seq < s[k].seq
Below(s, n) == \A j \in DOMAIN s : s[j].seq < n

\* In a file: the numbers of one author rise, and are below n; the last number is
\* below n; each number is above the one before it, save where one of rs began.
Each(s) == \A j, k \in DOMAIN s : j < k /\ s[j].by = s[k].by => s[j].seq < s[k].seq
Mine(s, r, n) == \A j \in DOMAIN s : s[j].by = r => s[j].seq < n
Above(s, n) == s # <<>> => s[Len(s)].seq < n
Steps(s, rs) == \A j \in DOMAIN s :
                    j + 1 \in DOMAIN s /\ s[j + 1].by \notin rs => s[j].seq < s[j + 1].seq

\* What a recorder has on its way rises to its next number, above what it has on
\* disk, and, if it could read the file, above all that is on disk.
Own(r) == /\ Mine(file[at[r]], r, next[r])
          /\ \A j \in DOMAIN chain[r] : Mine(file[at[r]], r, chain[r][j].seq)
Ahead(r) == /\ Above(file[at[r]], next[r])
            /\ \A j \in DOMAIN chain[r] : Above(file[at[r]], chain[r][j].seq)

Chains == \A r \in Recorder : Rising(chain[r]) /\ Below(chain[r], next[r])
Owns == \A r \in Recorder : at[r] \in Path => Own(r)
Files == /\ \A p \in Path : Each(file[p])
         /\ \A p \in Unshared : Steps(file[p], restarted)
Aheads == \A r \in Recorder \ restarted : Busy(r) /\ at[r] \in Unshared => Ahead(r)
Readers == \A t \in Tab \ unread : stage[t] = "making" /\ want[t] \in Unshared =>
               Above(file[want[t]], seqRead[t])
Numbers == Chains /\ Owns /\ Files /\ Aheads /\ Readers

LEMMA Elements ==
  ASSUME NEW s \in Seq(Entry), NEW i \in DOMAIN s PROVE i \in Nat \ {0} /\ s[i].seq \in Nat
<1>1. i \in 1..Len(s) /\ Len(s) \in Nat
  BY LenProperties
<1>2. s[i] \in Entry
  BY <1>1, ElementOfSeq
<1> QED
  BY <1>1, <1>2 DEF Entry

\* An empty file, and a greater number.
LEMMA NothingThere ==
  ASSUME NEW r, NEW n, NEW rs
  PROVE  Each(<<>>) /\ Mine(<<>>, r, n) /\ Above(<<>>, n) /\ Steps(<<>>, rs)
  BY DEF Each, Mine, Above, Steps

LEMMA LaterNumber ==
  ASSUME NEW s \in Seq(Entry), NEW r, NEW n \in Nat, NEW m \in Nat, n <= m
  PROVE  /\ Mine(s, r, n) => Mine(s, r, m)
         /\ Above(s, n) => Above(s, m)
<1>1. \A i \in DOMAIN s : s[i].seq \in Nat
  BY Elements
<1>2. s # <<>> => Len(s) \in DOMAIN s
  BY LenProperties, EmptySeq
<1> QED
  BY <1>1, <1>2 DEF Mine, Above

\* The elements of a longer sequence.
LEMMA Longer ==
  ASSUME NEW s \in Seq(Entry), NEW e \in Entry
  PROVE  /\ Append(s, e) \in Seq(Entry) /\ Append(s, e) # <<>> /\ Len(s) \in Nat
         /\ DOMAIN s = 1..Len(s) /\ DOMAIN Append(s, e) = 1..(Len(s) + 1)
         /\ \A i \in 1..Len(s) : Append(s, e)[i] = s[i]
         /\ Append(s, e)[Len(s) + 1] = e /\ Len(Append(s, e)) = Len(s) + 1
<1>1. /\ Append(s, e) \in Seq(Entry) /\ Len(Append(s, e)) = Len(s) + 1
      /\ \A i \in 1..Len(s) : Append(s, e)[i] = s[i]
      /\ Append(s, e)[Len(s) + 1] = e
  BY AppendProperties
<1>2. /\ DOMAIN s = 1..Len(s) /\ DOMAIN Append(s, e) = 1..(Len(s) + 1) /\ Len(s) \in Nat
  BY <1>1, LenProperties
<1> QED
  BY <1>1, <1>2, EmptySeq

LEMMA AppendRises ==
  ASSUME NEW s \in Seq(Entry), NEW e \in Entry, Rising(s), Below(s, e.seq), NEW n \in Nat, e.seq < n
  PROVE  Rising(Append(s, e)) /\ Below(Append(s, e), n)
<1> DEFINE u == Append(s, e)
<1>1. /\ DOMAIN s = 1..Len(s) /\ DOMAIN u = 1..(Len(s) + 1) /\ Len(s) \in Nat
      /\ \A i \in 1..Len(s) : u[i] = s[i]
      /\ u[Len(s) + 1] = e
  BY Longer
<1>2. e.seq \in Nat /\ \A i \in DOMAIN s : s[i].seq \in Nat
  BY Elements DEF Entry
<1> HIDE DEF u
<1>3. \A i \in DOMAIN u : (i \in DOMAIN s /\ u[i] = s[i]) \/ (i = Len(s) + 1 /\ u[i] = e)
  BY <1>1
<1>4. Rising(u)
  <2> SUFFICES ASSUME NEW j \in DOMAIN u, NEW k \in DOMAIN u, j < k PROVE u[j].seq < u[k].seq
    BY DEF Rising
  <2>1. j \in DOMAIN s /\ u[j] = s[j]
    BY <1>1, <1>3
  <2>2. CASE k \in DOMAIN s /\ u[k] = s[k]
    BY <2>1, <2>2 DEF Rising
  <2>3. CASE u[k] = e
    BY <2>1, <2>3 DEF Below
  <2> QED
    BY <2>2, <2>3, <1>3
<1>5. Below(u, n)
  <2> SUFFICES ASSUME NEW j \in DOMAIN u PROVE u[j].seq < n
    BY DEF Below
  <2>1. CASE j \in DOMAIN s /\ u[j] = s[j]
    BY <2>1, <1>2 DEF Below
  <2>2. CASE u[j] = e
    BY <2>2
  <2> QED
    BY <2>1, <2>2, <1>3
<1> QED
  BY <1>4, <1>5 DEF u

LEMMA TailRises ==
  ASSUME NEW s \in Seq(Entry), s # <<>>, Rising(s), NEW n, Below(s, n)
  PROVE  /\ Rising(Tail(s)) /\ Below(Tail(s), n)
         /\ Head(s).seq < n
         /\ \A j \in DOMAIN Tail(s) : Head(s).seq < Tail(s)[j].seq
<1>1. /\ 1 \in DOMAIN s /\ Head(s) = s[1] /\ Tail(s) \in Seq(Entry)
      /\ \A i \in DOMAIN Tail(s) : i + 1 \in DOMAIN s /\ Tail(s)[i] = s[i + 1]
  BY OfTail
<1>2. \A i \in DOMAIN Tail(s) : i \in Nat \ {0}
  BY <1>1, Elements
<1>3. \A j, k \in DOMAIN Tail(s) : j < k => j + 1 < k + 1
  BY <1>2
<1>4. \A j \in DOMAIN Tail(s) : 1 < j + 1
  BY <1>2
<1> QED
  BY <1>1, <1>3, <1>4 DEF Rising, Below

\* A file that gets an entry which is above what its author has written there.
LEMMA AppendFile ==
  ASSUME NEW s \in Seq(Entry), NEW e \in Entry, Each(s), Mine(s, e.by, e.seq),
         NEW rs, Steps(s, rs) => (e.by \notin rs => Above(s, e.seq))
  PROVE  /\ Each(Append(s, e))
         /\ Steps(s, rs) => Steps(Append(s, e), rs)
<1> DEFINE u == Append(s, e)
<1>1. /\ DOMAIN s = 1..Len(s) /\ DOMAIN u = 1..(Len(s) + 1) /\ Len(s) \in Nat
      /\ \A i \in 1..Len(s) : u[i] = s[i]
      /\ u[Len(s) + 1] = e
  BY Longer
<1> HIDE DEF u
<1>2. \A i \in DOMAIN u : (i \in DOMAIN s /\ u[i] = s[i]) \/ (i = Len(s) + 1 /\ u[i] = e)
  BY <1>1
<1>3. Each(u)
  <2> SUFFICES ASSUME NEW j \in DOMAIN u, NEW k \in DOMAIN u, j < k, u[j].by = u[k].by
               PROVE  u[j].seq < u[k].seq
    BY DEF Each
  <2>1. j \in DOMAIN s /\ u[j] = s[j]
    BY <1>1, <1>2
  <2>2. CASE k \in DOMAIN s /\ u[k] = s[k]
    BY <2>1, <2>2 DEF Each
  <2>3. CASE u[k] = e
    BY <2>1, <2>3 DEF Mine
  <2> QED
    BY <2>2, <2>3, <1>2
<1>4. ASSUME Steps(s, rs) PROVE Steps(u, rs)
  <2> SUFFICES ASSUME NEW j \in DOMAIN u, j + 1 \in DOMAIN u, u[j + 1].by \notin rs
               PROVE  u[j].seq < u[j + 1].seq
    BY DEF Steps
  <2>1. j \in DOMAIN s /\ u[j] = s[j]
    BY <1>1, <1>2
  <2>2. CASE j + 1 \in DOMAIN s /\ u[j + 1] = s[j + 1]
    BY <1>4, <2>1, <2>2 DEF Steps
  <2>3. CASE j + 1 = Len(s) + 1 /\ u[j + 1] = e
    <3>1. j = Len(s) /\ s # <<>>
      BY <1>1, <2>1, <2>3
    <3> QED
      BY <1>4, <2>1, <2>3, <3>1 DEF Above
  <2> QED
    BY <2>2, <2>3, <1>2
<1> QED
  BY <1>3, <1>4 DEF u

LEMMA AppendBelow ==
  ASSUME NEW s \in Seq(Entry), NEW e \in Entry, NEW n \in Nat
  PROVE  /\ e.seq < n => Above(Append(s, e), n)
         /\ \A r : Mine(s, r, n) /\ (e.by = r => e.seq < n) => Mine(Append(s, e), r, n)
<1> DEFINE u == Append(s, e)
<1>1. /\ DOMAIN s = 1..Len(s) /\ DOMAIN u = 1..(Len(s) + 1) /\ Len(s) \in Nat
      /\ \A i \in 1..Len(s) : u[i] = s[i]
      /\ u[Len(s) + 1] = e /\ Len(u) = Len(s) + 1
  BY Longer
<1> HIDE DEF u
<1>2. \A i \in DOMAIN u : (i \in DOMAIN s /\ u[i] = s[i]) \/ (i = Len(s) + 1 /\ u[i] = e)
  BY <1>1
<1>3. e.seq < n => Above(u, n)
  BY <1>1 DEF Above
<1>4. \A r : Mine(s, r, n) /\ (e.by = r => e.seq < n) => Mine(u, r, n)
  BY <1>2 DEF Mine
<1> QED
  BY <1>3, <1>4 DEF u

\* The number read is above the last of the file.
LEMMA NextIsAbove ==
  ASSUME NEW s \in Seq(Entry) PROVE Above(s, LastSeq(s) + 1)
<1>1. CASE s = <<>>
  BY <1>1 DEF Above
<1>2. CASE s # <<>>
  <2>1. Len(s) \in DOMAIN s
    BY <1>2, LenProperties, EmptySeq
  <2>2. s[Len(s)].seq \in Nat
    BY <2>1, Elements
  <2> QED
    BY <1>2, <2>2 DEF LastSeq, Last, Above
<1> QED
  BY <1>1, <1>2

-----------------------------------------------------------------------------
(* The steps. *)

\* No number is given and nothing is written; files and numbers may be reset
\* together.
LEMMA NumbersFrame ==
  ASSUME TypeOK, Numbers, UNCHANGED <<at, chain, unread, restarted>>, shared \subseteq shared',
         \A r \in Recorder : \/ next'[r] = next[r]
                             \/ chain[r] = <<>> /\ (at[r] \in Path => file'[at[r]] = <<>>),
         \A p \in Path : file'[p] \in {file[p], <<>>},
         \A r \in Recorder : Busy(r)' => Busy(r),
         \A t \in Tab : stage'[t] = "making" =>
             /\ want[t] \in Path /\ stage[t] = "making" /\ want'[t] = want[t]
             /\ seqRead'[t] = seqRead[t]
  PROVE  Numbers'
<1>1. Unshared' \subseteq Unshared /\ Unshared \subseteq Path
  BY DEF Unshared
<1>2. Chains'
  <2>1. \A n : Below(<<>>, n)
    BY DEF Below
  <2> QED
    BY <2>1 DEF Numbers, Chains
<1>3. Owns'
  <2> SUFFICES ASSUME NEW r \in Recorder, at[r] \in Path PROVE Own(r)'
    BY DEF Owns
  <2>1. Own(r)
    BY DEF Numbers, Owns
  <2>2. CASE file'[at[r]] = <<>>
    BY <2>2, NothingThere DEF Own
  <2>3. CASE file'[at[r]] = file[at[r]] /\ next'[r] = next[r]
    BY <2>1, <2>3 DEF Own
  <2> QED
    BY <2>2, <2>3
<1>4. Files'
  BY <1>1, NothingThere DEF Numbers, Files
<1>5. Aheads'
  <2> SUFFICES ASSUME NEW r \in Recorder \ restarted, Busy(r), at[r] \in Unshared PROVE Ahead(r)'
    BY <1>1 DEF Aheads
  <2>1. Ahead(r) /\ at[r] \in Path
    BY <1>1 DEF Numbers, Aheads
  <2>2. CASE file'[at[r]] = <<>>
    BY <2>2, NothingThere DEF Ahead
  <2>3. CASE file'[at[r]] = file[at[r]] /\ next'[r] = next[r]
    BY <2>1, <2>3 DEF Ahead
  <2> QED
    BY <2>1, <2>2, <2>3
<1>6. Readers'
  <2> SUFFICES ASSUME NEW t \in Tab \ unread, stage'[t] = "making", want'[t] \in Unshared'
               PROVE  Above(file[want[t]], seqRead[t])'
    BY DEF Readers
  <2>1. Above(file[want[t]], seqRead[t]) /\ want[t] \in Path
    BY <1>1 DEF Numbers, Readers
  <2> QED
    BY <2>1, NothingThere
<1> QED
  BY <1>2, <1>3, <1>4, <1>5, <1>6 DEF Numbers

\* A recorder gives its next number, or loses the head of its chain: what is on
\* its way was on its way before, or has the number that was the next.
LEMMA ChainStep ==
  ASSUME IInv, Numbers, NEW r \in Recorder, at[r] \in Path, Busy(r),
         UNCHANGED <<stage, want, seqRead, at, closed, file, shared, unread, restarted>>,
         \A q \in Recorder \ {r} : chain'[q] = chain[q] /\ next'[q] = next[q],
         next'[r] = next[r] + 1,
         \A j \in DOMAIN chain'[r] : \/ \E i \in DOMAIN chain[r] : chain'[r][j] = chain[r][i]
                                     \/ chain'[r][j].seq = next[r],
         Rising(chain'[r]) /\ Below(chain'[r], next'[r])
  PROVE  Numbers'
<1>1. /\ file[at[r]] \in Seq(Entry) /\ next[r] \in Nat
  BY Typed DEF IInv
<1>2. next[r] + 1 \in Nat /\ next[r] <= next[r] + 1
  BY <1>1
<1>3. Unshared' = Unshared
  BY DEF Unshared
<1>4. Chains'
  BY DEF Numbers, Chains
<1>5. Own(r)'
  <2>1. Own(r)
    BY DEF Numbers, Owns
  <2>2. Mine(file[at[r]], r, next'[r])
    BY <1>1, <1>2, <2>1, LaterNumber DEF Own
  <2>3. \A j \in DOMAIN chain'[r] : Mine(file[at[r]], r, chain'[r][j].seq)
    BY <2>1 DEF Own
  <2> QED
    BY <2>2, <2>3 DEF Own
<1>6. ASSUME Ahead(r) PROVE Ahead(r)'
  <2>1. Above(file[at[r]], next'[r])
    BY <1>1, <1>2, <1>6, LaterNumber DEF Ahead
  <2>2. \A j \in DOMAIN chain'[r] : Above(file[at[r]], chain'[r][j].seq)
    BY <1>6 DEF Ahead
  <2> QED
    BY <2>1, <2>2 DEF Ahead
<1>7. Owns'
  <2>1. \A q \in Recorder \ {r} : Own(q) => Own(q)'
    BY DEF Own
  <2> QED
    BY <1>5, <2>1 DEF Numbers, Owns
<1>8. Aheads'
  <2>1. \A q \in Recorder \ {r} : (Ahead(q) => Ahead(q)') /\ (Busy(q)' => Busy(q))
    BY DEF Ahead, Busy
  <2> QED
    BY <1>3, <1>6, <2>1 DEF Numbers, Aheads
<1>9. Files' /\ Readers'
  BY <1>3 DEF Numbers, Files, Readers
<1> QED
  BY <1>4, <1>7, <1>8, <1>9 DEF Numbers

LEMMA RecordNumbers ==
  ASSUME IInv, Numbers, NEW t \in Tab, NEW r \in Recorder, Record(t, r) PROVE Numbers'
<1> DEFINE e == NewEntry(r)
<1>1. at[r] \in Path /\ ~closed[r]
  BY RawAssumption DEF Record, Records, IInv, Placed, TypeOK
<1>2. chain[r] \in Seq(Entry) /\ next[r] \in Nat /\ e \in Entry /\ e.seq = next[r]
  BY Typed DEF IInv, NewEntry, Entry
<1>3. /\ UNCHANGED <<stage, want, seqRead, at, closed, file, shared, unread, restarted>>
      /\ next' = [next EXCEPT ![r] = @ + 1] /\ chain' = [chain EXCEPT ![r] = Append(@, e)]
      /\ next \in [Recorder -> Nat] /\ chain \in [Recorder -> Seq(Entry)]
  BY DEF Record, tabs, IInv, TypeOK
<1> HIDE DEF e
<1>4. /\ next'[r] = next[r] + 1 /\ chain'[r] = Append(chain[r], e)
      /\ \A q \in Recorder \ {r} : chain'[q] = chain[q] /\ next'[q] = next[q]
  BY <1>3
<1>5. Rising(chain'[r]) /\ Below(chain'[r], next'[r])
  <2>1. Rising(chain[r]) /\ Below(chain[r], e.seq)
    BY <1>2 DEF Numbers, Chains
  <2>2. next[r] + 1 \in Nat /\ e.seq < next[r] + 1
    BY <1>2
  <2>3. Rising(Append(chain[r], e)) /\ Below(Append(chain[r], e), next[r] + 1)
    BY <1>2, <2>1, <2>2, AppendRises
  <2> QED
    BY <2>3, <1>4
<1>6. \A j \in DOMAIN chain'[r] : \/ \E i \in DOMAIN chain[r] : chain'[r][j] = chain[r][i]
                                  \/ chain'[r][j].seq = next[r]
  BY <1>2, <1>4, OfAppend
<1> QED
  BY <1>1, <1>3, <1>4, <1>5, <1>6, ChainStep DEF Busy

LEMMA WriteFailsNumbers ==
  ASSUME IInv, Numbers, NEW r \in Recorder, WriteFails(r) PROVE Numbers'
<1>1. /\ chain[r] # <<>> /\ chain' = [chain EXCEPT ![r] = Tail(@)]
      /\ next' = [next EXCEPT ![r] = @ + 1]
      /\ UNCHANGED <<stage, want, seqRead, at, closed, file, shared, unread, restarted>>
  BY DEF WriteFails, tabs
<1>2. /\ chain \in [Recorder -> Seq(Entry)] /\ next \in [Recorder -> Nat] /\ at[r] \in Path
      /\ chain[r] \in Seq(Entry) /\ next[r] \in Nat
  BY <1>1 DEF IInv, TypeOK, OwnChain
<1>3. /\ next'[r] = next[r] + 1 /\ chain'[r] = Tail(chain[r])
      /\ \A q \in Recorder \ {r} : chain'[q] = chain[q] /\ next'[q] = next[q]
  BY <1>1, <1>2
<1>4. Rising(Tail(chain[r])) /\ Below(Tail(chain[r]), next[r]) /\ Tail(chain[r]) \in Seq(Entry)
  BY <1>1, <1>2, TailRises, OfTail DEF Numbers, Chains
<1>5. Below(Tail(chain[r]), next[r] + 1)
  BY <1>2, <1>4, Elements DEF Below
<1>6. \A j \in DOMAIN chain'[r] : \E i \in DOMAIN chain[r] : chain'[r][j] = chain[r][i]
  BY <1>1, <1>2, <1>3, OfTail
<1> QED
  BY <1>1, <1>2, <1>3, <1>4, <1>5, <1>6, ChainStep DEF Busy

\* What is written is above what its recorder has on disk, and above all there if
\* it could read the file; only that recorder is busy there.
LEMMA WriteNumbers ==
  ASSUME IInv, Seating, Numbers, NEW r \in Recorder, Write(r) PROVE Numbers'
<1> DEFINE p == at[r]
           e == Head(chain[r])
<1>1. /\ chain[r] # <<>> /\ chain' = [chain EXCEPT ![r] = Tail(@)]
      /\ file' = [file EXCEPT ![p] = Append(@, e)]
      /\ UNCHANGED <<stage, want, seqRead, at, closed, next, shared, unread, restarted>>
  BY DEF Write, tabs
<1>2. /\ p \in Path /\ chain[r] \in Seq(Entry) /\ file[p] \in Seq(Entry) /\ next[r] \in Nat
      /\ file \in [Path -> Seq(Entry)] /\ chain \in [Recorder -> Seq(Entry)]
      /\ \A q \in Recorder : next[q] \in Nat /\ chain[q] \in Seq(Entry)
  BY <1>1, Typed DEF OwnChain, IInv, TypeOK
<1>3. /\ e \in Entry /\ 1 \in DOMAIN chain[r] /\ e = chain[r][1] /\ e.seq < next[r] /\ e.by = r
      /\ \A j \in DOMAIN Tail(chain[r]) : e.seq < Tail(chain[r])[j].seq
      /\ Rising(Tail(chain[r])) /\ Below(Tail(chain[r]), next[r])
      /\ Tail(chain[r]) \in Seq(Entry)
      /\ \A j \in DOMAIN Tail(chain[r]) :
            j + 1 \in DOMAIN chain[r] /\ Tail(chain[r])[j] = chain[r][j + 1]
  BY <1>1, <1>2, OfTail, TailRises DEF Numbers, Chains, IInv, OwnChain
<1>4. Unshared' = Unshared /\ Busy(r) /\ Unshared \subseteq Path
  BY <1>1, <1>2 DEF Unshared, Busy
<1>5. Own(r) /\ Each(file[p]) /\ (p \in Unshared => Steps(file[p], restarted))
  BY <1>2, <1>4 DEF Numbers, Owns, Files
<1>6. p \in Unshared /\ r \notin restarted => Above(file[p], e.seq)
  BY <1>3, <1>4 DEF Numbers, Aheads, Ahead
<1>7. Mine(file[p], r, e.seq)
  BY <1>3, <1>5 DEF Own
<1> HIDE DEF p, e
<1>8. /\ file'[p] = Append(file[p], e) /\ \A q \in Path \ {p} : file'[q] = file[q]
      /\ chain'[r] = Tail(chain[r]) /\ \A q \in Recorder \ {r} : chain'[q] = chain[q]
  BY <1>1, <1>2
<1>9. Chains'
  BY <1>1, <1>3, <1>8 DEF Numbers, Chains
<1>10. Files'
  <2>1. Each(file'[p]) /\ (p \in Unshared => Steps(file'[p], restarted))
    <3>1. CASE p \in Unshared
      BY <3>1, <1>2, <1>3, <1>5, <1>6, <1>7, <1>8, AppendFile
    <3>2. CASE p \notin Unshared
      <4>1. Steps(file[p], Recorder) => (e.by \notin Recorder => Above(file[p], e.seq))
        BY <1>3
      <4> QED
        BY <3>2, <4>1, <1>2, <1>3, <1>5, <1>7, <1>8, AppendFile
    <3> QED
      BY <3>1, <3>2
  <2> QED
    BY <2>1, <1>1, <1>4, <1>8 DEF Numbers, Files
<1>11. ASSUME NEW n \in Nat, Mine(file[p], r, n), e.seq < n
       PROVE  Mine(file'[p], r, n) /\ Above(file'[p], n)
  BY <1>2, <1>3, <1>8, <1>11, AppendBelow
<1>12. Own(r)' /\ Ahead(r)'
  <2>1. Mine(file'[p], r, next[r]) /\ Above(file'[p], next[r])
    BY <1>2, <1>3, <1>5, <1>11 DEF Own, p
  <2>2. ASSUME NEW j \in DOMAIN chain'[r]
        PROVE  Mine(file'[p], r, chain'[r][j].seq) /\ Above(file'[p], chain'[r][j].seq)
    <3>1. chain'[r][j].seq \in Nat /\ e.seq < chain'[r][j].seq
      BY <1>3, <1>8, Elements
    <3>2. Mine(file[p], r, chain'[r][j].seq)
      BY <1>3, <1>5, <1>8 DEF Own, p
    <3> QED
      BY <3>1, <3>2, <1>11
  <2> QED
    BY <1>1, <2>1, <2>2 DEF Own, Ahead, p
<1>13. ASSUME NEW q \in Recorder \ {r}, at[q] \in Path PROVE Own(q)'
  <2>1. Own(q)
    BY <1>13 DEF Numbers, Owns
  <2>2. CASE at[q] = p
    <3>1. ASSUME NEW n \in Nat, Mine(file[p], q, n) PROVE Mine(file'[p], q, n)
      BY <1>2, <1>3, <1>8, <3>1, AppendBelow
    <3>2. \A j \in DOMAIN chain[q] : chain[q][j].seq \in Nat
      BY <1>2, Elements
    <3> QED
      BY <2>1, <2>2, <3>1, <3>2, <1>1, <1>2, <1>8 DEF Own
  <2>3. CASE at[q] # p
    BY <2>1, <2>3, <1>1, <1>8, <1>13 DEF Own
  <2> QED
    BY <2>2, <2>3
<1>14. Owns'
  BY <1>1, <1>12, <1>13 DEF Owns
<1>15. ASSUME NEW q \in Recorder \ {r}, q \notin restarted, Busy(q)', at[q] \in Unshared
       PROVE  Ahead(q)'
  <2>1. Busy(q) /\ Ahead(q)
    BY <1>1, <1>8, <1>15 DEF Busy, Numbers, Aheads
  <2>2. at[q] # p
    BY <2>1, <1>4, <1>15 DEF Seating, Sole, OneBusy, p
  <2>3. file'[at[q]] = file[at[q]]
    BY <2>2, <1>4, <1>8, <1>15
  <2> QED
    BY <2>1, <2>3, <1>1, <1>8, <1>15 DEF Ahead
<1>16. Aheads'
  BY <1>1, <1>4, <1>12, <1>15 DEF Aheads
<1>17. Readers'
  <2> SUFFICES ASSUME NEW t \in Tab \ unread, stage[t] = "making", want[t] \in Unshared
               PROVE  Above(file'[want[t]], seqRead[t])
    BY <1>1, <1>4 DEF Readers
  <2>1. want[t] # p
    BY <1>4 DEF Seating, Sole, Vacant, VacantAt, p
  <2> QED
    BY <2>1, <1>4, <1>8 DEF Numbers, Readers
<1> QED
  BY <1>9, <1>10, <1>14, <1>16, <1>17 DEF Numbers

\* One more than the last number of a file is above it, if it could be read.
LEMMA ReadSeqNumbers ==
  ASSUME IInv, Numbers, NEW t \in Tab, ReadSeq(t) PROVE Numbers'
<1>1. /\ UNCHANGED <<want, at, closed, chain, next, file, restarted>> /\ shared \subseteq shared'
      /\ stage' = [stage EXCEPT ![t] = "making"] /\ unread \subseteq unread'
      /\ stage \in [Tab -> Stage] /\ seqRead \in [Tab -> Nat] /\ want[t] \in Path
  BY DEF ReadSeq, Go, recorders, IInv, TypeOK
<1>2. \A s \in Tab \ {t} : stage'[s] = stage[s] /\ seqRead'[s] = seqRead[s]
  BY <1>1 DEF ReadSeq
<1>3. t \notin unread' => seqRead'[t] = LastSeq(file[want[t]]) + 1
  BY <1>1 DEF ReadSeq
<1>4. Unshared' \subseteq Unshared
  BY <1>1 DEF Unshared
<1>5. t \notin unread' => Above(file[want[t]], seqRead'[t])
  <2>1. file[want[t]] \in Seq(Entry)
    BY <1>1, Typed DEF IInv
  <2> QED
    BY <2>1, <1>3, NextIsAbove
<1>6. Readers'
  BY <1>1, <1>2, <1>4, <1>5 DEF Numbers, Readers
<1>7. Chains' /\ Owns' /\ Files'
  BY <1>1, <1>4 DEF Numbers, Chains, Owns, Own, Files
<1>8. Aheads'
  BY <1>1, <1>4 DEF Numbers, Aheads, Ahead, Busy
<1> QED
  BY <1>6, <1>7, <1>8 DEF Numbers

\* The recorder that is made starts at the number that was read, if any was.
LEMMA MakeNumbers ==
  ASSUME IInv, Numbers, NEW t \in Tab, NEW r \in Recorder, Make(t, r) PROVE Numbers'
<1> DEFINE n == seqRead[t]
           e == [by |-> r, seq |-> seqRead[t], era |-> era[r]]
<1>1. /\ UNCHANGED <<want, closed, shared, file>>
      /\ stage' = [stage EXCEPT ![t] = "creating"] /\ stage[t] = "making"
      /\ at' = [at EXCEPT ![r] = want[t]] /\ at[r] = None
      /\ seqRead' = [seqRead EXCEPT ![t] = 0]
      /\ \/ next' = [next EXCEPT ![r] = n] /\ chain' = chain
         \/ next' = [next EXCEPT ![r] = n + 1] /\ chain' = [chain EXCEPT ![r] = <<e>>]
      /\ unread' = unread \ {t} /\ restarted' = restarted \cup {q \in {r} : t \in unread}
  BY DEF Make, Go
<1>2. /\ stage \in [Tab -> Stage] /\ at \in [Recorder -> Path \cup {None}]
      /\ seqRead \in [Tab -> Nat] /\ next \in [Recorder -> Nat] /\ chain \in [Recorder -> Seq(Entry)]
      /\ want[t] \in Path /\ None \notin Path
  BY <1>1, RawAssumption DEF IInv, TypeOK
<1>3. chain[r] = <<>> /\ n \in Nat /\ file[want[t]] \in Seq(Entry)
  BY <1>1, <1>2, Typed DEF IInv, OwnChain
<1>4. e.seq = n
  OBVIOUS
<1> HIDE DEF e
<1>5. \A q \in Recorder \ {r} : /\ chain'[q] = chain[q] /\ next'[q] = next[q] /\ at'[q] = at[q]
                                /\ (Busy(q)' <=> Busy(q))
  BY <1>1, <1>2 DEF Busy
<1>6. /\ at'[r] = want[t]
      /\ \/ chain'[r] = <<>> /\ next'[r] = n
         \/ chain'[r] = <<e>> /\ next'[r] = n + 1
  BY <1>1, <1>2, <1>3
<1>7. r \notin restarted' => t \notin unread
  BY <1>1
<1> HIDE DEF n
<1>8. \A j \in DOMAIN chain'[r] : j = 1 /\ chain'[r][j] = e
  BY <1>6
<1>9. Rising(chain'[r]) /\ Below(chain'[r], next'[r])
  BY <1>3, <1>4, <1>6, <1>8 DEF Rising, Below
<1>10. Unshared' = Unshared /\ restarted \subseteq restarted'
  BY <1>1 DEF Unshared
<1>11. Chains'
  BY <1>5, <1>9 DEF Numbers, Chains
\* It has nothing on disk.
<1>12. \A m : Mine(file[want[t]], r, m)
  BY <1>1, <1>2 DEF Mine, IInv, OwnFile
<1>13. Owns'
  <2>1. Own(r)'
    BY <1>1, <1>6, <1>12 DEF Own
  <2>2. \A q \in Recorder \ {r} : Own(q) => Own(q)'
    BY <1>1, <1>5 DEF Own
  <2> QED
    BY <2>1, <2>2, <1>5 DEF Numbers, Owns
<1>14. Files'
  <2>1. \A p \in Path : Steps(file[p], restarted) => Steps(file[p], restarted')
    BY <1>10 DEF Steps
  <2> QED
    BY <2>1, <1>1, <1>10 DEF Numbers, Files, Unshared
<1>15. ASSUME want[t] \in Unshared, r \notin restarted' PROVE Ahead(r)'
  <2>1. Above(file[want[t]], n)
    BY <1>1, <1>7, <1>15 DEF Numbers, Readers, n
  <2>2. n + 1 \in Nat /\ n <= n + 1
    BY <1>3
  <2>3. Above(file[want[t]], n + 1)
    BY <2>1, <2>2, <1>3, LaterNumber
  <2>4. Above(file[want[t]], next'[r])
    BY <2>1, <2>3, <1>6
  <2>5. \A j \in DOMAIN chain'[r] : Above(file[want[t]], chain'[r][j].seq)
    BY <2>1, <1>4, <1>8
  <2> QED
    BY <2>4, <2>5, <1>1, <1>6 DEF Ahead
<1>16. Aheads'
  <2>1. \A q \in Recorder \ {r} : Ahead(q) => Ahead(q)'
    BY <1>1, <1>5 DEF Ahead
  <2>2. ASSUME NEW q \in Recorder \ restarted', Busy(q)', at'[q] \in Unshared PROVE Ahead(q)'
    <3>1. CASE q = r
      BY <2>2, <3>1, <1>6, <1>15
    <3>2. CASE q # r
      BY <2>1, <2>2, <3>2, <1>5, <1>10 DEF Numbers, Aheads
    <3> QED
      BY <3>1, <3>2
  <2> QED
    BY <2>2, <1>10 DEF Aheads
<1>17. Readers'
  <2>1. \A s \in Tab : stage'[s] = "making" =>
            s # t /\ stage[s] = "making" /\ seqRead'[s] = seqRead[s] /\ (s \in unread => s \in unread')
    BY <1>1, <1>2
  <2> QED
    BY <2>1, <1>1, <1>10 DEF Numbers, Readers
<1> QED
  BY <1>11, <1>13, <1>14, <1>16, <1>17 DEF Numbers

\* The other steps of the tabs.
LEMMA TabNumbers ==
  ASSUME IInv, Numbers, [Next]_vars, NEW t \in Tab,
         (\E p \in Path : Open(t, p)) \/ Lock(t) \/ LockRefused(t) \/ Retired(t)
         \/ Created(t) \/ CreateFails(t) \/ Undone(t) \/ Close(t) \/ Closed(t)
  PROVE  Numbers'
<1>1. UNCHANGED <<at, chain, next, file, seqRead>> /\ UNCHANGED history
  BY DEF Open, Lock, LockRefused, Retired, Created, CreateFails, Undone, Close, Closed, recorders
<1>2. /\ \/ stage[t] # "making"
      /\ \E s \in Stage \ {"making"} : stage' = [stage EXCEPT ![t] = s]
      /\ \/ want' = want
         \/ \E p : want' = [want EXCEPT ![t] = p]
  BY DEF Open, Lock, LockRefused, Retired, Created, CreateFails, Undone, Close, Closed, Go, Stage
<1>3. /\ TypeOK /\ stage \in [Tab -> Stage] /\ want \in [Tab -> Path \cup {None}]
  BY DEF IInv, TypeOK
<1>4. \A s \in Tab : stage'[s] = "making" =>
          want[s] \in Path /\ stage[s] = "making" /\ want'[s] = want[s] /\ seqRead'[s] = seqRead[s]
  <2>1. stage'[t] # "making"
    BY <1>2, <1>3
  <2>2. \A s \in Tab \ {t} : stage'[s] = stage[s] /\ want'[s] = want[s]
    BY <1>2, <1>3
  <2> QED
    BY <1>1, <1>3, <2>1, <2>2, TabTypes
<1>5. \A r \in Recorder : closed[r] => closed'[r]
  BY ClosedStays
<1>6. \A r \in Recorder : Busy(r)' => Busy(r)
  BY <1>1, <1>5 DEF Busy
<1> QED
  BY <1>1, <1>3, <1>4, <1>6, NumbersFrame

\* A recorder that starts again at 0 has nothing on its way, and an empty file.
LEMMA WipingNumbers ==
  ASSUME IInv, Numbers, [Next]_vars,
         (\E ps \in SUBSET Path : Clear(ps)) \/ Cleared \/ ClearFails \/ DeleteDisposes \/ Deleted
         \/ (\E p \in Path : Delete(p)) \/ UNCHANGED vars
  PROVE  Numbers'
<1>1. UNCHANGED <<at, chain, stage, want, seqRead, shared, unread, restarted>>
  BY DEF Clear, Cleared, ClearFails, DeleteDisposes, Delete, Deleted, tabs, recorders, vars
<1>2. \A r \in Recorder : closed[r] => closed'[r]
  BY ClosedStays
<1>3. \A r \in Recorder : Busy(r)' => Busy(r)
  BY <1>1, <1>2 DEF Busy
<1>4. TypeOK /\ file \in [Path -> Seq(Entry)] /\ next \in [Recorder -> Nat]
  BY DEF IInv, TypeOK
<1>5. \A p \in Path : file'[p] \in {file[p], <<>>}
  <2>1. CASE UNCHANGED file
    BY <2>1
  <2>2. CASE Cleared
    BY <2>2 DEF Cleared
  <2>3. CASE ClearFails
    BY <2>3 DEF ClearFails
  <2>4. CASE Deleted
    BY <2>4, <1>4 DEF Deleted
  <2> QED
    BY <2>1, <2>2, <2>3, <2>4 DEF Clear, DeleteDisposes, Delete, vars
<1>6. \A r \in Recorder :
          next'[r] = next[r] \/ (chain[r] = <<>> /\ (at[r] \in Path => file'[at[r]] = <<>>))
  <2>1. CASE UNCHANGED next
    BY <2>1
  <2>2. CASE Cleared
    <3>1. /\ \A r \in clear.of : chain[r] = <<>> /\ at[r] \in clear.paths
          /\ next' = [r \in Recorder |-> IF r \in clear.of THEN 0 ELSE next[r]]
          /\ file' = [p \in Path |-> IF p \in clear.paths THEN <<>> ELSE file[p]]
      BY <2>2 DEF Cleared, Flushed, Reset, IInv, Placed
    <3> QED
      BY <3>1
  <2> QED
    BY <2>1, <2>2 DEF Clear, ClearFails, DeleteDisposes, Delete, Deleted, vars, recorders
<1>7. \A s \in Tab : stage[s] = "making" => want[s] \in Path
  BY <1>4, TabTypes
<1> QED
  BY <1>1, <1>3, <1>4, <1>5, <1>6, <1>7, NumbersFrame

LEMMA NumbersStay == IInv /\ Seating /\ Numbers /\ [Next]_vars => Numbers'
<1> SUFFICES ASSUME IInv, Seating, Numbers, [Next]_vars PROVE Numbers'
  OBVIOUS
<1>1. ASSUME NEW t \in Tab, NEW r \in Recorder, Record(t, r) \/ Make(t, r) PROVE Numbers'
  BY <1>1, RecordNumbers, MakeNumbers
<1>2. ASSUME NEW t \in Tab, ReadSeq(t) PROVE Numbers'
  BY <1>2, ReadSeqNumbers
<1>3. ASSUME NEW t \in Tab,
             (\E p \in Path : Open(t, p)) \/ Lock(t) \/ LockRefused(t) \/ Retired(t)
             \/ Created(t) \/ CreateFails(t) \/ Undone(t) \/ Close(t) \/ Closed(t)
      PROVE  Numbers'
  BY <1>3, TabNumbers
<1>4. ASSUME NEW r \in Recorder, Write(r) \/ WriteFails(r) PROVE Numbers'
  BY <1>4, WriteNumbers, WriteFailsNumbers
<1>5. ASSUME \/ \E p \in Path : Clear({p}) \/ Delete(p)
             \/ Clear(Path) \/ Cleared \/ ClearFails \/ DeleteDisposes \/ Deleted
             \/ UNCHANGED vars
      PROVE  Numbers'
  <2>1. ASSUME NEW p \in Path PROVE {p} \in SUBSET Path /\ Path \in SUBSET Path
    OBVIOUS
  <2> QED
    BY <1>5, <2>1, WipingNumbers
<1> QED
  BY <1>1, <1>2, <1>3, <1>4, <1>5 DEF Next

LEMMA NumbersStart == Init => Numbers
<1> SUFFICES ASSUME Init PROVE Numbers
  OBVIOUS
<1>1. /\ \A r \in Recorder : chain[r] = <<>> /\ at[r] = None
      /\ \A p \in Path : file[p] = <<>>
      /\ \A t \in Tab : stage[t] = "none"
  BY DEF Init
<1>2. None \notin Unshared /\ Unshared \subseteq Path /\ None \notin Path
  BY RawAssumption DEF Unshared
<1>3. Chains
  BY <1>1 DEF Chains, Rising, Below
<1> QED
  BY <1>1, <1>2, <1>3, NothingThere DEF Numbers, Owns, Files, Aheads, Readers

\* The numbers of a raw file rise however often its session is closed,
\* reopened, cleared and deleted: what one recorder writes always, since only a
\* clear that has emptied its file sets it back; and from one recorder to the
\* next, which reads its first number only when the last one's appends are on
\* disk.  Excepted is where the next could not read that number (getNextSeq
\* failed and it starts at 0), and a session that got a recorder while another
\* was in use: another tab's, or a deleted one with appends under way.
THEOREM FileNumbersRise == Spec => []NumbersRise
<1>1. Spec => [](IInv /\ Seating /\ Numbers)
  BY NumbersStart, SeatingStarts, SeatingStays, NumbersStay, Invariant, PTL DEF Spec
<1>2. IInv /\ Numbers => NumbersRise
  <2> SUFFICES ASSUME IInv, Numbers, NEW p \in Path, NEW j \in DOMAIN file[p], NEW k \in DOMAIN file[p]
               PROVE  /\ j < k /\ file[p][j].by = file[p][k].by => file[p][j].seq < file[p][k].seq
                      /\ k = j + 1 /\ p \notin shared /\ file[p][k].by \notin restarted
                            => file[p][j].seq < file[p][k].seq
    BY DEF NumbersRise
  <2>1. Each(file[p])
    BY DEF Numbers, Files
  <2>2. p \notin shared => Steps(file[p], restarted)
    BY DEF Numbers, Files, Unshared
  <2> QED
    BY <2>1, <2>2 DEF Each, Steps
<1> QED
  BY <1>1, <1>2, PTL
=============================================================================
