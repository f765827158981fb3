----------------------- MODULE AgentConnectionProofs -----------------------
(***************************************************************************)
(* What a client hears, whatever the wire loses or repeats and however     *)
(* many clients, events and faults there are; how each epoch opens; and    *)
(* that a gap left by one failure heals.                                   *)
(***************************************************************************)
EXTENDS AgentConnection, SequenceTheorems, WellFoundedInduction, TLAPS

Message == Event \cup Response

(* An event that was heard belongs to a retired epoch, or to the current   *)
(* one and is not past its last number.                                    *)
Heard(c, old) ==
    /\ old[1] # 0
    /\ old[1] \in retired[c] \/ (old[1] = current[c] /\ old[2] <= last[c])
AllHeard == \A c \in Client : \A i \in 1..Len(heard[c]) : Heard(c, heard[c][i])

\* Events are numbered, and requests worked on, only under an epoch.
Started == (bound # None => epoch # 0) /\ (handling # {} => bound # None)
IInv == TypeOK /\ Started /\ AllHeard

-----------------------------------------------------------------------------
(* The buffer stays a sequence of kinds of events. *)

LEMMA FirstIsThere ==
  ASSUME NEW places, places \subseteq Nat, places # {} PROVE First(places) \in places
<1> DEFINE R == OpToRel(<, Nat)
<1>1. PICK i \in places : \A j \in places : ~ (<<j, i>> \in R)
  <2> HIDE DEF R
  <2>1. IsWellFoundedOn(R, Nat)
    BY NatLessThanWellFounded DEF R
  <2> QED
    BY <2>1, WFMin
<1>2. ASSUME NEW j \in places PROVE i <= j
  <2>1. <<j, i>> \in Nat \X Nat /\ <<j, i>>[1] = j /\ <<j, i>>[2] = i
    OBVIOUS
  <2>2. ~ (j < i)
    BY <1>1, <2>1 DEF OpToRel
  <2> QED
    BY <2>2
<1> QED
  BY <1>2 DEF First

LEMMA RemoveAtType ==
  ASSUME NEW b \in Seq(EventKind), NEW i \in 1..Len(b)
  PROVE  RemoveAt(b, i) \in Seq(EventKind)
<1>1. SubSeq(b, 1, i - 1) \in Seq(EventKind)
  BY SubSeqProperties
<1>2. SubSeq(b, i + 1, Len(b)) \in Seq(EventKind)
  BY SubSeqProperties
<1> QED
  BY <1>1, <1>2, ConcatProperties DEF RemoveAt

LEMMA PlacesType ==
  ASSUME NEW b \in Seq(EventKind), NEW kinds, Places(b, kinds) # {}
  PROVE  First(Places(b, kinds)) \in 1..Len(b)
<1>1. Places(b, kinds) \subseteq 1..Len(b) /\ Places(b, kinds) \subseteq Nat
  BY LenProperties DEF Places
<1> QED
  BY <1>1, FirstIsThere

LEMMA BufferedType ==
  ASSUME NEW b \in Seq(EventKind), NEW k \in EventKind
  PROVE  Buffered(b, k) \in Seq(EventKind)
<1>1. ASSUME NEW x \in Seq(EventKind) PROVE Without(x, k) \in Seq(EventKind)
  <2>1. CASE Contains(x, k)
    <3>1. Places(x, {k}) # {}
      BY <2>1 DEF Contains, Places
    <3> QED
      BY <2>1, <3>1, <1>1, PlacesType, RemoveAtType DEF Without
  <2> QED
    BY <2>1, <1>1 DEF Without
<1>2. ASSUME NEW x \in Seq(EventKind), x # <<>> PROVE Trimmed(x) \in Seq(EventKind)
  <2>1. Tail(x) \in Seq(EventKind)
    BY <1>2, HeadTailProperties
  <2>2. Places(x, {"other"}) # {} =>
           RemoveAt(x, First(Places(x, {"other"}))) \in Seq(EventKind)
    BY <1>2, PlacesType, RemoveAtType
  <2> QED
    BY <1>2, <2>1, <2>2 DEF Trimmed
<1>3. CASE k = "state"
  <2>1. Append(Without(b, k), k) \in Seq(EventKind) /\ Append(Without(b, k), k) # <<>>
    BY <1>1, AppendProperties
  <2> QED
    BY <1>2, <1>3, <2>1 DEF Buffered
<1>4. CASE k # "state"
  <2>1. Append(b, k) \in Seq(EventKind) /\ Append(b, k) # <<>>
    BY AppendProperties
  <2> QED
    BY <1>2, <1>4, <2>1 DEF Buffered
<1> QED
  BY <1>3, <1>4

-----------------------------------------------------------------------------
(* The wires keep their types. *)

LEMMA EventsType ==
  ASSUME NEW c \in Client, NEW e \in Nat \ {0}, NEW n \in Nat, NEW ks \in Seq(EventKind)
  PROVE  [i \in 1..Len(ks) |-> EventOf(c, e, n + i, ks[i])] \in Seq(Message)
<1>1. Len(ks) \in Nat /\ \A i \in 1..Len(ks) : ks[i] \in EventKind
  BY LenProperties, ElementOfSeq
<1>2. ASSUME NEW i \in 1..Len(ks) PROVE EventOf(c, e, n + i, ks[i]) \in Message
  <2>1. n + i \in Nat \ {0} /\ ks[i] \in EventKind
    BY <1>1
  <2> QED
    BY <2>1 DEF EventOf, Event, Message
<1> DEFINE events == [i \in 1..Len(ks) |-> EventOf(c, e, n + i, ks[i])]
<1>3. events \in [1..Len(ks) -> Message]
  BY <1>2
<1> HIDE DEF events
<1>4. events \in Seq(Message)
  BY <1>1, <1>3, SeqDef
<1> QED
  BY <1>4 DEF events

LEMMA AskType ==
  ASSUME TypeOK, NEW c \in Client, NEW k \in RequestKind, Ask(c, k)
  PROVE  /\ asked' \in [Client -> Nat] /\ toHost' \in Seq(Request)
         /\ pending' \in [Client -> SUBSET Request]
<1>1. NewRequest(c, k) \in Request
  BY DEF TypeOK, NewRequest, Request
<1>2. toHost' \in Seq(Request)
  <2> toHost \in Seq(Request) /\ toHost' = Append(toHost, NewRequest(c, k))
    BY DEF TypeOK, Ask
  <2> QED
    BY <1>1, AppendProperties
<1> QED
  BY <1>1, <1>2, SMTT(20) DEF TypeOK, Ask

LEMMA SettleType ==
  ASSUME TypeOK, NEW c \in Client, NEW r \in Request, NEW code, Settle(c, r, code)
  PROVE  /\ pending' \in [Client -> SUBSET Request]
         /\ boot' \in [Client -> {"idle", "asking", "waiting", "done", "failed", "over"}]
         /\ recovering' \in [Client -> BOOLEAN]
<1>1. Booted(c, code) \in {"done", "waiting", "failed"}
  BY DEF Booted
<1> QED
  BY <1>1 DEF TypeOK, Settle

-----------------------------------------------------------------------------
(* One lemma for each action. *)

LEMMA EmitKeeps ==
  ASSUME IInv, NEW k \in EventKind, Emit(k) PROVE IInv'
<1>1. TypeOK'
  <2>1. CASE bound = None
    <3>1. buffer' \in Seq(EventKind)
      BY <2>1, BufferedType DEF IInv, TypeOK, Emit, Publish
    <3> QED
      BY <2>1, <3>1 DEF IInv, TypeOK, Emit, Publish, listening, booting
  <2>2. CASE bound # None
    <3> DEFINE new == [i \in 1..Len(<<k>>) |-> EventOf(bound, epoch, sequence + i, <<k>>[i])]
    <3>1. new \in Seq(Message)
      <4>1. bound \in Client /\ epoch \in Nat \ {0} /\ sequence \in Nat
        BY <2>2 DEF IInv, TypeOK, Started
      <4>2. <<k>> \in Seq(EventKind)
        OBVIOUS
      <4> QED
        BY <4>1, <4>2, EventsType
    <3>2. toClient' = toClient \o new /\ sequence' = sequence + 1 /\ buffer' = buffer
      BY <2>2 DEF Emit, Publish, Post
    <3>3. toClient' \in Seq(Message)
      <4> HIDE DEF new
      <4>1. toClient \in Seq(Message)
        BY DEF IInv, TypeOK, Message
      <4> QED
        BY <3>1, <3>2, <4>1, ConcatProperties
    <3> HIDE DEF new
    <3> QED
      BY <3>2, <3>3 DEF IInv, TypeOK, Emit, listening, booting, Message
  <2> QED
    BY <2>1, <2>2
<1>2. Started'
  BY DEF IInv, TypeOK, Started, Emit, panel
<1>3. AllHeard'
  BY DEF IInv, AllHeard, Heard, Emit, listening
<1> QED
  BY <1>1, <1>2, <1>3 DEF IInv

LEMMA ReceiveKeeps ==
  ASSUME IInv, Receive PROVE IInv'
<1> DEFINE r == Head(toHost)
<1>a. r \in Request /\ Tail(toHost) \in Seq(Request)
  BY HeadTailProperties DEF IInv, TypeOK, Receive
<1>b. r.client \in Client
  BY <1>a DEF Request
<1>1. TypeOK'
  <2>1. CASE Rebinds(r)
    <3> DEFINE new == [i \in 1..Len(Welcome) |-> EventOf(r.client, epoch + 1, i, Welcome[i])]
    <3>1. Welcome \in Seq(EventKind)
      <4>1. <<"ready">> \in Seq(EventKind)
        BY DEF EventKind
      <4> QED
        BY <4>1 DEF Welcome, IInv, TypeOK
    <3>2. new \in Seq(Message)
      <4> DEFINE shifted == [i \in 1..Len(Welcome) |->
                                EventOf(r.client, epoch + 1, 0 + i, Welcome[i])]
      <4>1. epoch + 1 \in Nat \ {0}
        BY DEF IInv, TypeOK
      <4>2. shifted \in Seq(Message)
        <5> HIDE DEF r
        <5> QED
          BY <1>b, <3>1, <4>1, EventsType
      <4>3. shifted = new
        <5>1. \A i \in 1..Len(Welcome) : 0 + i = i
          BY <3>1, LenProperties
        <5> QED
          BY <5>1
      <4> QED
        BY <4>2, <4>3
    <3>3. /\ toClient' = toClient \o new /\ bound' = r.client /\ epoch' = epoch + 1
          /\ sequence' = Len(Welcome) /\ buffer' = <<>> /\ handling' = handling \cup {r}
      BY <2>1 DEF Receive, Bind
    <3>4. toClient' \in Seq(Message)
      <4> HIDE DEF new
      <4>1. toClient \in Seq(Message)
        BY DEF IInv, TypeOK, Message
      <4> QED
        BY <3>2, <3>3, <4>1, ConcatProperties
    <3>5. Len(Welcome) \in Nat
      BY <3>1, LenProperties
    <3>6. toHost' = Tail(toHost) /\
          UNCHANGED <<open, published, life, booting, asked, pending, recovering, listening,
                      faults>>
      BY DEF Receive
    <3>7. /\ toHost' \in Seq(Request) /\ bound' \in Client /\ epoch' \in Nat
          /\ sequence' \in Nat /\ buffer' \in Seq(EventKind) /\ handling' \subseteq Request
      <4>1. <<>> \in Seq(EventKind)
        OBVIOUS
      <4> HIDE DEF new, r
      <4> QED
        BY <1>a, <1>b, <3>3, <3>5, <3>6, <4>1 DEF IInv, TypeOK
    <3> HIDE DEF new, r
    <3> QED
      BY <3>4, <3>6, <3>7 DEF IInv, TypeOK, listening, booting, Message
  <2>2. CASE ~Rebinds(r)
    BY <1>a, <2>2 DEF IInv, TypeOK, Receive, listening, booting
  <2> QED
    BY <2>1, <2>2
<1>2. Started'
  <2>1. CASE Rebinds(r)
    BY <1>b, <2>1, NoneIsNoClient, SMTT(20) DEF IInv, TypeOK, Started, Receive, Bind
  <2>2. CASE ~Rebinds(r)
    BY <1>b, <2>2, NoneIsNoClient DEF IInv, TypeOK, Started, Receive, Rebinds
  <2> QED
    BY <2>1, <2>2
<1>3. AllHeard'
  BY DEF IInv, AllHeard, Heard, Receive, listening
<1> QED
  BY <1>1, <1>2, <1>3 DEF IInv

LEMMA DispatchKeeps ==
  ASSUME IInv, NEW r \in handling, Dispatch(r) PROVE IInv'
<1>1. TypeOK'
  <2>1. /\ bound \in Client /\ epoch \in Nat \ {0} /\ sequence \in Nat /\ r \in Request
        /\ toClient \in Seq(Message)
    BY DEF IInv, TypeOK, Started, Message
  <2>2. Served \in Message /\ Answer(r, "ok") \in Message
    BY <2>1 DEF Served, EventOf, Event, EventKind, Answer, Response, Code, Request, Message
  <2>3. <<Served, Answer(r, "ok")>> \in Seq(Message) /\ <<Served>> \in Seq(Message)
    BY <2>2
  <2>4. toClient' \in Seq(Message)
    BY <2>1, <2>3, ConcatProperties DEF Dispatch
  <2> QED
    BY <2>1, <2>4, SMTT(20) DEF IInv, TypeOK, Dispatch, listening, booting, Message
<1>2. Started'
  BY DEF IInv, TypeOK, Started, Dispatch, panel
<1>3. AllHeard'
  BY DEF IInv, AllHeard, Heard, Dispatch, listening
<1> QED
  BY <1>1, <1>2, <1>3 DEF IInv

LEMMA DispatchFailsKeeps ==
  ASSUME IInv, NEW r \in handling, NEW code \in {"refused", "bridge_dispatch_failed"},
         DispatchFails(r, code)
  PROVE IInv'
<1>1. TypeOK'
  <2>1. r \in Request /\ toClient \in Seq(Message)
    BY DEF IInv, TypeOK, Message
  <2>2. Answer(r, code) \in Message
    BY <2>1 DEF Answer, Response, Code, Request, Message
  <2>3. toClient' \in Seq(Message)
    BY <2>1, <2>2, AppendProperties DEF DispatchFails
  <2> QED
    BY <2>3 DEF IInv, TypeOK, DispatchFails, listening, booting, Message
<1>2. Started'
  BY DEF IInv, TypeOK, Started, DispatchFails, panel
<1>3. AllHeard'
  BY DEF IInv, AllHeard, Heard, DispatchFails, listening
<1> QED
  BY <1>1, <1>2, <1>3 DEF IInv

LEMMA DisposeKeeps ==
  ASSUME IInv, Dispose PROVE IInv'
<1>1. TypeOK'
  <2>1. <<>> \in Seq(EventKind)
    OBVIOUS
  <2> QED
    BY <2>1 DEF IInv, TypeOK, Dispose, listening, booting
<1>2. Started'
  BY DEF IInv, TypeOK, Started, Dispose, panel
<1>3. AllHeard'
  BY DEF IInv, AllHeard, Heard, Dispose, listening
<1> QED
  BY <1>1, <1>2, <1>3 DEF IInv

LEMMA LoadKeeps ==
  ASSUME IInv, NEW c \in Client, Load(c) PROVE IInv'
<1>1. TypeOK'
  <2>1. /\ asked' \in [Client -> Nat] /\ toHost' \in Seq(Request)
        /\ pending' \in [Client -> SUBSET Request]
    BY AskType DEF IInv, Load, RequestKind
  <2>2. /\ life' \in [Client -> {"unborn", "open", "closed"}]
        /\ boot' \in [Client -> {"idle", "asking", "waiting", "done", "failed", "over"}]
        /\ attempts' \in [Client -> Nat]
    BY SMTT(30) DEF IInv, TypeOK, Load
  <2>3. UNCHANGED <<panel, toClient, recovering, listening, faults>>
    BY DEF Load
  <2>4. /\ open' \in BOOLEAN /\ bound' \in Client \cup {None}
        /\ epoch' \in Nat /\ sequence' \in Nat /\ buffer' \in Seq(EventKind)
        /\ handling' \subseteq Request /\ published' \in Nat /\ faults' \in Nat
    BY <2>3 DEF IInv, TypeOK, panel
  <2>5. /\ toClient' \in Seq(Event \cup Response) /\ recovering' \in [Client -> BOOLEAN]
        /\ current' \in [Client -> Nat] /\ retired' \in [Client -> SUBSET Nat]
        /\ last' \in [Client -> Nat] /\ heard' \in [Client -> Seq(Nat \X Nat)]
        /\ missed' \in [Client -> BOOLEAN]
    BY <2>3 DEF IInv, TypeOK, listening
  <2> QED
    BY <2>1, <2>2, <2>4, <2>5 DEF TypeOK
<1>2. Started'
  BY DEF IInv, TypeOK, Started, Load, panel
<1>3. AllHeard'
  BY DEF IInv, AllHeard, Heard, Load, listening
<1> QED
  BY <1>1, <1>2, <1>3 DEF IInv

LEMMA TransportFailsKeeps ==
  ASSUME IInv, NEW c \in Client, TransportFails(c) PROVE IInv'
<1>1. TypeOK'
  <2>1. life' \in [Client -> {"unborn", "open", "closed"}]
    BY DEF IInv, TypeOK, TransportFails
  <2>2. boot' \in [Client -> {"idle", "asking", "waiting", "done", "failed", "over"}]
    <3>1. (IF attempts[c] + 1 < MaxAttempts THEN "waiting" ELSE "failed")
              \in {"waiting", "failed"}
      OBVIOUS
    <3> QED
      BY <3>1 DEF IInv, TypeOK, TransportFails
  <2>3. attempts' \in [Client -> Nat] /\ asked' \in [Client -> Nat] /\ faults' \in Nat
    <3>1. attempts \in [Client -> Nat] /\ asked \in [Client -> Nat] /\ faults \in Nat
      BY DEF IInv, TypeOK
    <3>2. /\ attempts' = [attempts EXCEPT ![c] = @ + 1]
          /\ asked' = [asked EXCEPT ![c] = @ + 1] /\ faults' = faults + 1
      BY DEF TransportFails
    <3> QED
      BY <3>1, <3>2
  <2>4. UNCHANGED <<panel, toHost, toClient, pending, recovering, listening>>
    BY DEF TransportFails
  <2> QED
    BY <2>1, <2>2, <2>3, <2>4 DEF IInv, TypeOK, panel, listening
<1>2. Started'
  BY DEF IInv, TypeOK, Started, TransportFails, panel
<1>3. AllHeard'
  BY DEF IInv, AllHeard, Heard, TransportFails, listening
<1> QED
  BY <1>1, <1>2, <1>3 DEF IInv

LEMMA TimeoutKeeps ==
  ASSUME IInv, NEW c \in Client, Timeout(c) PROVE IInv'
<1>1. TypeOK'
  <2>1. PICK r \in pending[c] : Settle(c, r, "request_timeout")
    BY DEF Timeout
  <2>2. r \in Request
    BY DEF IInv, TypeOK
  <2>3. UNCHANGED <<panel, toHost, toClient, life, attempts, asked, listening, faults>>
    BY DEF Timeout
  <2> QED
    BY <2>1, <2>2, <2>3, SettleType DEF IInv, TypeOK, panel, listening
<1>2. Started'
  BY DEF IInv, TypeOK, Started, Timeout, panel
<1>3. AllHeard'
  BY DEF IInv, AllHeard, Heard, Timeout, listening
<1> QED
  BY <1>1, <1>2, <1>3 DEF IInv

LEMMA CloseKeeps ==
  ASSUME IInv, NEW c \in Client, Close(c) PROVE IInv'
<1>1. TypeOK'
  <2>1. /\ life' \in [Client -> {"unborn", "open", "closed"}]
        /\ boot' \in [Client -> {"idle", "asking", "waiting", "done", "failed", "over"}]
        /\ pending' \in [Client -> SUBSET Request] /\ recovering' \in [Client -> BOOLEAN]
    BY DEF IInv, TypeOK, Close
  <2>2. /\ current' \in [Client -> Nat] /\ retired' \in [Client -> SUBSET Nat]
        /\ last' \in [Client -> Nat] /\ missed' \in [Client -> BOOLEAN]
    BY DEF IInv, TypeOK, Close
  <2>3. attempts' \in [Client -> Nat] /\ asked' \in [Client -> Nat]
    BY DEF IInv, TypeOK, Close
  <2>4. heard' \in [Client -> Seq(Nat \X Nat)]
    <3>1. <<>> \in Seq(Nat \X Nat)
      OBVIOUS
    <3> QED
      BY <3>1 DEF IInv, TypeOK, Close
  <2>5. UNCHANGED <<panel, toHost, toClient, faults>>
    BY DEF Close
  <2> QED
    BY <2>1, <2>2, <2>3, <2>4, <2>5 DEF IInv, TypeOK, panel
<1>2. Started'
  BY DEF IInv, TypeOK, Started, Close, panel
<1>3. AllHeard'
  <2> SUFFICES ASSUME NEW d \in Client, NEW i \in 1..Len(heard'[d])
               PROVE  Heard(d, heard[d][i])'
    BY DEF AllHeard
  <2>1. d # c
    BY DEF Close, IInv, TypeOK
  <2>2. /\ heard'[d] = heard[d] /\ current'[d] = current[d]
        /\ retired'[d] = retired[d] /\ last'[d] = last[d]
    BY <2>1 DEF Close, IInv, TypeOK
  <2> QED
    BY <2>2 DEF IInv, AllHeard, Heard
<1> QED
  BY <1>1, <1>2, <1>3 DEF IInv

LEMMA LoseKeeps ==
  ASSUME IInv, Lose PROVE IInv'
<1>1. TypeOK'
  <2>1. toHost' \in Seq(Request) /\ toClient' \in Seq(Message)
    <3>1. toHost \in Seq(Request) /\ toClient \in Seq(Message)
      BY DEF IInv, TypeOK, Message
    <3>2. toHost # <<>> => Tail(toHost) \in Seq(Request)
      BY <3>1, HeadTailProperties
    <3>3. toClient # <<>> => Tail(toClient) \in Seq(Message)
      BY <3>1, HeadTailProperties
    <3> QED
      BY <3>1, <3>2, <3>3 DEF Lose
  <2> QED
    BY <2>1 DEF IInv, TypeOK, Lose, panel, listening, booting, Message
<1>2. Started'
  BY DEF IInv, TypeOK, Started, Lose, panel
<1>3. AllHeard'
  BY DEF IInv, AllHeard, Heard, Lose, listening
<1> QED
  BY <1>1, <1>2, <1>3 DEF IInv

LEMMA RepeatKeeps ==
  ASSUME IInv, Repeat PROVE IInv'
<1>1. TypeOK'
  <2>1. toClient \in Seq(Message) /\ toClient # <<>>
    BY DEF IInv, TypeOK, Repeat, Message
  <2>2. toClient' \in Seq(Message)
    BY <2>1, HeadTailProperties, AppendProperties DEF Repeat
  <2> QED
    BY <2>2 DEF IInv, TypeOK, Repeat, panel, listening, booting, Message
<1>2. Started'
  BY DEF IInv, TypeOK, Started, Repeat, panel
<1>3. AllHeard'
  BY DEF IInv, AllHeard, Heard, Repeat, listening
<1> QED
  BY <1>1, <1>2, <1>3 DEF IInv

LEMMA HearKeeps ==
  ASSUME IInv, Hear PROVE IInv'
<1> DEFINE m == Head(toClient)
<1>a. m \in Message /\ toClient' \in Seq(Message)
  BY HeadTailProperties DEF IInv, TypeOK, Hear, Message
<1>b. m.to \in Client
  BY <1>a DEF Message, Event, Response
<1>c. UNCHANGED <<open, bound, epoch, sequence, buffer, handling, published, life, faults>>
  BY DEF Hear, panel
<1> DEFINE c == m.to
<1>1. CASE life[c] # "open"
  <2>1. UNCHANGED <<toHost, booting, asked, pending, recovering, listening>>
    BY <1>1 DEF Hear
  <2> QED
    BY <1>a, <1>c, <2>1
    DEF IInv, TypeOK, Started, AllHeard, Heard, Message, listening, booting
<1>2. CASE life[c] = "open" /\ m.type # "event"
  <2>1. HearResponse(c, m) /\ m.request \in Request
    BY <1>a, <1>2 DEF Hear, Message, Event, Response
  <2>2. /\ pending' \in [Client -> SUBSET Request]
        /\ boot' \in [Client -> {"idle", "asking", "waiting", "done", "failed", "over"}]
        /\ recovering' \in [Client -> BOOLEAN]
    <3> HIDE DEF c, m
    <3>1. CASE m.request \in pending[c]
      BY <1>b, <2>1, <3>1, SettleType DEF IInv, HearResponse, c
    <3>2. CASE m.request \notin pending[c]
      BY <2>1, <3>2 DEF IInv, TypeOK, HearResponse
    <3> QED
      BY <3>1, <3>2
  <2>3. UNCHANGED <<toHost, attempts, asked, listening>>
    BY <2>1 DEF HearResponse
  <2> QED
    BY <1>a, <1>c, <2>2, <2>3
    DEF IInv, TypeOK, Started, AllHeard, Heard, Message, listening
<1>3. CASE life[c] = "open" /\ m.type = "event"
  <2>1. HearEvent(c, m)
    BY <1>3 DEF Hear
  <2>2. m.epoch \in Nat \ {0} /\ m.seq \in Nat \ {0}
    BY <1>a, <1>3 DEF Message, Event, Response
  <2>3. CASE ~IsNews(c, m)
    <3>1. UNCHANGED <<toHost, booting, asked, pending, recovering, listening>>
      BY <2>1, <2>3 DEF HearEvent
    <3> QED
      BY <1>a, <1>c, <3>1
      DEF IInv, TypeOK, Started, AllHeard, Heard, Message, listening, booting
  <2>4. CASE IsNews(c, m)
    <3> HIDE DEF c, m
    <3>1. /\ current' = [current EXCEPT ![c] = m.epoch]
          /\ retired' = [retired EXCEPT ![c] = @ \cup ({current[c]} \ {0, m.epoch})]
          /\ last' = [last EXCEPT ![c] = m.seq]
          /\ heard' = [heard EXCEPT ![c] = Append(@, <<m.epoch, m.seq>>)]
          /\ missed' \in [Client -> BOOLEAN]
          /\ UNCHANGED booting
      BY <2>1, <2>4 DEF HearEvent, IInv, TypeOK
    <3>2. c \in Client
      BY <1>b DEF c
    <3>3. /\ heard[c] \in Seq(Nat \X Nat)
          /\ Append(heard[c], <<m.epoch, m.seq>>) \in Seq(Nat \X Nat)
          /\ Len(Append(heard[c], <<m.epoch, m.seq>>)) = Len(heard[c]) + 1
          /\ \A i \in 1..Len(heard[c]) :
                Append(heard[c], <<m.epoch, m.seq>>)[i] = heard[c][i]
          /\ Append(heard[c], <<m.epoch, m.seq>>)[Len(heard[c]) + 1] = <<m.epoch, m.seq>>
      <4>1. heard[c] \in Seq(Nat \X Nat) /\ <<m.epoch, m.seq>> \in Nat \X Nat
        BY <2>2, <3>2 DEF IInv, TypeOK
      <4> QED
        BY <4>1, AppendProperties
    <3>4. /\ asked' \in [Client -> Nat] /\ toHost' \in Seq(Request)
          /\ pending' \in [Client -> SUBSET Request] /\ recovering' \in [Client -> BOOLEAN]
      <4>1. CASE HasGap(c, m) /\ ~StillRecovering(c, m)
        <5>1. Ask(c, "recover") /\ recovering' = [recovering EXCEPT ![c] = TRUE]
          BY <2>1, <2>4, <4>1 DEF HearEvent
        <5>2. /\ asked' \in [Client -> Nat] /\ toHost' \in Seq(Request)
              /\ pending' \in [Client -> SUBSET Request]
          BY <3>2, <5>1, AskType DEF IInv, RequestKind
        <5> QED
          BY <5>1, <5>2 DEF IInv, TypeOK
      <4>2. CASE ~(HasGap(c, m) /\ ~StillRecovering(c, m))
        <5>1. /\ recovering' = [recovering EXCEPT ![c] = StillRecovering(c, m)]
              /\ UNCHANGED <<toHost, asked, pending>>
          BY <2>1, <2>4, <4>2 DEF HearEvent
        <5>2. StillRecovering(c, m) \in BOOLEAN
          BY <3>2 DEF StillRecovering, IInv, TypeOK
        <5> QED
          BY <5>1, <5>2 DEF IInv, TypeOK
      <4> QED
        BY <4>1, <4>2
    <3>5. TypeOK'
      <4>1. heard' \in [Client -> Seq(Nat \X Nat)]
        <5>1. heard \in [Client -> Seq(Nat \X Nat)]
          BY DEF IInv, TypeOK
        <5> QED
          BY <3>1, <3>3, <5>1
      <4>2. /\ current' \in [Client -> Nat] /\ last' \in [Client -> Nat]
            /\ retired' \in [Client -> SUBSET Nat]
        <5>1. /\ current \in [Client -> Nat] /\ last \in [Client -> Nat]
              /\ retired \in [Client -> SUBSET Nat]
          BY DEF IInv, TypeOK
        <5> QED
          BY <2>2, <3>1, <3>2, <5>1
      <4>3. /\ open' \in BOOLEAN /\ bound' \in Client \cup {None}
            /\ epoch' \in Nat /\ sequence' \in Nat
            /\ buffer' \in Seq(EventKind) /\ handling' \subseteq Request
            /\ life' \in [Client -> {"unborn", "open", "closed"}]
            /\ published' \in Nat /\ faults' \in Nat
        BY <1>c DEF IInv, TypeOK
      <4>4. /\ toClient' \in Seq(Event \cup Response)
            /\ boot' \in [Client -> {"idle", "asking", "waiting", "done", "failed", "over"}]
            /\ attempts' \in [Client -> Nat]
        BY <1>a, <3>1 DEF IInv, TypeOK, Message, booting
      <4> QED
        BY <3>1, <3>4, <4>1, <4>2, <4>3, <4>4 DEF TypeOK
    <3>6. Started'
      BY <1>c DEF IInv, Started
    <3>7. AllHeard'
      <4> SUFFICES ASSUME NEW d \in Client, NEW i \in 1..Len(heard'[d])
                   PROVE  Heard(d, heard[d][i])'
        BY DEF AllHeard
      <4>1. CASE d # c
        BY <3>1, <3>2, <4>1 DEF IInv, TypeOK, AllHeard, Heard
      <4>2. CASE d = c /\ i = Len(heard[c]) + 1
        <5>1. heard'[d][i] = <<m.epoch, m.seq>>
          BY <3>1, <3>2, <3>3, <4>2 DEF IInv, TypeOK
        <5>2. current'[d] = m.epoch /\ last'[d] = m.seq
          BY <3>1, <3>2, <4>2 DEF IInv, TypeOK
        <5> QED
          BY <2>2, <5>1, <5>2 DEF Heard
      <4>3. CASE d = c /\ i # Len(heard[c]) + 1
        <5>1. i \in 1..Len(heard[c])
          <6>1. heard'[c] = Append(heard[c], <<m.epoch, m.seq>>)
            BY <3>1, <3>2 DEF IInv, TypeOK
          <6>2. Len(heard[c]) \in Nat
            BY <3>3, LenProperties
          <6> QED
            BY <3>3, <4>3, <6>1, <6>2
        <5> DEFINE old == heard[c][i]
        <5>2. heard'[d][i] = old
          BY <3>1, <3>2, <3>3, <4>3, <5>1 DEF IInv, TypeOK
        <5>3. Heard(c, old)
          BY <3>2, <5>1 DEF IInv, AllHeard
        <5>4. old[2] \in Nat
          <6>1. old \in Nat \X Nat
            BY <3>3, <5>1, ElementOfSeq
          <6> QED
            BY <6>1
        <5>5. /\ current'[d] = m.epoch /\ last'[d] = m.seq
              /\ retired'[d] = retired[c] \cup ({current[c]} \ {0, m.epoch})
          BY <3>1, <3>2, <4>3 DEF IInv, TypeOK
        <5>6. last[c] \in Nat /\ (m.epoch = current[c] => m.seq > last[c])
          BY <2>4, <3>2 DEF IsNews, Since, IInv, TypeOK
        <5> HIDE DEF old
        <5> QED
          BY <2>2, <5>2, <5>3, <5>4, <5>5, <5>6 DEF Heard
      <4> QED
        BY <3>1, <3>2, <3>3, <4>1, <4>2, <4>3
    <3> QED
      BY <3>5, <3>6, <3>7 DEF IInv
  <2> QED
    BY <2>3, <2>4
<1> QED
  BY <1>1, <1>2, <1>3

-----------------------------------------------------------------------------
\* What the panel's constructor leaves in the buffer.
LEMMA ConstructedType ==
  ASSUME NEW n \in 0..MaxEarly
  PROVE  /\ Constructed(n) \in Seq(EventKind) /\ Len(Constructed(n)) = n + 3
         /\ Constructed(n)[n + 1] = "ready" /\ Constructed(n)[n + 3] = "state"
         /\ \A i \in 1..(n + 3) \ {n + 1, n + 3} : Constructed(n)[i] = "other"
<1> DEFINE early == [i \in 1..n |-> "other"]
           rest == <<"ready", "other", "state">>
<1>1. n \in Nat
  BY BoundsAreNat
<1>2. /\ early \in Seq(EventKind) /\ Len(early) = n
      /\ \A i \in 1..n : early[i] = "other"
  <2>1. \A i \in 1..n : "other" \in EventKind
    BY DEF EventKind
  <2> QED
    BY <1>1, <2>1, IsASeq
<1>3. /\ rest \in Seq(EventKind) /\ Len(rest) = 3
      /\ rest[1] = "ready" /\ rest[2] = "other" /\ rest[3] = "state"
  BY DEF EventKind
<1> HIDE DEF early, rest
<1>4. /\ early \o rest \in Seq(EventKind) /\ Len(early \o rest) = n + 3
      /\ \A i \in 1..(n + 3) :
            (early \o rest)[i] = IF i <= n THEN early[i] ELSE rest[i - n]
  <2>1. /\ early \o rest \in Seq(EventKind) /\ Len(early \o rest) = Len(early) + Len(rest)
        /\ \A i \in 1..(Len(early) + Len(rest)) :
              (early \o rest)[i] = IF i <= Len(early) THEN early[i] ELSE rest[i - Len(early)]
    BY <1>2, <1>3, ConcatProperties, ZenonT(60)
  <2> QED
    BY <1>2, <1>3, <2>1
<1>5. Constructed(n) = early \o rest
  BY DEF Constructed, early, rest
<1>6. ASSUME NEW i \in 1..(n + 3) \ {n + 1, n + 3} PROVE (early \o rest)[i] = "other"
  <2>1. CASE i <= n
    BY <1>1, <1>2, <1>4, <2>1
  <2>2. CASE ~(i <= n)
    <3>1. i = n + 2 /\ i - n = 2
      BY <1>1, <2>2
    <3> QED
      BY <1>3, <1>4, <2>2, <3>1
  <2> QED
    BY <2>1, <2>2
<1>7. n + 1 \in 1..(n + 3) /\ n + 3 \in 1..(n + 3) /\ n + 1 - n = 1 /\ n + 3 - n = 3
      /\ ~(n + 1 <= n) /\ ~(n + 3 <= n)
  BY <1>1
<1>8. (early \o rest)[n + 1] = "ready" /\ (early \o rest)[n + 3] = "state"
  BY <1>3, <1>4, <1>7, SMTT(30)
<1> QED
  BY <1>4, <1>5, <1>6, <1>8

LEMMA Starts == Init => IInv
<1> SUFFICES ASSUME Init PROVE IInv
  OBVIOUS
<1>0. buffer \in Seq(EventKind)
  BY ConstructedType DEF Init
<1>1. TypeOK
  BY <1>0 DEF Init, TypeOK
<1>2. Started /\ AllHeard
  BY DEF Init, Started, AllHeard, Heard
<1> QED
  BY <1>1, <1>2 DEF IInv

LEMMA Stays == IInv /\ [Next]_vars => IInv'
<1> SUFFICES ASSUME IInv, [Next]_vars PROVE IInv'
  OBVIOUS
<1>1. CASE UNCHANGED vars
  BY <1>1 DEF IInv, TypeOK, Started, AllHeard, Heard, vars, panel, booting, listening
<1>2. ASSUME NEW k \in EventKind \ {"ready"}, Emit(k) PROVE IInv'
  BY <1>2, EmitKeeps
<1>3. CASE Receive \/ Dispose \/ Hear \/ Lose \/ Repeat
  BY <1>3, ReceiveKeeps, DisposeKeeps, HearKeeps, LoseKeeps, RepeatKeeps
<1>4. ASSUME NEW r \in handling, Dispatch(r) PROVE IInv'
  BY <1>4, DispatchKeeps
<1>5. ASSUME NEW r \in handling, NEW code \in {"refused", "bridge_dispatch_failed"},
             DispatchFails(r, code)
      PROVE  IInv'
  BY <1>5, DispatchFailsKeeps
<1>6. ASSUME NEW c \in Client, Load(c) \/ TransportFails(c) \/ Timeout(c) \/ Close(c)
      PROVE  IInv'
  BY <1>6, LoadKeeps, TransportFailsKeeps, TimeoutKeeps, CloseKeeps
<1> QED
  BY <1>1, <1>2, <1>3, <1>4, <1>5, <1>6 DEF Next

LEMMA Invariant == Spec => []IInv
  BY Starts, Stays, PTL DEF Spec

(* Every variable of AgentConnection keeps its type: the events on the     *)
(* wire are numbered from 1 under an epoch that has been started.          *)
THEOREM TypeCorrect == Spec => []TypeOK
<1>1. IInv => TypeOK
  BY DEF IInv
<1> QED
  BY <1>1, Invariant, PTL

LEMMA HeardGrowsOnlyByHear ==
  ASSUME IInv, [Next]_vars, NEW c \in Client
  PROVE  heard'[c] = heard[c] \/ heard'[c] = <<>> \/
         \E m \in Message : /\ m.type = "event" /\ m.to = c /\ IsNews(c, m)
                            /\ heard'[c] = Append(heard[c], <<m.epoch, m.seq>>)
<1>1. CASE heard' = heard
  BY <1>1
<1>2. ASSUME NEW d \in Client, Close(d) PROVE heard'[c] = heard[c] \/ heard'[c] = <<>>
  BY <1>2 DEF Close, IInv, TypeOK
<1>3. CASE Hear /\ heard' # heard
  <2> DEFINE m == Head(toClient)
  <2>1. m \in Message
    BY <1>3, HeadTailProperties DEF IInv, TypeOK, Hear, Message
  <2>2. life[m.to] = "open"
    BY <1>3 DEF Hear, listening
  <2>3. m.type = "event"
    BY <1>3, <2>2 DEF Hear, HearResponse, listening
  <2>4. HearEvent(m.to, m)
    BY <1>3, <2>2, <2>3 DEF Hear
  <2> HIDE DEF m
  <2>5. IsNews(m.to, m) /\ heard' = [heard EXCEPT ![m.to] = Append(@, <<m.epoch, m.seq>>)]
    BY <1>3, <2>4 DEF HearEvent, listening
  <2>6. CASE m.to = c
    <3>1. heard'[c] = Append(heard[c], <<m.epoch, m.seq>>)
      BY <2>5, <2>6 DEF IInv, TypeOK
    <3> QED
      BY <2>1, <2>3, <2>5, <2>6, <3>1
  <2>7. CASE m.to # c
    BY <2>5, <2>7 DEF IInv, TypeOK
  <2> QED
    BY <2>6, <2>7
<1>4. CASE UNCHANGED vars
  BY <1>4, <1>1 DEF vars, listening
<1>5. ASSUME NEW k \in EventKind, Emit(k) PROVE heard' = heard
  BY <1>5 DEF Emit, listening
<1>6. CASE Receive \/ Dispose \/ Lose \/ Repeat
  BY <1>6, <1>1 DEF Receive, Dispose, Lose, Repeat, listening
<1>7. ASSUME NEW r, Dispatch(r) \/ \E code \in {"refused", "bridge_dispatch_failed"} :
                                       DispatchFails(r, code)
      PROVE  heard' = heard
  BY <1>7 DEF Dispatch, DispatchFails, listening
<1>8. ASSUME NEW d \in Client, Load(d) \/ TransportFails(d) \/ Timeout(d)
      PROVE  heard' = heard
  BY <1>8 DEF Load, TransportFails, Timeout, listening
<1> QED
  BY <1>1, <1>2, <1>3, <1>4, <1>5, <1>6, <1>7, <1>8 DEF Next

(* Whatever the wire does, a client's listeners are given the events of an *)
(* epoch in their order and each once, and an epoch they have left does    *)
(* not come back (AgentConnectionClient.receive).                          *)
THEOREM ListenersHearInOrder == Spec => HeardInOrder
<1>1. ASSUME IInv, [Next]_vars, NEW c \in Client, NEW i \in DOMAIN heard[c],
             Len(heard'[c]) > Len(heard[c]), heard[c][i][1] = heard'[c][Len(heard'[c])][1]
      PROVE  heard[c][i][1] = current[c] /\ heard[c][i][2] < heard'[c][Len(heard'[c])][2]
  <2>1. heard[c] \in Seq(Nat \X Nat) /\ i \in 1..Len(heard[c]) /\ Len(heard[c]) \in Nat
    BY <1>1, LenProperties DEF IInv, TypeOK
  <2>2. PICK m \in Message : /\ m.type = "event" /\ m.to = c /\ IsNews(c, m)
                             /\ heard'[c] = Append(heard[c], <<m.epoch, m.seq>>)
    <3>1. heard'[c] # heard[c] /\ heard'[c] # <<>>
      BY <1>1, <2>1
    <3> QED
      BY <1>1, <3>1, HeardGrowsOnlyByHear
  <2>3. m.epoch \in Nat \ {0} /\ m.seq \in Nat \ {0}
    BY <2>2 DEF Message, Event, Response
  <2>4. heard'[c][Len(heard'[c])] = <<m.epoch, m.seq>>
    <3>1. <<m.epoch, m.seq>> \in Nat \X Nat
      BY <2>3
    <3> QED
      BY <2>1, <2>2, <3>1, AppendProperties, SMTT(20)
  <2> DEFINE old == heard[c][i]
  <2>5. Heard(c, old) /\ old[2] \in Nat
    BY <1>1, <2>1, ElementOfSeq DEF IInv, AllHeard
  <2>6. old[1] = m.epoch
    BY <1>1, <2>4
  <2>7. /\ m.epoch \notin retired[c] /\ last[c] \in Nat
        /\ m.epoch = current[c] => m.seq > last[c]
    BY <1>1, <2>2 DEF IsNews, Since, IInv, TypeOK
  <2> HIDE DEF old
  <2>8. old[1] = current[c] /\ old[2] < m.seq
    BY <2>3, <2>5, <2>6, <2>7 DEF Heard
  <2> QED
    BY <2>4, <2>8 DEF old
<1> DEFINE Ordered == \A c \in Client : \A i \in DOMAIN heard[c] :
          LET new == heard'[c][Len(heard'[c])]
              old == heard[c][i]
          IN (Len(heard'[c]) > Len(heard[c]) /\ old[1] = new[1])
                => (old[1] = current[c] /\ old[2] < new[2])
<1>2. IInv /\ [Next]_vars => [Ordered]_vars
  BY <1>1
<1> QED
  BY <1>2, Invariant, PTL DEF Spec, HeardInOrder

-----------------------------------------------------------------------------
(***************************************************************************)
(* How an epoch opens. The buffer holds one ready and, behind it, one      *)
(* state; whatever else it holds goes first when it is full.               *)
(***************************************************************************)
Opening(b) == \E r, s \in 1..Len(b) :
    /\ r < s /\ b[r] = "ready" /\ b[s] = "state"
    /\ \A i \in 1..Len(b) \ {r, s} : b[i] = "other"

AllReady(messages) == \A i \in DOMAIN messages :
    messages[i].type = "event" /\ messages[i].epoch > 1 /\ messages[i].seq = 1
       => messages[i].kind = "ready"

Opens == /\ open /\ bound = None => epoch = 0 /\ Opening(buffer)
         /\ bound # None => sequence >= 1
         /\ AllReady(toClient)

\* What is left of a sequence without its place i.
LEMMA RemovedAt ==
  ASSUME NEW b \in Seq(EventKind), NEW i \in 1..Len(b)
  PROVE  /\ Len(RemoveAt(b, i)) = Len(b) - 1
         /\ \A j \in 1..(Len(b) - 1) : RemoveAt(b, i)[j] = IF j < i THEN b[j] ELSE b[j + 1]
<1> DEFINE s == SubSeq(b, 1, i - 1)
           t == SubSeq(b, i + 1, Len(b))
<1>1. Len(b) \in Nat /\ i \in Nat /\ i >= 1 /\ i <= Len(b)
  BY LenProperties
<1>2. /\ s \in Seq(EventKind) /\ Len(s) = i - 1
      /\ \A j \in 1..(i - 1) : s[j] = b[j]
  BY <1>1, SubSeqProperties
<1>3. /\ t \in Seq(EventKind) /\ Len(t) = Len(b) - i
      /\ \A j \in 1..(Len(b) - i) : t[j] = b[i + j]
  BY <1>1, SubSeqProperties
<1>4. RemoveAt(b, i) = s \o t
  BY DEF RemoveAt
<1> HIDE DEF s, t
<1>5. /\ Len(s \o t) = Len(s) + Len(t)
      /\ \A j \in 1..(Len(s) + Len(t)) :
            (s \o t)[j] = IF j <= Len(s) THEN s[j] ELSE t[j - Len(s)]
  BY <1>2, <1>3, ConcatProperties
<1>6. Len(s \o t) = Len(b) - 1
  BY <1>1, <1>2, <1>3, <1>5
<1>7. ASSUME NEW j \in 1..(Len(b) - 1) PROVE (s \o t)[j] = IF j < i THEN b[j] ELSE b[j + 1]
  <2>1. j \in Nat /\ j >= 1 /\ j <= Len(b) - 1
    BY <1>1
  <2>2. CASE j < i
    BY <1>1, <1>2, <1>3, <1>5, <2>1, <2>2
  <2>3. CASE ~(j < i)
    <3>1. (s \o t)[j] = t[j - (i - 1)]
      <4>1. j \in 1..(Len(s) + Len(t)) /\ ~(j <= Len(s))
        BY <1>1, <1>2, <1>3, <2>1, <2>3
      <4> QED
        BY <1>2, <1>5, <4>1
    <3>2. j - (i - 1) \in 1..(Len(b) - i) /\ i + (j - (i - 1)) = j + 1
      BY <1>1, <2>1, <2>3
    <3> QED
      BY <1>3, <2>3, <3>1, <3>2
  <2> QED
    BY <2>2, <2>3
<1> QED
  BY <1>4, <1>6, <1>7

LEMMA TrimmedOpens ==
  ASSUME NEW b \in Seq(EventKind), Opening(b)
  PROVE  Opening(Trimmed(b))
<1>1. CASE Len(b) <= MaxBuffer
  BY <1>1 DEF Trimmed
<1>2. CASE ~(Len(b) <= MaxBuffer)
  <2> DEFINE i == First(Places(b, {"other"}))
             t == RemoveAt(b, i)
  <2>1. Len(b) \in Nat /\ Len(b) >= 3
    BY <1>2, LenProperties, BoundsAreNat
  <2>2. PICK r \in 1..Len(b), s \in 1..Len(b) :
           /\ r < s /\ b[r] = "ready" /\ b[s] = "state"
           /\ \A j \in 1..Len(b) \ {r, s} : b[j] = "other"
    BY DEF Opening
  <2>3. Places(b, {"other"}) # {}
    <3>1. \E j \in 1..3 : j # r /\ j # s
      BY <2>1
    <3>2. PICK j \in 1..3 : j # r /\ j # s
      BY <3>1
    <3>3. j \in 1..Len(b) \ {r, s}
      BY <2>1, <3>2
    <3> QED
      BY <2>2, <3>3 DEF Places
  <2>4. i \in Places(b, {"other"}) /\ i \in 1..Len(b)
    <3>1. Places(b, {"other"}) \subseteq Nat
      BY <2>1 DEF Places
    <3> QED
      BY <2>3, <3>1, FirstIsThere, PlacesType
  <2>5. b[i] = "other" /\ Trimmed(b) = t
    BY <1>2, <2>3, <2>4 DEF Places, Trimmed
  <2> HIDE DEF i
  <2>6. /\ i # r /\ i # s /\ i \in Nat /\ i >= 1 /\ i <= Len(b)
        /\ s \in Nat /\ s <= Len(b) /\ r \in Nat /\ r >= 1 /\ r < s
    BY <2>1, <2>2, <2>4, <2>5
  <2>7. /\ Len(t) = Len(b) - 1
        /\ \A j \in 1..(Len(b) - 1) : t[j] = IF j < i THEN b[j] ELSE b[j + 1]
    BY <2>4, RemovedAt
  <2> HIDE DEF t
  <2> DEFINE q == IF i < r THEN r - 1 ELSE r
             u == IF i < s THEN s - 1 ELSE s
  <2>8. q \in 1..Len(t) /\ t[q] = "ready"
    BY <2>1, <2>2, <2>6, <2>7
  <2>9. u \in 1..Len(t) /\ t[u] = "state"
    BY <2>1, <2>2, <2>6, <2>7
  <2>10. q < u
    BY <2>6
  <2>11. ASSUME NEW j \in 1..Len(t) \ {q, u} PROVE t[j] = "other"
    <3>1. j \in 1..(Len(b) - 1) /\ j \in Nat /\ j >= 1 /\ j # q /\ j # u
      BY <2>1, <2>7
    <3>2. CASE j < i
      <4>1. j \in 1..Len(b) \ {r, s}
        BY <2>1, <2>6, <3>1, <3>2
      <4> QED
        BY <2>2, <2>7, <3>1, <3>2, <4>1
    <3>3. CASE ~(j < i)
      <4>1. j + 1 \in 1..Len(b) \ {r, s}
        BY <2>1, <2>6, <3>1, <3>3
      <4> QED
        BY <2>2, <2>7, <3>1, <3>3, <4>1
    <3> QED
      BY <3>2, <3>3
  <2> HIDE DEF q, u
  <2>12. Opening(t)
    BY <2>8, <2>9, <2>10, <2>11 DEF Opening
  <2> QED
    BY <2>5, <2>12
<1> QED
  BY <1>1, <1>2

LEMMA BufferedOpens ==
  ASSUME NEW b \in Seq(EventKind), Opening(b), NEW k \in {"state", "other"}
  PROVE  Opening(Buffered(b, k))
<1>1. Len(b) \in Nat
  BY LenProperties
<1>2. PICK p \in 1..Len(b), s \in 1..Len(b) :
         /\ p < s /\ b[p] = "ready" /\ b[s] = "state"
         /\ \A i \in 1..Len(b) \ {p, s} : b[i] = "other"
  BY DEF Opening
<1>3. CASE k = "other"
  <2> DEFINE t == Append(b, "other")
  <2>1. /\ t \in Seq(EventKind) /\ Len(t) = Len(b) + 1 /\ t[Len(b) + 1] = "other"
        /\ \A i \in 1..Len(b) : t[i] = b[i]
    BY AppendProperties DEF EventKind
  <2> HIDE DEF t
  <2>2. s \in 1..Len(t) /\ p \in 1..Len(t) /\ p < s /\ t[p] = "ready" /\ t[s] = "state"
    BY <1>1, <1>2, <2>1
  <2>3. \A i \in 1..Len(t) \ {p, s} : t[i] = "other"
    <3> SUFFICES ASSUME NEW i \in 1..Len(t) \ {p, s} PROVE t[i] = "other"
      OBVIOUS
    <3>1. CASE i = Len(b) + 1
      BY <2>1, <3>1
    <3>2. CASE i # Len(b) + 1
      BY <1>1, <1>2, <2>1, <3>2
    <3> QED
      BY <3>1, <3>2
  <2>4. Opening(t)
    BY <2>2, <2>3 DEF Opening
  <2> QED
    BY <1>3, <2>1, <2>4, TrimmedOpens DEF Buffered, t
<1>4. CASE k = "state"
  <2> DEFINE i == First(Places(b, {"state"}))
             r == RemoveAt(b, i)
             t == Append(r, "state")
  <2>1. Contains(b, "state") /\ Places(b, {"state"}) # {} /\ Places(b, {"state"}) \subseteq Nat
    BY <1>1, <1>2 DEF Contains, Places
  <2>2. i \in Places(b, {"state"})
    BY <2>1, FirstIsThere
  <2>3. i = s
    BY <1>1, <1>2, <2>2 DEF Places
  <2>4. Without(b, "state") = r
    BY <2>1 DEF Without
  <2> HIDE DEF i
  <2>5. /\ r \in Seq(EventKind) /\ Len(r) = Len(b) - 1
        /\ \A j \in 1..(Len(b) - 1) : r[j] = IF j < s THEN b[j] ELSE b[j + 1]
    BY <1>2, <2>3, RemoveAtType, RemovedAt
  <2> HIDE DEF r
  <2>6. p \in 1..Len(r) /\ r[p] = "ready" /\ \A j \in 1..Len(r) \ {p} : r[j] = "other"
    <3>1. ASSUME NEW j \in 1..Len(r) \ {p} PROVE r[j] = "other"
      <4>1. CASE j < s
        BY <1>1, <1>2, <2>5, <4>1
      <4>2. CASE ~(j < s)
        <5>1. j + 1 \in 1..Len(b) \ {p, s}
          BY <1>1, <1>2, <2>5, <4>2
        <5> QED
          BY <1>1, <1>2, <2>5, <4>2, <5>1
      <4> QED
        BY <4>1, <4>2
    <3>2. p \in 1..(Len(b) - 1) /\ p < s
      BY <1>1, <1>2
    <3> QED
      BY <1>2, <2>5, <3>1, <3>2
  <2>7. /\ t \in Seq(EventKind) /\ Len(t) = Len(r) + 1 /\ t[Len(r) + 1] = "state"
        /\ \A j \in 1..Len(r) : t[j] = r[j]
    BY <2>5, AppendProperties DEF EventKind
  <2> HIDE DEF t
  <2>8. Opening(t)
    <3>0. Len(r) \in Nat
      BY <2>5, LenProperties
    <3>1. /\ Len(t) \in 1..Len(t) /\ p \in 1..Len(t) /\ p < Len(t)
          /\ t[p] = "ready" /\ t[Len(t)] = "state"
      BY <2>6, <2>7, <3>0
    <3>2. \A j \in 1..Len(t) \ {p, Len(t)} : t[j] = "other"
      BY <2>6, <2>7, <3>0
    <3> QED
      BY <3>1, <3>2 DEF Opening
  <2> QED
    BY <1>4, <2>4, <2>7, <2>8, TrimmedOpens DEF Buffered, t
<1> QED
  BY <1>3, <1>4

\* What is sent is put behind what is on the wire.
LEMMA Behind ==
  ASSUME NEW s \in Seq(Message), NEW t \in Seq(Message)
  PROVE  /\ s \o t \in Seq(Message) /\ Len(s \o t) = Len(s) + Len(t)
         /\ \A i \in DOMAIN s : i \in DOMAIN (s \o t) /\ (s \o t)[i] = s[i]
         /\ \A i \in DOMAIN t : Len(s) + i \in DOMAIN (s \o t) /\ (s \o t)[Len(s) + i] = t[i]
         /\ \A i \in DOMAIN (s \o t) :
              \/ i \in DOMAIN s
              \/ i - Len(s) \in DOMAIN t /\ i = Len(s) + (i - Len(s))
<1>1. /\ DOMAIN s = 1..Len(s) /\ DOMAIN t = 1..Len(t)
      /\ Len(s) \in Nat /\ Len(t) \in Nat
  BY LenProperties
<1>2. /\ s \o t \in Seq(Message) /\ Len(s \o t) = Len(s) + Len(t)
      /\ \A i \in 1..(Len(s) + Len(t)) :
            (s \o t)[i] = IF i <= Len(s) THEN s[i] ELSE t[i - Len(s)]
  BY ConcatProperties
<1>3. DOMAIN (s \o t) = 1..(Len(s) + Len(t))
  BY <1>2, LenProperties
<1>4. ASSUME NEW i \in DOMAIN s PROVE i \in DOMAIN (s \o t) /\ (s \o t)[i] = s[i]
  BY <1>1, <1>2, <1>3
<1>5. ASSUME NEW i \in DOMAIN t
      PROVE  Len(s) + i \in DOMAIN (s \o t) /\ (s \o t)[Len(s) + i] = t[i]
  <2>1. Len(s) + i \in 1..(Len(s) + Len(t)) /\ ~(Len(s) + i <= Len(s)) /\ Len(s) + i - Len(s) = i
    BY <1>1
  <2> QED
    BY <1>2, <1>3, <2>1
<1>6. ASSUME NEW i \in DOMAIN (s \o t)
      PROVE  i \in DOMAIN s \/ (i - Len(s) \in DOMAIN t /\ i = Len(s) + (i - Len(s)))
  BY <1>1, <1>3
<1> QED
  BY <1>2, <1>4, <1>5, <1>6

LEMMA TailOf ==
  ASSUME NEW S, NEW s \in Seq(S), s # <<>>
  PROVE  /\ Tail(s) \in Seq(S) /\ Len(Tail(s)) = Len(s) - 1
         /\ 1 \in DOMAIN s /\ s[1] = Head(s)
         /\ \A i \in DOMAIN Tail(s) : /\ i \in Nat /\ i >= 1
                                      /\ i + 1 \in DOMAIN s /\ Tail(s)[i] = s[i + 1]
         /\ \A i \in DOMAIN s : \/ i = 1
                                \/ i - 1 \in DOMAIN Tail(s) /\ Tail(s)[i - 1] = s[i]
<1>1. /\ Tail(s) \in Seq(S) /\ Len(Tail(s)) = Len(s) - 1 /\ Head(s) = s[1]
      /\ \A i \in 1..Len(Tail(s)) : Tail(s)[i] = s[i + 1]
  BY HeadTailProperties, LenProperties
<1>2. /\ DOMAIN s = 1..Len(s) /\ DOMAIN Tail(s) = 1..Len(Tail(s))
      /\ Len(s) \in Nat /\ Len(s) >= 1
  BY <1>1, LenProperties, EmptySeq
<1>3. ASSUME NEW i \in DOMAIN Tail(s)
      PROVE  i \in Nat /\ i >= 1 /\ i + 1 \in DOMAIN s /\ Tail(s)[i] = s[i + 1]
  BY <1>1, <1>2
<1>4. ASSUME NEW i \in DOMAIN s, i # 1
      PROVE  i - 1 \in DOMAIN Tail(s) /\ Tail(s)[i - 1] = s[i]
  <2>1. i - 1 \in 1..Len(Tail(s)) /\ i - 1 + 1 = i
    BY <1>1, <1>2, <1>4
  <2> QED
    BY <1>1, <1>2, <2>1
<1>5. 1 \in DOMAIN s /\ s[1] = Head(s)
  BY <1>1, <1>2
<1>6. Tail(s) \in Seq(S) /\ Len(Tail(s)) = Len(s) - 1
  BY <1>1
<1> QED
  BY <1>3, <1>4, <1>5, <1>6

LEMMA ReadyBehind ==
  ASSUME NEW s \in Seq(Message), NEW t \in Seq(Message), AllReady(s), AllReady(t)
  PROVE  AllReady(s \o t)
<1> SUFFICES ASSUME NEW i \in DOMAIN (s \o t), (s \o t)[i].type = "event",
                    (s \o t)[i].epoch > 1, (s \o t)[i].seq = 1
             PROVE  (s \o t)[i].kind = "ready"
  BY DEF AllReady
<1>1. CASE i \in DOMAIN s
  BY <1>1, Behind DEF AllReady
<1>2. CASE i \notin DOMAIN s
  <2>1. i - Len(s) \in DOMAIN t /\ i = Len(s) + (i - Len(s))
    BY <1>2, Behind
  <2>2. (s \o t)[i] = t[i - Len(s)]
    BY <2>1, Behind
  <2> QED
    BY <2>1, <2>2 DEF AllReady
<1> QED
  BY <1>1, <1>2

\* What each action puts on the wire.
LEMMA EmitSends ==
  ASSUME IInv, NEW k \in EventKind, Emit(k), bound # None
  PROVE  /\ EventOf(bound, epoch, sequence + 1, k) \in Message
         /\ toClient' = toClient \o <<EventOf(bound, epoch, sequence + 1, k)>>
         /\ sequence' = sequence + 1 /\ UNCHANGED <<open, bound, epoch, buffer>>
<1> DEFINE new == [i \in 1..Len(<<k>>) |-> EventOf(bound, epoch, sequence + i, <<k>>[i])]
<1>1. bound \in Client /\ epoch \in Nat \ {0} /\ sequence \in Nat
  BY DEF IInv, TypeOK, Started
<1>2. EventOf(bound, epoch, sequence + 1, k) \in Message
  BY <1>1 DEF EventOf, Event, Message
<1>3. new = <<EventOf(bound, epoch, sequence + 1, k)>>
  <2>1. Len(<<k>>) = 1 /\ <<k>>[1] = k
    OBVIOUS
  <2>2. new = [i \in 1..1 |-> EventOf(bound, epoch, sequence + i, k)]
    BY <2>1
  <2> QED
    BY <2>2
<1>4. toClient' = toClient \o new /\ sequence' = sequence + 1
      /\ UNCHANGED <<open, bound, epoch, buffer>>
  BY DEF Emit, Publish, Post
<1> HIDE DEF new
<1> QED
  BY <1>2, <1>3, <1>4

\* The welcome: events numbered from 1.
Greeting(c, ks) == [i \in 1..Len(ks) |-> EventOf(c, epoch + 1, i, ks[i])]
LEMMA GreetingType ==
  ASSUME IInv, NEW c \in Client, NEW ks \in Seq(EventKind)
  PROVE  /\ Greeting(c, ks) \in Seq(Message) /\ DOMAIN Greeting(c, ks) = 1..Len(ks)
         /\ Len(Greeting(c, ks)) = Len(ks)
         /\ \A i \in 1..Len(ks) : Greeting(c, ks)[i] = EventOf(c, epoch + 1, i, ks[i])
<1> DEFINE shifted == [i \in 1..Len(ks) |-> EventOf(c, epoch + 1, 0 + i, ks[i])]
<1>1. epoch + 1 \in Nat \ {0} /\ Len(ks) \in Nat
  BY LenProperties DEF IInv, TypeOK
<1>2. shifted \in Seq(Message)
  BY <1>1, EventsType
<1>3. \A i \in 1..Len(ks) : 0 + i = i
  BY <1>1
<1>4. shifted = Greeting(c, ks)
  BY <1>3 DEF Greeting
<1>5. /\ DOMAIN Greeting(c, ks) = 1..Len(ks)
      /\ \A i \in 1..Len(ks) : Greeting(c, ks)[i] = EventOf(c, epoch + 1, i, ks[i])
  BY DEF Greeting
<1>6. Greeting(c, ks) \in Seq(Message)
  BY <1>2, <1>4
<1>7. Len(Greeting(c, ks)) = Len(ks)
  BY <1>1, <1>5, <1>6, LenProperties
<1> QED
  BY <1>5, <1>6, <1>7

LEMMA BindSends ==
  ASSUME IInv, Receive, Rebinds(Head(toHost))
  PROVE  LET c == Head(toHost).client IN
         /\ c \in Client /\ Welcome \in Seq(EventKind)
         /\ toClient' = toClient \o Greeting(c, Welcome)
         /\ bound' = c /\ epoch' = epoch + 1 /\ sequence' = Len(Welcome)
         /\ handling' # {} /\ open /\ open'
<1>1. Head(toHost) \in Request
  BY HeadTailProperties DEF IInv, TypeOK, Receive
<1>2. Welcome \in Seq(EventKind)
  <2>1. <<"ready">> \in Seq(EventKind)
    BY DEF EventKind
  <2> QED
    BY <2>1 DEF Welcome, IInv, TypeOK
<1>3. Bind(Head(toHost)) /\ open /\ open'
  BY DEF Receive
<1> QED
  BY <1>1, <1>2, <1>3 DEF Bind, Greeting, Request

LEMMA DispatchSends ==
  ASSUME IInv, NEW r \in handling, Dispatch(r)
  PROVE  /\ Served \in Message /\ Answer(r, "ok") \in Message
         /\ bound \in Client /\ epoch \in Nat \ {0} /\ sequence \in Nat
         /\ \/ toClient' = toClient \o <<Served, Answer(r, "ok")>>
            \/ toClient' = toClient \o <<Served>>
         /\ sequence' = sequence + 1 /\ UNCHANGED <<open, bound, epoch, buffer>>
<1>1. bound \in Client /\ epoch \in Nat \ {0} /\ sequence \in Nat /\ r \in Request
  BY DEF IInv, TypeOK, Started
<1>2. Served \in Message /\ Answer(r, "ok") \in Message
  BY <1>1 DEF Served, EventOf, Event, EventKind, Answer, Response, Code, Request, Message
<1>3. /\ \/ toClient' = toClient \o <<Served, Answer(r, "ok")>>
         \/ toClient' = toClient \o <<Served>>
      /\ sequence' = sequence + 1 /\ UNCHANGED <<open, bound, epoch, buffer>>
  BY DEF Dispatch
<1> QED
  BY <1>1, <1>2, <1>3

LEMMA FailureSends ==
  ASSUME IInv, NEW r \in handling, NEW code \in {"refused", "bridge_dispatch_failed"},
         DispatchFails(r, code)
  PROVE  /\ Answer(r, code) \in Message
         /\ \/ toClient' = toClient \o <<Answer(r, code)>>
            \/ UNCHANGED toClient
         /\ UNCHANGED <<open, bound, epoch, sequence, buffer>>
<1>1. Answer(r, code) \in Message
  BY DEF IInv, TypeOK, Answer, Response, Code, Request, Message
<1>2. \/ toClient' = Append(toClient, Answer(r, code))
      \/ UNCHANGED toClient
  BY DEF DispatchFails
<1>3. Append(toClient, Answer(r, code)) = toClient \o <<Answer(r, code)>>
  <2> toClient \in Seq(Message)
    BY DEF IInv, TypeOK, Message
  <2> QED
    BY <1>1, AppendIsConcat
<1> QED
  BY <1>1, <1>2, <1>3 DEF DispatchFails

LEMMA WelcomeOpens ==
  ASSUME IInv, Opens, open
  PROVE  /\ Len(Welcome) \in Nat /\ Len(Welcome) >= 1
         /\ epoch + 1 > 1 => Welcome[1] = "ready"
<1>1. CASE bound = None
  <2>1. Welcome = buffer /\ Opening(buffer) /\ epoch = 0
    BY <1>1 DEF Welcome, Opens
  <2>2. Len(buffer) \in Nat
    BY LenProperties DEF IInv, TypeOK
  <2> QED
    BY <2>1, <2>2 DEF Opening
<1>2. CASE bound # None
  BY <1>2 DEF Welcome
<1> QED
  BY <1>1, <1>2

LEMMA OpensStays == IInv /\ Opens /\ [Next]_vars => Opens'
<1> SUFFICES ASSUME IInv, Opens, [Next]_vars PROVE Opens'
  OBVIOUS
<1>0. /\ toClient \in Seq(Message) /\ buffer \in Seq(EventKind)
      /\ bound \in Client \cup {None} /\ sequence \in Nat /\ epoch \in Nat
      /\ AllReady(toClient)
  BY DEF IInv, TypeOK, Message, Opens
<1>1. ASSUME NEW k \in EventKind \ {"ready"}, Emit(k) PROVE Opens'
  <2>1. CASE bound = None
    <3>1. buffer' = Buffered(buffer, k) /\ UNCHANGED <<open, bound, sequence, toClient>> /\ open
      BY <1>1, <2>1 DEF Emit, Publish
    <3>4. UNCHANGED epoch /\ epoch = 0
      BY <1>1, <2>1, <3>1 DEF Emit, Opens
    <3>2. k \in {"state", "other"}
      BY DEF EventKind
    <3>3. Opening(buffer')
      BY <1>0, <2>1, <3>1, <3>2, BufferedOpens DEF Opens
    <3> QED
      BY <2>1, <3>1, <3>3, <3>4 DEF Opens, AllReady
  <2>2. CASE bound # None
    <3> DEFINE m == EventOf(bound, epoch, sequence + 1, k)
    <3>1. /\ m \in Message /\ toClient' = toClient \o <<m>> /\ sequence' = sequence + 1
          /\ UNCHANGED <<open, bound, epoch, buffer>>
      BY <1>1, <2>2, EmitSends
    <3>2. m.seq # 1
      BY <1>0, <2>2 DEF Opens, EventOf
    <3> HIDE DEF m
    <3>3. <<m>> \in Seq(Message) /\ AllReady(<<m>>)
      BY <3>1, <3>2 DEF AllReady
    <3>4. AllReady(toClient \o <<m>>)
      BY <1>0, <3>3, ReadyBehind
    <3>5. AllReady(toClient')
      BY <3>1, <3>4
    <3> QED
      BY <1>0, <2>2, <3>1, <3>5 DEF Opens, AllReady
  <2> QED
    BY <2>1, <2>2
<1>2. CASE Receive
  <2>1. CASE Rebinds(Head(toHost))
    <3> DEFINE c == Head(toHost).client
    <3>1. /\ c \in Client /\ Welcome \in Seq(EventKind)
          /\ toClient' = toClient \o Greeting(c, Welcome)
          /\ bound' = c /\ sequence' = Len(Welcome) /\ open
      BY <1>2, <2>1, BindSends
    <3>2. /\ Len(Welcome) \in Nat /\ Len(Welcome) >= 1
          /\ epoch + 1 > 1 => Welcome[1] = "ready"
      BY <3>1, WelcomeOpens
    <3> HIDE DEF c
    <3>3. /\ Greeting(c, Welcome) \in Seq(Message) /\ DOMAIN Greeting(c, Welcome) = 1..Len(Welcome)
          /\ \A i \in 1..Len(Welcome) :
               Greeting(c, Welcome)[i] = EventOf(c, epoch + 1, i, Welcome[i])
      BY <3>1, GreetingType
    <3>4. AllReady(Greeting(c, Welcome))
      BY <3>2, <3>3 DEF AllReady, EventOf
    <3>5. AllReady(toClient \o Greeting(c, Welcome))
      BY <1>0, <3>3, <3>4, ReadyBehind
    <3>6. AllReady(toClient')
      BY <3>1, <3>5
    <3> QED
      BY <3>1, <3>2, <3>6, NoneIsNoClient DEF Opens, AllReady
  <2>2. CASE ~Rebinds(Head(toHost))
    <3>1. UNCHANGED <<open, bound, epoch, sequence, buffer, toClient>>
      BY <1>2, <2>2 DEF Receive
    <3> QED
      BY <3>1 DEF Opens, AllReady
  <2> QED
    BY <2>1, <2>2
<1>3. ASSUME NEW r \in handling, Dispatch(r) PROVE Opens'
  <2>1. /\ Served \in Message /\ Answer(r, "ok") \in Message /\ bound \in Client
        /\ \/ toClient' = toClient \o <<Served, Answer(r, "ok")>>
           \/ toClient' = toClient \o <<Served>>
        /\ sequence' = sequence + 1 /\ UNCHANGED <<open, bound, epoch, buffer>>
    BY <1>3, DispatchSends
  <2>2. Served.seq # 1 /\ Answer(r, "ok").type # "event"
    BY <1>0, <2>1, NoneIsNoClient DEF Served, EventOf, Answer, Opens
  <2>3. /\ AllReady(<<Served, Answer(r, "ok")>>) /\ AllReady(<<Served>>)
        /\ <<Served, Answer(r, "ok")>> \in Seq(Message) /\ <<Served>> \in Seq(Message)
    BY <2>1, <2>2 DEF AllReady
  <2>4. AllReady(toClient \o <<Served, Answer(r, "ok")>>) /\ AllReady(toClient \o <<Served>>)
    BY <1>0, <2>1, <2>3, ReadyBehind
  <2>5. AllReady(toClient')
    BY <2>1, <2>4
  <2> QED
    BY <1>0, <2>1, <2>5, NoneIsNoClient DEF Opens, AllReady
<1>4. ASSUME NEW r \in handling, NEW code \in {"refused", "bridge_dispatch_failed"},
             DispatchFails(r, code)
      PROVE  Opens'
  <2>1. /\ Answer(r, code) \in Message
        /\ \/ toClient' = toClient \o <<Answer(r, code)>>
           \/ UNCHANGED toClient
        /\ UNCHANGED <<open, bound, epoch, sequence, buffer>>
    BY <1>4, FailureSends
  <2>2. AllReady(<<Answer(r, code)>>) /\ <<Answer(r, code)>> \in Seq(Message)
    BY <2>1 DEF AllReady, Answer
  <2>3. AllReady(toClient \o <<Answer(r, code)>>)
    BY <1>0, <2>1, <2>2, ReadyBehind
  <2>4. AllReady(toClient')
    BY <2>1, <2>3 DEF Opens, AllReady
  <2> QED
    BY <2>1, <2>4 DEF Opens, AllReady
<1>5. CASE Dispose
  BY <1>5 DEF Dispose, Opens, AllReady
<1>6. CASE (Hear \/ Lose) /\ toClient' # toClient
  <2>1. /\ toClient # <<>> /\ toClient' = Tail(toClient)
        /\ UNCHANGED <<open, bound, epoch, sequence, buffer>>
    BY <1>6 DEF Hear, Lose, panel
  <2>2. AllReady(Tail(toClient))
    BY <1>0, <2>1, TailOf DEF AllReady, Opens
  <2>3. AllReady(toClient')
    BY <2>1, <2>2
  <2> QED
    BY <2>1, <2>3 DEF Opens, AllReady
<1>7. CASE (Hear \/ Lose) /\ toClient' = toClient
  BY <1>7 DEF Hear, Lose, panel, Opens, AllReady
<1>8. CASE Repeat
  <2>1. /\ toClient # <<>> /\ toClient' = Append(toClient, Head(toClient))
        /\ UNCHANGED <<open, bound, epoch, sequence, buffer>>
    BY <1>8 DEF Repeat, panel
  <2>2. Head(toClient) = toClient[1] /\ 1 \in DOMAIN toClient /\ toClient[1] \in Message
    BY <1>0, <2>1, TailOf, ElementOfSeq, LenProperties
  <2>3. AllReady(<<toClient[1]>>) /\ <<toClient[1]>> \in Seq(Message)
    BY <1>0, <2>2 DEF AllReady
  <2>4. AllReady(toClient \o <<toClient[1]>>)
    BY <1>0, <2>2, <2>3, ReadyBehind
  <2>5. toClient' = toClient \o <<toClient[1]>>
    BY <1>0, <2>1, <2>2, AppendIsConcat
  <2> QED
    BY <2>1, <2>4, <2>5 DEF Opens, AllReady
<1>9. ASSUME NEW c \in Client, Load(c) \/ TransportFails(c) \/ Timeout(c) \/ Close(c)
      PROVE  Opens'
  <2>1. UNCHANGED <<open, bound, epoch, sequence, buffer, toClient>>
    BY <1>9 DEF Load, TransportFails, Timeout, Close, panel
  <2> QED
    BY <2>1 DEF Opens, AllReady
<1>10. CASE UNCHANGED vars
  BY <1>10 DEF vars, panel, Opens, AllReady
<1> QED
  BY <1>1, <1>2, <1>3, <1>4, <1>5, <1>6, <1>7, <1>8, <1>9, <1>10 DEF Next

LEMMA OpensStart == Init => Opens
<1> SUFFICES ASSUME Init PROVE Opens
  OBVIOUS
<1>1. PICK n \in 0..MaxEarly : buffer = Constructed(n)
  BY DEF Init
<1>2. /\ Len(buffer) = n + 3 /\ buffer[n + 1] = "ready" /\ buffer[n + 3] = "state"
      /\ \A i \in 1..(n + 3) \ {n + 1, n + 3} : buffer[i] = "other"
  BY <1>1, ConstructedType
<1>3. n + 1 \in 1..(n + 3) /\ n + 3 \in 1..(n + 3) /\ n + 1 < n + 3
  BY BoundsAreNat
<1>4. Opening(buffer)
  BY <1>2, <1>3 DEF Opening
<1> QED
  BY <1>4 DEF Init, Opens, AllReady

(* Whatever was dropped from the buffer, the first client is handed a      *)
(* ready with nothing but passing events before it and a state behind it,  *)
(* and a later one hears a ready first (bufferEvent, bindClient).          *)
THEOREM EveryPageIsWelcomed == Spec => []PagesAreWelcomed
<1>1. IInv /\ Opens => PagesAreWelcomed
  <2> SUFFICES ASSUME IInv, Opens PROVE PagesAreWelcomed
    OBVIOUS
  <2>1. ASSUME open, bound = None PROVE Welcomes(buffer)
    <3>1. Len(buffer) \in Nat /\ DOMAIN buffer = 1..Len(buffer)
      BY LenProperties DEF IInv, TypeOK
    <3>2. PICK r \in 1..Len(buffer), s \in 1..Len(buffer) :
             /\ r < s /\ buffer[r] = "ready" /\ buffer[s] = "state"
             /\ \A i \in 1..Len(buffer) \ {r, s} : buffer[i] = "other"
      BY <2>1 DEF Opens, Opening
    <3>3. \A i \in 1..(r - 1) : i \in 1..Len(buffer) \ {r, s}
      BY <3>1, <3>2
    <3> QED
      BY <3>1, <3>2, <3>3 DEF Welcomes
  <2> QED
    BY <2>1 DEF Opens, AllReady, PagesAreWelcomed
<1> QED
  BY <1>1, Invariant, OpensStart, OpensStays, PTL DEF Spec

-----------------------------------------------------------------------------
(***************************************************************************)
(* How a gap heals when the wire, the transport or the controller has      *)
(* failed once: until the gap is seen at most one event is missing from a  *)
(* client's stream, and from then on none.                                 *)
(***************************************************************************)

\* On the wire, at place i: event n of epoch e, for c.
At(i, c, e, n) == /\ i \in DOMAIN toClient /\ toClient[i].type = "event"
                  /\ toClient[i].to = c /\ toClient[i].epoch = e /\ toClient[i].seq = n

\* The client has it, or would not take it any more.
Passed(c, e, n) == e \in retired[c] \/ (e = current[c] /\ n <= last[c])

\* What comes at place i after event n of e finds it: there is none, it has been
\* passed, is a hole, or comes first.
Linked(c, e, n, i, holes) == \/ n = 0 \/ Passed(c, e, n) \/ <<c, e, n>> \in holes
                             \/ \E j \in Nat : j < i /\ At(j, c, e, n)

\* No event of c's stream, on the wire or still to be sent, comes as a gap.
Whole(c, holes) ==
    /\ \A i, e, n \in Nat : At(i, c, e, n + 1) => Linked(c, e, n, i, holes)
    /\ \A i, e, n \in Nat : bound = c /\ epoch = e /\ sequence = n /\ i > Len(toClient)
                               => Linked(c, e, n, i, holes)
Streams(holes) == \A c \in Client : life[c] = "open" => Whole(c, holes)

Below(e, n, f, m) == e < f \/ (e = f /\ n < m)
\* Nothing is out of order, and c has not heard what is still to come.
Sorted(c) ==
    /\ \A i, j, e, n, f, m \in Nat : At(i, c, e, n) /\ At(j, c, f, m) /\ i < j => Below(e, n, f, m)
    /\ \A i, e, n \in Nat : At(i, c, e, n) => /\ Below(current[c], last[c], e, n)
                                              /\ Below(e, n, epoch, sequence + 1)
    /\ Below(current[c], last[c], epoch, sequence + 1)
    /\ \A e \in retired[c] : e < current[c]
InOrder == \A c \in Client : Sorted(c)

Quiet == \A c \in Client : ~missed[c] /\ ~recovering[c]

\* A page that has not been loaded is not known to the panel, and one that has
\* been left misses nothing.
Unknown(c) == /\ bound # c
              /\ \A i, e, n \in Nat : ~At(i, c, e, n)
              /\ \A i \in DOMAIN toHost : toHost[i].client # c
Known == \A c \in Client : /\ life[c] = "unborn" => Unknown(c)
                           /\ missed[c] => life[c] = "open"

Unbroken == Quiet /\ Streams({})
Torn     == InOrder /\ Quiet /\ \E hole : Streams({hole})
Mended   == InOrder /\ Streams({}) /\ GapsHeal

Healing == /\ Known
           /\ faults = 0 => InOrder /\ Unbroken
           /\ faults = 1 => Unbroken \/ Torn \/ Mended

LEMMA AtTyped ==
  ASSUME IInv, NEW i, NEW c, NEW e, NEW n, At(i, c, e, n)
  PROVE  /\ i \in 1..Len(toClient) /\ i \in Nat /\ Len(toClient) \in Nat
         /\ c \in Client /\ e \in Nat \ {0} /\ n \in Nat \ {0}
         /\ toClient[i] \in Event
<1>1. toClient \in Seq(Message)
  BY DEF IInv, TypeOK, Message
<1>2. i \in 1..Len(toClient) /\ i \in Nat /\ Len(toClient) \in Nat /\ toClient[i] \in Message
  BY <1>1, LenProperties, ElementOfSeq DEF At
<1>3. toClient[i] \in Event
  BY <1>2 DEF At, Message, Response
<1> QED
  BY <1>2, <1>3 DEF At, Event

\* The places after a message has been taken,
LEMMA AtTail ==
  ASSUME IInv, toClient # <<>>, toClient' = Tail(toClient)
  PROVE  /\ \A c, e, n : \A i \in Nat : At(i, c, e, n)' <=> i >= 1 /\ At(i + 1, c, e, n)
         /\ \A i \in Nat : i >= 1 /\ i + 1 \in DOMAIN toClient => toClient'[i] = toClient[i + 1]
         /\ Len(toClient) \in Nat /\ Len(toClient') = Len(toClient) - 1
<1>1. toClient \in Seq(Message)
  BY DEF IInv, TypeOK, Message
<1>2. /\ Len(toClient') = Len(toClient) - 1
      /\ \A i \in DOMAIN toClient' : /\ i \in Nat /\ i >= 1
                                     /\ i + 1 \in DOMAIN toClient /\ toClient'[i] = toClient[i + 1]
      /\ \A i \in DOMAIN toClient : \/ i = 1
                                    \/ i - 1 \in DOMAIN toClient' /\ toClient'[i - 1] = toClient[i]
  BY <1>1, TailOf
<1>3. Len(toClient) \in Nat /\ DOMAIN toClient = 1..Len(toClient)
  BY <1>1, LenProperties
<1>4. ASSUME NEW i \in Nat, i >= 1, i + 1 \in DOMAIN toClient
      PROVE  i \in DOMAIN toClient' /\ toClient'[i] = toClient[i + 1]
  <2>1. i + 1 # 1 /\ i + 1 - 1 = i
    BY <1>4
  <2> QED
    BY <1>2, <1>4, <2>1
<1>5. ASSUME NEW i \in Nat, NEW c, NEW e, NEW n
      PROVE  At(i, c, e, n)' <=> i >= 1 /\ At(i + 1, c, e, n)
  <2>1. CASE i \in DOMAIN toClient'
    BY <1>2, <2>1 DEF At
  <2>2. CASE i \notin DOMAIN toClient'
    BY <1>4, <2>2 DEF At
  <2> QED
    BY <2>1, <2>2
<1> QED
  BY <1>2, <1>3, <1>4, <1>5

\* and after something has been sent.
LEMMA AtBehind ==
  ASSUME IInv, NEW new \in Seq(Message), toClient' = toClient \o new
  PROVE  /\ \A i, c, e, n : At(i, c, e, n) => At(i, c, e, n)'
         /\ \A i, c, e, n : At(i, c, e, n)' =>
               \/ At(i, c, e, n)
               \/ /\ i - Len(toClient) \in DOMAIN new /\ i > Len(toClient) /\ i \in Nat
                  /\ new[i - Len(toClient)].type = "event" /\ new[i - Len(toClient)].to = c
                  /\ new[i - Len(toClient)].epoch = e /\ new[i - Len(toClient)].seq = n
         /\ \A j \in DOMAIN new : /\ Len(toClient) + j \in DOMAIN toClient'
                                  /\ toClient'[Len(toClient) + j] = new[j]
         /\ \A i \in DOMAIN toClient : i \in DOMAIN toClient' /\ toClient'[i] = toClient[i]
         /\ Len(toClient) \in Nat /\ Len(toClient') \in Nat /\ Len(toClient) <= Len(toClient')
<1>1. toClient \in Seq(Message) /\ Len(toClient) \in Nat /\ Len(new) \in Nat
      /\ DOMAIN new = 1..Len(new)
  BY LenProperties DEF IInv, TypeOK, Message
<1>2. /\ Len(toClient') = Len(toClient) + Len(new)
      /\ \A i \in DOMAIN toClient : i \in DOMAIN toClient' /\ toClient'[i] = toClient[i]
      /\ \A i \in DOMAIN new : /\ Len(toClient) + i \in DOMAIN toClient'
                               /\ toClient'[Len(toClient) + i] = new[i]
      /\ \A i \in DOMAIN toClient' :
           \/ i \in DOMAIN toClient
           \/ i - Len(toClient) \in DOMAIN new /\ i = Len(toClient) + (i - Len(toClient))
  BY <1>1, Behind
<1>3. ASSUME NEW i, NEW c, NEW e, NEW n, At(i, c, e, n)'
      PROVE  \/ At(i, c, e, n)
             \/ /\ i - Len(toClient) \in DOMAIN new /\ i > Len(toClient) /\ i \in Nat
                /\ new[i - Len(toClient)].type = "event" /\ new[i - Len(toClient)].to = c
                /\ new[i - Len(toClient)].epoch = e /\ new[i - Len(toClient)].seq = n
  <2>1. CASE i \in DOMAIN toClient
    BY <1>2, <1>3, <2>1 DEF At
  <2>2. CASE i \notin DOMAIN toClient
    <3>1. i - Len(toClient) \in DOMAIN new /\ i = Len(toClient) + (i - Len(toClient))
      BY <1>2, <1>3, <2>2 DEF At
    <3>2. i > Len(toClient) /\ i \in Nat
      BY <1>1, <3>1
    <3>3. toClient'[i] = new[i - Len(toClient)]
      BY <1>2, <3>1
    <3> QED
      BY <1>3, <3>1, <3>2, <3>3 DEF At
  <2> QED
    BY <2>1, <2>2
<1>4. \A i, c, e, n : At(i, c, e, n) => At(i, c, e, n)'
  BY <1>2 DEF At
<1>5. Len(toClient') \in Nat /\ Len(toClient) <= Len(toClient')
  BY <1>1, <1>2
<1> QED
  BY <1>1, <1>2, <1>3, <1>4, <1>5

\* What is sent goes to the client the panel is bound to, under its epoch, and
\* is numbered from what was sent last.
Sent ==
    /\ UNCHANGED <<current, retired, last>>
    /\ Len(toClient) <= Len(toClient')
    /\ \A i, c, e, n : At(i, c, e, n) => At(i, c, e, n)'
    /\ \A i, c, e, n : At(i, c, e, n)' /\ ~At(i, c, e, n) =>
          /\ i > Len(toClient) /\ c = bound' /\ e = epoch' /\ n <= sequence'
          /\ Below(epoch, sequence, e, n)
          /\ \A j, m : At(j, c, e, m)' /\ ~At(j, c, e, m) /\ j < i => m < n
          /\ \/ n = 1
             \/ bound' = bound /\ epoch' = epoch /\ n = sequence + 1
             \/ \E j \in Nat : j < i /\ At(j, c, e, n - 1)'
    /\ Below(epoch, sequence, epoch', sequence' + 1)
    /\ \/ UNCHANGED <<bound, epoch, sequence>>
       \/ bound' = None
       \/ \E j \in Nat : j <= Len(toClient') /\ At(j, bound, epoch, sequence)'

\* What was linked stays so.
LEMMA LinkedStays ==
  ASSUME Sent, NEW c, NEW e, NEW n, NEW holes, NEW i \in Nat, NEW k \in Nat, i <= k,
         Linked(c, e, n, i, holes)
  PROVE  Linked(c, e, n, k, holes)'
<1>1. CASE n = 0 \/ Passed(c, e, n) \/ <<c, e, n>> \in holes
  BY <1>1 DEF Linked, Passed, Sent
<1>2. ASSUME NEW j \in Nat, j < i, At(j, c, e, n) PROVE Linked(c, e, n, k, holes)'
  <2>1. At(j, c, e, n)' /\ j < k
    BY <1>2 DEF Sent
  <2> QED
    BY <2>1 DEF Linked
<1> QED
  BY <1>1, <1>2 DEF Linked

LEMMA SentWhole ==
  ASSUME IInv, IInv', Sent, NEW c \in Client, NEW holes, Whole(c, holes)
  PROVE  Whole(c, holes)'
<1>0. /\ Len(toClient) \in Nat /\ Len(toClient') \in Nat
      /\ epoch \in Nat /\ sequence \in Nat /\ epoch' \in Nat /\ sequence' \in Nat
  BY LenProperties DEF IInv, TypeOK
<1>1. ASSUME NEW i \in Nat, NEW e \in Nat, NEW n \in Nat, At(i, c, e, n + 1)'
      PROVE  Linked(c, e, n, i, holes)'
  <2>1. CASE At(i, c, e, n + 1)
    BY <2>1, LinkedStays DEF Whole
  <2>2. CASE ~At(i, c, e, n + 1)
    <3>1. /\ i > Len(toClient) /\ c = bound' /\ e = epoch'
          /\ \/ n + 1 = 1
             \/ bound' = bound /\ epoch' = epoch /\ n + 1 = sequence + 1
             \/ \E j \in Nat : j < i /\ At(j, c, e, n + 1 - 1)'
      BY <1>1, <2>2 DEF Sent
    <3>2. CASE n = 0
      BY <3>2 DEF Linked
    <3>3. CASE bound' = bound /\ epoch' = epoch /\ n = sequence
      <4>1. Linked(c, e, n, i, holes)
        BY <3>1, <3>3 DEF Whole
      <4> QED
        BY <4>1, LinkedStays
    <3>4. ASSUME NEW j \in Nat, j < i, At(j, c, e, n + 1 - 1)' PROVE Linked(c, e, n, i, holes)'
      <4>1. n + 1 - 1 = n
        OBVIOUS
      <4>2. At(j, c, e, n)'
        BY <3>4, <4>1
      <4> QED
        BY <3>4, <4>2 DEF Linked
    <3>5. n + 1 = 1 => n = 0
      OBVIOUS
    <3>6. n + 1 = sequence + 1 => n = sequence
      BY <1>0
    <3> QED
      BY <3>1, <3>2, <3>3, <3>4, <3>5, <3>6
  <2> QED
    BY <2>1, <2>2
<1>2. ASSUME NEW i \in Nat, NEW e \in Nat, NEW n \in Nat,
             bound' = c, epoch' = e, sequence' = n, i > Len(toClient')
      PROVE  Linked(c, e, n, i, holes)'
  <2>1. CASE UNCHANGED <<bound, epoch, sequence>>
    <3>1. i > Len(toClient)
      BY <1>0, <1>2 DEF Sent
    <3>2. Linked(c, e, n, i, holes)
      BY <1>2, <2>1, <3>1 DEF Whole
    <3> QED
      BY <3>2, LinkedStays
  <2>2. ASSUME NEW j \in Nat, j <= Len(toClient'), At(j, bound, epoch, sequence)'
        PROVE  Linked(c, e, n, i, holes)'
    <3>1. j < i /\ At(j, c, e, n)'
      BY <1>0, <1>2, <2>2 DEF At
    <3> QED
      BY <3>1 DEF Linked
  <2> QED
    BY <1>2, <2>1, <2>2, NoneIsNoClient DEF Sent
<1> QED
  BY <1>1, <1>2 DEF Whole

LEMMA BelowFacts ==
  \A e, n, f, m, g, k \in Nat :
     /\ Below(e, n, f, m + 1) /\ Below(f, m, g, k + 1) => Below(e, n, g, k + 1)
     /\ Below(e, n, f, m + 1) /\ Below(f, m, g, k) => Below(e, n, g, k)
     /\ n <= m => Below(e, n, e, m + 1)
     /\ n < m => Below(e, n, e, m)
     /\ Below(e, n, e + 1, m)
  BY DEF Below

LEMMA SentSorted ==
  ASSUME IInv, IInv', Sent, NEW c \in Client, Sorted(c)
  PROVE  Sorted(c)'
<1>0. /\ epoch \in Nat /\ sequence \in Nat /\ epoch' \in Nat /\ sequence' \in Nat
      /\ current[c] \in Nat /\ last[c] \in Nat /\ Len(toClient) \in Nat
      /\ Below(epoch, sequence, epoch', sequence' + 1)
      /\ UNCHANGED <<current, retired, last>>
  BY LenProperties DEF IInv, TypeOK, Sent
<1>1. ASSUME NEW e \in Nat, NEW n \in Nat, Below(e, n, epoch, sequence + 1)
      PROVE  Below(e, n, epoch', sequence' + 1)
  BY <1>0, <1>1, BelowFacts
<1>2. ASSUME NEW e \in Nat, NEW n \in Nat, Below(e, n, epoch, sequence + 1),
             NEW f \in Nat, NEW m \in Nat, Below(epoch, sequence, f, m)
      PROVE  Below(e, n, f, m)
  BY <1>0, <1>2, BelowFacts
<1>3. ASSUME NEW i \in Nat, NEW e \in Nat, NEW n \in Nat, At(i, c, e, n)', ~At(i, c, e, n)
      PROVE  /\ i > Len(toClient) /\ e = epoch' /\ n <= sequence'
             /\ Below(epoch, sequence, e, n)
             /\ \A j, m : At(j, c, e, m)' /\ ~At(j, c, e, m) /\ j < i => m < n
  BY <1>3 DEF Sent
<1>4. ASSUME NEW i \in Nat, NEW j \in Nat, NEW e \in Nat, NEW n \in Nat, NEW f \in Nat,
             NEW m \in Nat, At(i, c, e, n)', At(j, c, f, m)', i < j
      PROVE  Below(e, n, f, m)
  <2>1. CASE At(i, c, e, n) /\ At(j, c, f, m)
    BY <1>4, <2>1 DEF Sorted
  <2>2. CASE At(i, c, e, n) /\ ~At(j, c, f, m)
    <3>1. Below(e, n, epoch, sequence + 1)
      BY <2>2 DEF Sorted
    <3>2. Below(epoch, sequence, f, m)
      BY <1>3, <1>4, <2>2
    <3> QED
      BY <1>2, <3>1, <3>2
  <2>3. CASE ~At(i, c, e, n) /\ At(j, c, f, m)
    <3>1. i > Len(toClient) /\ j <= Len(toClient)
      BY <1>3, <1>4, <2>3, AtTyped
    <3>2. ~(i < j)
      BY <1>0, <3>1
    <3> QED
      BY <1>4, <3>2
  <2>4. CASE ~At(i, c, e, n) /\ ~At(j, c, f, m)
    <3>1. e = f
      BY <1>3, <1>4, <2>4
    <3>2. n < m
      BY <1>3, <1>4, <2>4, <3>1
    <3> QED
      BY <3>1, <3>2, BelowFacts
  <2> QED
    BY <2>1, <2>2, <2>3, <2>4
<1>5. ASSUME NEW i \in Nat, NEW e \in Nat, NEW n \in Nat, At(i, c, e, n)'
      PROVE  Below(current[c], last[c], e, n) /\ Below(e, n, epoch', sequence' + 1)
  <2>1. CASE At(i, c, e, n)
    BY <1>1, <2>1 DEF Sorted
  <2>2. CASE ~At(i, c, e, n)
    <3>1. e = epoch' /\ n <= sequence' /\ Below(epoch, sequence, e, n)
      BY <1>3, <1>5, <2>2
    <3>2. Below(e, n, epoch', sequence' + 1)
      BY <1>0, <3>1, BelowFacts
    <3>3. Below(current[c], last[c], e, n)
      BY <1>0, <1>2, <3>1 DEF Sorted
    <3> QED
      BY <3>2, <3>3
  <2> QED
    BY <2>1, <2>2
<1>6. Below(current[c], last[c], epoch', sequence' + 1)
  BY <1>0, <1>1 DEF Sorted
<1>7. \A e \in retired[c] : e < current[c]
  BY DEF Sorted
<1> QED
  BY <1>0, <1>4, <1>5, <1>6, <1>7 DEF Sorted

LEMMA SentUnknown ==
  ASSUME Sent, NEW c \in Client, Unknown(c), bound' # c, \A i \in DOMAIN toHost' : toHost'[i].client # c
  PROVE  Unknown(c)'
  BY DEF Sent, Unknown

LEMMA NothingSent ==
  ASSUME IInv, UNCHANGED <<toClient, epoch, sequence, current, retired, last>>,
         bound' = bound \/ bound' = None
  PROVE  Sent
<1>1. epoch \in Nat /\ sequence \in Nat /\ Len(toClient) \in Nat
  BY LenProperties DEF IInv, TypeOK
<1>2. Below(epoch, sequence, epoch', sequence' + 1)
  BY <1>1, BelowFacts
<1>3. \A i, c, e, n : At(i, c, e, n)' <=> At(i, c, e, n)
  BY DEF At
<1> QED
  BY <1>1, <1>2, <1>3 DEF Sent

LEMMA AnswerSent ==
  ASSUME IInv, NEW m \in Message, m.type # "event", toClient' = toClient \o <<m>>,
         UNCHANGED <<bound, epoch, sequence, current, retired, last>>
  PROVE  Sent
<1>1. epoch \in Nat /\ sequence \in Nat
  BY DEF IInv, TypeOK
<1>2. Below(epoch, sequence, epoch', sequence' + 1)
  BY <1>1, BelowFacts
<1>3. <<m>> \in Seq(Message) /\ DOMAIN <<m>> = {1} /\ <<m>>[1] = m
  OBVIOUS
<1>4. /\ \A i, c, e, n : At(i, c, e, n) => At(i, c, e, n)'
      /\ Len(toClient) <= Len(toClient')
  BY <1>3, AtBehind
<1> DEFINE new == <<m>>
<1> HIDE DEF new
<1>5. ASSUME NEW i, NEW c, NEW e, NEW n, At(i, c, e, n)', ~At(i, c, e, n)
      PROVE  FALSE
  <2>1. new \in Seq(Message) /\ toClient' = toClient \o new /\ \A j \in DOMAIN new : new[j] = m
    BY <1>3 DEF new
  <2>2. i - Len(toClient) \in DOMAIN new /\ new[i - Len(toClient)].type = "event"
    BY <1>5, <2>1, AtBehind
  <2> QED
    BY <2>1, <2>2
<1> QED
  BY <1>2, <1>4, <1>5 DEF Sent

\* One event for the client the panel is bound to.
LEMMA PostSent ==
  ASSUME IInv, NEW new \in Seq(Message), NEW k \in EventKind, toClient' = toClient \o new,
         1 \in DOMAIN new, new[1] = EventOf(bound, epoch, sequence + 1, k),
         \A j \in DOMAIN new : j # 1 => new[j].type # "event",
         sequence' = sequence + 1, UNCHANGED <<bound, epoch, current, retired, last>>
  PROVE  Sent
<1>1. epoch \in Nat /\ sequence \in Nat /\ sequence + 1 \in Nat /\ Len(toClient) \in Nat
  <2>1. toClient \in Seq(Message) /\ epoch \in Nat /\ sequence \in Nat
    BY DEF IInv, TypeOK, Message
  <2> QED
    BY <2>1, LenProperties
<1>2. Below(epoch, sequence, epoch', sequence' + 1) /\ Below(epoch, sequence, epoch, sequence + 1)
  BY <1>1 DEF Below
<1>3. /\ new[1].type = "event" /\ new[1].to = bound /\ new[1].epoch = epoch
      /\ new[1].seq = sequence + 1
  BY DEF EventOf
<1>4. ASSUME NEW i, NEW c, NEW e, NEW n, At(i, c, e, n)', ~At(i, c, e, n)
      PROVE  i = Len(toClient) + 1 /\ i > Len(toClient) /\ c = bound /\ e = epoch /\ n = sequence + 1
  <2>1. /\ i - Len(toClient) \in DOMAIN new /\ i > Len(toClient) /\ i \in Nat
        /\ new[i - Len(toClient)].type = "event" /\ new[i - Len(toClient)].to = c
        /\ new[i - Len(toClient)].epoch = e /\ new[i - Len(toClient)].seq = n
    BY <1>4, AtBehind
  <2>2. i - Len(toClient) = 1
    BY <2>1
  <2> QED
    BY <1>1, <1>3, <2>1, <2>2
<1>5. /\ \A i, c, e, n : At(i, c, e, n) => At(i, c, e, n)'
      /\ Len(toClient) <= Len(toClient') /\ Len(toClient') \in Nat
  BY AtBehind
<1>6. \E j \in Nat : j <= Len(toClient') /\ At(j, bound, epoch, sequence)'
  <2>1. PICK j \in Nat : j = Len(toClient) + 1
    BY <1>1
  <2>2. j \in DOMAIN toClient' /\ toClient'[j] = new[1]
    BY <2>1, AtBehind
  <2>3. At(j, bound, epoch, sequence)'
    BY <1>3, <2>2 DEF At
  <2>4. j <= Len(toClient')
    <3>1. toClient' \in Seq(Message)
      BY Behind DEF IInv, TypeOK, Message
    <3> QED
      BY <2>2, <3>1, LenProperties
  <2> QED
    BY <2>3, <2>4
<1>7. \A i, c, e, n : At(i, c, e, n)' /\ ~At(i, c, e, n) =>
          /\ i > Len(toClient) /\ c = bound' /\ e = epoch' /\ n <= sequence'
          /\ Below(epoch, sequence, e, n)
          /\ \A j, m : At(j, c, e, m)' /\ ~At(j, c, e, m) /\ j < i => m < n
          /\ bound' = bound /\ epoch' = epoch /\ n = sequence + 1
  BY <1>1, <1>2, <1>4
<1> QED
  BY <1>2, <1>5, <1>6, <1>7 DEF Sent

LEMMA NewPlace ==
  ASSUME IInv, NEW new \in Seq(Message), toClient' = toClient \o new,
         NEW i, NEW c, NEW e, NEW n, At(i, c, e, n)', ~At(i, c, e, n)
  PROVE  \E k \in DOMAIN new : /\ i \in Nat /\ i > Len(toClient) /\ k = i - Len(toClient)
                               /\ new[k].type = "event" /\ new[k].to = c
                               /\ new[k].epoch = e /\ new[k].seq = n
<1>1. /\ i - Len(toClient) \in DOMAIN new /\ i > Len(toClient) /\ i \in Nat
      /\ new[i - Len(toClient)].type = "event" /\ new[i - Len(toClient)].to = c
      /\ new[i - Len(toClient)].epoch = e /\ new[i - Len(toClient)].seq = n
  BY AtBehind
<1> QED
  BY <1>1

\* Events 1 to count of an epoch.
Numbered(s, b, e, count) ==
    /\ DOMAIN s = 1..count
    /\ \A j \in 1..count : /\ s[j].type = "event" /\ s[j].to = b
                           /\ s[j].epoch = e /\ s[j].seq = j

LEMMA GreetingSent ==
  ASSUME IInv, NEW b \in Client, NEW count \in Nat, count >= 1, NEW new \in Seq(Message),
         Numbered(new, b, epoch + 1, count),
         toClient' = toClient \o new, bound' = b, epoch' = epoch + 1,
         sequence' = count, UNCHANGED <<current, retired, last>>
  PROVE  Sent
<1>1. epoch \in Nat /\ sequence \in Nat /\ Len(toClient) \in Nat
  <2>1. toClient \in Seq(Message) /\ epoch \in Nat /\ sequence \in Nat
    BY DEF IInv, TypeOK, Message
  <2> QED
    BY <2>1, LenProperties
<1>2. Below(epoch, sequence, epoch', sequence' + 1)
  BY <1>1 DEF Below
<1>5. /\ \A i, c, e, n : At(i, c, e, n) => At(i, c, e, n)'
      /\ Len(toClient) <= Len(toClient') /\ Len(toClient') \in Nat
  BY AtBehind
<1>6. ASSUME NEW i, NEW c, NEW e, NEW n, At(i, c, e, n)', ~At(i, c, e, n)
      PROVE  /\ i \in Nat /\ i > Len(toClient) /\ c = b /\ e = epoch + 1
             /\ n = i - Len(toClient) /\ n \in 1..count
  <2>1. PICK k \in DOMAIN new : /\ i \in Nat /\ i > Len(toClient) /\ k = i - Len(toClient)
                                /\ new[k].type = "event" /\ new[k].to = c
                                /\ new[k].epoch = e /\ new[k].seq = n
    BY <1>6, NewPlace
  <2>2. k \in 1..count
    BY DEF Numbered
  <2>3. new[k].to = b /\ new[k].epoch = epoch + 1 /\ new[k].seq = k
    BY <2>2 DEF Numbered
  <2> QED
    BY <2>1, <2>2, <2>3
<1>7. ASSUME NEW j \in 1..count, NEW i \in Nat, i = Len(toClient) + j
      PROVE  i \in DOMAIN toClient' /\ At(i, b, epoch, j)'
  <2>1. new[j].type = "event" /\ new[j].to = b /\ new[j].epoch = epoch + 1 /\ new[j].seq = j
        /\ j \in DOMAIN new
    BY DEF Numbered
  <2>2. i \in DOMAIN toClient' /\ toClient'[i] = new[j]
    BY <1>7, <2>1, AtBehind
  <2> QED
    BY <2>1, <2>2 DEF At
<1>8. ASSUME NEW i, NEW c, NEW e, NEW n, At(i, c, e, n)', ~At(i, c, e, n)
      PROVE  /\ i > Len(toClient) /\ c = bound' /\ e = epoch' /\ n <= sequence'
             /\ Below(epoch, sequence, e, n)
             /\ \A j, m : At(j, c, e, m)' /\ ~At(j, c, e, m) /\ j < i => m < n
             /\ n = 1 \/ \E j \in Nat : j < i /\ At(j, c, e, n - 1)'
  <2>1. /\ i \in Nat /\ i > Len(toClient) /\ c = b /\ e = epoch + 1
        /\ n = i - Len(toClient) /\ n \in 1..count
    BY <1>6, <1>8
  <2>2. Below(epoch, sequence, e, n)
    BY <1>1, <2>1 DEF Below
  <2>3. ASSUME NEW j, NEW m, At(j, c, e, m)', ~At(j, c, e, m), j < i PROVE m < n
    <3>1. j \in Nat /\ m = j - Len(toClient)
      BY <1>6, <2>3
    <3> QED
      BY <1>1, <2>1, <2>3, <3>1
  <2>4. CASE n # 1
    <3>0. n \in Nat /\ n >= 2 /\ n <= count
      BY <2>1, <2>4
    <3>1. PICK m \in 1..count : m = n - 1
      BY <3>0
    <3>2. PICK j \in Nat : j = Len(toClient) + m
      BY <1>1
    <3>3. j < i
      BY <1>1, <2>1, <3>1, <3>2
    <3>4. At(j, b, epoch, m)'
      BY <1>7, <3>2
    <3>5. At(j, c, e, m)'
      BY <2>1, <3>4 DEF At
    <3>6. \E k \in Nat : k < i /\ At(k, c, e, n - 1)'
      BY <3>1, <3>3, <3>5
    <3> QED
      BY <2>1, <2>2, <2>3, <3>6
  <2> QED
    BY <2>1, <2>2, <2>3, <2>4
<1>9. \E j \in Nat : j <= Len(toClient') /\ At(j, bound, epoch, sequence)'
  <2>1. PICK m \in 1..count : m = count
    BY <1>1
  <2>2. PICK j \in Nat : j = Len(toClient) + m
    BY <1>1
  <2>3. j \in DOMAIN toClient' /\ At(j, b, epoch, m)'
    BY <1>7, <2>2
  <2>4. At(j, bound, epoch, sequence)'
    BY <2>1, <2>3 DEF At
  <2>5. j <= Len(toClient')
    <3>1. toClient' \in Seq(Message)
      BY Behind DEF IInv, TypeOK, Message
    <3> QED
      BY <2>3, <3>1, LenProperties
  <2> QED
    BY <2>4, <2>5
<1> QED
  BY <1>2, <1>5, <1>8, <1>9 DEF Sent

LEMMA UnknownIsWhole ==
  ASSUME NEW c, Unknown(c), NEW holes
  PROVE  Whole(c, holes)
<1>1. \A i, e, n \in Nat : ~At(i, c, e, n + 1)
  BY DEF Unknown
<1> QED
  BY <1>1 DEF Unknown, Whole

\* A step in which no client hears anything and none is closed.
LEMMA HealingSteps ==
  ASSUME IInv, IInv', Healing, Known', Sent,
         \A c \in Client : life'[c] = "open" => life[c] = "open" \/ Unknown(c),
         \A c \in Client : (missed'[c] => missed[c]) /\ (recovering'[c] => recovering[c]),
         faults' = faults \/ faults' = faults + 1,
         faults' = faults => (Mended => GapsHeal')
  PROVE  Healing'
<1>1. InOrder => InOrder'
  BY SentSorted DEF InOrder
<1>2. Quiet => Quiet'
  BY DEF Quiet
<1>3. ASSUME NEW holes, Streams(holes) PROVE Streams(holes)'
  BY <1>3, UnknownIsWhole, SentWhole DEF Streams
<1>4. /\ Unbroken => Unbroken'
      /\ Torn => Torn'
  BY <1>1, <1>2, <1>3 DEF Unbroken, Torn
<1>5. faults \in Nat
  BY DEF IInv, TypeOK
<1>6. CASE faults' = faults
  <2>1. Mended => Mended'
    BY <1>1, <1>3, <1>6 DEF Mended
  <2> QED
    BY <1>1, <1>4, <1>6, <2>1 DEF Healing
<1>7. CASE faults' = faults + 1
  BY <1>1, <1>4, <1>5, <1>7 DEF Healing
<1> QED
  BY <1>6, <1>7

\* A state on its way stays on its way.
LEMMA ComesStays ==
  ASSUME IInv, NEW c \in Client, StateComes(c), UNCHANGED <<current, retired, last>>,
         toHost # <<>> => toHost' # <<>>, handling # {} => handling' # {},
         \A i \in DOMAIN toClient : i \in DOMAIN toClient' /\ toClient'[i] = toClient[i]
  PROVE  StateComes(c)'
<1>1. CASE toHost # <<>> \/ handling # {}
  BY <1>1 DEF StateComes
<1>2. ASSUME NEW i \in DOMAIN toClient, toClient[i].type = "event", toClient[i].kind = "state",
             toClient[i].to = c, IsNews(c, toClient[i])
      PROVE  StateComes(c)'
  <2>1. i \in DOMAIN toClient' /\ toClient'[i] = toClient[i]
    OBVIOUS
  <2>2. IsNews(c, toClient[i])'
    BY <1>2, <2>1 DEF IsNews, Since
  <2> QED
    BY <1>2, <2>1, <2>2 DEF StateComes
<1> QED
  BY <1>1, <1>2 DEF StateComes

-----------------------------------------------------------------------------
(* A message is taken off the wire. *)

LEMMA TakenLinked ==
  ASSUME IInv, toClient # <<>>, toClient' = Tail(toClient),
         NEW c, NEW e, NEW n, NEW holes, NEW left,
         Passed(c, e, n) => Passed(c, e, n)',
         At(1, c, e, n) \/ <<c, e, n>> \in holes => Passed(c, e, n)' \/ <<c, e, n>> \in left,
         NEW i \in Nat, NEW k \in Nat, i <= k + 1, Linked(c, e, n, i, holes)
  PROVE  Linked(c, e, n, k, left)'
<1>1. CASE n = 0 \/ Passed(c, e, n) \/ <<c, e, n>> \in holes
  BY <1>1 DEF Linked
<1>2. ASSUME NEW j \in Nat, j < i, At(j, c, e, n) PROVE Linked(c, e, n, k, left)'
  <2>1. CASE j = 1
    BY <1>2, <2>1 DEF Linked
  <2>2. CASE j # 1
    <3>1. j >= 1
      BY <1>2, AtTyped
    <3>2. PICK l \in Nat : l + 1 = j /\ l >= 1
      BY <2>2, <3>1
    <3>3. At(l, c, e, n)'
      BY <1>2, <3>2, AtTail
    <3>4. l < k
      BY <1>2, <3>2
    <3> QED
      BY <3>3, <3>4 DEF Linked
  <2> QED
    BY <2>1, <2>2
<1> QED
  BY <1>1, <1>2 DEF Linked

\* What was passed stays so, and what is taken is passed or leaves a hole.
Taken(c, holes, left) ==
    /\ \A e \in Nat \ {0}, n \in Nat : Passed(c, e, n) => Passed(c, e, n)'
    /\ \A e, n \in Nat : At(1, c, e, n) \/ <<c, e, n>> \in holes
                             => Passed(c, e, n)' \/ <<c, e, n>> \in left

LEMMA TakenWhole ==
  ASSUME IInv, toClient # <<>>, toClient' = Tail(toClient), UNCHANGED <<bound, epoch, sequence>>,
         NEW c \in Client, NEW holes, NEW left, Whole(c, holes), Taken(c, holes, left)
  PROVE  Whole(c, left)'
<1>1. ASSUME NEW i \in Nat, NEW e \in Nat, NEW n \in Nat, At(i, c, e, n + 1)'
      PROVE  Linked(c, e, n, i, left)'
  <2>1. At(i + 1, c, e, n + 1) /\ i + 1 \in Nat
    BY <1>1, AtTail
  <2>2. Linked(c, e, n, i + 1, holes)
    BY <2>1 DEF Whole
  <2>3. e # 0
    BY <2>1, AtTyped
  <2>4. PICK k \in Nat : k = i + 1 /\ k <= i + 1
    OBVIOUS
  <2> QED
    BY <2>2, <2>3, <2>4, TakenLinked DEF Taken
<1>2. ASSUME NEW i \in Nat, NEW e \in Nat, NEW n \in Nat,
             bound' = c, epoch' = e, sequence' = n, i > Len(toClient')
      PROVE  Linked(c, e, n, i, left)'
  <2>1. i + 1 \in Nat /\ i + 1 > Len(toClient)
    BY <1>2, AtTail
  <2>2. Linked(c, e, n, i + 1, holes)
    BY <1>2, <2>1 DEF Whole
  <2>3. e # 0
    BY <1>2, NoneIsNoClient DEF IInv, Started
  <2>4. PICK k \in Nat : k = i + 1 /\ k <= i + 1
    OBVIOUS
  <2> QED
    BY <2>2, <2>3, <2>4, TakenLinked DEF Taken
<1> QED
  BY <1>1, <1>2 DEF Whole

LEMMA TakenSorted ==
  ASSUME IInv, IInv', toClient # <<>>, toClient' = Tail(toClient), UNCHANGED <<epoch, sequence>>,
         NEW c \in Client, Sorted(c),
         \/ current'[c] = current[c] /\ last'[c] = last[c] /\ retired'[c] = retired[c]
         \/ \E e, n \in Nat :
               /\ At(1, c, e, n) /\ current'[c] = e /\ last'[c] = n
               /\ retired'[c] \subseteq retired[c] \cup ({current[c]} \ {e})
  PROVE  Sorted(c)'
<1>0. /\ \A i \in Nat : \A e, n : At(i, c, e, n)' => i >= 1 /\ At(i + 1, c, e, n)
      /\ \A i \in Nat : i + 1 \in Nat /\ (i >= 1 => 1 < i + 1)
      /\ \A i, j \in Nat : i < j => i + 1 < j + 1
  BY AtTail
<1>1. ASSUME NEW i \in Nat, NEW j \in Nat, NEW e \in Nat, NEW n \in Nat, NEW f \in Nat,
             NEW m \in Nat, At(i, c, e, n)', At(j, c, f, m)', i < j
      PROVE  Below(e, n, f, m)
  <2>1. At(i + 1, c, e, n) /\ At(j + 1, c, f, m) /\ i + 1 < j + 1 /\ i + 1 \in Nat /\ j + 1 \in Nat
    BY <1>0, <1>1
  <2> QED
    BY <2>1 DEF Sorted
<1>2. ASSUME NEW i \in Nat, NEW e \in Nat, NEW n \in Nat, At(i, c, e, n)'
      PROVE  /\ At(i + 1, c, e, n) /\ i + 1 \in Nat /\ 1 < i + 1
             /\ Below(e, n, epoch, sequence + 1)
  <2>1. At(i + 1, c, e, n) /\ i + 1 \in Nat /\ 1 < i + 1
    BY <1>0, <1>2
  <2> QED
    BY <2>1 DEF Sorted
<1>3. CASE current'[c] = current[c] /\ last'[c] = last[c] /\ retired'[c] = retired[c]
  <2>1. ASSUME NEW i \in Nat, NEW e \in Nat, NEW n \in Nat, At(i, c, e, n)'
        PROVE  Below(current[c], last[c], e, n)
    BY <1>2, <2>1 DEF Sorted
  <2> QED
    BY <1>1, <1>2, <1>3, <2>1 DEF Sorted
<1>4. ASSUME NEW g \in Nat, NEW k \in Nat, At(1, c, g, k), current'[c] = g, last'[c] = k,
             retired'[c] \subseteq retired[c] \cup ({current[c]} \ {g})
      PROVE  Sorted(c)'
  <2>1. ASSUME NEW i \in Nat, NEW e \in Nat, NEW n \in Nat, At(i, c, e, n)'
        PROVE  Below(g, k, e, n)
    BY <1>2, <1>4, <2>1 DEF Sorted
  <2>2. Below(g, k, epoch, sequence + 1) /\ Below(current[c], last[c], g, k)
    BY <1>4 DEF Sorted
  <2>3. \A e \in retired'[c] : e < g
    <3>1. current[c] \in Nat /\ retired[c] \subseteq Nat
      BY DEF IInv, TypeOK
    <3>2. current[c] <= g
      BY <2>2, <3>1 DEF Below
    <3>3. \A e \in retired[c] : e < current[c]
      BY DEF Sorted
    <3> QED
      BY <1>4, <3>1, <3>2, <3>3
  <2> QED
    BY <1>1, <1>2, <1>4, <2>1, <2>2, <2>3 DEF Sorted
<1> QED
  BY <1>3, <1>4

\* The next event is a gap only if it comes after a hole.
LEMMA NoGap ==
  ASSUME IInv, NEW c \in Client, NEW holes, Whole(c, holes), NEW e \in Nat, NEW n \in Nat,
         At(1, c, e, n), e \notin retired[c], n > Since(c, e), <<c, e, n - 1>> \notin holes
  PROVE  n = Since(c, e) + 1
<1>1. n \in Nat \ {0} /\ Since(c, e) \in Nat
  BY AtTyped DEF Since, IInv, TypeOK
<1>2. PICK k \in Nat : k = n - 1 /\ n = k + 1
  BY <1>1
<1>3. Linked(c, e, k, 1, holes)
  BY <1>2 DEF Whole
<1>4. ASSUME NEW j \in Nat, j < 1, At(j, c, e, k) PROVE FALSE
  BY <1>4, AtTyped
<1>5. k = 0 \/ Passed(c, e, k)
  BY <1>2, <1>3, <1>4 DEF Linked
<1>6. k <= Since(c, e)
  BY <1>1, <1>5 DEF Passed, Since
<1> QED
  BY <1>1, <1>2, <1>6

\* What was passed stays passed when the next event is heard.
LEMMA PassedGrows ==
  ASSUME IInv, NEW c \in Client, NEW e \in Nat, NEW n \in Nat, e \notin retired[c],
         n > Since(c, e), current'[c] = e, last'[c] = n,
         retired'[c] = retired[c] \cup ({current[c]} \ {0, e})
  PROVE  /\ \A f \in Nat \ {0}, m \in Nat : Passed(c, f, m) => Passed(c, f, m)'
         /\ \A m \in Nat : m <= n => Passed(c, e, m)'
<1>1. last[c] \in Nat /\ current[c] \in Nat
  BY DEF IInv, TypeOK
<1>2. ASSUME NEW f \in Nat \ {0}, NEW m \in Nat, Passed(c, f, m) PROVE Passed(c, f, m)'
  <2>1. CASE f \in retired[c]
    BY <2>1 DEF Passed
  <2>2. CASE f = current[c] /\ m <= last[c] /\ f # e
    BY <2>2 DEF Passed
  <2>3. CASE f = current[c] /\ m <= last[c] /\ f = e
    <3>1. m <= n
      BY <1>1, <2>3 DEF Since
    <3> QED
      BY <2>3, <3>1 DEF Passed
  <2> QED
    BY <1>2, <2>1, <2>2, <2>3 DEF Passed
<1> QED
  BY <1>2 DEF Passed

-----------------------------------------------------------------------------
(* A page is not known to the panel before it is loaded. *)

LEMMA KnownStep ==
  ASSUME Known,
         \A c \in Client : life'[c] = "unborn" => life[c] = "unborn",
         \A c \in Client : missed'[c] => life'[c] = "open",
         \A c \in Client : bound' = c => bound = c \/ life[c] # "unborn",
         \A c \in Client : life[c] = "unborn" => \A i, e, n \in Nat : ~At(i, c, e, n)',
         \A c \in Client : life'[c] = "unborn" => \A i \in DOMAIN toHost' : toHost'[i].client # c
  PROVE  Known'
<1> SUFFICES ASSUME NEW c \in Client, life'[c] = "unborn" PROVE Unknown(c)'
  BY DEF Known
<1>1. life[c] = "unborn" /\ bound # c
  BY DEF Known, Unknown
<1> QED
  BY <1>1 DEF Unknown

LEMMA SentKnown ==
  ASSUME Known, Sent, UNCHANGED <<life, missed>>,
         \A c \in Client : bound' = c => bound = c \/ life[c] # "unborn",
         \A c \in Client : life[c] = "unborn" => \A i \in DOMAIN toHost' : toHost'[i].client # c
  PROVE  Known'
<1>1. ASSUME NEW c \in Client, life[c] = "unborn", NEW i \in Nat, NEW e \in Nat, NEW n \in Nat,
             At(i, c, e, n)'
      PROVE  FALSE
  <2>1. ~At(i, c, e, n)
    BY <1>1 DEF Known, Unknown
  <2>2. c = bound'
    BY <1>1, <2>1 DEF Sent
  <2> QED
    BY <1>1, <2>2 DEF Known, Unknown
<1>2. \A c \in Client : missed'[c] => life'[c] = "open"
  BY DEF Known
<1> QED
  BY <1>1, <1>2, KnownStep

\* The requests left when one has been taken.
LEMMA HostTail ==
  ASSUME IInv, toHost # <<>>
  PROVE  /\ 1 \in DOMAIN toHost /\ Head(toHost) = toHost[1]
         /\ \A i \in DOMAIN Tail(toHost) : i + 1 \in DOMAIN toHost /\ Tail(toHost)[i] = toHost[i + 1]
<1>1. toHost \in Seq(Request)
  BY DEF IInv, TypeOK
<1> QED
  BY <1>1, TailOf

LEMMA AskKnown ==
  ASSUME IInv, Known, NEW b \in Client, NEW k \in RequestKind, Ask(b, k), life'[b] = "open"
  PROVE  \A c \in Client : life[c] = "unborn" /\ life'[c] = "unborn" =>
             \A i \in DOMAIN toHost' : toHost'[i].client # c
<1> SUFFICES ASSUME NEW c \in Client, life[c] = "unborn", life'[c] = "unborn",
                    NEW i \in DOMAIN toHost'
             PROVE  toHost'[i].client # c
  OBVIOUS
<1>1. toHost \in Seq(Request) /\ NewRequest(b, k) \in Request
  <2>1. toHost \in Seq(Request) /\ asked[b] \in Nat
    BY DEF IInv, TypeOK
  <2> QED
    BY <2>1 DEF NewRequest, Request
<1>2. toHost' = Append(toHost, NewRequest(b, k))
  BY DEF Ask
<1>3. /\ Len(toHost) \in Nat /\ DOMAIN toHost = 1..Len(toHost)
      /\ toHost' \in Seq(Request) /\ Len(toHost') = Len(toHost) + 1
      /\ DOMAIN toHost' = 1..(Len(toHost) + 1)
      /\ \A j \in 1..Len(toHost) : toHost'[j] = toHost[j]
      /\ toHost'[Len(toHost) + 1] = NewRequest(b, k)
  <2>1. /\ toHost' \in Seq(Request) /\ Len(toHost') = Len(toHost) + 1
        /\ \A j \in 1..Len(toHost) : toHost'[j] = toHost[j]
        /\ toHost'[Len(toHost) + 1] = NewRequest(b, k)
    BY <1>1, <1>2, AppendProperties
  <2>2. Len(toHost) \in Nat /\ DOMAIN toHost = 1..Len(toHost)
    BY <1>1, LenProperties
  <2>3. DOMAIN toHost' = 1..Len(toHost')
    BY <2>1, LenProperties
  <2> QED
    BY <2>1, <2>2, <2>3
<1>4. CASE i = Len(toHost) + 1
  <2>1. toHost'[i].client = b
    BY <1>3, <1>4 DEF NewRequest
  <2>2. b # c
    OBVIOUS
  <2> QED
    BY <2>1, <2>2
<1>5. CASE i # Len(toHost) + 1
  <2>1. i \in DOMAIN toHost /\ toHost'[i] = toHost[i]
    BY <1>3, <1>5
  <2> QED
    BY <2>1 DEF Known, Unknown
<1> QED
  BY <1>4, <1>5

-----------------------------------------------------------------------------
(* One lemma for each action. *)

LEMMA EmitHealing ==
  ASSUME IInv, IInv', Healing, NEW k \in EventKind, Emit(k) PROVE Healing'
<1>1. /\ UNCHANGED <<open, bound, epoch, handling, toHost, life, missed, recovering, faults>>
      /\ UNCHANGED <<current, retired, last>>
  BY DEF Emit, listening
<1>2. Sent /\ \A i \in DOMAIN toClient : i \in DOMAIN toClient' /\ toClient'[i] = toClient[i]
  <2>1. CASE bound = None
    <3>1. UNCHANGED <<toClient, sequence>>
      BY <2>1 DEF Emit, Publish
    <3> QED
      BY <1>1, <3>1, NothingSent
  <2>2. CASE bound # None
    <3> DEFINE m == EventOf(bound, epoch, sequence + 1, k)
               new == <<m>>
    <3>1. m \in Message /\ toClient' = toClient \o new /\ sequence' = sequence + 1
      BY <2>2, EmitSends
    <3>2. new \in Seq(Message) /\ DOMAIN new = {1} /\ new[1] = m
      BY <3>1
    <3> HIDE DEF new
    <3>3. Sent
      BY <1>1, <3>1, <3>2, PostSent
    <3> QED
      BY <3>1, <3>2, <3>3, AtBehind
  <2> QED
    BY <2>1, <2>2
<1>3. Known'
  BY <1>1, <1>2, SentKnown DEF Healing, Known, Unknown
<1>4. GapsHeal => GapsHeal'
  BY <1>1, <1>2, ComesStays DEF GapsHeal
<1> QED
  BY <1>1, <1>2, <1>3, <1>4, HealingSteps DEF Mended

LEMMA ReceiveHealing ==
  ASSUME IInv, IInv', Healing, Opens, Receive PROVE Healing'
<1> DEFINE b == Head(toHost).client
<1>1. /\ UNCHANGED <<life, missed, recovering, faults, current, retired, last>>
      /\ toHost # <<>> /\ toHost' = Tail(toHost)
  BY DEF Receive, listening
<1>2. Sent /\ handling' # {} /\ (bound' = bound \/ bound' = b)
  <2>1. CASE Rebinds(Head(toHost))
    <3>1. /\ b \in Client /\ Welcome \in Seq(EventKind)
          /\ toClient' = toClient \o Greeting(b, Welcome)
          /\ bound' = b /\ epoch' = epoch + 1 /\ sequence' = Len(Welcome) /\ handling' # {}
      BY <2>1, BindSends
    <3>2. PICK count \in Nat : count = Len(Welcome) /\ count >= 1
      BY WelcomeOpens DEF Receive
    <3> DEFINE new == Greeting(b, Welcome)
    <3> HIDE DEF b
    <3>3. new \in Seq(Message) /\ Numbered(new, b, epoch + 1, count)
      <4>1. /\ new \in Seq(Message) /\ DOMAIN new = 1..count
            /\ \A i \in 1..count : new[i] = EventOf(b, epoch + 1, i, Welcome[i])
        BY <3>1, <3>2, GreetingType
      <4> HIDE DEF new
      <4> QED
        BY <4>1 DEF Numbered, EventOf
    <3>4. toClient' = toClient \o new
      BY <3>1
    <3> HIDE DEF new
    <3> QED
      BY <1>1, <3>1, <3>2, <3>3, <3>4, GreetingSent
  <2>2. CASE ~Rebinds(Head(toHost))
    <3>1. UNCHANGED <<bound, epoch, sequence, toClient>> /\ handling' # {}
      BY <2>2 DEF Receive
    <3> QED
      BY <1>1, <3>1, NothingSent
  <2> QED
    BY <2>1, <2>2
<1>3. Known'
  <2>1. b = toHost[1].client /\ 1 \in DOMAIN toHost
    BY <1>1, HostTail
  <2>2. \A c \in Client : bound' = c => bound = c \/ life[c] # "unborn"
    BY <1>2, <2>1 DEF Healing, Known, Unknown
  <2>3. ASSUME NEW c \in Client, life[c] = "unborn", NEW i \in DOMAIN toHost'
        PROVE  toHost'[i].client # c
    BY <1>1, <2>3, HostTail DEF Healing, Known, Unknown
  <2> QED
    BY <1>1, <1>2, <2>2, <2>3, SentKnown DEF Healing
<1>4. GapsHeal'
  BY <1>2 DEF GapsHeal, StateComes
<1> QED
  BY <1>1, <1>2, <1>3, <1>4, HealingSteps

LEMMA DispatchHealing ==
  ASSUME IInv, IInv', Healing, NEW r \in handling, Dispatch(r) PROVE Healing'
<1>1. /\ UNCHANGED <<open, bound, epoch, toHost, life, missed, recovering, faults>>
      /\ UNCHANGED <<current, retired, last>>
  BY DEF Dispatch, listening
<1>2. PICK new \in Seq(Message) :
         /\ toClient' = toClient \o new /\ 1 \in DOMAIN new /\ new[1] = Served
         /\ \A j \in DOMAIN new : j # 1 => new[j].type # "event"
  <2>1. /\ Served \in Message /\ Answer(r, "ok") \in Message
        /\ \/ toClient' = toClient \o <<Served, Answer(r, "ok")>>
           \/ toClient' = toClient \o <<Served>>
    BY DispatchSends
  <2>2. Answer(r, "ok").type # "event"
    BY DEF Answer
  <2>3. CASE toClient' = toClient \o <<Served, Answer(r, "ok")>>
    <3> DEFINE s == <<Served, Answer(r, "ok")>>
    <3>1. s \in Seq(Message) /\ 1 \in DOMAIN s /\ s[1] = Served
          /\ \A j \in DOMAIN s : j # 1 => s[j].type # "event"
      BY <2>1, <2>2
    <3> QED
      BY <2>3, <3>1
  <2>4. CASE toClient' = toClient \o <<Served>>
    <3> DEFINE s == <<Served>>
    <3>1. s \in Seq(Message) /\ 1 \in DOMAIN s /\ s[1] = Served
          /\ \A j \in DOMAIN s : j # 1 => s[j].type # "event"
      BY <2>1
    <3> QED
      BY <2>4, <3>1
  <2> QED
    BY <2>1, <2>3, <2>4
<1>3. sequence' = sequence + 1 /\ Served = EventOf(bound, epoch, sequence + 1, "state")
  BY DEF Dispatch, Served
<1>4. Sent
  BY <1>1, <1>2, <1>3, PostSent DEF EventKind
<1>5. Known'
  BY <1>1, <1>4, SentKnown DEF Healing, Known, Unknown
<1>6. ASSUME Mended PROVE GapsHeal'
  <2> SUFFICES ASSUME NEW c \in Client, bound = c PROVE StateComes(c)'
    BY <1>1 DEF GapsHeal
  <2>1. /\ epoch \in Nat /\ sequence \in Nat /\ current[c] \in Nat /\ last[c] \in Nat
        /\ retired[c] \subseteq Nat
    BY DEF IInv, TypeOK
  <2>2. /\ Below(current[c], last[c], epoch, sequence + 1)
        /\ \A e \in retired[c] : e < current[c]
    BY <1>6 DEF Mended, InOrder, Sorted
  <2>3. epoch \notin retired[c] /\ sequence + 1 > Since(c, epoch)
    BY <2>1, <2>2 DEF Below, Since
  <2>4. PICK i \in DOMAIN toClient' : toClient'[i] = Served
    BY <1>2, AtBehind
  <2>5. /\ Served.type = "event" /\ Served.kind = "state" /\ Served.to = c
        /\ Served.epoch = epoch /\ Served.seq = sequence + 1
    BY <1>3 DEF EventOf
  <2>6. IsNews(c, toClient[i])'
    BY <1>1, <2>3, <2>4, <2>5 DEF IsNews, Since
  <2> QED
    BY <2>4, <2>5, <2>6 DEF StateComes
<1> QED
  BY <1>1, <1>4, <1>5, <1>6, HealingSteps

LEMMA FailureHealing ==
  ASSUME IInv, IInv', Healing, NEW r \in handling,
         NEW code \in {"refused", "bridge_dispatch_failed"}, DispatchFails(r, code)
  PROVE  Healing'
<1>1. /\ UNCHANGED <<bound, epoch, sequence, toHost, life, missed, recovering>>
      /\ UNCHANGED <<current, retired, last>> /\ faults' = faults + 1
  BY DEF DispatchFails, listening
<1>2. Sent
  <2>1. CASE UNCHANGED toClient
    BY <1>1, <2>1, NothingSent
  <2>2. CASE toClient' = toClient \o <<Answer(r, code)>>
    <3>1. Answer(r, code) \in Message /\ Answer(r, code).type # "event"
      BY FailureSends DEF Answer
    <3> QED
      BY <1>1, <2>2, <3>1, AnswerSent
  <2> QED
    BY <2>1, <2>2, FailureSends
<1>3. Known'
  BY <1>1, <1>2, SentKnown DEF Healing, Known, Unknown
<1>4. faults' # faults
  BY <1>1 DEF IInv, TypeOK
<1> QED
  BY <1>1, <1>2, <1>3, <1>4, HealingSteps

LEMMA DisposeHealing ==
  ASSUME IInv, IInv', Healing, Dispose PROVE Healing'
<1>1. /\ UNCHANGED <<toClient, epoch, sequence, current, retired, last>> /\ bound' = None
      /\ UNCHANGED <<toHost, life, missed, recovering, faults>> /\ open' = FALSE
  BY DEF Dispose, listening
<1>2. Sent
  BY <1>1, NothingSent
<1>3. Known'
  BY <1>1, <1>2, SentKnown, NoneIsNoClient DEF Healing, Known, Unknown
<1> QED
  BY <1>1, <1>2, <1>3, HealingSteps DEF GapsHeal

LEMMA AskedFor ==
  ASSUME IInv, NEW b \in Client, NEW k \in RequestKind, Ask(b, k)
  PROVE  toHost' # <<>>
<1>1. asked[b] \in Nat
  BY DEF IInv, TypeOK
<1>2. NewRequest(b, k) \in Request
  BY <1>1 DEF NewRequest, Request
<1>3. toHost \in Seq(Request)
  BY DEF IInv, TypeOK
<1>4. toHost' = Append(toHost, NewRequest(b, k))
  BY DEF Ask
<1> QED
  BY <1>2, <1>3, <1>4, AppendProperties

LEMMA LoadHealing ==
  ASSUME IInv, IInv', Healing, NEW b \in Client, Load(b) PROVE Healing'
<1>1. /\ UNCHANGED <<toClient, bound, epoch, sequence, current, retired, last>>
      /\ UNCHANGED <<missed, recovering, faults>>
      /\ life \in [Client -> {"unborn", "open", "closed"}] /\ life' = [life EXCEPT ![b] = "open"]
      /\ life[b] = "unborn" \/ life[b] = "open"
      /\ Ask(b, "boot") /\ "boot" \in RequestKind
  BY DEF Load, panel, listening, IInv, TypeOK, RequestKind
<1>2. Sent
  BY <1>1, NothingSent
<1>3. life'[b] = "open" /\ \A c \in Client \ {b} : life'[c] = life[c]
  BY <1>1
<1>4. \A c \in Client : life'[c] = "unborn" => \A i \in DOMAIN toHost' : toHost'[i].client # c
  BY <1>1, <1>3, AskKnown DEF Healing
<1>5. \A c \in Client : life[c] = "unborn" => \A i, e, n \in Nat : ~At(i, c, e, n)'
  BY <1>1 DEF Healing, Known, Unknown, At
<1>6. Known'
  BY <1>1, <1>3, <1>4, <1>5, KnownStep DEF Healing, Known
<1>7. toHost' # <<>>
  BY <1>1, AskedFor
<1>8. GapsHeal'
  BY <1>7 DEF GapsHeal, StateComes
<1>9. \A c \in Client : life'[c] = "open" => life[c] = "open" \/ Unknown(c)
  BY <1>1, <1>3 DEF Healing, Known
<1> QED
  BY <1>1, <1>2, <1>6, <1>8, <1>9, HealingSteps

LEMMA TransportFailsHealing ==
  ASSUME IInv, IInv', Healing, NEW b \in Client, TransportFails(b) PROVE Healing'
<1>1. /\ UNCHANGED <<toClient, bound, epoch, sequence, current, retired, last>>
      /\ UNCHANGED <<toHost, missed, recovering>> /\ faults' = faults + 1 /\ faults \in Nat
      /\ life \in [Client -> {"unborn", "open", "closed"}] /\ life' = [life EXCEPT ![b] = "open"]
      /\ life[b] = "unborn" \/ life[b] = "open"
  BY DEF TransportFails, panel, listening, IInv, TypeOK
<1>2. Sent
  BY <1>1, NothingSent
<1>3. life'[b] = "open" /\ \A c \in Client \ {b} : life'[c] = life[c]
  BY <1>1
<1>4. \A c \in Client : life'[c] = "unborn" => \A i \in DOMAIN toHost' : toHost'[i].client # c
  BY <1>1, <1>3 DEF Healing, Known, Unknown
<1>5. \A c \in Client : life[c] = "unborn" => \A i, e, n \in Nat : ~At(i, c, e, n)'
  BY <1>1 DEF Healing, Known, Unknown, At
<1>6. Known'
  BY <1>1, <1>3, <1>4, <1>5, KnownStep DEF Healing, Known
<1>7. \A c \in Client : life'[c] = "open" => life[c] = "open" \/ Unknown(c)
  BY <1>1, <1>3 DEF Healing, Known
<1>8. faults' # faults
  BY <1>1
<1> QED
  BY <1>1, <1>2, <1>6, <1>7, <1>8, HealingSteps

LEMMA TimeoutHealing ==
  ASSUME IInv, IInv', Healing, NEW b \in Client, Timeout(b) PROVE Healing'
<1>1. /\ UNCHANGED <<toClient, bound, epoch, sequence, current, retired, last>>
      /\ UNCHANGED <<open, handling, toHost, missed, life, faults>>
      /\ \A c \in Client : recovering'[c] => recovering[c]
  BY DEF Timeout, Settle, panel, listening, IInv, TypeOK
<1>2. Sent
  BY <1>1, NothingSent
<1>3. Known'
  BY <1>1, <1>2, SentKnown DEF Healing, Known, Unknown
<1>4. GapsHeal => GapsHeal'
  BY <1>1, ComesStays DEF GapsHeal
<1> QED
  BY <1>1, <1>2, <1>3, <1>4, HealingSteps DEF Mended

LEMMA IdleHealing ==
  ASSUME IInv, IInv', Healing, UNCHANGED vars PROVE Healing'
<1>1. /\ UNCHANGED <<toClient, bound, epoch, sequence, current, retired, last>>
      /\ UNCHANGED <<open, handling, toHost, missed, recovering, life, faults>>
  BY DEF vars, panel, listening
<1>2. Sent
  BY <1>1, NothingSent
<1>3. Known'
  BY <1>1, <1>2, SentKnown DEF Healing, Known, Unknown
<1>4. GapsHeal => GapsHeal'
  BY <1>1, ComesStays DEF GapsHeal
<1> QED
  BY <1>1, <1>2, <1>3, <1>4, HealingSteps DEF Mended

\* A page that is left starts from nothing, and is not listened to again.
LEMMA CloseHealing ==
  ASSUME IInv, IInv', Healing, NEW b \in Client, Close(b) PROVE Healing'
<1>1. /\ UNCHANGED <<toClient, bound, epoch, sequence, open, handling, toHost, faults>>
      /\ \A c \in Client \ {b} :
            /\ life'[c] = life[c] /\ current'[c] = current[c] /\ retired'[c] = retired[c]
            /\ last'[c] = last[c] /\ missed'[c] = missed[c] /\ recovering'[c] = recovering[c]
      /\ life'[b] = "closed" /\ current'[b] = 0 /\ retired'[b] = {} /\ last'[b] = 0
      /\ missed'[b] = FALSE /\ recovering'[b] = FALSE /\ life[b] = "open"
  BY DEF Close, panel, IInv, TypeOK
<1>2. \A i, c, e, n : At(i, c, e, n)' <=> At(i, c, e, n)
  BY <1>1 DEF At
<1>3. Known'
  BY <1>1, <1>2, KnownStep DEF Healing, Known, Unknown
<1>4. ASSUME NEW c \in Client \ {b}, NEW holes, Whole(c, holes) PROVE Whole(c, holes)'
  <2>1. \A e, n : Passed(c, e, n)' <=> Passed(c, e, n)
    BY <1>1 DEF Passed
  <2>2. \A e, n, i : Linked(c, e, n, i, holes)' <=> Linked(c, e, n, i, holes)
    BY <1>2, <2>1 DEF Linked
  <2> QED
    BY <1>1, <1>2, <1>4, <2>2 DEF Whole
<1>5. ASSUME NEW holes, Streams(holes) PROVE Streams(holes)'
  BY <1>1, <1>4, <1>5 DEF Streams
<1>6. ASSUME InOrder PROVE InOrder'
  <2>1. ASSUME NEW c \in Client \ {b} PROVE Sorted(c)'
    BY <1>1, <1>2, <1>6 DEF InOrder, Sorted
  <2>2. Sorted(b)'
    <3>1. ASSUME NEW i \in Nat, NEW e \in Nat, NEW n \in Nat, At(i, b, e, n)
          PROVE  Below(0, 0, e, n)
      <4>1. e \in Nat /\ e # 0
        BY <3>1, AtTyped
      <4> QED
        BY <4>1 DEF Below
    <3>2. epoch \in Nat /\ sequence \in Nat
      BY DEF IInv, TypeOK
    <3>3. Below(0, 0, epoch, sequence + 1)
      BY <3>2 DEF Below
    <3>4. Sorted(b)
      BY <1>6 DEF InOrder
    <3>5. \A i, j, e, n, f, m \in Nat : At(i, b, e, n)' /\ At(j, b, f, m)' /\ i < j => Below(e, n, f, m)
      BY <1>2, <3>4 DEF Sorted
    <3>6. ASSUME NEW i \in Nat, NEW e \in Nat, NEW n \in Nat, At(i, b, e, n)'
          PROVE  Below(0, 0, e, n) /\ Below(e, n, epoch, sequence + 1)
      <4>1. At(i, b, e, n)
        BY <1>2, <3>6
      <4> QED
        BY <3>1, <3>4, <4>1 DEF Sorted
    <3> QED
      BY <1>1, <3>3, <3>5, <3>6 DEF Sorted
  <2> QED
    BY <2>1, <2>2 DEF InOrder
<1>7. Quiet => Quiet'
  BY <1>1 DEF Quiet
<1>8. ASSUME GapsHeal PROVE GapsHeal'
  <2> SUFFICES ASSUME NEW c \in Client \ {b}, missed[c], open, bound = c PROVE StateComes(c)'
    BY <1>1 DEF GapsHeal
  <2>1. StateComes(c)
    BY <1>8 DEF GapsHeal
  <2>2. \A m : IsNews(c, m)' <=> IsNews(c, m)
    BY <1>1 DEF IsNews, Since
  <2> QED
    BY <1>1, <2>1, <2>2 DEF StateComes
<1> QED
  BY <1>1, <1>3, <1>5, <1>6, <1>7, <1>8 DEF Healing, Unbroken, Torn, Mended

\* The next event is lost: the one hole.
LEMMA LoseHealing ==
  ASSUME IInv, IInv', Healing, Lose PROVE Healing'
<1>1. /\ UNCHANGED <<bound, epoch, sequence, current, retired, last>>
      /\ UNCHANGED <<missed, recovering, life>> /\ faults' = faults + 1 /\ faults \in Nat
  BY DEF Lose, panel, listening, IInv, TypeOK
<1>2. CASE toHost # <<>> /\ toHost' = Tail(toHost) /\ UNCHANGED toClient
  <2>1. Sent
    BY <1>1, <1>2, NothingSent
  <2>2. ASSUME NEW c \in Client, life[c] = "unborn", NEW i \in DOMAIN toHost'
        PROVE  toHost'[i].client # c
    BY <1>2, <2>2, HostTail DEF Healing, Known, Unknown
  <2>3. Known'
    BY <1>1, <2>1, <2>2, SentKnown DEF Healing
  <2>4. faults' # faults
    BY <1>1
  <2> QED
    BY <1>1, <2>1, <2>3, <2>4, HealingSteps
<1>3. CASE toClient # <<>> /\ toClient' = Tail(toClient) /\ UNCHANGED toHost
  <2>1. ASSUME NEW c \in Client, life[c] = "unborn", NEW i \in Nat, NEW e \in Nat, NEW n \in Nat,
               At(i, c, e, n)'
        PROVE  FALSE
    <3>1. At(i + 1, c, e, n) /\ i + 1 \in Nat
      BY <1>3, <2>1, AtTail
    <3> QED
      BY <2>1, <3>1 DEF Healing, Known, Unknown
  <2>2. Known'
    BY <1>1, <1>3, <2>1, KnownStep DEF Healing, Known, Unknown
  <2>3. ASSUME faults = 0 PROVE Torn'
    <3>1. InOrder /\ Quiet /\ Streams({})
      BY <2>3 DEF Healing, Unbroken
    <3>2. InOrder'
      BY <1>1, <1>3, <3>1, TakenSorted DEF InOrder
    <3>3. PICK hole : \A c \in Client, e, n \in Nat : At(1, c, e, n) => <<c, e, n>> = hole
      <4>1. \A c, e, n : At(1, c, e, n) =>
               c = toClient[1].to /\ e = toClient[1].epoch /\ n = toClient[1].seq
        BY DEF At
      <4>2. PICK hole : hole = <<toClient[1].to, toClient[1].epoch, toClient[1].seq>>
        OBVIOUS
      <4> QED
        BY <4>1, <4>2
    <3>4. ASSUME NEW c \in Client, life[c] = "open" PROVE Whole(c, {hole})'
      <4>1. Whole(c, {})
        BY <3>1, <3>4 DEF Streams
      <4>2. \A e, n \in Nat : At(1, c, e, n) \/ <<c, e, n>> \in {} => <<c, e, n>> \in {hole}
        BY <3>3
      <4>3. \A e, n : Passed(c, e, n) => Passed(c, e, n)'
        BY <1>1 DEF Passed
      <4>4. Taken(c, {}, {hole})
        BY <4>2, <4>3 DEF Taken
      <4> QED
        BY <1>1, <1>3, <4>1, <4>4, TakenWhole
    <3>5. Streams({hole})'
      BY <1>1, <3>4 DEF Streams
    <3>6. Quiet'
      BY <1>1, <3>1 DEF Quiet
    <3> QED
      BY <3>2, <3>5, <3>6 DEF Torn
  <2> QED
    BY <1>1, <2>2, <2>3 DEF Healing
<1> QED
  BY <1>2, <1>3 DEF Lose

\* The next event will come a second time, behind itself.
LEMMA RepeatHealing ==
  ASSUME IInv, IInv', Healing, Repeat PROVE Healing'
<1>1. /\ UNCHANGED <<bound, epoch, sequence, current, retired, last>>
      /\ UNCHANGED <<toHost, missed, recovering, life>> /\ faults' = faults + 1 /\ faults \in Nat
  BY DEF Repeat, panel, listening, IInv, TypeOK
<1>2. PICK m \in Message : toClient' = toClient \o <<m>> /\ m = toClient[1] /\ 1 \in DOMAIN toClient
  <2>1. toClient \in Seq(Message) /\ toClient # <<>>
    BY DEF IInv, TypeOK, Repeat, Message
  <2>2. 1 \in DOMAIN toClient /\ toClient[1] = Head(toClient)
    BY <2>1, TailOf
  <2>3. Head(toClient) \in Message
    BY <2>1, HeadTailProperties
  <2> QED
    BY <2>1, <2>2, <2>3, AppendIsConcat DEF Repeat
<1>3. PICK new \in Seq(Message) : toClient' = toClient \o new /\ \A k \in DOMAIN new : new[k] = m
  <2>1. <<m>> \in Seq(Message) /\ \A k \in DOMAIN <<m>> : <<m>>[k] = m
    OBVIOUS
  <2> QED
    BY <1>2, <2>1
<1>4. /\ \A i, c, e, n : At(i, c, e, n) => At(i, c, e, n)'
      /\ Len(toClient) \in Nat /\ Len(toClient') \in Nat /\ Len(toClient) <= Len(toClient')
  BY <1>3, AtBehind
<1>5. ASSUME NEW i, NEW c, NEW e, NEW n, At(i, c, e, n)', ~At(i, c, e, n)
      PROVE  i \in Nat /\ i > Len(toClient) /\ At(1, c, e, n)
  <2>1. PICK k \in DOMAIN new : /\ i \in Nat /\ i > Len(toClient) /\ k = i - Len(toClient)
                                /\ new[k].type = "event" /\ new[k].to = c
                                /\ new[k].epoch = e /\ new[k].seq = n
    BY <1>3, <1>5, NewPlace, SMTT(30)
  <2> QED
    BY <1>2, <1>3, <2>1 DEF At
<1>6. ASSUME NEW c \in Client, life[c] = "unborn", NEW i \in Nat, NEW e \in Nat, NEW n \in Nat,
             At(i, c, e, n)'
      PROVE  FALSE
  BY <1>5, <1>6 DEF Healing, Known, Unknown
<1>7. Known'
  BY <1>1, <1>6, KnownStep DEF Healing, Known, Unknown
<1>8. ASSUME NEW c \in Client, Whole(c, {}) PROVE Whole(c, {})'
  <2>1. ASSUME NEW e, NEW n, NEW i \in Nat, NEW k \in Nat, i <= k, Linked(c, e, n, i, {})
        PROVE  Linked(c, e, n, k, {})'
    <3>1. Passed(c, e, n) => Passed(c, e, n)'
      BY <1>1 DEF Passed
    <3>2. ASSUME NEW j \in Nat, j < i, At(j, c, e, n) PROVE j < k /\ At(j, c, e, n)'
      BY <1>4, <2>1, <3>2
    <3> QED
      BY <2>1, <3>1, <3>2 DEF Linked
  <2>2. ASSUME NEW i \in Nat, NEW e \in Nat, NEW n \in Nat, At(i, c, e, n + 1)'
        PROVE  Linked(c, e, n, i, {})'
    <3>1. CASE At(i, c, e, n + 1)
      BY <1>8, <2>1, <3>1 DEF Whole
    <3>2. CASE ~At(i, c, e, n + 1)
      <4>1. At(1, c, e, n + 1) /\ i > Len(toClient)
        BY <1>5, <2>2, <3>2
      <4>2. Linked(c, e, n, 1, {})
        BY <1>8, <4>1 DEF Whole
      <4>3. 1 <= i
        BY <1>4, <4>1
      <4> QED
        BY <2>1, <4>2, <4>3
    <3> QED
      BY <3>1, <3>2
  <2>3. ASSUME NEW i \in Nat, NEW e \in Nat, NEW n \in Nat,
               bound' = c, epoch' = e, sequence' = n, i > Len(toClient')
        PROVE  Linked(c, e, n, i, {})'
    <3>1. i > Len(toClient) /\ i <= i
      BY <1>4, <2>3
    <3>2. Linked(c, e, n, i, {})
      BY <1>1, <1>8, <2>3, <3>1 DEF Whole
    <3> QED
      BY <2>1, <3>1, <3>2
  <2> QED
    BY <2>2, <2>3 DEF Whole
<1>9. ASSUME faults = 0 PROVE Unbroken'
  BY <1>1, <1>8, <1>9 DEF Healing, Unbroken, Quiet, Streams
<1> QED
  BY <1>1, <1>7, <1>9 DEF Healing

-----------------------------------------------------------------------------
(* A client hears. *)

LEMMA TakenFrom ==
  ASSUME IInv, toClient # <<>>, toClient' = Tail(toClient), NEW i \in DOMAIN toClient, i # 1
  PROVE  \E k \in DOMAIN toClient' : k \in Nat /\ toClient'[k] = toClient[i]
<1>1. toClient \in Seq(Message)
  BY DEF IInv, TypeOK, Message
<1>2. i - 1 \in DOMAIN toClient' /\ toClient'[i - 1] = toClient[i]
  BY <1>1, TailOf
<1>3. \A k \in DOMAIN toClient' : k \in Nat
  BY <1>1, TailOf
<1> QED
  BY <1>2, <1>3

\* A message that is no news, or is for a page that has been left.
LEMMA NoNewsHealing ==
  ASSUME IInv, IInv', Healing, toClient # <<>>, toClient' = Tail(toClient),
         UNCHANGED <<open, bound, epoch, sequence, handling, life, faults>>,
         UNCHANGED <<toHost, current, retired, last, missed>>,
         \A c \in Client : recovering'[c] => recovering[c],
         \A c \in Client : life[c] = "open" =>
             \A e, n \in Nat : At(1, c, e, n) => Passed(c, e, n)
  PROVE  Healing'
<1>1. \A c, e, n : Passed(c, e, n)' <=> Passed(c, e, n)
  BY DEF Passed
<1>2. ASSUME NEW c \in Client, life[c] = "unborn", NEW i \in Nat, NEW e \in Nat, NEW n \in Nat,
             At(i, c, e, n)'
      PROVE  FALSE
  <2>1. At(i + 1, c, e, n) /\ i + 1 \in Nat
    BY <1>2, AtTail
  <2> QED
    BY <1>2, <2>1 DEF Healing, Known, Unknown
<1>3. Known'
  BY <1>2, KnownStep DEF Healing, Known, Unknown
<1>4. ASSUME NEW holes, Streams(holes) PROVE Streams(holes)'
  <2>1. ASSUME NEW c \in Client, life[c] = "open" PROVE Whole(c, holes)'
    <3>1. Taken(c, holes, holes)
      BY <1>1, <2>1 DEF Taken
    <3>2. Whole(c, holes)
      BY <1>4, <2>1 DEF Streams
    <3> QED
      BY <3>1, <3>2, TakenWhole
  <2> QED
    BY <2>1 DEF Streams
<1>5. InOrder => InOrder'
  BY TakenSorted DEF InOrder
<1>6. Quiet => Quiet'
  BY DEF Quiet
<1>7. ASSUME GapsHeal PROVE GapsHeal'
  <2> SUFFICES ASSUME NEW c \in Client, missed[c], open, bound = c PROVE StateComes(c)'
    BY DEF GapsHeal
  <2>1. CASE toHost # <<>> \/ handling # {}
    BY <2>1 DEF StateComes
  <2>2. ASSUME NEW i \in DOMAIN toClient, toClient[i].type = "event", toClient[i].kind = "state",
               toClient[i].to = c, IsNews(c, toClient[i])
        PROVE  StateComes(c)'
    <3>1. PICK m : m = toClient[i]
      OBVIOUS
    <3>2. i # 1
      <4> SUFFICES ASSUME i = 1 PROVE FALSE
        OBVIOUS
      <4>1. At(1, c, m.epoch, m.seq)
        BY <2>2, <3>1 DEF At
      <4>2. m.epoch \in Nat /\ m.seq \in Nat
        BY <4>1, AtTyped
      <4>3. Passed(c, m.epoch, m.seq)
        BY <4>1, <4>2 DEF Healing, Known
      <4>4. last[c] \in Nat
        BY DEF IInv, TypeOK
      <4> QED
        BY <2>2, <3>1, <4>2, <4>3, <4>4 DEF Passed, IsNews, Since
    <3>3. PICK k \in DOMAIN toClient' : toClient'[k] = m
      BY <3>1, <3>2, TakenFrom
    <3>4. IsNews(c, m)'
      BY <2>2, <3>1 DEF IsNews, Since
    <3> QED
      BY <2>2, <3>1, <3>3, <3>4 DEF StateComes
  <2>3. StateComes(c)
    BY <1>7 DEF GapsHeal
  <2> QED
    BY <2>1, <2>2, <2>3 DEF StateComes
<1> QED
  BY <1>3, <1>4, <1>5, <1>6, <1>7 DEF Healing, Unbroken, Torn, Mended

\* What is news when it is taken off the wire stays news to the client until then.
LEMMA AheadIsNews ==
  ASSUME IInv', NEW c \in Client, Sorted(c)', NEW i \in Nat, NEW e \in Nat, NEW n \in Nat,
         n # 0, At(i, c, e, n)'
  PROVE  e \notin retired'[c] /\ n > Since(c, e)'
<1>1. /\ current'[c] \in Nat /\ last'[c] \in Nat
      /\ Below(current[c], last[c], e, n)'
      /\ \A f \in retired'[c] : f < current'[c]
  BY DEF IInv, TypeOK, Sorted
<1>2. current'[c] <= e /\ (e = current'[c] => last'[c] < n)
  BY <1>1 DEF Below
<1>3. e \notin retired'[c]
  BY <1>1, <1>2
<1> QED
  BY <1>1, <1>2, <1>3 DEF Since

LEMMA NewsHealing ==
  ASSUME IInv, IInv', Healing, toClient # <<>>, toClient' = Tail(toClient),
         UNCHANGED <<open, bound, epoch, sequence, handling, life, faults>>,
         NEW b \in Client, life[b] = "open", NEW m \in Event, m = toClient[1], 1 \in DOMAIN toClient,
         m.to = b, IsNews(b, m), HearEvent(b, m)
  PROVE  Healing'
<1>1. PICK e \in Nat, n \in Nat : e = m.epoch /\ n = m.seq /\ e # 0 /\ n # 0
  BY DEF Event
<1>2. /\ current'[b] = e /\ last'[b] = n
      /\ retired'[b] = retired[b] \cup ({current[b]} \ {0, e})
      /\ missed'[b] = (m.kind # "state" /\ (missed[b] \/ n # Since(b, e) + 1))
  BY <1>1 DEF HearEvent, IInv, TypeOK
<1>3. \A c \in Client \ {b} :
         /\ current'[c] = current[c] /\ last'[c] = last[c] /\ retired'[c] = retired[c]
         /\ missed'[c] = missed[c] /\ recovering'[c] = recovering[c]
  <2>1. /\ current' = [current EXCEPT ![b] = m.epoch]
        /\ retired' = [retired EXCEPT ![b] = @ \cup ({current[b]} \ {0, m.epoch})]
        /\ last' = [last EXCEPT ![b] = m.seq]
        /\ missed' = [missed EXCEPT ![b] = m.kind # "state" /\
                                           (@ \/ m.seq # Since(b, m.epoch) + 1)]
    BY DEF HearEvent
  <2>2. \E v : recovering' = [recovering EXCEPT ![b] = v]
    BY DEF HearEvent
  <2>3. /\ current \in [Client -> Nat] /\ retired \in [Client -> SUBSET Nat]
        /\ last \in [Client -> Nat] /\ missed \in [Client -> BOOLEAN]
        /\ recovering \in [Client -> BOOLEAN]
    BY DEF IInv, TypeOK
  <2> QED
    BY <2>1, <2>2, <2>3
<1>4. n > Since(b, e) /\ e \notin retired[b] /\ Since(b, e) \in Nat
  BY <1>1 DEF IsNews, Since, IInv, TypeOK
<1>5. \/ Ask(b, "recover") /\ toHost' # <<>>
      \/ toHost' = toHost /\ recovering'[b] = StillRecovering(b, m)
         /\ (~HasGap(b, m) \/ StillRecovering(b, m))
  <2>1. CASE HasGap(b, m) /\ ~StillRecovering(b, m)
    <3>1. Ask(b, "recover") /\ "recover" \in RequestKind
      BY <2>1 DEF HearEvent, RequestKind
    <3> QED
      BY <3>1, AskedFor
  <2>2. CASE ~(HasGap(b, m) /\ ~StillRecovering(b, m))
    BY <2>2 DEF HearEvent, IInv, TypeOK
  <2> QED
    BY <2>1, <2>2
<1>6. \A c, f, k : At(1, c, f, k) <=> c = b /\ f = e /\ k = n
  BY <1>1 DEF At, Event
<1>7. /\ \A f \in Nat \ {0}, k \in Nat : Passed(b, f, k) => Passed(b, f, k)'
      /\ \A k \in Nat : k <= n => Passed(b, e, k)'
  BY <1>2, <1>4, PassedGrows
<1>8. ASSUME NEW holes, NEW left, Streams(holes),
             \A x \in holes : x \in left \/ \E k \in Nat : k <= n /\ x = <<b, e, k>>
      PROVE  Streams(left)'
  <2>1. ASSUME NEW c \in Client \ {b}, life[c] = "open" PROVE Whole(c, left)'
    <3>1. \A f, k : Passed(c, f, k) => Passed(c, f, k)'
      BY <1>3 DEF Passed
    <3>2. ASSUME NEW f, NEW k, At(1, c, f, k) \/ <<c, f, k>> \in holes PROVE <<c, f, k>> \in left
      BY <1>6, <1>8, <3>2
    <3>3. Taken(c, holes, left)
      BY <3>1, <3>2 DEF Taken
    <3>4. Whole(c, holes)
      BY <1>8, <2>1 DEF Streams
    <3> QED
      BY <3>3, <3>4, TakenWhole
  <2>2. Whole(b, left)'
    <3>1. ASSUME NEW f \in Nat, NEW k \in Nat, At(1, b, f, k) \/ <<b, f, k>> \in holes
          PROVE  Passed(b, f, k)' \/ <<b, f, k>> \in left
      <4>1. CASE At(1, b, f, k)
        <5>1. f = e /\ k = n /\ n <= n
          BY <1>6, <4>1
        <5> QED
          BY <1>7, <5>1
      <4>2. CASE <<b, f, k>> \in holes /\ <<b, f, k>> \notin left
        <5>1. PICK l \in Nat : l <= n /\ <<b, f, k>> = <<b, e, l>>
          BY <1>8, <4>2
        <5>2. f = e /\ k = l
          BY <5>1
        <5> QED
          BY <1>7, <5>1, <5>2
      <4> QED
        BY <3>1, <4>1, <4>2
    <3>2. Whole(b, holes)
      BY <1>8 DEF Streams
    <3>3. \A f \in Nat \ {0}, k \in Nat : Passed(b, f, k) => Passed(b, f, k)'
      BY <1>7
    <3>4. Taken(b, holes, left)
      BY <3>1, <3>3 DEF Taken
    <3> QED
      BY <3>2, <3>4, TakenWhole
  <2> QED
    BY <2>1, <2>2 DEF Streams
<1>9. ASSUME InOrder PROVE InOrder'
  <2>1. ASSUME NEW c \in Client \ {b} PROVE Sorted(c)'
    BY <1>3, <1>9, TakenSorted DEF InOrder
  <2>2. Sorted(b)'
    <3>1. At(1, b, e, n) /\ Sorted(b)
      BY <1>6, <1>9 DEF InOrder
    <3>2. retired'[b] \subseteq retired[b] \cup ({current[b]} \ {e})
      BY <1>2
    <3> QED
      BY <1>2, <3>1, <3>2, TakenSorted
  <2> QED
    BY <2>1, <2>2 DEF InOrder
<1>10. Known'
  <2>1. ASSUME NEW c \in Client, life[c] = "unborn", NEW i \in Nat, NEW f \in Nat, NEW k \in Nat,
               At(i, c, f, k)'
        PROVE  FALSE
    <3>1. At(i + 1, c, f, k) /\ i + 1 \in Nat
      BY <2>1, AtTail
    <3> QED
      BY <2>1, <3>1 DEF Healing, Known, Unknown
  <2>2. ASSUME NEW c \in Client, life[c] = "unborn", NEW i \in DOMAIN toHost'
        PROVE  toHost'[i].client # c
    <3>1. CASE Ask(b, "recover")
      BY <2>2, <3>1, AskKnown DEF Healing, RequestKind
    <3>2. CASE toHost' = toHost
      BY <2>2, <3>2 DEF Healing, Known, Unknown
    <3> QED
      BY <1>5, <3>1, <3>2
  <2>3. \A c \in Client : missed'[c] => life'[c] = "open"
    BY <1>3 DEF Healing, Known
  <2> QED
    BY <2>1, <2>2, <2>3, KnownStep DEF Healing
<1>11. ASSUME NEW holes, Streams(holes), <<b, e, n - 1>> \notin holes
       PROVE  /\ n = Since(b, e) + 1 /\ toHost' = toHost
              /\ recovering'[b] = StillRecovering(b, m) /\ (missed'[b] => missed[b])
  <2>1. Whole(b, holes) /\ At(1, b, e, n)
    BY <1>6, <1>11 DEF Streams
  <2>2. n = Since(b, e) + 1
    BY <1>4, <1>11, <2>1, NoGap
  <2>3. ~HasGap(b, m)
    BY <1>1, <1>4, <2>2 DEF HasGap
  <2>4. toHost' = toHost /\ recovering'[b] = StillRecovering(b, m)
    BY <2>3, <1>5 DEF HearEvent, IInv, TypeOK
  <2> QED
    BY <1>2, <2>2, <2>4
<1>12. ASSUME NEW holes, Quiet, Streams(holes), <<b, e, n - 1>> \notin holes PROVE Quiet'
  BY <1>3, <1>11, <1>12 DEF Quiet, StillRecovering
<1>13. Unbroken => Unbroken'
  BY <1>8, <1>12 DEF Unbroken
<1>14. ASSUME Torn PROVE Torn' \/ Mended'
  <2>1. PICK hole : InOrder /\ Quiet /\ Streams({hole})
    BY <1>14 DEF Torn
  <2>2. CASE hole # <<b, e, n - 1>>
    <3>1. Quiet' /\ Streams({hole})'
      BY <1>8, <1>12, <2>1, <2>2
    <3> QED
      BY <1>9, <2>1, <3>1 DEF Torn
  <2>3. CASE hole = <<b, e, n - 1>>
    <3>1. n - 1 \in Nat /\ n - 1 <= n
      BY <1>1
    <3>2. Streams({})'
      BY <1>8, <2>1, <2>3, <3>1
    <3>3. ASSUME missed'[b] PROVE toHost' # <<>>
      <4>1. ~missed[b] /\ ~StillRecovering(b, m)
        BY <2>1 DEF Quiet, StillRecovering
      <4>2. n # Since(b, e) + 1
        BY <1>2, <3>3, <4>1
      <4>3. HasGap(b, m)
        BY <1>1, <1>4, <4>2 DEF HasGap
      <4> QED
        BY <1>5, <4>1, <4>3
    <3>4. GapsHeal'
      BY <1>3, <2>1, <3>3 DEF GapsHeal, StateComes, Quiet
    <3> QED
      BY <1>9, <2>1, <3>2, <3>4 DEF Mended
  <2> QED
    BY <2>2, <2>3
<1>15. ASSUME Mended PROVE Mended'
  <2>1. InOrder /\ Streams({}) /\ GapsHeal /\ <<b, e, n - 1>> \notin {}
    BY <1>15 DEF Mended
  <2>2. InOrder' /\ Streams({})'
    BY <1>8, <1>9, <2>1
  <2>3. toHost' = toHost /\ (missed'[b] => missed[b])
    BY <1>11, <2>1
  <2>4. ASSUME NEW c \in Client, missed'[c], open, bound = c PROVE StateComes(c)'
    <3>1. StateComes(c)
      BY <1>3, <2>1, <2>3, <2>4 DEF GapsHeal
    <3>2. CASE toHost # <<>> \/ handling # {}
      BY <2>3, <3>2 DEF StateComes
    <3>3. ASSUME NEW i \in DOMAIN toClient, toClient[i].type = "event",
                 toClient[i].kind = "state", toClient[i].to = c
          PROVE  StateComes(c)'
      <4>1. i # 1
        BY <1>2, <2>4, <3>3
      <4>2. PICK k \in DOMAIN toClient' : k \in Nat /\ toClient'[k] = toClient[i]
        BY <4>1, TakenFrom
      <4>3. PICK l : l = toClient[i]
        OBVIOUS
      <4>4. At(k, c, l.epoch, l.seq)'
        BY <3>3, <4>2, <4>3 DEF At
      <4>5. At(i, c, l.epoch, l.seq)
        BY <3>3, <4>3 DEF At
      <4>6. l.epoch \in Nat /\ l.seq \in Nat /\ l.seq # 0
        BY <4>5, AtTyped
      <4>7. IsNews(c, l)'
        <5>1. Sorted(c)'
          BY <2>2 DEF InOrder
        <5>2. l.epoch \notin retired'[c] /\ l.seq > Since(c, l.epoch)'
          BY <4>2, <4>4, <4>6, <5>1, AheadIsNews
        <5> QED
          BY <5>2 DEF IsNews
      <4> QED
        BY <3>3, <4>2, <4>3, <4>7 DEF StateComes
    <3> QED
      BY <3>1, <3>2, <3>3 DEF StateComes
  <2>5. GapsHeal'
    BY <2>4 DEF GapsHeal
  <2> QED
    BY <2>2, <2>5 DEF Mended
<1>16. faults = 0 => InOrder' /\ Unbroken'
  BY <1>9, <1>13 DEF Healing
<1>17. faults = 1 => Unbroken' \/ Torn' \/ Mended'
  BY <1>13, <1>14, <1>15 DEF Healing
<1> QED
  BY <1>10, <1>16, <1>17 DEF Healing

LEMMA HearHealing ==
  ASSUME IInv, IInv', Healing, Hear PROVE Healing'
<1>1. /\ toClient # <<>> /\ toClient' = Tail(toClient) /\ toClient \in Seq(Message)
      /\ UNCHANGED <<open, bound, epoch, sequence, handling, life, faults>>
  BY DEF Hear, panel, IInv, TypeOK, Message
<1>2. PICK m \in Message : m = Head(toClient) /\ m = toClient[1] /\ 1 \in DOMAIN toClient
  BY <1>1, TailOf, HeadTailProperties
<1>3. PICK b \in Client : b = m.to
  BY DEF Message, Event, Response
<1>4. \A c, e, n : At(1, c, e, n) => c = b /\ m.type = "event" /\ e = m.epoch /\ n = m.seq
  BY <1>2, <1>3 DEF At
<1>5. CASE life[b] # "open"
  <2>1. UNCHANGED <<toHost, recovering, current, retired, last, missed>>
    BY <1>2, <1>3, <1>5 DEF Hear, listening
  <2> QED
    BY <1>1, <1>4, <1>5, <2>1, NoNewsHealing
<1>6. CASE life[b] = "open" /\ m.type # "event"
  <2>1. HearResponse(b, m)
    BY <1>2, <1>3, <1>6 DEF Hear
  <2>2. UNCHANGED <<toHost, current, retired, last, missed>>
    BY <2>1 DEF HearResponse, listening
  <2>3. recovering' = recovering \/ recovering' = [recovering EXCEPT ![b] = FALSE]
    BY <2>1 DEF HearResponse, Settle
  <2>4. \A c \in Client : recovering'[c] => recovering[c]
    BY <2>3 DEF IInv, TypeOK
  <2>5. \A c \in Client : life[c] = "open" =>
             \A e, n \in Nat : At(1, c, e, n) => Passed(c, e, n)
    BY <1>4, <1>6
  <2> QED
    BY <1>1, <2>2, <2>4, <2>5, NoNewsHealing
<1>7. CASE life[b] = "open" /\ m.type = "event"
  <2>1. HearEvent(b, m) /\ m \in Event
    BY <1>2, <1>3, <1>7 DEF Hear, Message, Response
  <2>2. CASE IsNews(b, m)
    BY <1>1, <1>2, <1>3, <1>7, <2>1, <2>2, NewsHealing
  <2>3. CASE ~IsNews(b, m)
    <3>1. UNCHANGED <<toHost, recovering, current, retired, last, missed>>
      BY <2>1, <2>3 DEF HearEvent, listening
    <3>2. Passed(b, m.epoch, m.seq)
      <4>1. m.seq \in Nat \ {0} /\ last[b] \in Nat
        BY <2>1 DEF Event, IInv, TypeOK
      <4> QED
        BY <2>3, <4>1 DEF IsNews, Since, Passed
    <3> QED
      BY <1>1, <1>4, <3>1, <3>2, NoNewsHealing
  <2> QED
    BY <2>2, <2>3
<1> QED
  BY <1>5, <1>6, <1>7

LEMMA HealingStarts == Init => Healing
<1> SUFFICES ASSUME Init PROVE Healing
  OBVIOUS
<1>1. \A i, c, e, n : ~At(i, c, e, n)
  BY DEF Init, At
<1>2. Known
  BY <1>1, NoneIsNoClient DEF Init, Known, Unknown
<1>3. Unbroken
  BY DEF Init, Unbroken, Quiet, Streams
<1>4. InOrder
  <2>1. Below(0, 0, 0, 0 + 1)
    BY DEF Below
  <2> QED
    BY <1>1, <2>1 DEF Init, InOrder, Sorted
<1> QED
  BY <1>2, <1>3, <1>4 DEF Init, Healing

LEMMA HealingStays == IInv /\ IInv' /\ Opens /\ Healing /\ [Next]_vars => Healing'
<1> SUFFICES ASSUME IInv, IInv', Opens, Healing, [Next]_vars PROVE Healing'
  OBVIOUS
<1>1. ASSUME NEW k \in EventKind \ {"ready"}, Emit(k) PROVE Healing'
  BY <1>1, EmitHealing
<1>2. CASE Receive
  BY <1>2, ReceiveHealing
<1>3. CASE Dispose
  BY <1>3, DisposeHealing
<1>4. CASE Hear
  BY <1>4, HearHealing
<1>5. CASE Lose
  BY <1>5, LoseHealing
<1>6. CASE Repeat
  BY <1>6, RepeatHealing
<1>7. ASSUME NEW r \in handling, Dispatch(r) PROVE Healing'
  BY <1>7, DispatchHealing
<1>8. ASSUME NEW r \in handling, NEW code \in {"refused", "bridge_dispatch_failed"},
             DispatchFails(r, code)
      PROVE  Healing'
  BY <1>8, FailureHealing
<1>9. ASSUME NEW c \in Client, Load(c) PROVE Healing'
  BY <1>9, LoadHealing
<1>10. ASSUME NEW c \in Client, TransportFails(c) PROVE Healing'
  BY <1>10, TransportFailsHealing
<1>11. ASSUME NEW c \in Client, Timeout(c) PROVE Healing'
  BY <1>11, TimeoutHealing
<1>12. ASSUME NEW c \in Client, Close(c) PROVE Healing'
  BY <1>12, CloseHealing
<1>13. CASE UNCHANGED vars
  BY <1>13, IdleHealing
<1> QED
  BY <1>1, <1>2, <1>3, <1>4, <1>5, <1>6, <1>7, <1>8, <1>9, <1>10, <1>11, <1>12, <1>13 DEF Next

\* However many clients, events and requests there are, when the wire, the
\* transport or the controller has failed at most once, a client that has seen
\* a gap is on its way to the whole state (the recovery at the end of
\* receive()).  With two failures that is not so in general: the request for
\* the state, or the state itself, may be what the second one takes.
THEOREM GapHealsAfterAFault == Spec => [](faults <= 1 => GapsHeal)
<1>1. IInv /\ Healing => (faults <= 1 => GapsHeal)
  <2> SUFFICES ASSUME IInv, Healing, faults <= 1 PROVE GapsHeal
    OBVIOUS
  <2>1. faults = 0 \/ faults = 1
    BY DEF IInv, TypeOK
  <2>2. Quiet => GapsHeal
    BY DEF Quiet, GapsHeal
  <2> QED
    BY <2>1, <2>2 DEF Healing, Unbroken, Torn, Mended
<1>2. Spec => []IInv /\ []Opens
  BY Invariant, OpensStays, OpensStart, PTL DEF Spec
<1> QED
  BY <1>1, <1>2, HealingStarts, HealingStays, PTL DEF Spec
=============================================================================
