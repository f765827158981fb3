-------------------------- MODULE AgentConnection --------------------------
(***************************************************************************)
(* A chat panel and the webviews that talk to it                           *)
(* (providers/chat-panel-connection.ts, shared/agent-connection-client.ts).*)
(*                                                                         *)
(* The panel binds itself to the client whose getState it read last: it    *)
(* starts an epoch for it and numbers the events of the epoch from 1.  A   *)
(* client that finds a gap in the numbers asks for the whole state.  Any   *)
(* other request changes nothing here: it is refused before the first      *)
(* getState and to any client but the bound one, and what it does is in    *)
(* ChatTurn.  The wire keeps the order and may lose or repeat a message; a *)
(* send and the work on a request may fail.  MaxFaults bounds these faults *)
(* and MaxEvents the events after the panel's constructor.                 *)
(***************************************************************************)
EXTENDS Integers, SequencesExt

CONSTANTS Client,        \* the webviews, each with a clientId of its own
          MaxBuffer,     \* events kept until the first getState (100 in the code)
          MaxEarly,      \* account snapshots a new panel may be given (2 in the code)
          MaxAttempts,   \* how often the first state is asked for (3 in the code)
          MaxEvents, MaxFaults

ASSUME BoundsAreNat == /\ MaxBuffer \in Nat /\ MaxEarly \in Nat
                       /\ MaxBuffer >= MaxEarly + 3  \* the constructor drops nothing
                       /\ MaxAttempts \in Nat \ {0}
                       /\ MaxEvents \in Nat /\ MaxFaults \in Nat

None == "none"
ASSUME NoneIsNoClient == None \notin Client

VARIABLES
    open,       \* the panel has not been disposed
    bound,      \* clientId of the panel
    epoch,      \* the epochs started so far; the last one belongs to bound
    sequence,   \* the events of that epoch
    buffer,     \* bufferedEvents
    handling,   \* the requests the controller is working on
    toHost,     \* requests on their way to the panel
    toClient,   \* responses and events on their way to the webviews
    life,       \* unborn, open or closed: each client
    boot,       \* where a client's requestInitialAgentState is
    attempts,   \* how often it has asked
    asked,      \* requestCounter
    pending,    \* the requests a client has no answer to
    current,    \* eventEpoch, 0 while undefined
    retired,    \* retiredEventEpochs
    last,       \* lastSequence
    recovering, \* recoveryPending
    heard,      \* history: the events a client's listeners have been given
    missed,     \* history: a client has seen a gap and no state since
    published, faults

panel == <<open, bound, epoch, sequence, buffer, handling, published>>
booting == <<boot, attempts>>
listening == <<current, retired, last, heard, missed>>
vars == <<panel, toHost, toClient, life, booting, asked, pending, recovering,
          listening, faults>>

RequestKind == {"boot", "recover"}      \* the two uses of getState
EventKind == {"ready", "state", "other"}
Request == [client: Client, id: Nat \ {0}, kind: RequestKind]
Event == [type: {"event"}, to: Client, epoch: Nat \ {0}, seq: Nat \ {0}, kind: EventKind]
Code == {"ok", "refused", "bridge_dispatch_failed", "request_timeout", "transport_error"}
Response == [type: {"response"}, to: Client, request: Request, code: Code]
Retriable == {"request_timeout", "transport_error", "bridge_dispatch_failed"}

(* The panel's constructor: addSink replays the account snapshots the      *)
(* stores hold, then come ready, rawModeEnabled and the state of the tab.  *)
Constructed(n) == [i \in 1..n |-> "other"] \o <<"ready", "other", "state">>

Init ==
    /\ open = TRUE /\ bound = None /\ epoch = 0 /\ sequence = 0
    /\ \E n \in 0..MaxEarly : buffer = Constructed(n)
    /\ handling = {} /\ toHost = <<>> /\ toClient = <<>>
    /\ life = [c \in Client |-> "unborn"] /\ boot = [c \in Client |-> "idle"]
    /\ attempts = [c \in Client |-> 0] /\ asked = [c \in Client |-> 0]
    /\ pending = [c \in Client |-> {}]
    /\ current = [c \in Client |-> 0] /\ retired = [c \in Client |-> {}]
    /\ last = [c \in Client |-> 0] /\ recovering = [c \in Client |-> FALSE]
    /\ heard = [c \in Client |-> <<>>] /\ missed = [c \in Client |-> FALSE]
    /\ published = 0 /\ faults = 0

-----------------------------------------------------------------------------
(* The panel. *)

EventOf(c, e, n, k) == [type |-> "event", to |-> c, epoch |-> e, seq |-> n, kind |-> k]

(* A ready is kept once and only the newest state is kept; above the limit *)
(* the oldest event that is neither goes first.                            *)
Places(b, kinds) == {i \in 1..Len(b) : b[i] \in kinds}
First(places) == CHOOSE i \in places : \A j \in places : i <= j
TrimmedFromFront(b) == IF Len(b) <= MaxBuffer THEN b ELSE Tail(b)
Trimmed(b) ==
    IF Len(b) <= MaxBuffer THEN b
    ELSE IF Places(b, {"other"}) = {} THEN Tail(b)
    ELSE RemoveAt(b, First(Places(b, {"other"})))
Without(b, k) == IF Contains(b, k) THEN RemoveAt(b, First(Places(b, {k}))) ELSE b
Buffered(b, k) ==
    IF k = "ready" /\ Contains(b, "ready") THEN b
    ELSE Trimmed(Append(IF k = "state" THEN Without(b, "state") ELSE b, k))

(* The events ks go out under the epoch, or wait for a client. *)
Post(ks) ==
    /\ sequence' = sequence + Len(ks)
    /\ toClient' = toClient \o
           [i \in 1..Len(ks) |-> EventOf(bound, epoch, sequence + i, ks[i])]
    /\ UNCHANGED buffer

Publish(k) ==
    IF bound = None THEN /\ buffer' = Buffered(buffer, k)
                         /\ UNCHANGED <<sequence, toClient>>
    ELSE Post(<<k>>)

(* The application changes: an event, or the whole state of the tab. *)
Emit(k) ==
    /\ open /\ published < MaxEvents
    /\ published' = published + 1
    /\ Publish(k)
    /\ UNCHANGED <<open, bound, epoch, handling, toHost, life, booting, asked, pending,
                   recovering, listening, faults>>

Answer(r, code) == [type |-> "response", to |-> r.client, request |-> r, code |-> code]

(* The first client is handed what has been waiting; a later one, whose    *)
(* page knows nothing, gets a ready of its own.                            *)
Welcome == IF bound = None THEN buffer ELSE <<"ready">>
Rebinds(r) == bound # r.client
Bind(r) ==
    /\ bound' = r.client /\ epoch' = epoch + 1
    /\ sequence' = Len(Welcome) /\ buffer' = <<>>
    /\ toClient' = toClient \o
           [i \in 1..Len(Welcome) |-> EventOf(r.client, epoch + 1, i, Welcome[i])]
    /\ handling' = handling \cup {r}

(* ChatPanelConnection.receive, up to the dispatch. *)
Receive ==
    /\ open /\ toHost # <<>>
    /\ toHost' = Tail(toHost)
    /\ LET r == Head(toHost)
       IN IF Rebinds(r) THEN Bind(r)
          ELSE /\ handling' = handling \cup {r}
               /\ UNCHANGED <<bound, epoch, sequence, buffer, toClient>>
    /\ UNCHANGED <<open, published, life, booting, asked, pending, recovering,
                   listening, faults>>

(* The controller publishes the state, to whoever has the panel by now; a  *)
(* client that has lost it gets no answer.                                 *)
Served == EventOf(bound, epoch, sequence + 1, "state")
Dispatch(r) ==
    /\ open /\ r \in handling
    /\ handling' = handling \ {r}
    /\ sequence' = sequence + 1
    /\ toClient' = toClient \o (IF bound = r.client THEN <<Served, Answer(r, "ok")>>
                                ELSE <<Served>>)
    /\ UNCHANGED <<open, bound, epoch, buffer, published, toHost, life, booting, asked,
                   pending, recovering, listening, faults>>

(* It fails: the controller reports it, or the dispatch itself rejects,    *)
(* which is answered whoever the panel is bound to.                        *)
DispatchFails(r, code) ==
    /\ open /\ r \in handling /\ faults < MaxFaults
    /\ faults' = faults + 1
    /\ handling' = handling \ {r}
    /\ toClient' = IF code = "bridge_dispatch_failed" \/ bound = r.client
                   THEN Append(toClient, Answer(r, code)) ELSE toClient
    /\ UNCHANGED <<open, bound, epoch, sequence, buffer, published, toHost, life, booting,
                   asked, pending, recovering, listening>>

Dispose ==
    /\ open /\ open' = FALSE
    /\ buffer' = <<>> /\ bound' = None
    /\ handling' = {}                    \* their answers are dropped
    /\ UNCHANGED <<epoch, sequence, published, toHost, toClient, life, booting, asked,
                   pending, recovering, listening, faults>>

-----------------------------------------------------------------------------
(* A client. *)

(* request(): the envelope is on the wire. *)
NewRequest(c, k) == [client |-> c, id |-> asked[c] + 1, kind |-> k]
Ask(c, k) ==
    /\ asked' = [asked EXCEPT ![c] = @ + 1]
    /\ toHost' = Append(toHost, NewRequest(c, k))
    /\ pending' = [pending EXCEPT ![c] = @ \cup {NewRequest(c, k)}]

(* What requestInitialAgentState does with an answer. *)
Booted(c, code) ==
    IF code = "ok" THEN "done"
    ELSE IF code \in Retriable /\ attempts[c] < MaxAttempts THEN "waiting"
    ELSE "failed"

(* The answer to r, of whatever origin: the promise is resolved. *)
Settle(c, r, code) ==
    /\ pending' = [pending EXCEPT ![c] = @ \ {r}]
    /\ boot' = IF r.kind = "boot" THEN [boot EXCEPT ![c] = Booted(c, code)] ELSE boot
    /\ recovering' = IF r.kind = "recover" THEN [recovering EXCEPT ![c] = FALSE]
                     ELSE recovering

(* The page is loaded, or waits before it asks for the first state again. *)
Load(c) ==
    /\ life[c] = "unborn" \/ (life[c] = "open" /\ boot[c] = "waiting")
    /\ life' = [life EXCEPT ![c] = "open"]
    /\ boot' = [boot EXCEPT ![c] = "asking"]
    /\ attempts' = [attempts EXCEPT ![c] = @ + 1]
    /\ Ask(c, "boot")
    /\ UNCHANGED <<panel, toClient, recovering, listening, faults>>

(* The transport throws: the question is answered at once. *)
TransportFails(c) ==
    /\ life[c] = "unborn" \/ (life[c] = "open" /\ boot[c] = "waiting")
    /\ faults < MaxFaults /\ faults' = faults + 1
    /\ life' = [life EXCEPT ![c] = "open"]
    /\ asked' = [asked EXCEPT ![c] = @ + 1]
    /\ attempts' = [attempts EXCEPT ![c] = @ + 1]
    /\ boot' = [boot EXCEPT ![c] = IF attempts[c] + 1 < MaxAttempts
                                   THEN "waiting" ELSE "failed"]
    /\ UNCHANGED <<panel, toHost, toClient, pending, recovering, listening>>

Timeout(c) ==
    \E r \in pending[c] :
        /\ Settle(c, r, "request_timeout")
        /\ UNCHANGED <<panel, toHost, toClient, life, attempts, asked, listening, faults>>

(* The page is left: what it waits for is settled, and nothing is heard.   *)
Close(c) ==
    /\ life[c] = "open"
    /\ life' = [life EXCEPT ![c] = "closed"]
    /\ pending' = [pending EXCEPT ![c] = {}]
    /\ boot' = [boot EXCEPT ![c] = "over"]
    /\ recovering' = [recovering EXCEPT ![c] = FALSE]
    /\ missed' = [missed EXCEPT ![c] = FALSE]
    /\ heard' = [heard EXCEPT ![c] = <<>>]
    /\ current' = [current EXCEPT ![c] = 0]
    /\ retired' = [retired EXCEPT ![c] = {}]
    /\ last' = [last EXCEPT ![c] = 0]
    /\ attempts' = [attempts EXCEPT ![c] = 0]
    /\ asked' = [asked EXCEPT ![c] = 0]
    /\ UNCHANGED <<panel, toHost, toClient, faults>>

HearResponse(c, m) ==
    /\ IF m.request \in pending[c] THEN Settle(c, m.request, m.code)
       ELSE UNCHANGED <<pending, boot, recovering>>
    /\ UNCHANGED <<toHost, attempts, asked, listening>>

(* An event is news unless its epoch has been retired or its number is not *)
(* above the last one of the current epoch.  An epoch the client does not  *)
(* know is adopted, and the one before it retired.                         *)
Since(c, e) == IF e = current[c] THEN last[c] ELSE 0
RepeatsNews(c, m) == m.epoch \notin retired[c] /\ m.seq >= Since(c, m.epoch)
IsNews(c, m) == m.epoch \notin retired[c] /\ m.seq > Since(c, m.epoch)
WideGap(c, m) == m.seq > Since(c, m.epoch) + 2
HasGap(c, m) == m.seq > Since(c, m.epoch) + 1
StillRecovering(c, m) ==
    recovering[c] /\ (current[c] = 0 \/ m.epoch = current[c])

HearEvent(c, m) ==
    IF ~IsNews(c, m) THEN UNCHANGED <<toHost, booting, asked, pending, recovering, listening>>
    ELSE /\ current' = [current EXCEPT ![c] = m.epoch]
         /\ retired' = [retired EXCEPT ![c] = @ \cup ({current[c]} \ {0, m.epoch})]
         /\ last' = [last EXCEPT ![c] = m.seq]
         /\ heard' = [heard EXCEPT ![c] = Append(@, <<m.epoch, m.seq>>)]
         /\ missed' = [missed EXCEPT ![c] = m.kind # "state" /\
                                           (@ \/ m.seq # Since(c, m.epoch) + 1)]
         /\ IF HasGap(c, m) /\ ~StillRecovering(c, m)
            THEN /\ Ask(c, "recover")
                 /\ recovering' = [recovering EXCEPT ![c] = TRUE]
            ELSE /\ recovering' = [recovering EXCEPT ![c] = StillRecovering(c, m)]
                 /\ UNCHANGED <<toHost, asked, pending>>
         /\ UNCHANGED booting

(* AgentConnectionClient.receive: the page of the client may be gone. *)
Hear ==
    /\ toClient # <<>>
    /\ toClient' = Tail(toClient)
    /\ LET m == Head(toClient)
       IN IF life[m.to] # "open"
          THEN UNCHANGED <<toHost, booting, asked, pending, recovering, listening>>
          ELSE IF m.type = "event" THEN HearEvent(m.to, m) ELSE HearResponse(m.to, m)
    /\ UNCHANGED <<panel, life, faults>>

-----------------------------------------------------------------------------
(* The wire. *)

Lose ==
    /\ faults < MaxFaults /\ faults' = faults + 1
    /\ \/ toHost # <<>> /\ toHost' = Tail(toHost) /\ UNCHANGED toClient
       \/ toClient # <<>> /\ toClient' = Tail(toClient) /\ UNCHANGED toHost
    /\ UNCHANGED <<panel, life, booting, asked, pending, recovering, listening>>

(* A late copy of the next message. *)
Repeat ==
    /\ toClient # <<>> /\ faults < MaxFaults
    /\ faults' = faults + 1
    /\ toClient' = Append(toClient, Head(toClient))
    /\ UNCHANGED <<panel, toHost, life, booting, asked, pending, recovering, listening>>

Next ==
    \/ \E k \in EventKind \ {"ready"} : Emit(k)
    \/ Receive \/ Dispose \/ Hear \/ Lose \/ Repeat
    \/ \E r \in handling :
          Dispatch(r) \/ \E code \in {"refused", "bridge_dispatch_failed"} : DispatchFails(r, code)
    \/ \E c \in Client :
          Load(c) \/ TransportFails(c) \/ Timeout(c) \/ Close(c)

Spec == Init /\ [][Next]_vars

-----------------------------------------------------------------------------
TypeOK ==
    /\ open \in BOOLEAN /\ bound \in Client \cup {None}
    /\ epoch \in Nat /\ sequence \in Nat
    /\ buffer \in Seq(EventKind) /\ handling \subseteq Request
    /\ toHost \in Seq(Request) /\ toClient \in Seq(Event \cup Response)
    /\ life \in [Client -> {"unborn", "open", "closed"}]
    /\ boot \in [Client -> {"idle", "asking", "waiting", "done", "failed", "over"}]
    /\ attempts \in [Client -> Nat] /\ asked \in [Client -> Nat]
    /\ pending \in [Client -> SUBSET Request]
    /\ current \in [Client -> Nat] /\ retired \in [Client -> SUBSET Nat]
    /\ last \in [Client -> Nat] /\ recovering \in [Client -> BOOLEAN]
    /\ heard \in [Client -> Seq(Nat \X Nat)] /\ missed \in [Client -> BOOLEAN]
    /\ published \in Nat /\ faults \in Nat

(* Whatever the wire does, a client's listeners are given the events of an *)
(* epoch in their order and each once, and an epoch they have left does    *)
(* not come back (receive()'s filter, with its set of retired epochs).     *)
HeardInOrder ==
    [][\A c \in Client : \A i \in DOMAIN heard[c] :
          LET new == heard'[c][Len(heard'[c])]
              old == heard[c][i]
          IN (Len(heard'[c]) > Len(heard[c]) /\ old[1] = new[1])
                => (old[1] = current[c] /\ old[2] < new[2])]_vars

(* However much had to be dropped before a client came, the first one is   *)
(* handed a ready and, behind it, a state; nothing but passing events, as  *)
(* the account snapshots, may come before that ready.  A later client,     *)
(* whose page knows nothing, hears a ready first (bufferEvent, the flush   *)
(* and the second bindClient of receive()).                                *)
Welcomes(b) ==
    \E r, s \in DOMAIN b : /\ r < s /\ b[r] = "ready" /\ b[s] = "state"
                           /\ \A i \in 1..(r - 1) : b[i] = "other"
PagesAreWelcomed ==
    /\ (open /\ bound = None) => Welcomes(buffer)
    /\ \A i \in DOMAIN toClient :
          (toClient[i].type = "event" /\ toClient[i].epoch > 1 /\ toClient[i].seq = 1)
             => toClient[i].kind = "ready"

(* A client that has seen a gap is on its way to the whole state: it has   *)
(* asked and the panel has not answered yet, or a state it will take is    *)
(* under way.  (The recovery at the end of receive().)                     *)
StateComes(c) ==
    \/ toHost # <<>> \/ handling # {}
    \/ \E i \in DOMAIN toClient :
          LET m == toClient[i]
          IN m.type = "event" /\ m.kind = "state" /\ m.to = c /\ IsNews(c, m)
GapsHeal == \A c \in Client : (missed[c] /\ open /\ bound = c) => StateComes(c)
=============================================================================
