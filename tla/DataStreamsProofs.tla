-------------------------- MODULE DataStreamsProofs --------------------------
(***************************************************************************)
(* Proofs about DataStreams, for any numbers of sockets, events, notices   *)
(* and lost connections: how many connections are alive at once, that no   *)
(* event is skipped, whatever sockets deliver it, and, with the browser's  *)
(* socket, in which order and how often the application is given the       *)
(* events: the client implements EventDelivery.                            *)
(***************************************************************************)
EXTENDS DataStreams, Integers, TLAPS, FiniteSetTheorems, SequenceTheorems

(* A connection that is alive, one that waits for its import and one that waits for the
   gap each take the place of another, but for the one of the fallback. *)
Places == Cardinality(Live) + pending + (IF gap THEN 1 ELSE 0)

LiveInv ==
  /\ TypeOK
  /\ created + pending + (IF gap THEN 1 ELSE 0) <= MaxSockets
  /\ Places <= 1 + attempts

States == {"none", "connecting", "open", "closing", "closed"}

LiveOf(states) == {s \in Sockets : states[s] \in {"connecting", "open"}}

LEMMA LiveIsFinite ==
  ASSUME NEW states
  PROVE  IsFiniteSet(LiveOf(states)) /\ Cardinality(LiveOf(states)) \in Nat
<1>1. IsFiniteSet(Sockets)
  BY DataStreamsAssumption, FS_Interval DEF DataStreamsAssumption, Sockets
<1>2. LiveOf(states) \subseteq Sockets
  BY DEF LiveOf
<1> QED BY <1>1, <1>2, FS_Subset, FS_CardinalityType

LEMMA FewerLive ==
  ASSUME NEW states, NEW others, LiveOf(others) \subseteq LiveOf(states)
  PROVE  Cardinality(LiveOf(others)) <= Cardinality(LiveOf(states))
BY LiveIsFinite, FS_Subset

LEMMA OneMore ==
  ASSUME NEW states, NEW others, NEW n, LiveOf(others) \subseteq LiveOf(states) \cup {n}
  PROVE  Cardinality(LiveOf(others)) <= Cardinality(LiveOf(states)) + 1
<1>1. IsFiniteSet(LiveOf(states) \cup {n}) /\ Cardinality(LiveOf(states)) \in Nat
  BY LiveIsFinite, FS_AddElement
<1>2. Cardinality(LiveOf(states) \cup {n}) <= Cardinality(LiveOf(states)) + 1
  BY LiveIsFinite, FS_AddElement
<1>3. /\ Cardinality(LiveOf(others)) <= Cardinality(LiveOf(states) \cup {n})
      /\ Cardinality(LiveOf(others)) \in Nat
      /\ Cardinality(LiveOf(states) \cup {n}) \in Nat
  BY <1>1, LiveIsFinite, FS_Subset, FS_CardinalityType
<1> QED BY <1>1, <1>2, <1>3

LEMMA OneClosed ==
  ASSUME TypeOK, IsConnOpen
  PROVE  /\ conn \in Sockets
         /\ Closing(conn) \in [Sockets -> States]
         /\ LiveOf(Closing(conn)) = Live \ {conn}
         /\ Cardinality(LiveOf(Closing(conn))) = Cardinality(Live) - 1
<1>1. conn \in Sockets
  BY DataStreamsAssumption DEF DataStreamsAssumption, TypeOK, IsConnOpen, Sockets
<1>2. Closing(conn) \in [Sockets -> States]
  BY DEF TypeOK, Closing, States
<1>3. LiveOf(Closing(conn)) = Live \ {conn}
  BY <1>1 DEF TypeOK, Closing, LiveOf, Live
<1>4. conn \in Live /\ IsFiniteSet(Live)
  BY <1>1, LiveIsFinite DEF IsConnOpen, Live, LiveOf
<1> QED BY <1>1, <1>2, <1>3, <1>4, FS_RemoveElement

-----------------------------------------------------------------------------
(* What the handlers share. *)

LEMMA ConstructKeeps ==
  ASSUME TypeOK, NEW states \in [Sockets -> States], created < MaxSockets, Construct(states)
  PROVE  /\ state' \in [Sockets -> States]
         /\ created' = created + 1 /\ conn' = created + 1 /\ created' \in 0..MaxSockets
         /\ LiveOf(state') \subseteq LiveOf(states) \cup {created + 1}
         /\ \A s \in Sockets : state'[s] = IF s = created + 1 THEN "connecting" ELSE states[s]
<1>1. created \in Nat /\ MaxSockets \in Nat
  BY DataStreamsAssumption DEF DataStreamsAssumption, TypeOK
<1>2. created' = created + 1 /\ conn' = created + 1 /\ created + 1 \in Sockets
  BY <1>1 DEF Construct, Sockets
<1>3. state' = [states EXCEPT ![created + 1] = "connecting"]
  BY DEF Construct
<1>4. /\ state' \in [Sockets -> States]
      /\ \A s \in Sockets : state'[s] = IF s = created + 1 THEN "connecting" ELSE states[s]
  BY <1>2, <1>3 DEF States
<1>5. LiveOf(state') \subseteq LiveOf(states) \cup {created + 1}
  BY <1>4 DEF LiveOf
<1> QED BY <1>1, <1>2, <1>4, <1>5

(* A new connection takes one place: that of its import, or that of the connection. *)
LEMMA CreateKeeps ==
  ASSUME TypeOK, NEW states \in [Sockets -> States], NEW h, NEW final,
         created + pending < MaxSockets,
         CreateWebSocketConnection(states, h, final)
  PROVE  /\ state' \in [Sockets -> States]
         /\ created' \in 0..MaxSockets /\ conn' \in 0..created' /\ pending' \in 0..MaxSockets
         /\ created' + pending' <= created + pending + 1
         /\ Cardinality(LiveOf(state')) + pending' <= Cardinality(LiveOf(states)) + pending + 1
<1>1. /\ created \in Nat /\ MaxSockets \in Nat /\ pending \in Nat /\ conn \in 0..created
      /\ created < MaxSockets /\ pending + 1 <= MaxSockets
  BY DataStreamsAssumption DEF DataStreamsAssumption, TypeOK
<1>2. Cardinality(LiveOf(states)) \in Nat
  BY LiveIsFinite
<1>3. CASE state' = states /\ UNCHANGED <<created, conn>> /\ pending' \in {pending, pending + 1}
  <2>1. LiveOf(state') = LiveOf(states) /\ state' \in [Sockets -> States]
    BY <1>3
  <2>2. Cardinality(LiveOf(state')) = Cardinality(LiveOf(states))
    BY <2>1
  <2>3. created' = created /\ conn' = conn /\ pending' \in 0..MaxSockets /\ pending' <= pending + 1
                /\ pending' \in Nat
    BY <1>1, <1>3
  <2>4. created' + pending' <= created + pending + 1
    <3>1. CASE pending' = pending
      BY <1>1, <2>3, <3>1
    <3>2. CASE pending' = pending + 1
      BY <1>1, <2>3, <3>2
    <3> QED BY <1>3, <3>1, <3>2
  <2>5. Cardinality(LiveOf(state')) + pending' <= Cardinality(LiveOf(states)) + pending + 1
    BY <1>1, <1>2, <2>2, <2>3
  <2> QED BY <1>1, <2>1, <2>3, <2>4, <2>5 DEF TypeOK
<1>4. CASE Construct(states) /\ UNCHANGED pending
  <2>1. /\ state' \in [Sockets -> States]
        /\ created' = created + 1 /\ conn' = created + 1
        /\ LiveOf(state') \subseteq LiveOf(states) \cup {created + 1}
    BY <1>1, <1>4, ConstructKeeps
  <2>2. Cardinality(LiveOf(state')) <= Cardinality(LiveOf(states)) + 1
    BY <2>1, OneMore
  <2>3. Cardinality(LiveOf(state')) \in Nat
    BY LiveIsFinite
  <2> QED BY <1>1, <1>2, <1>4, <2>1, <2>2, <2>3
<1>5. \/ state' = states /\ UNCHANGED <<created, conn>> /\ pending' \in {pending, pending + 1}
      \/ Construct(states) /\ UNCHANGED pending
  BY DEF CreateWebSocketConnection
<1> QED BY <1>3, <1>4, <1>5

LEMMA MakeKeeps ==
  ASSUME TypeOK, NEW states \in [Sockets -> States], NEW h \in Hosts,
         created + pending < MaxSockets, MakeNewConnection(states, h)
  PROVE  /\ state' \in [Sockets -> States] /\ finalHost' \in Hosts
         /\ created' \in 0..MaxSockets /\ conn' \in 0..created' /\ pending' \in 0..MaxSockets
         /\ created' + pending' <= created + pending + 1
         /\ Cardinality(LiveOf(state')) + pending' <= Cardinality(LiveOf(states)) + pending + 1
<1>1. CASE session
  BY <1>1, CreateKeeps DEF MakeNewConnection
<1>2. CASE ~session
  <2>1. Cardinality(LiveOf(states)) \in Nat /\ created \in Nat /\ pending \in Nat
    BY LiveIsFinite DEF TypeOK
  <2> QED BY <1>2, <2>1 DEF MakeNewConnection, TypeOK
<1> QED BY <1>1, <1>2

LEMMA SendType ==
  ASSUME TypeOK, NEW r \in Request, Send(r)
  PROVE  outbox' \in [Sockets -> Seq(Request)]
BY AppendProperties DEF Send, TypeOK

LEMMA PushType ==
  ASSUME TypeOK, NEW s \in Sockets, NEW ms \in Seq(Message), Push(s, ms)
  PROVE  inbox' \in [Sockets -> Seq(Message)]
<1>1. inbox[s] \in Seq(Message)
  BY DEF TypeOK
<1>2. inbox[s] \o ms \in Seq(Message)
  BY <1>1, ConcatProperties
<1> QED BY <1>2 DEF Push, TypeOK

LEMMA MessageTypes ==
  /\ \A type \in {"auth", "keyMismatch", "down", "connect"} : Msg(type) \in Message
  /\ \A h \in Hosts : Switch(h) \in Message
  /\ \A n \in 0..MaxEvent : Event(n) \in Message
BY DataStreamsAssumption DEF DataStreamsAssumption, Msg, Switch, Event, Message

LEMMA RequestTypes ==
  /\ \A type \in {"subscribe", "unsubscribe", "resume", "ackResume"} : Req(type, 0) \in Request
  /\ \A n \in 0..MaxEvent : Req("ack", n) \in Request
BY DataStreamsAssumption DEF DataStreamsAssumption, Req, Request

LEMMA ReceiveType ==
  ASSUME TypeOK, NEW s \in Sockets, NEW type, Receive(s, type)
  PROVE  inbox' \in [Sockets -> Seq(Message)] /\ Head(inbox[s]) \in Message
<1>1. inbox[s] \in Seq(Message) /\ inbox[s] # <<>>
  BY DEF TypeOK, Receive
<1>2. Head(inbox[s]) \in Message /\ Tail(inbox[s]) \in Seq(Message)
  BY <1>1, HeadTailProperties
<1> QED BY <1>2 DEF Receive, TypeOK

LEMMA Budget ==
  ASSUME NEW c \in Nat, NEW p \in Nat, NEW l \in Nat, NEW g \in Nat, NEW max \in Nat,
         NEW c2 \in Nat, NEW p2 \in Nat, NEW l2 \in Nat, NEW d \in Nat,
         c + p + g < max, c2 + p2 <= c + p + 1, l2 + p2 <= d
  PROVE  c2 + p2 + g <= max /\ l2 + p2 + g <= d + g
OBVIOUS

(* A step that makes no connection. *)
LEMMA NoNewConnection ==
  ASSUME LiveInv, TypeOK', UNCHANGED <<created, pending, gap, attempts>>, Live' \subseteq Live
  PROVE  LiveInv'
<1>1. Cardinality(Live') <= Cardinality(Live) /\ Cardinality(Live) \in Nat /\ Cardinality(Live') \in Nat
  BY LiveIsFinite, FewerLive DEF Live, LiveOf
<1>2. /\ pending \in Nat /\ pending' = pending /\ gap' = gap /\ gap \in BOOLEAN
      /\ attempts \in Nat /\ attempts' = attempts /\ created' = created
  BY DEF LiveInv, TypeOK
<1>3. (IF gap THEN 1 ELSE 0) \in Nat
  OBVIOUS
<1>4. Places' <= Places
  BY <1>1, <1>2, <1>3 DEF Places
<1>5. Places \in Nat /\ Places' \in Nat
  BY <1>1, <1>2, <1>3 DEF Places
<1> QED BY <1>2, <1>4, <1>5 DEF LiveInv

-----------------------------------------------------------------------------
(* Each action keeps LiveInv. *)

ClientRest == <<url, finalHost, session, isOpen, ackSent, reconnect, last>>

LEMMA ImportedKeepsLive ==
  ASSUME LiveInv, Imported
  PROVE  LiveInv'
<1> DEFINE G == IF gap THEN 1 ELSE 0
<1>1. /\ created \in Nat /\ pending \in Nat /\ MaxSockets \in Nat /\ pending > 0 /\ G \in Nat
      /\ attempts \in Nat /\ state \in [Sockets -> States] /\ TypeOK
      /\ created + pending + G <= MaxSockets
  BY DataStreamsAssumption DEF DataStreamsAssumption, LiveInv, TypeOK, Imported, States
<1> HIDE DEF G
<1>2. created < MaxSockets
  BY <1>1
<1>3. /\ state' \in [Sockets -> States]
      /\ created' = created + 1 /\ conn' = created + 1 /\ created' \in 0..MaxSockets
      /\ LiveOf(state') \subseteq LiveOf(state) \cup {created + 1}
  BY <1>1, <1>2, ConstructKeeps DEF Imported
<1>4. Cardinality(LiveOf(state')) <= Cardinality(LiveOf(state)) + 1
  BY <1>3, OneMore
<1>5. pending' = pending - 1 /\ gap' = gap /\ attempts' = attempts
  BY DEF Imported
<1>6. pending' \in 0..MaxSockets /\ conn' \in 0..created' /\ created' + pending' + G <= MaxSockets
  BY <1>1, <1>3, <1>5
<1>7. TypeOK'
  BY <1>3, <1>6 DEF LiveInv, TypeOK, Imported, wire, app, server, States
<1>8. Places' <= Places
  <2>1. Cardinality(LiveOf(state')) \in Nat /\ Cardinality(LiveOf(state)) \in Nat
    BY LiveIsFinite
  <2>2. Cardinality(LiveOf(state')) + pending' + G <= Cardinality(LiveOf(state)) + pending + G
    BY <1>1, <1>4, <1>5, <2>1
  <2> QED BY <1>5, <2>2 DEF Places, Live, LiveOf, G
<1>9. Places' \in Nat /\ Places \in Nat
  <2>1. Cardinality(Live) \in Nat /\ Cardinality(Live') \in Nat
    BY LiveIsFinite DEF Live, LiveOf
  <2>2. pending' \in Nat
    BY <1>1, <1>5
  <2> QED BY <1>1, <1>5, <2>1, <2>2 DEF Places, G
<1> QED BY <1>1, <1>5, <1>6, <1>7, <1>8, <1>9 DEF LiveInv, G

LEMMA OpenedKeepsLive ==
  ASSUME LiveInv, NEW s \in Sockets, Opened(s)
  PROVE  LiveInv'
<1>1. state' \in [Sockets -> States] /\ Live' \subseteq Live
  BY DEF Opened, LiveInv, TypeOK, States, Live
<1>2. outbox' \in [Sockets -> Seq(Request)]
  BY RequestTypes, SendType DEF Opened, LiveInv, TypeOK
<1>3. TypeOK'
  BY <1>1, <1>2 DEF Opened, StartAll, LiveInv, TypeOK, app, server, States, Timers
<1> QED BY <1>1, <1>3, NoNewConnection DEF Opened

LEMMA ClosedKeepsLive ==
  ASSUME LiveInv, NEW s \in Sockets, Closed(s)
  PROVE  LiveInv'
<1>1. state' \in [Sockets -> States] /\ Live' \subseteq Live
  BY DEF Closed, LiveInv, TypeOK, States, Live
<1>2. <<>> \in Seq(Message) /\ <<>> \in Seq(Request)
  BY EmptySeq
<1>3. inbox' \in [Sockets -> Seq(Message)] /\ outbox' \in [Sockets -> Seq(Request)]
  BY <1>2 DEF Closed, LiveInv, TypeOK
<1>4. drops' \in 0..MaxDrops
  BY DataStreamsAssumption DEF DataStreamsAssumption, Closed, LiveInv, TypeOK
<1>5. TypeOK'
  BY <1>1, <1>3, <1>4 DEF Closed, LiveInv, TypeOK, app, States, Timers
<1> QED BY <1>1, <1>5, NoNewConnection DEF Closed

(* One connection in the place of the one that is closed. *)
LEMMA SwitchKeepsLive ==
  ASSUME LiveInv, NEW s \in Sockets, SwitchUrl(s)
  PROVE  LiveInv'
<1> DEFINE h == Head(inbox[s]).host
           G == IF gap THEN 1 ELSE 0
<1>1. inbox' \in [Sockets -> Seq(Message)] /\ h \in Hosts
  BY ReceiveType DEF SwitchUrl, LiveInv, Message
<1>2. CASE ~IsConnOpen
  <2>1. UNCHANGED <<state, finalHost, created, conn, pending>>
    BY <1>2 DEF SwitchUrl
  <2>2. TypeOK'
    BY <1>1, <2>1 DEF SwitchUrl, LiveInv, TypeOK, app, server
  <2> QED BY <2>1, <2>2, NoNewConnection DEF SwitchUrl, Live
<1>3. CASE IsConnOpen
  <2>1. Room /\ MakeNewConnection(Closing(conn), h)
    BY <1>3 DEF SwitchUrl
  <2>2. /\ created \in Nat /\ pending \in Nat /\ MaxSockets \in Nat /\ G \in Nat /\ attempts \in Nat
        /\ created + pending + G < MaxSockets /\ TypeOK
    BY <2>1, DataStreamsAssumption DEF DataStreamsAssumption, LiveInv, TypeOK, Room
  <2> HIDE DEF h, G
  <2>3. created + pending < MaxSockets
    BY <2>2
  <2>4. /\ Closing(conn) \in [Sockets -> States]
        /\ Cardinality(LiveOf(Closing(conn))) = Cardinality(Live) - 1
    BY <1>3, <2>2, OneClosed
  <2>5. /\ state' \in [Sockets -> States] /\ finalHost' \in Hosts
        /\ created' \in 0..MaxSockets /\ conn' \in 0..created' /\ pending' \in 0..MaxSockets
        /\ created' + pending' <= created + pending + 1
        /\ Cardinality(LiveOf(state')) + pending' <= Cardinality(LiveOf(Closing(conn))) + pending + 1
    BY <1>1, <2>1, <2>2, <2>3, <2>4, MakeKeeps
  <2>6. TypeOK'
    BY <1>1, <2>5 DEF SwitchUrl, LiveInv, TypeOK, app, server, States, h
  <2>7. gap' = gap /\ attempts' = attempts
    BY DEF SwitchUrl
  <2>8. Cardinality(LiveOf(state')) \in Nat /\ Cardinality(Live) \in Nat /\ created' \in Nat /\ pending' \in Nat
    <3>1. Cardinality(LiveOf(state')) \in Nat /\ Cardinality(Live) \in Nat
      BY LiveIsFinite DEF Live, LiveOf
    <3> QED BY <2>2, <2>5, <3>1
  <2>9. /\ created' + pending' + G <= MaxSockets
        /\ Cardinality(LiveOf(state')) + pending' + G <= Cardinality(Live) + pending + G
    <3>1. Cardinality(LiveOf(Closing(conn))) + pending + 1 = Cardinality(Live) + pending
      BY <2>2, <2>4, <2>8
    <3>2. Cardinality(Live) + pending \in Nat
      BY <2>2, <2>8
    <3> QED BY <2>2, <2>5, <2>8, <3>1, <3>2, Budget
  <2>10. Places' <= Places /\ Places' \in Nat /\ Places \in Nat
    BY <2>2, <2>7, <2>8, <2>9 DEF Places, Live, LiveOf, G
  <2> QED BY <2>2, <2>6, <2>7, <2>9, <2>10 DEF LiveInv, G
<1> QED BY <1>2, <1>3

(* The fallback: one more, once. *)
LEMMA ExpiredKeepsLive ==
  ASSUME LiveInv, NEW s \in Sockets, SessionExpired(s)
  PROVE  LiveInv'
<1> DEFINE G == IF gap THEN 1 ELSE 0
<1>1. inbox' \in [Sockets -> Seq(Message)]
  BY ReceiveType DEF SessionExpired, LiveInv
<1>2. CASE attempts # 0
  <2>1. UNCHANGED <<attempts, state, created, conn, pending>>
    BY <1>2 DEF SessionExpired
  <2>2. TypeOK'
    BY <1>1, <2>1 DEF SessionExpired, LiveInv, TypeOK, app, server
  <2> QED BY <2>1, <2>2, NoNewConnection DEF SessionExpired, Live
<1>3. CASE attempts = 0
  <2>1. Room /\ CreateWebSocketConnection(state, url, finalHost)
    BY <1>3 DEF SessionExpired
  <2>2. /\ created \in Nat /\ pending \in Nat /\ MaxSockets \in Nat /\ G \in Nat
        /\ created + pending + G < MaxSockets /\ TypeOK /\ state \in [Sockets -> States]
    BY <2>1, DataStreamsAssumption DEF DataStreamsAssumption, LiveInv, TypeOK, Room, States
  <2> HIDE DEF G
  <2>3. created + pending < MaxSockets
    BY <2>2
  <2>4. /\ state' \in [Sockets -> States]
        /\ created' \in 0..MaxSockets /\ conn' \in 0..created' /\ pending' \in 0..MaxSockets
        /\ created' + pending' <= created + pending + 1
        /\ Cardinality(LiveOf(state')) + pending' <= Cardinality(LiveOf(state)) + pending + 1
    BY <2>1, <2>2, <2>3, CreateKeeps
  <2>5. gap' = gap /\ attempts' = 1
    BY <1>3 DEF SessionExpired
  <2>6. TypeOK'
    BY <1>1, <2>4, <2>5 DEF SessionExpired, LiveInv, TypeOK, app, server, States
  <2>7. Cardinality(LiveOf(state')) \in Nat /\ Cardinality(LiveOf(state)) \in Nat
        /\ created' \in Nat /\ pending' \in Nat
    BY <2>2, <2>4, LiveIsFinite
  <2>8. /\ created' + pending' + G <= MaxSockets
        /\ Cardinality(LiveOf(state')) + pending' + G <= Cardinality(LiveOf(state)) + pending + G + 1
    <3> DEFINE D == Cardinality(LiveOf(state)) + pending + 1
    <3>1. D \in Nat /\ Cardinality(LiveOf(state')) + pending' <= D
      BY <2>2, <2>4, <2>7
    <3>2. D + G = Cardinality(LiveOf(state)) + pending + G + 1
      BY <2>2, <2>7
    <3> HIDE DEF D
    <3>3. /\ created' + pending' + G <= MaxSockets
          /\ Cardinality(LiveOf(state')) + pending' + G <= D + G
      BY <2>2, <2>4, <2>7, <3>1, Budget
    <3> QED BY <3>2, <3>3
  <2>9. Places' <= Places + 1 /\ Places' \in Nat /\ Places \in Nat
    BY <2>2, <2>5, <2>7, <2>8 DEF Places, Live, LiveOf, G
  <2> QED BY <1>3, <2>2, <2>5, <2>6, <2>8, <2>9 DEF LiveInv, G
<1> QED BY <1>2, <1>3

LEMMA AuthSuccessKeepsLive ==
  ASSUME LiveInv, NEW s \in Sockets, AuthSuccess(s)
  PROVE  LiveInv'
<1>1. inbox' \in [Sockets -> Seq(Message)]
  BY ReceiveType DEF AuthSuccess, LiveInv
<1>2. outbox' \in [Sockets -> Seq(Request)]
  BY RequestTypes, SendType DEF AuthSuccess, Subscribe, LiveInv, TypeOK
<1>3. state' \in [Sockets -> States] /\ Live' \subseteq Live /\ closed' \in BOOLEAN
  <2>1. state' = state \/ (IsConnOpen /\ state' = Closing(conn))
    BY DEF AuthSuccess
  <2> QED BY <2>1, OneClosed DEF AuthSuccess, LiveInv, TypeOK, States, Live, LiveOf
<1>4. TypeOK'
  BY <1>1, <1>2, <1>3 DEF AuthSuccess, StartAll, LiveInv, TypeOK, server, States, Timers
<1> QED BY <1>3, <1>4, NoNewConnection DEF AuthSuccess

LEMMA DownKeepsLive ==
  ASSUME LiveInv, NEW s \in Sockets, ServerDown(s)
  PROVE  LiveInv'
<1>1. inbox' \in [Sockets -> Seq(Message)]
  BY ReceiveType DEF ServerDown, LiveInv
<1>2. TypeOK'
  BY <1>1 DEF ServerDown, LiveInv, TypeOK, app, server, Timers
<1> QED BY <1>2, NoNewConnection DEF ServerDown, Live

LEMMA ConnectedKeepsLive ==
  ASSUME LiveInv, NEW s \in Sockets, Connected(s)
  PROVE  LiveInv'
<1>1. inbox' \in [Sockets -> Seq(Message)]
  BY ReceiveType DEF Connected, LiveInv
<1>2. outbox' \in [Sockets -> Seq(Request)]
  BY RequestTypes, SendType DEF Connected, LiveInv, TypeOK
<1>3. TypeOK'
  BY <1>1, <1>2 DEF Connected, LiveInv, TypeOK, client, app, server
<1> QED BY <1>3, NoNewConnection DEF Connected, client, Live

LEMMA EventKeepsLive ==
  ASSUME LiveInv, NEW s \in Sockets, DataEvent(s)
  PROVE  LiveInv'
<1>1. inbox' \in [Sockets -> Seq(Message)] /\ Head(inbox[s]).id \in 0..MaxEvent
  BY ReceiveType DEF DataEvent, LiveInv, Message
<1>2. outbox' \in [Sockets -> Seq(Request)]
  BY RequestTypes, SendType DEF DataEvent, LiveInv, TypeOK
<1>3. /\ progress' \in [Events -> {"none", "given", "acked", "ackDropped"}]
      /\ last' \in 0..MaxEvent /\ ackSent' \in BOOLEAN /\ owed' \in BOOLEAN
  BY <1>1 DEF DataEvent, LiveInv, TypeOK
<1>4. TypeOK'
  BY <1>1, <1>2, <1>3 DEF DataEvent, LiveInv, TypeOK, server
<1> QED BY <1>4, NoNewConnection DEF DataEvent, Live

LEMMA IntervalKeepsLive ==
  ASSUME LiveInv, NEW t \in Timers, IntervalStops(t)
  PROVE  LiveInv'
<1>1. TypeOK'
  BY DEF IntervalStops, LiveInv, TypeOK, wire, app, server
<1> QED BY <1>1, NoNewConnection DEF IntervalStops, Live

(* The connection that is renewed gives its place to the gap ... *)
LEMMA ReconnectKeepsLive ==
  ASSUME LiveInv, ReconnectFires
  PROVE  LiveInv'
<1>1. CASE ~IsConnOpen
  <2>1. UNCHANGED <<state, gap>> /\ timers' \subseteq Timers
    BY <1>1 DEF ReconnectFires, LiveInv, TypeOK
  <2>2. TypeOK'
    BY <2>1 DEF ReconnectFires, LiveInv, TypeOK, wire, app, server
  <2> QED BY <2>1, <2>2, NoNewConnection DEF ReconnectFires, Live
<1>2. CASE IsConnOpen
  <2>1. /\ created \in Nat /\ pending \in Nat /\ MaxSockets \in Nat /\ attempts \in Nat /\ TypeOK
        /\ ~gap /\ gap' /\ created + pending < MaxSockets /\ state' = Closing(conn) /\ timers' = {}
        /\ gap' \in BOOLEAN
    BY <1>2, DataStreamsAssumption DEF DataStreamsAssumption, ReconnectFires, LiveInv, TypeOK, Room, ClearAll
  <2>2. /\ state' \in [Sockets -> States]
        /\ Cardinality(LiveOf(state')) = Cardinality(Live) - 1
    BY <1>2, <2>1, OneClosed
  <2>3. TypeOK'
    BY <2>1, <2>2 DEF ReconnectFires, LiveInv, TypeOK, wire, app, server, States
  <2>4. Cardinality(Live) \in Nat
    BY LiveIsFinite DEF Live, LiveOf
  <2>5. UNCHANGED <<created, pending, attempts>>
    BY DEF ReconnectFires
  <2>6. Places' = Places
    BY <2>1, <2>2, <2>4, <2>5 DEF Places, Live, LiveOf
  <2> QED BY <2>1, <2>3, <2>5, <2>6 DEF LiveInv
<1> QED BY <1>1, <1>2

(* ... and the gap to the next one. *)
LEMMA GapKeepsLive ==
  ASSUME LiveInv, GapEnds
  PROVE  LiveInv'
<1>1. /\ created \in Nat /\ pending \in Nat /\ MaxSockets \in Nat /\ attempts \in Nat /\ TypeOK
      /\ gap /\ gap' = FALSE /\ url \in Hosts /\ state \in [Sockets -> States]
      /\ created + pending + 1 <= MaxSockets
  BY DataStreamsAssumption DEF DataStreamsAssumption, GapEnds, LiveInv, TypeOK, States
<1>2. created + pending < MaxSockets
  BY <1>1
<1>3. /\ state' \in [Sockets -> States] /\ finalHost' \in Hosts
      /\ created' \in 0..MaxSockets /\ conn' \in 0..created' /\ pending' \in 0..MaxSockets
      /\ created' + pending' <= created + pending + 1
      /\ Cardinality(LiveOf(state')) + pending' <= Cardinality(LiveOf(state)) + pending + 1
  BY <1>1, <1>2, MakeKeeps DEF GapEnds
<1>4. TypeOK'
  BY <1>1, <1>3 DEF GapEnds, LiveInv, TypeOK, wire, app, server, States
<1>5. Cardinality(LiveOf(state')) \in Nat /\ Cardinality(LiveOf(state)) \in Nat
      /\ created' \in Nat /\ pending' \in Nat
  <2>1. Cardinality(LiveOf(state')) \in Nat /\ Cardinality(LiveOf(state)) \in Nat
    BY LiveIsFinite
  <2> QED BY <1>1, <1>3, <2>1
<1>6. Places' = Cardinality(LiveOf(state')) + pending' /\ Places = Cardinality(LiveOf(state)) + pending + 1
  BY <1>1, <1>5 DEF Places, Live, LiveOf
<1>7. Places' <= Places /\ Places \in Nat /\ Places' \in Nat
  BY <1>1, <1>3, <1>5, <1>6
<1>8. created' + pending' <= MaxSockets
  <2> DEFINE N == created' + pending'
  <2>1. N \in Nat
    <3>1. created' \in Nat /\ pending' \in Nat
      BY <1>5
    <3>2. \A a, b \in Nat : a + b \in Nat
      OBVIOUS
    <3> QED BY <3>1, <3>2
  <2>2. N <= created + pending + 1
    BY <1>3
  <2> HIDE DEF N
  <2>3. N <= MaxSockets
    BY <1>1, <2>1, <2>2
  <2> QED BY <2>3 DEF N
<1>9. Places <= 1 + attempts /\ attempts' = attempts
  BY DEF LiveInv, GapEnds
<1>10. created' + pending' + 0 <= MaxSockets
  BY <1>5, <1>8
<1> QED BY <1>1, <1>4, <1>7, <1>9, <1>10 DEF LiveInv

LEMMA SendAckKeepsLive ==
  ASSUME LiveInv, SendAck
  PROVE  LiveInv'
<1>1. outbox' \in [Sockets -> Seq(Request)]
  BY RequestTypes, SendType DEF SendAck, LiveInv, TypeOK
<1>2. /\ progress' \in [Events -> {"none", "given", "acked", "ackDropped"}]
      /\ ackSent' \in BOOLEAN
  BY DEF SendAck, LiveInv, TypeOK
<1>3. TypeOK'
  BY <1>1, <1>2 DEF SendAck, LiveInv, TypeOK, server
<1> QED BY <1>3, NoNewConnection DEF SendAck, Live

LEMMA CloseKeepsLive ==
  ASSUME LiveInv, Close
  PROVE  LiveInv'
<1>1. state' \in [Sockets -> States] /\ Live' \subseteq Live
  BY OneClosed DEF Close, LiveInv, TypeOK, States, Live, LiveOf
<1>2. TypeOK'
  BY <1>1 DEF Close, ClearAll, LiveInv, TypeOK, wire, server, States
<1> QED BY <1>1, <1>2, NoNewConnection DEF Close

LEMMA UnsubscribeKeepsLive ==
  ASSUME LiveInv, Unsubscribe \/ SubscribeAgain
  PROVE  LiveInv'
<1>1. outbox' \in [Sockets -> Seq(Request)] /\ UNCHANGED <<state, client, inbox, progress, owed, closed, server>>
      /\ leave' \in {"unsubscribed", "again"}
  BY RequestTypes, SendType DEF Unsubscribe, SubscribeAgain, Subscribe, LiveInv
<1>2. TypeOK'
  BY <1>1 DEF LiveInv, TypeOK, client, server
<1> QED BY <1>1, <1>2, NoNewConnection DEF client, Live

LEMMA ServerKeepsLive ==
  ASSUME LiveInv, NEW s \in Sockets, Authenticate(s) \/ Notify(s) \/ Serve(s)
  PROVE  LiveInv'
<1>1. UNCHANGED <<state, client, app>>
  BY DEF Authenticate, Notify, Serve
<1>2. CASE Authenticate(s)
  <2>1. <<Msg("auth")>> \in Seq(Message)
    BY MessageTypes
  <2>2. inbox' \in [Sockets -> Seq(Message)]
    BY <1>2, <2>1, PushType DEF Authenticate, LiveInv
  <2>3. TypeOK'
    BY <1>2, <2>2 DEF Authenticate, LiveInv, TypeOK, client, app
  <2> QED BY <1>1, <2>3, NoNewConnection DEF client, Live
<1>3. CASE Notify(s)
  <2>1. \A type \in Notices \ {"switch"} : <<Msg(type)>> \in Seq(Message)
    BY MessageTypes, DataStreamsAssumption DEF DataStreamsAssumption
  <2>2. \A h \in Hosts : <<Switch(h)>> \in Seq(Message)
    BY MessageTypes
  <2>3. inbox' \in [Sockets -> Seq(Message)]
    BY <1>3, <2>1, <2>2, PushType DEF Notify, LiveInv
  <2>4. notices' \in 0..MaxNotices
    BY <1>3, DataStreamsAssumption DEF DataStreamsAssumption, Notify, LiveInv, TypeOK
  <2>5. TypeOK'
    BY <1>3, <2>3, <2>4 DEF Notify, LiveInv, TypeOK, client, app
  <2> QED BY <1>1, <2>5, NoNewConnection DEF client, Live
<1>4. CASE Serve(s)
  <2>1. outbox[s] \in Seq(Request) /\ outbox[s] # <<>>
    BY <1>4 DEF Serve, LiveInv, TypeOK
  <2>2. Head(outbox[s]) \in Request /\ Tail(outbox[s]) \in Seq(Request)
    BY <2>1, HeadTailProperties
  <2>3. acked' \in 0..MaxEvent
    BY <1>4, <2>2 DEF Serve, Request, LiveInv, TypeOK
  <2>4. outbox' \in [Sockets -> Seq(Request)]
    BY <1>4, <2>2 DEF Serve, LiveInv, TypeOK
  <2>5. muted' \subseteq Sockets
    BY <1>4 DEF Serve, LiveInv, TypeOK
  <2> DEFINE first == IF Head(outbox[s]).type \in {"subscribe", "resume"} THEN <<Msg("connect")>> ELSE <<>>
             next == IF Head(outbox[s]).type # "resume" /\ s \notin muted' THEN EventAfter(acked') ELSE <<>>
  <2>6. EventAfter(acked') \in Seq(Message)
    <3>1. CASE acked' < MaxEvent
      <4>1. PICK n \in 0..MaxEvent : n = acked' /\ n < MaxEvent
        BY <2>3, <3>1
      <4>2. n + 1 \in 0..MaxEvent
        <5>1. n < MaxEvent /\ MaxEvent \in Nat
          BY <4>1, DataStreamsAssumption DEF DataStreamsAssumption
        <5> QED BY <5>1
      <4>3. EventAfter(acked') = <<Event(n + 1)>>
        BY <4>1 DEF EventAfter
      <4> QED BY <4>2, <4>3, MessageTypes
    <3>2. CASE ~(acked' < MaxEvent)
      BY <3>2, EmptySeq DEF EventAfter
    <3> QED BY <3>1, <3>2
  <2>7. first \in Seq(Message) /\ next \in Seq(Message)
    BY <2>6, MessageTypes, EmptySeq
  <2>8. first \o next \in Seq(Message)
    BY <2>7, ConcatProperties
  <2>9. Push(s, first \o next)
    BY <1>4 DEF Serve
  <2> HIDE DEF first, next
  <2>10. inbox' \in [Sockets -> Seq(Message)]
    BY <2>8, <2>9, PushType DEF LiveInv
  <2>11. TypeOK'
    BY <1>4, <2>3, <2>4, <2>5, <2>10 DEF Serve, LiveInv, TypeOK, client, app
  <2> QED BY <1>1, <2>11, NoNewConnection DEF client, Live
<1> QED BY <1>2, <1>3, <1>4

LEMMA LiveStarts ==
  ASSUME Init
  PROVE  LiveInv
<1>1. MaxSockets \in Nat /\ MaxSockets >= 1 /\ created \in {0, 1} /\ conn = created /\ pending = 1 - created
  BY DataStreamsAssumption DEF DataStreamsAssumption, Init
<1>2. <<>> \in Seq(Message) /\ <<>> \in Seq(Request)
  BY EmptySeq
<1>3. TypeOK
  <2>1. /\ created \in 0..MaxSockets /\ conn \in 0..created /\ pending \in 0..MaxSockets
        /\ url \in Hosts /\ finalHost \in Hosts
    BY <1>1, DataStreamsAssumption DEF DataStreamsAssumption, Init
  <2>2. /\ state \in [Sockets -> {"none", "connecting", "open", "closing", "closed"}]
        /\ inbox \in [Sockets -> Seq(Message)] /\ outbox \in [Sockets -> Seq(Request)]
        /\ progress \in [Events -> {"none", "given", "acked", "ackDropped"}]
    BY <1>2 DEF Init
  <2>3. last \in 0..MaxEvent /\ acked \in 0..MaxEvent /\ notices \in 0..MaxNotices /\ drops \in 0..MaxDrops
    BY DataStreamsAssumption DEF DataStreamsAssumption, Init
  <2>4. /\ session = FALSE /\ isOpen = FALSE /\ ackSent = FALSE /\ reconnect = FALSE
        /\ attempts = 0 /\ timers = {} /\ gap = FALSE /\ authed = {} /\ muted = {}
        /\ owed = FALSE /\ closed = FALSE /\ leave = "no"
    BY DEF Init
  <2>5. attempts \in 0..1
    BY <2>4
  <2> QED BY <2>1, <2>2, <2>3, <2>4, <2>5 DEF TypeOK
<1>4. LiveOf(state) \subseteq {created} /\ (created = 0 => LiveOf(state) = {})
  BY <1>1 DEF Init, LiveOf, Sockets
<1>5. Cardinality(LiveOf(state)) <= created /\ Cardinality(LiveOf(state)) \in Nat
  <2>1. IsFiniteSet({created}) /\ Cardinality({created}) = 1
    BY FS_Singleton
  <2>2. Cardinality(LiveOf(state)) \in Nat
    BY LiveIsFinite
  <2>3. CASE created = 0
    BY <1>4, <2>3, FS_EmptySet
  <2>4. CASE created = 1
    <3>1. Cardinality(LiveOf(state)) <= Cardinality({created})
      BY <1>4, <2>1, FS_Subset
    <3> QED BY <2>1, <2>2, <2>4, <3>1
  <2> QED BY <1>1, <2>2, <2>3, <2>4
<1>6. Cardinality(LiveOf(state)) + pending <= 1
  BY <1>1, <1>5
<1>7. Places = Cardinality(LiveOf(state)) + pending
  BY <1>1, <1>5 DEF Init, Places, Live, LiveOf
<1> QED BY <1>1, <1>3, <1>6, <1>7 DEF LiveInv, Init

LEMMA LiveStep ==
  ASSUME LiveInv, [Next]_vars
  PROVE  LiveInv'
<1>1. CASE UNCHANGED vars
  <2>1. TypeOK'
    BY <1>1 DEF LiveInv, TypeOK, vars, client, wire, app, server
  <2> QED BY <1>1, <2>1, NoNewConnection DEF vars, client, Live
<1>2. CASE Next
  BY <1>2, ImportedKeepsLive, OpenedKeepsLive, ClosedKeepsLive, SwitchKeepsLive, ExpiredKeepsLive,
     AuthSuccessKeepsLive, DownKeepsLive, ConnectedKeepsLive, EventKeepsLive, IntervalKeepsLive,
     ReconnectKeepsLive, GapKeepsLive, SendAckKeepsLive, CloseKeepsLive, UnsubscribeKeepsLive,
     ServerKeepsLive DEF Next, Handle
<1> QED BY <1>1, <1>2

LEMMA LiveInvariant == Spec => []LiveInv
<1>1. Init => LiveInv
  BY LiveStarts
<1>2. LiveInv /\ [Next]_vars => LiveInv'
  BY LiveStep
<1> QED BY <1>1, <1>2, PTL DEF Spec

-----------------------------------------------------------------------------
(* The stream, where a socket delivers nothing after close() and the server does not
   make the client fall back. *)
InOrder == ~Node /\ "keyMismatch" \notin Notices

NoMismatch(q) == \A i \in 1..Len(q) : q[i].type # "keyMismatch"

(* The one connection that may be alive is the current one, and one that has not opened
   has neither sent nor received. *)
OnlyConn ==
  /\ Live \subseteq {conn}
  /\ gap => Live = {}
  /\ pending = 0
  /\ \A s \in Sockets : s > created => state[s] = "none"
  /\ \A s \in Sockets : state[s] \in {"none", "connecting"} => inbox[s] = <<>> /\ outbox[s] = <<>>
  /\ \A s \in Sockets : NoMismatch(inbox[s])

(* The server is at most one event behind the client, and never ahead of it. *)
ServerFollows ==
  /\ acked <= last /\ last <= acked + 1
  /\ last = 0 => ~ackSent /\ ~owed
  /\ last # 0 /\ ~ackSent => last = acked + 1
  /\ owed => ~ackSent

(* What became of each event. *)
ProgressIsLast ==
  /\ \A n \in Events : n < last => progress[n] = "acked"
  /\ \A n \in Events : n > last => progress[n] = "none"
  /\ \A n \in Events : n = last => (progress[n] = "acked" <=> ackSent) /\ progress[n] # "none"

(* An acknowledgement on its way is of an event that the application has acknowledged. *)
AcksOk(q, l, sent) ==
  \A i \in 1..Len(q) : q[i].type = "ack" => q[i].id \in 1..l /\ (q[i].id = l => sent)

(* The events on their way come in order, none before the last one received and none
   after the next one to be acknowledged. *)
EventsOk(q, l, a) ==
  /\ \A i \in 1..Len(q) : q[i].type = "event" => q[i].id \in Events /\ l <= q[i].id /\ q[i].id <= a + 1
  /\ \A i, j \in 1..Len(q) :
       i < j /\ q[i].type = "event" /\ q[j].type = "event" => q[i].id <= q[j].id

StreamInv ==
  /\ LiveInv
  /\ OnlyConn
  /\ ServerFollows
  /\ ProgressIsLast
  /\ \A s \in Sockets : AcksOk(outbox[s], last, ackSent)
  /\ \A s \in Sockets : state[s] = "open" => EventsOk(inbox[s], last, acked)

(* What a message more or less does to a queue. *)

LEMMA TailOk ==
  /\ \A q \in Seq(Request) : q # <<>> =>
       \A l, sent : AcksOk(q, l, sent) => AcksOk(Tail(q), l, sent)
  /\ \A q \in Seq(Message) : q # <<>> =>
       /\ \A l, a : EventsOk(q, l, a) => EventsOk(Tail(q), l, a)
       /\ NoMismatch(q) => NoMismatch(Tail(q))
<1>1. ASSUME NEW S, NEW q \in Seq(S), q # <<>>
      PROVE  /\ Len(q) \in Nat /\ Len(Tail(q)) \in Nat
             /\ \A i \in 1..Len(Tail(q)) : i + 1 \in 1..Len(q) /\ Tail(q)[i] = q[i + 1]
  <2>1. Len(q) \in Nat /\ Len(q) >= 1
    BY <1>1, LenProperties, EmptySeq
  <2>2. Len(Tail(q)) = Len(q) - 1 /\ \A i \in 1..Len(Tail(q)) : Tail(q)[i] = q[i + 1]
    BY <1>1, HeadTailProperties
  <2> QED BY <2>1, <2>2
<1>2. ASSUME NEW q \in Seq(Request), q # <<>>, NEW l, NEW sent, AcksOk(q, l, sent)
      PROVE  AcksOk(Tail(q), l, sent)
  BY <1>1, <1>2 DEF AcksOk
<1>3. ASSUME NEW q \in Seq(Message), q # <<>>, NEW l, NEW a, EventsOk(q, l, a)
      PROVE  EventsOk(Tail(q), l, a)
  <2>1. /\ \A i \in 1..Len(Tail(q)) : i + 1 \in 1..Len(q) /\ Tail(q)[i] = q[i + 1]
        /\ Len(Tail(q)) \in Nat
    BY <1>1, <1>3
  <2>2. \A i, j \in 1..Len(Tail(q)) : i < j => i + 1 < j + 1
    BY <2>1
  <2> QED BY <1>3, <2>1, <2>2 DEF EventsOk
<1>4. ASSUME NEW q \in Seq(Message), q # <<>>, NoMismatch(q)
      PROVE  NoMismatch(Tail(q))
  BY <1>1, <1>4 DEF NoMismatch
<1> QED BY <1>2, <1>3, <1>4

LEMMA EmptyOk ==
  NoMismatch(<<>>) /\ \A l, x : AcksOk(<<>>, l, x) /\ EventsOk(<<>>, l, x)
<1>1. Len(<<>>) = 0
  BY EmptySeq
<1> QED BY <1>1 DEF NoMismatch, AcksOk, EventsOk

LEMMA AppendOk ==
  ASSUME NEW q \in Seq(Request), NEW r \in Request, NEW l, NEW sent, AcksOk(q, l, sent),
         r.type = "ack" => r.id \in 1..l /\ (r.id = l => sent)
  PROVE  AcksOk(Append(q, r), l, sent)
<1>1. /\ Len(q) \in Nat /\ Len(Append(q, r)) = Len(q) + 1
      /\ \A i \in 1..Len(q) : Append(q, r)[i] = q[i]
      /\ Append(q, r)[Len(q) + 1] = r
  BY LenProperties, AppendProperties
<1>2. \A i \in 1..Len(Append(q, r)) : i \in 1..Len(q) \/ i = Len(q) + 1
  BY <1>1
<1> QED BY <1>1, <1>2 DEF AcksOk

LEMMA MismatchConcat ==
  ASSUME NEW q \in Seq(Message), NEW ms \in Seq(Message), NoMismatch(q),
         \A i \in 1..Len(ms) : ms[i].type # "keyMismatch"
  PROVE  NoMismatch(q \o ms)
BY LenProperties, ConcatProperties DEF NoMismatch

LEMMA PushOk ==
  ASSUME NEW q \in Seq(Message), NEW ms \in Seq(Message), NEW l \in Nat, NEW a \in Nat, NEW a2 \in Nat,
         EventsOk(q, l, a), NoMismatch(q), a <= a2, l <= a2 + 1,
         \A i \in 1..Len(ms) : /\ ms[i].type # "keyMismatch"
                               /\ ms[i].type = "event" => ms[i].id \in Events /\ ms[i].id = a2 + 1
  PROVE  EventsOk(q \o ms, l, a2) /\ NoMismatch(q \o ms)
<1> DEFINE all == q \o ms
<1>1. Len(q) \in Nat /\ Len(ms) \in Nat
  BY LenProperties
<1>2. /\ Len(all) = Len(q) + Len(ms)
      /\ \A i \in 1..Len(all) : all[i] = IF i <= Len(q) THEN q[i] ELSE ms[i - Len(q)]
  BY ConcatProperties
<1> HIDE DEF all
<1>3. \A i \in 1..Len(all) : \/ i \in 1..Len(q) /\ all[i] = q[i]
                             \/ i > Len(q) /\ i - Len(q) \in 1..Len(ms) /\ all[i] = ms[i - Len(q)]
  BY <1>1, <1>2
<1>4. NoMismatch(all)
  BY <1>3 DEF NoMismatch
<1>5. \A i \in 1..Len(q) : q[i].type = "event" => q[i].id \in Nat /\ l <= q[i].id /\ q[i].id <= a2 + 1 /\ q[i].id \in Events
  BY DEF EventsOk, Events
<1>6. \A i \in 1..Len(all) : all[i].type = "event" =>
        all[i].id \in Events /\ l <= all[i].id /\ all[i].id <= a2 + 1
  <2>1. ASSUME NEW i \in 1..Len(all), all[i].type = "event"
        PROVE  all[i].id \in Events /\ l <= all[i].id /\ all[i].id <= a2 + 1
    <3>1. CASE i \in 1..Len(q) /\ all[i] = q[i]
      BY <1>5, <2>1, <3>1
    <3>2. CASE i > Len(q) /\ i - Len(q) \in 1..Len(ms) /\ all[i] = ms[i - Len(q)]
      <4>1. all[i].id \in Events /\ all[i].id = a2 + 1
        BY <2>1, <3>2
      <4> QED BY <4>1
    <3> QED BY <1>3, <2>1, <3>1, <3>2
  <2> QED BY <2>1
<1>7. ASSUME NEW i \in 1..Len(all), NEW j \in 1..Len(all),
             i < j, all[i].type = "event", all[j].type = "event"
      PROVE  all[i].id <= all[j].id
  <2>1. CASE j \in 1..Len(q)
    <3>1. i \in 1..Len(q) /\ all[i] = q[i] /\ all[j] = q[j]
      BY <1>1, <1>2, <1>7, <2>1
    <3> QED BY <1>7, <2>1, <3>1 DEF EventsOk
  <2>2. CASE j \notin 1..Len(q)
    <3>1. all[j].id = a2 + 1
      BY <1>3, <1>7, <2>2
    <3> QED BY <1>6, <1>7, <3>1
  <2> QED BY <2>1, <2>2
<1>8. EventsOk(all, l, a2)
  BY <1>6, <1>7 DEF EventsOk
<1> QED BY <1>4, <1>8 DEF all

(* An action in one step, for a handler that leaves the stream alone: what it may do to
   each socket and to what is on its way. *)
Moves(s) ==
  \/ state'[s] = state[s]
  \/ state[s] = "open" /\ state'[s] = "closing"
  \/ state[s] = "connecting" /\ state'[s] = "open"
  \/ state[s] # "none" /\ state'[s] = "closed"

Receives(s) ==
  \/ inbox'[s] = inbox[s]
  \/ inbox'[s] = <<>>
  \/ inbox[s] # <<>> /\ inbox'[s] = Tail(inbox[s])
  \/ state'[s] = "open" /\ \E m \in Message :
       m.type \notin {"event", "keyMismatch"} /\ inbox'[s] = inbox[s] \o <<m>>

Sends(s) ==
  \/ outbox'[s] = outbox[s]
  \/ outbox'[s] = <<>>
  \/ state'[s] = "open" /\ \E r \in Request :
       r.type # "ack" /\ outbox'[s] = Append(outbox[s], r)

Stream == <<last, acked, ackSent, owed, progress>>

LEMMA StreamTypes ==
  ASSUME StreamInv
  PROVE  /\ TypeOK
         /\ last \in Nat /\ acked \in Nat /\ created \in Nat /\ MaxSockets \in Nat
         /\ acked <= last /\ last <= acked + 1
BY DataStreamsAssumption DEF DataStreamsAssumption, StreamInv, ServerFollows, LiveInv, TypeOK

(* The queues after such a step. *)
LEMMA QueuesOk ==
  ASSUME StreamInv, NEW s \in Sockets, Moves(s), Receives(s), Sends(s)
  PROVE  /\ NoMismatch(inbox'[s])
         /\ AcksOk(outbox'[s], last, ackSent)
         /\ state'[s] = "open" => EventsOk(inbox'[s], last, acked)
         /\ state'[s] \in {"none", "connecting"} => inbox'[s] = <<>> /\ outbox'[s] = <<>>
<1>1. /\ inbox[s] \in Seq(Message) /\ outbox[s] \in Seq(Request)
      /\ NoMismatch(inbox[s]) /\ AcksOk(outbox[s], last, ackSent)
      /\ state[s] \in {"none", "connecting"} => inbox[s] = <<>> /\ outbox[s] = <<>>
      /\ last \in Nat /\ acked \in Nat /\ last <= acked + 1
  BY StreamTypes DEF StreamInv, OnlyConn, TypeOK
<1>2. state'[s] = "open" => EventsOk(inbox[s], last, acked)
  <2>1. CASE state[s] = "open"
    BY <2>1 DEF StreamInv
  <2>2. CASE state[s] = "connecting"
    BY <1>1, <2>2, EmptyOk
  <2> QED BY <2>1, <2>2 DEF Moves
<1>3. AcksOk(outbox'[s], last, ackSent)
  <2>1. CASE outbox'[s] = outbox[s] \/ outbox'[s] = <<>>
    BY <1>1, <2>1, EmptyOk
  <2>2. ASSUME NEW r \in Request, r.type # "ack", outbox'[s] = Append(outbox[s], r)
        PROVE  AcksOk(outbox'[s], last, ackSent)
    BY <1>1, <2>2, AppendOk
  <2> QED BY <2>1, <2>2 DEF Sends
<1>4. NoMismatch(inbox'[s]) /\ (state'[s] = "open" => EventsOk(inbox'[s], last, acked))
  <2>1. CASE inbox'[s] = inbox[s] \/ inbox'[s] = <<>>
    BY <1>1, <1>2, <2>1, EmptyOk
  <2>2. CASE inbox[s] # <<>> /\ inbox'[s] = Tail(inbox[s])
    BY <1>1, <1>2, <2>2, TailOk
  <2>3. ASSUME state'[s] = "open", NEW m \in Message, m.type \notin {"event", "keyMismatch"},
               inbox'[s] = inbox[s] \o <<m>>
        PROVE  NoMismatch(inbox'[s]) /\ EventsOk(inbox'[s], last, acked)
    <3>1. /\ <<m>> \in Seq(Message)
          /\ \A i \in 1..Len(<<m>>) : /\ <<m>>[i].type # "keyMismatch"
                                      /\ <<m>>[i].type = "event" => <<m>>[i].id \in Events /\ <<m>>[i].id = acked + 1
      BY <2>3
    <3>2. EventsOk(inbox[s], last, acked)
      BY <1>2, <2>3
    <3>3. PICK ms \in Seq(Message) :
            /\ ms = <<m>>
            /\ \A i \in 1..Len(ms) : /\ ms[i].type # "keyMismatch"
                                     /\ ms[i].type = "event" => ms[i].id \in Events /\ ms[i].id = acked + 1
      BY <3>1
    <3>4. inbox[s] \in Seq(Message) /\ last \in Nat /\ acked \in Nat /\ last <= acked + 1
          /\ acked <= acked /\ NoMismatch(inbox[s])
      BY <1>1
    <3>5. EventsOk(inbox[s] \o ms, last, acked) /\ NoMismatch(inbox[s] \o ms)
      BY <3>2, <3>3, <3>4, PushOk
    <3> QED BY <2>3, <3>3, <3>5
  <2> QED BY <2>1, <2>2, <2>3 DEF Receives
<1>5. state'[s] \in {"none", "connecting"} => inbox'[s] = <<>> /\ outbox'[s] = <<>>
  <2>1. ASSUME state'[s] \in {"none", "connecting"}
        PROVE  inbox'[s] = <<>> /\ outbox'[s] = <<>>
    <3>1. state[s] = state'[s]
      BY <2>1 DEF Moves
    <3> QED BY <1>1, <2>1, <3>1 DEF Receives, Sends
  <2> QED BY <2>1
<1> QED BY <1>3, <1>4, <1>5

LEMMA WireStep ==
  ASSUME StreamInv, LiveInv', UNCHANGED <<conn, created, pending>>, UNCHANGED Stream,
         gap' => gap \/ Live' = {},
         \A s \in Sockets : Moves(s) /\ Receives(s) /\ Sends(s)
  PROVE  StreamInv'
<1>1. /\ last' = last /\ acked' = acked /\ ackSent' = ackSent /\ owed' = owed /\ progress' = progress
      /\ conn' = conn /\ created' = created /\ pending' = pending
  BY DEF Stream
<1>2. ServerFollows' /\ ProgressIsLast'
  BY <1>1 DEF StreamInv, ServerFollows, ProgressIsLast
<1>3. Live' \subseteq Live
  BY DEF Moves, Live
<1>4. gap' => Live' = {}
  BY <1>3 DEF StreamInv, OnlyConn
<1>5. \A s \in Sockets : s > created => state'[s] = "none"
  BY DEF StreamInv, OnlyConn, Moves
<1>6. OnlyConn'
  BY <1>1, <1>3, <1>4, <1>5, QueuesOk DEF StreamInv, OnlyConn
<1> QED BY <1>1, <1>2, <1>6, QueuesOk DEF StreamInv

(* A handler that renews the connection. *)
LEMMA RenewStep ==
  ASSUME StreamInv, LiveInv', UNCHANGED pending, UNCHANGED Stream, ~gap', outbox' = outbox,
         NEW states \in [Sockets -> States], LiveOf(states) = {}, created < MaxSockets,
         \A s \in Sockets : states[s] # state[s] => state[s] # "none" /\ states[s] # "none",
         Construct(states),
         \A s \in Sockets : inbox'[s] = inbox[s] \/ (inbox[s] # <<>> /\ inbox'[s] = Tail(inbox[s]))
  PROVE  StreamInv'
<1>1. /\ last' = last /\ acked' = acked /\ ackSent' = ackSent /\ owed' = owed /\ progress' = progress
      /\ pending' = pending
  BY DEF Stream
<1>2. ServerFollows' /\ ProgressIsLast'
  BY <1>1 DEF StreamInv, ServerFollows, ProgressIsLast
<1>3. created \in Nat /\ TypeOK
  BY StreamTypes
<1>4. /\ created' = created + 1 /\ conn' = created + 1
      /\ LiveOf(state') \subseteq LiveOf(states) \cup {created + 1}
      /\ \A s \in Sockets : state'[s] = IF s = created + 1 THEN "connecting" ELSE states[s]
  BY <1>3, ConstructKeeps
<1>5. Live' \subseteq {conn'}
  BY <1>4 DEF Live, LiveOf
<1>6. \A s \in Sockets : s > created => state[s] = "none"
  BY DEF StreamInv, OnlyConn
<1>7. \A s \in Sockets : s > created' => state'[s] = "none"
  <2>1. ASSUME NEW s \in Sockets, s > created + 1
        PROVE  state'[s] = "none"
    <3>1. s > created /\ s # created + 1
      BY <1>3, <2>1 DEF Sockets
    <3> QED BY <1>4, <1>6, <3>1
  <2> QED BY <1>4, <2>1
<1>8. \A s \in Sockets : NoMismatch(inbox'[s]) /\ (inbox[s] = <<>> => inbox'[s] = <<>>)
  <2>1. \A s \in Sockets : inbox[s] \in Seq(Message) /\ NoMismatch(inbox[s])
    BY <1>3 DEF StreamInv, OnlyConn, TypeOK
  <2> QED BY <2>1, TailOk
<1>9. \A s \in Sockets : state'[s] \in {"none", "connecting"} => state[s] \in {"none", "connecting"}
  <2>1. ASSUME NEW s \in Sockets, state'[s] \in {"none", "connecting"}
        PROVE  state[s] \in {"none", "connecting"}
    <3>1. CASE s = created + 1
      <4>1. s > created
        BY <1>3, <3>1
      <4> QED BY <1>6, <4>1
    <3>2. CASE s # created + 1
      BY <1>4, <2>1, <3>2 DEF LiveOf
    <3> QED BY <3>1, <3>2
  <2> QED BY <2>1
<1>10. \A s \in Sockets : state'[s] \in {"none", "connecting"} => inbox'[s] = <<>> /\ outbox'[s] = <<>>
  BY <1>8, <1>9 DEF StreamInv, OnlyConn
<1>11. OnlyConn'
  BY <1>1, <1>5, <1>7, <1>8, <1>10 DEF StreamInv, OnlyConn
<1>12. \A s \in Sockets : state'[s] # "open"
  BY <1>4 DEF LiveOf
<1> QED BY <1>1, <1>2, <1>11, <1>12 DEF StreamInv

-----------------------------------------------------------------------------
(* Each action keeps StreamInv.  The next state is well-typed, as LiveStep shows. *)

LEMMA SendSends ==
  ASSUME TypeOK, NEW r \in Request, r.type # "ack", Send(r), conn \in Sockets => state'[conn] = "open"
  PROVE  \A s \in Sockets : Sends(s)
BY DEF Send, Sends, TypeOK

LEMMA ReceiveReceives ==
  ASSUME TypeOK, NEW s \in Sockets, NEW type, Receive(s, type)
  PROVE  /\ \A t \in Sockets : Receives(t)
         /\ \A t \in Sockets : inbox'[t] = inbox[t] \/ (inbox[t] # <<>> /\ inbox'[t] = Tail(inbox[t]))
BY DEF Receive, Receives, TypeOK

LEMMA PushReceives ==
  ASSUME TypeOK, NEW s \in Sockets, NEW m \in Message, m.type \notin {"event", "keyMismatch"},
         Push(s, <<m>>), state'[s] = "open"
  PROVE  \A t \in Sockets : Receives(t)
BY DEF Push, Receives, TypeOK

LEMMA OpenedKeepsStream ==
  ASSUME StreamInv, LiveInv', NEW s \in Sockets, Opened(s)
  PROVE  StreamInv'
<1>1. s \in Live /\ s = conn
  BY DEF StreamInv, OnlyConn, Opened, Live
<1>2. state' = [state EXCEPT ![s] = "open"] /\ TypeOK
  BY StreamTypes DEF Opened
<1>3. \A t \in Sockets : Moves(t)
  BY <1>2 DEF Moves, Opened, TypeOK
<1>4. \A t \in Sockets : Sends(t)
  <2>1. state'[conn] = "open"
    BY <1>1, <1>2 DEF TypeOK
  <2>2. CASE Send(Req("resume", 0))
    BY <1>2, <2>1, <2>2, RequestTypes, SendSends DEF Req
  <2>3. CASE UNCHANGED outbox
    BY <2>3 DEF Sends
  <2> QED BY <2>2, <2>3 DEF Opened
<1>5. \A t \in Sockets : Receives(t)
  BY DEF Opened, Receives
<1> QED BY <1>3, <1>4, <1>5, WireStep DEF Opened, Stream, app, server

LEMMA ClosedKeepsStream ==
  ASSUME StreamInv, LiveInv', NEW s \in Sockets, Closed(s)
  PROVE  StreamInv'
<1>1. TypeOK
  BY StreamTypes
<1>2. \A t \in Sockets : Moves(t) /\ Receives(t) /\ Sends(t)
  BY <1>1 DEF Closed, Moves, Receives, Sends, TypeOK
<1> QED BY <1>2, WireStep DEF Closed, Stream, app

LEMMA ClosingMoves ==
  ASSUME TypeOK, IsConnOpen, NEW states, states = Closing(conn)
  PROVE  \A s \in Sockets : states[s] = state[s] \/ (state[s] = "open" /\ states[s] = "closing")
BY DEF TypeOK, IsConnOpen, Closing

LEMMA SwitchKeepsStream ==
  ASSUME InOrder, StreamInv, LiveInv', NEW s \in Sockets, SwitchUrl(s)
  PROVE  StreamInv'
<1>1. TypeOK /\ ~Node
  BY StreamTypes DEF InOrder
<1>2. \A t \in Sockets : Receives(t)
  BY <1>1, ReceiveReceives DEF SwitchUrl
<1>3. outbox' = outbox /\ UNCHANGED Stream /\ gap' = gap /\ \A t \in Sockets : Sends(t)
  BY DEF SwitchUrl, Stream, app, server, Sends
<1>4. CASE ~IsConnOpen
  <2>1. UNCHANGED <<state, created, conn, pending>> /\ \A t \in Sockets : Moves(t)
    BY <1>4 DEF SwitchUrl, Moves
  <2> QED BY <1>2, <1>3, <2>1, WireStep
<1>5. CASE IsConnOpen /\ ~session
  <2>1. state' = Closing(conn) /\ UNCHANGED <<created, conn, pending>>
    BY <1>5 DEF SwitchUrl, MakeNewConnection
  <2>2. \A t \in Sockets : Moves(t)
    BY <1>1, <1>5, <2>1, ClosingMoves DEF Moves
  <2> QED BY <1>2, <1>3, <2>1, <2>2, WireStep
<1>6. CASE IsConnOpen /\ session
  <2>1. Room /\ Construct(Closing(conn)) /\ UNCHANGED pending
    BY <1>1, <1>6 DEF SwitchUrl, MakeNewConnection, CreateWebSocketConnection
  <2>2. created < MaxSockets
    <3>1. created \in Nat /\ MaxSockets \in Nat /\ pending = 0 /\ (IF gap THEN 1 ELSE 0) \in Nat
      BY StreamTypes DEF StreamInv, OnlyConn
    <3> QED BY <2>1, <3>1 DEF Room
  <2>3. /\ Closing(conn) \in [Sockets -> States]
        /\ LiveOf(Closing(conn)) = Live \ {conn} /\ conn \in Live
    BY <1>1, <1>6, OneClosed DEF IsConnOpen, Live
  <2>4. LiveOf(Closing(conn)) = {} /\ ~gap
    BY <2>3 DEF StreamInv, OnlyConn
  <2>5. \A t \in Sockets : Closing(conn)[t] # state[t] => state[t] # "none" /\ Closing(conn)[t] # "none"
    BY <1>1, <1>6, ClosingMoves
  <2>6. \A t \in Sockets : inbox'[t] = inbox[t] \/ (inbox[t] # <<>> /\ inbox'[t] = Tail(inbox[t]))
    BY <1>1, ReceiveReceives DEF SwitchUrl
  <2> QED BY <1>3, <2>1, <2>2, <2>3, <2>4, <2>5, <2>6, RenewStep
<1> QED BY <1>4, <1>5, <1>6

LEMMA ExpiredNever ==
  ASSUME StreamInv, NEW s \in Sockets, SessionExpired(s)
  PROVE  FALSE
<1>1. inbox[s] \in Seq(Message) /\ inbox[s] # <<>> /\ Head(inbox[s]).type = "keyMismatch" /\ NoMismatch(inbox[s])
  BY StreamTypes DEF SessionExpired, Receive, StreamInv, OnlyConn, TypeOK
<1>2. Head(inbox[s]) = inbox[s][1] /\ Len(inbox[s]) \in Nat /\ Len(inbox[s]) >= 1
  BY <1>1, HeadTailProperties, LenProperties, EmptySeq
<1> QED BY <1>1, <1>2 DEF NoMismatch

LEMMA AuthSuccessKeepsStream ==
  ASSUME StreamInv, LiveInv', NEW s \in Sockets, AuthSuccess(s)
  PROVE  StreamInv'
<1>1. TypeOK
  BY StreamTypes
<1>2. \A t \in Sockets : Receives(t)
  BY <1>1, ReceiveReceives DEF AuthSuccess
<1>3. \A t \in Sockets : Moves(t)
  BY <1>1, ClosingMoves DEF AuthSuccess, Moves
<1>4. \A t \in Sockets : Sends(t)
  <2>1. CASE UNCHANGED outbox
    BY <2>1 DEF Sends
  <2>2. CASE Send(Req("subscribe", 0)) /\ IsConnOpen /\ UNCHANGED state
    BY <1>1, <2>2, RequestTypes, SendSends DEF Req, IsConnOpen
  <2> QED BY <2>1, <2>2 DEF AuthSuccess, Subscribe
<1> QED BY <1>2, <1>3, <1>4, WireStep DEF AuthSuccess, Stream, server

LEMMA MessageKeepsStream ==
  ASSUME StreamInv, LiveInv', NEW s \in Sockets, ServerDown(s) \/ Connected(s)
  PROVE  StreamInv'
<1>1. TypeOK
  BY StreamTypes
<1>2. \A t \in Sockets : Receives(t)
  BY <1>1, ReceiveReceives DEF ServerDown, Connected
<1>3. UNCHANGED <<state, conn, pending, created, gap>> /\ UNCHANGED Stream
  BY DEF ServerDown, Connected, client, app, server, Stream
<1>4. \A t \in Sockets : Moves(t)
  BY <1>3 DEF Moves
<1>5. \A t \in Sockets : Sends(t)
  <2>1. CASE UNCHANGED outbox
    BY <2>1 DEF Sends
  <2>2. CASE Send(Req("ackResume", 0)) /\ IsConnOpen
    BY <1>1, <1>3, <2>2, RequestTypes, SendSends DEF Req, IsConnOpen
  <2> QED BY <2>1, <2>2 DEF ServerDown, Connected
<1> QED BY <1>2, <1>3, <1>4, <1>5, WireStep

LEMMA TimersKeepStream ==
  ASSUME StreamInv, LiveInv', ReconnectFires \/ Close \/ \E t \in Timers : IntervalStops(t)
  PROVE  StreamInv'
<1>1. TypeOK
  BY StreamTypes
<1>2. /\ UNCHANGED <<conn, pending, created, inbox, outbox>> /\ UNCHANGED Stream
      /\ state' = state \/ (IsConnOpen /\ state' = Closing(conn))
  BY DEF ReconnectFires, Close, IntervalStops, wire, app, server, Stream
<1>3. \A s \in Sockets : Moves(s) /\ Receives(s) /\ Sends(s)
  BY <1>1, <1>2, ClosingMoves DEF Moves, Receives, Sends
<1>4. gap' => gap \/ Live' = {}
  <2>1. CASE ReconnectFires /\ IsConnOpen
    <3>1. LiveOf(state') = Live \ {conn}
      BY <1>1, <2>1, OneClosed DEF ReconnectFires
    <3> QED BY <3>1 DEF StreamInv, OnlyConn, Live, LiveOf
  <2> QED BY <2>1 DEF ReconnectFires, Close, IntervalStops
<1> QED BY <1>2, <1>3, <1>4, WireStep

LEMMA GapKeepsStream ==
  ASSUME InOrder, StreamInv, LiveInv', GapEnds
  PROVE  StreamInv'
<1>1. /\ TypeOK /\ ~Node /\ gap /\ gap' = FALSE /\ UNCHANGED <<inbox, outbox>> /\ UNCHANGED Stream
      /\ LiveOf(state) = {} /\ pending = 0 /\ created + pending + 1 <= MaxSockets
      /\ state \in [Sockets -> States]
  BY StreamTypes DEF InOrder, StreamInv, LiveInv, OnlyConn, GapEnds, wire, app, server, Stream, Live, LiveOf,
     TypeOK, States
<1>2. CASE session
  <2>1. CASE finalHost' = url
    <3>1. Construct(state) /\ UNCHANGED pending
      BY <1>1, <1>2 DEF GapEnds, MakeNewConnection, CreateWebSocketConnection
    <3>2. created < MaxSockets
      BY <1>1, StreamTypes
    <3> QED BY <1>1, <3>1, <3>2, RenewStep
  <2> QED BY <1>2, <2>1 DEF GapEnds, MakeNewConnection
<1>3. CASE ~session
  <2>1. UNCHANGED <<state, conn, created, pending>>
    BY <1>3 DEF GapEnds, MakeNewConnection
  <2>2. \A s \in Sockets : Moves(s) /\ Receives(s) /\ Sends(s)
    BY <1>1, <2>1 DEF Moves, Receives, Sends
  <2> QED BY <1>1, <2>1, <2>2, WireStep
<1> QED BY <1>2, <1>3

LEMMA UnsubscribeKeepsStream ==
  ASSUME StreamInv, LiveInv', Unsubscribe \/ SubscribeAgain
  PROVE  StreamInv'
<1>1. TypeOK /\ IsConnOpen /\ UNCHANGED <<state, conn, pending, created, gap, inbox>> /\ UNCHANGED Stream
  BY StreamTypes DEF Unsubscribe, SubscribeAgain, client, server, Stream
<1>2. \A s \in Sockets : Moves(s) /\ Receives(s)
  BY <1>1 DEF Moves, Receives
<1>3. \A s \in Sockets : Sends(s)
  <2>1. PICK type \in {"subscribe", "unsubscribe"} : Send(Req(type, 0))
    BY DEF Unsubscribe, SubscribeAgain, Subscribe
  <2>2. Req(type, 0) \in Request /\ Req(type, 0).type # "ack"
    BY RequestTypes DEF Req
  <2> QED BY <1>1, <2>1, <2>2, SendSends DEF IsConnOpen
<1> QED BY <1>1, <1>2, <1>3, WireStep

LEMMA NoticeKeepsStream ==
  ASSUME InOrder, StreamInv, LiveInv', NEW s \in Sockets, Authenticate(s) \/ Notify(s)
  PROVE  StreamInv'
<1>1. TypeOK /\ state[s] = "open" /\ UNCHANGED <<state, conn, pending, created, gap, outbox>> /\ UNCHANGED Stream
  BY StreamTypes DEF Authenticate, Notify, client, app, Stream
<1>2. \A t \in Sockets : Moves(t) /\ Sends(t)
  BY <1>1 DEF Moves, Sends
<1>3. PICK m \in Message : m.type \notin {"event", "keyMismatch"} /\ Push(s, <<m>>)
  <2>1. CASE Authenticate(s)
    BY <2>1, MessageTypes DEF Authenticate, Msg
  <2>2. ASSUME NEW type \in Notices \ {"switch"}, Push(s, <<Msg(type)>>)
        PROVE  \E m \in Message : m.type \notin {"event", "keyMismatch"} /\ Push(s, <<m>>)
    <3>1. type = "down"
      BY <2>2, DataStreamsAssumption DEF DataStreamsAssumption, InOrder
    <3>2. Msg(type) \in Message /\ Msg(type).type \notin {"event", "keyMismatch"}
      BY <3>1, MessageTypes DEF Msg
    <3> QED BY <2>2, <3>2
  <2>3. ASSUME NEW h \in Hosts, Push(s, <<Switch(h)>>)
        PROVE  \E m \in Message : m.type \notin {"event", "keyMismatch"} /\ Push(s, <<m>>)
    <3>1. Switch(h) \in Message /\ Switch(h).type \notin {"event", "keyMismatch"}
      BY MessageTypes DEF Switch
    <3> QED BY <2>3, <3>1
  <2> QED BY <2>1, <2>2, <2>3 DEF Notify
<1>4. \A t \in Sockets : Receives(t)
  BY <1>1, <1>3, PushReceives
<1> QED BY <1>1, <1>2, <1>4, WireStep

(* The application acknowledges the last event. *)
LEMMA SendAckKeepsStream ==
  ASSUME StreamInv, LiveInv', SendAck
  PROVE  StreamInv'
<1>1. /\ TypeOK /\ last \in Nat /\ last # 0 /\ last \in Events /\ ~ackSent /\ last = acked + 1
      /\ UNCHANGED <<state, conn, pending, created, gap, inbox, last, acked>> /\ owed' = FALSE
  BY StreamTypes, DataStreamsAssumption
     DEF DataStreamsAssumption, SendAck, StreamInv, ServerFollows, server, TypeOK, Events
<1>2. OnlyConn' <=> \A s \in Sockets : state[s] \in {"none", "connecting"} => outbox'[s] = <<>>
  BY <1>1 DEF StreamInv, OnlyConn, Live
<1>3. \A s \in Sockets : state'[s] = "open" => EventsOk(inbox'[s], last', acked')
  BY <1>1 DEF StreamInv
<1>4. CASE IsConnOpen
  <2>1. /\ Send(Req("ack", last)) /\ ackSent' = TRUE
        /\ progress' = [progress EXCEPT ![last] = "acked"]
    BY <1>4 DEF SendAck
  <2>2. Req("ack", last) \in Request /\ Req("ack", last).id = last
    BY <1>1, RequestTypes DEF TypeOK, Req
  <2>3. \A s \in Sockets : outbox'[s] = outbox[s] \/ (s = conn /\ outbox'[s] = Append(outbox[s], Req("ack", last)))
    BY <1>1, <2>1 DEF Send, TypeOK
  <2>4. OnlyConn'
    BY <1>2, <1>4, <2>3 DEF IsConnOpen, StreamInv, OnlyConn
  <2>5. \A s \in Sockets : AcksOk(outbox[s], last, TRUE)
    BY DEF StreamInv, AcksOk
  <2>6. ASSUME NEW s \in Sockets
        PROVE  AcksOk(outbox'[s], last, TRUE)
    <3>1. outbox[s] \in Seq(Request) /\ last \in 1..last
      BY <1>1 DEF TypeOK
    <3>2. AcksOk(Append(outbox[s], Req("ack", last)), last, TRUE)
      BY <2>2, <2>5, <3>1, AppendOk
    <3> QED BY <2>3, <2>5, <3>2
  <2>7. ServerFollows'
    BY <1>1, <2>1 DEF StreamInv, ServerFollows
  <2>8. ProgressIsLast'
    BY <1>1, <2>1 DEF StreamInv, ProgressIsLast, TypeOK, Events
  <2> QED BY <1>1, <1>3, <2>1, <2>4, <2>6, <2>7, <2>8 DEF StreamInv
<1>5. CASE ~IsConnOpen
  <2>1. UNCHANGED <<outbox, ackSent>> /\ progress' = [progress EXCEPT ![last] = "ackDropped"]
    BY <1>5 DEF SendAck
  <2>2. OnlyConn'
    BY <1>2, <2>1 DEF StreamInv, OnlyConn
  <2>3. ServerFollows' /\ \A s \in Sockets : AcksOk(outbox'[s], last', ackSent')
    BY <1>1, <2>1 DEF StreamInv, ServerFollows
  <2>4. ProgressIsLast'
    BY <1>1, <2>1 DEF StreamInv, ProgressIsLast, TypeOK, Events
  <2> QED BY <1>3, <2>2, <2>3, <2>4 DEF StreamInv
<1> QED BY <1>4, <1>5

(* The event at the head of the one connection that is open: the last one again, or the
   next one, which the server sends only after the acknowledgement of the last. *)
LEMMA HeadEvent ==
  ASSUME InOrder, StreamInv, NEW s \in Sockets, Receive(s, "event")
  PROVE  /\ s = conn /\ IsConnOpen
         /\ Head(inbox[s]).id \in Events
         /\ EventsOk(Tail(inbox[s]), Head(inbox[s]).id, acked)
         /\ \/ Head(inbox[s]).id = last
            \/ Head(inbox[s]).id = last + 1 /\ acked = last /\ (last = 0 \/ ackSent)
<1> DEFINE q == inbox[s]
           n == Head(q).id
<1>1. q \in Seq(Message) /\ q # <<>> /\ Head(q).type = "event" /\ state[s] = "open"
  BY StreamTypes DEF Receive, InOrder, TypeOK
<1>2. EventsOk(q, last, acked) /\ last \in Nat /\ acked \in Nat /\ acked <= last /\ last <= acked + 1
  BY <1>1, StreamTypes DEF StreamInv
<1>3. /\ Len(q) \in Nat /\ Len(q) >= 1 /\ Head(q) = q[1]
      /\ Len(Tail(q)) = Len(q) - 1 /\ \A i \in 1..Len(Tail(q)) : Tail(q)[i] = q[i + 1]
  BY <1>1, HeadTailProperties, LenProperties, EmptySeq
<1>4. s = conn /\ IsConnOpen
  <2>1. s = conn
    BY <1>1 DEF StreamInv, OnlyConn, Live
  <2> QED BY <1>1, <2>1, DataStreamsAssumption DEF DataStreamsAssumption, IsConnOpen, Sockets
<1> HIDE DEF q
<1>5. 1 \in 1..Len(q)
  BY <1>3
<1>6. n \in Events /\ last <= n /\ n <= acked + 1 /\ n \in Nat
  BY <1>1, <1>2, <1>3, <1>5 DEF EventsOk, Events
<1>7. EventsOk(Tail(q), n, acked)
  <2>1. EventsOk(Tail(q), last, acked)
    BY <1>1, <1>2, TailOk
  <2>2. ASSUME NEW i \in 1..Len(Tail(q)), Tail(q)[i].type = "event"
        PROVE  n <= Tail(q)[i].id
    <3>1. i + 1 \in 1..Len(q) /\ Tail(q)[i] = q[i + 1] /\ 1 < i + 1
      BY <1>3, <2>2
    <3> QED BY <1>1, <1>2, <1>3, <1>5, <2>2, <3>1 DEF EventsOk
  <2> QED BY <2>1, <2>2 DEF EventsOk
<1>8. \/ n = last
      \/ n = last + 1 /\ acked = last /\ (last = 0 \/ ackSent)
  <2>1. n = last \/ (n = last + 1 /\ acked = last)
    BY <1>2, <1>6
  <2>2. acked = last /\ last # 0 => ackSent
    BY <1>2 DEF StreamInv, ServerFollows
  <2> QED BY <2>1, <2>2
<1> QED BY <1>4, <1>6, <1>7, <1>8 DEF q

LEMMA EventKeepsStream ==
  ASSUME InOrder, StreamInv, LiveInv', NEW s \in Sockets, DataEvent(s)
  PROVE  StreamInv'
<1> DEFINE n == Head(inbox[s]).id
<1>1. /\ s = conn /\ IsConnOpen /\ n \in Events /\ n \in Nat
      /\ EventsOk(Tail(inbox[s]), n, acked)
      /\ (n = last \/ (n = last + 1 /\ acked = last /\ (last = 0 \/ ackSent)))
  <2>1. Receive(s, "event")
    BY DEF DataEvent
  <2>2. \A e \in Events : e \in Nat
    BY DEF Events
  <2> QED BY <2>1, <2>2, HeadEvent
<1>2. /\ TypeOK /\ last \in Nat /\ acked \in Nat /\ acked <= last /\ last <= acked + 1
      /\ UNCHANGED <<state, conn, pending, created, gap, acked>>
  BY StreamTypes DEF DataEvent, server
<1>3. /\ \A t \in Sockets : t # s => inbox'[t] = inbox[t] /\ state[t] # "open"
      /\ inbox'[s] = Tail(inbox[s]) /\ inbox[s] # <<>> /\ state[s] = "open"
  BY <1>1, <1>2 DEF DataEvent, Receive, TypeOK, IsConnOpen, StreamInv, OnlyConn, Live
<1>4. \A t \in Sockets : NoMismatch(inbox'[t])
  BY <1>2, <1>3, TailOk DEF StreamInv, OnlyConn, TypeOK
<1>5. OnlyConn' <=> \A t \in Sockets : state[t] \in {"none", "connecting"} => outbox'[t] = <<>>
  BY <1>2, <1>3, <1>4 DEF StreamInv, OnlyConn, Live
<1> HIDE DEF n
<1>6. CASE n = last /\ ackSent
  <2>1. Send(Req("ack", last)) /\ UNCHANGED <<ackSent, last, progress, owed>>
    BY <1>1, <1>6 DEF DataEvent, AcksAgain, n
  <2>2. Req("ack", last) \in Request /\ Req("ack", last).id = last
    BY <1>2, RequestTypes DEF TypeOK, Req
  <2>3. \A t \in Sockets : outbox'[t] = outbox[t] \/ (t = conn /\ outbox'[t] = Append(outbox[t], Req("ack", last)))
    BY <1>2, <2>1 DEF Send, TypeOK
  <2>4. OnlyConn'
    BY <1>1, <1>5, <2>3 DEF IsConnOpen, StreamInv, OnlyConn
  <2>5. ASSUME NEW t \in Sockets
        PROVE  AcksOk(outbox'[t], last, ackSent)
    <3>1. last \in 1..last
      BY <1>1, <1>2, <1>6 DEF Events
    <3>2. outbox[t] \in Seq(Request) /\ AcksOk(outbox[t], last, ackSent)
      BY <1>2 DEF TypeOK, StreamInv
    <3>3. AcksOk(Append(outbox[t], Req("ack", last)), last, ackSent)
      BY <1>6, <2>2, <3>1, <3>2, AppendOk
    <3> QED BY <2>3, <3>2, <3>3
  <2>6. ServerFollows' /\ ProgressIsLast'
    BY <1>2, <2>1 DEF StreamInv, ServerFollows, ProgressIsLast
  <2>7. \A t \in Sockets : state[t] = "open" => EventsOk(inbox'[t], last, acked)
    BY <1>1, <1>3, <1>6
  <2> QED BY <1>2, <2>1, <2>4, <2>5, <2>6, <2>7 DEF StreamInv
<1>7. CASE ~(n = last /\ ackSent)
  <2>1. /\ ackSent' = FALSE /\ last' = n /\ owed' = TRUE /\ UNCHANGED outbox
        /\ progress' = [progress EXCEPT ![n] = "given"]
    BY <1>7 DEF DataEvent, AcksAgain, n
  <2>2. n = last \/ n = last + 1
    BY <1>1
  <2>3. n = acked + 1 /\ n # 0
    BY <1>1, <1>2, <1>7 DEF StreamInv, ServerFollows, Events
  <2>4. OnlyConn'
    BY <1>5, <2>1 DEF StreamInv, OnlyConn
  <2>5. ServerFollows'
    BY <1>2, <2>1, <2>3 DEF ServerFollows
  <2>6. \A m \in Events : m < n => progress[m] = "acked"
    <3>1. CASE n = last
      BY <3>1 DEF StreamInv, ProgressIsLast
    <3>2. CASE n = last + 1 /\ (last = 0 \/ ackSent)
      BY <1>2, <3>2 DEF StreamInv, ProgressIsLast, Events
    <3> QED BY <1>1, <3>1, <3>2
  <2>7. \A m \in Events : m > n => progress[m] = "none"
    BY <1>2, <2>2 DEF StreamInv, ProgressIsLast, Events
  <2>8. ProgressIsLast'
    BY <1>1, <1>2, <2>1, <2>6, <2>7 DEF ProgressIsLast, TypeOK, Events
  <2>9. ASSUME NEW t \in Sockets
        PROVE  AcksOk(outbox[t], n, FALSE)
    <3>1. AcksOk(outbox[t], last, ackSent)
      BY DEF StreamInv
    <3>2. CASE n = last
      BY <1>7, <3>1, <3>2 DEF AcksOk
    <3>3. CASE n = last + 1
      <4>1. \A k \in 1..last : k \in 1..n /\ k # n
        BY <1>2, <3>3
      <4> QED BY <3>1, <4>1 DEF AcksOk
    <3> QED BY <2>2, <3>2, <3>3
  <2>10. \A t \in Sockets : state[t] = "open" => EventsOk(inbox'[t], n, acked)
    BY <1>1, <1>3 DEF n
  <2> QED BY <1>2, <2>1, <2>4, <2>5, <2>8, <2>9, <2>10 DEF StreamInv
<1> QED BY <1>6, <1>7

(* The server takes an acknowledgement, which is of the last event or of one before it,
   and sends the event after the last it has. *)
LEMMA ServeKeepsStream ==
  ASSUME StreamInv, LiveInv', NEW s \in Sockets, Serve(s)
  PROVE  StreamInv'
<1> DEFINE r == Head(outbox[s])
           first == IF r.type \in {"subscribe", "resume"} THEN <<Msg("connect")>> ELSE <<>>
           next == IF r.type # "resume" /\ s \notin muted' THEN EventAfter(acked') ELSE <<>>
<1>1. /\ TypeOK /\ last \in Nat /\ acked \in Nat /\ acked <= last /\ last <= acked + 1
      /\ UNCHANGED <<state, conn, pending, created, gap, last, ackSent, owed, progress>>
  BY StreamTypes DEF Serve, client, app
<1>2. outbox[s] \in Seq(Request) /\ outbox[s] # <<>> /\ AcksOk(outbox[s], last, ackSent)
  BY <1>1 DEF Serve, StreamInv, TypeOK
<1>3. r \in Request /\ (r.type = "ack" => r.id \in 1..last /\ (r.id = last => ackSent))
  <2>1. Head(outbox[s]) = outbox[s][1] /\ 1 \in 1..Len(outbox[s])
    BY <1>2, HeadTailProperties, LenProperties, EmptySeq
  <2>2. r \in Request
    BY <1>2, HeadTailProperties
  <2> QED BY <1>2, <2>1, <2>2 DEF AcksOk
<1>4. acked' = acked \/ (r.type = "ack" /\ acked' = r.id /\ r.id > acked)
  BY DEF Serve
<1>5. PICK a \in Nat : /\ a = acked' /\ acked <= a /\ a <= last /\ last <= a + 1
                       /\ (last # 0 /\ ~ackSent => last = a + 1)
  <2>1. CASE acked' = acked
    BY <1>1, <2>1 DEF StreamInv, ServerFollows
  <2>2. CASE r.type = "ack" /\ acked' = r.id /\ r.id > acked
    <3>1. r.id \in Nat /\ r.id <= last /\ acked <= r.id /\ last <= r.id + 1 /\ r.id = last
      BY <1>1, <1>3, <2>2
    <3> QED BY <1>3, <2>2, <3>1
  <2> QED BY <1>4, <2>1, <2>2
<1>6. ServerFollows' /\ ProgressIsLast'
  BY <1>1, <1>5 DEF StreamInv, ServerFollows, ProgressIsLast
<1>7. \A t \in Sockets : AcksOk(outbox'[t], last, ackSent) /\ (outbox[t] = <<>> => outbox'[t] = <<>>)
  <2>1. \A t \in Sockets : outbox'[t] = outbox[t] \/ (outbox[t] # <<>> /\ outbox'[t] = Tail(outbox[t]))
    BY <1>1 DEF Serve, TypeOK
  <2>2. \A t \in Sockets : outbox[t] \in Seq(Request) /\ AcksOk(outbox[t], last, ackSent)
    BY <1>1 DEF TypeOK, StreamInv
  <2> QED BY <2>1, <2>2, TailOk
<1>8. /\ first \o next \in Seq(Message)
      /\ \A i \in 1..Len(first \o next) :
           /\ (first \o next)[i].type # "keyMismatch"
           /\ (first \o next)[i].type = "event" =>
                (first \o next)[i].id \in Events /\ (first \o next)[i].id = a + 1
  <2>1. /\ next \in Seq(Message)
        /\ \A i \in 1..Len(next) : /\ next[i].type # "keyMismatch"
                                   /\ next[i].id \in Events /\ next[i].id = a + 1
    <3>1. EventAfter(acked') = IF a < MaxEvent THEN <<Event(a + 1)>> ELSE <<>>
      BY <1>5 DEF EventAfter
    <3>2. next = <<>> \/ (next = <<Event(a + 1)>> /\ a < MaxEvent)
      BY <3>1
    <3> HIDE DEF next
    <3>3. CASE next = <<>>
      BY <3>3, EmptySeq
    <3>4. CASE next = <<Event(a + 1)>> /\ a < MaxEvent
      <4>1. a + 1 \in Events /\ a + 1 \in 0..MaxEvent
        BY <3>4, DataStreamsAssumption DEF DataStreamsAssumption, Events
      <4>2. Event(a + 1) \in Message
        BY <4>1, MessageTypes
      <4>3. Event(a + 1).type # "keyMismatch" /\ Event(a + 1).id = a + 1
        BY DEF Event
      <4>4. \A i \in 1..Len(next) : next[i] = Event(a + 1)
        BY <3>4
      <4> QED BY <3>4, <4>1, <4>2, <4>3, <4>4
    <3> QED BY <3>3, <3>4, <3>2
  <2>2. /\ first \in Seq(Message)
        /\ \A i \in 1..Len(first) : first[i].type = "connect"
    <3>1. CASE first = <<>>
      BY <3>1, EmptySeq
    <3>2. CASE first = <<Msg("connect")>>
      BY <3>2, MessageTypes DEF Msg
    <3> QED BY <3>1, <3>2
  <2> HIDE DEF first, next
  <2>3. /\ Len(first) \in Nat /\ Len(next) \in Nat /\ first \o next \in Seq(Message)
        /\ Len(first \o next) = Len(first) + Len(next)
        /\ \A i \in 1..Len(first \o next) :
             (first \o next)[i] = IF i <= Len(first) THEN first[i] ELSE next[i - Len(first)]
    BY <2>1, <2>2, ConcatProperties, LenProperties
  <2>4. \A i \in 1..Len(first \o next) : \/ i \in 1..Len(first) /\ (first \o next)[i] = first[i]
                                         \/ i - Len(first) \in 1..Len(next) /\ (first \o next)[i] = next[i - Len(first)]
    BY <2>3
  <2>5. ASSUME NEW i \in 1..Len(first \o next)
        PROVE  /\ (first \o next)[i].type # "keyMismatch"
               /\ (first \o next)[i].type = "event" =>
                    (first \o next)[i].id \in Events /\ (first \o next)[i].id = a + 1
    <3>1. CASE i \in 1..Len(first) /\ (first \o next)[i] = first[i]
      BY <2>2, <3>1
    <3>2. CASE i - Len(first) \in 1..Len(next) /\ (first \o next)[i] = next[i - Len(first)]
      BY <2>1, <3>2
    <3> QED BY <2>4, <3>1, <3>2
  <2> QED BY <2>3, <2>5
<1>9. Push(s, first \o next)
  BY DEF Serve
<1> HIDE DEF first, next
<1>10. \A t \in Sockets : /\ NoMismatch(inbox'[t])
                          /\ state[t] = "open" => EventsOk(inbox'[t], last, a)
                          /\ state[t] \in {"none", "connecting"} => inbox'[t] = <<>>
  <2>1. ASSUME NEW t \in Sockets, t # s
        PROVE  inbox'[t] = inbox[t]
    BY <1>1, <1>9, <2>1 DEF Push, TypeOK
  <2>2. \A q : EventsOk(q, last, acked) => EventsOk(q, last, a)
    BY <1>1, <1>5 DEF EventsOk, Events
  <2>3. inbox'[s] = inbox[s] \o (first \o next) /\ inbox[s] \in Seq(Message)
    BY <1>1, <1>9 DEF Push, TypeOK
  <2>4. state[s] \notin {"none", "connecting"} /\ NoMismatch(inbox[s])
    BY <1>2 DEF StreamInv, OnlyConn
  <2>5. state[s] = "open" => EventsOk(inbox'[s], last, a)
    <3>1. ASSUME state[s] = "open"
          PROVE  EventsOk(inbox'[s], last, a)
      <4>1. EventsOk(inbox[s], last, acked)
        BY <3>1 DEF StreamInv
      <4> QED BY <1>1, <1>5, <1>8, <2>3, <2>4, <4>1, PushOk
    <3> QED BY <3>1
  <2>6. NoMismatch(inbox'[s])
    <3>1. \A i \in 1..Len(first \o next) : (first \o next)[i].type # "keyMismatch"
      BY <1>8
    <3> QED BY <1>8, <2>3, <2>4, <3>1, MismatchConcat
  <2> QED BY <2>1, <2>2, <2>3, <2>4, <2>5, <2>6 DEF StreamInv, OnlyConn
<1>11. OnlyConn'
  BY <1>1, <1>7, <1>10 DEF StreamInv, OnlyConn, Live
<1> QED BY <1>1, <1>5, <1>6, <1>7, <1>10, <1>11 DEF StreamInv

LEMMA StreamStep ==
  ASSUME InOrder, StreamInv, [Next]_vars
  PROVE  StreamInv'
<1>1. LiveInv'
  BY LiveStep DEF StreamInv
<1>2. CASE UNCHANGED vars
  <2>1. \A s \in Sockets : Moves(s) /\ Receives(s) /\ Sends(s)
    BY <1>2 DEF vars, wire, Moves, Receives, Sends
  <2>2. UNCHANGED <<conn, created, pending>> /\ UNCHANGED Stream /\ gap' = gap
    BY <1>2 DEF vars, client, app, server, Stream
  <2> QED BY <1>1, <2>1, <2>2, WireStep
<1>3. CASE Next
  <2>1. CASE Imported
    BY <2>1 DEF Imported, StreamInv, OnlyConn
  <2>2. ASSUME NEW s \in Sockets, Handle(s)
        PROVE  StreamInv'
    BY <1>1, <2>2, SwitchKeepsStream, ExpiredNever, AuthSuccessKeepsStream, MessageKeepsStream,
       EventKeepsStream DEF Handle
  <2>3. ASSUME NEW s \in Sockets, Opened(s) \/ Closed(s) \/ Authenticate(s) \/ Notify(s) \/ Serve(s)
        PROVE  StreamInv'
    BY <1>1, <2>3, OpenedKeepsStream, ClosedKeepsStream, NoticeKeepsStream, ServeKeepsStream
  <2> QED BY <1>1, <1>3, <2>1, <2>2, <2>3, TimersKeepStream, GapKeepsStream, SendAckKeepsStream,
             UnsubscribeKeepsStream DEF Next
<1> QED BY <1>2, <1>3

LEMMA StreamStarts ==
  ASSUME InOrder, Init
  PROVE  StreamInv
<1>1. LiveInv
  BY LiveStarts
<1>2. created = 1 /\ conn = 1 /\ pending = 0 /\ ~gap
  BY DEF InOrder, Init
<1>3. \A s \in Sockets : inbox[s] = <<>> /\ outbox[s] = <<>> /\ state[s] = IF s = 1 THEN "connecting" ELSE "none"
  BY <1>2 DEF Init
<1>4. OnlyConn
  BY <1>2, <1>3, EmptyOk DEF OnlyConn, Live
<1>5. ServerFollows /\ ProgressIsLast
  BY DEF Init, ServerFollows, ProgressIsLast, Events
<1> QED BY <1>1, <1>3, <1>4, <1>5, EmptyOk DEF StreamInv

LEMMA StreamInvariant ==
  ASSUME InOrder
  PROVE  Spec => []StreamInv
<1>1. Init => StreamInv
  BY StreamStarts
<1>2. StreamInv /\ [Next]_vars => StreamInv'
  BY StreamStep
<1> QED BY <1>1, <1>2, PTL DEF Spec

-----------------------------------------------------------------------------
(* The stream with any kind of socket: closing sockets deliver, and two may be alive. *)

(* What may be on its way to the client: an event no later than the one after the last
   acknowledged ... *)
Expected(a) == {m \in Message : m.type = "event" => m.id \in Events /\ m.id <= a + 1}

(* ... and to the server: acknowledgements of events that the application was given. *)
Sendable(p) == {r \in Request : r.type = "ack" => r.id \in Events /\ p[r.id] # "none"}

GiveInv ==
  /\ LiveInv
  /\ owed => last \in Events /\ progress[last] = "given"
  /\ ackSent => last \in Events /\ progress[last] = "acked"
  /\ last # 0 => progress[last] # "none"
  /\ acked # 0 => progress[acked] # "none"
  /\ NothingSkipped
  /\ outbox \in [Sockets -> Seq(Sendable(progress))]
  /\ inbox \in [Sockets -> Seq(Expected(acked))]

LEMMA SeqMonotone ==
  ASSUME NEW S, NEW T, S \subseteq T
  PROVE  Seq(S) \subseteq Seq(T)
<1>1. \A q \in Seq(S) : Len(q) \in Nat /\ q \in [1..Len(q) -> S]
  BY LenProperties
<1>2. \A q : \A n \in Nat : q \in [1..n -> T] => q \in Seq(T)
  BY SeqDef
<1> QED BY <1>1, <1>2

LEMMA GiveTypes ==
  ASSUME GiveInv
  PROVE  /\ TypeOK /\ last \in Nat /\ acked \in Nat /\ MaxEvent \in Nat
         /\ last # 0 => last \in Events
         /\ acked # 0 => acked \in Events
BY DataStreamsAssumption DEF DataStreamsAssumption, GiveInv, LiveInv, TypeOK, Events

(* What an action that leaves the stream alone does to what is on its way. *)
Takes(s) ==
  \/ inbox'[s] = inbox[s]
  \/ inbox'[s] = <<>>
  \/ inbox[s] # <<>> /\ inbox'[s] = Tail(inbox[s])
  \/ \E m \in Message : m.type # "event" /\ inbox'[s] = inbox[s] \o <<m>>

Answers(s) ==
  \/ outbox'[s] = outbox[s]
  \/ outbox'[s] = <<>>
  \/ \E r \in Request : r.type # "ack" /\ outbox'[s] = Append(outbox[s], r)

LEMMA ReceiveTakes ==
  ASSUME TypeOK, NEW s \in Sockets, NEW type, Receive(s, type)
  PROVE  \A t \in Sockets : Takes(t)
BY DEF Receive, Takes, TypeOK

LEMMA PushTakes ==
  ASSUME TypeOK, NEW s \in Sockets, NEW m \in Message, m.type # "event", Push(s, <<m>>)
  PROVE  \A t \in Sockets : Takes(t)
BY DEF Push, Takes, TypeOK

LEMMA SendAnswers ==
  ASSUME TypeOK, NEW r \in Request, r.type # "ack", Send(r)
  PROVE  \A t \in Sockets : Answers(t)
BY DEF Send, Answers, TypeOK

LEMMA AsideStep ==
  ASSUME GiveInv, LiveInv', UNCHANGED Stream, \A s \in Sockets : Takes(s) /\ Answers(s)
  PROVE  GiveInv'
<1> DEFINE E == Expected(acked)
           R == Sendable(progress)
<1>1. last' = last /\ acked' = acked /\ ackSent' = ackSent /\ owed' = owed /\ progress' = progress
  BY DEF Stream
<1>2. Expected(acked') = E /\ Sendable(progress') = R
  BY <1>1
<1>3. \A s \in Sockets : inbox[s] \in Seq(E) /\ outbox[s] \in Seq(R)
  BY DEF GiveInv
<1>4. \A m \in Message : m.type # "event" => m \in E
  BY DEF Expected
<1>5. \A r \in Request : r.type # "ack" => r \in R
  BY DEF Sendable
<1> HIDE DEF E, R
<1>6. ASSUME NEW s \in Sockets
      PROVE  inbox'[s] \in Seq(E)
  <2>1. inbox[s] \in Seq(E)
    BY <1>3
  <2>2. CASE inbox[s] # <<>> /\ inbox'[s] = Tail(inbox[s])
    BY <2>1, <2>2, HeadTailProperties
  <2>3. ASSUME NEW m \in Message, m.type # "event", inbox'[s] = inbox[s] \o <<m>>
        PROVE  inbox'[s] \in Seq(E)
    <3>1. <<m>> \in Seq(E)
      BY <1>4, <2>3
    <3> QED BY <2>1, <2>3, <3>1, ConcatProperties
  <2> QED BY <2>1, <2>2, <2>3, EmptySeq DEF Takes
<1>7. ASSUME NEW s \in Sockets
      PROVE  outbox'[s] \in Seq(R)
  <2>1. outbox[s] \in Seq(R)
    BY <1>3
  <2>2. ASSUME NEW r \in Request, r.type # "ack", outbox'[s] = Append(outbox[s], r)
        PROVE  outbox'[s] \in Seq(R)
    BY <1>5, <2>1, <2>2, AppendProperties
  <2> QED BY <2>1, <2>2, EmptySeq DEF Answers
<1>8. inbox' \in [Sockets -> Seq(E)] /\ outbox' \in [Sockets -> Seq(R)]
  BY <1>6, <1>7 DEF LiveInv, TypeOK
<1>9. NothingSkipped'
  BY <1>1 DEF GiveInv, NothingSkipped
<1> QED BY <1>1, <1>2, <1>8, <1>9 DEF GiveInv

LEMMA AsideSteps ==
  ASSUME GiveInv, LiveInv',
         \/ Imported \/ ReconnectFires \/ GapEnds \/ Close \/ Unsubscribe \/ SubscribeAgain
         \/ \E t \in Timers : IntervalStops(t)
         \/ \E s \in Sockets : Opened(s) \/ Closed(s) \/ SwitchUrl(s) \/ SessionExpired(s) \/ AuthSuccess(s)
                                \/ ServerDown(s) \/ Connected(s) \/ Authenticate(s) \/ Notify(s)
  PROVE  GiveInv'
<1>1. TypeOK
  BY GiveTypes
<1>2. UNCHANGED Stream
  BY DEF Stream, Imported, ReconnectFires, GapEnds, Close, Unsubscribe, SubscribeAgain, IntervalStops, Opened,
     Closed, SwitchUrl, SessionExpired, AuthSuccess, ServerDown, Connected, Authenticate, Notify, client, app, server
<1>3. \A s \in Sockets : Takes(s)
  <2>1. CASE UNCHANGED inbox
    BY <2>1 DEF Takes
  <2>2. CASE \E s \in Sockets : Closed(s)
    BY <1>1, <2>2 DEF Closed, Takes, TypeOK
  <2>3. ASSUME NEW s \in Sockets,
               SwitchUrl(s) \/ SessionExpired(s) \/ AuthSuccess(s) \/ ServerDown(s) \/ Connected(s)
        PROVE  \A t \in Sockets : Takes(t)
    BY <1>1, <2>3, ReceiveTakes DEF SwitchUrl, SessionExpired, AuthSuccess, ServerDown, Connected
  <2>4. ASSUME NEW s \in Sockets, Authenticate(s)
        PROVE  \A t \in Sockets : Takes(t)
    <3>1. Msg("auth") \in Message /\ Msg("auth").type # "event" /\ Push(s, <<Msg("auth")>>)
      BY <2>4, MessageTypes DEF Authenticate, Msg
    <3> QED BY <1>1, <3>1, PushTakes
  <2>5. ASSUME NEW s \in Sockets, Notify(s)
        PROVE  \A t \in Sockets : Takes(t)
    <3>1. ASSUME NEW type \in Notices \ {"switch"}, Push(s, <<Msg(type)>>)
          PROVE  \A t \in Sockets : Takes(t)
      <4>1. type \in {"keyMismatch", "down"}
        BY <3>1, DataStreamsAssumption DEF DataStreamsAssumption
      <4>2. Msg(type) \in Message /\ Msg(type).type # "event"
        BY <4>1, MessageTypes DEF Msg
      <4> QED BY <1>1, <3>1, <4>2, PushTakes
    <3>2. ASSUME NEW h \in Hosts, Push(s, <<Switch(h)>>)
          PROVE  \A t \in Sockets : Takes(t)
      <4>1. Switch(h) \in Message /\ Switch(h).type # "event"
        BY MessageTypes DEF Switch
      <4> QED BY <1>1, <3>2, <4>1, PushTakes
    <3> QED BY <2>5, <3>1, <3>2 DEF Notify
  <2>6. \/ UNCHANGED inbox
        \/ \E s \in Sockets : Closed(s) \/ SwitchUrl(s) \/ SessionExpired(s) \/ AuthSuccess(s)
                               \/ ServerDown(s) \/ Connected(s) \/ Authenticate(s) \/ Notify(s)
    BY DEF Imported, ReconnectFires, GapEnds, Close, Unsubscribe, SubscribeAgain, IntervalStops, Opened, wire
  <2> QED BY <2>1, <2>2, <2>3, <2>4, <2>5, <2>6
<1>4. \A s \in Sockets : Answers(s)
  <2>1. CASE UNCHANGED outbox
    BY <2>1 DEF Answers
  <2>2. CASE \E s \in Sockets : Closed(s)
    BY <1>1, <2>2 DEF Closed, Answers, TypeOK
  <2>3. CASE \E type \in {"subscribe", "unsubscribe", "resume", "ackResume"} : Send(Req(type, 0))
    <3>1. PICK type \in {"subscribe", "unsubscribe", "resume", "ackResume"} : Send(Req(type, 0))
      BY <2>3
    <3>2. Req(type, 0) \in Request /\ Req(type, 0).type # "ack"
      BY RequestTypes DEF Req
    <3> QED BY <1>1, <3>1, <3>2, SendAnswers
  <2>4. \/ UNCHANGED outbox
        \/ \E s \in Sockets : Closed(s)
        \/ \E type \in {"subscribe", "unsubscribe", "resume", "ackResume"} : Send(Req(type, 0))
    BY DEF Imported, ReconnectFires, GapEnds, Close, Unsubscribe, SubscribeAgain, IntervalStops, Opened,
       SwitchUrl, SessionExpired, AuthSuccess, Subscribe, ServerDown, Connected, Authenticate, Notify, wire
  <2> QED BY <2>1, <2>2, <2>3, <2>4
<1> QED BY <1>2, <1>3, <1>4, AsideStep

LEMMA SendGiven ==
  ASSUME GiveInv, NEW r \in Sendable(progress), Send(r)
  PROVE  outbox' \in [Sockets -> Seq(Sendable(progress))]
<1> DEFINE R == Sendable(progress)
<1>1. outbox \in [Sockets -> Seq(R)] /\ r \in R
  BY DEF GiveInv
<1> HIDE DEF R
<1>2. \A q \in Seq(R) : Append(q, r) \in Seq(R)
  BY <1>1, AppendProperties
<1>3. outbox' \in [Sockets -> Seq(R)]
  BY <1>1, <1>2 DEF Send
<1> QED BY <1>3 DEF R

(* The application is given the event after the last acknowledged, or an earlier one. *)
LEMMA EventKeepsGive ==
  ASSUME GiveInv, LiveInv', NEW s \in Sockets, DataEvent(s)
  PROVE  GiveInv'
<1> DEFINE n == Head(inbox[s]).id
           E == Expected(acked)
<1>1. TypeOK /\ last \in Nat /\ acked \in Nat /\ (last # 0 => last \in Events) /\ (acked # 0 => acked \in Events)
  BY GiveTypes
<1>2. /\ inbox[s] \in Seq(E) /\ inbox[s] # <<>> /\ Head(inbox[s]).type = "event"
      /\ inbox' = [inbox EXCEPT ![s] = Tail(@)] /\ acked' = acked
  BY DEF DataEvent, Receive, GiveInv, server
<1>3. Head(inbox[s]) \in E /\ Tail(inbox[s]) \in Seq(E)
  BY <1>2, HeadTailProperties
<1>4. n \in Events /\ n <= acked + 1
  BY <1>2, <1>3 DEF Expected
<1>5. inbox' \in [Sockets -> Seq(Expected(acked'))]
  BY <1>2, <1>3 DEF GiveInv
<1> HIDE DEF n, E
<1>6. CASE AcksAgain(n)
  <2>1. /\ UNCHANGED <<ackSent, last, progress, owed>>
        /\ IF IsConnOpen THEN Send(Req("ack", last)) ELSE UNCHANGED outbox
    BY <1>6 DEF DataEvent, n
  <2>2. last \in Events /\ progress[last] # "none"
    BY <1>6 DEF AcksAgain, GiveInv
  <2>3. Req("ack", last) \in Sendable(progress)
    BY <1>1, <2>2, RequestTypes DEF Sendable, Req, TypeOK
  <2>4. outbox' \in [Sockets -> Seq(Sendable(progress))]
    <3>1. CASE Send(Req("ack", last))
      BY <2>3, <3>1, SendGiven
    <3> QED BY <2>1, <3>1 DEF GiveInv
  <2>5. NothingSkipped'
    BY <2>1 DEF GiveInv, NothingSkipped
  <2> QED BY <1>2, <1>5, <2>1, <2>4, <2>5 DEF GiveInv
<1>7. CASE ~AcksAgain(n)
  <2>1. /\ ackSent' = FALSE /\ last' = n /\ owed' = TRUE /\ UNCHANGED outbox
        /\ progress' = [progress EXCEPT ![n] = "given"]
    BY <1>7 DEF DataEvent, n
  <2>2. progress'[n] = "given" /\ \A m \in Events : m # n => progress'[m] = progress[m]
    BY <1>1, <1>4, <2>1 DEF TypeOK
  <2>3. \A m \in Events : progress[m] # "none" => progress'[m] # "none"
    BY <2>2
  <2>4. ASSUME NEW m \in Events, NEW k \in Events, m < k, progress'[k] # "none"
        PROVE  progress'[m] # "none"
    <3>1. CASE k # n
      BY <2>2, <2>3, <2>4, <3>1 DEF GiveInv, NothingSkipped
    <3>2. CASE k = n
      <4>1. m \in Nat /\ m # 0 /\ m <= acked
        BY <1>1, <1>4, <2>4, <3>2 DEF Events
      <4>2. acked \in Events /\ progress[acked] # "none"
        BY <1>1, <4>1 DEF GiveInv
      <4>3. m = acked \/ m < acked
        BY <1>1, <4>1
      <4> QED BY <2>3, <4>2, <4>3 DEF GiveInv, NothingSkipped
    <3> QED BY <3>1, <3>2
  <2>5. Sendable(progress) \subseteq Sendable(progress')
    BY <2>3 DEF Sendable
  <2>6. outbox' \in [Sockets -> Seq(Sendable(progress'))]
    BY <2>1, <2>5, SeqMonotone DEF GiveInv
  <2>7. acked' # 0 => progress'[acked'] # "none"
    BY <1>1, <1>2, <2>3 DEF GiveInv
  <2>8. NothingSkipped'
    BY <2>4 DEF NothingSkipped
  <2> QED BY <1>4, <1>5, <2>1, <2>2, <2>6, <2>7, <2>8 DEF GiveInv
<1> QED BY <1>6, <1>7

LEMMA SendAckKeepsGive ==
  ASSUME GiveInv, LiveInv', SendAck
  PROVE  GiveInv'
<1>1. /\ TypeOK /\ last \in Events /\ progress[last] = "given" /\ ~ackSent /\ owed' = FALSE
      /\ (acked # 0 => acked \in Events) /\ UNCHANGED <<last, acked, inbox>>
  BY GiveTypes DEF SendAck, GiveInv, server
<1>2. /\ progress'[last] # "none"
      /\ \A m \in Events : m # last => progress'[m] = progress[m]
      /\ ackSent' => progress'[last] = "acked"
  BY <1>1 DEF SendAck, TypeOK
<1>3. \A m \in Events : progress'[m] # "none" <=> progress[m] # "none"
  BY <1>1, <1>2
<1>4. Sendable(progress') = Sendable(progress)
  BY <1>3 DEF Sendable
<1>5. Req("ack", last) \in Sendable(progress)
  BY <1>1, RequestTypes DEF Sendable, Req, TypeOK
<1>6. outbox' \in [Sockets -> Seq(Sendable(progress'))]
  <2>1. CASE Send(Req("ack", last))
    BY <1>4, <1>5, <2>1, SendGiven
  <2> QED BY <1>4, <2>1 DEF SendAck, GiveInv
<1>7. NothingSkipped'
  BY <1>3 DEF GiveInv, NothingSkipped
<1> QED BY <1>1, <1>2, <1>3, <1>6, <1>7 DEF GiveInv

(* The server sends the event after one that the application was given. *)
LEMMA ServeKeepsGive ==
  ASSUME GiveInv, LiveInv', NEW s \in Sockets, Serve(s)
  PROVE  GiveInv'
<1> DEFINE r == Head(outbox[s])
           R == Sendable(progress)
           first == IF r.type \in {"subscribe", "resume"} THEN <<Msg("connect")>> ELSE <<>>
           next == IF r.type # "resume" /\ s \notin muted' THEN EventAfter(acked') ELSE <<>>
<1>1. /\ TypeOK /\ acked \in Nat /\ MaxEvent \in Nat /\ (acked # 0 => acked \in Events)
      /\ UNCHANGED <<last, ackSent, owed, progress>>
  BY GiveTypes DEF Serve, client, app
<1>2. outbox[s] \in Seq(R) /\ outbox[s] # <<>> /\ outbox' = [outbox EXCEPT ![s] = Tail(@)]
  BY DEF Serve, GiveInv
<1>3. r \in R /\ Tail(outbox[s]) \in Seq(R)
  BY <1>2, HeadTailProperties
<1>4. outbox' \in [Sockets -> Seq(Sendable(progress'))]
  BY <1>1, <1>2, <1>3 DEF GiveInv
<1>5. r.type = "ack" => r.id \in Events /\ progress[r.id] # "none"
  BY <1>3 DEF Sendable
<1>6. acked' = acked \/ (r.type = "ack" /\ acked' = r.id /\ r.id > acked)
  BY DEF Serve
<1>7. PICK a \in Nat : /\ a = acked' /\ acked <= a
                       /\ a # 0 => a \in Events /\ progress[a] # "none"
  <2>1. CASE acked' = acked
    BY <1>1, <2>1 DEF GiveInv
  <2>2. CASE r.type = "ack" /\ acked' = r.id /\ r.id > acked
    BY <1>1, <1>5, <2>2 DEF Events
  <2> QED BY <1>6, <2>1, <2>2
<1>8. Expected(acked) \subseteq Expected(a)
  BY <1>1, <1>7 DEF Expected, Events
<1>9. first \in Seq(Expected(a))
  <2>1. Msg("connect") \in Expected(a)
    BY MessageTypes DEF Expected, Msg
  <2> QED BY <2>1, EmptySeq
<1>10. next \in Seq(Expected(a))
  <2>1. EventAfter(acked') = IF a < MaxEvent THEN <<Event(a + 1)>> ELSE <<>>
    BY <1>7 DEF EventAfter
  <2>2. next = <<>> \/ (next = <<Event(a + 1)>> /\ a < MaxEvent)
    BY <2>1
  <2> HIDE DEF next
  <2>3. CASE next = <<Event(a + 1)>> /\ a < MaxEvent
    <3>1. a + 1 \in Events /\ a + 1 \in 0..MaxEvent
      <4>1. MaxEvent \in Nat /\ a < MaxEvent
        BY <1>1, <2>3
      <4> QED BY <4>1 DEF Events
    <3>2. Event(a + 1) \in Message /\ Event(a + 1).id = a + 1
      BY <3>1, MessageTypes DEF Event
    <3>3. Event(a + 1) \in Expected(a)
      BY <1>7, <3>1, <3>2 DEF Expected
    <3> QED BY <2>3, <3>3
  <2> QED BY <2>2, <2>3, EmptySeq
<1>11. inbox' = [inbox EXCEPT ![s] = @ \o (first \o next)]
  BY DEF Serve, Push
<1> HIDE DEF first, next, r, R
<1>12. inbox' \in [Sockets -> Seq(Expected(a))]
  <2>1. \A t \in Sockets : inbox[t] \in Seq(Expected(a))
    BY <1>8, SeqMonotone DEF GiveInv
  <2>2. first \o next \in Seq(Expected(a))
    BY <1>9, <1>10, ConcatProperties
  <2>3. inbox[s] \o (first \o next) \in Seq(Expected(a))
    BY <2>1, <2>2, ConcatProperties
  <2>4. \A t \in Sockets : inbox'[t] \in Seq(Expected(a))
    BY <1>1, <1>11, <2>1, <2>3 DEF TypeOK
  <2> QED BY <2>4 DEF LiveInv, TypeOK
<1>13. inbox' \in [Sockets -> Seq(Expected(acked'))]
  BY <1>7, <1>12
<1>14. acked' # 0 => progress'[acked'] # "none"
  BY <1>1, <1>7
<1>15. NothingSkipped'
  BY <1>1 DEF GiveInv, NothingSkipped
<1> QED BY <1>1, <1>4, <1>13, <1>14, <1>15 DEF GiveInv

LEMMA GiveStep ==
  ASSUME GiveInv, [Next]_vars
  PROVE  GiveInv'
<1>1. LiveInv'
  BY LiveStep DEF GiveInv
<1>2. CASE UNCHANGED vars
  <2>1. UNCHANGED Stream /\ \A s \in Sockets : Takes(s) /\ Answers(s)
    BY <1>2 DEF vars, client, app, server, wire, Stream, Takes, Answers
  <2> QED BY <1>1, <2>1, AsideStep
<1>3. CASE Next
  BY <1>1, <1>3, AsideSteps, EventKeepsGive, SendAckKeepsGive, ServeKeepsGive DEF Next, Handle
<1> QED BY <1>2, <1>3

LEMMA GiveStarts ==
  ASSUME Init
  PROVE  GiveInv
<1>1. \A S : <<>> \in Seq(S)
  BY EmptySeq
<1> QED BY <1>1, LiveStarts DEF Init, GiveInv, NothingSkipped

LEMMA GiveInvariant == Spec => []GiveInv
<1>1. Init => GiveInv
  BY GiveStarts
<1>2. GiveInv /\ [Next]_vars => GiveInv'
  BY GiveStep
<1> QED BY <1>1, <1>2, PTL DEF Spec

-----------------------------------------------------------------------------
(* The client and its WebSockets keep to their types, whichever WebSocket it is, and
   whatever the server sends and the network loses. *)
THEOREM DataStreamsTypeCorrect == Spec => []TypeOK
<1>1. LiveInv => TypeOK
  BY DEF LiveInv
<1> QED BY <1>1, LiveInvariant, PTL

(* OneLivePerFallback (handleDMSEvents, makeNewConnection, startCloseAndReconnect): with
   any number of notices, losses and reconnections the client keeps one connection, and a
   second one only for the one fallback after a key mismatch. *)
THEOREM OneLive == Spec => []OneLivePerFallback
<1>1. ASSUME LiveInv
      PROVE  OneLivePerFallback
  <2>1. Cardinality(Live) \in Nat
    BY LiveIsFinite DEF Live, LiveOf
  <2>2. pending \in Nat /\ attempts \in Nat
    BY <1>1 DEF LiveInv, TypeOK
  <2>3. Places <= 1 + attempts
    BY <1>1 DEF LiveInv
  <2> QED BY <2>1, <2>2, <2>3 DEF OneLivePerFallback, Places
<1> QED BY <1>1, LiveInvariant, PTL

(* OneAtATime (handleDataEvents, sendAck): where a socket delivers nothing after close()
   and the server does not refuse the key, an event reaches the application only after it
   acknowledged the one before, for any number of events, sockets, losses and notices. *)
THEOREM EventsOneAtATime ==
  ASSUME InOrder
  PROVE  Spec => []OneAtATime
<1>1. ASSUME StreamInv
      PROVE  OneAtATime
  <2>1. last \in Nat /\ \A n \in Events : n > 1 => n - 1 \in Events /\ n - 1 < n /\ n \in Nat
    <3>1. last \in Nat /\ MaxEvent \in Nat
      BY <1>1, StreamTypes, DataStreamsAssumption DEF DataStreamsAssumption
    <3> QED BY <3>1 DEF Events
  <2>2. \A n \in Events : progress[n] # "none" => ~(n > last)
    BY <1>1 DEF StreamInv, ProgressIsLast
  <2>3. \A n \in Events : n > 1 /\ ~(n > last) => n - 1 < last
    BY <2>1
  <2> QED BY <1>1, <2>1, <2>2, <2>3 DEF StreamInv, ProgressIsLast, OneAtATime
<1> QED BY <1>1, StreamInvariant, PTL

(* AckedOnce (handleDataEvents, "Skipping if streaming id already processed"): under the
   same conditions an event the application has acknowledged is never given to it again. *)
THEOREM EventsAckedOnce ==
  ASSUME InOrder
  PROVE  Spec => AckedOnce
<1> DEFINE Kept == \A n \in Events : progress[n] = "acked" => progress'[n] = "acked"
<1>1. ASSUME StreamInv, [Next]_vars
      PROVE  [Kept]_vars
  <2>1. last \in Nat /\ TypeOK
    BY <1>1, StreamTypes
  <2>2. ASSUME NEW s \in Sockets, DataEvent(s)
        PROVE  Kept
    <3>1. Receive(s, "event")
      BY <2>2 DEF DataEvent
    <3>2. Head(inbox[s]).id = last \/ Head(inbox[s]).id = last + 1
      BY <1>1, <3>1, HeadEvent
    <3>3. UNCHANGED progress \/ (/\ progress' = [progress EXCEPT ![Head(inbox[s]).id] = "given"]
                                 /\ ~(Head(inbox[s]).id = last /\ ackSent))
      BY <2>2 DEF DataEvent, AcksAgain
    <3>4. Head(inbox[s]).id \in Events /\ ~(Head(inbox[s]).id = last /\ ackSent)
            => progress[Head(inbox[s]).id] # "acked"
      BY <1>1, <2>1, <3>2 DEF StreamInv, ProgressIsLast
    <3> QED BY <2>1, <3>3, <3>4 DEF TypeOK
  <2>3. CASE SendAck
    <3>1. ~ackSent
      BY <1>1, <2>3 DEF SendAck, StreamInv, ServerFollows
    <3>2. \A n \in Events : n = last => progress[n] # "acked"
      BY <1>1, <3>1 DEF StreamInv, ProgressIsLast
    <3>3. progress' = [progress EXCEPT ![last] = "acked"] \/ progress' = [progress EXCEPT ![last] = "ackDropped"]
      BY <2>3 DEF SendAck
    <3> QED BY <2>1, <3>2, <3>3 DEF TypeOK
  <2>4. CASE UNCHANGED progress
    BY <2>4
  <2>5. \/ \E s \in Sockets : DataEvent(s)
        \/ SendAck
        \/ UNCHANGED progress
        \/ UNCHANGED vars
    BY <1>1 DEF Next, Handle, Imported, Opened, Closed, SwitchUrl, SessionExpired, AuthSuccess, ServerDown,
       Connected, IntervalStops, ReconnectFires, GapEnds, Close, Unsubscribe, SubscribeAgain, Authenticate,
       Notify, Serve, app
  <2> QED BY <2>2, <2>3, <2>4, <2>5
<1> QED BY <1>1, StreamInvariant, PTL DEF Spec, AckedOnce

(* NothingSkipped (handleDataEvents, sendAck): with any kind of socket, closing ones that
   deliver and a second one alive, and with any number of events, sockets, notices and
   losses, an event reaches the application only after every earlier one did. *)
THEOREM NothingIsSkipped == Spec => []NothingSkipped
<1>1. GiveInv => NothingSkipped
  BY DEF GiveInv
<1> QED BY <1>1, GiveInvariant, PTL

(* DeliversInOrder: DataStreams implements EventDelivery.  A message that handleDataEvents()
   gives to the application is Give, sendAck() is Acknowledge, and everything else, the
   renewals, the losses and the repeated acknowledgements included, is a stutter. *)
THEOREM StreamIsDelivered ==
  ASSUME InOrder
  PROVE  Spec => DeliversInOrder
<1>1. Init => Delivery!Init
  BY DEF Init, Delivery!Init
<1>2. ASSUME StreamInv, GiveInv, [Next]_vars
      PROVE  [Delivery!Next]_progress
  <2>1. TypeOK /\ last \in Nat /\ MaxEvent \in Nat
    BY <1>2, GiveTypes
  <2>2. ASSUME NEW s \in Sockets, DataEvent(s)
        PROVE  [Delivery!Next]_progress
    <3> DEFINE n == Head(inbox[s]).id
    <3>1. Receive(s, "event")
      BY <2>2 DEF DataEvent
    <3>2. n \in Events /\ (n = last \/ (n = last + 1 /\ (last = 0 \/ ackSent)))
      BY <1>2, <3>1, HeadEvent
    <3>3. UNCHANGED progress \/ (progress' = [progress EXCEPT ![n] = "given"] /\ ~(n = last /\ ackSent))
      BY <2>2 DEF DataEvent, AcksAgain
    <3> HIDE DEF n
    <3>4. CASE progress' = [progress EXCEPT ![n] = "given"] /\ ~(n = last /\ ackSent)
      <4>1. progress[n] # "acked"
        BY <1>2, <2>1, <3>2, <3>4 DEF StreamInv, ProgressIsLast
      <4>2. n - 1 \in Events => progress[n - 1] = "acked"
        <5>1. CASE n = last
          <6>1. n - 1 \in Events => n - 1 < last
            BY <2>1, <5>1
          <6> QED BY <1>2, <6>1 DEF StreamInv, ProgressIsLast
        <5>2. CASE n = last + 1 /\ (last = 0 \/ ackSent)
          <6>1. n - 1 = last /\ 0 \notin Events
            BY <2>1, <5>2 DEF Events
          <6> QED BY <1>2, <5>2, <6>1 DEF StreamInv, ProgressIsLast
        <5> QED BY <3>2, <5>1, <5>2
      <4>3. Delivery!Give(n)
        BY <3>4, <4>1, <4>2 DEF Delivery!Give
      <4> QED BY <3>2, <4>3 DEF Delivery!Next
    <3> QED BY <3>3, <3>4
  <2>3. CASE SendAck
    <3>1. last \in Events /\ progress[last] = "given"
      BY <1>2, <2>3 DEF SendAck, GiveInv
    <3>2. \E fate \in {"acked", "ackDropped"} : progress' = [progress EXCEPT ![last] = fate]
      BY <2>3 DEF SendAck
    <3>3. Delivery!Acknowledge(last)
      BY <3>1, <3>2 DEF Delivery!Acknowledge
    <3> QED BY <3>1, <3>3 DEF Delivery!Next
  <2>4. \/ \E s \in Sockets : DataEvent(s)
        \/ SendAck
        \/ UNCHANGED progress
    BY <1>2 DEF Next, Handle, Imported, Opened, Closed, SwitchUrl, SessionExpired, AuthSuccess, ServerDown,
       Connected, IntervalStops, ReconnectFires, GapEnds, Close, Unsubscribe, SubscribeAgain, Authenticate,
       Notify, Serve, vars, app
  <2> QED BY <2>2, <2>3, <2>4
<1> QED BY <1>1, <1>2, StreamInvariant, GiveInvariant, PTL DEF Spec, DeliversInOrder, Delivery!Spec
==============================================================================
