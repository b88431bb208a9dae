----------------------------- MODULE DataStreams -----------------------------
(***************************************************************************)
(* DataStreamsWebSocket of packages/datastreams: one client object, the    *)
(* WebSockets it opens one after the other (sometimes side by side), the   *)
(* three timers, and what the application and the message server do to it. *)
(*                                                                         *)
(* An event handler, a timer callback and a public method run to the end   *)
(* before another starts: each is one action.  Sockets are numbered in the *)
(* order of their construction.  The server and the network are external,  *)
(* modelled from what the handlers expect of them: the server sends an     *)
(* event only once the one before is acknowledged.                         *)
(***************************************************************************)
EXTENDS Naturals, Sequences, FiniteSets

CONSTANTS
  MaxSockets,  (* bound on the WebSockets the client constructs              *)
  MaxEvent,    (* the server has the events 1..MaxEvent                      *)
  MaxNotices,  (* bound on the server messages other than the stream's       *)
  MaxDrops,    (* bound on the connections the network loses                 *)
  Hosts,       (* host names                                                 *)
  FirstHost,   (* config.url                                                 *)
  Node,        (* TRUE: package ws, imported before each construction, and a
                  closing socket still delivers; FALSE: the browser's socket *)
  Notices,     (* which of "switch", "keyMismatch", "down" the server sends  *)
  OnOpen,      (* what the application's open listener may do                *)
  AckWhenOpen, (* TRUE: the application calls sendAck() only when connected  *)
  Closes,      (* TRUE: the application may call close()                     *)
  Leaving      (* the sockets on which it may call unsubscribe()             *)

Sockets == 1..MaxSockets
Events  == 1..MaxEvent

ASSUME DataStreamsAssumption ==
  /\ MaxSockets \in Nat \ {0} /\ MaxEvent \in Nat /\ MaxNotices \in Nat /\ MaxDrops \in Nat
  /\ FirstHost \in Hosts
  /\ {Node, AckWhenOpen, Closes} \subseteq BOOLEAN /\ Leaving \subseteq Nat
  /\ Notices \subseteq {"switch", "keyMismatch", "down"}
  /\ OnOpen \subseteq {"subscribe", "close", "nothing"}

VARIABLES
  state,     (* readyState of each socket, "none" before its construction     *)
  created,   (* number of sockets constructed                                 *)
  conn,      (* this.conn: a socket, or 0 for null                            *)
  pending,   (* constructions that wait for import('ws')                      *)
  url,       (* this.url                                                      *)
  finalHost, (* the host in this.finalUrl                                     *)
  session,   (* sid and uid are known                                         *)
  isOpen, ackSent, reconnect,
  last,      (* prevStreamingId and ackPayload.streamingId: set together      *)
  attempts,  (* fallbackConnectionAttempts                                    *)
  timers,    (* the timers that are running                                   *)
  gap,       (* the 50 ms between closing a connection and the next one       *)
  inbox,     (* per socket, what is on its way to the client                  *)
  outbox,    (* per socket, what is on its way to the server                  *)
  acked,     (* the server: the last event acknowledged                       *)
  authed,    (* the server: the sockets it has authenticated                  *)
  muted,     (* the server: the sockets it was asked to send no more on       *)
  progress,  (* history: what became of each event in the application         *)
  owed,      (* the application owes a call of sendAck()                      *)
  closed,    (* history: the application has called close()                   *)
  leave,     (* history: it has called unsubscribe(), and subscribe() again   *)
  notices, drops

client == <<conn, pending, created, url, finalHost, session, isOpen, ackSent, reconnect,
            last, attempts, timers, gap>>
wire   == <<inbox, outbox>>
app    == <<progress, owed, closed, leave>>
server == <<acked, authed, muted, notices, drops>>
vars   == <<state, client, wire, app, server>>

Timers  == {"ping", "pingServer", "reconnect"}
Message == [type : {"auth", "switch", "keyMismatch", "down", "connect", "event"},
            id : 0..MaxEvent, host : Hosts]
Request == [type : {"subscribe", "unsubscribe", "resume", "ackResume", "ack"}, id : 0..MaxEvent]

Msg(type)    == [type |-> type, id |-> 0, host |-> FirstHost]
Event(n)     == [type |-> "event", id |-> n, host |-> FirstHost]
Switch(h)    == [type |-> "switch", id |-> 0, host |-> h]
Req(type, n) == [type |-> type, id |-> n]

IsConnOpen == conn # 0 /\ state[conn] = "open"

(* Bound: a handler that may construct a socket runs only when one is left. *)
Room == created + pending + (IF gap THEN 1 ELSE 0) < MaxSockets

Send(r) == outbox' = [outbox EXCEPT ![conn] = Append(@, r)]

(* The end of createWebSocketConnection(); states is what the handler has left
   of the other sockets. *)
Construct(states) ==
  /\ created' = created + 1
  /\ conn' = created + 1
  /\ state' = [states EXCEPT ![created + 1] = "connecting"]

(* createWebSocketConnection(): a finalUrl whose host is not this.url only
   emits an error; with ws, the import comes before the construction. *)
CreateWebSocketConnection(states, h, final) ==
  CASE final # h          -> state' = states /\ UNCHANGED <<created, conn, pending>>
    [] final = h /\ Node  -> state' = states /\ pending' = pending + 1
                             /\ UNCHANGED <<created, conn>>
    [] final = h /\ ~Node -> Construct(states) /\ UNCHANGED pending

(* makeNewConnection() *)
MakeNewConnection(states, h) ==
  IF session
  THEN finalHost' = h /\ CreateWebSocketConnection(states, h, h)
  ELSE state' = states /\ UNCHANGED <<finalHost, created, conn, pending>>

(* Mutant: the old connection is left open. *)
NotClosing(s) == state

Closing(s) == [state EXCEPT ![s] = "closing"]

(* The clear...() calls and the start...() calls that always come together. *)
ClearAll == timers' = {}
StartAll == timers' = Timers

-----------------------------------------------------------------------------
(* The constructor calls createWebSocketConnection(). *)
Init ==
  /\ created = (IF Node THEN 0 ELSE 1)
  /\ conn = created
  /\ pending = 1 - created
  /\ state = [s \in Sockets |-> IF s = created THEN "connecting" ELSE "none"]
  /\ url = FirstHost /\ finalHost = FirstHost
  /\ session = FALSE /\ isOpen = FALSE /\ ackSent = FALSE /\ reconnect = FALSE
  /\ last = 0 /\ attempts = 0
  /\ timers = {} /\ gap = FALSE
  /\ inbox = [s \in Sockets |-> <<>>]
  /\ outbox = [s \in Sockets |-> <<>>]
  /\ acked = 0 /\ authed = {} /\ muted = {}
  /\ progress = [n \in Events |-> "none"]
  /\ owed = FALSE /\ closed = FALSE /\ leave = "no"
  /\ notices = 0 /\ drops = 0

(* import('ws') resolves. *)
Imported ==
  /\ pending > 0
  /\ pending' = pending - 1
  /\ Construct(state)
  /\ UNCHANGED <<url, finalHost, session, isOpen, ackSent, reconnect, last, attempts,
                 timers, gap, wire, app, server>>

(* handleWebSocketOpenEvent(): every socket shares this handler and its fields. *)
Opened(s) ==
  LET connOpen == conn = s \/ IsConnOpen
  IN /\ state[s] = "connecting"
     /\ state' = [state EXCEPT ![s] = "open"]
     /\ IF reconnect /\ connOpen /\ ackSent
        THEN Send(Req("resume", 0))
        ELSE UNCHANGED outbox
     /\ IF reconnect THEN StartAll ELSE UNCHANGED timers
     /\ reconnect' = FALSE
     /\ isOpen' = TRUE
     /\ UNCHANGED <<conn, pending, created, url, finalHost, session, ackSent, last,
                    attempts, gap, inbox, app, server>>

(* handleWebSocketCloseEvent(): the closing handshake ends, or the network or
   the server ends the connection. *)
Closed(s) ==
  /\ \/ state[s] = "closing" /\ UNCHANGED drops
     \/ state[s] \in {"connecting", "open"} /\ drops < MaxDrops /\ drops' = drops + 1
  /\ state' = [state EXCEPT ![s] = "closed"]
  /\ timers' = timers \ {"ping", "reconnect"}
  /\ isOpen' = FALSE
  /\ inbox' = [inbox EXCEPT ![s] = <<>>]
  /\ outbox' = [outbox EXCEPT ![s] = <<>>]
  /\ UNCHANGED <<conn, pending, created, url, finalHost, session, ackSent, reconnect, last,
                 attempts, gap, app, acked, authed, muted, notices>>

-----------------------------------------------------------------------------
(* handleDMSEvents(): one action for each kind of message. *)

Receive(s, type) ==
  /\ state[s] = "open" \/ (Node /\ state[s] = "closing")
  /\ inbox[s] # <<>>
  /\ Head(inbox[s]).type = type
  /\ inbox' = [inbox EXCEPT ![s] = Tail(@)]

(* mtype -1 *)
SwitchUrl(s) ==
  LET h == Head(inbox[s]).host
  IN /\ Receive(s, "switch")
     /\ url' = h
     /\ IF IsConnOpen
        THEN Room /\ MakeNewConnection(Closing(conn), h)
        ELSE UNCHANGED <<state, finalHost, created, conn, pending>>
     /\ UNCHANGED <<session, isOpen, ackSent, reconnect, last, attempts, timers, gap,
                    outbox, app, server>>

(* mtype -11 with key_mismatch or Invalid Request *)
SessionExpired(s) ==
  /\ Receive(s, "keyMismatch")
  /\ IF attempts = 0
     THEN /\ Room
          /\ attempts' = attempts + 1
          /\ CreateWebSocketConnection(state, url, finalHost)
     ELSE UNCHANGED <<attempts, state, created, conn, pending>>
  /\ UNCHANGED <<url, finalHost, session, isOpen, ackSent, reconnect, last, timers, gap,
                 outbox, app, server>>

(* subscribe(), which throws when the connection is not open. *)
Subscribe == IF IsConnOpen THEN Send(Req("subscribe", 0)) ELSE UNCHANGED outbox

(* mtype 0: the application's open listener runs before the timers start. *)
AuthSuccess(s) ==
  /\ Receive(s, "auth")
  /\ session' = TRUE
  /\ \/ /\ "nothing" \in OnOpen
        /\ UNCHANGED <<state, outbox, closed>>
     \/ /\ "subscribe" \in OnOpen
        /\ Subscribe
        /\ UNCHANGED <<state, closed>>
     \/ /\ "close" \in OnOpen
        /\ state' = IF IsConnOpen THEN Closing(conn) ELSE state
        /\ closed' = TRUE
        /\ UNCHANGED outbox
  /\ StartAll
  /\ UNCHANGED <<conn, pending, created, url, finalHost, isOpen, ackSent, reconnect, last,
                 attempts, gap, progress, owed, leave, server>>

(* mtype 670 *)
ServerDown(s) ==
  /\ Receive(s, "down")
  /\ timers' = timers \cup {"pingServer"}
  /\ UNCHANGED <<state, conn, pending, created, url, finalHost, session, isOpen, ackSent,
                 reconnect, last, attempts, gap, outbox, app, server>>

(* Mutant: the confirmation of a resumption is not answered. *)
ConnectedUnanswered(s) ==
  /\ Receive(s, "connect")
  /\ UNCHANGED <<state, outbox, client, app, server>>

(* mtype 650: handleDataEvents() on a subscription's confirmation. *)
Connected(s) ==
  /\ Receive(s, "connect")
  /\ IF ackSent /\ IsConnOpen THEN Send(Req("ackResume", 0)) ELSE UNCHANGED outbox
  /\ UNCHANGED <<state, client, app, server>>

(* Mutants: no check of repeated events; one that forgets ackSent. *)
AcksNever(n) == FALSE
AcksUnasked(n) == last = n

(* Mutant: what a connection delivers that is not the current one any more is taken for a
   repetition. *)
DataEventUngiven(s) ==
  LET n == Head(inbox[s]).id
  IN /\ Receive(s, "event")
     /\ last' = n /\ ackSent' = ackSent
     /\ IF s # conn
        THEN /\ IF IsConnOpen THEN Send(Req("ack", n)) ELSE UNCHANGED outbox
             /\ UNCHANGED <<progress, owed>>
        ELSE progress' = [progress EXCEPT ![n] = "given"] /\ owed' = TRUE /\ UNCHANGED outbox
     /\ UNCHANGED <<state, conn, pending, created, url, finalHost, session, isOpen, reconnect,
                    attempts, timers, gap, closed, leave, server>>

(* mtype 650: handleDataEvents() on an event, a repeated one or a new one. *)
AcksAgain(n) == last = n /\ ackSent

DataEvent(s) ==
  LET n == Head(inbox[s]).id
  IN /\ Receive(s, "event")
     /\ \/ /\ AcksAgain(n)
           /\ IF IsConnOpen THEN Send(Req("ack", last)) ELSE UNCHANGED outbox
           /\ UNCHANGED <<ackSent, last, progress, owed>>
        \/ /\ ~AcksAgain(n)
           /\ ackSent' = FALSE
           /\ last' = n
           /\ progress' = [progress EXCEPT ![n] = "given"]
           /\ owed' = TRUE
           /\ UNCHANGED outbox
     /\ UNCHANGED <<state, conn, pending, created, url, finalHost, session, isOpen, reconnect,
                    attempts, timers, gap, closed, leave, server>>

-----------------------------------------------------------------------------
(* The timers. *)

(* startPing() and startPingToServer(): a tick that finds no open connection
   stops the interval. *)
IntervalStops(t) ==
  /\ t \in timers \ {"reconnect"}
  /\ ~IsConnOpen
  /\ timers' = timers \ {t}
  /\ UNCHANGED <<state, conn, pending, created, url, finalHost, session, isOpen, ackSent,
                 reconnect, last, attempts, gap, wire, app, server>>

(* startCloseAndReconnect() after 27 minutes; no gap of 50 ms is that long. *)
ReconnectFires ==
  /\ "reconnect" \in timers
  /\ ~gap
  /\ IF IsConnOpen
     THEN /\ Room
          /\ ClearAll
          /\ state' = Closing(conn)
          /\ gap' = TRUE
     ELSE /\ timers' = timers \ {"reconnect"}
          /\ UNCHANGED <<state, gap>>
  /\ UNCHANGED <<conn, pending, created, url, finalHost, session, isOpen, ackSent, reconnect,
                 last, attempts, wire, app, server>>

(* ... and its inner timeout after 50 ms. *)
GapEnds ==
  /\ gap
  /\ gap' = FALSE
  /\ reconnect' = TRUE
  /\ MakeNewConnection(state, url)
  /\ UNCHANGED <<url, session, isOpen, ackSent, last, attempts, timers, wire, app, server>>

-----------------------------------------------------------------------------
(* The application. *)

(* sendAck(), once for each message given. *)
SendAck ==
  /\ owed
  /\ AckWhenOpen => IsConnOpen
  /\ owed' = FALSE
  /\ IF IsConnOpen
     THEN /\ Send(Req("ack", last))
          /\ ackSent' = TRUE
          /\ progress' = [progress EXCEPT ![last] = "acked"]
     ELSE /\ progress' = [progress EXCEPT ![last] = "ackDropped"]
          /\ UNCHANGED <<outbox, ackSent>>
  /\ UNCHANGED <<state, conn, pending, created, url, finalHost, session, isOpen, reconnect,
                 last, attempts, timers, gap, inbox, closed, leave, server>>

(* close() *)
Close ==
  /\ Closes /\ ~closed
  /\ closed' = TRUE
  /\ state' = IF IsConnOpen THEN Closing(conn) ELSE state
  /\ ClearAll
  /\ UNCHANGED <<conn, pending, created, url, finalHost, session, isOpen, ackSent, reconnect,
                 last, attempts, gap, wire, progress, owed, leave, server>>

(* unsubscribe(), of a client that was told it may subscribe, and subscribe() later on;
   both throw when no connection is open. *)
Unsubscribe ==
  /\ conn \in Leaving /\ leave = "no" /\ session
  /\ IsConnOpen /\ Send(Req("unsubscribe", 0))
  /\ leave' = "unsubscribed"
  /\ UNCHANGED <<state, client, inbox, progress, owed, closed, server>>

SubscribeAgain ==
  /\ leave = "unsubscribed"
  /\ IsConnOpen /\ Subscribe
  /\ leave' = "again"
  /\ UNCHANGED <<state, client, inbox, progress, owed, closed, server>>

-----------------------------------------------------------------------------
(* The server. *)

Push(s, ms) == inbox' = [inbox EXCEPT ![s] = @ \o ms]

EventAfter(n) == IF n < MaxEvent THEN <<Event(n + 1)>> ELSE <<>>

Authenticate(s) ==
  /\ state[s] = "open" /\ s \notin authed
  /\ authed' = authed \cup {s}
  /\ Push(s, <<Msg("auth")>>)
  /\ UNCHANGED <<state, client, outbox, app, acked, muted, notices, drops>>

Notify(s) ==
  /\ state[s] = "open" /\ notices < MaxNotices
  /\ notices' = notices + 1
  /\ \/ \E type \in Notices \ {"switch"} : Push(s, <<Msg(type)>>)
     \/ "switch" \in Notices /\ \E h \in Hosts : Push(s, <<Switch(h)>>)
  /\ UNCHANGED <<state, client, outbox, app, acked, authed, muted, drops>>

(* A resumption is only confirmed; to all else the server answers with the event
   after the last acknowledged, unless that connection was asked to send no more. *)
Serve(s) ==
  LET r == Head(outbox[s])
  IN /\ outbox[s] # <<>>
     /\ outbox' = [outbox EXCEPT ![s] = Tail(@)]
     /\ acked' = IF r.type = "ack" /\ r.id > acked THEN r.id ELSE acked
     /\ muted' = CASE r.type = "unsubscribe" -> muted \cup {s}
                   [] r.type \in {"subscribe", "resume"} -> muted \ {s}
                   [] OTHER -> muted
     /\ Push(s, (IF r.type \in {"subscribe", "resume"} THEN <<Msg("connect")>> ELSE <<>>)
             \o (IF r.type # "resume" /\ s \notin muted' THEN EventAfter(acked') ELSE <<>>))
     /\ UNCHANGED <<state, client, app, authed, notices, drops>>

-----------------------------------------------------------------------------
Handle(s) ==
  \/ SwitchUrl(s)
  \/ SessionExpired(s)
  \/ AuthSuccess(s)
  \/ ServerDown(s)
  \/ Connected(s)
  \/ DataEvent(s)

Next ==
  \/ Imported
  \/ \E s \in Sockets : Opened(s) \/ Closed(s) \/ Handle(s)
  \/ \E t \in Timers : IntervalStops(t)
  \/ ReconnectFires
  \/ GapEnds
  \/ SendAck
  \/ Close
  \/ Unsubscribe
  \/ SubscribeAgain
  \/ \E s \in Sockets : Authenticate(s) \/ Notify(s) \/ Serve(s)

Spec == Init /\ [][Next]_vars

(* The event loop runs what is due, the network and the server answer, and the
   application acknowledges what it was given.  Nothing forces the 27 minutes
   to pass, a connection to fail, or the server to send a notice or to
   authenticate a resumed session again. *)
Fairness ==
  /\ WF_vars(Imported) /\ WF_vars(GapEnds) /\ WF_vars(SendAck)
  /\ \A s \in Sockets :
       /\ WF_vars(Opened(s)) /\ WF_vars(state[s] = "closing" /\ Closed(s))
       /\ WF_vars(Handle(s)) /\ WF_vars(Serve(s)) /\ WF_vars(~session /\ Authenticate(s))

FairSpec == Spec /\ Fairness

-----------------------------------------------------------------------------
TypeOK ==
  /\ state \in [Sockets -> {"none", "connecting", "open", "closing", "closed"}]
  /\ created \in 0..MaxSockets /\ conn \in 0..created /\ pending \in 0..MaxSockets
  /\ url \in Hosts /\ finalHost \in Hosts
  /\ session \in BOOLEAN /\ isOpen \in BOOLEAN /\ ackSent \in BOOLEAN /\ reconnect \in BOOLEAN
  /\ last \in 0..MaxEvent /\ attempts \in 0..1
  /\ timers \subseteq Timers /\ gap \in BOOLEAN
  /\ inbox \in [Sockets -> Seq(Message)]
  /\ outbox \in [Sockets -> Seq(Request)]
  /\ acked \in 0..MaxEvent /\ authed \subseteq Sockets /\ muted \subseteq Sockets
  /\ progress \in [Events -> {"none", "given", "acked", "ackDropped"}]
  /\ owed \in BOOLEAN /\ closed \in BOOLEAN /\ leave \in {"no", "unsubscribed", "again"}
  /\ notices \in 0..MaxNotices /\ drops \in 0..MaxDrops

(* The client keeps one connection: a second one is alive only because a key
   mismatch let the client try again once beside a connection that the server
   still held. *)
Live == {s \in Sockets : state[s] \in {"connecting", "open"}}

OneLivePerFallback == Cardinality(Live) <= 1 + attempts

(* "Skipping if streaming id already processed": an event the application has
   acknowledged is never given to it again, whatever was lost or repeated. *)
AckedOnce ==
  [][\A n \in Events : progress[n] = "acked" => progress'[n] = "acked"]_vars

(* No event is lost: whatever sockets the client has, whichever of them deliver, closing
   ones too, and whatever acknowledgements are dropped or sent late, the events it gave the
   application are the first ones of the stream (handleDataEvents(), sendAck()). *)
NothingSkipped ==
  \A m, n \in Events : m < n /\ progress[n] # "none" => progress[m] # "none"

(* The stream of EventDelivery is the events of this one. *)
Delivery == INSTANCE EventDelivery

(* handleDataEvents() and sendAck() implement EventDelivery: where a closing socket
   delivers nothing and no key mismatch makes the client open a second connection, the
   application sees the events one at a time, in order and, once acknowledged, never
   again. *)
DeliversInOrder == Delivery!Spec

(* An event reaches the application only after it acknowledged the one before:
   no answer of the client's own moves the stream past it. *)
OneAtATime ==
  \A n \in Events : n > 1 /\ progress[n] # "none" => progress[n - 1] = "acked"

(* "Send acknowledgement to receive next message": once the application has
   called sendAck() for an event, it is given the next one, unless it has unsubscribed;
   once it has subscribed again, it is given it after all. *)
StreamContinues ==
  \A n \in Events : n < MaxEvent =>
    progress[n] \in {"acked", "ackDropped"} ~> progress[n + 1] # "none" \/ leave = "unsubscribed"

(* "Unsubscribe from channel": the client asks for no more events until the application
   subscribes again.  The code violates it: a renewed connection resumes. *)
StaysUnsubscribed ==
  [][leave = "unsubscribed" /\ leave' = leave =>
       \A s \in Sockets : outbox'[s] # Append(outbox[s], Req("resume", 0))]_vars

(* isConnected(), "check if the connection is open", is true of a connection
   that has opened. *)
OpenIsConnected == IsConnOpen => isOpen
=============================================================================
