-------------------------- MODULE ControlChannel --------------------------
(***************************************************************************)
(* The control channel of src/control/: one ControlServer and the          *)
(* ControlClients of the commands that talk to it, over local sockets.     *)
(*                                                                         *)
(* A socket is two FIFO queues.  Each end closes its side of it, and sees  *)
(* the other's close as the last message, "fin".  The socket layer         *)
(* (node:net) is external; it is modelled as this code uses it, with       *)
(* allowHalfOpen off, so that the end of one direction ends both.          *)
(***************************************************************************)
EXTENDS Integers, Sequences, FiniteSets

CONSTANTS
  Clients,     \* the ControlClient objects
  Sockets,     \* bound: the sockets that may ever be opened
  Requests,    \* bound: the ids of the requests that may ever be made
  Handlers,    \* the callbacks a client may subscribe
  MaxEvents,   \* bound: the events that may be published
  MaxUnderWay, \* bound: a client subscribes when fewer messages are under way
  None         \* no socket, no client

VARIABLES
  server,         \* ControlServer.server: is it listening
  connections,    \* ControlServer.connections
  subscriptions,  \* ControlServer.subscriptions of the one event channel
  handling,       \* what became of the handler of each request
  published,      \* how many events were published
  serverEnd,      \* the server's end of each socket
  clientEnd,      \* the client's end of each socket
  owner,          \* the client of each socket
  toServer,       \* what is under way on each socket
  toClient,
  socket,         \* ControlClient.socket
  pending,        \* ControlClient.pending
  eventHandlers,  \* ControlClient.eventHandlers of the one event channel
  received,       \* the events its callbacks got
  sentOn,         \* the socket each request was made on
  outcome         \* what became of the promise of each request

serverVars == <<server, connections, subscriptions, handling, published, serverEnd>>
clientVars == <<socket, pending, eventHandlers, received, sentOn, outcome, owner>>
vars == <<serverVars, clientVars, clientEnd, toServer, toClient>>

ASSUME ChannelAssumption ==
  /\ None \notin Sockets /\ None \notin Clients
  /\ MaxEvents \in Nat /\ MaxUnderWay \in Nat

Request(id) == [kind |-> "request", id |-> id]
Response(id, ok) == [kind |-> "response", id |-> id, ok |-> ok]
Event(n) == [kind |-> "event", n |-> n]
Plain(kind) == [kind |-> kind]

ClientMessages ==
  {Request(id) : id \in Requests} \cup {Plain(k) : k \in {"subscribe", "unsubscribe", "fin"}}
ServerMessages ==
  {Response(id, ok) : id \in Requests, ok \in BOOLEAN}
    \cup {Event(n) : n \in 1..MaxEvents} \cup {Plain("fin")}

(* unused: no promise yet; closed: rejected as the connection closed.      *)
Outcomes == {"unused", "pending", "ok", "error", "timeout", "closed"}

Init ==
  /\ server = "listening"
  /\ connections = {} /\ subscriptions = {}
  /\ handling = [id \in Requests |-> "none"]
  /\ published = 0
  /\ serverEnd = [s \in Sockets |-> "none"]
  /\ clientEnd = [s \in Sockets |-> "none"]
  /\ owner = [s \in Sockets |-> None]
  /\ toServer = [s \in Sockets |-> <<>>]
  /\ toClient = [s \in Sockets |-> <<>>]
  /\ socket = [c \in Clients |-> None]
  /\ pending = [c \in Clients |-> {}]
  /\ eventHandlers = [c \in Clients |-> {}]
  /\ received = [c \in Clients |-> <<>>]
  /\ sentOn = [id \in Requests |-> None]
  /\ outcome = [id \in Requests |-> "unused"]

-----------------------------------------------------------------------------
(* writeNdjson on an end that was closed goes nowhere.                     *)
SendToServer(s, msg) ==
  toServer' = IF clientEnd[s] = "open"
              THEN [toServer EXCEPT ![s] = Append(@, msg)] ELSE toServer

SendToClients(S, msg) ==
  toClient' = [s \in Sockets |->
                 IF s \in S /\ serverEnd[s] = "open"
                 THEN Append(toClient[s], msg) ELSE toClient[s]]

(* ControlClient.connect: the kernel queues the connection for a server    *)
(* that listens; with none there the promise is rejected and nothing       *)
(* changes.  A command connects its client once.                           *)
Connect(c, s) ==
  /\ server = "listening"
  /\ owner[s] = None
  /\ \A t \in Sockets : owner[t] # c
  /\ owner' = [owner EXCEPT ![s] = c]
  /\ clientEnd' = [clientEnd EXCEPT ![s] = "connecting"]
  /\ UNCHANGED <<serverVars, socket, pending, eventHandlers, received, sentOn,
                 outcome, toServer, toClient>>

Connected(s) ==
  /\ clientEnd[s] = "connecting"
  /\ toClient[s] = <<>>
  /\ clientEnd' = [clientEnd EXCEPT ![s] = "open"]
  /\ socket' = [socket EXCEPT ![owner[s]] = s]
  /\ UNCHANGED <<serverVars, pending, eventHandlers, received, sentOn, outcome,
                 owner, toServer, toClient>>

(* The timer of connect, or its 'error' listener: the socket is destroyed. *)
ConnectFails(s) ==
  /\ clientEnd[s] = "connecting"
  /\ clientEnd' = [clientEnd EXCEPT ![s] = "closed"]
  /\ toServer' = [toServer EXCEPT ![s] = <<Plain("fin")>>]
  /\ UNCHANGED <<serverVars, clientVars, toClient>>

(* ControlClient.request.                                                  *)
MakeRequest(c, id) ==
  /\ socket[c] # None
  /\ outcome[id] = "unused"
  /\ outcome' = [outcome EXCEPT ![id] = "pending"]
  /\ pending' = [pending EXCEPT ![c] = @ \cup {id}]
  /\ sentOn' = [sentOn EXCEPT ![id] = socket[c]]
  /\ SendToServer(socket[c], Request(id))
  /\ UNCHANGED <<serverVars, socket, eventHandlers, received, owner, clientEnd,
                 toClient>>

(* Mutation: the entry of a request that timed out is left in the map.     *)
TimeoutKeepsEntry(c, id) ==
  /\ id \in pending[c]
  /\ outcome' = [outcome EXCEPT ![id] = "timeout"]
  /\ UNCHANGED <<serverVars, socket, pending, eventHandlers, received, sentOn,
                 owner, clientEnd, toServer, toClient>>

(* The timer of a request.                                                 *)
Timeout(c, id) ==
  /\ id \in pending[c]
  /\ pending' = [pending EXCEPT ![c] = @ \ {id}]
  /\ outcome' = [outcome EXCEPT ![id] = "timeout"]
  /\ UNCHANGED <<serverVars, socket, eventHandlers, received, sentOn, owner,
                 clientEnd, toServer, toClient>>

(* ControlClient.subscribe: the first callback subscribes the connection.  *)
Subscribe(c, h) ==
  /\ socket[c] # None
  /\ h \notin eventHandlers[c]
  /\ Len(toServer[socket[c]]) < MaxUnderWay
  /\ IF eventHandlers[c] = {} THEN SendToServer(socket[c], Plain("subscribe"))
                              ELSE UNCHANGED toServer
  /\ eventHandlers' = [eventHandlers EXCEPT ![c] = @ \cup {h}]
  /\ UNCHANGED <<serverVars, socket, pending, received, sentOn, outcome, owner,
                 clientEnd, toClient>>

(* The function subscribe returned, called once.                           *)
Unsubscribe(c, h) ==
  /\ h \in eventHandlers[c]
  /\ IF eventHandlers[c] = {h} /\ socket[c] # None
     THEN SendToServer(socket[c], Plain("unsubscribe"))
     ELSE UNCHANGED toServer
  /\ eventHandlers' = [eventHandlers EXCEPT ![c] = @ \ {h}]
  /\ UNCHANGED <<serverVars, socket, pending, received, sentOn, outcome, owner,
                 clientEnd, toClient>>

(* ControlClient.disconnect.                                               *)
Disconnect(c) ==
  LET s == socket[c] IN
  /\ s # None
  /\ socket' = [socket EXCEPT ![c] = None]
  /\ SendToServer(s, Plain("fin"))
  /\ clientEnd' = [clientEnd EXCEPT ![s] = IF @ = "open" THEN "ended" ELSE @]
  /\ UNCHANGED <<serverVars, pending, eventHandlers, received, sentOn, outcome,
                 owner, toClient>>

-----------------------------------------------------------------------------
(* ControlClient.handleMessage, and the 'close' listener of its socket.    *)

(* Mutation: a response is not looked up among the pending requests.       *)
ReceiveAnyResponse(s) ==
  LET c == owner[s]
      msg == Head(toClient[s])
  IN /\ msg.kind = "response"
     /\ pending' = [pending EXCEPT ![c] = @ \ {msg.id}]
     /\ outcome' = [outcome EXCEPT ![msg.id] = IF msg.ok THEN "ok" ELSE "error"]
     /\ UNCHANGED <<received, clientEnd>>

(* A response settles the promise that still waits for it, if any.         *)
ReceiveResponse(s) ==
  LET c == owner[s]
      msg == Head(toClient[s])
  IN /\ msg.kind = "response"
     /\ IF msg.id \in pending[c]
        THEN /\ pending' = [pending EXCEPT ![c] = @ \ {msg.id}]
             /\ outcome' = [outcome EXCEPT ![msg.id] = IF msg.ok THEN "ok" ELSE "error"]
        ELSE UNCHANGED <<pending, outcome>>
     /\ UNCHANGED <<received, clientEnd>>

ReceiveEvent(s) ==
  LET c == owner[s]
      msg == Head(toClient[s])
  IN /\ msg.kind = "event"
     /\ received' = IF eventHandlers[c] = {} THEN received
                    ELSE [received EXCEPT ![c] = Append(@, msg.n)]
     /\ UNCHANGED <<pending, outcome, clientEnd>>

(* Mutation: the timers are cleared and nobody is told.                    *)
ForgetPending(c) ==
  /\ pending' = [pending EXCEPT ![c] = {}]
  /\ UNCHANGED outcome

(* Every promise of the client is rejected, whichever socket it used.      *)
RejectPending(c) ==
  /\ pending' = [pending EXCEPT ![c] = {}]
  /\ outcome' = [id \in Requests |->
                   IF id \in pending[c] THEN "closed" ELSE outcome[id]]

ReceiveClose(s) ==
  /\ Head(toClient[s]).kind = "fin"
  /\ clientEnd' = [clientEnd EXCEPT ![s] = "closed"]
  /\ RejectPending(owner[s])
  /\ UNCHANGED received

ClientReceive(s) ==
  /\ clientEnd[s] \in {"open", "ended"}
  /\ toClient[s] # <<>>
  /\ toClient' = [toClient EXCEPT ![s] = Tail(@)]
  /\ ReceiveResponse(s) \/ ReceiveEvent(s) \/ ReceiveClose(s)
  /\ UNCHANGED <<serverVars, socket, eventHandlers, sentOn, owner, toServer>>

-----------------------------------------------------------------------------
(* ControlServer.                                                          *)

(* handleConnection.                                                       *)
Accept(s) ==
  /\ server = "listening"
  /\ clientEnd[s] # "none"
  /\ serverEnd[s] = "none"
  /\ serverEnd' = [serverEnd EXCEPT ![s] = "open"]
  /\ connections' = connections \cup {s}
  /\ UNCHANGED <<server, subscriptions, handling, published, clientVars, clientEnd,
                 toServer, toClient>>

(* handleMessage: a request goes to its handler.                           *)
ReceiveRequest(s) ==
  /\ Head(toServer[s]).kind = "request"
  /\ handling' = [handling EXCEPT ![Head(toServer[s]).id] = "called"]
  /\ UNCHANGED <<connections, subscriptions, serverEnd, toClient>>

(* Mutation: a subscription is acknowledged, which the protocol has not.   *)
AcknowledgeSubscription(s) ==
  /\ Head(toServer[s]).kind \in {"subscribe", "unsubscribe"}
  /\ subscriptions' = IF Head(toServer[s]).kind = "subscribe"
                      THEN subscriptions \cup {s} ELSE subscriptions \ {s}
  /\ SendToClients({s}, Head(toServer[s]))
  /\ UNCHANGED <<connections, handling, serverEnd>>

(* handleMessage: subscribe and unsubscribe.                               *)
ReceiveSubscription(s) ==
  /\ Head(toServer[s]).kind \in {"subscribe", "unsubscribe"}
  /\ subscriptions' = IF Head(toServer[s]).kind = "subscribe"
                      THEN subscriptions \cup {s} ELSE subscriptions \ {s}
  /\ UNCHANGED <<connections, handling, serverEnd, toClient>>

(* Mutation: the 'close' listener forgets the subscriptions.               *)
ForgetConnectionOnly(s) ==
  /\ connections' = connections \ {s}
  /\ UNCHANGED subscriptions

ForgetSocket(s) ==
  /\ connections' = connections \ {s}
  /\ subscriptions' = subscriptions \ {s}

(* The client's end: the socket ends the other direction, and 'close'      *)
(* follows; what the handlers send between the two nobody receives.        *)
ReceiveEnd(s) ==
  /\ Head(toServer[s]).kind = "fin"
  /\ ForgetSocket(s)
  /\ serverEnd' = [serverEnd EXCEPT ![s] = "closed"]
  /\ SendToClients({s}, Plain("fin"))
  /\ UNCHANGED handling

ServerReceive(s) ==
  /\ serverEnd[s] = "open"
  /\ toServer[s] # <<>>
  /\ toServer' = [toServer EXCEPT ![s] = Tail(@)]
  /\ ReceiveRequest(s) \/ ReceiveSubscription(s) \/ ReceiveEnd(s)
  /\ UNCHANGED <<server, published, clientVars, clientEnd>>

(* handleRequest once its handler has come back, or thrown; a request of a *)
(* type that has none gets the same answer as one whose handler threw.     *)
Respond(id, ok) ==
  /\ handling[id] = "called"
  /\ handling' = [handling EXCEPT ![id] = IF ok THEN "returned" ELSE "threw"]
  /\ SendToClients({sentOn[id]}, Response(id, ok))
  /\ UNCHANGED <<server, connections, subscriptions, published, serverEnd,
                 clientVars, clientEnd, toServer>>

(* Mutation: a connection is written to once per subscription it made.     *)
PublishTwice ==
  /\ published < MaxEvents
  /\ published' = published + 1
  /\ toClient' = [s \in Sockets |->
                   IF s \in subscriptions
                   THEN toClient[s] \o <<Event(published + 1), Event(published + 1)>>
                   ELSE toClient[s]]
  /\ UNCHANGED <<server, connections, subscriptions, handling, serverEnd, clientVars,
                 clientEnd, toServer>>

(* publish.                                                                *)
Publish ==
  /\ published < MaxEvents
  /\ published' = published + 1
  /\ SendToClients(subscriptions, Event(published + 1))
  /\ UNCHANGED <<server, connections, subscriptions, handling, serverEnd, clientVars,
                 clientEnd, toServer>>

(* Mutation: only the sockets of subscribers are destroyed.                *)
StopSubscribersOnly ==
  /\ server = "listening"
  /\ server' = "stopped"
  /\ connections' = {} /\ subscriptions' = {}
  /\ SendToClients(subscriptions, Plain("fin"))
  /\ serverEnd' = [s \in Sockets |->
                     IF s \in subscriptions THEN "closed" ELSE serverEnd[s]]
  /\ UNCHANGED <<handling, published, clientVars, clientEnd, toServer>>

(* stop: every connection is destroyed, and those the kernel had queued    *)
(* for the server are reset.                                               *)
Stop ==
  /\ server = "listening"
  /\ server' = "stopped"
  /\ connections' = {} /\ subscriptions' = {}
  /\ serverEnd' = [s \in Sockets |->
                     IF owner[s] # None THEN "closed" ELSE serverEnd[s]]
  /\ toClient' = [s \in Sockets |->
                    IF owner[s] # None /\ serverEnd[s] # "closed"
                    THEN Append(toClient[s], Plain("fin")) ELSE toClient[s]]
  /\ UNCHANGED <<handling, published, clientVars, clientEnd, toServer>>

(* What was under way to the client of a destroyed socket may be lost.     *)
LoseRest(s) ==
  /\ server = "stopped"
  /\ Len(toClient[s]) > 1
  /\ toClient' = [toClient EXCEPT ![s] = <<Plain("fin")>>]
  /\ UNCHANGED <<serverVars, clientVars, clientEnd, toServer>>

-----------------------------------------------------------------------------
Network ==
  \E s \in Sockets : \/ Connected(s) \/ ConnectFails(s) \/ Accept(s)
                     \/ ClientReceive(s) \/ ServerReceive(s) \/ LoseRest(s)

Next ==
  \/ \E c \in Clients :
       \/ \E s \in Sockets : Connect(c, s)
       \/ \E id \in Requests : MakeRequest(c, id) \/ Timeout(c, id)
       \/ \E h \in Handlers : Subscribe(c, h) \/ Unsubscribe(c, h)
       \/ Disconnect(c)
  \/ Network
  \/ \E id \in Requests, ok \in BOOLEAN : Respond(id, ok)
  \/ Publish
  \/ Stop

(* Timers expire and the sockets deliver; nothing makes a handler come     *)
(* back, a command ask, or the server stop.                                *)
Fairness ==
  /\ \A s \in Sockets : /\ WF_vars(Connected(s) \/ ConnectFails(s))
                        /\ WF_vars(ClientReceive(s))
  /\ \A c \in Clients, id \in Requests : WF_vars(Timeout(c, id))

Spec == Init /\ [][Next]_vars

FairSpec == Spec /\ Fairness

-----------------------------------------------------------------------------
TypeOK ==
  /\ server \in {"listening", "stopped"}
  /\ connections \subseteq Sockets /\ subscriptions \subseteq Sockets
  /\ handling \in [Requests -> {"none", "called", "returned", "threw"}]
  /\ published \in 0..MaxEvents
  /\ serverEnd \in [Sockets -> {"none", "open", "closed"}]
  /\ clientEnd \in [Sockets -> {"none", "connecting", "open", "ended", "closed"}]
  /\ owner \in [Sockets -> Clients \cup {None}]
  /\ toServer \in [Sockets -> Seq(ClientMessages)]
  /\ toClient \in [Sockets -> Seq(ServerMessages)]
  /\ socket \in [Clients -> Sockets \cup {None}]
  /\ pending \in [Clients -> SUBSET Requests]
  /\ eventHandlers \in [Clients -> SUBSET Handlers]
  /\ received \in [Clients -> Seq(1..MaxEvents)]
  /\ sentOn \in [Requests -> Sockets \cup {None}]
  /\ outcome \in [Requests -> Outcomes]

(* A client keeps an entry, with its timer, exactly for the promises that  *)
(* are not settled: a response, a timeout and a close may come in any      *)
(* order and each promise is settled by one of them.                       *)
PendingIffUnsettled ==
  \A id \in Requests :
    outcome[id] = "pending" <=> \E c \in Clients : id \in pending[c]

(* What a command may count on, whatever the order of answers, timers and  *)
(* closes: its request is carried out at most once, an answer is the one   *)
(* its own call came to, and a promise once settled stays so.              *)
Promised == INSTANCE Rpc
ImplementsRpc == Promised!Spec

(* The server publishes to open connections only, whichever way they end.  *)
SubscribersAreConnected ==
  /\ subscriptions \subseteq connections
  /\ \A s \in connections : serverEnd[s] = "open"

(* Callbacks see each event at most once and in the order of publication,  *)
(* across unsubscribing and subscribing again.                             *)
EventsInOrder ==
  \A c \in Clients : \A i, j \in DOMAIN received[c] :
    i < j => received[c][i] < received[c][j]

(* No request waits for ever, whatever becomes of server and connection.   *)
RequestsSettle == \A id \in Requests : outcome[id] = "pending" ~> outcome[id] # "pending"

(* stop() ends every client's connection, not only the subscribers'.       *)
StopEndsConnections ==
  server = "stopped" ~> \A s \in Sockets : clientEnd[s] \in {"none", "closed"}

=============================================================================
