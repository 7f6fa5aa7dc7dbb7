------------------------ MODULE ControlChannelProofs ------------------------
(***************************************************************************)
(* What is proved of the control channel, for any number of clients,       *)
(* sockets, requests, callbacks and events: every promise is settled by    *)
(* one of an answer, a timer and a close, events arrive once and in order, *)
(* and the channel implements Rpc.                                         *)
(***************************************************************************)
EXTENDS ControlChannel, TLAPS

(* The indices of what is under way on a queue.                            *)
Places(q) == 1..Len(q)

(* A socket belongs to the client that opened it, which opens one.         *)
OwnersInv ==
  /\ \A s \in Sockets : clientEnd[s] = "none" => serverEnd[s] = "none"
  /\ \A s \in Sockets : owner[s] = None <=> clientEnd[s] = "none"
  /\ \A s \in Sockets : owner[s] = None => toClient[s] = <<>>
  /\ \A s, t \in Sockets : owner[s] # None /\ owner[s] = owner[t] => s = t
  /\ \A c \in Clients : socket[c] # None => owner[socket[c]] = c

(* A request that is waited for was made on a socket of its client.        *)
PendingInv ==
  /\ \A c \in Clients : \A id \in pending[c] :
       outcome[id] = "pending" /\ sentOn[id] # None /\ owner[sentOn[id]] = c
  /\ \A id \in Requests : outcome[id] = "pending" => \E c \in Clients : id \in pending[c]

(* A request under way is the only one of its id, and nobody handled it.   *)
RequestsInv ==
  /\ \A id \in Requests : outcome[id] = "unused" => handling[id] = "none"
  /\ \A s \in Sockets : \A i \in Places(toServer[s]) :
       toServer[s][i].kind = "request" =>
         /\ sentOn[toServer[s][i].id] = s
         /\ outcome[toServer[s][i].id] # "unused"
         /\ handling[toServer[s][i].id] = "none"
  /\ \A s \in Sockets : \A i, j \in Places(toServer[s]) :
       /\ toServer[s][i].kind = "request" /\ toServer[s][j].kind = "request"
       /\ toServer[s][i].id = toServer[s][j].id
       => i = j

(* A response under way is what the call of its handler came to.           *)
ResponsesInv ==
  \A s \in Sockets : \A i \in Places(toClient[s]) :
    toClient[s][i].kind = "response" =>
      handling[toClient[s][i].id] = IF toClient[s][i].ok THEN "returned" ELSE "threw"

SubscribersInv ==
  /\ subscriptions \subseteq connections
  /\ \A s \in Sockets : s \in connections <=> serverEnd[s] = "open"

(* Events are under way in their order, after those that have arrived.     *)
EventsInv ==
  /\ \A c \in Clients : \A k \in 1..Len(received[c]) : received[c][k] <= published
  /\ \A s \in Sockets : \A i \in Places(toClient[s]) :
       toClient[s][i].kind = "event" => toClient[s][i].n <= published
  /\ \A s \in Sockets : \A i, j \in Places(toClient[s]) :
       toClient[s][i].kind = "event" /\ toClient[s][j].kind = "event" /\ i < j =>
         toClient[s][i].n < toClient[s][j].n
  /\ \A s \in Sockets : \A i \in Places(toClient[s]) :
       toClient[s][i].kind = "event" =>
         \A k \in 1..Len(received[owner[s]]) : received[owner[s]][k] < toClient[s][i].n
  /\ EventsInOrder

ChannelInv ==
  /\ TypeOK /\ OwnersInv /\ PendingInv /\ RequestsInv /\ ResponsesInv
  /\ SubscribersInv /\ EventsInv

-----------------------------------------------------------------------------
(* Messages and queues.                                                    *)

LEMMA ClientMessageFacts ==
  /\ \A id \in Requests : Request(id) \in ClientMessages
  /\ \A k \in {"subscribe", "unsubscribe", "fin"} :
       Plain(k) \in ClientMessages /\ Plain(k).kind = k
  /\ \A id \in Requests : Request(id).kind = "request" /\ Request(id).id = id
  /\ \A m \in ClientMessages : m.kind = "request" => m.id \in Requests
BY DEF ClientMessages, Request, Plain

LEMMA ServerMessageFacts ==
  /\ \A id \in Requests, ok \in BOOLEAN :
       /\ Response(id, ok) \in ServerMessages
       /\ Response(id, ok).kind = "response"
       /\ Response(id, ok).id = id /\ Response(id, ok).ok = ok
  /\ \A n \in 1..MaxEvents :
       Event(n) \in ServerMessages /\ Event(n).kind = "event" /\ Event(n).n = n
  /\ Plain("fin") \in ServerMessages /\ Plain("fin").kind = "fin"
  /\ \A m \in ServerMessages : m.kind = "response" => m.id \in Requests /\ m.ok \in BOOLEAN
  /\ \A m \in ServerMessages : m.kind = "event" => m.n \in 1..MaxEvents
<1>1. \A id \in Requests, ok \in BOOLEAN :
        /\ Response(id, ok) \in ServerMessages
        /\ Response(id, ok).kind = "response"
        /\ Response(id, ok).id = id /\ Response(id, ok).ok = ok
  BY DEF ServerMessages, Response
<1>2. \A n \in 1..MaxEvents :
        Event(n) \in ServerMessages /\ Event(n).kind = "event" /\ Event(n).n = n
  BY DEF ServerMessages, Event
<1>3. Plain("fin") \in ServerMessages /\ Plain("fin").kind = "fin"
  BY DEF ServerMessages, Plain
<1>4. ASSUME NEW m \in ServerMessages
      PROVE  /\ m.kind = "response" => m.id \in Requests /\ m.ok \in BOOLEAN
             /\ m.kind = "event" => m.n \in 1..MaxEvents
  <2>1. CASE \E id \in Requests, ok \in BOOLEAN : m = Response(id, ok)
    BY <2>1 DEF Response
  <2>2. CASE \E n \in 1..MaxEvents : m = Event(n)
    BY <2>2 DEF Event
  <2>3. CASE m = Plain("fin")
    BY <2>3 DEF Plain
  <2> QED
    BY <2>1, <2>2, <2>3 DEF ServerMessages
<1> QED
  BY <1>1, <1>2, <1>3, <1>4

(* What is under way after a message was sent.                             *)
LEMMA AppendFacts ==
  ASSUME NEW S, NEW q \in Seq(S), NEW m \in S
  PROVE  /\ Append(q, m) \in Seq(S)
         /\ \A i \in Places(Append(q, m)) :
              \/ i \in Places(q) /\ Append(q, m)[i] = q[i]
              \/ i = Len(q) + 1 /\ Append(q, m)[i] = m
<1>1. Append(q, m) \in Seq(S) /\ Len(q) \in Nat
  OBVIOUS
<1>2. Len(Append(q, m)) = Len(q) + 1
  OBVIOUS
<1>3. \A i \in 1..Len(q) : Append(q, m)[i] = q[i]
  OBVIOUS
<1>4. Append(q, m)[Len(q) + 1] = m
  OBVIOUS
<1> QED
  BY <1>1, <1>2, <1>3, <1>4 DEF Places

(* What is under way after a message was received.                         *)
LEMMA TailFacts ==
  ASSUME NEW S, NEW q \in Seq(S), q # <<>>
  PROVE  /\ Head(q) \in S /\ 1 \in Places(q) /\ Head(q) = q[1]
         /\ Tail(q) \in Seq(S)
         /\ \A i \in Places(Tail(q)) : i + 1 \in Places(q) /\ Tail(q)[i] = q[i + 1]
BY DEF Places

LEMMA SingleFacts ==
  ASSUME NEW S, NEW m \in S
  PROVE  <<m>> \in Seq(S) /\ \A i \in Places(<<m>>) : i = 1 /\ <<m>>[i] = m
BY DEF Places

LEMMA SentToServer ==
  ASSUME TypeOK, NEW s \in Sockets, NEW m \in ClientMessages, SendToServer(s, m)
  PROVE  /\ toServer' \in [Sockets -> Seq(ClientMessages)]
         /\ \A t \in Sockets : \A i \in Places(toServer'[t]) :
              \/ i \in Places(toServer[t]) /\ toServer'[t][i] = toServer[t][i]
              \/ t = s /\ i = Len(toServer[t]) + 1 /\ toServer'[t][i] = m
<1>1. \A t \in Sockets : toServer[t] \in Seq(ClientMessages)
  BY DEF TypeOK
<1>2. \A t \in Sockets : \/ toServer'[t] = toServer[t]
                         \/ t = s /\ toServer'[t] = Append(toServer[t], m)
  BY DEF SendToServer, TypeOK
<1>3. toServer' \in [Sockets -> Seq(ClientMessages)]
  BY <1>1, AppendFacts DEF SendToServer, TypeOK
<1>4. ASSUME NEW t \in Sockets, NEW i \in Places(toServer'[t])
      PROVE  \/ i \in Places(toServer[t]) /\ toServer'[t][i] = toServer[t][i]
             \/ t = s /\ i = Len(toServer[t]) + 1 /\ toServer'[t][i] = m
  <2>1. CASE toServer'[t] = toServer[t]
    BY <2>1
  <2>2. CASE t = s /\ toServer'[t] = Append(toServer[t], m)
    <3>1. toServer[t] \in Seq(ClientMessages) /\ i \in Places(Append(toServer[t], m))
      BY <1>1, <2>2
    <3> QED
      BY <2>2, <3>1, AppendFacts
  <2> QED
    BY <1>2, <2>1, <2>2
<1> QED
  BY <1>3, <1>4

LEMMA SentToClients ==
  ASSUME TypeOK, NEW S, NEW m \in ServerMessages, SendToClients(S, m)
  PROVE  /\ toClient' \in [Sockets -> Seq(ServerMessages)]
         /\ \A t \in Sockets :
              toClient'[t] = toClient[t] \/ (t \in S /\ serverEnd[t] = "open")
         /\ \A t \in Sockets : \A i \in Places(toClient'[t]) :
              \/ i \in Places(toClient[t]) /\ toClient'[t][i] = toClient[t][i]
              \/ i = Len(toClient[t]) + 1 /\ toClient'[t][i] = m
<1>1. \A t \in Sockets : toClient[t] \in Seq(ServerMessages)
  BY DEF TypeOK
<1>2. \A t \in Sockets :
         \/ toClient'[t] = toClient[t]
         \/ /\ t \in S /\ serverEnd[t] = "open"
            /\ toClient'[t] = Append(toClient[t], m)
  BY DEF SendToClients
<1>3. toClient' \in [Sockets -> Seq(ServerMessages)]
  <2>1. \A t \in Sockets : toClient'[t] \in Seq(ServerMessages)
    BY <1>1, <1>2, AppendFacts
  <2> QED
    BY <2>1 DEF SendToClients
<1>4. ASSUME NEW t \in Sockets, NEW i \in Places(toClient'[t])
      PROVE  \/ i \in Places(toClient[t]) /\ toClient'[t][i] = toClient[t][i]
             \/ i = Len(toClient[t]) + 1 /\ toClient'[t][i] = m
  <2>1. CASE toClient'[t] = toClient[t]
    BY <2>1
  <2>2. CASE toClient'[t] = Append(toClient[t], m)
    <3>1. toClient[t] \in Seq(ServerMessages) /\ i \in Places(Append(toClient[t], m))
      BY <1>1, <2>2
    <3> QED
      BY <2>2, <3>1, AppendFacts
  <2> QED
    BY <1>2, <2>1, <2>2
<1> QED
  BY <1>2, <1>3, <1>4

-----------------------------------------------------------------------------
LEMMA ChannelInit == Init => ChannelInv
<1> SUFFICES ASSUME Init PROVE ChannelInv
  OBVIOUS
<1> USE ChannelAssumption DEF Init
<1>1. TypeOK
  <2>1. /\ toServer \in [Sockets -> Seq(ClientMessages)]
        /\ toClient \in [Sockets -> Seq(ServerMessages)]
        /\ received \in [Clients -> Seq(1..MaxEvents)]
    OBVIOUS
  <2>2. /\ handling \in [Requests -> {"none", "called", "returned", "threw"}]
        /\ outcome \in [Requests -> Outcomes]
        /\ sentOn \in [Requests -> Sockets \cup {None}]
    BY DEF Outcomes
  <2>3. /\ pending \in [Clients -> SUBSET Requests]
        /\ eventHandlers \in [Clients -> SUBSET Handlers]
        /\ socket \in [Clients -> Sockets \cup {None}]
    OBVIOUS
  <2> QED
    BY <2>1, <2>2, <2>3 DEF TypeOK
<1>2. OwnersInv
  BY DEF OwnersInv
<1>3. PendingInv
  BY DEF PendingInv
<1>4. RequestsInv
  BY DEF RequestsInv, Places
<1>5. ResponsesInv /\ SubscribersInv
  BY DEF ResponsesInv, SubscribersInv, Places
<1>6. EventsInv
  BY DEF EventsInv, EventsInOrder, Places
<1> QED
  BY <1>1, <1>2, <1>3, <1>4, <1>5, <1>6 DEF ChannelInv

-----------------------------------------------------------------------------
LEMMA TypeStep == ASSUME TypeOK, [Next]_vars PROVE TypeOK'
<1> USE ChannelAssumption
<1>1. ASSUME NEW c \in Clients, NEW s \in Sockets, Connect(c, s) PROVE TypeOK'
  BY <1>1 DEF Connect, TypeOK, serverVars
<1>2. ASSUME NEW s \in Sockets, Connected(s) PROVE TypeOK'
  BY <1>2 DEF Connected, TypeOK, serverVars
<1>3. ASSUME NEW s \in Sockets, ConnectFails(s) PROVE TypeOK'
  <2>1. toServer' \in [Sockets -> Seq(ClientMessages)]
    BY <1>3, ClientMessageFacts, SingleFacts DEF ConnectFails, TypeOK
  <2> QED
    BY <1>3, <2>1 DEF ConnectFails, TypeOK, serverVars, clientVars
<1>4. ASSUME NEW c \in Clients, NEW id \in Requests, MakeRequest(c, id) PROVE TypeOK'
  <2>1. socket[c] \in Sockets
    BY <1>4 DEF MakeRequest, TypeOK
  <2>2. toServer' \in [Sockets -> Seq(ClientMessages)]
    BY <1>4, <2>1, ClientMessageFacts, SentToServer DEF MakeRequest
  <2>3. outcome' \in [Requests -> Outcomes]
    BY <1>4 DEF MakeRequest, TypeOK, Outcomes
  <2>4. pending' \in [Clients -> SUBSET Requests]
    BY <1>4 DEF MakeRequest, TypeOK
  <2>5. sentOn' \in [Requests -> Sockets \cup {None}]
    BY <1>4, <2>1 DEF MakeRequest, TypeOK
  <2> QED
    BY <1>4, <2>2, <2>3, <2>4, <2>5 DEF MakeRequest, TypeOK, serverVars
<1>5. ASSUME NEW c \in Clients, NEW id \in Requests, Timeout(c, id) PROVE TypeOK'
  <2>1. outcome' \in [Requests -> Outcomes] /\ pending' \in [Clients -> SUBSET Requests]
    BY <1>5 DEF Timeout, TypeOK, Outcomes
  <2> QED
    BY <1>5, <2>1 DEF Timeout, TypeOK, serverVars
<1>6. ASSUME NEW c \in Clients, NEW h \in Handlers, Subscribe(c, h) PROVE TypeOK'
  <2>1. socket[c] \in Sockets
    BY <1>6 DEF Subscribe, TypeOK
  <2>2. toServer' \in [Sockets -> Seq(ClientMessages)]
    BY <1>6, <2>1, ClientMessageFacts, SentToServer DEF Subscribe, TypeOK
  <2>3. eventHandlers' \in [Clients -> SUBSET Handlers]
    BY <1>6 DEF Subscribe, TypeOK
  <2> QED
    BY <1>6, <2>2, <2>3 DEF Subscribe, TypeOK, serverVars
<1>7. ASSUME NEW c \in Clients, NEW h \in Handlers, Unsubscribe(c, h) PROVE TypeOK'
  <2>1. toServer' \in [Sockets -> Seq(ClientMessages)]
    <3>1. CASE toServer' = toServer
      BY <3>1 DEF TypeOK
    <3>2. CASE socket[c] # None /\ SendToServer(socket[c], Plain("unsubscribe"))
      <4>1. socket[c] \in Sockets
        BY <3>2 DEF TypeOK
      <4> QED
        BY <3>2, <4>1, ClientMessageFacts, SentToServer
    <3> QED
      BY <1>7, <3>1, <3>2 DEF Unsubscribe
  <2>2. eventHandlers' \in [Clients -> SUBSET Handlers]
    BY <1>7 DEF Unsubscribe, TypeOK
  <2> QED
    BY <1>7, <2>1, <2>2 DEF Unsubscribe, TypeOK, serverVars
<1>8. ASSUME NEW c \in Clients, Disconnect(c) PROVE TypeOK'
  <2>1. socket[c] \in Sockets
    BY <1>8 DEF Disconnect, TypeOK
  <2>2. toServer' \in [Sockets -> Seq(ClientMessages)]
    BY <1>8, <2>1, ClientMessageFacts, SentToServer DEF Disconnect
  <2>3. /\ clientEnd' \in [Sockets -> {"none", "connecting", "open", "ended", "closed"}]
        /\ socket' \in [Clients -> Sockets \cup {None}]
    BY <1>8, <2>1 DEF Disconnect, TypeOK
  <2> QED
    BY <1>8, <2>2, <2>3 DEF Disconnect, TypeOK, serverVars
<1>9. ASSUME NEW s \in Sockets, Accept(s) PROVE TypeOK'
  BY <1>9 DEF Accept, TypeOK, clientVars
<1>10. ASSUME NEW s \in Sockets, ClientReceive(s) PROVE TypeOK'
  <2>1. /\ Head(toClient[s]) \in ServerMessages
        /\ toClient' \in [Sockets -> Seq(ServerMessages)]
    BY <1>10, TailFacts DEF ClientReceive, TypeOK
  <2>2. CASE ReceiveResponse(s)
    <3>1. /\ outcome' \in [Requests -> Outcomes]
          /\ pending' \in [Clients -> SUBSET Requests]
      <4> DEFINE c == owner[s]
                 msg == Head(toClient[s])
      <4>1. CASE UNCHANGED <<pending, outcome>>
        BY <4>1 DEF TypeOK
      <4>2. CASE pending' = [pending EXCEPT ![c] = @ \ {msg.id}]
        BY <2>2, <4>2 DEF ReceiveResponse, TypeOK, Outcomes
      <4> QED
        BY <2>2, <4>1, <4>2 DEF ReceiveResponse
    <3> QED
      BY <1>10, <2>1, <2>2, <3>1 DEF ClientReceive, ReceiveResponse, TypeOK, serverVars
  <2>3. CASE ReceiveEvent(s)
    <3>1. Head(toClient[s]).n \in 1..MaxEvents
      BY <2>1, <2>3, ServerMessageFacts DEF ReceiveEvent
    <3>2. received' \in [Clients -> Seq(1..MaxEvents)]
      BY <2>3, <3>1, AppendFacts DEF ReceiveEvent, TypeOK
    <3> QED
      BY <1>10, <2>1, <2>3, <3>2 DEF ClientReceive, ReceiveEvent, TypeOK, serverVars
  <2>4. CASE ReceiveClose(s)
    <3>1. /\ outcome' \in [Requests -> Outcomes]
          /\ pending' \in [Clients -> SUBSET Requests]
      BY <2>4 DEF ReceiveClose, RejectPending, TypeOK, Outcomes
    <3>2. clientEnd' \in [Sockets -> {"none", "connecting", "open", "ended", "closed"}]
      BY <2>4 DEF ReceiveClose, TypeOK
    <3> QED
      BY <1>10, <2>1, <2>4, <3>1, <3>2 DEF ClientReceive, ReceiveClose, TypeOK, serverVars
  <2> QED
    BY <1>10, <2>2, <2>3, <2>4 DEF ClientReceive
<1>11. ASSUME NEW s \in Sockets, ServerReceive(s) PROVE TypeOK'
  <2>1. /\ Head(toServer[s]) \in ClientMessages
        /\ toServer' \in [Sockets -> Seq(ClientMessages)]
    BY <1>11, TailFacts DEF ServerReceive, TypeOK
  <2>2. CASE ReceiveRequest(s)
    BY <1>11, <2>1, <2>2, ClientMessageFacts
       DEF ServerReceive, ReceiveRequest, TypeOK, clientVars
  <2>3. CASE ReceiveSubscription(s)
    BY <1>11, <2>1, <2>3 DEF ServerReceive, ReceiveSubscription, TypeOK, clientVars
  <2>4. CASE ReceiveEnd(s)
    <3>1. toClient' \in [Sockets -> Seq(ServerMessages)]
      BY <2>4, ServerMessageFacts, SentToClients DEF ReceiveEnd
    <3> QED
      BY <1>11, <2>1, <2>4, <3>1 DEF ServerReceive, ReceiveEnd, ForgetSocket, TypeOK, clientVars
  <2> QED
    BY <1>11, <2>2, <2>3, <2>4 DEF ServerReceive
<1>12. ASSUME NEW s \in Sockets, LoseRest(s) PROVE TypeOK'
  <2>1. toClient' \in [Sockets -> Seq(ServerMessages)]
    BY <1>12, ServerMessageFacts, SingleFacts DEF LoseRest, TypeOK
  <2> QED
    BY <1>12, <2>1 DEF LoseRest, TypeOK, serverVars, clientVars
<1>13. ASSUME NEW id \in Requests, NEW ok \in BOOLEAN, Respond(id, ok) PROVE TypeOK'
  <2>1. toClient' \in [Sockets -> Seq(ServerMessages)]
    BY <1>13, ServerMessageFacts, SentToClients DEF Respond
  <2> QED
    BY <1>13, <2>1 DEF Respond, TypeOK, clientVars
<1>14. CASE Publish
  <2>1. published + 1 \in 1..MaxEvents
    BY <1>14 DEF Publish, TypeOK
  <2>2. toClient' \in [Sockets -> Seq(ServerMessages)]
    BY <1>14, <2>1, ServerMessageFacts, SentToClients DEF Publish
  <2> QED
    BY <1>14, <2>1, <2>2 DEF Publish, TypeOK, clientVars
<1>15. CASE Stop
  <2>1. \A s \in Sockets : toClient'[s] \in Seq(ServerMessages)
    BY <1>15, ServerMessageFacts, AppendFacts DEF Stop, TypeOK
  <2>2. toClient' \in [Sockets -> Seq(ServerMessages)]
    BY <1>15, <2>1 DEF Stop
  <2> QED
    BY <1>15, <2>2 DEF Stop, TypeOK, clientVars
<1>16. CASE UNCHANGED vars
  BY <1>16 DEF vars, serverVars, clientVars, TypeOK
<1> QED
  BY <1>1, <1>2, <1>3, <1>4, <1>5, <1>6, <1>7, <1>8, <1>9, <1>10, <1>11, <1>12,
     <1>13, <1>14, <1>15, <1>16 DEF Next, Network

-----------------------------------------------------------------------------
(* The steps by which sockets change hands or state.                       *)
LEMMA OwnersStep ==
  ASSUME TypeOK, OwnersInv, SubscribersInv, [Next]_vars
  PROVE  OwnersInv'
<1> USE ChannelAssumption
<1>1. ASSUME NEW c \in Clients, NEW s \in Sockets, Connect(c, s) PROVE OwnersInv'
  BY <1>1 DEF Connect, OwnersInv, TypeOK, serverVars
<1>2. ASSUME NEW s \in Sockets, Connected(s) PROVE OwnersInv'
  BY <1>2 DEF Connected, OwnersInv, TypeOK, serverVars
<1>3. ASSUME NEW s \in Sockets, ConnectFails(s) PROVE OwnersInv'
  BY <1>3 DEF ConnectFails, OwnersInv, TypeOK, serverVars, clientVars
<1>4. ASSUME NEW c \in Clients, Disconnect(c) PROVE OwnersInv'
  BY <1>4 DEF Disconnect, OwnersInv, TypeOK, serverVars
<1>5. ASSUME NEW s \in Sockets, Accept(s) PROVE OwnersInv'
  BY <1>5 DEF Accept, OwnersInv, TypeOK, clientVars
<1>6. ASSUME NEW s \in Sockets, ClientReceive(s) PROVE OwnersInv'
  <2>1. /\ \A t \in Sockets : toClient[t] = <<>> => toClient'[t] = <<>>
        /\ \A t \in Sockets : clientEnd'[t] = clientEnd[t] \/ (t = s /\ clientEnd'[t] = "closed")
    BY <1>6 DEF ClientReceive, ReceiveResponse, ReceiveEvent, ReceiveClose, TypeOK
  <2>2. clientEnd[s] # "none" /\ UNCHANGED <<owner, socket, serverEnd>>
    BY <1>6 DEF ClientReceive, serverVars
  <2> QED
    BY <2>1, <2>2 DEF OwnersInv
<1>7. ASSUME NEW S, NEW m \in ServerMessages, SendToClients(S, m)
      PROVE  \A t \in Sockets : owner[t] = None => toClient'[t] = <<>>
  BY <1>7, SentToClients DEF OwnersInv
<1>8. ASSUME NEW s \in Sockets, ServerReceive(s) PROVE OwnersInv'
  <2>1. \A t \in Sockets : owner[t] = None => toClient'[t] = <<>>
    <3>1. CASE ReceiveEnd(s)
      BY <1>7, <3>1, ServerMessageFacts DEF ReceiveEnd
    <3>2. CASE UNCHANGED toClient
      BY <3>2 DEF OwnersInv
    <3> QED
      BY <1>8, <3>1, <3>2 DEF ServerReceive, ReceiveRequest, ReceiveSubscription
  <2>2. \A t \in Sockets : serverEnd[t] = "none" => serverEnd'[t] = "none"
    BY <1>8 DEF ServerReceive, ReceiveRequest, ReceiveSubscription, ReceiveEnd, TypeOK
  <2>3. UNCHANGED <<owner, socket, clientEnd>>
    BY <1>8 DEF ServerReceive, clientVars
  <2> QED
    BY <2>1, <2>2, <2>3 DEF OwnersInv
<1>9. ASSUME NEW s \in Sockets, LoseRest(s) PROVE OwnersInv'
  <2>1. \A t \in Sockets : toClient[t] = <<>> => toClient'[t] = <<>>
    BY <1>9 DEF LoseRest, TypeOK
  <2> QED
    BY <1>9, <2>1 DEF LoseRest, OwnersInv, serverVars, clientVars
<1>10. ASSUME NEW id \in Requests, NEW ok \in BOOLEAN, Respond(id, ok) PROVE OwnersInv'
  <2>1. \A t \in Sockets : owner[t] = None => toClient'[t] = <<>>
    BY <1>7, <1>10, ServerMessageFacts DEF Respond
  <2> QED
    BY <1>10, <2>1 DEF Respond, OwnersInv, clientVars
<1>11. CASE Publish
  <2>1. published + 1 \in 1..MaxEvents
    BY <1>11 DEF Publish, TypeOK
  <2>2. \A t \in Sockets : owner[t] = None => toClient'[t] = <<>>
    BY <1>7, <1>11, <2>1, ServerMessageFacts DEF Publish
  <2> QED
    BY <1>11, <2>2 DEF Publish, OwnersInv, clientVars
<1>12. CASE Stop
  BY <1>12 DEF Stop, OwnersInv, TypeOK, clientVars
<1>13. CASE UNCHANGED <<serverEnd, clientEnd, owner, socket, toClient>>
  BY <1>13 DEF OwnersInv
<1>14. ASSUME NEW c \in Clients, NEW id \in Requests, MakeRequest(c, id) \/ Timeout(c, id)
       PROVE  OwnersInv'
  BY <1>13, <1>14 DEF MakeRequest, Timeout, serverVars
<1>15. ASSUME NEW c \in Clients, NEW h \in Handlers, Subscribe(c, h) \/ Unsubscribe(c, h)
       PROVE  OwnersInv'
  BY <1>13, <1>15 DEF Subscribe, Unsubscribe, serverVars
<1>16. CASE UNCHANGED vars
  BY <1>13, <1>16 DEF vars, serverVars, clientVars
<1> QED
  BY <1>1, <1>2, <1>3, <1>4, <1>5, <1>6, <1>8, <1>9, <1>10, <1>11, <1>12, <1>14,
     <1>15, <1>16 DEF Next, Network

LEMMA SubscribersStep ==
  ASSUME TypeOK, OwnersInv, SubscribersInv, [Next]_vars
  PROVE  SubscribersInv'
<1>1. ASSUME NEW s \in Sockets, Accept(s) PROVE SubscribersInv'
  BY <1>1 DEF Accept, SubscribersInv, TypeOK
<1>2. ASSUME NEW s \in Sockets, ServerReceive(s) PROVE SubscribersInv'
  BY <1>2 DEF ServerReceive, ReceiveRequest, ReceiveSubscription, ReceiveEnd, ForgetSocket,
              SubscribersInv, TypeOK
<1>3. CASE Stop
  BY <1>3, ChannelAssumption DEF Stop, SubscribersInv, OwnersInv, TypeOK
<1>4. CASE UNCHANGED <<connections, subscriptions, serverEnd>>
  BY <1>4 DEF SubscribersInv
<1> QED
  BY <1>1, <1>2, <1>3, <1>4
     DEF Next, Network, Connect, Disconnect, Connected, ConnectFails, MakeRequest, Timeout,
         Subscribe, Unsubscribe, ClientReceive, LoseRest, Respond, Publish, vars, serverVars

-----------------------------------------------------------------------------
(* The promises, and the requests they are about.                          *)

(* The client of a socket that receives.                                   *)
LEMMA ReceiverIsClient ==
  ASSUME TypeOK, OwnersInv, NEW s \in Sockets, ClientReceive(s)
  PROVE  owner[s] \in Clients
BY DEF TypeOK, OwnersInv, ClientReceive

LEMMA PendingStep ==
  ASSUME TypeOK, OwnersInv, PendingInv, [Next]_vars
  PROVE  PendingInv'
<1> USE ChannelAssumption
<1>1. ASSUME NEW c \in Clients, NEW s \in Sockets, Connect(c, s) PROVE PendingInv'
  <2>1. \A t \in Sockets : owner[t] # None => owner'[t] = owner[t]
    BY <1>1 DEF Connect, TypeOK
  <2>2. \A d \in Clients : \A id \in pending[d] : sentOn[id] \in Sockets
    BY DEF PendingInv, TypeOK
  <2> QED
    BY <1>1, <2>1, <2>2 DEF Connect, PendingInv
<1>2. ASSUME NEW c \in Clients, NEW id \in Requests, MakeRequest(c, id) PROVE PendingInv'
  <2>1. owner[socket[c]] = c /\ socket[c] # None
    BY <1>2 DEF MakeRequest, OwnersInv
  <2>2. \A d \in Clients : id \notin pending[d]
    BY <1>2 DEF MakeRequest, PendingInv
  <2>3. /\ outcome' = [outcome EXCEPT ![id] = "pending"]
        /\ pending' = [pending EXCEPT ![c] = @ \cup {id}]
        /\ sentOn' = [sentOn EXCEPT ![id] = socket[c]]
        /\ owner' = owner
    BY <1>2 DEF MakeRequest
  <2>4. ASSUME NEW d \in Clients, NEW x \in pending'[d]
        PROVE  outcome'[x] = "pending" /\ sentOn'[x] # None /\ owner'[sentOn'[x]] = d
    BY <2>1, <2>2, <2>3 DEF PendingInv, TypeOK
  <2>5. ASSUME NEW x \in Requests, outcome'[x] = "pending"
        PROVE  \E d \in Clients : x \in pending'[d]
    BY <2>3, <2>5 DEF PendingInv, TypeOK
  <2> QED
    BY <2>4, <2>5 DEF PendingInv
<1>3. ASSUME NEW c \in Clients, NEW id \in pending[c], NEW o \in Outcomes, o # "pending",
             pending' = [pending EXCEPT ![c] = @ \ {id}],
             outcome' = [outcome EXCEPT ![id] = o],
             UNCHANGED <<sentOn, owner>>
      PROVE  PendingInv'
  <2>1. \A d \in Clients : id \in pending[d] => d = c
    BY DEF PendingInv
  <2>2. ASSUME NEW d \in Clients, NEW x \in pending'[d]
        PROVE  outcome'[x] = "pending" /\ sentOn'[x] # None /\ owner'[sentOn'[x]] = d
    <3>1. x \in pending[d] /\ x # id
      BY <1>3, <2>1 DEF TypeOK
    <3> QED
      BY <1>3, <3>1 DEF PendingInv, TypeOK
  <2>3. ASSUME NEW x \in Requests, outcome'[x] = "pending"
        PROVE  \E d \in Clients : x \in pending'[d]
    <3>1. x # id /\ outcome[x] = "pending"
      BY <1>3, <2>3 DEF TypeOK
    <3> QED
      BY <1>3, <3>1 DEF PendingInv, TypeOK
  <2> QED
    BY <2>2, <2>3 DEF PendingInv
<1>4. ASSUME NEW c \in Clients, NEW id \in Requests, Timeout(c, id) PROVE PendingInv'
  BY <1>3, <1>4 DEF Timeout, Outcomes
<1>5. CASE UNCHANGED <<pending, outcome, sentOn, owner>>
  BY <1>5 DEF PendingInv
<1>6. ASSUME NEW s \in Sockets, ClientReceive(s) PROVE PendingInv'
  <2>1. owner[s] \in Clients
    BY <1>6, ReceiverIsClient
  <2>2. UNCHANGED <<sentOn, owner>>
    BY <1>6 DEF ClientReceive
  <2>3. CASE ReceiveResponse(s)
    <3> DEFINE msg == Head(toClient[s])
    <3>1. CASE msg.id \in pending[owner[s]]
      BY <1>3, <2>1, <2>2, <2>3, <3>1 DEF ReceiveResponse, Outcomes
    <3>2. CASE msg.id \notin pending[owner[s]]
      BY <1>5, <2>2, <2>3, <3>2 DEF ReceiveResponse
    <3> QED
      BY <3>1, <3>2
  <2>4. CASE ReceiveEvent(s)
    BY <1>5, <2>2, <2>4 DEF ReceiveEvent
  <2>5. CASE ReceiveClose(s)
    <3>1. /\ pending' = [pending EXCEPT ![owner[s]] = {}]
          /\ outcome' = [id \in Requests |->
                           IF id \in pending[owner[s]] THEN "closed" ELSE outcome[id]]
      BY <2>5 DEF ReceiveClose, RejectPending
    <3>2. ASSUME NEW d \in Clients, NEW x \in pending'[d]
          PROVE  outcome'[x] = "pending" /\ sentOn'[x] # None /\ owner'[sentOn'[x]] = d
      <4>1. d # owner[s] /\ x \in pending[d] /\ x \in Requests
        BY <2>1, <3>1 DEF TypeOK
      <4>2. x \notin pending[owner[s]]
        BY <2>1, <4>1 DEF PendingInv
      <4> QED
        BY <2>2, <3>1, <4>1, <4>2 DEF PendingInv
    <3>3. ASSUME NEW x \in Requests, outcome'[x] = "pending"
          PROVE  \E d \in Clients : x \in pending'[d]
      <4>1. x \notin pending[owner[s]] /\ outcome[x] = "pending"
        BY <3>1, <3>3
      <4> QED
        BY <2>1, <3>1, <4>1 DEF PendingInv, TypeOK
    <3> QED
      BY <3>2, <3>3 DEF PendingInv
  <2> QED
    BY <1>6, <2>3, <2>4, <2>5 DEF ClientReceive
<1> QED
  BY <1>1, <1>2, <1>4, <1>5, <1>6
     DEF Next, Network, Connected, ConnectFails, Subscribe, Unsubscribe, Disconnect, Accept,
         ServerReceive, LoseRest, Respond, Publish, Stop, vars, serverVars, clientVars

(* A socket that goes on with what is under way, and calls that go on.     *)
LEMMA RequestsKept ==
  ASSUME TypeOK, RequestsInv, UNCHANGED sentOn,
         \A id \in Requests : (outcome'[id] = "unused") <=> (outcome[id] = "unused"),
         \A id \in Requests : handling[id] = "none" => handling'[id] = "none",
         \A s \in Sockets : \A i \in Places(toServer'[s]) :
           toServer'[s][i].kind = "request" =>
             i \in Places(toServer[s]) /\ toServer'[s][i] = toServer[s][i]
  PROVE  RequestsInv'
<1>1. \A s \in Sockets : \A i \in Places(toServer[s]) :
         toServer[s][i].kind = "request" => toServer[s][i].id \in Requests
  BY ClientMessageFacts DEF TypeOK, Places
<1>2. \A id \in Requests : outcome'[id] = "unused" => handling'[id] = "none"
  BY DEF RequestsInv
<1>3. ASSUME NEW s \in Sockets, NEW i \in Places(toServer'[s]), toServer'[s][i].kind = "request"
      PROVE  /\ sentOn'[toServer'[s][i].id] = s
             /\ outcome'[toServer'[s][i].id] # "unused"
             /\ handling'[toServer'[s][i].id] = "none"
  <2>1. i \in Places(toServer[s]) /\ toServer'[s][i] = toServer[s][i]
    BY <1>3
  <2> QED
    BY <1>1, <1>3, <2>1 DEF RequestsInv
<1>4. ASSUME NEW s \in Sockets, NEW i \in Places(toServer'[s]), NEW j \in Places(toServer'[s]),
             toServer'[s][i].kind = "request", toServer'[s][j].kind = "request",
             toServer'[s][i].id = toServer'[s][j].id
      PROVE  i = j
  <2>1. /\ i \in Places(toServer[s]) /\ toServer'[s][i] = toServer[s][i]
        /\ j \in Places(toServer[s]) /\ toServer'[s][j] = toServer[s][j]
    BY <1>4
  <2> QED
    BY <1>4, <2>1 DEF RequestsInv
<1> QED
  BY <1>2, <1>3, <1>4 DEF RequestsInv

LEMMA RequestsStep ==
  ASSUME TypeOK, OwnersInv, PendingInv, RequestsInv, [Next]_vars
  PROVE  RequestsInv'
<1> USE ChannelAssumption
<1>1. \A s \in Sockets : \A i \in Places(toServer[s]) :
         toServer[s][i] \in ClientMessages
           /\ (toServer[s][i].kind = "request" => toServer[s][i].id \in Requests)
  BY ClientMessageFacts DEF TypeOK, Places
<1>2. ASSUME NEW c \in Clients, NEW id \in Requests, MakeRequest(c, id) PROVE RequestsInv'
  <2> DEFINE r == socket[c]
  <2>1. r \in Sockets /\ outcome[id] = "unused" /\ SendToServer(r, Request(id))
    BY <1>2 DEF MakeRequest, TypeOK
  <2>2. /\ outcome' = [outcome EXCEPT ![id] = "pending"]
        /\ sentOn' = [sentOn EXCEPT ![id] = r] /\ handling' = handling
    BY <1>2 DEF MakeRequest, serverVars
  <2>3. \A t \in Sockets : \A i \in Places(toServer'[t]) :
           \/ i \in Places(toServer[t]) /\ toServer'[t][i] = toServer[t][i]
           \/ t = r /\ i = Len(toServer[t]) + 1 /\ toServer'[t][i] = Request(id)
    <3>1. Request(id) \in ClientMessages
      BY ClientMessageFacts
    <3> QED
      BY <2>1, <3>1, SentToServer
  <2>4. Request(id).kind = "request" /\ Request(id).id = id /\ handling[id] = "none"
    BY <2>1, ClientMessageFacts DEF RequestsInv
  <2>5. \A t \in Sockets : \A i \in Places(toServer[t]) :
           toServer[t][i].kind = "request" => toServer[t][i].id # id
    BY <2>1 DEF RequestsInv
  <2>6. ASSUME NEW t \in Sockets, NEW i \in Places(toServer'[t]),
               toServer'[t][i].kind = "request"
        PROVE  /\ sentOn'[toServer'[t][i].id] = t
               /\ outcome'[toServer'[t][i].id] # "unused"
               /\ handling'[toServer'[t][i].id] = "none"
    <3>1. CASE i \in Places(toServer[t]) /\ toServer'[t][i] = toServer[t][i]
      BY <1>1, <2>2, <2>5, <2>6, <3>1 DEF RequestsInv, TypeOK
    <3>2. CASE t = r /\ toServer'[t][i] = Request(id)
      BY <2>2, <2>4, <3>2 DEF TypeOK
    <3> QED
      BY <2>3, <3>1, <3>2
  <2>7. ASSUME NEW t \in Sockets, NEW i \in Places(toServer'[t]), NEW j \in Places(toServer'[t]),
               toServer'[t][i].kind = "request", toServer'[t][j].kind = "request",
               toServer'[t][i].id = toServer'[t][j].id
        PROVE  i = j
    BY <2>3, <2>4, <2>5, <2>7 DEF RequestsInv
  <2>8. \A x \in Requests : outcome'[x] = "unused" => handling'[x] = "none"
    BY <2>2 DEF RequestsInv, TypeOK
  <2> QED
    BY <2>6, <2>7, <2>8 DEF RequestsInv
<1>3. ASSUME NEW s \in Sockets, ServerReceive(s) PROVE RequestsInv'
  <2>1. toServer[s] \in Seq(ClientMessages) /\ toServer[s] # <<>>
    BY <1>3 DEF ServerReceive, TypeOK
  <2>2. /\ 1 \in Places(toServer[s]) /\ Head(toServer[s]) = toServer[s][1]
        /\ \A i \in Places(Tail(toServer[s])) :
             i + 1 \in Places(toServer[s]) /\ Tail(toServer[s])[i] = toServer[s][i + 1]
    BY <2>1, TailFacts
  <2>3. /\ toServer'[s] = Tail(toServer[s])
        /\ \A t \in Sockets \ {s} : toServer'[t] = toServer[t]
        /\ UNCHANGED <<sentOn, outcome>>
    BY <1>3 DEF ServerReceive, clientVars, TypeOK
  <2>4. \A t \in Sockets : \A i \in Places(toServer'[t]) :
           LET j == IF t = s THEN i + 1 ELSE i IN
           j \in Places(toServer[t]) /\ toServer'[t][i] = toServer[t][j]
    BY <2>2, <2>3
  <2>5. \/ handling' = handling
        \/ /\ toServer[s][1].kind = "request"
           /\ handling' = [handling EXCEPT ![toServer[s][1].id] = "called"]
    BY <1>3, <2>2
       DEF ServerReceive, ReceiveRequest, ReceiveSubscription, ReceiveEnd
  <2>6. ASSUME NEW t \in Sockets, NEW i \in Places(toServer'[t]),
               toServer'[t][i].kind = "request"
        PROVE  /\ sentOn'[toServer'[t][i].id] = t
               /\ outcome'[toServer'[t][i].id] # "unused"
               /\ handling'[toServer'[t][i].id] = "none"
    <3> DEFINE j == IF t = s THEN i + 1 ELSE i
               id == toServer[t][j].id
    <3>1. /\ j \in Places(toServer[t]) /\ toServer'[t][i] = toServer[t][j]
          /\ toServer[t][j].kind = "request"
      BY <2>4, <2>6
    <3>2. /\ sentOn[id] = t /\ outcome[id] # "unused" /\ handling[id] = "none"
          /\ id \in Requests
      BY <1>1, <3>1 DEF RequestsInv
    <3>3. toServer[s][1].kind = "request" => id # toServer[s][1].id
      <4> SUFFICES ASSUME toServer[s][1].kind = "request", id = toServer[s][1].id PROVE FALSE
        OBVIOUS
      <4>1. t = s
        BY <2>2, <3>2 DEF RequestsInv
      <4>2. j = 1
        BY <2>2, <3>1, <4>1 DEF RequestsInv
      <4> QED
        BY <4>1, <4>2 DEF Places
    <3>4. handling'[id] = "none"
      BY <2>5, <3>2, <3>3 DEF TypeOK
    <3> QED
      BY <2>3, <3>1, <3>2, <3>4
  <2>7. ASSUME NEW t \in Sockets, NEW i \in Places(toServer'[t]), NEW j \in Places(toServer'[t]),
               toServer'[t][i].kind = "request", toServer'[t][j].kind = "request",
               toServer'[t][i].id = toServer'[t][j].id
        PROVE  i = j
    <3> DEFINE k == IF t = s THEN i + 1 ELSE i
               l == IF t = s THEN j + 1 ELSE j
    <3>1. /\ k \in Places(toServer[t]) /\ toServer'[t][i] = toServer[t][k]
          /\ l \in Places(toServer[t]) /\ toServer'[t][j] = toServer[t][l]
      BY <2>4
    <3>2. k = l
      BY <2>7, <3>1 DEF RequestsInv
    <3> QED
      BY <3>2 DEF Places
  <2>8. ASSUME NEW x \in Requests, outcome'[x] = "unused" PROVE handling'[x] = "none"
    BY <1>1, <2>2, <2>3, <2>5, <2>8 DEF RequestsInv, TypeOK
  <2> QED
    BY <2>6, <2>7, <2>8 DEF RequestsInv
<1>4. ASSUME NEW s \in Sockets, NEW k \in {"subscribe", "unsubscribe", "fin"},
             SendToServer(s, Plain(k)), UNCHANGED <<sentOn, outcome, handling>>
      PROVE  RequestsInv'
  <2>1. Plain(k) \in ClientMessages /\ Plain(k).kind # "request"
    BY ClientMessageFacts
  <2> QED
    BY <1>4, <2>1, SentToServer, RequestsKept
<1>5. CASE UNCHANGED <<sentOn, outcome, handling, toServer>>
  BY <1>5, RequestsKept
<1>6. ASSUME NEW c \in Clients, NEW h \in Handlers, Subscribe(c, h) \/ Unsubscribe(c, h)
      PROVE  RequestsInv'
  BY <1>4, <1>5, <1>6 DEF Subscribe, Unsubscribe, serverVars, TypeOK
<1>7. ASSUME NEW c \in Clients, Disconnect(c) PROVE RequestsInv'
  BY <1>4, <1>7 DEF Disconnect, serverVars, TypeOK
<1>8. ASSUME NEW s \in Sockets, ConnectFails(s) PROVE RequestsInv'
  <2>1. \A i \in Places(<<Plain("fin")>>) : <<Plain("fin")>>[i].kind = "fin"
    BY ClientMessageFacts, SingleFacts
  <2> QED
    BY <1>8, <2>1, RequestsKept DEF ConnectFails, serverVars, clientVars, TypeOK
<1>9. ASSUME NEW c \in Clients, NEW id \in Requests, Timeout(c, id) PROVE RequestsInv'
  <2>1. \A x \in Requests : (outcome'[x] = "unused") <=> (outcome[x] = "unused")
    BY <1>9 DEF Timeout, PendingInv, TypeOK
  <2> QED
    BY <1>9, <2>1, RequestsKept DEF Timeout, serverVars
<1>10. ASSUME NEW s \in Sockets, ClientReceive(s) PROVE RequestsInv'
  <2>1. \A x \in Requests : (outcome'[x] = "unused") <=> (outcome[x] = "unused")
    <3>1. owner[s] \in Clients
      BY <1>10, ReceiverIsClient
    <3>2. \A x \in pending[owner[s]] : outcome[x] = "pending"
      BY <3>1 DEF PendingInv
    <3> QED
      BY <1>10, <3>2
         DEF ClientReceive, ReceiveResponse, ReceiveEvent, ReceiveClose, RejectPending, TypeOK
  <2> QED
    BY <1>10, <2>1, RequestsKept DEF ClientReceive, serverVars
<1>11. ASSUME NEW id \in Requests, NEW ok \in BOOLEAN, Respond(id, ok) PROVE RequestsInv'
  <2>1. \A x \in Requests : handling[x] = "none" => handling'[x] = "none"
    BY <1>11 DEF Respond, TypeOK
  <2> QED
    BY <1>11, <2>1, RequestsKept DEF Respond, clientVars
<1> QED
  BY <1>2, <1>3, <1>5, <1>6, <1>7, <1>8, <1>9, <1>10, <1>11
     DEF Next, Network, Connect, Connected, Accept, LoseRest, Publish, Stop, vars, serverVars,
         clientVars

-----------------------------------------------------------------------------
(* What is under way to the clients.                                       *)

LEMMA ToClientTypes ==
  ASSUME TypeOK
  PROVE  \A s \in Sockets : \A i \in Places(toClient[s]) :
           /\ toClient[s][i] \in ServerMessages
           /\ toClient[s][i].kind = "response" =>
                toClient[s][i].id \in Requests /\ toClient[s][i].ok \in BOOLEAN
           /\ toClient[s][i].kind = "event" => toClient[s][i].n \in 1..MaxEvents
BY ServerMessageFacts DEF TypeOK, Places

(* The messages that a client has still to receive, one place on.          *)
LEMMA Received ==
  ASSUME TypeOK, NEW s \in Sockets, ClientReceive(s)
  PROVE  /\ 1 \in Places(toClient[s]) /\ Head(toClient[s]) = toClient[s][1]
         /\ \A t \in Sockets : \A i \in Places(toClient'[t]) :
              LET j == IF t = s THEN i + 1 ELSE i IN
              j \in Places(toClient[t]) /\ toClient'[t][i] = toClient[t][j]
<1>1. toClient[s] \in Seq(ServerMessages) /\ toClient[s] # <<>>
  BY DEF ClientReceive, TypeOK
<1>2. /\ 1 \in Places(toClient[s]) /\ Head(toClient[s]) = toClient[s][1]
      /\ \A i \in Places(Tail(toClient[s])) :
           i + 1 \in Places(toClient[s]) /\ Tail(toClient[s])[i] = toClient[s][i + 1]
  BY <1>1, TailFacts
<1>3. /\ toClient'[s] = Tail(toClient[s])
      /\ \A t \in Sockets \ {s} : toClient'[t] = toClient[t]
  BY DEF ClientReceive, TypeOK
<1> QED
  BY <1>2, <1>3

(* A step that ends connections adds nothing but their ends.               *)
LEMMA Ends ==
  ASSUME TypeOK, Stop \/ \E s \in Sockets : LoseRest(s) \/ (ServerReceive(s) /\ ReceiveEnd(s)),
         NEW t \in Sockets, NEW i \in Places(toClient'[t])
  PROVE  \/ toClient'[t][i].kind = "fin"
         \/ i \in Places(toClient[t]) /\ toClient'[t][i] = toClient[t][i]
<1>1. toClient[t] \in Seq(ServerMessages)
  BY DEF TypeOK
<1>2. Plain("fin") \in ServerMessages /\ Plain("fin").kind = "fin"
  BY ServerMessageFacts
<1>3. CASE toClient'[t] = toClient[t]
  BY <1>3
<1>4. CASE toClient'[t] = Append(toClient[t], Plain("fin"))
  <2>1. i \in Places(Append(toClient[t], Plain("fin")))
    BY <1>4
  <2> QED
    BY <1>1, <1>2, <1>4, <2>1, AppendFacts
<1>5. CASE toClient'[t] = <<Plain("fin")>>
  BY <1>2, <1>5, SingleFacts
<1> QED
  BY <1>3, <1>4, <1>5 DEF Stop, LoseRest, ReceiveEnd, SendToClients, TypeOK

LEMMA ResponsesStep ==
  ASSUME TypeOK, RequestsInv, ResponsesInv, [Next]_vars
  PROVE  ResponsesInv'
<1>1. ASSUME NEW s \in Sockets, ClientReceive(s) PROVE ResponsesInv'
  <2>1. handling' = handling
    BY <1>1 DEF ClientReceive, serverVars
  <2> QED
    BY <1>1, <2>1, Received DEF ResponsesInv
<1>2. CASE Stop \/ \E s \in Sockets : LoseRest(s)
  <2>1. handling' = handling
    BY <1>2 DEF Stop, LoseRest, serverVars
  <2> QED
    BY <1>2, <2>1, Ends DEF ResponsesInv
<1>3. ASSUME NEW s \in Sockets, ServerReceive(s) PROVE ResponsesInv'
  <2>1. CASE ReceiveRequest(s)
    <3>1. /\ 1 \in Places(toServer[s]) /\ Head(toServer[s]) = toServer[s][1]
          /\ toServer[s][1].kind = "request"
      BY <1>3, <2>1, TailFacts DEF ServerReceive, ReceiveRequest, TypeOK
    <3>2. handling[toServer[s][1].id] = "none"
      BY <3>1 DEF RequestsInv
    <3>3. handling' = [handling EXCEPT ![toServer[s][1].id] = "called"] /\ toClient' = toClient
      BY <2>1, <3>1 DEF ReceiveRequest
    <3> QED
      BY <3>2, <3>3, ToClientTypes DEF ResponsesInv, TypeOK
  <2>2. CASE ReceiveSubscription(s)
    BY <2>2 DEF ReceiveSubscription, ResponsesInv
  <2>3. CASE ReceiveEnd(s)
    <3>1. \E r \in Sockets : LoseRest(r) \/ (ServerReceive(r) /\ ReceiveEnd(r))
      BY <1>3, <2>3
    <3>2. handling' = handling
      BY <2>3 DEF ReceiveEnd
    <3> QED
      BY <3>1, <3>2, Ends DEF ResponsesInv
  <2> QED
    BY <1>3, <2>1, <2>2, <2>3 DEF ServerReceive
<1>4. ASSUME NEW id \in Requests, NEW ok \in BOOLEAN, Respond(id, ok) PROVE ResponsesInv'
  <2>1. /\ handling[id] = "called"
        /\ handling' = [handling EXCEPT ![id] = IF ok THEN "returned" ELSE "threw"]
        /\ SendToClients({sentOn[id]}, Response(id, ok))
    BY <1>4 DEF Respond
  <2>2. /\ Response(id, ok) \in ServerMessages
        /\ Response(id, ok).id = id /\ Response(id, ok).ok = ok
    BY ServerMessageFacts
  <2>3. ASSUME NEW t \in Sockets, NEW i \in Places(toClient'[t]),
               toClient'[t][i].kind = "response"
        PROVE  handling'[toClient'[t][i].id] =
                 IF toClient'[t][i].ok THEN "returned" ELSE "threw"
    <3>1. CASE i \in Places(toClient[t]) /\ toClient'[t][i] = toClient[t][i]
      BY <2>1, <2>3, <3>1, ToClientTypes DEF ResponsesInv, TypeOK
    <3>2. CASE toClient'[t][i] = Response(id, ok)
      BY <2>1, <2>2, <3>2 DEF TypeOK
    <3> QED
      BY <2>1, <2>2, <3>1, <3>2, SentToClients
  <2> QED
    BY <2>3 DEF ResponsesInv
<1>5. CASE Publish
  <2>1. published + 1 \in 1..MaxEvents
    BY <1>5, ChannelAssumption DEF Publish, TypeOK
  <2>2. Event(published + 1) \in ServerMessages /\ Event(published + 1).kind = "event"
    BY <2>1, ServerMessageFacts
  <2>3. handling' = handling /\ SendToClients(subscriptions, Event(published + 1))
    BY <1>5 DEF Publish
  <2>4. \A t \in Sockets : \A i \in Places(toClient'[t]) :
           \/ i \in Places(toClient[t]) /\ toClient'[t][i] = toClient[t][i]
           \/ toClient'[t][i] = Event(published + 1)
    BY <2>2, <2>3, SentToClients
  <2> QED
    BY <2>2, <2>3, <2>4 DEF ResponsesInv
<1>6. CASE UNCHANGED <<handling, toClient>>
  BY <1>6 DEF ResponsesInv
<1> QED
  BY <1>1, <1>2, <1>3, <1>4, <1>5, <1>6
     DEF Next, Network, Connect, Connected, ConnectFails, MakeRequest, Timeout, Subscribe,
         Unsubscribe, Disconnect, Accept, vars, serverVars, clientVars

(* Events stay under way in their order when none is added.                *)
LEMMA EventsKept ==
  ASSUME TypeOK, EventsInv, UNCHANGED <<published, received>>,
         \A s \in Sockets : toClient[s] # <<>> => owner'[s] = owner[s],
         \A s \in Sockets : \A i \in Places(toClient'[s]) :
           toClient'[s][i].kind = "event" =>
             i \in Places(toClient[s]) /\ toClient'[s][i] = toClient[s][i]
  PROVE  EventsInv'
<1>1. \A s \in Sockets : \A i \in Places(toClient'[s]) :
         toClient'[s][i].kind = "event" => owner'[s] = owner[s]
  BY DEF Places
<1>2. \A c \in Clients : \A k \in 1..Len(received'[c]) : received'[c][k] <= published'
  BY DEF EventsInv
<1>3. \A s \in Sockets : \A i \in Places(toClient'[s]) :
         toClient'[s][i].kind = "event" => toClient'[s][i].n <= published'
  BY DEF EventsInv
<1>4. \A s \in Sockets : \A i, j \in Places(toClient'[s]) :
         toClient'[s][i].kind = "event" /\ toClient'[s][j].kind = "event" /\ i < j =>
           toClient'[s][i].n < toClient'[s][j].n
  BY DEF EventsInv
<1>5. \A s \in Sockets : \A i \in Places(toClient'[s]) :
         toClient'[s][i].kind = "event" =>
           \A k \in 1..Len(received'[owner'[s]]) :
             received'[owner'[s]][k] < toClient'[s][i].n
  BY <1>1 DEF EventsInv
<1>6. EventsInOrder'
  BY DEF EventsInv, EventsInOrder
<1> QED
  BY <1>2, <1>3, <1>4, <1>5, <1>6 DEF EventsInv

LEMMA PublishKeepsOrder ==
  ASSUME TypeOK, OwnersInv, SubscribersInv, EventsInv, Publish
  PROVE  EventsInv'
<1> DEFINE n == published + 1
<1> USE ChannelAssumption
<1>1. /\ n \in 1..MaxEvents /\ published \in Nat /\ published' = n
      /\ SendToClients(subscriptions, Event(n)) /\ UNCHANGED <<received, owner>>
  BY DEF Publish, TypeOK, clientVars
<1>2. Event(n) \in ServerMessages /\ Event(n).kind = "event" /\ Event(n).n = n
  BY <1>1, ServerMessageFacts
<1>3. \A t \in Sockets : \A i \in Places(toClient'[t]) :
         \/ i \in Places(toClient[t]) /\ toClient'[t][i] = toClient[t][i]
         \/ i = Len(toClient[t]) + 1 /\ toClient'[t][i] = Event(n)
  BY <1>1, <1>2, SentToClients
<1>4. \A t \in Sockets : toClient'[t] = toClient[t] \/ owner[t] \in Clients
  <2>1. \A t \in Sockets : serverEnd[t] = "open" => owner[t] \in Clients
    BY DEF OwnersInv, TypeOK
  <2> QED
    BY <1>1, <1>2, <2>1, SentToClients
<1>5. \A c \in Clients : \A k \in 1..Len(received[c]) :
         received[c][k] \in Nat /\ received[c][k] <= published
  BY DEF EventsInv, TypeOK
<1>6. \A s \in Sockets : \A i \in Places(toClient[s]) :
         toClient[s][i].kind = "event" =>
           toClient[s][i].n \in Nat /\ toClient[s][i].n <= published
  BY ToClientTypes DEF EventsInv
<1>7. \A c \in Clients : \A k \in 1..Len(received'[c]) : received'[c][k] <= published'
  BY <1>1, <1>5
<1>8. \A s \in Sockets : \A i \in Places(toClient'[s]) :
         toClient'[s][i].kind = "event" => toClient'[s][i].n <= published'
  BY <1>1, <1>2, <1>3, <1>6
<1>9. ASSUME NEW s \in Sockets, NEW i \in Places(toClient'[s]), NEW j \in Places(toClient'[s]),
             toClient'[s][i].kind = "event", toClient'[s][j].kind = "event", i < j
      PROVE  toClient'[s][i].n < toClient'[s][j].n
  <2>1. Len(toClient[s]) \in Nat /\ i \in Nat /\ j \in Nat
    BY DEF TypeOK, Places
  <2>2. i \in Places(toClient[s]) /\ toClient'[s][i] = toClient[s][i]
    <3>1. i # Len(toClient[s]) + 1
      BY <1>3, <1>9, <2>1 DEF Places
    <3> QED
      BY <1>3, <3>1
  <2>3. CASE j \in Places(toClient[s]) /\ toClient'[s][j] = toClient[s][j]
    BY <1>9, <2>2, <2>3 DEF EventsInv
  <2>4. CASE toClient'[s][j] = Event(n)
    BY <1>1, <1>2, <1>6, <1>9, <2>2, <2>4
  <2> QED
    BY <1>3, <2>3, <2>4
<1>10. ASSUME NEW s \in Sockets, NEW i \in Places(toClient'[s]),
              toClient'[s][i].kind = "event",
              NEW k \in 1..Len(received'[owner'[s]])
       PROVE  received'[owner'[s]][k] < toClient'[s][i].n
  <2>1. CASE i \in Places(toClient[s]) /\ toClient'[s][i] = toClient[s][i]
    BY <1>1, <1>10, <2>1 DEF EventsInv
  <2>2. CASE toClient'[s] # toClient[s] /\ toClient'[s][i] = Event(n)
    BY <1>1, <1>2, <1>4, <1>5, <1>10, <2>2
  <2> QED
    BY <1>3, <2>1, <2>2
<1>11. EventsInOrder'
  BY <1>1 DEF EventsInv, EventsInOrder
<1> QED
  BY <1>7, <1>8, <1>9, <1>10, <1>11 DEF EventsInv

(* The event a client receives comes before those it still will.           *)
LEMMA ReceiveKeepsOrder ==
  ASSUME TypeOK, OwnersInv, EventsInv, NEW s \in Sockets, ClientReceive(s)
  PROVE  EventsInv'
<1> DEFINE c == owner[s]
           n == toClient[s][1].n
<1> USE ChannelAssumption
<1>1. /\ 1 \in Places(toClient[s]) /\ Head(toClient[s]) = toClient[s][1]
      /\ \A t \in Sockets : \A i \in Places(toClient'[t]) :
           LET j == IF t = s THEN i + 1 ELSE i IN
           j \in Places(toClient[t]) /\ toClient'[t][i] = toClient[t][j]
  BY Received
<1>2. c \in Clients /\ UNCHANGED <<published, owner>>
  BY ReceiverIsClient DEF ClientReceive, serverVars
<1>3. \A t \in Sockets : \A i \in Places(toClient'[t]) :
         toClient'[t][i].kind = "event" => toClient'[t][i].n <= published'
  BY <1>1, <1>2 DEF EventsInv
<1>4. ASSUME NEW t \in Sockets, NEW i \in Places(toClient'[t]), NEW j \in Places(toClient'[t]),
             toClient'[t][i].kind = "event", toClient'[t][j].kind = "event", i < j
      PROVE  toClient'[t][i].n < toClient'[t][j].n
  <2> DEFINE k == IF t = s THEN i + 1 ELSE i
             l == IF t = s THEN j + 1 ELSE j
  <2>1. /\ k \in Places(toClient[t]) /\ toClient'[t][i] = toClient[t][k]
        /\ l \in Places(toClient[t]) /\ toClient'[t][j] = toClient[t][l]
    BY <1>1
  <2>2. k < l
    BY <1>4 DEF Places
  <2> QED
    BY <1>4, <2>1, <2>2 DEF EventsInv
<1>5. CASE received' = received
  <2>1. \A t \in Sockets : \A i \in Places(toClient'[t]) :
           toClient'[t][i].kind = "event" =>
             \A k \in 1..Len(received'[owner'[t]]) :
               received'[owner'[t]][k] < toClient'[t][i].n
    BY <1>1, <1>2, <1>5 DEF EventsInv
  <2>2. EventsInOrder'
    BY <1>5 DEF EventsInv, EventsInOrder
  <2>3. \A d \in Clients : \A k \in 1..Len(received'[d]) : received'[d][k] <= published'
    BY <1>2, <1>5 DEF EventsInv
  <2> QED
    BY <1>3, <1>4, <2>1, <2>2, <2>3 DEF EventsInv
<1>6. CASE /\ toClient[s][1].kind = "event"
           /\ received' = [received EXCEPT ![c] = Append(@, n)]
  <2>1. n \in 1..MaxEvents /\ n <= published /\ received[c] \in Seq(1..MaxEvents)
    BY <1>1, <1>2, <1>6, ToClientTypes DEF EventsInv, TypeOK
  <2>2. /\ received'[c] = Append(received[c], n)
        /\ \A d \in Clients \ {c} : received'[d] = received[d]
    BY <1>2, <1>6 DEF TypeOK
  <2>3. /\ Len(received'[c]) = Len(received[c]) + 1 /\ Len(received[c]) \in Nat
        /\ \A k \in 1..Len(received[c]) : received'[c][k] = received[c][k]
        /\ received'[c][Len(received[c]) + 1] = n
    <3> DEFINE q == received[c]
    <3>1. Len(Append(q, n)) = Len(q) + 1 /\ Len(q) \in Nat
      BY <2>1
    <3>2. \A k \in 1..Len(q) : Append(q, n)[k] = q[k]
      BY <2>1
    <3>3. Append(q, n)[Len(q) + 1] = n
      BY <2>1
    <3> QED
      BY <2>2, <3>1, <3>2, <3>3
  <2>4. \A k \in 1..Len(received[c]) : received[c][k] < n
    BY <1>1, <1>6 DEF EventsInv
  <2>5. \A d \in Clients : \A k \in 1..Len(received'[d]) : received'[d][k] <= published'
    <3>1. \A k \in 1..Len(received[c]) : received[c][k] <= published
      BY <1>2 DEF EventsInv
    <3>2. ASSUME NEW k \in 1..Len(received'[c]) PROVE received'[c][k] <= published
      <4>1. CASE k \in 1..Len(received[c])
        BY <2>3, <3>1, <4>1
      <4>2. CASE k = Len(received[c]) + 1
        BY <2>1, <2>3, <4>2
      <4> QED
        BY <2>3, <4>1, <4>2
    <3> QED
      BY <1>2, <2>2, <3>2 DEF EventsInv
  <2>6. \A d \in Clients : \A i, j \in DOMAIN received'[d] :
           i < j => received'[d][i] < received'[d][j]
    <3>1. ASSUME NEW i \in DOMAIN received'[c], NEW j \in DOMAIN received'[c], i < j
          PROVE  received'[c][i] < received'[c][j]
      <4>1. DOMAIN received[c] = 1..Len(received[c])
              /\ DOMAIN received'[c] = 1..(Len(received[c]) + 1)
        BY <2>1, <2>2
      <4>2. i \in 1..Len(received[c])
        BY <2>3, <3>1, <4>1
      <4>3. CASE j \in 1..Len(received[c])
        BY <1>2, <2>3, <3>1, <4>1, <4>2, <4>3 DEF EventsInv, EventsInOrder
      <4>4. CASE j = Len(received[c]) + 1
        BY <2>3, <2>4, <4>2, <4>4
      <4> QED
        BY <2>3, <4>1, <4>3, <4>4
    <3> QED
      BY <2>2, <3>1 DEF EventsInv, EventsInOrder
  <2>7. ASSUME NEW t \in Sockets, NEW i \in Places(toClient'[t]),
               toClient'[t][i].kind = "event",
               NEW k \in 1..Len(received'[owner'[t]])
        PROVE  received'[owner'[t]][k] < toClient'[t][i].n
    <3>1. CASE t = s
      <4>1. /\ i + 1 \in Places(toClient[s]) /\ toClient'[s][i] = toClient[s][i + 1]
            /\ 1 < i + 1 /\ toClient[s][i + 1].kind = "event"
        BY <1>1, <2>7, <3>1 DEF Places
      <4>2. n < toClient[s][i + 1].n
        BY <1>1, <1>6, <4>1 DEF EventsInv
      <4>3. CASE k = Len(received[c]) + 1
        BY <1>2, <2>3, <3>1, <4>1, <4>2, <4>3
      <4>4. CASE k \in 1..Len(received[c])
        BY <1>2, <2>3, <3>1, <4>1, <4>4 DEF EventsInv
      <4> QED
        BY <1>2, <2>3, <2>7, <3>1, <4>3, <4>4
    <3>2. CASE t # s
      <4>1. i \in Places(toClient[t]) /\ toClient'[t][i] = toClient[t][i]
        BY <1>1, <3>2
      <4>2. owner[t] \in Clients \ {c}
        <5>1. toClient[t] # <<>>
          BY <4>1 DEF Places
        <5> QED
          BY <1>2, <3>2, <5>1 DEF OwnersInv, TypeOK
      <4> QED
        BY <1>2, <2>2, <2>7, <4>1, <4>2 DEF EventsInv
    <3> QED
      BY <3>1, <3>2
  <2> QED
    BY <1>3, <1>4, <2>5, <2>6, <2>7 DEF EventsInv, EventsInOrder
<1> QED
  BY <1>1, <1>5, <1>6
     DEF ClientReceive, ReceiveResponse, ReceiveEvent, ReceiveClose

LEMMA EventsStep ==
  ASSUME TypeOK, OwnersInv, SubscribersInv, EventsInv, [Next]_vars
  PROVE  EventsInv'
<1> USE ChannelAssumption
<1>1. ASSUME NEW c \in Clients, NEW s \in Sockets, Connect(c, s) PROVE EventsInv'
  <2>1. \A t \in Sockets : toClient[t] # <<>> => owner'[t] = owner[t]
    BY <1>1 DEF Connect, OwnersInv, TypeOK
  <2>2. UNCHANGED <<published, received, toClient>>
    BY <1>1 DEF Connect, serverVars
  <2> QED
    BY <2>1, <2>2, EventsKept
<1>2. CASE UNCHANGED <<published, received, owner, toClient>>
  BY <1>2, EventsKept
<1>3. ASSUME NEW s \in Sockets, ServerReceive(s) PROVE EventsInv'
  <2>1. UNCHANGED <<published, received, owner>>
    BY <1>3 DEF ServerReceive, clientVars
  <2>2. CASE ReceiveEnd(s)
    <3>1. \E r \in Sockets : LoseRest(r) \/ (ServerReceive(r) /\ ReceiveEnd(r))
      BY <1>3, <2>2
    <3> QED
      BY <2>1, <3>1, Ends, EventsKept
  <2>3. CASE UNCHANGED toClient
    BY <1>2, <2>1, <2>3
  <2> QED
    BY <1>3, <2>2, <2>3 DEF ServerReceive, ReceiveRequest, ReceiveSubscription
<1>4. CASE Stop \/ \E s \in Sockets : LoseRest(s)
  <2>1. UNCHANGED <<published, received, owner>>
    BY <1>4 DEF Stop, LoseRest, serverVars, clientVars
  <2> QED
    BY <1>4, <2>1, Ends, EventsKept
<1>5. ASSUME NEW id \in Requests, NEW ok \in BOOLEAN, Respond(id, ok) PROVE EventsInv'
  <2>1. UNCHANGED <<published, received, owner>> /\ SendToClients({sentOn[id]}, Response(id, ok))
    BY <1>5 DEF Respond, clientVars
  <2>2. Response(id, ok) \in ServerMessages /\ Response(id, ok).kind = "response"
    BY ServerMessageFacts
  <2> QED
    BY <2>1, <2>2, SentToClients, EventsKept
<1>6. ASSUME NEW s \in Sockets, ClientReceive(s) PROVE EventsInv'
  BY <1>6, ReceiveKeepsOrder
<1>7. CASE Publish
  BY <1>7, PublishKeepsOrder
<1> QED
  BY <1>1, <1>2, <1>3, <1>4, <1>5, <1>6, <1>7
     DEF Next, Network, Connected, ConnectFails, MakeRequest, Timeout, Subscribe, Unsubscribe,
         Disconnect, Accept, vars, serverVars, clientVars

LEMMA ChannelStep == ChannelInv /\ [Next]_vars => ChannelInv'
BY TypeStep, OwnersStep, PendingStep, RequestsStep, ResponsesStep, SubscribersStep, EventsStep
   DEF ChannelInv

LEMMA ChannelInvariant == Spec => []ChannelInv
<1>1. Init => ChannelInv
  BY ChannelInit
<1>2. ChannelInv /\ [Next]_vars => ChannelInv'
  BY ChannelStep
<1> QED
  BY <1>1, <1>2, PTL DEF Spec

-----------------------------------------------------------------------------
(* The variables of server and clients hold what they are declared to:     *)
(* no message, entry of a map or socket of another kind gets into them.    *)
THEOREM ChannelIsWellTyped == Spec => []TypeOK
<1>1. ChannelInv => TypeOK
  BY DEF ChannelInv
<1> QED
  BY <1>1, ChannelInvariant, PTL

(* ControlClient.pending holds the promises that are not settled, and only *)
(* those, in every order of answers, timers, closes and new requests.      *)
THEOREM PendingAreUnsettled == Spec => []PendingIffUnsettled
<1>1. ChannelInv => PendingIffUnsettled
  BY DEF ChannelInv, PendingInv, PendingIffUnsettled, TypeOK
<1> QED
  BY <1>1, ChannelInvariant, PTL

(* ControlServer.publish writes to open connections only.                  *)
THEOREM SubscribersStayConnected == Spec => []SubscribersAreConnected
<1>1. ChannelInv => SubscribersAreConnected
  BY DEF ChannelInv, SubscribersInv, SubscribersAreConnected, TypeOK
<1> QED
  BY <1>1, ChannelInvariant, PTL

(* The callbacks of a client see the events of ControlServer.publish once  *)
(* each and in order, whenever it subscribes and unsubscribes.             *)
THEOREM EventsComeInOrder == Spec => []EventsInOrder
<1>1. ChannelInv => EventsInOrder
  BY DEF ChannelInv, EventsInv
<1> QED
  BY <1>1, ChannelInvariant, PTL

-----------------------------------------------------------------------------
(* The refinement.                                                         *)

LEMMA RpcInit == Init => Promised!Init
BY DEF Init, Promised!Init

LEMMA RpcStep ==
  ASSUME ChannelInv, [Next]_vars
  PROVE  [Promised!Next]_(Promised!vars)
<1> USE ChannelAssumption
<1>0. TypeOK /\ OwnersInv /\ PendingInv /\ RequestsInv /\ ResponsesInv
  BY DEF ChannelInv
<1>1. ASSUME NEW c \in Clients, NEW id \in Requests, MakeRequest(c, id) PROVE Promised!Next
  BY <1>1 DEF MakeRequest, serverVars, Promised!Next, Promised!Ask
<1>2. ASSUME NEW c \in Clients, NEW id \in Requests, Timeout(c, id) PROVE Promised!Next
  <2>1. outcome[id] = "pending"
    BY <1>0, <1>2 DEF Timeout, PendingInv
  <2> QED
    BY <1>2, <2>1 DEF Timeout, serverVars, Promised!Next, Promised!GiveUp
<1>3. ASSUME NEW s \in Sockets, ServerReceive(s), ReceiveRequest(s) PROVE Promised!Next
  <2> DEFINE id == toServer[s][1].id
  <2>1. /\ Head(toServer[s]) = toServer[s][1] /\ 1 \in Places(toServer[s])
        /\ toServer[s][1] \in ClientMessages
    BY <1>0, <1>3, TailFacts DEF ServerReceive, TypeOK
  <2>2. toServer[s][1].kind = "request" /\ handling' = [handling EXCEPT ![id] = "called"]
    BY <1>3, <2>1 DEF ReceiveRequest
  <2>3. id \in Requests /\ outcome[id] # "unused" /\ handling[id] = "none"
    BY <1>0, <2>1, <2>2, ClientMessageFacts DEF RequestsInv
  <2>4. UNCHANGED outcome
    BY <1>3 DEF ServerReceive, clientVars
  <2> QED
    BY <2>2, <2>3, <2>4 DEF Promised!Next, Promised!Call
<1>4. ASSUME NEW id \in Requests, NEW ok \in BOOLEAN, Respond(id, ok) PROVE Promised!Next
  BY <1>4 DEF Respond, clientVars, Promised!Next, Promised!Return
<1>5. ASSUME NEW s \in Sockets, ClientReceive(s) PROVE [Promised!Next]_(Promised!vars)
  <2>1. owner[s] \in Clients /\ UNCHANGED handling
    BY <1>0, <1>5, ReceiverIsClient DEF ClientReceive, serverVars
  <2>2. \A id \in pending[owner[s]] : id \in Requests /\ outcome[id] = "pending"
    BY <1>0, <2>1 DEF PendingInv, TypeOK
  <2>3. CASE ReceiveResponse(s)
    <3> DEFINE msg == toClient[s][1]
    <3>1. 1 \in Places(toClient[s]) /\ Head(toClient[s]) = msg
      BY <1>0, <1>5, Received
    <3>2. /\ msg.kind = "response" /\ msg.id \in Requests /\ msg.ok \in BOOLEAN
          /\ handling[msg.id] = IF msg.ok THEN "returned" ELSE "threw"
      BY <1>0, <2>3, <3>1, ToClientTypes DEF ReceiveResponse, ResponsesInv
    <3>3. CASE msg.id \in pending[owner[s]]
      <4>1. outcome' = [outcome EXCEPT ![msg.id] = IF msg.ok THEN "ok" ELSE "error"]
        BY <2>3, <3>1, <3>3 DEF ReceiveResponse
      <4> QED
        BY <2>1, <2>2, <3>2, <3>3, <4>1 DEF Promised!Next, Promised!Answer
    <3>4. CASE msg.id \notin pending[owner[s]]
      BY <2>1, <2>3, <3>1, <3>4 DEF ReceiveResponse, Promised!vars
    <3> QED
      BY <3>3, <3>4
  <2>4. CASE ReceiveEvent(s)
    BY <2>1, <2>4 DEF ReceiveEvent, Promised!vars
  <2>5. CASE ReceiveClose(s)
    <3>1. Promised!Lose(pending[owner[s]])
      BY <2>1, <2>2, <2>5 DEF ReceiveClose, RejectPending, Promised!Lose
    <3>2. pending[owner[s]] \in SUBSET Requests
      BY <2>2
    <3> QED
      BY <3>1, <3>2 DEF Promised!Next
  <2> QED
    BY <1>5, <2>3, <2>4, <2>5 DEF ClientReceive
<1>6. CASE UNCHANGED <<handling, outcome>>
  BY <1>6 DEF Promised!vars
<1> QED
  BY <1>1, <1>2, <1>3, <1>4, <1>5, <1>6
     DEF Next, Network, Connect, Connected, ConnectFails, Subscribe, Unsubscribe, Disconnect,
         Accept, ServerReceive, ReceiveSubscription, ReceiveEnd, LoseRest, Publish, Stop, vars,
         serverVars, clientVars

(* A command's request is carried out at most once, its answer is what     *)
(* that call came to, and its promise, once settled, stays so: whatever    *)
(* the order of answers, timers, closes and the server's stop.             *)
THEOREM ChannelImplementsRpc == Spec => ImplementsRpc
<1>1. Init => Promised!Init
  BY RpcInit
<1>2. ChannelInv /\ [Next]_vars => [Promised!Next]_(Promised!vars)
  BY RpcStep
<1> QED
  BY <1>1, <1>2, ChannelInvariant, PTL DEF Spec, ImplementsRpc, Promised!Spec

=============================================================================
