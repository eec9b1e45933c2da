---------------------------- MODULE NetworkProofs --------------------------
(***************************************************************************)
(* The packets of ServerNetwork and ClientNetwork, for any number of       *)
(* clients, any messages and buffers of any size.                          *)
(***************************************************************************)
EXTENDS Network, AlgoProofs

Stream == [whole : Seq(Message), part : Message \cup {NoPart}]
LoopPlace == {"off", "pull", "publish", "push", "stopped"}

\* That a stream holds only messages says that none of its packets is garbled.
NetworkTypeOK ==
    /\ client_id \in Nat \ {0} /\ accepted \in 0..NumClients
    /\ incoming_packets \in Seq(Client \X Message)
    /\ at \in [Client -> LoopPlace]
    /\ client_running \in [Client -> BOOLEAN]
    /\ outgoing_packets \in [Client -> Seq(Message)]
    /\ inbox \in [Client -> Seq(Message)] /\ outbox \in [Client -> Seq(Message)]
    /\ down \in [Client -> Stream] /\ up \in [Client -> Stream]

NetworkInv == NetworkTypeOK /\ StreamsUnbroken

\* A stream and the queue that feeds it.
Fed(s, queue) == s \in Stream /\ queue \in Seq(Message) /\ Unbroken(s, queue)

-----------------------------------------------------------------------------
\* QueueGrows: a packet put at the end of a queue leaves its stream unbroken.
LEMMA QueueGrows ==
    ASSUME NEW s, NEW queue \in Seq(Message), NEW m \in Message, Unbroken(s, queue)
    PROVE  Append(queue, m) \in Seq(Message) /\ Unbroken(s, Append(queue, m))
<1>1. Append(queue, m) \in Seq(Message) /\ Append(queue, m) # << >>
  BY AppendProperties
<1>2. queue # << >> => Head(Append(queue, m)) = Head(queue)
  BY HeadTailAppend
<1>. QED
  BY <1>1, <1>2 DEF Unbroken

\* SendKeepsStream: whatever a send to a peer that is there does, the stream
\* holds whole messages, and what it holds a part of is what is sent next.
LEMMA SendKeepsStream ==
    ASSUME NEW s \in Stream, NEW queue \in Seq(Message), queue # << >>,
           Unbroken(s, queue),
           NEW there \in BOOLEAN,
           NEW sent \in SendOutcomes(s, Head(queue), there)
    PROVE  /\ sent.stream \in Stream
           /\ AfterSend(queue, sent.status) \in Seq(Message)
           /\ there => Unbroken(sent.stream, AfterSend(queue, sent.status))
<1>. DEFINE m == Head(queue)
<1>1. m \in Message /\ Tail(queue) \in Seq(Message)
  BY HeadTailProperties
<1>2. CASE sent = Sent("Disconnected", s) /\ ~there
  BY <1>2 DEF Sent, AfterSend, Pops
<1>3. CASE sent = Sent("Done", s) /\ ~there
  BY <1>3, <1>1 DEF Sent, AfterSend, Pops
<1>4. CASE sent = Sent("NotReady", s)
  BY <1>4 DEF Sent, AfterSend, Pops
<1>5. CASE sent = Sent("Done", Completed(s, m))
  <2>1. s.part \in {NoPart, m}
    BY DEF Unbroken
  <2>2. Completed(s, m) = [whole |-> Append(s.whole, m), part |-> NoPart]
    BY <2>1 DEF Completed
  <2>3. Append(s.whole, m) \in Seq(Message)
    BY <1>1, AppendProperties DEF Stream
  <2>4. sent.stream = [whole |-> Append(s.whole, m), part |-> NoPart]
    BY <1>5, <2>2 DEF Sent
  <2>5. AfterSend(queue, sent.status) = Tail(queue)
    BY <1>5 DEF Sent, AfterSend, Pops
  <2>6. sent.stream \in Stream
    BY <2>3, <2>4 DEF Stream
  <2>7. Unbroken(sent.stream, Tail(queue))
    BY <2>4 DEF Unbroken
  <2>. QED
    BY <1>1, <2>5, <2>6, <2>7
<1>6. CASE sent = Sent("Partial", [s EXCEPT !.part = m])
  BY <1>1, <1>6 DEF Sent, AfterSend, Pops, Stream, Unbroken
<1>. QED
  BY <1>2, <1>3, <1>4, <1>5, <1>6 DEF SendOutcomes

-----------------------------------------------------------------------------
\* NetworkInitInv: at first all queues and streams are empty.
LEMMA NetworkInitInv == NetworkInit => NetworkInv
<1>. SUFFICES ASSUME NetworkInit PROVE NetworkInv
  OBVIOUS
<1>1. EmptyStream \in Stream /\ EmptyStream.part = NoPart
  BY DEF EmptyStream, Stream
<1>2. NetworkTypeOK
  BY <1>1, NetworkAssumption, EmptySeq DEF NetworkInit, NetworkTypeOK, LoopPlace
<1>3. StreamsUnbroken
  BY <1>1 DEF NetworkInit, StreamsUnbroken, Unbroken
<1>. QED
  BY <1>2, <1>3 DEF NetworkInv

\* ClientsInLoop: a loop over the clients that have been accepted has come to one.
LEMMA ClientsInLoop == NetworkTypeOK /\ client_id <= accepted => client_id \in Client
BY NetworkAssumption DEF NetworkTypeOK, Client

\* ReceivedPacket: a packet that is read is the first of its stream.
LEMMA ReceivedPacket ==
    ASSUME NetworkTypeOK, ServerReceive
    PROVE  \/ UNCHANGED <<incoming_packets, up>>
           \/ \E c \in Client :
                 /\ up[c].whole # << >> /\ <<c, Head(up[c].whole)>> \in Client \X Message
                 /\ incoming_packets' = Append(incoming_packets, <<c, Head(up[c].whole)>>)
                 /\ up' = [up EXCEPT ![c].whole = Tail(@)]
<1>1. CASE client_id > accepted \/ up[client_id].whole = << >>
  BY <1>1 DEF ServerReceive, NetworkTypeOK
<1>2. CASE client_id <= accepted /\ up[client_id].whole # << >>
  <2>1. PICK c : c = client_id
    OBVIOUS
  <2>2. c \in Client
    BY <1>2, <2>1, ClientsInLoop
  <2>3. up[c].whole \in Seq(Message)
    BY <2>2 DEF NetworkTypeOK, Stream
  <2>4. Head(up[c].whole) \in Message
    BY <1>2, <2>1, <2>3, HeadTailProperties
  <2>5. /\ incoming_packets' = Append(incoming_packets, <<c, Head(up[c].whole)>>)
        /\ up' = [up EXCEPT ![c].whole = Tail(@)]
    BY <1>2, <2>1 DEF ServerReceive, NetworkTypeOK
  <2>. QED
    BY <1>2, <2>1, <2>2, <2>4, <2>5
<1>3. client_id \in Nat /\ accepted \in Nat
  BY NetworkAssumption DEF NetworkTypeOK
<1>. QED
  BY <1>1, <1>2, <1>3

\* ServerStepInv: the server's loop keeps the invariant.
LEMMA ServerStepInv == NetworkInv /\ (ServerStep \/ ServerDies) => NetworkInv'
<1>. SUFFICES ASSUME NetworkInv, ServerStep \/ ServerDies PROVE NetworkInv'
  OBVIOUS
<1>. USE DEF NetworkInv, serverVars, clientVars
<1>1. CASE ServerAccept
  <2>1. UNCHANGED <<incoming_packets, outgoing_packets, clientVars, down, up>>
    BY <1>1 DEF ServerAccept
  <2>2. client_id' = 1 /\ accepted' \in 0..NumClients
    BY <1>1, NetworkAssumption DEF ServerAccept, Turn, NetworkTypeOK
  <2>3. NetworkTypeOK'
    BY <2>1, <2>2 DEF NetworkTypeOK
  <2>4. \A c \in Client : ~Closed(c)' => ~Closed(c)
    BY <1>1, <2>1 DEF ServerAccept, Closed, ServerThere, ClientThere
  <2>. QED
    BY <2>1, <2>3, <2>4 DEF StreamsUnbroken
<1>2. CASE ServerReceive
  <2>1. UNCHANGED <<outgoing_packets, clientVars, down, accepted>>
    BY <1>2 DEF ServerReceive
  <2>2. client_id' \in Nat \ {0}
    BY <1>2 DEF ServerReceive, Turn, NextToReceive, NetworkTypeOK
  <2>3. up' \in [Client -> Stream] /\ \A c \in Client : up'[c].part = up[c].part
    <3>1. CASE UNCHANGED up
      BY <3>1 DEF NetworkTypeOK
    <3>2. CASE up[client_id].whole # << >> /\ up' = [up EXCEPT ![client_id].whole = Tail(@)]
      <4>1. CASE client_id \in Client
        <5>1. up[client_id] \in Stream
          BY <4>1 DEF NetworkTypeOK
        <5>2. Tail(up[client_id].whole) \in Seq(Message)
          BY <3>2, <5>1, HeadTailProperties DEF Stream
        <5>. QED
          BY <3>2, <4>1, <5>1, <5>2 DEF NetworkTypeOK, Stream
      <4>2. CASE client_id \notin Client
        <5>1. up' = up
          BY <3>2, <4>2 DEF NetworkTypeOK
        <5>. QED
          BY <5>1 DEF NetworkTypeOK
      <4>. QED
        BY <4>1, <4>2
    <3>. QED
      BY <1>2, <3>1, <3>2 DEF ServerReceive
  <2>4. incoming_packets' \in Seq(Client \X Message)
    <3>. DEFINE S == Client \X Message
    <3>1. incoming_packets \in Seq(S)
      BY DEF NetworkTypeOK
    <3>2. incoming_packets' = incoming_packets
            \/ \E packet \in S : incoming_packets' = Append(incoming_packets, packet)
      BY <1>2, ReceivedPacket
    <3>3. \A packet \in S : Append(incoming_packets, packet) \in Seq(S)
      <4>. HIDE DEF S
      <4>. QED
        BY <3>1, AppendProperties
    <3>. QED
      BY <3>1, <3>2, <3>3
  <2>5. NetworkTypeOK'
    BY <2>1, <2>2, <2>3, <2>4 DEF NetworkTypeOK
  <2>6. \A c \in Client : ~Closed(c)' => ~Closed(c)
    BY <1>2, <2>1 DEF ServerReceive, Closed, ServerThere, ClientThere
  <2>. QED
    BY <2>1, <2>3, <2>5, <2>6 DEF StreamsUnbroken, Unbroken
<1>3. CASE ServerPublish \/ ServerHandled \/ ServerTurns
  <2>1. UNCHANGED <<outgoing_packets, clientVars, down, up, accepted>>
    BY <1>3 DEF ServerPublish, ServerHandled, ServerTurns
  <2>2. client_id' = 1 /\ server_at # "stopped"
    BY <1>3 DEF ServerPublish, ServerHandled, ServerTurns, Turn, InHandler
  <2>3. incoming_packets' \in Seq(Client \X Message)
    <3>. DEFINE S == Client \X Message
    <3>1. incoming_packets \in Seq(S)
      BY DEF NetworkTypeOK
    <3>2. \/ incoming_packets' = incoming_packets
          \/ incoming_packets # << >> /\ incoming_packets' = Tail(incoming_packets)
      BY <1>3 DEF ServerPublish, ServerHandled, ServerTurns
    <3>3. incoming_packets # << >> => Tail(incoming_packets) \in Seq(S)
      <4>. HIDE DEF S
      <4>. QED
        BY <3>1, HeadTailProperties
    <3>. QED
      BY <3>1, <3>2, <3>3
  <2>4. NetworkTypeOK'
    BY <2>1, <2>2, <2>3 DEF NetworkTypeOK
  <2>5. \A c \in Client : ~Closed(c)' => ~Closed(c)
    BY <2>1, <2>2 DEF Closed, ServerThere, ClientThere
  <2>. QED
    BY <2>1, <2>4, <2>5 DEF StreamsUnbroken
<1>4. CASE ServerSendsToAll \/ ServerEndsHand \/ ServerSendsToOne
  <2>1. UNCHANGED <<server_at, client_id, accepted, incoming_packets, clientVars, down, up>>
    BY <1>4 DEF ServerSendsToAll, ServerEndsHand, ServerSendsToOne, SendMessageToAll
  <2>2. /\ outgoing_packets' \in [Client -> Seq(Message)]
        /\ \A c \in Client : Unbroken(down[c], outgoing_packets[c])
                               => Unbroken(down[c], outgoing_packets'[c])
    <3>1. CASE \E m \in Message : SendMessageToAll(m)
      BY <3>1, QueueGrows DEF SendMessageToAll, NetworkTypeOK
    <3>2. CASE ServerSendsToOne
      <4>1. PICK c \in Accepted, m \in ServerMessage :
                    outgoing_packets' = [outgoing_packets EXCEPT ![c] = Append(@, m)]
        BY <3>2 DEF ServerSendsToOne
      <4>2. c \in Client /\ m \in Message
        BY NetworkAssumption DEF NetworkTypeOK, Accepted, Client, Message
      <4>. QED
        BY <4>1, <4>2, QueueGrows DEF NetworkTypeOK
    <3>3. ServerSendsToAll \/ ServerEndsHand => \E m \in Message : SendMessageToAll(m)
      BY DEF ServerSendsToAll, ServerEndsHand, Message
    <3>. QED
      BY <1>4, <3>1, <3>2, <3>3
  <2>3. NetworkTypeOK'
    BY <2>1, <2>2 DEF NetworkTypeOK
  <2>4. \A c \in Client : ~Closed(c)' => ~Closed(c)
    BY <2>1 DEF Closed, ServerThere, ClientThere
  <2>. QED
    BY <2>1, <2>2, <2>3, <2>4 DEF StreamsUnbroken
<1>5. CASE ServerPush
  <2>. DEFINE c == client_id
              queue == outgoing_packets[c]
  <2>1. /\ c \in Client /\ server_at # "stopped"
        /\ UNCHANGED <<server_at, accepted, incoming_packets, clientVars, up>>
    BY <1>5, ClientsInLoop DEF ServerPush
  <2>2. client_id' \in Nat \ {0}
    BY <1>5 DEF ServerPush, AfterBreak, NetworkTypeOK
  <2>3. CASE queue = << >>
    <3>1. UNCHANGED <<outgoing_packets, down>>
      BY <1>5, <2>3 DEF ServerPush
    <3>2. NetworkTypeOK'
      BY <2>1, <2>2, <3>1 DEF NetworkTypeOK
    <3>3. \A d \in Client : ~Closed(d)' => ~Closed(d)
      BY <2>1 DEF Closed, ServerThere, ClientThere
    <3>. QED
      BY <2>1, <3>1, <3>2, <3>3 DEF StreamsUnbroken
  <2>4. CASE queue # << >>
    <3>1. PICK sent \in SendOutcomes(down[c], Head(queue), ClientThere(c)) :
                  /\ down' = [down EXCEPT ![c] = sent.stream]
                  /\ outgoing_packets' =
                        [outgoing_packets EXCEPT ![c] = AfterSend(queue, sent.status)]
      BY <1>5, <2>4 DEF ServerPush
    <3>2. down[c] \in Stream /\ queue \in Seq(Message) /\ ClientThere(c) \in BOOLEAN
      BY <2>1 DEF NetworkTypeOK, ClientThere
    <3>3. CASE ~ClientThere(c)
      <4>1. sent.stream = down[c]
        BY <3>1, <3>3 DEF SendOutcomes, Sent
      <4>2. AfterSend(queue, sent.status) \in Seq(Message)
        BY <2>4, <3>2, HeadTailProperties DEF AfterSend
      <4>3. NetworkTypeOK'
        BY <2>1, <2>2, <3>1, <3>2, <4>1, <4>2 DEF NetworkTypeOK
      <4>4. \A d \in Client : ~Closed(d)' => ~Closed(d) /\ d # c
        BY <2>1, <3>3 DEF Closed, ServerThere, ClientThere
      <4>. QED
        BY <2>1, <3>1, <4>3, <4>4 DEF StreamsUnbroken, NetworkTypeOK
    <3>4. CASE ClientThere(c)
      <4>1. Unbroken(down[c], queue)
        BY <2>1, <3>4 DEF StreamsUnbroken, Closed, ServerThere
      <4>2. /\ sent.stream \in Stream
            /\ AfterSend(queue, sent.status) \in Seq(Message)
            /\ Unbroken(sent.stream, AfterSend(queue, sent.status))
        BY <2>4, <3>1, <3>2, <3>4, <4>1, SendKeepsStream
      <4>3. NetworkTypeOK'
        BY <2>1, <2>2, <3>1, <4>2 DEF NetworkTypeOK
      <4>4. \A d \in Client : ~Closed(d)' => ~Closed(d)
        BY <2>1 DEF Closed, ServerThere, ClientThere
      <4>. QED
        BY <2>1, <3>1, <4>2, <4>3, <4>4 DEF StreamsUnbroken, NetworkTypeOK
    <3>. QED
      BY <3>3, <3>4
  <2>. QED
    BY <2>3, <2>4
<1>6. CASE ServerExits \/ ServerDies
  <2>1. ServerStops
    BY <1>6 DEF ServerExits, ServerDies
  <2>2. NetworkTypeOK'
    BY <2>1, EmptySeq DEF ServerStops, Turn, NetworkTypeOK
  <2>3. \A c \in Client : Closed(c)'
    BY <2>1 DEF ServerStops, Turn, Closed, ServerThere
  <2>. QED
    BY <2>2, <2>3 DEF StreamsUnbroken
<1>. QED
  BY <1>1, <1>2, <1>3, <1>4, <1>5, <1>6 DEF ServerStep

\* ClientStepInv: so does a client's, its coming and its end.
LEMMA ClientStepInv ==
    ASSUME NetworkInv, NEW c \in Client, ClientConnect(c) \/ ClientStep(c) \/ ClientDies(c)
    PROVE  NetworkInv'
<1>. USE DEF NetworkInv, serverVars, clientVars
<1>1. CASE ClientConnect(c) \/ ClientPublished(c) \/ ClientPushed(c)
  <2>1. UNCHANGED <<serverVars, client_running, inbox, outbox, down, up>>
    BY <1>1 DEF ClientConnect, ClientPublished, ClientPushed
  <2>2. at[c] # "stopped" /\ \E place \in LoopPlace : at' = [at EXCEPT ![c] = place]
    BY <1>1 DEF ClientConnect, ClientPublished, ClientPushed, Go, LoopPlace
  <2>3. NetworkTypeOK'
    BY <2>1, <2>2 DEF NetworkTypeOK
  <2>4. \A d \in Client : ~Closed(d)' => ~Closed(d)
    BY <2>1, <2>2 DEF Closed, ServerThere, ClientThere, NetworkTypeOK
  <2>. QED
    BY <2>1, <2>3, <2>4 DEF StreamsUnbroken
<1>2. CASE ClientPull(c)
  <2>1. UNCHANGED <<serverVars, client_running, outbox, up>>
    BY <1>2 DEF ClientPull
  <2>2. at[c] # "stopped" /\ at' = [at EXCEPT ![c] = "publish"]
    BY <1>2 DEF ClientPull, Go
  <2>3. inbox[c] \in Seq(Message) /\ down[c] \in Stream /\ down[c].whole \in Seq(Message)
    BY DEF NetworkTypeOK, Stream
  <2>4. inbox' \in [Client -> Seq(Message)]
    BY <1>2, <2>3, ConcatProperties DEF ClientPull, NetworkTypeOK
  <2>5. down' \in [Client -> Stream] /\ \A d \in Client : down'[d].part = down[d].part
    BY <1>2, <2>3, EmptySeq DEF ClientPull, NetworkTypeOK, Stream
  <2>6. NetworkTypeOK'
    BY <2>1, <2>2, <2>4, <2>5 DEF NetworkTypeOK, LoopPlace
  <2>7. \A d \in Client : ~Closed(d)' => ~Closed(d)
    BY <2>1, <2>2 DEF Closed, ServerThere, ClientThere, NetworkTypeOK
  <2>. QED
    BY <2>1, <2>5, <2>6, <2>7 DEF StreamsUnbroken, Unbroken
<1>3. CASE ClientPublish(c)
  <2>1. UNCHANGED <<serverVars, at, down, up>>
    BY <1>3 DEF ClientPublish
  <2>2. Tail(inbox[c]) \in Seq(Message)
    BY <1>3, HeadTailProperties DEF ClientPublish, NetworkTypeOK
  <2>3. inbox' \in [Client -> Seq(Message)] /\ client_running' \in [Client -> BOOLEAN]
    BY <1>3, <2>2 DEF ClientPublish, NetworkTypeOK
  <2>4. /\ outbox' \in [Client -> Seq(Message)]
        /\ \A d \in Client : Unbroken(up[d], outbox[d]) => Unbroken(up[d], outbox'[d])
    <3>1. CASE UNCHANGED outbox
      BY <3>1 DEF NetworkTypeOK
    <3>2. ASSUME NEW m \in ClientMessage, outbox' = [outbox EXCEPT ![c] = Append(@, m)]
          PROVE  <2>4!1 /\ <2>4!2
      <4>1. m \in Message /\ outbox[c] \in Seq(Message)
        BY DEF NetworkTypeOK, Message
      <4>2. Append(outbox[c], m) \in Seq(Message)
        BY <4>1, QueueGrows, AppendProperties
      <4>3. Unbroken(up[c], outbox[c]) => Unbroken(up[c], Append(outbox[c], m))
        BY <4>1, QueueGrows
      <4>. QED
        BY <3>2, <4>2, <4>3 DEF NetworkTypeOK
    <3>3. \/ UNCHANGED outbox
          \/ \E m \in ClientMessage : outbox' = [outbox EXCEPT ![c] = Append(@, m)]
      BY <1>3 DEF ClientPublish
    <3>. QED
      BY <3>1, <3>2, <3>3
  <2>5. NetworkTypeOK'
    BY <2>1, <2>3, <2>4 DEF NetworkTypeOK
  <2>6. \A d \in Client : ~Closed(d)' => ~Closed(d)
    BY <2>1 DEF Closed, ServerThere, ClientThere
  <2>. QED
    BY <2>1, <2>4, <2>5, <2>6 DEF StreamsUnbroken
<1>4. CASE ClientPush(c)
  <2>. DEFINE queue == outbox[c]
  <2>1. UNCHANGED <<serverVars, inbox, down>> /\ at[c] # "stopped" /\ queue # << >>
    BY <1>4 DEF ClientPush
  <2>2. PICK sent \in SendOutcomes(up[c], Head(queue), ServerThere) :
                /\ up' = [up EXCEPT ![c] = sent.stream]
                /\ outbox' = [outbox EXCEPT ![c] = AfterSend(queue, sent.status)]
                /\ client_running' = [client_running EXCEPT ![c] = @ /\ sent.status # "Disconnected"]
                /\ at' \in {at, [at EXCEPT ![c] = "pull"]}
    BY <1>4 DEF ClientPush, Go
  <2>3. up[c] \in Stream /\ queue \in Seq(Message) /\ ServerThere \in BOOLEAN
    BY DEF NetworkTypeOK, ServerThere
  <2>4. at' \in [Client -> LoopPlace] /\ \A d \in Client : ClientThere(d)' => ClientThere(d)
    BY <2>1, <2>2 DEF ClientThere, NetworkTypeOK, LoopPlace
  <2>5. client_running' \in [Client -> BOOLEAN]
    BY <2>2 DEF NetworkTypeOK
  <2>6. CASE ~ServerThere
    <3>1. sent.stream = up[c]
      BY <2>2, <2>6 DEF SendOutcomes, Sent
    <3>2. AfterSend(queue, sent.status) \in Seq(Message)
      BY <2>1, <2>3, HeadTailProperties DEF AfterSend
    <3>3. NetworkTypeOK'
      BY <2>1, <2>2, <2>3, <2>4, <2>5, <3>1, <3>2 DEF NetworkTypeOK
    <3>4. \A d \in Client : Closed(d)'
      BY <2>1, <2>6 DEF Closed, ServerThere
    <3>. QED
      BY <3>3, <3>4 DEF StreamsUnbroken
  <2>7. CASE ServerThere
    <3>1. Unbroken(up[c], queue)
      BY <2>1, <2>7 DEF StreamsUnbroken, Closed, ClientThere
    <3>2. /\ sent.stream \in Stream
          /\ AfterSend(queue, sent.status) \in Seq(Message)
          /\ Unbroken(sent.stream, AfterSend(queue, sent.status))
      BY <2>1, <2>2, <2>3, <2>7, <3>1, SendKeepsStream
    <3>3. NetworkTypeOK'
      BY <2>1, <2>2, <2>4, <2>5, <3>2 DEF NetworkTypeOK
    <3>4. \A d \in Client : ~Closed(d)' => ~Closed(d)
      BY <2>1, <2>4 DEF Closed, ServerThere
    <3>. QED
      BY <2>1, <2>2, <3>2, <3>3, <3>4 DEF StreamsUnbroken, NetworkTypeOK
  <2>. QED
    BY <2>6, <2>7
<1>5. CASE ClientExits(c) \/ ClientDies(c)
  <2>1. ClientStops(c)
    BY <1>5 DEF ClientExits, ClientDies
  <2>2. EmptyStream \in Stream
    BY EmptySeq DEF EmptyStream, Stream
  <2>3. NetworkTypeOK'
    BY <2>1, <2>2, EmptySeq DEF ClientStops, Go, NetworkTypeOK, LoopPlace
  <2>4. \A d \in Client : d # c => (Closed(d)' <=> Closed(d))
    BY <2>1 DEF ClientStops, Go, Closed, ServerThere, ClientThere, NetworkTypeOK
  <2>5. Closed(c)'
    BY <2>1 DEF ClientStops, Go, Closed, ClientThere, NetworkTypeOK
  <2>6. \A d \in Client : d # c => /\ down'[d] = down[d] /\ up'[d] = up[d]
                                   /\ outbox'[d] = outbox[d]
                                   /\ outgoing_packets'[d] = outgoing_packets[d]
    BY <2>1 DEF ClientStops, NetworkTypeOK
  <2>. QED
    BY <2>3, <2>4, <2>5, <2>6 DEF StreamsUnbroken, Unbroken
<1>. QED
  BY <1>1, <1>2, <1>3, <1>4, <1>5 DEF ClientStep

\* PacketsStayWhole: the streams between the server and its clients are never
\* broken, and no packet that is read was run together from two.
THEOREM PacketsStayWhole == NetworkSpec => []NetworkInv
<1>1. NetworkInit => NetworkInv
  BY NetworkInitInv
<1>2. NetworkInv /\ [NetworkNext]_netVars => NetworkInv'
  <2>. SUFFICES ASSUME NetworkInv, [NetworkNext]_netVars PROVE NetworkInv'
    OBVIOUS
  <2>1. CASE UNCHANGED netVars
    BY <2>1 DEF NetworkInv, NetworkTypeOK, StreamsUnbroken, netVars, serverVars, clientVars,
                Closed, ServerThere, ClientThere
  <2>. QED
    BY <2>1, ServerStepInv, ClientStepInv DEF NetworkNext
<1>. QED
  BY <1>1, <1>2, PTL DEF NetworkSpec

\* StreamsNeverBreak: the part of a packet in a stream is always the beginning
\* of the packet that is sent next.
COROLLARY StreamsNeverBreak == NetworkSpec => []StreamsUnbroken
<1>1. NetworkInv => StreamsUnbroken
  BY DEF NetworkInv
<1>. QED
  BY <1>1, PacketsStayWhole, PTL

-----------------------------------------------------------------------------
(* What is queued for a client is a queue, across both programs.           *)

\* TailOfConcat: taking from the front of a sequence that goes on.
LEMMA TailOfConcat ==
    ASSUME NEW S, NEW q \in Seq(S), NEW r \in Seq(S), q # << >>
    PROVE  q \o r # << >> /\ Tail(q \o r) = Tail(q) \o r
<1>1. q \o r \in Seq(S) /\ Len(q \o r) = Len(q) + Len(r) /\ Len(q) \in Nat \ {0} /\ Len(r) \in Nat
  BY ConcatProperties, LenProperties, EmptySeq
<1>2. Tail(q) \in Seq(S) /\ Len(Tail(q)) = Len(q) - 1
  BY HeadTailProperties
<1>3. Tail(q) \o r \in Seq(S) /\ Len(Tail(q) \o r) = Len(q) - 1 + Len(r)
  BY <1>2, ConcatProperties
<1>4. q \o r # << >>
  BY <1>1, EmptySeq
<1>5. Tail(q \o r) \in Seq(S) /\ Len(Tail(q \o r)) = Len(q) + Len(r) - 1
  BY <1>1, <1>4, HeadTailProperties
<1>6. ASSUME NEW i \in 1..(Len(q) + Len(r) - 1)
      PROVE  Tail(q \o r)[i] = (Tail(q) \o r)[i]
  <2>1. Tail(q \o r)[i] = (q \o r)[i + 1]
    BY <1>1, <1>4, <1>5, HeadTailProperties
  <2>2. (q \o r)[i + 1] = IF i + 1 <= Len(q) THEN q[i + 1] ELSE r[i + 1 - Len(q)]
    BY <1>1, ConcatProperties
  <2>3. (Tail(q) \o r)[i] = IF i <= Len(q) - 1 THEN Tail(q)[i] ELSE r[i - (Len(q) - 1)]
    BY <1>1, <1>2, ConcatProperties
  <2>4. i <= Len(q) - 1 => Tail(q)[i] = q[i + 1]
    BY <1>1, <1>2, HeadTailProperties
  <2>. QED
    BY <1>1, <2>1, <2>2, <2>3, <2>4
<1>. QED
  BY <1>1, <1>3, <1>5, <1>6, SeqEqual

\* AppendToConcat: putting at the end of a sequence that something goes before.
LEMMA AppendToConcat ==
    ASSUME NEW S, NEW q \in Seq(S), NEW r \in Seq(S), NEW m \in S
    PROVE  q \o Append(r, m) = Append(q \o r, m)
<1>1. <<m>> \in Seq(S) /\ Append(r, m) = r \o <<m>>
  BY AppendIsConcat
<1>2. q \o r \in Seq(S) /\ Append(q \o r, m) = (q \o r) \o <<m>>
  BY ConcatProperties, AppendIsConcat
<1>. QED
  BY <1>1, <1>2, ConcatAssociative

\* HeadMovesOver: the head of a queue may lie behind what goes before it.
LEMMA HeadMovesOver ==
    ASSUME NEW S, NEW q \in Seq(S), NEW r \in Seq(S), r # << >>
    PROVE  Append(q, Head(r)) \o Tail(r) = q \o r
<1>. DEFINE h == Head(r)
<1>1. h \in S /\ Tail(r) \in Seq(S) /\ <<h>> \in Seq(S) /\ Len(r) \in Nat \ {0}
  BY HeadTailProperties, EmptySeq
<1>2. r = <<h>> \o Tail(r)
  <2>1. r = SubSeq(r, 1, Len(r)) /\ Tail(r) = SubSeq(r, 2, Len(r))
    BY SubSeqFull, TailIsSubSeq
  <2>2. SubSeq(r, 1, Len(r)) = <<r[1]>> \o SubSeq(r, 1 + 1, Len(r))
    BY <1>1, SubSeqRecursiveFirst
  <2>. QED
    BY <2>1, <2>2
<1>3. Append(q, h) = q \o <<h>>
  BY <1>1, AppendIsConcat
<1>4. (q \o <<h>>) \o Tail(r) = q \o (<<h>> \o Tail(r))
  BY <1>1, ConcatAssociative
<1>. QED
  BY <1>2, <1>3, <1>4

\* SendMovesOn: a send to a peer that is there moves the head of the queue to
\* the end of the stream or leaves both, whatever lies before the stream.
LEMMA SendMovesOn ==
    ASSUME NEW s \in Stream, NEW queue \in Seq(Message), queue # << >>,
           Unbroken(s, queue), NEW before \in Seq(Message),
           NEW sent \in SendOutcomes(s, Head(queue), TRUE)
    PROVE  (before \o sent.stream.whole) \o AfterSend(queue, sent.status)
              = (before \o s.whole) \o queue
<1>. DEFINE m == Head(queue)
            w == s.whole
<1>1. m \in Message /\ w \in Seq(Message) /\ before \o w \in Seq(Message)
  BY HeadTailProperties, ConcatProperties DEF Stream
<1>2. CASE sent = Sent("NotReady", s)
  BY <1>2 DEF Sent, AfterSend, Pops
<1>3. CASE sent = Sent("Partial", [s EXCEPT !.part = m])
  BY <1>3 DEF Sent, AfterSend, Pops, Stream
<1>4. CASE sent = Sent("Done", Completed(s, m))
  <2>1. AfterSend(queue, sent.status) = Tail(queue)
    BY <1>4 DEF Sent, AfterSend, Pops
  <2>2. sent.stream.whole = Append(w, m)
    BY <1>4 DEF Sent, Completed, Unbroken
  <2>3. before \o Append(w, m) = Append(before \o w, m)
    <3>. HIDE DEF m, w
    <3>. QED
      BY <1>1, AppendToConcat
  <2>4. Append(before \o w, m) \o Tail(queue) = (before \o w) \o queue
    <3>. HIDE DEF w
    <3>. QED
      BY <1>1, HeadMovesOver
  <2>. QED
    BY <2>1, <2>2, <2>3, <2>4
<1>. QED
  BY <1>2, <1>3, <1>4 DEF SendOutcomes

\* The queue to c is only put to or taken from in a step.
AsAQueue(c) == ~Closed(c)' => Promise!PutOrTake(ToClient(c), ToClient(c)')

\* ToClientParts: the three places where packets to a client are hold messages.
LEMMA ToClientParts ==
    ASSUME NetworkInv, NEW c \in Client
    PROVE  /\ inbox[c] \in Seq(Message) /\ down[c].whole \in Seq(Message)
           /\ outgoing_packets[c] \in Seq(Message)
           /\ inbox[c] \o down[c].whole \in Seq(Message)
           /\ ToClient(c) \in Seq(Message)
<1>1. /\ inbox[c] \in Seq(Message) /\ down[c].whole \in Seq(Message)
      /\ outgoing_packets[c] \in Seq(Message)
  BY DEF NetworkInv, NetworkTypeOK, Stream
<1>2. inbox[c] \o down[c].whole \in Seq(Message)
  BY <1>1, ConcatProperties
<1>. QED
  BY <1>1, <1>2, ConcatProperties DEF ToClient

\* ServerKeepsQueues: what the server does puts packets at the end or moves
\* them on.
LEMMA ServerKeepsQueues ==
    ASSUME NetworkInv, ServerStep \/ ServerDies, NEW c \in Client
    PROVE  AsAQueue(c)
<1>. USE DEF serverVars, clientVars
<1>1. CASE UNCHANGED <<inbox, down, outgoing_packets>>
  BY <1>1 DEF AsAQueue, ToClient, Promise!PutOrTake
<1>2. CASE ServerSendsToAll \/ ServerEndsHand \/ ServerSendsToOne
  <2>1. UNCHANGED <<inbox, down>>
    BY <1>2 DEF ServerSendsToAll, ServerEndsHand, ServerSendsToOne, SendMessageToAll
  <2>2. \/ outgoing_packets'[c] = outgoing_packets[c]
        \/ \E m \in Message : outgoing_packets'[c] = Append(outgoing_packets[c], m)
    BY <1>2 DEF ServerSendsToAll, ServerEndsHand, ServerSendsToOne, SendMessageToAll,
                Message, NetworkInv, NetworkTypeOK
  <2>3. ASSUME NEW m \in Message, outgoing_packets'[c] = Append(outgoing_packets[c], m)
        PROVE  ToClient(c)' = Append(ToClient(c), m)
    <3>. DEFINE before == inbox[c] \o down[c].whole
    <3>1. before \in Seq(Message) /\ outgoing_packets[c] \in Seq(Message)
      BY ToClientParts
    <3>2. before \o Append(outgoing_packets[c], m) = Append(before \o outgoing_packets[c], m)
      <4>. HIDE DEF before
      <4>. QED
        BY <3>1, AppendToConcat
    <3>. QED
      BY <2>1, <2>3, <3>2 DEF ToClient
  <2>4. outgoing_packets'[c] = outgoing_packets[c] => ToClient(c)' = ToClient(c)
    BY <2>1 DEF ToClient
  <2>. QED
    BY <2>2, <2>3, <2>4 DEF AsAQueue, Promise!PutOrTake
<1>3. CASE ServerPush
  <2>. DEFINE queue == outgoing_packets[c]
  <2>1. CASE c # client_id \/ queue = << >>
    <3>1. inbox' = inbox /\ down'[c] = down[c] /\ outgoing_packets'[c] = outgoing_packets[c]
      BY <1>3, <2>1 DEF ServerPush, NetworkInv, NetworkTypeOK
    <3>. QED
      BY <3>1 DEF AsAQueue, ToClient, Promise!PutOrTake
  <2>2. CASE c = client_id /\ queue # << >> /\ ClientThere(c)
    <3>1. PICK sent \in SendOutcomes(down[c], Head(queue), ClientThere(c)) :
                  /\ inbox' = inbox /\ down'[c] = sent.stream
                  /\ outgoing_packets'[c] = AfterSend(queue, sent.status)
      BY <1>3, <2>2 DEF ServerPush, NetworkInv, NetworkTypeOK
    <3>2. ServerThere
      BY <1>3 DEF ServerPush, ServerThere
    <3>3. Unbroken(down[c], queue)
      BY <2>2, <3>2 DEF NetworkInv, StreamsUnbroken, Closed
    <3>4. /\ inbox[c] \in Seq(Message) /\ down[c] \in Stream /\ queue \in Seq(Message)
          /\ sent \in SendOutcomes(down[c], Head(queue), TRUE)
      BY <2>2, <3>1, ToClientParts DEF NetworkInv, NetworkTypeOK
    <3>5. (inbox[c] \o sent.stream.whole) \o AfterSend(queue, sent.status)
             = (inbox[c] \o down[c].whole) \o queue
      BY <2>2, <3>3, <3>4, SendMovesOn
    <3>. QED
      BY <3>1, <3>5 DEF AsAQueue, ToClient, Promise!PutOrTake
  <2>3. CASE c = client_id /\ ~ClientThere(c)
    <3>1. Closed(c)'
      BY <1>3, <2>3 DEF ServerPush, Closed, ClientThere
    <3>. QED
      BY <3>1 DEF AsAQueue
  <2>. QED
    BY <2>1, <2>2, <2>3
<1>4. CASE ServerExits \/ ServerDies
  <2>1. Closed(c)'
    BY <1>4 DEF ServerExits, ServerDies, ServerStops, Turn, Closed, ServerThere
  <2>. QED
    BY <2>1 DEF AsAQueue
<1>5. ServerAccept \/ ServerReceive \/ ServerPublish \/ ServerHandled \/ ServerTurns
        => UNCHANGED <<inbox, down, outgoing_packets>>
  BY DEF ServerAccept, ServerReceive, ServerPublish, ServerHandled, ServerTurns
<1>. QED
  BY <1>1, <1>2, <1>3, <1>4, <1>5 DEF ServerStep

\* ClientKeepsQueues: what a client does takes packets from the front or moves
\* them on.
LEMMA ClientKeepsQueues ==
    ASSUME NetworkInv, NEW d \in Client, ClientConnect(d) \/ ClientStep(d) \/ ClientDies(d),
           NEW c \in Client
    PROVE  AsAQueue(c)
<1>. USE DEF serverVars, clientVars
<1>1. CASE /\ inbox'[c] = inbox[c] /\ down'[c] = down[c]
           /\ outgoing_packets'[c] = outgoing_packets[c]
  BY <1>1 DEF AsAQueue, ToClient, Promise!PutOrTake
<1>2. CASE ClientConnect(d) \/ ClientPublished(d) \/ ClientPush(d) \/ ClientPushed(d)
  BY <1>1, <1>2 DEF ClientConnect, ClientPublished, ClientPush, ClientPushed
<1>3. CASE c # d
  <2>1. outgoing_packets' = outgoing_packets
    BY DEF ClientConnect, ClientStep, ClientDies, ClientPull, ClientPublish, ClientPublished,
           ClientPush, ClientPushed, ClientExits, ClientStops
  <2>2. inbox'[c] = inbox[c] /\ down'[c] = down[c]
    BY <1>3 DEF ClientConnect, ClientStep, ClientDies, ClientPull, ClientPublish,
                ClientPublished, ClientPush, ClientPushed, ClientExits, ClientStops,
                NetworkInv, NetworkTypeOK
  <2>. QED
    BY <1>1, <2>1, <2>2
<1>4. CASE c = d /\ ClientPull(d)
  <2>1. /\ inbox'[c] = inbox[c] \o down[c].whole /\ down'[c].whole = << >>
        /\ outgoing_packets' = outgoing_packets
    BY <1>4 DEF ClientPull, NetworkInv, NetworkTypeOK, Stream
  <2>2. (inbox[c] \o down[c].whole) \o << >> = inbox[c] \o down[c].whole
    BY ToClientParts, ConcatEmptySeq
  <2>. QED
    BY <2>1, <2>2 DEF AsAQueue, ToClient, Promise!PutOrTake
<1>5. CASE c = d /\ ClientPublish(d)
  <2>1. /\ inbox'[c] = Tail(inbox[c]) /\ inbox[c] # << >>
        /\ down' = down /\ outgoing_packets' = outgoing_packets
    BY <1>5 DEF ClientPublish, NetworkInv, NetworkTypeOK
  <2>2. /\ inbox[c] \o down[c].whole # << >>
        /\ Tail(inbox[c] \o down[c].whole) = Tail(inbox[c]) \o down[c].whole
    BY <2>1, ToClientParts, TailOfConcat
  <2>3. /\ ToClient(c) # << >>
        /\ Tail(ToClient(c)) = Tail(inbox[c] \o down[c].whole) \o outgoing_packets[c]
    BY <2>2, ToClientParts, TailOfConcat DEF ToClient
  <2>. QED
    BY <2>1, <2>2, <2>3 DEF AsAQueue, ToClient, Promise!PutOrTake
<1>6. CASE c = d /\ (ClientExits(d) \/ ClientDies(d))
  <2>1. Closed(c)'
    BY <1>6 DEF ClientExits, ClientDies, ClientStops, Go, Closed, ClientThere,
                NetworkInv, NetworkTypeOK
  <2>. QED
    BY <2>1 DEF AsAQueue
<1>. QED
  BY <1>2, <1>3, <1>4, <1>5, <1>6 DEF ClientStep

-----------------------------------------------------------------------------
(* What is queued for the server is a queue too, though its last part is   *)
(* shared by all clients.                                                  *)

Of(packets, c) ==
    FlattenSeq([i \in DOMAIN packets |->
                   IF packets[i][1] = c THEN <<packets[i][2]>> ELSE << >>])

\* OfType: the packets of a client are messages.
LEMMA OfType ==
    ASSUME NEW packets \in Seq(Client \X Message), NEW c
    PROVE  Of(packets, c) \in Seq(Message)
<1>. DEFINE ss == [i \in DOMAIN packets |->
                      IF packets[i][1] = c THEN <<packets[i][2]>> ELSE << >>]
<1>1. PICK n : n = Len(packets)
  OBVIOUS
<1>2. n \in Nat /\ DOMAIN packets = 1..n /\ \A i \in 1..n : packets[i] \in Client \X Message
  BY <1>1
<1>3. \A i \in 1..n : packets[i][2] \in Message
  BY <1>2
<1>4. ss \in [1..n -> Seq(Message)]
  BY <1>2, <1>3, EmptySeq
<1>5. FlattenSeq(ss) \in Seq(Message)
  <2>. HIDE DEF ss
  <2>. QED
    BY <1>2, <1>4, FlattenKeeps
<1>. QED
  BY <1>5 DEF Of

\* OfAppend: a packet that comes last is the last of its client and of no other.
LEMMA OfAppend ==
    ASSUME NEW packets \in Seq(Client \X Message), NEW d \in Client, NEW m \in Message, NEW c
    PROVE  Of(Append(packets, <<d, m>>), c)
             = IF d = c THEN Append(Of(packets, c), m) ELSE Of(packets, c)
<1>. DEFINE one(p) == IF p[1] = c THEN <<p[2]>> ELSE << >>
<1>1. PICK more : more = Append(packets, <<d, m>>)
  OBVIOUS
<1>2. PICK n : n = Len(packets)
  OBVIOUS
<1>3. n \in Nat /\ DOMAIN packets = 1..n /\ \A i \in 1..n : packets[i] \in Client \X Message
  BY <1>2
<1>4. /\ DOMAIN more = 1..(n + 1) /\ more[n + 1] = <<d, m>>
      /\ \A i \in 1..n : more[i] = packets[i]
  <2>1. Len(more) = n + 1 /\ more \in Seq(Client \X Message)
    BY <1>1, <1>2
  <2>2. DOMAIN more = 1..(n + 1)
    BY <1>3, <2>1
  <2>. QED
    BY <1>1, <1>2, <1>3, <2>2
<1>. DEFINE ss == [i \in 1..(n + 1) |-> one(more[i])]
            tt == [i \in 1..n |-> one(packets[i])]
<1>5. Of(more, c) = FlattenSeq(ss) /\ Of(packets, c) = FlattenSeq(tt)
  BY <1>3, <1>4 DEF Of
<1>6. ss \in [1..(n + 1) -> Seq(Message)] /\ tt = [i \in 1..n |-> ss[i]]
  <2>1. \A i \in 1..(n + 1) : more[i][2] \in Message
    <3>. TAKE i \in 1..(n + 1)
    <3>1. CASE i = n + 1
      BY <1>4, <3>1
    <3>2. CASE i \in 1..n
      BY <1>3, <1>4, <3>2
    <3>. QED
      BY <1>3, <3>1, <3>2
  <2>2. \A i \in 1..(n + 1) : one(more[i]) \in Seq(Message)
    BY <2>1, EmptySeq
  <2>3. \A i \in 1..n : i \in 1..(n + 1)
    BY <1>3
  <2>. QED
    BY <1>4, <2>2, <2>3
<1>7. FlattenSeq(ss) = FlattenSeq(tt) \o ss[n + 1]
  <2>. HIDE DEF ss, tt
  <2>. QED
    BY <1>3, <1>6, FlattenLast
<1>8. ss[n + 1] = IF d = c THEN <<m>> ELSE << >>
  <2>1. n + 1 \in 1..(n + 1)
    BY <1>3
  <2>. QED
    BY <1>4, <2>1
<1>9. Of(packets, c) \in Seq(Message)
  BY OfType
<1>10. Of(packets, c) \o << >> = Of(packets, c)
  BY <1>9, ConcatEmptySeq
<1>11. Append(Of(packets, c), m) = Of(packets, c) \o <<m>>
  BY <1>9, AppendIsConcat
<1>12. Of(more, c) = IF d = c THEN Append(Of(packets, c), m) ELSE Of(packets, c)
  <2>1. Of(more, c) = Of(packets, c) \o ss[n + 1]
    BY <1>5, <1>7
  <2>. HIDE DEF ss
  <2>. QED
    BY <1>8, <1>10, <1>11, <2>1
<1>. QED
  BY <1>1, <1>12

\* OfTail: without the first packet its client has one less, and no other.
LEMMA OfTail ==
    ASSUME NEW packets \in Seq(Client \X Message), packets # << >>, NEW c
    PROVE  IF Head(packets)[1] = c
           THEN Of(packets, c) # << >> /\ Of(Tail(packets), c) = Tail(Of(packets, c))
           ELSE Of(Tail(packets), c) = Of(packets, c)
<1>. DEFINE one(p) == IF p[1] = c THEN <<p[2]>> ELSE << >>
<1>1. PICK rest : rest = Tail(packets)
  OBVIOUS
<1>2. PICK n : n = Len(packets) - 1
  OBVIOUS
<1>3. /\ n \in Nat /\ DOMAIN packets = 1..(n + 1)
      /\ \A i \in 1..(n + 1) : packets[i] \in Client \X Message
      /\ Head(packets) = packets[1]
  <2>1. Len(packets) \in Nat \ {0}
    BY EmptySeq
  <2>. QED
    BY <1>2, <2>1
<1>4. /\ DOMAIN rest = 1..n /\ rest \in Seq(Client \X Message)
      /\ \A i \in 1..n : rest[i] = packets[i + 1]
  <2>. DEFINE S == Client \X Message
  <2>1. packets \in Seq(S)
    OBVIOUS
  <2>2. /\ rest \in Seq(S) /\ Len(rest) = n
        /\ \A i \in 1..Len(rest) : rest[i] = packets[i + 1]
    <3>. HIDE DEF S
    <3>. QED
      BY <1>1, <1>2, <2>1, HeadTailProperties
  <2>. QED
    BY <1>3, <2>2
<1>. DEFINE ss == [i \in 1..(n + 1) |-> one(packets[i])]
            tt == [i \in 1..n |-> one(rest[i])]
<1>5. Of(packets, c) = FlattenSeq(ss) /\ Of(rest, c) = FlattenSeq(tt)
  BY <1>3, <1>4 DEF Of
<1>6. /\ ss \in [1..(n + 1) -> Seq(Message)] /\ tt \in [1..n -> Seq(Message)]
      /\ \A i \in 1..n : tt[i] = ss[i + 1]
  <2>1. \A i \in 1..(n + 1) : packets[i][2] \in Message
    BY <1>3
  <2>2. \A i \in 1..(n + 1) : one(packets[i]) \in Seq(Message)
    BY <2>1, EmptySeq
  <2>3. \A i \in 1..n : i + 1 \in 1..(n + 1)
    BY <1>3
  <2>. QED
    BY <1>4, <2>2, <2>3
<1>7. FlattenSeq(ss) = ss[1] \o FlattenSeq(tt)
  <2>. HIDE DEF ss, tt
  <2>. QED
    BY <1>3, <1>6, FlattenFirst
<1>8. 1 \in 1..(n + 1) /\ ss[1] = one(Head(packets)) /\ Head(packets)[2] \in Message
  BY <1>3
<1>9. Of(rest, c) \in Seq(Message)
  BY <1>4, OfType
<1>10. << >> \o Of(rest, c) = Of(rest, c)
  BY <1>9, ConcatEmptySeq
<1>11. ASSUME NEW m \in Message
       PROVE  /\ <<m>> \o Of(rest, c) # << >>
              /\ Tail(<<m>> \o Of(rest, c)) = Of(rest, c)
  <2>1. <<m>> \in Seq(Message) /\ <<m>> # << >> /\ Tail(<<m>>) = << >>
    OBVIOUS
  <2>. QED
    BY <1>9, <1>10, <2>1, TailOfConcat
<1>12. CASE Head(packets)[1] = c
  <2>1. Of(packets, c) = <<Head(packets)[2]>> \o Of(rest, c)
    BY <1>5, <1>7, <1>8, <1>12
  <2>. QED
    BY <1>1, <1>8, <1>11, <1>12, <2>1
<1>13. CASE Head(packets)[1] # c
  <2>1. Of(packets, c) = << >> \o Of(rest, c)
    BY <1>5, <1>7, <1>8, <1>13
  <2>. QED
    BY <1>1, <1>10, <1>13, <2>1
<1>. QED
  BY <1>12, <1>13
\* The queue from c is only put to or taken from in a step.
AnswersAsAQueue(c) == ~Closed(c)' => Promise!PutOrTake(ToServer(c), ToServer(c)')

\* ToServerParts: the three places where packets from a client are hold messages.
LEMMA ToServerParts ==
    ASSUME NetworkInv, NEW c \in Client
    PROVE  /\ From(c) \in Seq(Message) /\ up[c].whole \in Seq(Message)
           /\ outbox[c] \in Seq(Message) /\ up[c] \in Stream
           /\ From(c) \o up[c].whole \in Seq(Message)
           /\ ToServer(c) \in Seq(Message)
<1>1. up[c].whole \in Seq(Message) /\ outbox[c] \in Seq(Message) /\ up[c] \in Stream
  BY DEF NetworkInv, NetworkTypeOK, Stream
<1>2. From(c) \in Seq(Message)
  BY OfType DEF From, Of, NetworkInv, NetworkTypeOK
<1>3. From(c) \o up[c].whole \in Seq(Message)
  BY <1>1, <1>2, ConcatProperties
<1>. QED
  BY <1>1, <1>2, <1>3, ConcatProperties DEF ToServer

\* FromPrimed: what has been received from c is told by the packets received.
LEMMA FromPrimed ==
    ASSUME NEW c
    PROVE  From(c) = Of(incoming_packets, c) /\ From(c)' = Of(incoming_packets', c)
BY DEF From, Of

\* ServerKeepsAnswers: the server moves a client's packets on or takes the first.
LEMMA ServerKeepsAnswers ==
    ASSUME NetworkInv, ServerStep \/ ServerDies, NEW c \in Client
    PROVE  AnswersAsAQueue(c)
<1>. USE DEF serverVars, clientVars
<1>1. CASE UNCHANGED <<incoming_packets, up, outbox>>
  BY <1>1 DEF AnswersAsAQueue, ToServer, From, Promise!PutOrTake
<1>2. CASE ServerReceive
  <2>1. NetworkTypeOK /\ outbox' = outbox
    BY <1>2 DEF NetworkInv, ServerReceive
  <2>2. ASSUME NEW d \in Client, up[d].whole # << >>,
               incoming_packets' = Append(incoming_packets, <<d, Head(up[d].whole)>>),
               up' = [up EXCEPT ![d].whole = Tail(@)],
               <<d, Head(up[d].whole)>> \in Client \X Message
        PROVE  AnswersAsAQueue(c)
    <3>1. Head(up[d].whole) \in Message /\ incoming_packets \in Seq(Client \X Message)
      BY <2>1, <2>2 DEF NetworkTypeOK
    <3>2. From(c)' = IF d = c THEN Append(From(c), Head(up[d].whole)) ELSE From(c)
      <4>1. PICK m \in Message : m = Head(up[d].whole)
        BY <3>1
      <4>2. Of(Append(incoming_packets, <<d, m>>), c)
               = IF d = c THEN Append(Of(incoming_packets, c), m) ELSE Of(incoming_packets, c)
        BY <3>1, OfAppend
      <4>3. incoming_packets' = Append(incoming_packets, <<d, m>>)
        BY <2>2, <4>1
      <4>4. From(c) = Of(incoming_packets, c) /\ From(c)' = Of(incoming_packets', c)
        BY FromPrimed
      <4>. QED
        BY <4>1, <4>2, <4>3, <4>4
    <3>3. CASE d # c
      <4>1. up'[c] = up[c]
        BY <2>2, <3>3
      <4>. QED
        BY <2>1, <3>2, <3>3, <4>1 DEF AnswersAsAQueue, ToServer, Promise!PutOrTake
    <3>4. CASE d = c
      <4>. DEFINE w == up[c].whole
      <4>1. up'[c].whole = Tail(w)
        BY <2>1, <2>2, <3>4 DEF NetworkTypeOK, Stream
      <4>2. Append(From(c), Head(w)) \o Tail(w) = From(c) \o w
        <5>1. From(c) \in Seq(Message) /\ w \in Seq(Message) /\ w # << >>
          BY <2>2, <3>4, ToServerParts
        <5>. HIDE DEF w
        <5>. QED
          BY <5>1, HeadMovesOver
      <4>. QED
        BY <2>1, <3>2, <3>4, <4>1, <4>2 DEF AnswersAsAQueue, ToServer, Promise!PutOrTake
    <3>. QED
      BY <3>3, <3>4
  <2>. QED
    BY <1>1, <1>2, <2>1, <2>2, ReceivedPacket
<1>3. CASE ServerPublish
  <2>1. UNCHANGED <<up, outbox>>
    BY <1>3 DEF ServerPublish
  <2>2. CASE incoming_packets = << >>
    BY <1>1, <1>3, <2>1, <2>2 DEF ServerPublish
  <2>3. CASE incoming_packets # << >>
    <3>1. incoming_packets' = Tail(incoming_packets)
      BY <1>3, <2>3 DEF ServerPublish
    <3>2. incoming_packets \in Seq(Client \X Message)
      BY DEF NetworkInv, NetworkTypeOK
    <3>3. CASE Head(incoming_packets)[1] = c
      <4>1. From(c) # << >> /\ From(c)' = Tail(From(c))
        <5>1. /\ Of(incoming_packets, c) # << >>
              /\ Of(Tail(incoming_packets), c) = Tail(Of(incoming_packets, c))
          BY <2>3, <3>2, <3>3, OfTail
        <5>. QED
          BY <3>1, <5>1, FromPrimed
      <4>2. /\ From(c) \o up[c].whole # << >>
            /\ Tail(From(c) \o up[c].whole) = Tail(From(c)) \o up[c].whole
        BY <4>1, ToServerParts, TailOfConcat
      <4>3. /\ ToServer(c) # << >>
            /\ Tail(ToServer(c)) = Tail(From(c) \o up[c].whole) \o outbox[c]
        BY <4>2, ToServerParts, TailOfConcat DEF ToServer
      <4>. QED
        BY <2>1, <4>1, <4>2, <4>3 DEF AnswersAsAQueue, ToServer, Promise!PutOrTake
    <3>4. CASE Head(incoming_packets)[1] # c
      <4>1. From(c)' = From(c)
        <5>1. Of(Tail(incoming_packets), c) = Of(incoming_packets, c)
          BY <2>3, <3>2, <3>4, OfTail
        <5>. QED
          BY <3>1, <5>1, FromPrimed
      <4>. QED
        BY <2>1, <4>1 DEF AnswersAsAQueue, ToServer, Promise!PutOrTake
    <3>. QED
      BY <3>3, <3>4
  <2>. QED
    BY <2>2, <2>3
<1>4. CASE ServerExits \/ ServerDies
  <2>1. Closed(c)'
    BY <1>4 DEF ServerExits, ServerDies, ServerStops, Turn, Closed, ServerThere
  <2>. QED
    BY <2>1 DEF AnswersAsAQueue
<1>5. CASE \/ ServerAccept \/ ServerSendsToAll \/ ServerSendsToOne \/ ServerEndsHand
           \/ ServerHandled \/ ServerPush \/ ServerTurns
  BY <1>1, <1>5 DEF ServerAccept, ServerSendsToAll, ServerSendsToOne, ServerEndsHand, SendMessageToAll,
         ServerHandled, ServerPush, ServerTurns
<1>. QED
  BY <1>1, <1>2, <1>3, <1>4, <1>5 DEF ServerStep

\* ClientKeepsAnswers: a client puts packets at the end or moves them on.
LEMMA ClientKeepsAnswers ==
    ASSUME NetworkInv, NEW d \in Client, ClientConnect(d) \/ ClientStep(d) \/ ClientDies(d),
           NEW c \in Client
    PROVE  AnswersAsAQueue(c)
<1>. USE DEF serverVars, clientVars
<1>1. CASE incoming_packets' = incoming_packets /\ up'[c] = up[c] /\ outbox'[c] = outbox[c]
  BY <1>1 DEF AnswersAsAQueue, ToServer, From, Promise!PutOrTake
<1>2. CASE ClientConnect(d) \/ ClientPull(d) \/ ClientPublished(d) \/ ClientPushed(d)
  BY <1>1, <1>2 DEF ClientConnect, ClientPull, ClientPublished, ClientPushed
<1>3. incoming_packets' = incoming_packets /\ From(c)' = From(c)
  BY DEF ClientConnect, ClientStep, ClientDies, ClientPull, ClientPublish, ClientPublished,
         ClientPush, ClientPushed, ClientExits, ClientStops, From
<1>4. CASE c # d
  <2>1. up'[c] = up[c] /\ outbox'[c] = outbox[c]
    BY <1>4 DEF ClientConnect, ClientStep, ClientDies, ClientPull, ClientPublish,
                ClientPublished, ClientPush, ClientPushed, ClientExits, ClientStops,
                NetworkInv, NetworkTypeOK
  <2>. QED
    BY <1>1, <1>3, <2>1
<1>5. CASE c = d /\ ClientPublish(d)
  <2>1. up' = up
    BY <1>5 DEF ClientPublish
  <2>2. \/ outbox'[c] = outbox[c]
        \/ \E m \in Message : outbox'[c] = Append(outbox[c], m)
    BY <1>5 DEF ClientPublish, Message, NetworkInv, NetworkTypeOK
  <2>3. ASSUME NEW m \in Message, outbox'[c] = Append(outbox[c], m)
        PROVE  ToServer(c)' = Append(ToServer(c), m)
    <3>. DEFINE before == From(c) \o up[c].whole
    <3>1. before \in Seq(Message) /\ outbox[c] \in Seq(Message)
      BY ToServerParts
    <3>2. before \o Append(outbox[c], m) = Append(before \o outbox[c], m)
      <4>. HIDE DEF before
      <4>. QED
        BY <3>1, AppendToConcat
    <3>. QED
      BY <1>3, <2>1, <2>3, <3>2 DEF ToServer
  <2>. QED
    BY <1>1, <1>3, <2>1, <2>2, <2>3 DEF AnswersAsAQueue, Promise!PutOrTake
<1>6. CASE c = d /\ ClientPush(d) /\ ~ServerThere
  <2>1. Closed(c)'
    BY <1>6 DEF ClientPush, Closed, ServerThere
  <2>. QED
    BY <2>1 DEF AnswersAsAQueue
<1>7. CASE c = d /\ ClientPush(d) /\ ServerThere
  <2>. DEFINE queue == outbox[c]
  <2>1. queue # << >> /\ ClientThere(c)
    BY <1>7 DEF ClientPush, ClientThere
  <2>2. PICK sent \in SendOutcomes(up[c], Head(queue), TRUE) :
                up'[c] = sent.stream /\ outbox'[c] = AfterSend(queue, sent.status)
    BY <1>7 DEF ClientPush, NetworkInv, NetworkTypeOK
  <2>3. Unbroken(up[c], queue)
    BY <1>7, <2>1 DEF NetworkInv, StreamsUnbroken, Closed
  <2>4. From(c) \in Seq(Message) /\ up[c] \in Stream /\ queue \in Seq(Message)
    BY ToServerParts
  <2>5. (From(c) \o sent.stream.whole) \o AfterSend(queue, sent.status)
           = (From(c) \o up[c].whole) \o queue
    BY <2>1, <2>2, <2>3, <2>4, SendMovesOn
  <2>. QED
    BY <1>3, <2>2, <2>5 DEF AnswersAsAQueue, ToServer, Promise!PutOrTake
<1>8. CASE c = d /\ (ClientExits(d) \/ ClientDies(d))
  <2>1. Closed(c)'
    BY <1>8 DEF ClientExits, ClientDies, ClientStops, Go, Closed, ClientThere,
                NetworkInv, NetworkTypeOK
  <2>. QED
    BY <2>1 DEF AnswersAsAQueue
<1>. QED
  BY <1>2, <1>4, <1>5, <1>6, <1>7, <1>8 DEF ClientStep

\* ClosedForGood: a connection that has lost an end does not get it back.
LEMMA ClosedForGood ==
    ASSUME NetworkInv, NetworkNext, NEW c \in Client, Closed(c)
    PROVE  Closed(c)'
<1>. USE DEF serverVars, clientVars
<1>1. CASE ServerStep \/ ServerDies
  <2>1. at' = at
    BY <1>1 DEF ServerStep, ServerDies, ServerAccept, ServerReceive, ServerPublish,
                ServerSendsToAll, ServerSendsToOne, ServerEndsHand, SendMessageToAll,
                ServerHandled, ServerPush, ServerTurns, ServerExits, ServerStops
  <2>2. server_at = "stopped" => server_at' = "stopped"
    BY <1>1 DEF ServerStep, ServerDies, ServerAccept, ServerReceive, ServerPublish,
                ServerSendsToAll, ServerSendsToOne, ServerEndsHand, SendMessageToAll,
                InHandler, ServerHandled, ServerPush, ServerTurns, ServerExits, ServerStops,
                ServerThere
  <2>. QED
    BY <2>1, <2>2 DEF Closed, ServerThere, ClientThere
<1>2. CASE \E d \in Client : ClientConnect(d) \/ ClientStep(d) \/ ClientDies(d)
  <2>1. PICK d \in Client : ClientConnect(d) \/ ClientStep(d) \/ ClientDies(d)
    BY <1>2
  <2>2. server_at' = server_at
    BY <2>1 DEF ClientConnect, ClientStep, ClientDies, ClientPull, ClientPublish,
                ClientPublished, ClientPush, ClientPushed, ClientExits, ClientStops
  <2>3. at[c] = "stopped" => at'[c] = "stopped"
    BY <2>1 DEF ClientConnect, ClientStep, ClientDies, ClientPull, ClientPublish,
                ClientPublished, ClientPush, ClientPushed, ClientExits, ClientStops, Go,
                NetworkInv, NetworkTypeOK
  <2>. QED
    BY <2>2, <2>3 DEF Closed, ServerThere, ClientThere
<1>. QED
  BY <1>1, <1>2 DEF NetworkNext

\* ChannelsAreKept: PacketsInOrder.  The two programs, their queues, buffers
\* and partial and retried sends together are a queue each way for every
\* client, for as long as both processes live.
THEOREM ChannelsAreKept == NetworkSpec => PacketsInOrder
<1>1. NetworkInit => Promise!ChannelsInit
  <2>. SUFFICES ASSUME NetworkInit PROVE Promise!ChannelsInit
    OBVIOUS
  <2>1. ASSUME NEW c \in Client
        PROVE  ToClient(c) = << >> /\ ToServer(c) = << >> /\ ~Closed(c)
    <3>1. /\ inbox[c] = << >> /\ down[c].whole = << >> /\ outgoing_packets[c] = << >>
          /\ incoming_packets = << >> /\ up[c].whole = << >> /\ outbox[c] = << >>
      BY DEF NetworkInit, EmptyStream
    <3>2. << >> \o << >> = << >>
      OBVIOUS
    <3>3. From(c) = << >>
      <4>1. [i \in DOMAIN << >> |-> IF << >>[i][1] = c THEN << << >>[i][2]>> ELSE << >>]
               \in [1..0 -> Seq(Message)]
        OBVIOUS
      <4>. QED
        BY <3>1, <4>1, FlattenNone DEF From
    <3>. QED
      BY <3>1, <3>2, <3>3
      DEF ToClient, ToServer, Closed, ServerThere, ClientThere, NetworkInit
  <2>. QED
    BY <2>1 DEF Promise!ChannelsInit
<1>2. NetworkInv /\ [NetworkNext]_netVars => [Promise!ChannelsNext]_(Promise!channels)
  <2>. SUFFICES ASSUME NetworkInv, [NetworkNext]_netVars
                PROVE  [Promise!ChannelsNext]_(Promise!channels)
    OBVIOUS
  <2>1. CASE UNCHANGED netVars
    BY <2>1 DEF netVars, serverVars, clientVars, Promise!channels, ToClient, ToServer, From,
                Closed, ServerThere, ClientThere
  <2>2. CASE NetworkNext
    <3>1. \A c \in Client : Closed(c) => Closed(c)'
      BY <2>2, ClosedForGood
    <3>2. \A c \in Client : AsAQueue(c) /\ AnswersAsAQueue(c)
      BY <2>2, ServerKeepsQueues, ClientKeepsQueues, ServerKeepsAnswers, ClientKeepsAnswers
      DEF NetworkNext
    <3>. QED
      BY <3>1, <3>2 DEF Promise!ChannelsNext, AsAQueue, AnswersAsAQueue
  <2>. QED
    BY <2>1, <2>2
<1>. QED
  BY <1>1, <1>2, PacketsStayWhole, PTL DEF NetworkSpec, PacketsInOrder, Promise!ChannelsSpec
=============================================================================
