------------------------------- MODULE Network -----------------------------
(***************************************************************************)
(* ServerNetwork, ClientNetwork and the loops that drive them: one thread  *)
(* for the server and one for each client, a TCP stream each way between   *)
(* them, and processes that may be killed.  What the handlers do with an   *)
(* event is left open: they send anything.  Sockets are SFML's.            *)
(***************************************************************************)
EXTENDS Naturals, SequencesExt

CONSTANTS
    NumClients,     \* client processes
    ServerMessage,  \* what the server sends before the hand's end
    ClientMessage,  \* answers
    Garbled,        \* what a packet is read as when two were run together
    NoPart,
    SocketBuffer,   \* whole packets that a stream holds before it is full
    QueueBound,     \* bound: packets that the server's handlers leave in one queue
    AnswerBound     \* bound: answers in a client's queue

Client == 1..NumClients   \* numbered in the order they connect, as in clients

GameEnded == "GameEnded"
Message == ServerMessage \cup ClientMessage \cup {GameEnded}

ASSUME NetworkAssumption ==
    /\ NumClients \in Nat
    /\ SocketBuffer \in Nat \ {0} /\ QueueBound \in Nat /\ AnswerBound \in Nat
    /\ Garbled \notin Message /\ NoPart \notin Message

VARIABLES
    \* The server.
    server_at,         \* where its loop is
    client_id,         \* the client that a loop over the clients has come to
    running,
    accepted,          \* how many clients it has accepted
    incoming_packets,  \* with the client each came from, which no packet tells
    outgoing_packets,  \* a queue for each client
    \* The clients.
    at, client_running, inbox, outbox,
    \* The sockets.
    down, up,          \* the stream to and the stream from each client
    \* History.
    noticed            \* the clients for which ClientDisconnected was published

serverVars == <<server_at, client_id, running, accepted, incoming_packets, outgoing_packets>>
clientVars == <<at, client_running, inbox, outbox>>
netVars    == <<serverVars, clientVars, down, up, noticed>>

-----------------------------------------------------------------------------
(* A stream holds whole packets and the part that has been sent of one.    *)

EmptyStream == [whole |-> << >>, part |-> NoPart]

\* The rest of a packet goes behind the part sent, whichever packet that is of.
Completed(s, m) ==
    [whole |-> Append(s.whole, IF s.part \in {NoPart, m} THEN m ELSE Garbled),
     part  |-> NoPart]

Sent(status, s) == [status |-> status, stream |-> s]

\* send on a socket that does not block.  The kernel may still take a packet
\* for a peer that is no longer there.
SendOutcomes(s, m, peer_there) ==
    IF ~peer_there THEN {Sent("Disconnected", s), Sent("Done", s)}
    ELSE IF Len(s.whole) >= SocketBuffer THEN {Sent("NotReady", s)}
    ELSE {Sent("Done", Completed(s, m))}
            \cup IF s.part = NoPart THEN {Sent("Partial", [s EXCEPT !.part = m])} ELSE {}

\* Mutation: the packet is dropped although only a part of it was sent.
PopsOnPartial(status) == status \in {"Done", "Partial"}

Pops(status) == status = "Done"

AfterSend(queue, status) == IF Pops(status) THEN Tail(queue) ELSE queue

ServerThere    == server_at # "stopped"
ClientThere(c) == at[c] # "stopped"

-----------------------------------------------------------------------------
(* The server: pull, publish, push.                                        *)

Turn(place) == server_at' = place /\ client_id' = 1

\* pull: at most one connection a turn.
ServerAccept ==
    /\ server_at = "accept" /\ running
    /\ IF accepted < NumClients /\ at[accepted + 1] # "off"
       THEN accepted' = accepted + 1 /\ Turn("connected")
       ELSE Turn("receive") /\ UNCHANGED accepted
    /\ UNCHANGED <<running, incoming_packets, outgoing_packets, clientVars, down, up, noticed>>

\* Mutation: the loop over the clients ends at the first with nothing to read.
NextToReceiveIfAny(i) == IF up[i].whole = << >> THEN accepted + 1 ELSE i + 1

NextToReceive(i) == i + 1

\* Mutation: a lost connection is nothing to read, as it is to a client.
NothingRead(c) == noticed

Disconnected(c) == IF ClientThere(c) THEN noticed ELSE noticed \cup {c}

\* pull: at most one packet a turn from each client.
ServerReceive ==
    /\ server_at = "receive"
    /\ IF client_id > accepted
       THEN Turn("publish") /\ UNCHANGED <<incoming_packets, up, noticed>>
       ELSE /\ LET c == client_id
               IN  IF up[c].whole # << >>
                   THEN /\ incoming_packets' =
                               Append(incoming_packets, <<c, Head(up[c].whole)>>)
                        /\ up' = [up EXCEPT ![c].whole = Tail(@)]
                        /\ UNCHANGED noticed
                   ELSE /\ noticed' = Disconnected(c)
                        /\ UNCHANGED <<incoming_packets, up>>
            /\ client_id' = NextToReceive(client_id)
            /\ UNCHANGED server_at
    /\ UNCHANGED <<running, accepted, outgoing_packets, clientVars, down>>

\* The events of the turn are published in order.
ServerPublish ==
    /\ server_at = "publish"
    /\ IF incoming_packets = << >>
       THEN Turn("push") /\ UNCHANGED incoming_packets
       ELSE incoming_packets' = Tail(incoming_packets) /\ Turn("handling")
    /\ UNCHANGED <<running, accepted, outgoing_packets, clientVars, down, up, noticed>>

InHandler == server_at \in {"connected", "handling"}
Accepted == 1..accepted
HasRoom(c) == Len(outgoing_packets[c]) < QueueBound

SendMessageToAll(m) ==
    /\ InHandler
    /\ \A c \in Accepted : HasRoom(c)
    /\ outgoing_packets' =
          [c \in Client |-> IF c \in Accepted THEN Append(outgoing_packets[c], m)
                                        ELSE outgoing_packets[c]]
    /\ UNCHANGED <<server_at, client_id, accepted, incoming_packets, clientVars,
                   down, up, noticed>>

ServerSendsToAll ==
    /\ running
    /\ \E m \in ServerMessage : SendMessageToAll(m)
    /\ UNCHANGED running

ServerEndsHand == running /\ SendMessageToAll(GameEnded) /\ running' = FALSE

ServerSendsToOne ==
    /\ InHandler /\ running
    /\ \E c \in Accepted, m \in ServerMessage :
          /\ HasRoom(c)
          /\ outgoing_packets' = [outgoing_packets EXCEPT ![c] = Append(@, m)]
    /\ UNCHANGED <<server_at, client_id, running, accepted, incoming_packets, clientVars,
                   down, up, noticed>>

ServerHandled ==
    /\ InHandler
    /\ IF server_at = "connected" THEN Turn("receive") ELSE Turn("publish")
    /\ UNCHANGED <<running, accepted, incoming_packets, outgoing_packets, clientVars,
                   down, up, noticed>>

\* Mutation: a client that takes no more ends the loop over the clients.
NoneAfterBreak(i) == accepted + 1

AfterBreak(i) == i + 1

\* push: to each client until its queue is empty or its socket takes no more.
ServerPush ==
    /\ server_at = "push" /\ client_id <= accepted
    /\ LET c == client_id
           queue == outgoing_packets[c]
       IN  IF queue = << >>
           THEN client_id' = client_id + 1 /\ UNCHANGED <<outgoing_packets, down, noticed>>
           ELSE \E sent \in SendOutcomes(down[c], Head(queue), ClientThere(c)) :
                   /\ down' = [down EXCEPT ![c] = sent.stream]
                   /\ outgoing_packets' =
                         [outgoing_packets EXCEPT ![c] = AfterSend(queue, sent.status)]
                   /\ client_id' = IF sent.status = "Done" THEN client_id
                                   ELSE AfterBreak(client_id)
                   /\ noticed' = IF sent.status = "Disconnected" THEN noticed \cup {c}
                                 ELSE noticed
    /\ UNCHANGED <<server_at, running, accepted, incoming_packets, clientVars, up>>

ServerTurns ==
    /\ server_at = "push" /\ client_id > accepted
    /\ Turn("accept")
    /\ UNCHANGED <<running, accepted, incoming_packets, outgoing_packets, clientVars,
                   down, up, noticed>>

\* A process that ends takes its queues with it.
ServerStops ==
    /\ Turn("stopped")
    /\ incoming_packets' = << >> /\ outgoing_packets' = [c \in Client |-> << >>]
    /\ UNCHANGED <<running, accepted, clientVars, down, up, noticed>>

\* The loop is left, at its head, on GameEnded: after one last push.
ServerExits == server_at = "accept" /\ ~running /\ ServerStops

ServerStep ==
    \/ ServerAccept \/ ServerReceive \/ ServerPublish
    \/ ServerSendsToAll \/ ServerSendsToOne \/ ServerEndsHand \/ ServerHandled
    \/ ServerPush \/ ServerTurns \/ ServerExits

-----------------------------------------------------------------------------
(* A client: pull, publish, push.                                          *)

Go(c, place) == at' = [at EXCEPT ![c] = place]

\* connect is answered by the listener, before the server accepts.
ClientConnect(c) ==
    /\ at[c] = "off" /\ ServerThere
    /\ \A d \in Client : d < c => at[d] # "off"
    /\ Go(c, "pull")
    /\ UNCHANGED <<serverVars, client_running, inbox, outbox, down, up, noticed>>

\* pull: all that has come; a lost connection is nothing to read.
ClientPull(c) ==
    /\ at[c] = "pull" /\ client_running[c]
    /\ inbox' = [inbox EXCEPT ![c] = @ \o down[c].whole]
    /\ down' = [down EXCEPT ![c].whole = << >>]
    /\ Go(c, "publish")
    /\ UNCHANGED <<serverVars, client_running, outbox, up, noticed>>

\* An event may be answered, but GameEnded is not: it ends the loop,
\* when the turn is over.
ClientPublish(c) ==
    /\ at[c] = "publish" /\ inbox[c] # << >>
    /\ inbox' = [inbox EXCEPT ![c] = Tail(@)]
    /\ client_running' = [client_running EXCEPT ![c] = @ /\ Head(inbox[c]) # GameEnded]
    /\ \/ UNCHANGED outbox
       \/ \E m \in ClientMessage :
             /\ Head(inbox[c]) # GameEnded /\ Len(outbox[c]) < AnswerBound
             /\ outbox' = [outbox EXCEPT ![c] = Append(@, m)]
    /\ UNCHANGED <<serverVars, at, down, up, noticed>>

ClientPublished(c) ==
    /\ at[c] = "publish" /\ inbox[c] = << >>
    /\ Go(c, "push")
    /\ UNCHANGED <<serverVars, client_running, inbox, outbox, down, up, noticed>>

\* push: a server that is found to be gone ends the loop.
ClientPush(c) ==
    /\ at[c] = "push" /\ outbox[c] # << >>
    /\ \E sent \in SendOutcomes(up[c], Head(outbox[c]), ServerThere) :
          /\ up' = [up EXCEPT ![c] = sent.stream]
          /\ outbox' = [outbox EXCEPT ![c] = AfterSend(@, sent.status)]
          /\ client_running' =
                [client_running EXCEPT ![c] = @ /\ sent.status # "Disconnected"]
          /\ IF sent.status = "Done" THEN UNCHANGED at ELSE Go(c, "pull")
    /\ UNCHANGED <<serverVars, inbox, down, noticed>>

ClientPushed(c) ==
    /\ at[c] = "push" /\ outbox[c] = << >>
    /\ Go(c, "pull")
    /\ UNCHANGED <<serverVars, client_running, inbox, outbox, down, up, noticed>>

\* What was on its way to a client is lost, and what was on its way from it is
\* read before the end of the stream or lost too.
ClientStops(c) ==
    /\ Go(c, "stopped")
    /\ inbox' = [inbox EXCEPT ![c] = << >>] /\ outbox' = [outbox EXCEPT ![c] = << >>]
    /\ down' = [down EXCEPT ![c] = EmptyStream]
    /\ up' \in {up, [up EXCEPT ![c] = EmptyStream]}
    /\ UNCHANGED <<serverVars, client_running, noticed>>

\* The loop is left, at its head, on GameEnded or ServerDisconnected.
ClientExits(c) == at[c] = "pull" /\ ~client_running[c] /\ ClientStops(c)

ClientStep(c) ==
    \/ ClientPull(c) \/ ClientPublish(c) \/ ClientPublished(c)
    \/ ClientPush(c) \/ ClientPushed(c) \/ ClientExits(c)

-----------------------------------------------------------------------------
(* A process may be killed at any moment.                                  *)

ClientDies(c) == at[c] \notin {"off", "stopped"} /\ ClientStops(c)

ServerDies == ServerThere /\ ServerStops

-----------------------------------------------------------------------------
NetworkInit ==
    /\ server_at = "accept" /\ client_id = 1 /\ running = TRUE
    /\ accepted = 0 /\ incoming_packets = << >>
    /\ outgoing_packets = [c \in Client |-> << >>]
    /\ at = [c \in Client |-> "off"] /\ client_running = [c \in Client |-> TRUE]
    /\ inbox = [c \in Client |-> << >>] /\ outbox = [c \in Client |-> << >>]
    /\ down = [c \in Client |-> EmptyStream] /\ up = [c \in Client |-> EmptyStream]
    /\ noticed = {}

NetworkNext ==
    \/ ServerStep \/ ServerDies
    \/ \E c \in Client : ClientConnect(c) \/ ClientStep(c) \/ ClientDies(c)

NetworkSpec == NetworkInit /\ [][NetworkNext]_netVars

\* The two programs loop on threads of their own.
FairNetworkSpec ==
    /\ NetworkSpec
    /\ WF_netVars(ServerStep)
    /\ \A c \in Client : WF_netVars(ClientStep(c))

-----------------------------------------------------------------------------
ToClient(c) == inbox[c] \o down[c].whole \o outgoing_packets[c]
From(c) ==
    FlattenSeq([i \in DOMAIN incoming_packets |->
                   IF incoming_packets[i][1] = c THEN <<incoming_packets[i][2]>> ELSE << >>])
ToServer(c) == From(c) \o up[c].whole \o outbox[c]
ServerTakes(c) == ServerPublish /\ incoming_packets # << >> /\ Head(incoming_packets)[1] = c
Closed(c) == ~ServerThere \/ ~ClientThere(c)

Promise == INSTANCE Channels WITH
               to_client <- [c \in Client |-> ToClient(c)],
               to_server <- [c \in Client |-> ToServer(c)],
               closed    <- {c \in Client : Closed(c)}

\* PacketsInOrder: through the queues, partial sends, retries and buffers of
\* both programs every packet comes once, whole and in order, for as long as
\* both processes live.
PacketsInOrder == Promise!ChannelsSpec

\* StreamsUnbroken: the part of a packet that lies in a stream is always the
\* beginning of the packet at the head of the queue behind it: the send that
\* follows completes it, and no two packets are ever run together.
Unbroken(s, queue) == s.part # NoPart => queue # << >> /\ s.part = Head(queue)

StreamsUnbroken ==
    \A c \in Client :
        ~Closed(c) => Unbroken(down[c], outgoing_packets[c]) /\ Unbroken(up[c], outbox[c])

\* ClientsServed: what the server has queued for a client is handled by it,
\* whatever the other clients do: one that has died, and stays among the
\* clients, or one that reads nothing, holds up none of the others.
ClientsServed ==
    \A c \in Client :
        \/ []<>(Closed(c) \/ ToClient(c) = << >>)
        \/ []<><<ClientPublish(c)>>_netVars

\* ClientsHeard: what a client has queued is published by the server, one
\* packet a turn, whether or not the other clients have anything to say.
ClientsHeard ==
    \A c \in Client :
        \/ []<>(Closed(c) \/ ToServer(c) = << >>)
        \/ []<><<ServerTakes(c)>>_netVars

\* LossNoticed: the server publishes ClientDisconnected for every client that
\* it accepted and that is gone, whether it left, was killed or never spoke.
LossNoticed ==
    \A c \in Client :
        (c \in Accepted /\ ~ClientThere(c)) ~> (c \in noticed \/ ~ServerThere)
=============================================================================
