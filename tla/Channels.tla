------------------------------ MODULE Channels -----------------------------
(***************************************************************************)
(* What a connection promises: a queue each way, on which a message is     *)
(* put at the end or taken from the front and nothing else happens, for as *)
(* long as both ends are there.                                            *)
(***************************************************************************)
EXTENDS Sequences

CONSTANTS Client, Message

VARIABLES
    to_client,   \* to_client[c]: queued by the server and not yet handled by c
    to_server,   \* to_server[c]: queued by c and not yet handled by the server
    closed       \* the clients whose connection has lost an end

channels == <<to_client, to_server, closed>>

ChannelsInit ==
    /\ to_client = [c \in Client |-> << >>]
    /\ to_server = [c \in Client |-> << >>]
    /\ closed = {}

PutOrTake(q, r) ==
    \/ r = q
    \/ \E m \in Message : r = Append(q, m)
    \/ q # << >> /\ r = Tail(q)

ChannelsNext ==
    /\ closed \subseteq closed'
    /\ \A c \in Client \ closed' :
          /\ PutOrTake(to_client[c], to_client'[c])
          /\ PutOrTake(to_server[c], to_server'[c])

ChannelsSpec == ChannelsInit /\ [][ChannelsNext]_channels
=============================================================================
