----------------------------- MODULE ClientGame ----------------------------
(***************************************************************************)
(* The table on the server's bus, ServerIoAdapter, and one client's view   *)
(* of the hand.  A client handles its events in the order they are sent    *)
(* and sends nothing but an answer to WaitingForAction, so it is shown     *)
(* here without its lag: at each moment what it will know when it has      *)
(* handled what was sent so far.                                           *)
(***************************************************************************)
EXTENDS GameBus, ClientTable

CONSTANTS
    ClientIds,  \* the connections that the client may be
    SeatGuess   \* what this_player_seat may hold before anything is written to it

ASSUME ClientAssumption == ClientIds \subseteq Seat /\ SeatGuess \subseteq Int

VARIABLES
    client_id,  \* the number of the client's connection, and its seat
    client,     \* its ClientModel
    asked       \* whether the client has an answer on its way

clientVars == <<client_id, client, asked>>
gameVars   == <<busVars, clientVars>>

-----------------------------------------------------------------------------
(* ServerIoAdapter, subscribed before the controller.                      *)

\* Mutation: hole cards are sent to all clients.
ToOneClientButCards == {"PlayerJoinResponse", "WaitingForAction"}

ToOneClient == {"PlayerJoinResponse", "HoleCardsDealt", "WaitingForAction"}

\* Mutation: the board is not sent.
ForwardedButBoard ==
    ToOneClient \cup {"GameStarted", "GameEnded", "BlindPosted",
                      "BettingRoundStarted", "BettingRoundEnded", "PlayerActed"}

\* Every type that the adapter subscribes to but ClientConnected, on which it
\* publishes PlayerJoinRequest, and ClientDisconnected, which it logs.
Forwarded ==
    {"HoleCardsDealt"} \cup ToOneClient \cup
        {"GameStarted", "GameEnded", "BlindPosted", "CommunityCardsDealt",
         "BettingRoundStarted", "BettingRoundEnded", "PlayerActed"}

ServerSubscribers(type) ==
    CASE type \in Requests -> <<"controller">>
      [] type \in Forwarded \cup {"ClientConnected"} -> <<"io">>
      [] OTHER -> << >>

ASSUME ServerSubscribersAssumption ==
    \A type \in Requests \cup Announcements \cup {"ClientConnected"} :
        Subscribers(type) = ServerSubscribers(type)

\* The adapter's handlers number the clients as the seats.
Addressee(e) == IF e.type = "WaitingForAction" THEN e.player ELSE e.player_seat

SentToClient(e) == e.type \in ToOneClient => Addressee(e) = client_id

IoForwards ==
    /\ Delivering("io") /\ Task.event.type # "ClientConnected"
    /\ IF SentToClient(Task.event)
       THEN /\ client' = Handle(client, Task.event)
            /\ asked' = IF Task.event.type = "WaitingForAction"
                        THEN Addressed(client, Task.event) ELSE asked
       ELSE UNCHANGED <<client, asked>>
    /\ Become(<< >>)
    /\ UNCHANGED <<vars, settled, client_id>>

IoJoins ==
    /\ Delivering("io") /\ Task.event.type = "ClientConnected"
    /\ Enter(Publish(Event!PlayerJoinRequest))
    /\ UNCHANGED <<vars, settled, clientVars>>

-----------------------------------------------------------------------------
(* The loop of server_main.cpp publishes what the network brings.          *)

Idle == stack = << >>

\* this_player_seat is read uninitialised: PlayerJoinResponse is not published.
ClientGameInit ==
    /\ Init /\ stack = << >> /\ settled = Now
    /\ client_id \in ClientIds
    /\ \E seat \in SeatGuess : client = NewClient(seat)
    /\ asked = FALSE

AcceptClient ==
    /\ Idle /\ control = "seating" /\ player_count < NumPlayers
    /\ stack' = <<Publish(Event!ClientConnected(player_count))>>
    /\ UNCHANGED <<vars, settled, clientVars>>

\* Nothing in the repository publishes StartGame on a server: it comes from
\* outside, when the table is full.  Stacks are what players are born with.
StartRequest ==
    /\ Idle
    /\ SetChips
    /\ HoldemStepEnds
    /\ stack' = <<Publish(Event!StartGame)>>
    /\ UNCHANGED clientVars

\* The target of a fold is not looked at.
AnswersOfOthers == {event \in PlayerActionEvent : event.is_fold => event.target_bet = 0}

\* An answer of this client if it was asked, or else any answer of another.
ReceiveAction ==
    /\ Idle /\ control = "awaiting"
    /\ \E event \in IF asked THEN {ClientAnswer(client)} ELSE AnswersOfOthers :
          stack' = <<Publish(Event!PlayerAction(event.target_bet, event.is_fold))>>
    /\ asked' = FALSE
    /\ UNCHANGED <<vars, settled, client_id, client>>

\* The server leaves its loop on GameEnded, or its process is dead.
ServerOver ==
    /\ (Idle /\ control = "ended") \/ control = "trapped"
    /\ UNCHANGED gameVars

ClientGameNext ==
    \/ BusStep /\ UNCHANGED clientVars
    \/ IoForwards \/ IoJoins
    \/ AcceptClient \/ StartRequest \/ ReceiveAction
    \/ ServerOver

ClientGameSpec == ClientGameInit /\ [][ClientGameNext]_gameVars

-----------------------------------------------------------------------------
\* The client has its vectors, and has been sent everything that was published.
UpToDate == Idle /\ control \in {"awaiting", "ended"} /\ ~client.crashed

\* ClientBoardAgrees: whenever the server waits, or the hand is over, the
\* board that the client shows is the board that hands are played on.
ClientBoardAgrees == UpToDate => client.community = community

\* ClientKnowsWhoIsOut: the client, which is never told a player's state, marks
\* as folded and as all in exactly the seats that are.
ClientKnowsWhoIsOut ==
    UpToDate =>
        \A s \in Seat :
            /\ client.states[s] = "FOLDED" <=> table.state[s] = "FOLDED"
            /\ client.states[s] = "ALL_IN" <=> table.state[s] = "ALL_IN"

\* ClientBetsAgree: the bet shown for a seat still in the hand is its bet, from
\* the flop on once it has acted on the street: the bets of the street before
\* are never cleared, for nothing publishes BettingRoundEnded.
ClientBetsAgree ==
    UpToDate =>
        \A s \in AliveSeats(table) :
            stage = "PREFLOP" \/ table.is_acted[s] => client.bets[s] = table.bet[s]

\* ClientPotBeforeFlop: before the flop the pot shown is short of the pot by
\* what the seats that folded had bet, and by nothing else: a fold is
\* published with a bet of zero, and the client takes the difference back.
ClientPotBeforeFlop ==
    UpToDate /\ stage = "PREFLOP" =>
        client.pot = table.pot - SumFunctionOnSet(table.committed, Seat \ AliveSeats(table))

\* ClientMoneyIsBets: a client's pot holds its bets and every stack lacks its
\* own, through all streets, folds and lost deltas: what the client shows is
\* always some table's money, if no longer this one's.
ClientMoneyIsBets ==
    /\ client.pot = SumFunction(client.bets)
    /\ \A s \in DOMAIN client.bets : client.chips[s] + client.bets[s] = DefaultChips

\* HoleCardsAreOwn: whatever seat a client takes for its own, it shows no cards
\* but those dealt to its connection.
HoleCardsAreOwn == client.hole_cards \subseteq {client_id}

\* ClientSurvives: "核心逻辑 + 网络联机已跑通，可进行单局对战", play over the network
\* works, a single hand can be played: no event of a hand kills a client.
ClientSurvives == ~client.crashed
=============================================================================
