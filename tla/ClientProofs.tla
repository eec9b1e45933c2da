----------------------------- MODULE ClientProofs ----------------------------
(***************************************************************************)
(* What a client shows of the hand, for any table, stakes, buy-ins and     *)
(* answers, whichever of the seats the client has and whichever it takes   *)
(* for its own.                                                            *)
(***************************************************************************)
EXTENDS ClientGame, BusProofs

-----------------------------------------------------------------------------
(* The cards that a client has been shown.                                 *)

\* A client has the members of ClientModel.
IsClient(c) ==
    c = [this_player_seat |-> c.this_player_seat, btn_seat |-> c.btn_seat,
         big_blind |-> c.big_blind, community |-> c.community, pot |-> c.pot,
         chips |-> c.chips, states |-> c.states, bets |-> c.bets,
         hole_cards |-> c.hole_cards, crashed |-> c.crashed]

\* NewClients: so has one that has been told nothing.
LEMMA NewClients ==
    ASSUME NEW seat
    PROVE  IsClient(NewClient(seat)) /\ NewClient(seat).hole_cards = {}
<1>1. PICK x, y, z : x = Sized(0, DefaultChips) /\ y = Sized(0, "IDLE") /\ z = Sized(0, 0)
  OBVIOUS
<1>2. NewClient(seat) =
        [this_player_seat |-> seat, btn_seat |-> 0, big_blind |-> 0, community |-> 0,
         pot |-> 0, chips |-> x, states |-> y, bets |-> z, hole_cards |-> {}, crashed |-> FALSE]
  BY <1>1 DEF NewClient
<1>. QED
  BY <1>2 DEF IsClient

\* Handled: no handler but that of HoleCardsDealt shows cards.
LEMMA Handled ==
    ASSUME NEW c, IsClient(c), NEW e
    PROVE  /\ IsClient(Handle(c, e))
           /\ Handle(c, e).hole_cards \subseteq
                 c.hole_cards \cup (IF e.type = "HoleCardsDealt" THEN {e.player_seat} ELSE {})
<1>1. /\ IsClient(Crash(c)) /\ Crash(c).hole_cards = {}
  <2>1. PICK n : n = NewClient(-1)
    OBVIOUS
  <2>2. IsClient(n) /\ n.hole_cards = {} /\ Crash(c) = [n EXCEPT !.crashed = TRUE]
    BY <2>1, NewClients DEF Crash
  <2>. QED
    BY <2>2 DEF IsClient
<1>2. IsClient(HandlePlayerJoinResponse(c, e)) /\ HandlePlayerJoinResponse(c, e).hole_cards = c.hole_cards
  BY DEF HandlePlayerJoinResponse, IsClient
<1>3. IsClient(HandleGameStarted(c, e)) /\ HandleGameStarted(c, e).hole_cards = c.hole_cards
  <2>1. PICK x, y, z : /\ x = Sized(e.player_count, DefaultChips)
                       /\ y = Sized(e.player_count, "IDLE") /\ z = Sized(e.player_count, 0)
    OBVIOUS
  <2>2. HandleGameStarted(c, e) =
           [c EXCEPT !.btn_seat = e.btn_seat, !.big_blind = e.big_blind,
                     !.chips = x, !.states = y, !.bets = z]
    BY <2>1 DEF HandleGameStarted
  <2>. QED
    BY <2>2 DEF IsClient
<1>4. /\ IsClient(HandleHoleCardsDealt(c, e))
      /\ HandleHoleCardsDealt(c, e).hole_cards \subseteq c.hole_cards \cup {e.player_seat}
  BY <1>1 DEF HandleHoleCardsDealt, IsClient
<1>5. IsClient(HandleBlindPosted(c, e)) /\ HandleBlindPosted(c, e).hole_cards \subseteq c.hole_cards
  BY <1>1 DEF HandleBlindPosted, IsClient
<1>6. IsClient(HandleCommunityCardsDealt(c, e)) /\ HandleCommunityCardsDealt(c, e).hole_cards = c.hole_cards
  BY DEF HandleCommunityCardsDealt, IsClient
<1>7. IsClient(HandleBettingRoundEnded(c)) /\ HandleBettingRoundEnded(c).hole_cards = c.hole_cards
  <2>1. PICK x, y : /\ x = [s \in DOMAIN c.bets |-> 0]
                    /\ y = [s \in DOMAIN c.states |-> "IDLE"]
    OBVIOUS
  <2>2. HandleBettingRoundEnded(c) = [c EXCEPT !.bets = x, !.states = y]
    BY <2>1 DEF HandleBettingRoundEnded
  <2>. QED
    BY <2>2 DEF IsClient
<1>8. IsClient(HandlePlayerActed(c, e)) /\ HandlePlayerActed(c, e).hole_cards \subseteq c.hole_cards
  BY <1>1 DEF HandlePlayerActed, IsClient
<1>. QED
  BY <1>2, <1>3, <1>4, <1>5, <1>6, <1>7, <1>8 DEF Handle

OwnCards == IsClient(client) /\ HoleCardsAreOwn

\* ClientsChange: nothing but ServerIoAdapter changes what the client knows, and
\* it sends hole cards to the client they were dealt to.
LEMMA ClientsChange ==
    ASSUME [ClientGameNext]_gameVars
    PROVE  /\ client_id' = client_id
           /\ \/ client' = client
              \/ \E e : SentToClient(e) /\ client' = Handle(client, e)
<1>1. CASE IoForwards
  BY <1>1 DEF IoForwards
<1>2. CASE \/ BusStep /\ UNCHANGED clientVars
           \/ IoJoins \/ AcceptClient \/ StartRequest \/ ReceiveAction \/ ServerOver
           \/ UNCHANGED gameVars
  BY <1>2 DEF IoJoins, AcceptClient, StartRequest, ReceiveAction, ServerOver, clientVars, gameVars
<1>. QED
  BY <1>1, <1>2 DEF ClientGameNext

\* CardsAreOwn: for any table, whatever seat the client takes for its own, it
\* shows no cards but those dealt to its connection.
THEOREM CardsAreOwn == ClientGameSpec => []HoleCardsAreOwn
<1>1. ClientGameInit => OwnCards
  BY NewClients DEF ClientGameInit, OwnCards, HoleCardsAreOwn
<1>2. OwnCards /\ [ClientGameNext]_gameVars => OwnCards'
  <2>1. SUFFICES ASSUME OwnCards, [ClientGameNext]_gameVars PROVE OwnCards'
    OBVIOUS
  <2>2. client_id' = client_id
    BY <2>1, ClientsChange
  <2>3. CASE client' = client
    BY <2>1, <2>2, <2>3 DEF OwnCards, HoleCardsAreOwn
  <2>4. ASSUME NEW e, SentToClient(e), client' = Handle(client, e)
        PROVE  OwnCards'
    <3>1. e.type = "HoleCardsDealt" => e.player_seat = client_id
      BY <2>4 DEF SentToClient, ToOneClient, Addressee
    <3>2. IsClient(client') /\ client'.hole_cards \subseteq {client_id}
      BY <2>1, <2>4, <3>1, Handled DEF OwnCards, HoleCardsAreOwn
    <3>. QED
      BY <2>2, <3>2 DEF OwnCards, HoleCardsAreOwn
  <2>. QED
    BY <2>1, <2>3, <2>4, ClientsChange
<1>. QED
  BY <1>1, <1>2, PTL DEF ClientGameSpec, OwnCards

-----------------------------------------------------------------------------
(* The server's program: whatever the network brings, what GameController  *)
(* and GameModel do is a hand of module Holdem.                            *)

\* IoAlone: nobody but ServerIoAdapter watches what is published.
LEMMA IoAlone ==
    ASSUME NEW e, e.type \in Announcements \cup {"ClientConnected"}
    PROVE  /\ Publish(e) = << >> \/ Publish(e) = <<Deliver("io", e)>>
           /\ e.type \in Forwarded \cup {"ClientConnected"} => Publish(e) = <<Deliver("io", e)>>
<1>1. Subscribers(e.type) = ServerSubscribers(e.type)
  BY ServerSubscribersAssumption
<1>2. e.type \notin Requests
  BY DEF Requests, Announcements
<1>3. CASE Subscribers(e.type) = <<"io">>
  BY <1>3 DEF Publish
<1>4. CASE e.type \notin Forwarded \cup {"ClientConnected"} /\ Subscribers(e.type) = << >>
  <2>1. DOMAIN << >> = {}
    OBVIOUS
  <2>. QED
    BY <1>4, <2>1 DEF Publish
<1>5. \/ Subscribers(e.type) = <<"io">>
      \/ e.type \notin Forwarded \cup {"ClientConnected"} /\ Subscribers(e.type) = << >>
  BY <1>1, <1>2 DEF ServerSubscribers
<1>. QED
  BY <1>3, <1>4, <1>5

\* What may come over the network for an answer.
AnyAnswer == [target_bet : Int, is_fold : BOOLEAN]

HoleCards == {Deliver("io", Event!HoleCardsDealt(s)) : s \in Seat}

\* The frame on top is left of a handler, or is for ServerIoAdapter: an event
\* of GameModel, what is left of dealHoleCards, or a client that connects.
Sent ==
    \/ Quiet(stack)
    \/ \E e : /\ e.type \in Announcements /\ Top = <<Deliver("io", e)>>
              /\ e.type = "GameStarted" => e.big_blind \in Int
    \/ Top \in Seq(HoleCards) /\ Top # << >>
    \/ \E id : /\ Top = <<Deliver("io", Event!ClientConnected(id))>>
               /\ Steady /\ Finished(Tail(stack))

ServerInv ==
    /\ \E A : A \subseteq AnyAnswer /\ BusInv(A)
    /\ control = "trapped" \/ Sent
    /\ IsClient(client) /\ client.big_blind \in Int

\* SaidBy: what the client's table is changed by is said by one call each.
LEMMA SaidBy ==
    ASSUME NEW e, Said(e)
    PROVE  /\ e.type = "GameStarted" =>
                 /\ StartGameCall
                 /\ \E count \in StartedCounts : e = StartedEvent(count)
           /\ e.type = "BlindPosted" => PostSmallBlind \/ PostBigBlind
           /\ e.type = "CommunityCardsDealt" => DealCommunityCardsCall
           /\ e.type = "PlayerActed" => HandlePlayerActionCall
<1>1. ASSUME ActedEvent(table.acting_player, Task.arg) = <<e>>
      PROVE  e.type = "PlayerActed"
  <2>1. PICK events : events = ActedEvent(table.acting_player, Task.arg)
    OBVIOUS
  <2>2. events = << >> \/ \E seat, bet, action : events = <<Event!PlayerActed(seat, bet, action)>>
    BY <2>1 DEF ActedEvent
  <2>3. \A seat, bet, action : Event!PlayerActed(seat, bet, action).type = "PlayerActed"
    BY DEF Event!PlayerActed
  <2>. QED
    BY <1>1, <2>1, <2>2, <2>3
<1>. QED
  BY <1>1
  DEF Said, StartedEvent, Event!GameStarted, Event!WaitingForAction, Event!BlindPosted,
      Event!CommunityCardsDealt, Event!PotSplited

\* CardsSent: dealHoleCards tells ServerIoAdapter of cards and of nothing else.
LEMMA CardsSent ==
    ASSUME DealHoleCardsCall
    PROVE  \E tasks \in Seq(HoleCards) : Enter(tasks)
<1>. DEFINE told(i) == IF i - 1 \in ActiveSeats(table) THEN Publish(Event!HoleCardsDealt(i - 1))
                       ELSE << >>
            ss == [i \in 1..NumPlayers |-> told(i)]
<1>1. Enter(FlattenSeq(ss))
  BY DEF DealHoleCardsCall
<1>2. ASSUME NEW i \in 1..NumPlayers
      PROVE  told(i) \in Seq(HoleCards)
  <2>1. ASSUME i - 1 \in Seat
        PROVE  Publish(Event!HoleCardsDealt(i - 1)) \in Seq(HoleCards)
    <3>1. Event!HoleCardsDealt(i - 1).type = "HoleCardsDealt"
      BY DEF Event!HoleCardsDealt
    <3>2. \/ Publish(Event!HoleCardsDealt(i - 1)) = << >>
          \/ Publish(Event!HoleCardsDealt(i - 1)) = <<Deliver("io", Event!HoleCardsDealt(i - 1))>>
      BY <3>1, IoAlone DEF Announcements
    <3>3. Deliver("io", Event!HoleCardsDealt(i - 1)) \in HoleCards
      BY <2>1 DEF HoleCards
    <3>4. \A x \in HoleCards : <<x>> \in Seq(HoleCards)
      OBVIOUS
    <3>5. << >> \in Seq(HoleCards)
      BY EmptySeq
    <3>. QED
      BY <3>2, <3>3, <3>4, <3>5
  <2>2. << >> \in Seq(HoleCards)
    BY EmptySeq
  <2>. QED
    BY <2>1, <2>2 DEF ActiveSeats
<1>. HIDE DEF told
<1>3. NumPlayers \in Nat /\ ss \in [1..NumPlayers -> Seq(HoleCards)]
  BY <1>2, NumPlayersAssumption
<1>. HIDE DEF ss
<1>. QED
  BY <1>1, <1>3, FlattenKeeps

\* BusSent: a step of the bus leaves one of those on top.
LEMMA BusSent ==
    ASSUME NEW A, BusInv(A), BusStep
    PROVE  Sent'
<1>1. CASE DealHoleCardsCall
  <2>1. PICK tasks \in Seq(HoleCards) : Enter(tasks)
    BY <1>1, CardsSent
  <2>2. Top # << >>
    BY <1>1 DEF DealHoleCardsCall, Calling, Busy
  <2>3. Placed(Top) /\ Ordered(Top)
    BY <2>2, BusPlaced
  <2>4. stack' # << >> /\ Head(stack') = IF tasks = << >> THEN Tail(Top) ELSE tasks
    BY <2>1, <2>3, EnteredHead
  <2>. QED
    BY <2>1, <2>3, <2>4 DEF Ordered, Sent, Quiet, Watched, Top
<1>2. ASSUME NEW e, Tells(e)
      PROVE  Sent'
  <2>1. e.type \in Announcements /\ Said(e) /\ Publish(e) # << >> /\ Head(stack') = Publish(e)
    BY <1>2 DEF Tells
  <2>2. Publish(e) = <<Deliver("io", e)>>
    BY <2>1, IoAlone
  <2>3. e.type = "GameStarted" => e.big_blind \in Int
    BY <2>1, SaidBy, BigBlindAssumption DEF StartedEvent, Event!GameStarted
  <2>. QED
    BY <2>1, <2>2, <2>3 DEF Sent, Top
<1>3. Heard
  BY BusHeard
<1>. QED
  BY <1>1, <1>2, <1>3 DEF Heard, Sent

\* IdleResting: between two events of the network nothing is left to do.
LEMMA IdleResting ==
    ASSUME NEW A, BusInv(A), Idle, control # "trapped"
    PROVE  Steady
<1>1. PICK todo : Laid(stack, todo) /\ Reached(A, todo)
  BY DEF BusInv
<1>2. todo = << >>
  <2>1. Len(stack) = 0
    BY DEF Idle
  <2>2. \A k \in 1..Len(stack) : FALSE
    BY <2>1
  <2>. QED
    BY <1>1, <2>2 DEF Laid, Holds, Idle
<1>3. /\ \A k \in 1..8 : From(StartCalls, k) # << >>
      /\ \A k \in 1..2 : From(TurnCalls, k) # << >>
      /\ \A st : \A k \in 1..4 : From(StreetCalls(st), k) # << >>
      /\ \A k \in 1..7 : From(ShowdownCalls, k) # << >>
  BY StartList, TurnList, StreetList, ShowdownList DEF IsList
<1>4. \A k \in 1..5 : From(ShowdownCalls, k) # << >>
  <2>1. \A k \in 1..5 : k \in 1..7
    OBVIOUS
  <2>. QED
    BY <1>3, <2>1
<1>5. /\ \A k \in 1..8 : ~Opening(<< >>, k)
      /\ \A e : \A k \in 1..2 : ~Continuing(<< >>, e, k)
      /\ \A e : \A k \in 1..4 : ~StreetOpening(<< >>, e, k)
      /\ \A e : \A k \in 1..5 : ~ShowingDown(<< >>, e, k)
  BY <1>3, <1>4 DEF Opening, Continuing, StreetOpening, ShowingDown
<1>6. \A x, y : <<x>> # << >> /\ <<x, y>> # << >>
  OBVIOUS
<1>7. /\ ~Joining(<< >>) /\ ~Starting(<< >>) /\ ~Settling(<< >>)
      /\ \A e : ~Handling(<< >>, e) /\ ~Branching(<< >>, e)
  BY <1>6 DEF Joining, Starting, Settling, Handling, Branching
<1>8. \A e : ~ToShowdown(<< >>, e) /\ ~RunningOut(<< >>, e)
  <2>1. ShowdownCalls \in Seq({ShowdownCalls[i] : i \in 1..7})
    BY DEF ShowdownCalls
  <2>2. \A T : \A cs \in Seq(T) : \A x, y : <<x>> \o cs # << >> /\ <<x, y>> \o cs # << >>
    OBVIOUS
  <2>. QED
    BY <2>1, <2>2 DEF ToShowdown, RunningOut
<1>. QED
  BY <1>1, <1>2, <1>5, <1>7, <1>8 DEF Reached, Resting

\* OneTask: the event loop publishes what one handler is to do.
LEMMA OneTask ==
    ASSUME NEW task, NEW s, s = <<<<task>>>>
    PROVE  /\ IsStack(s) /\ s # << >> /\ Head(s) = <<task>> /\ Finished(Tail(s))
           /\ Laid(s, <<task>>)
           /\ Watched(task) => Laid(s, << >>)
<1>1. /\ s \in Seq(Seq({task})) /\ s # << >> /\ Head(s) = <<task>> /\ Tail(s) = << >>
      /\ Len(s) = 1 /\ s[1] = <<task>> /\ <<task>> # << >>
      /\ Len(<<task>>) = 1 /\ <<task>>[1] = task
  OBVIOUS
<1>2. Finished(Tail(s))
  <2>1. Len(<< >>) = 0
    OBVIOUS
  <2>. QED
    BY <1>1, <2>1 DEF Finished
<1>3. Holds(s, <<task>>)
  <2>1. \A i \in 1..1 : i = 1
    OBVIOUS
  <2>. QED
    BY <1>1, <2>1 DEF Holds
<1>4. Watched(task) => Watchers(Head(s)) /\ Holds(Tail(s), << >>)
  BY <1>1, <1>2 DEF Watchers, Holds
<1>. QED
  BY <1>1, <1>2, <1>3, <1>4 DEF Laid, IsStack

\* LoopApart: a client connects before the hand is asked for, but a place is left.
LEMMA LoopApart == AcceptClient => ~StartRequest /\ ~ReceiveAction
BY NumPlayersAssumption DEF AcceptClient, StartRequest, SetChips, ReceiveAction

\* LoopSteps: the event loop starts what comes next where nothing is left to do.
LEMMA LoopSteps ==
    ASSUME ServerInv, AcceptClient \/ StartRequest \/ ReceiveAction
    PROVE  /\ ServerInv' /\ (settled' = settled \/ Atomic!SetChips)
           /\ StartRequest \/ ReceiveAction => Quiet(stack')
<1>1. PICK A : A \subseteq AnyAnswer /\ BusInv(A)
  BY DEF ServerInv
<1>2. Idle /\ control # "trapped" /\ client' = client
  BY DEF AcceptClient, StartRequest, SetChips, ReceiveAction, clientVars
<1>3. Steady
  BY <1>1, <1>2, IdleResting
<1>4. CASE AcceptClient
  <2>1. PICK e : e = Event!ClientConnected(player_count)
    OBVIOUS
  <2>2. stack' = <<<<Deliver("io", e)>>>> /\ UNCHANGED <<vars, settled>>
    BY <1>4, <2>1, IoAlone DEF AcceptClient, Event!ClientConnected
  <2>3. Steady'
    BY <1>3, <2>2 DEF Steady, At, Hidden, vars, showdownVars
  <2>4. /\ IsStack(stack') /\ Head(stack') = <<Deliver("io", e)>> /\ Finished(Tail(stack'))
        /\ Laid(stack', << >>)
    BY <2>2, OneTask DEF Watched, Deliver
  <2>5. BusInv({})'
    BY <2>3, <2>4 DEF BusInv, Reached, Resting
  <2>6. Sent'
    BY <2>1, <2>3, <2>4 DEF Sent, Top
  <2>. QED
    BY <1>2, <1>4, <2>2, <2>5, <2>6, LoopApart DEF ServerInv
<1>5. ASSUME NEW e, e.type \in Requests, stack' = <<Publish(e)>>
      PROVE  /\ IsStack(stack') /\ Laid(stack', <<Deliver("controller", e)>>)
             /\ Sent' /\ Quiet(stack')
  <2>1. stack' = <<<<Deliver("controller", e)>>>>
    BY <1>5, PublishRequest
  <2>2. /\ IsStack(stack') /\ Laid(stack', <<Deliver("controller", e)>>)
        /\ Head(stack') = <<Deliver("controller", e)>>
    BY <2>1, OneTask
  <2>3. Quiet(stack')
    BY <2>2 DEF Quiet, Watched, Deliver
  <2>. QED
    BY <2>2, <2>3 DEF Sent
<1>6. CASE StartRequest
  <2>1. SetChips /\ HoldemStepEnds /\ stack' = <<Publish(Event!StartGame)>>
    BY <1>6 DEF StartRequest
  <2>2. SettledNow
    BY <2>1 DEF HoldemStepEnds, SettledNow, Now
  <2>3. /\ control' = "seated"
        /\ UNCHANGED <<stage, player_count, community, cards_dealt, showdownVars>>
    BY <2>1 DEF SetChips
  <2>4. Atomic!SetChips
    BY <1>3, <2>1, <2>2
    DEF Atomic!SetChips, Atomic!showdownVars, Atomic!Seat, SetChips, showdownVars, Seat,
        SettledNow, Steady, At, Hidden
  <2>5. Steady'
    BY <2>2 DEF Steady, At, Hidden, SettledNow
  <2>6. /\ IsStack(stack') /\ Laid(stack', <<Deliver("controller", Event!StartGame)>>)
        /\ Sent' /\ Quiet(stack')
    BY <1>5, <2>1 DEF Event!StartGame, Requests
  <2>7. BusInv({})'
    BY <2>3, <2>5, <2>6 DEF BusInv, Reached, Starting
  <2>. QED
    BY <1>2, <2>4, <2>6, <2>7 DEF ServerInv
<1>7. CASE ReceiveAction
  <2>1. control = "awaiting" /\ UNCHANGED <<vars, settled>>
    BY <1>7 DEF ReceiveAction
  <2>2. PICK event \in IF asked THEN {ClientAnswer(client)} ELSE AnswersOfOthers :
           stack' = <<Publish(Event!PlayerAction(event.target_bet, event.is_fold))>>
    BY <1>7 DEF ReceiveAction
  <2>3. event \in AnyAnswer
    <3>1. ClientAnswer(client) \in AnyAnswer
      BY DEF ClientAnswer, AnyAnswer, ServerInv
    <3>2. PlayerActionEvent \subseteq AnyAnswer
      BY TargetBetAssumption DEF PlayerActionEvent, AnyAnswer
    <3>. QED
      BY <2>2, <3>1, <3>2 DEF AnswersOfOthers
  <2>4. stack' = <<Publish(Answer(event))>> /\ Answer(event).type \in Requests
    BY <2>2 DEF Answer, Event!PlayerAction, Requests
  <2>5. /\ IsStack(stack') /\ Laid(stack', <<Deliver("controller", Answer(event))>>)
        /\ Sent' /\ Quiet(stack')
    BY <1>5, <2>4
  <2>6. Handling(<<Deliver("controller", Answer(event))>>, event)'
    BY <1>3, <2>1 DEF Handling, Steady, At, Hidden, vars, showdownVars
  <2>7. BusInv({event})'
    BY <2>5, <2>6 DEF BusInv, Reached
  <2>. QED
    BY <1>2, <2>1, <2>3, <2>5, <2>7 DEF ServerInv
<1>. QED
  BY <1>4, <1>6, <1>7

\* BlindHandled: a client's big blind is a number, if it is told one.
LEMMA BlindHandled ==
    ASSUME NEW c, IsClient(c), c.big_blind \in Int,
           NEW e, e.type = "GameStarted" => e.big_blind \in Int
    PROVE  Handle(c, e).big_blind \in Int
<1>1. Crash(c).big_blind \in Int
  <2>1. PICK n : n = NewClient(-1)
    OBVIOUS
  <2>2. IsClient(n) /\ n.big_blind = 0 /\ Crash(c) = [n EXCEPT !.crashed = TRUE]
    BY <2>1, NewClients DEF Crash, NewClient
  <2>. QED
    BY <2>2 DEF IsClient
<1>2. HandlePlayerJoinResponse(c, e).big_blind = c.big_blind
  BY DEF HandlePlayerJoinResponse, IsClient
<1>3. HandleGameStarted(c, e).big_blind = e.big_blind
  <2>1. PICK x, y, z : /\ x = Sized(e.player_count, DefaultChips)
                       /\ y = Sized(e.player_count, "IDLE") /\ z = Sized(e.player_count, 0)
    OBVIOUS
  <2>2. HandleGameStarted(c, e) =
           [c EXCEPT !.btn_seat = e.btn_seat, !.big_blind = e.big_blind,
                     !.chips = x, !.states = y, !.bets = z]
    BY <2>1 DEF HandleGameStarted
  <2>. QED
    BY <2>2 DEF IsClient
<1>4. HandleHoleCardsDealt(c, e).big_blind \in Int
  BY <1>1 DEF HandleHoleCardsDealt, IsClient
<1>5. HandleBlindPosted(c, e).big_blind \in Int
  BY <1>1 DEF HandleBlindPosted, IsClient
<1>6. HandleCommunityCardsDealt(c, e).big_blind = c.big_blind
  BY DEF HandleCommunityCardsDealt, IsClient
<1>7. HandleBettingRoundEnded(c).big_blind = c.big_blind
  <2>1. PICK x, y : /\ x = [s \in DOMAIN c.bets |-> 0]
                    /\ y = [s \in DOMAIN c.states |-> "IDLE"]
    OBVIOUS
  <2>2. HandleBettingRoundEnded(c) = [c EXCEPT !.bets = x, !.states = y]
    BY <2>1 DEF HandleBettingRoundEnded
  <2>. QED
    BY <2>2 DEF IsClient
<1>8. HandlePlayerActed(c, e).big_blind \in Int
  BY <1>1 DEF HandlePlayerActed, IsClient
<1>. QED
  BY <1>2, <1>3, <1>4, <1>5, <1>6, <1>7, <1>8 DEF Handle

\* SentTask: what ServerIoAdapter may be called for.
LEMMA SentTask ==
    ASSUME ServerInv, Delivering("io")
    PROVE  \/ \E e : /\ e.type \in Announcements /\ Top = <<Deliver("io", e)>> /\ Task.event = e
                     /\ e.type = "GameStarted" => e.big_blind \in Int
           \/ /\ Top \in Seq(HoleCards)
              /\ \E s \in Seat : Task.event = Event!HoleCardsDealt(s)
           \/ \E id : /\ Top = <<Deliver("io", Event!ClientConnected(id))>>
                      /\ Task.event = Event!ClientConnected(id)
                      /\ Steady /\ Finished(Tail(stack))
<1>1. /\ stack # << >> /\ Top # << >> /\ Task = Head(Top) /\ control # "trapped"
      /\ Watched(Head(Top)) /\ Top = Head(stack)
  BY DEF Delivering, Busy, Running, Task, Watched, Top
<1>2. ~Quiet(stack)
  BY <1>1 DEF Quiet
<1>3. \A x : Head(<<x>>) = x
  OBVIOUS
<1>4. \A e : Deliver("io", e).event = e
  BY DEF Deliver
<1>5. CASE Top \in Seq(HoleCards)
  <2>1. Head(Top) \in HoleCards
    BY <1>1, <1>5
  <2>. QED
    BY <1>1, <1>4, <1>5, <2>1 DEF HoleCards
<1>. QED
  BY <1>1, <1>2, <1>3, <1>4, <1>5 DEF ServerInv, Sent

\* ForwardSteps: what ServerIoAdapter forwards changes nothing but the client.
LEMMA ForwardSteps ==
    ASSUME ServerInv, IoForwards
    PROVE  ServerInv' /\ settled' = settled
<1>0. PICK A : A \subseteq AnyAnswer /\ BusInv(A)
  BY DEF ServerInv
<1>1. /\ Delivering("io") /\ Task.event.type # "ClientConnected"
      /\ Become(<< >>) /\ UNCHANGED <<vars, settled>>
      /\ client' = client \/ client' = Handle(client, Task.event)
  BY DEF IoForwards
<1>2. /\ stack # << >> /\ Top # << >> /\ Watched(Head(Top)) /\ Top = Head(stack)
      /\ control # "trapped"
  BY <1>1 DEF Delivering, Busy, Running, Task, Watched, Top
<1>3. PICK todo : IsStack(stack) /\ Laid(stack, todo) /\ Reached(A, todo)
  BY <1>0, <1>2 DEF BusInv
<1>4. todo # << >> => ~Watched(Head(todo))
  BY <1>3, ReachedOrdered DEF Ordered
<1>5. stack' = <<Tail(Top)>> \o Tail(stack) /\ stack' # << >> /\ Head(stack') = Tail(Top)
  <2>1. PICK T : stack \in Seq(Seq(T))
    BY <1>3 DEF IsStack
  <2>2. Tail(Top) \in Seq(T) /\ Tail(stack) \in Seq(Seq(T))
    BY <1>2, <2>1
  <2>3. << >> \o Tail(Top) = Tail(Top)
    BY <2>2
  <2>4. stack' = <<Tail(Top)>> \o Tail(stack)
    BY <1>1, <2>3 DEF Become
  <2>. QED
    BY <2>2, <2>4, Pushed
<1>6. IsStack(stack') /\ Laid(stack', todo)
  BY <1>2, <1>3, <1>4, <1>5, LaidWatched
<1>7. Reached(A, todo)'
  BY <1>1, <1>3, ReachedStill
<1>8. BusInv(A)'
  BY <1>6, <1>7 DEF BusInv
<1>9. /\ Tail(Top) = << >> \/ (Tail(Top) \in Seq(HoleCards) /\ Tail(Top) # << >>)
      /\ Task.event.type = "GameStarted" => Task.event.big_blind \in Int
  <2>1. \A x : Tail(<<x>>) = << >>
    OBVIOUS
  <2>2. \A s : Event!HoleCardsDealt(s).type = "HoleCardsDealt"
    BY DEF Event!HoleCardsDealt
  <2>3. \A id : Event!ClientConnected(id).type = "ClientConnected"
    BY DEF Event!ClientConnected
  <2>4. Top \in Seq(HoleCards) => Tail(Top) \in Seq(HoleCards)
    BY <1>2
  <2>. QED
    BY <1>1, <2>1, <2>2, <2>3, <2>4, SentTask
<1>10. Sent'
  BY <1>5, <1>9 DEF Sent, Quiet, Top
<1>11. IsClient(client') /\ client'.big_blind \in Int
  BY <1>1, <1>9, Handled, BlindHandled DEF ServerInv
<1>. QED
  BY <1>0, <1>1, <1>8, <1>10, <1>11 DEF ServerInv

\* JoinedSteps: a client that connects becomes a request to join.
LEMMA JoinedSteps ==
    ASSUME ServerInv, IoJoins
    PROVE  ServerInv' /\ settled' = settled /\ Quiet(stack')
<1>1. /\ Delivering("io") /\ Task.event.type = "ClientConnected"
      /\ Enter(Publish(Event!PlayerJoinRequest)) /\ UNCHANGED <<vars, settled>>
      /\ client' = client
  BY DEF IoJoins, clientVars
<1>. DEFINE request == Deliver("controller", Event!PlayerJoinRequest)
<1>2. PICK id : /\ Top = <<Deliver("io", Event!ClientConnected(id))>>
                /\ Steady /\ Finished(Tail(stack))
  <2>1. \A s : Event!HoleCardsDealt(s).type = "HoleCardsDealt"
    BY DEF Event!HoleCardsDealt
  <2>2. "ClientConnected" \notin Announcements
    BY DEF Announcements
  <2>. QED
    BY <1>1, <2>1, <2>2, SentTask
<1>3. Publish(Event!PlayerJoinRequest) = <<request>> /\ ~Watched(request)
  BY PublishRequest DEF Event!PlayerJoinRequest, Requests, Watched, Deliver
<1>. HIDE DEF request
<1>. DEFINE tasks == <<request>>
<1>4. tasks \in Seq({request}) /\ tasks # << >> /\ Head(tasks) = request
  OBVIOUS
<1>5. /\ stack # << >> /\ Head(stack) # << >> /\ Top = Head(stack) /\ Tail(Top) = << >>
      /\ control # "trapped" /\ Finished(Tail(stack))
  <2>1. \A x : Tail(<<x>>) = << >>
    OBVIOUS
  <2>2. stack # << >> /\ Top # << >> /\ control # "trapped"
    BY <1>1 DEF Delivering, Busy, Running
  <2>3. Tail(Top) = << >>
    BY <1>2, <2>1
  <2>. QED
    BY <1>2, <2>2, <2>3 DEF Top
<1>6. IsStack(stack)
  BY <1>5 DEF ServerInv, BusInv
<1>7. stack' = Entered(stack, tasks)
  BY <1>1, <1>3, <1>5 DEF Enter, Entered
<1>. HIDE DEF tasks
<1>8. IsStack(stack') /\ Laid(stack', tasks) /\ stack' # << >> /\ Head(stack') = tasks
  BY <1>4, <1>5, <1>6, <1>7, LaidEntered
<1>9. Steady'
  BY <1>1, <1>2 DEF Steady, At, Hidden, vars, showdownVars
<1>10. BusInv({})'
  BY <1>8, <1>9 DEF BusInv, Reached, Joining, tasks, request
<1>11. Quiet(stack')
  BY <1>3, <1>4, <1>8 DEF Quiet, tasks
<1>. QED
  BY <1>1, <1>10, <1>11 DEF ServerInv, Sent

\* ServerSteps: every step of the server keeps the invariant, and is a step of
\* module Holdem or none.
LEMMA ServerSteps ==
    ASSUME ServerInv, [ClientGameNext]_gameVars
    PROVE  ServerInv' /\ [Game!Next]_(Game!vars)
<1>1. settled' = settled => UNCHANGED Game!vars
  BY DEF Game!vars, Game!showdownVars
<1>2. PICK A : A \subseteq AnyAnswer /\ BusInv(A)
  BY DEF ServerInv
<1>3. CASE BusStep /\ UNCHANGED clientVars
  <2>1. Comes(A) /\ Sent' /\ client' = client
    BY <1>2, <1>3, BusSteps, BusSent DEF clientVars
  <2>2. CASE BusInv(A)' /\ settled' = settled
    BY <1>1, <1>2, <2>1, <2>2 DEF ServerInv
  <2>3. CASE BusInv({})' /\ Atomically(A)
    <3>1. ServerInv'
      BY <2>1, <2>3 DEF ServerInv
    <3>2. ASSUME NEW e \in A, Atomic!PlayerAction(e)
          PROVE  Game!Next
      <4>1. e \in Game!PlayerActionEvent
        BY <1>2, <3>2 DEF AnyAnswer, Game!PlayerActionEvent
      <4>2. Game!PlayerAction(e)
        BY <3>2, SameAnswer
      <4>. QED
        BY <4>1, <4>2 DEF Game!Next
    <3>3. Game!Next
      BY <2>3, <3>2, SameMoves DEF Atomically, Game!Next
    <3>. QED
      BY <3>1, <3>3
  <2>. QED
    BY <2>1, <2>2, <2>3 DEF Comes
<1>4. CASE IoForwards
  BY <1>1, <1>4, ForwardSteps
<1>5. CASE IoJoins
  BY <1>1, <1>5, JoinedSteps
<1>6. CASE AcceptClient \/ StartRequest \/ ReceiveAction
  BY <1>1, <1>6, LoopSteps, SameMoves DEF Game!Next
<1>7. CASE ServerOver \/ UNCHANGED gameVars
  <2>1. UNCHANGED <<vars, settled>> /\ stack' = stack /\ client' = client
    BY <1>7 DEF ServerOver, gameVars, busVars, clientVars
  <2>2. BusInv(A)'
    <3>1. CASE control = "trapped"
      BY <2>1, <3>1 DEF BusInv, vars
    <3>2. ASSUME NEW todo, IsStack(stack), Laid(stack, todo), Reached(A, todo)
          PROVE  BusInv(A)'
      <4>1. Reached(A, todo)'
        BY <2>1, <3>2, ReachedStill
      <4>. QED
        BY <2>1, <3>2, <4>1 DEF BusInv
    <3>. QED
      BY <1>2, <3>1, <3>2 DEF BusInv
  <2>3. Sent => Sent'
    <3>1. Steady => Steady'
      BY <2>1 DEF Steady, At, Hidden, vars, showdownVars
    <3>2. Top' = Top /\ (Quiet(stack) => Quiet(stack'))
      BY <2>1 DEF Top
    <3>. QED
      BY <2>1, <3>1, <3>2 DEF Sent
  <2>4. control' = control
    BY <2>1 DEF vars
  <2>. QED
    BY <1>1, <1>2, <2>1, <2>2, <2>3, <2>4 DEF ServerInv
<1>. QED
  BY <1>3, <1>4, <1>5, <1>6, <1>7 DEF ClientGameNext

\* ServerStarts: the server starts with nobody at the table.
LEMMA ServerStarts == ClientGameInit => ServerInv /\ Game!Init
<1>1. SUFFICES ASSUME ClientGameInit PROVE ServerInv /\ Game!Init
  OBVIOUS
<1>2. Init /\ stack = << >> /\ settled = Now
  BY <1>1 DEF ClientGameInit
<1>3. Steady
  BY <1>2 DEF Steady, At, Hidden, Now
<1>4. IsStack(stack) /\ Laid(stack, << >>)
  <2>1. stack \in Seq(Seq({})) /\ Len(stack) = 0
    BY <1>2
  <2>. QED
    BY <2>1 DEF IsStack, Laid, Holds, Finished
<1>5. BusInv({}) /\ Sent
  BY <1>2, <1>3, <1>4 DEF BusInv, Reached, Resting, Sent, Quiet
<1>6. IsClient(client) /\ client.big_blind \in Int
  BY <1>1, NewClients DEF ClientGameInit, NewClient
<1>7. Atomic!Init
  BY <1>2 DEF Init, Now, Atomic!Init, Atomic!NewTable, NewTable, Atomic!Seat, Seat
<1>. QED
  BY <1>5, <1>6, <1>7, SameStart DEF ServerInv

\* ServerReached: the server is always in a handler of GameController, in its
\* event loop, or forwarding to its clients.
THEOREM ServerReached == ClientGameSpec => []ServerInv
<1>. QED
  BY ServerStarts, ServerSteps, PTL DEF ClientGameSpec

\* ServerPlaysHoldem: for any table, stakes and answers, whenever clients
\* connect and answer, the calls and deliveries on the server's bus come to a
\* hand of module Holdem.
THEOREM ServerPlaysHoldem == ClientGameSpec => Game!Spec
<1>. QED
  BY ServerStarts, ServerSteps, ServerReached, PTL DEF ClientGameSpec, Game!Spec

-----------------------------------------------------------------------------
(* The hand as it was where Holdem's last step ended.                      *)

HandSound ==
    /\ settled.table \in TableType
    /\ settled.control \in {"seating", "seated"} =>
          /\ settled.stage = "IDLE"
          /\ \A s \in Seat : settled.table.state[s] = "ACTIVE" /\ settled.table.bet[s] = 0
    /\ settled.control = "seated" => \A s \in Seat : settled.table.chips[s] > BigBlind
    /\ settled.control = "awaiting" => settled.stage \in Streets /\ TurnTable(settled.table)
    /\ settled.control = "awaiting" /\ settled.stage = "PREFLOP" =>
          BetsAreCommitted(settled.table) /\ PotLedger(settled.table)
    /\ settled.control \in {"settling", "ended"} => settled.stage = "SETTLEMENT"

\* SameTables: what a table is said to be is the same for this instance.
LEMMA SameTables ==
    /\ Game!TableType = TableType /\ Game!Seat = Seat /\ Game!NewTable = NewTable
    /\ Game!Streets = Streets
    /\ \A t : Game!TurnTable(t) => TurnTable(t)
    /\ \A t : Game!BetsAreCommitted(t) => BetsAreCommitted(t)
    /\ \A t : Game!PotLedger(t) => PotLedger(t)
<1>1. Game!Seat = Seat /\ Game!PlayerState = PlayerState /\ Game!Streets = Streets
  BY DEF Game!Seat, Seat, Game!PlayerState, PlayerState, Game!Streets, Streets
<1>2. Game!TableType = TableType /\ Game!NewTable = NewTable
  BY <1>1 DEF Game!TableType, TableType, Game!NewTable, NewTable
<1>3. \A t : Game!TurnTable(t) => TurnTable(t)
  BY <1>1, <1>2, GameOps
  DEF Game!TurnTable, TurnTable, Game!SoundTable, SoundTable, Game!SoundSeat, SoundSeat
<1>4. \A t : Game!BetsAreCommitted(t) => BetsAreCommitted(t)
  BY <1>1 DEF Game!BetsAreCommitted, BetsAreCommitted
<1>5. \A f : Game!ChipsOf(f) = ChipsOf(f)
  BY SMT DEF Game!ChipsOf, ChipsOf, Game!SumFunction, SumFunction, Game!SumFunctionOnSet,
      SumFunctionOnSet, Game!FoldFunctionOnSet, FoldFunctionOnSet, Game!MapThenFoldSet,
      MapThenFoldSet
<1>6. \A t : Game!PotLedger(t) => PotLedger(t)
  BY <1>5 DEF Game!PotLedger, PotLedger
<1>. QED
  BY <1>1, <1>2, <1>3, <1>4, <1>6

\* HandIsSound: the theorems about Holdem say so, since the server plays it.
LEMMA HandIsSound == ClientGameSpec => []HandSound
<1>. Int \subseteq Int
  OBVIOUS
<1>1. Game!Spec => [](Game!HandInv /\ Game!LedgerInv /\ Game!ChipsInv /\ Game!StreetInv)
  BY Game!StreetInvariant, NumPlayersAssumption, BigBlindAssumption, BuyInAssumption,
     HandValueAssumption
<1>2. Game!HandInv /\ Game!LedgerInv /\ Game!ChipsInv /\ Game!StreetInv => HandSound
  <2>. SUFFICES ASSUME Game!HandInv, Game!LedgerInv, Game!ChipsInv, Game!StreetInv
                PROVE  HandSound
    OBVIOUS
  <2>1. settled.table \in TableType
    BY SameTables DEF Game!HandInv, Game!TypeOK
  <2>2. CASE settled.control \in {"seating", "seated"}
    <3>1. settled.table = NewTable \/ settled.table = [NewTable EXCEPT !.chips = settled.buy_in]
      BY <2>2, SameTables DEF Game!HandInv, Game!SeatedInv, Game!LedgerInv
    <3>2. \A s \in Seat : settled.table.state[s] = "ACTIVE" /\ settled.table.bet[s] = 0
      BY <3>1 DEF NewTable
    <3>3. settled.stage = "IDLE"
      BY <2>2 DEF Game!StreetInv
    <3>4. settled.control = "seated" => \A s \in Seat : settled.table.chips[s] > BigBlind
      BY SameTables DEF Game!HandInv, Game!SeatedInv
    <3>. QED
      BY <2>1, <2>2, <3>2, <3>3, <3>4 DEF HandSound
  <2>3. CASE settled.control = "awaiting"
    <3>1. settled.stage \in Streets /\ TurnTable(settled.table)
      BY <2>3, SameTables DEF Game!HandInv, Game!TurnInv
    <3>2. settled.stage = "PREFLOP" => BetsAreCommitted(settled.table)
      BY <2>3, SameTables DEF Game!StreetInv
    <3>3. PotLedger(settled.table)
      BY <2>3, SameTables DEF Game!ChipsInv
    <3>. QED
      BY <2>1, <2>3, <3>1, <3>2, <3>3 DEF HandSound
  <2>4. CASE settled.control \notin {"seating", "seated", "awaiting"}
    BY <2>1, <2>4 DEF HandSound, Game!StreetInv
  <2>. QED
    BY <2>2, <2>3, <2>4
<1>. QED
  BY <1>1, <1>2, ServerPlaysHoldem, PTL

-----------------------------------------------------------------------------
(* The client's own accounts.                                              *)

\* ClientMoneyIsBets, with what it takes to say so: the vectors have a place for
\* every seat or for none.
Accounts(c) ==
    /\ IsClient(c)
    /\ DOMAIN c.bets \in {{}, Seat}
    /\ c.bets \in [DOMAIN c.bets -> Int] /\ c.chips \in [DOMAIN c.bets -> Int]
    /\ c.states \in [DOMAIN c.bets -> PlayerStatus]
    /\ c.pot = SumFunction(c.bets)
    /\ \A s \in DOMAIN c.bets : c.chips[s] + c.bets[s] = DefaultChips

\* SizedFor: vectors for everyone, or for nobody.
LEMMA SizedFor ==
    ASSUME NEW n \in {0, NumPlayers}, NEW value
    PROVE  /\ DOMAIN Sized(n, value) \in {{}, Seat}
           /\ \A s \in DOMAIN Sized(n, value) : Sized(n, value)[s] = value
           /\ \A m : DOMAIN Sized(n, m) = DOMAIN Sized(n, value)
           /\ Sized(n, value) \in [DOMAIN Sized(n, value) -> {value}]
<1>1. Seat \subseteq Nat /\ NumPlayers \in Nat /\ \A s \in Seat : 0 <= s /\ s < NumPlayers
  BY NumPlayersAssumption DEF Seat
<1>2. \A m : DOMAIN Sized(n, m) = {v \in Seat : v < n}
  BY DEF Sized
<1>3. {v \in Seat : v < n} \in {{}, Seat}
  <2>1. CASE n = 0
    <3>1. \A v \in Seat : ~(v < n)
      BY <1>1, <2>1
    <3>. QED
      BY <3>1
  <2>2. CASE n = NumPlayers
    <3>1. \A v \in Seat : v < n
      BY <1>1, <2>2
    <3>. QED
      BY <3>1
  <2>. QED
    BY <2>1, <2>2
<1>. QED
  BY <1>2, <1>3 DEF Sized

\* NewAccounts: a client that knows of nobody.
LEMMA NewAccounts ==
    /\ \A seat : Accounts(NewClient(seat)) /\ NewClient(seat).bets = << >>
    /\ \A c : Accounts(Crash(c)) /\ Crash(c).crashed
<1>1. ASSUME NEW seat
      PROVE  LET c == NewClient(seat)
             IN  /\ IsClient(c) /\ DOMAIN c.bets = {} /\ c.bets = << >>
                 /\ c.chips = << >> /\ c.states = << >> /\ c.pot = 0
  <2>1. \A v : Sized(0, v) = << >>
    <3>1. \A s \in Seat : ~(s < 0)
      BY NumPlayersAssumption DEF Seat
    <3>2. \A v : Sized(0, v) = [s \in {} |-> v]
      BY <3>1 DEF Sized
    <3>. QED
      BY <3>2
  <2>2. DOMAIN << >> = {}
    OBVIOUS
  <2>. QED
    BY <2>1, <2>2, NewClients DEF NewClient
<1>2. << >> \in [{} -> Int] /\ << >> \in [{} -> PlayerStatus] /\ DOMAIN << >> = {}
  OBVIOUS
<1>3. SumFunction(<< >>) = 0
  BY <1>2, SumEmpty DEF SumFunction
<1>4. ASSUME NEW seat
      PROVE  Accounts(NewClient(seat)) /\ NewClient(seat).bets = << >>
  <2>1. PICK n : n = NewClient(seat)
    OBVIOUS
  <2>2. /\ IsClient(n) /\ DOMAIN n.bets = {} /\ n.bets = << >>
        /\ n.chips = << >> /\ n.states = << >> /\ n.pot = 0
    BY <1>1, <2>1
  <2>. QED
    BY <1>2, <1>3, <2>1, <2>2 DEF Accounts
<1>5. ASSUME NEW c
      PROVE  Accounts(Crash(c)) /\ Crash(c).crashed
  <2>1. PICK n : n = NewClient(-1)
    OBVIOUS
  <2>2. Accounts(n) /\ Crash(c) = [n EXCEPT !.crashed = TRUE]
    BY <1>4, <2>1 DEF Crash
  <2>3. PICK d : d = [n EXCEPT !.crashed = TRUE]
    OBVIOUS
  <2>4. /\ IsClient(d) /\ d.bets = n.bets /\ d.chips = n.chips /\ d.states = n.states
        /\ d.pot = n.pot /\ d.crashed
    BY <2>2, <2>3 DEF Accounts, IsClient
  <2>. QED
    BY <2>2, <2>3, <2>4 DEF Accounts
<1>. QED
  BY <1>4, <1>5

\* StartedAccounts: GameStarted sizes the vectors, when no bet is lost by it.
LEMMA StartedAccounts ==
    ASSUME NEW c, Accounts(c), \A s \in DOMAIN c.bets : c.bets[s] = 0,
           NEW e, e.player_count \in {0, NumPlayers},
           NEW d, d = HandleGameStarted(c, e)
    PROVE  /\ Accounts(d) /\ d.crashed = c.crashed /\ d.community = c.community
           /\ \A s \in DOMAIN d.bets : d.bets[s] = 0 /\ d.states[s] = "IDLE"
<1>1. PICK x, y, z : /\ x = Sized(e.player_count, DefaultChips)
                     /\ y = Sized(e.player_count, "IDLE") /\ z = Sized(e.player_count, 0)
  OBVIOUS
<1>2. d = [c EXCEPT !.btn_seat = e.btn_seat, !.big_blind = e.big_blind,
                    !.chips = x, !.states = y, !.bets = z]
  BY <1>1 DEF HandleGameStarted
<1>3. /\ IsClient(d) /\ d.chips = x /\ d.states = y /\ d.bets = z /\ d.pot = c.pot
      /\ d.crashed = c.crashed /\ d.community = c.community
  BY <1>2 DEF Accounts, IsClient
<1>4. /\ DOMAIN z \in {{}, Seat} /\ DOMAIN x = DOMAIN z /\ DOMAIN y = DOMAIN z
      /\ x \in [DOMAIN z -> {DefaultChips}] /\ y \in [DOMAIN z -> {"IDLE"}] /\ z \in [DOMAIN z -> {0}]
  BY <1>1, SizedFor
<1>5. SumFunction(z) = 0 /\ SumFunction(c.bets) = 0
  <2>1. IsFiniteSet(DOMAIN z) /\ IsFiniteSet(DOMAIN c.bets)
    BY <1>4, SeatArithmetic, FS_EmptySet DEF Accounts
  <2>2. \A s \in DOMAIN z : z[s] = 0
    BY <1>4
  <2>. QED
    BY <2>1, <2>2, SumZero DEF SumFunction
<1>6. DefaultChips \in Int /\ "IDLE" \in PlayerStatus
  BY DefaultChipsAssumption DEF PlayerStatus
<1>. HIDE DEF PlayerStatus
<1>7. \A s \in DOMAIN z : x[s] + z[s] = DefaultChips /\ z[s] = 0 /\ y[s] = "IDLE"
  BY <1>4, <1>6
<1>8. x \in [DOMAIN z -> Int] /\ y \in [DOMAIN z -> PlayerStatus] /\ z \in [DOMAIN z -> Int]
  BY <1>4, <1>6
<1>. QED
  BY <1>3, <1>4, <1>5, <1>7, <1>8 DEF Accounts

\* BetAccounts: a bet is the client's pot's and not its stack's.
LEMMA BetAccounts ==
    ASSUME NEW c, Accounts(c), NEW s \in DOMAIN c.bets, NEW bet \in Int,
           NEW status \in PlayerStatus,
           NEW d, IsClient(d),
           d.bets = [c.bets EXCEPT ![s] = bet],
           d.chips = [c.chips EXCEPT ![s] = c.chips[s] - (bet - c.bets[s])],
           d.states = [c.states EXCEPT ![s] = status],
           d.pot = c.pot + (bet - c.bets[s])
    PROVE  Accounts(d) /\ DOMAIN d.bets = DOMAIN c.bets
<1>. DEFINE D == DOMAIN c.bets
<1>1. D \in {{}, Seat} /\ c.bets \in [D -> Int] /\ c.chips \in [D -> Int]
      /\ c.states \in [D -> PlayerStatus] /\ c.pot = SumFunction(c.bets)
      /\ \A v \in D : c.chips[v] + c.bets[v] = DefaultChips
  BY DEF Accounts
<1>2. IsFiniteSet(D)
  BY <1>1, SeatArithmetic, FS_EmptySet
<1>. HIDE DEF D
<1>3. s \in D /\ DefaultChips \in Int
  BY DefaultChipsAssumption DEF D
<1>4. c.chips[s] \in Int /\ c.bets[s] \in Int /\ c.chips[s] - (bet - c.bets[s]) \in Int
  BY <1>1, <1>3
<1>5. /\ d.bets \in [D -> Int] /\ d.chips \in [D -> Int] /\ d.states \in [D -> PlayerStatus]
      /\ DOMAIN d.bets = D
  BY <1>1, <1>3, <1>4
<1>6. d.pot = SumFunction(d.bets)
  <2>1. /\ SumFunction([c.bets EXCEPT ![s] = bet]) = SumFunction(c.bets) - c.bets[s] + bet
        /\ SumFunction(c.bets) \in Int
    BY <1>1, <1>2, <1>3, SumChanged
  <2>2. \A a, b, x \in Int : a + (b - x) = a - x + b
    OBVIOUS
  <2>. QED
    BY <1>1, <1>4, <2>1, <2>2
<1>7. ASSUME NEW v \in D
      PROVE  d.chips[v] + d.bets[v] = DefaultChips
  <2>1. CASE v = s
    <3>1. d.chips[v] = c.chips[s] - (bet - c.bets[s]) /\ d.bets[v] = bet
      BY <1>1, <1>3, <2>1
    <3>2. c.chips[s] + c.bets[s] = DefaultChips
      BY <1>1, <1>3
    <3>. QED
      BY <1>3, <1>4, <3>1, <3>2
  <2>2. CASE v # s
    BY <1>1, <1>3, <1>7, <2>2
  <2>. QED
    BY <2>1, <2>2
<1>. QED
  BY <1>1, <1>5, <1>6, <1>7 DEF Accounts, D

\* Betting: from c to d the seat s has bet, and nothing else is shown of it; or
\* the client has no place for s, and is dead.
Betting(c, d, s, bet, status) ==
    /\ Accounts(d)
    /\ \/ d.crashed
       \/ /\ s \in DOMAIN c.bets /\ d.community = c.community
          /\ d.bets = [c.bets EXCEPT ![s] = bet]
          /\ d.states = [c.states EXCEPT ![s] = status]

\* BlindAccounts: a blind is the first bet of its seat.
LEMMA BlindAccounts ==
    ASSUME NEW c, Accounts(c), NEW e, e.amount \in Int,
           e.player \in DOMAIN c.bets => c.bets[e.player] = 0
    PROVE  Betting(c, HandleBlindPosted(c, e), e.player, e.amount,
                   IF e.is_big_blind THEN "BIG_BLIND" ELSE "SMALL_BLIND")
<1>. DEFINE s == e.player
            status == IF e.is_big_blind THEN "BIG_BLIND" ELSE "SMALL_BLIND"
<1>1. DOMAIN c.chips = DOMAIN c.bets /\ status \in PlayerStatus
  BY DEF Accounts, PlayerStatus
<1>. HIDE DEF status
<1>2. CASE s \notin DOMAIN c.bets
  BY <1>1, <1>2, NewAccounts DEF HandleBlindPosted, Knows, Betting
<1>3. CASE s \in DOMAIN c.bets
  <2>1. PICK d : d = [c EXCEPT !.states[s] = status, !.pot = @ + e.amount,
                               !.chips[s] = @ - e.amount, !.bets[s] = e.amount]
    OBVIOUS
  <2>2. HandleBlindPosted(c, e) = d
    BY <1>1, <1>3, <2>1 DEF HandleBlindPosted, Knows, status
  <2>3. /\ IsClient(d) /\ d.states = [c.states EXCEPT ![s] = status] /\ d.pot = c.pot + e.amount
        /\ d.chips = [c.chips EXCEPT ![s] = c.chips[s] - e.amount]
        /\ d.bets = [c.bets EXCEPT ![s] = e.amount] /\ d.community = c.community
    BY <2>1 DEF Accounts, IsClient
  <2>4. e.amount - c.bets[s] = e.amount
    BY <1>3
  <2>5. Accounts(d)
    BY <1>1, <1>3, <2>3, <2>4, BetAccounts
  <2>. QED
    BY <1>3, <2>2, <2>3, <2>5 DEF Betting, status
<1>. QED
  BY <1>2, <1>3

\* ActedAccounts: a bet takes the place of the bet before, on whatever street.
LEMMA ActedAccounts ==
    ASSUME NEW c, Accounts(c), NEW e, e.bet \in Int
    PROVE  Betting(c, HandlePlayerActed(c, e), e.player, e.bet, StatusOf(e.action))
<1>. DEFINE s == e.player
            delta == e.bet - c.bets[s]
<1>1. DOMAIN c.chips = DOMAIN c.bets /\ StatusOf(e.action) \in PlayerStatus
  BY DEF Accounts, PlayerStatus, StatusOf
<1>2. CASE s \notin DOMAIN c.bets
  BY <1>1, <1>2, NewAccounts DEF HandlePlayerActed, Knows, Betting
<1>3. CASE s \in DOMAIN c.bets
  <2>1. PICK d : d = [c EXCEPT !.states[s] = StatusOf(e.action), !.pot = @ + delta,
                               !.chips[s] = @ - delta, !.bets[s] = e.bet]
    OBVIOUS
  <2>2. HandlePlayerActed(c, e) = d
    BY <1>1, <1>3, <2>1 DEF HandlePlayerActed, Knows
  <2>3. /\ IsClient(d) /\ d.states = [c.states EXCEPT ![s] = StatusOf(e.action)]
        /\ d.pot = c.pot + (e.bet - c.bets[s])
        /\ d.chips = [c.chips EXCEPT ![s] = c.chips[s] - (e.bet - c.bets[s])]
        /\ d.bets = [c.bets EXCEPT ![s] = e.bet] /\ d.community = c.community
    BY <2>1 DEF Accounts, IsClient
  <2>4. Accounts(d)
    BY <1>1, <1>3, <2>3, BetAccounts
  <2>. QED
    BY <1>3, <2>2, <2>3, <2>4 DEF Betting
<1>. QED
  BY <1>2, <1>3

\* What a client shows but its board is the same.
SameAccounts(c, d) ==
    /\ Accounts(d)
    /\ \/ d.crashed
       \/ d.crashed = c.crashed /\ d.bets = c.bets /\ d.states = c.states

\* ShownAccounts: the board and its own cards are not money.
LEMMA ShownAccounts ==
    ASSUME NEW c, Accounts(c), NEW e
    PROVE  /\ SameAccounts(c, HandleCommunityCardsDealt(c, e))
           /\ HandleCommunityCardsDealt(c, e).community = e.community_cards
           /\ SameAccounts(c, HandleHoleCardsDealt(c, e))
           /\ ~HandleHoleCardsDealt(c, e).crashed =>
                 HandleHoleCardsDealt(c, e).community = c.community
<1>1. ASSUME NEW d, IsClient(d), d.bets = c.bets, d.chips = c.chips, d.states = c.states,
             d.pot = c.pot, d.crashed = c.crashed
      PROVE  SameAccounts(c, d)
  BY <1>1 DEF Accounts, SameAccounts
<1>2. PICK b : b = HandleCommunityCardsDealt(c, e)
  OBVIOUS
<1>3. /\ IsClient(b) /\ b.bets = c.bets /\ b.chips = c.chips /\ b.states = c.states
      /\ b.pot = c.pot /\ b.crashed = c.crashed /\ b.community = e.community_cards
  BY <1>2 DEF HandleCommunityCardsDealt, Accounts, IsClient
<1>4. PICK d : d = [c EXCEPT !.hole_cards = @ \cup {e.player_seat}]
  OBVIOUS
<1>5. /\ IsClient(d) /\ d.bets = c.bets /\ d.chips = c.chips /\ d.states = c.states
      /\ d.pot = c.pot /\ d.crashed = c.crashed /\ d.community = c.community
  BY <1>4 DEF Accounts, IsClient
<1>6. HandleHoleCardsDealt(c, e) \in {c, d, Crash(c)}
  BY <1>4 DEF HandleHoleCardsDealt
<1>7. Accounts(Crash(c)) /\ Crash(c).crashed
  BY NewAccounts
<1>. QED
  BY <1>1, <1>2, <1>3, <1>5, <1>6, <1>7 DEF SameAccounts

-----------------------------------------------------------------------------
(* What the client shows once it is told what is being published.          *)

\* What changes the view that the client has of others, or of the board.
Visible == {"GameStarted", "BlindPosted", "CommunityCardsDealt", "PlayerActed"}

Shown ==
    IF Delivering("io") /\ Task.event.type \in Visible THEN Handle(client, Task.event) ELSE client

\* ShownBefore: a step of the bus begins when everybody has been told.
LEMMA ShownBefore == BusStep => Shown = client
BY BusTask DEF Shown, Delivering, Busy, Running, Watched, Task

\* ShownNone: and so it ends, if nobody who watches is next.
LEMMA ShownNone ==
    ASSUME Quiet(stack')
    PROVE  Shown' = client'
BY DEF Quiet, Shown, Delivering, Busy, Running, Watched, Task, Top

\* ShownTop: the client is told of what is on top of the stack.
LEMMA ShownTop ==
    ASSUME NEW e, stack' # << >>, Head(stack') = <<Deliver("io", e)>>, control' # "trapped"
    PROVE  Shown' = IF e.type \in Visible THEN Handle(client', e) ELSE client'
<1>1. PICK top : top = <<Deliver("io", e)>>
  OBVIOUS
<1>2. top # << >> /\ Head(top) = Deliver("io", e)
  BY <1>1
<1>3. Top' = top /\ Task' = Deliver("io", e) /\ Busy'
  BY <1>1, <1>2 DEF Top, Task, Busy, Running
<1>4. Delivering("io")' /\ Task'.event = e
  BY <1>3 DEF Delivering, Deliver
<1>. QED
  BY <1>4 DEF Shown

\* ShownSaid: an event that changes the view is told as soon as it is published.
LEMMA ShownSaid ==
    ASSUME NEW A, BusInv(A), BusStep, Top # << >>, NEW e, e.type \in Visible,
           Enter(Publish(e)), control' # "trapped", client' = client
    PROVE  Shown' = Handle(client, e)
<1>1. Placed(Top)
  BY BusPlaced
<1>2. Publish(e) = <<Deliver("io", e)>>
  BY IoAlone DEF Visible, Announcements, Forwarded, ToOneClient
<1>3. PICK tasks : tasks = Publish(e)
  OBVIOUS
<1>4. tasks \in Seq({Deliver("io", e)}) /\ tasks # << >>
  BY <1>2, <1>3
<1>5. stack' # << >> /\ Head(stack') = tasks
  BY <1>1, <1>3, <1>4, EnteredHead
<1>. QED
  BY <1>2, <1>3, <1>5, ShownTop

\* ShownQuiet: nothing is told by a call that says nothing.
LEMMA ShownQuiet ==
    ASSUME NEW A, BusInv(A), BusStep, Top # << >>, Enter(<< >>)
    PROVE  Shown' = client'
<1>1. Placed(Top) /\ Ordered(Top)
  BY BusPlaced
<1>2. stack' # << >> /\ Head(stack') = Tail(Top)
  BY <1>1, NoTasks, EnteredHead
<1>. QED
  BY <1>1, <1>2, ShownNone DEF Ordered, Quiet, Watched

\* The calls that say something of the table.
ShowingCall ==
    \/ StartGameCall \/ PostSmallBlind \/ PostBigBlind
    \/ DealCommunityCardsCall \/ HandlePlayerActionCall

\* ShownSame: the other calls do not change what the client shows.
LEMMA ShownSame ==
    ASSUME NEW A, BusInv(A), BusStep, ~ShowingCall, client' = client
    PROVE  Shown' = client
<1>1. CASE control' = "trapped"
  BY <1>1 DEF Shown, Delivering, Busy, Running
<1>2. CASE control' # "trapped" /\ DealHoleCardsCall
  <2>1. PICK tasks \in Seq(HoleCards) : Enter(tasks)
    BY <1>2, CardsSent
  <2>2. Top # << >>
    BY <1>2 DEF DealHoleCardsCall, Calling, Busy
  <2>3. Placed(Top) /\ Ordered(Top)
    BY <2>2, BusPlaced
  <2>4. stack' # << >> /\ Head(stack') = IF tasks = << >> THEN Tail(Top) ELSE tasks
    BY <2>1, <2>3, EnteredHead
  <2>5. CASE tasks = << >>
    BY <2>3, <2>4, <2>5, ShownNone DEF Ordered, Quiet, Watched
  <2>6. CASE tasks # << >>
    <3>1. Head(tasks) \in HoleCards
      BY <2>1, <2>6
    <3>2. PICK s \in Seat : Head(tasks) = Deliver("io", Event!HoleCardsDealt(s))
      BY <3>1 DEF HoleCards
    <3>3. Task' = Head(tasks)
      BY <2>4, <2>6 DEF Task, Top
    <3>. QED
      BY <3>2, <3>3 DEF Shown, Visible, Deliver, Event!HoleCardsDealt
  <2>. QED
    BY <2>5, <2>6
<1>3. ASSUME control' # "trapped", NEW e, Tells(e)
      PROVE  Shown' = client
  <2>1. /\ e.type \in Announcements /\ Said(e) /\ stack' # << >> /\ Publish(e) # << >>
        /\ Head(stack') = Publish(e)
    BY <1>3 DEF Tells
  <2>2. Publish(e) = <<Deliver("io", e)>>
    BY <2>1, IoAlone
  <2>3. e.type \notin Visible
    BY <2>1, SaidBy DEF Visible, ShowingCall
  <2>. QED
    BY <1>3, <2>1, <2>2, <2>3, ShownTop
<1>4. Heard
  BY BusHeard
<1>. QED
  BY <1>1, <1>2, <1>3, <1>4, ShownNone DEF Heard

\* Unseen: of the other events of GameModel the client handles HoleCardsDealt.
LEMMA Unseen ==
    ASSUME NEW c, NEW e, e.type \in Announcements \ Visible
    PROVE  Handle(c, e) \in {c, HandleHoleCardsDealt(c, e)}
BY DEF Handle, Announcements, Visible

\* ShownForwarded: when ServerIoAdapter is done the client has been told.
LEMMA ShownForwarded ==
    ASSUME ServerInv, IoForwards
    PROVE  /\ client' = Shown \/ (Shown = client /\ \E e : client' = HandleHoleCardsDealt(client, e))
           /\ Shown' = client'
<1>1. /\ Delivering("io") /\ Become(<< >>) /\ UNCHANGED <<vars, settled>>
      /\ Task.event.type # "ClientConnected"
      /\ IF SentToClient(Task.event) THEN client' = Handle(client, Task.event)
         ELSE client' = client
  BY DEF IoForwards
<1>2. Task.event.type \in Visible => client' = Shown
  BY <1>1 DEF Shown, Visible, SentToClient, ToOneClient
<1>3. Task.event.type \notin Visible => Shown = client
  BY DEF Shown
<1>4. PICK A : BusInv(A)
  BY DEF ServerInv
<1>5. /\ stack # << >> /\ Top # << >> /\ Top = Head(stack) /\ control # "trapped"
  BY <1>1 DEF Delivering, Busy, Running, Top
<1>6. PICK T : stack \in Seq(Seq(T))
  BY <1>4, <1>5 DEF BusInv, IsStack
<1>7. stack' # << >> /\ Head(stack') = Tail(Top)
  <2>1. Tail(Top) \in Seq(T) /\ Tail(stack) \in Seq(Seq(T))
    BY <1>5, <1>6
  <2>2. << >> \o Tail(Top) = Tail(Top)
    BY <2>1
  <2>3. stack' = <<Tail(Top)>> \o Tail(stack)
    BY <1>1, <2>2 DEF Become
  <2>. QED
    BY <2>1, <2>3, Pushed
<1>8. \A s : Event!HoleCardsDealt(s).type = "HoleCardsDealt"
  BY DEF Event!HoleCardsDealt
<1>9. Task.event.type \in Announcements
  <2>1. \A id : Event!ClientConnected(id).type = "ClientConnected"
    BY DEF Event!ClientConnected
  <2>. QED
    BY <1>1, <1>8, <2>1, SentTask DEF Announcements
<1>10. client' = Shown \/ (Shown = client /\ \E e : client' = HandleHoleCardsDealt(client, e))
  <2>1. CASE Task.event.type \notin Visible
    <3>1. client' \in {client, HandleHoleCardsDealt(client, Task.event)}
      BY <1>1, <1>9, <2>1, Unseen
    <3>. QED
      BY <1>3, <2>1, <3>1
  <2>. QED
    BY <1>2, <2>1
<1>11. CASE Tail(Top) = << >>
  BY <1>7, <1>10, <1>11, ShownNone DEF Quiet
<1>12. CASE Top \in Seq(HoleCards) /\ Tail(Top) # << >>
  <2>1. Tail(Top) \in Seq(HoleCards)
    BY <1>5, <1>12
  <2>2. Head(Tail(Top)) \in HoleCards
    BY <1>12, <2>1
  <2>3. PICK s \in Seat : Head(Tail(Top)) = Deliver("io", Event!HoleCardsDealt(s))
    BY <2>2 DEF HoleCards
  <2>4. Task' = Deliver("io", Event!HoleCardsDealt(s))
    BY <1>7, <2>3 DEF Task, Top
  <2>5. Shown' = client'
    BY <2>4 DEF Shown, Visible, Deliver, Event!HoleCardsDealt
  <2>. QED
    BY <1>10, <2>5
<1>13. \A x : Tail(<<x>>) = << >>
  OBVIOUS
<1>14. Tail(Top) = << >> \/ Top \in Seq(HoleCards)
  BY <1>1, <1>13, SentTask
<1>. QED
  BY <1>11, <1>12, <1>14

-----------------------------------------------------------------------------
(* What the client shows of the table.                                     *)

\* A seat that folded shows no bet.  Another shows its own, if it has acted on
\* the street, or if there was none before.
SeatView(c, st, tb, s) ==
    /\ c.states[s] = "FOLDED" <=> tb.state[s] = "FOLDED"
    /\ c.states[s] = "ALL_IN" <=> tb.state[s] = "ALL_IN"
    /\ IF tb.state[s] = "FOLDED" THEN c.bets[s] = 0
       ELSE st \in {"IDLE", "PREFLOP"} \/ tb.is_acted[s] => c.bets[s] = tb.bet[s]

\* A client that has no place for anyone does not live to see the big blind.
View(c, ctl, st, tb, cm) ==
    c.crashed \/
        /\ c.community = cm
        /\ DOMAIN c.bets = {} => ctl \in {"seating", "seated"} /\ tb.bet[BbSeat] = 0
        /\ \A s \in DOMAIN c.bets : SeatView(c, st, tb, s)

ViewInv ==
    /\ Accounts(client) /\ Accounts(Shown)
    /\ control = "trapped" \/ View(Shown, control, stage, table, community)

\* ViewKept: a view is still one if no more is asked of it.
LEMMA ViewKept ==
    ASSUME NEW c, NEW d, SameAccounts(c, d), d.crashed \/ d.community = c.community,
           NEW ctl, NEW st, NEW tb, NEW cm, View(c, ctl, st, tb, cm),
           NEW ctl2, NEW st2, NEW tb2,
           tb2.state = tb.state, tb2.is_acted = tb.is_acted, tb2.bet = tb.bet,
           st2 \in {"IDLE", "PREFLOP"} => st \in {"IDLE", "PREFLOP"},
           ctl2 = ctl \/ ctl \notin {"seating", "seated"} \/ ctl2 \in {"seating", "seated"}
              \/ tb.bet[BbSeat] # 0
    PROVE  View(d, ctl2, st2, tb2, cm)
<1>1. CASE d.crashed
  BY <1>1 DEF View
<1>2. CASE ~d.crashed
  <2>1. /\ ~c.crashed /\ d.bets = c.bets /\ d.states = c.states /\ d.community = c.community
    BY <1>2 DEF SameAccounts
  <2>2. ASSUME NEW s \in DOMAIN d.bets
        PROVE  SeatView(d, st2, tb2, s)
    <3>1. SeatView(c, st, tb, s)
      BY <2>1 DEF View
    <3>. QED
      BY <2>1, <3>1 DEF SeatView
  <2>. QED
    BY <2>1, <2>2 DEF View
<1>. QED
  BY <1>1, <1>2

\* What the table and the program are must not go on to ask more of a view.
SameView ==
    /\ community' = community
    /\ table'.state = table.state /\ table'.is_acted = table.is_acted /\ table'.bet = table.bet
    /\ stage' \in {"IDLE", "PREFLOP"} => stage \in {"IDLE", "PREFLOP"}
    /\ \/ control' = control \/ control \notin {"seating", "seated"}
       \/ control' \in {"seating", "seated", "trapped"} \/ table.bet[BbSeat] # 0

\* ViewStays: then what the client shows is still a view.
LEMMA ViewStays ==
    ASSUME ViewInv, Shown = client, control # "trapped", Shown' = client, client' = client,
           control' = "trapped" \/ SameView
    PROVE  ViewInv'
<1>1. SameAccounts(client, client) /\ Accounts(client')
  BY DEF ViewInv, SameAccounts
<1>2. View(client, control, stage, table, community)
  BY DEF ViewInv
<1>3. CASE control' # "trapped"
  <2>1. View(client, control', stage', table', community)
    BY <1>1, <1>2, <1>3, ViewKept DEF SameView
  <2>. QED
    BY <1>1, <1>3, <2>1 DEF ViewInv, SameView
<1>. QED
  BY <1>1, <1>3 DEF ViewInv

\* BlindShown: what a blind does to the table, as far as it is shown.
LEMMA BlindShown ==
    ASSUME NEW t \in TableType, NEW s \in Seat, NEW amount \in Nat, t.chips[s] > amount
    PROVE  LET x == PostBlind(t, s, amount)
           IN  /\ x \in TableType /\ x.state = t.state /\ x.bet = [t.bet EXCEPT ![s] = amount]
               /\ x.chips = [t.chips EXCEPT ![s] = t.chips[s] - amount]
               /\ x.is_acted = t.is_acted
<1>1. PICK x : x = PostBlind(t, s, amount)
  OBVIOUS
<1>2. /\ x \in TableType /\ x.state = t.state /\ x.bet = [t.bet EXCEPT ![s] = amount]
      /\ x.chips = [t.chips EXCEPT ![s] = t.chips[s] - amount]
  BY <1>1, PostedBlind
<1>3. x.is_acted = t.is_acted
  BY <1>1 DEF PostBlind, MoveChipsToPot, TableType
<1>. QED
  BY <1>1, <1>2, <1>3

\* BigBlindShown: what the big blind does to it.
LEMMA BigBlindShown ==
    ASSUME NEW t \in TableType, t.chips[BbSeat] > BigBlind,
           NEW x, x = PostBlind(t, BbSeat, BigBlind)
    PROVE  /\ x \in TableType /\ x.state = t.state /\ x.bet = [t.bet EXCEPT ![BbSeat] = BigBlind]
           /\ x.is_acted = t.is_acted
<1>1. BbSeat \in Seat /\ BigBlind \in Nat
  BY SeatArithmetic, BigBlindAssumption
<1>. QED
  BY <1>1, BlindShown, ZenonT(30)

\* OpenedView: the table as the handler of StartGame builds it up.
LEMMA OpenedView ==
    ASSUME HandSound, settled.control = "seated",
           NEW u, u = StartBettingRound(settled.table, "PREFLOP"),
           NEW v, v = PostBlind(u, SbSeat, SmallBlind),
           NEW w, w = PostBlind(v, BbSeat, BigBlind)
    PROVE  /\ u \in TableType /\ v \in TableType /\ w \in TableType
           /\ u.state = settled.table.state /\ v.state = u.state /\ w.state = u.state
           /\ u.bet = [s \in Seat |-> 0] /\ u.is_acted = [s \in Seat |-> FALSE]
           /\ v.bet = [u.bet EXCEPT ![SbSeat] = SmallBlind] /\ v.is_acted = u.is_acted
           /\ w.bet = [v.bet EXCEPT ![BbSeat] = BigBlind] /\ w.is_acted = u.is_acted
           /\ w.bet[BbSeat] # 0
<1>1. settled.table \in TableType /\ \A s \in Seat : settled.table.chips[s] > BigBlind
  BY DEF HandSound
<1>2. /\ u \in TableType /\ u.state = settled.table.state /\ u.chips = settled.table.chips
      /\ u.bet = [s \in Seat |-> 0]
  BY <1>1, StartedRound
<1>3. /\ SbSeat \in Seat /\ BbSeat \in Seat /\ SbSeat # BbSeat
      /\ BigBlind \in Nat /\ BigBlind >= 2 /\ SmallBlind \in Nat /\ SmallBlind < BigBlind
  BY SeatArithmetic, BigBlindAssumption DEF SmallBlind
<1>4. u.chips[SbSeat] > SmallBlind
  BY <1>1, <1>2, <1>3 DEF TableType
<1>5. /\ v \in TableType /\ v.state = u.state /\ v.bet = [u.bet EXCEPT ![SbSeat] = SmallBlind]
      /\ v.chips = [u.chips EXCEPT ![SbSeat] = u.chips[SbSeat] - SmallBlind]
  BY <1>2, <1>3, <1>4, BlindShown
<1>6. v.chips[BbSeat] > BigBlind
  BY <1>1, <1>2, <1>3, <1>5 DEF TableType
<1>7. /\ w \in TableType /\ w.state = v.state /\ w.bet = [v.bet EXCEPT ![BbSeat] = BigBlind]
      /\ w.is_acted = v.is_acted
  BY <1>5, <1>6, BigBlindShown
<1>8. u.is_acted = [s \in Seat |-> FALSE]
  BY <1>1 DEF StartBettingRound, SetupToStart, SetupBetting, TableType
<1>9. v.is_acted = u.is_acted
  BY <1>2, <1>3, <1>4, BlindShown, ZenonT(30)
<1>10. w.bet[BbSeat] = BigBlind
  BY <1>3, <1>5, <1>7 DEF TableType
<1>. QED
  BY <1>2, <1>3, <1>5, <1>7, <1>8, <1>9, <1>10

\* QuietView: the calls that the client is not told of.
LEMMA QuietView ==
    ASSUME NEW A, A \subseteq AnyAnswer, BusInv(A), BusStep, HandSound, ViewInv,
           client' = client, ~ShowingCall, ~StartBettingRoundCall
    PROVE  ViewInv'
<1>1. Shown = client /\ Shown' = client /\ control # "trapped"
  BY ShownBefore, ShownSame, BusTask DEF Running
<1>. SUFFICES control' = "trapped" \/ SameView
  BY <1>1, ViewStays
<1>2. CASE ControllerHandles \/ Branch \/ Return
  BY <1>2 DEF ControllerHandles, Branch, Return, SameView, vars
<1>3. CASE JoinNewPlayer \/ ShuffleDeck \/ DealHoleCardsCall \/ RevealAllHoleCardsCall
  BY <1>3 DEF JoinNewPlayer, PlayerJoinRequest, ShuffleDeck, DealHoleCardsCall,
              RevealAllHoleCardsCall, SameView
<1>4. CASE ComparePlayerHandsCall
  BY <1>4 DEF ComparePlayerHandsCall, SameView
<1>5. CASE ChangeStageCall
  <2>1. Calling("changeStage") /\ stage' = Task.arg /\ UNCHANGED <<control, table, community>>
    BY <1>5, Effects DEF ChangeStageCall, SetStage, Others
  <2>2. Where(A, Top) /\ Task = Head(Top) /\ Head(Top).op = "changeStage"
    BY <2>1, CallPlaced
  <2>3. CASE Opening(Top, 2)
    <3>1. settled.control = "seated" /\ stage = settled.stage
      BY <2>3 DEF Opening, At
    <3>. QED
      BY <2>1, <3>1 DEF HandSound, SameView
  <2>4. ASSUME NEW e \in A, StreetOpening(Top, e, 1), stage' = NextStage(settled.stage)
        PROVE  SameView
    <3>1. settled.control = "awaiting" /\ settled.stage # "RIVER"
      BY <2>4 DEF StreetOpening, At
    <3>2. settled.stage \in {"PREFLOP", "FLOP", "TURN"}
      BY <3>1 DEF HandSound, Streets
    <3>3. stage' \in {"FLOP", "TURN", "RIVER"}
      BY <2>4, <3>2 DEF NextStage
    <3>. QED
      BY <2>1, <3>3 DEF SameView
  <2>. QED
    BY <2>1, <2>2, <2>3, <2>4 DEF Where, SameView
<1>6. CASE SetCurrentStageCall
  <2>1. Calling("setCurrentStage") /\ stage' = Task.arg /\ UNCHANGED <<control, table, community>>
    BY <1>6, Effects DEF SetCurrentStageCall, SetStage, Others
  <2>2. Where(A, Top) /\ Task = Head(Top) /\ Head(Top).op = "setCurrentStage"
    BY <2>1, CallPlaced
  <2>. QED
    BY <2>1, <2>2 DEF Where, SameView
<1>7. CASE MoveActingPlayerCall
  <2>1. /\ Calling("moveActingPlayer") /\ table' = MoveActingPlayer(table)
        /\ UNCHANGED <<control, stage, community>>
    BY <1>7, Effects DEF MoveActingPlayerCall, TableCall, Others
  <2>2. Where(A, Top) /\ Head(Top).op = "moveActingPlayer"
    BY <2>1, CallPlaced
  <2>3. PICK e \in A : Continuing(Top, e, 1)
    BY <2>2 DEF Where
  <2>4. settled.control = "awaiting" /\ table = Answered(e) /\ e.target_bet \in Int
    BY <2>3 DEF Continuing, At, AnyAnswer
  <2>5. table \in TableType
    BY <2>4, AnswerKeepsTable DEF HandSound, Answered, AnsweredTable, SoundTable
  <2>. QED
    BY <2>1, <2>5 DEF MoveActingPlayer, TableType, SameView
<1>8. CASE AwaitPlayerAction
  <2>1. Calling("awaitPlayerAction") /\ control' = "awaiting" /\ UNCHANGED <<table, stage, community>>
    BY <1>8 DEF AwaitPlayerAction
  <2>2. Where(A, Top) /\ Head(Top).op = "awaitPlayerAction"
    BY <2>1, CallPlaced
  <2>3. CASE Opening(Top, 8)
    <3>1. settled.control = "seated" /\ table = PostBlinds(StartBettingRound(settled.table, "PREFLOP"))
      BY <2>3 DEF Opening, At, OpenedTable
    <3>2. table.bet[BbSeat] # 0
      BY <3>1, OpenedView, ZenonT(30) DEF PostBlinds
    <3>. QED
      BY <2>1, <3>2 DEF SameView
  <2>. QED
    BY <2>1, <2>2, <2>3 DEF Where, SameView
<1>9. CASE SplitPotCall
  <2>1. Calling("splitPot") /\ UNCHANGED <<table, stage, community>>
    BY <1>9 DEF SplitPotCall
  <2>2. Where(A, Top) /\ Head(Top).op = "splitPot"
    BY <2>1, CallPlaced
  <2>. QED
    BY <2>1, <2>2 DEF Where, SameView
<1>10. CASE DistributePotsCall
  <2>1. Calling("distributePots")
    BY <1>10 DEF DistributePotsCall
  <2>2. Where(A, Top) /\ Head(Top).op = "distributePots"
    BY <2>1, CallPlaced
  <2>3. control = "settling" /\ table = settled.table
    BY <2>2 DEF Where, Steady, At
  <2>4. table \in TableType
    BY <2>3 DEF HandSound
  <2>5. UNCHANGED <<stage, community>> /\ (table' = table \/ \E w : table' = DistributePot(table, w))
    BY <1>10 DEF DistributePotsCall, DistributePots, DistributeDeadPot, vars
  <2>. QED
    BY <2>3, <2>4, <2>5 DEF DistributePot, TableType, SameView
<1>11. CASE FinishGameCall
  BY <1>11 DEF FinishGameCall, FinishGame, SameView
<1>. QED
  BY <1>2, <1>3, <1>4, <1>5, <1>6, <1>7, <1>8, <1>9, <1>10, <1>11
  DEF BusStep, GameModelCall, ShowingCall

\* RoundView: the bets of the street before are not cleared, nor asked about.
LEMMA RoundView ==
    ASSUME NEW A, A \subseteq AnyAnswer, BusInv(A), BusStep, HandSound, ViewInv,
           client' = client, StartBettingRoundCall
    PROVE  ViewInv'
<1>1. /\ Calling("startBettingRound") /\ table' = StartBettingRound(table, stage)
      /\ UNCHANGED <<control, stage, community>>
  BY Effects DEF StartBettingRoundCall, TableCall, Others
<1>2. ~ShowingCall
  <2>1. Task.op = "startBettingRound"
    BY <1>1 DEF Calling
  <2>. QED
    BY <2>1 DEF ShowingCall, StartGameCall, PostSmallBlind, PostBigBlind, TableCall,
               DealCommunityCardsCall, HandlePlayerActionCall, Calling
<1>3. Shown = client /\ Shown' = client /\ control # "trapped"
  BY <1>2, ShownBefore, ShownSame, BusTask DEF Running
<1>4. Where(A, Top) /\ Head(Top).op = "startBettingRound"
  BY <1>1, CallPlaced
<1>5. Accounts(client') /\ Accounts(Shown')
  BY <1>3 DEF ViewInv
<1>. SUFFICES ASSUME ~client.crashed
              PROVE  View(client, control, stage, table', community)
  BY <1>1, <1>3, <1>5 DEF ViewInv, View
<1>6. /\ client.community = community
      /\ DOMAIN client.bets = {} => control \in {"seating", "seated"} /\ table.bet[BbSeat] = 0
      /\ \A s \in DOMAIN client.bets : SeatView(client, stage, table, s)
      /\ DOMAIN client.bets \subseteq Seat
  BY <1>3 DEF ViewInv, View, Accounts
<1>7. CASE Opening(Top, 5)
  <2>1. settled.control = "seated" /\ table = settled.table /\ stage = "PREFLOP"
    BY <1>7 DEF Opening, At, OpenedTable
  <2>2. table \in TableType /\ \A s \in Seat : table.state[s] = "ACTIVE" /\ table.bet[s] = 0
    BY <2>1 DEF HandSound
  <2>3. table'.state = table.state /\ table'.bet = [s \in Seat |-> 0]
    BY <1>1, <2>2, StartedRound
  <2>4. ASSUME NEW s \in DOMAIN client.bets
        PROVE  SeatView(client, stage, table', s)
    BY <1>6, <2>1, <2>2, <2>3 DEF SeatView
  <2>5. table'.bet[BbSeat] = 0
    BY <2>3, SeatArithmetic
  <2>. QED
    BY <1>6, <2>4, <2>5 DEF View
<1>8. ASSUME NEW e \in A, StreetOpening(Top, e, 3)
      PROVE  View(client, control, stage, table', community)
  <2>1. /\ settled.control = "awaiting" /\ control = "awaiting" /\ settled.stage # "RIVER"
        /\ table = Answered(e) /\ stage = NextStage(settled.stage) /\ e.target_bet \in Int
    BY <1>8 DEF StreetOpening, At, AnyAnswer
  <2>2. stage \in {"FLOP", "TURN", "RIVER"}
    <3>1. settled.stage \in {"PREFLOP", "FLOP", "TURN"}
      BY <2>1 DEF HandSound, Streets
    <3>. QED
      BY <2>1, <3>1 DEF NextStage
  <2>3. table \in TableType
    BY <2>1, AnswerKeepsTable DEF HandSound, Answered, AnsweredTable, SoundTable
  <2>4. table'.state = table.state
    BY <1>1, <2>3, StartedRound
  <2>5. table'.is_acted = [s \in Seat |-> FALSE]
    BY <1>1, <2>3 DEF StartBettingRound, SetupToStart, SetupBetting, TableType
  <2>6. ASSUME NEW s \in DOMAIN client.bets
        PROVE  SeatView(client, stage, table', s)
    BY <1>6, <2>2, <2>4, <2>5 DEF SeatView
  <2>. QED
    BY <1>6, <2>1, <2>6 DEF View
<1>. QED
  BY <1>4, <1>7, <1>8 DEF Where

\* StartView: GameStarted comes before any bet.
LEMMA StartView ==
    ASSUME NEW A, BusInv(A), BusStep, HandSound, ViewInv, client' = client, StartGameCall
    PROVE  ViewInv'
<1>1. PICK count \in StartedCounts : Enter(Publish(StartedEvent(count)))
  BY DEF StartGameCall
<1>2. PICK e : e = StartedEvent(count)
  OBVIOUS
<1>3. e.type = "GameStarted" /\ e.player_count \in {0, NumPlayers}
  BY <1>2, StartedCountsAssumption DEF StartedEvent, Event!GameStarted
<1>4. /\ Calling("startGame") /\ Top # << >> /\ UNCHANGED <<control, stage, table, community>>
      /\ control # "trapped"
  BY DEF StartGameCall, Calling, Busy, Running, vars
<1>5. Shown' = Handle(client, e) /\ Shown = client
  BY <1>1, <1>2, <1>3, <1>4, ShownBefore, ShownSaid DEF Visible
<1>6. Opening(Top, 1)
  BY <1>4, CallPlaced DEF Where
<1>7. /\ settled.control = "seated" /\ control = "seated" /\ table = settled.table
      /\ stage = settled.stage
  BY <1>6 DEF Opening, At, OpenedTable
<1>8. stage = "IDLE" /\ \A s \in Seat : table.state[s] = "ACTIVE" /\ table.bet[s] = 0
  BY <1>7 DEF HandSound
<1>9. CASE client.crashed
  BY <1>4, <1>5, <1>9 DEF Handle, ViewInv, View
<1>10. CASE ~client.crashed
  <2>1. /\ client.community = community
        /\ \A s \in DOMAIN client.bets : SeatView(client, stage, table, s)
        /\ DOMAIN client.bets \subseteq Seat
    BY <1>4, <1>5, <1>10 DEF ViewInv, View, Accounts
  <2>2. \A s \in DOMAIN client.bets : client.bets[s] = 0
    BY <1>8, <2>1 DEF SeatView
  <2>3. PICK d : d = HandleGameStarted(client, e)
    OBVIOUS
  <2>4. Shown' = d
    BY <1>3, <1>5, <1>10, <2>3 DEF Handle
  <2>5. /\ Accounts(d) /\ d.community = client.community
        /\ \A s \in DOMAIN d.bets : d.bets[s] = 0 /\ d.states[s] = "IDLE"
    BY <1>3, <2>2, <2>3, StartedAccounts DEF ViewInv
  <2>6. DOMAIN d.bets \subseteq Seat
    BY <2>5 DEF Accounts
  <2>7. \A s \in DOMAIN d.bets : SeatView(d, stage, table, s)
    BY <1>8, <2>5, <2>6 DEF SeatView
  <2>8. View(d, control, stage, table, community)
    BY <1>7, <1>8, <2>1, <2>5, <2>7, SeatArithmetic DEF View
  <2>. QED
    BY <1>4, <2>4, <2>5, <2>8 DEF ViewInv
<1>. QED
  BY <1>9, <1>10

\* BetView: a bet is shown when it is told as the table has it.
LEMMA BetView ==
    ASSUME NEW c, Accounts(c), ~c.crashed, NEW ctl, NEW st, NEW tb, NEW cm,
           View(c, ctl, st, tb, cm),
           NEW s \in Seat, NEW bet, NEW status, NEW d, Betting(c, d, s, bet, status),
           NEW tb2, \A v \in Seat \ {s} : /\ tb2.state[v] = tb.state[v] /\ tb2.bet[v] = tb.bet[v]
                                          /\ tb2.is_acted[v] = tb.is_acted[v],
           status = "FOLDED" <=> tb2.state[s] = "FOLDED",
           status = "ALL_IN" <=> tb2.state[s] = "ALL_IN",
           bet = IF tb2.state[s] = "FOLDED" THEN 0 ELSE tb2.bet[s]
    PROVE  View(d, ctl, st, tb2, cm)
<1>. SUFFICES ASSUME ~d.crashed PROVE View(d, ctl, st, tb2, cm)
  BY DEF View
<1>1. /\ s \in DOMAIN c.bets /\ d.community = c.community
      /\ d.bets = [c.bets EXCEPT ![s] = bet] /\ d.states = [c.states EXCEPT ![s] = status]
  BY DEF Betting
<1>2. /\ c.community = cm /\ \A v \in DOMAIN c.bets : SeatView(c, st, tb, v)
  BY DEF View
<1>3. /\ DOMAIN d.bets = DOMAIN c.bets /\ DOMAIN c.bets \subseteq Seat
      /\ c.bets \in [DOMAIN c.bets -> Int] /\ c.states \in [DOMAIN c.bets -> PlayerStatus]
  BY <1>1 DEF Accounts
<1>4. ASSUME NEW v \in DOMAIN d.bets
      PROVE  SeatView(d, st, tb2, v)
  <2>1. CASE v = s
    <3>1. d.bets[v] = bet /\ d.states[v] = status
      BY <1>1, <1>3, <2>1
    <3>. QED
      BY <2>1, <3>1 DEF SeatView
  <2>2. CASE v # s
    <3>1. d.bets[v] = c.bets[v] /\ d.states[v] = c.states[v]
      BY <1>1, <1>3, <2>2
    <3>2. SeatView(c, st, tb, v) /\ v \in Seat \ {s}
      BY <1>2, <1>3, <2>2
    <3>. QED
      BY <3>1, <3>2 DEF SeatView
  <2>. QED
    BY <2>1, <2>2
<1>. QED
  BY <1>1, <1>2, <1>3, <1>4 DEF View

\* BlindView: a blind is posted where there was no bet.
LEMMA BlindView ==
    ASSUME NEW A, BusInv(A), BusStep, HandSound, ViewInv, client' = client,
           NEW s \in Seat, NEW amount \in Int, NEW big \in BOOLEAN,
           Enter(Publish(Event!BlindPosted(s, amount, big))), Top # << >>,
           UNCHANGED <<control, stage, community>>, stage \in {"IDLE", "PREFLOP"},
           table.state[s] = "ACTIVE", table.bet[s] = 0,
           table'.state = table.state, table'.is_acted = table.is_acted,
           table'.bet[s] = amount, \A v \in Seat \ {s} : table'.bet[v] = table.bet[v]
    PROVE  ViewInv'
<1>1. PICK e : e = Event!BlindPosted(s, amount, big)
  OBVIOUS
<1>2. e.type = "BlindPosted" /\ e.player = s /\ e.amount = amount
  BY <1>1 DEF Event!BlindPosted
<1>3. Shown' = Handle(client, e) /\ Shown = client /\ control # "trapped"
  BY <1>1, <1>2, ShownBefore, ShownSaid, BusTask DEF Visible, Running
<1>4. CASE client.crashed
  BY <1>3, <1>4 DEF Handle, ViewInv, View
<1>5. CASE ~client.crashed
  <2>1. /\ Accounts(client) /\ View(client, control, stage, table, community)
        /\ \A v \in DOMAIN client.bets : SeatView(client, stage, table, v)
    BY <1>3, <1>5 DEF ViewInv, View
  <2>2. s \in DOMAIN client.bets => client.bets[s] = 0
    BY <2>1 DEF SeatView
  <2>3. PICK status : status = IF e.is_big_blind THEN "BIG_BLIND" ELSE "SMALL_BLIND"
    OBVIOUS
  <2>4. PICK d : d = HandleBlindPosted(client, e)
    OBVIOUS
  <2>5. Shown' = d
    BY <1>2, <1>3, <1>5, <2>4 DEF Handle
  <2>6. Betting(client, d, s, amount, status)
    BY <1>2, <2>1, <2>2, <2>3, <2>4, BlindAccounts
  <2>7. status # "FOLDED" /\ status # "ALL_IN"
    BY <2>3
  <2>8. View(d, control, stage, table', community)
    BY <1>5, <2>1, <2>6, <2>7, BetView
  <2>. QED
    BY <2>1, <2>5, <2>6, <2>8 DEF ViewInv, Betting
<1>. QED
  BY <1>4, <1>5

\* BlindsView: so is the small blind, and then the big one.
LEMMA BlindsView ==
    ASSUME NEW A, BusInv(A), BusStep, HandSound, ViewInv, client' = client,
           PostSmallBlind \/ PostBigBlind
    PROVE  ViewInv'
<1>. DEFINE u == StartBettingRound(settled.table, "PREFLOP")
            v == PostBlind(u, SbSeat, SmallBlind)
            w == PostBlind(v, BbSeat, BigBlind)
<1>1. /\ SbSeat \in Seat /\ BbSeat \in Seat /\ SbSeat # BbSeat
      /\ SmallBlind \in Int /\ BigBlind \in Int
  BY SeatArithmetic, BigBlindAssumption DEF SmallBlind
<1>2. settled.control = "seated" =>
        /\ u \in TableType /\ v \in TableType
        /\ \A s \in Seat : u.state[s] = "ACTIVE" /\ v.state[s] = "ACTIVE"
        /\ v.state = u.state /\ w.state = v.state
        /\ u.bet = [s \in Seat |-> 0]
        /\ v.bet = [u.bet EXCEPT ![SbSeat] = SmallBlind] /\ v.is_acted = u.is_acted
        /\ w.bet = [v.bet EXCEPT ![BbSeat] = BigBlind] /\ w.is_acted = v.is_acted
  BY OpenedView DEF HandSound
<1>3. CASE PostSmallBlind
  <2>1. /\ Calling("postSmallBlind") /\ table' = PostBlind(table, SbSeat, SmallBlind)
        /\ UNCHANGED <<control, stage, community>> /\ Top # << >>
        /\ Enter(PublishAll(<<Event!BlindPosted(SbSeat, SmallBlind, FALSE)>>))
    BY <1>3 DEF PostSmallBlind, TableCall, Calling, Busy
  <2>2. Opening(Top, 6)
    BY <2>1, CallPlaced DEF Where
  <2>3. settled.control = "seated" /\ table = u /\ stage = "PREFLOP"
    BY <2>2 DEF Opening, At, OpenedTable
  <2>4. table' = v
    BY <2>1, <2>3
  <2>5. Enter(Publish(Event!BlindPosted(SbSeat, SmallBlind, FALSE)))
    BY <2>1, PublishOne DEF Event!BlindPosted, Announcements
  <2>. HIDE DEF u, v, w
  <2>6. /\ table.bet[SbSeat] = 0 /\ table.state[SbSeat] = "ACTIVE" /\ table'.bet[SbSeat] = SmallBlind
        /\ \A s \in Seat \ {SbSeat} : table'.bet[s] = table.bet[s]
        /\ table'.state = table.state /\ table'.is_acted = table.is_acted
    BY <1>1, <1>2, <2>3, <2>4
  <2>. QED
    BY <1>1, <2>1, <2>3, <2>5, <2>6, BlindView
<1>4. CASE PostBigBlind
  <2>1. /\ Calling("postBigBlind") /\ table' = PostBlind(table, BbSeat, BigBlind)
        /\ UNCHANGED <<control, stage, community>> /\ Top # << >>
        /\ Enter(PublishAll(<<Event!BlindPosted(BbSeat, BigBlind, TRUE)>>))
    BY <1>4 DEF PostBigBlind, TableCall, Calling, Busy
  <2>2. Opening(Top, 7)
    BY <2>1, CallPlaced DEF Where
  <2>3. settled.control = "seated" /\ table = v /\ stage = "PREFLOP"
    BY <2>2 DEF Opening, At, OpenedTable
  <2>4. table' = w
    BY <2>1, <2>3
  <2>5. Enter(Publish(Event!BlindPosted(BbSeat, BigBlind, TRUE)))
    BY <2>1, PublishOne DEF Event!BlindPosted, Announcements
  <2>. HIDE DEF u, v, w
  <2>6. /\ table.bet[BbSeat] = 0 /\ table.state[BbSeat] = "ACTIVE" /\ table'.bet[BbSeat] = BigBlind
        /\ \A s \in Seat \ {BbSeat} : table'.bet[s] = table.bet[s]
        /\ table'.state = table.state /\ table'.is_acted = table.is_acted
    BY <1>1, <1>2, <2>3, <2>4
  <2>. QED
    BY <1>1, <2>1, <2>3, <2>5, <2>6, BlindView
<1>. QED
  BY <1>3, <1>4

\* BoardView: the board is told as it is dealt.
LEMMA BoardView ==
    ASSUME NEW A, BusInv(A), BusStep, ViewInv, client' = client, DealCommunityCardsCall
    PROVE  ViewInv'
<1>1. PICK e : e = Event!CommunityCardsDealt(community')
  OBVIOUS
<1>2. e.type = "CommunityCardsDealt" /\ e.community_cards = community'
  BY <1>1 DEF Event!CommunityCardsDealt
<1>3. /\ Enter(Publish(e)) /\ Top # << >> /\ UNCHANGED <<control, stage, table>>
      /\ control # "trapped"
  BY <1>1 DEF DealCommunityCardsCall, Calling, Busy, Running
<1>4. Shown' = Handle(client, e) /\ Shown = client
  BY <1>2, <1>3, ShownBefore, ShownSaid DEF Visible
<1>5. CASE client.crashed
  BY <1>3, <1>4, <1>5 DEF Handle, ViewInv, View
<1>6. CASE ~client.crashed
  <2>1. Accounts(client) /\ View(client, control, stage, table, community)
    BY <1>3, <1>4 DEF ViewInv
  <2>2. PICK d : d = HandleCommunityCardsDealt(client, e)
    OBVIOUS
  <2>3. Shown' = d
    BY <1>2, <1>4, <1>6, <2>2 DEF Handle
  <2>4. SameAccounts(client, d) /\ d.community = community'
    BY <1>2, <2>1, <2>2, ShownAccounts
  <2>5. View(d, control, stage, table, community')
    <3>1. ASSUME ~d.crashed, NEW s \in DOMAIN d.bets
          PROVE  SeatView(d, stage, table, s)
      BY <1>6, <2>1, <2>4, <3>1 DEF SameAccounts, View, SeatView
    <3>. QED
      BY <1>6, <2>1, <2>4, <3>1 DEF SameAccounts, View
  <2>. QED
    BY <1>3, <2>1, <2>3, <2>4, <2>5 DEF ViewInv, SameAccounts
<1>. QED
  BY <1>5, <1>6

\* ActionTaken: get_action folds nobody, and says what it says all in.
LEMMA ActionTaken ==
    ASSUME NEW t, TurnTable(t), NEW target \in Int
    PROVE  LET action == ProcessBetting(Context(t), target).action
           IN  /\ action # "FOLD"
               /\ StatusOf(action) = "ALL_IN" <=> action \in AllIns
               /\ StatusOf(action) # "FOLDED"
<1>1. PICK c : c = Context(t)
  OBVIOUS
<1>2. c.round_bet \in Int /\ c.can_raise \in BOOLEAN
  BY <1>1 DEF Context, CanPlayerRaise, TurnTable, SoundTable, TableType, ActiveSeats
<1>3. GetAction(c, target) \in Action \ {"FOLD"}
  <2>1. AllInAction(c, target) \in Action \ {"FOLD"}
    BY <1>2 DEF AllInAction, IsIncompleteCall, IsCompleteCall, Action
  <2>. QED
    BY <2>1 DEF GetAction, Action
<1>4. \A a \in Action \ {"FOLD"} :
        /\ StatusOf(a) = "ALL_IN" <=> a \in AllIns
        /\ StatusOf(a) # "FOLDED"
  BY DEF Action, StatusOf, AllIns
<1>5. ProcessBetting(c, target).action = GetAction(c, target)
  BY DEF ProcessBetting
<1>. QED
  BY <1>1, <1>3, <1>4, <1>5

\* FoldShown: what a fold does to the table, as far as it is shown.
LEMMA FoldShown ==
    ASSUME NEW t, TurnTable(t), NEW u, u = ApplyAction(t, "FOLD")
    PROVE  LET s == t.acting_player
           IN  /\ u.state[s] = "FOLDED"
               /\ \A v \in Seat \ {s} : /\ u.state[v] = t.state[v] /\ u.bet[v] = t.bet[v]
                                        /\ u.is_acted[v] = t.is_acted[v]
<1>1. t \in TableType /\ t.acting_player \in Seat
  BY DEF TurnTable, SoundTable, ActiveSeats
<1>2. PICK s : s = t.acting_player
  OBVIOUS
<1>3. /\ u.state = [t.state EXCEPT ![s] = "FOLDED"] /\ u.bet = t.bet
      /\ u.is_acted = [t.is_acted EXCEPT ![s] = TRUE]
  BY <1>1, <1>2 DEF ApplyAction, TableType
<1>. QED
  BY <1>1, <1>2, <1>3 DEF TableType

\* PlacedShown: so does an accepted bet.
LEMMA PlacedShown ==
    ASSUME NEW t, TurnTable(t), NEW target \in Int,
           NEW r, r = ProcessBetting(Context(t), target), IsValid(r), r.action # "FOLD",
           NEW u, u = PlaceBet(t, r)
    PROVE  LET s == t.acting_player
           IN  /\ u.state[s] = IF r.action \in AllIns THEN "ALL_IN" ELSE "ACTIVE"
               /\ u.bet[s] = target
               /\ \A v \in Seat \ {s} : /\ u.state[v] = t.state[v] /\ u.bet[v] = t.bet[v]
                                        /\ u.is_acted[v] = t.is_acted[v]
<1>1. t \in TableType /\ t.acting_player \in Seat /\ t.state[t.acting_player] = "ACTIVE"
  BY DEF TurnTable, SoundTable, ActiveSeats
<1>2. PICK s : s = t.acting_player
  OBVIOUS
<1>3. /\ u.state = [t.state EXCEPT ![s] = IF r.action = "FOLD" THEN "FOLDED"
                                          ELSE IF r.action \in AllIns THEN "ALL_IN" ELSE t.state[s]]
      /\ u.is_acted = [t.is_acted EXCEPT ![s] = TRUE]
  BY <1>1, <1>2 DEF PlaceBet, ApplyAction, MoveChipsToPot, TableType
<1>4. r.player_bet = target
  BY DEF ProcessBetting
<1>5. u.bet = [t.bet EXCEPT ![s] = target]
  BY <1>1, <1>2, <1>4 DEF PlaceBet, ApplyAction, MoveChipsToPot, TableType
<1>. QED
  BY <1>1, <1>2, <1>3, <1>5 DEF TableType

\* ActView: an answer is told with the bet that it comes to, a fold with none.
LEMMA ActView ==
    ASSUME NEW A, A \subseteq AnyAnswer, BusInv(A), BusStep, HandSound, ViewInv,
           client' = client, HandlePlayerActionCall
    PROVE  ViewInv'
<1>1. /\ Calling("handlePlayerAction") /\ table' = HandlePlayerAction(table, Task.arg)
      /\ UNCHANGED <<control, stage, community>> /\ Top # << >> /\ control # "trapped"
      /\ Enter(PublishAll(ActedEvent(table.acting_player, Task.arg)))
  BY DEF HandlePlayerActionCall, TableCall, Calling, Busy, Running
<1>2. Shown = client
  BY ShownBefore
<1>3. Where(A, Top) /\ Task = Head(Top) /\ Head(Top).op = "handlePlayerAction" /\ Head(Top).do = "call"
  BY <1>1, CallPlaced
<1>4. PICK a \in A : Handling(Top, a)
  BY <1>3 DEF Where
<1>5. Task.arg = Answer(a)
  <2>1. Head(<<Deliver("controller", Answer(a))>>).do # "call"
    BY DEF Deliver
  <2>2. Head(<<CallWith("handlePlayerAction", Answer(a)), Call("branch")>>).arg = Answer(a)
    BY DEF CallWith
  <2>. QED
    BY <1>3, <1>4, <2>1, <2>2 DEF Handling
<1>6. PICK event : event = Task.arg
  OBVIOUS
<1>7. event.target_bet \in Int /\ event.is_fold \in BOOLEAN
  BY <1>5, <1>6 DEF Answer, Event!PlayerAction, AnyAnswer
<1>8. settled.control = "awaiting" /\ table = settled.table /\ control = "awaiting"
  BY <1>4 DEF Handling, Steady, At
<1>9. TurnTable(table)
  BY <1>8 DEF HandSound
<1>10. PICK result : result = ProcessBetting(Context(table), event.target_bet)
  OBVIOUS
<1>11. PICK s : s = table.acting_player
  OBVIOUS
<1>12. s \in Seat /\ table \in TableType
  BY <1>9, <1>11 DEF TurnTable, SoundTable, ActiveSeats
<1>13. ASSUME NEW bet \in Int, NEW action, NEW e, e = Event!PlayerActed(s, bet, action),
              ActedEvent(s, event) = <<e>>,
              \A v \in Seat \ {s} : /\ table'.state[v] = table.state[v] /\ table'.bet[v] = table.bet[v]
                                    /\ table'.is_acted[v] = table.is_acted[v],
              StatusOf(action) = "FOLDED" <=> table'.state[s] = "FOLDED",
              StatusOf(action) = "ALL_IN" <=> table'.state[s] = "ALL_IN",
              bet = IF table'.state[s] = "FOLDED" THEN 0 ELSE table'.bet[s]
       PROVE  ViewInv'
  <2>1. e.type = "PlayerActed" /\ e.player = s /\ e.bet = bet /\ e.action = action
    BY <1>13 DEF Event!PlayerActed
  <2>2. Enter(Publish(e))
    BY <1>1, <1>6, <1>11, <1>13, PublishOne
  <2>3. Shown' = Handle(client, e)
    BY <1>1, <2>1, <2>2, ShownSaid DEF Visible
  <2>4. CASE client.crashed
    BY <1>1, <1>2, <2>3, <2>4 DEF Handle, ViewInv, View
  <2>5. CASE ~client.crashed
    <3>1. Accounts(client) /\ View(client, control, stage, table, community)
      BY <1>1, <1>2, <2>5 DEF ViewInv
    <3>2. PICK d : d = HandlePlayerActed(client, e)
      OBVIOUS
    <3>3. Shown' = d
      BY <2>1, <2>3, <2>5, <3>2 DEF Handle
    <3>4. PICK status : status = StatusOf(action)
      OBVIOUS
    <3>5. Betting(client, d, s, bet, status)
      BY <2>1, <3>1, <3>2, <3>4, ActedAccounts
    <3>6. View(d, control, stage, table', community)
      BY <1>12, <1>13, <2>5, <3>1, <3>4, <3>5, BetView
    <3>. QED
      BY <1>1, <3>1, <3>3, <3>5, <3>6 DEF ViewInv, Betting
  <2>. QED
    BY <2>4, <2>5
<1>14. CASE event.is_fold
  <2>1. table' = ApplyAction(table, "FOLD")
    BY <1>1, <1>6, <1>14 DEF HandlePlayerAction
  <2>2. /\ table'.state[s] = "FOLDED"
        /\ \A v \in Seat \ {s} : /\ table'.state[v] = table.state[v] /\ table'.bet[v] = table.bet[v]
                                 /\ table'.is_acted[v] = table.is_acted[v]
    BY <1>9, <1>11, <1>12, <2>1, FoldShown
  <2>3. StatusOf("FOLD") = "FOLDED"
    BY DEF StatusOf
  <2>4. ActedEvent(s, event) = <<Event!PlayerActed(s, 0, "FOLD")>>
    BY <1>14 DEF ActedEvent
  <2>. QED
    BY <1>13, <2>2, <2>3, <2>4
<1>15. CASE ~event.is_fold /\ IsValid(result)
  <2>1. table' = PlaceBet(table, result)
    BY <1>1, <1>6, <1>10, <1>15 DEF HandlePlayerAction
  <2>2. result.player_bet = event.target_bet
    BY <1>10 DEF ProcessBetting
  <2>3. PICK action : action = result.action
    OBVIOUS
  <2>4. /\ action # "FOLD" /\ (StatusOf(action) = "ALL_IN" <=> action \in AllIns)
        /\ StatusOf(action) # "FOLDED"
    BY <1>7, <1>9, <1>10, <2>3, ActionTaken
  <2>5. /\ table'.bet[s] = event.target_bet
        /\ table'.state[s] = IF action \in AllIns THEN "ALL_IN" ELSE "ACTIVE"
        /\ \A v \in Seat \ {s} : /\ table'.state[v] = table.state[v] /\ table'.bet[v] = table.bet[v]
                                 /\ table'.is_acted[v] = table.is_acted[v]
    BY <1>7, <1>9, <1>10, <1>11, <1>15, <2>1, <2>3, <2>4, PlacedShown
  <2>6. ActedEvent(s, event) = <<Event!PlayerActed(s, event.target_bet, action)>>
    BY <1>10, <1>15, <2>2, <2>3 DEF ActedEvent
  <2>. QED
    BY <1>7, <1>13, <2>4, <2>5, <2>6
<1>16. CASE ~event.is_fold /\ ~IsValid(result)
  <2>1. table' = table
    BY <1>1, <1>6, <1>10, <1>16 DEF HandlePlayerAction
  <2>2. ActedEvent(s, event) = << >>
    BY <1>10, <1>16 DEF ActedEvent
  <2>3. Enter(<< >>)
    BY <1>1, <1>6, <1>11, <2>2, PublishNone
  <2>4. Shown' = client
    BY <1>1, <2>3, ShownQuiet
  <2>. QED
    BY <1>1, <1>2, <2>1, <2>4, ViewStays DEF SameView
<1>. QED
  BY <1>7, <1>14, <1>15, <1>16

\* ViewSteps: every step of the server, and of ServerIoAdapter, keeps the view.
LEMMA ViewSteps ==
    ASSUME ServerInv, HandSound, ViewInv, [ClientGameNext]_gameVars
    PROVE  ViewInv'
<1>1. PICK A : A \subseteq AnyAnswer /\ BusInv(A)
  BY DEF ServerInv
<1>2. CASE BusStep /\ UNCHANGED clientVars
  <2>1. client' = client
    BY <1>2 DEF clientVars
  <2>2. ASSUME ~ShowingCall, ~StartBettingRoundCall
        PROVE  ViewInv'
    BY <1>1, <1>2, <2>1, <2>2, QuietView
  <2>3. CASE StartBettingRoundCall
    BY <1>1, <1>2, <2>1, <2>3, RoundView
  <2>4. CASE StartGameCall
    BY <1>1, <1>2, <2>1, <2>4, StartView
  <2>5. CASE PostSmallBlind \/ PostBigBlind
    BY <1>1, <1>2, <2>1, <2>5, BlindsView
  <2>6. CASE DealCommunityCardsCall
    BY <1>1, <1>2, <2>1, <2>6, BoardView
  <2>7. CASE HandlePlayerActionCall
    BY <1>1, <1>2, <2>1, <2>7, ActView
  <2>. QED
    BY <2>2, <2>3, <2>4, <2>5, <2>6, <2>7 DEF ShowingCall
<1>3. CASE IoForwards
  <2>1. /\ Shown' = client' /\ control # "trapped"
        /\ UNCHANGED <<control, stage, table, community>>
    BY <1>3, ShownForwarded DEF IoForwards, Delivering, Busy, Running, vars
  <2>2. Accounts(Shown) /\ View(Shown, control, stage, table, community)
    BY <2>1 DEF ViewInv
  <2>3. CASE client' = Shown
    BY <2>1, <2>2, <2>3 DEF ViewInv
  <2>4. ASSUME Shown = client, NEW e, client' = HandleHoleCardsDealt(client, e)
        PROVE  ViewInv'
    <3>1. /\ SameAccounts(client, client')
          /\ client'.crashed \/ client'.community = client.community
      BY <2>2, <2>4, ShownAccounts
    <3>2. View(client', control, stage, table, community)
      BY <2>2, <2>4, <3>1, ViewKept
    <3>. QED
      BY <2>1, <3>1, <3>2 DEF ViewInv, SameAccounts
  <2>. QED
    BY <1>3, <2>3, <2>4, ShownForwarded
<1>4. CASE IoJoins
  <2>1. UNCHANGED <<control, stage, table, community, client>> /\ control # "trapped"
    BY <1>4 DEF IoJoins, Delivering, Busy, Running, vars, clientVars
  <2>2. Shown = client
    BY <1>4 DEF IoJoins, Shown, Visible
  <2>3. Shown' = client
    BY <1>4, <2>1, JoinedSteps, ShownNone
  <2>. QED
    BY <2>1, <2>2, <2>3, ViewStays DEF SameView
<1>5. CASE AcceptClient \/ StartRequest \/ ReceiveAction
  <2>1. Idle /\ control # "trapped" /\ client' = client
    BY <1>5 DEF AcceptClient, StartRequest, SetChips, ReceiveAction, clientVars
  <2>2. Shown = client
    BY <2>1 DEF Idle, Shown, Delivering, Busy, Running
  <2>3. SameView
    <3>1. CASE UNCHANGED vars
      BY <3>1 DEF SameView, vars
    <3>2. CASE StartRequest
      <4>1. table \in TableType
        BY <1>1, <2>1, IdleResting DEF Steady, At, HandSound
      <4>2. /\ UNCHANGED <<community, stage>> /\ control = "seating" /\ control' = "seated"
            /\ \E stacks : table' = [table EXCEPT !.chips = stacks]
        BY <3>2 DEF StartRequest, SetChips
      <4>. QED
        BY <4>1, <4>2 DEF SameView, TableType
    <3>. QED
      BY <1>5, <3>1, <3>2 DEF AcceptClient, ReceiveAction
  <2>4. Shown' = client
    <3>1. CASE StartRequest \/ ReceiveAction
      BY <1>5, <2>1, <3>1, LoopSteps, ShownNone
    <3>2. CASE AcceptClient
      <4>1. PICK e : e = Event!ClientConnected(player_count)
        OBVIOUS
      <4>2. e.type = "ClientConnected" /\ e.type \notin Visible
        BY <4>1 DEF Event!ClientConnected, Visible
      <4>3. /\ stack' = <<<<Deliver("io", e)>>>> /\ control' # "trapped"
        BY <2>1, <3>2, <4>1, <4>2, IoAlone DEF AcceptClient, vars
      <4>4. stack' # << >> /\ Head(stack') = <<Deliver("io", e)>>
        BY <4>3
      <4>. QED
        BY <2>1, <4>2, <4>3, <4>4, ShownTop
    <3>. QED
      BY <1>5, <3>1, <3>2
  <2>. QED
    BY <2>1, <2>2, <2>3, <2>4, ViewStays
<1>6. CASE ServerOver \/ UNCHANGED gameVars
  <2>1. UNCHANGED <<control, stage, table, community, stack, client>>
    BY <1>6 DEF ServerOver, gameVars, busVars, vars, clientVars
  <2>2. Shown' = Shown
    BY <2>1 DEF Shown, Delivering, Busy, Running, Task, Top
  <2>. QED
    BY <2>1, <2>2 DEF ViewInv
<1>. QED
  BY <1>2, <1>3, <1>4, <1>5, <1>6 DEF ClientGameNext

\* ViewStarts: a client that knows of nobody has a view of a table without bets.
LEMMA ViewStarts == ClientGameInit => ViewInv
<1>1. SUFFICES ASSUME ClientGameInit PROVE ViewInv
  OBVIOUS
<1>2. PICK seat \in SeatGuess : client = NewClient(seat)
  BY <1>1 DEF ClientGameInit
<1>3. Accounts(client) /\ client.bets = << >> /\ client.community = 0
  BY <1>2, NewAccounts DEF NewClient
<1>4. Shown = client
  BY <1>1 DEF ClientGameInit, Shown, Delivering, Busy, Running
<1>5. control = "seating" /\ community = 0 /\ table = NewTable
  BY <1>1 DEF ClientGameInit, Init
<1>6. table.bet[BbSeat] = 0
  BY <1>5, SeatArithmetic DEF NewTable
<1>7. DOMAIN client.bets = {}
  BY <1>3
<1>. QED
  BY <1>3, <1>4, <1>5, <1>6, <1>7 DEF ViewInv, View

\* ViewReached: for any table, stakes and answers the client's view holds.
LEMMA ViewReached == ClientGameSpec => []ViewInv
<1>. QED
  BY ViewStarts, ViewSteps, ServerReached, HandIsSound, PTL DEF ClientGameSpec

-----------------------------------------------------------------------------
(* What a client shows when the server waits, or when the hand is over.    *)

\* ViewAtRest: then the client has been told everything, and has a place for
\* every seat.
LEMMA ViewAtRest ==
    ASSUME ServerInv, HandSound, ViewInv, UpToDate
    PROVE  /\ client.community = community
           /\ DOMAIN client.bets = Seat
           /\ \A s \in Seat : SeatView(client, stage, table, s)
           /\ control = "awaiting" => TurnTable(table)
           /\ stage = "PREFLOP" =>
                 control = "awaiting" /\ BetsAreCommitted(table) /\ PotLedger(table)
<1>1. Idle /\ control \in {"awaiting", "ended"} /\ ~client.crashed
  BY DEF UpToDate
<1>2. Shown = client
  BY <1>1 DEF Idle, Shown, Delivering, Busy, Running
<1>3. Accounts(client) /\ View(client, control, stage, table, community)
  BY <1>1, <1>2 DEF ViewInv
<1>4. DOMAIN client.bets = Seat
  BY <1>1, <1>3 DEF View, Accounts
<1>5. PICK A : BusInv(A)
  BY DEF ServerInv
<1>6. control = settled.control /\ stage = settled.stage /\ table = settled.table
  BY <1>1, <1>5, IdleResting DEF Steady, At
<1>7. stage = "PREFLOP" => control = "awaiting"
  BY <1>1, <1>6 DEF HandSound
<1>. QED
  BY <1>1, <1>3, <1>4, <1>6, <1>7 DEF View, HandSound

\* FoldedApart: the pot is short of what the seats that folded had bet.
LEMMA FoldedApart ==
    ASSUME NEW t, TurnTable(t), BetsAreCommitted(t), PotLedger(t),
           NEW bets \in [Seat -> Int],
           \A s \in Seat : bets[s] = IF t.state[s] = "FOLDED" THEN 0 ELSE t.bet[s]
    PROVE  SumFunction(bets) = t.pot - SumFunctionOnSet(t.committed, Seat \ AliveSeats(t))
<1>. DEFINE Out == Seat \ AliveSeats(t)
            lost == [s \in Seat |-> IF s \in Out THEN t.committed[s] ELSE 0]
<1>1. IsFiniteSet(Seat) /\ IsFiniteSet(Out)
  BY SeatArithmetic, FS_Subset
<1>2. \A s \in Seat : t.committed[s] \in Int /\ t.committed[s] = t.bet[s]
  BY DEF TurnTable, SoundTable, TableType, BetsAreCommitted
<1>3. \A s \in Seat : s \in Out <=> t.state[s] = "FOLDED"
  BY DEF TurnTable, SoundTable, SoundSeat, TableType, PlayerState, AliveSeats, AliveStates
<1>4. \A s \in Seat : /\ bets[s] \in Int /\ lost[s] \in Int
                      /\ t.committed[s] = bets[s] + lost[s]
  BY <1>2, <1>3
<1>5. SumFunctionOnSet(t.committed, Seat) =
        SumFunctionOnSet(bets, Seat) + SumFunctionOnSet(lost, Seat)
  BY <1>1, <1>4, SumTogether
<1>6. SumFunctionOnSet(lost, Seat) = SumFunctionOnSet(lost, Out)
  <2>1. Out \in SUBSET Seat /\ \A s \in Seat \ Out : lost[s] = 0
    OBVIOUS
  <2>. QED
    BY <1>1, <1>4, <2>1, SumOver
<1>7. SumFunctionOnSet(lost, Out) = SumFunctionOnSet(t.committed, Out)
  <2>1. \A s \in Out : lost[s] = t.committed[s]
    OBVIOUS
  <2>. QED
    BY <1>1, <2>1, SumSame
<1>8. t.pot = SumFunctionOnSet(t.committed, Seat)
  BY DEF PotLedger, ChipsOf, SumFunction, TurnTable, SoundTable, TableType
<1>9. SumFunction(bets) = SumFunctionOnSet(bets, Seat)
  BY DEF SumFunction
<1>10. SumFunctionOnSet(bets, Seat) \in Int /\ SumFunctionOnSet(lost, Seat) \in Int
  BY <1>1, <1>4, SumType
<1>. HIDE DEF Out, lost
<1>11. SumFunction(bets) = t.pot - SumFunctionOnSet(t.committed, Out)
  BY <1>5, <1>6, <1>7, <1>8, <1>9, <1>10
<1>. QED
  BY <1>11 DEF Out

\* BoardIsTold: the board that the client shows is the one hands are played on.
THEOREM BoardIsTold == ClientGameSpec => []ClientBoardAgrees
<1>1. ServerInv /\ HandSound /\ ViewInv => ClientBoardAgrees
  BY ViewAtRest DEF ClientBoardAgrees
<1>. QED
  BY <1>1, ServerReached, HandIsSound, ViewReached, PTL

\* FoldsAreTold: the client shows as folded and as all in exactly who is.
THEOREM FoldsAreTold == ClientGameSpec => []ClientKnowsWhoIsOut
<1>1. ServerInv /\ HandSound /\ ViewInv => ClientKnowsWhoIsOut
  BY ViewAtRest DEF ClientKnowsWhoIsOut, SeatView
<1>. QED
  BY <1>1, ServerReached, HandIsSound, ViewReached, PTL

\* BetsAreTold: the bets shown are bets of the street, where a seat has acted.
THEOREM BetsAreTold == ClientGameSpec => []ClientBetsAgree
<1>1. ASSUME ServerInv, HandSound, ViewInv, UpToDate, NEW s \in AliveSeats(table),
             stage = "PREFLOP" \/ table.is_acted[s]
      PROVE  client.bets[s] = table.bet[s]
  <2>1. s \in Seat /\ table.state[s] # "FOLDED"
    BY DEF AliveSeats, AliveStates
  <2>2. SeatView(client, stage, table, s)
    BY <1>1, <2>1, ViewAtRest
  <2>. QED
    BY <1>1, <2>1, <2>2 DEF SeatView
<1>2. ServerInv /\ HandSound /\ ViewInv => ClientBetsAgree
  BY <1>1 DEF ClientBetsAgree
<1>. QED
  BY <1>2, ServerReached, HandIsSound, ViewReached, PTL

\* PotIsToldBeforeFlop: before the flop the pot shown lacks the bets of folded
\* seats and no more.
THEOREM PotIsToldBeforeFlop == ClientGameSpec => []ClientPotBeforeFlop
<1>1. ASSUME ServerInv, HandSound, ViewInv, UpToDate, stage = "PREFLOP"
      PROVE  client.pot = table.pot - SumFunctionOnSet(table.committed, Seat \ AliveSeats(table))
  <2>1. /\ DOMAIN client.bets = Seat /\ \A s \in Seat : SeatView(client, stage, table, s)
        /\ TurnTable(table) /\ BetsAreCommitted(table) /\ PotLedger(table)
    BY <1>1, ViewAtRest
  <2>2. Accounts(client)
    BY <1>1 DEF ViewInv
  <2>3. PICK bets : bets = client.bets
    OBVIOUS
  <2>4. bets \in [Seat -> Int] /\ client.pot = SumFunction(bets)
    BY <2>1, <2>2, <2>3 DEF Accounts
  <2>5. \A s \in Seat : bets[s] = IF table.state[s] = "FOLDED" THEN 0 ELSE table.bet[s]
    BY <1>1, <2>1, <2>3 DEF SeatView
  <2>. QED
    BY <2>1, <2>4, <2>5, FoldedApart
<1>2. ServerInv /\ HandSound /\ ViewInv => ClientPotBeforeFlop
  BY <1>1 DEF ClientPotBeforeFlop
<1>. QED
  BY <1>2, ServerReached, HandIsSound, ViewReached, PTL

\* MoneyIsSomeTables: a client's pot and stacks are always what its bets leave.
THEOREM MoneyIsSomeTables == ClientGameSpec => []ClientMoneyIsBets
<1>1. ViewInv => ClientMoneyIsBets
  BY DEF ViewInv, Accounts, ClientMoneyIsBets
<1>. QED
  BY <1>1, ViewReached, PTL
=============================================================================
