------------------------------ MODULE GameBus ------------------------------
(***************************************************************************)
(* GameController and GameModel call by call, on an EventBus that calls    *)
(* the subscribers of an event one after the other inside publish.  The    *)
(* managers' state is that of module Holdem, which takes a handler and     *)
(* everything it publishes for one step; here each call is a step, and so  *)
(* is each delivery of an event to a subscriber.                           *)
(***************************************************************************)
EXTENDS ConsoleGame, SequencesExt

CONSTANTS
    Subscribers(_),  \* the subscribers of an event type, as they subscribed
    StartedCounts    \* what GameStarted may say of the number of players

\* What GameController subscribes to, and what GameModel publishes.
Requests == {"PlayerJoinRequest", "StartGame", "PlayerAction"}

Announcements ==
    {"NewPlayerJoined", "GameStarted", "StageChanged", "HoleCardsDealt", "BlindPosted",
     "CommunityCardsDealt", "BettingRoundStarted", "WaitingForAction", "PlayerActed",
     "HoleCardsRevealed", "PotSplited", "WinnerDeclared", "GameEnded"}

\* Whoever else subscribes to the bus, the controller alone is asked for anything.
ASSUME SubscribersAssumption ==
    /\ \A type \in Requests : Subscribers(type) = <<"controller">>
    /\ \A type \in Announcements : Subscribers(type) \in Seq(STRING \ {"controller"})

\* The code's GameStarted{} says 0; the event is declared to carry the number.
ASSUME StartedCountsAssumption == StartedCounts \subseteq {0, NumPlayers}

VARIABLES
    stack,      \* the calls in progress, innermost first: what each has left to do
    settled     \* history: the variables of Holdem where its last step ended

busVars == <<vars, stack, settled>>

Event == INSTANCE Events

Now == [control |-> control, stage |-> stage, player_count |-> player_count, table |-> table,
        community |-> community, cards_dealt |-> cards_dealt, pots |-> pots, unpaid |-> unpaid,
        hand_value |-> hand_value, revealed |-> revealed, declared |-> declared, buy_in |-> buy_in]

-----------------------------------------------------------------------------
(* The bus.  A frame of the stack is a sequence of tasks: calls of the     *)
(* handler it belongs to, or deliveries of the publish it belongs to.      *)

Call(op)          == [do |-> "call", op |-> op]
CallWith(op, arg) == [do |-> "call", op |-> op, arg |-> arg]
Deliver(to, e)    == [do |-> "deliver", to |-> to, event |-> e]

\* publish: one delivery for each subscriber of the event's type.
Publish(e) == [i \in DOMAIN Subscribers(e.type) |-> Deliver(Subscribers(e.type)[i], e)]

PublishAll(events) == FlattenSeq([i \in DOMAIN events |-> Publish(events[i])])

Running == stack # << >> /\ control # "trapped"
Top     == Head(stack)
Task    == Head(Top)
Busy    == Running /\ Top # << >>

Calling(op)    == Busy /\ Task.do = "call" /\ Task.op = op
Delivering(to) == Busy /\ Task.do = "deliver" /\ Task.to = to

\* The task is done by a frame of its own; an empty one is not worth a step.
Enter(tasks) ==
    stack' = (IF tasks = << >> THEN << >> ELSE <<tasks>>) \o <<Tail(Top)>> \o Tail(stack)

\* The task is replaced by others of the same frame.
Become(tasks) == stack' = <<tasks \o Tail(Top)>> \o Tail(stack)

Return ==
    /\ Running /\ Top = << >>
    /\ stack' = Tail(stack)
    /\ UNCHANGED <<vars, settled>>

\* A step of Holdem ends here.
HoldemStepEnds == settled' = Now'

-----------------------------------------------------------------------------
(* GameController's handlers as the sequences of calls they make.          *)

\* Mutations: the turn is given before the big blind is in; the round is opened
\* after the blinds.
PreflopCallsTurnFirst ==
    <<Call("shuffleDeck"), Call("dealHoleCards"), Call("startBettingRound"),
      Call("postSmallBlind"), Call("awaitPlayerAction"), Call("postBigBlind")>>

PreflopCallsBlindsFirst ==
    <<Call("shuffleDeck"), Call("dealHoleCards"), Call("postSmallBlind"),
      Call("postBigBlind"), Call("startBettingRound"), Call("awaitPlayerAction")>>

PreflopCalls ==
    <<Call("shuffleDeck"), Call("dealHoleCards"), Call("startBettingRound"),
      Call("postSmallBlind"), Call("postBigBlind"), Call("awaitPlayerAction")>>

PostflopCalls ==
    <<Call("dealCommunityCards"), Call("startBettingRound"), Call("awaitPlayerAction")>>

ShowdownCalls ==
    <<CallWith("setCurrentStage", "SHOWDOWN"), Call("revealAllHoleCards"),
      Call("comparePlayerHands"), CallWith("setCurrentStage", "SETTLEMENT"),
      Call("splitPot"), Call("distributePots"), Call("finishGame")>>

ChangeStage(s) == CallWith("changeStage", s)

\* The branches of handle(PlayerAction) after handlePlayerAction.
CallsAfterAction ==
    IF ~IsFlowEnded(table) THEN <<Call("moveActingPlayer"), Call("awaitPlayerAction")>>
    ELSE IF Cardinality(AliveSeats(table)) = 1 THEN <<ChangeStage("SHOWDOWN")>> \o ShowdownCalls
    ELSE IF Cardinality(ActiveSeats(table)) <= 1
         THEN <<ChangeStage("SHOWDOWN"), Call("dealCommunityCards")>> \o ShowdownCalls
    ELSE IF stage = "RIVER" THEN <<ChangeStage("SHOWDOWN")>> \o ShowdownCalls
    ELSE <<ChangeStage(NextStage(stage))>> \o PostflopCalls

CallsOf(e) ==
    CASE e.type = "PlayerJoinRequest" -> <<Call("joinNewPlayer")>>
      [] e.type = "StartGame" -> <<Call("startGame"), ChangeStage("PREFLOP")>> \o PreflopCalls
      [] e.type = "PlayerAction" -> <<CallWith("handlePlayerAction", e), Call("branch")>>

ControllerHandles ==
    /\ Delivering("controller")
    /\ Enter(CallsOf(Task.event))
    /\ UNCHANGED <<vars, settled>>

Branch ==
    /\ Calling("branch")
    /\ Become(CallsAfterAction)
    /\ UNCHANGED <<vars, settled>>

-----------------------------------------------------------------------------
(* GameModel, one action a member function: what it changes, then what it  *)
(* publishes.                                                              *)

JoinNewPlayer ==
    /\ Calling("joinNewPlayer")
    /\ PlayerJoinRequest
    /\ HoldemStepEnds
    /\ Enter(Publish(Event!NewPlayerJoined(player_count, player_count + 1)))

\* GameStarted{} is value-initialised, its big blind and button are 0 as well;
\* with the number of players the event is what it is declared to be.
StartedEvent(count) ==
    Event!GameStarted(BtnSeat, IF count = 0 THEN 0 ELSE BigBlind, count)

StartGameCall ==
    /\ Calling("startGame")
    /\ \E count \in StartedCounts : Enter(Publish(StartedEvent(count)))
    /\ UNCHANGED <<vars, settled>>

SetStage(op, events) ==
    /\ Calling(op)
    /\ stage' = Task.arg
    /\ Enter(PublishAll(events))
    /\ UNCHANGED <<control, player_count, table, community, cards_dealt, showdownVars, buy_in, settled>>

ChangeStageCall     == SetStage("changeStage", <<Event!StageChanged(stage')>>)
SetCurrentStageCall == SetStage("setCurrentStage", << >>)

ShuffleDeck ==
    /\ Calling("shuffleDeck")
    /\ cards_dealt' = 0
    /\ Enter(<< >>)
    /\ UNCHANGED <<control, stage, player_count, table, community, showdownVars, buy_in, settled>>

DealHoleCardsCall ==
    /\ Calling("dealHoleCards")
    /\ DealHoleCards
    /\ Enter(FlattenSeq([i \in 1..NumPlayers |->
                 IF i - 1 \in ActiveSeats(table) THEN Publish(Event!HoleCardsDealt(i - 1))
                 ELSE << >>]))
    /\ UNCHANGED <<control, stage, player_count, table, community, showdownVars, buy_in, settled>>

DealCommunityCardsCall ==
    /\ Calling("dealCommunityCards")
    /\ DealCommunityCards(stage)
    /\ Enter(Publish(Event!CommunityCardsDealt(community')))
    /\ UNCHANGED <<control, stage, player_count, table, showdownVars, buy_in, settled>>

\* The calls that change nothing but the table.
TableCall(op, t, events) ==
    /\ Calling(op)
    /\ table' = t
    /\ Enter(PublishAll(events))
    /\ UNCHANGED <<control, stage, player_count, community, cards_dealt, showdownVars, buy_in, settled>>

StartBettingRoundCall ==
    TableCall("startBettingRound", StartBettingRound(table, stage), <<Event!BettingRoundStarted>>)

PostSmallBlind ==
    TableCall("postSmallBlind", PostBlind(table, SbSeat, SmallBlind),
              <<Event!BlindPosted(SbSeat, SmallBlind, FALSE)>>)

PostBigBlind ==
    TableCall("postBigBlind", PostBlind(table, BbSeat, BigBlind),
              <<Event!BlindPosted(BbSeat, BigBlind, TRUE)>>)

MoveActingPlayerCall == TableCall("moveActingPlayer", MoveActingPlayer(table), << >>)

\* Mutation: the chips just paid are published for the bet.
ActedEventPaid(seat, e) ==
    LET result == ProcessBetting(Context(table), e.target_bet)
    IN  IF e.is_fold THEN <<Event!PlayerActed(seat, 0, "FOLD")>>
        ELSE IF IsValid(result)
             THEN <<Event!PlayerActed(seat, result.bet_delta, result.action)>>
        ELSE << >>

\* PlayerActed says nothing of an answer that was refused.
ActedEvent(seat, e) ==
    LET result == ProcessBetting(Context(table), e.target_bet)
    IN  IF e.is_fold THEN <<Event!PlayerActed(seat, 0, "FOLD")>>
        ELSE IF IsValid(result)
             THEN <<Event!PlayerActed(seat, result.player_bet, result.action)>>
        ELSE << >>

HandlePlayerActionCall ==
    TableCall("handlePlayerAction", HandlePlayerAction(table, Task.arg),
              ActedEvent(table.acting_player, Task.arg))

AwaitPlayerAction ==
    /\ Calling("awaitPlayerAction")
    /\ control' = "awaiting"
    /\ Enter(Publish(Event!WaitingForAction(table.acting_player, Context(table))))
    /\ UNCHANGED <<stage, player_count, table, community, cards_dealt, showdownVars, buy_in>>
    /\ HoldemStepEnds

RevealAllHoleCardsCall ==
    /\ Calling("revealAllHoleCards")
    /\ RevealAllHoleCards(table)
    /\ Enter(Publish(Event!HoleCardsRevealed(revealed')))
    /\ UNCHANGED <<control, stage, player_count, table, community, cards_dealt,
                   pots, unpaid, hand_value, declared, buy_in, settled>>

ComparePlayerHandsCall ==
    /\ Calling("comparePlayerHands")
    /\ Enter(<< >>)
    /\ UNCHANGED <<stage, player_count, table, community, cards_dealt,
                   pots, unpaid, revealed, declared, buy_in>>
    /\ \/ ComparePlayerHands(table) /\ UNCHANGED <<control, settled>>
       \/ EvaluationMayTrap(community) /\ control' = "trapped" /\ UNCHANGED hand_value /\ HoldemStepEnds

SplitPotCall ==
    /\ Calling("splitPot")
    /\ pots' = SplitPot(table)
    /\ unpaid' = pots'
    /\ control' = "settling"
    /\ Enter(Publish(Event!PotSplited(MapThenSumSet(LAMBDA p : p.chips, pots'))))
    /\ UNCHANGED <<stage, player_count, table, community, cards_dealt,
                   hand_value, revealed, declared, buy_in>>
    /\ HoldemStepEnds

\* The loop of distributePots, one pot a step.
DistributePotsCall ==
    /\ Calling("distributePots")
    /\ \/ /\ unpaid = {}
          /\ Become(<< >>)
          /\ UNCHANGED <<vars, settled>>
       \/ \E p \in unpaid :
             /\ DistributePots(p) \/ DistributeDeadPot(p)
             /\ LET winners == UNION {d.winners : d \in declared' \ declared}
                IN  stack' = <<Publish(Event!WinnerDeclared(winners))>> \o stack
             /\ HoldemStepEnds

FinishGameCall ==
    /\ Calling("finishGame")
    /\ FinishGame
    /\ HoldemStepEnds
    /\ Enter(Publish(Event!GameEnded))

GameModelCall ==
    \/ JoinNewPlayer \/ StartGameCall \/ ChangeStageCall \/ SetCurrentStageCall
    \/ ShuffleDeck \/ DealHoleCardsCall \/ DealCommunityCardsCall
    \/ StartBettingRoundCall \/ PostSmallBlind \/ PostBigBlind
    \/ MoveActingPlayerCall \/ HandlePlayerActionCall \/ AwaitPlayerAction
    \/ RevealAllHoleCardsCall \/ ComparePlayerHandsCall
    \/ SplitPotCall \/ DistributePotsCall \/ FinishGameCall

BusStep == ControllerHandles \/ Branch \/ GameModelCall \/ Return

-----------------------------------------------------------------------------
(* Properties of every program on the bus.                                 *)

\* What an event says holds of the managers.
Current(e) ==
    CASE e.type = "WaitingForAction" ->
            e.player = table.acting_player /\ e.context = Context(table)
      [] e.type = "PlayerActed" ->
            IF e.action = "FOLD" THEN table.state[e.player] = "FOLDED"
            ELSE e.bet = table.bet[e.player]
      [] e.type = "BlindPosted" -> e.amount = table.bet[e.player]
      [] e.type = "CommunityCardsDealt" -> e.community_cards = community
      [] e.type = "PotSplited" -> e.chips = table.pot
      [] OTHER -> TRUE

\* EventsAreCurrent: when a subscriber is called, what the event says still
\* holds.  The handlers of an event may publish others that change the table
\* before publish has come to the last subscriber.
EventsAreCurrent == (Busy /\ Task.do = "deliver") => Current(Task.event)

\* The variables as they were where Holdem's last step ended.
Atomic == INSTANCE ConsoleGame WITH
    control <- settled.control, stage <- settled.stage,
    player_count <- settled.player_count, table <- settled.table,
    community <- settled.community, cards_dealt <- settled.cards_dealt,
    pots <- settled.pots, unpaid <- settled.unpaid, hand_value <- settled.hand_value,
    revealed <- settled.revealed, declared <- settled.declared, buy_in <- settled.buy_in
=============================================================================
