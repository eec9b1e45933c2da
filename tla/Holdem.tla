------------------------------- MODULE Holdem ------------------------------
(***************************************************************************)
(* One hand as GameController and GameModel play it on the event bus.      *)
(* EventBus::publish calls the subscribers before it returns, so a handler *)
(* and what it publishes are one step.  There are two exceptions.  After   *)
(* WaitingForAction the program waits for a player, and between two pots   *)
(* of distributePots it may stop for good.                                 *)
(*                                                                         *)
(* PlayerAction is any target bet or a fold: what a subscriber of          *)
(* WaitingForAction may answer.  Cards are abstracted to how many are on   *)
(* the board, how many the deck has given out, and how the alive hands     *)
(* rank against each other at the showdown.                                *)
(***************************************************************************)
EXTENDS Table, SidePots

CONSTANTS
    BuyIn,      \* the stacks that a player may start with
    TargetBet,  \* the target bets that a player may ask for
    HandValue   \* the values that a hand may have

\* main.cpp draws 100 to 300 chips against a big blind of 10.
ASSUME BuyInAssumption == BuyIn \subseteq {b \in Nat : b > BigBlind}
ASSUME TargetBetAssumption == TargetBet \subseteq Int
ASSUME HandValueAssumption == HandValue \subseteq Nat

VARIABLES
    control,        \* where the program's only thread is
    stage,          \* GameModel::current_stage
    player_count,   \* players.size()
    table,          \* the managers' state, see module Table
    community,      \* cards on the board, filled from the left
    cards_dealt,    \* Deck::next_card_index
    pots,           \* PotManager::pots
    unpaid,         \* the pots distributePots has still to visit
    hand_value,     \* what eval_hand returns for each alive seat
    revealed,       \* the seats named by HoleCardsRevealed
    declared,       \* the WinnerDeclared events
    buy_in          \* history: the stacks the hand started with

vars == <<control, stage, player_count, table, community, cards_dealt, pots,
          unpaid, hand_value, revealed, declared, buy_in>>

showdownVars == <<pots, unpaid, hand_value, revealed, declared>>

\* seating: before StartGame.  awaiting: a WaitingForAction is out.  settling:
\* in distributePots.  ended: GameEnded was published.  trapped: the process
\* died in undefined behaviour.
Control == {"seating", "seated", "awaiting", "settling", "ended", "trapped"}

PlayerActionEvent == [target_bet : TargetBet, is_fold : BOOLEAN]

CARDS_SIZE == 52

-----------------------------------------------------------------------------
Init ==
    /\ control = "seating"
    /\ stage = "IDLE"
    /\ player_count = 0
    /\ table = NewTable
    /\ community = 0
    /\ cards_dealt = 0
    /\ pots = {} /\ unpaid = {}
    /\ hand_value = << >>
    /\ revealed = {}
    /\ declared = {}
    /\ buy_in = [s \in Seat |-> 0]

\* handle(PlayerJoinRequest): the seat's Player is default-constructed.
PlayerJoinRequest ==
    /\ control = "seating" /\ player_count < NumPlayers
    /\ player_count' = player_count + 1
    /\ UNCHANGED <<control, stage, table, community, cards_dealt, showdownVars, buy_in>>

\* main sets everyone's chips after the last join.
SetChips ==
    /\ control = "seating" /\ player_count = NumPlayers
    /\ \E stacks \in [Seat -> BuyIn] :
          /\ table' = [table EXCEPT !.chips = stacks]
          /\ buy_in' = stacks
    /\ control' = "seated"
    /\ UNCHANGED <<stage, player_count, community, cards_dealt, showdownVars>>

\* dealHoleCards: two cards to every seat, from a deck just shuffled.
DealHoleCards == cards_dealt' = 2 * player_count

\* handle(StartGame) and processPreflopStage.
StartGame ==
    /\ control = "seated"
    /\ stage' = "PREFLOP"
    /\ DealHoleCards
    /\ table' = PostBlinds(StartBettingRound(table, "PREFLOP"))
    /\ control' = "awaiting"
    /\ UNCHANGED <<player_count, community, showdownVars, buy_in>>

-----------------------------------------------------------------------------
\* dealCommunityCards: fill the board up to the size of the stage.
BoardSize(s) == CASE s = "FLOP" -> 3 [] s = "TURN" -> 4
                  [] s \in {"RIVER", "SHOWDOWN"} -> 5

\* Mutation: cards already on the board are dealt again.
DealCommunityCardsAgain(s) ==
    /\ community' = BoardSize(s)
    /\ cards_dealt' = cards_dealt + BoardSize(s)

DealCommunityCards(s) ==
    /\ community' = BoardSize(s)
    /\ cards_dealt' = cards_dealt + (BoardSize(s) - community)

\* Evaluating a hand on an empty board reads past the end of the one-element
\* count vector: the build may die there, or go on with some value.
EvaluationMayTrap(board) == board = 0

RevealAllHoleCards(t) == revealed' = ActiveSeats(t)

\* Every alive hand has some value, and all of them are looked at.
ComparePlayerHands(t) == hand_value' \in [AliveSeats(t) -> HandValue]

SplitPot(t) == LoadSidePots([s \in PlayingSeats(t) |-> t.committed[s]])

\* processShowdownStage up to the loop of distributePots; t is the table.
ProcessShowdownStage(t, board) ==
    /\ table' = t
    /\ RevealAllHoleCards(t)
    /\ \/ /\ ComparePlayerHands(t)
          /\ stage' = "SETTLEMENT"
          /\ pots' = SplitPot(t)
          /\ unpaid' = pots'
          /\ control' = "settling"
       \/ /\ EvaluationMayTrap(board)
          /\ stage' = "SHOWDOWN"
          /\ control' = "trapped"
          /\ UNCHANGED <<pots, unpaid, hand_value>>
    /\ UNCHANGED <<player_count, declared, buy_in>>

\* The round goes on: the next active seat is asked.
ContinueRound(t) ==
    /\ ~IsFlowEnded(t)
    /\ table' = MoveActingPlayer(t)
    /\ UNCHANGED <<control, stage, player_count, community, cards_dealt,
                   showdownVars, buy_in>>

\* Everyone else has folded: straight to the showdown, nothing is dealt.
AwardUncontested(t) ==
    /\ IsFlowEnded(t) /\ Cardinality(AliveSeats(t)) = 1
    /\ ProcessShowdownStage(t, community)
    /\ UNCHANGED <<community, cards_dealt>>

\* At most one player can still act: the rest of the board is dealt at once.
RunOutBoard(t) ==
    /\ IsFlowEnded(t) /\ Cardinality(AliveSeats(t)) # 1
    /\ Cardinality(ActiveSeats(t)) <= 1
    /\ DealCommunityCards("SHOWDOWN")
    /\ ProcessShowdownStage(t, BoardSize("SHOWDOWN"))

StreetsOpen(t) ==
    /\ IsFlowEnded(t) /\ Cardinality(AliveSeats(t)) # 1
    /\ Cardinality(ActiveSeats(t)) > 1

RiverShowdown(t) ==
    /\ StreetsOpen(t) /\ stage = "RIVER"
    /\ ProcessShowdownStage(t, community)
    /\ UNCHANGED <<community, cards_dealt>>

\* advanceStage and processPostflopStage.
NextStreet(t) ==
    /\ StreetsOpen(t) /\ stage # "RIVER"
    /\ stage' = NextStage(stage)
    /\ DealCommunityCards(NextStage(stage))
    /\ table' = StartBettingRound(t, NextStage(stage))
    /\ UNCHANGED <<control, player_count, showdownVars, buy_in>>

\* handle(PlayerAction), event being the answer to WaitingForAction.
PlayerAction(event) ==
    /\ control = "awaiting"
    /\ \E t \in {HandlePlayerAction(table, event)} :
          \/ ContinueRound(t)
          \/ AwardUncontested(t)
          \/ RunOutBoard(t)
          \/ NextStreet(t)
          \/ RiverShowdown(t)

-----------------------------------------------------------------------------
(* distributePots, one pot a step, from the highest level down.            *)

NextPot(p) == p \in unpaid /\ \A q \in unpaid : q.level <= p.level

Contenders(p) == {s \in p.contributors : s \in AliveSeats(table)}

\* determineWinners: the first best hand and those equal to it.
DetermineWinners(seats) == {s \in seats : \A v \in seats : hand_value[v] <= hand_value[s]}

\* The contenders' hands are evaluated once more, on the same board.
DistributePots(p) ==
    /\ control = "settling" /\ NextPot(p)
    /\ Contenders(p) # {}
    /\ LET winners == DetermineWinners(Contenders(p))
       IN  \/ /\ table' = DistributePot(table, winners)
              /\ declared' = declared \cup {[pot |-> p, winners |-> winners]}
              /\ unpaid' = unpaid \ {p}
              /\ UNCHANGED control
           \/ /\ EvaluationMayTrap(community)
              /\ control' = "trapped"
              /\ UNCHANGED <<table, declared, unpaid>>
    /\ UNCHANGED <<stage, player_count, community, cards_dealt, pots,
                   hand_value, revealed, buy_in>>

\* All the pot's contributors have folded: calculate_awards divides by zero.
\* The build may die there, or never use the quotient and pay nobody.
DistributeDeadPot(p) ==
    /\ control = "settling" /\ NextPot(p)
    /\ Contenders(p) = {}
    /\ \/ /\ control' = "trapped"
          /\ UNCHANGED <<unpaid, declared>>
       \/ /\ declared' = declared \cup {[pot |-> p, winners |-> {}]}
          /\ unpaid' = unpaid \ {p}
          /\ UNCHANGED control
    /\ UNCHANGED <<stage, player_count, table, community, cards_dealt, pots,
                   hand_value, revealed, buy_in>>

FinishGame ==
    /\ control = "settling" /\ unpaid = {}
    /\ control' = "ended"
    /\ UNCHANGED <<stage, player_count, table, community, cards_dealt,
                   showdownVars, buy_in>>

\* main returns, or the process is dead: nothing happens any more.
Over == control \in {"ended", "trapped"} /\ UNCHANGED vars

Settle == (\E p \in unpaid : DistributePots(p) \/ DistributeDeadPot(p)) \/ FinishGame

Next ==
    \/ PlayerJoinRequest
    \/ SetChips
    \/ StartGame
    \/ \E event \in PlayerActionEvent : PlayerAction(event)
    \/ Settle
    \/ Over

Spec == Init /\ [][Next]_vars

-----------------------------------------------------------------------------
(* Properties that hold whatever a subscriber answers.                     *)

ChipsOf(f) == SumFunction(f)

\* TypeOK: the variables hold what their C++ declarations are used for.
TypeOK ==
    /\ control \in Control
    /\ stage \in Stage
    /\ player_count \in 0..NumPlayers
    /\ table \in TableType
    /\ community \in 0..5
    /\ cards_dealt \in 0..CARDS_SIZE
    /\ unpaid \subseteq pots
    /\ revealed \subseteq Seat
    /\ buy_in \in [Seat -> Nat]

\* TurnIsActive: while a WaitingForAction is out it names a seat that can act
\* and has chips, someone else is still in the hand, and the answers awaited
\* are at least one and no more than there are seats to give them.  Otherwise
\* moveActingPlayer would run to -1 and playerAt(-1) would be read.
TurnIsActive ==
    control = "awaiting" =>
        /\ stage \in Streets
        /\ table.acting_player \in ActiveSeats(table)
        /\ table.chips[table.acting_player] > 0
        /\ Cardinality(AliveSeats(table)) > 1
        /\ table.pending_player_count \in 1..Cardinality(ActiveSeats(table))

\* AllInExact: during the hand a seat is ALL_IN exactly when it has no chips
\* left, so nobody with chips is passed over and nobody without is asked.
AllInExact ==
    control = "awaiting" =>
        \A s \in Seat : table.state[s] # "FOLDED" =>
            (table.state[s] = "ALL_IN" <=> table.chips[s] = 0)

\* SeatLedger: until pots are paid each seat's stack is what it brought less
\* what it committed, and the pot is exactly what the seats committed.
StacksAreCommitted ==
    control = "awaiting" =>
        \A s \in Seat : table.chips[s] + table.committed[s] = buy_in[s]

SeatLedger ==
    /\ StacksAreCommitted
    /\ control = "awaiting" => table.pot = ChipsOf(table.committed)

\* ChipsConserved: no step creates or loses a chip, the settlement included,
\* whether or not the process dies in the middle of it.
ChipsConserved ==
    control # "seating" => ChipsOf(table.chips) + table.pot = ChipsOf(buy_in)

\* RoundBetIsHighest: the bet to match is the largest bet of the round, and a
\* seat's bet never exceeds what it committed in the hand.
RoundBetIsHighest ==
    control = "awaiting" =>
        /\ table.round_bet = Max({table.bet[s] : s \in Seat})
        /\ \A s \in Seat : table.bet[s] <= table.committed[s]

\* BoardMatchesStreet: bets of a street are taken on that street's board, and
\* the deck has given out the hole cards and the board and nothing else.
BoardMatchesStreet ==
    control = "awaiting" =>
        /\ community = [PREFLOP |-> 0, FLOP |-> 3, TURN |-> 4, RIVER |-> 5][stage]
        /\ cards_dealt = 2 * NumPlayers + community

\* OutIsFinal: a seat that has folded or is all in stays so for the hand, and
\* its stake does not move, whoever acts.
OutIsFinal ==
    [][\A s \in Seat :
          table.state[s] # "ACTIVE" =>
              /\ table'.state[s] = table.state[s]
              /\ table'.committed[s] = table.committed[s]]_vars

-----------------------------------------------------------------------------
(* What comments and documents of the repository say, and the code does    *)
(* not do.                                                                 *)

\* EveryPotSplit: "瓜分所有的底池", share out all the pots: when the hand is
\* over a seat has won at least its share of every pot it is declared to win.
EveryPotSplit ==
    control = "ended" =>
        \A s \in Seat :
            LET won == {d \in declared : s \in d.winners}
            IN  table.chips[s] - (buy_in[s] - table.committed[s]) >=
                    MapThenSumSet(LAMBDA d : d.pot.chips \div Cardinality(d.winners), won)

\* AllHandsRevealed: "揭露所有玩家的底牌", reveal every player's hole cards: a
\* showdown names every seat still alive.
AllHandsRevealed == stage = "SETTLEMENT" => revealed = AliveSeats(table)

\* HandsHaveBoards: "5张公共牌+2张底牌": a hand is evaluated with a full board.
HandsHaveBoards == control = "settling" => community = 5

\* SettlementSurvives: "可进行单局对战", a single hand can be played: once there are
\* cards on the board to compare hands by, the process does not die settling it.
SettlementSurvives == ~(control = "trapped" /\ stage = "SETTLEMENT" /\ community > 0)
=============================================================================
