------------------------------- MODULE Table -------------------------------
(***************************************************************************)
(* The state of one hand as PlayerSet, BettingManager, ActionFlow,         *)
(* ChipsManager and PotManager hold it between them, in one record, and    *)
(* their operations as functions from a table to a table, so that the      *)
(* handlers of GameModel compose them in the order the code calls them.    *)
(* last_aggressor is left out: it is written and never read.               *)
(***************************************************************************)
EXTENDS ChipsCalc, SeatManager

CONSTANT BigBlind

ASSUME BigBlindAssumption == BigBlind \in Nat /\ BigBlind >= 2

SmallBlind == BigBlind \div 2

TableType ==
    [state                : [Seat -> PlayerState],
     is_acted             : [Seat -> BOOLEAN],
     chips                : [Seat -> Nat],
     bet                  : [Seat -> Nat],   \* in this betting round
     committed            : [Seat -> Nat],   \* in this hand
     round_bet            : Nat,
     min_raise_delta      : Nat,
     acting_player        : Seat \cup {-1},
     pending_player_count : Nat,
     has_incomplete_raise : BOOLEAN,
     pot                  : Nat]

\* Default-constructed players and managers.  The chips a Player is born
\* with are overwritten before anything reads them.
NewTable ==
    [state                |-> [s \in Seat |-> "ACTIVE"],
     is_acted             |-> [s \in Seat |-> FALSE],
     chips                |-> [s \in Seat |-> 200],
     bet                  |-> [s \in Seat |-> 0],
     committed            |-> [s \in Seat |-> 0],
     round_bet            |-> 0,
     min_raise_delta      |-> 0,
     acting_player        |-> -1,
     pending_player_count |-> 0,
     has_incomplete_raise |-> FALSE,
     pot                  |-> 0]

ActiveSeats(t)  == {s \in Seat : t.state[s] = "ACTIVE"}
AliveSeats(t)   == {s \in Seat : t.state[s] \in AliveStates}
PlayingSeats(t) == {s \in Seat : t.state[s] \in PlayingStates}

-----------------------------------------------------------------------------
(* ChipsManager and Player::payChips.                                      *)

\* Mutation: Player::payChips forgets the commitment.
MoveChipsToPotUncommitted(t, s, amount) ==
    [t EXCEPT !.chips[s] = @ - amount, !.pot = @ + amount]

\* The code throws when the seat has too few chips; no caller lets it.
MoveChipsToPot(t, s, amount) ==
    [t EXCEPT !.chips[s]     = @ - amount,
              !.committed[s] = @ + amount,
              !.pot          = @ + amount]

\* distributePot: the winners, in seat order from the button, share the whole
\* of what PotManager holds.  Not defined for an empty set of winners.
DistributePot(t, winners) ==
    LET n == Cardinality(winners)
    IN  [t EXCEPT
           !.chips = [s \in Seat |->
                        IF s \in winners
                        THEN @[s] + Award(t.pot, n, OrderFromButton(winners, s))
                        ELSE @[s]],
           !.pot   = @ - TotalAwarded(t.pot, n)]

-----------------------------------------------------------------------------
(* BettingManager.                                                         *)

SetupBetting(t) ==
    [t EXCEPT !.round_bet = 0, !.min_raise_delta = 0, !.bet = [s \in Seat |-> 0]]

\* postSmallBlind and postBigBlind differ in the seat and in the amount.
PostBlind(t, s, amount) ==
    [MoveChipsToPot(t, s, amount) EXCEPT !.bet[s]          = amount,
                                         !.round_bet       = amount,
                                         !.min_raise_delta = amount]

-----------------------------------------------------------------------------
(* ActionFlow.                                                             *)

\* Mutation: seats that are all in are waited for as well.
SetupToStartAlive(t, stage) ==
    [t EXCEPT !.acting_player = IF stage = "PREFLOP" THEN UtgSeat
                                ELSE NextActiveSeat(t.state, BtnSeat),
              !.pending_player_count = Cardinality(AliveSeats(t)),
              !.is_acted             = [s \in Seat |-> FALSE],
              !.has_incomplete_raise = FALSE]

SetupToStart(t, stage) ==
    [t EXCEPT !.acting_player = IF stage = "PREFLOP" THEN UtgSeat
                                ELSE NextActiveSeat(t.state, BtnSeat),
              !.pending_player_count = Cardinality(ActiveSeats(t)),
              !.is_acted             = [s \in Seat |-> FALSE],
              !.has_incomplete_raise = FALSE]

\* Mutations: a short all-in raise reopens nothing; a seat that calls with less
\* than the bet stays active.
RaisesFullOnly == {"RAISE", "BET", "ALL_IN_RAISE"}
AllInsComplete == {"ALL_IN_CALL", "ALL_IN_RAISE", "ALL_IN_UNDER_RAISE"}

Raises == {"RAISE", "BET", "ALL_IN_RAISE", "ALL_IN_UNDER_RAISE"}
AllIns == {"ALL_IN_CALL", "ALL_IN_RAISE", "ALL_IN_UNDER_CALL", "ALL_IN_UNDER_RAISE"}

\* Mutation: the raiser's own answer is not taken off.
ApplyActionRaiserAsked(t, action) ==
    LET s == t.acting_player
        expected == IF action \in Raises THEN Cardinality(ActiveSeats(t))
                    ELSE t.pending_player_count - 1
    IN  [t EXCEPT !.pending_player_count = expected,
                  !.is_acted[s] = TRUE,
                  !.state[s] = IF action = "FOLD" THEN "FOLDED"
                               ELSE IF action \in AllIns THEN "ALL_IN" ELSE @,
                  !.has_incomplete_raise =
                       action = "ALL_IN_UNDER_RAISE" \/ (@ /\ action \notin Raises)]

\* Mutation: a check is not an answer.
ApplyActionCheckIgnored(t, action) ==
    LET s == t.acting_player
    IN  [t EXCEPT !.pending_player_count =
                       IF action \in Raises THEN Cardinality(ActiveSeats(t)) - 1
                       ELSE IF action = "CHECK" THEN @ ELSE @ - 1,
                  !.is_acted[s] = TRUE,
                  !.state[s] = IF action = "FOLD" THEN "FOLDED"
                               ELSE IF action \in AllIns THEN "ALL_IN" ELSE @]

\* A raise makes every active player answer again, the raiser included, whose
\* own answer the decrement then takes off.
ApplyAction(t, action) ==
    LET s == t.acting_player
        expected == IF action \in Raises THEN Cardinality(ActiveSeats(t))
                    ELSE t.pending_player_count
    IN  [t EXCEPT !.pending_player_count = expected - 1,
                  !.is_acted[s] = TRUE,
                  !.state[s] = IF action = "FOLD" THEN "FOLDED"
                               ELSE IF action \in AllIns THEN "ALL_IN" ELSE @,
                  !.has_incomplete_raise =
                       action = "ALL_IN_UNDER_RAISE" \/ (@ /\ action \notin Raises)]

\* Mutation: the round closes one answer early.
IsFlowEndedEarly(t) == t.pending_player_count <= 1 \/ Cardinality(AliveSeats(t)) = 1

IsFlowEnded(t) == t.pending_player_count = 0 \/ Cardinality(AliveSeats(t)) = 1

CanPlayerRaise(t, s) == ~(t.is_acted[s] /\ t.has_incomplete_raise)

MoveActingPlayer(t) ==
    [t EXCEPT !.acting_player = NextActiveSeat(t.state, t.acting_player)]

-----------------------------------------------------------------------------
(* GameModel's compositions of them.                                       *)

StartBettingRound(t, stage) == SetupToStart(SetupBetting(t), stage)

PostBlinds(t) == PostBlind(PostBlind(t, SbSeat, SmallBlind), BbSeat, BigBlind)

\* The context of the acting player's decision.  awaitPlayerAction publishes
\* the same values, with round_bet + min_raise_delta for min_raise_delta.
Context(t) ==
    LET s == t.acting_player
    IN  [player_chips    |-> t.chips[s],
         player_bet      |-> t.bet[s],
         round_bet       |-> t.round_bet,
         min_raise_delta |-> t.min_raise_delta,
         can_raise       |-> CanPlayerRaise(t, s)]

\* handlePlayerAction once process_betting has accepted the target.
PlaceBet(t, result) ==
    LET s    == t.acting_player
        paid == MoveChipsToPot(t, s, result.bet_delta)
    IN  ApplyAction([paid EXCEPT !.bet[s]          = result.player_bet,
                                 !.min_raise_delta = result.min_raise_delta,
                                 !.round_bet       = result.round_bet],
                    result.action)

\* handlePlayerAction: a target that is not accepted leaves the table as it is.
HandlePlayerAction(t, event) ==
    LET result == ProcessBetting(Context(t), event.target_bet)
    IN  IF event.is_fold THEN ApplyAction(t, "FOLD")
        ELSE IF IsValid(result) THEN PlaceBet(t, result) ELSE t
=============================================================================
