---------------------------- MODULE MCChipsCalc ----------------------------
(***************************************************************************)
(* process_betting and calculate_awards over every small input: a context  *)
(* and a target, or a pot and a number of winners, in each state.          *)
(***************************************************************************)
EXTENDS ConsoleInput, FiniteSetsExt

CONSTANTS
    MaxChips,    \* the largest amount of a context
    MaxWinners,  \* the most seats that share a pot
    Half         \* half the values of an int: ints are at least -Half, below Half

ASSUME MaxChipsAssumption == MaxChips \in Nat
ASSUME MaxWinnersAssumption == MaxWinners \in Nat
ASSUME HalfAssumption == Half \in Nat

VARIABLES context, target, pot, winners

calcVars == <<context, target, pot, winners>>

Amounts == 0..MaxChips

IntRange == -Half..(Half - 1)

NoContext == [player_chips |-> 1, player_bet |-> 0, round_bet |-> 0,
              min_raise_delta |-> 0, can_raise |-> TRUE]

NoCalc == context = NoContext /\ target = 0 /\ pot = 0 /\ winners = 1

\* Turns of a seat with chips; a pot split by nobody is not asked for.
CalcInit ==
    \/ /\ context \in [player_chips : Amounts \ {0}, player_bet : Amounts, round_bet : Amounts,
                       min_raise_delta : Amounts, can_raise : BOOLEAN]
       /\ target \in IntRange \cup 0..(2 * MaxChips)
       /\ pot = 0 /\ winners = 1
    \/ /\ context = NoContext /\ target = 0
       /\ pot \in 0..(4 * MaxChips) /\ winners \in 1..MaxWinners

Result == ProcessBetting(context, target)

\* ConsoleAndTableAgree: the console's filter and process_betting accept the
\* same targets of every turn.
ConsoleAndTableAgree == ConsoleAgreesWithTable(context, target)

\* WidthIsHarmless: the console and the table accept a target that exact
\* arithmetic accepts and no other, whatever the build makes of a difference
\* that overflows: targets from the console or a client are any int.
WidthIsHarmless == target \in IntRange => SameAtWidth(context, target, Half)

\* ClassifiedByEffect: the Action that process_betting names is the one the
\* change of bets shows, so ActionFlow, which sees only the Action, never
\* misses a raise of the round's bet or a seat that has spent its last chip.
ClassifiedByEffect ==
    (TurnContext(context) /\ IsValid(Result)) =>
        /\ Result.action \in {"ALL_IN_CALL", "ALL_IN_UNDER_CALL", "ALL_IN_RAISE", "ALL_IN_UNDER_RAISE"}
              <=> context.player_chips = Result.bet_delta
        /\ Result.action \in {"BET", "RAISE", "ALL_IN_RAISE", "ALL_IN_UNDER_RAISE"}
              <=> Result.round_bet > context.round_bet
        /\ Result.action \in {"CHECK", "CALL", "ALL_IN_CALL"} => target = context.round_bet

\* RaisesAreFull: only a player's last chips may raise by less than the
\* minimum, and a player barred from raising never moves the round's bet.
RaisesAreFull ==
    (TurnContext(context) /\ IsValid(Result) /\ Result.round_bet > context.round_bet) =>
        /\ context.can_raise
        /\ Result.action # "ALL_IN_UNDER_RAISE" =>
              Result.round_bet - context.round_bet >= context.min_raise_delta
        /\ Result.bet_delta \in 1..context.player_chips

Awards == [i \in 0..(winners - 1) |-> Award(pot, winners, i)]

\* AwardsAreThePot: the awards add up to the pot, none of it made or lost to
\* rounding, and a winner earlier in seat order gets at most one chip more.
AwardsAreThePot ==
    /\ SumFunction(Awards) = pot
    /\ TotalAwarded(pot, winners) = pot
    /\ \A i, j \in DOMAIN Awards : i <= j => Awards[i] - Awards[j] \in {0, 1}
=============================================================================
