---------------------------- MODULE ConsoleInput ---------------------------
(***************************************************************************)
(* getPlayerInput of src/main.cpp: the target bets the console lets        *)
(* through, given the context that WaitingForAction carries.               *)
(***************************************************************************)
EXTENDS ChipsCalc

\* Mutations: the minimum raise itself is refused; one test, "at least all of
\* the chips is all in", in place of two.
ConsoleDecidesAboveMinimum(c, target, asked, paid) ==
    /\ asked <= c.player_chips
    /\ target > c.round_bet => c.can_raise
    /\ \/ paid = c.player_chips
       \/ target = c.round_bet
       \/ target > c.round_bet /\ target > MinRaise(c)

ConsoleDecidesAtLeastAllIn(c, target, asked, paid) ==
    /\ target > c.round_bet => c.can_raise
    /\ \/ paid >= c.player_chips
       \/ target = c.round_bet
       \/ target > c.round_bet /\ target >= MinRaise(c)

\* The tests of getPlayerInput in their order.  asked and paid are what the
\* build makes of target_bet - player_bet in its first and in its third test.
ConsoleDecides(c, target, asked, paid) ==
    /\ asked <= c.player_chips
    /\ target > c.round_bet => c.can_raise
    /\ \/ paid = c.player_chips
       \/ target = c.round_bet
       \/ target > c.round_bet /\ target >= MinRaise(c)

ConsoleAccepts(c, target) ==
    ConsoleDecides(c, target, target - c.player_bet, target - c.player_bet)

\* A context in which a turn is taken: the seat has chips, and owes the
\* difference between its bet and the round's.
TurnContext(c) ==
    c \in BettingContext /\ c.player_chips > 0 /\ c.player_bet <= c.round_bet

\* ConsoleAgreesWithTable: the console and process_betting, written apart from
\* each other, accept the same targets; if the console let one through that
\* the table refuses, the turn would pass with the player's answer lost.
ConsoleAgreesWithTable(c, target) ==
    TurnContext(c) => (ConsoleAccepts(c, target) <=> IsValid(ProcessBetting(c, target)))

-----------------------------------------------------------------------------
(* The width of int: amounts are at least -half and below half.            *)

\* a - b on ints.  Overflow is undefined: a comparison with the difference may
\* see the exact value or the one that has wrapped.
Differences(a, b, half) ==
    {a - b} \cup {d \in {a - b - 2 * half, a - b + 2 * half} : -half <= d /\ d < half}

\* SameAtWidth: where a stack and its bet fit an int, overflow changes the
\* answer neither of the console nor of process_betting, to any target.
SameAtWidth(c, target, half) ==
    (TurnContext(c) /\ c.player_chips + c.player_bet < half) =>
        \A asked, paid \in Differences(target, c.player_bet, half) :
            /\ ConsoleDecides(c, target, asked, paid) <=> ConsoleAccepts(c, target)
            /\ IsValidBet(c, target, asked, paid) <=> IsValid(ProcessBetting(c, target))
=============================================================================
