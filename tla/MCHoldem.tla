------------------------------ MODULE MCHoldem -----------------------------
(***************************************************************************)
(* A table of three against a big blind of 2, with stacks that put one or  *)
(* two players all in below, at and above the others' bets.                *)
(***************************************************************************)
EXTENDS ConsoleGame

MCBuyIn == {3, 5, 6}
MCTargetBet == -1..6
MCHandValue == 1..3

\* Answers the console would refuse let every seat be skipped at any time, and
\* multiply the states: two stacks, and hands that are better or worse.
BusBuyIn == {3, 5}
BusTargetBet == {-1, 0, 2, 3, 4, 5}
BusHandValue == 1..2
=============================================================================
