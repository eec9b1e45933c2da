---------------------------- MODULE MCConsoleBus ---------------------------
(***************************************************************************)
(* The program of main.cpp with three players: stacks that put one or two  *)
(* of them all in below the bets of the others.                            *)
(***************************************************************************)
EXTENDS ConsoleBus

MCBuyIn == {3, 5}
MCTargetBet == -1..5
MCHandValue == 1..2
=============================================================================
