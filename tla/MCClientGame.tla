---------------------------- MODULE MCClientGame ---------------------------
(***************************************************************************)
(* Three players born with five chips at blinds of one and two, and a      *)
(* client in the second seat, which takes that seat or another for its own.*)
(***************************************************************************)
EXTENDS ClientGame

MCBuyIn == {DefaultChips}
MCTargetBet == {0, 2, 3, 4, 5}
MCHandValue == {1}
=============================================================================
