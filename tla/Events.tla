------------------------------- MODULE Events ------------------------------
(***************************************************************************)
(* The events of include/core/event/Event.hpp.  A card, a board and a hand *)
(* are abstracted as in module Holdem: a board is how many cards it shows. *)
(***************************************************************************)
EXTENDS GameTypes

PlayerJoinRequest == [type |-> "PlayerJoinRequest"]

NewPlayerJoined(seat, count) ==
    [type |-> "NewPlayerJoined", new_seat |-> seat, player_count |-> count]

StartGame == [type |-> "StartGame"]

GameStarted(btn, blind, count) ==
    [type |-> "GameStarted", btn_seat |-> btn, big_blind |-> blind, player_count |-> count]

StageChanged(stage) == [type |-> "StageChanged", stage |-> stage]

HoleCardsDealt(seat) == [type |-> "HoleCardsDealt", player_seat |-> seat]

BlindPosted(seat, amount, is_big_blind) ==
    [type |-> "BlindPosted", player |-> seat, amount |-> amount, is_big_blind |-> is_big_blind]

CommunityCardsDealt(board) == [type |-> "CommunityCardsDealt", community_cards |-> board]

BettingRoundStarted == [type |-> "BettingRoundStarted"]

BettingRoundEnded == [type |-> "BettingRoundEnded"]

\* The context holds the event's five other fields; min_raise is their sum.
WaitingForAction(seat, context) ==
    [type |-> "WaitingForAction", player |-> seat, context |-> context]

PlayerAction(target_bet, is_fold) ==
    [type |-> "PlayerAction", target_bet |-> target_bet, is_fold |-> is_fold]

PlayerActed(seat, bet, action) ==
    [type |-> "PlayerActed", player |-> seat, bet |-> bet, action |-> action]

HoleCardsRevealed(seats) == [type |-> "HoleCardsRevealed", players |-> seats]

PotSplited(chips) == [type |-> "PotSplited", chips |-> chips]

WinnerDeclared(winners) == [type |-> "WinnerDeclared", winners |-> winners]

GameEnded == [type |-> "GameEnded"]

ClientConnected(id) == [type |-> "ClientConnected", client_id |-> id]
=============================================================================
