----------------------------- MODULE GameTypes -----------------------------
(***************************************************************************)
(* The enumerations of include/core/common/GameTypes.hpp and of Player.hpp *)
(* that every other module speaks in.  An enumerator is its name.          *)
(***************************************************************************)
EXTENDS Integers

\* The four betting rounds of a hand, in the order the streets are played.
Streets == {"PREFLOP", "FLOP", "TURN", "RIVER"}

Stage == Streets \cup {"IDLE", "SHOWDOWN", "SETTLEMENT"}

Action == {"VOID", "CALL", "CHECK", "RAISE", "BET", "FOLD", "ALL_IN_UNDER_CALL",
           "ALL_IN_CALL", "ALL_IN_UNDER_RAISE", "ALL_IN_RAISE"}

\* Player::State.  Nothing in the repository calls Player::out().
PlayerState == {"ACTIVE", "ALL_IN", "FOLDED", "OUT"}

AliveStates   == {"ACTIVE", "ALL_IN"}
\* Mutation: folded seats are not playing any more, and their chips in no pot.
PlayingStatesAliveOnly == AliveStates

PlayingStates == {"ACTIVE", "ALL_IN", "FOLDED"}

\* next_stage: the enumerator one above.
NextStage(stage) ==
    CASE stage = "IDLE"     -> "PREFLOP"
      [] stage = "PREFLOP"  -> "FLOP"
      [] stage = "FLOP"     -> "TURN"
      [] stage = "TURN"     -> "RIVER"
      [] stage = "RIVER"    -> "SHOWDOWN"
      [] stage = "SHOWDOWN" -> "SETTLEMENT"
=============================================================================
