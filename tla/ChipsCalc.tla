----------------------------- MODULE ChipsCalc -----------------------------
(***************************************************************************)
(* src/core/algo/chips_calc.cpp: what a requested bet amounts to, and how  *)
(* a pot is cut into awards.  A context c is what the code gathers from    *)
(* the managers before it decides; target is the bet the player asked for. *)
(***************************************************************************)
EXTENDS GameTypes, FiniteSets

\* The contexts the managers can hand over: no negative amount of chips.
BettingContext == [player_chips : Nat, player_bet : Nat, round_bet : Nat,
                   min_raise_delta : Nat, can_raise : BOOLEAN]

ChipsCommitted(c, target)    == target - c.player_bet
MinRaise(c)                  == c.round_bet + c.min_raise_delta
IsAllIn(c, target)           == ChipsCommitted(c, target) = c.player_chips
\* Mutation: the stack is not looked at.
IsChipsEnoughUnchecked(c, target) == TRUE

IsChipsEnough(c, target)     == ChipsCommitted(c, target) <= c.player_chips
IsIncompleteCall(c, target)  == target < c.round_bet
IsCompleteCall(c, target)    == target = c.round_bet
IsIncompleteRaise(c, target) == target > c.round_bet /\ target < MinRaise(c)
IsCompleteRaise(c, target)   == target >= MinRaise(c)

\* Mutation: a short all-in raise is taken for a call.
AllInActionShortRaiseAsCall(c, target) ==
    CASE IsIncompleteCall(c, target) -> "ALL_IN_UNDER_CALL"
      [] target < MinRaise(c) \/ IsCompleteCall(c, target) -> "ALL_IN_CALL"
      [] OTHER -> IF c.can_raise THEN "ALL_IN_RAISE" ELSE "VOID"

\* Mutation: the last chips may always raise.
AllInActionAlwaysRaises(c, target) ==
    CASE IsIncompleteCall(c, target)  -> "ALL_IN_UNDER_CALL"
      [] IsCompleteCall(c, target)    -> "ALL_IN_CALL"
      [] IsIncompleteRaise(c, target) -> "ALL_IN_UNDER_RAISE"
      [] OTHER -> "ALL_IN_RAISE"

\* get_action when the target takes every chip the player has.
AllInAction(c, target) ==
    CASE IsIncompleteCall(c, target) -> "ALL_IN_UNDER_CALL"
      [] IsCompleteCall(c, target)   -> "ALL_IN_CALL"
      [] target > c.round_bet ->
            IF ~c.can_raise THEN "VOID"
            ELSE IF IsIncompleteRaise(c, target) THEN "ALL_IN_UNDER_RAISE"
            ELSE "ALL_IN_RAISE"

\* get_action: VOID is a target the table does not accept.
GetAction(c, target) ==
    IF IsAllIn(c, target) THEN AllInAction(c, target)
    ELSE IF IsCompleteCall(c, target)
         THEN IF c.player_bet = c.round_bet THEN "CHECK" ELSE "CALL"
    ELSE IF IsCompleteRaise(c, target) /\ c.can_raise
         THEN IF c.round_bet = 0 THEN "BET" ELSE "RAISE"
    ELSE "VOID"

\* Mutation: the round's bet follows the last bet down.
GreaterIsLast(a, b) == b

Greater(a, b) == IF a < b THEN b ELSE a

ProcessBetting(c, target) ==
    [bet_delta            |-> ChipsCommitted(c, target),
     player_bet           |-> target,
     round_bet            |-> Greater(c.round_bet, target),
     min_raise_delta      |-> Greater(c.min_raise_delta, target - c.round_bet),
     action               |-> GetAction(c, target),
     has_sufficient_chips |-> IsChipsEnough(c, target)]

IsValid(result) == result.action # "VOID" /\ result.has_sufficient_chips

\* isValid of process_betting's result when target_bet - player_bet is paid to
\* isAllIn and asked to isChipsEnough, as the width of int may have it.
IsValidBet(c, target, asked, paid) ==
    /\ asked <= c.player_chips
    /\ IF paid = c.player_chips THEN AllInAction(c, target) # "VOID"
       ELSE IsCompleteCall(c, target) \/ (IsCompleteRaise(c, target) /\ c.can_raise)

(***************************************************************************)
(* calculate_awards: the i-th of n winners, counted from 0, receives the   *)
(* share, and one chip of the remainder when i is below it.  The total is  *)
(* the sum the loop pushes.  Both divide by n, so neither has a value for  *)
(* n = 0: the callers say what the program does then.                      *)
(***************************************************************************)
\* Mutations: one extra chip too many; the remainder dropped, from the awards or
\* from their total.
AwardExtraChip(pot, n, i) == (pot \div n) + (IF i <= pot % n THEN 1 ELSE 0)
AwardNoRemainder(pot, n, i) == pot \div n
TotalAwardedShares(pot, n) == n * (pot \div n)

Award(pot, n, i) == (pot \div n) + (IF i < pot % n THEN 1 ELSE 0)

TotalAwarded(pot, n) == n * (pot \div n) + (pot % n)
=============================================================================
