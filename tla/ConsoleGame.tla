---------------------------- MODULE ConsoleGame ----------------------------
(***************************************************************************)
(* The program poker (src/main.cpp): the table of module Holdem with the   *)
(* console as the only publisher of PlayerAction.  The console keeps       *)
(* asking until it has an answer it accepts.                               *)
(***************************************************************************)
EXTENDS Holdem, ConsoleInput

\* What getPlayerInput returns: a fold, or a target that passed its tests.
ConsoleAnswers(event) ==
    IF event.is_fold THEN event.target_bet = 0
    ELSE ConsoleAccepts(Context(table), event.target_bet)

ConsoleTurn ==
    /\ control = "awaiting"
    /\ \E event \in PlayerActionEvent : ConsoleAnswers(event) /\ PlayerAction(event)

\* main: five joins, the stacks, StartGame; the rest happens inside publish.
ConsoleNext ==
    \/ PlayerJoinRequest
    \/ SetChips
    \/ StartGame
    \/ ConsoleTurn
    \/ Settle
    \/ Over

ConsoleSpec == Init /\ [][ConsoleNext]_vars

\* The one thread goes on whenever it can, and whoever is asked at the console
\* types something acceptable in the end.
ConsoleFairness ==
    /\ WF_vars(PlayerJoinRequest \/ SetChips \/ StartGame)
    /\ WF_vars(ConsoleTurn)
    /\ WF_vars(Settle)

FairConsoleSpec == ConsoleSpec /\ ConsoleFairness

-----------------------------------------------------------------------------
\* The seats whose answer the round still waits for: the next
\* pending_player_count active ones, from the acting seat leftwards.
ToAct(t) ==
    {s \in ActiveSeats(t) :
        LET left(v) == DistanceFromSeatLeft(v, t.acting_player)
        IN  Cardinality({v \in ActiveSeats(t) : left(v) < left(s)}) < t.pending_player_count}

Round == INSTANCE BettingRound WITH
    Player <- Seat,
    phase  <- IF control \in {"seating", "seated"} THEN "before"
              ELSE IF control = "awaiting" THEN "betting" ELSE "over",
    alive  <- AliveSeats(table),
    active <- ActiveSeats(table),
    to_act <- IF control = "awaiting" THEN ToAct(table) ELSE {}

\* RoundRefinement: ActionFlow's acting seat, pending count and flags implement
\* the rounds of module BettingRound: no active seat is skipped or asked again
\* without a raise, and no street opens while an answer is due.
RoundRefinement == Round!RoundSpec

\* AnsweredMeansMatched: an active seat the round no longer waits for has put
\* in as much as the round asks, so isFlowEnded never closes over a debt.
AnsweredMeansMatched ==
    control = "awaiting" =>
        \A s \in ActiveSeats(table) \ ToAct(table) : table.bet[s] = table.round_bet

\* StreetsSettledEqually: on every street all active seats have paid the same
\* for the streets before it, and nobody in the hand has paid more.
StreetsSettledEqually ==
    control = "awaiting" =>
        \A s \in ActiveSeats(table), v \in Seat :
            table.committed[v] - table.bet[v] <= table.committed[s] - table.bet[s]

\* PotsCoverPot: when distributePots starts, the side pots hold together what
\* was committed, and the lowest one is contended by every alive seat.
PotsCoverPot ==
    control = "settling" /\ declared = {} =>
        /\ MapThenSumSet(LAMBDA p : p.chips, pots) = table.pot
        /\ \A p \in pots : (\A q \in pots : p.level <= q.level) =>
              Contenders(p) = AliveSeats(table)

\* PotPaidOut: when the hand is over the pot is empty: pots nobody can win are
\* never the last ones paid.
PotPaidOut == control = "ended" => table.pot = 0

\* HandFinishes: once five players are asked to sit down the program reaches
\* its end, however the betting goes (the end may be a trap).
HandFinishes == <>(control \in {"ended", "trapped"})
=============================================================================
