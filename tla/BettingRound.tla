---------------------------- MODULE BettingRound ---------------------------
(***************************************************************************)
(* What the betting of a hand promises, with no seats, chips or counters:  *)
(* a round asks every active player once, asks the others again after a    *)
(* raise, and closes when nobody is left to ask or one player is left in.  *)
(***************************************************************************)
EXTENDS Integers, FiniteSets

CONSTANT Player

VARIABLES
    phase,    \* before the first round, in a round, or done with betting
    alive,    \* who may still win the hand
    active,   \* who may still bet
    to_act    \* who the round still has to ask

roundVars == <<phase, alive, active, to_act>>

RoundTypeOK ==
    /\ phase \in {"before", "betting", "over"}
    /\ active \subseteq alive /\ alive \subseteq Player
    /\ to_act \subseteq active

RoundInit ==
    /\ phase = "before"
    /\ alive = Player /\ active = Player
    /\ to_act = {}

FirstRound ==
    /\ phase = "before"
    /\ phase' = "betting"
    /\ to_act' = active
    /\ UNCHANGED <<alive, active>>

\* The players that remain after p's answer are asking; the round closes when
\* that is nobody, or when only one player is left in the hand.
Proceed(asking) ==
    IF asking # {} /\ Cardinality(alive') > 1
    THEN phase' = "betting" /\ to_act' = asking
    ELSE \/ phase' = "over" /\ to_act' = {}
         \/ /\ Cardinality(active') > 1
            /\ phase' = "betting" /\ to_act' = active'

Fold(p) ==
    /\ alive' = alive \ {p} /\ active' = active \ {p}
    /\ Proceed(to_act \ {p})

\* A check or a call, with the last chips or without.
Stay(p) ==
    /\ alive' = alive /\ active' \in {active, active \ {p}}
    /\ Proceed(to_act \ {p})

\* A bet or a raise, with the last chips or without.
Raise(p) ==
    /\ alive' = alive /\ active' \in {active, active \ {p}}
    /\ Proceed(active \ {p})

Answer(p) == phase = "betting" /\ p \in to_act /\ (Fold(p) \/ Stay(p) \/ Raise(p))

RoundNext == FirstRound \/ \E p \in Player : Answer(p)

RoundSpec == RoundInit /\ [][RoundNext]_roundVars
=============================================================================
