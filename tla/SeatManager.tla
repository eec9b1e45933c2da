---------------------------- MODULE SeatManager ----------------------------
(***************************************************************************)
(* src/core/model/SeatManager.cpp: arithmetic on the ring of seats.        *)
(* NumPlayers is playerCount() of a table at which everyone has sat down;  *)
(* the button never leaves seat 0, since nothing calls setBtnSeat or       *)
(* advanceBtnSeat.                                                         *)
(***************************************************************************)
EXTENDS GameTypes, FiniteSets

CONSTANT NumPlayers

\* Blinds are posted by two different seats; a deck serves 2n + 5 cards.
ASSUME NumPlayersAssumption == NumPlayers \in 2..23

Seat == 0..(NumPlayers - 1)

BtnSeat == 0

\* The seat k places to the left of s, and nextSeat, the first of them.
SeatAfter(s, k) == (s + k) % NumPlayers
NextSeat(s)     == SeatAfter(s, 1)

SbSeat  == SeatAfter(BtnSeat, 1)
BbSeat  == SeatAfter(BtnSeat, 2)
UtgSeat == SeatAfter(BtnSeat, 3)

\* How many places seat s is to the left of ref.
DistanceFromSeatLeft(s, ref) == (s - ref + NumPlayers) % NumPlayers

(***************************************************************************)
(* nextActiveSeat: walk left until an ACTIVE seat, the walk ending at s    *)
(* itself; -1 when that one is not ACTIVE either.                          *)
(***************************************************************************)
IsNextActive(state, s, k) ==
    /\ state[SeatAfter(s, k)] = "ACTIVE"
    /\ \A j \in 1..(k - 1) : state[SeatAfter(s, j)] # "ACTIVE"

\* Mutation: the seat on the left, whether it can act or not.
NextActiveSeatUnchecked(state, s) == NextSeat(s)

NextActiveSeat(state, s) ==
    IF \E k \in 1..NumPlayers : IsNextActive(state, s, k)
    THEN SeatAfter(s, CHOOSE k \in 1..NumPlayers : IsNextActive(state, s, k))
    ELSE -1

\* sortSeats: the place of seat s when the seats are ordered leftwards from
\* the seat after the button.
OrderFromButton(seats, s) ==
    LET left(v) == DistanceFromSeatLeft(v, NextSeat(BtnSeat))
    IN  Cardinality({v \in seats : left(v) < left(s)})
=============================================================================
