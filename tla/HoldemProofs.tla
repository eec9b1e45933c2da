---------------------------- MODULE HoldemProofs ----------------------------
(***************************************************************************)
(* The hand of module Holdem, whatever the subscribers of WaitingForAction *)
(* answer, for every number of players, big blind and stacks above it:     *)
(* what the operations of modules SeatManager and Table preserve, and the  *)
(* invariants that follow.                                                 *)
(***************************************************************************)
EXTENDS Holdem, AlgoProofs

-----------------------------------------------------------------------------
(* The ring of seats, and counting seats on it.                            *)

\* SeatArithmetic: walking left from a seat ends at a seat, and the blinds are
\* posted by two different ones.
LEMMA SeatArithmetic ==
    /\ IsFiniteSet(Seat)
    /\ Seat \subseteq Nat
    /\ \A s \in Seat, k \in Nat : SeatAfter(s, k) \in Seat
    /\ BtnSeat \in Seat /\ SbSeat \in Seat /\ BbSeat \in Seat /\ UtgSeat \in Seat
    /\ SbSeat # BbSeat
<1>. NumPlayers \in Nat /\ NumPlayers >= 2
  BY NumPlayersAssumption
<1>1. IsFiniteSet(Seat)
  BY FS_Interval DEF Seat
<1>2. Seat \subseteq Nat
  BY DEF Seat
<1>3. \A s \in Seat, k \in Nat : SeatAfter(s, k) \in Seat
  BY <1>2 DEF Seat, SeatAfter
<1>4. BtnSeat \in Seat
  BY DEF Seat, BtnSeat
<1>5. SbSeat \in Seat /\ BbSeat \in Seat /\ UtgSeat \in Seat
  BY <1>3, <1>4 DEF SbSeat, BbSeat, UtgSeat
<1>6. SbSeat = 1
  BY DEF SbSeat, SeatAfter, BtnSeat
<1>7. BbSeat # 1
  BY DEF BbSeat, SeatAfter, BtnSeat
<1>. QED
  BY <1>1, <1>2, <1>3, <1>4, <1>5, <1>6, <1>7

\* NextActiveSeatFound: nextActiveSeat finds an active seat from anywhere on a
\* ring that has one, and otherwise returns -1.
LEMMA NextActiveSeatFound ==
    ASSUME NEW state, NEW s \in Seat
    PROVE  /\ NextActiveSeat(state, s) \in Seat \cup {-1}
           /\ (\E v \in Seat : state[v] = "ACTIVE") =>
                  /\ NextActiveSeat(state, s) \in Seat
                  /\ state[NextActiveSeat(state, s)] = "ACTIVE"
<1>. NumPlayers \in Nat /\ NumPlayers >= 2
  BY NumPlayersAssumption
<1>1. ASSUME NEW k \in 1..NumPlayers
      PROVE  SeatAfter(s, k) \in Seat
  BY SeatArithmetic
<1>2. NextActiveSeat(state, s) \in Seat \cup {-1}
  BY <1>1 DEF NextActiveSeat
<1>3. ASSUME NEW v \in Seat, state[v] = "ACTIVE"
      PROVE  \E k \in 1..NumPlayers : IsNextActive(state, s, k)
  <2>. DEFINE K == {k \in Nat : k \in 1..NumPlayers /\ state[SeatAfter(s, k)] = "ACTIVE"}
  <2>1. \E k \in 1..NumPlayers : SeatAfter(s, k) = v
    <3>1. CASE v > s
      <4>1. v - s \in 1..NumPlayers /\ SeatAfter(s, v - s) = v
        BY <3>1 DEF Seat, SeatAfter
      <4>. QED  BY <4>1
    <3>2. CASE v <= s
      <4>1. (v - s) + NumPlayers \in 1..NumPlayers
        BY <3>2 DEF Seat
      <4>2. s + ((v - s) + NumPlayers) = v + NumPlayers
        BY DEF Seat
      <4>3. (v + NumPlayers) % NumPlayers = v
        BY DEF Seat
      <4>. QED  BY <4>1, <4>2, <4>3 DEF SeatAfter
    <3>. QED  BY <3>1, <3>2 DEF Seat
  <2>2. PICK k0 \in K : TRUE
    BY <2>1, <1>3
  <2>3. K \in SUBSET Nat
    OBVIOUS
  <2>4. PICK k \in K : \A j \in K : k <= j
    <3>. HIDE DEF K
    <3>. QED  BY <2>2, <2>3, LeastNatural
  <2>5. \A j \in 1..(k - 1) : j \notin K
    BY <2>4
  <2>. QED
    BY <2>4, <2>5 DEF IsNextActive
<1>4. ASSUME \E k \in 1..NumPlayers : IsNextActive(state, s, k)
      PROVE  /\ NextActiveSeat(state, s) \in Seat
             /\ state[NextActiveSeat(state, s)] = "ACTIVE"
  <2>. DEFINE k == CHOOSE k \in 1..NumPlayers : IsNextActive(state, s, k)
  <2>1. k \in 1..NumPlayers /\ IsNextActive(state, s, k)
    BY <1>4
  <2>2. NextActiveSeat(state, s) = SeatAfter(s, k)
    BY <1>4 DEF NextActiveSeat
  <2>. QED
    BY <2>1, <2>2, <1>1 DEF IsNextActive
<1>. QED
  BY <1>2, <1>3, <1>4

\* SeatCounts: there are as many active seats as a natural number says, no more
\* of them than alive ones, and at most one seat short when one stops.
LEMMA SeatCounts ==
    ASSUME NEW t
    PROVE  /\ ActiveSeats(t) \subseteq AliveSeats(t) /\ AliveSeats(t) \subseteq Seat
           /\ IsFiniteSet(ActiveSeats(t)) /\ IsFiniteSet(AliveSeats(t))
           /\ Cardinality(ActiveSeats(t)) \in Nat /\ Cardinality(AliveSeats(t)) \in Nat
           /\ Cardinality(ActiveSeats(t)) <= Cardinality(AliveSeats(t))
           /\ Cardinality(ActiveSeats(t)) > 0 => ActiveSeats(t) # {}
           /\ ActiveSeats(t) # {} => Cardinality(ActiveSeats(t)) > 0
<1>1. ActiveSeats(t) \subseteq AliveSeats(t) /\ AliveSeats(t) \subseteq Seat
  BY DEF ActiveSeats, AliveSeats, AliveStates
<1>2. IsFiniteSet(AliveSeats(t))
  BY <1>1, SeatArithmetic, FS_Subset
<1>3. /\ IsFiniteSet(ActiveSeats(t))
      /\ Cardinality(ActiveSeats(t)) <= Cardinality(AliveSeats(t))
  BY <1>1, <1>2, FS_Subset
<1>4. Cardinality(ActiveSeats(t)) \in Nat /\ Cardinality(AliveSeats(t)) \in Nat
  BY <1>2, <1>3, FS_CardinalityType
<1>5. Cardinality(ActiveSeats(t)) = 0 <=> ActiveSeats(t) = {}
  BY <1>3, FS_EmptySet
<1>. QED
  BY <1>1, <1>2, <1>3, <1>4, <1>5

-----------------------------------------------------------------------------
(* Distances on the ring.                                                  *)

\* DistanceCases: the distance without the remainder.
LEMMA DistanceCases ==
    ASSUME NEW s \in Seat, NEW ref \in Seat
    PROVE  /\ s >= ref => DistanceFromSeatLeft(s, ref) = s - ref
           /\ s < ref  => DistanceFromSeatLeft(s, ref) = s - ref + NumPlayers
           /\ DistanceFromSeatLeft(s, ref) \in Seat
           /\ s \in Int /\ ref \in Int /\ s >= 0 /\ ref >= 0
           /\ s < NumPlayers /\ ref < NumPlayers
           /\ NumPlayers \in Nat
<1>1. NumPlayers \in Nat /\ NumPlayers >= 2
  BY NumPlayersAssumption
<1>2. s \in Int /\ ref \in Int /\ 0 <= s /\ 0 <= ref /\ s < NumPlayers /\ ref < NumPlayers
  BY <1>1 DEF Seat
<1>3. CASE s >= ref
  <2>1. s - ref + NumPlayers = (s - ref) + 1 * NumPlayers /\ s - ref \in 0..(NumPlayers - 1)
    BY <1>1, <1>2, <1>3
  <2>2. ((s - ref) + NumPlayers) % NumPlayers = s - ref
    BY <1>1, <2>1
  <2>. QED
    BY <1>1, <1>2, <1>3, <2>1, <2>2 DEF DistanceFromSeatLeft, Seat
<1>4. CASE s < ref
  <2>1. s - ref + NumPlayers \in 0..(NumPlayers - 1)
    BY <1>1, <1>2, <1>4
  <2>2. (s - ref + NumPlayers) % NumPlayers = s - ref + NumPlayers
    BY <1>1, <2>1
  <2>. QED
    BY <1>1, <1>2, <1>4, <2>1, <2>2 DEF DistanceFromSeatLeft, Seat
<1>. QED
  BY <1>1, <1>2, <1>3, <1>4

\* NotNearer: no seat is nearer than itself.
LEMMA NotNearer ==
    ASSUME NEW s \in Seat, NEW ref \in Seat
    PROVE  ~(DistanceFromSeatLeft(s, ref) < DistanceFromSeatLeft(s, ref))
<1>1. DistanceFromSeatLeft(s, ref) \in Int
  BY DistanceCases DEF Seat
<1>. QED
  BY <1>1

\* SeatAfterDistance: the seat at a seat's distance is that seat.
LEMMA SeatAfterDistance ==
    ASSUME NEW s \in Seat, NEW v \in Seat
    PROVE  SeatAfter(s, DistanceFromSeatLeft(v, s)) = v
<1>1. CASE v >= s
  <2>1. s + (v - s) = v /\ v \in 0..(NumPlayers - 1)
    BY DistanceCases DEF Seat
  <2>2. v % NumPlayers = v
    BY <2>1, NumPlayersAssumption
  <2>. QED
    BY <1>1, <2>1, <2>2, DistanceCases DEF SeatAfter
<1>2. CASE v < s
  <2>1. s + (v - s + NumPlayers) = v + NumPlayers /\ v \in 0..(NumPlayers - 1)
    BY DistanceCases DEF Seat
  <2>2. (v + NumPlayers) % NumPlayers = v
    BY <2>1, NumPlayersAssumption
  <2>. QED
    BY <1>2, <2>1, <2>2, DistanceCases DEF SeatAfter
<1>. QED
  BY <1>1, <1>2, DistanceCases

\* DistanceApart: two seats are not as far to the left of a third.
LEMMA DistanceApart ==
    ASSUME NEW ref \in Seat, NEW v \in Seat, NEW w \in Seat,
           DistanceFromSeatLeft(v, ref) = DistanceFromSeatLeft(w, ref)
    PROVE  v = w
BY SeatAfterDistance

\* DistanceOfSeatAfter: a walk that stops short of a full turn is as long as
\* the distance it has covered.
LEMMA DistanceOfSeatAfter ==
    ASSUME NEW s \in Seat, NEW k \in 1..(NumPlayers - 1)
    PROVE  /\ SeatAfter(s, k) \in Seat /\ SeatAfter(s, k) # s
           /\ DistanceFromSeatLeft(SeatAfter(s, k), s) = k
<1>1. /\ NumPlayers \in Nat /\ NumPlayers >= 2 /\ k \in Int /\ 1 <= k /\ k < NumPlayers
      /\ s \in Int /\ 0 <= s /\ s < NumPlayers
  BY NumPlayersAssumption DEF Seat
<1>2. SeatAfter(s, k) \in Seat
  BY SeatArithmetic
<1>3. CASE s + k < NumPlayers
  <2>1. (s + k) % NumPlayers = s + k
    BY <1>1, <1>3
  <2>. QED
    BY <1>1, <1>2, <2>1, DistanceCases DEF SeatAfter
<1>4. CASE s + k >= NumPlayers
  <2>1. s + k - NumPlayers \in 0..(NumPlayers - 1)
    BY <1>1, <1>4
  <2>2. ((s + k - NumPlayers) + NumPlayers) % NumPlayers = s + k - NumPlayers
    BY <1>1, <2>1
  <2>3. (s + k) % NumPlayers = s + k - NumPlayers
    BY <1>1, <2>2
  <2>. QED
    BY <1>1, <1>2, <2>3, DistanceCases DEF SeatAfter
<1>. QED
  BY <1>1, <1>3, <1>4

\* NextIsNearest: nextActiveSeat passes over no active seat.
LEMMA NextIsNearest ==
    ASSUME NEW state, NEW s \in Seat, NEW v \in Seat, v # s, state[v] = "ACTIVE",
           NEW b, b = NextActiveSeat(state, s)
    PROVE  /\ b \in Seat /\ b # s /\ state[b] = "ACTIVE"
           /\ DistanceFromSeatLeft(b, s) <= DistanceFromSeatLeft(v, s)
<1>. DEFINE d == DistanceFromSeatLeft(v, s)
            k == CHOOSE i \in 1..NumPlayers : IsNextActive(state, s, i)
<1>1. d \in 1..(NumPlayers - 1) /\ SeatAfter(s, d) = v
  BY DistanceCases, SeatAfterDistance DEF Seat
<1>2. b \in Seat /\ state[b] = "ACTIVE"
  BY NextActiveSeatFound
<1>3. \E i \in 1..NumPlayers : IsNextActive(state, s, i)
  <2>. SUFFICES ASSUME ~ \E i \in 1..NumPlayers : IsNextActive(state, s, i) PROVE FALSE
    OBVIOUS
  <2>1. b = -1
    BY DEF NextActiveSeat
  <2>. QED
    BY <1>2, <2>1 DEF Seat
<1>4. k \in 1..NumPlayers /\ IsNextActive(state, s, k)
  BY <1>3
<1>5. b = SeatAfter(s, k)
  BY <1>3 DEF NextActiveSeat
<1>. HIDE DEF k, d
<1>6. k <= d
  <2>. SUFFICES ASSUME d < k PROVE FALSE
    BY <1>1, <1>4
  <2>1. d \in 1..(k - 1)
    BY <1>1, <1>4
  <2>. QED
    BY <1>1, <1>4, <2>1 DEF IsNextActive
<1>7. k \in 1..(NumPlayers - 1)
  BY <1>1, <1>4, <1>6, NumPlayersAssumption
<1>8. b # s /\ DistanceFromSeatLeft(b, s) = k
  BY <1>5, <1>7, DistanceOfSeatAfter
<1>. QED
  BY <1>2, <1>6, <1>8 DEF d

\* Rotated: when the turn moves to the nearest seat, the other seats keep
\* their order and the seat that has just acted comes last.
LEMMA Rotated ==
    ASSUME NEW a \in Seat, NEW b \in Seat, NEW v \in Seat, NEW w \in Seat,
           b # a, v # a, w # a,
           DistanceFromSeatLeft(b, a) <= DistanceFromSeatLeft(v, a),
           DistanceFromSeatLeft(b, a) <= DistanceFromSeatLeft(w, a)
    PROVE  /\ DistanceFromSeatLeft(v, b) < DistanceFromSeatLeft(w, b) <=>
                  DistanceFromSeatLeft(v, a) < DistanceFromSeatLeft(w, a)
           /\ DistanceFromSeatLeft(v, b) < DistanceFromSeatLeft(a, b)
           /\ DistanceFromSeatLeft(a, a) < DistanceFromSeatLeft(v, a)
<1>1. /\ NumPlayers \in Nat
      /\ \A x \in {a, b, v, w} : x \in Int /\ 0 <= x /\ x < NumPlayers
  BY DistanceCases
<1>2. \A x \in {a, b, v, w}, y \in {a, b} :
          /\ x >= y => DistanceFromSeatLeft(x, y) = x - y
          /\ x < y => DistanceFromSeatLeft(x, y) = x - y + NumPlayers
  BY DistanceCases
<1>. QED
  BY <1>1, <1>2

-----------------------------------------------------------------------------
(***************************************************************************)
(* SoundTable is what holds of the table throughout the betting: a seat    *)
(* has chips if it is active and none if it is all in, and nobody has bet  *)
(* more than the bet to match.                                             *)
(***************************************************************************)
SoundSeat(t, s) ==
    /\ t.state[s] # "OUT"
    /\ t.state[s] = "ACTIVE" => t.chips[s] > 0
    /\ t.state[s] = "ALL_IN" => t.chips[s] = 0
    /\ t.bet[s] <= t.round_bet

SoundTable(t) == t \in TableType /\ \A s \in Seat : SoundSeat(t, s)

\* A table at which the acting seat can take its turn.
TurnTable(t) ==
    /\ SoundTable(t)
    /\ t.acting_player \in ActiveSeats(t)
    /\ t.pending_player_count \in 1..Cardinality(ActiveSeats(t))

\* A table as HandlePlayerAction leaves it.
AnsweredTable(t) ==
    /\ SoundTable(t)
    /\ t.acting_player \in Seat
    /\ t.pending_player_count \in 0..Cardinality(ActiveSeats(t))

\* A seat that has folded or is all in at t is as it was at u.
KeepsOut(t, u) ==
    \A s \in Seat : t.state[s] # "ACTIVE" =>
        u.state[s] = t.state[s] /\ u.committed[s] = t.committed[s]

\* A table taken apart: a record is typed field by field through it.
Fields(t) ==
    [state |-> t.state, is_acted |-> t.is_acted, chips |-> t.chips, bet |-> t.bet,
     committed |-> t.committed, round_bet |-> t.round_bet,
     min_raise_delta |-> t.min_raise_delta, acting_player |-> t.acting_player,
     pending_player_count |-> t.pending_player_count,
     has_incomplete_raise |-> t.has_incomplete_raise, pot |-> t.pot]

-----------------------------------------------------------------------------
(* process_betting, at the table.                                          *)

\* AcceptedBet: an accepted target costs chips that the seat has, keeps every
\* amount natural, never lowers the bet to match, and is called an all-in
\* exactly when it takes the last chip.
LEMMA AcceptedBet ==
    ASSUME NEW c \in BettingContext, NEW target \in Int, TurnContext(c),
           NEW r, r = ProcessBetting(c, target), IsValid(r)
    PROVE  /\ r.bet_delta \in 0..c.player_chips
           /\ r.bet_delta = r.player_bet - c.player_bet
           /\ r.player_bet \in Nat /\ r.round_bet \in Nat /\ r.min_raise_delta \in Nat
           /\ r.player_bet <= r.round_bet /\ c.round_bet <= r.round_bet
           /\ r.action \in AllIns <=> r.bet_delta = c.player_chips
           /\ r.action # "FOLD"
<1>1. /\ c.player_chips \in Nat /\ c.player_bet \in Nat
      /\ c.round_bet \in Nat /\ c.min_raise_delta \in Nat
      /\ c.player_chips > 0 /\ c.player_bet <= c.round_bet
  BY ContextAmounts DEF TurnContext
<1>2. /\ r.bet_delta = target - c.player_bet
      /\ r.player_bet = target
      /\ r.round_bet = Greater(c.round_bet, target)
      /\ r.min_raise_delta = Greater(c.min_raise_delta, target - c.round_bet)
      /\ r.action = GetAction(c, target)
      /\ target - c.player_bet <= c.player_chips
      /\ GetAction(c, target) # "VOID"
  BY DEF ProcessBetting, IsValid, IsChipsEnough, ChipsCommitted
<1>3. \/ target < c.round_bet /\ target - c.player_bet = c.player_chips
      \/ target >= c.round_bet
  BY <1>1, <1>2, ActionNames
<1>4. /\ r.bet_delta \in 0..c.player_chips
      /\ r.player_bet \in Nat /\ r.round_bet \in Nat /\ r.min_raise_delta \in Nat
      /\ r.player_bet <= r.round_bet /\ c.round_bet <= r.round_bet
  BY <1>1, <1>2, <1>3 DEF Greater
<1>5. CASE target - c.player_bet = c.player_chips
  <2>1. GetAction(c, target) \in AllIns
    BY <1>1, <1>2, <1>5, ActionNames DEF AllIns
  <2>. QED
    BY <1>2, <1>4, <1>5, <2>1 DEF AllIns
<1>6. CASE target - c.player_bet # c.player_chips
  <2>1. GetAction(c, target) \in {"CHECK", "CALL", "BET", "RAISE"}
    BY <1>1, <1>2, <1>3, <1>6, ActionNames
  <2>. QED
    BY <1>2, <1>4, <1>6, <2>1 DEF AllIns
<1>. QED
  BY <1>5, <1>6

\* TurnHasContext: awaitPlayerAction builds the context of a turn.
LEMMA TurnHasContext ==
    ASSUME NEW t, TurnTable(t)
    PROVE  Context(t) \in BettingContext /\ TurnContext(Context(t))
<1>. t.acting_player \in Seat /\ t.state[t.acting_player] = "ACTIVE"
  BY DEF TurnTable, ActiveSeats
<1>. QED
  BY DEF TurnTable, SoundTable, SoundSeat, TableType, Context, BettingContext, TurnContext, CanPlayerRaise

-----------------------------------------------------------------------------
(* ChipsManager, BettingManager and ActionFlow.                            *)

\* MovedChips: moving chips that the seat has leaves a table, on which only
\* that seat's stack and commitment, and the pot, have changed.
LEMMA MovedChips ==
    ASSUME NEW t \in TableType, NEW s \in Seat, NEW amount \in 0..t.chips[s],
           NEW u, u = MoveChipsToPot(t, s, amount)
    PROVE  /\ u \in TableType
           /\ u.chips = [t.chips EXCEPT ![s] = t.chips[s] - amount]
           /\ u.committed = [t.committed EXCEPT ![s] = t.committed[s] + amount]
           /\ u.pot = t.pot + amount
           /\ u.state = t.state /\ u.bet = t.bet /\ u.is_acted = t.is_acted
           /\ u.round_bet = t.round_bet /\ u.min_raise_delta = t.min_raise_delta
           /\ u.acting_player = t.acting_player
           /\ u.pending_player_count = t.pending_player_count
           /\ u.has_incomplete_raise = t.has_incomplete_raise
<1>1. t.chips \in [Seat -> Nat] /\ t.committed \in [Seat -> Nat] /\ t.pot \in Nat
  BY DEF TableType
<1>2. t.chips[s] \in Nat /\ t.committed[s] \in Nat
  BY <1>1
<1>3. amount \in Nat /\ t.chips[s] - amount \in Nat
  BY <1>2
<1>4. /\ u.chips = [t.chips EXCEPT ![s] = t.chips[s] - amount]
      /\ u.committed = [t.committed EXCEPT ![s] = t.committed[s] + amount]
      /\ u.pot = t.pot + amount
      /\ u.state = t.state /\ u.bet = t.bet /\ u.is_acted = t.is_acted
      /\ u.round_bet = t.round_bet /\ u.min_raise_delta = t.min_raise_delta
      /\ u.acting_player = t.acting_player
      /\ u.pending_player_count = t.pending_player_count
      /\ u.has_incomplete_raise = t.has_incomplete_raise
  BY DEF MoveChipsToPot, TableType
<1>5. u.chips \in [Seat -> Nat] /\ u.committed \in [Seat -> Nat] /\ u.pot \in Nat
  BY <1>1, <1>2, <1>3, <1>4
<1>6. u \in TableType
  <2>1. u = Fields(u)
    BY DEF MoveChipsToPot, TableType, Fields
  <2>. QED
    BY <1>4, <1>5, <2>1 DEF TableType, Fields
<1>. QED
  BY <1>4, <1>6

\* AppliedAction: what ActionFlow::applyAction does to each part of the table.
LEMMA AppliedAction ==
    ASSUME NEW t \in TableType, t.acting_player \in Seat, NEW action,
           t.pending_player_count \in 1..Cardinality(ActiveSeats(t)),
           NEW u, u = ApplyAction(t, action)
    PROVE  /\ u \in TableType
           /\ u.chips = t.chips /\ u.committed = t.committed /\ u.pot = t.pot
           /\ u.bet = t.bet /\ u.round_bet = t.round_bet
           /\ u.acting_player = t.acting_player
           /\ u.state = [t.state EXCEPT ![t.acting_player] =
                            IF action = "FOLD" THEN "FOLDED"
                            ELSE IF action \in AllIns THEN "ALL_IN"
                            ELSE t.state[t.acting_player]]
           /\ u.pending_player_count \in 0..(Cardinality(ActiveSeats(t)) - 1)
<1>. DEFINE n == Cardinality(ActiveSeats(t))
<1>1. n \in Nat /\ t.pending_player_count \in 1..n
  BY SeatCounts
<1>2. u.pending_player_count \in 0..(n - 1)
  <2>1. u.pending_player_count = (IF action \in Raises THEN n ELSE t.pending_player_count) - 1
    BY DEF ApplyAction, TableType
  <2>. HIDE DEF n
  <2>. QED  BY <1>1, <2>1
<1>3. u.state = [t.state EXCEPT ![t.acting_player] =
                    IF action = "FOLD" THEN "FOLDED"
                    ELSE IF action \in AllIns THEN "ALL_IN"
                    ELSE t.state[t.acting_player]]
  BY DEF ApplyAction, TableType
<1>4. u.state \in [Seat -> PlayerState]
  BY <1>3 DEF TableType, PlayerState
<1>5. u.is_acted \in [Seat -> BOOLEAN] /\ u.has_incomplete_raise \in BOOLEAN
  BY DEF ApplyAction, TableType
<1>6. /\ u.chips = t.chips /\ u.committed = t.committed /\ u.pot = t.pot
      /\ u.bet = t.bet /\ u.round_bet = t.round_bet
      /\ u.min_raise_delta = t.min_raise_delta
      /\ u.acting_player = t.acting_player
  BY DEF ApplyAction, TableType
<1>7. u.pending_player_count \in Nat
  BY <1>1, <1>2
<1>8. u \in TableType
  <2>1. u = Fields(u)
    BY DEF ApplyAction, TableType, Fields
  <2>. QED
    BY <1>4, <1>5, <1>6, <1>7, <2>1 DEF TableType, Fields
<1>. QED
  BY <1>2, <1>3, <1>6, <1>8
\* PlacedBet: an accepted bet leaves the table sound: only the acting seat's
\* chips moved, and it is all in exactly when they are gone.
LEMMA PlacedBet ==
    ASSUME NEW t, TurnTable(t), NEW target \in Int,
           NEW r, r = ProcessBetting(Context(t), target), IsValid(r),
           NEW u, u = PlaceBet(t, r)
    PROVE  AnsweredTable(u) /\ KeepsOut(t, u)
<1>. DEFINE s    == t.acting_player
            n    == Cardinality(ActiveSeats(t))
            paid == MoveChipsToPot(t, s, r.bet_delta)
            v    == [paid EXCEPT !.bet[s]          = r.player_bet,
                                 !.min_raise_delta = r.min_raise_delta,
                                 !.round_bet       = r.round_bet]
<1>1. /\ t \in TableType /\ s \in Seat /\ t.state[s] = "ACTIVE"
      /\ \A w \in Seat : SoundSeat(t, w)
      /\ t.pending_player_count \in 1..n
  BY DEF TurnTable, SoundTable, ActiveSeats
<1>2. /\ r.bet_delta \in 0..t.chips[s]
      /\ r.player_bet \in Nat /\ r.round_bet \in Nat /\ r.min_raise_delta \in Nat
      /\ r.player_bet <= r.round_bet /\ t.round_bet <= r.round_bet
      /\ r.action \in AllIns <=> r.bet_delta = t.chips[s]
      /\ r.action # "FOLD"
  BY TurnHasContext, AcceptedBet DEF Context
<1>3. /\ paid \in TableType
      /\ paid.chips = [t.chips EXCEPT ![s] = t.chips[s] - r.bet_delta]
      /\ paid.committed = [t.committed EXCEPT ![s] = t.committed[s] + r.bet_delta]
      /\ paid.state = t.state /\ paid.bet = t.bet
      /\ paid.acting_player = s
      /\ paid.pending_player_count = t.pending_player_count
  <2>. DEFINE a == r.bet_delta
  <2>1. t \in TableType /\ s \in Seat /\ a \in 0..t.chips[s]
    BY <1>1, <1>2
  <2>2. paid = MoveChipsToPot(t, s, a)
    OBVIOUS
  <2>. HIDE DEF a, paid, s
  <2>3. paid \in TableType
    BY <2>1, <2>2, MovedChips
  <2>4. /\ paid.chips = [t.chips EXCEPT ![s] = t.chips[s] - a]
        /\ paid.committed = [t.committed EXCEPT ![s] = t.committed[s] + a]
        /\ paid.state = t.state /\ paid.bet = t.bet
        /\ paid.acting_player = t.acting_player
        /\ paid.pending_player_count = t.pending_player_count
    BY <2>1, <2>2 DEF MoveChipsToPot, TableType
  <2>. QED
    BY <2>3, <2>4 DEF a, s
<1>4. /\ v \in TableType
      /\ v.chips = paid.chips /\ v.committed = paid.committed /\ v.state = t.state
      /\ v.bet = [t.bet EXCEPT ![s] = r.player_bet]
      /\ v.round_bet = r.round_bet
      /\ v.acting_player = s
      /\ v.pending_player_count = t.pending_player_count
  <2>. HIDE DEF paid
  <2>. QED  BY <1>1, <1>2, <1>3 DEF TableType
<1>5. ActiveSeats(v) = ActiveSeats(t)
  BY <1>4 DEF ActiveSeats
<1>6. u = ApplyAction(v, r.action)
  BY DEF PlaceBet
<1>. HIDE DEF paid, v
<1>7. /\ u \in TableType
      /\ u.chips = v.chips /\ u.committed = v.committed
      /\ u.bet = v.bet /\ u.round_bet = r.round_bet
      /\ u.acting_player = s
      /\ u.state = [t.state EXCEPT ![s] = IF r.action \in AllIns THEN "ALL_IN" ELSE "ACTIVE"]
      /\ u.pending_player_count \in 0..(n - 1)
  BY <1>1, <1>2, <1>4, <1>5, <1>6, AppliedAction
<1>8. ASSUME NEW w \in Seat
      PROVE  SoundSeat(u, w)
  <2>1. CASE w = s
    BY <1>1, <1>2, <1>3, <1>4, <1>7, <2>1 DEF SoundSeat, TableType
  <2>2. CASE w # s
    <3>1. u.state[w] = t.state[w] /\ u.chips[w] = t.chips[w] /\ u.bet[w] = t.bet[w]
      BY <1>1, <1>3, <1>4, <1>7, <2>2 DEF TableType
    <3>2. t.bet[w] \in Nat /\ t.round_bet \in Nat /\ t.bet[w] <= t.round_bet
      BY <1>1 DEF SoundSeat, TableType
    <3>. QED
      BY <1>1, <1>2, <1>7, <3>1, <3>2 DEF SoundSeat
  <2>. QED  BY <2>1, <2>2
<1>9. u.pending_player_count \in 0..Cardinality(ActiveSeats(u))
  <2>1. CASE r.action \in AllIns
    <3>1. ActiveSeats(u) = ActiveSeats(t) \ {s} /\ s \in ActiveSeats(t)
      BY <1>1, <1>7, <2>1 DEF ActiveSeats, TableType
    <3>2. Cardinality(ActiveSeats(u)) = n - 1
      BY <3>1, SeatCounts, FS_RemoveElement
    <3>. QED  BY <1>7, <3>2
  <2>2. CASE r.action \notin AllIns
    <3>1. ActiveSeats(u) = ActiveSeats(t)
      BY <1>1, <1>7, <2>2 DEF ActiveSeats, TableType
    <3>2. n \in Nat
      BY SeatCounts
    <3>. HIDE DEF n
    <3>3. u.pending_player_count \in 0..n
      BY <1>7, <3>2
    <3>. QED  BY <3>1, <3>3 DEF n
  <2>. QED  BY <2>1, <2>2
<1>10. KeepsOut(t, u)
  BY <1>1, <1>3, <1>4, <1>7 DEF KeepsOut, TableType
<1>. QED
  BY <1>1, <1>7, <1>8, <1>9, <1>10 DEF AnsweredTable, SoundTable

\* FoldedSeat: a fold takes the acting seat out of the active ones and off the
\* answers that are awaited, together.
LEMMA FoldedSeat ==
    ASSUME NEW t, TurnTable(t), NEW u, u = ApplyAction(t, "FOLD")
    PROVE  AnsweredTable(u) /\ KeepsOut(t, u)
<1>. DEFINE s == t.acting_player
            n == Cardinality(ActiveSeats(t))
<1>1. /\ t \in TableType /\ s \in Seat /\ t.state[s] = "ACTIVE"
      /\ \A w \in Seat : SoundSeat(t, w)
      /\ t.pending_player_count \in 1..n
  BY DEF TurnTable, SoundTable, ActiveSeats
<1>2. /\ u \in TableType
      /\ u.chips = t.chips /\ u.committed = t.committed
      /\ u.bet = t.bet /\ u.round_bet = t.round_bet
      /\ u.acting_player = s
      /\ u.state = [t.state EXCEPT ![s] = "FOLDED"]
      /\ u.pending_player_count \in 0..(n - 1)
  BY <1>1, AppliedAction
<1>3. \A w \in Seat : SoundSeat(u, w)
  BY <1>1, <1>2 DEF SoundSeat, TableType
<1>4. ActiveSeats(u) = ActiveSeats(t) \ {s} /\ s \in ActiveSeats(t)
  BY <1>1, <1>2 DEF ActiveSeats, TableType
<1>5. Cardinality(ActiveSeats(u)) = n - 1
  BY <1>4, SeatCounts, FS_RemoveElement
<1>6. KeepsOut(t, u)
  BY <1>1, <1>2 DEF KeepsOut, TableType
<1>. QED
  BY <1>1, <1>2, <1>3, <1>5, <1>6 DEF AnsweredTable, SoundTable

\* AnswerKeepsTable: whatever is answered to a turn, accepted or not, the table
\* stays sound, waits for no more answers than there are seats to give one, and
\* no seat but the acting one has moved.
LEMMA AnswerKeepsTable ==
    ASSUME NEW t, TurnTable(t), NEW event, event.target_bet \in Int
    PROVE  /\ AnsweredTable(HandlePlayerAction(t, event))
           /\ KeepsOut(t, HandlePlayerAction(t, event))
<1>. DEFINE r == ProcessBetting(Context(t), event.target_bet)
<1>1. CASE event.is_fold
  BY <1>1, FoldedSeat DEF HandlePlayerAction
<1>2. CASE ~event.is_fold /\ IsValid(r)
  BY <1>2, PlacedBet DEF HandlePlayerAction
<1>3. CASE ~event.is_fold /\ ~IsValid(r)
  <2>1. HandlePlayerAction(t, event) = t
    BY <1>3 DEF HandlePlayerAction
  <2>2. t.pending_player_count \in 0..Cardinality(ActiveSeats(t))
    BY SeatCounts DEF TurnTable
  <2>. QED
    BY <2>1, <2>2 DEF TurnTable, AnsweredTable, ActiveSeats, KeepsOut
<1>. QED
  BY <1>1, <1>2, <1>3

\* NextTurn: while the round goes on there is an active seat to move to, and
\* somebody to play against.
LEMMA NextTurn ==
    ASSUME NEW t, AnsweredTable(t), ~IsFlowEnded(t), NEW u, u = MoveActingPlayer(t)
    PROVE  /\ TurnTable(u)
           /\ Cardinality(AliveSeats(u)) > 1
           /\ u.state = t.state /\ u.committed = t.committed
<1>1. /\ t \in TableType /\ t.acting_player \in Seat
      /\ t.pending_player_count \in 1..Cardinality(ActiveSeats(t))
      /\ Cardinality(AliveSeats(t)) # 1
  BY SeatCounts DEF AnsweredTable, SoundTable, IsFlowEnded
<1>2. Cardinality(AliveSeats(t)) > 1 /\ ActiveSeats(t) # {}
  BY <1>1, SeatCounts
<1>3. NextActiveSeat(t.state, t.acting_player) \in ActiveSeats(t)
  BY <1>1, <1>2, NextActiveSeatFound DEF ActiveSeats
<1>4. u = [t EXCEPT !.acting_player = NextActiveSeat(t.state, t.acting_player)]
  BY DEF MoveActingPlayer
<1>5. /\ u.state = t.state /\ u.committed = t.committed
      /\ u.chips = t.chips /\ u.bet = t.bet
      /\ u.round_bet = t.round_bet
      /\ u.pending_player_count = t.pending_player_count
      /\ u.acting_player = NextActiveSeat(t.state, t.acting_player)
      /\ u \in TableType
  BY <1>1, <1>3, <1>4 DEF TableType, ActiveSeats
<1>6. ActiveSeats(u) = ActiveSeats(t) /\ AliveSeats(u) = AliveSeats(t)
  BY <1>5 DEF ActiveSeats, AliveSeats
<1>. QED
  BY <1>1, <1>2, <1>3, <1>5, <1>6 DEF TurnTable, AnsweredTable, SoundTable, SoundSeat
-----------------------------------------------------------------------------
(* GameModel's compositions.                                               *)

\* StartedRound: startBettingRound takes the bets back to zero and waits for
\* every active seat; nothing else of the table changes.
LEMMA StartedRound ==
    ASSUME NEW t \in TableType, NEW street,
           NEW u, u = StartBettingRound(t, street)
    PROVE  /\ u \in TableType
           /\ u.state = t.state /\ u.chips = t.chips
           /\ u.committed = t.committed /\ u.pot = t.pot
           /\ u.bet = [s \in Seat |-> 0] /\ u.round_bet = 0
           /\ u.pending_player_count = Cardinality(ActiveSeats(t))
           /\ u.acting_player = IF street = "PREFLOP" THEN UtgSeat
                                ELSE NextActiveSeat(t.state, BtnSeat)
<1>. DEFINE v == SetupBetting(t)
<1>1. /\ v \in TableType
      /\ v.state = t.state /\ v.chips = t.chips
      /\ v.committed = t.committed /\ v.pot = t.pot
      /\ v.bet = [s \in Seat |-> 0] /\ v.round_bet = 0
  BY DEF SetupBetting, TableType
<1>2. u = SetupToStart(v, street)
  BY DEF StartBettingRound
<1>3. Cardinality(ActiveSeats(v)) \in Nat /\ ActiveSeats(v) = ActiveSeats(t)
  BY <1>1, SeatCounts DEF ActiveSeats
<1>4. UtgSeat \in Seat /\ NextActiveSeat(v.state, BtnSeat) \in Seat \cup {-1}
  BY SeatArithmetic, NextActiveSeatFound
<1>. HIDE DEF v
<1>5. /\ u.state = v.state /\ u.chips = v.chips
      /\ u.committed = v.committed /\ u.pot = v.pot
      /\ u.bet = v.bet /\ u.round_bet = v.round_bet
      /\ u.min_raise_delta = v.min_raise_delta
      /\ u.is_acted = [s \in Seat |-> FALSE] /\ u.has_incomplete_raise = FALSE
      /\ u.pending_player_count = Cardinality(ActiveSeats(v))
      /\ u.acting_player = IF street = "PREFLOP" THEN UtgSeat
                           ELSE NextActiveSeat(v.state, BtnSeat)
  BY <1>1, <1>2 DEF SetupToStart, TableType
<1>6. u \in TableType
  <2>1. u = Fields(u)
    BY <1>1, <1>2 DEF SetupToStart, TableType, Fields
  <2>2. u.acting_player \in Seat \cup {-1} /\ u.pending_player_count \in Nat
    BY <1>3, <1>4, <1>5
  <2>. QED
    BY <1>1, <1>5, <2>1, <2>2 DEF TableType, Fields
<1>. QED
  BY <1>1, <1>3, <1>5, <1>6

\* OpenedStreet: a street after the first opens with the turn of an active seat.
LEMMA OpenedStreet ==
    ASSUME NEW t, SoundTable(t), Cardinality(ActiveSeats(t)) > 1,
           NEW street, street # "PREFLOP",
           NEW u, u = StartBettingRound(t, street)
    PROVE  TurnTable(u) /\ Cardinality(AliveSeats(u)) > 1
<1>1. /\ u \in TableType
      /\ u.state = t.state /\ u.chips = t.chips
      /\ u.bet = [s \in Seat |-> 0] /\ u.round_bet = 0
      /\ u.pending_player_count = Cardinality(ActiveSeats(t))
      /\ u.acting_player = NextActiveSeat(t.state, BtnSeat)
  BY StartedRound DEF SoundTable
<1>2. Cardinality(ActiveSeats(t)) \in Nat /\ Cardinality(AliveSeats(t)) \in Nat
      /\ Cardinality(AliveSeats(t)) > 1 /\ ActiveSeats(t) # {}
  BY SeatCounts
<1>3. NextActiveSeat(t.state, BtnSeat) \in ActiveSeats(t)
  BY <1>2, SeatArithmetic, NextActiveSeatFound DEF ActiveSeats
<1>4. ActiveSeats(u) = ActiveSeats(t) /\ AliveSeats(u) = AliveSeats(t)
  BY <1>1 DEF ActiveSeats, AliveSeats
<1>5. SoundTable(u)
  BY <1>1 DEF SoundTable, SoundSeat
<1>6. u.pending_player_count \in 1..Cardinality(ActiveSeats(u))
  BY <1>1, <1>2, <1>4
<1>. QED
  BY <1>1, <1>2, <1>3, <1>4, <1>5, <1>6 DEF TurnTable

\* PostedBlind: a blind smaller than the stack leaves the seat with chips.
LEMMA PostedBlind ==
    ASSUME NEW t \in TableType, NEW s \in Seat, NEW amount \in Nat,
           t.chips[s] > amount,
           NEW u, u = PostBlind(t, s, amount)
    PROVE  /\ u \in TableType
           /\ u.state = t.state
           /\ u.chips = [t.chips EXCEPT ![s] = t.chips[s] - amount]
           /\ u.bet = [t.bet EXCEPT ![s] = amount]
           /\ u.round_bet = amount
           /\ u.acting_player = t.acting_player
           /\ u.pending_player_count = t.pending_player_count
<1>. DEFINE v == MoveChipsToPot(t, s, amount)
<1>1. amount \in 0..t.chips[s]
  BY DEF TableType
<1>2. v \in TableType
  BY <1>1, MovedChips
<1>3. /\ v.state = t.state /\ v.bet = t.bet
      /\ v.chips = [t.chips EXCEPT ![s] = t.chips[s] - amount]
      /\ v.acting_player = t.acting_player
      /\ v.pending_player_count = t.pending_player_count
  BY DEF MoveChipsToPot, TableType
<1>4. u = [v EXCEPT !.bet[s] = amount, !.round_bet = amount, !.min_raise_delta = amount]
  BY DEF PostBlind
<1>. HIDE DEF v
<1>5. v.bet \in [Seat -> Nat]
  BY <1>2 DEF TableType
<1>6. /\ u.state = v.state /\ u.chips = v.chips
      /\ u.bet = [v.bet EXCEPT ![s] = amount]
      /\ u.round_bet = amount /\ u.min_raise_delta = amount
      /\ u.acting_player = v.acting_player
      /\ u.pending_player_count = v.pending_player_count
  BY <1>2, <1>4 DEF TableType
<1>7. u \in TableType
  <2>1. u = Fields(u) /\ u.is_acted = v.is_acted /\ u.committed = v.committed
        /\ u.has_incomplete_raise = v.has_incomplete_raise /\ u.pot = v.pot
    BY <1>2, <1>4 DEF TableType, Fields
  <2>2. u.bet \in [Seat -> Nat]
    BY <1>5, <1>6
  <2>. QED
    BY <1>2, <1>6, <2>1, <2>2 DEF TableType, Fields
<1>. QED
  BY <1>3, <1>6, <1>7

\* OpenedHand: when every stack exceeds the big blind, StartGame leaves the
\* seat after the big blind to act, on a table where both blinds are paid.
LEMMA OpenedHand ==
    ASSUME NEW t \in TableType,
           \A s \in Seat : t.state[s] = "ACTIVE" /\ t.chips[s] > BigBlind,
           NEW u, u = PostBlinds(StartBettingRound(t, "PREFLOP"))
    PROVE  TurnTable(u) /\ Cardinality(AliveSeats(u)) > 1
<1>. DEFINE v == StartBettingRound(t, "PREFLOP")
            w == PostBlind(v, SbSeat, SmallBlind)
<1>1. SmallBlind \in Nat /\ BigBlind \in Nat /\ SmallBlind <= BigBlind
  BY BigBlindAssumption DEF SmallBlind
<1>2. SbSeat \in Seat /\ BbSeat \in Seat /\ SbSeat # BbSeat /\ UtgSeat \in Seat
  BY SeatArithmetic
<1>3. /\ v \in TableType
      /\ v.state = t.state /\ v.chips = t.chips
      /\ v.bet = [s \in Seat |-> 0]
      /\ v.pending_player_count = Cardinality(ActiveSeats(t))
      /\ v.acting_player = UtgSeat
  BY StartedRound
<1>a. u = PostBlind(w, BbSeat, BigBlind)
  BY DEF PostBlinds
<1>. HIDE DEF v
<1>4. v.chips[SbSeat] > SmallBlind
  BY <1>1, <1>2, <1>3 DEF TableType
<1>5. /\ w \in TableType
      /\ w.state = v.state
      /\ w.chips = [v.chips EXCEPT ![SbSeat] = v.chips[SbSeat] - SmallBlind]
      /\ w.bet = [v.bet EXCEPT ![SbSeat] = SmallBlind]
      /\ w.acting_player = v.acting_player
      /\ w.pending_player_count = v.pending_player_count
  <2>1. v \in TableType /\ SbSeat \in Seat /\ SmallBlind \in Nat /\ v.chips[SbSeat] > SmallBlind
    BY <1>1, <1>2, <1>3, <1>4
  <2>2. PICK a : a = SmallBlind
    OBVIOUS
  <2>3. w = PostBlind(v, SbSeat, a)
    BY <2>2
  <2>. HIDE DEF w
  <2>. QED
    BY <2>1, <2>2, <2>3, PostedBlind
<1>. HIDE DEF w
<1>6. w.chips[BbSeat] > BigBlind
  BY <1>2, <1>3, <1>5 DEF TableType
<1>7. /\ u \in TableType
      /\ u.state = w.state
      /\ u.chips = [w.chips EXCEPT ![BbSeat] = w.chips[BbSeat] - BigBlind]
      /\ u.bet = [w.bet EXCEPT ![BbSeat] = BigBlind]
      /\ u.round_bet = BigBlind
      /\ u.acting_player = w.acting_player
      /\ u.pending_player_count = w.pending_player_count
  <2>1. w \in TableType /\ BbSeat \in Seat /\ BigBlind \in Nat
    BY <1>1, <1>2, <1>5
  <2>. QED
    BY <2>1, <1>6, <1>a, PostedBlind
<1>8. ASSUME NEW s \in Seat
      PROVE  SoundSeat(u, s)
  <2>1. u.state[s] = "ACTIVE"
    BY <1>3, <1>5, <1>7
  <2>2. u.chips[s] > 0
    <3>1. t.chips[s] \in Nat /\ t.chips[s] > BigBlind
      BY DEF TableType
    <3>2. w.chips[s] \in Nat /\ w.chips[s] > 0 /\ (s = BbSeat => w.chips[s] > BigBlind)
      BY <3>1, <1>1, <1>2, <1>3, <1>5, <1>6 DEF TableType
    <3>. QED
      BY <3>2, <1>1, <1>7 DEF TableType
  <2>3. u.bet[s] <= u.round_bet
    BY <1>1, <1>3, <1>5, <1>7 DEF TableType
  <2>. QED
    BY <2>1, <2>2, <2>3 DEF SoundSeat
<1>9. ActiveSeats(u) = Seat /\ AliveSeats(u) = Seat /\ ActiveSeats(t) = Seat
  BY <1>3, <1>5, <1>7 DEF ActiveSeats, AliveSeats, AliveStates
<1>10. Cardinality(Seat) = NumPlayers /\ NumPlayers >= 2 /\ NumPlayers \in Nat
  BY NumPlayersAssumption, FS_Interval DEF Seat
<1>11. u.acting_player = UtgSeat /\ u.pending_player_count = NumPlayers
  BY <1>3, <1>5, <1>7, <1>9, <1>10
<1>. QED
  BY <1>2, <1>7, <1>8, <1>9, <1>10, <1>11 DEF TurnTable, SoundTable
-----------------------------------------------------------------------------
(* calculate_awards and ChipsManager::distributePot.                       *)

\* PaidPot: paying winners empties the pot into their stacks and leaves all
\* else of the table alone.
LEMMA PaidPot ==
    ASSUME NEW t \in TableType, NEW W \in SUBSET Seat, W # {},
           NEW u, u = DistributePot(t, W)
    PROVE  /\ u \in TableType /\ u.pot = 0
           /\ u.state = t.state /\ u.committed = t.committed
<1>. DEFINE n == Cardinality(W)
<1>1. n \in Nat /\ n > 0
  <2>1. IsFiniteSet(W)
    BY SeatArithmetic, FS_Subset
  <2>2. n \in Nat
    BY <2>1, FS_CardinalityType
  <2>3. n # 0
    BY <2>1, FS_EmptySet
  <2>. QED
    BY <2>2, <2>3
<1>. HIDE DEF n
<1>2. TotalAwarded(t.pot, n) = t.pot /\ \A i : Award(t.pot, n, i) \in Nat
  BY <1>1, AwardedPot DEF TableType
<1>3. /\ u.chips = [s \in Seat |->
                      IF s \in W THEN t.chips[s] + Award(t.pot, n, OrderFromButton(W, s))
                      ELSE t.chips[s]]
      /\ u.pot = t.pot - TotalAwarded(t.pot, n)
      /\ u.state = t.state /\ u.committed = t.committed /\ u.bet = t.bet
      /\ u.is_acted = t.is_acted /\ u.round_bet = t.round_bet
      /\ u.min_raise_delta = t.min_raise_delta
      /\ u.acting_player = t.acting_player
      /\ u.pending_player_count = t.pending_player_count
      /\ u.has_incomplete_raise = t.has_incomplete_raise
      /\ u = Fields(u)
  BY DEF DistributePot, TableType, Fields, n
<1>4. u.chips \in [Seat -> Nat]
  BY <1>2, <1>3 DEF TableType
<1>5. u.pot = 0
  BY <1>2, <1>3 DEF TableType
<1>6. u \in TableType
  BY <1>3, <1>4, <1>5 DEF TableType, Fields
<1>. QED
  BY <1>3, <1>5, <1>6

-----------------------------------------------------------------------------
(***************************************************************************)
(* TypeOK is not inductive: that the acting seat stays a seat depends on   *)
(* there being an active one whenever the turn moves, and that on the      *)
(* count of pending answers, hence on every seat that still owes one being *)
(* active.  HandInv says what holds at each place of the program's thread. *)
(***************************************************************************)

\* Before StartGame: nobody has moved, and every stack exceeds the big blind.
SeatedInv ==
    /\ control = "seating" => table = NewTable
    /\ control = "seated" =>
          /\ player_count = NumPlayers
          /\ \A s \in Seat : table.state[s] = "ACTIVE" /\ table.chips[s] > BigBlind
    /\ control \in {"seating", "seated"} => community = 0

\* While a WaitingForAction is out.
TurnInv ==
    control = "awaiting" =>
        /\ stage \in Streets
        /\ TurnTable(table)
        /\ Cardinality(AliveSeats(table)) > 1

\* In distributePots every alive seat has a hand.
HandsInv == control = "settling" => hand_value \in [AliveSeats(table) -> HandValue]

HandInv == TypeOK /\ SeatedInv /\ TurnInv /\ BoardMatchesStreet /\ HandsInv

-----------------------------------------------------------------------------
\* NewTableTyped: the default-constructed managers are a table.
LEMMA NewTableTyped == NewTable \in TableType
BY DEF NewTable, TableType, PlayerState

\* CardsSuffice: the deck has the cards of a whole hand.
LEMMA CardsSuffice == NumPlayers \in Nat /\ 2 * NumPlayers + 5 <= CARDS_SIZE
BY NumPlayersAssumption DEF CARDS_SIZE

\* BestHand: among seats with hands some are best, so a pot that somebody
\* contends for always finds a winner.
LEMMA BestHand ==
    ASSUME NEW S \in SUBSET Seat, S # {}, \A s \in S : hand_value[s] \in Nat
    PROVE  DetermineWinners(S) # {}
<1>. DEFINE Beats(s) == {v \in S : hand_value[v] > hand_value[s]}
            C == {Cardinality(Beats(s)) : s \in S}
<1>1. \A s \in S : IsFiniteSet(Beats(s)) /\ Cardinality(Beats(s)) \in Nat
  BY SeatArithmetic, FS_Subset, FS_CardinalityType
<1>2. C \in SUBSET Nat /\ C # {}
  BY <1>1
<1>3. PICK c \in C : \A d \in C : c <= d
  <2>. HIDE DEF C
  <2>. QED  BY <1>2, LeastNatural
<1>4. PICK s \in S : c = Cardinality(Beats(s))
  BY <1>3
<1>5. ASSUME NEW v \in S, hand_value[v] > hand_value[s]
      PROVE  FALSE
  <2>1. Beats(v) \subseteq Beats(s) /\ v \in Beats(s) /\ v \notin Beats(v)
    BY <1>5
  <2>2. /\ IsFiniteSet(Beats(s)) /\ Cardinality(Beats(s)) \in Nat /\ Cardinality(Beats(v)) \in Nat
        /\ c = Cardinality(Beats(s)) /\ c <= Cardinality(Beats(v))
    BY <1>1, <1>3, <1>4
  <2>. HIDE DEF Beats
  <2>3. Cardinality(Beats(v)) <= Cardinality(Beats(s))
    BY <2>1, <2>2, FS_Subset
  <2>4. Cardinality(Beats(v)) = Cardinality(Beats(s))
    BY <2>2, <2>3
  <2>5. Beats(v) = Beats(s)
    BY <2>1, <2>2, <2>4, FS_Subset
  <2>. QED
    BY <2>1, <2>5
<1>6. s \in DetermineWinners(S)
  BY <1>4, <1>5 DEF DetermineWinners
<1>. QED
  BY <1>6
-----------------------------------------------------------------------------
(* The invariant, action by action.                                        *)

\* InitHand: nothing has happened yet.
LEMMA InitHand == Init => HandInv
<1>. SUFFICES ASSUME Init PROVE HandInv
  OBVIOUS
<1>1. TypeOK
  BY NewTableTyped, CardsSuffice
  DEF Init, TypeOK, Control, Stage, CARDS_SIZE
<1>. QED
  BY <1>1 DEF Init, HandInv, SeatedInv, TurnInv, BoardMatchesStreet, HandsInv

\* SeatingSteps: joins keep the new table; the stacks set by main are above
\* the big blind.
LEMMA SeatingSteps ==
    ASSUME HandInv, PlayerJoinRequest \/ SetChips
    PROVE  HandInv'
<1>. TypeOK /\ SeatedInv
  BY DEF HandInv
<1>1. CASE PlayerJoinRequest
  <2>1. TypeOK'
    BY <1>1, CardsSuffice DEF PlayerJoinRequest, TypeOK, showdownVars
  <2>2. SeatedInv'
    BY <1>1 DEF PlayerJoinRequest, SeatedInv
  <2>. QED
    BY <1>1, <2>1, <2>2 DEF PlayerJoinRequest, HandInv, TurnInv, BoardMatchesStreet, HandsInv
<1>2. CASE SetChips
  <2>1. PICK stacks \in [Seat -> BuyIn] :
            table' = [table EXCEPT !.chips = stacks] /\ buy_in' = stacks
    BY <1>2 DEF SetChips
  <2>2. table = NewTable /\ player_count = NumPlayers /\ community = 0
    BY <1>2 DEF SetChips, SeatedInv
  <2>3. \A s \in Seat : stacks[s] \in Nat /\ stacks[s] > BigBlind
    BY BuyInAssumption
  <2>4. table'.chips = stacks /\ table'.state = [s \in Seat |-> "ACTIVE"]
    BY <2>1, <2>2 DEF NewTable
  <2>5. table' \in TableType
    BY <2>1, <2>2, <2>3, NewTableTyped DEF TableType
  <2>6. TypeOK'
    BY <1>2, <2>1, <2>3, <2>5 DEF SetChips, TypeOK, Control, showdownVars
  <2>7. SeatedInv'
    BY <1>2, <2>2, <2>3, <2>4 DEF SetChips, SeatedInv
  <2>. QED
    BY <1>2, <2>6, <2>7 DEF SetChips, HandInv, TurnInv, BoardMatchesStreet, HandsInv
<1>. QED
  BY <1>1, <1>2

\* StartGameStep: the hand opens with the seat after the big blind to act.
LEMMA StartGameStep ==
    ASSUME HandInv, StartGame
    PROVE  HandInv'
<1>1. /\ table \in TableType /\ player_count = NumPlayers /\ community = 0
      /\ \A s \in Seat : table.state[s] = "ACTIVE" /\ table.chips[s] > BigBlind
  BY DEF HandInv, TypeOK, SeatedInv, StartGame
<1>2. TurnTable(table') /\ Cardinality(AliveSeats(table')) > 1
  <2>1. table' = PostBlinds(StartBettingRound(table, "PREFLOP"))
    BY DEF StartGame, DealHoleCards
  <2>. QED
    BY <1>1, <2>1, OpenedHand
<1>3. table' \in TableType
  BY <1>2 DEF TurnTable, SoundTable
<1>4. /\ cards_dealt' = 2 * NumPlayers /\ community' = 0
      /\ cards_dealt' \in 0..CARDS_SIZE
  BY <1>1, CardsSuffice DEF StartGame, DealHoleCards, CARDS_SIZE
<1>5. TypeOK'
  BY <1>3, <1>4 DEF HandInv, TypeOK, StartGame, Control, Stage, Streets, showdownVars
<1>6. TurnInv' /\ SeatedInv' /\ HandsInv' /\ BoardMatchesStreet'
  BY <1>2, <1>4 DEF StartGame, DealHoleCards, TurnInv, SeatedInv, HandsInv, BoardMatchesStreet, Streets
<1>. QED
  BY <1>5, <1>6 DEF HandInv

\* ShowdownStep: the showdown leaves a hand for every alive seat, or a dead
\* process.
LEMMA ShowdownStep ==
    ASSUME HandInv, NEW t, AnsweredTable(t), NEW board, ProcessShowdownStage(t, board),
           community' \in 0..5, cards_dealt' \in 0..CARDS_SIZE
    PROVE  HandInv'
<1>1. t \in TableType /\ ActiveSeats(t) \subseteq Seat /\ table' = t
  BY SeatCounts DEF AnsweredTable, SoundTable, ProcessShowdownStage, RevealAllHoleCards, ComparePlayerHands
<1>2. \/ /\ control' = "settling" /\ stage' = "SETTLEMENT" /\ unpaid' = pots'
         /\ hand_value' \in [AliveSeats(t) -> HandValue]
      \/ /\ control' = "trapped" /\ stage' = "SHOWDOWN" /\ UNCHANGED <<pots, unpaid>>
  BY DEF ProcessShowdownStage, RevealAllHoleCards, ComparePlayerHands
<1>3. TypeOK'
  BY <1>1, <1>2 DEF HandInv, TypeOK, ProcessShowdownStage, RevealAllHoleCards, ComparePlayerHands, Control, Stage
<1>. QED
  BY <1>1, <1>2, <1>3 DEF HandInv, SeatedInv, TurnInv, BoardMatchesStreet, HandsInv

\* PlayerActionStep: any answer leads to the next turn, the next street or the
\* showdown.
LEMMA PlayerActionStep ==
    ASSUME HandInv, NEW event \in PlayerActionEvent, PlayerAction(event)
    PROVE  HandInv' /\ KeepsOut(table, table')
<1>. DEFINE t == HandlePlayerAction(table, event)
<1>1. /\ control = "awaiting" /\ TypeOK /\ TurnTable(table) /\ stage \in Streets
      /\ BoardMatchesStreet
  BY DEF HandInv, TurnInv, PlayerAction
<1>2. AnsweredTable(t) /\ KeepsOut(table, t)
  BY <1>1, AnswerKeepsTable, TargetBetAssumption DEF PlayerActionEvent
<1>3. ContinueRound(t) \/ AwardUncontested(t) \/ RunOutBoard(t) \/ NextStreet(t) \/ RiverShowdown(t)
  BY DEF PlayerAction
<1>. HIDE DEF t
<1>4. CASE ContinueRound(t)
  <2>1. /\ TurnTable(table') /\ Cardinality(AliveSeats(table')) > 1
        /\ table'.state = t.state /\ table'.committed = t.committed
    BY <1>2, <1>4, NextTurn DEF ContinueRound
  <2>2. table' \in TableType
    BY <2>1 DEF TurnTable, SoundTable
  <2>3. TypeOK'
    BY <1>1, <1>4, <2>2 DEF ContinueRound, TypeOK, showdownVars
  <2>4. TurnInv' /\ SeatedInv' /\ HandsInv' /\ BoardMatchesStreet'
    BY <1>1, <1>4, <2>1 DEF ContinueRound, TurnInv, SeatedInv, HandsInv, BoardMatchesStreet
  <2>. QED
    BY <1>2, <2>1, <2>3, <2>4 DEF HandInv, KeepsOut
<1>5. CASE AwardUncontested(t)
  <2>1. HandInv'
    BY <1>1, <1>2, <1>5, ShowdownStep DEF AwardUncontested, TypeOK
  <2>. QED
    BY <1>2, <1>5, <2>1 DEF AwardUncontested, ProcessShowdownStage, RevealAllHoleCards, ComparePlayerHands
<1>6. CASE RiverShowdown(t)
  <2>1. HandInv'
    BY <1>1, <1>2, <1>6, ShowdownStep DEF RiverShowdown, TypeOK
  <2>. QED
    BY <1>2, <1>6, <2>1 DEF RiverShowdown, ProcessShowdownStage, RevealAllHoleCards, ComparePlayerHands
<1>7. CASE RunOutBoard(t)
  <2>1. /\ community' = 5 /\ cards_dealt' = cards_dealt + (5 - community)
        /\ ProcessShowdownStage(t, 5)
    BY <1>7 DEF RunOutBoard, DealCommunityCards, BoardSize
  <2>2. cards_dealt = 2 * NumPlayers + community /\ community \in 0..5
    BY <1>1 DEF BoardMatchesStreet, TypeOK
  <2>3. cards_dealt' = 2 * NumPlayers + 5
    BY <2>1, <2>2, CardsSuffice
  <2>4. cards_dealt' \in 0..CARDS_SIZE
    BY <2>3, CardsSuffice DEF CARDS_SIZE
  <2>5. HandInv'
    BY <1>2, <2>1, <2>4, ShowdownStep
  <2>. QED
    BY <1>2, <2>1, <2>5 DEF ProcessShowdownStage, RevealAllHoleCards, ComparePlayerHands
<1>8. CASE NextStreet(t)
  <2>1. /\ stage \in {"PREFLOP", "FLOP", "TURN"} /\ stage' = NextStage(stage)
        /\ Cardinality(ActiveSeats(t)) > 1
        /\ table' = StartBettingRound(t, stage') /\ control' = control
        /\ community' = BoardSize(stage')
        /\ cards_dealt' = cards_dealt + (BoardSize(stage') - community)
    BY <1>1, <1>8 DEF NextStreet, StreetsOpen, DealCommunityCards, Streets
  <2>2. \/ stage' = "FLOP"  /\ community' = 3
        \/ stage' = "TURN"  /\ community' = 4
        \/ stage' = "RIVER" /\ community' = 5
    BY <2>1 DEF NextStage, BoardSize
  <2>3. cards_dealt = 2 * NumPlayers + community /\ community \in 0..5
    BY <1>1 DEF BoardMatchesStreet, TypeOK
  <2>4. cards_dealt' = 2 * NumPlayers + community' /\ cards_dealt' \in 0..CARDS_SIZE
    BY <2>1, <2>2, <2>3, CardsSuffice DEF CARDS_SIZE
  <2>5. TurnTable(table') /\ Cardinality(AliveSeats(table')) > 1
    BY <1>2, <2>1, <2>2, OpenedStreet DEF AnsweredTable
  <2>6. /\ table' \in TableType
        /\ table'.state = t.state /\ table'.committed = t.committed
    BY <1>2, <2>1, StartedRound DEF AnsweredTable, SoundTable
  <2>7. TypeOK'
    BY <1>1, <1>8, <2>2, <2>4, <2>6 DEF NextStreet, TypeOK, Stage, Streets, showdownVars
  <2>8. TurnInv' /\ SeatedInv' /\ HandsInv' /\ BoardMatchesStreet'
    BY <1>1, <2>1, <2>2, <2>4, <2>5
    DEF TurnInv, SeatedInv, HandsInv, BoardMatchesStreet, Streets
  <2>. QED
    BY <1>2, <2>6, <2>7, <2>8 DEF HandInv, KeepsOut
<1>. QED
  BY <1>3, <1>4, <1>5, <1>6, <1>7, <1>8

\* SettleSteps: pots are paid to best hands, which always exist, until the hand
\* ends or the process dies.
LEMMA SettleSteps ==
    ASSUME HandInv, Settle
    PROVE  HandInv' /\ KeepsOut(table, table')
<1>. TypeOK /\ control = "settling" /\ hand_value \in [AliveSeats(table) -> HandValue]
  BY DEF HandInv, HandsInv, Settle, DistributePots, DistributeDeadPot, FinishGame
<1>1. ASSUME NEW p \in unpaid, DistributePots(p)
      PROVE  HandInv' /\ KeepsOut(table, table')
  <2>. DEFINE W == DetermineWinners(Contenders(p))
  <2>1. Contenders(p) \subseteq AliveSeats(table) /\ Contenders(p) # {}
    BY <1>1 DEF Contenders, DistributePots
  <2>2. \A s \in Contenders(p) : hand_value[s] \in Nat
    BY <2>1, HandValueAssumption
  <2>3. Contenders(p) \subseteq Seat
    BY <2>1, SeatCounts
  <2>4. W # {} /\ W \subseteq Seat
    BY <2>1, <2>2, <2>3, BestHand DEF DetermineWinners
  <2>5. table' = DistributePot(table, W) \/ table' = table
    BY <1>1 DEF DistributePots
  <2>. HIDE DEF W
  <2>6. /\ table' \in TableType
        /\ table'.state = table.state /\ table'.committed = table.committed
    BY <2>4, <2>5, PaidPot DEF TypeOK
  <2>7. AliveSeats(table') = AliveSeats(table)
    BY <2>6 DEF AliveSeats
  <2>8. TypeOK'
    BY <1>1, <2>6 DEF DistributePots, TypeOK, Control
  <2>. QED
    BY <1>1, <2>6, <2>7, <2>8
    DEF DistributePots, HandInv, SeatedInv, TurnInv, BoardMatchesStreet, HandsInv, KeepsOut
<1>2. ASSUME NEW p \in unpaid, DistributeDeadPot(p)
      PROVE  HandInv' /\ KeepsOut(table, table')
  <2>1. TypeOK'
    BY <1>2 DEF DistributeDeadPot, TypeOK, Control
  <2>. QED
    BY <1>2, <2>1
    DEF DistributeDeadPot, HandInv, SeatedInv, TurnInv, BoardMatchesStreet, HandsInv, KeepsOut
<1>3. CASE FinishGame
  <2>1. TypeOK'
    BY <1>3 DEF FinishGame, TypeOK, Control, showdownVars
  <2>. QED
    BY <1>3, <2>1
    DEF FinishGame, HandInv, SeatedInv, TurnInv, BoardMatchesStreet, HandsInv, KeepsOut
<1>. QED
  BY <1>1, <1>2, <1>3 DEF Settle

\* StutterSteps: a step that changes nothing.
LEMMA StutterSteps ==
    ASSUME HandInv, UNCHANGED vars
    PROVE  HandInv'
<1>1. TypeOK'
  BY DEF HandInv, TypeOK, vars
<1>2. SeatedInv' /\ TurnInv' /\ BoardMatchesStreet' /\ HandsInv'
  BY DEF HandInv, SeatedInv, TurnInv, BoardMatchesStreet, HandsInv, vars
<1>. QED
  BY <1>1, <1>2 DEF HandInv

\* NextHand: every step of the hand keeps the invariant.
LEMMA NextHand == HandInv /\ [Next]_vars => HandInv'
<1>. SUFFICES ASSUME HandInv, [Next]_vars PROVE HandInv'
  OBVIOUS
<1>1. CASE PlayerJoinRequest \/ SetChips
  BY <1>1, SeatingSteps
<1>2. CASE StartGame
  BY <1>2, StartGameStep
<1>3. ASSUME NEW event \in PlayerActionEvent, PlayerAction(event)
      PROVE  HandInv'
  BY <1>3, PlayerActionStep
<1>4. CASE Settle
  BY <1>4, SettleSteps
<1>5. CASE Over \/ UNCHANGED vars
  BY <1>5, StutterSteps DEF Over
<1>. QED
  BY <1>1, <1>2, <1>3, <1>4, <1>5 DEF Next

-----------------------------------------------------------------------------
\* HandInvariant: HandInv holds of every state of every hand.
THEOREM HandInvariant == Spec => []HandInv
BY InitHand, NextHand, PTL DEF Spec

\* TypesHold: every variable keeps its type, whatever the subscribers of
\* WaitingForAction answer (GameModel.cpp and the managers it calls).
THEOREM TypesHold == Spec => []TypeOK
<1>1. HandInv => TypeOK
  BY DEF HandInv
<1>. QED
  BY <1>1, HandInvariant, PTL

\* TurnsAreActive: WaitingForAction always names a seat that can act and has
\* somebody to play against, so playerAt is never called with the -1 of
\* nextActiveSeat (SeatManager.cpp:11, GameModel.cpp:76-90).
THEOREM TurnsAreActive == Spec => []TurnIsActive
<1>1. HandInv => TurnIsActive
  BY DEF HandInv, TurnInv, TurnIsActive, TurnTable, SoundTable, SoundSeat, ActiveSeats
<1>. QED
  BY <1>1, HandInvariant, PTL

\* AllInsAreExact: a seat is ALL_IN exactly when its chips are gone
\* (ActionFlow.cpp:25-44 against chips_calc.cpp:16-39).
THEOREM AllInsAreExact == Spec => []AllInExact
<1>1. HandInv => AllInExact
  <2>. SUFFICES ASSUME HandInv, control = "awaiting", NEW s \in Seat,
                       table.state[s] # "FOLDED"
                PROVE  table.state[s] = "ALL_IN" <=> table.chips[s] = 0
    BY DEF AllInExact
  <2>1. SoundSeat(table, s) /\ table \in TableType
    BY DEF HandInv, TurnInv, TurnTable, SoundTable
  <2>2. table.state[s] \in {"ACTIVE", "ALL_IN", "FOLDED", "OUT"} /\ table.chips[s] \in Nat
    BY <2>1 DEF TableType, PlayerState
  <2>. QED
    BY <2>1, <2>2 DEF SoundSeat
<1>. QED
  BY <1>1, HandInvariant, PTL

\* BoardsMatchStreets: bets of a street are taken on that street's board, and
\* no card is dealt twice or skipped (GameModel.cpp:39-50, CardsManager.cpp).
THEOREM BoardsMatchStreets == Spec => []BoardMatchesStreet
<1>1. HandInv => BoardMatchesStreet
  BY DEF HandInv
<1>. QED
  BY <1>1, HandInvariant, PTL

\* OutsAreFinal: a seat that has folded or is all in stays so until the hand
\* is over, and what it has at stake does not move.
THEOREM OutsAreFinal == Spec => OutIsFinal
<1>. DEFINE Kept == \A s \in Seat :
                        table.state[s] # "ACTIVE" =>
                            /\ table'.state[s] = table.state[s]
                            /\ table'.committed[s] = table.committed[s]
<1>1. HandInv /\ [Next]_vars => [Kept]_vars
  <2>. SUFFICES ASSUME HandInv, Next PROVE Kept
    OBVIOUS
  <2>1. CASE PlayerJoinRequest \/ StartGame \/ SetChips
    <3>1. \A s \in Seat : table.state[s] = "ACTIVE" \/ table' = table
      BY <2>1 DEF HandInv, SeatedInv, PlayerJoinRequest, StartGame, SetChips, NewTable
    <3>. QED
      BY <3>1
  <2>2. ASSUME NEW event \in PlayerActionEvent, PlayerAction(event)
        PROVE  Kept
    BY <2>2, PlayerActionStep DEF KeepsOut
  <2>3. CASE Settle
    BY <2>3, SettleSteps DEF KeepsOut
  <2>4. CASE Over
    BY <2>4 DEF Over, vars
  <2>. QED
    BY <2>1, <2>2, <2>3, <2>4 DEF Next
<1>. QED
  BY <1>1, HandInvariant, PTL DEF Spec, OutIsFinal

-----------------------------------------------------------------------------
(***************************************************************************)
(* The accounts that different classes keep of one bet: the round's, the   *)
(* seat's, what the seat committed, what it has left and the pot.  They    *)
(* rest on HandInv, which says that a seat asked is at a sound table, and, *)
(* where the chips of all seats are meant, on the sums of AlgoProofs.      *)
(***************************************************************************)

(***************************************************************************)
(* BetLedger is what holds of a table in a betting round, for the stacks   *)
(* that were brought to it: somebody has bet all that the round asks for,  *)
(* a seat's bets of the round are among what it committed, and what it has *)
(* left is the rest of its stack.                                          *)
(***************************************************************************)
StackLedger(t, brought) ==
    \A s \in Seat : t.bet[s] <= t.committed[s] /\ t.chips[s] + t.committed[s] = brought[s]

BetLedger(t, brought) ==
    /\ \E s \in Seat : t.bet[s] = t.round_bet
    /\ StackLedger(t, brought)

LedgerInv ==
    /\ control = "seated" => table = [NewTable EXCEPT !.chips = buy_in]
    /\ control = "awaiting" => BetLedger(table, buy_in)

-----------------------------------------------------------------------------
\* PlacedBetFields: an accepted bet moves the same chips in every account.
LEMMA PlacedBetFields ==
    ASSUME NEW t, TurnTable(t), NEW target \in Int,
           NEW r, r = ProcessBetting(Context(t), target), IsValid(r),
           NEW u, u = PlaceBet(t, r)
    PROVE  LET s == t.acting_player
           IN  /\ s \in Seat
               /\ u.bet = [t.bet EXCEPT ![s] = target]
               /\ u.chips = [t.chips EXCEPT ![s] = t.chips[s] - (target - t.bet[s])]
               /\ u.committed = [t.committed EXCEPT ![s] = t.committed[s] + (target - t.bet[s])]
               /\ u.round_bet = Greater(t.round_bet, target)
<1>1. t \in TableType /\ t.acting_player \in Seat
  BY DEF TurnTable, SoundTable, ActiveSeats
<1>2. /\ r.bet_delta = target - t.bet[t.acting_player] /\ r.player_bet = target
      /\ r.round_bet = Greater(t.round_bet, target)
  BY DEF ProcessBetting, Context, ChipsCommitted
<1>. QED
  BY <1>1, <1>2 DEF PlaceBet, MoveChipsToPot, ApplyAction, TableType

\* AnswerKeepsLedger: whatever is answered, the accounts agree.
LEMMA AnswerKeepsLedger ==
    ASSUME NEW t, TurnTable(t), NEW brought \in [Seat -> Nat], BetLedger(t, brought),
           NEW event, event.target_bet \in Int
    PROVE  BetLedger(HandlePlayerAction(t, event), brought)
<1>. DEFINE r == ProcessBetting(Context(t), event.target_bet)
            s == t.acting_player
            u == HandlePlayerAction(t, event)
<1>1. /\ t \in TableType /\ s \in Seat
      /\ \A v \in Seat : t.bet[v] <= t.round_bet
  BY DEF TurnTable, SoundTable, SoundSeat, ActiveSeats
<1>2. \A v \in Seat : /\ t.bet[v] \in Nat /\ t.committed[v] \in Nat /\ t.chips[v] \in Nat
                      /\ t.round_bet \in Nat
  BY <1>1 DEF TableType
<1>3. CASE event.is_fold
  <2>1. /\ u.bet = t.bet /\ u.round_bet = t.round_bet
        /\ u.committed = t.committed /\ u.chips = t.chips
    BY <1>1, <1>3 DEF HandlePlayerAction, ApplyAction, TableType
  <2>. QED
    BY <2>1 DEF BetLedger, StackLedger
<1>4. CASE ~event.is_fold /\ IsValid(r)
  <2>1. u = PlaceBet(t, r)
    BY <1>4 DEF HandlePlayerAction
  <2>2. /\ u.bet = [t.bet EXCEPT ![s] = event.target_bet]
        /\ u.chips = [t.chips EXCEPT ![s] = t.chips[s] - (event.target_bet - t.bet[s])]
        /\ u.committed = [t.committed EXCEPT
                             ![s] = t.committed[s] + (event.target_bet - t.bet[s])]
        /\ u.round_bet = Greater(t.round_bet, event.target_bet)
    BY <1>4, <2>1, PlacedBetFields
  <2>3. event.target_bet - t.bet[s] \in Nat
    <3>1. r.bet_delta = event.target_bet - t.bet[s]
      BY DEF ProcessBetting, Context, ChipsCommitted
    <3>. QED
      BY <1>2, <1>4, <3>1, TurnHasContext, AcceptedBet DEF Context
  <2>. HIDE DEF u, r
  <2>4. StackLedger(u, brought)
    BY <1>1, <1>2, <2>2, <2>3 DEF BetLedger, StackLedger, TableType
  <2>5. \E v \in Seat : u.bet[v] = u.round_bet
    <3>1. PICK v \in Seat : t.bet[v] = t.round_bet
      BY DEF BetLedger
    <3>2. CASE event.target_bet <= t.round_bet
      <4>1. u.round_bet = t.round_bet
        BY <1>2, <2>2, <3>2 DEF Greater
      <4>2. u.bet[v] = t.round_bet
        BY <1>1, <1>2, <2>2, <2>3, <3>1, <3>2 DEF TableType
      <4>. QED  BY <4>1, <4>2
    <3>3. CASE t.round_bet < event.target_bet
      <4>1. u.round_bet = event.target_bet /\ u.bet[s] = event.target_bet
        BY <1>1, <1>2, <2>2, <3>3 DEF Greater, TableType
      <4>. QED  BY <1>1, <4>1
    <3>. QED  BY <1>2, <3>2, <3>3
  <2>. QED
    BY <2>4, <2>5 DEF BetLedger, u
<1>5. CASE ~event.is_fold /\ ~IsValid(r)
  BY <1>5 DEF HandlePlayerAction
<1>. QED
  BY <1>3, <1>4, <1>5

\* PostedBlindLedger: a blind goes into every account of a seat that has
\* committed nothing yet.
LEMMA PostedBlindLedger ==
    ASSUME NEW t \in TableType, NEW s \in Seat, NEW amount \in Nat,
           t.chips[s] > amount, t.committed[s] = 0,
           NEW brought \in [Seat -> Nat], StackLedger(t, brought),
           NEW u, u = PostBlind(t, s, amount)
    PROVE  /\ StackLedger(u, brought) /\ u \in TableType
           /\ u.bet[s] = amount /\ u.round_bet = amount
           /\ \A v \in Seat \ {s} :
                 u.chips[v] = t.chips[v] /\ u.committed[v] = t.committed[v]
<1>1. /\ u \in TableType
      /\ u.chips = [t.chips EXCEPT ![s] = t.chips[s] - amount]
      /\ u.bet = [t.bet EXCEPT ![s] = amount]
      /\ u.round_bet = amount
  BY PostedBlind
<1>2. u.committed = [t.committed EXCEPT ![s] = t.committed[s] + amount]
  BY DEF PostBlind, MoveChipsToPot, TableType
<1>3. \A v \in Seat : t.chips[v] \in Nat /\ t.committed[v] \in Nat /\ t.bet[v] \in Nat
  BY DEF TableType
<1>. QED
  BY <1>1, <1>2, <1>3 DEF StackLedger, TableType

\* OpenedHandLedger: StartGame puts exactly the blinds into every account.
LEMMA OpenedHandLedger ==
    ASSUME NEW brought \in [Seat -> Nat], \A s \in Seat : brought[s] > BigBlind,
           NEW t \in TableType, t.chips = brought, t.committed = [s \in Seat |-> 0],
           NEW u, u = PostBlinds(StartBettingRound(t, "PREFLOP"))
    PROVE  BetLedger(u, brought)
<1>1. SmallBlind \in Nat /\ BigBlind \in Nat /\ SmallBlind <= BigBlind
  BY BigBlindAssumption DEF SmallBlind
<1>2. SbSeat \in Seat /\ BbSeat \in Seat /\ SbSeat # BbSeat
  BY SeatArithmetic
<1>3. PICK v : v = StartBettingRound(t, "PREFLOP")
  OBVIOUS
<1>4. PICK w : w = PostBlind(v, SbSeat, SmallBlind)
  OBVIOUS
<1>5. u = PostBlind(w, BbSeat, BigBlind)
  BY <1>3, <1>4 DEF PostBlinds
<1>6. /\ v \in TableType /\ v.chips = brought
      /\ v.committed = [s \in Seat |-> 0] /\ v.bet = [s \in Seat |-> 0]
  BY <1>3, StartedRound
<1>7. StackLedger(v, brought)
  BY <1>6 DEF StackLedger
<1>8. v.chips[SbSeat] > SmallBlind /\ v.committed[SbSeat] = 0
  BY <1>1, <1>2, <1>6
<1>9. /\ w \in TableType /\ StackLedger(w, brought)
      /\ \A s \in Seat \ {SbSeat} :
            w.chips[s] = v.chips[s] /\ w.committed[s] = v.committed[s]
  BY <1>1, <1>2, <1>4, <1>6, <1>7, <1>8, PostedBlindLedger
<1>10. w.chips[BbSeat] > BigBlind /\ w.committed[BbSeat] = 0
  BY <1>2, <1>6, <1>9
<1>11. StackLedger(u, brought) /\ u.bet[BbSeat] = u.round_bet
  BY <1>1, <1>2, <1>5, <1>9, <1>10, PostedBlindLedger
<1>. QED
  BY <1>2, <1>11 DEF BetLedger

-----------------------------------------------------------------------------
\* InitLedger: before the stacks are set there is nothing to agree about.
LEMMA InitLedger == Init => LedgerInv
BY DEF Init, LedgerInv

\* NextLedger: the accounts agree from the stacks of main to the last answer.
LEMMA NextLedger == HandInv /\ LedgerInv /\ [Next]_vars => LedgerInv'
<1>. SUFFICES ASSUME HandInv, LedgerInv, [Next]_vars PROVE LedgerInv'
  OBVIOUS
<1>. buy_in \in [Seat -> Nat] /\ table \in TableType
  BY DEF HandInv, TypeOK
<1>1. CASE PlayerJoinRequest
  BY <1>1 DEF PlayerJoinRequest, LedgerInv
<1>2. CASE SetChips
  BY <1>2 DEF SetChips, LedgerInv, HandInv, SeatedInv
<1>3. CASE StartGame
  <2>1. /\ table = [NewTable EXCEPT !.chips = buy_in]
        /\ table' = PostBlinds(StartBettingRound(table, "PREFLOP"))
        /\ control' = "awaiting" /\ buy_in' = buy_in
    BY <1>3 DEF StartGame, LedgerInv
  <2>2. \A s \in Seat : buy_in[s] > BigBlind
    BY <1>3, <2>1 DEF StartGame, HandInv, SeatedInv, NewTable
  <2>3. table.chips = buy_in /\ table.committed = [s \in Seat |-> 0]
    BY <2>1 DEF NewTable
  <2>4. BetLedger(table', buy_in)
    BY <2>1, <2>2, <2>3, OpenedHandLedger
  <2>. QED
    BY <2>1, <2>4 DEF LedgerInv
<1>4. ASSUME NEW event \in PlayerActionEvent, PlayerAction(event)
      PROVE  LedgerInv'
  <2>. DEFINE t == HandlePlayerAction(table, event)
  <2>1. /\ TurnTable(table) /\ BetLedger(table, buy_in) /\ event.target_bet \in Int
    BY <1>4, TargetBetAssumption
    DEF HandInv, TurnInv, LedgerInv, PlayerAction, PlayerActionEvent
  <2>2. AnsweredTable(t) /\ BetLedger(t, buy_in)
    BY <2>1, AnswerKeepsTable, AnswerKeepsLedger
  <2>3. \/ ContinueRound(t) \/ AwardUncontested(t) \/ RunOutBoard(t)
        \/ NextStreet(t) \/ RiverShowdown(t)
    BY <1>4 DEF PlayerAction
  <2>. HIDE DEF t
  <2>4. CASE ContinueRound(t)
    <3>1. /\ table' = MoveActingPlayer(t) /\ UNCHANGED <<control, buy_in>>
      BY <2>4 DEF ContinueRound
    <3>2. /\ table'.bet = t.bet /\ table'.round_bet = t.round_bet
          /\ table'.committed = t.committed /\ table'.chips = t.chips
      BY <2>2, <3>1 DEF MoveActingPlayer, AnsweredTable, SoundTable, TableType
    <3>. QED
      BY <1>4, <2>2, <3>1, <3>2 DEF LedgerInv, BetLedger, StackLedger, PlayerAction
  <2>5. CASE AwardUncontested(t) \/ RunOutBoard(t) \/ RiverShowdown(t)
    BY <2>5 DEF AwardUncontested, RunOutBoard, RiverShowdown, ProcessShowdownStage, LedgerInv
  <2>6. CASE NextStreet(t)
    <3>1. /\ table' = StartBettingRound(t, NextStage(stage)) /\ UNCHANGED <<control, buy_in>>
      BY <2>6 DEF NextStreet
    <3>2. /\ table'.bet = [s \in Seat |-> 0] /\ table'.round_bet = 0
          /\ table'.committed = t.committed /\ table'.chips = t.chips
      BY <2>2, <3>1, StartedRound DEF AnsweredTable, SoundTable
    <3>3. \A s \in Seat : t.committed[s] \in Nat
      BY <2>2 DEF AnsweredTable, SoundTable, TableType
    <3>4. BetLedger(table', buy_in)
      BY <2>2, <3>2, <3>3 DEF BetLedger, StackLedger
    <3>. QED
      BY <1>4, <3>1, <3>4 DEF LedgerInv, PlayerAction
  <2>. QED
    BY <2>3, <2>4, <2>5, <2>6
<1>5. CASE Settle
  BY <1>5 DEF Settle, DistributePots, DistributeDeadPot, FinishGame, LedgerInv
<1>6. CASE Over \/ UNCHANGED vars
  BY <1>6 DEF Over, vars, LedgerInv
<1>. QED
  BY <1>1, <1>2, <1>3, <1>4, <1>5, <1>6 DEF Next

\* LedgerInvariant: LedgerInv holds of every state of every hand.
THEOREM LedgerInvariant == Spec => [](HandInv /\ LedgerInv)
BY InitLedger, NextLedger, HandInvariant, PTL DEF Spec

\* HighestBet: the largest of the bets, when one of them is the round's bet and
\* none exceeds it.
LEMMA HighestBet ==
    ASSUME NEW bet \in [Seat -> Nat], NEW b \in Nat,
           \A s \in Seat : bet[s] <= b, \E s \in Seat : bet[s] = b
    PROVE  b = Max({bet[s] : s \in Seat})
<1>. DEFINE S == {bet[s] : s \in Seat}
<1>1. b \in S /\ \A x \in S : x \in Nat /\ x <= b
  OBVIOUS
<1>. HIDE DEF S
<1>2. \A x \in S : (\A y \in S : x >= y) => x = b
  BY <1>1
<1>3. \E x \in S : \A y \in S : x >= y
  BY <1>1
<1>. QED
  BY <1>2, <1>3 DEF Max, S

\* RoundBetsAreHighest: BettingManager's round_bet is the largest of the
\* players' bets, though each is set on its own (GameModel.cpp:103-116,
\* BettingManager.cpp), and no bet exceeds what ChipsManager took for it.
THEOREM RoundBetsAreHighest == Spec => []RoundBetIsHighest
<1>1. HandInv /\ LedgerInv => RoundBetIsHighest
  <2>. SUFFICES ASSUME HandInv, LedgerInv, control = "awaiting"
                PROVE  /\ table.round_bet = Max({table.bet[s] : s \in Seat})
                       /\ \A s \in Seat : table.bet[s] <= table.committed[s]
    BY DEF RoundBetIsHighest
  <2>1. /\ table.bet \in [Seat -> Nat] /\ table.round_bet \in Nat
        /\ \A s \in Seat : table.bet[s] <= table.round_bet
    BY DEF HandInv, TurnInv, TurnTable, SoundTable, SoundSeat, TableType
  <2>2. BetLedger(table, buy_in)
    BY DEF LedgerInv
  <2>. QED
    BY <2>1, <2>2, HighestBet DEF BetLedger, StackLedger
<1>. QED
  BY <1>1, LedgerInvariant, PTL

\* StacksCommitted: as long as there is betting a seat has what it brought less
\* what it committed: ChipsManager's two accounts of a payment never part.
THEOREM StacksCommitted == Spec => []StacksAreCommitted
<1>1. LedgerInv => StacksAreCommitted
  BY DEF LedgerInv, BetLedger, StackLedger, StacksAreCommitted
<1>. QED
  BY <1>1, LedgerInvariant, PTL

-----------------------------------------------------------------------------
(* The pot, and all the chips there are.                                   *)

PotLedger(t) == t.pot = ChipsOf(t.committed)

\* Conserved: all the chips that were brought are in the stacks and the pot.
Conserved(t, brought) == ChipsOf(t.chips) + t.pot = ChipsOf(brought)

\* From the first blind to the first pot paid the pot is what was committed;
\* after that only the chips altogether are known.
ChipsInv ==
    /\ control = "awaiting" => PotLedger(table)
    /\ control = "settling" /\ declared = {} =>
           PotLedger(table) /\ StackLedger(table, buy_in)
    /\ ChipsConserved

\* ChipsAreInt: chips of all the seats together are a number.
LEMMA ChipsAreInt == \A f \in [Seat -> Int] : ChipsOf(f) \in Int
<1>. TAKE f \in [Seat -> Int]
<1>. IsFiniteSet(Seat)
  BY SeatArithmetic
<1>1. ChipsOf(f) = SumFunctionOnSet(f, Seat)
  BY DEF ChipsOf, SumFunction
<1>. QED
  BY <1>1, SumType

\* LedgerConserves: when every stack is what was brought less what was put in,
\* and the pot is what was put in, no chip is missing.
LEMMA LedgerConserves ==
    ASSUME NEW t \in TableType, NEW brought \in [Seat -> Nat],
           StackLedger(t, brought), PotLedger(t)
    PROVE  Conserved(t, brought)
<1>. DEFINE C == SumFunctionOnSet(t.chips, Seat)
            D == SumFunctionOnSet(t.committed, Seat)
<1>. IsFiniteSet(Seat)
  BY SeatArithmetic
<1>1. /\ t.chips \in [Seat -> Nat] /\ t.committed \in [Seat -> Nat]
  BY DEF TableType
<1>2. ChipsOf(t.chips) = C /\ ChipsOf(t.committed) = D
  BY <1>1 DEF ChipsOf, SumFunction
<1>3. ChipsOf(brought) = SumFunctionOnSet(brought, Seat)
  BY DEF ChipsOf, SumFunction
<1>4. SumFunctionOnSet(brought, Seat) = C + D
  <2>1. \A s \in Seat : /\ t.chips[s] \in Int /\ t.committed[s] \in Int
                        /\ brought[s] = t.chips[s] + t.committed[s]
    BY <1>1 DEF StackLedger
  <2>. QED
    BY <2>1, SumTogether
<1>. QED
  BY <1>2, <1>3, <1>4 DEF Conserved, PotLedger

\* MovedChipsPot: what a seat pays goes into the pot.
LEMMA MovedChipsPot ==
    ASSUME NEW t \in TableType, NEW s \in Seat, NEW amount \in Int, PotLedger(t),
           NEW u, u.pot = t.pot + amount,
           u.committed = [t.committed EXCEPT ![s] = t.committed[s] + amount]
    PROVE  PotLedger(u)
<1>. IsFiniteSet(Seat)
  BY SeatArithmetic
<1>1. t.committed \in [Seat -> Int] /\ t.committed[s] + amount \in Int
  BY DEF TableType
<1>2. SumFunction(u.committed) = SumFunction(t.committed) - t.committed[s] + (t.committed[s] + amount)
  BY <1>1, SumChanged
<1>3. SumFunction(t.committed) \in Int
  BY <1>1, SumChanged
<1>. QED
  BY <1>1, <1>2, <1>3 DEF PotLedger, ChipsOf

\* AnswerKeepsPot: whatever is answered, the pot is what was committed.
LEMMA AnswerKeepsPot ==
    ASSUME NEW t, TurnTable(t), PotLedger(t), NEW event, event.target_bet \in Int
    PROVE  PotLedger(HandlePlayerAction(t, event))
<1>. DEFINE r == ProcessBetting(Context(t), event.target_bet)
            s == t.acting_player
            u == HandlePlayerAction(t, event)
<1>1. t \in TableType /\ s \in Seat
  BY DEF TurnTable, SoundTable, ActiveSeats
<1>2. CASE event.is_fold
  <2>1. u.pot = t.pot /\ u.committed = t.committed
    BY <1>1, <1>2 DEF HandlePlayerAction, ApplyAction, TableType
  <2>. QED
    BY <2>1 DEF PotLedger
<1>3. CASE ~event.is_fold /\ IsValid(r)
  <2>. DEFINE paid == event.target_bet - t.bet[s]
  <2>1. u = PlaceBet(t, r)
    BY <1>3 DEF HandlePlayerAction
  <2>2. u.committed = [t.committed EXCEPT ![s] = t.committed[s] + paid]
    <3>1. /\ u.bet = [t.bet EXCEPT ![s] = event.target_bet]
          /\ u.chips = [t.chips EXCEPT ![s] = t.chips[s] - (event.target_bet - t.bet[s])]
          /\ u.committed = [t.committed EXCEPT
                               ![s] = t.committed[s] + (event.target_bet - t.bet[s])]
          /\ u.round_bet = Greater(t.round_bet, event.target_bet)
      BY <1>3, <2>1, PlacedBetFields
    <3>. QED
      BY <3>1
  <2>3. u.pot = t.pot + paid
    <3>1. r.bet_delta = paid
      BY DEF ProcessBetting, Context, ChipsCommitted
    <3>. QED
      BY <1>1, <2>1, <3>1 DEF PlaceBet, MoveChipsToPot, ApplyAction, TableType
  <2>4. paid \in Int
    BY <1>1 DEF TableType
  <2>. HIDE DEF paid, u
  <2>5. PotLedger(u)
    BY <1>1, <2>2, <2>3, <2>4, MovedChipsPot
  <2>. QED
    BY <2>5 DEF u
<1>4. CASE ~event.is_fold /\ ~IsValid(r)
  BY <1>4 DEF HandlePlayerAction
<1>. QED
  BY <1>2, <1>3, <1>4

\* PostedBlindPot: a blind goes into the pot.
LEMMA PostedBlindPot ==
    ASSUME NEW t \in TableType, NEW s \in Seat, NEW amount \in Nat, PotLedger(t)
    PROVE  PotLedger(PostBlind(t, s, amount))
<1>. DEFINE u == PostBlind(t, s, amount)
<1>1. /\ u.pot = t.pot + amount
      /\ u.committed = [t.committed EXCEPT ![s] = t.committed[s] + amount]
  BY DEF PostBlind, MoveChipsToPot, TableType
<1>. HIDE DEF u
<1>2. PotLedger(u)
  BY <1>1, MovedChipsPot
<1>. QED
  BY <1>2 DEF u

\* OpenedHandPot: the pot of a hand that opens is the two blinds.
LEMMA OpenedHandPot ==
    ASSUME NEW t \in TableType, t.pot = 0, t.committed = [s \in Seat |-> 0],
           \A s \in Seat : t.chips[s] > BigBlind
    PROVE  PotLedger(PostBlinds(StartBettingRound(t, "PREFLOP")))
<1>. IsFiniteSet(Seat)
  BY SeatArithmetic
<1>1. SmallBlind \in Nat /\ BigBlind \in Nat /\ SmallBlind <= BigBlind
  BY BigBlindAssumption DEF SmallBlind
<1>2. SbSeat \in Seat /\ BbSeat \in Seat
  BY SeatArithmetic
<1>3. PICK v : v = StartBettingRound(t, "PREFLOP")
  OBVIOUS
<1>4. PICK w : w = PostBlind(v, SbSeat, SmallBlind)
  OBVIOUS
<1>5. /\ v \in TableType /\ v.chips = t.chips
      /\ v.pot = 0 /\ v.committed = [s \in Seat |-> 0]
  BY <1>3, StartedRound
<1>6. PotLedger(v)
  <2>1. \A s \in Seat : v.committed[s] = 0
    BY <1>5
  <2>2. ChipsOf(v.committed) = SumFunctionOnSet(v.committed, Seat)
    BY <1>5 DEF ChipsOf, SumFunction
  <2>3. SumFunctionOnSet(v.committed, Seat) = Cardinality(Seat) * 0
    BY <2>1, SumOfSame
  <2>4. Cardinality(Seat) \in Nat
    BY SeatArithmetic, FS_CardinalityType
  <2>. QED
    BY <1>5, <2>2, <2>3, <2>4 DEF PotLedger
<1>7. PotLedger(w)
  BY <1>1, <1>2, <1>4, <1>5, <1>6, PostedBlindPot
<1>8. w \in TableType
  <2>1. v.chips[SbSeat] > SmallBlind
    <3>1. t.chips[SbSeat] > BigBlind /\ t.chips[SbSeat] \in Nat
      BY <1>2 DEF TableType
    <3>. QED
      BY <1>1, <1>5, <3>1
  <2>. QED
    BY <1>1, <1>2, <1>4, <1>5, <2>1, PostedBlind
<1>9. PotLedger(PostBlind(w, BbSeat, BigBlind))
  BY <1>1, <1>2, <1>7, <1>8, PostedBlindPot
<1>. QED
  BY <1>3, <1>4, <1>9 DEF PostBlinds

\* SeatsShareAll: the awards of the winners, who are served in seat order from
\* the button, are together the whole pot.
LEMMA SeatsShareAll ==
    ASSUME NEW W \in SUBSET Seat, W # {}, NEW pot \in Nat, NEW n, n = Cardinality(W)
    PROVE  SumFunctionOnSet([s \in W |-> Award(pot, n, OrderFromButton(W, s))], W) = pot
<1>. DEFINE d == [s \in W |-> DistanceFromSeatLeft(s, NextSeat(BtnSeat))]
            f == [s \in W |-> Award(pot, n, OrderFromButton(W, s))]
<1>1. IsFiniteSet(W)
  BY SeatArithmetic, FS_Subset
<1>2. NextSeat(BtnSeat) \in Seat
  BY SeatArithmetic DEF NextSeat
<1>3. d \in [W -> Int] /\ \A v \in W, w \in W : d[v] = d[w] => v = w
  <2>1. \A v \in W : DistanceFromSeatLeft(v, NextSeat(BtnSeat)) \in Int
    BY <1>2, DistanceCases
  <2>. QED
    BY <1>2, <2>1, DistanceApart
<1>4. \A s \in W : f[s] = Award(pot, n, Place(W, d, s))
  BY DEF OrderFromButton, Place
<1>. HIDE DEF d, f
<1>5. SumFunctionOnSet(f, W) = pot
  BY <1>1, <1>3, <1>4, AwardsAddUp
<1>. QED
  BY <1>5 DEF f

\* PaidPotConserves: distributePot moves chips from the pot to the winners'
\* stacks, the odd chips included.
LEMMA PaidPotConserves ==
    ASSUME NEW t \in TableType, NEW W \in SUBSET Seat, W # {}, NEW brought,
           Conserved(t, brought)
    PROVE  Conserved(DistributePot(t, W), brought)
<1>. DEFINE u == DistributePot(t, W)
            n == Cardinality(W)
            award == [s \in W |-> Award(t.pot, n, OrderFromButton(W, s))]
            won == [s \in Seat |-> IF s \in W THEN award[s] ELSE 0]
<1>. IsFiniteSet(Seat)
  BY SeatArithmetic
<1>1. u \in TableType /\ u.pot = 0
  BY PaidPot
<1>2. /\ t.chips \in [Seat -> Nat] /\ u.chips \in [Seat -> Nat] /\ t.pot \in Nat
  BY <1>1 DEF TableType
<1>3. u.chips = [s \in Seat |-> IF s \in W THEN t.chips[s] + award[s] ELSE t.chips[s]]
  BY DEF DistributePot, TableType
<1>4. IsFiniteSet(W) /\ n \in Nat /\ n > 0
  <2>1. IsFiniteSet(W)
    BY SeatArithmetic, FS_Subset
  <2>. QED
    BY <2>1, FS_CardinalityType, FS_EmptySet
<1>5. \A s \in W : award[s] \in Nat
  BY <1>2, <1>4, AwardedPot
<1>6. SumFunctionOnSet(award, W) = t.pot
  BY <1>2, SeatsShareAll
<1>. HIDE DEF u, n, award
<1>7. SumFunctionOnSet(u.chips, Seat) = SumFunctionOnSet(t.chips, Seat) + SumFunctionOnSet(won, Seat)
  <2>1. \A s \in Seat : /\ t.chips[s] \in Int /\ won[s] \in Int
                        /\ u.chips[s] = t.chips[s] + won[s]
    BY <1>2, <1>3, <1>5
  <2>. HIDE DEF won
  <2>. QED
    BY <2>1, SumTogether
<1>8. SumFunctionOnSet(won, Seat) = SumFunctionOnSet(won, W)
  <2>1. /\ \A s \in Seat : won[s] \in Int
        /\ \A s \in Seat \ W : won[s] = 0
    BY <1>5
  <2>. HIDE DEF won
  <2>. QED
    BY <2>1, SumOver
<1>9. SumFunctionOnSet(won, W) = SumFunctionOnSet(award, W)
  <2>1. \A s \in W : won[s] = award[s]
    OBVIOUS
  <2>. HIDE DEF won
  <2>. QED
    BY <1>4, <2>1, SumSame
<1>10. /\ ChipsOf(u.chips) = SumFunctionOnSet(u.chips, Seat)
       /\ ChipsOf(t.chips) = SumFunctionOnSet(t.chips, Seat)
  BY <1>2 DEF ChipsOf, SumFunction
<1>. HIDE DEF won
<1>11. SumFunctionOnSet(t.chips, Seat) \in Int
  BY <1>2, SumType
<1>12. Conserved(u, brought)
  BY <1>1, <1>2, <1>6, <1>7, <1>8, <1>9, <1>10, <1>11 DEF Conserved
<1>. QED
  BY <1>12 DEF u

\* InitChips: before main sets the stacks there is nothing to conserve.
LEMMA InitChips == Init => ChipsInv
BY DEF Init, ChipsInv, ChipsConserved

\* OpenedChips: the stacks that main sets are the chips of the hand.
LEMMA OpenedChips ==
    ASSUME NEW brought \in [Seat -> Nat], NEW t, t = [NewTable EXCEPT !.chips = brought]
    PROVE  /\ t.chips = brought /\ t.pot = 0 /\ t.committed = [s \in Seat |-> 0]
           /\ Conserved(t, brought)
<1>1. t.chips = brought /\ t.pot = 0 /\ t.committed = [s \in Seat |-> 0]
  BY DEF NewTable
<1>2. ChipsOf(brought) \in Int
  BY ChipsAreInt
<1>. QED
  BY <1>1, <1>2 DEF Conserved

\* NextChips: no step makes or loses a chip.
LEMMA NextChips == HandInv /\ LedgerInv /\ ChipsInv /\ [Next]_vars => ChipsInv'
<1>. SUFFICES ASSUME HandInv, LedgerInv, ChipsInv, [Next]_vars PROVE ChipsInv'
  OBVIOUS
<1>. buy_in \in [Seat -> Nat] /\ table \in TableType
  BY DEF HandInv, TypeOK
<1>. USE DEF ChipsConserved
<1>1. CASE PlayerJoinRequest
  BY <1>1 DEF PlayerJoinRequest, ChipsInv
<1>2. CASE SetChips
  <2>1. PICK stacks \in [Seat -> BuyIn] :
            table' = [table EXCEPT !.chips = stacks] /\ buy_in' = stacks
    BY <1>2 DEF SetChips
  <2>2. table = NewTable /\ control' = "seated"
    BY <1>2 DEF SetChips, HandInv, SeatedInv
  <2>3. stacks \in [Seat -> Nat]
    BY BuyInAssumption
  <2>4. Conserved(table', buy_in')
    BY <2>1, <2>2, <2>3, OpenedChips
  <2>. QED
    BY <2>2, <2>4 DEF ChipsInv, Conserved
<1>3. CASE StartGame
  <2>1. /\ table = [NewTable EXCEPT !.chips = buy_in]
        /\ table' = PostBlinds(StartBettingRound(table, "PREFLOP"))
        /\ control' = "awaiting" /\ buy_in' = buy_in
    BY <1>3 DEF StartGame, LedgerInv
  <2>2. table.chips = buy_in /\ table.pot = 0 /\ table.committed = [s \in Seat |-> 0]
    BY <2>1, OpenedChips
  <2>3. \A s \in Seat : buy_in[s] > BigBlind
    BY <1>3, <2>2 DEF StartGame, HandInv, SeatedInv
  <2>4. PotLedger(table')
    BY <2>1, <2>2, <2>3, OpenedHandPot
  <2>5. StackLedger(table', buy_in)
    BY <2>1, <2>2, <2>3, OpenedHandLedger DEF BetLedger
  <2>6. table' \in TableType
    BY <1>3, StartGameStep DEF HandInv, TypeOK
  <2>7. Conserved(table', buy_in)
    BY <2>4, <2>5, <2>6, LedgerConserves
  <2>. QED
    BY <2>1, <2>4, <2>7 DEF ChipsInv, Conserved
<1>4. ASSUME NEW event \in PlayerActionEvent, PlayerAction(event)
      PROVE  ChipsInv'
  <2>. DEFINE t == HandlePlayerAction(table, event)
  <2>1. /\ TurnTable(table) /\ BetLedger(table, buy_in) /\ PotLedger(table)
        /\ event.target_bet \in Int /\ control = "awaiting"
    BY <1>4, TargetBetAssumption
    DEF HandInv, TurnInv, LedgerInv, ChipsInv, PlayerAction, PlayerActionEvent
  <2>2. AnsweredTable(t) /\ BetLedger(t, buy_in) /\ PotLedger(t)
    BY <2>1, AnswerKeepsTable, AnswerKeepsLedger, AnswerKeepsPot
  <2>3. \/ ContinueRound(t) \/ AwardUncontested(t) \/ RunOutBoard(t)
        \/ NextStreet(t) \/ RiverShowdown(t)
    BY <1>4 DEF PlayerAction
  <2>. HIDE DEF t
  <2>4. t \in TableType /\ StackLedger(t, buy_in) /\ Conserved(t, buy_in)
    BY <2>2, LedgerConserves DEF AnsweredTable, SoundTable, BetLedger
  <2>5. CASE ContinueRound(t)
    <3>1. /\ table' = MoveActingPlayer(t) /\ UNCHANGED <<control, buy_in>>
      BY <2>5 DEF ContinueRound
    <3>2. table'.chips = t.chips /\ table'.committed = t.committed /\ table'.pot = t.pot
      BY <2>4, <3>1 DEF MoveActingPlayer, TableType
    <3>. QED
      BY <2>1, <2>2, <2>4, <3>1, <3>2 DEF ChipsInv, Conserved, PotLedger
  <2>6. CASE AwardUncontested(t) \/ RunOutBoard(t) \/ RiverShowdown(t)
    <3>1. table' = t /\ buy_in' = buy_in /\ control' # "awaiting"
      BY <2>6 DEF AwardUncontested, RunOutBoard, RiverShowdown, ProcessShowdownStage
    <3>. QED
      BY <2>2, <2>4, <3>1 DEF ChipsInv, Conserved
  <2>7. CASE NextStreet(t)
    <3>1. /\ table' = StartBettingRound(t, NextStage(stage)) /\ UNCHANGED <<control, buy_in>>
      BY <2>7 DEF NextStreet
    <3>2. table'.chips = t.chips /\ table'.committed = t.committed /\ table'.pot = t.pot
      BY <2>4, <3>1, StartedRound
    <3>. QED
      BY <2>1, <2>2, <2>4, <3>1, <3>2 DEF ChipsInv, Conserved, PotLedger
  <2>. QED
    BY <2>3, <2>5, <2>6, <2>7
<1>5. CASE Settle
  <2>1. ASSUME NEW p \in unpaid, DistributePots(p)
        PROVE  ChipsInv'
    <3>. DEFINE W == DetermineWinners(Contenders(p))
    <3>1. /\ Contenders(p) \subseteq AliveSeats(table) /\ Contenders(p) \subseteq Seat
          /\ Contenders(p) # {} /\ control = "settling" /\ buy_in' = buy_in
      BY <2>1, SeatCounts DEF DistributePots, Contenders
    <3>2. W \in SUBSET Seat /\ W # {}
      <4>1. \A s \in Contenders(p) : hand_value[s] \in Nat
        BY <3>1, HandValueAssumption DEF HandInv, HandsInv
      <4>. QED
        BY <3>1, <4>1, BestHand DEF DetermineWinners
    <3>3. Conserved(table, buy_in)
      BY <3>1 DEF ChipsInv, Conserved
    <3>4. \/ table' = DistributePot(table, W) /\ declared' # {} /\ control' = control
          \/ table' = table /\ control' = "trapped"
      BY <2>1 DEF DistributePots
    <3>. HIDE DEF W
    <3>5. Conserved(table', buy_in')
      BY <3>1, <3>2, <3>3, <3>4, PaidPotConserves
    <3>. QED
      BY <3>1, <3>4, <3>5 DEF ChipsInv, Conserved
  <2>2. ASSUME NEW p \in unpaid, DistributeDeadPot(p)
        PROVE  ChipsInv'
    BY <2>2 DEF DistributeDeadPot, ChipsInv
  <2>3. CASE FinishGame
    BY <2>3 DEF FinishGame, ChipsInv
  <2>. QED
    BY <1>5, <2>1, <2>2, <2>3 DEF Settle
<1>6. CASE Over \/ UNCHANGED vars
  BY <1>6 DEF Over, vars, ChipsInv, PotLedger, StackLedger
<1>. QED
  BY <1>1, <1>2, <1>3, <1>4, <1>5, <1>6 DEF Next

\* ChipsInvariant: ChipsInv holds of every state of every hand.
THEOREM ChipsInvariant == Spec => [](HandInv /\ LedgerInv /\ ChipsInv)
BY InitLedger, NextLedger, InitChips, NextChips, HandInvariant, LedgerInvariant, PTL DEF Spec

\* PotIsCommitted: as long as there is betting what ChipsManager holds of each
\* seat and what PotManager holds of all of them are the same chips.
THEOREM PotIsCommitted == Spec => []SeatLedger
<1>1. LedgerInv /\ ChipsInv => SeatLedger
  BY DEF LedgerInv, BetLedger, StackLedger, StacksAreCommitted, ChipsInv, PotLedger, SeatLedger
<1>. QED
  BY <1>1, ChipsInvariant, PTL

\* NoChipsLost: from the stacks of main to the end of the settlement, wherever
\* that stops, the chips in the stacks and in the pot are those that were
\* brought: the odd chips of every split included.
THEOREM NoChipsLost == Spec => []ChipsConserved
<1>1. ChipsInv => ChipsConserved
  BY DEF ChipsInv
<1>. QED
  BY <1>1, ChipsInvariant, PTL

-----------------------------------------------------------------------------
(* The stage, and the bets of the first street.                            *)

\* All that a seat has committed before the flop it has bet before the flop.
BetsAreCommitted(t) == \A s \in Seat : t.committed[s] = t.bet[s]

StreetInv ==
    /\ control \in {"seating", "seated"} => stage = "IDLE"
    /\ control \in {"settling", "ended"} => stage = "SETTLEMENT"
    /\ control = "awaiting" /\ stage = "PREFLOP" => BetsAreCommitted(table)

\* PostedBlindBets: a blind is committed as it is bet.
LEMMA PostedBlindBets ==
    ASSUME NEW t \in TableType, NEW s \in Seat, NEW amount \in Nat,
           t.chips[s] > amount, t.committed[s] = 0, BetsAreCommitted(t),
           NEW u, u = PostBlind(t, s, amount)
    PROVE  /\ BetsAreCommitted(u) /\ u \in TableType
           /\ \A v \in Seat \ {s} :
                 u.chips[v] = t.chips[v] /\ u.committed[v] = t.committed[v]
<1>1. /\ u \in TableType
      /\ u.chips = [t.chips EXCEPT ![s] = t.chips[s] - amount]
      /\ u.bet = [t.bet EXCEPT ![s] = amount]
  BY PostedBlind
<1>2. u.committed = [t.committed EXCEPT ![s] = t.committed[s] + amount]
  BY DEF PostBlind, MoveChipsToPot, TableType
<1>. QED
  BY <1>1, <1>2 DEF BetsAreCommitted, TableType

\* OpenedHandBets: so are both.
LEMMA OpenedHandBets ==
    ASSUME NEW t \in TableType, t.committed = [s \in Seat |-> 0],
           \A s \in Seat : t.chips[s] > BigBlind,
           NEW u, u = PostBlinds(StartBettingRound(t, "PREFLOP"))
    PROVE  BetsAreCommitted(u)
<1>1. SmallBlind \in Nat /\ BigBlind \in Nat /\ SmallBlind <= BigBlind
  BY BigBlindAssumption DEF SmallBlind
<1>2. SbSeat \in Seat /\ BbSeat \in Seat /\ SbSeat # BbSeat
  BY SeatArithmetic
<1>3. PICK v : v = StartBettingRound(t, "PREFLOP")
  OBVIOUS
<1>4. PICK w : w = PostBlind(v, SbSeat, SmallBlind)
  OBVIOUS
<1>5. u = PostBlind(w, BbSeat, BigBlind)
  BY <1>3, <1>4 DEF PostBlinds
<1>6. /\ v \in TableType /\ v.chips = t.chips
      /\ v.committed = [s \in Seat |-> 0] /\ v.bet = [s \in Seat |-> 0]
  BY <1>3, StartedRound
<1>7. BetsAreCommitted(v) /\ v.chips[SbSeat] > SmallBlind /\ v.committed[SbSeat] = 0
  BY <1>1, <1>2, <1>6 DEF BetsAreCommitted, TableType
<1>8. /\ w \in TableType /\ BetsAreCommitted(w)
      /\ \A s \in Seat \ {SbSeat} :
            w.chips[s] = v.chips[s] /\ w.committed[s] = v.committed[s]
  BY <1>1, <1>2, <1>4, <1>6, <1>7, PostedBlindBets
<1>9. w.chips[BbSeat] > BigBlind /\ w.committed[BbSeat] = 0
  BY <1>2, <1>6, <1>8
<1>. QED
  BY <1>1, <1>2, <1>5, <1>8, <1>9, PostedBlindBets

\* PlacedBetIsCommitted: what is added to a bet is added to the commitment.
LEMMA PlacedBetIsCommitted ==
    ASSUME NEW t, TurnTable(t), BetsAreCommitted(t), NEW target \in Int,
           IsValid(ProcessBetting(Context(t), target))
    PROVE  BetsAreCommitted(PlaceBet(t, ProcessBetting(Context(t), target)))
<1>. DEFINE u == PlaceBet(t, ProcessBetting(Context(t), target))
<1>1. t \in TableType /\ t.acting_player \in Seat
  BY DEF TurnTable, SoundTable, ActiveSeats
<1>2. LET s == t.acting_player
      IN  /\ s \in Seat
          /\ u.bet = [t.bet EXCEPT ![s] = target]
          /\ u.chips = [t.chips EXCEPT ![s] = t.chips[s] - (target - t.bet[s])]
          /\ u.committed = [t.committed EXCEPT ![s] = t.committed[s] + (target - t.bet[s])]
          /\ u.round_bet = Greater(t.round_bet, target)
  BY PlacedBetFields
<1>. HIDE DEF u
<1>. QED
  <2>1. BetsAreCommitted(u)
    BY <1>1, <1>2 DEF BetsAreCommitted, TableType
  <2>. QED
    BY <2>1 DEF u

\* AnswerKeepsCommitted: so is whatever is answered.
LEMMA AnswerKeepsCommitted ==
    ASSUME NEW t, TurnTable(t), BetsAreCommitted(t), NEW event, event.target_bet \in Int
    PROVE  BetsAreCommitted(HandlePlayerAction(t, event))
<1>. DEFINE r == ProcessBetting(Context(t), event.target_bet)
            s == t.acting_player
            u == HandlePlayerAction(t, event)
<1>1. t \in TableType /\ s \in Seat
  BY DEF TurnTable, SoundTable, ActiveSeats
<1>2. CASE event.is_fold
  <2>1. u.bet = t.bet /\ u.committed = t.committed
    BY <1>1, <1>2 DEF HandlePlayerAction, ApplyAction, TableType
  <2>. QED
    BY <2>1 DEF BetsAreCommitted
<1>3. CASE ~event.is_fold /\ IsValid(r)
  <2>1. u = PlaceBet(t, r)
    BY <1>3 DEF HandlePlayerAction
  <2>2. BetsAreCommitted(PlaceBet(t, r))
    BY <1>3, PlacedBetIsCommitted
  <2>. QED
    BY <2>1, <2>2
<1>4. CASE ~event.is_fold /\ ~IsValid(r)
  BY <1>4 DEF HandlePlayerAction
<1>. QED
  BY <1>2, <1>3, <1>4

\* NextStreetInv: the stage follows the thread, and StartBettingRound clears the
\* bets only when the first street is over.
LEMMA NextStreetInv == HandInv /\ LedgerInv /\ StreetInv /\ [Next]_vars => StreetInv'
<1>. SUFFICES ASSUME HandInv, LedgerInv, StreetInv, [Next]_vars PROVE StreetInv'
  OBVIOUS
<1>. table \in TableType
  BY DEF HandInv, TypeOK
<1>1. CASE PlayerJoinRequest \/ SetChips
  BY <1>1 DEF PlayerJoinRequest, SetChips, StreetInv
<1>2. CASE StartGame
  <2>1. /\ table = [NewTable EXCEPT !.chips = buy_in]
        /\ table' = PostBlinds(StartBettingRound(table, "PREFLOP"))
        /\ control' = "awaiting"
    BY <1>2 DEF StartGame, LedgerInv
  <2>2. \A s \in Seat : table.chips[s] > BigBlind
    BY <1>2 DEF StartGame, HandInv, SeatedInv
  <2>3. table.committed = [s \in Seat |-> 0]
    BY <2>1 DEF NewTable
  <2>4. BetsAreCommitted(table')
    BY <2>1, <2>2, <2>3, OpenedHandBets
  <2>. QED
    BY <2>1, <2>4 DEF StreetInv
<1>3. ASSUME NEW event \in PlayerActionEvent, PlayerAction(event)
      PROVE  StreetInv'
  <2>. DEFINE t == HandlePlayerAction(table, event)
  <2>1. /\ control = "awaiting" /\ TurnTable(table) /\ stage \in Streets
        /\ event.target_bet \in Int
    BY <1>3, TargetBetAssumption DEF HandInv, TurnInv, PlayerAction, PlayerActionEvent
  <2>2. /\ AnsweredTable(t)
        /\ stage = "PREFLOP" => BetsAreCommitted(t)
    BY <2>1, AnswerKeepsTable, AnswerKeepsCommitted DEF StreetInv
  <2>3. \/ ContinueRound(t) \/ AwardUncontested(t) \/ RunOutBoard(t)
        \/ NextStreet(t) \/ RiverShowdown(t)
    BY <1>3 DEF PlayerAction
  <2>. HIDE DEF t
  <2>4. CASE ContinueRound(t)
    <3>1. table' = MoveActingPlayer(t) /\ UNCHANGED <<control, stage>>
      BY <2>4 DEF ContinueRound
    <3>2. table'.bet = t.bet /\ table'.committed = t.committed
      BY <2>2, <3>1 DEF MoveActingPlayer, AnsweredTable, SoundTable, TableType
    <3>. QED
      BY <2>1, <2>2, <3>1, <3>2 DEF StreetInv, BetsAreCommitted
  <2>5. CASE AwardUncontested(t) \/ RunOutBoard(t) \/ RiverShowdown(t)
    BY <2>5 DEF AwardUncontested, RunOutBoard, RiverShowdown, ProcessShowdownStage, StreetInv
  <2>6. CASE NextStreet(t)
    <3>1. stage' = NextStage(stage) /\ control' = control /\ stage # "RIVER"
      BY <2>6 DEF NextStreet
    <3>2. stage' # "PREFLOP"
      BY <2>1, <3>1 DEF NextStage, Streets
    <3>. QED
      BY <2>1, <3>1, <3>2 DEF StreetInv
  <2>. QED
    BY <2>3, <2>4, <2>5, <2>6
<1>4. CASE Settle
  BY <1>4 DEF Settle, DistributePots, DistributeDeadPot, FinishGame, StreetInv
<1>5. CASE Over \/ UNCHANGED vars
  BY <1>5 DEF Over, vars, StreetInv
<1>. QED
  BY <1>1, <1>2, <1>3, <1>4, <1>5 DEF Next

\* StreetInvariant: the stage is that of the betting while there is betting, and
\* before the flop no bet has been cleared.
THEOREM StreetInvariant == Spec => [](HandInv /\ LedgerInv /\ ChipsInv /\ StreetInv)
<1>1. Init => StreetInv
  BY DEF Init, StreetInv
<1>. QED
  BY <1>1, NextStreetInv, ChipsInvariant, PTL DEF Spec
=============================================================================
