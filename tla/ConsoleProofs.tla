---------------------------- MODULE ConsoleProofs ---------------------------
(***************************************************************************)
(* The program poker, with any number of players: its rounds of betting,   *)
(* and the settlement that follows them.                                   *)
(*                                                                         *)
(* ActionFlow implements the betting rounds of module BettingRound: one    *)
(* acting seat and one count of pending answers say at every moment who is *)
(* still to be asked.                                                      *)
(***************************************************************************)
EXTENDS HoldemProofs, ConsoleGame

-----------------------------------------------------------------------------
(* Who is still to be asked.                                               *)

\* The active seats that the turn comes to before it comes to s.
Before(t, s) ==
    {v \in ActiveSeats(t) :
        DistanceFromSeatLeft(v, t.acting_player) < DistanceFromSeatLeft(s, t.acting_player)}

\* ToActIsCounted: a seat is still to be asked when fewer seats come before it
\* than there are answers pending.
LEMMA ToActIsCounted ==
    ASSUME NEW t
    PROVE  ToAct(t) = {s \in ActiveSeats(t) : Cardinality(Before(t, s)) < t.pending_player_count}
BY DEF ToAct, Before

\* OthersBefore: a seat does not come before itself.
LEMMA OthersBefore ==
    ASSUME NEW t, t.acting_player \in Seat, NEW s \in Seat
    PROVE  Before(t, s) \subseteq ActiveSeats(t) \ {s}
BY NotNearer DEF Before

\* EveryoneToAct: as many answers as active seats are those of all of them.
LEMMA EveryoneToAct ==
    ASSUME NEW t, t.acting_player \in Seat, t.pending_player_count = Cardinality(ActiveSeats(t))
    PROVE  ToAct(t) = ActiveSeats(t)
<1>1. ASSUME NEW s \in ActiveSeats(t)
      PROVE  Cardinality(Before(t, s)) < Cardinality(ActiveSeats(t))
  <2>1. Before(t, s) \subseteq ActiveSeats(t) \ {s}
    BY <1>1, SeatCounts, OthersBefore
  <2>2. /\ IsFiniteSet(ActiveSeats(t) \ {s})
        /\ Cardinality(ActiveSeats(t) \ {s}) = Cardinality(ActiveSeats(t)) - 1
    BY SeatCounts, FS_RemoveElement
  <2>3. /\ Cardinality(Before(t, s)) \in Nat
        /\ Cardinality(Before(t, s)) <= Cardinality(ActiveSeats(t) \ {s})
    BY <2>1, <2>2, FS_Subset, FS_CardinalityType
  <2>. QED
    BY <2>2, <2>3, SeatCounts
<1>. QED
  BY <1>1, ToActIsCounted

\* ActingIsFirst: the acting seat is the next to be asked, and the only one when
\* one answer is pending.
LEMMA ActingIsFirst ==
    ASSUME NEW t, t.acting_player \in ActiveSeats(t),
           t.pending_player_count \in 1..Cardinality(ActiveSeats(t))
    PROVE  /\ t.acting_player \in ToAct(t)
           /\ t.pending_player_count = 1 => ToAct(t) = {t.acting_player}
<1>. DEFINE a == t.acting_player
<1>1. a \in Seat /\ t.pending_player_count \in Int /\ t.pending_player_count >= 1
  BY SeatCounts
<1>2. Cardinality(Before(t, a)) = 0
  <2>1. ASSUME NEW v \in ActiveSeats(t)
        PROVE  ~(DistanceFromSeatLeft(v, a) < DistanceFromSeatLeft(a, a))
    <3>1. DistanceFromSeatLeft(v, a) >= 0 /\ DistanceFromSeatLeft(v, a) \in Int
      BY <1>1, SeatCounts, DistanceCases DEF Seat
    <3>2. DistanceFromSeatLeft(a, a) = 0
      BY <1>1, DistanceCases
    <3>. QED
      BY <3>1, <3>2
  <2>2. Before(t, a) = {}
    BY <2>1 DEF Before
  <2>. QED
    BY <2>2, FS_EmptySet
<1>3. a \in ToAct(t)
  <2>1. Cardinality(Before(t, a)) < t.pending_player_count
    BY <1>1, <1>2
  <2>. QED
    BY <2>1, ToActIsCounted
<1>4. ASSUME NEW s \in ActiveSeats(t), s # a, Cardinality(Before(t, s)) < 1
      PROVE  FALSE
  <2>1. a \in Before(t, s)
    BY <1>1, <1>4, SeatCounts, DistanceCases DEF Before
  <2>2. IsFiniteSet(Before(t, s))
    BY SeatCounts, FS_Subset DEF Before
  <2>. QED
    BY <1>4, <2>1, <2>2, FS_EmptySet, FS_CardinalityType
<1>. QED
  BY <1>3, <1>4, ToActIsCounted

(***************************************************************************)
(* After an answer the acting seat is the same, and at most that seat has  *)
(* stopped being active.  w is the table when the turn has moved.          *)
(***************************************************************************)
TurnMoved(t, w) ==
    /\ t.acting_player \in ActiveSeats(t)
    /\ ActiveSeats(w) \in {ActiveSeats(t), ActiveSeats(t) \ {t.acting_player}}
    /\ w.acting_player = NextActiveSeat(w.state, t.acting_player)

\* BeforeMoved: the turn comes to the other seats in the order it would have
\* come to them, and last to the seat that has answered.
LEMMA BeforeMoved ==
    ASSUME NEW t, NEW w, TurnMoved(t, w), NEW s \in ActiveSeats(w)
    PROVE  /\ s # t.acting_player => /\ t.acting_player \in Before(t, s)
                                     /\ Before(w, s) = Before(t, s) \ {t.acting_player}
           /\ s = t.acting_player => Before(w, s) = ActiveSeats(w) \ {s}
<1>. DEFINE a == t.acting_player
            b == w.acting_player
<1>1. /\ a \in Seat /\ s \in Seat /\ ActiveSeats(w) \subseteq Seat
      /\ \A v \in ActiveSeats(w) : w.state[v] = "ACTIVE"
  BY SeatCounts DEF TurnMoved, ActiveSeats
<1>2. ASSUME NEW v \in ActiveSeats(w), v # a
      PROVE  /\ b \in Seat /\ b # a
             /\ DistanceFromSeatLeft(b, a) <= DistanceFromSeatLeft(v, a)
  BY <1>1, <1>2, NextIsNearest DEF TurnMoved
<1>3. CASE s # a
  <2>1. ASSUME NEW v \in ActiveSeats(w), v # a
        PROVE  /\ DistanceFromSeatLeft(v, b) < DistanceFromSeatLeft(s, b) <=>
                      DistanceFromSeatLeft(v, a) < DistanceFromSeatLeft(s, a)
    BY <1>1, <1>2, <1>3, <2>1, Rotated
  <2>2. /\ ~(DistanceFromSeatLeft(a, b) < DistanceFromSeatLeft(s, b))
        /\ DistanceFromSeatLeft(a, a) < DistanceFromSeatLeft(s, a)
    <3>1. /\ DistanceFromSeatLeft(s, b) < DistanceFromSeatLeft(a, b)
          /\ DistanceFromSeatLeft(a, a) < DistanceFromSeatLeft(s, a)
      BY <1>1, <1>2, <1>3, Rotated
    <3>2. DistanceFromSeatLeft(s, b) \in Int /\ DistanceFromSeatLeft(a, b) \in Int
      BY <1>1, <1>2, <1>3, DistanceCases DEF Seat
    <3>. QED
      BY <3>1, <3>2
  <2>3. ActiveSeats(w) \ {a} = ActiveSeats(t) \ {a} /\ a \in ActiveSeats(t)
    BY DEF TurnMoved
  <2>. QED
    BY <1>3, <2>1, <2>2, <2>3 DEF Before
<1>4. CASE s = a
  <2>1. ASSUME NEW v \in ActiveSeats(w), v # a
        PROVE  DistanceFromSeatLeft(v, b) < DistanceFromSeatLeft(s, b)
    BY <1>1, <1>2, <1>4, <2>1, Rotated
  <2>2. ~(DistanceFromSeatLeft(s, b) < DistanceFromSeatLeft(s, b))
    <3>1. b \in Seat \/ ActiveSeats(w) = {a}
      BY <1>2, <1>4
    <3>2. ActiveSeats(w) = {a} => b \in Seat
      BY <1>1, <1>4, NextActiveSeatFound DEF TurnMoved
    <3>. QED
      BY <1>1, <3>1, <3>2, NotNearer
  <2>. QED
    BY <1>4, <2>1, <2>2 DEF Before
<1>. QED
  BY <1>3, <1>4

\* ToActMoved: without a raise the round goes on to ask those it was to ask,
\* less the one who has answered.
LEMMA ToActMoved ==
    ASSUME NEW t, NEW w, TurnMoved(t, w),
           t.pending_player_count \in 1..Cardinality(ActiveSeats(t)),
           w.pending_player_count = t.pending_player_count - 1
    PROVE  ToAct(w) = ToAct(t) \ {t.acting_player}
<1>. DEFINE a == t.acting_player
<1>1. /\ t.pending_player_count \in Int
      /\ a \in ActiveSeats(t) /\ ActiveSeats(w) \ {a} = ActiveSeats(t) \ {a}
      /\ t.pending_player_count <= Cardinality(ActiveSeats(t))
  BY SeatCounts DEF TurnMoved
<1>2. ASSUME NEW s \in ActiveSeats(w), s # a
      PROVE  s \in ToAct(w) <=> s \in ToAct(t)
  <2>1. a \in Before(t, s) /\ Before(w, s) = Before(t, s) \ {a}
    BY <1>2, BeforeMoved
  <2>2. IsFiniteSet(Before(t, s)) /\ Cardinality(Before(t, s)) \in Nat
    BY SeatCounts, FS_Subset, FS_CardinalityType DEF Before
  <2>3. Cardinality(Before(w, s)) = Cardinality(Before(t, s)) - 1
    BY <2>1, <2>2, FS_RemoveElement
  <2>. QED
    BY <1>1, <1>2, <2>2, <2>3, ToActIsCounted
<1>3. a \notin ToAct(w)
  <2>. SUFFICES ASSUME a \in ActiveSeats(w)
                PROVE  ~(Cardinality(Before(w, a)) < w.pending_player_count)
    BY ToActIsCounted
  <2>1. ActiveSeats(w) = ActiveSeats(t)
    BY DEF TurnMoved
  <2>2. Cardinality(Before(w, a)) = Cardinality(ActiveSeats(t)) - 1
    <3>1. Before(w, a) = ActiveSeats(t) \ {a}
      BY <2>1, BeforeMoved
    <3>. QED
      BY <1>1, <3>1, SeatCounts, FS_RemoveElement
  <2>. QED
    BY <1>1, <2>2, SeatCounts
<1>. QED
  BY <1>1, <1>2, <1>3, ToActIsCounted

\* ToActRaised: after a raise everyone else who is active is to be asked.
LEMMA ToActRaised ==
    ASSUME NEW t, NEW w, TurnMoved(t, w),
           w.pending_player_count = Cardinality(ActiveSeats(t)) - 1
    PROVE  ToAct(w) = ActiveSeats(t) \ {t.acting_player}
<1>. DEFINE a == t.acting_player
            n == Cardinality(ActiveSeats(t))
<1>1. /\ a \in ActiveSeats(t) /\ ActiveSeats(w) \ {a} = ActiveSeats(t) \ {a}
      /\ n \in Nat /\ IsFiniteSet(ActiveSeats(t))
  BY SeatCounts DEF TurnMoved
<1>2. IsFiniteSet(ActiveSeats(t) \ {a}) /\ Cardinality(ActiveSeats(t) \ {a}) = n - 1
  BY <1>1, FS_RemoveElement
<1>. HIDE DEF n
<1>3. ASSUME NEW s \in ActiveSeats(w), s # a
      PROVE  Cardinality(Before(w, s)) < n - 1
  <2>1. Before(w, s) \subseteq (ActiveSeats(t) \ {a}) \ {s}
    <3>1. t.acting_player \in Seat /\ s \in Seat
      BY <1>1, <1>3, SeatCounts
    <3>2. Before(t, s) \subseteq ActiveSeats(t) \ {s}
      BY <3>1, OthersBefore
    <3>. QED
      BY <1>3, <3>2, BeforeMoved
  <2>2. s \in ActiveSeats(t) \ {a}
    BY <1>1, <1>3
  <2>3. /\ IsFiniteSet((ActiveSeats(t) \ {a}) \ {s})
        /\ Cardinality((ActiveSeats(t) \ {a}) \ {s}) = (n - 1) - 1
    BY <1>2, <2>2, FS_RemoveElement
  <2>4. /\ Cardinality(Before(w, s)) \in Nat
        /\ Cardinality(Before(w, s)) <= Cardinality((ActiveSeats(t) \ {a}) \ {s})
    BY <2>1, <2>3, FS_Subset, FS_CardinalityType
  <2>. QED
    BY <1>1, <2>3, <2>4
<1>4. a \notin ToAct(w)
  <2>. SUFFICES ASSUME a \in ActiveSeats(w)
                PROVE  ~(Cardinality(Before(w, a)) < w.pending_player_count)
    BY ToActIsCounted
  <2>1. Cardinality(Before(w, a)) = n - 1
    BY <1>1, <1>2, BeforeMoved
  <2>. QED
    BY <1>1, <2>1 DEF n
<1>. QED
  BY <1>1, <1>3, <1>4, ToActIsCounted DEF n

-----------------------------------------------------------------------------
(* What an answer that the console lets through does to the round.         *)

\* What is the same after every answer of the acting seat.
OthersKept(t, u) ==
    LET a == t.acting_player
    IN  /\ u.acting_player = a
        /\ \A s \in Seat \ {a} :
              /\ u.state[s] = t.state[s] /\ u.bet[s] = t.bet[s]
              /\ u.committed[s] = t.committed[s]
        /\ u.committed[a] - u.bet[a] = t.committed[a] - t.bet[a]

Folded(t, u) ==
    LET a == t.acting_player
    IN  /\ u.state[a] = "FOLDED"
        /\ u.round_bet = t.round_bet
        /\ u.pending_player_count = t.pending_player_count - 1

\* A check or a call: whoever can still bet has matched the round's bet.
Stayed(t, u) ==
    LET a == t.acting_player
    IN  /\ u.state[a] \in {"ACTIVE", "ALL_IN"}
        /\ u.state[a] = "ACTIVE" => u.bet[a] = u.round_bet
        /\ u.round_bet = t.round_bet
        /\ u.pending_player_count = t.pending_player_count - 1

Raised(t, u) ==
    LET a == t.acting_player
    IN  /\ u.state[a] \in {"ACTIVE", "ALL_IN"}
        /\ u.bet[a] = u.round_bet
        /\ u.pending_player_count = Cardinality(ActiveSeats(t)) - 1

AnswerEffect(t, u) == OthersKept(t, u) /\ (Folded(t, u) \/ Stayed(t, u) \/ Raised(t, u))

\* ConsoleAnswerCounts: an answer of the console is a fold, a check or call, or
\* a raise, and the pending count is taken down or set anew accordingly.
LEMMA ConsoleAnswerCounts ==
    ASSUME NEW t, TurnTable(t), NEW event, event.target_bet \in Int,
           \/ event.is_fold
           \/ ConsoleAccepts(Context(t), event.target_bet),
           NEW u, u = HandlePlayerAction(t, event)
    PROVE  AnswerEffect(t, u)
<1>. DEFINE a == t.acting_player
            c == Context(t)
            r == ProcessBetting(c, event.target_bet)
<1>1. /\ t \in TableType /\ a \in Seat /\ t.state[a] = "ACTIVE"
  BY DEF TurnTable, SoundTable, ActiveSeats
<1>2. /\ c.round_bet = t.round_bet /\ c.player_bet = t.bet[a] /\ t.bet[a] \in Int
      /\ t.committed[a] \in Int /\ t.round_bet \in Int
  BY <1>1 DEF Context, TableType
<1>3. CASE event.is_fold
  <2>1. u = ApplyAction(t, "FOLD")
    BY <1>3 DEF HandlePlayerAction
  <2>2. OthersKept(t, u) /\ Folded(t, u)
    BY <1>1, <1>2, <2>1 DEF ApplyAction, Raises, TableType, OthersKept, Folded
  <2>. QED
    BY <2>2 DEF AnswerEffect
<1>4. CASE ~event.is_fold
  <2>1. c \in BettingContext /\ TurnContext(c)
    BY TurnHasContext
  <2>2. IsValid(r)
    BY <1>4, <2>1, BetsAgree DEF ConsoleAgreesWithTable
  <2>3. u = PlaceBet(t, r)
    BY <1>4, <2>2 DEF HandlePlayerAction
  <2>4. /\ r.player_bet = event.target_bet /\ r.bet_delta = event.target_bet - t.bet[a]
        /\ r.action = GetAction(c, event.target_bet) /\ r.action # "VOID"
        /\ r.round_bet = Greater(t.round_bet, event.target_bet)
    BY <1>2, <2>2 DEF ProcessBetting, ChipsCommitted, IsValid
  <2>5. r.action # "FOLD"
    BY <2>1, <2>2, AcceptedBet
  <2>. HIDE DEF r, c
  <2>6. /\ u.acting_player = a
        /\ u.bet = [t.bet EXCEPT ![a] = event.target_bet]
        /\ u.committed = [t.committed EXCEPT ![a] = t.committed[a] + r.bet_delta]
        /\ u.round_bet = r.round_bet
        /\ u.state = [t.state EXCEPT ![a] = IF r.action \in AllIns THEN "ALL_IN" ELSE "ACTIVE"]
        /\ u.pending_player_count = IF r.action \in Raises THEN Cardinality(ActiveSeats(t)) - 1
                                    ELSE t.pending_player_count - 1
    BY <1>1, <2>3, <2>4, <2>5
    DEF PlaceBet, MoveChipsToPot, ApplyAction, ActiveSeats, TableType
  <2>7. OthersKept(t, u)
    BY <1>1, <1>2, <2>4, <2>6 DEF OthersKept, TableType
  <2>8. u.state[a] \in {"ACTIVE", "ALL_IN"} /\ u.bet[a] = event.target_bet
    BY <1>1, <2>6 DEF TableType
  <2>9. CASE event.target_bet > t.round_bet
    <3>1. r.action \in Raises
      BY <1>2, <2>1, <2>4, <2>9, ActionNames, ContextAmounts DEF Raises
    <3>2. u.round_bet = event.target_bet
      BY <1>2, <2>4, <2>6, <2>9 DEF Greater
    <3>. QED
      BY <2>6, <2>7, <2>8, <3>1, <3>2 DEF AnswerEffect, Raised
  <2>10. CASE event.target_bet <= t.round_bet
    <3>1. r.action \notin Raises /\ (event.target_bet < t.round_bet => r.action \in AllIns)
      BY <1>2, <2>1, <2>4, <2>10, ActionNames, ContextAmounts DEF Raises, AllIns
    <3>2. u.round_bet = t.round_bet
      BY <1>2, <2>4, <2>6, <2>10 DEF Greater
    <3>3. u.state[a] = "ACTIVE" => event.target_bet = t.round_bet
      BY <1>1, <1>2, <2>6, <2>10, <3>1 DEF TableType
    <3>. QED
      BY <2>6, <2>7, <2>8, <3>1, <3>2, <3>3 DEF AnswerEffect, Stayed
  <2>. QED
    BY <1>2, <2>9, <2>10
<1>. QED
  BY <1>3, <1>4

\* AnswerMovesTurn: an answer takes nobody out but the seat that gives it.
LEMMA AnswerMovesTurn ==
    ASSUME NEW t, TurnTable(t), NEW u, AnswerEffect(t, u),
           NEW w, w.state = u.state, w.acting_player = NextActiveSeat(u.state, u.acting_player)
    PROVE  /\ TurnMoved(t, w)
           /\ ActiveSeats(u) \in {ActiveSeats(t), ActiveSeats(t) \ {t.acting_player}}
<1>. DEFINE a == t.acting_player
<1>1. /\ a \in ActiveSeats(t) /\ a \in Seat /\ t.state[a] = "ACTIVE" /\ u.acting_player = a
      /\ \A s \in Seat \ {a} : u.state[s] = t.state[s]
  BY DEF TurnTable, ActiveSeats, AnswerEffect, OthersKept
<1>2. ActiveSeats(w) = ActiveSeats(u)
  BY DEF ActiveSeats
<1>3. ActiveSeats(u) \in {ActiveSeats(t), ActiveSeats(t) \ {a}}
  <2>1. u.state[a] = "ACTIVE" \/ u.state[a] # "ACTIVE"
    OBVIOUS
  <2>2. u.state[a] = "ACTIVE" => ActiveSeats(u) = ActiveSeats(t)
    BY <1>1 DEF ActiveSeats
  <2>3. u.state[a] # "ACTIVE" => ActiveSeats(u) = ActiveSeats(t) \ {a}
    BY <1>1 DEF ActiveSeats
  <2>. QED
    BY <2>1, <2>2, <2>3
<1>. QED
  BY <1>1, <1>2, <1>3 DEF TurnMoved

\* AnswerMovesRound: who is active, alive and to be asked once the turn has
\* moved on, by the kind of answer.
LEMMA AnswerMovesRound ==
    ASSUME NEW t, TurnTable(t), NEW u, AnswerEffect(t, u),
           NEW w, w.state = u.state, w.pending_player_count = u.pending_player_count,
           w.acting_player = NextActiveSeat(u.state, u.acting_player)
    PROVE  LET a == t.acting_player
           IN  /\ Folded(t, u) => /\ AliveSeats(u) = AliveSeats(t) \ {a}
                                  /\ ActiveSeats(u) = ActiveSeats(t) \ {a}
                                  /\ ToAct(w) = ToAct(t) \ {a}
               /\ Stayed(t, u) => /\ AliveSeats(u) = AliveSeats(t)
                                  /\ ActiveSeats(u) \in {ActiveSeats(t), ActiveSeats(t) \ {a}}
                                  /\ ToAct(w) = ToAct(t) \ {a}
               /\ Raised(t, u) => /\ AliveSeats(u) = AliveSeats(t)
                                  /\ ActiveSeats(u) \in {ActiveSeats(t), ActiveSeats(t) \ {a}}
                                  /\ ToAct(w) = ActiveSeats(t) \ {a}
<1>. DEFINE a == t.acting_player
<1>1. /\ a \in ActiveSeats(t) /\ a \in Seat /\ t.state[a] = "ACTIVE" /\ u.acting_player = a
      /\ t.pending_player_count \in 1..Cardinality(ActiveSeats(t))
      /\ \A s \in Seat \ {a} : u.state[s] = t.state[s]
  BY DEF TurnTable, ActiveSeats, AnswerEffect, OthersKept
<1>2. TurnMoved(t, w) /\ ActiveSeats(u) \in {ActiveSeats(t), ActiveSeats(t) \ {a}}
  BY AnswerMovesTurn
<1>3. CASE Folded(t, u)
  <2>1. AliveSeats(u) = AliveSeats(t) \ {a} /\ ActiveSeats(u) = ActiveSeats(t) \ {a}
    BY <1>1, <1>3 DEF Folded, AliveSeats, ActiveSeats, AliveStates
  <2>2. ToAct(w) = ToAct(t) \ {a}
    BY <1>1, <1>2, <1>3, ToActMoved DEF Folded
  <2>. QED
    BY <1>3, <2>1, <2>2 DEF Folded, Stayed, Raised
<1>4. CASE ~Folded(t, u)
  <2>1. u.state[a] \in {"ACTIVE", "ALL_IN"}
    BY <1>4 DEF AnswerEffect, Stayed, Raised
  <2>2. AliveSeats(u) = AliveSeats(t)
    BY <1>1, <2>1 DEF AliveSeats, AliveStates
  <2>3. Stayed(t, u) => ToAct(w) = ToAct(t) \ {a}
    BY <1>1, <1>2, ToActMoved DEF Stayed
  <2>4. Raised(t, u) => ToAct(w) = ActiveSeats(t) \ {a}
    BY <1>2, ToActRaised DEF Raised
  <2>. QED
    BY <1>2, <1>4, <2>2, <2>3, <2>4
<1>. QED
  BY <1>3, <1>4

-----------------------------------------------------------------------------
(* What the seats have bet.                                                *)

\* AnsweredMeansMatched and StreetsSettledEqually, of a table.
Matched(t, asked) == \A s \in ActiveSeats(t) \ asked : t.bet[s] = t.round_bet

Settled(t) ==
    \A s \in ActiveSeats(t), v \in Seat :
        t.committed[v] - t.bet[v] <= t.committed[s] - t.bet[s]

BetsInv == control = "awaiting" => Matched(table, ToAct(table)) /\ Settled(table)

\* AnswerKeepsBets: once a seat has answered its bet matches, or it is still to
\* be asked, or it can bet no more.
LEMMA AnswerKeepsBets ==
    ASSUME NEW t, TurnTable(t), Matched(t, ToAct(t)), Settled(t),
           NEW u, AnswerEffect(t, u),
           NEW w, w.state = u.state, w.pending_player_count = u.pending_player_count,
           w.acting_player = NextActiveSeat(u.state, u.acting_player)
    PROVE  Matched(u, ToAct(w)) /\ Settled(u)
<1>. DEFINE a == t.acting_player
<1>1. /\ a \in Seat /\ u.committed[a] - u.bet[a] = t.committed[a] - t.bet[a]
      /\ ActiveSeats(t) \subseteq Seat /\ a \in ActiveSeats(t)
      /\ \A s \in Seat \ {a} : u.bet[s] = t.bet[s] /\ u.committed[s] = t.committed[s]
  BY SeatCounts DEF AnswerEffect, OthersKept, TurnTable
<1>2. ActiveSeats(u) \subseteq ActiveSeats(t)
  BY AnswerMovesRound DEF AnswerEffect
<1>3. Settled(u)
  <2>1. \A s \in Seat : u.committed[s] - u.bet[s] = t.committed[s] - t.bet[s]
    BY <1>1
  <2>. QED
    BY <1>1, <1>2, <2>1 DEF Settled
<1>4. ASSUME NEW s \in ActiveSeats(u) \ ToAct(w)
      PROVE  u.bet[s] = u.round_bet
  <2>1. CASE Folded(t, u)
    <3>1. s # a /\ s \in ActiveSeats(t) \ ToAct(t)
      BY <1>2, <2>1, AnswerMovesRound
    <3>. QED
      BY <1>1, <2>1, <3>1 DEF Matched, Folded
  <2>2. CASE Stayed(t, u)
    <3>1. s # a => s \in ActiveSeats(t) \ ToAct(t)
      BY <1>2, <2>2, AnswerMovesRound
    <3>2. s = a => u.state[a] = "ACTIVE"
      BY DEF ActiveSeats
    <3>. QED
      BY <1>1, <2>2, <3>1, <3>2 DEF Matched, Stayed
  <2>3. CASE Raised(t, u)
    <3>1. s = a
      BY <1>2, <2>3, AnswerMovesRound
    <3>. QED
      BY <2>3, <3>1 DEF Raised
  <2>. QED
    BY <2>1, <2>2, <2>3 DEF AnswerEffect
<1>. QED
  BY <1>3, <1>4 DEF Matched

\* NobodyLeftToAsk: when no answer is pending nobody is to be asked.
LEMMA NobodyLeftToAsk ==
    ASSUME NEW t, t.pending_player_count = 0
    PROVE  ToAct(t) = {}
<1>1. \A s \in ActiveSeats(t) : Cardinality(Before(t, s)) \in Nat
  BY SeatCounts, FS_Subset, FS_CardinalityType DEF Before
<1>. QED
  BY <1>1, ToActIsCounted

-----------------------------------------------------------------------------
(* The steps of the program.                                               *)

\* RoundCardinality: BettingRound counts as this module does.
LEMMA RoundCardinality ==
    ASSUME NEW S
    PROVE  Round!Cardinality(S) = Cardinality(S)
BY Zenon DEF Cardinality, Round!Cardinality

\* ConsoleTurnSteps: an answer at the console, with all that follows from it,
\* keeps BetsInv and is an answer in BettingRound.
LEMMA ConsoleTurnSteps ==
    ASSUME HandInv, BetsInv, NEW event \in PlayerActionEvent,
           ConsoleAnswers(event), PlayerAction(event)
    PROVE  BetsInv' /\ Round!Answer(table.acting_player)
<1>. DEFINE u == HandlePlayerAction(table, event)
            w == MoveActingPlayer(u)
            a == table.acting_player
<1>1. /\ control = "awaiting" /\ TurnTable(table) /\ event.target_bet \in Int
      /\ Cardinality(AliveSeats(table)) > 1
      /\ Matched(table, ToAct(table)) /\ Settled(table)
      /\ stage \in Streets
  BY TargetBetAssumption DEF HandInv, TurnInv, BetsInv, PlayerAction, PlayerActionEvent
<1>2. AnsweredTable(u) /\ AnswerEffect(table, u)
  <2>1. event.is_fold \/ ConsoleAccepts(Context(table), event.target_bet)
    BY DEF ConsoleAnswers
  <2>. QED
    BY <1>1, <2>1, AnswerKeepsTable, ConsoleAnswerCounts
<1>3. \/ ContinueRound(u) \/ AwardUncontested(u) \/ RunOutBoard(u)
      \/ NextStreet(u) \/ RiverShowdown(u)
  BY DEF PlayerAction
<1>. HIDE DEF u
<1>4. /\ w.state = u.state /\ w.pending_player_count = u.pending_player_count
      /\ w.acting_player = NextActiveSeat(u.state, u.acting_player)
      /\ w.bet = u.bet /\ w.round_bet = u.round_bet /\ w.committed = u.committed
  BY <1>2 DEF MoveActingPlayer, AnsweredTable, SoundTable, TableType
<1>. HIDE DEF w
<1>5. Matched(u, ToAct(w)) /\ Settled(u)
  BY <1>1, <1>2, <1>4, AnswerKeepsBets
<1>6. ASSUME ~IsFlowEnded(u)
      PROVE  ToAct(w) # {} /\ Cardinality(AliveSeats(u)) > 1
  <2>1. TurnTable(w) /\ Cardinality(AliveSeats(w)) > 1
    BY <1>2, <1>6, NextTurn DEF w
  <2>. QED
    BY <1>4, <2>1, ActingIsFirst DEF TurnTable, AliveSeats
<1>7. ASSUME IsFlowEnded(u)
      PROVE  ToAct(w) = {} \/ Cardinality(AliveSeats(u)) = 1
  BY <1>4, <1>7, NobodyLeftToAsk DEF IsFlowEnded
<1>8. ASSUME table'.state = u.state
      PROVE  AliveSeats(table') = AliveSeats(u) /\ ActiveSeats(table') = ActiveSeats(u)
  BY <1>8 DEF AliveSeats, ActiveSeats
\* The table after the turn: where the round goes on, it is to ask ToAct(w).
<1>9. /\ BetsInv'
      /\ Round!Proceed(ToAct(w))
      /\ AliveSeats(table') = AliveSeats(u) /\ ActiveSeats(table') = ActiveSeats(u)
  <2>1. CASE ContinueRound(u)
    <3>1. table' = w /\ control' = "awaiting" /\ ~IsFlowEnded(u)
      BY <1>1, <2>1 DEF ContinueRound, w
    <3>2. AliveSeats(table') = AliveSeats(u) /\ ActiveSeats(table') = ActiveSeats(u)
      BY <1>4, <1>8, <3>1
    <3>3. BetsInv'
      BY <1>4, <1>5, <3>1, <3>2 DEF BetsInv, Matched, Settled
    <3>4. Round!Proceed(ToAct(w))
      BY <1>6, <3>1, <3>2, RoundCardinality DEF Round!Proceed
    <3>. QED
      BY <3>2, <3>3, <3>4
  <2>2. CASE NextStreet(u)
    <3>1. /\ IsFlowEnded(u) /\ Cardinality(AliveSeats(u)) # 1
          /\ Cardinality(ActiveSeats(u)) > 1 /\ control' = "awaiting"
          /\ table' = StartBettingRound(u, stage') /\ stage' # "PREFLOP"
      BY <1>1, <2>2 DEF NextStreet, StreetsOpen, Streets, NextStage
    <3>2. /\ table'.state = u.state /\ table'.committed = u.committed
          /\ table'.bet = [s \in Seat |-> 0] /\ table'.round_bet = 0
          /\ table'.pending_player_count = Cardinality(ActiveSeats(u))
      BY <1>2, <3>1, StartedRound DEF AnsweredTable, SoundTable
    <3>3. AliveSeats(table') = AliveSeats(u) /\ ActiveSeats(table') = ActiveSeats(u)
      BY <1>8, <3>2
    <3>4. TurnTable(table')
      BY <1>2, <3>1, OpenedStreet DEF AnsweredTable
    <3>5. ToAct(table') = ActiveSeats(table')
      BY <3>2, <3>3, <3>4, SeatCounts, EveryoneToAct DEF TurnTable
    <3>6. ASSUME NEW s \in ActiveSeats(u), NEW v \in Seat
          PROVE  u.committed[v] - 0 <= u.committed[s] - 0
      <4>1. s \in Seat /\ u.bet[s] = u.round_bet
        BY <1>5, <1>7, <3>1, SeatCounts DEF Matched
      <4>2. u.bet[v] <= u.round_bet /\ u.committed[v] - u.bet[v] <= u.committed[s] - u.bet[s]
        BY <1>2, <1>5 DEF AnsweredTable, SoundTable, SoundSeat, Settled
      <4>3. /\ u.bet[v] \in Int /\ u.bet[s] \in Int /\ u.round_bet \in Int
            /\ u.committed[v] \in Int /\ u.committed[s] \in Int
        BY <1>2, <4>1 DEF AnsweredTable, SoundTable, TableType
      <4>. QED
        BY <4>1, <4>2, <4>3
    <3>7. Settled(table')
      BY <3>2, <3>3, <3>6, SeatCounts DEF Settled
    <3>8. BetsInv'
      BY <3>5, <3>7 DEF BetsInv, Matched
    <3>9. Round!Proceed(ToAct(w))
      BY <1>7, <3>1, <3>3, <3>5, RoundCardinality DEF Round!Proceed
    <3>. QED
      BY <3>3, <3>8, <3>9
  <2>3. CASE AwardUncontested(u) \/ RunOutBoard(u) \/ RiverShowdown(u)
    <3>1. IsFlowEnded(u) /\ table' = u /\ control' \in {"settling", "trapped"}
      BY <2>3 DEF AwardUncontested, RunOutBoard, RiverShowdown, StreetsOpen, ProcessShowdownStage
    <3>2. AliveSeats(table') = AliveSeats(u) /\ ActiveSeats(table') = ActiveSeats(u)
      BY <1>8, <3>1
    <3>3. Round!Proceed(ToAct(w))
      BY <1>7, <3>1, <3>2, RoundCardinality DEF Round!Proceed
    <3>. QED
      BY <3>1, <3>2, <3>3 DEF BetsInv
  <2>. QED
    BY <1>3, <2>1, <2>2, <2>3
<1>10. a \in ToAct(table)
  BY <1>1, ActingIsFirst DEF TurnTable
<1>11. Round!Fold(a) \/ Round!Stay(a) \/ Round!Raise(a)
  <2>1. CASE Folded(table, u)
    <3>1. /\ AliveSeats(u) = AliveSeats(table) \ {a}
          /\ ActiveSeats(u) = ActiveSeats(table) \ {a}
          /\ ToAct(w) = ToAct(table) \ {a}
      BY <1>1, <1>2, <1>4, <2>1, AnswerMovesRound
    <3>. QED
      BY <1>1, <1>9, <3>1 DEF Round!Fold
  <2>2. CASE Stayed(table, u)
    <3>1. /\ AliveSeats(u) = AliveSeats(table)
          /\ ActiveSeats(u) \in {ActiveSeats(table), ActiveSeats(table) \ {a}}
          /\ ToAct(w) = ToAct(table) \ {a}
      BY <1>1, <1>2, <1>4, <2>2, AnswerMovesRound
    <3>. QED
      BY <1>1, <1>9, <3>1 DEF Round!Stay
  <2>3. CASE Raised(table, u)
    <3>1. /\ AliveSeats(u) = AliveSeats(table)
          /\ ActiveSeats(u) \in {ActiveSeats(table), ActiveSeats(table) \ {a}}
          /\ ToAct(w) = ActiveSeats(table) \ {a}
      BY <1>1, <1>2, <1>4, <2>3, AnswerMovesRound
    <3>. QED
      BY <1>1, <1>9, <3>1 DEF Round!Raise
  <2>. QED
    BY <1>2, <2>1, <2>2, <2>3 DEF AnswerEffect
<1>. QED
  BY <1>1, <1>9, <1>10, <1>11 DEF Round!Answer

\* ConsoleIsTable: the program takes steps of the table only.
LEMMA ConsoleIsTable == [ConsoleNext]_vars => [Next]_vars
BY DEF ConsoleNext, ConsoleTurn, Next

\* BlindPosted(t, s, amount, u) is what posting a blind makes of table t.
BlindPosted(t, s, amount, u) ==
    /\ u \in TableType
    /\ u.state = t.state /\ u.pending_player_count = t.pending_player_count
    /\ u.acting_player = t.acting_player
    /\ u.bet = [t.bet EXCEPT ![s] = amount]
    /\ u.committed = [t.committed EXCEPT ![s] = t.committed[s] + amount]
    /\ u.chips = [t.chips EXCEPT ![s] = t.chips[s] - amount]

\* PostedBlindCounts: a blind is bet and committed, and answers nothing.
LEMMA PostedBlindCounts ==
    ASSUME NEW t \in TableType, NEW s \in Seat, NEW amount \in Nat, t.chips[s] > amount
    PROVE  BlindPosted(t, s, amount, PostBlind(t, s, amount))
<1>1. PICK u : u = PostBlind(t, s, amount)
  OBVIOUS
<1>2. u.committed = [t.committed EXCEPT ![s] = t.committed[s] + amount]
  BY <1>1 DEF PostBlind, MoveChipsToPot, TableType
<1>. QED
  BY <1>1, <1>2, PostedBlind DEF BlindPosted

\* OpenedHandCounts: after the blinds everyone is still to be asked, and has
\* committed what it has bet.
LEMMA OpenedHandCounts ==
    ASSUME NEW t \in TableType, t.committed = [s \in Seat |-> 0],
           \A s \in Seat : t.chips[s] > BigBlind,
           NEW u, u = PostBlinds(StartBettingRound(t, "PREFLOP"))
    PROVE  /\ u.state = t.state
           /\ u.pending_player_count = Cardinality(ActiveSeats(t))
           /\ \A s \in Seat : u.committed[s] = u.bet[s] /\ u.bet[s] \in Nat
<1>1. SmallBlind \in Nat /\ BigBlind \in Nat /\ SmallBlind <= BigBlind
  BY BigBlindAssumption DEF SmallBlind
<1>2. SbSeat \in Seat /\ BbSeat \in Seat /\ SbSeat # BbSeat
  BY SeatArithmetic
<1>3. PICK v : v = StartBettingRound(t, "PREFLOP")
  OBVIOUS
<1>4. PICK w : w = PostBlind(v, SbSeat, SmallBlind)
  OBVIOUS
<1>5. u = PostBlind(w, BbSeat, BigBlind)
  BY <1>3, <1>4 DEF PostBlinds
<1>6. /\ v \in TableType /\ v.state = t.state /\ v.chips = t.chips
      /\ v.committed = [s \in Seat |-> 0] /\ v.bet = [s \in Seat |-> 0]
      /\ v.pending_player_count = Cardinality(ActiveSeats(t))
  BY <1>3, StartedRound
<1>7. v.chips[SbSeat] > SmallBlind
  BY <1>1, <1>2, <1>6 DEF TableType
<1>8. BlindPosted(v, SbSeat, SmallBlind, w)
  BY <1>1, <1>2, <1>4, <1>6, <1>7, PostedBlindCounts
<1>9. w \in TableType /\ w.chips[BbSeat] > BigBlind
  BY <1>2, <1>6, <1>8 DEF TableType, BlindPosted
<1>10. BlindPosted(w, BbSeat, BigBlind, u)
  BY <1>1, <1>2, <1>5, <1>9, PostedBlindCounts
<1>11. ASSUME NEW s \in Seat
       PROVE  u.committed[s] = u.bet[s] /\ u.bet[s] \in Nat
  <2>1. w.committed[s] = w.bet[s] /\ w.bet[s] \in Nat
    BY <1>1, <1>2, <1>6, <1>8 DEF BlindPosted
  <2>2. w.committed[BbSeat] = 0
    BY <1>2, <1>6, <1>8 DEF BlindPosted
  <2>3. w.bet \in [Seat -> Nat] /\ w.committed \in [Seat -> Nat]
    BY <1>8 DEF TableType, BlindPosted
  <2>. QED
    BY <1>1, <1>2, <1>10, <2>1, <2>2, <2>3 DEF BlindPosted
<1>. QED
  BY <1>6, <1>8, <1>10, <1>11 DEF BlindPosted

\* PaidStates: the settlement changes nobody's state.
LEMMA PaidStates ==
    ASSUME NEW t \in TableType, NEW W
    PROVE  DistributePot(t, W).state = t.state
BY DEF DistributePot, TableType

\* ConsoleSteps: every other step of the program either opens the first round
\* or is none of BettingRound's.
LEMMA ConsoleSteps ==
    ASSUME HandInv, LedgerInv, BetsInv, [ConsoleNext]_vars
    PROVE  BetsInv' /\ [Round!RoundNext]_(Round!roundVars)
<1>1. CASE PlayerJoinRequest
  <2>1. UNCHANGED <<control, table>> /\ control = "seating"
    BY <1>1 DEF PlayerJoinRequest
  <2>. QED
    BY <2>1 DEF BetsInv, Round!roundVars, AliveSeats, ActiveSeats
<1>2. CASE SetChips
  <2>1. control = "seating" /\ control' = "seated" /\ table'.state = table.state
    BY <1>2 DEF SetChips, HandInv, SeatedInv, NewTable
  <2>2. AliveSeats(table') = AliveSeats(table) /\ ActiveSeats(table') = ActiveSeats(table)
    BY <2>1 DEF AliveSeats, ActiveSeats
  <2>. QED
    BY <2>1, <2>2 DEF BetsInv, Round!roundVars
<1>3. CASE StartGame
  <2>1. /\ control = "seated" /\ control' = "awaiting"
        /\ table' = PostBlinds(StartBettingRound(table, "PREFLOP"))
        /\ table \in TableType /\ table.committed = [s \in Seat |-> 0]
        /\ \A s \in Seat : table.state[s] = "ACTIVE" /\ table.chips[s] > BigBlind
    BY <1>3 DEF StartGame, HandInv, TypeOK, SeatedInv, LedgerInv, NewTable
  <2>2. /\ table'.state = table.state /\ TurnTable(table')
        /\ table'.pending_player_count = Cardinality(ActiveSeats(table))
    BY <2>1, OpenedHand, OpenedHandCounts
  <2>3. AliveSeats(table') = AliveSeats(table) /\ ActiveSeats(table') = ActiveSeats(table)
    BY <2>2 DEF AliveSeats, ActiveSeats
  <2>4. ToAct(table') = ActiveSeats(table')
    BY <2>2, <2>3, SeatCounts, EveryoneToAct DEF TurnTable
  <2>5. Settled(table')
    <3>1. \A s \in Seat : table'.committed[s] - table'.bet[s] = 0
      BY <2>1, OpenedHandCounts
    <3>. QED
      BY <3>1, SeatCounts DEF Settled
  <2>6. Round!FirstRound
    BY <2>1, <2>3, <2>4 DEF Round!FirstRound
  <2>. QED
    BY <2>4, <2>5, <2>6 DEF BetsInv, Matched, Round!RoundNext
<1>4. ASSUME NEW event \in PlayerActionEvent, ConsoleAnswers(event), PlayerAction(event)
      PROVE  BetsInv' /\ [Round!RoundNext]_(Round!roundVars)
  <2>1. BetsInv' /\ Round!Answer(table.acting_player) /\ table.acting_player \in Seat
    BY <1>4, ConsoleTurnSteps, SeatCounts DEF HandInv, TurnInv, TurnTable, PlayerAction
  <2>. QED
    BY <2>1 DEF Round!RoundNext
<1>5. CASE Settle
  <2>1. /\ control = "settling" /\ control' \in {"settling", "trapped", "ended"}
        /\ table'.state = table.state
    <3>1. table \in TableType
      BY DEF HandInv, TypeOK
    <3>2. ASSUME NEW p \in unpaid, DistributePots(p)
          PROVE  /\ control = "settling" /\ control' \in {"settling", "trapped"}
                 /\ table'.state = table.state
      <4>. DEFINE W == DetermineWinners(Contenders(p))
      <4>1. /\ control = "settling" /\ control' \in {"settling", "trapped"}
            /\ table' = DistributePot(table, W) \/ table' = table
        BY <3>2 DEF DistributePots
      <4>. HIDE DEF W
      <4>. QED
        BY <3>1, <4>1, PaidStates
    <3>. QED
      BY <1>5, <3>2 DEF Settle, DistributeDeadPot, FinishGame
  <2>2. AliveSeats(table') = AliveSeats(table) /\ ActiveSeats(table') = ActiveSeats(table)
    BY <2>1 DEF AliveSeats, ActiveSeats
  <2>. QED
    BY <2>1, <2>2 DEF BetsInv, Round!roundVars
<1>6. CASE Over \/ UNCHANGED vars
  <2>1. UNCHANGED <<control, table>>
    BY <1>6 DEF Over, vars
  <2>. QED
    BY <2>1 DEF BetsInv, Matched, Settled, ToAct, Round!roundVars, AliveSeats, ActiveSeats
<1>. QED
  BY <1>1, <1>2, <1>3, <1>4, <1>5, <1>6 DEF ConsoleNext, ConsoleTurn

\* ConsoleInvariant: the three invariants hold in every state of the program.
THEOREM ConsoleInvariant == ConsoleSpec => [](HandInv /\ LedgerInv /\ BetsInv)
<1>1. Init => HandInv /\ LedgerInv /\ BetsInv
  BY InitHand, InitLedger DEF Init, BetsInv
<1>2. HandInv /\ LedgerInv /\ BetsInv /\ [ConsoleNext]_vars =>
          (HandInv /\ LedgerInv /\ BetsInv)'
  BY NextHand, NextLedger, ConsoleIsTable, ConsoleSteps
<1>. QED
  BY <1>1, <1>2, PTL DEF ConsoleSpec

\* RoundsAreImplemented: ActionFlow's acting seat, pending count and flags
\* (ActionFlow.cpp:8-60) implement the betting rounds of BettingRound: nobody is
\* skipped or asked twice without a raise, and no street opens while an answer
\* is due.
THEOREM RoundsAreImplemented == ConsoleSpec => RoundRefinement
<1>1. Init => Round!RoundInit
  <2>. SUFFICES ASSUME Init PROVE Round!RoundInit
    OBVIOUS
  <2>1. AliveSeats(table) = Seat /\ ActiveSeats(table) = Seat /\ control = "seating"
    BY DEF Init, NewTable, AliveSeats, ActiveSeats, AliveStates
  <2>. QED
    BY <2>1 DEF Round!RoundInit
<1>2. HandInv /\ LedgerInv /\ BetsInv /\ [ConsoleNext]_vars => [Round!RoundNext]_(Round!roundVars)
  BY ConsoleSteps
<1>. QED
  BY <1>1, <1>2, ConsoleInvariant, PTL DEF ConsoleSpec, RoundRefinement, Round!RoundSpec

\* NoDebtIsForgotten: whoever the round no longer waits for, and can still bet,
\* has put in what it asks (ActionFlow::isFlowEnded, GameModel.cpp:103-118).
THEOREM NoDebtIsForgotten == ConsoleSpec => []AnsweredMeansMatched
<1>1. HandInv /\ BetsInv => AnsweredMeansMatched
  BY DEF BetsInv, Matched, AnsweredMeansMatched
<1>. QED
  BY <1>1, ConsoleInvariant, PTL

\* StreetsArePaidEqually: all who can still bet have paid the same for the
\* streets that are over, and nobody has paid more (BettingManager::setupBetting
\* forgets the bets of the street before).
THEOREM StreetsArePaidEqually == ConsoleSpec => []StreetsSettledEqually
<1>1. HandInv /\ BetsInv => StreetsSettledEqually
  BY DEF BetsInv, Settled, StreetsSettledEqually
<1>. QED
  BY <1>1, ConsoleInvariant, PTL

-----------------------------------------------------------------------------
(***************************************************************************)
(* The settlement of the program poker.  DistributePot empties PotManager  *)
(* into the first pot that somebody contends for, so all is paid out only  *)
(* if there is such a pot, and there is one because whoever is in the hand *)
(* at the end has put something into it.  That is no matter of course: the *)
(* seats that post no blind begin with nothing, and what makes them pay is *)
(* that the big blind's bet is there before them and is to be matched.     *)
(***************************************************************************)
\* A seat that can still bet and has put in nothing has yet to be asked, and is
\* asked before the big blind is.
Antes(t) ==
    /\ t.committed[BbSeat] > 0
    /\ \A s \in ActiveSeats(t) :
          t.committed[s] = 0 => BbSeat \in ActiveSeats(t) /\ s \in Before(t, BbSeat)

\* All who are still in have put something in, the pots are those of what was
\* committed, and some pot that is not paid is contended by them all.
Payable(t, made, left) ==
    /\ AliveSeats(t) # {}
    /\ \A s \in Seat : t.state[s] # "OUT"
    /\ \A s \in AliveSeats(t) : t.committed[s] > 0
    /\ made = SplitPot(t)
    /\ \/ t.pot = 0
       \/ \E p \in left : {s \in p.contributors : s \in AliveSeats(t)} = AliveSeats(t)

PotInv ==
    /\ control # "seating" => \A s \in Seat : buy_in[s] > 0
    /\ control = "awaiting" => Antes(table)
    /\ control = "settling" => Payable(table, pots, unpaid)
    /\ control = "ended" => table.pot = 0

-----------------------------------------------------------------------------
(* Paying to see: nobody reaches the end of the hand for nothing.          *)

\* AnswerCommits: an answer takes nothing back.
LEMMA AnswerCommits ==
    ASSUME NEW t, TurnTable(t), NEW event, event.target_bet \in Int,
           NEW u, u = HandlePlayerAction(t, event), NEW s \in Seat
    PROVE  u.committed[s] >= t.committed[s]
<1>. DEFINE r == ProcessBetting(Context(t), event.target_bet)
            a == t.acting_player
            paid == event.target_bet - t.bet[a]
<1>1. t \in TableType /\ a \in Seat /\ t.committed[s] \in Nat
  BY DEF TurnTable, SoundTable, ActiveSeats, TableType
<1>2. CASE event.is_fold
  <2>1. u.committed = t.committed
    BY <1>1, <1>2 DEF HandlePlayerAction, ApplyAction, TableType
  <2>. QED
    BY <1>1, <2>1
<1>3. CASE ~event.is_fold /\ IsValid(r)
  <2>1. u = PlaceBet(t, r)
    BY <1>3 DEF HandlePlayerAction
  <2>2. /\ u.bet = [t.bet EXCEPT ![a] = event.target_bet]
        /\ u.chips = [t.chips EXCEPT ![a] = t.chips[a] - paid]
        /\ u.committed = [t.committed EXCEPT ![a] = t.committed[a] + paid]
        /\ u.round_bet = Greater(t.round_bet, event.target_bet)
    BY <1>3, <2>1, PlacedBetFields
  <2>3. paid \in Nat
    <3>1. r.bet_delta = paid
      BY DEF ProcessBetting, Context, ChipsCommitted
    <3>2. Context(t).player_chips \in Nat
      BY TurnHasContext, ContextAmounts
    <3>. QED
      BY <1>3, <3>1, <3>2, TurnHasContext, AcceptedBet
  <2>. HIDE DEF paid
  <2>. QED
    BY <1>1, <2>2, <2>3 DEF TableType
<1>4. CASE ~event.is_fold /\ ~IsValid(r)
  BY <1>1, <1>4 DEF HandlePlayerAction
<1>. QED
  BY <1>2, <1>3, <1>4

\* NothingIsOwed: a seat that has matched the bet of the round has paid something,
\* since the big blind has, and nobody has paid more for the streets before.
LEMMA NothingIsOwed ==
    ASSUME NEW u, SoundTable(u), NEW brought, StackLedger(u, brought), Settled(u),
           u.committed[BbSeat] > 0,
           NEW s \in ActiveSeats(u), u.bet[s] = u.round_bet
    PROVE  u.committed[s] > 0
<1>1. /\ u \in TableType /\ s \in Seat /\ BbSeat \in Seat
      /\ u.bet[BbSeat] <= u.round_bet /\ u.bet[s] <= u.committed[s]
      /\ u.committed[BbSeat] - u.bet[BbSeat] <= u.committed[s] - u.bet[s]
  BY SeatArithmetic, SeatCounts DEF SoundTable, SoundSeat, StackLedger, Settled
<1>2. /\ u.committed[s] \in Nat /\ u.bet[s] \in Nat /\ u.bet[BbSeat] \in Nat
      /\ u.committed[BbSeat] \in Nat /\ u.round_bet \in Nat
  BY <1>1 DEF TableType
<1>. QED
  BY <1>1, <1>2

\* AnswerKeepsAntes: after an answer whoever has paid nothing is still asked
\* before the big blind, and nobody has if the round is over.
LEMMA AnswerKeepsAntes ==
    ASSUME NEW t, TurnTable(t), Antes(t),
           NEW u, AnswerEffect(t, u), SoundTable(u),
           NEW brought, StackLedger(u, brought), Settled(u),
           \A s \in Seat : u.committed[s] >= t.committed[s],
           NEW w, w.state = u.state, w.acting_player = NextActiveSeat(u.state, u.acting_player),
           w.committed = u.committed, w.pending_player_count = u.pending_player_count,
           Matched(u, ToAct(w))
    PROVE  /\ Antes(w)
           /\ IsFlowEnded(u) => \A s \in ActiveSeats(u) : u.committed[s] > 0
<1>. DEFINE a == t.acting_player
<1>1. /\ TurnMoved(t, w) /\ ActiveSeats(u) \subseteq ActiveSeats(t)
      /\ ActiveSeats(w) = ActiveSeats(u) /\ ActiveSeats(u) \subseteq Seat /\ a \in Seat
      /\ \A s \in Seat \ {a} : u.committed[s] = t.committed[s] /\ u.state[s] = t.state[s]
  <2>1. ActiveSeats(w) = ActiveSeats(u)
    BY DEF ActiveSeats
  <2>. QED
    BY <2>1, AnswerMovesTurn, SeatCounts DEF AnswerEffect, OthersKept, TurnTable
<1>2. /\ BbSeat \in Seat /\ u.committed[BbSeat] > 0
      /\ \A s \in Seat : u.committed[s] \in Nat
  <2>1. BbSeat \in Seat /\ u \in TableType /\ t \in TableType
    BY SeatArithmetic DEF SoundTable, TurnTable
  <2>2. \A s \in Seat : u.committed[s] \in Nat /\ t.committed[s] \in Nat
    BY <2>1 DEF TableType
  <2>. QED
    BY <2>1, <2>2 DEF Antes
\* The seat that has just answered has paid, if it can still bet.
<1>3. ASSUME a \in ActiveSeats(u)
      PROVE  u.committed[a] > 0
  <2>1. u.bet[a] = u.round_bet
    BY <1>3 DEF AnswerEffect, Folded, Stayed, Raised, ActiveSeats
  <2>. QED
    BY <1>2, <1>3, <2>1, NothingIsOwed
\* Another that has not is still before the big blind.
<1>4. ASSUME NEW s \in ActiveSeats(u), u.committed[s] = 0
      PROVE  BbSeat \in ActiveSeats(u) /\ s \in Before(w, BbSeat) /\ s # BbSeat
  <2>1. s # a /\ s # BbSeat /\ s \in Seat
    BY <1>1, <1>2, <1>3, <1>4
  <2>2. BbSeat \in ActiveSeats(t) /\ s \in Before(t, BbSeat)
    BY <1>1, <1>4, <2>1 DEF Antes
  <2>3. BbSeat # a
    <3>1. DistanceFromSeatLeft(s, a) >= 0 /\ DistanceFromSeatLeft(s, a) \in Int
      BY <1>1, <2>1, DistanceCases DEF Seat
    <3>2. DistanceFromSeatLeft(a, a) = 0
      <4>1. a \in Seat
        BY <1>1
      <4>. HIDE DEF a
      <4>. QED
        BY <4>1, DistanceCases
    <3>3. DistanceFromSeatLeft(s, a) < DistanceFromSeatLeft(BbSeat, a)
      BY <2>2 DEF Before
    <3>. QED
      BY <3>1, <3>2, <3>3
  <2>4. BbSeat \in ActiveSeats(u)
    BY <1>1, <1>2, <2>2, <2>3 DEF ActiveSeats
  <2>5. Before(w, BbSeat) = Before(t, BbSeat) \ {a}
    BY <1>1, <2>3, <2>4, BeforeMoved
  <2>. QED
    BY <2>1, <2>2, <2>4, <2>5
<1>5. Antes(w)
  BY <1>1, <1>2, <1>4 DEF Antes
<1>6. ASSUME IsFlowEnded(u), NEW s \in ActiveSeats(u)
      PROVE  u.committed[s] > 0
  <2>1. CASE u.pending_player_count = 0
    <3>1. ToAct(w) = {}
      BY <2>1, NobodyLeftToAsk
    <3>2. u.bet[s] = u.round_bet
      BY <1>6, <3>1 DEF Matched
    <3>. QED
      BY <1>2, <1>6, <3>2, NothingIsOwed
  <2>2. CASE Cardinality(AliveSeats(u)) = 1
    <3>. SUFFICES ASSUME u.committed[s] = 0 PROVE FALSE
      BY <1>1, <1>2, <1>6
    <3>1. s # BbSeat /\ BbSeat \in AliveSeats(u) /\ s \in AliveSeats(u)
      BY <1>4, <1>6, SeatCounts
    <3>2. IsFiniteSet(AliveSeats(u))
      BY SeatCounts
    <3>3. /\ IsFiniteSet(AliveSeats(u) \ {s})
          /\ Cardinality(AliveSeats(u) \ {s}) = 0
      BY <2>2, <3>1, <3>2, FS_RemoveElement
    <3>4. AliveSeats(u) \ {s} = {}
      BY <3>3, FS_EmptySet
    <3>. QED
      BY <3>1, <3>4
  <2>. QED
    BY <1>6, <2>1, <2>2 DEF IsFlowEnded
<1>. QED
  BY <1>5, <1>6

\* OpenedHandAntes: when the hand opens only the big blind is asked after all
\* who have paid nothing.
LEMMA OpenedHandAntes ==
    ASSUME NEW brought \in [Seat -> Nat], \A s \in Seat : brought[s] > BigBlind,
           NEW t \in TableType, t.chips = brought, t.committed = [s \in Seat |-> 0],
           \A s \in Seat : t.state[s] = "ACTIVE",
           NEW u, u = PostBlinds(StartBettingRound(t, "PREFLOP"))
    PROVE  Antes(u)
<1>1. SmallBlind \in Nat /\ BigBlind \in Nat /\ SmallBlind <= BigBlind /\ BigBlind > 0
  BY BigBlindAssumption DEF SmallBlind
<1>2. SbSeat \in Seat /\ BbSeat \in Seat /\ SbSeat # BbSeat /\ UtgSeat \in Seat
  BY SeatArithmetic
<1>3. PICK v : v = StartBettingRound(t, "PREFLOP")
  OBVIOUS
<1>4. PICK w : w = PostBlind(v, SbSeat, SmallBlind)
  OBVIOUS
<1>5. u = PostBlind(w, BbSeat, BigBlind)
  BY <1>3, <1>4 DEF PostBlinds
<1>6. /\ v \in TableType /\ v.chips = brought /\ v.state = t.state
      /\ v.acting_player = UtgSeat
  BY <1>3, StartedRound
<1>7. v.chips[SbSeat] > SmallBlind
  BY <1>1, <1>2, <1>6
<1>8. BlindPosted(v, SbSeat, SmallBlind, w)
  BY <1>1, <1>2, <1>4, <1>6, <1>7, PostedBlindCounts
<1>9. w \in TableType /\ w.chips[BbSeat] > BigBlind
  BY <1>2, <1>6, <1>8 DEF BlindPosted
<1>10. BlindPosted(w, BbSeat, BigBlind, u)
  BY <1>1, <1>2, <1>5, <1>9, PostedBlindCounts
<1>11. ActiveSeats(u) = Seat /\ u.acting_player = UtgSeat
  BY <1>6, <1>8, <1>10 DEF ActiveSeats, BlindPosted
<1>12. u.committed[BbSeat] > 0
  <2>1. u.committed[BbSeat] = u.bet[BbSeat]
    BY <1>2, OpenedHandCounts
  <2>2. u.bet[BbSeat] = BigBlind
    BY <1>2, <1>9, <1>10 DEF TableType, BlindPosted
  <2>. QED
    BY <1>1, <2>1, <2>2
<1>13. ASSUME NEW s \in Seat, s # BbSeat
       PROVE  DistanceFromSeatLeft(s, UtgSeat) < DistanceFromSeatLeft(BbSeat, UtgSeat)
  <2>1. DistanceFromSeatLeft(BbSeat, UtgSeat) = NumPlayers - 1
    <3>1. NumPlayers \in Int /\ NumPlayers >= 2
      BY NumPlayersAssumption
    <3>2. BbSeat = 2 % NumPlayers /\ UtgSeat = 3 % NumPlayers
      BY DEF BbSeat, UtgSeat, SeatAfter, BtnSeat
    <3>3. CASE NumPlayers = 2
      BY <3>2, <3>3, <1>2, DistanceCases
    <3>4. CASE NumPlayers = 3
      BY <3>2, <3>4, <1>2, DistanceCases
    <3>5. CASE NumPlayers > 3
      <4>1. BbSeat = 2 /\ UtgSeat = 3
        BY <3>1, <3>2, <3>5
      <4>. QED
        BY <1>2, <3>1, <4>1, DistanceCases
    <3>. QED
      BY <3>1, <3>3, <3>4, <3>5
  <2>2. DistanceFromSeatLeft(s, UtgSeat) # NumPlayers - 1
    BY <1>2, <1>13, <2>1, DistanceApart
  <2>3. DistanceFromSeatLeft(s, UtgSeat) \in 0..(NumPlayers - 1)
    BY <1>2, DistanceCases DEF Seat
  <2>. QED
    BY <2>1, <2>2, <2>3, NumPlayersAssumption
<1>14. \A s \in Seat : u.committed[s] = 0 => s # BbSeat
  BY <1>12
<1>. QED
  BY <1>2, <1>11, <1>12, <1>13, <1>14 DEF Antes, Before

-----------------------------------------------------------------------------
(* The pots that are made of it.                                           *)

\* EveryonesPots: nobody is out of the game, so the pots are made of all that
\* was committed, also by those who have folded.
LEMMA EveryonesPots ==
    ASSUME NEW t \in TableType, \A s \in Seat : t.state[s] # "OUT"
    PROVE  SplitPot(t) = LoadSidePots(t.committed) /\ t.committed \in [Seat -> Nat]
<1>1. PlayingSeats(t) = Seat
  BY DEF PlayingSeats, PlayingStates, PlayerState, TableType
<1>2. t.committed \in [Seat -> Nat]
  BY DEF TableType
<1>3. [s \in Seat |-> t.committed[s]] = t.committed
  BY <1>2
<1>. QED
  BY <1>1, <1>2, <1>3 DEF SplitPot

\* LowestPotIsEveryones: whoever is still in contends for the lowest pot.
LEMMA LowestPotIsEveryones ==
    ASSUME NEW t \in TableType, \A s \in Seat : t.state[s] # "OUT",
           \A s \in AliveSeats(t) : t.committed[s] > 0,
           NEW p \in SplitPot(t), \A q \in SplitPot(t) : p.level <= q.level
    PROVE  {s \in p.contributors : s \in AliveSeats(t)} = AliveSeats(t)
<1>. DEFINE c == t.committed
<1>1. /\ IsFiniteSet(Seat) /\ c \in [Seat -> Nat] /\ SplitPot(t) = LoadSidePots(c)
      /\ AliveSeats(t) \subseteq Seat
  BY SeatArithmetic, SeatCounts, EveryonesPots
<1>. HIDE DEF c
<1>2. PICK l \in PotLevels(c) : p = SidePot(c, l)
  BY <1>1 DEF LoadSidePots
<1>3. p.level = l /\ p.contributors = {s \in Seat : l <= c[s]}
  BY <1>1, <1>2, PotFields
<1>4. ASSUME NEW s \in AliveSeats(t)
      PROVE  s \in p.contributors
  <2>1. s \in Seat /\ c[s] \in PotLevels(c)
    <3>1. s \in Seat /\ c[s] > 0 /\ c[s] \in Nat
      BY <1>1, <1>4 DEF c
    <3>. QED
      BY <1>1, <3>1 DEF PotLevels
  <2>2. PICK k \in PotLevels(c) : k = c[s]
    BY <2>1
  <2>3. PICK q : q = SidePot(c, k)
    OBVIOUS
  <2>4. q \in SplitPot(t) /\ q.level = k
    BY <1>1, <2>3, PotFields DEF LoadSidePots
  <2>. QED
    BY <1>3, <2>1, <2>2, <2>4
<1>. QED
  BY <1>4

\* SomePotIsLowest: if somebody is still in, who has paid, there is a pot, and
\* a lowest one.
LEMMA SomePotIsLowest ==
    ASSUME NEW t \in TableType, \A s \in Seat : t.state[s] # "OUT",
           AliveSeats(t) # {}, \A s \in AliveSeats(t) : t.committed[s] > 0
    PROVE  \E p \in SplitPot(t) : \A q \in SplitPot(t) : p.level <= q.level
<1>. DEFINE c == t.committed
            L == PotLevels(c)
<1>1. /\ IsFiniteSet(Seat) /\ c \in [Seat -> Nat] /\ SplitPot(t) = LoadSidePots(c)
      /\ AliveSeats(t) \subseteq Seat
  BY SeatArithmetic, SeatCounts, EveryonesPots
<1>2. PICK s \in AliveSeats(t) : c[s] > 0 /\ s \in Seat /\ c[s] \in Nat
  BY <1>1
<1>. HIDE DEF c
<1>3. L \in SUBSET Nat /\ c[s] \in L
  BY <1>1, <1>2 DEF PotLevels
<1>. HIDE DEF L
<1>4. PICK l \in L : \A k \in L : l <= k
  BY <1>3, LeastNatural
<1>5. \A k \in L : SidePot(c, k).level = k
  BY <1>1, PotFields DEF L
<1>6. SplitPot(t) = {SidePot(c, k) : k \in L}
  BY <1>1 DEF LoadSidePots, L
<1>. QED
  BY <1>4, <1>5, <1>6

\* PayableAtFirst: when the betting is over the pots can be paid out.
LEMMA PayableAtFirst ==
    ASSUME NEW t, SoundTable(t), AliveSeats(t) # {},
           NEW brought, StackLedger(t, brought), \A s \in Seat : brought[s] > 0,
           \A s \in ActiveSeats(t) : t.committed[s] > 0
    PROVE  Payable(t, SplitPot(t), SplitPot(t))
<1>1. t \in TableType /\ \A s \in Seat : t.state[s] # "OUT"
  BY DEF SoundTable, SoundSeat
<1>2. ASSUME NEW s \in AliveSeats(t)
      PROVE  t.committed[s] > 0
  <2>1. s \in Seat /\ t.state[s] \in {"ACTIVE", "ALL_IN"}
    BY DEF AliveSeats, AliveStates
  <2>2. CASE t.state[s] = "ACTIVE"
    BY <2>1, <2>2 DEF ActiveSeats
  <2>3. CASE t.state[s] = "ALL_IN"
    <3>1. t.chips[s] = 0 /\ t.chips[s] + t.committed[s] = brought[s] /\ t.committed[s] \in Nat
      BY <1>1, <2>1, <2>3 DEF SoundTable, SoundSeat, StackLedger, TableType
    <3>. QED
      BY <2>1, <3>1
  <2>. QED
    BY <2>1, <2>2, <2>3
<1>3. PICK p \in SplitPot(t) : \A q \in SplitPot(t) : p.level <= q.level
  BY <1>1, <1>2, SomePotIsLowest
<1>4. {s \in p.contributors : s \in AliveSeats(t)} = AliveSeats(t)
  BY <1>1, <1>2, <1>3, LowestPotIsEveryones
<1>. QED
  BY <1>1, <1>2, <1>3, <1>4 DEF Payable

-----------------------------------------------------------------------------
(* The invariant, step by step.                                            *)

\* ConsoleTurnPots: an answer at the console leaves whoever has paid nothing
\* with the big blind still to match, and pots that can be paid at the end.
LEMMA ConsoleTurnPots ==
    ASSUME HandInv, LedgerInv, BetsInv, PotInv, NEW event \in PlayerActionEvent,
           ConsoleAnswers(event), PlayerAction(event)
    PROVE  PotInv'
<1>. DEFINE u == HandlePlayerAction(table, event)
            w == MoveActingPlayer(u)
<1>1. /\ control = "awaiting" /\ TurnTable(table) /\ event.target_bet \in Int
      /\ Cardinality(AliveSeats(table)) > 1
      /\ Matched(table, ToAct(table)) /\ Settled(table) /\ Antes(table)
      /\ BetLedger(table, buy_in) /\ buy_in \in [Seat -> Nat]
      /\ \A s \in Seat : buy_in[s] > 0
  BY TargetBetAssumption
  DEF HandInv, TypeOK, TurnInv, LedgerInv, BetsInv, PotInv, PlayerAction, PlayerActionEvent
<1>2. /\ AnsweredTable(u) /\ AnswerEffect(table, u) /\ BetLedger(u, buy_in)
      /\ \A s \in Seat : u.committed[s] >= table.committed[s]
  <2>1. event.is_fold \/ ConsoleAccepts(Context(table), event.target_bet)
    BY DEF ConsoleAnswers
  <2>2. AnswerEffect(table, u)
    BY <1>1, <2>1, ConsoleAnswerCounts
  <2>. QED
    BY <1>1, <2>2, AnswerKeepsTable, AnswerKeepsLedger, AnswerCommits
<1>3. \/ ContinueRound(u) \/ AwardUncontested(u) \/ RunOutBoard(u)
      \/ NextStreet(u) \/ RiverShowdown(u)
  BY DEF PlayerAction
<1>. HIDE DEF u
<1>4. /\ SoundTable(u) /\ StackLedger(u, buy_in) /\ u \in TableType
  BY <1>2 DEF AnsweredTable, SoundTable, BetLedger
<1>5. /\ w.state = u.state /\ w.pending_player_count = u.pending_player_count
      /\ w.acting_player = NextActiveSeat(u.state, u.acting_player)
      /\ w.committed = u.committed
  BY <1>4 DEF MoveActingPlayer, TableType
<1>. HIDE DEF w
<1>6. Matched(u, ToAct(w)) /\ Settled(u)
  BY <1>1, <1>2, <1>5, AnswerKeepsBets
<1>7. Antes(w) /\ (IsFlowEnded(u) => \A s \in ActiveSeats(u) : u.committed[s] > 0)
  BY <1>1, <1>2, <1>4, <1>5, <1>6, AnswerKeepsAntes
<1>8. CASE ContinueRound(u)
  <2>1. table' = w /\ control' = "awaiting" /\ buy_in' = buy_in
    BY <1>1, <1>8 DEF ContinueRound, w
  <2>. QED
    BY <1>1, <1>7, <2>1 DEF PotInv
<1>9. CASE NextStreet(u)
  <2>1. /\ IsFlowEnded(u) /\ control' = "awaiting" /\ buy_in' = buy_in
        /\ table' = StartBettingRound(u, NextStage(stage))
    BY <1>1, <1>9 DEF NextStreet, StreetsOpen
  <2>2. table'.state = u.state /\ table'.committed = u.committed
    BY <1>4, <2>1, StartedRound
  <2>3. ActiveSeats(table') = ActiveSeats(u)
    BY <2>2 DEF ActiveSeats
  <2>4. Antes(table')
    <3>1. table'.committed[BbSeat] > 0
      BY <1>5, <1>7, <2>2 DEF Antes
    <3>2. \A s \in ActiveSeats(table') : table'.committed[s] # 0
      BY <1>7, <2>1, <2>2, <2>3
    <3>. QED
      BY <3>1, <3>2 DEF Antes
  <2>. QED
    BY <1>1, <2>1, <2>4 DEF PotInv
<1>10. CASE AwardUncontested(u) \/ RunOutBoard(u) \/ RiverShowdown(u)
  <2>1. /\ IsFlowEnded(u) /\ table' = u /\ buy_in' = buy_in
        /\ \/ control' = "settling" /\ pots' = SplitPot(u) /\ unpaid' = pots'
           \/ control' = "trapped"
    BY <1>10 DEF AwardUncontested, RunOutBoard, RiverShowdown, StreetsOpen, ProcessShowdownStage
  <2>2. AliveSeats(u) # {}
    <3>1. AliveSeats(table) \ {table.acting_player} \subseteq AliveSeats(u)
      BY <1>2 DEF AnswerEffect, OthersKept, AliveSeats
    <3>2. AliveSeats(table) \ {table.acting_player} # {}
      <4>1. ASSUME AliveSeats(table) \subseteq {table.acting_player}
            PROVE  FALSE
        <5>1. IsFiniteSet({table.acting_player}) /\ Cardinality({table.acting_player}) = 1
          BY FS_Singleton
        <5>2. Cardinality(AliveSeats(table)) <= 1
          BY <4>1, <5>1, FS_Subset
        <5>. QED
          BY <1>1, <5>2, SeatCounts
      <4>. QED
        BY <4>1
    <3>. QED
      BY <3>1, <3>2
  <2>3. Payable(u, SplitPot(u), SplitPot(u))
    BY <1>1, <1>4, <1>7, <2>1, <2>2, PayableAtFirst
  <2>. QED
    BY <1>1, <2>1, <2>3 DEF PotInv
<1>. QED
  BY <1>3, <1>8, <1>9, <1>10

\* SettlePots: paying a pot empties it, and a pot that nobody wins is not the
\* one that all who are in contend for.
LEMMA SettlePots ==
    ASSUME HandInv, PotInv, Settle
    PROVE  PotInv'
<1>1. /\ control = "settling" /\ table \in TableType /\ Payable(table, pots, unpaid)
      /\ hand_value \in [AliveSeats(table) -> HandValue]
      /\ buy_in' = buy_in /\ \A s \in Seat : buy_in[s] > 0
  BY DEF HandInv, TypeOK, HandsInv, PotInv, Settle, DistributePots, DistributeDeadPot, FinishGame
<1>2. ASSUME NEW p \in unpaid, DistributePots(p)
      PROVE  PotInv'
  <2>. DEFINE W == DetermineWinners(Contenders(p))
  <2>1. /\ Contenders(p) \subseteq AliveSeats(table) /\ Contenders(p) \subseteq Seat
        /\ Contenders(p) # {}
    BY <1>2, SeatCounts DEF DistributePots, Contenders
  <2>2. W \in SUBSET Seat /\ W # {}
    <3>1. \A s \in Contenders(p) : hand_value[s] \in Nat
      BY <1>1, <2>1, HandValueAssumption
    <3>. QED
      BY <2>1, <3>1, BestHand DEF DetermineWinners
  <2>3. \/ /\ table' = DistributePot(table, W) /\ control' = control
           /\ pots' = pots /\ unpaid' = unpaid \ {p}
        \/ control' = "trapped"
    BY <1>2 DEF DistributePots
  <2>. HIDE DEF W
  <2>4. CASE control' = "trapped"
    BY <1>1, <2>4 DEF PotInv
  <2>5. CASE control' # "trapped"
    <3>1. table'.pot = 0 /\ table'.state = table.state /\ table'.committed = table.committed
      BY <1>1, <2>2, <2>3, <2>5, PaidPot
    <3>2. AliveSeats(table') = AliveSeats(table) /\ SplitPot(table') = SplitPot(table)
      BY <3>1 DEF AliveSeats, SplitPot, PlayingSeats
    <3>3. Payable(table', pots', unpaid')
      BY <1>1, <2>3, <2>5, <3>1, <3>2 DEF Payable
    <3>. QED
      BY <1>1, <2>3, <2>5, <3>3 DEF PotInv
  <2>. QED
    BY <2>4, <2>5
<1>3. ASSUME NEW p \in unpaid, DistributeDeadPot(p)
      PROVE  PotInv'
  <2>1. /\ table' = table /\ pots' = pots /\ Contenders(p) = {}
        /\ \/ control' = control /\ unpaid' = unpaid \ {p}
           \/ control' = "trapped"
    BY <1>3 DEF DistributeDeadPot
  <2>2. Payable(table, pots, unpaid \ {p})
    BY <1>1, <2>1 DEF Payable, Contenders
  <2>. QED
    BY <1>1, <2>1, <2>2 DEF PotInv
<1>4. CASE FinishGame
  <2>1. control' = "ended" /\ table' = table /\ unpaid = {}
    BY <1>4 DEF FinishGame
  <2>. QED
    BY <1>1, <2>1 DEF PotInv, Payable
<1>. QED
  BY <1>2, <1>3, <1>4 DEF Settle

\* InitPots: before the stacks are set there is nothing to pay.
LEMMA InitPots == Init => PotInv
BY DEF Init, PotInv

\* NextPots: every step of the program keeps PotInv.
LEMMA NextPots == HandInv /\ LedgerInv /\ BetsInv /\ PotInv /\ [ConsoleNext]_vars => PotInv'
<1>. SUFFICES ASSUME HandInv, LedgerInv, BetsInv, PotInv, [ConsoleNext]_vars PROVE PotInv'
  OBVIOUS
<1>1. CASE PlayerJoinRequest
  BY <1>1 DEF PlayerJoinRequest, PotInv
<1>2. CASE SetChips
  <2>1. PICK stacks \in [Seat -> BuyIn] : buy_in' = stacks
    BY <1>2 DEF SetChips
  <2>2. control' = "seated" /\ \A s \in Seat : stacks[s] \in Nat /\ stacks[s] > BigBlind
    BY <1>2, BuyInAssumption DEF SetChips
  <2>3. \A s \in Seat : stacks[s] > 0
    BY <2>2, BigBlindAssumption
  <2>. QED
    BY <2>1, <2>2, <2>3 DEF PotInv
<1>3. CASE StartGame
  <2>1. /\ table = [NewTable EXCEPT !.chips = buy_in]
        /\ table' = PostBlinds(StartBettingRound(table, "PREFLOP"))
        /\ control = "seated" /\ control' = "awaiting" /\ buy_in' = buy_in
    BY <1>3 DEF StartGame, LedgerInv
  <2>2. /\ table \in TableType /\ buy_in \in [Seat -> Nat]
        /\ table.chips = buy_in /\ table.committed = [s \in Seat |-> 0]
        /\ \A s \in Seat : table.state[s] = "ACTIVE" /\ table.chips[s] > BigBlind
    BY <2>1 DEF HandInv, TypeOK, SeatedInv, NewTable
  <2>3. Antes(table')
    BY <2>1, <2>2, OpenedHandAntes
  <2>. QED
    BY <2>1, <2>3 DEF PotInv
<1>4. ASSUME NEW event \in PlayerActionEvent, ConsoleAnswers(event), PlayerAction(event)
      PROVE  PotInv'
  BY <1>4, ConsoleTurnPots
<1>5. CASE Settle
  BY <1>5, SettlePots
<1>6. CASE Over \/ UNCHANGED vars
  BY <1>6 DEF Over, vars, PotInv, Antes, Before, ActiveSeats
<1>. QED
  BY <1>1, <1>2, <1>3, <1>4, <1>5, <1>6 DEF ConsoleNext, ConsoleTurn

\* PotInvariant: all that is known of the program's hand, at every moment.
THEOREM PotInvariant == ConsoleSpec => [](HandInv /\ LedgerInv /\ BetsInv /\ ChipsInv /\ PotInv)
<1>1. Init => HandInv /\ LedgerInv /\ BetsInv /\ ChipsInv /\ PotInv
  BY InitHand, InitLedger, InitChips, InitPots DEF Init, BetsInv
<1>2. HandInv /\ LedgerInv /\ BetsInv /\ ChipsInv /\ PotInv /\ [ConsoleNext]_vars =>
          (HandInv /\ LedgerInv /\ BetsInv /\ ChipsInv /\ PotInv)'
  BY NextHand, NextLedger, NextChips, NextPots, ConsoleIsTable, ConsoleSteps
<1>. QED
  BY <1>1, <1>2, PTL DEF ConsoleSpec

\* PotsAreCovered: when distributePots starts, the pots of PotManager hold what
\* ChipsManager has collected, and whoever is in contends for the lowest
\* (GameModel.cpp:145-190, side_pots.h:15-51).
THEOREM PotsAreCovered == ConsoleSpec => []PotsCoverPot
<1>1. HandInv /\ ChipsInv /\ PotInv => PotsCoverPot
  <2>. SUFFICES ASSUME HandInv, ChipsInv, PotInv, control = "settling", declared = {}
                PROVE  /\ MapThenSumSet(LAMBDA p : p.chips, pots) = table.pot
                       /\ \A p \in pots : (\A q \in pots : p.level <= q.level) =>
                             Contenders(p) = AliveSeats(table)
    BY DEF PotsCoverPot
  <2>1. /\ table \in TableType /\ PotLedger(table) /\ pots = SplitPot(table)
        /\ \A s \in Seat : table.state[s] # "OUT"
        /\ \A s \in AliveSeats(table) : table.committed[s] > 0
    BY DEF HandInv, TypeOK, ChipsInv, PotInv, Payable
  <2>2. /\ IsFiniteSet(Seat) /\ table.committed \in [Seat -> Nat]
        /\ pots = LoadSidePots(table.committed)
    BY <2>1, SeatArithmetic, EveryonesPots
  <2>3. MapThenSumSet(LAMBDA p : p.chips, LoadSidePots(table.committed)) = SumFunction(table.committed)
    BY <2>2, SidePotsHold
  <2>4. MapThenSumSet(LAMBDA p : p.chips, pots) = table.pot
    BY <2>1, <2>2, <2>3 DEF PotLedger, ChipsOf
  <2>. QED
    BY <2>1, <2>4, LowestPotIsEveryones DEF Contenders
<1>. QED
  BY <1>1, PotInvariant, PTL

\* EveryPotIsPaid: when the hand is over the pot is empty: the pots that
\* nobody can win are never all there is to pay (GameModel.cpp:160-190,
\* PotManager.h).
THEOREM EveryPotIsPaid == ConsoleSpec => []PotPaidOut
<1>1. PotInv => PotPaidOut
  BY DEF PotInv, PotPaidOut
<1>. QED
  BY <1>1, PotInvariant, PTL

\* Before distributePots nobody has been declared a winner.
Undeclared == control \in {"seating", "seated", "awaiting"} => declared = {}

\* NothingDeclared: pots are paid at the end of the hand alone.
LEMMA NothingDeclared == ConsoleSpec => []Undeclared
<1>1. Init => Undeclared
  BY DEF Init, Undeclared
<1>2. Undeclared /\ [ConsoleNext]_vars => Undeclared'
  <2>. SUFFICES ASSUME Undeclared, [ConsoleNext]_vars PROVE Undeclared'
    OBVIOUS
  <2>1. CASE PlayerJoinRequest \/ SetChips \/ StartGame
    BY <2>1 DEF PlayerJoinRequest, SetChips, StartGame, showdownVars, Undeclared
  <2>2. CASE ConsoleTurn
    <3>1. PICK event : PlayerAction(event)
      BY <2>2 DEF ConsoleTurn
    <3>2. control = "awaiting" /\ declared' = declared
      BY <3>1
      DEF PlayerAction, ContinueRound, AwardUncontested, RunOutBoard, NextStreet,
          RiverShowdown, ProcessShowdownStage, showdownVars
    <3>. QED
      BY <3>2 DEF Undeclared
  <2>3. CASE Settle
    <3>1. control = "settling" /\ control' \in {"settling", "trapped", "ended"}
      BY <2>3 DEF Settle, DistributePots, DistributeDeadPot, FinishGame
    <3>. QED
      BY <3>1 DEF Undeclared
  <2>4. CASE Over \/ UNCHANGED vars
    BY <2>4 DEF Over, vars, showdownVars, Undeclared
  <2>. QED
    BY <2>1, <2>2, <2>3, <2>4 DEF ConsoleNext
<1>. QED
  BY <1>1, <1>2, PTL DEF ConsoleSpec
=============================================================================
