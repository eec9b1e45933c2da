---------------------------- MODULE MCAlgoProofs ---------------------------
(***************************************************************************)
(* The properties of core/algo that module MCAlgo checks over small inputs *)
(* hold of inputs of every size: any stacks, bets, pots and numbers of     *)
(* winners, any finite set of seats with any commitments, ints of any      *)
(* width, and any cards.  The proof about hands goes from the cards to the *)
(* counts in their order (FiveCounted), to the type (TypeByRules), to the  *)
(* digits that decide a tie (LeadsByRules), to the integers (HandsRank).   *)
(***************************************************************************)
EXTENDS MCAlgo, AlgoProofs

\* The inputs: amounts are never negative, and a pot has a winner.
AlgoInv ==
    /\ context \in BettingContext /\ target \in Int
    /\ pot \in Nat /\ winners \in Nat /\ winners > 0
    /\ commitment \in [PotSeats -> Nat]

\* AlgoInvariant: every state is such an input.
THEOREM AlgoInvariant == AlgoSpec => []AlgoInv
<1>1. AlgoInit => AlgoInv
  <2>. SUFFICES ASSUME AlgoInit PROVE AlgoInv
    OBVIOUS
  <2>1. /\ MaxChips \in Nat /\ MaxWinners \in Nat /\ Half \in Nat /\ MaxCommitted \in Nat
    BY MaxChipsAssumption, MaxWinnersAssumption, HalfAssumption, MaxCommittedAssumption
  <2>2. NoContext \in BettingContext
    BY DEF NoContext, BettingContext
  <2>3. NoCalc => AlgoInv \/ commitment \notin [PotSeats -> Nat]
    BY <2>2 DEF NoCalc, AlgoInv
  <2>4. CalcInit => AlgoInv \/ commitment \notin [PotSeats -> Nat]
    <3>1. ASSUME context \in [player_chips : Amounts \ {0}, player_bet : Amounts,
                              round_bet : Amounts, min_raise_delta : Amounts,
                              can_raise : BOOLEAN]
          PROVE  context \in BettingContext
      BY <2>1, <3>1 DEF Amounts, BettingContext
    <3>2. ASSUME target \in IntRange \cup 0..(2 * MaxChips)
          PROVE  target \in Int
      BY <2>1, <3>2 DEF IntRange
    <3>3. ASSUME pot \in 0..(4 * MaxChips), winners \in 1..MaxWinners
          PROVE  pot \in Nat /\ winners \in Nat /\ winners > 0
      BY <2>1, <3>3
    <3>. QED
      BY <2>2, <3>1, <3>2, <3>3 DEF CalcInit, AlgoInv
  <2>5. PotInit \/ NoPots => commitment \in [PotSeats -> Nat]
    BY <2>1 DEF PotInit, NoPots
  <2>. QED
    BY <2>3, <2>4, <2>5 DEF AlgoInit
<1>2. AlgoInv /\ [UNCHANGED algoVars]_algoVars => AlgoInv'
  BY DEF AlgoInv, algoVars, calcVars
<1>. QED
  BY <1>1, <1>2, PTL DEF AlgoSpec

-----------------------------------------------------------------------------
(* Bets.                                                                   *)

\* ConsoleAndTableAlwaysAgree: the filter of main.cpp and process_betting,
\* written apart, accept the same targets of stacks and bets of any size.
THEOREM ConsoleAndTableAlwaysAgree == AlgoSpec => []ConsoleAndTableAgree
<1>1. AlgoInv => ConsoleAndTableAgree
  BY BetsAgree DEF AlgoInv, ConsoleAndTableAgree
<1>. QED
  BY <1>1, AlgoInvariant, PTL

\* NoWidthIsHarmful: the decision is that of exact arithmetic for ints of any
\* width, whatever the build makes of an overflow (main.cpp:82).
THEOREM NoWidthIsHarmful == AlgoSpec => []WidthIsHarmless
<1>1. AlgoInv => WidthIsHarmless
  <2>. SUFFICES ASSUME AlgoInv, target \in IntRange
                PROVE  SameAtWidth(context, target, Half)
    BY DEF WidthIsHarmless
  <2>1. Half \in Nat /\ target \in Int /\ -Half <= target /\ target < Half
    BY HalfAssumption DEF IntRange
  <2>. QED
    BY <2>1, OverflowIsHarmless DEF AlgoInv
<1>. QED
  BY <1>1, AlgoInvariant, PTL

\* ResultFields: what the table reads of process_betting when the target is
\* valid.
LEMMA ResultFields ==
    ASSUME AlgoInv, TurnContext(context), IsValid(Result)
    PROVE  /\ Result.bet_delta = target - context.player_bet
           /\ Result.round_bet = Greater(context.round_bet, target)
           /\ Result.action = GetAction(context, target) /\ Result.action # "VOID"
           /\ target - context.player_bet <= context.player_chips
           /\ context.player_chips \in Nat /\ context.player_bet \in Nat
           /\ context.round_bet \in Nat /\ context.min_raise_delta \in Nat
           /\ context.player_chips > 0 /\ context.player_bet <= context.round_bet
           /\ context.can_raise \in BOOLEAN
           /\ context \in BettingContext /\ target \in Int
BY ContextAmounts DEF AlgoInv, Result, ProcessBetting, IsValid, IsChipsEnough, ChipsCommitted, TurnContext

\* ActionsTellTheEffect: the Action that ActionFlow goes by is what the bets
\* show, for every target that is accepted (chips_calc.cpp:16-52).
THEOREM ActionsTellTheEffect == AlgoSpec => []ClassifiedByEffect
<1>1. AlgoInv => ClassifiedByEffect
  <2>. SUFFICES ASSUME AlgoInv, TurnContext(context), IsValid(Result)
                PROVE  ClassifiedByEffect
    BY DEF ClassifiedByEffect
  <2>. DEFINE all_in == target - context.player_bet = context.player_chips
              least == context.round_bet + context.min_raise_delta
              a == Result.action
  <2>1. CASE target < context.round_bet
    <3>1. a = "ALL_IN_UNDER_CALL" /\ all_in
      BY <2>1, ResultFields, ActionNames
    <3>2. Result.round_bet = context.round_bet
      BY <2>1, ResultFields DEF Greater
    <3>. QED
      BY <3>1, <3>2, ResultFields DEF ClassifiedByEffect
  <2>2. CASE target = context.round_bet
    <3>1. IF all_in THEN a = "ALL_IN_CALL" ELSE a \in {"CHECK", "CALL"}
      BY <2>2, ResultFields, ActionNames
    <3>2. Result.round_bet = context.round_bet
      BY <2>2, ResultFields DEF Greater
    <3>. QED
      BY <2>2, <3>1, <3>2, ResultFields DEF ClassifiedByEffect
  <2>3. CASE target > context.round_bet
    <3>1. IF all_in THEN a \in {"ALL_IN_RAISE", "ALL_IN_UNDER_RAISE"} ELSE a \in {"BET", "RAISE"}
      BY <2>3, ResultFields, ActionNames
    <3>2. Result.round_bet = target
      BY <2>3, ResultFields DEF Greater
    <3>. QED
      BY <2>3, <3>1, <3>2, ResultFields DEF ClassifiedByEffect
  <2>. QED
    BY <2>1, <2>2, <2>3, ResultFields
<1>. QED
  BY <1>1, AlgoInvariant, PTL

\* NoShortRaise: a raise short of the minimum takes the last chips, and a
\* player who may not raise never does (chips_calc.cpp:16-39).
THEOREM NoShortRaise == AlgoSpec => []RaisesAreFull
<1>1. AlgoInv => RaisesAreFull
  <2>. SUFFICES ASSUME AlgoInv, TurnContext(context), IsValid(Result),
                       Result.round_bet > context.round_bet
                PROVE  /\ context.can_raise
                       /\ Result.action # "ALL_IN_UNDER_RAISE" =>
                             Result.round_bet - context.round_bet >= context.min_raise_delta
                       /\ Result.bet_delta \in 1..context.player_chips
    BY DEF RaisesAreFull
  <2>1. target > context.round_bet /\ Result.round_bet = target
    BY ResultFields DEF Greater
  <2>2. context.can_raise
    BY <2>1, ResultFields, ActionNames
  <2>3. Result.bet_delta \in 1..context.player_chips
    BY <2>1, ResultFields
  <2>4. ASSUME target < context.round_bet + context.min_raise_delta
        PROVE  Result.action = "ALL_IN_UNDER_RAISE"
    BY <2>1, <2>2, <2>4, ResultFields, ActionNames
    DEF GetAction, AllInAction, IsAllIn, IsIncompleteCall, IsCompleteCall, IsIncompleteRaise,
        ChipsCommitted, MinRaise
  <2>. QED
    BY <2>1, <2>2, <2>3, <2>4, ResultFields
<1>. QED
  BY <1>1, AlgoInvariant, PTL

-----------------------------------------------------------------------------
(* Awards.                                                                 *)

\* PlaceOfNumber: numbers from zero on are their own places.
LEMMA PlaceOfNumber ==
    ASSUME NEW n \in Nat, NEW i \in 0..(n - 1), NEW d, d = [j \in 0..(n - 1) |-> j]
    PROVE  Place(0..(n - 1), d, i) = i
<1>1. {j \in 0..(n - 1) : d[j] < d[i]} = 0..(i - 1)
  OBVIOUS
<1>2. Cardinality(0..(i - 1)) = i
  BY FS_Interval
<1>. QED
  BY <1>1, <1>2 DEF Place

\* PotsAreAwarded: of any pot, to any number of winners, exactly the pot is
\* awarded, the odd chips to the first winners (chips_calc.cpp:54-68).
THEOREM PotsAreAwarded == AlgoSpec => []AwardsAreThePot
<1>1. AlgoInv => AwardsAreThePot
  <2>. SUFFICES ASSUME AlgoInv PROVE AwardsAreThePot
    OBVIOUS
  <2>1. pot \in Nat /\ winners \in Nat /\ winners > 0
    BY DEF AlgoInv
  <2>2. SumFunction(Awards) = pot
    <3>. DEFINE W == 0..(winners - 1)
                d == [j \in W |-> j]
    <3>1. IsFiniteSet(W) /\ Cardinality(W) = winners /\ W # {}
      <4>1. 0 \in Int /\ winners - 1 \in Int /\ ~(0 > winners - 1) /\ 0 \in W
        BY <2>1
      <4>2. IsFiniteSet(W) /\ Cardinality(W) = (winners - 1) - 0 + 1
        BY <4>1, FS_Interval
      <4>. HIDE DEF W
      <4>. QED
        BY <2>1, <4>1, <4>2
    <3>2. /\ d \in [W -> Int] /\ \A i \in W, j \in W : d[i] = d[j] => i = j
          /\ \A i \in W : Place(W, d, i) = i
      BY <2>1, PlaceOfNumber
    <3>3. /\ \A i \in W : Awards[i] = Award(pot, winners, i)
          /\ SumFunction(Awards) = SumFunctionOnSet(Awards, W)
      BY DEF Awards, SumFunction
    <3>. HIDE DEF W, d
    <3>4. \A i \in W : Awards[i] = Award(pot, winners, Place(W, d, i))
      BY <3>2, <3>3
    <3>5. SumFunctionOnSet(Awards, W) = pot
      BY <2>1, <3>1, <3>2, <3>4, AwardsAddUp
    <3>. QED
      BY <3>3, <3>5
  <2>3. TotalAwarded(pot, winners) = pot
    BY <2>1, AwardedPot
  <2>4. ASSUME NEW i \in DOMAIN Awards, NEW j \in DOMAIN Awards, i <= j
        PROVE  Awards[i] - Awards[j] \in {0, 1}
    <3>. DEFINE q == pot \div winners
                r == pot % winners
    <3>1. q \in Int /\ r \in Int /\ i \in Int /\ j \in Int
      BY <2>1, <2>4 DEF Awards
    <3>2. /\ Awards[i] = q + (IF i < r THEN 1 ELSE 0)
          /\ Awards[j] = q + (IF j < r THEN 1 ELSE 0)
      BY <2>4 DEF Awards, Award
    <3>. HIDE DEF q, r
    <3>. QED
      BY <2>4, <3>1, <3>2
  <2>. QED
    BY <2>2, <2>3, <2>4 DEF AwardsAreThePot
<1>. QED
  BY <1>1, AlgoInvariant, PTL

-----------------------------------------------------------------------------
(* Side pots.                                                              *)

\* PotsAlwaysReturnCommitments: of any commitments of any number of seats,
\* each seat pays what it committed into the pots it can win, and the pots
\* hold nothing else (side_pots.h:15-51).
THEOREM PotsAlwaysReturnCommitments == AlgoSpec => []PotsReturnCommitments
<1>1. AlgoInv => PotsReturnCommitments
  <2>. SUFFICES ASSUME AlgoInv PROVE PotsReturnCommitments
    OBVIOUS
  <2>1. IsFiniteSet(PotSeats) /\ commitment \in [PotSeats -> Nat]
    BY PotSeatsAssumption DEF AlgoInv
  <2>. QED
    BY <2>1, SharesReturnCommitment, SidePotsHold DEF PotsReturnCommitments, MCPots
<1>. QED
  BY <1>1, AlgoInvariant, PTL

\* PotsAlwaysAreLayers: of any commitments, a higher pot is contested by fewer
\* seats, no pot is empty and none is there twice (side_pots.h:24-37).
THEOREM PotsAlwaysAreLayers == AlgoSpec => []PotsAreLayers
<1>1. AlgoInv => PotsAreLayers
  <2>. SUFFICES ASSUME AlgoInv PROVE PotsAreLayers
    OBVIOUS
  <2>1. IsFiniteSet(PotSeats) /\ commitment \in [PotSeats -> Nat]
    BY PotSeatsAssumption DEF AlgoInv
  <2>. QED
    BY <2>1, PotsLieAbove DEF PotsAreLayers, MCPots
<1>. QED
  BY <1>1, AlgoInvariant, PTL

-----------------------------------------------------------------------------
(* Hands.  The value of a hand is six digits in base 16.                   *)

\* What HandValue::build packs: a type and five ranks, 0 for those missing.
Digit == 0..15

Packed(type, x) ==
    16 * (16 * (16 * (16 * (16 * type + x[1]) + x[2]) + x[3]) + x[4]) + x[5]

Padded(ranks) == [i \in 1..5 |-> IF i <= Len(ranks) THEN ranks[i] ELSE 0]

\* BuildPacks: the loop of HandValue::build.
LEMMA BuildPacks ==
    ASSUME NEW type \in Nat, NEW ranks, Padded(ranks) \in [1..5 -> Digit]
    PROVE  Build(type, ranks) = Packed(type, Padded(ranks))
<1>. DEFINE x == Padded(ranks)
            g == [i \in 0..5 |->
                    IF i = 0 THEN type
                    ELSE IF i = 1 THEN 16 * type + x[1]
                    ELSE IF i = 2 THEN 16 * (16 * type + x[1]) + x[2]
                    ELSE IF i = 3 THEN 16 * (16 * (16 * type + x[1]) + x[2]) + x[3]
                    ELSE IF i = 4 THEN 16 * (16 * (16 * (16 * type + x[1]) + x[2]) + x[3]) + x[4]
                    ELSE Packed(type, x)]
            Loop(v) == v = [i \in 0..5 |->
                              IF i = 0 THEN type
                              ELSE 16 * v[i - 1] + (IF i <= Len(ranks) THEN ranks[i] ELSE 0)]
<1>1. \A i \in 1..5 : x[i] = (IF i <= Len(ranks) THEN ranks[i] ELSE 0) /\ x[i] \in Digit
  BY DEF Padded
<1>2. Loop(g)
  <2>1. /\ g[0] = type
        /\ g[1] = 16 * g[0] + x[1] /\ g[2] = 16 * g[1] + x[2] /\ g[3] = 16 * g[2] + x[3]
        /\ g[4] = 16 * g[3] + x[4] /\ g[5] = 16 * g[4] + x[5]
    <3>1. /\ x[1] \in Int /\ x[2] \in Int /\ x[3] \in Int /\ x[4] \in Int /\ x[5] \in Int
      BY <1>1 DEF Digit
    <3>. HIDE DEF x
    <3>. QED
      BY <3>1 DEF Packed
  <2>2. \A i \in 1..5 : g[i] = 16 * g[i - 1] + x[i]
    <3>. HIDE DEF g, x
    <3>. QED
      BY <2>1
  <2>3. DOMAIN g = 0..5 /\ g = [i \in 0..5 |-> g[i]]
    OBVIOUS
  <2>4. \A i \in 0..5 : i # 0 => i \in 1..5
    OBVIOUS
  <2>. HIDE DEF g, x
  <2>. QED
    BY <1>1, <2>1, <2>2, <2>3, <2>4
<1>. DEFINE v == CHOOSE v : Loop(v)
<1>3. Loop(v)
  <2>. HIDE DEF Loop, g
  <2>. QED
    BY <1>2
<1>4. Build(type, ranks) = v[5]
  BY DEF Build
<1>5. /\ v[0] = type
      /\ \A i \in 1..5 : v[i] = 16 * v[i - 1] + x[i]
  <2>. HIDE DEF v, x
  <2>1. \A i \in 0..5 : v[i] = IF i = 0 THEN type
                              ELSE 16 * v[i - 1] + (IF i <= Len(ranks) THEN ranks[i] ELSE 0)
    BY <1>3
  <2>. QED
    BY <1>1, <2>1
<1>6. /\ v[1] = 16 * v[0] + x[1] /\ v[2] = 16 * v[1] + x[2] /\ v[3] = 16 * v[2] + x[3]
      /\ v[4] = 16 * v[3] + x[4] /\ v[5] = 16 * v[4] + x[5]
  <2>. HIDE DEF v, x
  <2>. QED
    BY <1>5
<1>. HIDE DEF v
<1>7. /\ x[1] \in Int /\ x[2] \in Int /\ x[3] \in Int /\ x[4] \in Int /\ x[5] \in Int
  BY <1>1 DEF Digit
<1>. HIDE DEF x
<1>8. v[5] = Packed(type, x)
  BY <1>5, <1>6, <1>7 DEF Packed
<1>. QED
  BY <1>4, <1>8 DEF x

\* The first of five places where x and y part, x being greater there.
Leads(x, y) == \E i \in 1..5 : x[i] > y[i] /\ \A j \in 1..5 : j < i => x[j] = y[j]

\* PackedOrder: integers compare as their digits do, the type first.
LEMMA PackedOrder ==
    ASSUME NEW s \in Nat, NEW t \in Nat,
           NEW x \in [1..5 -> Digit], NEW y \in [1..5 -> Digit]
    PROVE  Packed(s, x) > Packed(t, y) <=> s > t \/ (s = t /\ Leads(x, y))
<1>1. /\ x[1] \in 0..15 /\ x[2] \in 0..15 /\ x[3] \in 0..15 /\ x[4] \in 0..15 /\ x[5] \in 0..15
      /\ y[1] \in 0..15 /\ y[2] \in 0..15 /\ y[3] \in 0..15 /\ y[4] \in 0..15 /\ y[5] \in 0..15
  BY DEF Digit
<1>2. Leads(x, y) <=>
         \/ x[1] > y[1]
         \/ x[1] = y[1] /\ x[2] > y[2]
         \/ x[1] = y[1] /\ x[2] = y[2] /\ x[3] > y[3]
         \/ x[1] = y[1] /\ x[2] = y[2] /\ x[3] = y[3] /\ x[4] > y[4]
         \/ x[1] = y[1] /\ x[2] = y[2] /\ x[3] = y[3] /\ x[4] = y[4] /\ x[5] > y[5]
  <2>1. \A i : i \in 1..5 <=> i = 1 \/ i = 2 \/ i = 3 \/ i = 4 \/ i = 5
    OBVIOUS
  <2>. QED
    BY <1>1, <2>1 DEF Leads
<1>3. ASSUME NEW a \in Nat, NEW b \in Nat, NEW d \in 0..15, NEW e \in 0..15
      PROVE  /\ 16 * a + d \in Nat /\ 16 * b + e \in Nat
             /\ 16 * a + d > 16 * b + e <=> a > b \/ (a = b /\ d > e)
             /\ 16 * a + d = 16 * b + e <=> a = b /\ d = e
  BY SMT
<1>4. PICK a1, b1 : a1 = 16 * s + x[1] /\ b1 = 16 * t + y[1]
  OBVIOUS
<1>5. PICK a2, b2 : a2 = 16 * a1 + x[2] /\ b2 = 16 * b1 + y[2]
  OBVIOUS
<1>6. PICK a3, b3 : a3 = 16 * a2 + x[3] /\ b3 = 16 * b2 + y[3]
  OBVIOUS
<1>7. PICK a4, b4 : a4 = 16 * a3 + x[4] /\ b4 = 16 * b3 + y[4]
  OBVIOUS
<1>8. PICK a5, b5 : a5 = 16 * a4 + x[5] /\ b5 = 16 * b4 + y[5]
  OBVIOUS
<1>9. /\ a1 \in Nat /\ b1 \in Nat
      /\ (a1 > b1 <=> s > t \/ (s = t /\ x[1] > y[1])) /\ (a1 = b1 <=> s = t /\ x[1] = y[1])
  BY <1>1, <1>3, <1>4
<1>10. /\ a2 \in Nat /\ b2 \in Nat
       /\ (a2 > b2 <=> a1 > b1 \/ (a1 = b1 /\ x[2] > y[2])) /\ (a2 = b2 <=> a1 = b1 /\ x[2] = y[2])
  BY <1>1, <1>3, <1>5, <1>9
<1>11. /\ a3 \in Nat /\ b3 \in Nat
       /\ (a3 > b3 <=> a2 > b2 \/ (a2 = b2 /\ x[3] > y[3])) /\ (a3 = b3 <=> a2 = b2 /\ x[3] = y[3])
  BY <1>1, <1>3, <1>6, <1>10
<1>12. /\ a4 \in Nat /\ b4 \in Nat
       /\ (a4 > b4 <=> a3 > b3 \/ (a3 = b3 /\ x[4] > y[4])) /\ (a4 = b4 <=> a3 = b3 /\ x[4] = y[4])
  BY <1>1, <1>3, <1>7, <1>11
<1>13. a5 > b5 <=> a4 > b4 \/ (a4 = b4 /\ x[5] > y[5])
  BY <1>1, <1>3, <1>8, <1>12
<1>14. Packed(s, x) = a5 /\ Packed(t, y) = b5
  BY <1>4, <1>5, <1>6, <1>7, <1>8 DEF Packed
<1>. QED
  BY <1>2, <1>9, <1>10, <1>11, <1>12, <1>13, <1>14

\* TypeUnpacked: HandValue::getHandType.
LEMMA TypeUnpacked ==
    ASSUME NEW type \in Nat, NEW x \in [1..5 -> Digit]
    PROVE  Packed(type, x) \in Nat /\ TypeOfValue(Packed(type, x)) = type
<1>1. /\ x[1] \in 0..15 /\ x[2] \in 0..15 /\ x[3] \in 0..15 /\ x[4] \in 0..15 /\ x[5] \in 0..15
  BY DEF Digit
<1>2. ASSUME NEW v \in Nat, NEW d \in 0..15
      PROVE  16 * v + d \in Nat /\ (16 * v + d) \div 16 = v
  BY SMT
<1>3. PICK v1 \in Nat : v1 = 16 * type + x[1]
  BY <1>1, <1>2
<1>4. PICK v2 \in Nat : v2 = 16 * v1 + x[2]
  BY <1>1, <1>2
<1>5. PICK v3 \in Nat : v3 = 16 * v2 + x[3]
  BY <1>1, <1>2
<1>6. PICK v4 \in Nat : v4 = 16 * v3 + x[4]
  BY <1>1, <1>2
<1>7. PICK v5 \in Nat : v5 = 16 * v4 + x[5]
  BY <1>1, <1>2
<1>8. Packed(type, x) = v5
  BY <1>3, <1>4, <1>5, <1>6, <1>7 DEF Packed
<1>9. /\ v5 \div 16 = v4 /\ v4 \div 16 = v3 /\ v3 \div 16 = v2
      /\ v2 \div 16 = v1 /\ v1 \div 16 = type
  BY <1>1, <1>2, <1>3, <1>4, <1>5, <1>6, <1>7
<1>. QED
  BY <1>8, <1>9 DEF TypeOfValue
-----------------------------------------------------------------------------
(* A finite set in an order.  An order is a set of pairs here.             *)

\* SmallSets: the sizes of the sets that hands are made of.
LEMMA SmallSets ==
    /\ IsFiniteSet(Suits) /\ Cardinality(Suits) = 4
    /\ IsFiniteSet(0..4) /\ Cardinality(0..4) = 5
    /\ IsFiniteSet(1..5) /\ Cardinality(1..5) = 5
    /\ IsFiniteSet(1..7) /\ Cardinality(1..7) = 7
    /\ IsFiniteSet(TWO..ACE)
<1>1. \A a, b \in Int : a <= b => IsFiniteSet(a..b) /\ Cardinality(a..b) = b - a + 1
  BY FS_Interval
<1>2. PICK zero \in Int, one \in Int, two \in Int, four \in Int, five \in Int,
           seven1 \in Int, ace \in Int :
        /\ zero = 0 /\ one = 1 /\ two = 2 /\ four = 4 /\ five = 5 /\ seven1 = 7 /\ ace = 14
  OBVIOUS
<1>3. one <= four /\ zero <= four /\ one <= five /\ one <= seven1 /\ two <= ace
  BY <1>2
<1>4. /\ IsFiniteSet(one..four) /\ Cardinality(one..four) = four - one + 1
      /\ IsFiniteSet(zero..four) /\ Cardinality(zero..four) = four - zero + 1
      /\ IsFiniteSet(one..five) /\ Cardinality(one..five) = five - one + 1
      /\ IsFiniteSet(one..seven1) /\ Cardinality(one..seven1) = seven1 - one + 1
      /\ IsFiniteSet(two..ace)
  BY <1>1, <1>3, Zenon
<1>5. /\ four - one + 1 = 4 /\ four - zero + 1 = 5 /\ five - one + 1 = 5 /\ seven1 - one + 1 = 7
  BY <1>2
<1>. QED
  BY <1>2, <1>4, <1>5, Zenon DEF Suits, TWO, ACE

IsStrictOrder(S, R) ==
    /\ \A x \in S : <<x, x>> \notin R
    /\ \A x, y, z \in S : <<x, y>> \in R /\ <<y, z>> \in R => <<x, z>> \in R
    /\ \A x, y \in S : x # y => <<x, y>> \in R \/ <<y, x>> \in R

Below(S, R, x) == {y \in S : <<y, x>> \in R}

IsInOrder(q, S, R) ==
    /\ q \in [1..Cardinality(S) -> S]
    /\ \A x \in S : \E i \in 1..Cardinality(S) : q[i] = x
    /\ \A i, j \in 1..Cardinality(S) : i < j => <<q[i], q[j]>> \in R

\* RanksOnce: the numbers of those before are all different, and none is left out.
LEMMA RanksOnce ==
    ASSUME NEW S, IsFiniteSet(S), NEW R, IsStrictOrder(S, R)
    PROVE  /\ Cardinality(S) \in Nat
           /\ \A x \in S : Cardinality(Below(S, R, x)) \in 0..(Cardinality(S) - 1)
           /\ \A x, y \in S : <<x, y>> \in R
                                => Cardinality(Below(S, R, x)) < Cardinality(Below(S, R, y))
           /\ \A i \in 1..Cardinality(S) : \E x \in S : Cardinality(Below(S, R, x)) = i - 1
<1>. DEFINE n == Cardinality(S)
            P(x) == Below(S, R, x)
<1>1. n \in Nat
  BY FS_CardinalityType
<1>2. \A x \in S : IsFiniteSet(P(x)) /\ Cardinality(P(x)) \in Nat
  BY FS_Subset, FS_CardinalityType DEF Below
<1>3. ASSUME NEW x \in S
      PROVE  Cardinality(P(x)) < n
  <2>1. P(x) \in SUBSET S /\ P(x) # S
    BY DEF Below, IsStrictOrder
  <2>2. Cardinality(P(x)) <= n /\ Cardinality(P(x)) # n
    BY <2>1, FS_Subset
  <2>. QED
    BY <1>1, <1>2, <2>2
<1>4. ASSUME NEW x \in S, NEW y \in S, <<x, y>> \in R
      PROVE  Cardinality(P(x)) < Cardinality(P(y))
  <2>1. P(x) \in SUBSET P(y) /\ P(x) # P(y)
    BY <1>4 DEF Below, IsStrictOrder
  <2>2. Cardinality(P(x)) <= Cardinality(P(y)) /\ Cardinality(P(x)) # Cardinality(P(y))
    BY <1>2, <2>1, FS_Subset
  <2>. QED
    BY <1>2, <2>2
<1>. DEFINE f == [x \in S |-> Cardinality(P(x))]
            T == 0..(n - 1)
<1>. HIDE DEF P
<1>5. f \in [S -> T]
  BY <1>1, <1>2, <1>3
<1>6. \A x, y \in S : f[x] = f[y] => x = y
  <2>. SUFFICES ASSUME NEW x \in S, NEW y \in S, x # y
                PROVE  Cardinality(P(x)) # Cardinality(P(y))
    OBVIOUS
  <2>1. <<x, y>> \in R \/ <<y, x>> \in R
    BY DEF IsStrictOrder
  <2>2. Cardinality(P(x)) < Cardinality(P(y)) \/ Cardinality(P(y)) < Cardinality(P(x))
    BY <1>4, <2>1
  <2>. QED
    BY <1>2, <2>2
<1>7. f \in Injection(S, T)
  BY <1>5, <1>6 DEF Injection, IsInjective
<1>8. IsFiniteSet(T) /\ Cardinality(T) = n
  BY <1>1, FS_Interval
<1>9. f \in Surjection(S, T)
  <2>. HIDE DEF f, T
  <2>. QED
    BY <1>7, <1>8, FS_Injection
<1>10. \A i \in 1..n : \E x \in S : f[x] = i - 1
  <2>1. \A i \in 1..n : i - 1 \in T
    BY <1>1
  <2>. HIDE DEF f
  <2>. QED
    BY <1>9, <2>1 DEF Surjection
<1>11. \A x \in S : Cardinality(P(x)) \in 0..(n - 1)
  BY <1>1, <1>2, <1>3
<1>. QED
  BY <1>1, <1>4, <1>10, <1>11 DEF P

\* OrderFound: the i-th in the order is the one that i - 1 are before.
LEMMA OrderFound ==
    ASSUME NEW S, IsFiniteSet(S), NEW R, IsStrictOrder(S, R), NEW q,
           q = [i \in 1..Cardinality(S) |->
                   CHOOSE x \in S : Cardinality(Below(S, R, x)) = i - 1]
    PROVE  IsInOrder(q, S, R)
<1>. DEFINE n == Cardinality(S)
            P(x) == Below(S, R, x)
<1>1. /\ n \in Nat /\ \A x \in S : Cardinality(P(x)) \in 0..(n - 1)
      /\ \A x, y \in S : <<x, y>> \in R => Cardinality(P(x)) < Cardinality(P(y))
      /\ \A i \in 1..n : \E x \in S : Cardinality(P(x)) = i - 1
  BY RanksOnce
<1>. HIDE DEF P
<1>2. \A i \in 1..n : q[i] \in S /\ Cardinality(P(q[i])) = i - 1
  BY <1>1 DEF P
<1>3. q \in [1..n -> S]
  BY <1>2
<1>4. ASSUME NEW x \in S, NEW y \in S
      PROVE  /\ Cardinality(P(x)) < Cardinality(P(y)) => <<x, y>> \in R
             /\ Cardinality(P(x)) = Cardinality(P(y)) => x = y
  <2>1. x = y \/ <<x, y>> \in R \/ <<y, x>> \in R
    BY DEF IsStrictOrder
  <2>2. Cardinality(P(x)) \in Nat /\ Cardinality(P(y)) \in Nat
    BY <1>1
  <2>3. /\ <<x, y>> \in R => Cardinality(P(x)) < Cardinality(P(y))
        /\ <<y, x>> \in R => Cardinality(P(y)) < Cardinality(P(x))
    BY <1>1
  <2>. QED
    BY <2>1, <2>2, <2>3
<1>5. \A x, y \in S : Cardinality(P(x)) = Cardinality(P(y)) => x = y
  BY <1>4
<1>6. \A x \in S : \E i \in 1..n : q[i] = x
  <2>. TAKE x \in S
  <2>1. PICK i : i = Cardinality(P(x)) + 1
    OBVIOUS
  <2>2. i \in 1..n /\ Cardinality(P(x)) = i - 1
    BY <1>1, <2>1
  <2>. QED
    BY <1>2, <1>5, <2>2
<1>7. \A i, j \in 1..n : i < j => <<q[i], q[j]>> \in R
  <2>. TAKE i, j \in 1..n
  <2>. HAVE i < j
  <2>1. Cardinality(P(q[i])) < Cardinality(P(q[j]))
    BY <1>1, <1>2
  <2>. QED
    BY <1>2, <1>4, <2>1
<1>. QED
  BY <1>3, <1>6, <1>7 DEF IsInOrder

-----------------------------------------------------------------------------
(* The counts of five cards.                                               *)

\* Cards that are all different, as a deck deals them.
IsDealt(hand) ==
    /\ hand \in [DOMAIN hand -> Card]
    /\ IsFiniteSet(DOMAIN hand)
    /\ \A i, j \in DOMAIN hand : hand[i] = hand[j] => i = j

IsFive(hand) == IsDealt(hand) /\ Cardinality(DOMAIN hand) = 5

\* As they are before the ace of a wheel goes last.
Sorted(hand) == InOrder(RankCounts(hand), ComesFirst)

\* CountsOfRanks: what the set of counts holds.
LEMMA CountsOfRanks ==
    ASSUME NEW hand, IsDealt(hand)
    PROVE  /\ IsFiniteSet(RankCounts(hand))
           /\ RanksOf(hand) \subseteq 2..14
           /\ \A r : IsFiniteSet({i \in DOMAIN hand : hand[i].rank = r}) /\ Copies(hand, r) \in Nat
           /\ \A c \in RankCounts(hand) :
                 c.rank \in RanksOf(hand) /\ c.count = Copies(hand, c.rank) /\ c.count >= 1
           /\ \A r \in RanksOf(hand) : [rank |-> r, count |-> Copies(hand, r)] \in RankCounts(hand)
           /\ \A c, d \in RankCounts(hand) : c.rank = d.rank => c = d
<1>. DEFINE D == DOMAIN hand
            S == RankCounts(hand)
            f == [i \in D |-> [rank |-> hand[i].rank, count |-> Copies(hand, hand[i].rank)]]
            Same(r) == {i \in D : hand[i].rank = r}
<1>1. \A i \in D : hand[i] \in Card /\ hand[i].rank \in 2..14
  BY DEF IsDealt, Card, TWO, ACE
<1>2. \A r : IsFiniteSet(Same(r)) /\ Cardinality(Same(r)) \in Nat /\ Copies(hand, r) = Cardinality(Same(r))
  <2>. TAKE r
  <2>1. IsFiniteSet(Same(r))
    BY FS_Subset DEF IsDealt
  <2>. QED
    BY <2>1, FS_CardinalityType DEF Copies
<1>3. ASSUME NEW i \in D
      PROVE  Copies(hand, hand[i].rank) >= 1
  <2>1. i \in Same(hand[i].rank)
    OBVIOUS
  <2>2. Cardinality(Same(hand[i].rank)) # 0
    BY <1>2, <2>1, FS_EmptySet
  <2>. QED
    BY <1>2, <2>2
<1>4. S = {[rank |-> r, count |-> Copies(hand, r)] : r \in RanksOf(hand)}
  BY DEF RankCounts, RanksOf, Copies
<1>5. f \in Surjection(D, S)
  <2>1. \A i \in D : f[i] \in S
    BY <1>4 DEF RanksOf
  <2>2. \A c \in S : \E i \in D : f[i] = c
    BY <1>4 DEF RanksOf
  <2>. QED
    BY <2>1, <2>2 DEF Surjection
<1>6. IsFiniteSet(S)
  <2>. HIDE DEF f, S
  <2>. QED
    BY <1>5, FS_Surjection DEF IsDealt
<1>7. RanksOf(hand) \subseteq 2..14
  BY <1>1 DEF RanksOf
<1>8. \A c \in S : /\ c.rank \in RanksOf(hand) /\ c.count = Copies(hand, c.rank)
                   /\ c.count >= 1
  BY <1>3, <1>4 DEF RanksOf
<1>9. \A c, d \in S : c.rank = d.rank => c = d
  BY <1>4
<1>10. \A r \in RanksOf(hand) : [rank |-> r, count |-> Copies(hand, r)] \in S
  BY <1>4
<1>11. \A r : IsFiniteSet(Same(r)) /\ Copies(hand, r) \in Nat
  <2>. TAKE r
  <2>. QED
    BY <1>2
<1>. HIDE DEF S, Same
<1>12. /\ IsFiniteSet(S) /\ RanksOf(hand) \subseteq 2..14
       /\ \A r : IsFiniteSet(Same(r)) /\ Copies(hand, r) \in Nat
       /\ \A c \in S : c.rank \in RanksOf(hand) /\ c.count = Copies(hand, c.rank) /\ c.count >= 1
       /\ \A r \in RanksOf(hand) : [rank |-> r, count |-> Copies(hand, r)] \in S
       /\ \A c, d \in S : c.rank = d.rank => c = d
  BY <1>6, <1>7, <1>8, <1>9, <1>10, <1>11
<1>. QED
  BY <1>12 DEF S, Same

\* CountsSorted: the counts come once each, greater ones and greater ranks first.
LEMMA CountsSorted ==
    ASSUME NEW hand, IsDealt(hand)
    PROVE  \E n \in Nat :
             /\ n = Cardinality(RankCounts(hand)) /\ Len(Sorted(hand)) = n
             /\ Sorted(hand) \in [1..n -> RankCounts(hand)]
             /\ Sorted(hand) \in Seq(RankCounts(hand))
             /\ \A i \in 1..n : /\ Sorted(hand)[i].rank \in RanksOf(hand)
                                /\ Sorted(hand)[i].rank \in 2..14
                                /\ Sorted(hand)[i].count = Copies(hand, Sorted(hand)[i].rank)
                                /\ Sorted(hand)[i].count \in Nat \ {0}
             /\ \A r \in RanksOf(hand) : \E i \in 1..n : Sorted(hand)[i].rank = r
             /\ \A i, j \in 1..n : i < j => ComesFirst(Sorted(hand)[i], Sorted(hand)[j])
             /\ \A i, j \in 1..n : i # j => Sorted(hand)[i].rank # Sorted(hand)[j].rank
<1>. DEFINE S == RankCounts(hand)
            n == Cardinality(S)
            R == {p \in S \X S : ComesFirst(p[1], p[2])}
            q == Sorted(hand)
<1>1. /\ IsFiniteSet(S) /\ n \in Nat
      /\ \A c \in S : /\ c.rank \in RanksOf(hand) /\ c.rank \in 2..14
                      /\ c.count = Copies(hand, c.rank) /\ c.count \in Nat \ {0}
      /\ \A r \in RanksOf(hand) : \E c \in S : c.rank = r
      /\ \A c, d \in S : c.rank = d.rank => c = d
  <2>1. n \in Nat
    BY CountsOfRanks, FS_CardinalityType
  <2>2. ASSUME NEW c \in S
        PROVE  /\ c.rank \in RanksOf(hand) /\ c.rank \in 2..14
               /\ c.count = Copies(hand, c.rank) /\ c.count \in Nat \ {0}
    <3>1. /\ c.rank \in RanksOf(hand) /\ c.count = Copies(hand, c.rank) /\ c.count >= 1
          /\ RanksOf(hand) \subseteq 2..14 /\ Copies(hand, c.rank) \in Nat
      BY CountsOfRanks
    <3>. QED
      BY <3>1
  <2>3. ASSUME NEW r \in RanksOf(hand)
        PROVE  \E c \in S : c.rank = r
    <3>1. [rank |-> r, count |-> Copies(hand, r)] \in S
      BY CountsOfRanks
    <3>. QED
      BY <3>1
  <2>. QED
    BY <2>1, <2>2, <2>3, CountsOfRanks
<1>. HIDE DEF S
<1>2. IsStrictOrder(S, R)
  <2>1. \A x \in S : <<x, x>> \notin R
    BY <1>1 DEF ComesFirst
  <2>2. ASSUME NEW x \in S, NEW y \in S, NEW z \in S, ComesFirst(x, y), ComesFirst(y, z)
        PROVE  ComesFirst(x, z)
    <3>1. /\ x.rank \in Int /\ y.rank \in Int /\ z.rank \in Int
          /\ x.count \in Int /\ y.count \in Int /\ z.count \in Int
      BY <1>1
    <3>. QED
      BY <2>2, <3>1 DEF ComesFirst
  <2>3. ASSUME NEW x \in S, NEW y \in S, x # y
        PROVE  ComesFirst(x, y) \/ ComesFirst(y, x)
    <3>1. /\ x.rank \in Int /\ y.rank \in Int /\ x.rank # y.rank
          /\ x.count \in Int /\ y.count \in Int
      BY <1>1, <2>3
    <3>. QED
      BY <3>1 DEF ComesFirst
  <2>4. \A x, y \in S : <<x, y>> \in R <=> ComesFirst(x, y)
    OBVIOUS
  <2>. HIDE DEF R
  <2>. QED
    BY <2>1, <2>2, <2>3, <2>4 DEF IsStrictOrder
<1>3. q = [i \in 1..n |-> CHOOSE x \in S : Cardinality(Below(S, R, x)) = i - 1]
  <2>. DEFINE G(i) == CHOOSE x \in S : Cardinality({y \in S : ComesFirst(y, x)}) = i - 1
              H(i) == CHOOSE x \in S : Cardinality(Below(S, R, x)) = i - 1
  <2>1. \A x \in S : {y \in S : ComesFirst(y, x)} = Below(S, R, x)
    BY DEF Below
  <2>2. \A i : G(i) = H(i)
    <3>. HIDE DEF R
    <3>. QED
      BY <2>1
  <2>3. q = [i \in 1..n |-> G(i)]
    BY DEF Sorted, InOrder, S
  <2>. HIDE DEF G, H
  <2>4. q = [i \in 1..n |-> H(i)]
    <3>. HIDE DEF q
    <3>. QED
      BY <2>2, <2>3
  <2>. QED
    BY <2>4 DEF H
<1>4. IsInOrder(q, S, R)
  <2>. HIDE DEF R, q
  <2>. QED
    BY <1>1, <1>2, <1>3, OrderFound
<1>5. /\ q \in [1..n -> S] /\ \A x \in S : \E i \in 1..n : q[i] = x
      /\ \A i, j \in 1..n : i < j => ComesFirst(q[i], q[j])
  <2>. HIDE DEF q
  <2>. QED
    BY <1>4 DEF IsInOrder
<1>. HIDE DEF q
<1>6. Len(q) = n /\ q \in Seq(S)
  BY <1>1, <1>5
<1>7. \A i, j \in 1..n : i # j => q[i].rank # q[j].rank
  <2>. SUFFICES ASSUME NEW i \in 1..n, NEW j \in 1..n, i < j
                PROVE  q[i].rank # q[j].rank
    BY <1>1
  <2>1. ComesFirst(q[i], q[j]) /\ q[i] \in S /\ q[j] \in S
    BY <1>5
  <2>. QED
    BY <1>1, <2>1 DEF ComesFirst
<1>8. \A r \in RanksOf(hand) : \E i \in 1..n : q[i].rank = r
  BY <1>1, <1>5
<1>. QED
  BY <1>1, <1>5, <1>6, <1>7, <1>8 DEF q, S

\* CopiesPerSuit: a rank comes at most once in each of the four suits.
LEMMA CopiesPerSuit ==
    ASSUME NEW hand, IsDealt(hand), NEW r
    PROVE  Copies(hand, r) <= 4
<1>. DEFINE Same == {i \in DOMAIN hand : hand[i].rank = r}
            f == [i \in Same |-> hand[i].suit]
<1>1. \A i \in Same : hand[i] \in Card /\ hand[i].suit \in Suits
  BY DEF IsDealt, Card
<1>2. \A i, j \in Same : hand[i].suit = hand[j].suit => hand[i] = hand[j]
  BY <1>1 DEF Card
<1>3. f \in Injection(Same, Suits)
  BY <1>1, <1>2 DEF Injection, IsInjective, IsDealt
<1>4. Cardinality(Same) <= 4
  <2>. HIDE DEF Same, f
  <2>. QED
    BY <1>3, SmallSets, FS_Injection
<1>. QED
  BY <1>4 DEF Copies

\* CountsAddUp: the cards of the first k counts are as many as the counts say.
LEMMA CountsAddUp ==
    ASSUME NEW hand, IsDealt(hand), NEW k \in 1..Len(Sorted(hand))
    PROVE  LET Among(m) == {j \in DOMAIN hand :
                              \E i \in 1..m : hand[j].rank = Sorted(hand)[i].rank}
           IN  /\ IsFiniteSet(Among(k)) /\ Cardinality(Among(k)) \in Nat
               /\ Cardinality(Among(k)) <= Cardinality(DOMAIN hand)
               /\ Cardinality(Among(0)) = 0
               /\ Cardinality(Among(k)) = Cardinality(Among(k - 1)) + Sorted(hand)[k].count
               /\ Among(Len(Sorted(hand))) = DOMAIN hand
<1>. DEFINE D == DOMAIN hand
            q == Sorted(hand)
            Among(m) == {j \in D : \E i \in 1..m : hand[j].rank = q[i].rank}
            Same == {j \in D : hand[j].rank = q[k].rank}
<1>1. PICK n \in Nat :
         /\ Len(q) = n
         /\ \A i \in 1..n : q[i].count = Copies(hand, q[i].rank)
         /\ \A r \in RanksOf(hand) : \E i \in 1..n : q[i].rank = r
         /\ \A i, j \in 1..n : i # j => q[i].rank # q[j].rank
  BY CountsSorted
<1>2. IsFiniteSet(D)
  BY DEF IsDealt
<1>3. \A m : IsFiniteSet(Among(m)) /\ Cardinality(Among(m)) \in Nat
             /\ Cardinality(Among(m)) <= Cardinality(D)
  BY <1>2, FS_Subset, FS_CardinalityType
<1>4. Cardinality(Among(0)) = 0
  <2>1. Among(0) = {}
    OBVIOUS
  <2>. QED
    BY <2>1, FS_EmptySet
<1>5. Cardinality(Among(k)) = Cardinality(Among(k - 1)) + q[k].count
  <2>. HIDE DEF q
  <2>1. Among(k) = Among(k - 1) \cup Same
    <3>1. \A i : i \in 1..k <=> i \in 1..(k - 1) \/ i = k
      BY <1>1 DEF q
    <3>. QED
      BY <3>1
  <2>2. Among(k - 1) \cap Same = {}
    <3>1. \A i \in 1..(k - 1) : q[i].rank # q[k].rank
      BY <1>1 DEF q
    <3>. QED
      BY <3>1
  <2>3. IsFiniteSet(Same) /\ Cardinality(Same) = q[k].count
    BY <1>1, <1>2, FS_Subset DEF Copies, q
  <2>4. Cardinality(Among(k - 1) \cap Same) = 0
    BY <2>2, FS_EmptySet
  <2>5. Cardinality(Same) \in Nat
    BY <2>3, FS_CardinalityType
  <2>. HIDE DEF Among, Same
  <2>6. Cardinality(Among(k - 1) \cup Same)
          = Cardinality(Among(k - 1)) + Cardinality(Same) - Cardinality(Among(k - 1) \cap Same)
    BY <1>3, <2>3, FS_Union
  <2>. QED
    BY <1>3, <2>1, <2>3, <2>4, <2>5, <2>6
<1>6. Among(n) = D
  <2>1. \A j \in D : hand[j].rank \in RanksOf(hand)
    BY DEF RanksOf
  <2>. HIDE DEF q
  <2>. QED
    BY <1>1, <2>1 DEF q
<1>7. Among(Len(q)) = D
  BY <1>1, <1>6
<1>8. /\ IsFiniteSet(Among(k)) /\ Cardinality(Among(k)) \in Nat
      /\ Cardinality(Among(k)) <= Cardinality(D)
  BY <1>3
<1>. QED
  BY <1>4, <1>5, <1>7, <1>8

\* The counts that five cards can have, the greatest first.
Counted(q) ==
    \/ /\ Len(q) = 5 /\ q[1].count = 1 /\ q[2].count = 1 /\ q[3].count = 1
       /\ q[4].count = 1 /\ q[5].count = 1
    \/ /\ Len(q) = 4 /\ q[1].count = 2 /\ q[2].count = 1 /\ q[3].count = 1 /\ q[4].count = 1
    \/ /\ Len(q) = 3 /\ q[1].count = 3 /\ q[2].count = 1 /\ q[3].count = 1
    \/ /\ Len(q) = 3 /\ q[1].count = 2 /\ q[2].count = 2 /\ q[3].count = 1
    \/ /\ Len(q) = 2 /\ q[1].count = 4 /\ q[2].count = 1
    \/ /\ Len(q) = 2 /\ q[1].count = 3 /\ q[2].count = 2

\* The type of fewer than five ranks, by the two largest counts.
TypeOfCounts(q) ==
    IF q[1].count >= 4 THEN 7
    ELSE IF q[1].count >= 3 /\ q[2].count >= 2 THEN 6
    ELSE IF q[1].count >= 3 THEN 3
    ELSE IF q[1].count >= 2 /\ q[2].count >= 2 THEN 2
    ELSE IF q[1].count >= 2 THEN 1 ELSE 0

\* FiveCounted: the patterns of the table, and five ranks.
LEMMA FiveCounted ==
    ASSUME NEW hand, IsFive(hand)
    PROVE  Counted(Sorted(hand))
<1>. DEFINE q == Sorted(hand)
            D == DOMAIN hand
            Among(m) == {j \in D : \E i \in 1..m : hand[j].rank = q[i].rank}
            P(m) == Cardinality(Among(m))
<1>1. PICK n \in Nat :
         /\ Len(q) = n
         /\ \A i \in 1..n : /\ q[i].count = Copies(hand, q[i].rank)
                            /\ q[i].count \in Nat \ {0}
         /\ \A r \in RanksOf(hand) : \E i \in 1..n : q[i].rank = r
         /\ \A i, j \in 1..n : i < j => ComesFirst(q[i], q[j])
  BY CountsSorted DEF IsFive
<1>2. IsDealt(hand) /\ Cardinality(D) = 5
  BY DEF IsFive
<1>3. n # 0
  <2>1. D # {}
    BY <1>2, FS_EmptySet
  <2>. QED
    BY <1>1, <2>1 DEF RanksOf
<1>4. \A k \in 1..n : P(k) \in Nat /\ P(k) <= 5 /\ P(k) = P(k - 1) + q[k].count
  <2>. TAKE k \in 1..n
  <2>1. k \in 1..Len(q)
    BY <1>1
  <2>. QED
    BY <1>2, <2>1, CountsAddUp
<1>5. P(0) = 0 /\ P(n) = 5
  <2>1. 1 \in 1..Len(q)
    BY <1>1, <1>3
  <2>2. P(0) = 0 /\ Among(Len(q)) = D
    BY <1>2, <2>1, CountsAddUp
  <2>. QED
    BY <1>1, <1>2, <2>2
<1>6. \A i \in 1..n : q[i].count \in 1..4
  BY <1>1, <1>2, CopiesPerSuit
<1>7. \A i, j \in 1..n : i < j => q[i].count >= q[j].count
  BY <1>1 DEF ComesFirst
<1>. HIDE DEF P, q
<1>8. n \in 1..5
  <2>. SUFFICES ASSUME n >= 6 PROVE FALSE
    BY <1>3
  <2>1. 1 \in 1..n /\ 2 \in 1..n /\ 3 \in 1..n /\ 4 \in 1..n /\ 5 \in 1..n /\ 6 \in 1..n
    OBVIOUS
  <2>2. /\ P(1) = 0 + q[1].count /\ P(2) = P(1) + q[2].count /\ P(3) = P(2) + q[3].count
        /\ P(4) = P(3) + q[4].count /\ P(5) = P(4) + q[5].count /\ P(6) = P(5) + q[6].count
        /\ P(6) <= 5
    BY <1>4, <1>5, <2>1
  <2>3. /\ q[1].count >= 1 /\ q[2].count >= 1 /\ q[3].count >= 1 /\ q[4].count >= 1
        /\ q[5].count >= 1 /\ q[6].count >= 1
        /\ q[1].count \in Int /\ q[2].count \in Int /\ q[3].count \in Int
        /\ q[4].count \in Int /\ q[5].count \in Int /\ q[6].count \in Int
    BY <1>6, <2>1
  <2>4. P(1) \in Int /\ P(2) \in Int /\ P(3) \in Int /\ P(4) \in Int /\ P(5) \in Int
        /\ P(6) \in Int
    BY <1>4, <2>1
  <2>5. P(1) >= 1 /\ P(2) >= 2
    BY <2>2, <2>3, <2>4
  <2>6. P(3) >= 3 /\ P(4) >= 4
    BY <2>2, <2>3, <2>4, <2>5
  <2>7. P(6) >= 6
    BY <2>2, <2>3, <2>4, <2>6
  <2>. QED
    BY <2>2, <2>4, <2>7
<1>9. /\ P(1) = 0 + q[1].count
      /\ n >= 2 => P(2) = P(1) + q[2].count
      /\ n >= 3 => P(3) = P(2) + q[3].count
      /\ n >= 4 => P(4) = P(3) + q[4].count
      /\ n >= 5 => P(5) = P(4) + q[5].count
  BY <1>4, <1>5, <1>8
<1>10. /\ q[1].count \in 1..4
       /\ n >= 2 => q[2].count \in 1..4 /\ q[1].count >= q[2].count
       /\ n >= 3 => q[3].count \in 1..4 /\ q[2].count >= q[3].count
       /\ n >= 4 => q[4].count \in 1..4 /\ q[3].count >= q[4].count
       /\ n >= 5 => q[5].count \in 1..4 /\ q[4].count >= q[5].count
  BY <1>6, <1>7, <1>8
<1>11. CASE n = 1
  BY <1>5, <1>9, <1>10, <1>11
<1>12. CASE n = 2
  BY <1>1, <1>5, <1>9, <1>10, <1>12 DEF Counted, q
<1>13. CASE n = 3
  BY <1>1, <1>5, <1>9, <1>10, <1>13 DEF Counted, q
<1>14. CASE n = 4
  BY <1>1, <1>5, <1>9, <1>10, <1>14 DEF Counted, q
<1>15. CASE n = 5
  BY <1>1, <1>5, <1>9, <1>10, <1>15 DEF Counted, q
<1>. QED
  BY <1>8, <1>11, <1>12, <1>13, <1>14, <1>15

\* RanksFall: five different ranks come in descending order.
LEMMA RanksFall ==
    ASSUME NEW hand, IsFive(hand), Len(Sorted(hand)) = 5
    PROVE  /\ \A i \in 1..5 : Sorted(hand)[i].rank \in 2..14 /\ Sorted(hand)[i].count = 1
           /\ \A i, j \in 1..5 : i < j => Sorted(hand)[i].rank > Sorted(hand)[j].rank
           /\ \A r : r \in RanksOf(hand) <=> \E i \in 1..5 : r = Sorted(hand)[i].rank
<1>. DEFINE q == Sorted(hand)
<1>1. /\ \A i \in 1..5 : q[i].rank \in 2..14 /\ q[i].rank \in RanksOf(hand)
      /\ \A r \in RanksOf(hand) : \E i \in 1..5 : q[i].rank = r
      /\ \A i, j \in 1..5 : i < j => ComesFirst(q[i], q[j])
  <2>1. PICK n \in Nat :
           /\ Len(q) = n
           /\ \A i \in 1..n : q[i].rank \in 2..14 /\ q[i].rank \in RanksOf(hand)
           /\ \A r \in RanksOf(hand) : \E i \in 1..n : q[i].rank = r
           /\ \A i, j \in 1..n : i < j => ComesFirst(q[i], q[j])
    BY CountsSorted DEF IsFive
  <2>2. n = 5
    BY <2>1
  <2>. QED
    BY <2>1, <2>2
<1>2. \A i \in 1..5 : q[i].count = 1
  <2>1. Counted(q)
    BY FiveCounted
  <2>2. \A i \in 1..5 : i = 1 \/ i = 2 \/ i = 3 \/ i = 4 \/ i = 5
    OBVIOUS
  <2>. HIDE DEF q
  <2>. QED
    BY <2>1, <2>2 DEF Counted, q
<1>. HIDE DEF q
<1>3. \A i, j \in 1..5 : i < j => q[i].rank > q[j].rank
  BY <1>1, <1>2 DEF ComesFirst
<1>. QED
  BY <1>1, <1>2, <1>3 DEF q

\* A wheel as it is sorted, the ace first.
SortedWheel(q) == Len(q) = 5 /\ q[1].rank = 14 /\ q[2].rank = 5 /\ q[5].rank = 2

\* WheelTurned: only the ace of a wheel changes place, from first to last.
LEMMA WheelTurned ==
    ASSUME NEW hand, IsFive(hand)
    PROVE  /\ ~SortedWheel(Sorted(hand)) => EvalHandCounts(hand) = Sorted(hand)
           /\ SortedWheel(Sorted(hand)) =>
                /\ Len(EvalHandCounts(hand)) = 5 /\ DOMAIN EvalHandCounts(hand) = 1..5
                /\ EvalHandCounts(hand)[1] = Sorted(hand)[2]
                /\ EvalHandCounts(hand)[2] = Sorted(hand)[3]
                /\ EvalHandCounts(hand)[3] = Sorted(hand)[4]
                /\ EvalHandCounts(hand)[4] = Sorted(hand)[5]
                /\ EvalHandCounts(hand)[5] = Sorted(hand)[1]
                /\ Sorted(hand)[3].rank = 4 /\ Sorted(hand)[4].rank = 3
<1>. DEFINE q == Sorted(hand)
            c == EvalHandCounts(hand)
<1>1. c = IF SortedWheel(q) THEN Tail(q) \o <<q[1]>> ELSE q
  BY DEF EvalHandCounts, Sorted, SortedWheel, ACE, FIVE, TWO
<1>2. ASSUME SortedWheel(q)
      PROVE  /\ Len(c) = 5 /\ DOMAIN c = 1..5
             /\ c[1] = q[2] /\ c[2] = q[3] /\ c[3] = q[4] /\ c[4] = q[5] /\ c[5] = q[1]
             /\ q[3].rank = 4 /\ q[4].rank = 3
  <2>1. Len(q) = 5 /\ q \in Seq(RankCounts(hand))
    BY <1>2, CountsSorted DEF SortedWheel, IsFive
  <2>2. c = Tail(q) \o <<q[1]>>
    BY <1>1, <1>2
  <2>. HIDE DEF q, c
  <2>3. /\ Tail(q) \in Seq(RankCounts(hand)) /\ Len(Tail(q)) = 4
        /\ \A i \in 1..4 : Tail(q)[i] = q[i + 1]
    <3>1. q # <<>>
      BY <2>1
    <3>2. /\ Tail(q) \in Seq(RankCounts(hand)) /\ Len(Tail(q)) = Len(q) - 1
          /\ \A i \in 1..Len(Tail(q)) : Tail(q)[i] = q[i + 1]
      BY <2>1, <3>1, HeadTailProperties, Zenon
    <3>3. Len(q) - 1 = 4
      BY <2>1
    <3>. QED
      BY <3>2, <3>3, Zenon
  <2>4. <<q[1]>> \in Seq(RankCounts(hand)) /\ Len(<<q[1]>>) = 1 /\ <<q[1]>>[1] = q[1]
    BY <2>1
  <2>5. c \in Seq(RankCounts(hand)) /\ Len(c) = 5
    BY <2>2, <2>3, <2>4
  <2>. DEFINE tail == Tail(q)
              last == <<q[1]>>
  <2>6. (\A i \in 1..4 : c[i] = tail[i]) /\ c[5] = last[1]
    <3>1. \A i \in 1..(Len(tail) + Len(last)) :
             c[i] = IF i <= Len(tail) THEN tail[i] ELSE last[i - Len(tail)]
      BY <2>2, <2>3, <2>4, ConcatProperties, Zenon
    <3>2. Len(tail) = 4 /\ Len(last) = 1
      BY <2>3, <2>4
    <3>. HIDE DEF tail, last
    <3>. QED
      BY <3>1, <3>2
  <2>7. c[1] = q[2] /\ c[2] = q[3] /\ c[3] = q[4] /\ c[4] = q[5] /\ c[5] = q[1]
    <3>1. 1 + 1 = 2 /\ 2 + 1 = 3 /\ 3 + 1 = 4 /\ 4 + 1 = 5
      OBVIOUS
    <3>2. /\ \A i \in 1..4 : tail[i] = q[i + 1] /\ c[i] = tail[i]
          /\ c[5] = last[1] /\ last[1] = q[1]
      BY <2>3, <2>4, <2>6
    <3>. HIDE DEF tail, last
    <3>3. \A i \in 1..4 : c[i] = q[i + 1]
      BY <3>2
    <3>4. c[1] = q[1 + 1] /\ c[2] = q[2 + 1] /\ c[3] = q[3 + 1] /\ c[4] = q[4 + 1]
      BY <3>3
    <3>. QED
      BY <3>1, <3>2, <3>4
  <2>8. q[3].rank = 4 /\ q[4].rank = 3
    <3>1. /\ \A i \in 1..5 : q[i].rank \in 2..14
          /\ \A i, j \in 1..5 : i < j => q[i].rank > q[j].rank
      BY <2>1, RanksFall DEF q
    <3>2. /\ q[2].rank = 5 /\ q[5].rank = 2 /\ q[3].rank \in Int /\ q[4].rank \in Int
          /\ q[2].rank > q[3].rank /\ q[3].rank > q[4].rank /\ q[4].rank > q[5].rank
      BY <1>2, <3>1 DEF SortedWheel
    <3>. QED
      BY <3>2
  <2>. QED
    BY <2>5, <2>7, <2>8
<1>. QED
  BY <1>1, <1>2

\* StraightRuns: the counts make a straight exactly when the ranks are a run,
\* and the first of them is its top.
LEMMA StraightRuns ==
    ASSUME NEW hand, IsFive(hand)
    PROVE  /\ IsStraight(EvalHandCounts(hand))
                => /\ StraightTops(RanksOf(hand)) = {EvalHandCounts(hand)[1].rank}
                   /\ Len(Sorted(hand)) = 5
           /\ ~IsStraight(EvalHandCounts(hand)) => StraightTops(RanksOf(hand)) = {}
<1>. DEFINE q == Sorted(hand)
            c == EvalHandCounts(hand)
            R == RanksOf(hand)
            t(c1) == IF c1 = 5 THEN 14 ELSE c1
<1>1. PICK n \in Nat :
         /\ Len(q) = n /\ n \in 2..5
         /\ \A i \in 1..n : q[i].rank \in 2..14
         /\ \A r \in R : \E i \in 1..n : q[i].rank = r
  <2>1. Counted(q)
    BY FiveCounted
  <2>2. PICK n \in Nat :
           /\ Len(q) = n
           /\ \A i \in 1..n : q[i].rank \in 2..14
           /\ \A r \in R : \E i \in 1..n : q[i].rank = r
    BY CountsSorted DEF IsFive
  <2>3. n \in 2..5
    <3>. HIDE DEF q
    <3>. QED
      BY <2>1, <2>2 DEF Counted
  <2>. QED
    BY <2>2, <2>3
<1>2. Len(c) = Len(q)
  BY WheelTurned DEF SortedWheel
<1>3. ASSUME NEW top \in StraightTops(R)
      PROVE  IsStraight(c) /\ c[1].rank = top
  <2>1. PICK u \in [1..5 -> R] : /\ u[1] > u[2] /\ u[2] > u[3] /\ u[3] > u[4] /\ u[4] > u[5]
                                 /\ IF top = 5 THEN u[1] = 14 /\ u[2] = 5 /\ u[5] = 2
                                    ELSE u[1] = top /\ u[5] = top - 4
    <3>1. top \in 5..14 /\ \A k \in 0..4 : IF top - k = 1 THEN 14 \in R ELSE top - k \in R
      BY <1>3 DEF StraightTops
    <3>. HIDE DEF R
    <3>2. CASE top = 5
      <4>1. 14 \in R /\ 5 \in R /\ 4 \in R /\ 3 \in R /\ 2 \in R
        BY <3>1, <3>2
      <4>. DEFINE f == [i \in 1..5 |-> IF i = 1 THEN 14 ELSE 7 - i]
      <4>2. f[1] = 14 /\ f[2] = 5 /\ f[3] = 4 /\ f[4] = 3 /\ f[5] = 2
        OBVIOUS
      <4>3. f \in [1..5 -> R]
        BY <4>1
      <4>. HIDE DEF f
      <4>. QED
        BY <3>2, <4>2, <4>3
    <3>3. CASE top # 5
      <4>1. \A k \in 0..4 : top - k \in R
        BY <3>1, <3>3
      <4>. DEFINE f == [i \in 1..5 |-> top - (i - 1)]
      <4>2. f \in [1..5 -> R]
        BY <4>1
      <4>3. /\ f[1] > f[2] /\ f[2] > f[3] /\ f[3] > f[4] /\ f[4] > f[5]
            /\ f[1] = top /\ f[5] = top - 4
        BY <3>1
      <4>. HIDE DEF f
      <4>. QED
        BY <3>3, <4>2, <4>3
    <3>. QED
      BY <3>2, <3>3
  <2>2. \A k \in 1..5 : u[k] \in Int /\ \E i \in 1..n : q[i].rank = u[k]
    BY <1>1
  <2>. HIDE DEF q
  <2>3. PICK i1 \in 1..n, i2 \in 1..n, i3 \in 1..n, i4 \in 1..n, i5 \in 1..n :
           /\ q[i1].rank = u[1] /\ q[i2].rank = u[2] /\ q[i3].rank = u[3]
           /\ q[i4].rank = u[4] /\ q[i5].rank = u[5]
    BY <2>2
  <2>4. u[1] \in Int /\ u[2] \in Int /\ u[3] \in Int /\ u[4] \in Int /\ u[5] \in Int
    BY <2>2
  <2>5. /\ i1 # i2 /\ i1 # i3 /\ i1 # i4 /\ i1 # i5 /\ i2 # i3 /\ i2 # i4
        /\ i2 # i5 /\ i3 # i4 /\ i3 # i5 /\ i4 # i5
    BY <2>1, <2>3, <2>4
  <2>6. n = 5
    BY <1>1, <2>5
  <2>7. \A i, j \in 1..5 : i < j => q[i].rank > q[j].rank
    BY <1>1, <2>6, RanksFall DEF q
  <2>8. i1 < i2 /\ i2 < i3 /\ i3 < i4 /\ i4 < i5
    <3>1. \A i, j \in 1..5 : q[i].rank > q[j].rank => i < j
      <4>. TAKE i, j \in 1..5
      <4>1. q[i].rank \in Int /\ q[j].rank \in Int
        BY <1>1, <2>6
      <4>2. i = j \/ i < j \/ j < i
        OBVIOUS
      <4>. QED
        BY <2>7, <4>1, <4>2
    <3>. QED
      BY <2>1, <2>3, <2>6, <3>1
  <2>9. i1 = 1 /\ i2 = 2 /\ i3 = 3 /\ i4 = 4 /\ i5 = 5
    BY <2>6, <2>8
  <2>10. /\ q[1].rank = u[1] /\ q[2].rank = u[2] /\ q[3].rank = u[3]
         /\ q[4].rank = u[4] /\ q[5].rank = u[5]
    BY <2>3, <2>9
  <2>11. CASE top = 5
    <3>1. SortedWheel(q)
      BY <1>1, <2>1, <2>6, <2>10, <2>11 DEF SortedWheel
    <3>2. Len(c) = 5 /\ c[1] = q[2] /\ c[4] = q[5] /\ c[5] = q[1]
      BY <3>1, WheelTurned DEF q
    <3>. QED
      BY <2>1, <2>10, <2>11, <3>2 DEF IsStraight, ACE, FIVE, TWO
  <2>12. CASE top # 5
    <3>1. top \in 5..14
      BY <1>3 DEF StraightTops
    <3>2. q[1].rank = top /\ q[5].rank = top - 4
      BY <2>1, <2>10, <2>12
    <3>3. q[1].rank - q[5].rank = 4
      BY <3>1, <3>2
    <3>4. ~SortedWheel(q)
      BY <3>3 DEF SortedWheel
    <3>5. c = q
      BY <3>4, WheelTurned DEF q
    <3>. HIDE DEF c
    <3>. QED
      BY <1>1, <2>6, <3>2, <3>3, <3>5 DEF IsStraight
  <2>. QED
    BY <2>11, <2>12
<1>4. ASSUME IsStraight(c)
      PROVE  c[1].rank \in StraightTops(R) /\ Len(q) = 5
  <2>1. Len(q) = 5
    BY <1>2, <1>4 DEF IsStraight
  <2>2. /\ \A i \in 1..5 : q[i].rank \in 2..14 /\ q[i].rank \in R
        /\ \A i, j \in 1..5 : i < j => q[i].rank > q[j].rank
    BY <2>1, RanksFall
  <2>3. CASE SortedWheel(q)
    <3>1. /\ c[1].rank = 5
          /\ q[1].rank = 14 /\ q[2].rank = 5 /\ q[3].rank = 4 /\ q[4].rank = 3 /\ q[5].rank = 2
      BY <2>3, WheelTurned DEF SortedWheel
    <3>2. 14 \in R /\ 5 \in R /\ 4 \in R /\ 3 \in R /\ 2 \in R
      <4>. HIDE DEF q, R
      <4>. QED
        BY <2>2, <3>1
    <3>3. \A k \in 0..4 : IF 5 - k = 1 THEN 14 \in R ELSE 5 - k \in R
      <4>1. \A k \in 0..4 : k = 0 \/ k = 1 \/ k = 2 \/ k = 3 \/ k = 4
        OBVIOUS
      <4>2. 5 - 0 = 5 /\ 5 - 1 = 4 /\ 5 - 2 = 3 /\ 5 - 3 = 2 /\ 5 - 4 = 1
        OBVIOUS
      <4>. HIDE DEF R
      <4>. QED
        BY <3>2, <4>1, <4>2
    <3>. QED
      BY <2>1, <3>1, <3>3 DEF StraightTops
  <2>4. CASE ~SortedWheel(q)
    <3>1. c = q
      BY <2>4, WheelTurned
    <3>. HIDE DEF q, c, R
    <3>2. /\ q[1].rank \in 2..14 /\ q[2].rank \in 2..14 /\ q[3].rank \in 2..14
          /\ q[4].rank \in 2..14 /\ q[5].rank \in 2..14
          /\ q[1].rank > q[2].rank /\ q[2].rank > q[3].rank /\ q[3].rank > q[4].rank
          /\ q[4].rank > q[5].rank
      BY <2>2
    <3>3. q[1].rank - q[5].rank = 4
      BY <1>4, <3>1, <3>2 DEF IsStraight, ACE, FIVE, TWO
    <3>4. /\ q[2].rank = q[1].rank - 1 /\ q[3].rank = q[1].rank - 2
          /\ q[4].rank = q[1].rank - 3 /\ q[5].rank = q[1].rank - 4
          /\ q[1].rank \in 6..14
      BY <3>2, <3>3
    <3>5. \A k \in 0..4 : q[1].rank - k = q[k + 1].rank
      <4>1. \A k \in 0..4 : k = 0 \/ k = 1 \/ k = 2 \/ k = 3 \/ k = 4
        OBVIOUS
      <4>2. 0 + 1 = 1 /\ 1 + 1 = 2 /\ 2 + 1 = 3 /\ 3 + 1 = 4 /\ 4 + 1 = 5 /\ q[1].rank - 0 = q[1].rank
        BY <3>2
      <4>. QED
        BY <3>4, <4>1, <4>2
    <3>6. \A k \in 0..4 : q[1].rank - k \in R /\ q[1].rank - k # 1
      BY <2>2, <3>4, <3>5
    <3>. QED
      BY <2>1, <3>1, <3>4, <3>6 DEF StraightTops
  <2>. QED
    BY <2>3, <2>4
<1>. QED
  BY <1>3, <1>4

\* RunOfFive: a run is five ranks.
LEMMA RunOfFive ==
    ASSUME NEW R, IsFiniteSet(R), StraightTops(R) # {}
    PROVE  Cardinality(R) >= 5
<1>1. PICK top \in 5..14 : \A k \in 0..4 : IF top - k = 1 THEN 14 \in R ELSE top - k \in R
  BY DEF StraightTops
<1>. DEFINE f == [k \in 0..4 |-> IF top - k = 1 THEN 14 ELSE top - k]
<1>2. f \in [0..4 -> R]
  BY <1>1
<1>3. \A j, k \in 0..4 : f[j] = f[k] => j = k
  <2>. SUFFICES ASSUME NEW j \in 0..4, NEW k \in 0..4, f[j] = f[k] PROVE j = k
    OBVIOUS
  <2>1. \A i \in 0..4 : f[i] = IF top - i = 1 THEN 14 ELSE top - i
    OBVIOUS
  <2>2. \A i \in 0..4 : top - i = 1 => top = 5
    BY <1>1
  <2>. HIDE DEF f
  <2>. QED
    BY <1>1, <2>1, <2>2
<1>4. f \in Injection(0..4, R)
  <2>. HIDE DEF f
  <2>. QED
    BY <1>2, <1>3 DEF Injection, IsInjective
<1>5. Cardinality(0..4) = 5
  BY SmallSets
<1>. HIDE DEF f
<1>. QED
  BY <1>4, <1>5, FS_Injection

\* OfSuitSized: the cards of a suit have different ranks.
LEMMA OfSuitSized ==
    ASSUME NEW hand, IsDealt(hand), NEW s
    PROVE  /\ IsFiniteSet(OfSuit(hand, s)) /\ OfSuit(hand, s) \subseteq RanksOf(hand)
           /\ IsFiniteSet({i \in DOMAIN hand : hand[i].suit = s})
           /\ Cardinality(OfSuit(hand, s)) = Cardinality({i \in DOMAIN hand : hand[i].suit = s})
<1>. DEFINE I == {i \in DOMAIN hand : hand[i].suit = s}
            T == OfSuit(hand, s)
            f == [i \in I |-> hand[i].rank]
<1>1. IsFiniteSet(I)
  BY FS_Subset DEF IsDealt
<1>2. T = {hand[i].rank : i \in I}
  BY DEF OfSuit
<1>3. \A i, j \in I : hand[i].rank = hand[j].rank => i = j
  BY DEF IsDealt, Card
<1>4. f \in Injection(I, T) /\ f \in Surjection(I, T)
  <2>1. f \in [I -> T] /\ \A i, j \in I : f[i] = f[j] => i = j
    BY <1>2, <1>3
  <2>2. \A r \in T : \E i \in I : f[i] = r
    BY <1>2
  <2>. HIDE DEF f, I, T
  <2>. QED
    BY <2>1, <2>2 DEF Injection, IsInjective, Surjection
<1>5. IsFiniteSet(T) /\ Cardinality(T) = Cardinality(I)
  <2>. HIDE DEF f, I, T
  <2>. QED
    BY <1>1, <1>4, FS_Surjection
<1>. QED
  BY <1>1, <1>5 DEF OfSuit, RanksOf

\* FlushSuited: a flush is five ranks of a suit.
LEMMA FlushSuited ==
    ASSUME NEW hand, IsFive(hand)
    PROVE  /\ \A s : Cardinality(OfSuit(hand, s)) >= 5 => IsFlush(hand)
           /\ IsFlush(hand) =>
                /\ Len(Sorted(hand)) = 5
                /\ \E s \in Suits : /\ OfSuit(hand, s) = RanksOf(hand)
                                    /\ Cardinality(OfSuit(hand, s)) >= 5
                /\ \A s : OfSuit(hand, s) = RanksOf(hand) \/ OfSuit(hand, s) = {}
<1>. DEFINE D == DOMAIN hand
<1>1. IsDealt(hand) /\ IsFiniteSet(D) /\ Cardinality(D) = 5 /\ \A i \in D : hand[i] \in Card
  BY DEF IsFive, IsDealt
<1>2. ASSUME NEW s, Cardinality(OfSuit(hand, s)) >= 5
      PROVE  IsFlush(hand)
  <2>. DEFINE I == {i \in D : hand[i].suit = s}
  <2>1. Cardinality(I) >= 5
    BY <1>1, <1>2, OfSuitSized
  <2>2. I \in SUBSET D
    OBVIOUS
  <2>3. I = D
    <3>. HIDE DEF I
    <3>1. IsFiniteSet(I) /\ Cardinality(I) <= 5 /\ (Cardinality(D) = Cardinality(I) => D = I)
      BY <1>1, <2>2, FS_Subset
    <3>2. Cardinality(I) \in Nat
      BY <3>1, FS_CardinalityType
    <3>. QED
      BY <1>1, <2>1, <3>1, <3>2
  <2>. QED
    BY <2>3 DEF IsFlush
<1>3. ASSUME IsFlush(hand)
      PROVE  /\ Len(Sorted(hand)) = 5
             /\ \E s \in Suits : /\ OfSuit(hand, s) = RanksOf(hand)
                                 /\ Cardinality(OfSuit(hand, s)) >= 5
             /\ \A s : OfSuit(hand, s) = RanksOf(hand) \/ OfSuit(hand, s) = {}
  <2>1. PICK j \in D : TRUE
    BY <1>1, FS_EmptySet
  <2>. DEFINE s == hand[j].suit
  <2>2. s \in Suits /\ \A i \in D : hand[i].suit = s
    BY <1>1, <1>3 DEF IsFlush, Card
  <2>3. OfSuit(hand, s) = RanksOf(hand)
    BY <2>2 DEF OfSuit, RanksOf
  <2>4. Cardinality(OfSuit(hand, s)) = 5
    <3>1. {i \in D : hand[i].suit = s} = D
      BY <2>2
    <3>. QED
      BY <1>1, <3>1, OfSuitSized
  <2>5. \A r \in RanksOf(hand) : Copies(hand, r) = 1
    <3>. TAKE r \in RanksOf(hand)
    <3>1. PICK i \in D : hand[i].rank = r
      BY DEF RanksOf
    <3>2. {k \in D : hand[k].rank = r} = {i}
      <4>1. \A k \in D : hand[k].rank = r => hand[k] = hand[i]
        BY <1>1, <2>2, <3>1 DEF Card
      <4>. QED
        BY <1>1, <3>1, <4>1 DEF IsDealt
    <3>. QED
      BY <3>2, FS_Singleton DEF Copies
  <2>6. Len(Sorted(hand)) = 5
    <3>. DEFINE q == Sorted(hand)
    <3>1. PICK n \in Nat :
             /\ Len(q) = n
             /\ \A i \in 1..n : q[i].rank \in RanksOf(hand) /\ q[i].count = Copies(hand, q[i].rank)
      BY <1>1, CountsSorted
    <3>2. Counted(q)
      BY FiveCounted
    <3>. HIDE DEF q
    <3>3. n \in 2..5
      BY <3>1, <3>2 DEF Counted
    <3>4. q[1].count = 1
      BY <2>5, <3>1, <3>3
    <3>5. Len(q) = 5
      BY <3>2, <3>4 DEF Counted
    <3>. QED
      BY <3>5 DEF q
  <2>7. \A t : OfSuit(hand, t) = RanksOf(hand) \/ OfSuit(hand, t) = {}
    <3>1. \A t : t = s \/ OfSuit(hand, t) = {}
      BY <2>2 DEF OfSuit
    <3>. QED
      BY <2>3, <3>1
  <2>. QED
    BY <2>2, <2>3, <2>4, <2>6, <2>7
<1>. QED
  BY <1>2, <1>3
-----------------------------------------------------------------------------
(* The rules, told from the counts.                                        *)

\* What RuleType looks for.
Runs(cards) == UNION {StraightTops(OfSuit(cards, s)) : s \in Suits}

Alike(cards, n) == \E r \in RanksOf(cards) : Copies(cards, r) >= n

AlikeTwice(cards, n, m) ==
    \E r, q \in RanksOf(cards) : r # q /\ Copies(cards, r) >= n /\ Copies(cards, q) >= m

Suited(cards) == \E s \in Suits : Cardinality(OfSuit(cards, s)) >= 5

LEMMA RuleTypeIs ==
    ASSUME NEW cards
    PROVE  RuleType(cards) =
             IF 14 \in Runs(cards) THEN 9
             ELSE IF Runs(cards) # {} THEN 8
             ELSE IF Alike(cards, 4) THEN 7
             ELSE IF AlikeTwice(cards, 3, 2) THEN 6
             ELSE IF Suited(cards) THEN 5
             ELSE IF StraightTops(RanksOf(cards)) # {} THEN 4
             ELSE IF Alike(cards, 3) THEN 3
             ELSE IF AlikeTwice(cards, 2, 2) THEN 2
             ELSE IF Alike(cards, 2) THEN 1 ELSE 0
<1>. DEFINE Rest == IF AlikeTwice(cards, 3, 2) THEN 6
                    ELSE IF Suited(cards) THEN 5
                    ELSE IF StraightTops(RanksOf(cards)) # {} THEN 4
                    ELSE IF Alike(cards, 3) THEN 3
                    ELSE IF AlikeTwice(cards, 2, 2) THEN 2
                    ELSE IF Alike(cards, 2) THEN 1 ELSE 0
<1>1. RuleType(cards) = CASE 14 \in Runs(cards) -> 9
                          [] Runs(cards) # {} /\ 14 \notin Runs(cards) -> 8
                          [] Runs(cards) = {} /\ Alike(cards, 4) -> 7
                          [] OTHER -> Rest
  BY DEF RuleType, Runs, Alike, AlikeTwice, Suited
<1>2. 14 \in Runs(cards) => Runs(cards) # {}
  OBVIOUS
<1>. HIDE DEF Rest
<1>3. RuleType(cards) = IF 14 \in Runs(cards) THEN 9
                        ELSE IF Runs(cards) # {} THEN 8
                        ELSE IF Alike(cards, 4) THEN 7 ELSE Rest
  BY <1>1, <1>2
<1>. QED
  BY <1>3 DEF Rest

\* RunsOfFive: five cards have a run in a suit exactly when they are a flush
\* and a straight.
LEMMA RunsOfFive ==
    ASSUME NEW hand, IsFive(hand)
    PROVE  /\ Suited(hand) <=> IsFlush(hand)
           /\ IsFlush(hand) /\ IsStraight(EvalHandCounts(hand))
                => Runs(hand) = {EvalHandCounts(hand)[1].rank}
           /\ ~(IsFlush(hand) /\ IsStraight(EvalHandCounts(hand))) => Runs(hand) = {}
<1>. DEFINE R == RanksOf(hand)
            c == EvalHandCounts(hand)
<1>1. Suited(hand) <=> IsFlush(hand)
  BY FlushSuited DEF Suited
<1>2. \A s : StraightTops(OfSuit(hand, s)) # {} => IsFlush(hand)
  BY OfSuitSized, RunOfFive, FlushSuited DEF IsFive
<1>3. StraightTops({}) = {}
  BY DEF StraightTops
<1>4. CASE IsFlush(hand)
  <2>1. \E s \in Suits : OfSuit(hand, s) = R
    BY <1>4, FlushSuited
  <2>2. \A s : OfSuit(hand, s) = R \/ OfSuit(hand, s) = {}
    BY <1>4, FlushSuited
  <2>3. Runs(hand) = StraightTops(R)
    BY <1>3, <2>1, <2>2, Zenon DEF Runs
  <2>. QED
    BY <1>1, <1>4, <2>3, StraightRuns
<1>5. CASE ~IsFlush(hand)
  <2>1. Runs(hand) = {}
    BY <1>2, <1>5 DEF Runs
  <2>. QED
    BY <1>1, <1>5, <2>1
<1>. QED
  BY <1>4, <1>5

\* GroupsOfFive: the two largest counts tell all groups of equal ranks.
LEMMA GroupsOfFive ==
    ASSUME NEW hand, IsFive(hand), NEW n \in Nat, NEW m \in Nat, n >= m
    PROVE  /\ Alike(hand, n) <=> Sorted(hand)[1].count >= n
           /\ AlikeTwice(hand, n, m)
                <=> Sorted(hand)[1].count >= n /\ Sorted(hand)[2].count >= m
<1>. DEFINE q == Sorted(hand)
            R == RanksOf(hand)
<1>1. PICK l \in Nat :
         /\ Len(q) = l
         /\ \A i \in 1..l : /\ q[i].rank \in R /\ q[i].count = Copies(hand, q[i].rank)
                            /\ q[i].count \in Nat
         /\ \A r \in R : \E i \in 1..l : q[i].rank = r
         /\ \A i, j \in 1..l : i < j => ComesFirst(q[i], q[j])
         /\ \A i, j \in 1..l : i # j => q[i].rank # q[j].rank
  BY CountsSorted DEF IsFive
<1>2. l \in 2..5
  <2>1. Counted(q)
    BY FiveCounted
  <2>. HIDE DEF q
  <2>. QED
    BY <1>1, <2>1 DEF Counted
<1>. HIDE DEF q, R
<1>3. \A i, j \in 1..l : i < j => q[i].count >= q[j].count
  BY <1>1 DEF ComesFirst
<1>4. \A r \in R : \E i \in 1..l : q[i].rank = r /\ q[i].count = Copies(hand, r)
  BY <1>1
<1>5. 1 \in 1..l /\ 2 \in 1..l
  BY <1>2
<1>6. \A i \in 1..l : q[1].count >= q[i].count
  BY <1>1, <1>3, <1>5
<1>7. \A i \in 1..l : i # 1 => q[2].count >= q[i].count
  <2>. TAKE i \in 1..l
  <2>1. i = 1 \/ i = 2 \/ 2 < i
    OBVIOUS
  <2>. QED
    BY <1>1, <1>3, <1>5, <2>1
<1>8. Alike(hand, n) <=> q[1].count >= n
  <2>1. ASSUME NEW r \in R, Copies(hand, r) >= n PROVE q[1].count >= n
    BY <1>1, <1>4, <1>5, <1>6, <2>1
  <2>2. q[1].count >= n => \E r \in R : Copies(hand, r) >= n
    BY <1>1, <1>5
  <2>. QED
    BY <2>1, <2>2 DEF Alike, R
<1>9. AlikeTwice(hand, n, m) <=> q[1].count >= n /\ q[2].count >= m
  <2>1. ASSUME NEW r \in R, NEW s \in R, r # s, Copies(hand, r) >= n, Copies(hand, s) >= m
        PROVE  q[1].count >= n /\ q[2].count >= m
    <3>1. PICK i \in 1..l, j \in 1..l :
             q[i].rank = r /\ q[i].count = Copies(hand, r) /\ q[j].rank = s /\ q[j].count = Copies(hand, s)
      BY <1>4
    <3>2. i # j
      BY <2>1, <3>1
    <3>3. /\ q[i].count \in Nat /\ q[j].count \in Nat /\ q[1].count \in Nat /\ q[2].count \in Nat
          /\ q[i].count >= n /\ q[j].count >= m /\ q[1].count >= q[i].count
      BY <1>1, <1>5, <1>6, <2>1, <3>1
    <3>4. CASE j # 1
      BY <1>7, <3>3, <3>4
    <3>5. CASE j = 1
      BY <1>7, <3>2, <3>3, <3>5
    <3>. QED
      BY <3>4, <3>5
  <2>2. ASSUME q[1].count >= n, q[2].count >= m
        PROVE  \E r, s \in R : r # s /\ Copies(hand, r) >= n /\ Copies(hand, s) >= m
    <3>1. /\ q[1].rank \in R /\ q[2].rank \in R /\ q[1].rank # q[2].rank
          /\ Copies(hand, q[1].rank) >= n /\ Copies(hand, q[2].rank) >= m
      BY <1>1, <1>5, <2>2
    <3>. QED
      BY <3>1
  <2>. QED
    BY <2>1, <2>2 DEF AlikeTwice, R
<1>. QED
  BY <1>8, <1>9 DEF q

\* TypeByRules: the type that the code looks up in its tables is the one that
\* the rules give.
LEMMA TypeByRules ==
    ASSUME NEW hand, IsFive(hand)
    PROVE  EvalHandType(hand, EvalHandCounts(hand)) = RuleType(hand)
<1>. DEFINE q == Sorted(hand)
            c == EvalHandCounts(hand)
<1>1. Counted(q) /\ Len(c) = Len(q)
  BY FiveCounted, WheelTurned DEF SortedWheel
<1>2. /\ Alike(hand, 4) <=> q[1].count >= 4
      /\ Alike(hand, 3) <=> q[1].count >= 3
      /\ Alike(hand, 2) <=> q[1].count >= 2
      /\ AlikeTwice(hand, 3, 2) <=> q[1].count >= 3 /\ q[2].count >= 2
      /\ AlikeTwice(hand, 2, 2) <=> q[1].count >= 2 /\ q[2].count >= 2
  <2>1. \A n, m \in Nat : n >= m => /\ Alike(hand, n) <=> q[1].count >= n
                                    /\ AlikeTwice(hand, n, m)
                                         <=> q[1].count >= n /\ q[2].count >= m
    BY GroupsOfFive
  <2>. HIDE DEF q
  <2>. QED
    BY <2>1
<1>3. StraightTops(RanksOf(hand)) # {} <=> IsStraight(c)
  BY StraightRuns
<1>4. Suited(hand) <=> IsFlush(hand)
  BY RunsOfFive
<1>5. CASE Len(q) = 5
  <2>1. ~Alike(hand, 4) /\ ~Alike(hand, 3) /\ ~Alike(hand, 2)
        /\ ~AlikeTwice(hand, 3, 2) /\ ~AlikeTwice(hand, 2, 2)
    <3>. HIDE DEF q
    <3>. QED
      BY <1>1, <1>2, <1>5 DEF Counted
  <2>2. EvalHandType(hand, c) = EvalUniqueHandType(hand, c)
    BY <1>1, <1>5 DEF EvalHandType
  <2>3. CASE IsFlush(hand) /\ IsStraight(c)
    <3>1. Runs(hand) = {c[1].rank}
      BY <2>3, RunsOfFive
    <3>2. EvalHandType(hand, c) = IF c[1].rank = 14 THEN 9 ELSE 8
      BY <2>2, <2>3 DEF EvalUniqueHandType, HandType, ACE
    <3>3. RuleType(hand) = IF c[1].rank = 14 THEN 9 ELSE 8
      BY <3>1, RuleTypeIs
    <3>. QED
      BY <3>2, <3>3
  <2>4. CASE ~(IsFlush(hand) /\ IsStraight(c))
    <3>1. Runs(hand) = {}
      BY <2>4, RunsOfFive
    <3>2. EvalHandType(hand, c) = IF IsFlush(hand) THEN 5 ELSE IF IsStraight(c) THEN 4 ELSE 0
      BY <2>2, <2>4 DEF EvalUniqueHandType, HandType
    <3>3. RuleType(hand) = IF IsFlush(hand) THEN 5 ELSE IF IsStraight(c) THEN 4 ELSE 0
      BY <1>3, <1>4, <2>1, <3>1, RuleTypeIs
    <3>. QED
      BY <3>2, <3>3
  <2>. QED
    BY <2>3, <2>4
<1>6. CASE Len(q) # 5
  <2>1. ~IsStraight(c) /\ ~IsFlush(hand)
    BY <1>1, <1>6, FlushSuited DEF IsStraight
  <2>2. Runs(hand) = {} /\ ~SortedWheel(q)
    BY <1>6, <2>1, RunsOfFive DEF SortedWheel
  <2>3. EvalHandType(hand, c) = EvalPatternHandType(q)
    BY <1>1, <1>6, <2>2, WheelTurned DEF EvalHandType
  <2>4. RuleType(hand) = TypeOfCounts(q)
    BY <1>2, <1>3, <1>4, <2>1, <2>2, RuleTypeIs DEF TypeOfCounts
  <2>. HIDE DEF q
  <2>5. EvalPatternHandType(q) = <<1, 2, 3, 6, 7>>[2 * (q[1].count - 2) + q[2].count]
    BY DEF EvalPatternHandType, HandType
  <2>6. CASE q[1].count = 2 /\ q[2].count = 1
    BY <2>3, <2>4, <2>5, <2>6 DEF TypeOfCounts
  <2>7. CASE q[1].count = 2 /\ q[2].count = 2
    BY <2>3, <2>4, <2>5, <2>7 DEF TypeOfCounts
  <2>8. CASE q[1].count = 3 /\ q[2].count = 1
    BY <2>3, <2>4, <2>5, <2>8 DEF TypeOfCounts
  <2>9. CASE q[1].count = 3 /\ q[2].count = 2
    BY <2>3, <2>4, <2>5, <2>9 DEF TypeOfCounts
  <2>10. CASE q[1].count = 4 /\ q[2].count = 1
    BY <2>3, <2>4, <2>5, <2>10 DEF TypeOfCounts
  <2>. QED
    BY <1>1, <1>6, <2>6, <2>7, <2>8, <2>9, <2>10 DEF Counted
<1>. QED
  BY <1>5, <1>6

\* The ranks in the order they are packed, 0 for those missing.
Played(hand) ==
    [i \in 1..5 |-> IF i <= Len(EvalHandCounts(hand)) THEN EvalHandCounts(hand)[i].rank ELSE 0]

\* ValuePacked: EvalHandValue packs the type of the rules and the ranks.
LEMMA ValuePacked ==
    ASSUME NEW hand, IsFive(hand)
    PROVE  /\ RuleType(hand) \in Nat /\ Played(hand) \in [1..5 -> Digit]
           /\ EvalHandValue(hand) = Packed(RuleType(hand), Played(hand))
<1>. DEFINE q == Sorted(hand)
            c == EvalHandCounts(hand)
            ranks == [i \in DOMAIN c |-> c[i].rank]
<1>1. PICK n \in Nat :
         /\ Len(q) = n /\ q \in [1..n -> RankCounts(hand)]
         /\ \A i \in 1..n : q[i].rank \in 2..14
  BY CountsSorted DEF IsFive
<1>2. Len(c) = n /\ DOMAIN c = 1..n /\ \A i \in 1..n : c[i].rank \in 2..14
  <2>1. CASE ~SortedWheel(q)
    <3>1. c = q
      BY <2>1, WheelTurned
    <3>. HIDE DEF c, q
    <3>. QED
      BY <1>1, <3>1
  <2>2. CASE SortedWheel(q)
    <3>1. /\ Len(c) = 5 /\ DOMAIN c = 1..5 /\ n = 5
          /\ c[1] = q[2] /\ c[2] = q[3] /\ c[3] = q[4] /\ c[4] = q[5] /\ c[5] = q[1]
      BY <1>1, <2>2, WheelTurned DEF SortedWheel
    <3>2. \A i \in 1..5 : i = 1 \/ i = 2 \/ i = 3 \/ i = 4 \/ i = 5
      OBVIOUS
    <3>. HIDE DEF c, q
    <3>3. /\ c[1].rank \in 2..14 /\ c[2].rank \in 2..14 /\ c[3].rank \in 2..14
          /\ c[4].rank \in 2..14 /\ c[5].rank \in 2..14
      BY <1>1, <3>1
    <3>. QED
      BY <3>1, <3>2, <3>3
  <2>. QED
    BY <2>1, <2>2
<1>. HIDE DEF q, c
<1>3. Len(ranks) = n /\ \A i \in 1..n : ranks[i] = c[i].rank
  BY <1>2
<1>4. Padded(ranks) = Played(hand)
  <2>1. \A i \in 1..5 : i <= n => ranks[i] = c[i].rank
    BY <1>3
  <2>. HIDE DEF ranks
  <2>. QED
    BY <1>2, <1>3, <2>1 DEF Padded, Played, c
<1>5. Played(hand) \in [1..5 -> Digit]
  <2>1. \A i \in 1..5 : (IF i <= Len(c) THEN c[i].rank ELSE 0) \in 0..15
    BY <1>2
  <2>. QED
    BY <2>1 DEF Played, Digit, c
<1>6. RuleType(hand) \in Nat
  BY RuleTypeIs
<1>7. EvalHandValue(hand) = Build(RuleType(hand), ranks)
  BY TypeByRules DEF EvalHandValue, c
<1>8. Build(RuleType(hand), ranks) = Packed(RuleType(hand), Padded(ranks))
  BY <1>4, <1>5, <1>6, BuildPacks
<1>. QED
  BY <1>4, <1>5, <1>6, <1>7, <1>8

\* StraightTyped: straights, and only they, have the type of a straight.
LEMMA StraightTyped ==
    ASSUME NEW hand, IsFive(hand)
    PROVE  IsStraight(EvalHandCounts(hand)) <=> RuleType(hand) \in {4, 8, 9}
<1>1. CASE IsStraight(EvalHandCounts(hand))
  <2>1. Len(Sorted(hand)) = 5 /\ StraightTops(RanksOf(hand)) # {}
    BY <1>1, StraightRuns
  <2>2. Counted(Sorted(hand))
    BY FiveCounted
  <2>3. Sorted(hand)[1].count = 1
    BY <2>1, <2>2 DEF Counted
  <2>4. \A n, m \in Nat : n >= m => /\ Alike(hand, n) <=> Sorted(hand)[1].count >= n
                                    /\ AlikeTwice(hand, n, m)
                                         <=> Sorted(hand)[1].count >= n /\ Sorted(hand)[2].count >= m
    BY GroupsOfFive
  <2>5. ~Alike(hand, 4) /\ ~AlikeTwice(hand, 3, 2)
    BY <2>3, <2>4
  <2>6. Suited(hand) => Runs(hand) # {}
    BY <1>1, RunsOfFive
  <2>. QED
    BY <1>1, <2>1, <2>5, <2>6, RuleTypeIs
<1>2. CASE ~IsStraight(EvalHandCounts(hand))
  BY <1>2, StraightRuns, RunsOfFive, RuleTypeIs
<1>. QED
  BY <1>1, <1>2

\* StraightPlayed: the top of a straight tells the ranks below.
LEMMA StraightPlayed ==
    ASSUME NEW hand, IsFive(hand), IsStraight(EvalHandCounts(hand))
    PROVE  \E top \in 5..14 :
              /\ StraightTops(RanksOf(hand)) = {top}
              /\ Played(hand)[1] = top /\ Played(hand)[2] = top - 1
              /\ Played(hand)[3] = top - 2 /\ Played(hand)[4] = top - 3
              /\ Played(hand)[5] = IF top = 5 THEN 14 ELSE top - 4
<1>. DEFINE q == Sorted(hand)
            c == EvalHandCounts(hand)
            top == c[1].rank
<1>1. Len(q) = 5 /\ StraightTops(RanksOf(hand)) = {top}
  BY StraightRuns
<1>2. Len(c) = 5
  BY DEF IsStraight
<1>3. \A i \in 1..5 : Played(hand)[i] = c[i].rank
  <2>. HIDE DEF c
  <2>. QED
    BY <1>2 DEF Played, c
<1>4. top \in 5..14
  BY <1>1 DEF StraightTops
<1>5. /\ c[2].rank = top - 1 /\ c[3].rank = top - 2 /\ c[4].rank = top - 3
      /\ c[5].rank = IF top = 5 THEN 14 ELSE top - 4
  <2>1. CASE SortedWheel(q)
    <3>1. /\ c[1] = q[2] /\ c[2] = q[3] /\ c[3] = q[4] /\ c[4] = q[5] /\ c[5] = q[1]
          /\ q[1].rank = 14 /\ q[2].rank = 5 /\ q[3].rank = 4 /\ q[4].rank = 3 /\ q[5].rank = 2
      BY <2>1, WheelTurned DEF SortedWheel
    <3>. HIDE DEF c, q
    <3>. QED
      BY <3>1
  <2>2. CASE ~SortedWheel(q)
    <3>1. c = q
      BY <2>2, WheelTurned
    <3>2. /\ \A i \in 1..5 : q[i].rank \in 2..14
          /\ \A i, j \in 1..5 : i < j => q[i].rank > q[j].rank
      BY <1>1, RanksFall
    <3>. HIDE DEF c, q
    <3>3. /\ c[1].rank \in 2..14 /\ c[2].rank \in 2..14 /\ c[3].rank \in 2..14
          /\ c[4].rank \in 2..14 /\ c[5].rank \in 2..14
          /\ c[1].rank > c[2].rank /\ c[2].rank > c[3].rank /\ c[3].rank > c[4].rank
          /\ c[4].rank > c[5].rank
      BY <3>1, <3>2
    <3>4. c[1].rank - c[5].rank = 4
      <4>1. \/ c[1].rank - c[5].rank = 4
            \/ c[5].rank = 14 /\ c[1].rank = 5
        BY DEF IsStraight, ACE, FIVE, TWO, c
      <4>. QED
        BY <3>3, <4>1
    <3>. QED
      BY <3>3, <3>4
  <2>. QED
    BY <2>1, <2>2
<1>. HIDE DEF c
<1>6. /\ Played(hand)[1] = top /\ Played(hand)[2] = top - 1
      /\ Played(hand)[3] = top - 2 /\ Played(hand)[4] = top - 3
      /\ Played(hand)[5] = IF top = 5 THEN 14 ELSE top - 4
  BY <1>3, <1>5
<1>. QED
  BY <1>1, <1>4, <1>6

\* CountsByType: two hands that are no straights and of the same type have the
\* same counts.
LEMMA CountsByType ==
    ASSUME NEW a, IsFive(a), NEW b, IsFive(b), RuleType(a) = RuleType(b),
           ~IsStraight(EvalHandCounts(a))
    PROVE  /\ EvalHandCounts(a) = Sorted(a) /\ EvalHandCounts(b) = Sorted(b)
           /\ StraightTops(RanksOf(a)) = {} /\ StraightTops(RanksOf(b)) = {}
           /\ Len(Sorted(a)) = Len(Sorted(b))
           /\ \A i \in 1..Len(Sorted(a)) : Sorted(a)[i].count = Sorted(b)[i].count
<1>1. ASSUME NEW hand, IsFive(hand), ~IsStraight(EvalHandCounts(hand))
      PROVE  /\ EvalHandCounts(hand) = Sorted(hand) /\ StraightTops(RanksOf(hand)) = {}
             /\ Len(Sorted(hand)) = 5 => RuleType(hand) \in {0, 5}
             /\ Len(Sorted(hand)) # 5 =>
                  RuleType(hand) = TypeOfCounts(Sorted(hand))
  <2>. DEFINE q == Sorted(hand)
  <2>1. ~SortedWheel(q)
    <3>. SUFFICES ASSUME SortedWheel(q) PROVE IsStraight(EvalHandCounts(hand))
      BY <1>1
    <3>1. /\ Len(EvalHandCounts(hand)) = 5
          /\ EvalHandCounts(hand)[1] = q[2] /\ EvalHandCounts(hand)[4] = q[5]
          /\ EvalHandCounts(hand)[5] = q[1]
      BY <1>1, WheelTurned
    <3>. QED
      BY <3>1 DEF IsStraight, SortedWheel, ACE, FIVE, TWO
  <2>2. EvalHandCounts(hand) = q
    BY <1>1, <2>1, WheelTurned
  <2>3. StraightTops(RanksOf(hand)) = {} /\ Runs(hand) = {} /\ (Suited(hand) <=> IsFlush(hand))
    BY <1>1, StraightRuns, RunsOfFive
  <2>4. Counted(q)
    BY <1>1, FiveCounted
  <2>5. \A n, m \in Nat : n >= m => /\ Alike(hand, n) <=> q[1].count >= n
                                    /\ AlikeTwice(hand, n, m)
                                         <=> q[1].count >= n /\ q[2].count >= m
    BY <1>1, GroupsOfFive
  <2>6. Len(q) # 5 => ~Suited(hand)
    BY <1>1, <2>3, FlushSuited
  <2>. HIDE DEF q
  <2>7. /\ Alike(hand, 4) <=> q[1].count >= 4
        /\ Alike(hand, 3) <=> q[1].count >= 3
        /\ Alike(hand, 2) <=> q[1].count >= 2
        /\ AlikeTwice(hand, 3, 2) <=> q[1].count >= 3 /\ q[2].count >= 2
        /\ AlikeTwice(hand, 2, 2) <=> q[1].count >= 2 /\ q[2].count >= 2
    BY <2>5
  <2>8. RuleType(hand) = IF q[1].count >= 4 THEN 7
                         ELSE IF q[1].count >= 3 /\ q[2].count >= 2 THEN 6
                         ELSE IF Suited(hand) THEN 5
                         ELSE IF q[1].count >= 3 THEN 3
                         ELSE IF q[1].count >= 2 /\ q[2].count >= 2 THEN 2
                         ELSE IF q[1].count >= 2 THEN 1 ELSE 0
    BY <2>3, <2>7, RuleTypeIs
  <2>9. Len(q) = 5 => RuleType(hand) \in {0, 5}
    BY <2>4, <2>8 DEF Counted
  <2>. QED
    BY <2>2, <2>3, <2>6, <2>8, <2>9 DEF q, TypeOfCounts
<1>2. ~IsStraight(EvalHandCounts(b))
  BY StraightTyped
<1>. DEFINE p == Sorted(a)
            q == Sorted(b)
<1>3. Counted(p) /\ Counted(q)
  BY FiveCounted
<1>4. /\ Len(p) = 5 => RuleType(a) \in {0, 5}
      /\ Len(p) # 5 => RuleType(a) = TypeOfCounts(p)
      /\ Len(q) = 5 => RuleType(a) \in {0, 5}
      /\ Len(q) # 5 => RuleType(a) = TypeOfCounts(q)
  BY <1>1, <1>2
<1>5. EvalHandCounts(a) = p /\ EvalHandCounts(b) = q
      /\ StraightTops(RanksOf(a)) = {} /\ StraightTops(RanksOf(b)) = {}
  BY <1>1, <1>2
<1>. HIDE DEF p, q
<1>6. /\ Len(p) = Len(q) /\ Len(p) \in 2..5
      /\ p[1].count = q[1].count /\ p[2].count = q[2].count
      /\ Len(p) >= 3 => p[3].count = q[3].count
      /\ Len(p) >= 4 => p[4].count = q[4].count
      /\ Len(p) >= 5 => p[5].count = q[5].count
  BY <1>3, <1>4 DEF Counted, TypeOfCounts
<1>7. \A i \in 1..Len(p) : p[i].count = q[i].count
  <2>1. \A i \in 1..Len(p) : i = 1 \/ i = 2 \/ (i = 3 /\ Len(p) >= 3) \/ (i = 4 /\ Len(p) >= 4)
                             \/ (i = 5 /\ Len(p) >= 5)
    <3>1. \A n \in 2..5 : \A i \in 1..n :
             i = 1 \/ i = 2 \/ (i = 3 /\ n >= 3) \/ (i = 4 /\ n >= 4) \/ (i = 5 /\ n >= 5)
      OBVIOUS
    <3>. QED
      BY <1>6, <3>1, Zenon
  <2>. QED
    BY <1>6, <2>1
<1>. QED
  BY <1>5, <1>6, <1>7 DEF p, q

\* LeadsByRules: of two hands of the same type the one that leads holds the
\* highest group that only one of them has.
LEMMA LeadsByRules ==
    ASSUME NEW a, IsFive(a), NEW b, IsFive(b), RuleType(a) = RuleType(b),
           Leads(Played(a), Played(b))
    PROVE  \E g \in Groups(a) \ Groups(b) : \A h \in Groups(b) \ Groups(a) : Above(g, h)
<1>. DEFINE x == Played(a)
            y == Played(b)
<1>1. PICK k \in 1..5 : x[k] > y[k] /\ \A j \in 1..5 : j < k => x[j] = y[j]
  BY DEF Leads
<1>2. CASE IsStraight(EvalHandCounts(a))
  <2>1. IsStraight(EvalHandCounts(b))
    BY <1>2, StraightTyped
  <2>2. PICK s \in 5..14 : /\ StraightTops(RanksOf(a)) = {s}
                           /\ x[1] = s /\ x[2] = s - 1 /\ x[3] = s - 2 /\ x[4] = s - 3
                           /\ x[5] = IF s = 5 THEN 14 ELSE s - 4
    BY <1>2, StraightPlayed
  <2>3. PICK t \in 5..14 : /\ StraightTops(RanksOf(b)) = {t}
                           /\ y[1] = t /\ y[2] = t - 1 /\ y[3] = t - 2 /\ y[4] = t - 3
                           /\ y[5] = IF t = 5 THEN 14 ELSE t - 4
    BY <2>1, StraightPlayed
  <2>4. Groups(a) = {<<1, s>>} /\ Groups(b) = {<<1, t>>}
    BY <2>2, <2>3 DEF Groups
  <2>. HIDE DEF x, y
  <2>5. s > t
    <3>1. k = 1 \/ k = 2 \/ k = 3 \/ k = 4 \/ k = 5
      OBVIOUS
    <3>2. k > 1 => s = t
      BY <1>1, <2>2, <2>3
    <3>3. s # t
      <4>. SUFFICES ASSUME s = t PROVE FALSE
        OBVIOUS
      <4>1. x[k] = y[k]
        BY <2>2, <2>3, <3>1
      <4>2. y[k] \in Int
        BY <2>3, <3>1
      <4>. QED
        BY <1>1, <4>1, <4>2
    <3>. QED
      BY <1>1, <2>2, <2>3, <3>2, <3>3
  <2>6. <<1, s>> # <<1, t>> /\ Above(<<1, s>>, <<1, t>>)
    BY <2>5 DEF Above
  <2>. QED
    BY <2>4, <2>6
<1>3. CASE ~IsStraight(EvalHandCounts(a))
  <2>. DEFINE p == Sorted(a)
              q == Sorted(b)
  <2>1. /\ EvalHandCounts(a) = p /\ EvalHandCounts(b) = q
        /\ StraightTops(RanksOf(a)) = {} /\ StraightTops(RanksOf(b)) = {}
        /\ Len(p) = Len(q)
        /\ \A i \in 1..Len(p) : p[i].count = q[i].count
    BY <1>3, CountsByType
  <2>2. PICK n \in Nat :
           /\ Len(p) = n
           /\ \A i \in 1..n : /\ p[i].rank \in RanksOf(a) /\ p[i].rank \in 2..14
                              /\ p[i].count = Copies(a, p[i].rank) /\ p[i].count \in Nat \ {0}
           /\ \A r \in RanksOf(a) : \E i \in 1..n : p[i].rank = r
           /\ \A i, j \in 1..n : i < j => ComesFirst(p[i], p[j])
           /\ \A i, j \in 1..n : i # j => p[i].rank # p[j].rank
    BY CountsSorted DEF IsFive
  <2>3. /\ \A i \in 1..n : /\ q[i].rank \in RanksOf(b) /\ q[i].rank \in 2..14
                           /\ q[i].count = Copies(b, q[i].rank) /\ q[i].count \in Nat \ {0}
        /\ \A r \in RanksOf(b) : \E i \in 1..n : q[i].rank = r
        /\ \A i, j \in 1..n : i < j => ComesFirst(q[i], q[j])
        /\ \A i, j \in 1..n : i # j => q[i].rank # q[j].rank
    <3>1. n = Len(q)
      BY <2>1, <2>2
    <3>. QED
      BY <3>1, CountsSorted DEF IsFive
  <2>4. \A i \in 1..5 : /\ x[i] = IF i <= n THEN p[i].rank ELSE 0
                        /\ y[i] = IF i <= n THEN q[i].rank ELSE 0
    BY <2>1, <2>2 DEF Played
  <2>5. Groups(a) = {<<Copies(a, r), r>> : r \in RanksOf(a)}
        /\ Groups(b) = {<<Copies(b, r), r>> : r \in RanksOf(b)}
    BY <2>1 DEF Groups
  <2>. HIDE DEF p, q, x, y
  <2>6. \A i \in 1..n : p[i].count = q[i].count
    BY <2>1, <2>2
  <2>7. \A g : g \in Groups(a) <=> \E i \in 1..n : g = <<q[i].count, p[i].rank>>
    <3>1. \A i \in 1..n : <<q[i].count, p[i].rank>> \in Groups(a)
      BY <2>2, <2>5, <2>6
    <3>2. \A r \in RanksOf(a) : \E i \in 1..n : r = p[i].rank /\ Copies(a, r) = q[i].count
      BY <2>2, <2>6
    <3>. QED
      BY <2>5, <3>1, <3>2
  <2>8. \A h : h \in Groups(b) <=> \E i \in 1..n : h = <<q[i].count, q[i].rank>>
    <3>1. \A i \in 1..n : <<q[i].count, q[i].rank>> \in Groups(b)
      BY <2>3, <2>5
    <3>2. \A r \in RanksOf(b) : \E i \in 1..n : r = q[i].rank /\ Copies(b, r) = q[i].count
      BY <2>3
    <3>. QED
      BY <2>5, <3>1, <3>2
  <2>9. k \in 1..n /\ p[k].rank > q[k].rank
    BY <1>1, <2>2, <2>4
  <2>10. \A j \in 1..n : j < k => p[j].rank = q[j].rank
    <3>. TAKE j \in 1..n
    <3>. HAVE j < k
    <3>1. j \in 1..5
      BY <1>1, <2>2
    <3>2. x[j] = y[j] /\ x[j] = p[j].rank /\ y[j] = q[j].rank
      BY <1>1, <2>4, <3>1
    <3>. QED
      BY <3>2
  <2>11. \A i \in 1..n : /\ q[i].rank \in Int /\ p[i].rank \in Int
                         /\ q[i].count \in Int /\ p[i].count \in Int
    <3>1. (\A v \in 2..14 : v \in Int) /\ (\A v \in Nat \ {0} : v \in Int)
      OBVIOUS
    <3>. QED
      BY <2>2, <2>3, <3>1, Zenon
  <2>. DEFINE g == <<q[k].count, p[k].rank>>
  <2>12. g \in Groups(a)
    BY <2>7, <2>9
  <2>13. g \notin Groups(b)
    <3>. SUFFICES ASSUME NEW j \in 1..n, q[k].count = q[j].count, p[k].rank = q[j].rank
                  PROVE  FALSE
      BY <2>8
    <3>1. j < k \/ j = k \/ k < j
      BY <2>9
    <3>2. CASE j < k
      BY <2>2, <2>9, <2>10, <3>2
    <3>3. CASE j = k
      BY <2>9, <2>11, <3>3
    <3>4. CASE k < j
      <4>1. ComesFirst(q[k], q[j])
        BY <2>3, <2>9, <3>4
      <4>. QED
        BY <2>9, <2>11, <4>1 DEF ComesFirst
    <3>. QED
      BY <3>1, <3>2, <3>3, <3>4
  <2>14. ASSUME NEW h \in Groups(b) \ Groups(a)
         PROVE  Above(g, h)
    <3>1. PICK j \in 1..n : h = <<q[j].count, q[j].rank>>
      BY <2>8
    <3>2. ~(j < k)
      <4>. SUFFICES ASSUME j < k PROVE h \in Groups(a)
        OBVIOUS
      <4>1. h = <<q[j].count, p[j].rank>>
        BY <2>10, <3>1
      <4>. QED
        BY <2>7, <4>1
    <3>3. g[1] = q[k].count /\ g[2] = p[k].rank /\ h[1] = q[j].count /\ h[2] = q[j].rank
      BY <3>1
    <3>4. CASE j = k
      <4>. HIDE DEF g
      <4>. QED
        BY <2>9, <3>3, <3>4 DEF Above
    <3>5. CASE k < j
      <4>1. ComesFirst(q[k], q[j])
        BY <2>3, <2>9, <3>5
      <4>. HIDE DEF g
      <4>. QED
        BY <2>9, <2>11, <3>3, <4>1 DEF ComesFirst, Above
    <3>. QED
      BY <2>9, <3>2, <3>4, <3>5
  <2>. HIDE DEF g
  <2>. QED
    BY <2>12, <2>13, <2>14
<1>. QED
  BY <1>2, <1>3

\* LeadsTotal: of two different rows of digits one leads.
LEMMA LeadsTotal ==
    ASSUME NEW x \in [1..5 -> Digit], NEW y \in [1..5 -> Digit], x # y
    PROVE  Leads(x, y) \/ Leads(y, x)
<1>1. PICK d \in 1..5 : x[d] # y[d]
  OBVIOUS
<1>. DEFINE D == {i \in 1..5 : x[i] # y[i]}
<1>2. \E k \in D : \A j \in 1..5 : j < k => x[j] = y[j]
  <2>1. \A i : i \in 1..5 <=> i = 1 \/ i = 2 \/ i = 3 \/ i = 4 \/ i = 5
    OBVIOUS
  <2>2. CASE x[1] # y[1]
    <3>1. 1 \in D /\ \A j \in 1..5 : j < 1 => x[j] = y[j]
      BY <2>2
    <3>. QED
      BY <3>1
  <2>3. CASE x[1] = y[1] /\ x[2] # y[2]
    <3>1. 2 \in D /\ \A j \in 1..5 : j < 2 => x[j] = y[j]
      BY <2>1, <2>3
    <3>. QED
      BY <3>1
  <2>4. CASE x[1] = y[1] /\ x[2] = y[2] /\ x[3] # y[3]
    <3>1. 3 \in D /\ \A j \in 1..5 : j < 3 => x[j] = y[j]
      BY <2>1, <2>4
    <3>. QED
      BY <3>1
  <2>5. CASE x[1] = y[1] /\ x[2] = y[2] /\ x[3] = y[3] /\ x[4] # y[4]
    <3>1. 4 \in D /\ \A j \in 1..5 : j < 4 => x[j] = y[j]
      BY <2>1, <2>5
    <3>. QED
      BY <3>1
  <2>6. CASE x[1] = y[1] /\ x[2] = y[2] /\ x[3] = y[3] /\ x[4] = y[4]
    <3>1. d = 5
      BY <1>1, <2>1, <2>6
    <3>2. 5 \in D /\ \A j \in 1..5 : j < 5 => x[j] = y[j]
      BY <1>1, <2>1, <2>6, <3>1
    <3>. QED
      BY <3>2
  <2>. QED
    BY <2>2, <2>3, <2>4, <2>5, <2>6
<1>3. PICK k \in D : \A j \in 1..5 : j < k => x[j] = y[j]
  BY <1>2
<1>4. k \in 1..5 /\ x[k] \in 0..15 /\ y[k] \in 0..15 /\ x[k] # y[k]
  BY DEF Digit
<1>5. x[k] > y[k] \/ y[k] > x[k]
  BY <1>4
<1>. QED
  BY <1>3, <1>4, <1>5 DEF Leads

\* SameGroups: hands that are no straights, play the same ranks and have the
\* same type hold the same groups.
LEMMA SameGroups ==
    ASSUME NEW a, IsFive(a), NEW b, IsFive(b), RuleType(a) = RuleType(b),
           ~IsStraight(EvalHandCounts(a)), Played(a) = Played(b)
    PROVE  Groups(a) = Groups(b)
<1>. DEFINE p == Sorted(a)
            q == Sorted(b)
<1>1. /\ EvalHandCounts(a) = p /\ EvalHandCounts(b) = q
      /\ StraightTops(RanksOf(a)) = {} /\ StraightTops(RanksOf(b)) = {}
      /\ Len(p) = Len(q)
      /\ \A i \in 1..Len(p) : p[i].count = q[i].count
  BY CountsByType
<1>2. PICK n \in Nat :
         /\ Len(p) = n
         /\ \A i \in 1..n : p[i].rank \in RanksOf(a) /\ p[i].count = Copies(a, p[i].rank)
         /\ \A r \in RanksOf(a) : \E i \in 1..n : p[i].rank = r
  BY CountsSorted DEF IsFive
<1>3. /\ \A i \in 1..n : q[i].rank \in RanksOf(b) /\ q[i].count = Copies(b, q[i].rank)
      /\ \A r \in RanksOf(b) : \E i \in 1..n : q[i].rank = r
  <2>1. n = Len(q)
    BY <1>1, <1>2
  <2>. QED
    BY <2>1, CountsSorted DEF IsFive
<1>4. n \in 2..5
  <2>1. Counted(p)
    BY FiveCounted
  <2>. HIDE DEF p
  <2>. QED
    BY <1>2, <2>1 DEF Counted
<1>5. \A i \in 1..n : p[i].rank = q[i].rank /\ p[i].count = q[i].count
  <2>1. \A i \in 1..5 : /\ Played(a)[i] = IF i <= n THEN p[i].rank ELSE 0
                        /\ Played(b)[i] = IF i <= n THEN q[i].rank ELSE 0
    BY <1>1, <1>2 DEF Played
  <2>. HIDE DEF p, q
  <2>2. \A i \in 1..n : i \in 1..5 /\ i <= n
    BY <1>4
  <2>. QED
    BY <1>1, <1>2, <2>1, <2>2
<1>6. Groups(a) = {<<Copies(a, r), r>> : r \in RanksOf(a)}
      /\ Groups(b) = {<<Copies(b, r), r>> : r \in RanksOf(b)}
  BY <1>1 DEF Groups
<1>. HIDE DEF p, q
<1>7. \A r : r \in RanksOf(a) <=> r \in RanksOf(b)
  BY <1>2, <1>3, <1>5
<1>8. \A r \in RanksOf(a) : Copies(a, r) = Copies(b, r)
  BY <1>2, <1>3, <1>5
<1>. QED
  BY <1>6, <1>7, <1>8

\* GroupsOfInts: a group is a pair of integers.
LEMMA GroupsOfInts ==
    ASSUME NEW hand, IsFive(hand), NEW g \in Groups(hand)
    PROVE  g[1] \in Int /\ g[2] \in Int
<1>1. CASE StraightTops(RanksOf(hand)) # {}
  <2>1. PICK r \in StraightTops(RanksOf(hand)) : g = <<1, r>>
    BY <1>1 DEF Groups
  <2>. QED
    BY <2>1 DEF StraightTops
<1>2. CASE StraightTops(RanksOf(hand)) = {}
  <2>1. PICK r \in RanksOf(hand) : g = <<Copies(hand, r), r>>
    BY <1>2 DEF Groups
  <2>2. RanksOf(hand) \subseteq 2..14 /\ Copies(hand, r) \in Nat
    BY CountsOfRanks DEF IsFive
  <2>. QED
    BY <2>1, <2>2
<1>. QED
  BY <1>1, <1>2

\* HandsRank: the integers of any two hands of five cards compare as the rules
\* rank the hands: determineWinners compares nothing else (eval_hand.cpp:22).
THEOREM HandsRank ==
    ASSUME NEW a, IsFive(a), NEW b, IsFive(b)
    PROVE  EvalHandValue(a) > EvalHandValue(b) <=> RuleBeats(a, b)
<1>. DEFINE x == Played(a)
            y == Played(b)
            Wins(c, d) == \E g \in Groups(c) \ Groups(d) :
                             \A h \in Groups(d) \ Groups(c) : Above(g, h)
<1>1. /\ RuleType(a) \in Nat /\ x \in [1..5 -> Digit]
      /\ RuleType(b) \in Nat /\ y \in [1..5 -> Digit]
      /\ EvalHandValue(a) = Packed(RuleType(a), x)
      /\ EvalHandValue(b) = Packed(RuleType(b), y)
  BY ValuePacked
<1>2. EvalHandValue(a) > EvalHandValue(b)
        <=> RuleType(a) > RuleType(b) \/ (RuleType(a) = RuleType(b) /\ Leads(x, y))
  <2>. HIDE DEF x, y
  <2>. QED
    BY <1>1, PackedOrder
<1>3. ASSUME RuleType(a) = RuleType(b)
      PROVE  Leads(x, y) <=> Wins(a, b)
  <2>1. Leads(x, y) => Wins(a, b)
    BY <1>3, LeadsByRules
  <2>2. Leads(y, x) => Wins(b, a)
    BY <1>3, LeadsByRules
  <2>3. x = y => Groups(a) = Groups(b)
    <3>. SUFFICES ASSUME x = y PROVE Groups(a) = Groups(b)
      OBVIOUS
    <3>1. CASE IsStraight(EvalHandCounts(a))
      <4>1. IsStraight(EvalHandCounts(b))
        BY <1>3, <3>1, StraightTyped
      <4>2. StraightTops(RanksOf(a)) = {x[1]} /\ StraightTops(RanksOf(b)) = {y[1]}
        BY <3>1, <4>1, StraightPlayed
      <4>. QED
        BY <4>2 DEF Groups
    <3>2. CASE ~IsStraight(EvalHandCounts(a))
      BY <1>3, <3>2, SameGroups
    <3>. QED
      BY <3>1, <3>2
  <2>4. ~(Wins(a, b) /\ Wins(b, a))
    <3>. SUFFICES ASSUME NEW g \in Groups(a) \ Groups(b), NEW h \in Groups(b) \ Groups(a),
                         Above(g, h), Above(h, g)
                  PROVE  FALSE
      OBVIOUS
    <3>1. g[1] \in Int /\ g[2] \in Int /\ h[1] \in Int /\ h[2] \in Int
      BY GroupsOfInts
    <3>. QED
      BY <3>1 DEF Above
  <2>5. x = y \/ Leads(x, y) \/ Leads(y, x)
    BY <1>1, LeadsTotal
  <2>6. Groups(a) = Groups(b) => ~Wins(a, b)
    OBVIOUS
  <2>. HIDE DEF Wins, x, y
  <2>. QED
    BY <2>1, <2>2, <2>3, <2>4, <2>5, <2>6
<1>. QED
  BY <1>2, <1>3 DEF RuleBeats
-----------------------------------------------------------------------------
(* The best five of seven cards.                                           *)

\* SubsetOfSize: a finite set has subsets of every smaller size.
LEMMA SubsetOfSize ==
    ASSUME NEW S, IsFiniteSet(S), NEW k \in 0..Cardinality(S)
    PROVE  \E T \in SUBSET S : IsFiniteSet(T) /\ Cardinality(T) = k
<1>. DEFINE n == Cardinality(S)
<1>1. n \in Nat /\ ExistsBijection(1..n, S)
  BY FS_CardinalityType
<1>2. PICK f : f \in Bijection(1..n, S)
  BY <1>1 DEF ExistsBijection
<1>. DEFINE T == {f[i] : i \in 1..k}
            g == [i \in 1..k |-> f[i]]
<1>3. k \in Nat /\ 1..k \subseteq 1..n
  BY <1>1
<1>4. /\ f \in [1..n -> S] /\ \A i, j \in 1..n : f[i] = f[j] => i = j
  BY <1>2 DEF Bijection, Injection, IsInjective
<1>5. T \in SUBSET S
  BY <1>3, <1>4
<1>6. g \in Surjection(1..k, T) /\ g \in Injection(1..k, T)
  BY <1>3, <1>4 DEF Surjection, Injection, IsInjective
<1>7. IsFiniteSet(1..k) /\ Cardinality(1..k) = k
  BY <1>3, FS_Interval
<1>8. IsFiniteSet(T) /\ Cardinality(T) = k
  <2>. HIDE DEF T, g
  <2>. QED
    BY <1>6, <1>7, FS_Surjection
<1>. QED
  BY <1>5, <1>8

\* SevenPlaces: the places of seven cards, and five of them.
LEMMA SevenPlaces ==
    /\ IsFiniteSet(1..7) /\ Cardinality(1..7) = 7
    /\ \A F \in FiveOfSeven : F \subseteq 1..7 /\ IsFiniteSet(F) /\ Cardinality(F) = 5
<1>1. ASSUME NEW F \in FiveOfSeven
      PROVE  F \subseteq 1..7 /\ IsFiniteSet(F) /\ Cardinality(F) = 5
  BY SmallSets, FS_Subset DEF FiveOfSeven
<1>. QED
  BY <1>1, SmallSets

\* FiveAround: up to five places are among some five.
LEMMA FiveAround ==
    ASSUME NEW W \in SUBSET (1..7), Cardinality(W) <= 5
    PROVE  \E F \in FiveOfSeven : W \subseteq F
<1>. DEFINE P == 1..7
<1>1. IsFiniteSet(P) /\ Cardinality(P) = 7
  BY SevenPlaces
<1>. HIDE DEF P
<1>2. IsFiniteSet(W) /\ Cardinality(W) \in Nat
  BY <1>1, FS_Subset, FS_CardinalityType DEF P
<1>3. IsFiniteSet(P \ W) /\ Cardinality(P \ W) = 7 - Cardinality(W)
  <2>1. P \cap W = W
    BY DEF P
  <2>2. IsFiniteSet(P \ W) /\ Cardinality(P \ W) = Cardinality(P) - Cardinality(P \cap W)
    BY <1>1, FS_Difference
  <2>. QED
    BY <1>1, <2>1, <2>2
<1>4. 5 - Cardinality(W) \in 0..Cardinality(P \ W)
  BY <1>2, <1>3
<1>5. PICK T \in SUBSET (P \ W) : IsFiniteSet(T) /\ Cardinality(T) = 5 - Cardinality(W)
  BY <1>3, <1>4, SubsetOfSize
<1>6. Cardinality(W \cup T) = 5
  <2>1. W \cap T = {}
    OBVIOUS
  <2>2. Cardinality(W \cap T) = 0
    BY <2>1, FS_EmptySet
  <2>3. Cardinality(W \cup T) = Cardinality(W) + Cardinality(T) - Cardinality(W \cap T)
    BY <1>2, <1>5, FS_Union
  <2>. QED
    BY <1>2, <1>5, <2>2, <2>3
<1>7. W \cup T \in FiveOfSeven
  BY <1>6 DEF FiveOfSeven, P
<1>. QED
  BY <1>7

IsSeven(cards) == IsDealt(cards) /\ DOMAIN cards = 1..7

\* The cards at some of the places.
Part(cards, F) == [i \in F |-> cards[i]]

\* PartOfSeven: any five of the seven are a hand.
LEMMA PartOfSeven ==
    ASSUME NEW cards, IsSeven(cards), NEW F \in FiveOfSeven
    PROVE  /\ IsFive(Part(cards, F)) /\ DOMAIN Part(cards, F) = F
           /\ \A i \in F : Part(cards, F)[i] = cards[i]
           /\ RanksOf(Part(cards, F)) = {cards[i].rank : i \in F}
           /\ \A r : Copies(Part(cards, F), r) = Cardinality({i \in F : cards[i].rank = r})
           /\ \A s : OfSuit(Part(cards, F), s)
                       = {cards[i].rank : i \in {j \in F : cards[j].suit = s}}
<1>. DEFINE h == Part(cards, F)
<1>1. DOMAIN h = F /\ \A i \in F : h[i] = cards[i]
  BY DEF Part
<1>2. /\ F \subseteq 1..7 /\ IsFiniteSet(F) /\ Cardinality(F) = 5
  BY SevenPlaces
<1>3. /\ \A i \in 1..7 : cards[i] \in Card
      /\ \A i, j \in 1..7 : cards[i] = cards[j] => i = j
  BY DEF IsSeven, IsDealt
<1>4. h \in [F -> Card]
  BY <1>2, <1>3 DEF Part
<1>. HIDE DEF h
<1>5. IsFive(h)
  BY <1>1, <1>2, <1>3, <1>4 DEF IsFive, IsDealt
<1>6. RanksOf(h) = {cards[i].rank : i \in F}
  BY <1>1 DEF RanksOf
<1>7. \A r : Copies(h, r) = Cardinality({i \in F : cards[i].rank = r})
  <2>. TAKE r
  <2>1. {i \in DOMAIN h : h[i].rank = r} = {i \in F : cards[i].rank = r}
    BY <1>1
  <2>. QED
    BY <2>1 DEF Copies
<1>8. \A s : OfSuit(h, s) = {cards[i].rank : i \in {j \in F : cards[j].suit = s}}
  <2>. TAKE s
  <2>1. {j \in DOMAIN h : h[j].suit = s} = {j \in F : cards[j].suit = s}
    BY <1>1
  <2>2. \A i \in {j \in F : cards[j].suit = s} : h[i].rank = cards[i].rank
    BY <1>1
  <2>. QED
    BY <2>1, <2>2 DEF OfSuit
<1>. QED
  BY <1>1, <1>5, <1>6, <1>7, <1>8 DEF h

\* The types that the rules look for, by their numbers.
Makes(cards, type) ==
    \/ type = 9 /\ 14 \in Runs(cards)
    \/ type = 8 /\ Runs(cards) # {}
    \/ type = 7 /\ Alike(cards, 4)
    \/ type = 6 /\ AlikeTwice(cards, 3, 2)
    \/ type = 5 /\ Suited(cards)
    \/ type = 4 /\ StraightTops(RanksOf(cards)) # {}
    \/ type = 3 /\ Alike(cards, 3)
    \/ type = 2 /\ AlikeTwice(cards, 2, 2)
    \/ type = 1 /\ Alike(cards, 2)
    \/ type = 0

\* RuleIsBest: RuleType is the best of them.
LEMMA RuleIsBest ==
    ASSUME NEW cards
    PROVE  /\ RuleType(cards) \in 0..9 /\ Makes(cards, RuleType(cards))
           /\ \A type \in 0..9 : Makes(cards, type) => type <= RuleType(cards)
<1>1. RuleType(cards) \in 0..9
  BY RuleTypeIs
<1>2. Makes(cards, RuleType(cards))
  BY RuleTypeIs DEF Makes
<1>3. 14 \in Runs(cards) => Runs(cards) # {}
  OBVIOUS
<1>4. \A type \in 0..9 : Makes(cards, type) => type <= RuleType(cards)
  BY <1>3, RuleTypeIs DEF Makes
<1>. QED
  BY <1>1, <1>2, <1>4

\* PartMakesLess: seven cards make all that five of them make.
LEMMA PartMakesLess ==
    ASSUME NEW cards, IsSeven(cards), NEW F \in FiveOfSeven, NEW type,
           Makes(Part(cards, F), type)
    PROVE  Makes(cards, type)
<1>. DEFINE h == Part(cards, F)
<1>1. F \subseteq DOMAIN cards /\ DOMAIN cards = 1..7 /\ IsDealt(cards)
  BY SevenPlaces DEF IsSeven
<1>2. RanksOf(h) \subseteq RanksOf(cards)
  BY <1>1, PartOfSeven DEF RanksOf
<1>3. \A s : OfSuit(h, s) \subseteq OfSuit(cards, s)
  <2>. TAKE s
  <2>1. OfSuit(h, s) = {cards[i].rank : i \in {j \in F : cards[j].suit = s}}
    BY PartOfSeven
  <2>. QED
    BY <1>1, <2>1 DEF OfSuit
<1>4. \A r : Copies(h, r) \in Nat /\ Copies(cards, r) \in Nat /\ Copies(h, r) <= Copies(cards, r)
  <2>. TAKE r
  <2>1. Copies(h, r) = Cardinality({i \in F : cards[i].rank = r})
    BY PartOfSeven
  <2>2. {i \in F : cards[i].rank = r} \in SUBSET {i \in DOMAIN cards : cards[i].rank = r}
    BY <1>1
  <2>3. IsFiniteSet({i \in DOMAIN cards : cards[i].rank = r})
    BY <1>1, FS_Subset DEF IsDealt
  <2>. QED
    BY <2>1, <2>2, <2>3, FS_Subset, FS_CardinalityType DEF Copies
<1>5. \A R, S : R \subseteq S => StraightTops(R) \subseteq StraightTops(S)
  BY DEF StraightTops
<1>6. Runs(h) \subseteq Runs(cards)
  BY <1>3, <1>5 DEF Runs
<1>7. StraightTops(RanksOf(h)) # {} => StraightTops(RanksOf(cards)) # {}
  BY <1>2, <1>5
<1>8. Suited(h) => Suited(cards)
  <2>1. \A s : Cardinality(OfSuit(h, s)) \in Nat /\ Cardinality(OfSuit(cards, s)) \in Nat
               /\ Cardinality(OfSuit(h, s)) <= Cardinality(OfSuit(cards, s))
    BY <1>1, <1>3, OfSuitSized, FS_Subset, FS_CardinalityType
  <2>2. \A s : Cardinality(OfSuit(h, s)) >= 5 => Cardinality(OfSuit(cards, s)) >= 5
    BY <2>1
  <2>. QED
    BY <2>2 DEF Suited
<1>. HIDE DEF h
<1>9. \A n \in Nat : Alike(h, n) => Alike(cards, n)
  BY <1>2, <1>4 DEF Alike
<1>10. \A n, m \in Nat : AlikeTwice(h, n, m) => AlikeTwice(cards, n, m)
  <2>1. \A n \in Nat, r \in RanksOf(h) : Copies(h, r) >= n => r \in RanksOf(cards) /\ Copies(cards, r) >= n
    BY <1>2, <1>4
  <2>. QED
    BY <2>1 DEF AlikeTwice
<1>11. /\ Alike(h, 4) => Alike(cards, 4)
       /\ Alike(h, 3) => Alike(cards, 3)
       /\ Alike(h, 2) => Alike(cards, 2)
       /\ AlikeTwice(h, 3, 2) => AlikeTwice(cards, 3, 2)
       /\ AlikeTwice(h, 2, 2) => AlikeTwice(cards, 2, 2)
  BY <1>9, <1>10
<1>12. /\ Runs(h) # {} => Runs(cards) # {}
       /\ 14 \in Runs(h) => 14 \in Runs(cards)
  BY <1>6
<1>. QED
  BY <1>7, <1>8, <1>11, <1>12 DEF Makes, h

\* AlikeKept: places of one rank among five are as many copies there.
LEMMA AlikeKept ==
    ASSUME NEW cards, IsSeven(cards), NEW F \in FiveOfSeven, NEW W \in SUBSET F, NEW r,
           W # {}, \A i \in W : cards[i].rank = r
    PROVE  /\ r \in RanksOf(Part(cards, F))
           /\ Copies(Part(cards, F), r) \in Nat /\ Cardinality(W) \in Nat
           /\ Copies(Part(cards, F), r) >= Cardinality(W)
<1>1. r \in RanksOf(Part(cards, F))
  BY PartOfSeven
<1>2. Copies(Part(cards, F), r) = Cardinality({i \in F : cards[i].rank = r})
  BY PartOfSeven
<1>. DEFINE I == {i \in F : cards[i].rank = r}
<1>3. IsFiniteSet(I) /\ W \in SUBSET I
  BY SevenPlaces, FS_Subset
<1>4. /\ Cardinality(I) \in Nat /\ Cardinality(W) \in Nat
      /\ Cardinality(I) >= Cardinality(W)
  <2>. HIDE DEF I
  <2>. QED
    BY <1>3, FS_Subset, FS_CardinalityType
<1>. QED
  BY <1>1, <1>2, <1>4

\* PlacesAlike: of the places of a rank there are n, when it has n copies.
LEMMA PlacesAlike ==
    ASSUME NEW cards, IsSeven(cards), NEW r, NEW n \in Nat \ {0}, Copies(cards, r) >= n
    PROVE  \E W \in SUBSET (1..7) : /\ W # {} /\ IsFiniteSet(W) /\ Cardinality(W) = n
                                    /\ \A i \in W : cards[i].rank = r
<1>. DEFINE I == {i \in 1..7 : cards[i].rank = r}
<1>1. IsFiniteSet(I)
  BY SevenPlaces, FS_Subset
<1>2. Cardinality(I) \in Nat /\ Cardinality(I) >= n
  BY <1>1, FS_CardinalityType DEF Copies, IsSeven
<1>3. n \in 0..Cardinality(I)
  BY <1>2
<1>4. PICK W \in SUBSET I : IsFiniteSet(W) /\ Cardinality(W) = n
  <2>. HIDE DEF I
  <2>. QED
    BY <1>1, <1>3, SubsetOfSize
<1>5. W # {}
  BY <1>4, FS_EmptySet
<1>. QED
  BY <1>4, <1>5

\* RunKept: a run at some of the places is still one at some five of them.
LEMMA RunKept ==
    ASSUME NEW cards, NEW I \in SUBSET (1..7),
           NEW top \in StraightTops({cards[i].rank : i \in I})
    PROVE  \E F \in FiveOfSeven : top \in StraightTops({cards[i].rank : i \in I \cap F})
<1>. DEFINE Step(k) == IF top - k = 1 THEN 14 ELSE top - k
<1>1. top \in 5..14 /\ \A k \in 0..4 : Step(k) \in {cards[i].rank : i \in I}
  BY DEF StraightTops
<1>. DEFINE at == [k \in 0..4 |-> CHOOSE i \in I : cards[i].rank = Step(k)]
<1>2. \A k \in 0..4 : at[k] \in I /\ cards[at[k]].rank = Step(k)
  <2>. HIDE DEF Step
  <2>1. \A k \in 0..4 : \E i \in I : cards[i].rank = Step(k)
    BY <1>1
  <2>. QED
    BY <2>1
<1>. HIDE DEF Step
<1>. DEFINE W == {at[k] : k \in 0..4}
<1>3. IsFiniteSet(0..4) /\ Cardinality(0..4) = 5
  BY SmallSets
<1>4. at \in Surjection(0..4, W)
  BY DEF Surjection
<1>5. Cardinality(W) <= 5
  <2>. HIDE DEF W, at
  <2>. QED
    BY <1>3, <1>4, FS_Surjection
<1>6. W \in SUBSET (1..7)
  BY <1>2
<1>7. PICK F \in FiveOfSeven : W \subseteq F
  <2>. HIDE DEF W
  <2>. QED
    BY <1>5, <1>6, FiveAround
<1>8. \A k \in 0..4 : Step(k) \in {cards[i].rank : i \in I \cap F}
  BY <1>2, <1>7
<1>9. top \in StraightTops({cards[i].rank : i \in I \cap F})
  BY <1>1, <1>8 DEF StraightTops, Step
<1>. QED
  BY <1>9

\* FiveMakeAll: what seven cards make some five of them make.
LEMMA FiveMakeAll ==
    ASSUME NEW cards, IsSeven(cards), NEW type \in 0..9, Makes(cards, type)
    PROVE  \E F \in FiveOfSeven : Makes(Part(cards, F), type)
<1>1. DOMAIN cards = 1..7 /\ IsDealt(cards)
  BY DEF IsSeven
<1>2. ASSUME NEW n \in 1..4, Alike(cards, n)
      PROVE  \E F \in FiveOfSeven : Alike(Part(cards, F), n)
  <2>1. PICK r \in RanksOf(cards) : Copies(cards, r) >= n
    BY <1>2 DEF Alike
  <2>2. PICK W \in SUBSET (1..7) : /\ W # {} /\ IsFiniteSet(W) /\ Cardinality(W) = n
                                   /\ \A i \in W : cards[i].rank = r
    BY <2>1, PlacesAlike
  <2>3. PICK F \in FiveOfSeven : W \subseteq F
    BY <2>2, FiveAround
  <2>4. r \in RanksOf(Part(cards, F)) /\ Copies(Part(cards, F), r) >= n
    BY <2>2, <2>3, AlikeKept
  <2>. QED
    BY <2>4 DEF Alike
<1>3. ASSUME NEW n \in 2..3, AlikeTwice(cards, n, 2)
      PROVE  \E F \in FiveOfSeven : AlikeTwice(Part(cards, F), n, 2)
  <2>1. PICK r \in RanksOf(cards), q \in RanksOf(cards) :
           r # q /\ Copies(cards, r) >= n /\ Copies(cards, q) >= 2
    BY <1>3 DEF AlikeTwice
  <2>2. PICK V \in SUBSET (1..7) : /\ V # {} /\ IsFiniteSet(V) /\ Cardinality(V) = n
                                   /\ \A i \in V : cards[i].rank = r
    BY <2>1, PlacesAlike
  <2>3. PICK W \in SUBSET (1..7) : /\ W # {} /\ IsFiniteSet(W) /\ Cardinality(W) = 2
                                   /\ \A i \in W : cards[i].rank = q
    BY <2>1, PlacesAlike
  <2>4. Cardinality(V \cup W) <= 5
    <3>1. Cardinality(V \cup W) = n + 2 - Cardinality(V \cap W)
      BY <2>2, <2>3, FS_Union
    <3>2. Cardinality(V \cap W) \in Nat
      <4>1. IsFiniteSet(V \cap W)
        BY <2>2, FS_Subset
      <4>. QED
        BY <4>1, FS_CardinalityType
    <3>. QED
      BY <3>1, <3>2
  <2>5. PICK F \in FiveOfSeven : V \cup W \subseteq F
    BY <2>4, FiveAround
  <2>6. r \in RanksOf(Part(cards, F)) /\ Copies(Part(cards, F), r) >= n
    BY <2>2, <2>5, AlikeKept
  <2>7. q \in RanksOf(Part(cards, F)) /\ Copies(Part(cards, F), q) >= 2
    BY <2>3, <2>5, AlikeKept
  <2>. QED
    BY <2>1, <2>6, <2>7 DEF AlikeTwice
<1>4. ASSUME Suited(cards)
      PROVE  \E F \in FiveOfSeven : Suited(Part(cards, F))
  <2>1. PICK s \in Suits : Cardinality(OfSuit(cards, s)) >= 5
    BY <1>4 DEF Suited
  <2>. DEFINE I == {i \in 1..7 : cards[i].suit = s}
  <2>2. IsFiniteSet(I) /\ Cardinality(I) \in Nat /\ Cardinality(I) >= 5
    <3>1. IsFiniteSet(I)
      BY SevenPlaces, FS_Subset
    <3>. QED
      BY <1>1, <2>1, <3>1, OfSuitSized, FS_CardinalityType
  <2>3. 5 \in 0..Cardinality(I)
    BY <2>2
  <2>4. PICK F \in SUBSET I : IsFiniteSet(F) /\ Cardinality(F) = 5
    <3>. HIDE DEF I
    <3>. QED
      BY <2>2, <2>3, SubsetOfSize
  <2>5. F \in FiveOfSeven
    BY <2>4 DEF FiveOfSeven
  <2>. DEFINE h == Part(cards, F)
  <2>6. IsDealt(h) /\ {i \in DOMAIN h : h[i].suit = s} = F
    BY <2>4, <2>5, PartOfSeven DEF IsFive
  <2>. HIDE DEF h
  <2>7. Cardinality(OfSuit(h, s)) = 5
    BY <2>4, <2>6, OfSuitSized
  <2>. QED
    BY <2>5, <2>7 DEF Suited, h
<1>5. ASSUME NEW top \in StraightTops(RanksOf(cards))
      PROVE  \E F \in FiveOfSeven : top \in StraightTops(RanksOf(Part(cards, F)))
  <2>1. RanksOf(cards) = {cards[i].rank : i \in 1..7}
    BY <1>1 DEF RanksOf
  <2>2. PICK F \in FiveOfSeven : top \in StraightTops({cards[i].rank : i \in (1..7) \cap F})
    BY <2>1, RunKept
  <2>3. (1..7) \cap F = F
    BY SevenPlaces
  <2>4. RanksOf(Part(cards, F)) = {cards[i].rank : i \in (1..7) \cap F}
    BY <2>3, PartOfSeven
  <2>. QED
    BY <2>2, <2>4
<1>6. ASSUME NEW top \in Runs(cards)
      PROVE  \E F \in FiveOfSeven : top \in Runs(Part(cards, F))
  <2>1. PICK s \in Suits : top \in StraightTops(OfSuit(cards, s))
    BY DEF Runs
  <2>. DEFINE I == {i \in 1..7 : cards[i].suit = s}
  <2>2. OfSuit(cards, s) = {cards[i].rank : i \in I}
    BY <1>1 DEF OfSuit
  <2>3. PICK F \in FiveOfSeven : top \in StraightTops({cards[i].rank : i \in I \cap F})
    BY <2>1, <2>2, RunKept
  <2>4. I \cap F = {j \in F : cards[j].suit = s}
    BY SevenPlaces
  <2>5. OfSuit(Part(cards, F), s) = {cards[i].rank : i \in I \cap F}
    BY <2>4, PartOfSeven
  <2>. QED
    BY <2>3, <2>5 DEF Runs
<1>7. \E F \in FiveOfSeven : TRUE
  <2>1. Cardinality({}) <= 5
    BY FS_EmptySet
  <2>. QED
    BY <2>1, FiveAround
<1>. QED
  BY <1>2, <1>3, <1>4, <1>5, <1>6, <1>7 DEF Makes

\* BestOfSeven: of any seven cards eval_hand, trying every five, finds the best
\* type that the rules find in all seven (eval_hand.cpp:124).
THEOREM BestOfSeven ==
    ASSUME NEW cards, IsSeven(cards)
    PROVE  TypeOfValue(EvalHand(cards)) = RuleType(cards)
<1>. DEFINE V == {EvalHandValue([i \in F |-> cards[i]]) : F \in FiveOfSeven}
<1>1. V = {EvalHandValue(Part(cards, F)) : F \in FiveOfSeven}
  BY DEF Part
<1>2. EvalHand(cards) = Max(V)
  BY DEF EvalHand
<1>. HIDE DEF V
<1>3. ASSUME NEW F \in FiveOfSeven
      PROVE  /\ RuleType(Part(cards, F)) \in Nat /\ Played(Part(cards, F)) \in [1..5 -> Digit]
             /\ EvalHandValue(Part(cards, F))
                  = Packed(RuleType(Part(cards, F)), Played(Part(cards, F)))
             /\ EvalHandValue(Part(cards, F)) \in Nat
             /\ TypeOfValue(EvalHandValue(Part(cards, F))) = RuleType(Part(cards, F))
             /\ RuleType(Part(cards, F)) <= RuleType(cards)
  <2>1. /\ RuleType(Part(cards, F)) \in Nat /\ Played(Part(cards, F)) \in [1..5 -> Digit]
        /\ EvalHandValue(Part(cards, F))
             = Packed(RuleType(Part(cards, F)), Played(Part(cards, F)))
    BY PartOfSeven, ValuePacked
  <2>2. /\ EvalHandValue(Part(cards, F)) \in Nat
        /\ TypeOfValue(EvalHandValue(Part(cards, F))) = RuleType(Part(cards, F))
    BY <2>1, TypeUnpacked
  <2>3. RuleType(Part(cards, F)) <= RuleType(cards)
    <3>1. RuleType(Part(cards, F)) \in 0..9 /\ Makes(Part(cards, F), RuleType(Part(cards, F)))
      BY RuleIsBest
    <3>2. Makes(cards, RuleType(Part(cards, F)))
      BY <3>1, PartMakesLess
    <3>. QED
      BY <3>1, <3>2, RuleIsBest
  <2>. QED
    BY <2>1, <2>2, <2>3
<1>4. PICK G \in FiveOfSeven : RuleType(Part(cards, G)) >= RuleType(cards)
  <2>1. RuleType(cards) \in 0..9 /\ Makes(cards, RuleType(cards))
    BY RuleIsBest
  <2>2. PICK G \in FiveOfSeven : Makes(Part(cards, G), RuleType(cards))
    BY <2>1, FiveMakeAll
  <2>3. RuleType(cards) <= RuleType(Part(cards, G))
    BY <2>1, <2>2, RuleIsBest
  <2>4. RuleType(Part(cards, G)) \in 0..9
    BY RuleIsBest
  <2>. QED
    BY <2>1, <2>3, <2>4
<1>5. IsFiniteSet(FiveOfSeven)
  <2>1. IsFiniteSet(SUBSET (1..7))
    BY SevenPlaces, FS_SUBSET
  <2>2. FiveOfSeven \in SUBSET (SUBSET (1..7))
    BY DEF FiveOfSeven
  <2>. QED
    BY <2>1, <2>2, FS_Subset
<1>6. V \in SUBSET Nat /\ IsFiniteSet(V) /\ V # {}
  <2>1. IsFiniteSet(V)
    <3>. DEFINE f == [F \in FiveOfSeven |-> EvalHandValue(Part(cards, F))]
    <3>1. f \in Surjection(FiveOfSeven, V)
      BY <1>1 DEF Surjection
    <3>. HIDE DEF f
    <3>. QED
      BY <1>5, <3>1, FS_Surjection
  <2>. QED
    BY <1>1, <1>3, <1>4, <2>1
<1>7. Max(V) \in V /\ \A v \in V : v <= Max(V)
  BY <1>6, GreatestNatural
<1>8. PICK F \in FiveOfSeven : Max(V) = EvalHandValue(Part(cards, F))
  BY <1>1, <1>7
<1>9. RuleType(Part(cards, F)) >= RuleType(Part(cards, G))
  <2>. DEFINE s == RuleType(Part(cards, G))
              t == RuleType(Part(cards, F))
              x == Played(Part(cards, G))
              y == Played(Part(cards, F))
  <2>1. /\ s \in Nat /\ t \in Nat /\ x \in [1..5 -> Digit] /\ y \in [1..5 -> Digit]
        /\ EvalHandValue(Part(cards, G)) = Packed(s, x)
        /\ EvalHandValue(Part(cards, F)) = Packed(t, y)
        /\ Packed(s, x) \in Nat /\ Packed(t, y) \in Nat
    BY <1>3
  <2>2. Packed(s, x) <= Packed(t, y)
    BY <1>1, <1>7, <1>8, <2>1
  <2>. HIDE DEF s, t, x, y
  <2>3. ~(s > t)
    BY <2>1, <2>2, PackedOrder
  <2>4. t >= s
    BY <2>1, <2>3
  <2>. QED
    BY <2>4 DEF s, t
<1>10. RuleType(Part(cards, F)) = RuleType(cards)
  <2>1. RuleType(cards) \in 0..9
    BY RuleIsBest
  <2>. QED
    BY <1>3, <1>4, <1>9, <2>1
<1>. QED
  BY <1>2, <1>3, <1>8, <1>10
-----------------------------------------------------------------------------
(* The states of MCAlgo.                                                   *)

\* CardsFinite: there are finitely many cards.
LEMMA CardsFinite == IsFiniteSet(Card)
<1>. DEFINE Pairs == (TWO..ACE) \X Suits
            f == [p \in Pairs |-> [rank |-> p[1], suit |-> p[2]]]
<1>1. IsFiniteSet(Pairs)
  BY SmallSets, FS_Product
<1>2. f \in Surjection(Pairs, Card)
  <2>1. \A p \in Pairs : f[p] \in Card
    BY DEF Card
  <2>2. ASSUME NEW c \in Card PROVE \E p \in Pairs : f[p] = c
    <3>1. /\ <<c.rank, c.suit>> \in Pairs
          /\ f[<<c.rank, c.suit>>] = [rank |-> c.rank, suit |-> c.suit]
      BY DEF Card
    <3>2. c = [rank |-> c.rank, suit |-> c.suit]
      BY DEF Card
    <3>. QED
      BY <3>1, <3>2
  <2>. QED
    BY <2>1, <2>2 DEF Surjection
<1>. HIDE DEF Pairs, f
<1>. QED
  BY <1>1, <1>2, FS_Surjection

\* DealtSeven: seven cards of a deck in an order are dealt.
LEMMA DealtSeven ==
    ASSUME NEW cards \in SUBSET Card, IsFiniteSet(cards), Cardinality(cards) = 7
    PROVE  IsSeven(Dealt(cards))
<1>. DEFINE R == {p \in cards \X cards : Higher(p[1], p[2])}
            q == Dealt(cards)
<1>1. \A x, y \in cards : <<x, y>> \in R <=> Higher(x, y)
  OBVIOUS
<1>2. \A x \in cards : x \in Card /\ x.rank \in Int /\ x.suit \in Int
  BY DEF Card, TWO, ACE, Suits
<1>3. IsStrictOrder(cards, R)
  <2>1. \A x \in cards : ~Higher(x, x)
    BY <1>2 DEF Higher
  <2>2. ASSUME NEW x \in cards, NEW y \in cards, NEW z \in cards, Higher(x, y), Higher(y, z)
        PROVE  Higher(x, z)
    <3>1. /\ x.rank \in Int /\ y.rank \in Int /\ z.rank \in Int
          /\ x.suit \in Int /\ y.suit \in Int /\ z.suit \in Int
      BY <1>2
    <3>. QED
      BY <2>2, <3>1 DEF Higher
  <2>3. ASSUME NEW x \in cards, NEW y \in cards, x # y
        PROVE  Higher(x, y) \/ Higher(y, x)
    <3>1. x.rank # y.rank \/ x.suit # y.suit
      BY <1>2, <2>3 DEF Card
    <3>2. x.rank \in Int /\ y.rank \in Int /\ x.suit \in Int /\ y.suit \in Int
      BY <1>2
    <3>. QED
      BY <3>1, <3>2 DEF Higher
  <2>. HIDE DEF R
  <2>. QED
    BY <1>1, <2>1, <2>2, <2>3 DEF IsStrictOrder
<1>4. q = [i \in 1..Cardinality(cards) |->
             CHOOSE x \in cards : Cardinality(Below(cards, R, x)) = i - 1]
  <2>. DEFINE G(i) == CHOOSE x \in cards : Cardinality({y \in cards : Higher(y, x)}) = i - 1
              H(i) == CHOOSE x \in cards : Cardinality(Below(cards, R, x)) = i - 1
  <2>1. \A x \in cards : {y \in cards : Higher(y, x)} = Below(cards, R, x)
    BY DEF Below
  <2>2. \A i : G(i) = H(i)
    <3>. HIDE DEF R
    <3>. QED
      BY <2>1
  <2>3. q = [i \in 1..Cardinality(cards) |-> G(i)]
    BY DEF Dealt, InOrder
  <2>. HIDE DEF G, H
  <2>4. q = [i \in 1..Cardinality(cards) |-> H(i)]
    <3>. HIDE DEF q
    <3>. QED
      BY <2>2, <2>3
  <2>. QED
    BY <2>4 DEF H
<1>. HIDE DEF q, R
<1>5. IsInOrder(q, cards, R)
  BY <1>3, <1>4, OrderFound
<1>6. /\ q \in [1..7 -> cards]
      /\ \A i, j \in 1..7 : i < j => <<q[i], q[j]>> \in R
  BY <1>5 DEF IsInOrder
<1>7. \A i, j \in 1..7 : q[i] = q[j] => i = j
  <2>1. \A i, j \in 1..7 : i < j => q[i] # q[j]
    BY <1>3, <1>6 DEF IsStrictOrder
  <2>2. \A i, j \in 1..7 : i = j \/ i < j \/ j < i
    OBVIOUS
  <2>. QED
    BY <2>1, <2>2
<1>8. q \in [1..7 -> Card] /\ DOMAIN q = 1..7
  BY <1>6
<1>. QED
  BY <1>7, <1>8, SevenPlaces DEF IsSeven, IsDealt, q

\* HandsAreFive: five cards of one suit, or of the suits that Hands gives them.
LEMMA HandsAreFive ==
    ASSUME NEW ranks \in SUBSET (TWO..ACE), NEW hand \in Hands(ranks)
    PROVE  IsFive(hand)
<1>. DEFINE offsuit == <<1, 2, 3, 4, 1>>
<1>1. IsFiniteSet(1..5) /\ Cardinality(1..5) = 5
  BY SmallSets
<1>2. PICK r \in [1..5 -> ranks] :
         /\ r[1] # r[5]
         /\ \/ hand = [i \in 1..5 |-> [rank |-> r[i], suit |-> offsuit[i]]]
            \/ /\ hand = [i \in 1..5 |-> [rank |-> r[i], suit |-> 1]]
               /\ IsInjective(r)
  BY DEF Hands
<1>3. DOMAIN hand = 1..5
  BY <1>2
<1>4. CASE hand = [i \in 1..5 |-> [rank |-> r[i], suit |-> offsuit[i]]]
  <2>1. \A i : i \in 1..5 <=> i = 1 \/ i = 2 \/ i = 3 \/ i = 4 \/ i = 5
    OBVIOUS
  <2>2. /\ offsuit[1] = 1 /\ offsuit[2] = 2 /\ offsuit[3] = 3 /\ offsuit[4] = 4 /\ offsuit[5] = 1
    OBVIOUS
  <2>. HIDE DEF offsuit
  <2>3. \A i \in 1..5 : offsuit[i] \in 1..4
    BY <2>1, <2>2
  <2>4. hand \in [1..5 -> Card]
    BY <1>4, <2>3 DEF Card, Suits
  <2>5. \A i \in 1..5 : hand[i].rank = r[i] /\ hand[i].suit = offsuit[i]
    BY <1>4
  <2>6. \A i, j \in 1..5 : hand[i] = hand[j] => i = j
    <3>1. ASSUME NEW i \in 1..5, NEW j \in 1..5, r[i] = r[j], offsuit[i] = offsuit[j]
          PROVE  i = j
      <4>1. i = j \/ (i = 1 /\ j = 5) \/ (i = 5 /\ j = 1)
        BY <2>1, <2>2, <3>1
      <4>. QED
        BY <1>2, <3>1, <4>1
    <3>. QED
      BY <2>5, <3>1
  <2>. QED
    BY <1>1, <1>3, <2>4, <2>6 DEF IsFive, IsDealt
<1>5. CASE /\ hand = [i \in 1..5 |-> [rank |-> r[i], suit |-> 1]]
           /\ IsInjective(r)
  <2>1. hand \in [1..5 -> Card]
    <3>1. 1 \in Suits
      BY DEF Suits
    <3>2. \A i \in 1..5 : [rank |-> r[i], suit |-> 1] \in Card
      <4>1. \A i \in 1..5 : r[i] \in TWO..ACE
        BY <1>2
      <4>. QED
        BY <3>1, <4>1 DEF Card
    <3>. QED
      BY <1>5, <3>2
  <2>2. \A i \in 1..5 : hand[i].rank = r[i]
    BY <1>5
  <2>3. \A i, j \in 1..5 : r[i] = r[j] => i = j
    BY <1>5 DEF IsInjective
  <2>4. \A i, j \in 1..5 : hand[i] = hand[j] => i = j
    BY <2>2, <2>3
  <2>. QED
    BY <1>1, <1>3, <2>1, <2>4 DEF IsFive, IsDealt
<1>. QED
  BY <1>2, <1>4, <1>5

\* The hands that are compared have five cards, and seven are dealt.
CardsInv ==
    /\ first # NoCards => IsFive(first) /\ IsFive(second)
    /\ seven # NoCards => IsSeven(seven)

\* CardsInvariant: every hand is of different cards.
THEOREM CardsInvariant == AlgoSpec => []CardsInv
<1>1. AlgoInit => CardsInv
  <2>1. NoEval => CardsInv
    BY DEF NoEval, CardsInv
  <2>2. ASSUME NEW ranks \in RankSets, first \in Hands(ranks), second \in Hands(ranks),
               seven = NoCards
        PROVE  CardsInv
    <3>1. ranks \in SUBSET (TWO..ACE)
      BY RankSetsAssumption
    <3>. QED
      BY <2>2, <3>1, HandsAreFive DEF CardsInv
  <2>3. ASSUME NEW cards \in kSubset(7, SevenDeck), first = NoCards, seven = Dealt(cards)
        PROVE  CardsInv
    <3>1. cards \in SUBSET Card /\ IsFiniteSet(cards) /\ Cardinality(cards) = 7
      BY SevenDeckAssumption, CardsFinite, FS_Subset DEF kSubset
    <3>. QED
      BY <2>3, <3>1, DealtSeven DEF CardsInv
  <2>. QED
    BY <2>1, <2>2, <2>3 DEF AlgoInit, EvalInit
<1>2. CardsInv /\ [UNCHANGED algoVars]_algoVars => CardsInv'
  BY DEF CardsInv, algoVars, evalVars
<1>. QED
  BY <1>1, <1>2, PTL DEF AlgoSpec

\* HandsAlwaysRank: whatever two hands of five cards are compared, the integers
\* rank them as the rules do.
THEOREM HandsAlwaysRank == AlgoSpec => []HandsRankByTheRules
<1>1. CardsInv => HandsRankByTheRules
  <2>. SUFFICES ASSUME CardsInv, first # NoCards
                PROVE  /\ EvalHandValue(first) > EvalHandValue(second) <=> RuleBeats(first, second)
                       /\ EvalHandValue(first) < EvalHandValue(second) <=> RuleBeats(second, first)
    BY DEF HandsRankByTheRules
  <2>1. IsFive(first) /\ IsFive(second)
    BY DEF CardsInv
  <2>2. EvalHandValue(first) < EvalHandValue(second) <=> EvalHandValue(second) > EvalHandValue(first)
    OBVIOUS
  <2>. QED
    BY <2>1, <2>2, HandsRank
<1>. QED
  BY <1>1, CardsInvariant, PTL

\* BestFiveAlwaysFound: whatever seven cards are dealt, eval_hand gives them
\* the best type they hold.
THEOREM BestFiveAlwaysFound == AlgoSpec => []BestFiveFound
<1>1. CardsInv => BestFiveFound
  BY BestOfSeven DEF CardsInv, BestFiveFound
<1>. QED
  BY <1>1, CardsInvariant, PTL
=============================================================================
