------------------------------ MODULE HandEval -----------------------------
(***************************************************************************)
(* src/core/algo/eval_hand.cpp and HandValue::build: the value of the best *)
(* five of seven cards, packed into one integer, a nibble for the type of  *)
(* hand and one for each rank.  A hand is a function to cards; a rank is   *)
(* the number of its enumerator, the ace 14.  A hand of one rank only, as  *)
(* undealt cards make it, has no value: the code reads past its counts.    *)
(***************************************************************************)
EXTENDS Integers, FiniteSets, SequencesExt

ACE  == 14
FIVE == 5
TWO  == 2

HandType ==
    [HIGH_CARD |-> 0, ONE_PAIR |-> 1, TWO_PAIR |-> 2, THREE_OF_A_KIND |-> 3,
     STRAIGHT |-> 4, FLUSH |-> 5, FULL_HOUSE |-> 6, FOUR_OF_A_KIND |-> 7,
     STRAIGHT_FLUSH |-> 8, ROYAL_FLUSH |-> 9]

RankCounts(hand) ==
    {[rank  |-> r, count |-> Cardinality({i \in DOMAIN hand : hand[i].rank = r})]
        : r \in {hand[i].rank : i \in DOMAIN hand}}

\* RankCount::operator>
ComesFirst(a, b) == a.count > b.count \/ (a.count = b.count /\ a.rank > b.rank)

\* The members of S in the order Before.
InOrder(S, Before(_, _)) ==
    [i \in 1..Cardinality(S) |->
        CHOOSE x \in S : Cardinality({y \in S : Before(y, x)}) = i - 1]

\* The counts in the order that comparisons look at them; the ace of a wheel
\* goes last.
EvalHandCounts(hand) ==
    LET counts == InOrder(RankCounts(hand), ComesFirst)
        wheel  == /\ Len(counts) = 5
                  /\ counts[1].rank = ACE /\ counts[2].rank = FIVE /\ counts[5].rank = TWO
    IN  IF wheel THEN Tail(counts) \o <<counts[1]>> ELSE counts

IsFlush(hand) == \A i, j \in DOMAIN hand : hand[i].suit = hand[j].suit

\* Mutation: the ace counts high only.
IsStraightAceHigh(counts) == Len(counts) = 5 /\ counts[1].rank - counts[5].rank = 4

IsStraight(counts) ==
    /\ Len(counts) = 5
    /\ \/ counts[1].rank - counts[5].rank = 4
       \/ counts[5].rank = ACE /\ counts[1].rank = FIVE /\ counts[4].rank = TWO

EvalUniqueHandType(hand, counts) ==
    CASE IsFlush(hand) /\ IsStraight(counts) ->
            IF counts[1].rank = ACE THEN HandType.ROYAL_FLUSH ELSE HandType.STRAIGHT_FLUSH
      [] IsFlush(hand) /\ ~IsStraight(counts) -> HandType.FLUSH
      [] ~IsFlush(hand) /\ IsStraight(counts) -> HandType.STRAIGHT
      [] OTHER -> HandType.HIGH_CARD

\* The table is looked up by the two largest counts.
EvalPatternHandType(counts) ==
    LET pattern == <<HandType.ONE_PAIR, HandType.TWO_PAIR, HandType.THREE_OF_A_KIND,
                     HandType.FULL_HOUSE, HandType.FOUR_OF_A_KIND>>
    IN  pattern[2 * (counts[1].count - 2) + counts[2].count]

EvalHandType(hand, counts) ==
    IF Len(counts) # 5 THEN EvalPatternHandType(counts) ELSE EvalUniqueHandType(hand, counts)

\* HandValue::build: the ranks that are missing are zero.
Build(type, ranks) ==
    LET value[i \in 0..5] ==
            IF i = 0 THEN type
            ELSE 16 * value[i - 1] + (IF i <= Len(ranks) THEN ranks[i] ELSE 0)
    IN  value[5]

EvalHandValue(hand) ==
    LET counts == EvalHandCounts(hand)
    IN  Build(EvalHandType(hand, counts), [i \in DOMAIN counts |-> counts[i].rank])

\* Mutation: both hole cards, the last two, must be played.
FiveOfSevenWithHole == {five \in SUBSET (1..7) : Cardinality(five) = 5 /\ {6, 7} \subseteq five}

\* enum_5_from_7
FiveOfSeven == {five \in SUBSET (1..7) : Cardinality(five) = 5}

\* eval_hand: seven maps 1..7 to cards, the board before the hole cards.
EvalHand(seven) ==
    Max({EvalHandValue([i \in five |-> seven[i]]) : five \in FiveOfSeven})

\* HandValue::getHandType: the five ranks are shifted out.
TypeOfValue(value) == ((((value \div 16) \div 16) \div 16) \div 16) \div 16
=============================================================================
