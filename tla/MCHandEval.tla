----------------------------- MODULE MCHandEval ----------------------------
(***************************************************************************)
(* eval_hand against the rules of poker: two hands of five cards, or one   *)
(* of seven, in each state.  Of the suits of five cards only whether they  *)
(* are one suit tells, so five cards are a choice of ranks, suited or not. *)
(***************************************************************************)
EXTENDS HandEval

CONSTANTS
    RankSets,     \* the sets of ranks that two hands are drawn from
    SevenDeck     \* the cards that seven are drawn from

Suits == 1..4

Card == [rank : TWO..ACE, suit : Suits]

ASSUME RankSetsAssumption == \A ranks \in RankSets : ranks \subseteq TWO..ACE

ASSUME SevenDeckAssumption == SevenDeck \subseteq Card

VARIABLES first, second, seven

evalVars == <<first, second, seven>>

\* Neighbours around the wheel and around the royal flush.
MCRankSets == {{2, 3, 4, 5, 6, 14}, {10, 11, 12, 13, 14}}

MCSevenDeck ==
    [rank : {2, 3, 4, 5, 14}, suit : {1, 2}]
        \cup [rank : {2, 6, 14}, suit : {3}] \cup [rank : {14}, suit : {4}]
        \cup [rank : {9}, suit : {1}]

Descending(ranks) == \A i \in 1..4 : ranks[i] >= ranks[i + 1]

\* At most four cards of a rank, each in a suit of its own; or five of a suit.
Hands(ranks) ==
    LET choices == {r \in [1..5 -> ranks] : Descending(r) /\ r[1] # r[5]}
        offsuit == <<1, 2, 3, 4, 1>>
    IN  {[i \in 1..5 |-> [rank |-> r[i], suit |-> offsuit[i]]] : r \in choices}
        \cup {[i \in 1..5 |-> [rank |-> r[i], suit |-> 1]]
                 : r \in {c \in choices : IsInjective(c)}}

NoCards == <<>>

\* Higher ranks first, so that what eval_hand must find lies at either end of
\* the seven.
Higher(a, b) == a.rank > b.rank \/ (a.rank = b.rank /\ a.suit < b.suit)

Dealt(cards) == InOrder(cards, Higher)

EvalInit ==
    \/ /\ \E ranks \in RankSets : first \in Hands(ranks) /\ second \in Hands(ranks)
       /\ seven = NoCards
    \/ /\ first = NoCards /\ second = NoCards
       /\ seven \in {Dealt(cards) : cards \in kSubset(7, SevenDeck)}

NoEval == first = NoCards /\ second = NoCards /\ seven = NoCards

-----------------------------------------------------------------------------
(* The rules, told from the cards and not from their counts in order.      *)

RanksOf(cards) == {cards[i].rank : i \in DOMAIN cards}
Copies(cards, r) == Cardinality({i \in DOMAIN cards : cards[i].rank = r})
OfSuit(cards, s) == {cards[i].rank : i \in {j \in DOMAIN cards : cards[j].suit = s}}

\* The highest card of each run of five ranks; the ace is also below the two.
StraightTops(ranks) ==
    {top \in 5..14 : \A k \in 0..4 : IF top - k = 1 THEN 14 \in ranks ELSE top - k \in ranks}

\* The best type that some five of the cards make.
RuleType(cards) ==
    LET ranks  == RanksOf(cards)
        runs   == UNION {StraightTops(OfSuit(cards, s)) : s \in Suits}
        Some(n) == \E r \in ranks : Copies(cards, r) >= n
        Two(n, m) == \E r, q \in ranks : r # q /\ Copies(cards, r) >= n /\ Copies(cards, q) >= m
    IN  CASE 14 \in runs                                     -> 9
          [] runs # {} /\ 14 \notin runs                     -> 8
          [] runs = {} /\ Some(4)                            -> 7
          [] OTHER ->
               IF Two(3, 2) THEN 6
               ELSE IF \E s \in Suits : Cardinality(OfSuit(cards, s)) >= 5 THEN 5
               ELSE IF StraightTops(ranks) # {} THEN 4
               ELSE IF Some(3) THEN 3
               ELSE IF Two(2, 2) THEN 2
               ELSE IF Some(2) THEN 1 ELSE 0

\* What settles a tie of types: the highest straight, or else the greatest
\* group of equal ranks that only one of the two hands has.
Groups(cards) ==
    IF StraightTops(RanksOf(cards)) # {} THEN {<<1, r>> : r \in StraightTops(RanksOf(cards))}
    ELSE {<<Copies(cards, r), r>> : r \in RanksOf(cards)}

Above(g, h) == g[1] > h[1] \/ (g[1] = h[1] /\ g[2] > h[2])

RuleBeats(a, b) ==
    \/ RuleType(a) > RuleType(b)
    \/ /\ RuleType(a) = RuleType(b)
       /\ \E g \in Groups(a) \ Groups(b) : \A h \in Groups(b) \ Groups(a) : Above(g, h)

\* HandsRankByTheRules: one hand's integer is greater than another's exactly
\* when the rules let it win, and they are equal exactly when the pot is
\* split: determineWinners compares nothing but the integers.
HandsRankByTheRules ==
    first # NoCards =>
        /\ EvalHandValue(first) > EvalHandValue(second) <=> RuleBeats(first, second)
        /\ EvalHandValue(first) < EvalHandValue(second) <=> RuleBeats(second, first)

\* BestFiveFound: the type that eval_hand gives seven cards, by trying every
\* five of them, is the best that the rules find looking at all seven.
BestFiveFound == seven # NoCards => TypeOfValue(EvalHand(seven)) = RuleType(seven)
=============================================================================
