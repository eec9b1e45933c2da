----------------------------- MODULE AlgoProofs ----------------------------
(***************************************************************************)
(* What the functions of core/algo compute, for every input: the bets that *)
(* are accepted, the awards of a pot and the side pots of a hand.  Chips   *)
(* are added up by the folds of the community modules.  A fold is a        *)
(* recursive function on the subsets of a set, and finite sets are well    *)
(* founded by inclusion: that is the induction the sums rest on.  The last *)
(* part is about the folds of the community modules over sequences.        *)
(***************************************************************************)
EXTENDS ConsoleInput, SidePots, SequencesExt, FiniteSetTheorems, FunctionTheorems,
        SequenceTheorems, WellFoundedInduction, TLAPS

-----------------------------------------------------------------------------
(* process_betting.                                                        *)

\* ContextAmounts: the fields of a context are naturals and a Boolean.
LEMMA ContextAmounts ==
    ASSUME NEW c \in BettingContext
    PROVE  /\ c.player_chips \in Nat /\ c.player_bet \in Nat
           /\ c.round_bet \in Nat /\ c.min_raise_delta \in Nat
           /\ c.can_raise \in BOOLEAN
BY DEF BettingContext

\* ActionNames: the Action that get_action gives to each kind of target, one
\* line for each of its branches.
LEMMA ActionNames ==
    ASSUME NEW c \in BettingContext, NEW target \in Int
    PROVE  LET all_in == target - c.player_bet = c.player_chips
               min    == c.round_bet + c.min_raise_delta
               a      == GetAction(c, target)
           IN  /\ all_in /\ target < c.round_bet => a = "ALL_IN_UNDER_CALL"
               /\ all_in /\ target = c.round_bet => a = "ALL_IN_CALL"
               /\ all_in /\ target > c.round_bet /\ c.can_raise =>
                      a \in {"ALL_IN_RAISE", "ALL_IN_UNDER_RAISE"}
               /\ target > c.round_bet /\ ~c.can_raise => a = "VOID"
               /\ ~all_in /\ target = c.round_bet => a \in {"CHECK", "CALL"}
               /\ ~all_in /\ target > c.round_bet /\ target >= min /\ c.can_raise =>
                      a \in {"BET", "RAISE"}
               /\ ~all_in /\ target > c.round_bet /\ target < min => a = "VOID"
               /\ ~all_in /\ target < c.round_bet => a = "VOID"
<1>. /\ c.player_chips \in Nat /\ c.player_bet \in Nat
     /\ c.round_bet \in Nat /\ c.min_raise_delta \in Nat
  BY ContextAmounts
<1>. USE DEF GetAction, AllInAction, IsAllIn, IsIncompleteCall, IsCompleteCall,
             IsIncompleteRaise, IsCompleteRaise, ChipsCommitted, MinRaise
<1>1. CASE c.can_raise
  BY <1>1
<1>2. CASE ~c.can_raise
  BY <1>2
<1>. QED
  BY <1>1, <1>2

\* BetsAgree: for every context of a turn and every target the console's
\* filter and process_betting come to the same decision, with amounts of any
\* size (main.cpp:82-106 against chips_calc.cpp:16-52).
THEOREM BetsAgree ==
    ASSUME NEW c \in BettingContext, NEW target \in Int
    PROVE  ConsoleAgreesWithTable(c, target)
<1>. SUFFICES ASSUME TurnContext(c)
              PROVE  ConsoleAccepts(c, target) <=> IsValid(ProcessBetting(c, target))
  BY DEF ConsoleAgreesWithTable
<1>1. /\ c.player_chips \in Nat /\ c.player_bet \in Nat
      /\ c.round_bet \in Nat /\ c.min_raise_delta \in Nat
      /\ c.player_chips > 0 /\ c.player_bet <= c.round_bet
  BY ContextAmounts DEF TurnContext
<1>2. IsValid(ProcessBetting(c, target)) <=>
          GetAction(c, target) # "VOID" /\ target - c.player_bet <= c.player_chips
  BY DEF IsValid, ProcessBetting, IsChipsEnough, ChipsCommitted
<1>3. CASE target < c.round_bet
  BY <1>1, <1>2, <1>3, ActionNames DEF ConsoleAccepts, ConsoleDecides
<1>4. CASE target = c.round_bet
  BY <1>1, <1>2, <1>4, ActionNames DEF ConsoleAccepts, ConsoleDecides
<1>5. CASE target > c.round_bet /\ c.can_raise
  BY <1>1, <1>2, <1>5, ActionNames DEF ConsoleAccepts, ConsoleDecides, MinRaise
<1>6. CASE target > c.round_bet /\ ~c.can_raise
  BY <1>1, <1>2, <1>6, ActionNames DEF ConsoleAccepts, ConsoleDecides
<1>. QED
  BY <1>1, <1>3, <1>4, <1>5, <1>6

\* OverflowIsHarmless: at every width of int, for every stack and bet that fit
\* it and every target an int can hold, the console and process_betting decide
\* as in exact arithmetic even where target_bet - player_bet overflows
\* (main.cpp:82 and 91, chips_calc.cpp:16-20): a target low enough to overflow
\* wraps to more than any stack, and its exact difference is below any.
THEOREM OverflowIsHarmless ==
    ASSUME NEW c \in BettingContext, NEW half \in Nat,
           NEW target \in Int, -half <= target, target < half
    PROVE  SameAtWidth(c, target, half)
<1>. SUFFICES ASSUME TurnContext(c), c.player_chips + c.player_bet < half,
                     NEW asked \in Differences(target, c.player_bet, half),
                     NEW paid \in Differences(target, c.player_bet, half)
              PROVE  /\ ConsoleDecides(c, target, asked, paid) <=> ConsoleAccepts(c, target)
                     /\ IsValidBet(c, target, asked, paid) <=> IsValid(ProcessBetting(c, target))
  BY DEF SameAtWidth
<1>. DEFINE exact == target - c.player_bet
<1>1. /\ c.player_chips \in Nat /\ c.player_bet \in Nat
      /\ c.round_bet \in Nat /\ c.min_raise_delta \in Nat
      /\ c.player_chips > 0 /\ c.player_bet <= c.round_bet
  BY ContextAmounts DEF TurnContext
\* No int lies 2 * half below the difference; one lies above it on overflow.
<1>2. ASSUME NEW d \in Differences(target, c.player_bet, half)
      PROVE  d = exact \/ (d > c.player_chips /\ exact < 0 /\ target < 0)
  BY <1>1, <1>2 DEF Differences
<1>3. CASE asked = exact /\ paid = exact
  <2>1. IsValid(ProcessBetting(c, target)) <=>
            GetAction(c, target) # "VOID" /\ exact <= c.player_chips
    BY DEF IsValid, ProcessBetting, IsChipsEnough, ChipsCommitted
  <2>2. GetAction(c, target) # "VOID" <=>
            IF exact = c.player_chips THEN AllInAction(c, target) # "VOID"
            ELSE IsCompleteCall(c, target) \/ (IsCompleteRaise(c, target) /\ c.can_raise)
    BY DEF GetAction, IsAllIn, ChipsCommitted
  <2>. QED
    BY <1>3, <2>1, <2>2 DEF ConsoleAccepts, IsValidBet
<1>4. CASE ~(asked = exact /\ paid = exact)
  \* An overflow: the target is negative, and short of all the chips.
  <2>1. target < 0 /\ exact < 0
    BY <1>2, <1>4
  <2>2. ~ConsoleAccepts(c, target)
    BY <1>1, <2>1 DEF ConsoleAccepts, ConsoleDecides
  <2>3. ~IsValid(ProcessBetting(c, target))
    BY <1>1, <2>1, ActionNames DEF IsValid, ProcessBetting
  <2>4. paid # c.player_chips
    BY <1>1, <1>2, <2>1
  <2>5. ~ConsoleDecides(c, target, asked, paid)
    BY <1>1, <2>1, <2>4 DEF ConsoleDecides
  <2>6. ~IsValidBet(c, target, asked, paid)
    BY <1>1, <2>1, <2>4 DEF IsValidBet, IsCompleteCall, IsCompleteRaise, MinRaise
  <2>. QED
    BY <2>2, <2>3, <2>5, <2>6
<1>. QED
  BY <1>3, <1>4

-----------------------------------------------------------------------------
(* Naturals, and sums over finite sets.  SumFunctionOnSet is a recursive   *)
(* function on the subsets of a set, that takes out an element at a time.  *)

\* LeastNatural: a set of naturals that is not empty has a least element; the
\* first seat on the left that satisfies a condition is found with it.
LEMMA LeastNatural ==
    ASSUME NEW S \in SUBSET Nat, S # {}
    PROVE  \E x \in S : \A y \in S : x <= y
<1>. DEFINE R == OpToRel(<, Nat)
<1>1. IsWellFoundedOn(R, Nat)
  BY NatLessThanWellFounded
<1>2. \A x, y \in Nat : y < x => <<y, x>> \in R
  BY DEF OpToRel
<1>. HIDE DEF R
<1>3. PICK x \in S : \A y \in S : <<y, x>> \notin R
  BY <1>1, WFMin
<1>4. ASSUME NEW y \in S
      PROVE  x <= y
  <2>1. x \in Nat /\ y \in Nat
    OBVIOUS
  <2>2. ~ (y < x)
    BY <1>2, <1>3, <2>1
  <2>. QED
    BY <2>1, <2>2
<1>. QED
  BY <1>4

\* CountUp: what holds of 1, and of every k if of k - 1, holds up to n.
LEMMA CountUp ==
    ASSUME NEW n \in Nat, NEW Q, 1 \in Q, \A k \in 2..n : k - 1 \in Q => k \in Q
    PROVE  \A k \in 1..n : k \in Q
<1>. DEFINE P == {k \in 1..n : k \notin Q}
<1>. SUFFICES ASSUME P # {} PROVE FALSE
  OBVIOUS
<1>1. PICK m \in P : \A k \in P : m <= k
  <2>1. P \in SUBSET Nat
    OBVIOUS
  <2>. HIDE DEF P
  <2>. QED
    BY <2>1, LeastNatural
<1>2. m \in 2..n /\ m - 1 \in 1..n /\ m - 1 \notin P
  BY <1>1
<1>. QED
  BY <1>1, <1>2

\* A family of sets that has the empty one, and a set whenever it has that set
\* less any of its elements.
Inductive(P, S) ==
    /\ {} \in P
    /\ \A T \in SUBSET S : T # {} /\ (\A x \in T : T \ {x} \in P) => T \in P

\* SubsetInduction: such a family has all finite sets.
LEMMA SubsetInduction ==
    ASSUME NEW S, IsFiniteSet(S), NEW P, Inductive(P, S)
    PROVE  S \in P
<1>. DEFINE Q == {T \in SUBSET S : T \notin P}
            R == StrictSubsetOrdering(S)
<1>1. IsWellFoundedOn(R, SUBSET S)
  BY FS_StrictSubsetOrderingWellFounded, FS_FiniteSubsetsOfFinite
<1>2. \A T \in SUBSET S : \A x \in T : <<T \ {x}, T>> \in R
  BY DEF StrictSubsetOrdering
<1>. SUFFICES ASSUME Q # {} PROVE FALSE
  <2>1. S \in SUBSET S
    OBVIOUS
  <2>. QED
    BY <2>1
<1>3. Q \subseteq SUBSET S
  OBVIOUS
<1>. HIDE DEF R
<1>4. PICK T \in Q : \A U \in Q : <<U, T>> \notin R
  <2>. HIDE DEF Q
  <2>. QED
    BY <1>1, <1>3, WFMin
<1>5. \A x \in T : T \ {x} \in P
  BY <1>2, <1>4
<1>. QED
  BY <1>4, <1>5 DEF Inductive

\* The element that a fold takes out of s first, and the values of a fold on
\* the subsets of S.
Pick(s) == CHOOSE x \in s : TRUE

Adds(f, S, g) ==
    g = [s \in SUBSET S |-> IF s = {} THEN 0 ELSE f[Pick(s)] + g[s \ {Pick(s)}]]

\* AddsValue: what the equation of such a function says of the whole set.
LEMMA AddsValue ==
    ASSUME NEW f, NEW S, NEW g, Adds(f, S, g)
    PROVE  g[S] = IF S = {} THEN 0 ELSE f[Pick(S)] + g[S \ {Pick(S)}]
<1>. S \in SUBSET S
  OBVIOUS
<1>. QED
  BY DEF Adds

\* AddsOnce: what is added up over a set does not depend on the set around it.
LEMMA AddsOnce ==
    ASSUME NEW f, NEW S, IsFiniteSet(S), NEW T \in SUBSET S,
           NEW g, Adds(f, S, g), NEW h, Adds(f, T, h)
    PROVE  g[T] = h[T]
<1>. DEFINE P == {U \in SUBSET T : g[U] = h[U]}
<1>1. \A U \in SUBSET T : g[U] = IF U = {} THEN 0 ELSE f[Pick(U)] + g[U \ {Pick(U)}]
  BY DEF Adds
<1>2. \A U \in SUBSET T : h[U] = IF U = {} THEN 0 ELSE f[Pick(U)] + h[U \ {Pick(U)}]
  BY DEF Adds
<1>3. {} \in P
  BY <1>1, <1>2
<1>4. ASSUME NEW U \in SUBSET T, U # {}, \A x \in U : U \ {x} \in P
      PROVE  U \in P
  <2>1. Pick(U) \in U
    BY <1>4 DEF Pick
  <2>. QED
    BY <1>1, <1>2, <1>4, <2>1
<1>5. IsFiniteSet(T)
  BY FS_Subset
<1>6. Inductive(P, T)
  BY <1>3, <1>4 DEF Inductive
<1>. HIDE DEF P
<1>7. T \in P
  BY <1>6, <1>5, SubsetInduction
<1>. QED
  BY <1>7 DEF P

\* AddsExist: every finite set can be added up.
LEMMA AddsExist ==
    ASSUME NEW f, NEW S, IsFiniteSet(S)
    PROVE  \E g : Adds(f, S, g)
<1>. DEFINE P == {T \in SUBSET S : \E g : Adds(f, T, g)}
            G(T) == CHOOSE g : Adds(f, T, g)
<1>1. {} \in P
  <2>. DEFINE g == [s \in SUBSET {} |-> 0]
  <2>1. Adds(f, {}, g)
    BY DEF Adds
  <2>. QED
    BY <2>1
<1>2. ASSUME NEW T \in SUBSET S, T # {}, \A x \in T : T \ {x} \in P
      PROVE  T \in P
  <2>. DEFINE h == [s \in SUBSET T |-> IF s = {} THEN 0
                                       ELSE f[Pick(s)] + G(s \ {Pick(s)})[s \ {Pick(s)}]]
  <2>1. ASSUME NEW U \in SUBSET T, U # T
        PROVE  Adds(f, U, G(U))
    <3>1. PICK x \in T : x \notin U
      BY <2>1
    <3>2. PICK g : Adds(f, T \ {x}, g)
      BY <1>2
    <3>3. Adds(f, U, [s \in SUBSET U |-> g[s]])
      <4>1. \A s \in SUBSET U : s \in SUBSET (T \ {x}) /\ s \ {Pick(s)} \in SUBSET U
        BY <2>1, <3>1
      <4>2. \A s \in SUBSET (T \ {x}) :
               g[s] = IF s = {} THEN 0 ELSE f[Pick(s)] + g[s \ {Pick(s)}]
        BY <3>2 DEF Adds
      <4>. QED
        BY <4>1, <4>2 DEF Adds
    <3>. QED
      BY <3>3
  <2>2. ASSUME NEW U \in SUBSET T, U # T
        PROVE  h[U] = G(U)[U]
    <3>1. G(U)[U] = IF U = {} THEN 0 ELSE f[Pick(U)] + G(U)[U \ {Pick(U)}]
      <4>1. Adds(f, U, G(U))
        BY <2>1, <2>2
      <4>. HIDE DEF G
      <4>. QED
        BY <4>1, AddsValue
    <3>2. CASE U = {}
      <4>. HIDE DEF G
      <4>. QED
        BY <3>1, <3>2
    <3>3. CASE U # {}
      <4>. DEFINE V == U \ {Pick(U)}
      <4>1. Pick(U) \in U
        BY <3>3 DEF Pick
      <4>2. V \in SUBSET U /\ V \in SUBSET T /\ V # T /\ IsFiniteSet(U)
        BY <4>1, <2>2, FS_Subset
      <4>3. Adds(f, U, G(U)) /\ Adds(f, V, G(V))
        BY <2>1, <2>2, <4>2
      <4>4. G(U)[V] = G(V)[V]
        <5>. HIDE DEF V, G
        <5>. QED
          BY <4>2, <4>3, AddsOnce
      <4>. QED
        BY <3>1, <3>3, <4>4
    <3>. QED
      BY <3>2, <3>3
  <2>3. \A s \in SUBSET T : s # {} => Pick(s) \in s /\ s \ {Pick(s)} \in SUBSET T /\ s \ {Pick(s)} # T
    BY DEF Pick
  <2>4. \A s \in SUBSET T : s # {} => h[s \ {Pick(s)}] = G(s \ {Pick(s)})[s \ {Pick(s)}]
    <3>. HIDE DEF h, G
    <3>. QED
      BY <2>2, <2>3
  <2>5. Adds(f, T, h)
    <3>. HIDE DEF G
    <3>. QED
      BY <2>4 DEF Adds
  <2>. QED
    BY <2>5
<1>3. Inductive(P, S)
  BY <1>1, <1>2 DEF Inductive
<1>. HIDE DEF P
<1>4. S \in P
  BY <1>3, SubsetInduction
<1>. QED
  BY <1>4 DEF P

\* SumEquation: a sum is an element and the sum of the others.
LEMMA SumEquation ==
    ASSUME NEW f, NEW S, IsFiniteSet(S)
    PROVE  SumFunctionOnSet(f, S) =
               IF S = {} THEN 0 ELSE f[Pick(S)] + SumFunctionOnSet(f, S \ {Pick(S)})
<1>. DEFINE G(T) == CHOOSE g : Adds(f, T, g)
<1>1. \A T : SumFunctionOnSet(f, T) = G(T)[T]
  BY DEF SumFunctionOnSet, FoldFunctionOnSet, MapThenFoldSet, Adds, Pick
<1>2. Adds(f, S, G(S))
  BY AddsExist
<1>3. G(S)[S] = IF S = {} THEN 0 ELSE f[Pick(S)] + G(S)[S \ {Pick(S)}]
  <2>. HIDE DEF G
  <2>. QED
    BY <1>2, AddsValue
<1>4. ASSUME S # {}
      PROVE  G(S)[S \ {Pick(S)}] = G(S \ {Pick(S)})[S \ {Pick(S)}]
  <2>1. S \ {Pick(S)} \in SUBSET S /\ IsFiniteSet(S \ {Pick(S)})
    BY FS_Subset
  <2>2. Adds(f, S \ {Pick(S)}, G(S \ {Pick(S)}))
    BY <2>1, AddsExist
  <2>. HIDE DEF G
  <2>. QED
    BY <1>2, <2>1, <2>2, AddsOnce
<1>. HIDE DEF G
<1>5. SumFunctionOnSet(f, S) = G(S)[S]
  BY <1>1
<1>6. SumFunctionOnSet(f, S \ {Pick(S)}) = G(S \ {Pick(S)})[S \ {Pick(S)}]
  BY <1>1
<1>. QED
  BY <1>3, <1>4, <1>5, <1>6

\* SumStep: the same, with the element named.
LEMMA SumStep ==
    ASSUME NEW f, NEW S, IsFiniteSet(S), S # {}
    PROVE  /\ Pick(S) \in S /\ IsFiniteSet(S \ {Pick(S)})
           /\ SumFunctionOnSet(f, S) = f[Pick(S)] + SumFunctionOnSet(f, S \ {Pick(S)})
<1>1. Pick(S) \in S
  BY DEF Pick
<1>2. IsFiniteSet(S \ {Pick(S)})
  BY FS_Subset
<1>. QED
  BY <1>1, <1>2, SumEquation

\* SumEmpty: nothing adds up to nothing.
LEMMA SumEmpty == \A f : SumFunctionOnSet(f, {}) = 0
BY SumEquation, FS_EmptySet

\* SumType: integers add up to an integer, naturals to a natural.
LEMMA SumType ==
    ASSUME NEW f, NEW S, IsFiniteSet(S)
    PROVE  /\ (\A x \in S : f[x] \in Int) => SumFunctionOnSet(f, S) \in Int
           /\ (\A x \in S : f[x] \in Nat) => SumFunctionOnSet(f, S) \in Nat
<1>. DEFINE P == {T \in SUBSET S :
                    /\ (\A x \in T : f[x] \in Int) => SumFunctionOnSet(f, T) \in Int
                    /\ (\A x \in T : f[x] \in Nat) => SumFunctionOnSet(f, T) \in Nat}
<1>1. {} \in P
  BY SumEmpty
<1>2. ASSUME NEW T \in SUBSET S, T # {}, \A x \in T : T \ {x} \in P
      PROVE  T \in P
  <2>1. IsFiniteSet(T)
    BY FS_Subset
  <2>2. PICK y \in T : y = Pick(T)
    BY <1>2, <2>1, SumStep
  <2>3. SumFunctionOnSet(f, T) = f[y] + SumFunctionOnSet(f, T \ {y})
    BY <1>2, <2>1, <2>2, SumStep
  <2>4. T \ {y} \in P
    BY <1>2
  <2>. QED
    BY <2>3, <2>4
<1>3. Inductive(P, S)
  BY <1>1, <1>2 DEF Inductive
<1>. HIDE DEF P
<1>4. S \in P
  BY <1>3, SubsetInduction
<1>. QED
  BY <1>4 DEF P

\* SumSame: a sum depends on what is added up.
LEMMA SumSame ==
    ASSUME NEW f, NEW g, NEW S, IsFiniteSet(S), \A x \in S : f[x] = g[x]
    PROVE  SumFunctionOnSet(f, S) = SumFunctionOnSet(g, S)
<1>. DEFINE P == {T \in SUBSET S : SumFunctionOnSet(f, T) = SumFunctionOnSet(g, T)}
<1>1. {} \in P
  BY SumEmpty
<1>2. ASSUME NEW T \in SUBSET S, T # {}, \A x \in T : T \ {x} \in P
      PROVE  T \in P
  <2>1. IsFiniteSet(T)
    BY FS_Subset
  <2>2. PICK y \in T : y = Pick(T)
    BY <1>2, <2>1, SumStep
  <2>3. SumFunctionOnSet(f, T) = f[y] + SumFunctionOnSet(f, T \ {y})
    BY <1>2, <2>1, <2>2, SumStep
  <2>4. SumFunctionOnSet(g, T) = g[y] + SumFunctionOnSet(g, T \ {y})
    BY <1>2, <2>1, <2>2, SumStep
  <2>5. T \ {y} \in P
    BY <1>2
  <2>. QED
    BY <2>3, <2>4, <2>5
<1>3. Inductive(P, S)
  BY <1>1, <1>2 DEF Inductive
<1>. HIDE DEF P
<1>4. S \in P
  BY <1>3, SubsetInduction
<1>. QED
  BY <1>4 DEF P

\* SumWithout: any element can be taken out first.
LEMMA SumWithout ==
    ASSUME NEW f, NEW S, IsFiniteSet(S), \A x \in S : f[x] \in Int, NEW a \in S
    PROVE  SumFunctionOnSet(f, S) = f[a] + SumFunctionOnSet(f, S \ {a})
<1>. DEFINE P == {T \in SUBSET S :
                    \A x \in T : SumFunctionOnSet(f, T) = f[x] + SumFunctionOnSet(f, T \ {x})}
<1>1. {} \in P
  OBVIOUS
<1>2. ASSUME NEW T \in SUBSET S, T # {}, \A x \in T : T \ {x} \in P
      PROVE  T \in P
  <2>1. IsFiniteSet(T)
    BY FS_Subset
  <2>. SUFFICES ASSUME NEW x \in T
                PROVE  SumFunctionOnSet(f, T) = f[x] + SumFunctionOnSet(f, T \ {x})
    OBVIOUS
  <2>2. Pick(T) \in T /\ SumFunctionOnSet(f, T) = f[Pick(T)] + SumFunctionOnSet(f, T \ {Pick(T)})
    BY <1>2, <2>1, SumStep
  <2>3. PICK y \in T : SumFunctionOnSet(f, T) = f[y] + SumFunctionOnSet(f, T \ {y})
    BY <2>2
  <2>4. CASE y # x
    <3>. DEFINE U == (T \ {x}) \ {y}
    <3>1. (T \ {y}) \ {x} = U
      OBVIOUS
    <3>2. SumFunctionOnSet(f, T \ {x}) = f[y] + SumFunctionOnSet(f, U)
      BY <1>2, <2>4
    <3>3. SumFunctionOnSet(f, T \ {y}) = f[x] + SumFunctionOnSet(f, U)
      <4>1. T \ {y} \in P /\ x \in T \ {y}
        BY <1>2, <2>4
      <4>. HIDE DEF U
      <4>. QED
        BY <3>1, <4>1
    <3>4. IsFiniteSet(U) /\ \A z \in U : f[z] \in Int
      BY <2>1, FS_Subset
    <3>. HIDE DEF U
    <3>5. SumFunctionOnSet(f, U) \in Int
      BY <3>4, SumType
    <3>. QED
      BY <2>3, <3>2, <3>3, <3>5
  <2>. QED
    BY <2>3, <2>4
<1>3. Inductive(P, S)
  BY <1>1, <1>2 DEF Inductive
<1>. HIDE DEF P
<1>4. S \in P
  BY <1>3, SubsetInduction
<1>. QED
  BY <1>4 DEF P

\* SumTogether: sums are added up element by element.
LEMMA SumTogether ==
    ASSUME NEW f, NEW g, NEW h, NEW S, IsFiniteSet(S),
           \A x \in S : f[x] \in Int /\ g[x] \in Int /\ h[x] = f[x] + g[x]
    PROVE  SumFunctionOnSet(h, S) = SumFunctionOnSet(f, S) + SumFunctionOnSet(g, S)
<1>. DEFINE P == {T \in SUBSET S : SumFunctionOnSet(h, T) =
                                       SumFunctionOnSet(f, T) + SumFunctionOnSet(g, T)}
<1>1. {} \in P
  BY SumEmpty
<1>2. ASSUME NEW T \in SUBSET S, T # {}, \A x \in T : T \ {x} \in P
      PROVE  T \in P
  <2>1. IsFiniteSet(T)
    BY FS_Subset
  <2>2. PICK y \in T : y = Pick(T)
    BY <1>2, <2>1, SumStep
  <2>. DEFINE U == T \ {y}
  <2>3. /\ SumFunctionOnSet(f, T) = f[y] + SumFunctionOnSet(f, U)
        /\ SumFunctionOnSet(g, T) = g[y] + SumFunctionOnSet(g, U)
        /\ SumFunctionOnSet(h, T) = h[y] + SumFunctionOnSet(h, U)
        /\ IsFiniteSet(U)
    BY <1>2, <2>1, <2>2, SumStep
  <2>4. SumFunctionOnSet(h, U) = SumFunctionOnSet(f, U) + SumFunctionOnSet(g, U)
    BY <1>2
  <2>5. SumFunctionOnSet(f, U) \in Int /\ SumFunctionOnSet(g, U) \in Int
    BY <2>3, SumType
  <2>. HIDE DEF U
  <2>. QED
    BY <2>3, <2>4, <2>5
<1>3. Inductive(P, S)
  BY <1>1, <1>2 DEF Inductive
<1>. HIDE DEF P
<1>4. S \in P
  BY <1>3, SubsetInduction
<1>. QED
  BY <1>4 DEF P

\* SumOver: elements outside of A that are worth nothing do not count.
LEMMA SumOver ==
    ASSUME NEW f, NEW S, IsFiniteSet(S), \A x \in S : f[x] \in Int,
           NEW A \in SUBSET S, \A x \in S \ A : f[x] = 0
    PROVE  SumFunctionOnSet(f, S) = SumFunctionOnSet(f, A)
<1>. DEFINE P == {T \in SUBSET (S \ A) : SumFunctionOnSet(f, A \cup T) = SumFunctionOnSet(f, A)}
<1>1. {} \in P
  <2>1. A \cup {} = A
    OBVIOUS
  <2>. QED
    BY <2>1
<1>2. ASSUME NEW T \in SUBSET (S \ A), T # {}, \A x \in T : T \ {x} \in P
      PROVE  T \in P
  <2>1. PICK y \in T : TRUE
    BY <1>2
  <2>2. IsFiniteSet(A \cup T) /\ IsFiniteSet(A) /\ \A x \in A \cup T : f[x] \in Int
    BY FS_Subset
  <2>3. (A \cup T) \ {y} = A \cup (T \ {y})
    OBVIOUS
  <2>4. SumFunctionOnSet(f, A \cup T) = f[y] + SumFunctionOnSet(f, A \cup (T \ {y}))
    BY <2>2, <2>3, SumWithout
  <2>5. SumFunctionOnSet(f, A) \in Int
    BY <2>2, SumType
  <2>. QED
    BY <1>2, <2>4, <2>5
<1>3. IsFiniteSet(S \ A)
  BY FS_Subset
<1>4. Inductive(P, S \ A)
  BY <1>1, <1>2 DEF Inductive
<1>. HIDE DEF P
<1>5. S \ A \in P
  BY <1>4, <1>3, SubsetInduction
<1>6. A \cup (S \ A) = S
  OBVIOUS
<1>. QED
  BY <1>5, <1>6 DEF P

\* SumOfSame: n times the same.
LEMMA SumOfSame ==
    ASSUME NEW f, NEW S, IsFiniteSet(S), NEW c \in Int, \A x \in S : f[x] = c
    PROVE  SumFunctionOnSet(f, S) = Cardinality(S) * c
<1>. DEFINE P == {T \in SUBSET S : SumFunctionOnSet(f, T) = Cardinality(T) * c}
<1>1. {} \in P
  BY SumEmpty, FS_EmptySet
<1>2. ASSUME NEW T \in SUBSET S, T # {}, \A x \in T : T \ {x} \in P
      PROVE  T \in P
  <2>1. IsFiniteSet(T)
    BY FS_Subset
  <2>2. PICK y \in T : /\ SumFunctionOnSet(f, T) = f[y] + SumFunctionOnSet(f, T \ {y})
                       /\ IsFiniteSet(T \ {y})
    BY <1>2, <2>1, SumStep
  <2>3. SumFunctionOnSet(f, T \ {y}) = Cardinality(T \ {y}) * c
    BY <1>2
  <2>4. Cardinality(T \ {y}) = Cardinality(T) - 1 /\ Cardinality(T) \in Nat
    BY <2>1, FS_RemoveElement, FS_CardinalityType
  <2>5. Cardinality(T) * c = c + (Cardinality(T) - 1) * c
    BY <2>4
  <2>. QED
    BY <2>2, <2>3, <2>4, <2>5
<1>3. Inductive(P, S)
  BY <1>1, <1>2 DEF Inductive
<1>. HIDE DEF P
<1>4. S \in P
  BY <1>3, SubsetInduction
<1>. QED
  BY <1>4 DEF P

\* SumChanged: when one amount changes the sum changes by as much.
LEMMA SumChanged ==
    ASSUME NEW S, IsFiniteSet(S), NEW f \in [S -> Int], NEW a \in S, NEW v \in Int
    PROVE  /\ SumFunction([f EXCEPT ![a] = v]) = SumFunction(f) - f[a] + v
           /\ SumFunction(f) \in Int
<1>. DEFINE g == [f EXCEPT ![a] = v]
<1>1. SumFunction(f) = SumFunctionOnSet(f, S) /\ SumFunction(g) = SumFunctionOnSet(g, S)
  BY DEF SumFunction
<1>2. g \in [S -> Int] /\ g[a] = v
  OBVIOUS
<1>. HIDE DEF g
<1>3. /\ SumFunctionOnSet(f, S) = f[a] + SumFunctionOnSet(f, S \ {a})
      /\ SumFunctionOnSet(g, S) = g[a] + SumFunctionOnSet(g, S \ {a})
  BY <1>2, SumWithout
<1>4. IsFiniteSet(S \ {a})
  BY FS_Subset
<1>5. SumFunctionOnSet(f, S \ {a}) = SumFunctionOnSet(g, S \ {a})
  BY <1>4, SumSame DEF g
<1>6. SumFunctionOnSet(f, S \ {a}) \in Int
  BY <1>4, SumType
<1>. QED
  BY <1>1, <1>3, <1>2, <1>5, <1>6 DEF g

\* SumImage: adding up over things that are one for each element of a set is
\* adding up over the elements.
LEMMA SumImage ==
    ASSUME NEW S, IsFiniteSet(S), NEW m, NEW f, NEW h,
           \A x \in S, y \in S : m[x] = m[y] => x = y,
           \A x \in S : h[x] = f[m[x]] /\ h[x] \in Int
    PROVE  /\ IsFiniteSet({m[x] : x \in S})
           /\ SumFunctionOnSet(f, {m[x] : x \in S}) = SumFunctionOnSet(h, S)
<1>. DEFINE Image(T) == {m[x] : x \in T}
            P == {T \in SUBSET S : /\ IsFiniteSet(Image(T))
                                   /\ SumFunctionOnSet(f, Image(T)) = SumFunctionOnSet(h, T)}
<1>1. {} \in P
  <2>1. Image({}) = {}
    OBVIOUS
  <2>. HIDE DEF Image
  <2>. QED
    BY <2>1, SumEmpty, FS_EmptySet
<1>2. ASSUME NEW T \in SUBSET S, T # {}, \A x \in T : T \ {x} \in P
      PROVE  T \in P
  <2>1. PICK y \in T : TRUE
    BY <1>2
  <2>2. /\ Image(T) = Image(T \ {y}) \cup {m[y]}
        /\ Image(T \ {y}) = Image(T) \ {m[y]}
        /\ m[y] \in Image(T)
        /\ \A z \in Image(T) : f[z] \in Int
    OBVIOUS
  <2>3. /\ IsFiniteSet(Image(T \ {y}))
        /\ SumFunctionOnSet(f, Image(T \ {y})) = SumFunctionOnSet(h, T \ {y})
    BY <1>2
  <2>4. IsFiniteSet(T) /\ \A x \in T : h[x] \in Int
    BY FS_Subset
  <2>. HIDE DEF Image
  <2>5. IsFiniteSet(Image(T))
    <3>1. IsFiniteSet(Image(T \ {y}) \cup {m[y]})
      BY <2>3, FS_AddElement
    <3>. QED
      BY <2>2, <3>1
  <2>6. SumFunctionOnSet(f, Image(T)) = f[m[y]] + SumFunctionOnSet(f, Image(T \ {y}))
    BY <2>2, <2>5, SumWithout
  <2>7. SumFunctionOnSet(h, T) = h[y] + SumFunctionOnSet(h, T \ {y})
    BY <2>4, SumWithout
  <2>. QED
    BY <2>3, <2>5, <2>6, <2>7
<1>3. Inductive(P, S)
  BY <1>1, <1>2 DEF Inductive
<1>. HIDE DEF P
<1>4. S \in P
  BY <1>3, SubsetInduction
<1>. QED
  BY <1>4 DEF P

\* SumZero: nothing but zeros adds up to zero.
LEMMA SumZero ==
    ASSUME NEW f, NEW S, IsFiniteSet(S), \A x \in S : f[x] = 0
    PROVE  SumFunctionOnSet(f, S) = 0
<1>1. SumFunctionOnSet(f, S) = Cardinality(S) * 0
  BY SumOfSame
<1>2. Cardinality(S) \in Nat
  BY FS_CardinalityType
<1>. QED
  BY <1>1, <1>2

\* SumExchange: a table of numbers adds up row by row as column by column.
LEMMA SumExchange ==
    ASSUME NEW S, IsFiniteSet(S), NEW T, IsFiniteSet(T), NEW F, NEW G,
           \A x \in S, y \in T : F[x][y] \in Int /\ G[y][x] = F[x][y]
    PROVE  SumFunctionOnSet([x \in S |-> SumFunctionOnSet(F[x], T)], S) =
               SumFunctionOnSet([y \in T |-> SumFunctionOnSet(G[y], S)], T)
<1>. DEFINE rows == [x \in S |-> SumFunctionOnSet(F[x], T)]
            columns(U) == [y \in T |-> SumFunctionOnSet(G[y], U)]
            P == {U \in SUBSET S : SumFunctionOnSet(rows, U) = SumFunctionOnSet(columns(U), T)}
<1>1. {} \in P
  <2>1. \A y \in T : columns({})[y] = 0
    BY SumEmpty
  <2>. HIDE DEF columns
  <2>2. SumFunctionOnSet(columns({}), T) = 0
    BY <2>1, SumZero
  <2>. QED
    BY <2>2, SumEmpty
<1>2. ASSUME NEW U \in SUBSET S, U # {}, \A x \in U : U \ {x} \in P
      PROVE  U \in P
  <2>1. PICK a \in U : TRUE
    BY <1>2
  <2>2. IsFiniteSet(U) /\ IsFiniteSet(U \ {a})
    BY FS_Subset
  <2>3. SumFunctionOnSet(rows, U) = rows[a] + SumFunctionOnSet(rows, U \ {a})
    <3>1. \A x \in U : rows[x] \in Int
      <4>. TAKE x \in U
      <4>1. \A y \in T : F[x][y] \in Int
        OBVIOUS
      <4>2. SumFunctionOnSet(F[x], T) \in Int
        BY <4>1, SumType
      <4>. QED
        BY <4>2
    <3>. HIDE DEF rows
    <3>. QED
      BY <2>2, <3>1, SumWithout
  <2>4. \A y \in T : /\ columns(U)[y] = F[a][y] + columns(U \ {a})[y]
                     /\ columns(U \ {a})[y] \in Int /\ F[a][y] \in Int
    <3>. TAKE y \in T
    <3>1. \A x \in U : G[y][x] \in Int
      OBVIOUS
    <3>2. SumFunctionOnSet(G[y], U) = G[y][a] + SumFunctionOnSet(G[y], U \ {a})
      BY <2>2, <3>1, SumWithout
    <3>3. SumFunctionOnSet(G[y], U \ {a}) \in Int
      BY <2>2, <3>1, SumType
    <3>4. G[y][a] = F[a][y] /\ F[a][y] \in Int
      OBVIOUS
    <3>. QED
      BY <3>2, <3>3, <3>4
  <2>. HIDE DEF columns
  <2>5. SumFunctionOnSet(columns(U), T) = SumFunctionOnSet(F[a], T) + SumFunctionOnSet(columns(U \ {a}), T)
    <3>1. PICK f : f = F[a]
      OBVIOUS
    <3>2. PICK g : g = columns(U \ {a})
      OBVIOUS
    <3>3. PICK h : h = columns(U)
      OBVIOUS
    <3>4. \A y \in T : f[y] \in Int /\ g[y] \in Int /\ h[y] = f[y] + g[y]
      BY <2>4, <3>1, <3>2, <3>3
    <3>5. SumFunctionOnSet(h, T) = SumFunctionOnSet(f, T) + SumFunctionOnSet(g, T)
      BY <3>4, SumTogether
    <3>. QED
      BY <3>1, <3>2, <3>3, <3>5
  <2>6. rows[a] = SumFunctionOnSet(F[a], T)
    OBVIOUS
  <2>7. SumFunctionOnSet(rows, U \ {a}) = SumFunctionOnSet(columns(U \ {a}), T)
    BY <1>2
  <2>. QED
    BY <2>3, <2>5, <2>6, <2>7
<1>3. Inductive(P, S)
  BY <1>1, <1>2 DEF Inductive
<1>. HIDE DEF P
<1>4. S \in P
  BY <1>3, SubsetInduction
<1>. QED
  BY <1>4 DEF P

\* The place of an element of W is how many of W have a lower value than it.
Place(W, d, s) == Cardinality({v \in W : d[v] < d[s]})
FirstPlaces(W, d, r) == {s \in W : Place(W, d, s) < r}

\* PlaceBelow: of elements with different values as many as r are in the first
\* r places.
LEMMA PlaceBelow ==
    ASSUME NEW W, IsFiniteSet(W), NEW d \in [W -> Int],
           \A v \in W, w \in W : d[v] = d[w] => v = w,
           NEW r \in 0..Cardinality(W)
    PROVE  Cardinality(FirstPlaces(W, d, r)) = r
<1>. DEFINE n == Cardinality(W)
            Below(s) == {v \in W : d[v] < d[s]}
            place == [s \in W |-> Place(W, d, s)]
            A == {s \in W : place[s] < r}
<1>1. n \in Nat
  BY FS_CardinalityType
<1>2. \A s \in W : /\ IsFiniteSet(Below(s)) /\ IsFiniteSet(Below(s) \cup {s})
                   /\ place[s] = Cardinality(Below(s)) /\ place[s] \in Nat
                   /\ Cardinality(Below(s) \cup {s}) = place[s] + 1
  <2>. TAKE s \in W
  <2>1. IsFiniteSet(Below(s)) /\ s \notin Below(s)
    BY FS_Subset
  <2>2. place[s] = Cardinality(Below(s))
    BY DEF Place
  <2>. HIDE DEF Below
  <2>. QED
    BY <2>1, <2>2, FS_AddElement, FS_CardinalityType
<1>3. \A s \in W : place[s] \in 0..(n - 1)
  <2>. TAKE s \in W
  <2>1. Below(s) \cup {s} \in SUBSET W
    OBVIOUS
  <2>. HIDE DEF Below
  <2>2. Cardinality(Below(s) \cup {s}) <= n
    BY <2>1, FS_Subset
  <2>3. place[s] \in Nat /\ Cardinality(Below(s) \cup {s}) = place[s] + 1
    BY <1>2
  <2>. HIDE DEF n
  <2>. QED
    BY <1>1, <2>2, <2>3
<1>4. ASSUME NEW v \in W, NEW w \in W, d[v] < d[w]
      PROVE  place[v] < place[w]
  <2>1. Below(v) \cup {v} \in SUBSET Below(w)
    BY <1>4
  <2>. HIDE DEF Below
  <2>2. Cardinality(Below(v) \cup {v}) <= Cardinality(Below(w))
    BY <1>2, <2>1, FS_Subset
  <2>3. place[v] \in Nat /\ Cardinality(Below(v) \cup {v}) = place[v] + 1
    BY <1>2
  <2>4. place[w] \in Nat /\ Cardinality(Below(w)) = place[w]
    BY <1>2
  <2>. QED
    BY <2>2, <2>3, <2>4
<1>5. \A v \in W, w \in W : place[v] = place[w] => v = w
  <2>. TAKE v \in W, w \in W
  <2>. SUFFICES ASSUME v # w PROVE place[v] # place[w]
    OBVIOUS
  <2>1. d[v] < d[w] \/ d[w] < d[v]
    OBVIOUS
  <2>2. place[v] \in Nat /\ place[w] \in Nat
    BY <1>2
  <2>. QED
    BY <1>4, <2>1, <2>2
<1>. HIDE DEF n, Below, place
<1>6. place \in [W -> 0..(n - 1)]
  BY <1>3 DEF place
<1>7. place \in Injection(W, 0..(n - 1))
  BY <1>5, <1>6, Fun_IsInj
<1>8. IsFiniteSet(0..(n - 1)) /\ Cardinality(0..(n - 1)) = n
  BY <1>1, FS_Interval
<1>9. place \in Surjection(W, 0..(n - 1))
  BY <1>7, <1>8, FS_Injection DEF n
<1>10. \A i \in 0..(n - 1) : \E s \in W : place[s] = i
  BY <1>9 DEF Surjection
<1>. DEFINE f == [s \in A |-> place[s]]
<1>11. f \in Bijection(A, 0..(r - 1))
  <2>1. r \in Nat /\ r <= n
    BY <1>1 DEF n
  <2>2. f \in [A -> 0..(r - 1)]
    BY <1>6, <2>1
  <2>3. \A a \in A, b \in A : f[a] = f[b] => a = b
    BY <1>5
  <2>4. \A i \in 0..(r - 1) : \E s \in A : f[s] = i
    <3>. TAKE i \in 0..(r - 1)
    <3>1. i \in 0..(n - 1) /\ i < r
      BY <2>1, <1>1
    <3>2. PICK s \in W : place[s] = i
      BY <1>10, <3>1
    <3>. QED
      BY <3>1, <3>2
  <2>. HIDE DEF f, A
  <2>. QED
    BY <2>2, <2>3, <2>4, Fun_IsBij
<1>12. IsFiniteSet(A)
  BY FS_Subset
<1>13. Cardinality(0..(r - 1)) = r
  BY FS_Interval, <1>1 DEF n
<1>. HIDE DEF A, f
<1>14. ExistsBijection(A, 0..(r - 1))
  BY <1>11 DEF ExistsBijection
<1>15. Cardinality(A) = r
  BY <1>12, <1>13, <1>14, FS_Bijection
<1>. QED
  <2>1. FirstPlaces(W, d, r) = A
    BY DEF FirstPlaces, A, place
  <2>. QED
    BY <1>15, <2>1

-----------------------------------------------------------------------------
(* calculate_awards.                                                       *)

\* AwardedPot: with at least one winner the awards are natural and together
\* they are the pot.
LEMMA AwardedPot ==
    ASSUME NEW pot \in Nat, NEW n \in Nat, n > 0
    PROVE  /\ TotalAwarded(pot, n) = pot
           /\ \A i : Award(pot, n, i) \in Nat
<1>1. pot \div n \in Nat /\ pot % n \in Nat
  OBVIOUS
<1>2. n * (pot \div n) + (pot % n) = pot
  OBVIOUS
<1>. QED
  BY <1>1, <1>2 DEF TotalAwarded, Award

\* AwardsAddUp: the awards of winners ranked by d are together the whole pot.
LEMMA AwardsAddUp ==
    ASSUME NEW W, IsFiniteSet(W), W # {}, NEW d \in [W -> Int],
           \A v \in W, w \in W : d[v] = d[w] => v = w,
           NEW pot \in Nat, NEW n, n = Cardinality(W),
           NEW f, \A s \in W : f[s] = Award(pot, n, Place(W, d, s))
    PROVE  SumFunctionOnSet(f, W) = pot
<1>. DEFINE q == pot \div n
            r == pot % n
            A == FirstPlaces(W, d, r)
            g == [s \in W |-> q]
            h == [s \in W |-> IF Place(W, d, s) < r THEN 1 ELSE 0]
<1>1. n \in Nat /\ n > 0
  BY FS_CardinalityType, FS_EmptySet
<1>2. q \in Int /\ r \in 0..(n - 1) /\ pot = n * q + r
  BY <1>1
<1>3. \A s \in W : f[s] = g[s] + h[s]
  BY DEF Award
<1>4. Cardinality(A) = r
  <2>1. r \in 0..Cardinality(W)
    BY <1>1, <1>2
  <2>. HIDE DEF r, q
  <2>. QED
    BY <2>1, PlaceBelow
<1>. HIDE DEF r, q
<1>5. SumFunctionOnSet(f, W) = SumFunctionOnSet(g, W) + SumFunctionOnSet(h, W)
  <2>1. \A s \in W : g[s] \in Int /\ h[s] \in Int
    BY <1>2
  <2>. HIDE DEF g, h
  <2>. QED
    BY <1>3, <2>1, SumTogether
<1>6. SumFunctionOnSet(g, W) = n * q
  BY <1>2, SumOfSame
<1>7. SumFunctionOnSet(h, W) = r
  <2>1. \A s \in W : h[s] \in Int
    OBVIOUS
  <2>2. A \in SUBSET W /\ \A s \in A : h[s] = 1
    BY DEF FirstPlaces
  <2>3. \A s \in W \ A : h[s] = 0
    BY DEF FirstPlaces
  <2>4. IsFiniteSet(A)
    BY <2>2, FS_Subset
  <2>. HIDE DEF h, A
  <2>5. SumFunctionOnSet(h, W) = SumFunctionOnSet(h, A)
    BY <2>1, <2>2, <2>3, SumOver
  <2>6. SumFunctionOnSet(h, A) = Cardinality(A) * 1
    BY <2>2, <2>4, SumOfSame
  <2>. QED
    BY <1>2, <1>4, <2>5, <2>6
<1>. QED
  BY <1>2, <1>5, <1>6, <1>7

-----------------------------------------------------------------------------
(* load_side_pots.                                                         *)

\* GreatestNatural: a finite set of naturals that is not empty has a greatest.
LEMMA GreatestNatural ==
    ASSUME NEW S \in SUBSET Nat, IsFiniteSet(S), S # {}
    PROVE  Max(S) \in S /\ \A x \in S : x <= Max(S)
<1>. DEFINE P == {T \in SUBSET S : T = {} \/ \E x \in T : \A y \in T : x >= y}
<1>1. {} \in P
  OBVIOUS
<1>2. ASSUME NEW T \in SUBSET S, T # {}, \A x \in T : T \ {x} \in P
      PROVE  T \in P
  <2>1. PICK z \in T : TRUE
    BY <1>2
  <2>2. CASE T \ {z} = {}
    <3>1. \A y \in T : y = z /\ y \in Nat
      BY <2>2
    <3>. QED
      BY <3>1
  <2>3. CASE T \ {z} # {}
    <3>1. PICK x \in T \ {z} : \A y \in T \ {z} : x >= y
      BY <1>2, <2>3
    <3>2. x \in Nat /\ z \in Nat
      OBVIOUS
    <3>3. CASE x >= z
      BY <3>1, <3>3
    <3>4. CASE z > x
      <4>1. \A y \in T : z >= y
        <5>. TAKE y \in T
        <5>1. y \in Nat
          OBVIOUS
        <5>2. y = z \/ x >= y
          BY <3>1
        <5>. QED
          BY <3>2, <3>4, <5>1, <5>2
      <4>. QED
        BY <4>1
    <3>. QED
      BY <3>2, <3>3, <3>4
  <2>. QED
    BY <2>2, <2>3
<1>3. Inductive(P, S)
  BY <1>1, <1>2 DEF Inductive
<1>. HIDE DEF P
<1>4. S \in P
  BY <1>3, SubsetInduction
<1>5. \E x \in S : \A y \in S : x >= y
  BY <1>4 DEF P
<1>6. Max(S) \in S /\ \A y \in S : Max(S) >= y
  BY <1>5 DEF Max
<1>. QED
  BY <1>6

\* LevelsBelow: the levels are finitely many, and each but the lowest has one
\* next below it; the lowest has zero.
LEMMA LevelsBelow ==
    ASSUME NEW S, IsFiniteSet(S), NEW c \in [S -> Nat]
    PROVE  /\ IsFiniteSet(PotLevels(c))
           /\ \A l \in PotLevels(c) :
                 /\ l \in Nat /\ l > 0 /\ LevelBelow(c, l) \in Nat
                 /\ LevelBelow(c, l) \in PotLevels(c) \cup {0}
                 /\ LevelBelow(c, l) < l
                 /\ \A k \in PotLevels(c) : k < l => k <= LevelBelow(c, l)
<1>. DEFINE L == PotLevels(c)
<1>1. IsFiniteSet(L)
  <2>1. c \in Surjection(S, Range(c))
    BY Fun_RangeProperties
  <2>2. IsFiniteSet(Range(c))
    BY <2>1, FS_Surjection
  <2>3. L \in SUBSET Range(c)
    BY DEF PotLevels, Range
  <2>. QED
    BY <2>2, <2>3, FS_Subset
<1>2. \A l \in L : l \in Nat /\ l > 0
  BY DEF PotLevels
<1>. HIDE DEF L
<1>3. ASSUME NEW l \in L
      PROVE  /\ LevelBelow(c, l) \in L \cup {0} /\ LevelBelow(c, l) \in Nat
             /\ LevelBelow(c, l) < l
             /\ \A k \in L : k < l => k <= LevelBelow(c, l)
  <2>. DEFINE B == {0} \cup {k \in L : k < l}
  <2>1. B \in SUBSET Nat /\ B # {} /\ B \in SUBSET (L \cup {0})
    <3>1. \A k \in B : k \in Nat
      BY <1>2
    <3>2. B # {} /\ \A k \in B : k \in L \cup {0}
      OBVIOUS
    <3>. HIDE DEF B
    <3>. QED
      BY <3>1, <3>2
  <2>2. IsFiniteSet(L \cup {0})
    BY <1>1, FS_AddElement
  <2>3. IsFiniteSet(B)
    BY <2>1, <2>2, FS_Subset
  <2>4. LevelBelow(c, l) = Max(B)
    BY DEF LevelBelow, L
  <2>5. Max(B) \in B /\ \A x \in B : x <= Max(B)
    <3>. HIDE DEF B
    <3>. QED
      BY <2>1, <2>3, GreatestNatural
  <2>6. l \in Nat /\ l > 0
    BY <1>2
  <2>7. /\ \A k \in B : k \in L \cup {0} /\ k \in Nat /\ k < l
        /\ \A k \in L : k < l => k \in B
    BY <1>2, <2>6
  <2>. HIDE DEF B
  <2>. QED
    BY <2>4, <2>5, <2>7
<1>. QED
  BY <1>1, <1>2, <1>3 DEF L

\* What a contributor pays into the pot of a level.
Layer(c) == [l \in PotLevels(c) |-> l - LevelBelow(c, l)]

\* LayersReach: the pots up to a level cost a contributor to all of them just
\* that level.
LEMMA LayersReach ==
    ASSUME NEW S, IsFiniteSet(S), NEW c \in [S -> Nat], NEW level \in PotLevels(c) \cup {0}
    PROVE  SumFunctionOnSet(Layer(c), {l \in PotLevels(c) : l <= level}) = level
<1>. DEFINE L == PotLevels(c)
            Upto(k) == {l \in L : l <= k}
            Wrong == {k \in L \cup {0} : SumFunctionOnSet(Layer(c), Upto(k)) # k}
<1>1. /\ IsFiniteSet(L)
      /\ \A l \in L : /\ l \in Nat /\ l > 0 /\ LevelBelow(c, l) \in Nat
                      /\ LevelBelow(c, l) \in L \cup {0}
                      /\ LevelBelow(c, l) < l
                      /\ \A k \in L : k < l => k <= LevelBelow(c, l)
  BY LevelsBelow
<1>2. \A l \in L : Layer(c)[l] = l - LevelBelow(c, l)
  BY DEF Layer
<1>. HIDE DEF L
<1>. SUFFICES ASSUME Wrong # {} PROVE FALSE
  BY DEF L
<1>3. Wrong \in SUBSET Nat
  <2>1. \A k \in Wrong : k \in Nat
    BY <1>1
  <2>. HIDE DEF Wrong
  <2>. QED
    BY <2>1
<1>4. PICK k \in Wrong : \A j \in Wrong : k <= j
  <2>. HIDE DEF Wrong
  <2>. QED
    BY <1>3, LeastNatural
<1>5. CASE k = 0
  <2>1. Upto(0) = {}
    <3>1. \A l \in L : ~(l <= 0)
      <4>1. \A l \in L : l \in Nat /\ l > 0
        BY <1>1, Zenon
      <4>. QED
        BY <4>1
    <3>. QED
      BY <3>1
  <2>. HIDE DEF Upto
  <2>. QED
    BY <1>4, <1>5, <2>1, SumEmpty
<1>6. CASE k \in L
  <2>. DEFINE b == LevelBelow(c, k)
  <2>1. k \in Nat /\ b \in L \cup {0} /\ b \in Nat /\ b < k
    BY <1>1, <1>6
  <2>2. SumFunctionOnSet(Layer(c), Upto(b)) = b
    BY <1>4, <2>1
  <2>3. Upto(b) = Upto(k) \ {k} /\ k \in Upto(k)
    <3>1. \A l \in L : l \in Nat /\ (l <= b <=> l <= k /\ l # k)
      <4>. TAKE l \in L
      <4>1. l \in Nat /\ (l < k => l <= b)
        BY <1>1, <1>6
      <4>. HIDE DEF b
      <4>. QED
        BY <2>1, <4>1
    <3>2. k <= k
      BY <2>1
    <3>. HIDE DEF b
    <3>. QED
      BY <1>6, <3>1, <3>2, Zenon
  <2>4. IsFiniteSet(Upto(k)) /\ \A l \in Upto(k) : Layer(c)[l] \in Int
    <3>1. Upto(k) \in SUBSET L
      OBVIOUS
    <3>2. \A l \in L : Layer(c)[l] \in Int
      <4>. TAKE l \in L
      <4>1. l \in Nat /\ LevelBelow(c, l) \in Nat
        BY <1>1
      <4>. QED
        BY <1>2, <4>1
    <3>. QED
      BY <1>1, <3>1, <3>2, FS_Subset
  <2>5. Layer(c)[k] = k - b
    BY <1>2, <1>6
  <2>. HIDE DEF Upto, b
  <2>6. SumFunctionOnSet(Layer(c), Upto(k)) = Layer(c)[k] + SumFunctionOnSet(Layer(c), Upto(b))
    BY <2>3, <2>4, SumWithout
  <2>7. SumFunctionOnSet(Layer(c), Upto(k)) = k
    BY <2>1, <2>2, <2>5, <2>6
  <2>. QED
    BY <1>4, <2>7
<1>. QED
  BY <1>4, <1>5, <1>6

\* ChipsOfPots: the chips of pots, added up as a map over the set or as a function.
LEMMA ChipsOfPots ==
    ASSUME NEW P, IsFiniteSet(P)
    PROVE  MapThenSumSet(LAMBDA p : p.chips, P) = SumFunctionOnSet([p \in P |-> p.chips], P)
<1>. DEFINE f == [p \in P |-> p.chips]
            Direct(g) == g = [s \in SUBSET P |-> IF s = {} THEN 0
                                                 ELSE Pick(s).chips + g[s \ {Pick(s)}]]
            d == CHOOSE g : Direct(g)
            i == CHOOSE g : Adds(f, P, g)
<1>1. MapThenSumSet(LAMBDA p : p.chips, P) = d[P]
  BY DEF MapThenSumSet, MapThenFoldSet, Pick
<1>2. SumFunctionOnSet(f, P) = i[P]
  BY DEF SumFunctionOnSet, FoldFunctionOnSet, MapThenFoldSet, Adds, Pick
<1>3. ASSUME NEW g
      PROVE  Direct(g) <=> Adds(f, P, g)
  <2>1. \A s \in SUBSET P : s # {} => f[Pick(s)] = Pick(s).chips
    BY DEF Pick
  <2>2. [s \in SUBSET P |-> IF s = {} THEN 0 ELSE Pick(s).chips + g[s \ {Pick(s)}]]
            = [s \in SUBSET P |-> IF s = {} THEN 0 ELSE f[Pick(s)] + g[s \ {Pick(s)}]]
    <3>. HIDE DEF f
    <3>. QED
      BY <2>1
  <2>. QED
    BY <2>2 DEF Adds
<1>. HIDE DEF Direct, f
<1>4. Adds(f, P, i)
  BY AddsExist
<1>5. Adds(f, P, d)
  <2>1. Direct(i)
    BY <1>3, <1>4
  <2>2. Direct(d)
    BY <2>1
  <2>. QED
    BY <1>3, <2>2
<1>. HIDE DEF d, i
<1>6. d[P] = i[P]
  <2>1. P \in SUBSET P
    OBVIOUS
  <2>. QED
    BY <1>4, <1>5, <2>1, AddsOnce
<1>. QED
  BY <1>1, <1>2, <1>6 DEF f

\* PotOfLevel: a level has one pot, and what the pot holds is what each of its
\* contributors pays into it.
LEMMA PotOfLevel ==
    ASSUME NEW S, IsFiniteSet(S), NEW c \in [S -> Nat], NEW l \in PotLevels(c),
           NEW paid, paid = [s \in S |-> IF l <= c[s] THEN Layer(c)[l] ELSE 0]
    PROVE  /\ Layer(c)[l] \in Nat /\ Layer(c)[l] > 0
           /\ SidePot(c, l).level = l
           /\ SidePot(c, l).contribution = Layer(c)[l]
           /\ SidePot(c, l).contributors = {s \in S : l <= c[s]}
           /\ SidePot(c, l).chips = SumFunctionOnSet(paid, S)
           /\ SidePot(c, l).chips \in Nat
<1>. DEFINE A == {s \in S : l <= c[s]}
            w == Layer(c)[l]
<1>1. w \in Nat /\ w > 0 /\ w = l - LevelBelow(c, l)
  <2>1. l \in Nat /\ LevelBelow(c, l) \in Nat /\ LevelBelow(c, l) < l
    BY LevelsBelow
  <2>2. w = l - LevelBelow(c, l)
    BY DEF Layer
  <2>. HIDE DEF w
  <2>. QED
    BY <2>1, <2>2
<1>2. A = PotContributors(c, l) /\ A \in SUBSET S /\ IsFiniteSet(A)
  <2>1. l \in Nat
    BY LevelsBelow
  <2>. QED
    BY <2>1, FS_Subset DEF PotContributors
<1>3. /\ \A s \in S : paid[s] \in Int
      /\ \A s \in A : paid[s] = w
      /\ \A s \in S \ A : paid[s] = 0
  BY <1>1
<1>. HIDE DEF A, w
<1>4. SumFunctionOnSet(paid, S) = SumFunctionOnSet(paid, A)
  BY <1>2, <1>3, SumOver
<1>5. SumFunctionOnSet(paid, A) = Cardinality(A) * w
  <2>1. w \in Int /\ IsFiniteSet(A)
    BY <1>1, <1>2
  <2>. QED
    BY <1>3, <2>1, SumOfSame
<1>6. Cardinality(A) * w \in Nat
  BY <1>1, <1>2, FS_CardinalityType
<1>7. SidePot(c, l) = [level |-> l, contribution |-> w, contributors |-> A,
                       chips |-> Cardinality(A) * w]
  BY <1>1, <1>2 DEF SidePot
<1>. QED
  BY <1>1, <1>4, <1>5, <1>6, <1>7 DEF A, w

\* SidePotsHold: whatever was committed, the pots hold it all and nothing else
\* (side_pots.h:15-51).
THEOREM SidePotsHold ==
    ASSUME NEW S, IsFiniteSet(S), NEW c \in [S -> Nat]
    PROVE  /\ IsFiniteSet(LoadSidePots(c))
           /\ MapThenSumSet(LAMBDA p : p.chips, LoadSidePots(c)) = SumFunction(c)
<1>. DEFINE L == PotLevels(c)
            paid == [l \in L |-> [s \in S |-> IF l <= c[s] THEN Layer(c)[l] ELSE 0]]
            pays == [s \in S |-> [l \in L |-> IF l <= c[s] THEN Layer(c)[l] ELSE 0]]
            pot == [l \in L |-> SidePot(c, l)]
            P == LoadSidePots(c)
            chips == [p \in P |-> p.chips]
            layer == [l \in L |-> SumFunctionOnSet(paid[l], S)]
            stake == [s \in S |-> SumFunctionOnSet(pays[s], L)]
<1>1. IsFiniteSet(L) /\ \A l \in L : Layer(c)[l] \in Nat
  BY LevelsBelow, PotOfLevel
<1>2. P = {pot[l] : l \in L}
  BY DEF LoadSidePots
<1>3. \A l \in L : /\ pot[l].level = l /\ pot[l].chips = layer[l]
                   /\ layer[l] \in Int /\ pot[l] \in P
  <2>. TAKE l \in L
  <2>1. paid[l] = [s \in S |-> IF l <= c[s] THEN Layer(c)[l] ELSE 0]
    OBVIOUS
  <2>2. /\ pot[l] = SidePot(c, l) /\ layer[l] = SumFunctionOnSet(paid[l], S)
        /\ pot[l] \in P
    BY <1>2
  <2>. HIDE DEF L, paid, pot, layer, P
  <2>3. /\ SidePot(c, l).level = l
        /\ SidePot(c, l).chips = SumFunctionOnSet(paid[l], S)
        /\ SidePot(c, l).chips \in Nat
    BY <2>1, PotOfLevel DEF L
  <2>. QED
    BY <2>2, <2>3
<1>4. /\ IsFiniteSet(P)
      /\ SumFunctionOnSet(chips, P) = SumFunctionOnSet(layer, L)
  <2>1. \A k \in L, l \in L : pot[k] = pot[l] => k = l
    <3>. HIDE DEF pot, L
    <3>. QED
      BY <1>3
  <2>2. \A l \in L : layer[l] = chips[pot[l]] /\ layer[l] \in Int
    <3>. HIDE DEF pot, L, layer, P
    <3>. QED
      BY <1>3
  <2>. HIDE DEF pot, L, layer, chips, P
  <2>. QED
    BY <1>1, <1>2, <2>1, <2>2, SumImage
<1>5. MapThenSumSet(LAMBDA p : p.chips, P) = SumFunctionOnSet(chips, P)
  <2>. HIDE DEF P
  <2>. QED
    BY <1>4, ChipsOfPots
<1>6. SumFunctionOnSet(layer, L) = SumFunctionOnSet(stake, S)
  <2>1. \A l \in L, s \in S : paid[l][s] \in Int /\ pays[s][l] = paid[l][s]
    BY <1>1
  <2>. HIDE DEF L, paid, pays
  <2>. QED
    BY <1>1, <2>1, SumExchange, SMTT(30)
<1>7. \A s \in S : stake[s] = c[s]
  <2>. TAKE s \in S
  <2>. DEFINE A == {l \in L : l <= c[s]}
  <2>1. A \in SUBSET L /\ IsFiniteSet(A)
    BY <1>1, FS_Subset
  <2>2. /\ \A l \in L : pays[s][l] \in Int
        /\ \A l \in A : pays[s][l] = Layer(c)[l]
        /\ \A l \in L \ A : pays[s][l] = 0
    BY <1>1
  <2>3. stake[s] = SumFunctionOnSet(pays[s], L)
    OBVIOUS
  <2>4. c[s] \in L \cup {0}
    BY DEF PotLevels
  <2>5. SumFunctionOnSet(Layer(c), A) = c[s]
    <3>1. PICK k \in L \cup {0} : k = c[s]
      BY <2>4
    <3>2. SumFunctionOnSet(Layer(c), {l \in L : l <= k}) = k
      BY LayersReach
    <3>. QED
      BY <3>1, <3>2
  <2>. HIDE DEF A, L, pays, stake
  <2>6. SumFunctionOnSet(pays[s], L) = SumFunctionOnSet(pays[s], A)
    BY <1>1, <2>1, <2>2, SumOver
  <2>7. SumFunctionOnSet(pays[s], A) = SumFunctionOnSet(Layer(c), A)
    BY <2>1, <2>2, SumSame
  <2>. QED
    BY <2>3, <2>5, <2>6, <2>7
<1>8. SumFunctionOnSet(stake, S) = SumFunctionOnSet(c, S)
  <2>. HIDE DEF stake
  <2>. QED
    BY <1>7, SumSame
<1>9. SumFunction(c) = SumFunctionOnSet(c, S)
  BY DEF SumFunction
<1>. QED
  BY <1>4, <1>5, <1>6, <1>8, <1>9

\* PotFields: the pot of a level, whatever it holds.
LEMMA PotFields ==
    ASSUME NEW S, IsFiniteSet(S), NEW c \in [S -> Nat], NEW l \in PotLevels(c),
           NEW p, p = SidePot(c, l)
    PROVE  /\ Layer(c)[l] \in Nat /\ Layer(c)[l] > 0
           /\ p.level = l /\ p.contribution = Layer(c)[l]
           /\ p.contributors = {s \in S : l <= c[s]}
<1>1. PICK paid : paid = [s \in S |-> IF l <= c[s] THEN Layer(c)[l] ELSE 0]
  OBVIOUS
<1>. QED
  BY <1>1, PotOfLevel

\* SharesOfPots: what a contributor pays into pots, added up as a map over the
\* set or as a function.
LEMMA SharesOfPots ==
    ASSUME NEW P, IsFiniteSet(P)
    PROVE  MapThenSumSet(LAMBDA p : p.contribution, P) =
               SumFunctionOnSet([p \in P |-> p.contribution], P)
<1>. DEFINE f == [p \in P |-> p.contribution]
            Direct(g) == g = [s \in SUBSET P |-> IF s = {} THEN 0
                                                 ELSE Pick(s).contribution + g[s \ {Pick(s)}]]
            d == CHOOSE g : Direct(g)
            i == CHOOSE g : Adds(f, P, g)
<1>1. MapThenSumSet(LAMBDA p : p.contribution, P) = d[P]
  BY DEF MapThenSumSet, MapThenFoldSet, Pick
<1>2. SumFunctionOnSet(f, P) = i[P]
  BY DEF SumFunctionOnSet, FoldFunctionOnSet, MapThenFoldSet, Adds, Pick
<1>3. ASSUME NEW g
      PROVE  Direct(g) <=> Adds(f, P, g)
  <2>1. \A s \in SUBSET P : s # {} => f[Pick(s)] = Pick(s).contribution
    BY DEF Pick
  <2>2. [s \in SUBSET P |-> IF s = {} THEN 0 ELSE Pick(s).contribution + g[s \ {Pick(s)}]]
            = [s \in SUBSET P |-> IF s = {} THEN 0 ELSE f[Pick(s)] + g[s \ {Pick(s)}]]
    <3>. HIDE DEF f
    <3>. QED
      BY <2>1
  <2>. QED
    BY <2>2 DEF Adds
<1>. HIDE DEF Direct, f
<1>4. Adds(f, P, i)
  BY AddsExist
<1>5. Adds(f, P, d)
  <2>1. Direct(i)
    BY <1>3, <1>4
  <2>2. Direct(d)
    BY <2>1
  <2>. QED
    BY <1>3, <2>2
<1>. HIDE DEF d, i
<1>6. d[P] = i[P]
  <2>1. P \in SUBSET P
    OBVIOUS
  <2>. QED
    BY <1>4, <1>5, <2>1, AddsOnce
<1>. QED
  BY <1>1, <1>2, <1>6 DEF f

\* SharesReturnCommitment: whatever the others committed, a seat pays into the
\* pots it contributes to just what it committed (side_pots.h:31-44).
THEOREM SharesReturnCommitment ==
    ASSUME NEW S, IsFiniteSet(S), NEW c \in [S -> Nat], NEW s \in S
    PROVE  MapThenSumSet(LAMBDA p : p.contribution, {p \in LoadSidePots(c) : s \in p.contributors})
               = c[s]
<1>. DEFINE L == PotLevels(c)
            A == {l \in L : l <= c[s]}
            pot == [l \in L |-> SidePot(c, l)]
            Q == {p \in LoadSidePots(c) : s \in p.contributors}
            share == [p \in Q |-> p.contribution]
<1>1. IsFiniteSet(L) /\ A \in SUBSET L /\ IsFiniteSet(A)
  <2>1. IsFiniteSet(L)
    BY LevelsBelow
  <2>. QED
    BY <2>1, FS_Subset
<1>2. \A l \in L : /\ pot[l].level = l /\ pot[l].contribution = Layer(c)[l]
                   /\ pot[l].contributors = {v \in S : l <= c[v]}
                   /\ Layer(c)[l] \in Int
  BY PotFields
<1>3. Q = {pot[l] : l \in A}
  <2>1. LoadSidePots(c) = {pot[l] : l \in L}
    BY DEF LoadSidePots
  <2>2. \A l \in L : s \in pot[l].contributors <=> l \in A
    <3>. HIDE DEF pot, L
    <3>. QED
      BY <1>2
  <2>. HIDE DEF pot, L
  <2>. QED
    BY <1>1, <2>1, <2>2
<1>4. /\ IsFiniteSet({pot[l] : l \in A})
      /\ SumFunctionOnSet(share, {pot[l] : l \in A}) = SumFunctionOnSet(Layer(c), A)
  <2>1. \A k \in A, l \in A : pot[k] = pot[l] => k = l
    <3>. HIDE DEF pot, L
    <3>. QED
      BY <1>1, <1>2
  <2>2. \A l \in A : Layer(c)[l] = share[pot[l]] /\ Layer(c)[l] \in Int
    <3>1. \A l \in A : pot[l] \in Q
      BY <1>3
    <3>. HIDE DEF pot, L, A, Q
    <3>. QED
      BY <1>1, <1>2, <3>1
  <2>. HIDE DEF pot, L, A, share, Q
  <2>. QED
    BY <1>1, <2>1, <2>2, SumImage
<1>5. SumFunctionOnSet(Layer(c), A) = c[s]
  <2>1. c[s] \in L \cup {0}
    BY DEF PotLevels
  <2>2. PICK k \in L \cup {0} : k = c[s]
    BY <2>1
  <2>3. SumFunctionOnSet(Layer(c), {l \in L : l <= k}) = k
    BY LayersReach
  <2>. QED
    BY <2>2, <2>3
<1>6. MapThenSumSet(LAMBDA p : p.contribution, Q) = SumFunctionOnSet(share, Q)
  <2>1. IsFiniteSet(Q)
    BY <1>3, <1>4
  <2>. HIDE DEF Q
  <2>. QED
    BY <2>1, SharesOfPots
<1>. QED
  BY <1>3, <1>4, <1>5, <1>6

\* PotsLieAbove: pots of one hand have different levels and hold chips, and the
\* higher one is contested by fewer (side_pots.h:24-37).
THEOREM PotsLieAbove ==
    ASSUME NEW S, IsFiniteSet(S), NEW c \in [S -> Nat],
           NEW p \in LoadSidePots(c), NEW q \in LoadSidePots(c)
    PROVE  /\ p.chips > 0
           /\ p.level < q.level =>
                  q.contributors \subseteq p.contributors /\ q.contributors # p.contributors
           /\ p.level = q.level => p = q
<1>1. PICK k \in PotLevels(c) : p = SidePot(c, k)
  BY DEF LoadSidePots
<1>2. PICK l \in PotLevels(c) : q = SidePot(c, l)
  BY DEF LoadSidePots
<1>3. /\ p.level = k /\ p.contributors = {s \in S : k <= c[s]}
      /\ p.contribution = Layer(c)[k] /\ Layer(c)[k] \in Nat /\ Layer(c)[k] > 0
  BY <1>1, PotFields
<1>4. q.level = l /\ q.contributors = {s \in S : l <= c[s]}
  BY <1>2, PotFields
<1>5. k \in Nat /\ l \in Nat
  BY LevelsBelow
<1>6. PICK s \in S : c[s] = k
  BY DEF PotLevels
<1>7. p.chips > 0
  <2>. DEFINE A == PotContributors(c, k)
  <2>1. A \in SUBSET S /\ s \in A
    BY <1>5, <1>6 DEF PotContributors
  <2>. HIDE DEF A
  <2>2. IsFiniteSet(A) /\ Cardinality(A) \in Nat /\ Cardinality(A) # 0
    BY <2>1, FS_Subset, FS_CardinalityType, FS_EmptySet
  <2>3. p.chips = Cardinality(A) * p.contribution
    BY <1>1 DEF SidePot, A
  <2>4. \A i, j \in Nat : i # 0 /\ j > 0 => i * j > 0
    OBVIOUS
  <2>. QED
    BY <1>3, <2>2, <2>3, <2>4
<1>8. ASSUME k < l
      PROVE  q.contributors \subseteq p.contributors /\ q.contributors # p.contributors
  <2>1. \A v \in S : l <= c[v] => k <= c[v]
    <3>. TAKE v \in S
    <3>1. c[v] \in Nat
      OBVIOUS
    <3>. QED
      BY <1>5, <1>8, <3>1
  <2>2. s \in p.contributors /\ s \notin q.contributors
    BY <1>3, <1>4, <1>5, <1>6, <1>8
  <2>. QED
    BY <1>3, <1>4, <2>1, <2>2
<1>. QED
  BY <1>1, <1>2, <1>3, <1>4, <1>7, <1>8

-----------------------------------------------------------------------------
(* Sequences put one after the other.  FlattenSeq is a recursive function  *)
(* on the places of a sequence.                                            *)

Flattens(ss, n, g) ==
    g = [i \in 1..n |-> IF i = 1 THEN ss[i] ELSE g[i - 1] \o ss[i]]

\* FlattensExist: any number of sequences can be put one after the other.
LEMMA FlattensExist ==
    ASSUME NEW ss, NEW n \in Nat
    PROVE  \E g : Flattens(ss, n, g)
<1>. DEFINE P == {m \in Nat : ~ \E g : Flattens(ss, m, g)}
<1>. SUFFICES ASSUME P # {} PROVE FALSE
  OBVIOUS
<1>1. PICK m \in P : \A k \in P : m <= k
  <2>1. P \in SUBSET Nat
    OBVIOUS
  <2>. HIDE DEF P
  <2>. QED
    BY <2>1, LeastNatural
<1>2. m # 0
  <2>1. Flattens(ss, 0, [i \in 1..0 |-> 0])
    BY DEF Flattens
  <2>. QED
    BY <2>1
<1>3. m \in Nat /\ m - 1 \in Nat /\ m - 1 \notin P
  BY <1>1, <1>2
<1>4. PICK g : Flattens(ss, m - 1, g)
  BY <1>3
<1>. DEFINE h == [i \in 1..m |-> IF i = 1 THEN ss[i]
                                 ELSE IF i = m THEN g[m - 1] \o ss[m] ELSE g[i]]
<1>5. \A i \in 1..(m - 1) : g[i] = IF i = 1 THEN ss[i] ELSE g[i - 1] \o ss[i]
  BY <1>4 DEF Flattens
<1>6. \A i \in 1..(m - 1) : h[i] = g[i]
  BY <1>3, <1>5
<1>7. \A i \in 1..m : h[i] = IF i = 1 THEN ss[i] ELSE h[i - 1] \o ss[i]
  <2>1. ASSUME NEW i \in 1..m, i # 1, i # m
        PROVE  h[i] = h[i - 1] \o ss[i]
    <3>1. i \in 1..(m - 1) /\ i - 1 \in 1..(m - 1) /\ h[i] = g[i]
      BY <1>3, <2>1
    <3>. HIDE DEF h
    <3>. QED
      BY <1>5, <1>6, <2>1, <3>1
  <2>2. ASSUME m # 1
        PROVE  h[m] = h[m - 1] \o ss[m]
    <3>1. m - 1 \in 1..(m - 1) /\ m \in 1..m
      BY <1>2, <1>3, <2>2
    <3>2. h[m] = g[m - 1] \o ss[m]
      BY <2>2, <3>1
    <3>. HIDE DEF h
    <3>. QED
      BY <1>6, <3>1, <3>2
  <2>3. 1 \in 1..m => h[1] = ss[1]
    OBVIOUS
  <2>. HIDE DEF h
  <2>. QED
    BY <2>1, <2>2, <2>3
<1>8. Flattens(ss, m, h)
  <2>1. h = [i \in 1..m |-> h[i]]
    OBVIOUS
  <2>. HIDE DEF h
  <2>2. [i \in 1..m |-> h[i]] = [i \in 1..m |-> IF i = 1 THEN ss[i] ELSE h[i - 1] \o ss[i]]
    BY <1>7
  <2>. QED
    BY <2>1, <2>2 DEF Flattens
<1>. QED
  BY <1>1, <1>8

\* Flattened: what such a function says of FlattenSeq.
LEMMA Flattened ==
    ASSUME NEW ss, Len(ss) \in Nat, Len(ss) # 0
    PROVE  \E g : Flattens(ss, Len(ss), g) /\ FlattenSeq(ss) = g[Len(ss)]
<1>. DEFINE g == CHOOSE h : Flattens(ss, Len(ss), h)
<1>1. Flattens(ss, Len(ss), g)
  BY FlattensExist
<1>2. FlattenSeq(ss) = g[Len(ss)]
  BY DEF FlattenSeq, Flattens
<1>. QED
  BY <1>1, <1>2

\* FlattenOne: one sequence is itself.
LEMMA FlattenOne ==
    ASSUME NEW s, NEW ss, ss = [i \in 1..1 |-> s]
    PROVE  FlattenSeq(ss) = s
<1>1. Len(ss) = 1 /\ ss[1] = s /\ Len(ss) \in Nat /\ Len(ss) # 0
  OBVIOUS
<1>2. PICK g : Flattens(ss, Len(ss), g) /\ FlattenSeq(ss) = g[Len(ss)]
  BY <1>1, Flattened
<1>3. g = [i \in 1..1 |-> IF i = 1 THEN ss[i] ELSE g[i - 1] \o ss[i]]
  BY <1>1, <1>2 DEF Flattens
<1>. QED
  BY <1>1, <1>2, <1>3

\* FlattenNone: no sequences come to none.
LEMMA FlattenNone == \A W : \A ss \in [1..0 -> Seq(W)] : FlattenSeq(ss) = << >>
<1>. TAKE W
<1>. TAKE ss \in [1..0 -> Seq(W)]
<1>1. Len(ss) = 0 /\ ss \in Seq(Seq(W))
  OBVIOUS
<1>2. ss = << >> /\ FlattenSeq(ss) = ss
  BY <1>1, EmptySeq DEF FlattenSeq
<1>. QED
  BY <1>2

\* FlattenKeeps: what holds of all members of all sequences holds of theirs.
LEMMA FlattenKeeps ==
    ASSUME NEW W, NEW n \in Nat, NEW ss, ss \in [1..n -> Seq(W)]
    PROVE  FlattenSeq(ss) \in Seq(W)
<1>1. Len(ss) = n
  OBVIOUS
<1>2. CASE n = 0
  <2>1. FlattenSeq(ss) = << >>
    BY <1>2, FlattenNone
  <2>. QED
    BY <2>1, EmptySeq
<1>3. CASE n # 0
  <2>1. PICK g : Flattens(ss, n, g) /\ FlattenSeq(ss) = g[n]
    BY <1>1, <1>3, Flattened
  <2>2. \A i \in 1..n : g[i] = IF i = 1 THEN ss[i] ELSE g[i - 1] \o ss[i]
    BY <2>1 DEF Flattens
  <2>. DEFINE P == {i \in 1..n : g[i] \notin Seq(W)}
  <2>. SUFFICES ASSUME P # {} PROVE FALSE
    <3>1. n \in 1..n
      BY <1>3
    <3>. QED
      BY <2>1, <3>1
  <2>3. PICK m \in P : \A k \in P : m <= k
    <3>1. P \in SUBSET Nat
      OBVIOUS
    <3>. HIDE DEF P
    <3>. QED
      BY <3>1, LeastNatural
  <2>4. m \in 1..n /\ g[m] \notin Seq(W)
    BY <2>3
  <2>5. m # 1
    BY <2>2, <2>4
  <2>6. m - 1 \in 1..n /\ m - 1 \notin P
    BY <2>3, <2>4, <2>5
  <2>7. g[m - 1] \in Seq(W) /\ ss[m] \in Seq(W) /\ g[m] = g[m - 1] \o ss[m]
    BY <2>2, <2>4, <2>5, <2>6
  <2>. QED
    BY <2>4, <2>7
<1>. QED
  BY <1>2, <1>3

\* FlattenLast: the last of the sequences comes last.
LEMMA FlattenLast ==
    ASSUME NEW W, NEW n \in Nat, NEW ss \in [1..(n + 1) -> Seq(W)],
           NEW tt, tt = [i \in 1..n |-> ss[i]]
    PROVE  FlattenSeq(ss) = FlattenSeq(tt) \o ss[n + 1]
<1>1. PICK m : m = n + 1
  OBVIOUS
<1>2. PICK g : Flattens(ss, m, g) /\ FlattenSeq(ss) = g[m]
  <2>1. Len(ss) = m /\ m \in Nat /\ m # 0
    BY <1>1
  <2>. QED
    BY <2>1, Flattened
<1>3. /\ g[1] = ss[1] /\ ss[1] \in Seq(W)
      /\ \A i \in 1..n : g[i + 1] = g[i] \o ss[i + 1] /\ ss[i + 1] \in Seq(W)
  <2>1. \A i \in 1..m : g[i] = IF i = 1 THEN ss[i] ELSE g[i - 1] \o ss[i]
    BY <1>2 DEF Flattens
  <2>2. 1 \in 1..m /\ ss[1] \in Seq(W)
    BY <1>1
  <2>3. ASSUME NEW i \in 1..n
        PROVE  g[i + 1] = g[i] \o ss[i + 1] /\ ss[i + 1] \in Seq(W)
    <3>1. PICK k : k = i + 1
      OBVIOUS
    <3>2. k \in 1..m /\ k # 1 /\ k - 1 = i /\ k \in 1..(n + 1)
      BY <1>1, <3>1
    <3>3. g[k] = g[k - 1] \o ss[k] /\ ss[k] \in Seq(W)
      BY <2>1, <3>2
    <3>. QED
      BY <3>1, <3>2, <3>3
  <2>. QED
    BY <2>1, <2>2, <2>3
<1>4. CASE n = 0
  <2>1. tt \in [1..0 -> Seq(W)]
    BY <1>4
  <2>2. FlattenSeq(tt) = << >>
    BY <2>1, FlattenNone
  <2>3. << >> \o ss[1] = ss[1]
    BY <1>3, ConcatEmptySeq
  <2>. QED
    BY <1>1, <1>2, <1>3, <1>4, <2>2, <2>3
<1>5. CASE n # 0
  <2>1. Len(tt) = n
    OBVIOUS
  <2>2. PICK h : Flattens(tt, n, h) /\ FlattenSeq(tt) = h[n]
    BY <1>5, <2>1, Flattened
  <2>3. \A i \in 1..n : h[i] = IF i = 1 THEN ss[i] ELSE h[i - 1] \o ss[i]
    BY <2>2 DEF Flattens
  <2>. DEFINE Q == {i \in 1..n : g[i] = h[i]}
  <2>4. 1 \in Q
    BY <1>3, <1>5, <2>3
  <2>5. ASSUME NEW k \in 2..n, k - 1 \in Q
        PROVE  k \in Q
    <3>1. PICK i : i = k - 1
      OBVIOUS
    <3>2. i \in 1..n /\ k \in 1..n /\ k # 1 /\ i + 1 = k
      BY <3>1
    <3>3. g[k] = g[i] \o ss[k] /\ h[k] = h[i] \o ss[k]
      BY <1>3, <2>3, <3>1, <3>2
    <3>. QED
      BY <2>5, <3>1, <3>2, <3>3
  <2>6. \A k \in 1..n : k \in Q
    <3>. HIDE DEF Q
    <3>. QED
      BY <2>4, <2>5, CountUp
  <2>7. n \in 1..n /\ g[n] = h[n]
    BY <1>5, <2>6
  <2>8. g[n + 1] = g[n] \o ss[n + 1]
    BY <1>3, <2>7
  <2>. QED
    BY <1>1, <1>2, <2>2, <2>7, <2>8
<1>. QED
  BY <1>4, <1>5

\* FlattenFirst: the first of the sequences comes first.
LEMMA FlattenFirst ==
    ASSUME NEW W, NEW n \in Nat, NEW ss \in [1..(n + 1) -> Seq(W)],
           NEW tt \in [1..n -> Seq(W)], \A i \in 1..n : tt[i] = ss[i + 1]
    PROVE  FlattenSeq(ss) = ss[1] \o FlattenSeq(tt)
<1>1. PICK m : m = n + 1
  OBVIOUS
<1>2. PICK g : Flattens(ss, m, g) /\ FlattenSeq(ss) = g[m]
  <2>1. Len(ss) = m /\ m \in Nat /\ m # 0
    BY <1>1
  <2>. QED
    BY <2>1, Flattened
<1>3. /\ g[1] = ss[1] /\ ss[1] \in Seq(W)
      /\ \A i \in 1..n : g[i + 1] = g[i] \o ss[i + 1] /\ ss[i + 1] \in Seq(W)
  <2>1. \A i \in 1..m : g[i] = IF i = 1 THEN ss[i] ELSE g[i - 1] \o ss[i]
    BY <1>2 DEF Flattens
  <2>2. 1 \in 1..m /\ ss[1] \in Seq(W)
    BY <1>1
  <2>3. ASSUME NEW i \in 1..n
        PROVE  g[i + 1] = g[i] \o ss[i + 1] /\ ss[i + 1] \in Seq(W)
    <3>1. PICK k : k = i + 1
      OBVIOUS
    <3>2. k \in 1..m /\ k # 1 /\ k - 1 = i /\ k \in 1..(n + 1)
      BY <1>1, <3>1
    <3>3. g[k] = g[k - 1] \o ss[k] /\ ss[k] \in Seq(W)
      BY <2>1, <3>2
    <3>. QED
      BY <3>1, <3>2, <3>3
  <2>. QED
    BY <2>1, <2>2, <2>3
<1>4. CASE n = 0
  <2>1. tt \in [1..0 -> Seq(W)]
    BY <1>4
  <2>2. FlattenSeq(tt) = << >>
    BY <2>1, FlattenNone
  <2>. QED
    BY <1>1, <1>2, <1>3, <1>4, <2>2, ConcatEmptySeq
<1>5. CASE n # 0
  <2>1. Len(tt) = n
    OBVIOUS
  <2>2. PICK h : Flattens(tt, n, h) /\ FlattenSeq(tt) = h[n]
    BY <1>5, <2>1, Flattened
  <2>3. \A i \in 1..n : h[i] = IF i = 1 THEN ss[i + 1] ELSE h[i - 1] \o ss[i + 1]
    BY <2>2 DEF Flattens
  <2>. DEFINE Q == {i \in 1..n : h[i] \in Seq(W) /\ g[i + 1] = ss[1] \o h[i]}
  <2>4. 1 \in Q
    <3>1. 1 \in 1..n
      BY <1>5
    <3>2. h[1] = ss[1 + 1] /\ g[1 + 1] = g[1] \o ss[1 + 1] /\ ss[1 + 1] \in Seq(W)
      BY <1>3, <2>3, <3>1
    <3>. QED
      BY <1>3, <3>1, <3>2
  <2>5. ASSUME NEW k \in 2..n, k - 1 \in Q
        PROVE  k \in Q
    <3>1. PICK i : i = k - 1
      OBVIOUS
    <3>2. k \in 1..n /\ k # 1 /\ i + 1 = k
      BY <3>1
    <3>3. h[i] \in Seq(W) /\ g[i + 1] = ss[1] \o h[i]
      BY <2>5, <3>1
    <3>4. PICK first, next, hi : first = ss[1] /\ next = ss[k + 1] /\ hi = h[i]
      OBVIOUS
    <3>5. g[k + 1] = g[k] \o next /\ h[k] = hi \o next /\ next \in Seq(W) /\ first \in Seq(W)
      BY <1>3, <2>3, <3>1, <3>2, <3>4
    <3>6. hi \in Seq(W) /\ g[k] = first \o hi
      BY <3>2, <3>3, <3>4
    <3>7. (first \o hi) \o next = first \o (hi \o next)
      <4>1. first \in Seq(W) /\ hi \in Seq(W) /\ next \in Seq(W)
        BY <3>5, <3>6
      <4>. QED
        BY <4>1, ConcatAssociative, SMTT(30)
    <3>8. hi \o next \in Seq(W)
      BY <3>5, <3>6, ConcatProperties
    <3>. QED
      BY <3>2, <3>4, <3>5, <3>6, <3>7, <3>8
  <2>6. \A k \in 1..n : k \in Q
    <3>. HIDE DEF Q
    <3>. QED
      BY <2>4, <2>5, CountUp
  <2>7. n \in 1..n
    BY <1>5
  <2>8. g[n + 1] = ss[1] \o h[n]
    BY <2>6, <2>7
  <2>. QED
    BY <1>1, <1>2, <2>2, <2>8
<1>. QED
  BY <1>4, <1>5
=============================================================================
