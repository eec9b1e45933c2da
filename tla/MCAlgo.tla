------------------------------- MODULE MCAlgo ------------------------------
(***************************************************************************)
(* The functions of include/core/algo, which keep no state: every state is *)
(* one input of one of them.                                               *)
(***************************************************************************)
EXTENDS MCChipsCalc, MCSidePots, MCHandEval

algoVars == <<calcVars, commitment, evalVars>>

AlgoInit ==
    \/ CalcInit /\ NoPots /\ NoEval
    \/ NoCalc /\ PotInit /\ NoEval
    \/ NoCalc /\ NoPots /\ EvalInit

AlgoSpec == AlgoInit /\ [][UNCHANGED algoVars]_algoVars
=============================================================================
