----------------------------- MODULE SidePots ------------------------------
(***************************************************************************)
(* include/core/algo/side_pots.h: load_side_pots.  committed maps each     *)
(* seat that is playing to what it put in during the hand.  A pot is named *)
(* by its level, so the vector ordered by level is a set of records here.  *)
(***************************************************************************)
EXTENDS Integers, FiniteSets, FiniteSetsExt

PotLevels(committed) == {committed[s] : s \in DOMAIN committed} \ {0}

\* Mutation: last_level is never moved.
LevelBelowZero(committed, level) == 0

\* The level below, which the code carries in last_level.
LevelBelow(committed, level) ==
    Max({0} \cup {l \in PotLevels(committed) : l < level})

\* Mutation: whoever put in anything contributes to every pot.
PotContributorsAll(committed, level) == {s \in DOMAIN committed : committed[s] > 0}

PotContributors(committed, level) == {s \in DOMAIN committed : committed[s] >= level}

SidePot(committed, level) ==
    LET contribution == level - LevelBelow(committed, level)
        contributors == PotContributors(committed, level)
    IN  [level        |-> level,
         contribution |-> contribution,
         contributors |-> contributors,
         chips        |-> Cardinality(contributors) * contribution]

LoadSidePots(committed) ==
    {SidePot(committed, level) : level \in PotLevels(committed)}
=============================================================================
