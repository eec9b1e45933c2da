----------------------------- MODULE MCSidePots ----------------------------
(***************************************************************************)
(* load_side_pots over every commitment of a few seats.                    *)
(***************************************************************************)
EXTENDS SidePots, Functions

CONSTANTS PotSeats, MaxCommitted

ASSUME PotSeatsAssumption == IsFiniteSet(PotSeats)
ASSUME MaxCommittedAssumption == MaxCommitted \in Nat

VARIABLE commitment

PotInit == commitment \in [PotSeats -> 0..MaxCommitted]
NoPots == commitment = [s \in PotSeats |-> 0]

MCPots == LoadSidePots(commitment)

\* PotsReturnCommitments: what a seat pays into the pots it contributes to is
\* what it committed, so the pots hold the commitments and nothing else.
PotsReturnCommitments ==
    /\ \A s \in PotSeats :
          MapThenSumSet(LAMBDA p : p.contribution, {p \in MCPots : s \in p.contributors})
              = commitment[s]
    /\ MapThenSumSet(LAMBDA p : p.chips, MCPots) = SumFunction(commitment)

\* PotsAreLayers: a pot above another is contested by strictly fewer seats,
\* every pot holds chips, and no two pots have one level.
PotsAreLayers ==
    \A p, q \in MCPots :
        /\ p.chips > 0
        /\ p.level < q.level => q.contributors \subseteq p.contributors /\ q.contributors # p.contributors
        /\ p.level = q.level => p = q
=============================================================================
