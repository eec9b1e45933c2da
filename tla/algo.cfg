SPECIFICATION AlgoSpec
CONSTANTS
  MaxChips = 4
  MaxWinners = 5
  Half = 8
  PotSeats = {0, 1, 2, 3}
  MaxCommitted = 4
  RankSets <- MCRankSets
  SevenDeck <- MCSevenDeck
INVARIANTS
  ConsoleAndTableAgree
  WidthIsHarmless
  ClassifiedByEffect
  RaisesAreFull
  AwardsAreThePot
  PotsReturnCommitments
  PotsAreLayers
  HandsRankByTheRules
  BestFiveFound
