SPECIFICATION ConsoleSpec
CONSTANTS
  NumPlayers = 4
  BigBlind = 2
  BuyIn <- BusBuyIn
  TargetBet <- BusTargetBet
  HandValue <- BusHandValue
INVARIANTS
  AnsweredMeansMatched
  StreetsSettledEqually
PROPERTY RoundRefinement
