SPECIFICATION ClientGameSpec
CONSTANTS
  NumPlayers = 3
  BigBlind = 2
  BuyIn <- MCBuyIn
  TargetBet <- MCTargetBet
  HandValue <- MCHandValue
  Subscribers <- ServerSubscribers
  StartedCounts = {0}
  DefaultChips = 5
  ClientIds = {1}
  SeatGuess = {1, 2}
INVARIANT ClientSurvives
