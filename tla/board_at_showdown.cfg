SPECIFICATION ConsoleSpec
CONSTANTS
  NumPlayers = 3
  BigBlind = 2
  BuyIn <- MCBuyIn
  TargetBet <- MCTargetBet
  HandValue <- MCHandValue
INVARIANT HandsHaveBoards
