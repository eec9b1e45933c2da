SPECIFICATION FairConsoleSpec
CONSTANTS
  NumPlayers = 3
  BigBlind = 2
  BuyIn <- MCBuyIn
  TargetBet <- MCTargetBet
  HandValue <- MCHandValue
INVARIANTS
  PotsCoverPot
  PotPaidOut
PROPERTY HandFinishes
