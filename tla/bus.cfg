SPECIFICATION Spec
CONSTANTS
  NumPlayers = 3
  BigBlind = 2
  BuyIn <- BusBuyIn
  TargetBet <- BusTargetBet
  HandValue <- BusHandValue
INVARIANTS
  TypeOK
  TurnIsActive
  AllInExact
  SeatLedger
  ChipsConserved
  RoundBetIsHighest
  BoardMatchesStreet
PROPERTY OutIsFinal
