SPECIFICATION ConsoleBusSpec
CONSTANTS
  NumPlayers = 3
  BigBlind = 2
  BuyIn <- MCBuyIn
  TargetBet <- MCTargetBet
  HandValue <- MCHandValue
  Subscribers <- ConsoleSubscribers
  StartedCounts = {0}
INVARIANTS
  EventsAreCurrent
  TurnsAreTailCalls
PROPERTY AtomicSteps
