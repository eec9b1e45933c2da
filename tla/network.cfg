SPECIFICATION FairNetworkSpec
CONSTANTS
  NumClients = 2
  ServerMessage = {"PlayerActed"}
  ClientMessage = {"PlayerAction"}
  Garbled = Garbled
  NoPart = NoPart
  SocketBuffer = 1
  QueueBound = 2
  AnswerBound = 1
INVARIANTS
  StreamsUnbroken
PROPERTIES
  PacketsInOrder
  ClientsServed
  ClientsHeard
  LossNoticed
CHECK_DEADLOCK FALSE
