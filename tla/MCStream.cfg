SPECIFICATION FairSpec
CONSTANTS
  Handlers <- AllHandlers
  Tokens <- SomeTokens
  MaxMessages = 3
INVARIANTS
  UsageAccounted
  DoneIsAll
PROPERTIES
  ImplementsDelivery
  RequestEnds
  StreamEnds
CHECK_DEADLOCK FALSE
