SPECIFICATION FairSpec
CONSTANTS
  Parties <- MCParties
  Callers <- MCOneCaller
  Budget <- MCOneWay
CONSTRAINTS
  SenderHasHandler
PROPERTIES
  ShutdownReturns
  SentIsDelivered
  ReceiveReturns
CHECK_DEADLOCK FALSE
