SPECIFICATION Spec
CONSTANTS
  Parties <- MCParties
  Callers <- MCCallers
  Budget <- MCBudget
INVARIANTS
  NobodySleepsOnAMessage
  CommInv
PROPERTIES
  QuietAfterShutdown
  ImplementsMailbox
CHECK_DEADLOCK FALSE
