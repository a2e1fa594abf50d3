SPECIFICATION LateSpec
CONSTANTS
  Parties <- MCParties
  Callers <- MCCallers
  Budget <- MCBudget
  Late <- MCLate
CONSTRAINTS
  SendersOnlySend
INVARIANTS
  LateInv
  EachMessageOnce
  LaterOnesAreHandled
  OnlyEarlyOvertaken
CHECK_DEADLOCK FALSE
