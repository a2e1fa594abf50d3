SPECIFICATION Spec
CONSTANTS
  N = 3
  Q = 5
  Locals <- MCLocals
  Coins <- MCCoins
  Draws <- MCDraws
  RandomEps = 3
  RandomRho = 4
INVARIANTS
  SharingInv
  ResultsAreRight
  AssertionsHold
  Authenticated
  SharesHideSecret
CHECK_DEADLOCK FALSE
