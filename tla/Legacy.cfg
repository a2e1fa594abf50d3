SPECIFICATION FairSpec
CONSTANTS
  N = 3
  Sizes = {2, 3}
  Flows = {"SecretSum", "PlainSum", "Distribution", "PartialSums", "SyncedSum", "SyncedShares"}
INVARIANTS
  TypeOK
  DistributionIsExact
  FinishedSumIsRight
  FinishedAfterAll
  SyncIsBarrier
PROPERTIES
  EveryCallReturns
CHECK_DEADLOCK FALSE
