SPECIFICATION FairSpec
CONSTANTS
  N = 3
  Prompt = FALSE
INVARIANTS
  IInv
  RepliesAligned
  RepliesOnlyToDealer
  OpeningComplete
  DealerQuietWhileOpening
  CommandFindsItsData
  RevealAfterAllOpened
PROPERTIES
  ExitLosesNothing
  ImplementsBarrier
  CompletesOrDies
CHECK_DEADLOCK FALSE
