SPECIFICATION FairSpec
CONSTANTS
  N = 3
  Targets <- MCTargets
  Closers = {3}
  Cramped = {1, 2, 3}
  MaxCalls = 2
  MaxInterrupts = 1
  MaxRetries = 2
INVARIANTS
  ReqRepInv
  LockStep
  AnswerIsForThisCall
  OnlyFailuresFail
PROPERTIES
  SendReturns
CHECK_DEADLOCK FALSE
