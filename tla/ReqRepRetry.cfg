SPECIFICATION Spec
CONSTANTS
  N = 3
  Targets <- MCTargets
  Closers = {}
  Cramped = {}
  MaxCalls = 1
  MaxInterrupts = 1
  MaxRetries = 5
INVARIANTS
  RetriesGetThrough
CHECK_DEADLOCK FALSE
