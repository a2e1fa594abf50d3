SPECIFICATION FairSpec
CONSTANTS
  N = 2
  Prompt = TRUE
PROPERTIES
  SessionCompletes
CHECK_DEADLOCK FALSE
