SPECIFICATION FairSpec
CONSTANTS
  N = 2
  Prompt = TRUE
PROPERTIES
  AllPartiesFinish
CHECK_DEADLOCK FALSE
