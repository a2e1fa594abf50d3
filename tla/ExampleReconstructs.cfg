SPECIFICATION ExampleSpec
CONSTANTS
  Parties <- MCParties
  Callers <- MCCallers
  Budget <- MCBudget
PROPERTIES
  AllPartiesReconstruct
CHECK_DEADLOCK FALSE
