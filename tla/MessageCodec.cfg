SPECIFICATION Spec
CONSTANTS
  Radix = 2
  Types <- MCTypes
  Words <- MCWords
  LongWords <- MCLongWords
  Strings <- MCStrings
  Blocks <- MCBlocks
  MaxPayload = 15
  MaxMessages = 2
INVARIANTS
  RoundTrip
  CutIsRefused
  FieldsReadBack
CHECK_DEADLOCK FALSE
