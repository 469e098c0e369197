CONSTANTS
  BitsPerByte = 2
  Selected <- OnlyPresent
SPECIFICATION Spec
INVARIANTS
  HandlerOnlyForMissingFields
CHECK_DEADLOCK FALSE
