CONSTANTS
  BitsPerByte = 2
  Selected <- AllButPresent
SPECIFICATION Spec
INVARIANTS
  TypeOK
  ControlStaysOnInstructions
  MessagesArrive
  SerializersAgree
  StacksAreBalanced
  SnapshotsRestore
PROPERTIES
  SwapsExchange
  BranchesHitTheirLabels
  WritesStayInside
  ProgramsEnd
CHECK_DEADLOCK FALSE
