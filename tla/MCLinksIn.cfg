SPECIFICATION MCSpec
CONSTANTS
  None = None
  Nodes = {"a", "b"}
  MaxEvents <- MCMaxEvents
  Flat = {2}
  MaxConns = 2
  Scenarios = {"in"}
PROPERTY VirtualInChannelReads
CHECK_DEADLOCK FALSE
