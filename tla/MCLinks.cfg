SPECIFICATION MCSpec
CONSTANTS
  None = None
  Nodes = {"a", "b"}
  MaxEvents <- MCMaxEvents
  Flat = {2}
  MaxConns = 2
  Scenarios = {"out", "reuse", "dir", "in", "bus", "nodes", "codec", "monitor", "stream", "log", "frame"}
INVARIANTS VirtualCanInv EventsAreSentOnce SinkIsFaithful MessagesSurvive
PROPERTY LinksMakeProgress
CHECK_DEADLOCK FALSE
