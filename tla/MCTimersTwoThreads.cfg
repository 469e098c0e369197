SPECIFICATION Spec
CONSTANTS
  TimerSlots = 2
  Fds = 2
  Names <- MCTwoNames
  Paths = {"ast", "action"}
  Periodics = {TRUE, FALSE}
  Delays = {"positive"}
  MaxStarts = 2
  MaxStops = 0
  MaxFired = 0
  MaxStatements = 1
  MaxQueue = 2
  RunningAsNode = FALSE
  Covering = FALSE
INVARIANTS
  ReadNeverFails
CHECK_DEADLOCK FALSE
