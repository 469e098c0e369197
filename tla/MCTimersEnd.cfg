SPECIFICATION FairSpec
CONSTANTS
  TimerSlots = 2
  Fds = 2
  Names <- MCTwoNames
  Paths = {"ast"}
  Periodics = {FALSE}
  Delays = {"positive"}
  MaxStarts = 1
  MaxStops = 0
  MaxFired = 0
  MaxStatements = 1
  MaxQueue = 2
  RunningAsNode = FALSE
  Covering = FALSE
PROPERTIES
  SimulationEnds
CHECK_DEADLOCK FALSE
