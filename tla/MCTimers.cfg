SPECIFICATION MCSpec
CONSTANTS
  TimerSlots = 2
  Fds = 2
  Names <- MCTwoNames
  Paths = {"native", "ast", "action"}
  Periodics = {TRUE, FALSE}
  Delays = {"negative", "zero", "positive"}
  MaxStarts = 3
  MaxStops = 1
  MaxFired = 1
  MaxStatements = 1
  MaxQueue = 2
  RunningAsNode = FALSE
  Covering = FALSE
INVARIANTS
  TimerInv
  DoneMeansDrained
  OneThreadReads
  NamedTimersAreSingle
PROPERTIES
  FiresOwnTimer
  NodeDrainsQueue
  TimersArrive
CHECK_DEADLOCK FALSE
