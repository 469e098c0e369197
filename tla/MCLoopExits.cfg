SPECIFICATION Spec
CONSTANTS
  NStates = 4
  Machines <- NestMachines
  Parent <- NestParent
  InitialState <- NestInitial
  FinalState <- NestNone
  JoinState <- NestNone
  ThreadMachines = {}
  CoverMachines = {}
  ShadowState <- NestShadowState
  Transitions <- NestTransitions
  ShadowTransition <- NestShadowTransition
  Starts <- MCStarts
  Events = {1}
  ErrorEv = 0
  ExitEv = 0
  Restarts = {}
  SyncEvents = {}
  MaxActive = 1
  SyncCap = 1
INVARIANT EveryMachineIsExited
CHECK_DEADLOCK FALSE
