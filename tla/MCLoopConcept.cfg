SPECIFICATION Spec
CONSTANTS
  NStates = 11
  Machines <- ConceptMachines
  Parent <- ConceptParent
  InitialState <- ConceptInitial
  FinalState <- ConceptNone
  JoinState <- ConceptNone
  ThreadMachines = {}
  CoverMachines = {8}
  ShadowState <- ConceptShadowState
  Transitions <- ConceptTransitions
  ShadowTransition <- ConceptShadowTransition
  Starts <- ConceptStarts
  Events = {1, 2}
  ErrorEv = 0
  ExitEv = 0
  Restarts = {}
  SyncEvents = {}
  MaxActive = 6
  SyncCap = 1
INVARIANT ConceptFollows
CHECK_DEADLOCK FALSE
