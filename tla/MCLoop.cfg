SPECIFICATION MCSpec
CONSTANTS
  NStates = 18
  Machines <- MCMachines
  Parent <- MCParent
  InitialState <- MCInitial
  FinalState <- MCFinal
  JoinState <- MCJoin
  ThreadMachines <- MCThreads
  CoverMachines <- MCCover
  ShadowState <- MCShadowState
  Transitions <- MCTransitions
  ShadowTransition <- MCShadowTransition
  Starts <- MCStarts
  Events = {0, 1, 2, 3}
  ErrorEv = 2
  ExitEv = 0
  Restarts <- MCRestarts
  SyncEvents = {1}
  MaxActive = 14
  SyncCap = 1
INVARIANTS LoopInv JoinIsTaken EpsilonComesFirst ImportsAreCopies ShadowsPair TablesAreRight
PROPERTIES CallbacksMatchActivity RestartReinitialises
CHECK_DEADLOCK FALSE
