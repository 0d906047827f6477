\* joining a spawned wrap() after it finished, no socket failure
CONSTANTS
  AsyncMode = FALSE
  Blocking = FALSE
  Parties <- MCParties
  NoError <- MCNoError
  NoSlot = NoSlot
  Tasks <- WrapJoinTasks
  Prog <- WrapJoinProg
  Roots <- WrapJoinRoots
  PairOf <- MCNone
  ErrorIdxs <- MCNoFault
  MaxRounds = 6
  CleanRounds <- MCNone
  CleanResult <- MCCleanResults
SPECIFICATION Spec
INVARIANT
  FaultSurfaces
