\* A coroutine that spawns and joins, awaited by its parent; no socket failure
CONSTANTS
  AsyncMode = FALSE
  Blocking = FALSE
  Parties <- MCParties
  NoError <- MCNoError
  NoSlot = NoSlot
  Tasks <- SubJoinTasks
  Prog <- SubJoinProg
  Roots <- SubJoinRoots
  PairOf <- SubJoinPairs
  ErrorIdxs <- MCNoFault
  MaxRounds = 6
  CleanRounds <- MCNone
  CleanResult <- MCCleanResults
SPECIFICATION Spec
INVARIANT
  FulfilledUnblocked
