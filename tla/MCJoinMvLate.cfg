\* A spawned protocol that fails, joined through a moved handle after it
\* has finished; no socket failure
CONSTANTS
  AsyncMode = FALSE
  Blocking = FALSE
  Parties <- MCParties
  NoError <- MCNoError
  NoSlot = NoSlot
  Tasks <- JoinMvLateTasks
  Prog <- JoinMvLateProg
  Roots <- JoinMvRoots
  PairOf <- MCNone
  ErrorIdxs <- MCNoFault
  MaxRounds = 6
  CleanRounds <- MCNone
  CleanResult <- MCCleanResults
SPECIFICATION Spec
INVARIANT
  SpawnFailureSurfaces
