\* a bad frame size while a spawned recv is outstanding, no socket failure
CONSTANTS
  AsyncMode = FALSE
  Blocking = FALSE
  Parties <- MCParties
  NoError <- MCNoError
  NoSlot = NoSlot
  Tasks <- BadSizeTasks
  Prog <- BadSizeProg
  Roots <- BadSizeRoots
  PairOf <- BadSizePairs
  ErrorIdxs <- MCNoFault
  MaxRounds = 6
  CleanRounds <- MCNone
  CleanResult <- MCCleanResults
SPECIFICATION Spec
INVARIANT
  BadSizeConfined
