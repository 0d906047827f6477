\* The C++20 tutorial's resizeExample in interlace mode, every socket-failure index
CONSTANTS
  AsyncMode = FALSE
  Blocking = FALSE
  Parties <- MCParties
  NoError <- MCNoError
  NoSlot = NoSlot
  Tasks <- ResizeTasks
  Prog <- ResizeProg
  Roots <- ResizeRoots
  PairOf <- ResizePairs
  ErrorIdxs <- MCErrorIdxs
  MaxRounds = 6
  CleanRounds <- ResizeRounds
  CleanResult <- MCCleanResults
SPECIFICATION Spec
INVARIANTS
  ReadyQueueSound
  ResumedUnblocked
  MatchedDelivery
  FaultSurfaces
PROPERTIES
  Termination
