\* the C++20 asyncProtocol, asyncProtocol_Throw (n=1), throws and errorSocket (two spawns) tests and Native_asyncProtocol_Throw_Test, every socket failure index
CONSTANTS
  AsyncMode = FALSE
  Blocking = FALSE
  Parties <- MCParties
  NoError <- MCNoError
  NoSlot = NoSlot
  Tasks <- CoSuiteTasks
  Prog <- CoSuiteProg
  Roots <- CoSuiteRoots
  PairOf <- CoSuitePairs
  ErrorIdxs <- MCErrorIdxsWide
  MaxRounds = 6
  CleanRounds <- MCNone
  CleanResult <- MCCleanResults
SPECIFICATION Spec
INVARIANTS
  TypeOK
  ReadyQueueSound
  ResumedUnblocked
  MatchedDelivery
  FaultSurfaces
  NoAsyncInFlight
PROPERTIES
  Termination
