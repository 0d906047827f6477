\* coawait_endOfRound_Test (C++20) and Native_endOfRound_Test in blocking mode, under every socket-failure index
CONSTANTS
  AsyncMode = FALSE
  Blocking = TRUE
  Parties <- MCParties
  NoError <- MCNoError
  NoSlot = NoSlot
  Tasks <- EoRSuiteTasks
  Prog <- EoRSuiteProg
  Roots <- EoRSuiteRoots
  PairOf <- EoRSuitePairs
  ErrorIdxs <- MCErrorIdxs
SPECIFICATION Spec
INVARIANTS
  TypeOK
  ReadyQueueSound
  MatchedDelivery
  BlockingFaultSurfaces
PROPERTIES
  ChannelRefined
  Termination
