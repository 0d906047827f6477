\* the tests of wrapped and returned codes and of round counts (nested echo, StrSendRecv, ZeroSend_ErrorCode, BadRecvSize_ErrorCode, C++20 badRecvSize_ErrorCode and nestedProtocol_ErrorCode), every socket failure index
CONSTANTS
  AsyncMode = FALSE
  Blocking = FALSE
  Parties <- MCParties
  NoError <- MCNoError
  NoSlot = NoSlot
  Tasks <- NestSuiteTasks
  Prog <- NestSuiteProg
  Roots <- NestSuiteRoots
  PairOf <- NestSuitePairs
  ErrorIdxs <- MCErrorIdxsWide
  MaxRounds = 6
  CleanRounds <- NestSuiteRounds
  CleanResult <- MCCleanResults
SPECIFICATION Spec
INVARIANTS
  FulfilledUnblocked
  ReadyQueueSound
  MatchedDelivery
  CleanRun
PROPERTIES
  Termination
