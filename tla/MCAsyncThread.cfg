\* AwaitPP (one spawn, echo n=0 rep=1) in asyncThread mode, with and
\* without the worker's injected failure
CONSTANTS
  AsyncMode = TRUE
  Blocking = FALSE
  Parties <- MCParties
  NoError <- MCNoError
  NoSlot = NoSlot
  Tasks <- AsyncTasks
  Prog <- AsyncProg
  Roots <- AsyncRoots
  PairOf <- AsyncPairs
  ErrorIdxs <- AsyncErrorIdxs
SPECIFICATION Spec
INVARIANTS
  TypeOK
  ReadyQueueSound
  OneOpPerSocket
  NoStaleCallback
  FaultSurfaces
PROPERTIES
  Termination
