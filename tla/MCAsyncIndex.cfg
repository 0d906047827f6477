\* AwaitPP in asyncThread mode with the failure injected at operation
\* index 1 or 2, as Native_errorSocket_Test's loop does for k >= 1.
CONSTANTS
  AsyncMode = TRUE
  Blocking = FALSE
  Parties <- MCParties
  NoError <- MCNoError
  NoSlot = NoSlot
  Tasks <- AsyncTasks
  Prog <- AsyncProg
  Roots <- AsyncRoots
  PairOf <- AsyncPairs
  ErrorIdxs <- LaterErrorIdxs
SPECIFICATION Spec
INVARIANTS
  IndexedFaultSurfaces
