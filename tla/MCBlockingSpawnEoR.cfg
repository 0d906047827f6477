\* The scaled AwaitPP, whose party 0 ends its round after the spawn, in
\* blocking mode without a fault.  Termination only: both threads may
\* stop, and whether they do is the question.
CONSTANTS
  AsyncMode = FALSE
  Blocking = TRUE
  Parties <- MCParties
  NoError <- MCNoError
  NoSlot = NoSlot
  Tasks <- AsyncTasks
  Prog <- AsyncProg
  Roots <- AsyncRoots
  PairOf <- AsyncPairs
  ErrorIdxs <- MCNoFault
SPECIFICATION Spec
PROPERTIES
  Termination
CHECK_DEADLOCK FALSE
