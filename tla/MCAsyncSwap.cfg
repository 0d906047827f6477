\* Swap in asyncThread mode: both parties send before they receive. The
\* worker completes a send only when the peer's recv is posted, so execute
\* never returns. InterlaceSock::send only appends to mOutbound, so in
\* interlace mode the same exchange would finish; no run checks that.
CONSTANTS
  AsyncMode = TRUE
  Blocking = FALSE
  Parties <- MCParties
  NoError <- MCNoError
  NoSlot = NoSlot
  Tasks <- SwapTasks
  Prog <- SwapProg
  Roots <- SwapRoots
  PairOf <- SwapPairs
  ErrorIdxs <- AsyncErrorIdxs
SPECIFICATION Spec
CHECK_DEADLOCK FALSE
PROPERTIES
  Termination
