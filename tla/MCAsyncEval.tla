---------------------------- MODULE MCAsyncEval ----------------------------
(***************************************************************************)
(* The asyncThread evaluator instantiated with the protocol pairs of       *)
(* TestProtocols for TLC.                                                  *)
(***************************************************************************)
EXTENDS AsyncEval, TestProtocols

\* The worker fails every operation when mErrorIdx = 0, and never
\* otherwise (mOpIdx stays 0).
AsyncErrorIdxs == {MCNoError, 0}
\* Indexes the errorSocket test would try after a clean run.
LaterErrorIdxs == 1..2
=============================================================================
