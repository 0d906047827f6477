---------------------------- MODULE MCInterlace ----------------------------
(***************************************************************************)
(* The interlace evaluator instantiated with the protocol pairs of         *)
(* TestProtocols for TLC.                                                  *)
(***************************************************************************)
EXTENDS Interlace, TestProtocols
=============================================================================
