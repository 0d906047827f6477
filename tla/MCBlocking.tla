----------------------------- MODULE MCBlocking -----------------------------
(***************************************************************************)
(* The blocking evaluator instantiated with the protocol pairs of          *)
(* TestProtocols for TLC.                                                  *)
(***************************************************************************)
EXTENDS Blocking, TestProtocols
=============================================================================
