---------------------------- MODULE MCClientInterface --------------------------
(***************************************************************************)
(* Two outputs, and twice as many addresses: those that the client has and *)
(* as many others, so that a stale address is never handed out again while *)
(* the client can see it.                                                  *)
(***************************************************************************)
EXTENDS ClientInterface

CONSTANTS o1, o2, b1, b2, b3, b4

MCOutputs == {o1, o2}
MCBuffers == {b1, b2, b3, b4}
================================================================================
