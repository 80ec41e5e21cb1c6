------------------------------ MODULE MCMonteCarlo -----------------------------
(***************************************************************************)
(* Four samples on two processors: samples wait for a processor, children  *)
(* end while others are polled, and two of four may fail.                  *)
(***************************************************************************)
EXTENDS MonteCarlo
================================================================================
