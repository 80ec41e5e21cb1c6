----------------------------- MODULE MCRunTimeEngine ---------------------------
(* Instances of RunTimeEngine for TLC: addresses are numbers. *)
EXTENDS RunTimeEngine

MCObj       == 1..9
MCNoObj     == 0
MCNoneObj   == 1
MCNotAField == 99
MCDangling  == 100

\* Without conversions that change nothing but the value scale.
MCOperators  == {"abs", "badd", "cover", "scalar", "lookup"}
MCReadScales == {"S", "N"}

MCConversions == {"ordinal"}
MCAdd         == {"badd"}
================================================================================
