-------------------------------- MODULE Ensemble -------------------------------
(***************************************************************************)
(* What the Monte Carlo framework promises (ModellingFrameworks.rst, Monte *)
(* Carlo simulations): the premcloop comes before every sample, each       *)
(* sample is run once, in whatever order and however many at a time, and   *)
(* the postmcloop comes after the last sample has ended.  A run may be     *)
(* given up when something fails, and may be repeated.                     *)
(***************************************************************************)
CONSTANT Samples

VARIABLES
  phase,            \* "before", "samples", "after" or "abandoned"
  member            \* "todo", "running", "complete" or "incomplete" by sample

vars == <<phase, member>>

Init == phase = "before" /\ member = [s \in Samples |-> "todo"]

Prepare == phase = "before" /\ phase' = "samples" /\ UNCHANGED member

Begin(s) ==
  /\ phase = "samples" /\ member[s] = "todo"
  /\ member' = [member EXCEPT ![s] = "running"]
  /\ UNCHANGED phase

\* A sample may end after its run was given up.
End(s) ==
  /\ member[s] = "running"
  /\ \E r \in {"complete", "incomplete"} : member' = [member EXCEPT ![s] = r]
  /\ UNCHANGED phase

Conclude ==
  /\ phase = "samples"
  /\ \A s \in Samples : member[s] \in {"complete", "incomplete"}
  /\ phase' = "after" /\ UNCHANGED member

Abandon == phase # "abandoned" /\ phase' = "abandoned" /\ UNCHANGED member

Again ==
  /\ phase = "after"
  /\ phase' = "before" /\ member' = [s \in Samples |-> "todo"]

Next ==
  \/ Prepare \/ Conclude \/ Abandon \/ Again
  \/ \E s \in Samples : Begin(s) \/ End(s)

Spec == Init /\ [][Next]_vars
================================================================================
