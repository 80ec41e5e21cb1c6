----------------------------- MODULE PureOperations ----------------------------
(***************************************************************************)
(* What the Python extension promises: a field that a Python program holds *)
(* is a value.  An operation either raises an exception or gives the       *)
(* program a new field with the value that it asked for; the fields that   *)
(* the program has stay as they are until it forgets them.                 *)
(***************************************************************************)
VARIABLES
  held,      \* the value of each field that the program holds
  request    \* empty, or the value that the operation in progress has to give

vars == <<held, request>>

Init == held = << >> /\ request = << >>

\* The fields are those of before and one more.
OneMore ==
  \E o \in DOMAIN held' \ DOMAIN held :
    held' = [x \in DOMAIN held \cup {o} |-> IF x = o THEN held'[o] ELSE held[x]]

Obtain == request = << >> /\ OneMore /\ UNCHANGED request

Forget ==
  /\ request = << >>
  /\ \E o \in DOMAIN held : held' = [x \in DOMAIN held \ {o} |-> held[x]]
  /\ UNCHANGED request

Ask == request = << >> /\ request' # << >> /\ UNCHANGED held

Give ==
  /\ request # << >> /\ request' = << >>
  /\ OneMore
  /\ \A o \in DOMAIN held' \ DOMAIN held : <<held'[o]>> = request

Raise == request # << >> /\ request' = << >> /\ UNCHANGED held

Next == Obtain \/ Forget \/ Ask \/ Give \/ Raise

Spec == Init /\ [][Next]_vars
================================================================================
