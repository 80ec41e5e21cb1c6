------------------------------ MODULE StreamNetwork -----------------------------
(***************************************************************************)
(* What a multiple outflow ldd promises: a set of flows between cells,     *)
(* which streams are put in and cut from.  As long as it has no cycle, a   *)
(* cut takes with it what then has no inflow left.                         *)
(***************************************************************************)
EXTENDS Naturals, FiniteSets

CONSTANTS Cells, None

Flows == Cells \X Cells

VARIABLES
  net,      \* the flows
  usable,   \* there is no cycle
  marked    \* the flows that are being cut, or None

vars == <<net, usable, marked>>

\* Some cells all flow to one of them.
Cyclic(flows) ==
  \E S \in (SUBSET Cells) \ {{}} : \A c \in S : \E d \in S : <<c, d>> \in flows

Init == net = {} /\ usable = TRUE /\ marked = None

\* Streams are set or added.
Put ==
  /\ marked = None
  /\ net' \in SUBSET Flows /\ usable' = ~Cyclic(net')
  /\ UNCHANGED marked

Mark ==
  /\ marked = None /\ marked' \in SUBSET net
  /\ UNCHANGED <<net, usable>>

Into(f) == {g \in net : g[2] = f[1]}
Beside(f) == {g \in net : g[1] = f[1]}
RunsDry(f, cut) == Into(f) # {} /\ Into(f) \subseteq cut

\* Where nothing flows in, a flow may go with the flows beside it.
Cut ==
  /\ marked # None /\ marked' = None
  /\ net' \in SUBSET net /\ usable' = ~Cyclic(net')
  /\ LET cut == net \ net' IN
     /\ \A f \in cut : f \in marked \/ RunsDry(f, cut)
                         \/ (Into(f) = {} /\ Beside(f) \cap marked # {})
     /\ usable => \A f \in net : f \in marked \/ RunsDry(f, cut) => f \in cut
  /\ ~usable => ~usable'

Next == Put \/ Mark \/ Cut

Spec == Init /\ [][Next]_vars
================================================================================
