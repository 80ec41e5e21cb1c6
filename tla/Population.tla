------------------------------- MODULE Population ------------------------------
(***************************************************************************)
(* What a particle filter promises (ModellingFrameworks.rst, Particle      *)
(* filter): every particle is carried on from filter moment to filter      *)
(* moment.  There the particles are weighed and replaced by copies of      *)
(* particles that have a weight; one that is copied keeps its own place.   *)
(*                                                                         *)
(* A particle is its history: the place at which each of its time steps    *)
(* was computed.                                                           *)
(***************************************************************************)
EXTENDS Naturals, Sequences

CONSTANTS Samples, MaxTime

VARIABLES
  particle,         \* the history of the particle at each place
  until,            \* the time step that the particles are carried to
  weight            \* weights at a filter moment, <<>> otherwise

vars == <<particle, until, weight>>

Init ==
  /\ particle = [s \in Samples |-> <<>>]
  /\ until = 0 /\ weight = <<>>

Carried(s) == Len(particle[s]) = until

\* All particles go on to a later time step.
Target ==
  /\ weight = <<>> /\ \A s \in Samples : Carried(s)
  /\ until' \in (until + 1)..MaxTime
  /\ UNCHANGED <<particle, weight>>

Carry(s) ==
  /\ ~Carried(s)
  /\ particle' = [particle EXCEPT ![s] = @ \o [k \in 1..(until - Len(@)) |-> s]]
  /\ UNCHANGED <<until, weight>>

Weigh ==
  /\ weight = <<>> /\ until > 0 /\ \A s \in Samples : Carried(s)
  /\ weight' \in [Samples -> Nat]
  /\ UNCHANGED <<particle, until>>

\* Every place gets the particle of a place that has a weight, if any has.
Resample ==
  /\ weight # <<>>
  /\ \E parent \in [Samples -> Samples] :
       /\ \A s \in Samples : parent[parent[s]] = parent[s]
       /\ \A s \in Samples : weight[parent[s]] > 0 \/ \A r \in Samples : weight[r] = 0
       /\ particle' = [s \in Samples |-> particle[parent[s]]]
  /\ weight' = <<>>
  /\ UNCHANGED until

Next == Target \/ Weigh \/ Resample \/ \E s \in Samples : Carry(s)

Spec == Init /\ [][Next]_vars
================================================================================
