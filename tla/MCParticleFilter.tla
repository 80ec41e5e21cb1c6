---------------------------- MODULE MCParticleFilter ---------------------------
(***************************************************************************)
(* Three samples over three time steps with one or two filter moments,     *)
(* also lists that the framework accepts and asserts on later.             *)
(***************************************************************************)
EXTENDS ParticleFilter

Two    == {<<1, 2>>}
Either == {<<1>>, <<2>>, <<1, 2>>, <<2, 1>>, <<3>>}
========================================================================
