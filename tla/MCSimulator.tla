---------------------------- MODULE MCSimulator ----------------------------
(* Model checking of Simulator.  No symmetry: the run checks liveness.     *)
EXTENDS Simulator
=============================================================================
