------------------------------ MODULE MCLookups ------------------------------
(* Model checking of Lookups.  No symmetry: the run checks liveness.       *)
EXTENDS Lookups
=============================================================================
