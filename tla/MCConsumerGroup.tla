--------------------------- MODULE MCConsumerGroup ---------------------------
(* Model checking of ConsumerGroup.  No symmetry: the run checks liveness. *)
EXTENDS ConsumerGroup
=============================================================================
