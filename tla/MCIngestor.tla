----------------------------- MODULE MCIngestor -----------------------------
(* Model checking of Ingestor: partitions are interchangeable.             *)
EXTENDS Ingestor, TLC

PartitionSymmetry == Permutations(Partitions)
=============================================================================
