---------------------------- MODULE MCProcessor ----------------------------
(* Model checking of Processor: partitions and alert types are             *)
(* interchangeable.                                                        *)
EXTENDS Processor, TLC

ProcessorSymmetry == Permutations(Partitions) \union Permutations(AlertTypes)
=============================================================================
