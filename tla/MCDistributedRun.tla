-------------------------- MODULE MCDistributedRun --------------------------
(* TLC instances of DistributedRun.                                        *)
EXTENDS DistributedRun, TLC

Symmetry == Permutations(Workers)
=============================================================================
