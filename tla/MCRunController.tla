-------------------------- MODULE MCRunController --------------------------
(* TLC instances of RunController.                                         *)
EXTENDS RunController, TLC

Symmetry == Permutations(Callers)
=============================================================================
