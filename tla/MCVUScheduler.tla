--------------------------- MODULE MCVUScheduler ---------------------------
(* TLC instances of VUScheduler.                                           *)
EXTENDS VUScheduler
=============================================================================
