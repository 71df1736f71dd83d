------------------------- MODULE MCArrivalScheduler -------------------------
(* TLC instances of ArrivalScheduler.                                      *)
EXTENDS ArrivalScheduler
=============================================================================
