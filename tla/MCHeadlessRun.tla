--------------------------- MODULE MCHeadlessRun ---------------------------
(* TLC instances of HeadlessRun: one runner, one run.                      *)
EXTENDS HeadlessRun
=============================================================================
