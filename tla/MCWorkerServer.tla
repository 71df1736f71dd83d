--------------------------- MODULE MCWorkerServer ---------------------------
(* TLC instances of WorkerServer.                                          *)
EXTENDS WorkerServer
=============================================================================
