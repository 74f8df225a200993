---------------------------- MODULE MCWorkerPool ----------------------------
(* WorkerPool for TLC: its constants are plain values, given in the .cfg.   *)
EXTENDS WorkerPool
=============================================================================
