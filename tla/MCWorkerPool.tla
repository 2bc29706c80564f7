----------------------------- MODULE MCWorkerPool -----------------------------
(* The worker pool for TLC: every manager belongs to the one pool.         *)
EXTENDS WorkerPool

MCWorkerOf == [m \in Managers |-> Pool]
=============================================================================
