----------------------------- MODULE MCSyncSystem -----------------------------
(* Synchronous mode for TLC: every manager serves its own id.              *)
EXTENDS SyncSystem

MCWorkerOf == [m \in Managers |-> m]
=============================================================================
