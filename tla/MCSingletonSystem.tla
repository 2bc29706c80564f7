--------------------------- MODULE MCSingletonSystem ---------------------------
(***************************************************************************)
(* The Singleton deployment for TLC: every manager serves its own id.      *)
(***************************************************************************)
EXTENDS SingletonSystem

\* Listeners are interchangeable: no definition tells one from another.
ListenerSymmetry == Permutations(Listeners)

MCWorkerOf == [m \in Managers |-> m]
=============================================================================
