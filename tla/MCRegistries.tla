---------------------------- MODULE MCRegistries ----------------------------
(* The registries for TLC: listeners are interchangeable, and the last     *)
(* answer, which no action and no property reads, is not part of the view. *)
EXTENDS Registries, TLC

ListenerSymmetry == Permutations(Listeners)

WithoutReply == <<requests, submitted, receipts, workers, registries, req, chain>>
=============================================================================
