---------------------------- MODULE MCSyncQueue ----------------------------
(***************************************************************************)
(* A small instance of the synchronized queue for TLC.                     *)
(***************************************************************************)
EXTENDS SyncQueueRefinement, TLC

CallerSymmetry == Permutations(Callers) \cup Permutations(Nodes)
=============================================================================
