------------------------------ MODULE MCWfRepo -------------------------------
(***************************************************************************)
(* Threads that share three tables in every way: what one pops it, or      *)
(* another one, may push again.                                            *)
(***************************************************************************)
EXTENDS WfRepo, TLC

CallerSymmetry == Permutations(Callers) \cup Permutations(Tables)
=============================================================================
