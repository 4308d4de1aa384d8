------------------------------ MODULE MCAnalysis ------------------------------
(***************************************************************************)
(* Small instances of the analysis phase for TLC.                          *)
(***************************************************************************)
EXTENDS AnalysisRefinement

\* Tables of different and of equal sizes, so that the sort moves an entry
\* and has ties.
FewWords == <<3, 0, 3, 4, 1>>
=============================================================================
