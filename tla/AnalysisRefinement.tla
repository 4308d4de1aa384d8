-------------------------- MODULE AnalysisRefinement --------------------------
(***************************************************************************)
(* The analysis phase implements PairWork: a pair has been compared when   *)
(* the divergence of its files is in an entry of jsd_list, and nothing     *)
(* else that the threads do can be seen.                                   *)
(***************************************************************************)
EXTENDS Analysis

ComparedPairs == {jsd_list[k].jsd : k \in Indices} \ {BlankEntry.jsd}

PhaseOf ==
    IF main \in {"prepare", "create", "join", "print"} THEN "comparing" ELSE main

Promise == INSTANCE PairWork WITH compared <- ComparedPairs, phase <- PhaseOf

\* Every step of main and of the analysis threads is a step of PairWork or
\* changes nothing it can see: no pair is compared twice, and the results are
\* sorted and printed only when all of them have been written.
ImplementsPairWork == Promise!Spec
=============================================================================
