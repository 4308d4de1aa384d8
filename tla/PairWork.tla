------------------------------- MODULE PairWork -------------------------------
(***************************************************************************)
(* What the analysis phase promises, without threads, cursor or array:     *)
(* every unordered pair of the files collected is compared exactly once,   *)
(* and the results are printed when all of them are there.  Analysis.tla   *)
(* implements it as long as the number of pairs fits in an int.            *)
(***************************************************************************)
EXTENDS Naturals

CONSTANT Sizes      \* the numbers of files the collection phase may leave

VARIABLES
    size,           \* how many files there are
    compared,       \* the pairs compared so far
    phase

vars == <<size, compared, phase>>

\* The files are numbered from the top of the repository.
Pairs(n) == {p \in (1..n) \X (1..n) : p[1] < p[2]}

Init ==
    /\ size \in Sizes
    /\ compared = {}
    /\ phase = "comparing"

Compare(p) ==
    /\ p \notin compared
    /\ compared' = compared \cup {p}
    /\ UNCHANGED <<size, phase>>

Report ==
    /\ size >= 2
    /\ compared = Pairs(size)
    /\ phase' = "printed"
    /\ UNCHANGED <<size, compared>>

\* "Fewer than 2 files found!"
Refuse ==
    /\ size < 2
    /\ phase' = "few"
    /\ UNCHANGED <<size, compared>>

Fail ==
    /\ phase' = "exited"
    /\ UNCHANGED <<size, compared>>

Next ==
    /\ phase = "comparing"
    /\ \/ \E p \in Pairs(size) : Compare(p)
       \/ Report
       \/ Refuse
       \/ Fail

Spec == Init /\ [][Next]_vars
=============================================================================
