-------------------------------- MODULE MCJsd --------------------------------
(***************************************************************************)
(* All pairs of files whose words are among four, one of them empty or both*)
(***************************************************************************)
EXTENDS Jsd, SequencesExt, FiniteSets

FourWords == 1..4
ShortLists == {SetToSortSeq(S, <) : S \in SUBSET FourWords}
=============================================================================
