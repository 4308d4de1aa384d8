------------------------------ MODULE MCWfTable ------------------------------
(***************************************************************************)
(* Files of up to five words of a vocabulary of four.  The table begins    *)
(* with one row and is rehashed at its second and at its third item; words *)
(* 2 and 3 stay in one row, word 1 shares one with them until then.        *)
(***************************************************************************)
EXTENDS WfTableRefinement

FourWords == 1..4
Codes == <<4, 2, 6, 1>>
=============================================================================
