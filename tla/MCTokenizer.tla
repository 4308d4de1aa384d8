----------------------------- MODULE MCTokenizer -----------------------------
(***************************************************************************)
(* Files over a small and a capital letter, a space and an apostrophe.     *)
(* The buffer begins with room for one character, so that words of two and *)
(* three letters make it grow.                                             *)
(***************************************************************************)
EXTENDS TokenizerReference

Chars == {"a", "A", " ", "'"}
ToLower == [c \in Chars |-> IF c = "A" THEN "a" ELSE c]
=============================================================================
