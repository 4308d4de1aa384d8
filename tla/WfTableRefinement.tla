-------------------------- MODULE WfTableRefinement --------------------------
(***************************************************************************)
(* WfTable implements WordBag: how often a word was inserted is what the   *)
(* items of its chain say, in the old and in the new rows.                 *)
(***************************************************************************)
EXTENDS WfTable

\* The items that a search of the rows or of the list could find.
Findable == {n \in Items : In(data, n) \/ In(new_data, n) \/ n \in Range(list)}

\* A table that is gone counts nothing: the last counts are those of item.
found == IF pc = "destroyed" THEN Items ELSE Findable
Of(w) == {n \in found : item[n].word = w}
counted(w) == IF Of(w) = {} THEN 0 ELSE item[CHOOSE n \in Of(w) : TRUE].count

counts == [w \in Word |-> counted(w)]

reported ==
    IF pc = "ready"
    THEN [k \in DOMAIN list |->
            [word |-> item[list[k]].word, freq |-> item[list[k]].freq]]
    ELSE <<>>

stage ==
    CASE pc \in {"fill", "rehash", "move", "listed"} -> "filling"
      [] pc = "ready" -> "reported"
      [] pc \in {"destroy", "destroyed"} -> "discarded"
      [] pc = "failed" -> "failed"

Bag == INSTANCE WordBag WITH
    count <- counts,
    total <- no_words,
    result <- reported,
    phase <- stage

\* The table is a bag of words: every insertion counts its word once, a rehash
\* changes nothing, and the list has every word of the file once, in order,
\* with its share of all words.
ImplementsWordBag == Bag!Spec
=============================================================================
