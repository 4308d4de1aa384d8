------------------------------ MODULE PathText -------------------------------
(***************************************************************************)
(* What strbuf promises, without memory: a text, changed at its end or at  *)
(* a position.  PathBuffer.tla implements it.                              *)
(***************************************************************************)
EXTENDS Naturals, Sequences

CONSTANTS
    Item,       \* the characters that are inserted
    Strings,    \* the strings that are appended
    MaxText

VARIABLE text

Put(new) == Len(new) <= MaxText /\ text' = new

\* Before the character at index + 1; beyond the end the gap is unspecified.
Insert(index, item) ==
    IF index <= Len(text)
    THEN Put(SubSeq(text, 1, index) \o <<item>> \o SubSeq(text, index + 1, Len(text)))
    ELSE /\ index < MaxText
         /\ Len(text') = index + 1
         /\ SubSeq(text', 1, Len(text)) = text
         /\ text'[index + 1] = item

Init == text = <<>>

Next ==
    \/ \E item \in Item : Put(Append(text, item))
    \/ \E str \in Strings : Put(text \o str)
    \/ \E index \in 0..(MaxText - 1), item \in Item : Insert(index, item)
    \/ text # <<>> /\ text' = SubSeq(text, 1, Len(text) - 1)
    \/ text' = <<>>

Spec == Init /\ [][Next]_text
=============================================================================
