------------------------- MODULE TokenizerReference --------------------------
(***************************************************************************)
(* What the words of a text are, as word_freq_counter.py defines them:     *)
(* drop the characters that are neither part of a word nor a space, turn   *)
(* the rest to lower case and split it at the spaces.  Said without the    *)
(* intermediate texts: which letter of which word a character becomes.     *)
(***************************************************************************)
EXTENDS Tokenizer, FiniteSets

\* The places of the characters that become letters of a word.
Kept(text) == {p \in DOMAIN text : text[p] \in InWord}

\* Those with which a word begins: a space is after every earlier one.
Starts(text) ==
    {p \in Kept(text) :
        \A q \in Kept(text) : q < p => \E s \in q..p : text[s] \in Space}

\* The number of the word, and of the letter in it.
WordOf(text, p) == Cardinality({s \in Starts(text) : s <= p})
LettersOf(text, n) == {p \in Kept(text) : WordOf(text, p) = n}
PlaceOf(text, p) == Cardinality({q \in LettersOf(text, WordOf(text, p)) : q <= p})

\* The letters of some words, each with its places: they determine the words.
Letters(words) ==
    UNION {{<<n, k, words[n][k]>> : k \in DOMAIN words[n]} : n \in DOMAIN words}

LettersIn(text) ==
    {<<WordOf(text, p), PlaceOf(text, p), Lower[text[p]]>> : p \in Kept(text)}

AreWords(words, text) ==
    /\ Len(words) = Cardinality(Starts(text))
    /\ Letters(words) = LettersIn(text)

\* The characters of the file that the loop has looked at.
Scanned == SubSeq(content, 1, Len(content) - Len(inter_buf))

\* At every character, wherever the blocks begin and end, and whatever an
\* earlier file left in the buffer: the words inserted and the one in the
\* buffer are the words of the text so far.
WordsSoFar ==
    pc \in {"read", "scan", "rest"} =>
        /\ AreWords(IF word_state = "wIncomplete" THEN Append(inserted, LowerWord)
                                                  ELSE inserted, Scanned)
        /\ (word_state = "wEmpty") = (used = 0)

\* When tokenize returns, the table has the words of all that was read, the
\* last one too, and the buffer is empty for the next file.
AllWordsInserted ==
    pc = "success" => AreWords(inserted, content) /\ used = 0

\* src/README.md:97: after the collection all files are there with their
\* appropriate words, so a file of which a part could not be read is reported.
WholeFileOrFailure == pc = "success" => ~cut

-----------------------------------------------------------------------------
(* The inductive form of the two properties.                               *)

\* The last word of the text may go on: no space is after its last letter.
Open(text) == \E q \in Kept(text) : \A s \in q..Len(text) : text[s] \notin Space

\* What is left of the block is the end of the content.
Blocks ==
    /\ content \in Seq(Char)
    /\ inter_buf \in Seq(Char)
    /\ Len(inter_buf) <= Len(content)
    /\ \A k \in 1..Len(inter_buf) :
            inter_buf[k] = content[Len(content) - Len(inter_buf) + k]
    /\ pc \in {"read", "rest", "success"} => inter_buf = <<>>
    /\ pc = "scan" => inter_buf # <<>>

\* The word in the buffer is the open one, with all of its letters so far.
OpenWord ==
    /\ word_state = IF Open(Scanned) THEN "wIncomplete" ELSE "wEmpty"
    /\ used = IF Open(Scanned)
              THEN Cardinality(LettersOf(Scanned, Cardinality(Starts(Scanned))))
              ELSE 0

TokenizerInv ==
    /\ BufferTerminated /\ length >= 2
    /\ inserted \in Seq(Seq(Char))
    /\ Blocks
    /\ pc \in {"read", "scan", "rest"} => OpenWord
    /\ WordsSoFar
    /\ AllWordsInserted
=============================================================================
