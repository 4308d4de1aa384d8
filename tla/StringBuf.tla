------------------------------ MODULE StringBuf ------------------------------
(***************************************************************************)
(* The buffer in which a file thread collects the characters of a word:    *)
(* stringbuf.c.                                                            *)
(***************************************************************************)
EXTENDS Memory

CONSTANTS
    Char,
    Lower,          \* tolower
    MinLength,      \* the least length that sb_create allocates, 10
    SbLength        \* the argument of sb_create

ASSUME BufferAssumption ==
    /\ Lower \in [Char -> Char]
    /\ NUL \notin Char
    /\ Junk \notin Char
    /\ MinLength \in Nat
    /\ MinLength >= 2
    /\ SbLength \in Nat

VARIABLES
    data,
    used,
    length

buffer == <<data, used, length>>

sb_create ==
    /\ length = IF SbLength < MinLength THEN MinLength ELSE SbLength
    /\ used = 0
    /\ data = Write(Malloc(length), 0, NUL)

\* Mutant: the buffer grows when no byte is left, not even for the NUL.
sb_appendLate(item) ==
    LET full == used = length
        room == IF full THEN Realloc(data, 2 * (length - 1) + 1) ELSE data
    IN  /\ length' = IF full THEN 2 * (length - 1) + 1 ELSE length
        /\ data' = Write(Write(room, used, item), used + 1, NUL)
        /\ used' = used + 1

\* The buffer grows when one byte is left, which is for the NUL.
sb_append(item) ==
    LET full == used = length - 1
        room == IF full THEN Realloc(data, 2 * (length - 1) + 1) ELSE data
    IN  /\ length' = IF full THEN 2 * (length - 1) + 1 ELSE length
        /\ data' = Write(Write(room, used, item), used + 1, NUL)
        /\ used' = used + 1

LowerWord == [k \in 1..used |-> Lower[data[k - 1]]]

\* Mutant: the word stays in the buffer.
sb_get_lower_word_keeping(word) ==
    /\ word = LowerWord
    /\ UNCHANGED buffer

\* Returns the word in lower case, in memory of its own, and empties the buffer.
sb_get_lower_word(word) ==
    /\ word = LowerWord
    /\ used' = 0
    /\ data' = Write(data, 0, NUL)
    /\ UNCHANGED length

\* What the callers of the buffer may do with it.
BufferNext ==
    \/ \E item \in Char : sb_append(item)
    \/ sb_get_lower_word(LowerWord)

BufferSpec == sb_create /\ [][BufferNext]_buffer

\* Every access is inside of the block, the characters of the word are those
\* that were appended, not bytes nobody wrote, and a NUL follows them.
BufferTerminated ==
    /\ length \in Nat
    /\ used \in 0..(length - 1)
    /\ DOMAIN data = 0..(length - 1)
    /\ \A k \in 0..(used - 1) : data[k] \in Char
    /\ data[used] = NUL
=============================================================================
