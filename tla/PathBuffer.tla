----------------------------- MODULE PathBuffer ------------------------------
(***************************************************************************)
(* strbuf, the growing string of helperR.c.  Only sb_initk, sb_appendk,    *)
(* sb_concatk and sb_destroyk have callers; sb_insertk, sb_removek and     *)
(* sb_resetk are there for later use.                                      *)
(***************************************************************************)
EXTENDS Memory

CONSTANTS
    Item,           \* the characters of a path
    Strings,        \* the strings given to sb_concatk
    InitLength,     \* the argument of sb_initk; sb_initk refuses 0
    MaxText         \* bound on the length of the text

ASSUME PathBufferAssumption ==
    /\ NUL \notin Item
    /\ Junk \notin Item
    /\ Strings \subseteq Seq(Item)
    /\ InitLength \in Nat \ {0}
    /\ MaxText \in Nat

VARIABLES
    data,
    used,
    length

buffer == <<data, used, length>>

sb_initk ==
    /\ length = InitLength
    /\ used = 0
    /\ data = Write(Malloc(length), 0, NUL)

Larger(a, b) == IF a > b THEN a ELSE b

\* The block is made as large as size, if the buffer is full.
Grow(full, size) == IF full THEN Realloc(data, size) ELSE data
GrownTo(full, size) == length' = IF full THEN size ELSE length

sb_resetk ==
    /\ used' = 0
    /\ data' = Write(data, 0, NUL)
    /\ UNCHANGED length

\* A failing realloc ends the process in each of the operations that grow.
sb_appendk(item) ==
    LET full == used + 1 = length
    IN  /\ used + 1 <= MaxText
        /\ GrownTo(full, 2 * length)
        /\ used' = used + 1
        /\ data' = Write(Write(Grow(full, 2 * length), used, item), used + 1, NUL)

\* Mutant: the buffer is as large as the text, without room for the NUL.
sb_concatkTight(str) ==
    LET end == used + Len(str)
        full == end > length
        size == Larger(end, 2 * length)
    IN  /\ end <= MaxText
        /\ GrownTo(full, size)
        /\ used' = end
        /\ data' = Write(WriteString(Grow(full, size), used, str), end, NUL)

sb_concatk(str) ==
    LET end == used + Len(str)
        full == end >= length
        size == Larger(end + 1, 2 * length)
    IN  /\ end <= MaxText
        /\ GrownTo(full, size)
        /\ used' = end
        /\ data' = Write(WriteString(Grow(full, size), used, str), end, NUL)

\* With nothing to remove it fails and changes nothing.
sb_removek ==
    /\ used > 0
    /\ used' = used - 1
    /\ data' = Write(data, used - 1, NUL)
    /\ UNCHANGED length

\* Mutant: the character at index is overwritten.
InsertWithinOver(index, item) ==
    LET full == used + 1 = length
        rest == [k \in 1..(used - index) |-> data[index + k - 1]]
    IN  /\ index <= used
        /\ used + 1 <= MaxText
        /\ GrownTo(full, 2 * length)
        /\ used' = used + 1
        /\ data' = Write(WriteString(Grow(full, 2 * length), index + 1, rest), used + 1, NUL)

\* Up to the end of the text: the rest of it moves over by one.
InsertWithin(index, item) ==
    LET full == used + 1 = length
        rest == [k \in 1..(used - index) |-> data[index + k - 1]]
    IN  /\ index <= used
        /\ used + 1 <= MaxText
        /\ GrownTo(full, 2 * length)
        /\ used' = used + 1
        /\ data' = Write(WriteString(Grow(full, 2 * length), index, <<item>> \o rest),
                         used + 1, NUL)

\* After the end of the text: the bytes between stay what they were.
InsertBeyond(index, item) ==
    LET far == index + 1 >= 2 * length
        full == index + 1 >= length
        size == IF far THEN index + 2 ELSE 2 * length
    IN  /\ index > used
        /\ index + 1 <= MaxText
        /\ GrownTo(full, size)
        /\ used' = index + 1
        /\ data' = Write(Write(Grow(full, size), index, item), index + 1, NUL)

\* The index is an int.  It must not be negative: compared with the unsigned used,
\* -1 would be beyond the text, and the byte before the block written.  There is no
\* caller; the indices of BufferNext begin at 0.
sb_insertk(index, item) == InsertWithin(index, item) \/ InsertBeyond(index, item)

BufferNext ==
    \/ \E item \in Item : sb_appendk(item)
    \/ \E str \in Strings : sb_concatk(str)
    \/ \E index \in 0..(MaxText - 1), item \in Item : sb_insertk(index, item)
    \/ sb_removek
    \/ sb_resetk

BufferSpec == sb_initk /\ [][BufferNext]_buffer

-----------------------------------------------------------------------------
(* Properties.                                                             *)

\* The text and its NUL are inside of the block, which every operation, and
\* each of the three ways to grow of sb_insertk, must leave large enough.
BufferTerminated ==
    /\ used < length
    /\ DOMAIN data = 0..(length - 1)
    /\ data[used] = NUL
    /\ length <= 2 * Larger(InitLength, MaxText + 1)

Abstract == INSTANCE PathText WITH
    text <- Text(data, used)

\* The bytes in use are the text that the calls made, character by character.
ImplementsText == Abstract!Spec
=============================================================================
