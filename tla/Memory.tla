------------------------------- MODULE Memory --------------------------------
(***************************************************************************)
(* A block of memory of the C heap: a function from the offsets of its     *)
(* bytes.  Junk is what a byte holds that nobody wrote.  A write outside   *)
(* of the block adds an offset to its domain, which no correct block has.  *)
(***************************************************************************)
EXTENDS Naturals, Sequences

CONSTANTS
    NUL,
    Junk

Malloc(size) == [k \in 0..(size - 1) |-> Junk]

\* realloc keeps the bytes of the old block.
Realloc(block, size) ==
    [k \in 0..(size - 1) |-> IF k \in DOMAIN block THEN block[k] ELSE Junk]

Write(block, at, byte) ==
    [k \in DOMAIN block \cup {at} |-> IF k = at THEN byte ELSE block[k]]

\* The bytes of a string, which starts at 1, written from the offset at.
WriteString(block, at, str) ==
    [k \in DOMAIN block \cup at..(at + Len(str) - 1) |->
        IF k \in at..(at + Len(str) - 1) THEN str[k - at + 1] ELSE block[k]]

\* The first n bytes of a block, as a string.
Text(block, n) == [k \in 1..n |-> block[k - 1]]
=============================================================================
