----------------------------- MODULE MCFilePath ------------------------------
(***************************************************************************)
(* Directories and names of up to four characters, on a buffer of two      *)
(* bytes: it grows at the directory, at the slash, at the name, or at more *)
(* than one of them.  Beside that, a buffer that is for any sequence of    *)
(* calls, those without a caller too, as long as the text keeps to         *)
(* MaxCalls characters: enough for sb_insertk to grow in all of its ways.  *)
(***************************************************************************)
EXTENDS FilePath

CONSTANT MaxCalls

UpTo(n) == UNION {[1..k -> Item] : k \in 0..n}
FourLetters == UpTo(4)
ThreeLetters == UpTo(3)

AnyInit ==
    \/ Init
    \/ /\ sb_initk
       /\ directoryName = <<>> /\ currPath = <<>> /\ returnString = <<>>
       /\ pc = "calls"

AnyCall == pc = "calls" /\ BufferNext /\ used' <= MaxCalls /\ UNCHANGED <<locals, pc>>

AnyNext == Next \/ AnyCall

AnySpec == AnyInit /\ [][AnyNext]_vars
=============================================================================
