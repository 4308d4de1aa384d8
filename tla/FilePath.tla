------------------------------ MODULE FilePath -------------------------------
(***************************************************************************)
(* How directoryFunction_r makes the path of an entry and tests its        *)
(* suffix: generateFilePath, one call on its buffer after the other, and   *)
(* endsWithSuffix.                                                         *)
(***************************************************************************)
EXTENDS PathBuffer

CONSTANTS
    Slash,
    Suffixes        \* the suffixes that can be asked for

ASSUME FilePathAssumption ==
    /\ Slash \in Item
    /\ Suffixes \subseteq Seq(Item)

VARIABLES
    directoryName,
    currPath,
    returnString,   \* the memory of the path
    pc

vars == <<buffer, directoryName, currPath, returnString, pc>>
locals == <<directoryName, currPath, returnString>>

Init ==
    /\ directoryName \in Strings
    /\ currPath \in Strings
    /\ returnString = <<>>
    /\ sb_initk
    /\ pc = "directory"

AddDirectory ==
    /\ pc = "directory"
    /\ sb_concatk(directoryName)
    /\ pc' = "slash"
    /\ UNCHANGED locals

\* Mutant: a directory that is "." or the like needs no slash.
AddNoSlash ==
    /\ pc = "slash"
    /\ IF used = 1 THEN UNCHANGED buffer ELSE sb_appendk(Slash)
    /\ pc' = "name"
    /\ UNCHANGED locals

AddSlash ==
    /\ pc = "slash"
    /\ sb_appendk(Slash)
    /\ pc' = "name"
    /\ UNCHANGED locals

AddName ==
    /\ pc = "name"
    /\ sb_concatk(currPath)
    /\ pc' = "copy"
    /\ UNCHANGED locals

\* strcpy copies the bytes up to the first NUL, and the NUL.
StringLength(block) ==
    CHOOSE n \in DOMAIN block : block[n] = NUL /\ \A k \in 0..(n - 1) : block[k] # NUL

CopyPath ==
    /\ pc = "copy"
    /\ returnString' = Write(WriteString(Malloc(used + 1), 0, Text(data, StringLength(data))),
                             StringLength(data), NUL)
    /\ pc' = "done"
    /\ UNCHANGED <<buffer, directoryName, currPath>>

\* malloc or realloc fails, and the process ends.
Exit ==
    /\ pc \notin {"done", "exited"}
    /\ pc' = "exited"
    /\ UNCHANGED <<buffer, locals>>

Stop == pc \in {"done", "exited"} /\ UNCHANGED vars

Next == AddDirectory \/ AddSlash \/ AddName \/ CopyPath \/ Exit \/ Stop

Spec == Init /\ [][Next]_vars

\* Mutant: the comparison stops at the first character of the suffix.
endsWithSuffixShort(fileSuffix, fileName) ==
    LET suffixLen == Len(fileSuffix)
        fileNameLen == Len(fileName)
    IN  /\ suffixLen <= fileNameLen
        /\ \A i \in 0..(suffixLen - 2) : fileSuffix[suffixLen - i] = fileName[fileNameLen - i]

\* The characters are compared from the end.
endsWithSuffix(fileSuffix, fileName) ==
    LET suffixLen == Len(fileSuffix)
        fileNameLen == Len(fileName)
    IN  /\ suffixLen <= fileNameLen
        /\ \A i \in 0..(suffixLen - 1) : fileSuffix[suffixLen - i] = fileName[fileNameLen - i]

-----------------------------------------------------------------------------
(* Properties.                                                             *)

Joined == directoryName \o <<Slash>> \o currPath

\* The path is the directory, a slash and the name, in a block that is no
\* longer and no shorter, though the buffer may have grown at each call.
PathJoined ==
    pc = "done" =>
        /\ DOMAIN returnString = 0..Len(Joined)
        /\ returnString[Len(Joined)] = NUL
        /\ Text(returnString, Len(Joined)) = Joined

\* The suffix is one of the whole path: an empty one is in every path, one
\* that is longer than the path in none, and one may begin in the directory.
SuffixDecides ==
    pc = "done" => \A fileSuffix \in Suffixes :
        endsWithSuffix(fileSuffix, Joined) <=>
            \E n \in 0..Len(Joined) : Joined = SubSeq(Joined, 1, n) \o fileSuffix
=============================================================================
