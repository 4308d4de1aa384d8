------------------------------ MODULE MCCompare ------------------------------
(***************************************************************************)
(* All command lines of at most MaxArgs arguments, over a small tree.      *)
(***************************************************************************)
EXTENDS Compare, TLC

CONSTANTS MaxArgs, Numbers, ArgPaths, root, sub, shut, top, low, loose, dev, txt, c

\* Below root there is a directory that cannot always be read, with a file that
\* cannot always be opened; below sub nothing can fail, and the device is no file.
TreeEntries == root :> {sub, shut} @@ sub :> {low, loose, dev} @@ shut :> {top}

\* The path of loose ends with both of the suffixes.
TreeEnding == txt :> {top, low, loose} @@ c :> {loose}

Arguments ==
    [flag : {"path"}, value : ArgPaths]
        \cup [flag : NumberFlags, value : Numbers \cup {NoDigits, NoValue}]
        \cup [flag : {"-s"}, value : Suffixes]
        \cup [flag : {"-", "-?"}, value : {NoValue}]

Lines == UNION {[1..n -> Arguments] : n \in 0..MaxArgs}
=============================================================================
