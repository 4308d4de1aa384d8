---------------------------- MODULE MCCollection ----------------------------
(* Instances of Collection for TLC: the file trees of the runs.             *)
EXTENDS CollectionRefinement, TLC

CONSTANTS root, sub, arg, top, low, odd, dev, dot

\* One directory argument with a file, a subdirectory that holds another file,
\* a file without the suffix, a device and a hidden file; one file argument.
TreeDirs == {root, sub}
TreeFiles == {arg, top, low, odd, dot}
TreeOthers == {dev}
TreeHidden == {dot}
TreeSuffixed == {top, low, dot}
TreeEntries == root :> {top, sub, dev, dot} @@ sub :> {low, odd}
TreeArgDirs == <<root>>
TreeArgFiles == <<arg>>

\* A chain of directories, so that three directory threads wait for each other.
ChainDirs == {root, sub}
ChainFiles == {low}
ChainEntries == root :> {sub} @@ sub :> {low}
ChainArgFiles == <<>>

\* Threads are interchangeable.  Sound here: the runs with it check no liveness.
ThreadSymmetry == Permutations(DirThreads) \cup Permutations(FileThreads)
=============================================================================
