----------------------------- MODULE FileSystem -----------------------------
(***************************************************************************)
(* The part of the file system one run of compare looks at, as it was when *)
(* the command line was written.  A path is one string that the program    *)
(* allocates: a directory named twice on the command line is two paths, so *)
(* the directories form a forest.  Only what directoryFunction_r and the   *)
(* file threads distinguish is kept of a path: whether stat calls it a     *)
(* directory, a regular file or something else, whether its name begins    *)
(* with a period, whether it ends with the suffix, and whether a call that *)
(* opens it can fail (no permission, or removed while the program runs).   *)
(***************************************************************************)
EXTENDS Naturals, FiniteSets, Sequences, Functions

CONSTANTS
    Dirs,       \* paths for which S_ISDIR holds
    Files,      \* paths for which S_ISREG holds
    Others,     \* paths of any other type (sockets, FIFOs, devices)
    Hidden,     \* entries whose name begins with a period
    Suffixed,   \* regular files whose path ends with file_suffix
    Faulty,     \* paths whose stat, open or opendir may fail
    Entries,    \* what readdir returns in each directory
    ArgDirs,    \* the directories main queued from argv, in order
    ArgFiles    \* the regular files main queued from argv, in order

Paths == Dirs \cup Files \cup Others

ASSUME PathAssumption ==
    /\ IsFiniteSet(Paths)
    /\ Hidden \subseteq Paths
    /\ Suffixed \subseteq Files
    /\ Faulty \subseteq Paths
    /\ Entries \in [Dirs -> SUBSET Paths]
    /\ ArgDirs \in Seq(Dirs)
    /\ ArgFiles \in Seq(Files)

ASSUME KindAssumption ==
    /\ Dirs \cap Files = {}
    /\ Dirs \cap Others = {}
    /\ Files \cap Others = {}

\* A path has one parent, an argument has none, and no argument is queued twice.
ASSUME ForestAssumption ==
    /\ \A d, e \in Dirs : d # e => Entries[d] \cap Entries[e] = {}
    /\ \A d \in Dirs : Entries[d] \cap (Range(ArgDirs) \cup Range(ArgFiles)) = {}
    /\ IsInjective(ArgDirs)
    /\ IsInjective(ArgFiles)

\* The entries of d that directoryFunction_r does not skip for their name.
Visible(d) == Entries[d] \ Hidden

\* What directoryFunction_r adds to dirs and to files for the entries ok that
\* could be examined: every directory, and the regular files with the suffix.
DirsAmong(ok) == ok \cap Dirs
FilesAmong(ok) == ok \cap Suffixed

\* The arguments and the directories below them: the least set that holds the
\* arguments and, with a directory, those among its entries that are not hidden.
ClosedUnderEntries(S) == \A d \in S : DirsAmong(Visible(d)) \subseteq S
ReachableDirs ==
    {d \in Dirs : \A S \in SUBSET Dirs :
        Range(ArgDirs) \subseteq S /\ ClosedUnderEntries(S) => d \in S}

\* The files a run without any failure has to examine: the arguments, which
\* need not have the suffix, and the suffixed files of reachable directories.
WantedFiles ==
    Range(ArgFiles) \cup UNION {FilesAmong(Visible(d)) : d \in ReachableDirs}
=============================================================================
