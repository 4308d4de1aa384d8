------------------------- MODULE CollectionRefinement -------------------------
(***************************************************************************)
(* The threads of Collection implement the work list of Traversal.         *)
(***************************************************************************)
EXTENDS Collection

\* The directories a thread has removed and not read, or listed and not queued;
\* the files it has listed and not queued, or removed and not digested.
DirsInHand ==
    [t \in DirThreads |-> pending_dirs[t] \cup (IF pc[t] = "scan" THEN {held[t]} ELSE {})]
FilesInHand ==
    [t \in Threads |->
        IF t \in DirThreads THEN pending_files[t]
        ELSE IF pc[t] \in {"open", "close", "push"} THEN {held[t]} ELSE {}]

\* The paths in a queue or in the hands of a thread, and that each is so once.
InWork(queue, hand) == Range(queue) \cup UNION {hand[t] : t \in DOMAIN hand}
Apart(queue, hand) ==
    /\ IsInjective(queue)
    /\ \A t \in DOMAIN hand : hand[t] \cap Range(queue) = {}
    /\ \A t, u \in DOMAIN hand : t # u => hand[t] \cap hand[u] = {}

TodoDirs == InWork(directory_queue, DirsInHand)
TodoFiles == InWork(file_queue, FilesInHand)

\* A failure is in err_flag or still in an is_err; in the end only err_flag counts.
Failed == err_flag \/ (main # "collected" /\ \E t \in Threads : is_err[t])

Phase ==
    CASE main \in {"collected", "wrong"} -> main
      [] main = "exited" -> "failed"
      [] OTHER -> "collecting"

Work == INSTANCE Traversal WITH
    todoDirs <- TodoDirs,
    todoFiles <- TodoFiles,
    digested <- Range(wf_stack),
    err <- Failed,
    phase <- Phase

\* No interleaving of the threads loses a directory or a file, handles one
\* twice, forgets a failure or ends the phase early.
ImplementsTraversal == Work!Spec

-----------------------------------------------------------------------------
(* The invariant behind the refinement.                                    *)

\* No path is in two places, and none is digested twice.
WorkApart ==
    /\ Apart(directory_queue, DirsInHand)
    /\ Apart(file_queue, FilesInHand)
    /\ IsInjective(wf_stack)
    /\ TodoFiles \cap Range(wf_stack) = {}

\* S is the set of the directories read so far: they are not read again, and
\* what the threads work on or have finished is an argument or comes from them.
ReadSoFar(S) ==
    /\ S \cap TodoDirs = {}
    /\ \A p \in S \cup TodoDirs : p \in Range(ArgDirs) \/ \E d \in S : p \in Visible(d)
    /\ \A p \in TodoFiles \cup Range(wf_stack) :
         p \in Range(ArgFiles) \/ \E d \in S : p \in FilesAmong(Visible(d))

\* Unless something failed, nothing that comes from S or the arguments is missing.
NothingMissed(S) ==
    /\ Range(ArgDirs) \subseteq S \cup TodoDirs
    /\ Range(ArgFiles) \subseteq TodoFiles \cup Range(wf_stack)
    /\ \A d \in S : /\ DirsAmong(Visible(d)) \subseteq S \cup TodoDirs
                    /\ FilesAmong(Visible(d)) \subseteq TodoFiles \cup Range(wf_stack)

\* Every path is where it should be, for some set of directories already read.
EveryPathPlaced ==
    \E S \in SUBSET ReachableDirs : ReadSoFar(S) /\ (~Failed => NothingMissed(S))

\* What a joined thread knows of failures, main knows.
JoinedErrorsKnown == \A t \in joined : is_err[t] => err_flag

\* The inductive invariant of the refinement.
RefinementInv ==
    /\ CollectionInv
    /\ WorkApart
    /\ EveryPathPlaced
    /\ JoinedErrorsKnown
=============================================================================
