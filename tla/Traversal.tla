------------------------------ MODULE Traversal ------------------------------
(***************************************************************************)
(* What the collection phase promises, without threads, queues or locks: a *)
(* set of directories still to be read, a set of files still to be         *)
(* digested, and the set of files whose word table is in the repository.   *)
(* The phase may end only when nothing is left to do.  Collection.tla      *)
(* implements it.                                                          *)
(***************************************************************************)
EXTENDS FileSystem

VARIABLES
    todoDirs,   \* directories queued or held by a thread that has not read them
    todoFiles,  \* files queued or held by a thread that has not digested them
    digested,   \* files whose table is in the repository
    err,        \* some stat, open or opendir failed
    phase

vars == <<todoDirs, todoFiles, digested, err, phase>>

Init ==
    /\ todoDirs = Range(ArgDirs)
    /\ todoFiles = Range(ArgFiles)
    /\ digested = {}
    /\ err \in BOOLEAN
    /\ phase = "collecting"

\* A directory is read: the entries ok are examined, a failure is remembered.
Expand(d, ok) ==
    /\ d \in todoDirs
    /\ todoDirs' = (todoDirs \ {d}) \cup DirsAmong(ok)
    /\ todoFiles' = todoFiles \cup FilesAmong(ok)
    /\ err' = (err \/ ok # Visible(d))
    /\ UNCHANGED <<digested, phase>>

\* A directory that can no longer be opened contributes nothing.
Miss(d) ==
    /\ d \in todoDirs \cap Faulty
    /\ todoDirs' = todoDirs \ {d}
    /\ err' = TRUE
    /\ UNCHANGED <<todoFiles, digested, phase>>

Digest(f) ==
    /\ f \in todoFiles
    /\ todoFiles' = todoFiles \ {f}
    /\ digested' = digested \cup {f}
    /\ UNCHANGED <<todoDirs, err, phase>>

\* A file that can no longer be opened is dropped, and the error is remembered.
Drop(f) ==
    /\ f \in todoFiles \cap Faulty
    /\ todoFiles' = todoFiles \ {f}
    /\ err' = TRUE
    /\ UNCHANGED <<todoDirs, digested, phase>>

Finish ==
    /\ todoDirs = {}
    /\ todoFiles = {}
    /\ phase' = "collected"
    /\ UNCHANGED <<todoDirs, todoFiles, digested, err>>

Fail ==
    /\ phase' = "failed"
    /\ UNCHANGED <<todoDirs, todoFiles, digested, err>>

Next ==
    /\ phase = "collecting"
    /\ \/ \E d \in todoDirs :
            \/ \E bad \in SUBSET (Visible(d) \cap Faulty) : Expand(d, Visible(d) \ bad)
            \/ Miss(d)
       \/ \E f \in todoFiles : Digest(f) \/ Drop(f)
       \/ Finish
       \/ Fail

Spec == Init /\ [][Next]_vars
=============================================================================
