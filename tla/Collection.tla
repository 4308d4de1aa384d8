----------------------------- MODULE Collection -----------------------------
(***************************************************************************)
(* The collection phase of compare: main creates the directory and file    *)
(* threads, the threads empty directory_queue and file_queue with the      *)
(* help of two mutexes, two condition variables and the counter            *)
(* no_waiting_dirs, and main joins them and checks that the queues are     *)
(* empty.  Modelled from collection_threads.c, directoryFunction_r in      *)
(* helperR.c and lines 246-360 of compare.c.                               *)
(*                                                                         *)
(* A step is the code between two points where threads can affect each     *)
(* other.  sync_q_empty, sync_q_add, sync_q_remove and wf_repo_push are    *)
(* atomic because their bodies run under the lock of their structure.  A   *)
(* critical section is one step when nothing in it touches data that a     *)
(* thread outside it can touch; otherwise the mutex is a variable and the  *)
(* section takes several steps.                                            *)
(***************************************************************************)
EXTENDS FileSystem

CONSTANTS
    DirThreads,     \* the threads main starts with dir_thread_routine
    FileThreads,    \* the threads main starts with file_thread_routine
    NoThread,       \* the holder of a free mutex
    NoPath,         \* a local variable that holds no queue node
    SystemFaults,   \* whether malloc, close or a pthread call may fail
    MaxSpurious     \* bound: how often cond_wait may return without a broadcast

Threads == DirThreads \cup FileThreads

ASSUME ThreadAssumption ==
    /\ IsFiniteSet(DirThreads) /\ DirThreads # {}
    /\ IsFiniteSet(FileThreads) /\ FileThreads # {}
    /\ DirThreads \cap FileThreads = {}
    /\ NoThread \notin Threads
    /\ NoPath \notin Paths
    /\ SystemFaults \in BOOLEAN
    /\ MaxSpurious \in Nat

\* no_dir_threads: getDigits refuses 0, so there is at least one.
no_dir_threads == Cardinality(DirThreads)

VARIABLES
    directory_queue,        \* names in the directory queue, front first
    file_queue,             \* names in the file queue, front first
    wf_stack,               \* files whose table is in the repository, top first
    dir_term_mutex,         \* the thread that holds it, or NoThread
    file_term_mutex,
    no_waiting_dirs,
    dir_threads_terminate,
    pc,                     \* where each thread is
    held,                   \* the queue node a thread has removed
    pending_dirs,           \* dirs of a directory thread: not yet queued
    pending_files,          \* files of a directory thread: not yet queued
    added,                  \* dirs_added, then files_added
    is_err,
    main,                   \* where main is
    joined,                 \* the threads main has joined
    err_flag,
    spurious                \* wake-ups without a broadcast so far

vars == <<directory_queue, file_queue, wf_stack, dir_term_mutex, file_term_mutex,
          no_waiting_dirs, dir_threads_terminate, pc, held, pending_dirs,
          pending_files, added, is_err, main, joined, err_flag, spurious>>

\* Groups of variables that most actions leave alone.
mainVars == <<main, joined, err_flag>>
termVars == <<no_waiting_dirs, dir_threads_terminate>>
mutexVars == <<dir_term_mutex, file_term_mutex>>
queueVars == <<directory_queue, file_queue, wf_stack>>
localVars == <<held, pending_dirs, pending_files, added, is_err>>

DirLabels == {"unborn", "test", "retest", "idle", "asleep", "awake", "term",
              "broadcast", "remove", "scan", "add_dirs", "add_files", "done"}
FileLabels == {"unborn", "test", "retest", "idle", "asleep", "awake", "remove",
               "open", "close", "push", "done"}
MainLabels == {"create_dirs", "create_files", "join_dirs", "join_files", "check",
               "collected", "wrong", "exited"}

-----------------------------------------------------------------------------
(* Steps of pthreads that several actions share.                           *)

Goto(t, label) == pc' = [pc EXCEPT ![t] = label]

Free(mutex) == mutex = NoThread

\* pthread_cond_broadcast on the condition the threads in S sleep on, by t,
\* which goes on at label.
BroadcastAndGoto(S, t, label) ==
    pc' = [u \in Threads |-> IF u = t THEN label
                             ELSE IF u \in S /\ pc[u] = "asleep" THEN "awake"
                             ELSE pc[u]]

\* pthread_cond_wait may return although nobody broadcast (POSIX).
SpuriousWakeup(t) ==
    /\ pc[t] = "asleep"
    /\ spurious < MaxSpurious
    /\ spurious' = spurious + 1
    /\ Goto(t, "awake")
    /\ UNCHANGED <<queueVars, mutexVars, termVars, localVars, mainVars>>

-----------------------------------------------------------------------------
(* dir_thread_routine: waiting for a directory, and termination.           *)

\* The test of the inner while loop, by a thread that may lock dir_term_mutex
\* or holds it; it keeps the mutex when the queue is empty.
BranchOnDirQueue(t) ==
    IF directory_queue = <<>>
    THEN dir_term_mutex' = t /\ Goto(t, "idle")
    ELSE dir_term_mutex' = NoThread /\ Goto(t, "remove")

TestDirQueue(t) ==
    /\ pc[t] = "test"
    /\ Free(dir_term_mutex)
    /\ BranchOnDirQueue(t)
    /\ UNCHANGED <<queueVars, file_term_mutex, termVars, localVars, mainVars, spurious>>

RetestDirQueue(t) ==
    /\ pc[t] = "retest"
    /\ BranchOnDirQueue(t)
    /\ UNCHANGED <<queueVars, file_term_mutex, termVars, localVars, mainVars, spurious>>

\* Mutant: the count is compared before it is raised.
CountAsWaitingEarly(t) ==
    /\ pc[t] = "idle"
    /\ no_waiting_dirs' = no_waiting_dirs + 1
    /\ IF no_waiting_dirs + 2 >= no_dir_threads
       THEN Goto(t, "term") /\ UNCHANGED dir_term_mutex
       ELSE Goto(t, "asleep") /\ dir_term_mutex' = NoThread
    /\ UNCHANGED <<queueVars, file_term_mutex, dir_threads_terminate, localVars,
                   mainVars, spurious>>

\* The queue was empty: count this thread as waiting.  The last one goes on
\* to terminate everybody, still holding dir_term_mutex; another one sleeps.
CountAsWaiting(t) ==
    /\ pc[t] = "idle"
    /\ no_waiting_dirs' = no_waiting_dirs + 1
    /\ IF no_waiting_dirs' = no_dir_threads
       THEN Goto(t, "term") /\ UNCHANGED dir_term_mutex
       ELSE Goto(t, "asleep") /\ dir_term_mutex' = NoThread
    /\ UNCHANGED <<queueVars, file_term_mutex, dir_threads_terminate, localVars,
                   mainVars, spurious>>

\* Mutant: the file threads are not told.
SetTerminateSilently(t) ==
    /\ pc[t] = "term"
    /\ Free(file_term_mutex)
    /\ dir_threads_terminate' = TRUE
    /\ Goto(t, "broadcast")
    /\ UNCHANGED <<queueVars, mutexVars, no_waiting_dirs, localVars, mainVars, spurious>>

\* dir_threads_terminate is set and cond_file broadcast under both mutexes.
SetTerminate(t) ==
    /\ pc[t] = "term"
    /\ Free(file_term_mutex)
    /\ dir_threads_terminate' = TRUE
    /\ BroadcastAndGoto(FileThreads, t, "broadcast")
    /\ UNCHANGED <<queueVars, mutexVars, no_waiting_dirs, localVars, mainVars, spurious>>

\* cond_dir is broadcast, dir_term_mutex released, and the thread returns.
ReleaseDirThreads(t) ==
    /\ pc[t] = "broadcast"
    /\ BroadcastAndGoto(DirThreads, t, "done")
    /\ dir_term_mutex' = NoThread
    /\ UNCHANGED <<queueVars, file_term_mutex, termVars, localVars, mainVars, spurious>>

\* Mutants: a thread that leaves the wait stays counted; a thread that returns
\* takes itself off the count.
WakeDirThreadCounted(t) ==
    /\ pc[t] = "awake"
    /\ Free(dir_term_mutex)
    /\ IF dir_threads_terminate
       THEN Goto(t, "done") /\ UNCHANGED dir_term_mutex
       ELSE Goto(t, "retest") /\ dir_term_mutex' = t
    /\ UNCHANGED <<queueVars, file_term_mutex, termVars, localVars, mainVars, spurious>>

WakeDirThreadUncounted(t) ==
    /\ pc[t] = "awake"
    /\ Free(dir_term_mutex)
    /\ no_waiting_dirs' = no_waiting_dirs - 1
    /\ IF dir_threads_terminate
       THEN Goto(t, "done") /\ UNCHANGED dir_term_mutex
       ELSE Goto(t, "retest") /\ dir_term_mutex' = t
    /\ UNCHANGED <<queueVars, file_term_mutex, dir_threads_terminate, localVars,
                   mainVars, spurious>>

\* pthread_cond_wait returns with dir_term_mutex locked.
WakeDirThread(t) ==
    /\ pc[t] = "awake"
    /\ Free(dir_term_mutex)
    /\ IF dir_threads_terminate
       THEN Goto(t, "done") /\ UNCHANGED <<dir_term_mutex, no_waiting_dirs>>
       ELSE /\ no_waiting_dirs' = no_waiting_dirs - 1
            /\ dir_term_mutex' = t
            /\ Goto(t, "retest")
    /\ UNCHANGED <<queueVars, file_term_mutex, dir_threads_terminate, localVars,
                   mainVars, spurious>>

-----------------------------------------------------------------------------
(* dir_thread_routine: the work on one directory.                          *)

\* Mutant: the result of sync_q_remove is used without the test for NULL.
RemoveDirUnchecked(t) ==
    /\ pc[t] = "remove"
    /\ held' = [held EXCEPT ![t] = IF directory_queue = <<>> THEN NoPath
                                   ELSE Head(directory_queue)]
    /\ directory_queue' = IF directory_queue = <<>> THEN <<>> ELSE Tail(directory_queue)
    /\ Goto(t, "scan")
    /\ UNCHANGED <<file_queue, wf_stack, mutexVars, termVars, pending_dirs,
                   pending_files, added, is_err, mainVars, spurious>>

\* The queue may have been emptied since the test: sync_q_remove returns NULL.
RemoveDir(t) ==
    /\ pc[t] = "remove"
    /\ IF directory_queue = <<>>
       THEN Goto(t, "test") /\ UNCHANGED <<directory_queue, held>>
       ELSE /\ held' = [held EXCEPT ![t] = Head(directory_queue)]
            /\ directory_queue' = Tail(directory_queue)
            /\ Goto(t, "scan")
    /\ UNCHANGED <<file_queue, wf_stack, mutexVars, termVars, pending_dirs,
                   pending_files, added, is_err, mainVars, spurious>>

\* directoryFunction_r found the entries ok; failed tells that it returned
\* EXIT_FAILURE.  The thread is left with the two lists to queue.
Listed(t, ok, failed) ==
    /\ pending_dirs' = [pending_dirs EXCEPT ![t] = DirsAmong(ok)]
    /\ pending_files' = [pending_files EXCEPT ![t] = FilesAmong(ok)]
    /\ is_err' = [is_err EXCEPT ![t] = @ \/ failed]
    /\ held' = [held EXCEPT ![t] = NoPath]
    /\ Goto(t, "add_dirs")

\* Any entry that cannot be examined makes the whole call fail, suffix or not;
\* if the directory itself cannot be opened both lists stay empty.
ScanDir(t) ==
    /\ pc[t] = "scan"
    /\ LET d == held[t] IN
         \/ \E bad \in SUBSET (Visible(d) \cap Faulty) :
                Listed(t, Visible(d) \ bad, bad # {})
         \/ d \in Faulty /\ Listed(t, {}, TRUE)
    /\ UNCHANGED <<queueVars, mutexVars, termVars, added, mainVars, spurious>>

\* The lists are queued one name at a time; readdir gave them in any order.
AddDir(t) ==
    /\ pc[t] = "add_dirs"
    /\ \E d \in pending_dirs[t] :
         /\ directory_queue' = Append(directory_queue, d)
         /\ pending_dirs' = [pending_dirs EXCEPT ![t] = @ \ {d}]
    /\ added' = [added EXCEPT ![t] = TRUE]
    /\ UNCHANGED <<file_queue, wf_stack, mutexVars, termVars, pc, held,
                   pending_files, is_err, mainVars, spurious>>

\* Mutant: the broadcast is made without dir_term_mutex.
NotifyDirThreadsUnlocked(t) ==
    /\ pc[t] = "add_dirs"
    /\ pending_dirs[t] = {}
    /\ IF added[t] THEN BroadcastAndGoto(DirThreads, t, "add_files")
                   ELSE Goto(t, "add_files")
    /\ added' = [added EXCEPT ![t] = FALSE]
    /\ UNCHANGED <<queueVars, mutexVars, termVars, held, pending_dirs,
                   pending_files, is_err, mainVars, spurious>>

NotifyDirThreads(t) ==
    /\ pc[t] = "add_dirs"
    /\ pending_dirs[t] = {}
    /\ Free(dir_term_mutex)
    /\ IF added[t] THEN BroadcastAndGoto(DirThreads, t, "add_files")
                   ELSE Goto(t, "add_files")
    /\ added' = [added EXCEPT ![t] = FALSE]
    /\ UNCHANGED <<queueVars, mutexVars, termVars, held, pending_dirs,
                   pending_files, is_err, mainVars, spurious>>

AddFile(t) ==
    /\ pc[t] = "add_files"
    /\ \E f \in pending_files[t] :
         /\ file_queue' = Append(file_queue, f)
         /\ pending_files' = [pending_files EXCEPT ![t] = @ \ {f}]
    /\ added' = [added EXCEPT ![t] = TRUE]
    /\ UNCHANGED <<directory_queue, wf_stack, mutexVars, termVars, pc, held,
                   pending_dirs, is_err, mainVars, spurious>>

NotifyFileThreads(t) ==
    /\ pc[t] = "add_files"
    /\ pending_files[t] = {}
    /\ Free(file_term_mutex)
    /\ IF added[t] THEN BroadcastAndGoto(FileThreads, t, "test")
                   ELSE Goto(t, "test")
    /\ added' = [added EXCEPT ![t] = FALSE]
    /\ UNCHANGED <<queueVars, mutexVars, termVars, held, pending_dirs,
                   pending_files, is_err, mainVars, spurious>>

DirThreadStep(t) ==
    \/ TestDirQueue(t)
    \/ RetestDirQueue(t)
    \/ CountAsWaiting(t)
    \/ SetTerminate(t)
    \/ ReleaseDirThreads(t)
    \/ WakeDirThread(t)
    \/ RemoveDir(t)
    \/ ScanDir(t)
    \/ AddDir(t)
    \/ NotifyDirThreads(t)
    \/ AddFile(t)
    \/ NotifyFileThreads(t)

-----------------------------------------------------------------------------
(* file_thread_routine.                                                    *)

\* Mutant: the mutex is released between the test and the wait.
BranchOnFileQueueUnlocked(t) ==
    /\ file_term_mutex' = NoThread
    /\ Goto(t, IF file_queue = <<>> THEN "idle" ELSE "remove")

BranchOnFileQueue(t) ==
    IF file_queue = <<>>
    THEN file_term_mutex' = t /\ Goto(t, "idle")
    ELSE file_term_mutex' = NoThread /\ Goto(t, "remove")

TestFileQueue(t) ==
    /\ pc[t] = "test"
    /\ Free(file_term_mutex)
    /\ BranchOnFileQueue(t)
    /\ UNCHANGED <<queueVars, dir_term_mutex, termVars, localVars, mainVars, spurious>>

RetestFileQueue(t) ==
    /\ pc[t] = "retest"
    /\ BranchOnFileQueue(t)
    /\ UNCHANGED <<queueVars, dir_term_mutex, termVars, localVars, mainVars, spurious>>

\* The queue was empty: return if no directory is left, otherwise sleep.
SleepOrReturn(t) ==
    /\ pc[t] = "idle"
    /\ Goto(t, IF dir_threads_terminate THEN "done" ELSE "asleep")
    /\ file_term_mutex' = NoThread
    /\ UNCHANGED <<queueVars, dir_term_mutex, termVars, localVars, mainVars, spurious>>

\* Mutant: a woken thread returns without a look at the queue.
WakeFileThreadHasty(t) ==
    /\ pc[t] = "awake"
    /\ Free(file_term_mutex)
    /\ IF dir_threads_terminate
       THEN Goto(t, "done") /\ UNCHANGED file_term_mutex
       ELSE Goto(t, "retest") /\ file_term_mutex' = t
    /\ UNCHANGED <<queueVars, dir_term_mutex, termVars, localVars, mainVars, spurious>>

WakeFileThread(t) ==
    /\ pc[t] = "awake"
    /\ Free(file_term_mutex)
    /\ IF dir_threads_terminate /\ file_queue = <<>>
       THEN Goto(t, "done") /\ UNCHANGED file_term_mutex
       ELSE Goto(t, "retest") /\ file_term_mutex' = t
    /\ UNCHANGED <<queueVars, dir_term_mutex, termVars, localVars, mainVars, spurious>>

RemoveFile(t) ==
    /\ pc[t] = "remove"
    /\ IF file_queue = <<>>
       THEN Goto(t, "test") /\ UNCHANGED <<file_queue, held>>
       ELSE /\ held' = [held EXCEPT ![t] = Head(file_queue)]
            /\ file_queue' = Tail(file_queue)
            /\ Goto(t, "open")
    /\ UNCHANGED <<directory_queue, wf_stack, mutexVars, termVars, pending_dirs,
                   pending_files, added, is_err, mainVars, spurious>>

\* Mutant: a file that cannot be opened is dropped, and nobody is told.
OpenFileSilently(t) ==
    /\ pc[t] = "open"
    /\ Free(file_term_mutex)
    /\ \/ Goto(t, "close") /\ UNCHANGED held
       \/ /\ held[t] \in Faulty
          /\ held' = [held EXCEPT ![t] = NoPath]
          /\ Goto(t, "test")
    /\ UNCHANGED <<queueVars, mutexVars, termVars, pending_dirs, pending_files,
                   added, is_err, mainVars, spurious>>

\* A file that cannot be opened is dropped: is_err is set and the loop goes on.
OpenFile(t) ==
    /\ pc[t] = "open"
    /\ Free(file_term_mutex)
    /\ \/ Goto(t, "close") /\ UNCHANGED <<held, is_err>>
       \/ /\ held[t] \in Faulty
          /\ is_err' = [is_err EXCEPT ![t] = TRUE]
          /\ held' = [held EXCEPT ![t] = NoPath]
          /\ Goto(t, "test")
    /\ UNCHANGED <<queueVars, mutexVars, termVars, pending_dirs, pending_files,
                   added, mainVars, spurious>>

\* tokenize has filled the thread's own table; the descriptor is closed.
CloseFile(t) ==
    /\ pc[t] = "close"
    /\ Free(file_term_mutex)
    /\ Goto(t, "push")
    /\ UNCHANGED <<queueVars, mutexVars, termVars, localVars, mainVars, spurious>>

PushTable(t) ==
    /\ pc[t] = "push"
    /\ wf_stack' = <<held[t]>> \o wf_stack
    /\ held' = [held EXCEPT ![t] = NoPath]
    /\ Goto(t, "test")
    /\ UNCHANGED <<directory_queue, file_queue, mutexVars, termVars, pending_dirs,
                   pending_files, added, is_err, mainVars, spurious>>

FileThreadStep(t) ==
    \/ TestFileQueue(t)
    \/ RetestFileQueue(t)
    \/ SleepOrReturn(t)
    \/ WakeFileThread(t)
    \/ RemoveFile(t)
    \/ OpenFile(t)
    \/ CloseFile(t)
    \/ PushTable(t)

-----------------------------------------------------------------------------
(* main: creating and joining the threads.  Threads carry no index here:   *)
(* they are named in the order in which main creates them, and since main  *)
(* waits for all of them the order of the joins does not matter.           *)

CreateThread(label, S, next) ==
    /\ main = label
    /\ \E t \in S :
         /\ pc[t] = "unborn"
         /\ Goto(t, "test")
         /\ main' = IF \A u \in S \ {t} : pc[u] # "unborn" THEN next ELSE label
    /\ UNCHANGED <<queueVars, mutexVars, termVars, localVars, joined, err_flag, spurious>>

CreateDirThread == CreateThread("create_dirs", DirThreads, "create_files")
CreateFileThread == CreateThread("create_files", FileThreads, "join_dirs")

\* Mutant: the result of a join replaces err_flag.
JoinThreadForgetful(label, S, next) ==
    /\ main = label
    /\ \E t \in S \ joined :
         /\ pc[t] = "done"
         /\ joined' = joined \cup {t}
         /\ err_flag' = is_err[t]
    /\ main' = IF S \subseteq joined' THEN next ELSE label
    /\ UNCHANGED <<queueVars, mutexVars, termVars, pc, localVars, spurious>>

\* A thread that returned EXIT_FAILURE makes the program fail in the end.
JoinThread(label, S, next) ==
    /\ main = label
    /\ \E t \in S \ joined :
         /\ pc[t] = "done"
         /\ joined' = joined \cup {t}
         /\ err_flag' = (err_flag \/ is_err[t])
    /\ main' = IF S \subseteq joined' THEN next ELSE label
    /\ UNCHANGED <<queueVars, mutexVars, termVars, pc, localVars, spurious>>

JoinDirThread == JoinThread("join_dirs", DirThreads, "join_files")
JoinFileThread == JoinThread("join_files", FileThreads, "check")

\* "Something went wrong in routines." if an item is left in a queue.
CheckQueues ==
    /\ main = "check"
    /\ main' = IF file_queue = <<>> /\ directory_queue = <<>>
               THEN "collected" ELSE "wrong"
    /\ UNCHANGED <<queueVars, mutexVars, termVars, pc, localVars, joined,
                   err_flag, spurious>>

\* Whoever is running calls exit(EXIT_FAILURE) when malloc, close or a pthread
\* call fails, and takes the process down.  main runs unless the threads it has
\* to join are all blocked.
ExitProcess ==
    /\ SystemFaults
    /\ \/ main \in {"create_dirs", "create_files", "check"}
       \/ \E t \in Threads \ joined : pc[t] \notin {"unborn", "asleep"}
    /\ main' = "exited"
    /\ UNCHANGED <<queueVars, mutexVars, termVars, pc, localVars, joined,
                   err_flag, spurious>>

MainStep ==
    \/ CreateDirThread
    \/ CreateFileThread
    \/ JoinDirThread
    \/ JoinFileThread
    \/ CheckQueues

-----------------------------------------------------------------------------
\* main has queued the arguments; an argument it could not open set err_flag.
\* It goes no further when both queues are empty.
Init ==
    /\ directory_queue = ArgDirs
    /\ file_queue = ArgFiles
    /\ wf_stack = <<>>
    /\ dir_term_mutex = NoThread
    /\ file_term_mutex = NoThread
    /\ no_waiting_dirs = 0
    /\ dir_threads_terminate = FALSE
    /\ pc = [t \in Threads |-> "unborn"]
    /\ held = [t \in Threads |-> NoPath]
    /\ pending_dirs = [t \in DirThreads |-> {}]
    /\ pending_files = [t \in DirThreads |-> {}]
    /\ added = [t \in DirThreads |-> FALSE]
    /\ is_err = [t \in Threads |-> FALSE]
    /\ main = "create_dirs"
    /\ joined = {}
    /\ err_flag \in BOOLEAN
    /\ spurious = 0

Over == main \in {"collected", "wrong", "exited"}

\* The phase is over: main goes on to the analysis or the process has ended.
Stop == Over /\ UNCHANGED vars

Next ==
    \/ /\ ~Over
       /\ \/ \E t \in DirThreads : DirThreadStep(t)
          \/ \E t \in FileThreads : FileThreadStep(t)
          \/ \E t \in Threads : SpuriousWakeup(t)
          \/ MainStep
          \/ ExitProcess
    \/ Stop

Spec == Init /\ [][Next]_vars

\* The scheduler runs some thread that can run.  Nothing is assumed of which
\* one, nor of the order in which a mutex is granted.
FairSpec == Spec /\ WF_vars(Next)

-----------------------------------------------------------------------------
(* Properties.                                                             *)

QueuesTyped ==
    /\ directory_queue \in Seq(Dirs)
    /\ file_queue \in Seq(Files)
    /\ wf_stack \in Seq(Files)

TermTyped ==
    /\ dir_term_mutex \in DirThreads \cup {NoThread}
    /\ file_term_mutex \in FileThreads \cup {NoThread}
    /\ no_waiting_dirs \in Nat
    /\ dir_threads_terminate \in BOOLEAN

ControlTyped ==
    /\ pc \in [Threads -> DirLabels \cup FileLabels]
    /\ \A t \in DirThreads : pc[t] \in DirLabels
    /\ \A t \in FileThreads : pc[t] \in FileLabels

HeldTyped ==
    /\ held \in [Threads -> Paths \cup {NoPath}]
    /\ \A t \in DirThreads : pc[t] = "scan" => held[t] \in Dirs
    /\ \A t \in FileThreads : pc[t] \in {"open", "close", "push"} => held[t] \in Files

ListsTyped ==
    /\ pending_dirs \in [DirThreads -> SUBSET Dirs]
    /\ pending_files \in [DirThreads -> SUBSET Files]
    /\ added \in [DirThreads -> BOOLEAN]
    /\ is_err \in [Threads -> BOOLEAN]

MainTyped ==
    /\ main \in MainLabels
    /\ joined \in SUBSET Threads
    /\ err_flag \in BOOLEAN
    /\ spurious \in 0..MaxSpurious

\* Every variable holds a value of its C type, and a thread that works on a
\* path holds one of the kind it works on.  Of the two mutexes the first is
\* only ever held by a directory thread, the second by a file thread.
TypeOK ==
    /\ QueuesTyped
    /\ TermTyped
    /\ ControlTyped
    /\ HeldTyped
    /\ ListsTyped
    /\ MainTyped

\* The directory threads that found no work and have not been told of any:
\* asleep, waking up, or on their way out.
Waiting == {t \in DirThreads : pc[t] \in {"asleep", "awake", "term", "broadcast", "done"}}

\* no_waiting_dirs counts exactly the waiting threads, although a thread that
\* was woken takes itself off the count only when it gets the mutex back.
WaitingIsCounted == no_waiting_dirs = Cardinality(Waiting)

\* dir_threads_terminate is only set when the directory queue is empty and no
\* directory thread still has a directory to read or a name to queue.
TerminateOnlyWhenDrained ==
    dir_threads_terminate =>
        /\ directory_queue = <<>>
        /\ Waiting = DirThreads
        /\ \A t \in DirThreads : pending_dirs[t] = {} /\ pending_files[t] = {}

\* A thread that sleeps, or has decided to, while its queue has an item will
\* be woken: some thread has queued a name and has yet to broadcast.
NoLostWakeup ==
    /\ (\E t \in DirThreads : pc[t] \in {"idle", "asleep"}) /\ directory_queue # <<>> =>
            \E u \in DirThreads : pc[u] = "add_dirs" /\ added[u]
    /\ (\E t \in FileThreads : pc[t] \in {"idle", "asleep"}) /\ file_queue # <<>> =>
            \E u \in DirThreads : pc[u] = "add_files" /\ added[u]

\* A file thread returns only when no file can reach the queue any more.
FileThreadsStayForWork ==
    (\E t \in FileThreads : pc[t] = "done") => dir_threads_terminate /\ file_queue = <<>>

\* main never finds an item in a queue after it has joined the threads: the
\* branch that prints "Something went wrong in routines." is dead.
QueuesDrained == main # "wrong"

\* If the phase ends and no failure was noted, the repository holds the table
\* of every file asked for, each exactly once, and of no other file.
CollectsWantedFiles ==
    main = "collected" /\ ~err_flag =>
        /\ Range(wf_stack) = WantedFiles
        /\ IsInjective(wf_stack)

\* Who holds a mutex is who is inside its critical section.
MutexInv ==
    /\ \A t \in DirThreads :
         pc[t] \in {"retest", "idle", "term", "broadcast"} <=> dir_term_mutex = t
    /\ \A t \in FileThreads :
         pc[t] \in {"retest", "idle"} <=> file_term_mutex = t

\* A directory thread has names to queue, or a broadcast to make for names it
\* has queued, only between reading a directory and the end of that iteration.
PendingInv ==
    \A t \in DirThreads :
        /\ pending_dirs[t] # {} => pc[t] = "add_dirs"
        /\ pending_files[t] # {} => pc[t] \in {"add_dirs", "add_files"}
        /\ added[t] => pc[t] \in {"add_dirs", "add_files"}

\* From the moment the last thread is counted nothing is left to do, and only
\* the termination flag lets a directory thread return.
TerminationInv ==
    /\ dir_threads_terminate \/ (\E t \in DirThreads : pc[t] \in {"term", "broadcast"}) =>
            Waiting = DirThreads /\ directory_queue = <<>>
    /\ \A t \in DirThreads : pc[t] \in {"broadcast", "done"} => dir_threads_terminate

\* main has joined only threads that have returned, and gets past a loop of
\* joins only when it has joined every thread of that loop.
MainInv ==
    /\ \A t \in joined : pc[t] = "done"
    /\ main \in {"join_files", "check", "collected", "wrong"} => DirThreads \subseteq joined
    /\ main \in {"check", "collected", "wrong"} => FileThreads \subseteq joined

\* The inductive invariant: what makes termination detection correct.
CollectionInv ==
    /\ TypeOK
    /\ MutexInv
    /\ PendingInv
    /\ WaitingIsCounted
    /\ NoLostWakeup
    /\ TerminationInv
    /\ FileThreadsStayForWork
    /\ MainInv
    /\ QueuesDrained

\* Once dir_threads_terminate is set nobody queues anything, and it stays set.
NothingQueuedAfterTermination ==
    [][dir_threads_terminate =>
          /\ dir_threads_terminate'
          /\ directory_queue' = <<>>
          /\ Len(file_queue') <= Len(file_queue)]_vars

\* The phase ends: no thread waits for ever and main gets past its joins.
PhaseEnds == <>(main \in {"collected", "exited"})
=============================================================================
