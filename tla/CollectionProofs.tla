--------------------------- MODULE CollectionProofs ---------------------------
(***************************************************************************)
(* Proofs about Collection, for any number of threads and any file tree.   *)
(* The inductive invariant CollectionInv is proved one conjunct after the  *)
(* other: each theorem uses the conjuncts that come before it.  The second *)
(* half proves that the phase implements the work list of Traversal.       *)
(***************************************************************************)
EXTENDS CollectionRefinement, FiniteSetTheorems, SequenceTheorems, TLAPS

-----------------------------------------------------------------------------
(* Types and the counter, which stays natural because it counts a set.     *)

\* A waiting thread means a positive count.
LEMMA WaitingFinite ==
  /\ Waiting \subseteq DirThreads
  /\ IsFiniteSet(Waiting)
  /\ Cardinality(Waiting) \in Nat
  /\ \A t \in Waiting : Cardinality(Waiting) > 0
  <1>1. Waiting \subseteq DirThreads
    BY DEF Waiting
  <1>2. IsFiniteSet(Waiting)
    BY <1>1, ThreadAssumption, FS_Subset
  <1>3. Cardinality(Waiting) \in Nat
    BY <1>2, FS_CardinalityType
  <1>4. Waiting # {} => Cardinality(Waiting) # 0
    BY <1>2, FS_EmptySet
  <1>5. QED BY <1>1, <1>2, <1>3, <1>4

\* main leaves every variable with a value of its type.
LEMMA InitTyped == Init => TypeOK
  <1> SUFFICES ASSUME Init PROVE TypeOK
    OBVIOUS
  <1> USE PathAssumption, ThreadAssumption DEF Init, Threads
  <1>1. QueuesTyped
    BY DEF QueuesTyped
  <1>2. TermTyped
    BY DEF TermTyped
  <1>3. ControlTyped
    BY DEF ControlTyped, DirLabels, FileLabels
  <1>4. HeldTyped
    BY DEF HeldTyped
  <1>5. ListsTyped
    BY DEF ListsTyped
  <1>6. MainTyped
    BY DEF MainTyped, MainLabels
  <1>7. QED BY <1>1, <1>2, <1>3, <1>4, <1>5, <1>6 DEF TypeOK

\* Listing a directory yields directories and regular files only.
LEMMA ListedTyped ==
  ASSUME NEW ok \in SUBSET Paths
  PROVE  DirsAmong(ok) \subseteq Dirs /\ FilesAmong(ok) \subseteq Files
  BY PathAssumption DEF DirsAmong, FilesAmong

\* What a move of one thread does to pc, with and without a broadcast.
LEMMA GotoMoves ==
  ASSUME ControlTyped, NEW t \in Threads, NEW label, Goto(t, label)
  PROVE  /\ pc'[t] = label
         /\ \A u \in Threads \ {t} : pc'[u] = pc[u]
         /\ DOMAIN pc' = Threads
         /\ pc' = [u \in Threads |-> pc'[u]]
  BY DEF ControlTyped, Goto

\* pthread_cond_broadcast wakes the sleepers of one condition and moves t.
LEMMA BroadcastMoves ==
  ASSUME NEW S, NEW t \in Threads, NEW label, BroadcastAndGoto(S, t, label)
  PROVE  /\ pc'[t] = label
         /\ \A u \in Threads \ {t} :
               pc'[u] = IF u \in S /\ pc[u] = "asleep" THEN "awake" ELSE pc[u]
         /\ pc' = [u \in Threads |-> pc'[u]]
  BY DEF BroadcastAndGoto

\* A thread that goes to one of its own labels, and the wake-ups of a
\* broadcast, leave pc well typed.
LEMMA MoveTyped ==
  ASSUME ControlTyped, NEW t \in Threads, NEW label, NEW S,
         Goto(t, label) \/ BroadcastAndGoto(S, t, label),
         t \in DirThreads => label \in DirLabels,
         t \in FileThreads => label \in FileLabels
  PROVE  ControlTyped'
  <1>1. /\ pc'[t] = label
        /\ \A u \in Threads \ {t} : pc'[u] \in {pc[u], "awake"}
        /\ pc' = [u \in Threads |-> pc'[u]]
    BY GotoMoves, BroadcastMoves
  <1>2. /\ \A u \in DirThreads : pc'[u] \in DirLabels
        /\ \A u \in FileThreads : pc'[u] \in FileLabels
    BY <1>1 DEF ControlTyped, Threads, DirLabels, FileLabels
  <1>3. \A u \in Threads : pc'[u] \in DirLabels \cup FileLabels
    BY <1>2 DEF Threads
  <1>4. QED BY <1>1, <1>2, <1>3 DEF ControlTyped

\* So does a move to a label at which no path is held.
LEMMA HeldKept ==
  ASSUME ControlTyped, HeldTyped, UNCHANGED held, NEW t \in Threads, NEW label, NEW S,
         label \notin {"scan", "open", "close", "push"},
         Goto(t, label) \/ BroadcastAndGoto(S, t, label)
  PROVE  HeldTyped'
  <1>1. /\ pc'[t] = label
        /\ \A u \in Threads \ {t} : pc'[u] \in {pc[u], "awake"}
    BY GotoMoves, BroadcastMoves
  <1>2. QED BY <1>1 DEF HeldTyped, Threads

\* A step of a directory thread (collection_threads.c:18-223) keeps the types.
LEMMA DirStepTyped ==
  ASSUME TypeOK, WaitingIsCounted, NEW t \in DirThreads, DirThreadStep(t)
  PROVE  TypeOK'
  <1> USE DEF TypeOK
  <1>t. t \in Threads /\ t \notin FileThreads
    BY ThreadAssumption DEF Threads
  <1>1. CASE TestDirQueue(t) \/ RetestDirQueue(t)
    <2>1. PICK label \in {"idle", "remove"} : Goto(t, label)
      BY <1>1 DEF TestDirQueue, RetestDirQueue, BranchOnDirQueue
    <2>2. ControlTyped' /\ HeldTyped'
      BY <1>1, <1>t, <2>1, MoveTyped, HeldKept
         DEF TestDirQueue, RetestDirQueue, DirLabels, localVars
    <2>3. TermTyped'
      BY <1>1 DEF TestDirQueue, RetestDirQueue, BranchOnDirQueue, TermTyped, termVars
    <2>4. QueuesTyped' /\ ListsTyped' /\ MainTyped'
      BY <1>1 DEF TestDirQueue, RetestDirQueue, QueuesTyped, ListsTyped, MainTyped,
                  queueVars, localVars, mainVars
    <2>5. QED BY <2>2, <2>3, <2>4
  <1>2. CASE CountAsWaiting(t)
    <2>1. PICK label \in {"term", "asleep"} : Goto(t, label)
      BY <1>2 DEF CountAsWaiting
    <2>2. ControlTyped' /\ HeldTyped'
      BY <1>2, <1>t, <2>1, MoveTyped, HeldKept DEF CountAsWaiting, DirLabels, localVars
    <2>3. TermTyped'
      BY <1>2 DEF CountAsWaiting, TermTyped
    <2>4. QueuesTyped' /\ ListsTyped' /\ MainTyped'
      BY <1>2 DEF CountAsWaiting, QueuesTyped, ListsTyped, MainTyped,
                  queueVars, localVars, mainVars
    <2>5. QED BY <2>2, <2>3, <2>4
  <1>3. CASE SetTerminate(t) \/ ReleaseDirThreads(t)
    <2>1. PICK S \in {DirThreads, FileThreads}, label \in {"broadcast", "done"} :
             BroadcastAndGoto(S, t, label)
      BY <1>3 DEF SetTerminate, ReleaseDirThreads
    <2>2. ControlTyped' /\ HeldTyped'
      BY <1>3, <1>t, <2>1, MoveTyped, HeldKept
         DEF SetTerminate, ReleaseDirThreads, DirLabels, localVars
    <2>3. TermTyped'
      BY <1>3 DEF SetTerminate, ReleaseDirThreads, TermTyped, termVars, mutexVars
    <2>4. QueuesTyped' /\ ListsTyped' /\ MainTyped'
      BY <1>3 DEF SetTerminate, ReleaseDirThreads, QueuesTyped, ListsTyped, MainTyped,
                  queueVars, localVars, mainVars
    <2>5. QED BY <2>2, <2>3, <2>4
  <1>4. CASE WakeDirThread(t)
    <2>1. PICK label \in {"done", "retest"} : Goto(t, label)
      BY <1>4 DEF WakeDirThread
    <2>2. ControlTyped' /\ HeldTyped'
      BY <1>4, <1>t, <2>1, MoveTyped, HeldKept DEF WakeDirThread, DirLabels, localVars
    <2>3. no_waiting_dirs > 0
      BY <1>4, WaitingFinite DEF WakeDirThread, Waiting, WaitingIsCounted
    <2>4. TermTyped'
      BY <1>4, <2>3 DEF WakeDirThread, TermTyped
    <2>5. QueuesTyped' /\ ListsTyped' /\ MainTyped'
      BY <1>4 DEF WakeDirThread, QueuesTyped, ListsTyped, MainTyped,
                  queueVars, localVars, mainVars
    <2>6. QED BY <2>2, <2>4, <2>5
  <1>5. CASE RemoveDir(t)
    <2>1. CASE directory_queue = <<>>
      <3>1. ControlTyped' /\ HeldTyped'
        BY <1>5, <1>t, <2>1, MoveTyped, HeldKept DEF RemoveDir, DirLabels
      <3>2. QueuesTyped' /\ TermTyped' /\ ListsTyped' /\ MainTyped'
        BY <1>5, <2>1 DEF RemoveDir, QueuesTyped, TermTyped, ListsTyped, MainTyped,
                          mutexVars, termVars, mainVars
      <3>3. QED BY <3>1, <3>2
    <2>2. CASE directory_queue # <<>>
      <3>1. Head(directory_queue) \in Dirs /\ Tail(directory_queue) \in Seq(Dirs)
        BY <2>2, HeadTailProperties DEF QueuesTyped
      <3>2. Goto(t, "scan") /\ held' = [held EXCEPT ![t] = Head(directory_queue)]
        BY <1>5, <2>2 DEF RemoveDir
      <3>3. ControlTyped'
        BY <1>t, <3>2, MoveTyped DEF DirLabels
      <3>4. HeldTyped'
        BY <1>t, <3>1, <3>2, GotoMoves DEF HeldTyped, Paths, Threads
      <3>5. QueuesTyped' /\ TermTyped' /\ ListsTyped' /\ MainTyped'
        BY <1>5, <2>2, <3>1 DEF RemoveDir, QueuesTyped, TermTyped, ListsTyped, MainTyped,
                                mutexVars, termVars, mainVars
      <3>6. QED BY <3>3, <3>4, <3>5
    <2>3. QED BY <2>1, <2>2
  <1>6. CASE ScanDir(t)
    <2>1. PICK ok \in SUBSET Paths, failed \in BOOLEAN : Listed(t, ok, failed)
      <3>1. held[t] \in Dirs
        BY <1>6 DEF ScanDir, HeldTyped
      <3>2. Visible(held[t]) \subseteq Paths
        BY <3>1, PathAssumption DEF Visible
      <3>3. QED BY <1>6, <3>2 DEF ScanDir
    <2>2. ControlTyped'
      BY <1>t, <2>1, MoveTyped DEF Listed, DirLabels
    <2>3. HeldTyped'
      BY <1>t, <2>1, GotoMoves DEF Listed, HeldTyped, Threads
    <2>4. added' = added
      BY <1>6 DEF ScanDir
    <2>5. ListsTyped'
      BY <1>t, <2>1, <2>4, ListedTyped DEF Listed, ListsTyped
    <2>6. QueuesTyped' /\ TermTyped' /\ MainTyped'
      BY <1>6 DEF ScanDir, QueuesTyped, TermTyped, MainTyped,
                  queueVars, mutexVars, termVars, mainVars
    <2>7. QED BY <2>2, <2>3, <2>5, <2>6
  <1>7. CASE AddDir(t)
    <2>1. PICK d \in pending_dirs[t] :
             /\ directory_queue' = Append(directory_queue, d)
             /\ pending_dirs' = [pending_dirs EXCEPT ![t] = @ \ {d}]
      BY <1>7 DEF AddDir
    <2>2. d \in Dirs
      BY <2>1 DEF ListsTyped
    <2>3. QueuesTyped'
      BY <1>7, <2>1, <2>2, AppendProperties DEF AddDir, QueuesTyped
    <2>4. ListsTyped'
      BY <1>7, <2>1 DEF AddDir, ListsTyped
    <2>5. ControlTyped' /\ HeldTyped' /\ TermTyped' /\ MainTyped'
      BY <1>7 DEF AddDir, ControlTyped, HeldTyped, TermTyped, MainTyped,
                  mutexVars, termVars, mainVars
    <2>6. QED BY <2>3, <2>4, <2>5
  <1>8. CASE AddFile(t)
    <2>1. PICK f \in pending_files[t] :
             /\ file_queue' = Append(file_queue, f)
             /\ pending_files' = [pending_files EXCEPT ![t] = @ \ {f}]
      BY <1>8 DEF AddFile
    <2>2. f \in Files
      BY <2>1 DEF ListsTyped
    <2>3. QueuesTyped'
      BY <1>8, <2>1, <2>2, AppendProperties DEF AddFile, QueuesTyped
    <2>4. ListsTyped'
      BY <1>8, <2>1 DEF AddFile, ListsTyped
    <2>5. ControlTyped' /\ HeldTyped' /\ TermTyped' /\ MainTyped'
      BY <1>8 DEF AddFile, ControlTyped, HeldTyped, TermTyped, MainTyped,
                  mutexVars, termVars, mainVars
    <2>6. QED BY <2>3, <2>4, <2>5
  <1>9. CASE NotifyDirThreads(t) \/ NotifyFileThreads(t)
    <2>1. PICK S \in {DirThreads, FileThreads}, label \in {"add_files", "test"} :
             Goto(t, label) \/ BroadcastAndGoto(S, t, label)
      BY <1>9 DEF NotifyDirThreads, NotifyFileThreads
    <2>2. ControlTyped' /\ HeldTyped'
      BY <1>9, <1>t, <2>1, MoveTyped, HeldKept
         DEF NotifyDirThreads, NotifyFileThreads, DirLabels
    <2>3. ListsTyped'
      BY <1>9 DEF NotifyDirThreads, NotifyFileThreads, ListsTyped
    <2>4. QueuesTyped' /\ TermTyped' /\ MainTyped'
      BY <1>9 DEF NotifyDirThreads, NotifyFileThreads, QueuesTyped, TermTyped, MainTyped,
                  queueVars, mutexVars, termVars, mainVars
    <2>5. QED BY <2>2, <2>3, <2>4
  <1>10. QED
    BY <1>1, <1>2, <1>3, <1>4, <1>5, <1>6, <1>7, <1>8, <1>9 DEF DirThreadStep

\* A step of a file thread (collection_threads.c:225-364) keeps the types.
LEMMA FileStepTyped ==
  ASSUME TypeOK, NEW t \in FileThreads, FileThreadStep(t)
  PROVE  TypeOK'
  <1> USE DEF TypeOK
  <1>t. t \in Threads /\ t \notin DirThreads
    BY ThreadAssumption DEF Threads
  <1>1. CASE TestFileQueue(t) \/ RetestFileQueue(t) \/ SleepOrReturn(t) \/ WakeFileThread(t)
    <2>1. PICK label \in {"idle", "remove", "done", "asleep", "retest"} : Goto(t, label)
      BY <1>1 DEF TestFileQueue, RetestFileQueue, BranchOnFileQueue, SleepOrReturn, WakeFileThread
    <2>2. UNCHANGED <<queueVars, dir_term_mutex, termVars, localVars, mainVars, spurious>>
      BY <1>1 DEF TestFileQueue, RetestFileQueue, SleepOrReturn, WakeFileThread
    <2>3. file_term_mutex' \in {t, NoThread, file_term_mutex}
      BY <1>1 DEF TestFileQueue, RetestFileQueue, BranchOnFileQueue, SleepOrReturn, WakeFileThread
    <2>4. ControlTyped' /\ HeldTyped'
      BY <1>t, <2>1, <2>2, MoveTyped, HeldKept DEF FileLabels, localVars
    <2>5. TermTyped'
      BY <2>2, <2>3 DEF TermTyped, termVars
    <2>6. QueuesTyped' /\ ListsTyped' /\ MainTyped'
      BY <2>2 DEF QueuesTyped, ListsTyped, MainTyped, queueVars, localVars, mainVars
    <2>7. QED BY <2>4, <2>5, <2>6
  <1>2. CASE RemoveFile(t)
    <2>1. CASE file_queue = <<>>
      <3>1. ControlTyped' /\ HeldTyped'
        BY <1>2, <1>t, <2>1, MoveTyped, HeldKept DEF RemoveFile, FileLabels
      <3>2. QueuesTyped' /\ TermTyped' /\ ListsTyped' /\ MainTyped'
        BY <1>2, <2>1 DEF RemoveFile, QueuesTyped, TermTyped, ListsTyped, MainTyped,
                          mutexVars, termVars, mainVars
      <3>3. QED BY <3>1, <3>2
    <2>2. CASE file_queue # <<>>
      <3>1. Head(file_queue) \in Files /\ Tail(file_queue) \in Seq(Files)
        BY <2>2, HeadTailProperties DEF QueuesTyped
      <3>2. Goto(t, "open") /\ held' = [held EXCEPT ![t] = Head(file_queue)]
        BY <1>2, <2>2 DEF RemoveFile
      <3>3. ControlTyped'
        BY <1>t, <3>2, MoveTyped DEF FileLabels
      <3>4. HeldTyped'
        BY <1>t, <3>1, <3>2, GotoMoves DEF HeldTyped, Paths, Threads
      <3>5. QueuesTyped' /\ TermTyped' /\ ListsTyped' /\ MainTyped'
        BY <1>2, <2>2, <3>1 DEF RemoveFile, QueuesTyped, TermTyped, ListsTyped, MainTyped,
                                mutexVars, termVars, mainVars
      <3>6. QED BY <3>3, <3>4, <3>5
    <2>3. QED BY <2>1, <2>2
  <1>3. CASE OpenFile(t)
    <2>1. \/ Goto(t, "close") /\ UNCHANGED <<held, is_err>>
          \/ /\ Goto(t, "test")
             /\ held' = [held EXCEPT ![t] = NoPath]
             /\ is_err' = [is_err EXCEPT ![t] = TRUE]
      BY <1>3 DEF OpenFile
    <2>2. held[t] \in Files
      BY <1>3 DEF OpenFile, HeldTyped
    <2>3. ControlTyped'
      BY <1>t, <2>1, MoveTyped DEF FileLabels
    <2>4. HeldTyped'
      BY <1>t, <2>1, <2>2, GotoMoves DEF HeldTyped, Threads
    <2>5. pending_dirs' = pending_dirs /\ pending_files' = pending_files /\ added' = added
      BY <1>3 DEF OpenFile
    <2>6. ListsTyped'
      BY <1>t, <2>1, <2>5 DEF ListsTyped
    <2>7. QueuesTyped' /\ TermTyped' /\ MainTyped'
      BY <1>3 DEF OpenFile, QueuesTyped, TermTyped, MainTyped,
                  queueVars, mutexVars, termVars, mainVars
    <2>8. QED BY <2>3, <2>4, <2>6, <2>7
  <1>4. CASE CloseFile(t)
    <2>1. Goto(t, "push") /\ held' = held /\ held[t] \in Files
      BY <1>4 DEF CloseFile, HeldTyped, localVars
    <2>2. ControlTyped' /\ HeldTyped'
      BY <1>t, <2>1, MoveTyped, GotoMoves DEF HeldTyped, FileLabels, Threads
    <2>3. QueuesTyped' /\ TermTyped' /\ ListsTyped' /\ MainTyped'
      BY <1>4 DEF CloseFile, QueuesTyped, TermTyped, ListsTyped, MainTyped,
                  queueVars, mutexVars, termVars, localVars, mainVars
    <2>4. QED BY <2>2, <2>3
  <1>5. CASE PushTable(t)
    <2>1. Goto(t, "test") /\ held' = [held EXCEPT ![t] = NoPath]
      BY <1>5 DEF PushTable
    <2>2. ControlTyped' /\ HeldTyped'
      BY <1>t, <2>1, MoveTyped, GotoMoves DEF HeldTyped, FileLabels, Threads
    <2>3. <<held[t]>> \in Seq(Files)
      BY <1>5 DEF PushTable, HeldTyped
    <2>4. QueuesTyped'
      BY <1>5, <2>3, ConcatProperties DEF PushTable, QueuesTyped
    <2>5. TermTyped' /\ ListsTyped' /\ MainTyped'
      BY <1>5 DEF PushTable, TermTyped, ListsTyped, MainTyped, mutexVars, termVars, mainVars
    <2>6. QED BY <2>2, <2>4, <2>5
  <1>6. QED
    BY <1>1, <1>2, <1>3, <1>4, <1>5 DEF FileThreadStep

\* A step of main, a failure and a spurious wake-up keep the types.
LEMMA OtherStepTyped ==
  ASSUME TypeOK,
         MainStep \/ ExitProcess \/ UNCHANGED vars \/ \E t \in Threads : SpuriousWakeup(t)
  PROVE  TypeOK'
  <1> USE DEF TypeOK
  <1>1. CASE CreateDirThread \/ CreateFileThread
    <2>1. PICK t \in Threads : Goto(t, "test")
      BY <1>1 DEF CreateDirThread, CreateFileThread, CreateThread, Threads
    <2>2. ControlTyped' /\ HeldTyped'
      BY <1>1, <2>1, MoveTyped, HeldKept
         DEF CreateDirThread, CreateFileThread, CreateThread, DirLabels, FileLabels, localVars
    <2>3. MainTyped'
      BY <1>1 DEF CreateDirThread, CreateFileThread, CreateThread, MainTyped, MainLabels
    <2>4. QueuesTyped' /\ TermTyped' /\ ListsTyped'
      BY <1>1 DEF CreateDirThread, CreateFileThread, CreateThread, QueuesTyped, TermTyped,
                  ListsTyped, queueVars, mutexVars, termVars, localVars
    <2>5. QED BY <2>2, <2>3, <2>4
  <1>2. CASE JoinDirThread \/ JoinFileThread
    <2>1. MainTyped'
      BY <1>2 DEF JoinDirThread, JoinFileThread, JoinThread, MainTyped, MainLabels, Threads,
                  ListsTyped
    <2>2. QueuesTyped' /\ TermTyped' /\ ControlTyped' /\ HeldTyped' /\ ListsTyped'
      BY <1>2 DEF JoinDirThread, JoinFileThread, JoinThread, QueuesTyped, TermTyped,
                  ControlTyped, HeldTyped, ListsTyped, queueVars, mutexVars, termVars, localVars
    <2>3. QED BY <2>1, <2>2
  <1>3. CASE CheckQueues \/ ExitProcess
    <2>1. MainTyped'
      BY <1>3 DEF CheckQueues, ExitProcess, MainTyped, MainLabels
    <2>2. QueuesTyped' /\ TermTyped' /\ ControlTyped' /\ HeldTyped' /\ ListsTyped'
      BY <1>3 DEF CheckQueues, ExitProcess, QueuesTyped, TermTyped, ControlTyped, HeldTyped,
                  ListsTyped, queueVars, mutexVars, termVars, localVars
    <2>3. QED BY <2>1, <2>2
  <1>4. CASE UNCHANGED vars
    BY <1>4 DEF vars, QueuesTyped, TermTyped, ControlTyped, HeldTyped, ListsTyped, MainTyped
  <1>5. ASSUME NEW t \in Threads, SpuriousWakeup(t) PROVE TypeOK'
    <2>1. ControlTyped' /\ HeldTyped'
      BY <1>5, MoveTyped, HeldKept DEF SpuriousWakeup, DirLabels, FileLabels, localVars
    <2>2. MainTyped'
      BY <1>5, ThreadAssumption DEF SpuriousWakeup, MainTyped, mainVars
    <2>3. QueuesTyped' /\ TermTyped' /\ ListsTyped'
      BY <1>5 DEF SpuriousWakeup, QueuesTyped, TermTyped, ListsTyped,
                  queueVars, mutexVars, termVars, localVars
    <2>4. QED BY <2>1, <2>2, <2>3
  <1>6. QED BY <1>1, <1>2, <1>3, <1>4, <1>5 DEF MainStep

-----------------------------------------------------------------------------
(* What each kind of step leaves alone.                                    *)

\* A step that is not one of a running thread.
OtherStep ==
  MainStep \/ ExitProcess \/ UNCHANGED vars \/ \E t \in Threads : SpuriousWakeup(t)

\* A step is one of a directory thread, of a file thread, or another.
LEMMA StepCases ==
  ASSUME [Next]_vars
  PROVE  \/ \E t \in DirThreads : DirThreadStep(t)
         \/ \E t \in FileThreads : FileThreadStep(t)
         \/ OtherStep
  BY DEF Next, Stop, OtherStep

\* What a step of a directory thread cannot do to the others.
LEMMA DirFrame ==
  ASSUME TypeOK, NEW t \in DirThreads, DirThreadStep(t)
  PROVE  /\ \A u \in Threads \ {t} :
               pc'[u] = pc[u] \/ (pc[u] = "asleep" /\ pc'[u] = "awake")
         /\ pc[t] \notin {"unborn", "asleep", "done"}
         /\ UNCHANGED <<file_term_mutex, mainVars>>
  <1>t. t \in Threads /\ ControlTyped
    BY DEF Threads, TypeOK
  <1>1. PICK label, S : Goto(t, label) \/ BroadcastAndGoto(S, t, label) \/ UNCHANGED pc
    BY DEF DirThreadStep, TestDirQueue, RetestDirQueue, BranchOnDirQueue, CountAsWaiting,
           SetTerminate, ReleaseDirThreads, WakeDirThread, RemoveDir, ScanDir, Listed,
           AddDir, NotifyDirThreads, AddFile, NotifyFileThreads
  <1>2. \A u \in Threads \ {t} : pc'[u] = pc[u] \/ (pc[u] = "asleep" /\ pc'[u] = "awake")
    BY <1>t, <1>1, GotoMoves, BroadcastMoves
  <1>3. pc[t] \notin {"unborn", "asleep", "done"} /\ UNCHANGED <<file_term_mutex, mainVars>>
    BY DEF DirThreadStep, TestDirQueue, RetestDirQueue, CountAsWaiting,
           SetTerminate, ReleaseDirThreads, WakeDirThread, RemoveDir, ScanDir,
           AddDir, NotifyDirThreads, AddFile, NotifyFileThreads, mutexVars, mainVars
  <1>4. QED BY <1>2, <1>3

\* What a step of a file thread cannot do to the others.
LEMMA FileFrame ==
  ASSUME TypeOK, NEW t \in FileThreads, FileThreadStep(t)
  PROVE  /\ \A u \in Threads \ {t} : pc'[u] = pc[u]
         /\ pc[t] \notin {"unborn", "asleep", "done"}
         /\ UNCHANGED <<directory_queue, dir_term_mutex, termVars, mainVars,
                        pending_dirs, pending_files, added>>
  <1>t. t \in Threads /\ ControlTyped
    BY DEF Threads, TypeOK
  <1>1. PICK label : Goto(t, label)
    BY DEF FileThreadStep, TestFileQueue, RetestFileQueue, BranchOnFileQueue, SleepOrReturn,
           WakeFileThread, RemoveFile, OpenFile, CloseFile, PushTable
  <1>2. \A u \in Threads \ {t} : pc'[u] = pc[u]
    BY <1>t, <1>1, GotoMoves
  <1>3. /\ pc[t] \notin {"unborn", "asleep", "done"}
        /\ UNCHANGED <<directory_queue, dir_term_mutex, termVars, mainVars,
                       pending_dirs, pending_files, added>>
    BY DEF FileThreadStep, TestFileQueue, RetestFileQueue, SleepOrReturn, WakeFileThread,
           RemoveFile, OpenFile, CloseFile, PushTable, queueVars, mutexVars, localVars, mainVars,
           termVars
  <1>4. QED BY <1>2, <1>3

\* What main, a failure and a spurious wake-up cannot do to the threads.
LEMMA OtherFrame ==
  ASSUME TypeOK, OtherStep
  PROVE  /\ \A u \in Threads :
               \/ pc'[u] = pc[u]
               \/ pc[u] = "asleep" /\ pc'[u] = "awake"
               \/ pc[u] = "unborn" /\ pc'[u] = "test"
         /\ UNCHANGED <<queueVars, mutexVars, termVars, localVars>>
  <1>1. CASE CreateDirThread \/ CreateFileThread
    <2>1. PICK t \in Threads : pc[t] = "unborn" /\ Goto(t, "test")
      BY <1>1 DEF CreateDirThread, CreateFileThread, CreateThread, Threads
    <2>2. \A u \in Threads : pc'[u] = pc[u] \/ (pc[u] = "unborn" /\ pc'[u] = "test")
      BY <2>1, GotoMoves DEF TypeOK
    <2>3. QED BY <1>1, <2>2 DEF CreateDirThread, CreateFileThread, CreateThread
  <1>2. CASE JoinDirThread \/ JoinFileThread
    BY <1>2 DEF JoinDirThread, JoinFileThread, JoinThread
  <1>3. CASE CheckQueues \/ ExitProcess \/ UNCHANGED vars
    BY <1>3 DEF CheckQueues, ExitProcess, vars, queueVars, mutexVars, termVars, localVars
  <1>4. ASSUME NEW t \in Threads, SpuriousWakeup(t)
        PROVE  /\ \A u \in Threads :
                     pc'[u] = pc[u] \/ (pc[u] = "asleep" /\ pc'[u] = "awake")
               /\ UNCHANGED <<queueVars, mutexVars, termVars, localVars>>
    <2>1. \A u \in Threads : pc'[u] = pc[u] \/ (pc[u] = "asleep" /\ pc'[u] = "awake")
      BY <1>4, GotoMoves DEF TypeOK, SpuriousWakeup
    <2>2. QED BY <1>4, <2>1 DEF SpuriousWakeup
  <1>5. QED BY <1>1, <1>2, <1>3, <1>4 DEF OtherStep, MainStep

-----------------------------------------------------------------------------
(* The counter.                                                            *)

\* A move of a directory thread between labels that both count as waiting, or
\* both do not, leaves the set of waiting threads alone.
LEMMA SameWaiting ==
  ASSUME TypeOK, NEW t \in DirThreads, DirThreadStep(t),
         pc[t] \in {"asleep", "awake", "term", "broadcast", "done"} <=>
           pc'[t] \in {"asleep", "awake", "term", "broadcast", "done"}
  PROVE  Waiting' = Waiting
  BY DirFrame DEF Waiting, Threads

\* no_waiting_dirs follows the waiting set in every step of a directory thread.
LEMMA DirCounted ==
  ASSUME TypeOK, WaitingIsCounted, NEW t \in DirThreads, DirThreadStep(t)
  PROVE  WaitingIsCounted'
  <1>t. t \in Threads /\ ControlTyped
    BY DEF Threads, TypeOK
  <1>1. CASE CountAsWaiting(t)
    <2>1. pc[t] = "idle" /\ pc'[t] \in {"term", "asleep"}
      BY <1>t, <1>1, GotoMoves DEF CountAsWaiting
    <2>2. t \notin Waiting /\ Waiting' = Waiting \cup {t}
      BY <2>1, DirFrame DEF Waiting, Threads
    <2>3. Cardinality(Waiting') = Cardinality(Waiting) + 1
      BY <2>2, WaitingFinite, FS_AddElement
    <2>4. QED BY <1>1, <2>3 DEF CountAsWaiting, WaitingIsCounted
  <1>2. CASE WakeDirThread(t)
    <2>1. CASE dir_threads_terminate
      <3>1. pc[t] = "awake" /\ pc'[t] = "done" /\ UNCHANGED no_waiting_dirs
        BY <1>t, <1>2, <2>1, GotoMoves DEF WakeDirThread
      <3>2. QED BY <3>1, SameWaiting DEF WaitingIsCounted
    <2>2. CASE ~dir_threads_terminate
      <3>1. pc[t] = "awake" /\ pc'[t] = "retest"
        BY <1>t, <1>2, <2>2, GotoMoves DEF WakeDirThread
      <3>2. t \in Waiting /\ Waiting' = Waiting \ {t}
        BY <3>1, DirFrame DEF Waiting, Threads
      <3>3. Cardinality(Waiting') = Cardinality(Waiting) - 1
        BY <3>2, WaitingFinite, FS_RemoveElement
      <3>4. QED BY <1>2, <2>2, <3>3 DEF WakeDirThread, WaitingIsCounted
    <2>3. QED BY <2>1, <2>2
  <1>3. CASE SetTerminate(t) \/ ReleaseDirThreads(t)
    <2>1. pc[t] \in {"term", "broadcast"} /\ pc'[t] \in {"broadcast", "done"}
      BY <1>t, <1>3, BroadcastMoves DEF SetTerminate, ReleaseDirThreads
    <2>2. UNCHANGED no_waiting_dirs
      BY <1>3 DEF SetTerminate, ReleaseDirThreads, termVars
    <2>3. QED BY <2>1, <2>2, SameWaiting DEF WaitingIsCounted
  <1>4. CASE \/ TestDirQueue(t) \/ RetestDirQueue(t) \/ RemoveDir(t) \/ ScanDir(t)
             \/ AddDir(t) \/ NotifyDirThreads(t) \/ AddFile(t) \/ NotifyFileThreads(t)
    <2>1. PICK label \in {"idle", "remove", "scan", "test", "add_dirs", "add_files"},
              S \in {DirThreads, FileThreads} :
             Goto(t, label) \/ BroadcastAndGoto(S, t, label) \/ UNCHANGED pc
      BY <1>4 DEF TestDirQueue, RetestDirQueue, BranchOnDirQueue, RemoveDir, ScanDir, Listed,
                  AddDir, NotifyDirThreads, AddFile, NotifyFileThreads
    <2>2. pc[t] \in {"test", "retest", "remove", "scan", "add_dirs", "add_files"}
      BY <1>4 DEF TestDirQueue, RetestDirQueue, RemoveDir, ScanDir,
                  AddDir, NotifyDirThreads, AddFile, NotifyFileThreads
    <2>3. pc'[t] = label \/ pc'[t] = pc[t]
      BY <1>t, <2>1, GotoMoves, BroadcastMoves
    <2>4. UNCHANGED no_waiting_dirs
      BY <1>4 DEF TestDirQueue, RetestDirQueue, RemoveDir, ScanDir,
                  AddDir, NotifyDirThreads, AddFile, NotifyFileThreads, termVars
    <2>5. QED BY <2>2, <2>3, <2>4, SameWaiting DEF WaitingIsCounted
  <1>5. QED BY <1>1, <1>2, <1>3, <1>4 DEF DirThreadStep

\* Every step keeps the count of the waiting directory threads exact.
LEMMA Counted ==
  ASSUME TypeOK, WaitingIsCounted, [Next]_vars
  PROVE  WaitingIsCounted'
  <1>1. CASE \E t \in DirThreads : DirThreadStep(t)
    BY <1>1, DirCounted
  <1>2. ASSUME NEW t \in FileThreads, FileThreadStep(t) PROVE WaitingIsCounted'
    <2>1. \A u \in DirThreads : pc'[u] = pc[u]
      BY <1>2, FileFrame, ThreadAssumption DEF Threads
    <2>2. QED BY <1>2, <2>1, FileFrame DEF WaitingIsCounted, Waiting, termVars
  <1>3. CASE OtherStep
    <2>1. Waiting' = Waiting
      BY <1>3, OtherFrame DEF Waiting, Threads
    <2>2. QED BY <1>3, <2>1, OtherFrame DEF WaitingIsCounted, termVars
  <1>4. QED BY <1>1, <1>2, <1>3, StepCases

\* The variables keep their types, and no_waiting_dirs is the number of the
\* directory threads that wait, whatever the order of sleeps and wake-ups.
THEOREM TypeCorrect == Spec => [](TypeOK /\ WaitingIsCounted)
  <1>1. Init => TypeOK /\ WaitingIsCounted
    <2>1. Init => Waiting = {}
      BY DEF Init, Waiting, Threads
    <2>2. Init => WaitingIsCounted
      BY <2>1, FS_EmptySet DEF Init, WaitingIsCounted
    <2>3. QED BY <2>2, InitTyped
  <1>2. TypeOK /\ WaitingIsCounted /\ [Next]_vars => (TypeOK /\ WaitingIsCounted)'
    <2>1. TypeOK /\ WaitingIsCounted /\ [Next]_vars => TypeOK'
      BY StepCases, DirStepTyped, FileStepTyped, OtherStepTyped DEF OtherStep
    <2>2. QED BY <2>1, Counted
  <1>3. QED BY <1>1, <1>2, PTL DEF Spec

-----------------------------------------------------------------------------
(* Mutual exclusion.                                                       *)

\* The half of MutexInv that one step of a directory thread can disturb, and
\* the half that one step of a file thread can.
DirMutexInv ==
  \A t \in DirThreads :
     pc[t] \in {"retest", "idle", "term", "broadcast"} <=> dir_term_mutex = t

FileMutexInv ==
  \A t \in FileThreads : pc[t] \in {"retest", "idle"} <=> file_term_mutex = t

\* A directory thread holds dir_term_mutex exactly inside its section.
LEMMA DirKeepsDirMutex ==
  ASSUME TypeOK, DirMutexInv, NEW t \in DirThreads, DirThreadStep(t)
  PROVE  DirMutexInv'
  <1>t. t \in Threads /\ ControlTyped /\ NoThread \notin DirThreads
    BY ThreadAssumption DEF Threads, TypeOK
  <1>f. \A u \in DirThreads \ {t} :
           pc'[u] = pc[u] \/ (pc[u] = "asleep" /\ pc'[u] = "awake")
    BY DirFrame DEF Threads
  <1>s. SUFFICES /\ pc'[t] \in {"retest", "idle", "term", "broadcast"} <=> dir_term_mutex' = t
                 /\ dir_term_mutex' # t =>
                      dir_term_mutex' = dir_term_mutex \/ dir_term_mutex \in {t, NoThread}
                 /\ dir_term_mutex' # dir_term_mutex => dir_term_mutex' \in {t, NoThread}
                 /\ dir_term_mutex' # dir_term_mutex => dir_term_mutex \in {t, NoThread}
    BY <1>t, <1>f DEF DirMutexInv
  <1>1. CASE TestDirQueue(t) \/ RetestDirQueue(t) \/ CountAsWaiting(t) \/ WakeDirThread(t)
    BY <1>t, <1>1, GotoMoves
       DEF TestDirQueue, RetestDirQueue, BranchOnDirQueue, CountAsWaiting, WakeDirThread,
           DirMutexInv, Free
  <1>2. CASE SetTerminate(t) \/ ReleaseDirThreads(t)
    BY <1>t, <1>2, BroadcastMoves DEF SetTerminate, ReleaseDirThreads, DirMutexInv, mutexVars
  <1>3. CASE \/ RemoveDir(t) \/ ScanDir(t) \/ AddDir(t) \/ NotifyDirThreads(t)
             \/ AddFile(t) \/ NotifyFileThreads(t)
    <2>1. PICK label \in {"remove", "scan", "test", "add_dirs", "add_files"},
              S \in {DirThreads, FileThreads} :
             Goto(t, label) \/ BroadcastAndGoto(S, t, label) \/ UNCHANGED pc
      BY <1>3 DEF RemoveDir, ScanDir, Listed, AddDir, NotifyDirThreads, AddFile,
                  NotifyFileThreads
    <2>2. /\ pc[t] \in {"remove", "scan", "add_dirs", "add_files"}
          /\ UNCHANGED dir_term_mutex
      BY <1>3 DEF RemoveDir, ScanDir, AddDir, NotifyDirThreads, AddFile, NotifyFileThreads,
                  mutexVars
    <2>3. pc'[t] = label \/ pc'[t] = pc[t]
      BY <1>t, <2>1, GotoMoves, BroadcastMoves
    <2>4. QED BY <2>2, <2>3 DEF DirMutexInv
  <1>4. QED BY <1>1, <1>2, <1>3 DEF DirThreadStep

\* A file thread holds file_term_mutex exactly inside its section.
LEMMA FileKeepsFileMutex ==
  ASSUME TypeOK, FileMutexInv, NEW t \in FileThreads, FileThreadStep(t)
  PROVE  FileMutexInv'
  <1>t. t \in Threads /\ ControlTyped /\ NoThread \notin FileThreads
    BY ThreadAssumption DEF Threads, TypeOK
  <1>f. \A u \in FileThreads \ {t} : pc'[u] = pc[u]
    BY FileFrame DEF Threads
  <1>1. CASE TestFileQueue(t) \/ RetestFileQueue(t) \/ SleepOrReturn(t) \/ WakeFileThread(t)
    <2>1. /\ pc'[t] \in {"retest", "idle"} <=> file_term_mutex' = t
          /\ file_term_mutex' # file_term_mutex =>
               file_term_mutex' \in {t, NoThread} /\ file_term_mutex \in {t, NoThread}
      BY <1>t, <1>1, GotoMoves
         DEF TestFileQueue, RetestFileQueue, BranchOnFileQueue, SleepOrReturn, WakeFileThread,
             FileMutexInv, Free
    <2>2. QED BY <1>t, <1>f, <2>1 DEF FileMutexInv
  <1>2. CASE RemoveFile(t) \/ OpenFile(t) \/ CloseFile(t) \/ PushTable(t)
    <2>1. /\ pc[t] \in {"remove", "open", "close", "push"}
          /\ pc'[t] \in {"test", "open", "close", "push"}
          /\ UNCHANGED file_term_mutex
      BY <1>t, <1>2, GotoMoves DEF RemoveFile, OpenFile, CloseFile, PushTable, mutexVars
    <2>2. QED BY <1>f, <2>1 DEF FileMutexInv
  <1>3. QED BY <1>1, <1>2 DEF FileThreadStep

\* Every step keeps the mutexes with the threads inside their sections.
LEMMA MutexStep ==
  ASSUME TypeOK, MutexInv, [Next]_vars
  PROVE  MutexInv'
  <1> USE DEF MutexInv
  <1>1. ASSUME NEW t \in DirThreads, DirThreadStep(t) PROVE MutexInv'
    <2>1. DirMutexInv'
      BY <1>1, DirKeepsDirMutex DEF DirMutexInv
    <2>2. \A u \in FileThreads :
             /\ pc'[u] = pc[u] \/ (pc[u] = "asleep" /\ pc'[u] = "awake")
             /\ file_term_mutex' = file_term_mutex
      BY <1>1, DirFrame, ThreadAssumption DEF Threads
    <2>3. QED BY <2>1, <2>2 DEF DirMutexInv
  <1>2. ASSUME NEW t \in FileThreads, FileThreadStep(t) PROVE MutexInv'
    <2>1. FileMutexInv'
      BY <1>2, FileKeepsFileMutex DEF FileMutexInv
    <2>2. \A u \in DirThreads : pc'[u] = pc[u] /\ dir_term_mutex' = dir_term_mutex
      BY <1>2, FileFrame, ThreadAssumption DEF Threads
    <2>3. QED BY <2>1, <2>2 DEF FileMutexInv
  <1>3. CASE OtherStep
    BY <1>3, OtherFrame DEF Threads, mutexVars
  <1>4. QED BY <1>1, <1>2, <1>3, StepCases

-----------------------------------------------------------------------------
(* The names a directory thread has still to queue.                        *)

\* Every step keeps names to queue with threads between reading and notifying.
LEMMA PendingStep ==
  ASSUME TypeOK, PendingInv, [Next]_vars
  PROVE  PendingInv'
  <1> USE DEF PendingInv
  <1>1. ASSUME NEW t \in DirThreads, DirThreadStep(t) PROVE PendingInv'
    <2>t. t \in Threads /\ ControlTyped /\ ListsTyped
      BY DEF Threads, TypeOK
    <2>f. \A u \in DirThreads \ {t} :
             pc'[u] = pc[u] \/ (pc[u] = "asleep" /\ pc'[u] = "awake")
      BY <1>1, DirFrame DEF Threads
    <2>1. CASE \/ TestDirQueue(t) \/ RetestDirQueue(t) \/ CountAsWaiting(t)
               \/ SetTerminate(t) \/ ReleaseDirThreads(t) \/ WakeDirThread(t) \/ RemoveDir(t)
      <3>1. /\ UNCHANGED <<pending_dirs, pending_files, added>>
            /\ pc[t] \notin {"add_dirs", "add_files"}
        BY <2>1 DEF TestDirQueue, RetestDirQueue, CountAsWaiting, SetTerminate,
                    ReleaseDirThreads, WakeDirThread, RemoveDir, localVars
      <3>2. QED BY <2>f, <3>1
    <2>2. CASE ScanDir(t)
      <3>1. PICK ok, failed : Listed(t, ok, failed)
        BY <2>2 DEF ScanDir
      <3>2. pc'[t] = "add_dirs" /\ UNCHANGED added /\ pc[t] = "scan"
        BY <2>t, <2>2, <3>1, GotoMoves DEF ScanDir, Listed
      <3>3. \A u \in DirThreads \ {t} :
               pending_dirs'[u] = pending_dirs[u] /\ pending_files'[u] = pending_files[u]
        BY <2>t, <3>1 DEF Listed, ListsTyped
      <3>4. QED BY <2>f, <3>2, <3>3
    <2>3. CASE AddDir(t) \/ AddFile(t)
      <3>1. UNCHANGED pc /\ pc[t] \in {"add_dirs", "add_files"}
        BY <2>3 DEF AddDir, AddFile
      <3>2. \A u \in DirThreads \ {t} :
               /\ pending_dirs'[u] = pending_dirs[u]
               /\ pending_files'[u] = pending_files[u]
               /\ added'[u] = added[u]
        BY <2>t, <2>3 DEF AddDir, AddFile, ListsTyped
      <3>3. pending_dirs'[t] # {} => pc[t] = "add_dirs"
        BY <2>t, <2>3 DEF AddDir, AddFile, ListsTyped
      <3>4. QED BY <3>1, <3>2, <3>3
    <2>4. CASE NotifyDirThreads(t) \/ NotifyFileThreads(t)
      <3>1. UNCHANGED <<pending_dirs, pending_files>> /\ added' = [added EXCEPT ![t] = FALSE]
        BY <2>4 DEF NotifyDirThreads, NotifyFileThreads
      <3>2. /\ pending_dirs[t] = {}
            /\ pending_files[t] # {} => pc'[t] = "add_files"
        <4>1. CASE NotifyDirThreads(t)
          <5>1. pc'[t] = "add_files"
            BY <2>t, <4>1, GotoMoves, BroadcastMoves DEF NotifyDirThreads
          <5>2. QED BY <4>1, <5>1 DEF NotifyDirThreads
        <4>2. CASE NotifyFileThreads(t)
          BY <4>2 DEF NotifyFileThreads
        <4>3. QED BY <2>4, <4>1, <4>2
      <3>3. ~added'[t] /\ \A u \in DirThreads \ {t} : added'[u] = added[u]
        BY <2>t, <3>1 DEF ListsTyped
      <3>4. QED BY <2>f, <3>1, <3>2, <3>3
    <2>5. QED BY <1>1, <2>1, <2>2, <2>3, <2>4 DEF DirThreadStep
  <1>2. ASSUME NEW t \in FileThreads, FileThreadStep(t) PROVE PendingInv'
    <2>1. \A u \in DirThreads : pc'[u] = pc[u]
      BY <1>2, FileFrame, ThreadAssumption DEF Threads
    <2>2. QED BY <1>2, <2>1, FileFrame
  <1>3. CASE OtherStep
    BY <1>3, OtherFrame DEF Threads, localVars
  <1>4. QED BY <1>1, <1>2, <1>3, StepCases

-----------------------------------------------------------------------------
(* No wake-up is lost.                                                     *)

\* NoLostWakeup for the directory queue, and for the file queue.
DirWakeup ==
  (\E t \in DirThreads : pc[t] \in {"idle", "asleep"}) /\ directory_queue # <<>> =>
     \E u \in DirThreads : pc[u] = "add_dirs" /\ added[u]

FileWakeup ==
  (\E t \in FileThreads : pc[t] \in {"idle", "asleep"}) /\ file_queue # <<>> =>
     \E u \in DirThreads : pc[u] = "add_files" /\ added[u]

\* The broadcast of NotifyDirThreads finds every idle thread asleep: a thread
\* that has found the queue empty keeps dir_term_mutex until it sleeps.
LEMMA DirWakeupStep ==
  ASSUME TypeOK, MutexInv, PendingInv, DirWakeup, NEW t \in DirThreads, DirThreadStep(t)
  PROVE  DirWakeup'
  <1>t. t \in Threads /\ ControlTyped /\ ListsTyped /\ QueuesTyped
    BY DEF Threads, TypeOK
  <1>f. \A u \in DirThreads \ {t} :
           pc'[u] = pc[u] \/ (pc[u] = "asleep" /\ pc'[u] = "awake")
    BY DirFrame DEF Threads
  <1>1. CASE TestDirQueue(t) \/ RetestDirQueue(t)
    <2>1. CASE directory_queue = <<>>
      BY <1>1, <2>1 DEF TestDirQueue, RetestDirQueue, queueVars, DirWakeup
    <2>2. CASE directory_queue # <<>>
      <3>1. pc'[t] = "remove" /\ pc[t] \in {"test", "retest"}
            /\ UNCHANGED <<directory_queue, added>>
        BY <1>t, <1>1, <2>2, GotoMoves
           DEF TestDirQueue, RetestDirQueue, BranchOnDirQueue, queueVars, localVars
      <3>2. QED BY <1>f, <3>1 DEF DirWakeup
    <2>3. QED BY <2>1, <2>2
  <1>2. CASE CountAsWaiting(t)
    <2>1. pc[t] = "idle" /\ pc'[t] \in {"term", "asleep"}
          /\ UNCHANGED <<directory_queue, added>>
      BY <1>t, <1>2, GotoMoves DEF CountAsWaiting, queueVars, localVars
    <2>2. QED BY <1>f, <2>1 DEF DirWakeup
  <1>3. CASE SetTerminate(t) \/ ReleaseDirThreads(t) \/ WakeDirThread(t)
    <2>1. /\ pc[t] \in {"term", "broadcast", "awake"}
          /\ pc'[t] \in {"broadcast", "done", "retest"}
          /\ UNCHANGED <<directory_queue, added>>
      BY <1>t, <1>3, GotoMoves, BroadcastMoves
         DEF SetTerminate, ReleaseDirThreads, WakeDirThread, queueVars, localVars
    <2>2. QED BY <1>f, <2>1 DEF DirWakeup
  <1>4. CASE RemoveDir(t)
    <2>1. pc[t] = "remove" /\ pc'[t] \in {"test", "scan"} /\ UNCHANGED added
      BY <1>t, <1>4, GotoMoves DEF RemoveDir
    <2>2. directory_queue' # <<>> => directory_queue # <<>>
      BY <1>4 DEF RemoveDir
    <2>3. QED BY <1>f, <2>1, <2>2 DEF DirWakeup
  <1>5. CASE ScanDir(t) \/ AddFile(t)
    <2>1. pc[t] \in {"scan", "add_files"} /\ pc'[t] \in {"add_dirs", "add_files"}
          /\ UNCHANGED directory_queue
      BY <1>t, <1>5, GotoMoves DEF ScanDir, Listed, AddFile, queueVars
    <2>2. \A u \in DirThreads \ {t} : added'[u] = added[u]
      BY <1>t, <1>5 DEF ScanDir, AddFile, ListsTyped
    <2>3. QED BY <1>f, <2>1, <2>2 DEF DirWakeup
  <1>6. CASE AddDir(t)
    <2>1. pc'[t] = "add_dirs" /\ added'[t]
      BY <1>t, <1>6 DEF AddDir, ListsTyped
    <2>2. QED BY <2>1 DEF DirWakeup
  <1>7. CASE NotifyDirThreads(t)
    <2>1. CASE added[t]
      <3>1. BroadcastAndGoto(DirThreads, t, "add_files")
        BY <1>7, <2>1 DEF NotifyDirThreads
      <3>2. \A u \in DirThreads : pc[u] # "idle"
        BY <1>7, ThreadAssumption DEF NotifyDirThreads, Free, MutexInv, Threads
      <3>3. \A u \in DirThreads : pc'[u] \notin {"idle", "asleep"}
        BY <1>t, <3>1, <3>2, BroadcastMoves DEF Threads
      <3>4. QED BY <3>3 DEF DirWakeup
    <2>2. CASE ~added[t]
      <3>1. pc'[t] = "add_files" /\ UNCHANGED directory_queue /\ pc[t] = "add_dirs"
        BY <1>t, <1>7, <2>2, GotoMoves DEF NotifyDirThreads, queueVars
      <3>2. \A u \in DirThreads \ {t} : added'[u] = added[u]
        BY <1>t, <1>7 DEF NotifyDirThreads, ListsTyped
      <3>3. QED BY <1>f, <2>2, <3>1, <3>2 DEF DirWakeup
    <2>3. QED BY <2>1, <2>2
  <1>8. CASE NotifyFileThreads(t)
    <2>1. pc[t] = "add_files" /\ pc'[t] = "test" /\ UNCHANGED directory_queue
      BY <1>t, <1>8, GotoMoves, BroadcastMoves DEF NotifyFileThreads, queueVars
    <2>2. \A u \in DirThreads \ {t} : added'[u] = added[u]
      BY <1>t, <1>8 DEF NotifyFileThreads, ListsTyped
    <2>3. QED BY <1>f, <2>1, <2>2 DEF DirWakeup
  <1>9. QED
    BY <1>1, <1>2, <1>3, <1>4, <1>5, <1>6, <1>7, <1>8 DEF DirThreadStep

\* The same for the file queue, seen from the directory threads that fill it.
LEMMA FileWakeupDirStep ==
  ASSUME TypeOK, MutexInv, PendingInv, FileWakeup, NEW t \in DirThreads, DirThreadStep(t)
  PROVE  FileWakeup'
  <1>t. t \in Threads /\ t \notin FileThreads /\ ControlTyped /\ ListsTyped
    BY ThreadAssumption DEF Threads, TypeOK
  <1>f. /\ \A u \in DirThreads \ {t} :
              pc'[u] = pc[u] \/ (pc[u] = "asleep" /\ pc'[u] = "awake")
        /\ \A u \in FileThreads : pc'[u] \in {"idle", "asleep"} => pc[u] \in {"idle", "asleep"}
    BY <1>t, DirFrame DEF Threads
  <1>1. CASE \/ TestDirQueue(t) \/ RetestDirQueue(t) \/ CountAsWaiting(t) \/ SetTerminate(t)
             \/ ReleaseDirThreads(t) \/ WakeDirThread(t) \/ RemoveDir(t) \/ ScanDir(t)
    <2>1. pc[t] # "add_files" /\ UNCHANGED <<file_queue, added>>
      BY <1>1 DEF TestDirQueue, RetestDirQueue, CountAsWaiting, SetTerminate,
                  ReleaseDirThreads, WakeDirThread, RemoveDir, ScanDir, queueVars, localVars
    <2>2. QED BY <1>f, <2>1 DEF FileWakeup
  <1>2. CASE AddDir(t) \/ NotifyDirThreads(t)
    <2>1. pc[t] = "add_dirs" /\ UNCHANGED file_queue
      BY <1>2 DEF AddDir, NotifyDirThreads, queueVars
    <2>2. \A u \in DirThreads \ {t} : added'[u] = added[u]
      BY <1>t, <1>2 DEF AddDir, NotifyDirThreads, ListsTyped
    <2>3. QED BY <1>f, <2>1, <2>2 DEF FileWakeup
  <1>3. CASE AddFile(t)
    <2>1. pc'[t] = "add_files" /\ added'[t]
      BY <1>t, <1>3 DEF AddFile, ListsTyped
    <2>2. QED BY <2>1 DEF FileWakeup
  <1>4. CASE NotifyFileThreads(t)
    <2>1. CASE added[t]
      <3>1. BroadcastAndGoto(FileThreads, t, "test")
        BY <1>4, <2>1 DEF NotifyFileThreads
      <3>2. \A u \in FileThreads : pc[u] # "idle"
        BY <1>4, ThreadAssumption DEF NotifyFileThreads, Free, MutexInv, Threads
      <3>3. \A u \in FileThreads : pc'[u] \notin {"idle", "asleep"}
        BY <1>t, <3>1, <3>2, BroadcastMoves DEF Threads
      <3>4. QED BY <3>3 DEF FileWakeup
    <2>2. CASE ~added[t]
      <3>1. UNCHANGED file_queue /\ \A u \in DirThreads \ {t} : added'[u] = added[u]
        BY <1>t, <1>4 DEF NotifyFileThreads, queueVars, ListsTyped
      <3>2. QED BY <1>f, <2>2, <3>1 DEF FileWakeup
    <2>3. QED BY <2>1, <2>2
  <1>5. QED
    BY <1>1, <1>2, <1>3, <1>4 DEF DirThreadStep

\* A file thread does not go to sleep beside a file nobody will announce.
LEMMA FileWakeupFileStep ==
  ASSUME TypeOK, FileWakeup, NEW t \in FileThreads, FileThreadStep(t)
  PROVE  FileWakeup'
  <1>t. t \in Threads /\ t \notin DirThreads /\ ControlTyped
    BY ThreadAssumption DEF Threads, TypeOK
  <1>f. /\ \A u \in FileThreads \ {t} : pc'[u] = pc[u]
        /\ \A u \in DirThreads : pc'[u] = pc[u] /\ added'[u] = added[u]
    BY <1>t, FileFrame DEF Threads
  <1>1. CASE TestFileQueue(t) \/ RetestFileQueue(t)
    <2>1. CASE file_queue = <<>>
      BY <1>1, <2>1 DEF TestFileQueue, RetestFileQueue, queueVars, FileWakeup
    <2>2. CASE file_queue # <<>>
      <3>1. pc'[t] = "remove" /\ UNCHANGED file_queue
        BY <1>t, <1>1, <2>2, GotoMoves
           DEF TestFileQueue, RetestFileQueue, BranchOnFileQueue, queueVars
      <3>2. QED BY <1>f, <3>1 DEF FileWakeup
    <2>3. QED BY <2>1, <2>2
  <1>2. CASE SleepOrReturn(t)
    <2>1. pc[t] = "idle" /\ UNCHANGED file_queue
      BY <1>2 DEF SleepOrReturn, queueVars
    <2>2. QED BY <1>f, <2>1 DEF FileWakeup
  <1>3. CASE WakeFileThread(t) \/ RemoveFile(t) \/ OpenFile(t) \/ CloseFile(t) \/ PushTable(t)
    <2>1. pc'[t] \in {"retest", "done", "test", "open", "close", "push"}
      BY <1>t, <1>3, GotoMoves DEF WakeFileThread, RemoveFile, OpenFile, CloseFile, PushTable
    <2>2. file_queue' # <<>> => file_queue # <<>>
      BY <1>3 DEF WakeFileThread, RemoveFile, OpenFile, CloseFile, PushTable, queueVars
    <2>3. QED BY <1>f, <2>1, <2>2 DEF FileWakeup
  <1>4. QED BY <1>1, <1>2, <1>3 DEF FileThreadStep

\* Every step keeps a broadcast owed to those who sleep beside a filled queue.
LEMMA WakeupStep ==
  ASSUME TypeOK, MutexInv, PendingInv, NoLostWakeup, [Next]_vars
  PROVE  NoLostWakeup'
  <1>a. DirWakeup /\ FileWakeup
    BY DEF NoLostWakeup, DirWakeup, FileWakeup
  <1>s. SUFFICES DirWakeup' /\ FileWakeup'
    BY DEF NoLostWakeup, DirWakeup, FileWakeup
  <1>1. CASE \E t \in DirThreads : DirThreadStep(t)
    BY <1>1, <1>a, DirWakeupStep, FileWakeupDirStep
  <1>2. ASSUME NEW t \in FileThreads, FileThreadStep(t) PROVE DirWakeup' /\ FileWakeup'
    <2>1. \A u \in DirThreads : pc'[u] = pc[u]
      BY <1>2, FileFrame, ThreadAssumption DEF Threads
    <2>2. DirWakeup'
      BY <1>2, <1>a, <2>1, FileFrame DEF DirWakeup
    <2>3. QED BY <1>2, <1>a, <2>2, FileWakeupFileStep
  <1>3. CASE OtherStep
    <2>1. /\ \A u \in Threads : pc'[u] \in {"idle", "asleep"} => pc[u] \in {"idle", "asleep"}
          /\ \A u \in Threads : pc[u] \in {"add_dirs", "add_files"} => pc'[u] = pc[u]
          /\ UNCHANGED <<directory_queue, file_queue, added>>
      BY <1>3, OtherFrame DEF queueVars, localVars
    <2>2. QED BY <1>a, <2>1 DEF DirWakeup, FileWakeup, Threads
  <1>4. QED BY <1>1, <1>2, <1>3, StepCases

-----------------------------------------------------------------------------
(* Termination.                                                            *)

\* The last thread to be counted finds nothing to do: every other thread is
\* waiting, so none is about to broadcast, and then its own test still holds.
LEMMA LastThreadDrained ==
  ASSUME TypeOK, WaitingIsCounted, NoLostWakeup,
         NEW t \in DirThreads, pc[t] = "idle", no_waiting_dirs + 1 = no_dir_threads
  PROVE  Waiting \cup {t} = DirThreads /\ directory_queue = <<>>
  <1>1. t \notin Waiting /\ Waiting \cup {t} \subseteq DirThreads
    BY DEF Waiting
  <1>2. /\ IsFiniteSet(Waiting \cup {t})
        /\ Cardinality(Waiting \cup {t}) = Cardinality(Waiting) + 1
    BY <1>1, WaitingFinite, FS_AddElement
  <1>3. Cardinality(Waiting \cup {t}) = Cardinality(DirThreads)
    BY <1>2 DEF WaitingIsCounted, no_dir_threads
  <1>4. Waiting \cup {t} = DirThreads
    BY <1>1, <1>3, ThreadAssumption, FS_Subset
  <1>5. \A u \in DirThreads : pc[u] # "add_dirs"
    BY <1>4 DEF Waiting
  <1>6. QED BY <1>4, <1>5 DEF NoLostWakeup

\* A directory thread reaches termination, or returns, only with nothing left.
LEMMA DirTermination ==
  ASSUME TypeOK, WaitingIsCounted, MutexInv, NoLostWakeup, TerminationInv,
         NEW t \in DirThreads, DirThreadStep(t)
  PROVE  TerminationInv'
  <1>t. t \in Threads /\ ControlTyped /\ QueuesTyped
    BY DEF Threads, TypeOK
  <1>f. \A u \in DirThreads \ {t} :
           pc'[u] = pc[u] \/ (pc[u] = "asleep" /\ pc'[u] = "awake")
    BY DirFrame DEF Threads
  <1>1. CASE CountAsWaiting(t)
    <2>1. pc[t] = "idle" /\ UNCHANGED <<directory_queue, dir_threads_terminate>>
      BY <1>1 DEF CountAsWaiting, queueVars
    <2>2. ~dir_threads_terminate
      BY <2>1 DEF TerminationInv, Waiting
    <2>3. CASE no_waiting_dirs + 1 = no_dir_threads
      <3>1. Waiting \cup {t} = DirThreads /\ directory_queue = <<>>
        BY <2>1, <2>3, LastThreadDrained
      <3>2. pc'[t] = "term"
        BY <1>t, <1>1, <2>3, GotoMoves DEF CountAsWaiting
      <3>3. Waiting' = DirThreads
        BY <1>f, <3>1, <3>2 DEF Waiting
      <3>4. QED BY <1>f, <2>1, <3>1, <3>2, <3>3 DEF TerminationInv
    <2>4. CASE no_waiting_dirs + 1 # no_dir_threads
      <3>1. pc'[t] = "asleep"
        BY <1>t, <1>1, <2>4, GotoMoves DEF CountAsWaiting
      <3>2. t \notin Waiting
        BY <2>1 DEF Waiting
      <3>3. \A u \in DirThreads : pc[u] \notin {"term", "broadcast"}
        BY <3>2 DEF TerminationInv
      <3>4. QED BY <1>f, <2>1, <2>2, <3>1, <3>3 DEF TerminationInv
    <2>5. QED BY <2>3, <2>4
  <1>2. CASE SetTerminate(t) \/ ReleaseDirThreads(t)
    <2>1. /\ pc[t] \in {"term", "broadcast"} /\ pc'[t] \in {"broadcast", "done"}
          /\ UNCHANGED directory_queue
      BY <1>t, <1>2, BroadcastMoves DEF SetTerminate, ReleaseDirThreads, queueVars
    <2>2. Waiting = DirThreads /\ directory_queue = <<>>
      BY <2>1 DEF TerminationInv
    <2>3. Waiting' = DirThreads
      BY <2>1, <2>2, SameWaiting
    <2>4. dir_threads_terminate'
      BY <1>2 DEF SetTerminate, ReleaseDirThreads, TerminationInv, termVars
    <2>5. QED BY <2>1, <2>2, <2>3, <2>4 DEF TerminationInv
  <1>3. CASE WakeDirThread(t)
    <2>1. pc[t] = "awake" /\ UNCHANGED <<directory_queue, dir_threads_terminate>>
      BY <1>3 DEF WakeDirThread, queueVars
    <2>2. CASE dir_threads_terminate
      <3>1. pc'[t] = "done"
        BY <1>t, <1>3, <2>2, GotoMoves DEF WakeDirThread
      <3>2. Waiting' = Waiting
        BY <2>1, <3>1, SameWaiting
      <3>3. QED BY <2>1, <2>2, <3>2 DEF TerminationInv
    <2>3. CASE ~dir_threads_terminate
      <3>1. pc'[t] = "retest"
        BY <1>t, <1>3, <2>3, GotoMoves DEF WakeDirThread
      <3>2. \A u \in DirThreads : pc[u] \notin {"term", "broadcast", "done"}
        BY <1>3, <2>3, ThreadAssumption
           DEF WakeDirThread, Free, MutexInv, TerminationInv, Threads
      <3>3. QED BY <1>f, <2>1, <2>3, <3>1, <3>2 DEF TerminationInv
    <2>4. QED BY <2>2, <2>3
  <1>4. CASE \/ TestDirQueue(t) \/ RetestDirQueue(t) \/ RemoveDir(t) \/ ScanDir(t)
             \/ AddDir(t) \/ NotifyDirThreads(t) \/ AddFile(t) \/ NotifyFileThreads(t)
    <2>1. PICK label \in {"idle", "remove", "scan", "test", "add_dirs", "add_files"},
              S \in {DirThreads, FileThreads} :
             Goto(t, label) \/ BroadcastAndGoto(S, t, label) \/ UNCHANGED pc
      BY <1>4 DEF TestDirQueue, RetestDirQueue, BranchOnDirQueue, RemoveDir, ScanDir, Listed,
                  AddDir, NotifyDirThreads, AddFile, NotifyFileThreads
    <2>2. /\ pc[t] \in {"test", "retest", "remove", "scan", "add_dirs", "add_files"}
          /\ UNCHANGED dir_threads_terminate
      BY <1>4 DEF TestDirQueue, RetestDirQueue, RemoveDir, ScanDir,
                  AddDir, NotifyDirThreads, AddFile, NotifyFileThreads, termVars
    <2>3. pc'[t] = label \/ pc'[t] = pc[t]
      BY <1>t, <2>1, GotoMoves, BroadcastMoves
    <2>4. /\ ~dir_threads_terminate
          /\ \A u \in DirThreads : pc[u] \notin {"term", "broadcast", "done"}
      BY <2>2 DEF TerminationInv, Waiting
    <2>5. QED BY <1>f, <2>2, <2>3, <2>4 DEF TerminationInv
  <1>5. QED BY <1>1, <1>2, <1>3, <1>4 DEF DirThreadStep

\* Every step keeps what termination means.
LEMMA TerminationStep ==
  ASSUME TypeOK, WaitingIsCounted, MutexInv, NoLostWakeup, TerminationInv, [Next]_vars
  PROVE  TerminationInv'
  <1>1. CASE \E t \in DirThreads : DirThreadStep(t)
    BY <1>1, DirTermination
  <1>2. ASSUME NEW t \in FileThreads, FileThreadStep(t) PROVE TerminationInv'
    <2>1. \A u \in DirThreads : pc'[u] = pc[u]
      BY <1>2, FileFrame, ThreadAssumption DEF Threads
    <2>2. UNCHANGED <<directory_queue, dir_threads_terminate>>
      BY <1>2, FileFrame DEF termVars
    <2>3. QED BY <2>1, <2>2 DEF TerminationInv, Waiting
  <1>3. CASE OtherStep
    <2>1. Waiting' = Waiting
      BY <1>3, OtherFrame DEF Waiting, Threads
    <2>2. /\ UNCHANGED <<directory_queue, dir_threads_terminate>>
          /\ \A u \in DirThreads :
               pc'[u] \in {"term", "broadcast", "done"} => pc'[u] = pc[u]
      BY <1>3, OtherFrame DEF Threads, queueVars, termVars
    <2>3. QED BY <2>1, <2>2 DEF TerminationInv
  <1>4. QED BY <1>1, <1>2, <1>3, StepCases

\* After termination no directory thread has anything to queue.
LEMMA NothingLeft ==
  ASSUME TypeOK, PendingInv, TerminationInv, dir_threads_terminate
  PROVE  /\ directory_queue = <<>>
         /\ \A t \in DirThreads :
              /\ pc[t] \in {"asleep", "awake", "term", "broadcast", "done"}
              /\ pending_dirs[t] = {} /\ pending_files[t] = {}
  BY DEF TerminationInv, PendingInv, Waiting

\* Every step keeps file threads from returning while a file can still come.
LEMMA StayStep ==
  ASSUME TypeOK, PendingInv, NoLostWakeup, TerminationInv, FileThreadsStayForWork, [Next]_vars
  PROVE  FileThreadsStayForWork'
  <1>1. ASSUME NEW t \in DirThreads, DirThreadStep(t) PROVE FileThreadsStayForWork'
    <2>1. \A u \in FileThreads : pc'[u] = "done" => pc[u] = "done"
      BY <1>1, DirFrame, ThreadAssumption DEF Threads
    <2>2. CASE dir_threads_terminate
      <3>1. ~AddFile(t)
        BY <2>2, NothingLeft DEF AddFile
      <3>2. dir_threads_terminate' /\ file_queue' = file_queue
        BY <1>1, <2>2, <3>1 DEF DirThreadStep, TestDirQueue, RetestDirQueue, CountAsWaiting,
             SetTerminate, ReleaseDirThreads, WakeDirThread, RemoveDir, ScanDir, AddDir,
             NotifyDirThreads, NotifyFileThreads, termVars, queueVars
      <3>3. QED BY <2>1, <3>2 DEF FileThreadsStayForWork
    <2>3. CASE ~dir_threads_terminate
      BY <2>1, <2>3 DEF FileThreadsStayForWork
    <2>4. QED BY <2>2, <2>3
  <1>2. ASSUME NEW t \in FileThreads, FileThreadStep(t) PROVE FileThreadsStayForWork'
    <2>t. t \in Threads /\ ControlTyped
      BY DEF Threads, TypeOK
    <2>f. UNCHANGED dir_threads_terminate /\ \A u \in FileThreads \ {t} : pc'[u] = pc[u]
      BY <1>2, FileFrame DEF termVars, Threads
    <2>1. CASE SleepOrReturn(t)
      <3>1. pc[t] = "idle" /\ UNCHANGED file_queue
        BY <2>1 DEF SleepOrReturn, queueVars
      <3>2. pc'[t] = "done" => dir_threads_terminate
        BY <2>t, <2>1, GotoMoves DEF SleepOrReturn
      <3>3. dir_threads_terminate => \A u \in DirThreads : pc[u] # "add_files"
        BY NothingLeft
      <3>4. dir_threads_terminate => file_queue = <<>>
        BY <3>1, <3>3 DEF NoLostWakeup
      <3>5. QED BY <2>f, <3>1, <3>2, <3>4 DEF FileThreadsStayForWork
    <2>2. CASE WakeFileThread(t)
      <3>1. pc'[t] = "done" => dir_threads_terminate /\ file_queue = <<>>
        BY <2>t, <2>2, GotoMoves DEF WakeFileThread
      <3>2. UNCHANGED file_queue
        BY <2>2 DEF WakeFileThread, queueVars
      <3>3. QED BY <2>f, <3>1, <3>2 DEF FileThreadsStayForWork
    <2>3. CASE \/ TestFileQueue(t) \/ RetestFileQueue(t) \/ RemoveFile(t) \/ OpenFile(t)
               \/ CloseFile(t) \/ PushTable(t)
      <3>1. pc'[t] # "done"
        BY <2>t, <2>3, GotoMoves DEF TestFileQueue, RetestFileQueue, BranchOnFileQueue,
                                     RemoveFile, OpenFile, CloseFile, PushTable
      <3>2. file_queue = <<>> => file_queue' = <<>>
        BY <2>3 DEF TestFileQueue, RetestFileQueue, RemoveFile, OpenFile, CloseFile, PushTable,
                    queueVars
      <3>3. QED BY <2>f, <3>1, <3>2 DEF FileThreadsStayForWork
    <2>4. QED BY <1>2, <2>1, <2>2, <2>3 DEF FileThreadStep
  <1>3. CASE OtherStep
    <2>1. /\ \A u \in FileThreads : pc'[u] = "done" => pc[u] = "done"
          /\ UNCHANGED <<file_queue, dir_threads_terminate>>
      BY <1>3, OtherFrame DEF Threads, queueVars, termVars
    <2>2. QED BY <2>1 DEF FileThreadsStayForWork
  <1>4. QED BY <1>1, <1>2, <1>3, StepCases

-----------------------------------------------------------------------------
(* main.                                                                   *)

\* Every step keeps main behind the threads it has to join.
LEMMA MainInvStep ==
  ASSUME TypeOK, MainInv, [Next]_vars
  PROVE  MainInv'
  <1>j. \A u \in joined : u \in Threads
    BY DEF TypeOK, MainTyped
  <1>1. ASSUME NEW t \in DirThreads, DirThreadStep(t) PROVE MainInv'
    <2>1. \A u \in joined : pc'[u] = "done"
      BY <1>1, <1>j, DirFrame DEF MainInv
    <2>2. QED BY <1>1, <2>1, DirFrame DEF MainInv, mainVars
  <1>2. ASSUME NEW t \in FileThreads, FileThreadStep(t) PROVE MainInv'
    <2>1. \A u \in joined : pc'[u] = "done"
      BY <1>2, <1>j, FileFrame DEF MainInv
    <2>2. QED BY <1>2, <2>1, FileFrame DEF MainInv, mainVars
  <1>3. CASE OtherStep
    <2>f. \A u \in joined : pc'[u] = "done"
      BY <1>3, <1>j, OtherFrame DEF MainInv
    <2>1. CASE CreateDirThread \/ CreateFileThread
      BY <2>1, <2>f DEF CreateDirThread, CreateFileThread, CreateThread, MainInv
    <2>2. CASE JoinDirThread \/ JoinFileThread
      <3>1. \A u \in joined' : pc'[u] = "done"
        BY <2>2, <2>f DEF JoinDirThread, JoinFileThread, JoinThread
      <3>2. CASE JoinDirThread
        BY <3>1, <3>2 DEF JoinDirThread, JoinThread, MainInv
      <3>3. CASE JoinFileThread
        BY <3>1, <3>3 DEF JoinFileThread, JoinThread, MainInv
      <3>4. QED BY <2>2, <3>2, <3>3
    <2>3. CASE CheckQueues
      BY <2>3, <2>f DEF CheckQueues, MainInv
    <2>4. CASE ExitProcess
      BY <2>4, <2>f DEF ExitProcess, MainInv
    <2>5. CASE UNCHANGED vars
      BY <2>5 DEF vars, MainInv
    <2>6. ASSUME NEW t \in Threads, SpuriousWakeup(t) PROVE MainInv'
      BY <2>6, <2>f DEF SpuriousWakeup, MainInv, mainVars
    <2>7. QED BY <1>3, <2>1, <2>2, <2>3, <2>4, <2>5, <2>6 DEF OtherStep, MainStep
  <1>4. QED BY <1>1, <1>2, <1>3, StepCases

\* When main looks at the queues every thread has returned, and what a thread
\* knows when it returns is still true.
LEMMA DrainedAtCheck ==
  ASSUME TypeOK, TerminationInv, FileThreadsStayForWork, MainInv, main = "check"
  PROVE  file_queue = <<>> /\ directory_queue = <<>>
  <1>1. /\ \A t \in DirThreads : pc[t] = "done"
        /\ \A t \in FileThreads : pc[t] = "done"
    BY DEF MainInv
  <1>2. dir_threads_terminate
    BY <1>1, ThreadAssumption DEF TerminationInv
  <1>3. QED BY <1>1, <1>2, ThreadAssumption DEF TerminationInv, FileThreadsStayForWork

\* main finds both queues empty: it has joined everybody, and the last to
\* return saw its queue empty.
LEMMA DrainedStep ==
  ASSUME TypeOK, TerminationInv, FileThreadsStayForWork, MainInv, QueuesDrained, [Next]_vars
  PROVE  QueuesDrained'
  <1> USE DEF QueuesDrained
  <1>1. ASSUME NEW t \in DirThreads, DirThreadStep(t) PROVE QueuesDrained'
    BY <1>1, DirFrame DEF mainVars
  <1>2. ASSUME NEW t \in FileThreads, FileThreadStep(t) PROVE QueuesDrained'
    BY <1>2, FileFrame DEF mainVars
  <1>3. CASE CheckQueues
    BY <1>3, DrainedAtCheck DEF CheckQueues
  <1>4. CASE OtherStep /\ ~CheckQueues
    BY <1>4 DEF OtherStep, MainStep, CreateDirThread, CreateFileThread, CreateThread,
                JoinDirThread, JoinFileThread, JoinThread, ExitProcess, vars,
                SpuriousWakeup, mainVars
  <1>5. QED BY <1>1, <1>2, <1>3, <1>4, StepCases

-----------------------------------------------------------------------------
(* The theorems.                                                           *)

\* The invariant holds when main starts the threads.
LEMMA InitInv == Init => CollectionInv
  <1> SUFFICES ASSUME Init PROVE CollectionInv
    OBVIOUS
  <1>1. Waiting = {}
    BY DEF Init, Waiting, Threads
  <1>2. WaitingIsCounted
    BY <1>1, FS_EmptySet DEF Init, WaitingIsCounted
  <1>3. MutexInv
    BY ThreadAssumption DEF Init, MutexInv, Threads
  <1>4. PendingInv
    BY DEF Init, PendingInv
  <1>5. NoLostWakeup /\ TerminationInv /\ FileThreadsStayForWork
    BY DEF Init, NoLostWakeup, TerminationInv, FileThreadsStayForWork, Threads
  <1>6. MainInv /\ QueuesDrained
    BY DEF Init, MainInv, QueuesDrained
  <1>7. QED BY <1>2, <1>3, <1>4, <1>5, <1>6, InitTyped DEF CollectionInv

\* Every step preserves the invariant, one conjunct after the other.
LEMMA StepInv == CollectionInv /\ [Next]_vars => CollectionInv'
  <1> SUFFICES ASSUME CollectionInv, [Next]_vars PROVE CollectionInv'
    OBVIOUS
  <1> USE DEF CollectionInv
  <1>1. TypeOK'
    BY StepCases, DirStepTyped, FileStepTyped, OtherStepTyped DEF OtherStep
  <1>2. WaitingIsCounted'
    BY Counted
  <1>3. MutexInv' /\ PendingInv'
    BY MutexStep, PendingStep
  <1>4. NoLostWakeup'
    BY WakeupStep
  <1>5. TerminationInv'
    BY TerminationStep
  <1>6. FileThreadsStayForWork'
    BY StayStep
  <1>7. MainInv' /\ QueuesDrained'
    BY MainInvStep, DrainedStep
  <1>8. QED BY <1>1, <1>2, <1>3, <1>4, <1>5, <1>6, <1>7

\* The inductive invariant: all that the threads and main rely on together.
THEOREM CollectionCorrect == Spec => []CollectionInv
  BY InitInv, StepInv, PTL DEF Spec

\* Termination detection is sound: when the last waiting thread sets
\* dir_threads_terminate, no directory is queued, read or about to be queued.
THEOREM TerminationSound == Spec => []TerminateOnlyWhenDrained
  <1>1. CollectionInv => TerminateOnlyWhenDrained
    BY NothingLeft DEF CollectionInv, TerminateOnlyWhenDrained, TerminationInv
  <1>2. QED BY <1>1, CollectionCorrect, PTL

\* A thread that sleeps beside a non-empty queue will be woken by a broadcast
\* that some directory thread still has to make.
THEOREM WakeupsKept == Spec => []NoLostWakeup
  <1>1. CollectionInv => NoLostWakeup
    BY DEF CollectionInv
  <1>2. QED BY <1>1, CollectionCorrect, PTL

\* The variables keep their types, for every tree and number of threads.
THEOREM TypesKept == Spec => []TypeOK
  <1>1. CollectionInv => TypeOK
    BY DEF CollectionInv
  <1>2. QED BY <1>1, CollectionCorrect, PTL

\* A file thread returns only when the directory threads have terminated and
\* the file queue is empty (collection_threads.c:251 and 276).
THEOREM FileThreadsStay == Spec => []FileThreadsStayForWork
  <1>1. CollectionInv => FileThreadsStayForWork
    BY DEF CollectionInv
  <1>2. QED BY <1>1, CollectionCorrect, PTL

\* main never reports "Something went wrong in routines.".
THEOREM MainFindsNothingLeft == Spec => []QueuesDrained
  <1>1. CollectionInv => QueuesDrained
    BY DEF CollectionInv
  <1>2. QED BY <1>1, CollectionCorrect, PTL

\* Once the flag is set it stays set, and no step adds to either queue.
THEOREM TerminationFinal == Spec => NothingQueuedAfterTermination
  <1>1. CollectionInv /\ [Next]_vars =>
          [dir_threads_terminate =>
             /\ dir_threads_terminate'
             /\ directory_queue' = <<>>
             /\ Len(file_queue') <= Len(file_queue)]_vars
    <2> SUFFICES ASSUME CollectionInv, [Next]_vars, dir_threads_terminate
                 PROVE  /\ dir_threads_terminate'
                        /\ directory_queue' = <<>>
                        /\ Len(file_queue') <= Len(file_queue)
      OBVIOUS
    <2> USE DEF CollectionInv
    <2>l. file_queue \in Seq(Files) /\ Len(file_queue) \in Nat
      BY LenProperties DEF TypeOK, QueuesTyped
    <2>1. ASSUME NEW t \in DirThreads, DirThreadStep(t)
          PROVE  UNCHANGED <<dir_threads_terminate, directory_queue, file_queue>>
      <3>1. pc[t] \in {"asleep", "awake", "term", "broadcast", "done"}
        BY NothingLeft
      <3>2. SetTerminate(t) \/ ReleaseDirThreads(t) \/ WakeDirThread(t)
        BY <2>1, <3>1 DEF DirThreadStep, TestDirQueue, RetestDirQueue, CountAsWaiting,
             RemoveDir, ScanDir, AddDir, NotifyDirThreads, AddFile, NotifyFileThreads
      <3>3. QED BY <3>2 DEF SetTerminate, ReleaseDirThreads, WakeDirThread, termVars, queueVars
    <2>2. ASSUME NEW t \in FileThreads, FileThreadStep(t)
          PROVE  /\ UNCHANGED <<dir_threads_terminate, directory_queue>>
                 /\ file_queue' = file_queue \/ (file_queue # <<>> /\ file_queue' = Tail(file_queue))
      <3>1. UNCHANGED <<dir_threads_terminate, directory_queue>>
        BY <2>2, FileFrame DEF termVars
      <3>2. file_queue' = file_queue \/ (file_queue # <<>> /\ file_queue' = Tail(file_queue))
        BY <2>2 DEF FileThreadStep, TestFileQueue, RetestFileQueue, SleepOrReturn,
             WakeFileThread, RemoveFile, OpenFile, CloseFile, PushTable, queueVars
      <3>3. QED BY <3>1, <3>2
    <2>3. ASSUME OtherStep
          PROVE  UNCHANGED <<dir_threads_terminate, directory_queue, file_queue>>
      BY <2>3, OtherFrame DEF queueVars, termVars
    <2>4. /\ UNCHANGED <<dir_threads_terminate, directory_queue>>
          /\ file_queue' = file_queue \/ (file_queue # <<>> /\ file_queue' = Tail(file_queue))
      BY <2>1, <2>2, <2>3, StepCases
    <2>5. Len(file_queue') <= Len(file_queue)
      <3>1. file_queue # <<>> => Len(Tail(file_queue)) = Len(file_queue) - 1
        BY <2>l, HeadTailProperties
      <3>2. QED BY <2>l, <2>4, <3>1
    <2>6. QED BY <2>4, <2>5, NothingLeft
  <1>2. QED BY <1>1, CollectionCorrect, PTL DEF Spec, NothingQueuedAfterTermination

-----------------------------------------------------------------------------
(* Work in a queue and in hands: lemmas about one move each.               *)

\* Removing the front of a queue.
LEMMA TailFacts ==
  ASSUME NEW P, NEW q \in Seq(P), q # <<>>
  PROVE  /\ Range(q) = Range(Tail(q)) \cup {Head(q)}
         /\ IsInjective(q) => IsInjective(Tail(q)) /\ Head(q) \notin Range(Tail(q))
  <1>1. /\ Len(q) \in Nat \ {0}
        /\ DOMAIN q = 1..Len(q)
        /\ Head(q) = q[1]
    BY LenProperties, EmptySeq
  <1>2. /\ DOMAIN Tail(q) = 1..(Len(q) - 1)
        /\ \A i \in 1..(Len(q) - 1) : Tail(q)[i] = q[i + 1]
    BY HeadTailProperties, LenProperties
  <1>3. Range(q) = Range(Tail(q)) \cup {Head(q)}
    <2>1. Range(Tail(q)) \cup {Head(q)} \subseteq Range(q)
      BY <1>1, <1>2 DEF Range
    <2>2. ASSUME NEW i \in 1..Len(q) PROVE q[i] \in Range(Tail(q)) \cup {Head(q)}
      <3>1. CASE i = 1
        BY <1>1, <3>1
      <3>2. CASE i # 1
        <4>1. i - 1 \in 1..(Len(q) - 1)
          BY <1>1, <3>2
        <4>2. Tail(q)[i - 1] = q[(i - 1) + 1] /\ (i - 1) + 1 = i
          BY <1>2, <4>1
        <4>3. QED BY <1>2, <4>1, <4>2 DEF Range
      <3>3. QED BY <3>1, <3>2
    <2>3. QED BY <1>1, <2>1, <2>2 DEF Range
  <1>4. ASSUME IsInjective(q)
        PROVE  IsInjective(Tail(q)) /\ Head(q) \notin Range(Tail(q))
    <2>1. \A i, j \in 1..Len(q) : q[i] = q[j] => i = j
      BY <1>1, <1>4 DEF IsInjective
    <2>2. \A i \in 1..(Len(q) - 1) : i + 1 \in 1..Len(q) /\ i + 1 # 1 /\ 1 \in 1..Len(q)
      BY <1>1
    <2>3. \A i, j \in 1..(Len(q) - 1) : i + 1 = j + 1 => i = j
      OBVIOUS
    <2>4. \A i, j \in DOMAIN Tail(q) : Tail(q)[i] = Tail(q)[j] => i = j
      BY <1>2, <2>1, <2>2, <2>3
    <2>5. \A i \in DOMAIN Tail(q) : Tail(q)[i] # Head(q)
      BY <1>1, <1>2, <2>1, <2>2
    <2>6. QED BY <2>4, <2>5 DEF IsInjective, Range
  <1>5. QED BY <1>3, <1>4

\* Adding an item at the back.
LEMMA AppendFacts ==
  ASSUME NEW P, NEW q \in Seq(P), NEW d \in P
  PROVE  /\ Range(Append(q, d)) = Range(q) \cup {d}
         /\ IsInjective(q) /\ d \notin Range(q) => IsInjective(Append(q, d))
  <1> DEFINE r == Append(q, d)
  <1>1. /\ Len(q) \in Nat
        /\ DOMAIN q = 1..Len(q)
        /\ DOMAIN r = 1..(Len(q) + 1)
        /\ \A i \in 1..Len(q) : r[i] = q[i]
        /\ r[Len(q) + 1] = d
    BY LenProperties, AppendProperties
  <1> HIDE DEF r
  <1>2. 1..(Len(q) + 1) = 1..Len(q) \cup {Len(q) + 1}
    BY <1>1
  <1>3. Range(r) = Range(q) \cup {d}
    BY <1>1, <1>2 DEF Range
  <1>4. IsInjective(q) /\ d \notin Range(q) => IsInjective(r)
    BY <1>1, <1>2 DEF Range, IsInjective
  <1>5. QED BY <1>3, <1>4 DEF r

\* Adding one on top of a stack.
LEMMA PushFacts ==
  ASSUME NEW P, NEW s \in Seq(P), NEW f \in P
  PROVE  /\ Range(<<f>> \o s) = Range(s) \cup {f}
         /\ IsInjective(s) /\ f \notin Range(s) => IsInjective(<<f>> \o s)
  <1> DEFINE r == <<f>> \o s
  <1>1. <<f>> \in Seq(P) /\ Len(<<f>>) = 1
    OBVIOUS
  <1>2. /\ Len(s) \in Nat
        /\ DOMAIN s = 1..Len(s)
        /\ DOMAIN r = 1..(1 + Len(s))
        /\ \A i \in 1..(1 + Len(s)) : r[i] = IF i <= 1 THEN <<f>>[i] ELSE s[i - 1]
    BY <1>1, LenProperties, ConcatProperties
  <1> HIDE DEF r
  <1>3. r[1] = f /\ \A i \in 1..Len(s) : i + 1 \in DOMAIN r /\ r[i + 1] = s[i]
    <2>1. \A i \in 1..Len(s) : i + 1 \in 1..(1 + Len(s)) /\ ~(i + 1 <= 1) /\ (i + 1) - 1 = i
      BY <1>2
    <2>2. 1 \in 1..(1 + Len(s)) /\ <<f>>[1] = f
      BY <1>2
    <2>3. QED BY <1>2, <2>1, <2>2
  <1>4. \A i \in DOMAIN r : i = 1 \/ \E j \in 1..Len(s) : i = j + 1
    <2>1. ASSUME NEW i \in DOMAIN r, i # 1 PROVE i - 1 \in 1..Len(s) /\ i = (i - 1) + 1
      BY <1>2, <2>1
    <2>2. QED BY <2>1
  <1>5. \A i \in DOMAIN r : (i = 1 /\ r[i] = f) \/ \E j \in 1..Len(s) : i = j + 1 /\ r[i] = s[j]
    BY <1>3, <1>4
  <1>6. DOMAIN s = 1..Len(s) /\ 1 \in DOMAIN r
    BY <1>2
  <1>7. Range(r) = Range(s) \cup {f}
    BY <1>3, <1>5, <1>6 DEF Range
  <1>8. ASSUME IsInjective(s), f \notin Range(s) PROVE IsInjective(r)
    <2>1. \A i, j \in 1..Len(s) : s[i] = s[j] => i = j
      BY <1>6, <1>8 DEF IsInjective
    <2>2. \A j \in 1..Len(s) : s[j] # f
      BY <1>6, <1>8 DEF Range
    <2>3. ASSUME NEW i \in DOMAIN r, NEW k \in DOMAIN r, r[i] = r[k] PROVE i = k
      BY <1>5, <2>1, <2>2, <2>3
    <2>4. QED BY <2>3 DEF IsInjective
  <1>9. QED BY <1>7, <1>8 DEF r

\* What the threads in D may have in their hands, and a change of one of them.
Hands(D, P) == [D -> SUBSET P]
OneHand(hand, hand2, t, new) == hand2 = [hand EXCEPT ![t] = new]

\* A thread removes the front of a queue: it is now in its hands.
LEMMA TakeMoves ==
  ASSUME NEW P, NEW q \in Seq(P), q # <<>>, NEW D, NEW hand \in Hands(D, P),
         NEW t \in D, NEW hand2, OneHand(hand, hand2, t, hand[t] \cup {Head(q)})
  PROVE  /\ InWork(Tail(q), hand2) = InWork(q, hand)
         /\ Apart(q, hand) => Apart(Tail(q), hand2)
  <1>1. /\ DOMAIN hand = D /\ DOMAIN hand2 = D
        /\ hand2[t] = hand[t] \cup {Head(q)}
        /\ \A u \in D \ {t} : hand2[u] = hand[u]
    BY DEF Hands, OneHand
  <1>2. InWork(Tail(q), hand2) = InWork(q, hand)
    <2>1. \A p : p \in InWork(Tail(q), hand2) <=> p \in InWork(q, hand)
      BY <1>1, TailFacts DEF InWork
    <2>2. QED BY <2>1
  <1>3. ASSUME Apart(q, hand) PROVE Apart(Tail(q), hand2)
    <2>1. /\ IsInjective(Tail(q))
          /\ Head(q) \notin Range(Tail(q))
          /\ Range(Tail(q)) \cup {Head(q)} = Range(q)
      BY <1>3, TailFacts DEF Apart
    <2>2. \A u \in D : hand[u] \cap Range(q) = {}
      BY <1>1, <1>3 DEF Apart
    <2>3. \A u \in D : hand2[u] \cap Range(Tail(q)) = {}
      BY <1>1, <2>1, <2>2
    <2>4. \A u, w \in D : u # w => hand2[u] \cap hand2[w] = {}
      BY <1>1, <1>3, <2>1, <2>2 DEF Apart
    <2>5. QED BY <1>1, <2>1, <2>3, <2>4 DEF Apart
  <1>4. QED BY <1>2, <1>3

\* A thread queues something it has in its hands.
LEMMA PutMoves ==
  ASSUME NEW P, NEW q \in Seq(P), NEW D, NEW hand \in Hands(D, P),
         NEW t \in D, NEW d \in hand[t], NEW hand2, OneHand(hand, hand2, t, hand[t] \ {d})
  PROVE  /\ InWork(Append(q, d), hand2) = InWork(q, hand)
         /\ Apart(q, hand) => Apart(Append(q, d), hand2)
  <1>1. /\ DOMAIN hand = D /\ DOMAIN hand2 = D
        /\ hand2[t] = hand[t] \ {d}
        /\ \A u \in D \ {t} : hand2[u] = hand[u]
        /\ d \in P
    BY DEF Hands, OneHand
  <1>2. /\ Range(Append(q, d)) = Range(q) \cup {d}
        /\ IsInjective(q) /\ d \notin Range(q) => IsInjective(Append(q, d))
    BY <1>1, AppendFacts
  <1>3. InWork(Append(q, d), hand2) = InWork(q, hand)
    <2>1. \A p : p \in InWork(Append(q, d), hand2) <=> p \in InWork(q, hand)
      BY <1>1, <1>2 DEF InWork
    <2>2. QED BY <2>1
  <1>4. Apart(q, hand) => Apart(Append(q, d), hand2)
    BY <1>1, <1>2 DEF Apart
  <1>5. QED BY <1>3, <1>4

\* A thread replaces what it has in its hands by something new.
LEMMA ReplaceMoves ==
  ASSUME NEW P, NEW q \in Seq(P), NEW D, NEW hand \in Hands(D, P),
         NEW t \in D, NEW new, NEW hand2, OneHand(hand, hand2, t, new),
         Apart(q, hand), new \cap InWork(q, hand) = {}
  PROVE  /\ InWork(q, hand2) = (InWork(q, hand) \ hand[t]) \cup new
         /\ Apart(q, hand2)
  <1>1. /\ DOMAIN hand = D /\ DOMAIN hand2 = D
        /\ hand2[t] = new
        /\ \A u \in D \ {t} : hand2[u] = hand[u]
    BY DEF Hands, OneHand
  <1>2. \A p : p \in InWork(q, hand2) <=> p \in (InWork(q, hand) \ hand[t]) \cup new
    BY <1>1 DEF InWork, Apart
  <1>3. Apart(q, hand2)
    BY <1>1 DEF Apart, InWork
  <1>4. QED BY <1>2, <1>3

-----------------------------------------------------------------------------
(* What a step does to the queues and to the hands of the threads.         *)

Working == {"open", "close", "push"}

\* Nothing thread u has in its hands changes.
Kept(u) ==
  /\ held'[u] = held[u]
  /\ pc'[u] = "scan" <=> pc[u] = "scan"
  /\ pc'[u] \in Working <=> pc[u] \in Working
  /\ u \in DirThreads => /\ pending_dirs'[u] = pending_dirs[u]
                         /\ pending_files'[u] = pending_files[u]

\* Hands hold directories and regular files.
LEMMA HandsTyped ==
  ASSUME TypeOK
  PROVE  /\ DirsInHand \in [DirThreads -> SUBSET Dirs]
         /\ FilesInHand \in [Threads -> SUBSET Files]
  <1>1. ASSUME NEW t \in DirThreads
        PROVE  /\ pending_dirs[t] \subseteq Dirs /\ pending_files[t] \subseteq Files
               /\ pc[t] = "scan" => held[t] \in Dirs
    BY DEF TypeOK, ListsTyped, HeldTyped
  <1>2. ASSUME NEW t \in FileThreads
        PROVE  pc[t] \in {"open", "close", "push"} => held[t] \in Files
    BY DEF TypeOK, HeldTyped
  <1>3. QED BY <1>1, <1>2 DEF DirsInHand, FilesInHand, Threads

\* Every thread but t keeps what it has.
LEMMA OneHandMoves ==
  ASSUME TypeOK, NEW t \in Threads, \A u \in Threads \ {t} : Kept(u)
  PROVE  /\ t \in DirThreads => DirsInHand' = [DirsInHand EXCEPT ![t] = DirsInHand'[t]]
         /\ t \notin DirThreads => DirsInHand' = DirsInHand
         /\ FilesInHand' = [FilesInHand EXCEPT ![t] = FilesInHand'[t]]
  <1> USE DEF Kept, Working
  <1>1. \A u \in DirThreads : u # t => DirsInHand'[u] = DirsInHand[u]
    BY DEF DirsInHand, Threads
  <1>2. \A u \in Threads : u # t => FilesInHand'[u] = FilesInHand[u]
    BY DEF FilesInHand
  <1>3. /\ DirsInHand = [u \in DirThreads |-> DirsInHand[u]]
        /\ DirsInHand' = [u \in DirThreads |-> DirsInHand'[u]]
        /\ FilesInHand = [u \in Threads |-> FilesInHand[u]]
        /\ FilesInHand' = [u \in Threads |-> FilesInHand'[u]]
    BY DEF DirsInHand, FilesInHand
  <1> HIDE DEF Kept, Working
  <1>4. QED BY <1>1, <1>2, <1>3

\* Every thread keeps what it has.
LEMMA NoHandMoves ==
  ASSUME TypeOK, \A u \in Threads : Kept(u)
  PROVE  UNCHANGED <<DirsInHand, FilesInHand>>
  <1> USE DEF Kept, Working
  <1>1. \A u \in DirThreads : DirsInHand'[u] = DirsInHand[u]
    BY DEF DirsInHand, Threads
  <1>2. \A u \in Threads : FilesInHand'[u] = FilesInHand[u]
    BY DEF FilesInHand
  <1>3. /\ DirsInHand = [u \in DirThreads |-> DirsInHand[u]]
        /\ DirsInHand' = [u \in DirThreads |-> DirsInHand'[u]]
        /\ FilesInHand = [u \in Threads |-> FilesInHand[u]]
        /\ FilesInHand' = [u \in Threads |-> FilesInHand'[u]]
    BY DEF DirsInHand, FilesInHand
  <1> HIDE DEF Kept, Working
  <1>4. QED BY <1>1, <1>2, <1>3

\* The moves of work, one for each of the calls that make them.
TakeDir(t) ==
  /\ directory_queue # <<>>
  /\ directory_queue' = Tail(directory_queue)
  /\ OneHand(DirsInHand, DirsInHand', t, DirsInHand[t] \cup {Head(directory_queue)})
  /\ UNCHANGED <<file_queue, wf_stack, FilesInHand, is_err>>

ReadDir(t, ok, failed) ==
  /\ DirsInHand[t] = {held[t]}
  /\ OneHand(DirsInHand, DirsInHand', t, DirsAmong(ok))
  /\ FilesInHand[t] = {}
  /\ OneHand(FilesInHand, FilesInHand', t, FilesAmong(ok))
  /\ is_err' = [is_err EXCEPT ![t] = @ \/ failed]
  /\ UNCHANGED queueVars

PutDir(t) ==
  \E d \in DirsInHand[t] :
    /\ directory_queue' = Append(directory_queue, d)
    /\ OneHand(DirsInHand, DirsInHand', t, DirsInHand[t] \ {d})
    /\ UNCHANGED <<file_queue, wf_stack, FilesInHand, is_err>>

PutFile(t) ==
  \E f \in FilesInHand[t] :
    /\ file_queue' = Append(file_queue, f)
    /\ OneHand(FilesInHand, FilesInHand', t, FilesInHand[t] \ {f})
    /\ UNCHANGED <<directory_queue, wf_stack, DirsInHand, is_err>>

TakeFile(t) ==
  /\ file_queue # <<>>
  /\ file_queue' = Tail(file_queue)
  /\ OneHand(FilesInHand, FilesInHand', t, FilesInHand[t] \cup {Head(file_queue)})
  /\ UNCHANGED <<directory_queue, wf_stack, DirsInHand, is_err>>

DropFile(t) ==
  /\ held[t] \in Faulty
  /\ FilesInHand[t] = {held[t]}
  /\ OneHand(FilesInHand, FilesInHand', t, {})
  /\ is_err' = [is_err EXCEPT ![t] = TRUE]
  /\ UNCHANGED <<queueVars, DirsInHand>>

StoreFile(t) ==
  /\ FilesInHand[t] = {held[t]}
  /\ OneHand(FilesInHand, FilesInHand', t, {})
  /\ wf_stack' = <<held[t]>> \o wf_stack
  /\ UNCHANGED <<directory_queue, file_queue, DirsInHand, is_err>>

WorkStays == UNCHANGED <<queueVars, DirsInHand, FilesInHand>>

\* What directoryFunction_r can have examined of directory d, and whether it failed.
Outcome(d, ok, failed) ==
  \/ \E bad \in SUBSET (Visible(d) \cap Faulty) : ok = Visible(d) \ bad /\ failed = (bad # {})
  \/ d \in Faulty /\ ok = {} /\ failed = TRUE

\* The steps of a directory thread are moves of work, or move none.
LEMMA DirWork ==
  ASSUME TypeOK, PendingInv, NEW t \in DirThreads, DirThreadStep(t)
  PROVE  \/ WorkStays /\ UNCHANGED is_err
         \/ TakeDir(t)
         \/ PutDir(t)
         \/ PutFile(t)
         \/ \E ok, failed : Outcome(held[t], ok, failed) /\ ReadDir(t, ok, failed)
  <1>t. t \in Threads /\ ControlTyped /\ t \notin FileThreads
    BY ThreadAssumption DEF Threads, TypeOK
  <1>f. \A u \in Threads \ {t} :
          /\ pc'[u] = "scan" <=> pc[u] = "scan"
          /\ pc'[u] \in Working <=> pc[u] \in Working
    BY DirFrame DEF Working
  <1>h. DirsInHand \in [DirThreads -> SUBSET Dirs] /\ FilesInHand \in [Threads -> SUBSET Files]
    BY HandsTyped
  <1>1. CASE \/ TestDirQueue(t) \/ RetestDirQueue(t) \/ CountAsWaiting(t) \/ SetTerminate(t)
             \/ ReleaseDirThreads(t) \/ WakeDirThread(t)
             \/ NotifyDirThreads(t) \/ NotifyFileThreads(t)
             \/ (RemoveDir(t) /\ directory_queue = <<>>)
    <2>1. /\ UNCHANGED <<queueVars, held, pending_dirs, pending_files, is_err>>
          /\ pc[t] \notin {"scan", "open", "close", "push"}
      BY <1>1 DEF TestDirQueue, RetestDirQueue, CountAsWaiting, SetTerminate, ReleaseDirThreads,
           WakeDirThread, NotifyDirThreads, NotifyFileThreads, RemoveDir, localVars, queueVars
    <2>2. PICK label \in {"idle", "remove", "term", "asleep", "broadcast", "done", "retest",
                          "add_files", "test"}, S \in {DirThreads, FileThreads} :
             Goto(t, label) \/ BroadcastAndGoto(S, t, label)
      BY <1>1 DEF TestDirQueue, RetestDirQueue, BranchOnDirQueue, CountAsWaiting, SetTerminate,
           ReleaseDirThreads, WakeDirThread, NotifyDirThreads, NotifyFileThreads, RemoveDir
    <2>3. pc'[t] \notin {"scan", "open", "close", "push"}
      BY <1>t, <2>2, GotoMoves, BroadcastMoves
    <2>4. \A u \in Threads : Kept(u)
      BY <1>f, <2>1, <2>3 DEF Kept, Working
    <2>5. QED BY <2>1, <2>4, NoHandMoves DEF WorkStays
  <1>2. CASE RemoveDir(t) /\ directory_queue # <<>>
    <2>1. /\ Goto(t, "scan")
          /\ pc[t] = "remove"
          /\ held' = [held EXCEPT ![t] = Head(directory_queue)]
          /\ directory_queue' = Tail(directory_queue)
          /\ UNCHANGED <<file_queue, wf_stack, pending_dirs, pending_files, is_err>>
      BY <1>2 DEF RemoveDir
    <2>2. \A u \in Threads \ {t} : Kept(u)
      BY <1>f, <2>1 DEF Kept
    <2>3. pc'[t] = "scan" /\ held'[t] = Head(directory_queue)
      BY <1>t, <2>1, GotoMoves DEF TypeOK, HeldTyped
    <2>4. DirsInHand'[t] = DirsInHand[t] \cup {Head(directory_queue)}
      BY <2>1, <2>3 DEF DirsInHand
    <2>5. FilesInHand'[t] = FilesInHand[t]
      BY <1>t, <2>1 DEF FilesInHand
    <2>6. TakeDir(t)
      BY <1>2, <1>h, <1>t, <2>1, <2>2, <2>4, <2>5, OneHandMoves DEF TakeDir, OneHand
    <2>7. QED BY <2>6
  <1>3. CASE ScanDir(t)
    <2>1. PICK ok, failed : Outcome(held[t], ok, failed) /\ Listed(t, ok, failed)
      BY <1>3 DEF ScanDir, Outcome
    <2>2. pc[t] = "scan" /\ UNCHANGED queueVars
      BY <1>3 DEF ScanDir
    <2>3. pending_dirs[t] = {} /\ pending_files[t] = {}
      BY <2>2 DEF PendingInv
    <2>4. \A u \in Threads \ {t} : Kept(u)
      BY <1>f, <2>1 DEF Kept, Listed
    <2>5. /\ pc'[t] = "add_dirs"
          /\ pending_dirs'[t] = DirsAmong(ok)
          /\ pending_files'[t] = FilesAmong(ok)
      BY <1>t, <2>1, GotoMoves DEF Listed, TypeOK, ListsTyped
    <2>6. DirsInHand[t] = {held[t]} /\ DirsInHand'[t] = DirsAmong(ok)
      BY <2>2, <2>3, <2>5 DEF DirsInHand
    <2>7. FilesInHand[t] = {} /\ FilesInHand'[t] = FilesAmong(ok)
      BY <1>t, <2>3, <2>5 DEF FilesInHand
    <2>8. ReadDir(t, ok, failed)
      BY <1>t, <2>1, <2>2, <2>4, <2>6, <2>7, OneHandMoves DEF ReadDir, OneHand, Listed
    <2>9. QED BY <2>1, <2>8
  <1>4. CASE AddDir(t)
    <2>1. PICK d \in pending_dirs[t] :
            /\ directory_queue' = Append(directory_queue, d)
            /\ pending_dirs' = [pending_dirs EXCEPT ![t] = @ \ {d}]
      BY <1>4 DEF AddDir
    <2>2. pc[t] = "add_dirs" /\ UNCHANGED <<file_queue, wf_stack, pc, held, pending_files, is_err>>
      BY <1>4 DEF AddDir
    <2>3. \A u \in Threads \ {t} : Kept(u)
      BY <2>1, <2>2 DEF Kept
    <2>4. pending_dirs'[t] = pending_dirs[t] \ {d}
      BY <2>1 DEF TypeOK, ListsTyped
    <2>5. DirsInHand[t] = pending_dirs[t] /\ DirsInHand'[t] = DirsInHand[t] \ {d}
      BY <2>2, <2>4 DEF DirsInHand
    <2>6. FilesInHand'[t] = FilesInHand[t]
      BY <1>t, <2>2 DEF FilesInHand
    <2>7. PutDir(t)
      BY <1>h, <1>t, <2>1, <2>2, <2>3, <2>5, <2>6, OneHandMoves DEF PutDir, OneHand
    <2>8. QED BY <2>7
  <1>5. CASE AddFile(t)
    <2>1. PICK f \in pending_files[t] :
            /\ file_queue' = Append(file_queue, f)
            /\ pending_files' = [pending_files EXCEPT ![t] = @ \ {f}]
      BY <1>5 DEF AddFile
    <2>2. UNCHANGED <<directory_queue, wf_stack, pc, held, pending_dirs, is_err>>
      BY <1>5 DEF AddFile
    <2>3. \A u \in Threads \ {t} : Kept(u)
      BY <2>1, <2>2 DEF Kept
    <2>4. pending_files'[t] = pending_files[t] \ {f}
      BY <2>1 DEF TypeOK, ListsTyped
    <2>5. FilesInHand[t] = pending_files[t] /\ FilesInHand'[t] = FilesInHand[t] \ {f}
      BY <1>t, <2>4 DEF FilesInHand
    <2>6. DirsInHand'[t] = DirsInHand[t]
      BY <2>2 DEF DirsInHand
    <2>7. PutFile(t)
      BY <1>h, <1>t, <2>1, <2>2, <2>3, <2>5, <2>6, OneHandMoves DEF PutFile, OneHand
    <2>8. QED BY <2>7
  <1>6. QED BY <1>1, <1>2, <1>3, <1>4, <1>5 DEF DirThreadStep

\* So are the steps of a file thread.
LEMMA FileWork ==
  ASSUME TypeOK, NEW t \in FileThreads, FileThreadStep(t)
  PROVE  \/ WorkStays /\ UNCHANGED is_err
         \/ TakeFile(t)
         \/ DropFile(t)
         \/ StoreFile(t)
  <1>t. t \in Threads /\ ControlTyped /\ t \notin DirThreads
    BY ThreadAssumption DEF Threads, TypeOK
  <1>f. /\ \A u \in Threads \ {t} : pc'[u] = pc[u]
        /\ UNCHANGED <<directory_queue, pending_dirs, pending_files>>
    BY FileFrame
  <1>h. DirsInHand \in [DirThreads -> SUBSET Dirs] /\ FilesInHand \in [Threads -> SUBSET Files]
    BY HandsTyped
  <1>1. CASE \/ TestFileQueue(t) \/ RetestFileQueue(t) \/ SleepOrReturn(t) \/ WakeFileThread(t)
             \/ (RemoveFile(t) /\ file_queue = <<>>)
    <2>1. /\ UNCHANGED <<queueVars, held, is_err>>
          /\ pc[t] \notin {"scan", "open", "close", "push"}
      BY <1>1 DEF TestFileQueue, RetestFileQueue, SleepOrReturn, WakeFileThread, RemoveFile,
           localVars, queueVars
    <2>2. PICK label \in {"idle", "remove", "done", "asleep", "retest", "test"} : Goto(t, label)
      BY <1>1 DEF TestFileQueue, RetestFileQueue, BranchOnFileQueue, SleepOrReturn,
           WakeFileThread, RemoveFile
    <2>3. pc'[t] \notin {"scan", "open", "close", "push"}
      BY <1>t, <2>2, GotoMoves
    <2>4. \A u \in Threads : Kept(u)
      BY <1>f, <2>1, <2>3 DEF Kept, Working
    <2>5. QED BY <2>1, <2>4, NoHandMoves DEF WorkStays
  <1>2. CASE RemoveFile(t) /\ file_queue # <<>>
    <2>1. /\ Goto(t, "open")
          /\ pc[t] = "remove"
          /\ held' = [held EXCEPT ![t] = Head(file_queue)]
          /\ file_queue' = Tail(file_queue)
          /\ UNCHANGED <<directory_queue, wf_stack, is_err>>
      BY <1>2 DEF RemoveFile
    <2>2. \A u \in Threads \ {t} : Kept(u)
      BY <1>f, <2>1 DEF Kept
    <2>3. pc'[t] = "open" /\ held'[t] = Head(file_queue)
      BY <1>t, <2>1, GotoMoves DEF TypeOK, HeldTyped
    <2>4. FilesInHand'[t] = FilesInHand[t] \cup {Head(file_queue)}
      BY <1>t, <2>1, <2>3 DEF FilesInHand
    <2>5. TakeFile(t)
      BY <1>2, <1>h, <1>t, <2>1, <2>2, <2>4, OneHandMoves DEF TakeFile, OneHand
    <2>6. QED BY <2>5
  <1>3. CASE OpenFile(t)
    <2>1. CASE Goto(t, "close") /\ UNCHANGED <<held, is_err>>
      <3>1. pc[t] = "open" /\ pc'[t] = "close" /\ UNCHANGED queueVars
        BY <1>3, <1>t, <2>1, GotoMoves DEF OpenFile
      <3>2. \A u \in Threads : Kept(u)
        BY <1>f, <2>1, <3>1 DEF Kept, Working
      <3>3. QED BY <2>1, <3>1, <3>2, NoHandMoves DEF WorkStays
    <2>2. CASE /\ held[t] \in Faulty
               /\ is_err' = [is_err EXCEPT ![t] = TRUE]
               /\ held' = [held EXCEPT ![t] = NoPath]
               /\ Goto(t, "test")
      <3>1. pc[t] = "open" /\ pc'[t] = "test" /\ UNCHANGED queueVars
        BY <1>3, <1>t, <2>2, GotoMoves DEF OpenFile
      <3>2. \A u \in Threads \ {t} : Kept(u)
        BY <1>f, <2>2 DEF Kept
      <3>3. FilesInHand[t] = {held[t]} /\ FilesInHand'[t] = {}
        BY <1>t, <3>1 DEF FilesInHand
      <3>4. DropFile(t)
        BY <1>h, <1>t, <2>2, <3>1, <3>2, <3>3, OneHandMoves DEF DropFile, OneHand
      <3>5. QED BY <3>4
    <2>3. QED BY <1>3, <2>1, <2>2 DEF OpenFile
  <1>4. CASE CloseFile(t)
    <2>1. pc[t] = "close" /\ pc'[t] = "push" /\ UNCHANGED <<queueVars, held, is_err>>
      BY <1>4, <1>t, GotoMoves DEF CloseFile, localVars
    <2>2. \A u \in Threads : Kept(u)
      BY <1>f, <2>1 DEF Kept, Working
    <2>3. QED BY <2>1, <2>2, NoHandMoves DEF WorkStays
  <1>5. CASE PushTable(t)
    <2>1. /\ pc[t] = "push" /\ pc'[t] = "test"
          /\ held' = [held EXCEPT ![t] = NoPath]
          /\ wf_stack' = <<held[t]>> \o wf_stack
          /\ UNCHANGED <<directory_queue, file_queue, is_err>>
      BY <1>5, <1>t, GotoMoves DEF PushTable
    <2>2. \A u \in Threads \ {t} : Kept(u)
      BY <1>f, <2>1 DEF Kept
    <2>3. FilesInHand[t] = {held[t]} /\ FilesInHand'[t] = {}
      BY <1>t, <2>1 DEF FilesInHand
    <2>4. StoreFile(t)
      BY <1>h, <1>t, <2>1, <2>2, <2>3, OneHandMoves DEF StoreFile, OneHand
    <2>5. QED BY <2>4
  <1>6. QED BY <1>1, <1>2, <1>3, <1>4, <1>5 DEF FileThreadStep

\* main and a spurious wake-up move none.
LEMMA OtherWork ==
  ASSUME TypeOK, OtherStep
  PROVE  WorkStays /\ UNCHANGED is_err
  <1>1. /\ UNCHANGED <<queueVars, held, pending_dirs, pending_files, is_err>>
        /\ \A u \in Threads : \/ pc'[u] = pc[u]
                              \/ pc[u] = "asleep" /\ pc'[u] = "awake"
                              \/ pc[u] = "unborn" /\ pc'[u] = "test"
    BY OtherFrame DEF localVars
  <1>2. \A u \in Threads : Kept(u)
    BY <1>1 DEF Kept, Working
  <1>3. QED BY <1>1, <1>2, NoHandMoves DEF WorkStays

-----------------------------------------------------------------------------
(* What the moves do to the work that is left.                             *)

\* Suffixed files are files: what is listed is among the visible entries.
LEMMA AmongVisible ==
  ASSUME NEW ok
  PROVE  DirsAmong(ok) \subseteq ok /\ FilesAmong(ok) \subseteq ok
  BY DEF DirsAmong, FilesAmong

\* The entries of a directory that is not read yet have never been seen.
LEMMA NewIsNew ==
  ASSUME NEW S \in SUBSET Dirs, ReadSoFar(S), NEW d \in TodoDirs, d \in Dirs,
         NEW p \in Visible(d)
  PROVE  p \notin S /\ p \notin TodoDirs /\ p \notin TodoFiles /\ p \notin Range(wf_stack)
  <1>1. /\ p \notin Range(ArgDirs) /\ p \notin Range(ArgFiles)
        /\ \A e \in Dirs : p \in Visible(e) => e = d
    BY ForestAssumption DEF Visible
  <1>2. d \notin S
    BY DEF ReadSoFar
  <1>3. \A e \in S : p \notin Visible(e)
    BY <1>1, <1>2
  <1>4. \A e \in S : p \notin FilesAmong(Visible(e))
    BY <1>3, AmongVisible
  <1>5. QED BY <1>1, <1>3, <1>4 DEF ReadSoFar

\* Taking something from a queue or queueing it leaves the same work.
LEMMA QueueingMoves ==
  ASSUME TypeOK, WorkApart, NEW t \in Threads,
         \/ WorkStays
         \/ t \in DirThreads /\ (TakeDir(t) \/ PutDir(t))
         \/ TakeFile(t)
         \/ PutFile(t)
  PROVE  WorkApart' /\ UNCHANGED <<TodoDirs, TodoFiles, wf_stack>>
  <1>t. /\ directory_queue \in Seq(Dirs) /\ file_queue \in Seq(Files)
        /\ DirsInHand \in Hands(DirThreads, Dirs)
        /\ FilesInHand \in Hands(Threads, Files)
    BY HandsTyped DEF TypeOK, QueuesTyped, Hands
  <1> USE DEF WorkApart, TodoDirs, TodoFiles
  <1>1. CASE WorkStays
    BY <1>1 DEF WorkStays, queueVars
  <1>2. CASE t \in DirThreads /\ TakeDir(t)
    <2>1. /\ InWork(directory_queue', DirsInHand') = InWork(directory_queue, DirsInHand)
          /\ Apart(directory_queue, DirsInHand) => Apart(directory_queue', DirsInHand')
      BY <1>t, <1>2, TakeMoves DEF TakeDir
    <2>2. UNCHANGED <<file_queue, wf_stack, FilesInHand>>
      BY <1>2 DEF TakeDir
    <2>3. QED BY <2>1, <2>2
  <1>3. CASE t \in DirThreads /\ PutDir(t)
    <2>1. /\ InWork(directory_queue', DirsInHand') = InWork(directory_queue, DirsInHand)
          /\ Apart(directory_queue, DirsInHand) => Apart(directory_queue', DirsInHand')
      BY <1>t, <1>3, PutMoves DEF PutDir
    <2>2. UNCHANGED <<file_queue, wf_stack, FilesInHand>>
      BY <1>3 DEF PutDir
    <2>3. QED BY <2>1, <2>2
  <1>4. CASE TakeFile(t)
    <2>1. /\ InWork(file_queue', FilesInHand') = InWork(file_queue, FilesInHand)
          /\ Apart(file_queue, FilesInHand) => Apart(file_queue', FilesInHand')
      BY <1>t, <1>4, TakeMoves DEF TakeFile
    <2>2. UNCHANGED <<directory_queue, wf_stack, DirsInHand>>
      BY <1>4 DEF TakeFile
    <2>3. QED BY <2>1, <2>2
  <1>5. CASE PutFile(t)
    <2>1. /\ InWork(file_queue', FilesInHand') = InWork(file_queue, FilesInHand)
          /\ Apart(file_queue, FilesInHand) => Apart(file_queue', FilesInHand')
      BY <1>t, <1>5, PutMoves DEF PutFile
    <2>2. UNCHANGED <<directory_queue, wf_stack, DirsInHand>>
      BY <1>5 DEF PutFile
    <2>3. QED BY <2>1, <2>2
  <1>6. QED BY <1>1, <1>2, <1>3, <1>4, <1>5

\* What a thread has in its hands is work.
LEMMA HeldIsWork ==
  /\ \A t \in DirThreads : DirsInHand[t] \subseteq TodoDirs
  /\ \A t \in Threads : FilesInHand[t] \subseteq TodoFiles
  BY DEF TodoDirs, TodoFiles, InWork, DirsInHand, FilesInHand

\* Reading a directory replaces it by what was found in it.
LEMMA ReadingMoves ==
  ASSUME TypeOK, WorkApart, EveryPathPlaced, NEW t \in DirThreads, NEW ok, NEW failed,
         ok \subseteq Visible(held[t]), ReadDir(t, ok, failed)
  PROVE  /\ WorkApart'
         /\ TodoDirs' = (TodoDirs \ {held[t]}) \cup DirsAmong(ok)
         /\ TodoFiles' = TodoFiles \cup FilesAmong(ok)
         /\ wf_stack' = wf_stack
         /\ held[t] \in TodoDirs \cap Dirs
  <1>t. /\ directory_queue \in Seq(Dirs) /\ file_queue \in Seq(Files)
        /\ DirsInHand \in Hands(DirThreads, Dirs)
        /\ FilesInHand \in Hands(Threads, Files)
        /\ t \in Threads
    BY HandsTyped DEF TypeOK, QueuesTyped, Hands, Threads
  <1>1. held[t] \in Dirs /\ held[t] \in TodoDirs
    BY <1>t, HeldIsWork DEF ReadDir, Hands
  <1>2. PICK S \in SUBSET ReachableDirs : ReadSoFar(S)
    BY DEF EveryPathPlaced
  <1>3. S \in SUBSET Dirs
    BY <1>2 DEF ReachableDirs
  <1>4. \A p \in ok : p \notin TodoDirs /\ p \notin TodoFiles /\ p \notin Range(wf_stack)
    BY <1>1, <1>2, <1>3, NewIsNew
  <1>5. /\ DirsAmong(ok) \cap InWork(directory_queue, DirsInHand) = {}
        /\ FilesAmong(ok) \cap InWork(file_queue, FilesInHand) = {}
        /\ FilesAmong(ok) \cap Range(wf_stack) = {}
    BY <1>4, AmongVisible DEF TodoDirs, TodoFiles
  <1>6. /\ OneHand(DirsInHand, DirsInHand', t, DirsAmong(ok))
        /\ OneHand(FilesInHand, FilesInHand', t, FilesAmong(ok))
        /\ DirsInHand[t] = {held[t]} /\ FilesInHand[t] = {}
        /\ UNCHANGED <<directory_queue, file_queue, wf_stack>>
    BY DEF ReadDir, queueVars
  <1>7. /\ InWork(directory_queue, DirsInHand') =
             (InWork(directory_queue, DirsInHand) \ DirsInHand[t]) \cup DirsAmong(ok)
        /\ Apart(directory_queue, DirsInHand')
    BY <1>t, <1>5, <1>6, ReplaceMoves DEF WorkApart
  <1>8. /\ InWork(file_queue, FilesInHand') =
             (InWork(file_queue, FilesInHand) \ FilesInHand[t]) \cup FilesAmong(ok)
        /\ Apart(file_queue, FilesInHand')
    BY <1>t, <1>5, <1>6, ReplaceMoves DEF WorkApart
  <1>9. TodoDirs' = (TodoDirs \ {held[t]}) \cup DirsAmong(ok)
    BY <1>6, <1>7 DEF TodoDirs
  <1>10. TodoFiles' = TodoFiles \cup FilesAmong(ok)
    BY <1>6, <1>8 DEF TodoFiles
  <1>11. WorkApart'
    BY <1>5, <1>6, <1>7, <1>8, <1>10 DEF WorkApart, TodoFiles
  <1>12. QED BY <1>1, <1>6, <1>9, <1>10, <1>11

\* A file leaves the work when it is dropped or digested.
LEMMA FinishingMoves ==
  ASSUME TypeOK, WorkApart, NEW t \in Threads, DropFile(t) \/ StoreFile(t)
  PROVE  /\ WorkApart'
         /\ TodoDirs' = TodoDirs
         /\ TodoFiles' = TodoFiles \ {held[t]}
         /\ held[t] \in TodoFiles
         /\ DropFile(t) => wf_stack' = wf_stack
         /\ StoreFile(t) => Range(wf_stack') = Range(wf_stack) \cup {held[t]}
  <1>t. /\ file_queue \in Seq(Files) /\ wf_stack \in Seq(Files)
        /\ FilesInHand \in Hands(Threads, Files)
    BY HandsTyped DEF TypeOK, QueuesTyped, Hands
  <1>1. /\ OneHand(FilesInHand, FilesInHand', t, {})
        /\ FilesInHand[t] = {held[t]}
        /\ UNCHANGED <<directory_queue, file_queue, DirsInHand>>
    BY DEF DropFile, StoreFile, queueVars
  <1>2. held[t] \in TodoFiles /\ held[t] \in Files
    BY <1>t, <1>1, HeldIsWork DEF Hands
  <1>3. /\ InWork(file_queue, FilesInHand') = (InWork(file_queue, FilesInHand) \ FilesInHand[t]) \cup {}
        /\ Apart(file_queue, FilesInHand')
    BY <1>t, <1>1, ReplaceMoves DEF WorkApart
  <1>4. TodoDirs' = TodoDirs /\ TodoFiles' = TodoFiles \ {held[t]}
    BY <1>1, <1>3 DEF TodoDirs, TodoFiles
  <1>5. held[t] \notin Range(wf_stack)
    BY <1>2 DEF WorkApart
  <1>6. CASE DropFile(t)
    <2>1. wf_stack' = wf_stack
      BY <1>6 DEF DropFile, queueVars
    <2>2. WorkApart'
      BY <1>1, <1>3, <1>4, <2>1 DEF WorkApart
    <2>3. StoreFile(t) => Range(wf_stack') = Range(wf_stack) \cup {held[t]}
      BY <1>t, <1>2, PushFacts DEF StoreFile
    <2>4. QED BY <1>2, <1>4, <2>1, <2>2, <2>3
  <1>7. CASE StoreFile(t)
    <2>1. /\ Range(wf_stack') = Range(wf_stack) \cup {held[t]}
          /\ IsInjective(wf_stack')
      BY <1>t, <1>2, <1>5, <1>7, PushFacts DEF WorkApart, StoreFile
    <2>2. WorkApart'
      BY <1>1, <1>3, <1>4, <2>1 DEF WorkApart
    <2>3. DropFile(t) => wf_stack' = wf_stack
      BY DEF DropFile, queueVars
    <2>4. QED BY <1>2, <1>4, <2>1, <2>2, <2>3
  <1>8. QED BY <1>6, <1>7

-----------------------------------------------------------------------------
(* What the steps do to the failures remembered.                           *)

\* A step of a thread or of main, or a stutter.
LEMMA RunningCases ==
  ASSUME [Next]_vars
  PROVE  \/ UNCHANGED vars
         \/ ~Over /\ \E t \in DirThreads : DirThreadStep(t)
         \/ ~Over /\ \E t \in FileThreads : FileThreadStep(t)
         \/ ~Over /\ OtherStep
  BY DEF Next, Stop, OtherStep

\* A failure noted in is_err is one of the phase.
LEMMA FailureNoted ==
  ASSUME TypeOK, ~Over, UNCHANGED mainVars, NEW t \in Threads, NEW failed \in BOOLEAN,
         is_err' = [is_err EXCEPT ![t] = @ \/ failed]
  PROVE  Failed' <=> (Failed \/ failed)
  <1>1. main # "collected" /\ main' = main /\ err_flag' = err_flag
    BY DEF Over, mainVars
  <1>2. is_err \in [Threads -> BOOLEAN]
    BY DEF TypeOK, ListsTyped
  <1>3. /\ is_err'[t] <=> (is_err[t] \/ failed)
        /\ \A u \in Threads \ {t} : is_err'[u] = is_err[u]
    BY <1>2
  <1>4. QED BY <1>1, <1>3 DEF Failed

\* No failure is forgotten and none is made up by main: it has joined everybody
\* when it looks at err_flag alone.
LEMMA FailureKept ==
  ASSUME CollectionInv, CollectionInv', JoinedErrorsKnown, ~Over, OtherStep
  PROVE  /\ Failed' <=> Failed
         /\ JoinedErrorsKnown'
  <1>1. is_err' = is_err
    BY OtherWork DEF CollectionInv
  <1>2. CASE \/ CreateDirThread \/ CreateFileThread \/ ExitProcess \/ UNCHANGED vars
             \/ \E t \in Threads : SpuriousWakeup(t)
    <2>1. err_flag' = err_flag /\ joined' = joined
      BY <1>2 DEF CreateDirThread, CreateFileThread, CreateThread, ExitProcess, vars,
                  SpuriousWakeup, mainVars
    <2>2. main # "collected" /\ main' # "collected"
      BY <1>2 DEF Over, CreateDirThread, CreateFileThread, CreateThread, ExitProcess, vars,
                  SpuriousWakeup, mainVars
    <2>3. QED BY <1>1, <2>1, <2>2 DEF Failed, JoinedErrorsKnown
  <1>3. CASE JoinDirThread \/ JoinFileThread
    <2>1. PICK t \in Threads : joined' = joined \cup {t} /\ err_flag' = (err_flag \/ is_err[t])
      BY <1>3 DEF JoinDirThread, JoinFileThread, JoinThread, Threads
    <2>2. main # "collected" /\ main' # "collected"
      BY <1>3 DEF Over, JoinDirThread, JoinFileThread, JoinThread
    <2>3. QED BY <1>1, <2>1, <2>2 DEF Failed, JoinedErrorsKnown
  <1>4. CASE CheckQueues
    <2>1. main = "check" /\ err_flag' = err_flag /\ joined' = joined
      BY <1>4 DEF CheckQueues
    <2>2. \A t \in Threads : is_err[t] => err_flag
      BY <2>1 DEF JoinedErrorsKnown, CollectionInv, MainInv, Threads
    <2>3. QED BY <1>1, <2>1, <2>2 DEF Failed, JoinedErrorsKnown
  <1>5. QED BY <1>2, <1>3, <1>4 DEF OtherStep, MainStep

-----------------------------------------------------------------------------
(* The steps as the work list sees them.                                   *)

\* Nothing happens to the work; a directory is read; a file is done with.
SameWork ==
  /\ UNCHANGED <<TodoDirs, TodoFiles, wf_stack>>
  /\ Failed' <=> Failed

Reads(d, ok, failed) ==
  /\ d \in TodoDirs \cap Dirs
  /\ Outcome(d, ok, failed)
  /\ TodoDirs' = (TodoDirs \ {d}) \cup DirsAmong(ok)
  /\ TodoFiles' = TodoFiles \cup FilesAmong(ok)
  /\ wf_stack' = wf_stack
  /\ Failed' <=> (Failed \/ failed)

Finishes(f) ==
  /\ f \in TodoFiles
  /\ TodoFiles' = TodoFiles \ {f}
  /\ TodoDirs' = TodoDirs
  /\ \/ f \in Faulty /\ wf_stack' = wf_stack /\ Failed'
     \/ Range(wf_stack') = Range(wf_stack) \cup {f} /\ (Failed' <=> Failed)

LEMMA OutcomeFacts ==
  ASSUME NEW d, NEW ok, NEW failed, Outcome(d, ok, failed)
  PROVE  /\ ok \subseteq Visible(d)
         /\ failed \in BOOLEAN
         /\ ~failed => ok = Visible(d)
  BY DEF Outcome

\* A step of a directory thread.
LEMMA DirEffect ==
  ASSUME RefinementInv, ~Over, NEW t \in DirThreads, DirThreadStep(t)
  PROVE  /\ WorkApart' /\ JoinedErrorsKnown'
         /\ UNCHANGED mainVars
         /\ SameWork \/ \E d, ok, failed : Reads(d, ok, failed)
  <1> USE DEF RefinementInv, CollectionInv
  <1>t. t \in Threads
    BY DEF Threads
  <1>m. UNCHANGED mainVars /\ pc[t] # "done"
    BY DirFrame
  <1>1. CASE (WorkStays /\ UNCHANGED is_err) \/ TakeDir(t) \/ PutDir(t) \/ PutFile(t)
    <2>1. is_err' = is_err
      BY <1>1 DEF TakeDir, PutDir, PutFile
    <2>2. WorkApart' /\ UNCHANGED <<TodoDirs, TodoFiles, wf_stack>>
      BY <1>1, <1>t, QueueingMoves
    <2>3. (Failed' <=> Failed) /\ JoinedErrorsKnown'
      BY <1>m, <2>1 DEF Failed, JoinedErrorsKnown, mainVars
    <2>4. QED BY <1>m, <2>2, <2>3 DEF SameWork
  <1>2. ASSUME NEW ok, NEW failed, Outcome(held[t], ok, failed), ReadDir(t, ok, failed)
        PROVE  WorkApart' /\ JoinedErrorsKnown' /\ Reads(held[t], ok, failed)
    <2>1. is_err' = [is_err EXCEPT ![t] = @ \/ failed]
      BY <1>2 DEF ReadDir
    <2>2. /\ WorkApart'
          /\ TodoDirs' = (TodoDirs \ {held[t]}) \cup DirsAmong(ok)
          /\ TodoFiles' = TodoFiles \cup FilesAmong(ok)
          /\ wf_stack' = wf_stack
          /\ held[t] \in TodoDirs \cap Dirs
      BY <1>2, OutcomeFacts, ReadingMoves
    <2>3. Failed' <=> (Failed \/ failed)
      BY <1>2, <1>m, <1>t, <2>1, OutcomeFacts, FailureNoted
    <2>4. t \notin joined
      BY <1>m DEF MainInv
    <2>5. \A u \in joined : is_err'[u] = is_err[u]
      BY <2>1, <2>4
    <2>6. JoinedErrorsKnown'
      BY <1>m, <2>5 DEF JoinedErrorsKnown, mainVars
    <2>7. QED BY <1>2, <2>2, <2>3, <2>6 DEF Reads
  <1>3. QED BY <1>m, <1>1, <1>2, DirWork

\* A step of a file thread.
LEMMA FileEffect ==
  ASSUME RefinementInv, ~Over, NEW t \in FileThreads, FileThreadStep(t)
  PROVE  /\ WorkApart' /\ JoinedErrorsKnown'
         /\ UNCHANGED mainVars
         /\ SameWork \/ \E f : Finishes(f)
  <1> USE DEF RefinementInv, CollectionInv
  <1>t. t \in Threads
    BY DEF Threads
  <1>m. UNCHANGED mainVars /\ pc[t] # "done"
    BY FileFrame
  <1>1. CASE (WorkStays /\ UNCHANGED is_err) \/ TakeFile(t)
    <2>1. is_err' = is_err
      BY <1>1 DEF TakeFile
    <2>2. WorkApart' /\ UNCHANGED <<TodoDirs, TodoFiles, wf_stack>>
      BY <1>1, <1>t, QueueingMoves
    <2>3. (Failed' <=> Failed) /\ JoinedErrorsKnown'
      BY <1>m, <2>1 DEF Failed, JoinedErrorsKnown, mainVars
    <2>4. QED BY <1>m, <2>2, <2>3 DEF SameWork
  <1>2. CASE DropFile(t)
    <2>1. is_err' = [is_err EXCEPT ![t] = @ \/ TRUE] /\ held[t] \in Faulty
      BY <1>2 DEF DropFile
    <2>2. /\ WorkApart' /\ TodoDirs' = TodoDirs
          /\ TodoFiles' = TodoFiles \ {held[t]}
          /\ held[t] \in TodoFiles
          /\ wf_stack' = wf_stack
      BY <1>2, <1>t, FinishingMoves
    <2>3. Failed'
      BY <1>m, <1>t, <2>1, FailureNoted
    <2>4. t \notin joined
      BY <1>m DEF MainInv
    <2>5. \A u \in joined : is_err'[u] = is_err[u]
      BY <2>1, <2>4
    <2>6. JoinedErrorsKnown'
      BY <1>m, <2>5 DEF JoinedErrorsKnown, mainVars
    <2>7. Finishes(held[t])
      BY <2>1, <2>2, <2>3 DEF Finishes
    <2>8. QED BY <1>m, <2>2, <2>6, <2>7
  <1>3. CASE StoreFile(t)
    <2>1. is_err' = is_err
      BY <1>3 DEF StoreFile
    <2>2. /\ WorkApart' /\ TodoDirs' = TodoDirs
          /\ TodoFiles' = TodoFiles \ {held[t]}
          /\ held[t] \in TodoFiles
          /\ Range(wf_stack') = Range(wf_stack) \cup {held[t]}
      BY <1>3, <1>t, FinishingMoves
    <2>3. (Failed' <=> Failed) /\ JoinedErrorsKnown'
      BY <1>m, <2>1 DEF Failed, JoinedErrorsKnown, mainVars
    <2>4. Finishes(held[t])
      BY <2>2, <2>3 DEF Finishes
    <2>5. QED BY <1>m, <2>2, <2>3, <2>4
  <1>4. QED BY <1>1, <1>2, <1>3, FileWork

\* A step of main, or a spurious wake-up.
LEMMA OtherEffect ==
  ASSUME RefinementInv, CollectionInv', ~Over, OtherStep
  PROVE  WorkApart' /\ JoinedErrorsKnown' /\ SameWork
  <1>1. WorkStays
    BY OtherWork DEF RefinementInv, CollectionInv
  <1>2. \E t : t \in Threads
    BY ThreadAssumption DEF Threads
  <1>3. WorkApart' /\ UNCHANGED <<TodoDirs, TodoFiles, wf_stack>>
    BY <1>1, <1>2, QueueingMoves DEF RefinementInv, CollectionInv
  <1>4. QED BY <1>3, FailureKept DEF RefinementInv, SameWork

-----------------------------------------------------------------------------
(* Every path stays where it should be.                                    *)

\* The reachable directories hold the arguments and what is below them.
LEMMA ReachableClosed ==
  /\ ReachableDirs \subseteq Dirs
  /\ Range(ArgDirs) \subseteq ReachableDirs
  /\ \A d \in ReachableDirs : DirsAmong(Visible(d)) \subseteq ReachableDirs
  <1>1. Range(ArgDirs) \subseteq Dirs
    BY PathAssumption, RangeOfSeq
  <1>2. \A d \in ReachableDirs : DirsAmong(Visible(d)) \subseteq ReachableDirs
    BY DEF ReachableDirs, ClosedUnderEntries, DirsAmong
  <1>3. QED BY <1>1, <1>2 DEF ReachableDirs

\* Reading a directory extends the set of those read by it.
LEMMA PlacedWhenRead ==
  ASSUME EveryPathPlaced, NEW d, NEW ok, NEW failed, Reads(d, ok, failed)
  PROVE  EveryPathPlaced'
  <1>1. PICK S \in SUBSET ReachableDirs : ReadSoFar(S) /\ (~Failed => NothingMissed(S))
    BY DEF EveryPathPlaced
  <1> DEFINE R == S \cup {d}
  <1>2. S \in SUBSET Dirs /\ d \in Dirs /\ d \in TodoDirs
    BY <1>1, ReachableClosed DEF Reads
  <1>3. ok \subseteq Visible(d) /\ (~failed => ok = Visible(d))
    BY OutcomeFacts DEF Reads
  <1>4. d \in ReachableDirs
    <2>1. d \in Range(ArgDirs) \/ \E e \in S : d \in Visible(e)
      BY <1>1, <1>2 DEF ReadSoFar
    <2>2. QED BY <1>1, <1>2, <2>1, ReachableClosed DEF DirsAmong
  <1>5. /\ TodoDirs' = (TodoDirs \ {d}) \cup DirsAmong(ok)
        /\ TodoFiles' = TodoFiles \cup FilesAmong(ok)
        /\ wf_stack' = wf_stack
        /\ Failed' <=> (Failed \/ failed)
    BY DEF Reads
  <1>6. ReadSoFar(R)'
    <2>1. R \cap TodoDirs' = {}
      <3>1. \A p \in DirsAmong(ok) : p \notin S /\ p # d
        BY <1>1, <1>2, <1>3, AmongVisible, NewIsNew
      <3>2. S \cap TodoDirs = {}
        BY <1>1 DEF ReadSoFar
      <3>3. QED BY <1>5, <3>1, <3>2
    <2>2. \A p \in R \cup TodoDirs' : p \in Range(ArgDirs) \/ \E e \in R : p \in Visible(e)
      BY <1>1, <1>2, <1>3, <1>5, AmongVisible DEF ReadSoFar
    <2>3. FilesAmong(ok) \subseteq FilesAmong(Visible(d))
      BY <1>3 DEF FilesAmong
    <2>4. \A p \in TodoFiles' \cup Range(wf_stack') :
            p \in Range(ArgFiles) \/ \E e \in R : p \in FilesAmong(Visible(e))
      BY <1>1, <1>5, <2>3 DEF ReadSoFar
    <2>5. QED BY <2>1, <2>2, <2>4 DEF ReadSoFar
  <1>7. ~Failed' => NothingMissed(R)'
    <2> SUFFICES ASSUME ~Failed' PROVE NothingMissed(R)'
      OBVIOUS
    <2>1. NothingMissed(S) /\ ok = Visible(d)
      BY <1>1, <1>3, <1>5
    <2>2. QED BY <1>2, <1>5, <2>1 DEF NothingMissed
  <1>8. R \in SUBSET ReachableDirs
    BY <1>4
  <1>9. QED BY <1>6, <1>7, <1>8 DEF EveryPathPlaced

\* The other steps leave it as it is.
LEMMA PlacedOtherwise ==
  ASSUME EveryPathPlaced, SameWork \/ \E f : Finishes(f)
  PROVE  EveryPathPlaced'
  <1>1. PICK S \in SUBSET ReachableDirs : ReadSoFar(S) /\ (~Failed => NothingMissed(S))
    BY DEF EveryPathPlaced
  <1>2. /\ TodoDirs' = TodoDirs
        /\ TodoFiles' \cup Range(wf_stack') \subseteq TodoFiles \cup Range(wf_stack)
        /\ \/ Failed'
           \/ /\ Failed' <=> Failed
              /\ TodoFiles' \cup Range(wf_stack') = TodoFiles \cup Range(wf_stack)
    <2>1. CASE SameWork
      BY <2>1 DEF SameWork
    <2>2. ASSUME NEW f, Finishes(f)
          PROVE  /\ TodoDirs' = TodoDirs
                 /\ TodoFiles' \cup Range(wf_stack') \subseteq TodoFiles \cup Range(wf_stack)
                 /\ \/ Failed'
                    \/ /\ Failed' <=> Failed
                       /\ TodoFiles' \cup Range(wf_stack') = TodoFiles \cup Range(wf_stack)
      BY <2>2 DEF Finishes
    <2>3. QED BY <2>1, <2>2
  <1>3. ReadSoFar(S)'
    BY <1>1, <1>2 DEF ReadSoFar
  <1>4. ~Failed' => NothingMissed(S)'
    BY <1>1, <1>2 DEF NothingMissed
  <1>5. QED BY <1>1, <1>3, <1>4 DEF EveryPathPlaced

\* The invariant of the refinement holds when main starts the threads.
LEMMA RefinementInit == Init => RefinementInv
  <1> SUFFICES ASSUME Init PROVE RefinementInv
    OBVIOUS
  <1>1. CollectionInv
    BY InitInv
  <1>2. /\ directory_queue = ArgDirs /\ file_queue = ArgFiles /\ wf_stack = <<>>
        /\ DirsInHand = [t \in DirThreads |-> {}]
        /\ FilesInHand = [t \in Threads |-> {}]
    <2>1. \A t \in Threads : pc[t] = "unborn"
      BY DEF Init
    <2>2. \A t \in DirThreads : pending_dirs[t] = {} /\ pending_files[t] = {} /\ t \in Threads
      BY DEF Init, Threads
    <2>3. QED BY <2>1, <2>2 DEF Init, DirsInHand, FilesInHand
  <1>3. TodoDirs = Range(ArgDirs) /\ TodoFiles = Range(ArgFiles)
    BY <1>2 DEF TodoDirs, TodoFiles, InWork
  <1>4. Range(wf_stack) = {} /\ IsInjective(wf_stack)
    BY <1>2 DEF Range, IsInjective
  <1>5. WorkApart
    BY <1>2, <1>4, ForestAssumption DEF WorkApart, Apart
  <1>6. ReadSoFar({}) /\ NothingMissed({})
    BY <1>3, <1>4 DEF ReadSoFar, NothingMissed
  <1>7. EveryPathPlaced
    BY <1>6 DEF EveryPathPlaced
  <1>8. JoinedErrorsKnown
    BY DEF Init, JoinedErrorsKnown
  <1>9. QED BY <1>1, <1>5, <1>7, <1>8 DEF RefinementInv

\* Every step keeps it.
LEMMA RefinementStep == RefinementInv /\ [Next]_vars => RefinementInv'
  <1> SUFFICES ASSUME RefinementInv, [Next]_vars PROVE RefinementInv'
    OBVIOUS
  <1>1. CollectionInv'
    BY StepInv DEF RefinementInv
  <1>2. CASE UNCHANGED vars
    <2>1. WorkStays
      BY <1>2, OtherWork DEF OtherStep, RefinementInv, CollectionInv
    <2>2. \E t : t \in Threads
      BY ThreadAssumption DEF Threads
    <2>3. WorkApart' /\ UNCHANGED <<TodoDirs, TodoFiles, wf_stack>>
      BY <2>1, <2>2, QueueingMoves DEF RefinementInv, CollectionInv
    <2>4. (Failed' <=> Failed) /\ JoinedErrorsKnown'
      BY <1>2 DEF vars, Failed, RefinementInv, JoinedErrorsKnown
    <2>5. SameWork
      BY <2>3, <2>4 DEF SameWork
    <2>6. QED BY <1>1, <2>3, <2>4, <2>5, PlacedOtherwise DEF RefinementInv
  <1>3. ASSUME ~Over, NEW t \in DirThreads, DirThreadStep(t) PROVE RefinementInv'
    BY <1>1, <1>3, DirEffect, PlacedWhenRead, PlacedOtherwise DEF RefinementInv
  <1>4. ASSUME ~Over, NEW t \in FileThreads, FileThreadStep(t) PROVE RefinementInv'
    BY <1>1, <1>4, FileEffect, PlacedOtherwise DEF RefinementInv
  <1>5. CASE ~Over /\ OtherStep
    BY <1>1, <1>5, OtherEffect, PlacedOtherwise DEF RefinementInv
  <1>6. QED BY <1>2, <1>3, <1>4, <1>5, RunningCases

\* When main has joined everybody nothing is left to do.
LEMMA NothingToDo ==
  ASSUME CollectionInv, main \in {"check", "collected"}
  PROVE  TodoDirs = {} /\ TodoFiles = {}
  <1> USE DEF CollectionInv
  <1>1. /\ \A t \in DirThreads : pc[t] = "done" /\ t \in Threads
        /\ \A t \in FileThreads : pc[t] = "done" /\ t \in Threads
    BY DEF MainInv, Threads
  <1>2. file_queue = <<>> /\ directory_queue = <<>>
    BY <1>1, ThreadAssumption DEF TerminationInv, FileThreadsStayForWork
  <1>3. Range(file_queue) = {} /\ Range(directory_queue) = {}
    BY <1>2 DEF Range
  <1>4. \A t \in DirThreads : DirsInHand[t] = {}
    BY <1>1 DEF DirsInHand, PendingInv
  <1>5. \A t \in Threads : FilesInHand[t] = {}
    BY <1>1 DEF FilesInHand, PendingInv, Threads
  <1>6. DOMAIN DirsInHand = DirThreads /\ DOMAIN FilesInHand = Threads
    BY DEF DirsInHand, FilesInHand
  <1>7. QED BY <1>3, <1>4, <1>5, <1>6 DEF TodoDirs, TodoFiles, InWork

\* The invariant of the refinement, for every tree and number of threads.
THEOREM WorkAccountedFor == Spec => []RefinementInv
  BY RefinementInit, RefinementStep, PTL DEF Spec

\* If the phase ends and no failure was noted, the repository holds the table
\* of every file asked for, each once, and of no other: the directories read
\* are closed under entries and hold the arguments, so they are the reachable ones.
THEOREM WantedFilesCollected == Spec => []CollectsWantedFiles
  <1>1. ASSUME RefinementInv, main = "collected", ~err_flag
        PROVE  Range(wf_stack) = WantedFiles /\ IsInjective(wf_stack)
    <2>1. ~Failed
      BY <1>1 DEF Failed
    <2>2. PICK S \in SUBSET ReachableDirs : ReadSoFar(S) /\ NothingMissed(S)
      BY <1>1, <2>1 DEF RefinementInv, EveryPathPlaced
    <2>3. TodoDirs = {} /\ TodoFiles = {}
      BY <1>1, NothingToDo DEF RefinementInv
    <2>4. S \in SUBSET Dirs
      BY <2>2, ReachableClosed
    <2>5. ReachableDirs \subseteq S
      BY <2>2, <2>3, <2>4 DEF NothingMissed, ReachableDirs, ClosedUnderEntries
    <2>6. S = ReachableDirs
      BY <2>2, <2>5
    <2>7. WantedFiles \subseteq Range(wf_stack)
      BY <2>2, <2>3, <2>6 DEF NothingMissed, WantedFiles
    <2>8. Range(wf_stack) \subseteq WantedFiles
      BY <2>2, <2>6 DEF ReadSoFar, WantedFiles
    <2>9. IsInjective(wf_stack)
      BY <1>1 DEF RefinementInv, WorkApart
    <2>10. QED BY <2>7, <2>8, <2>9
  <1>2. RefinementInv => CollectsWantedFiles
    BY <1>1 DEF CollectsWantedFiles
  <1>3. QED BY <1>2, WorkAccountedFor, PTL

-----------------------------------------------------------------------------
(* The refinement.                                                         *)

\* The initial states are those of the work list.
LEMMA InitRefines == Init => Work!Init
  <1> SUFFICES ASSUME Init PROVE Work!Init
    OBVIOUS
  <1>1. /\ directory_queue = ArgDirs /\ file_queue = ArgFiles /\ wf_stack = <<>>
        /\ DirsInHand = [t \in DirThreads |-> {}]
        /\ FilesInHand = [t \in Threads |-> {}]
    <2>1. \A t \in Threads : pc[t] = "unborn"
      BY DEF Init
    <2>2. \A t \in DirThreads : pending_dirs[t] = {} /\ pending_files[t] = {} /\ t \in Threads
      BY DEF Init, Threads
    <2>3. QED BY <2>1, <2>2 DEF Init, DirsInHand, FilesInHand
  <1>2. TodoDirs = Range(ArgDirs) /\ TodoFiles = Range(ArgFiles)
    BY <1>1 DEF TodoDirs, TodoFiles, InWork
  <1>3. Range(wf_stack) = {}
    BY <1>1 DEF Range
  <1>4. Failed \in BOOLEAN
    BY DEF Init, Failed
  <1>5. Phase = "collecting"
    BY DEF Init, Phase
  <1>6. QED BY <1>2, <1>3, <1>4, <1>5 DEF Work!Init, Work!Range, Range

\* While the phase runs, a thread that goes on leaves main where it is.
LEMMA PhaseKept ==
  ASSUME ~Over, UNCHANGED mainVars
  PROVE  Phase = "collecting" /\ Phase' = "collecting"
  BY DEF Over, Phase, mainVars

\* A directory that is read is expanded, or missed if it cannot be opened.
LEMMA ReadRefines ==
  ASSUME TypeOK, ~Over, UNCHANGED mainVars, NEW d, NEW ok, NEW failed, Reads(d, ok, failed)
  PROVE  Work!Next
  <1>1. Phase = "collecting" /\ Phase' = Phase
    BY PhaseKept
  <1>b. Failed \in BOOLEAN /\ Failed' \in BOOLEAN
    BY DEF Failed
  <1>2. ASSUME NEW bad \in SUBSET (Visible(d) \cap Faulty),
               ok = Visible(d) \ bad, failed = (bad # {})
        PROVE  Work!Expand(d, Work!Visible(d) \ bad)
    <2>1. failed <=> ok # Visible(d)
      BY <1>2
    <2>2. Failed' = (Failed \/ ok # Visible(d))
      BY <2>1, <1>b DEF Reads
    <2>3. QED BY <1>1, <1>2, <2>2 DEF Reads, Work!Expand, Work!Visible, Visible,
                  Work!DirsAmong, DirsAmong, Work!FilesAmong, FilesAmong
  <1>3. ASSUME d \in Faulty, ok = {}, failed = TRUE PROVE Work!Miss(d)
    <2>1. DirsAmong(ok) = {} /\ FilesAmong(ok) = {}
      BY <1>3 DEF DirsAmong, FilesAmong
    <2>2. Failed' = TRUE
      BY <1>3, <1>b DEF Reads
    <2>3. QED BY <1>1, <1>3, <2>1, <2>2 DEF Reads, Work!Miss
  <1>4. d \in TodoDirs /\ Outcome(d, ok, failed)
    BY DEF Reads
  <1>5. \/ \E bad \in SUBSET (Work!Visible(d) \cap Faulty) :
             Work!Expand(d, Work!Visible(d) \ bad)
        \/ Work!Miss(d)
    BY <1>2, <1>3, <1>4 DEF Outcome, Work!Visible, Visible
  <1>6. QED BY <1>1, <1>4, <1>5 DEF Work!Next

\* A file that is done with is digested, or dropped if it cannot be opened.
LEMMA FinishRefines ==
  ASSUME TypeOK, ~Over, UNCHANGED mainVars, NEW f, Finishes(f)
  PROVE  Work!Next
  <1>1. Phase = "collecting" /\ Phase' = Phase
    BY PhaseKept
  <1>b. Failed \in BOOLEAN /\ Failed' \in BOOLEAN
    BY DEF Failed
  <1>2. CASE f \in Faulty /\ wf_stack' = wf_stack /\ Failed'
    <2>1. Failed' = TRUE
      BY <1>2, <1>b
    <2>2. Work!Drop(f)
      BY <1>1, <1>2, <2>1 DEF Finishes, Work!Drop
    <2>3. QED BY <1>1, <2>2 DEF Work!Next, Finishes
  <1>3. CASE Range(wf_stack') = Range(wf_stack) \cup {f} /\ (Failed' <=> Failed)
    <2>1. Failed' = Failed
      BY <1>3, <1>b
    <2>2. Work!Digest(f)
      BY <1>1, <1>3, <2>1 DEF Finishes, Work!Digest
    <2>3. QED BY <1>1, <2>2 DEF Work!Next, Finishes
  <1>4. QED BY <1>2, <1>3 DEF Finishes

\* A step that leaves the work alone stutters, finishes the phase or fails it.
LEMMA SameRefines ==
  ASSUME CollectionInv, CollectionInv', SameWork,
         UNCHANGED vars \/ (~Over /\ UNCHANGED mainVars) \/ (~Over /\ OtherStep)
  PROVE  [Work!Next]_(Work!vars)
  <1>b. Failed \in BOOLEAN /\ Failed' \in BOOLEAN
    BY DEF Failed
  <1>1. UNCHANGED <<TodoDirs, TodoFiles>> /\ Range(wf_stack') = Range(wf_stack) /\ Failed' = Failed
    BY <1>b DEF SameWork
  <1>2. CASE Phase' = Phase
    BY <1>1, <1>2 DEF Work!vars
  <1>3. CASE Phase' # Phase
    <2>1. ~Over /\ OtherStep
      BY <1>3, PhaseKept DEF vars, Phase
    <2>2. Phase = "collecting"
      BY <2>1 DEF Over, Phase
    <2>3. CASE ExitProcess
      <3>1. Phase' = "failed"
        BY <2>3 DEF ExitProcess, Phase
      <3>2. Work!Fail
        BY <1>1, <3>1 DEF Work!Fail
      <3>3. QED BY <2>2, <3>2 DEF Work!Next
    <2>4. CASE CheckQueues
      <3>1. main = "check" /\ main' = "collected"
        BY <2>4 DEF CheckQueues, CollectionInv, QueuesDrained
      <3>2. TodoDirs = {} /\ TodoFiles = {}
        BY <3>1, NothingToDo
      <3>3. Phase' = "collected"
        BY <3>1 DEF Phase
      <3>4. Work!Finish
        BY <1>1, <3>2, <3>3 DEF Work!Finish
      <3>5. QED BY <2>2, <3>4 DEF Work!Next
    <2>5. CASE OtherStep /\ ~ExitProcess /\ ~CheckQueues
      <3>1. Phase' = "collecting"
        BY <2>1, <2>5 DEF OtherStep, MainStep, CreateDirThread, CreateFileThread, CreateThread,
           JoinDirThread, JoinFileThread, JoinThread, SpuriousWakeup, mainVars, vars, Over, Phase
      <3>2. QED BY <1>3, <2>2, <3>1
    <2>6. QED BY <2>1, <2>3, <2>4, <2>5
  <1>4. QED BY <1>2, <1>3

\* Every step of the threads and of main is one of the work list, or none.
LEMMA StepRefines == RefinementInv /\ RefinementInv' /\ [Next]_vars => [Work!Next]_(Work!vars)
  <1> SUFFICES ASSUME RefinementInv, RefinementInv', [Next]_vars
               PROVE  [Work!Next]_(Work!vars)
    OBVIOUS
  <1>i. CollectionInv /\ CollectionInv' /\ TypeOK
    BY DEF RefinementInv, CollectionInv
  <1>1. CASE UNCHANGED vars
    <2>1. SameWork
      BY <1>1 DEF vars, SameWork, TodoDirs, TodoFiles, DirsInHand, FilesInHand, Failed, InWork
    <2>2. QED BY <1>i, <1>1, <2>1, SameRefines
  <1>2. ASSUME ~Over, NEW t \in DirThreads, DirThreadStep(t)
        PROVE  [Work!Next]_(Work!vars)
    <2>1. UNCHANGED mainVars /\ (SameWork \/ \E d, ok, failed : Reads(d, ok, failed))
      BY <1>2, DirEffect
    <2>2. QED BY <1>i, <1>2, <2>1, SameRefines, ReadRefines
  <1>3. ASSUME ~Over, NEW t \in FileThreads, FileThreadStep(t)
        PROVE  [Work!Next]_(Work!vars)
    <2>1. UNCHANGED mainVars /\ (SameWork \/ \E f : Finishes(f))
      BY <1>3, FileEffect
    <2>2. QED BY <1>i, <1>3, <2>1, SameRefines, FinishRefines
  <1>4. CASE ~Over /\ OtherStep
    <2>1. SameWork
      BY <1>i, <1>4, OtherEffect
    <2>2. QED BY <1>i, <1>4, <2>1, SameRefines
  <1>5. QED BY <1>1, <1>2, <1>3, <1>4, RunningCases

\* The threads implement the work list: no interleaving loses a directory or a
\* file, handles one twice, forgets a failure or ends the phase early.
THEOREM CollectionImplementsTraversal == Spec => ImplementsTraversal
  BY InitRefines, StepRefines, WorkAccountedFor, PTL DEF Spec, ImplementsTraversal, Work!Spec
=============================================================================
