------------------------------- MODULE Analysis -------------------------------
(***************************************************************************)
(* The analysis phase of compare: main sets a cursor (x, y) on the first   *)
(* pair of word tables of the repository, the analysis threads take pairs  *)
(* off the cursor under analysis_mutex and write each result, outside the  *)
(* mutex, into the entry of jsd_list they were given, and main joins them, *)
(* sorts the entries and prints them.  Modelled from analysis_threads.c,   *)
(* lines 407-449 of compare.c and the list functions of jsd.c.             *)
(*                                                                         *)
(* A word table is its place in the repository, 1 for the top; NULL is 0.  *)
(* The divergence of two tables is the pair itself.                        *)
(***************************************************************************)
EXTENDS IntArithmetic, FiniteSets

CONSTANTS
    Sizes,              \* the numbers of tables the collection phase may leave
    AnalysisThreads,    \* the aN threads asked for on the command line
    NoThread,           \* the holder of a free mutex
    NoWords,            \* no_words of each table
    SystemFaults        \* whether malloc or a pthread call may fail

ASSUME AnalysisAssumption ==
    /\ Sizes \subseteq 0..IntMax
    /\ IsFiniteSet(AnalysisThreads) /\ AnalysisThreads # {}
    /\ NoThread \notin AnalysisThreads
    /\ \A n \in Sizes : 1..n \subseteq DOMAIN NoWords /\ \A i \in 1..n : NoWords[i] \in Nat
    /\ SystemFaults \in BOOLEAN

\* Beyond that the sum in the entry, and the difference in jsd_comparator,
\* would not be those of the numbers of words.
ASSUME WordsAssumption ==
    \A i, j \in DOMAIN NoWords : i # j => NoWords[i] + NoWords[j] <= IntMax

NULL == 0

VARIABLES
    size,               \* wf_stack->size
    x,
    y,
    jsd_comp_iter,
    jsd_total_comp,
    jsd_list,
    analysis_mutex,
    pc,
    f1,                 \* the pair a thread has taken, and the index of its entry
    f2,
    cur_idx,
    main,
    output              \* the lines printed

cursorVars == <<x, y, jsd_comp_iter>>
localVars == <<f1, f2, cur_idx>>
mainVars == <<size, jsd_total_comp, main, output>>
vars == <<cursorVars, jsd_list, analysis_mutex, pc, localVars, mainVars>>

AnalysisLabels == {"unborn", "lock", "take", "advance", "describe", "compare", "done"}
MainLabels == {"prepare", "create", "join", "print", "printed", "few", "exited"}

\* The next pointer of table i; NULL has none.
NextTable(i) == IF i = size THEN NULL ELSE i + 1

Indices == 0..(jsd_total_comp - 1)

\* jsd_create: an entry before its thread has written it.
BlankEntry == [file_1 |-> NULL, file_2 |-> NULL, total_words |-> 0, jsd |-> <<NULL, NULL>>]

\* The thread has taken a pair and not yet written all of its entry.
Busy(t) == pc[t] \in {"advance", "describe", "compare"}

Goto(t, label) == pc' = [pc EXCEPT ![t] = label]

-----------------------------------------------------------------------------
(* analysis_thread_routine.                                                *)

\* Mutant: nobody waits for the mutex.
LockCursorAnyway(t) ==
    /\ pc[t] = "lock"
    /\ IF jsd_comp_iter = jsd_total_comp
       THEN Goto(t, "done") /\ UNCHANGED analysis_mutex
       ELSE Goto(t, "take") /\ analysis_mutex' = t
    /\ UNCHANGED <<cursorVars, jsd_list, localVars, mainVars>>

\* Mutant: the thread returns without unlocking the mutex.
LockCursorForGood(t) ==
    /\ pc[t] = "lock"
    /\ analysis_mutex = NoThread
    /\ analysis_mutex' = t
    /\ Goto(t, IF jsd_comp_iter = jsd_total_comp THEN "done" ELSE "take")
    /\ UNCHANGED <<cursorVars, jsd_list, localVars, mainVars>>

\* Lock the mutex; return if every comparison has been handed out.
LockCursor(t) ==
    /\ pc[t] = "lock"
    /\ analysis_mutex = NoThread
    /\ IF jsd_comp_iter = jsd_total_comp
       THEN Goto(t, "done") /\ UNCHANGED analysis_mutex
       ELSE Goto(t, "take") /\ analysis_mutex' = t
    /\ UNCHANGED <<cursorVars, jsd_list, localVars, mainVars>>

\* Copy the cursor to the stack of the thread.
TakePair(t) ==
    /\ pc[t] = "take"
    /\ f1' = [f1 EXCEPT ![t] = x]
    /\ f2' = [f2 EXCEPT ![t] = y]
    /\ cur_idx' = [cur_idx EXCEPT ![t] = jsd_comp_iter]
    /\ Goto(t, "advance")
    /\ UNCHANGED <<cursorVars, jsd_list, analysis_mutex, mainVars>>

\* Mutant: y restarts at x itself.
AdvanceCursorShort(t) ==
    /\ pc[t] = "advance"
    /\ jsd_comp_iter' = jsd_comp_iter + 1
    /\ IF NextTable(y) # NULL
       THEN y' = NextTable(y) /\ UNCHANGED x
       ELSE x' = NextTable(x) /\ y' = x'
    /\ analysis_mutex' = NoThread
    /\ Goto(t, "describe")
    /\ UNCHANGED <<jsd_list, localVars, mainVars>>

\* Move y down the repository; at its end, move x and restart y below it.
AdvanceCursor(t) ==
    /\ pc[t] = "advance"
    /\ jsd_comp_iter' = jsd_comp_iter + 1
    /\ IF NextTable(y) # NULL
       THEN y' = NextTable(y) /\ UNCHANGED x
       ELSE x' = NextTable(x) /\ y' = NextTable(x')
    /\ analysis_mutex' = NoThread
    /\ Goto(t, "describe")
    /\ UNCHANGED <<jsd_list, localVars, mainVars>>

DescribeEntry(t) ==
    /\ pc[t] = "describe"
    /\ jsd_list' = [jsd_list EXCEPT ![cur_idx[t]] =
                       [file_1 |-> f1[t],
                        file_2 |-> f2[t],
                        total_words |-> NoWords[f1[t]] + NoWords[f2[t]],
                        jsd |-> @.jsd]]
    /\ Goto(t, "compare")
    /\ UNCHANGED <<cursorVars, analysis_mutex, localVars, mainVars>>

CompareFiles(t) ==
    /\ pc[t] = "compare"
    /\ jsd_list' = [jsd_list EXCEPT ![cur_idx[t]].jsd = <<f1[t], f2[t]>>]
    /\ Goto(t, "lock")
    /\ UNCHANGED <<cursorVars, analysis_mutex, localVars, mainVars>>

ThreadStep(t) ==
    \/ LockCursor(t)
    \/ TakePair(t)
    \/ AdvanceCursor(t)
    \/ DescribeEntry(t)
    \/ CompareFiles(t)

-----------------------------------------------------------------------------
(* main.                                                                   *)

\* Fewer than two tables: nothing to compare.  Otherwise the cursor and the
\* list are set up; malloc refuses a negative length.
PrepareAnalysis ==
    /\ main = "prepare"
    /\ IF size < 2
       THEN main' = "few" /\ UNCHANGED <<x, y, jsd_total_comp, jsd_list>>
       ELSE LET total == TotalComparisons(size) IN
              /\ x' = 1
              /\ y' = 2
              /\ IF total < 0
                 THEN main' = "exited" /\ UNCHANGED <<jsd_total_comp, jsd_list>>
                 ELSE /\ main' = "create"
                      /\ jsd_total_comp' = total
                      /\ jsd_list' = [k \in 0..(total - 1) |-> BlankEntry]
    /\ UNCHANGED <<size, jsd_comp_iter, analysis_mutex, pc, localVars, output>>

Created == {t \in AnalysisThreads : pc[t] # "unborn"}

\* No more threads than comparisons.
CreateAnalysisThread ==
    /\ main = "create"
    /\ Cardinality(Created) < jsd_total_comp
    /\ \E t \in AnalysisThreads \ Created : Goto(t, "lock")
    /\ UNCHANGED <<cursorVars, jsd_list, analysis_mutex, localVars, mainVars>>

AllCreated ==
    /\ main = "create"
    /\ Created = AnalysisThreads \/ Cardinality(Created) = jsd_total_comp
    /\ main' = "join"
    /\ UNCHANGED <<cursorVars, jsd_list, analysis_mutex, pc, localVars, size,
                   jsd_total_comp, output>>

\* Mutant: the loop of joins leaves out one thread.
JoinAllButOne ==
    /\ main = "join"
    /\ \E t \in Created : \A u \in Created \ {t} : pc[u] = "done"
    /\ main' = "print"
    /\ UNCHANGED <<cursorVars, jsd_list, analysis_mutex, pc, localVars, size,
                   jsd_total_comp, output>>

JoinAnalysisThreads ==
    /\ main = "join"
    /\ \A t \in Created : pc[t] = "done"
    /\ main' = "print"
    /\ UNCHANGED <<cursorVars, jsd_list, analysis_mutex, pc, localVars, size,
                   jsd_total_comp, output>>

\* jsd_comparator: the pair with more words goes first, ties go anywhere.
Ordered(lines) ==
    \A j, k \in DOMAIN lines : j < k => lines[j].total_words >= lines[k].total_words

\* What qsort may do: every entry has a place.
Orders == {place \in [Indices -> Indices] : \A k \in Indices : \E j \in Indices : place[j] = k}

SortAndPrint ==
    /\ main = "print"
    /\ \E place \in Orders :
         /\ output' = [k \in Indices |-> jsd_list[place[k]]]
         /\ Ordered(output')
    /\ main' = "printed"
    /\ UNCHANGED <<cursorVars, jsd_list, analysis_mutex, pc, localVars, size,
                   jsd_total_comp>>

ExitProcess ==
    /\ SystemFaults
    /\ main' = "exited"
    /\ UNCHANGED <<cursorVars, jsd_list, analysis_mutex, pc, localVars, size,
                   jsd_total_comp, output>>

MainStep ==
    \/ PrepareAnalysis
    \/ CreateAnalysisThread
    \/ AllCreated
    \/ JoinAnalysisThreads
    \/ SortAndPrint

-----------------------------------------------------------------------------
Init ==
    /\ size \in Sizes
    /\ x = NULL
    /\ y = NULL
    /\ jsd_comp_iter = 0
    /\ jsd_total_comp = 0
    /\ jsd_list = [k \in {} |-> BlankEntry]
    /\ analysis_mutex = NoThread
    /\ pc = [t \in AnalysisThreads |-> "unborn"]
    /\ f1 = [t \in AnalysisThreads |-> NULL]
    /\ f2 = [t \in AnalysisThreads |-> NULL]
    /\ cur_idx = [t \in AnalysisThreads |-> 0]
    /\ main = "prepare"
    /\ output = [k \in {} |-> BlankEntry]

Over == main \in {"printed", "few", "exited"}

Stop == Over /\ UNCHANGED vars

Progress == ~Over /\ ((\E t \in AnalysisThreads : ThreadStep(t)) \/ MainStep)

Next ==
    \/ Progress
    \/ ~Over /\ ExitProcess
    \/ Stop

Spec == Init /\ [][Next]_vars

\* Some thread that can run runs; no fault has to happen.
FairSpec == Spec /\ WF_vars(Progress)

-----------------------------------------------------------------------------
(* Properties.                                                             *)

Tables == 1..size
TableOrNull == 0..size
Entry == [file_1 : TableOrNull, file_2 : TableOrNull, total_words : Nat,
          jsd : TableOrNull \X TableOrNull]

\* Every variable holds a value of its C type; the threads never get past the
\* number of comparisons and every index taken is one of the list.
TypeOK ==
    /\ size \in Sizes
    /\ x \in TableOrNull
    /\ y \in TableOrNull
    /\ jsd_total_comp \in Nat
    /\ jsd_comp_iter \in 0..jsd_total_comp
    /\ jsd_list \in [Indices -> Entry]
    /\ analysis_mutex \in AnalysisThreads \cup {NoThread}
    /\ pc \in [AnalysisThreads -> AnalysisLabels]
    /\ f1 \in [AnalysisThreads -> TableOrNull]
    /\ f2 \in [AnalysisThreads -> TableOrNull]
    /\ cur_idx \in [AnalysisThreads -> Nat]
    /\ \A t \in AnalysisThreads : Busy(t) => cur_idx[t] \in Indices
    /\ main \in MainLabels

\* While a comparison is left the cursor stands on the pair whose turn it is
\* when the pairs are taken row by row, so neither pointer that a thread is
\* about to follow is NULL and no pair is passed over or taken again.
CursorOnPair ==
    main # "prepare" /\ jsd_comp_iter < jsd_total_comp =>
        /\ 1 <= x /\ x < y /\ y <= size
        /\ 2 * jsd_comp_iter = (x - 1) * (2 * size - x) + 2 * (y - x - 1)

\* The entry a thread writes outside the mutex is its own: no other thread has
\* its index, and nothing has been written to it by a thread that is finished.
EntriesOwned ==
    \A t \in AnalysisThreads : Busy(t) =>
        /\ \A u \in AnalysisThreads \ {t} : Busy(u) => cur_idx[u] # cur_idx[t]
        /\ jsd_list[cur_idx[t]].jsd = BlankEntry.jsd

\* What is printed has one line for every pair of files collected and no
\* other, each with the two files its divergence was computed from.
ReportComplete ==
    main = "printed" =>
        /\ {output[k].jsd : k \in DOMAIN output}
               = {p \in Tables \X Tables : p[1] < p[2]}
        /\ \A j, k \in DOMAIN output : output[j].jsd = output[k].jsd => j = k
        /\ \A k \in DOMAIN output : output[k].jsd = <<output[k].file_1, output[k].file_2>>

\* The phase ends: every thread runs out of pairs and main gets past its joins.
AnalysisEnds == <>(main \in {"printed", "few", "exited"})
=============================================================================
