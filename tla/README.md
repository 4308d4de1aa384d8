# A verification project for `compare`

`compare` (the repository root, called `src/` below) is a plagiarism checker in
C. It walks the directories and files given on the command line with a pool of
threads, builds a table of word frequencies for every file, and prints the
Jensen-Shannon divergence of every pair of files. The modules here model its
threads, its data structures and its `main`, TLC checks them on small instances,
and TLAPS proves their safety properties for any command line, any file tree, any
number of threads and any number of files.

## 1. Inventory

### Components

| Component | Source | State | Operations |
|---|---|---|---|
| Collection phase | `collection_threads.c`, `compare.c:246-360`, `directoryFunction_r` in `helperR.c` | `directory_queue`, `file_queue`, `wf_stack`, `dir_term_mutex`, `file_term_mutex`, `cond_dir`, `cond_file`, `no_waiting_dirs`, `dir_threads_terminate`, and in every thread `is_err`, the node removed and the lists not yet queued | test a queue, wait, terminate, remove, read a directory, queue names, broadcast; open, tokenize, close, push; create, join, check |
| Synchronized queue | `sync_queue.c` | `entries`, `front`, `rear`, `lock`, the nodes | `sync_q_create`, `_empty`, `_add`, `_remove`, `_destroy` |
| Repository of word tables | `wf_repo.c` | `size`, `table`, `lock` | `wf_repo_push`, `_clear`, `_destroy` (`_pop` and `_empty` are never called) |
| Word table | `wf_table.c` | `data`, `list`, `no_words`, `no_entries`, `no_rows` | insert, rehash, lexical list, frequencies, destroy |
| Tokenizer, string buffer | `tokenize.c`, `stringbuf.c` | `word_state`, the 50-byte block, `used`, `length` | append, take a word in lower case |
| Analysis phase | `analysis_threads.c`, `compare.c:407-449`, the list functions of `jsd.c` | `x`, `y`, `jsd_comp_iter`, `jsd_total_comp`, `jsd_list`, `analysis_mutex` | take a pair, write an entry, join, sort, print |
| Divergence | `jsd_comp` in `jsd.c` | two indices, two sums | merge of two sorted lists |
| Options and arguments | `compare.c:52-244` | `dN`, `fN`, `aN`, `suffix`, `err_flag`, the two queues | `getDigits`, `initializeOptions`, sorting `argv` into the queues |
| Path helpers | `helperR.c:119-311` | a string under construction | `endsWithSuffix`, `generateFilePath`, `strbuf` |
| Debug printing, Python scripts | `debugger.c`, `python_helper/` | none | output and comparison by hand |

### How they interact

`main` sorts its arguments into the two queues, starts the directory and file
threads and joins them all. A directory thread removes a directory, reads it,
queues its subdirectories and broadcasts `cond_dir`, queues its files and
broadcasts `cond_file`. A file thread removes a file, fills a word table that no
other thread sees and pushes it to the repository. A thread whose queue is empty
sleeps. The last directory thread to find nothing sets `dir_threads_terminate`
and wakes everybody. After the joins `main` checks that the queues are empty,
destroys them, and starts the analysis threads, which share one cursor over the
pairs of tables and write their results, outside the mutex, into an array that
`main` sorts and prints after the joins.

### What is hard

* Names are queued under the lock of the *queue*, the sleepers wait under
  `dir_term_mutex` or `file_term_mutex`: whether a wake-up can be lost depends on
  the broadcast taking the second mutex although it changes nothing under it.
* `no_waiting_dirs` still counts a thread that has been woken, until that thread
  gets the mutex back. Termination is concluded from this count.
* The queue is emptied between the test and the removal; a file disappears
  between its examination and its opening.
* `pthread_cond_wait` may return without a broadcast.
* Failures travel as a local flag, through `pthread_join`, to the exit code.
* The cursor of the analysis is three variables, at the end of a row one of the
  pointers becomes NULL, and the number of pairs is a product of two `int`s.

PROJECT.json lists every hazard with its line and the properties that cover it.

### What makes each component correct

* Collection: when `main` gets past the joins every directory that could be
  reached was read once and every wanted file digested once, or a failure was
  noted; no thread returns early, sleeps for ever or finds its queue gone.
* Queue: every call takes effect at one moment, on a first-in first-out queue;
  the node removed belongs to the thread that removed it.
* Analysis: every pair once, no shared entry, no NULL pointer, and the report
  printed when all entries are there.
* Repository: a table that no thread owns is in the list once, stays there until it
  is popped, and is freed once.
* Word table: a bag of words, through any rehash, with all its memory returned.
* Tokenizer: the words of the whole file, wherever its blocks end, and no access
  outside of the buffer.
* Divergence: one term for each word of a file, over the mean of the files that
  have it.
* Paths: the directory, a slash and the name, and no access outside of the block.
* Whole program: the exit code is a success only with a complete report (as long as
  the number of pairs fits in an `int`, section 5) and a failure only for a reason;
  what fails does not keep the rest from being compared and freed.

## 2. The modules

| Module | What it is |
|---|---|
| `FileSystem` | the file tree one run looks at: kinds of paths, hidden names, suffix, which paths may fail to open; defines the files a run has to digest |
| `Traversal` | abstract specification of the collection phase: two sets of work to do and one of work done |
| `Collection`, `CollectionRefinement` | the collection phase with its threads, mutexes, conditions and counter, and the mapping under which it implements `Traversal` |
| `AtomicQueue`, `SyncQueue`, `SyncQueueRefinement` | a queue with atomic calls, the linked list with its lock and its memory, and the mapping between them |
| `AtomicStack`, `WfRepo` | a stack with atomic calls, and the repository that implements it |
| `WordBag`, `WfTable`, `WfTableRefinement` | a bag of words, the hash table of one file, and the mapping |
| `Memory` | a block of the heap, for the two string buffers |
| `StringBuf`, `Tokenizer`, `TokenizerReference` | the buffer of a word, the reading of a file in blocks, and what the words of a text are |
| `PathText`, `PathBuffer`, `FilePath` | a text, the string buffer of `helperR.c` that implements it, and how the path of an entry is made and tested |
| `Jsd` | the merge of two lexical lists, with the definition of the divergence it has to meet |
| `IntArithmetic` | the `int` product that counts the comparisons, with its wrap |
| `PairWork`, `Analysis`, `AnalysisRefinement` | every pair compared once and then a report; the analysis threads; the mapping |
| `Compare` | the whole program around its two phases |
| `CollectionProofs`, `AnalysisProofs`, `SyncQueueProofs`, `WfRepoProofs`, `WfTableProofs`, `TokenizerProofs`, `PathProofs`, `CompareProofs` | the theorems of section 4 |
| `MCCollection`, `MCSyncQueue`, `MCWfRepo`, `MCWfTable`, `MCTokenizer`, `MCFilePath`, `MCJsd`, `MCAnalysis`, `MCCompare` | the instances TLC checks |

How they fit together: `Collection` takes the calls of the queues and of the
repository as atomic, which `SyncQueue` and `WfRepo` justify, and a file's table
as the file, which `Tokenizer` and `WfTable` justify. `Analysis` takes the
divergence of two tables as the pair, which `Jsd` refines. `Compare` takes the two
phases at the grain of `Traversal` and `PairWork`, which `Collection` and
`Analysis` implement: `Analysis` only if the number of pairs fits in an `int`, so
`Compare` counts the printed lines with the same wrapping product.

Definitions whose comment begins with "Mutant" are not part of a specification:
they are plausible bugs of the definition after them, and each is one that the
property PROJECT.json pairs it with does notice.

### Collection

A step is the code between two points where threads can affect each other. The
bodies of `sync_q_*` and `wf_repo_push` run under a lock of their own and are
atomic. A critical section of `dir_term_mutex` or `file_term_mutex` is one step
if nothing in it touches data that a thread outside can touch (the flag and the
broadcast; the open; the close). The section that tests the queue is not: names
arrive while it runs, so the test, the counting and the wait are steps of their
own, with the mutex held.

| `pc[t]` of a directory thread | line | action |
|---|---|---|
| `test` | 26-34 | `TestDirQueue`: lock, test |
| `idle` | 35-40, 83 | `CountAsWaiting`: count, then terminate or sleep |
| `term`, `broadcast` | 44-76 | `SetTerminate`, `ReleaseDirThreads` |
| `asleep`, `awake` | 83-100 | `WakeDirThread`: after a broadcast or `SpuriousWakeup` |
| `retest` | 34, 102 | `RetestDirQueue` |
| `remove`, `scan` | 108-132 | `RemoveDir`, `ScanDir` |
| `add_dirs` | 145-173 | `AddDir` for each name, `NotifyDirThreads` |
| `add_files` | 176-202 | `AddFile` for each name, `NotifyFileThreads` |

| `pc[t]` of a file thread | line | action |
|---|---|---|
| `test`, `retest` | 238-247 | `TestFileQueue`, `RetestFileQueue` |
| `idle` | 251-267 | `SleepOrReturn` |
| `awake` | 267-287 | `WakeFileThread` |
| `remove`, `open`, `close`, `push` | 295-355 | `RemoveFile`, `OpenFile`, `CloseFile`, `PushTable` |

`ExitProcess` is any of the calls to `exit`: whichever thread runs may end the
process. `directoryFunction_r` is one step, because no other thread sees its
lists; any set of entries that can fail may fail, and then the call fails.

A directory named twice on the command line is two trees of paths, because the
program never compares paths. The trees have no cycles: a symbolic link to a
parent makes the program walk an endless tree until the kernel refuses the path,
which is not modelled.

### SyncQueue and WfRepo

`name` and `next` are the memory of the nodes, `allocated` says which blocks are
live. A step is one access to the list. `malloc` may fail at any time and fails
when every block is in use; `Return` frees the node that was removed, so its
memory is used again with the old pointer in it. A file thread that cannot open
its file never frees the node (`collection_threads.c:316-320`), so `Return` may
leave it allocated. `Destroy` happens when no caller is inside a call and the queue is
empty: `sync_q_destroy` itself tests nothing, but `main` calls it when no other thread
runs and only after it has found both queues empty (`compare.c:239` and `355`). `Init` is the state after
`sync_q_create`, whose `malloc` nobody tests; the crash that follows a failure is part
of `Die` in `Compare`.

`WfRepo` has the same grain: the link, the top and the size change in different
steps, all under `lock`. The list runs through the field `next` of the tables. At
first every table is owned by some thread, which may push it; a pop gives a table to
the thread that pops.
`main` is the variable `phase`: `Create`, then the threads, then `StartClear`,
`ClearTable` for each table, `FinishClear` and `Destroy`. `wf_repo_pop` and
`wf_repo_empty` are in the model although nothing calls them. `wf_repo_create`
stores through the pointer that `malloc` returned before anybody tests it
(`compare.c:163` tests it too late), so a failure is a crash.

### WfTable

An item is the number of its allocation; `data` and `new_data` are sequences of
items for each row. `InsertAgain` and `InsertNew` are the two outcomes of
`hash_insert`, which ends in a rehash when there are more than `Y` items per row.
`MoveItem` takes one item from the head of an old row to the head of a new one, as
`hash_rehash` does. `LexicalList` is `qsort` over the items of all chains, `CompFreq` sets
the frequencies, as fractions, and frees the rows; `DestroyItem` and
`DestroyTable` are `hash_destroy`, which has only the list to find the items.
`Fail` is every `malloc` that returns NULL, including the `malloc(0)` of a file
without words, which a C library may answer with NULL. Words are numbers in the
order of `strcmp`; the hash code is a constant function, so collisions are chosen
by the instance and free in the proof.

### StringBuf and Tokenizer

`data`, `used`, `length` are those of `stringbuf.c`, and `data` has one value per
byte: `Junk` for a byte nobody wrote, and an index outside of `0..length-1` for a
byte written outside. `Tokenizer` chooses the content of a file while it reads
it, block by block, each of any size up to `BlockSize`; `AppendChar`, `EndWord`
and `SkipChar` are the branches of the loop for one character, `FinishFile` the
code after it. A thread uses one buffer for all its files, so the model goes on
with the next file in the buffer the last one left. A `read` that fails ends the
loop as the end of the file does (`cut` remembers it).
`TokenizerReference` says what the words of a text are without states or blocks,
as `python_helper` does, by which letter of which word a character becomes. A char with the high bit set is in `Other`: passing a
negative value to `isalpha` is undefined in C, and glibc answers "no letter" in
the locale of a program that never calls `setlocale`.

### PathBuffer and FilePath

`PathBuffer` has all the operations of `strbuf`, each with its own rule for when to
grow; `FilePath` is `generateFilePath`, one call after the other, the copy into a
block of its own, and `endsWithSuffix`. In `MCFilePath` any calls may follow each
other on a buffer too, so `sb_insertk`, `sb_removek` and `sb_resetk`, which have
no callers, are checked as well. The index of `sb_insertk` is an `int` that must not be
negative (-1 is compared as unsigned, and the byte before the block written); there
is no caller that could give such an index, and the model's begin at 0.

### Jsd

`i`, `j` and the two sums are those of `jsd_comp`, whose three loops are the values of
`loop`. A sum is the sequence of its terms, and of a term the word and the set of
files whose frequency enters the mean: the value of a term depends on nothing
else. Rounding and the square root are left out. The specification is `MergeSpec`, and its
theorems are the last section of `AnalysisProofs`, after those of the phase that calls `jsd_comp`.

### Analysis

A table is its place in the repository, 1 for the top. `LockCursor`, `TakePair`
and `AdvanceCursor` are the critical section, `DescribeEntry` and `CompareFiles`
the two writes outside it. The divergence of two tables is the pair itself: two
results are equal exactly when they come from the same files, which is what
`ReportComplete` needs. Products wrap to the range of `int`, whose size is the
constant `IntMax`. A total below zero makes `malloc` in `jsd_create_list` fail
and the process exit. `qsort` is any order that the comparator allows.

### Compare

`main` says where the function `main` is: `start`, `options` (`initializeOptions`,
lines 52-142), `siphon` (the loop over the arguments, 172-244), `collect`,
`analyze`, `clear`, and then an exit code, `refused` (a bad option) or `died` (any
fatal call). An argument is a record of a flag and a value, `path` being the flag
of what is no option; a number goes through `Atoi`, which stops at `LONG_MAX` and
keeps the low bits of an `int`. `CompareTables` notes the files that are compared
(`report`) and for how many of their pairs a line is printed (`lines`): `jsd_total_comp`
many, which is wrapped; `RefuseLength` is the exit when it came out negative, and
`ReportTooFew` the branch for fewer than two tables. The queues and the repository are bags of paths,
because neither phase promises an order and a path given twice is worked on
twice. `LoseWork` is a path that could be opened when its directory was read and
cannot be opened when its turn comes.

## 3. The runs

| Run | Instance | Shows | States |
|---|---|---|---|
| `collection` | 2 directory and 2 file threads; a directory with a file, a subdirectory, a device and a hidden file, the subdirectory with a file with the suffix and one without; one file argument; one directory and one file may fail; any call may end the process; one spurious wake-up | types, the count of waiting threads, termination only when nothing is left, no lost wake-up, no early return of a file thread, the dead branch of `main`, each wanted file once, nothing queued after termination, and the implementation of `Traversal` | 335,000 |
| `ends` | 3 directory threads and a file thread on a chain of directories, no system faults | the inductive invariant of the proofs, and that the phase ends | 64,000 |
| `queue` | 3 threads, 3 nodes, 2 names | the list is well formed, a removed node is owned, and the implementation of `AtomicQueue` | 975,000 |
| `repository` | 2 threads with 3 tables to push, pop and push again | between calls every table is in the list once or owned by one thread, all that nobody owns are freed at the end, and the implementation of `AtomicStack` | 56,000 |
| `table` | files of up to 5 words out of 4 whose codes collide, over two rehashes | each item linked once, all memory returned, and the implementation of `WordBag` | 5,100 |
| `tokenizer` | two files of up to 5 characters in blocks of up to 3, a buffer of 2 bytes | the words inserted are those of the text read, at every character, and the buffer is never left | 249,000 |
| `file_path` | directories, names and suffixes of up to 4 characters on a buffer of 2 bytes, and any calls on such a buffer that keep the text to 5 characters | the path is the three parts joined, the block is never left, the suffix decides, and the implementation of `PathText` | 17,000 |
| `jsd` | all pairs of sets of up to 4 words | the result of the merge | 1,500 |
| `analysis` | 3 threads on 0 to 4 tables, any call may fail | types, the cursor, the entries, the report, the implementation of `PairWork`, and that the phase ends | 42,000 |
| `compare` | all command lines of up to 3 arguments, over a directory, its two subdirectories (one that can fail, with a file that can fail), a file, a device, a missing path and every option; an `int` of 5 bits, a number that wraps to 0 (32) and one beyond `LONG_MAX` (70) | success means a complete report, the rest is compared and freed whatever fails, failure has a reason, the last option wins, and every run ends | 194,000 |
| `analysis_wraps` | one thread on 5 tables with a 4-bit `int` | a violation: section 5 | 28 |
| `read_error` | one file of the instance of `tokenizer` | a violation: section 5 | 258 |

Bounds. Two directory threads are the least with a last one and another one; the
third, in `ends`, makes two threads wait while one works. Two file threads are
the least that compete for a file. Two levels of directories are enough for a
name to be queued while others sleep, after all of them slept before, and while
one is waking up. `MaxSpurious` bounds wake-ups without a broadcast: one puts a
thread in the state a broadcast puts it in, at a time of the scheduler's choice.
Three nodes let a queue have a first, a middle and a last node and be empty after
it was full; three tables do the same for the repository. The codes 4, 2, 6, 1 with
one row at first leave two words in one row over both rehashes and part others.
Five characters hold two words with a space and a dropped character, cut by a
block anywhere, and a word that makes the buffer grow twice; the second file
meets what the first one left. Two path bytes are outgrown by the directory, by
the slash or by the name, as the instance chooses, and a text of five characters lets `sb_insertk` grow
in its three ways: by the shift, by doubling and to the index. Four words give every way in
which two lists can interleave and end. Four tables have rows of different
lengths, and a row whose end is the end of the work. Three arguments are an
option before, between or after two paths, or two options that contradict each
other; three that name directories make enough pairs for the 5-bit product to wrap below 0
and beyond. The proofs remove the bounds where section 4 has a theorem.

Deadlock is checked in every run: when a system is over it stutters in an action
of its own (`Stop`, `Over`, `Returned`), so a state without a step is a real one.

Fairness. `FairSpec` of `Collection` is `Spec` with weak fairness of the whole
next-state relation: as long as some thread can run, some thread runs. That is
what any scheduler does. Nothing is assumed of *which* thread, of the order in
which a mutex is granted, or of who is woken first; the phases end because every
step makes progress (`MaxSpurious` is needed here: without it a thread could wake
and sleep for ever). `ends` has no system faults, since a process that has ended
has trivially ended. `FairSpec` of `Analysis` and of `Compare` is weak fairness of
the steps of the program without its failures (`Progress`, `MainStep`): a call may
fail at any time and need not, so that the end does not rest on a failure.

## 4. The proofs

| Module | Theorem | States |
|---|---|---|
| `CollectionProofs` | `TypesKept` | `Spec => []TypeOK` |
| | `TypeCorrect` | `Spec => [](TypeOK /\ WaitingIsCounted)` |
| | `CollectionCorrect` | `Spec => []CollectionInv` |
| | `TerminationSound` | `Spec => []TerminateOnlyWhenDrained` |
| | `WakeupsKept` | `Spec => []NoLostWakeup` |
| | `FileThreadsStay` | `Spec => []FileThreadsStayForWork` |
| | `MainFindsNothingLeft` | `Spec => []QueuesDrained` |
| | `TerminationFinal` | `Spec => NothingQueuedAfterTermination` |
| | `WorkAccountedFor` | `Spec => []RefinementInv` |
| | `WantedFilesCollected` | `Spec => []CollectsWantedFiles` |
| | `CollectionImplementsTraversal` | `Spec => ImplementsTraversal` |
| `SyncQueueProofs` | `QueueCorrect` | `Spec => []QueueInv` |
| | `QueueTypes` | `Spec => []TypeOK` |
| | `QueueWellFormed` | `Spec => []ListWellFormed` |
| | `QueueNodesOwned` | `Spec => []RemovedNodesOwned` |
| | `QueueImplementsAtomicQueue` | `Spec => ImplementsAtomicQueue` |
| `WfRepoProofs` | `RepoCorrect` | `Spec => []RepoInv` |
| | `NoTableLost` | `Spec => []TablesAccounted`: on the list, owned or freed |
| | `RepoImplementsAtomicStack` | `Spec => ImplementsAtomicStack` |
| `AnalysisProofs` | `TypeCorrect` | `Spec => []TypeOK` |
| | `AnalysisInvariant` | `Spec => []AnalysisInv` |
| | `CursorCorrect` | `Spec => []CursorOnPair` |
| | `EntriesNeverShared` | `Spec => []EntriesOwned` |
| | `PairsCounted` | `jsd_total_comp` is the number of pairs if the product fits |
| | `PairsLost` | with 32 bits, 65537 files make 32768 comparisons |
| | `ReportCorrect` | `Spec => []ReportComplete` if the product fits |
| | `AnalysisImplementsPairWork` | `Spec => ImplementsPairWork` if the product fits |
| | `MergeInvariant` (of `Jsd`) | `MergeSpec => []MergeInv` |
| | `MergeCorrect` (of `Jsd`) | `MergeSpec => []MergeMeetsDefinition` |
| `WfTableProofs` | `TableCorrect` | `Spec => [](TypeOK /\ LinkedOnce)` |
| | `TableTypes` | `Spec => []TypeOK` |
| | `MemoryCorrect` | `Spec => []MemoryAccounted` |
| | `TableReturned` | `Spec => []MemoryReturned` |
| | `TableImplementsWordBag` | `Spec => ImplementsWordBag` |
| `TokenizerProofs` | `BufferSafe` | `BufferSpec => []BufferTerminated` |
| | `KeepsToBuffer` | every step of `Tokenizer` is a call of the buffer or leaves it alone |
| | `TokenizerSafe` | `Spec => []BufferTerminated` |
| | `TokenizerCorrect` | `Spec => []TokenizerInv` |
| | `WordsKept` | `Spec => []WordsSoFar` |
| | `WordsComplete` | `Spec => []AllWordsInserted` |
| `PathProofs` | `CallsStayInBlock` | `BufferSpec => []BufferTerminated` |
| | `BufferImplementsText` | `BufferSpec => ImplementsText` |
| | `PathBufferSafe` | `Spec => []BufferTerminated` |
| | `PathCorrect` | `Spec => []PathJoined` |
| | `PathImplementsText` | `Spec => ImplementsText` |
| | `SuffixCorrect` | `Spec => []SuffixDecides` |
| `CompareProofs` | `CompareInvariant` | `Spec => []CompareInv` |
| | `SuccessIsComplete` | `Spec => []SuccessMeansComplete`, which promises a line for every pair if the product fits |
| | `RestIsReported` | `Spec => []RestIsCompared`, with the same condition |
| | `FailureIsReasoned` | `Spec => []FailureHasReason` |
| | `OptionsWin` | `Spec => []LastOptionWins` |

They hold for every finite forest of files, every number of threads at least
one (`getDigits` refuses 0), every number of tables and every width of `int`,
every set of words with any hash codes, every alphabet and block size, every
number of callers, names, nodes and tables: the named assumptions of the modules,
which TLC evaluates in the runs. One of them is about the model only: no name is
`"not yet"`, which stands for the result of a call that is still under way. The
theorems `ReportCorrect` and `AnalysisImplementsPairWork` assume more, `PairsFit`, that the product at
`compare.c:411` does not wrap, without which the report is not complete (section 5).
Those of `CompareProofs` hold with and without the wrap; the two about the report
promise all lines only where the product fits.

TLC checked each inductive invariant on the instance of its component before it
was proved. Where a proof needs induction over numbers, for instance that two lists
linked from one front agree at every place, it takes the least place where they do not
(the least element of `WellFoundedInduction`) and steps back from it.

*Termination of the collection.* `TerminateOnlyWhenDrained` is not inductive: a
step of the last thread sets the flag, and that nothing is left then depends on
what the count means, who holds which mutex, and when a thread may hold names.
`CollectionInv` adds these. `MutexInv` says that whoever holds a mutex is inside
its section. `WaitingIsCounted` says that the counter equals the number of
threads that sleep, wake up or leave, which is why a woken thread may be on the
count: it has no work. `PendingInv` says that only a thread between the reading
of a directory and its second broadcast holds names. When the count reaches the
number of threads every directory thread is in the waiting set, so none holds a
name or a directory (`LastThreadDrained`). The queue is empty too: the last
thread saw it empty, and a name that came since would be owed a broadcast by a
thread that is not waiting, which is `NoLostWakeup`. `NoLostWakeup` is what the
detour over the second mutex is for: a thread cannot go to sleep between the
queueing of a name and its broadcast without that broadcast being still to come.

*What the collection collects.* The mapping to `Traversal` puts a path into the
work to do when it is in a queue or in the hands of a thread, whatever the thread
is doing with it. `RefinementInv` adds to `CollectionInv` that no path is in two of these
places or done twice (`WorkApart`), and that some set of directories has been
read such that all that is in work or done comes from it or from the arguments,
and, unless a call failed, the other way round (`EveryPathPlaced`). When the queues
are drained and nobody holds anything, that set is closed under the subdirectories
it names, hence is `ReachableDirs`, the least such set, and what is done is what
was wanted. Whether a call failed is in the flag of a thread or in that of `main`
(`JoinedErrorsKnown`), so the last line needs no history.

*The queue.* `ListWellFormed` speaks of the states without a section under way.
`QueueInv` says of every state that some sequence of different live nodes begins
at `front`, follows `next` and ends in NULL; that the count is its length, one more
between the removal and the count of `sync_q_remove`, one less between the link and the
count of `sync_q_add`; and that the nodes in the hands of threads are live, apart from it and
from each other (`HeldInv`). The last is what the reuse of memory endangers: a
node that is freed leaves no pointer to it in the list, and between the removal
of the only node and the next line `rear` is not looked at. The sequence is unique, so the
mapping to `AtomicQueue` may speak of the names along it, and a call takes effect
when it changes the count.

*The repository.* `RepoInv` has such a sequence too, that of the tables that
`size` counts. The field `table` is its first, but for a push that has set the
top and not counted it and a pop that has moved it on. A table that a thread owns is not in it, so a
push cannot link a table twice, and while `main` clears, what is freed is what
`ptr` has passed. `AllKept` adds the other half, without which a clear that skips a
table would pass: every table is in the sequence, freed, or owned by a thread. At the end the
sequence is empty, so all that is not owned was freed.

*The cursor of the analysis.* `CursorOnPair` gives the position of the pair
(x, y) when pairs are counted row by row, doubled to avoid the division:
`2 * jsd_comp_iter = (x - 1) * (2 * size - x) + 2 * (y - x - 1)`. At the end of a
row a polynomial identity gives the next position (`NextRow`), and since
`2 * jsd_total_comp` never exceeds `size * (size - 1)`, wrapped or not
(`TotalBelow`), a row is left while a comparison is left. Hence no thread follows
a NULL pointer. `EntriesOwned` follows from indices being handed out once:
a thread between `TakePair` and `CompareFiles` has an index below the cursor's,
and what is not handed out is blank.

*The report.* The position above is a number of the pair: no two pairs have one
number (`PairOfNumber`), and every pair of files has one below the total when the
total is the number of pairs. The invariant adds that the entry at an index is
blank, or has the pair with that number and, when it is complete, that pair's divergence
(`RightResults`), that an index handed out is in its entry or in the hands of a
thread (`NoneForgotten`), and that `main` reads when no thread is left
(`ThreadsJoined`). So the entries are a bijection with the pairs when they are
sorted, and the sort keeps them. For `PairWork`, `CompareFiles` is the step that
does a pair; that the pair was not done before is `PairOfNumber` again.

*The merge.* `MergeInv` is inductive. Besides the prefixes of the two sums it
needs that each list, so far as it was passed, lies below what is left of the
other one: then a word found smaller than its counterpart is in one file alone.
The order and uniqueness of words in a list come from the constants; `WfTable`
shows that a lexical list has them.

*The word table.* `LinkedOnce` is inductive. Its parts are that an item sits in the
row of its word for the size of its array (`AtHome`), that each item is in
exactly one of the old and the new array (`Split`), and that words are not
repeated, which holds because `hash_insert` looks in the one chain where the word
would be. Hence the places of the rows and the items are in bijection
(`CellsAreItems`), so whatever order `qsort` gives the places, the list has each
item once; `MemoryAccounted` says so and that what is live is the rest of that list
from `freed` on, which is why the destruction needs no rows. For `WordBag` the
same two facts say that every item is found and that the only item of a word has
its count (`CountsRight`), so an insertion changes one count and a rehash none.

*The buffers.* `BufferTerminated` is inductive for any sequence of calls
(`BufferSafe`), and `Tokenizer` touches the buffer only by calls
(`KeepsToBuffer`), so it holds there without another induction over the program.
For `strbuf` each call turns a buffer that holds a string into one that holds the
string it promises (`AppendHolds`, `ConcatHolds`, `InsertWithinHolds` and the others), whichever way it grew; so it
implements `PathText` for any sequence of calls, and `generateFilePath` is one of
them. For `FilePath` the invariant also says what the text is at each `pc`, which gives
`PathCorrect`. `SuffixCompared` shows that comparing from the end finds the suffixes and
nothing else.

*The words of a file.* A word is not defined by a recursion over the text but by
which letter of which word each character is. A word begins at a character that is
kept and has a space between it and every one kept before; the number of a
character's word is the number of beginnings up to it, its place the number of letters of that word up to
it. `TokenizerInv` says that the words inserted, and with them the buffer if a
word is open, are the words of the text passed so far, and that the buffer has the
letters of the open word alone, while the scan goes on inside a block and from one block to the next. A character adds at most one letter to one word
(`NewLetter`, `OtherLetters`), so what was inserted stays right; the end of the
file closes the open word and leaves the buffer empty for the next file.

*The whole program.* `SuccessMeansComplete` compares the report, which is the
repository at the end, with `Wanted`, which is what the arguments and the tree say. Neither
the queues nor the repository are determined on the way, so the invariant counts
instead (`ReasonsAccounted`). A *reason* to examine a file is an argument that names the file, or
names a directory above it when the file has the suffix. For every file it compares the reasons that the loop over `argv` has
come to with the copies of the file in the repository and the file queue, and of directories above
it in the directory queue: the copies are never more than the reasons, and while no
error is remembered they are as many. A step that reads a directory takes one such copy away and gives just one back:
what is below a directory is below one of its entries (`BelowDirectory`), and below no two (`OneEntryAbove`);
if that entry is a directory it is queued, if not it is the file itself
(`NextAbove`). When the queues are empty only copies in the repository are left,
so the repository is `Wanted` (`AllDigested`).

After an error the repository may lack something, and `RestIsCompared` says what it may
not lack: a reason is *sure* if no path that can fail lies between its argument and
the file. The invariant also counts these: they are never more than the copies that lie on such a way
(`SurelyLeading`). A directory that is read hands a sure copy down whatever entries
fail, because the next path on the way is not among them. How many
lines are printed is the wrapped product in both properties; it is the number of pairs
when it fits (`PairsCounted`), and of more than that nothing is promised.

An error is remembered
only for something that an argument names or has below it (`ErrorsBlamed`), since
whatever is queued is (`QueuesNamed`), and a path that does not exist cannot be passed
without one (`PathsFound`). `OptionsKept` says of each option that its value is that of the
last argument with its flag among those read so far, which is
`LastOptionWins` when all are read. The exit `EXIT_FAILURE` from the test at
`compare.c:239` needs `ReasonsAccounted` too: no error and nothing queued means that nothing was wanted.

The trees of the arguments are any that satisfy `TreeAssumption`: no path is an entry of two
directories, and no directory is at or below one of its entries. It is about the
texts of paths: an entry's is its directory's, a slash and a name without a slash
(`PathCorrect`), so it determines its directory and is longer. "Below" is
the least set that contains the entries of its directories, and the number of copies in a
bag a cardinality (`Copies`), because least sets and cardinalities can be reasoned about without a
recursion over the tree or the bag.

Only model-checked: `AnalysisEnds`, `PhaseEnds`, `CompareEnds` and the absence of
deadlock, because liveness under fairness, and ENABLED, are outside of what the
prover does. That `Compare` may take the two phases at the grain of `Traversal`
and `PairWork` is proved (`CollectionImplementsTraversal`,
`AnalysisImplementsPairWork`); that a bag of work lists is the work list of the
trees of all arguments together is how `Compare` was written, and not proved.

## 5. What was found

* `analysis_wraps`: `jsd_total_comp = wf_stack->size * (wf_stack->size - 1) / 2`
  (`src/compare.c:411`) is an `int` product. For 46342 to 65536 files it is
  negative, the length of the list is refused by `malloc`, and the process exits
  with a message about memory. From 65537 files it can be positive again and too
  small: 65536 for 65537 files, hence 32768 comparisons of 2147516416
  (`PairsLost`), and the exit code is success. `SuccessMeansComplete` of `Compare`
  therefore promises a line for every pair only where the product fits. `src/README.md:11` promises "any
  pair of files".
* `read_error`: the loop of `tokenize` (`src/tokenize.c:53`) ends when `read`
  returns -1 as when it returns 0. The file is then compared by the words before
  the error, and the exit code is success. `src/README.md:97` has the repository
  contain the files "with their appropriate words/freqs/counts".
* Termination detection, wake-ups, the sharing of the cursor, the rehash, the
  buffers and the merge are correct.

Seen while modelling, and of less weight, so without a run of their own:

* `getDigits` passes digits to `atoi`, which keeps the low 32 bits:
  `-d4294967296` is refused although `compare.c:141` asks for positive integers.
  `Atoi` models it.
* `wf_repo_create` uses the result of `malloc` before anybody tests it, so the
  test at `compare.c:163` comes too late, and `wf_repo.h:18` describes a NULL that is
  never returned.
* `wf_repo_empty` returns 1 for an empty repository, where `wf_repo.h:29` says 0.
  Nobody calls it.
* `src/README.md:93` asks for more than two files, the code for two.
* `pthread_join(..., (void **)&retval)` at `compare.c:333` stores eight bytes into an
  `int`. The effect depends on the layout of the stack; the model takes the value
  that the thread returned.

## 6. What is not modelled, and the plan

Not modelled: floating point (rounding in the sums, the square root); the debug output
of `debugger.c`; the Python scripts; errors of `readdir`; the depth at which the
kernel refuses a path with symbolic links in a circle; the strings of names that
stay allocated when a file or directory cannot be opened; `hash_get`, which has no
caller and changes nothing.

Every invariant and action property that a run checks on the components, and
every implementation of an abstract specification, is a theorem; the two runs of
section 5 are counterexamples. What could still be proved is a mapping of
`Compare` to a composition of `Traversal` and `PairWork`, in place of the words of section 2.
