------------------------------- MODULE Compare -------------------------------
(***************************************************************************)
(* compare as a whole: main reads the options, sorts the arguments into    *)
(* the two queues, lets the collection phase empty them, has the tables    *)
(* compared and returns an exit code.                                      *)
(*                                                                         *)
(* The two phases are taken at the grain of their specifications: the      *)
(* collection phase is the work list of Traversal, which Collection        *)
(* implements with its threads, and the analysis phase is the report of    *)
(* PairWork, which Analysis implements.  Neither promises an order, so the *)
(* queues and the repository are bags.  A path that the program meets      *)
(* twice is in them twice: it never compares paths.  Analysis implements   *)
(* PairWork only if the number of pairs fits in an int; how many pairs are *)
(* printed is therefore counted here as there, with the product wrapped.   *)
(***************************************************************************)
EXTENDS IntArithmetic, FiniteSets, Sequences, Functions, Bags

CONSTANTS
    Dirs, Files, Others,    \* what stat says of a path; of other paths it fails
    Faulty,                 \* the paths of which stat, open or opendir may fail
    Entries,                \* of each directory, those not beginning with a period
    Suffixes,
    EndingIn,               \* the files whose path ends with each suffix
    DefaultSuffix,          \* ".txt"
    CommandLines,           \* the argv that compare is run with, without argv[0]
    NoDigits,               \* the value of "-dx": not all digits
    NoValue,                \* the value of "-d"
    LongMax                 \* LONG_MAX

Paths == Dirs \cup Files \cup Others
NumberFlags == {"-d", "-f", "-a"}
Flags == NumberFlags \cup {"-s", "-", "-?"}

\* A path and those at any level below it: the least set that holds the path
\* and, with a directory, its entries.
Closed(S) == \A d \in S \cap Dirs : Entries[d] \subseteq S
Below == [p \in Paths |-> {q \in Paths : \A S \in SUBSET Paths : p \in S /\ Closed(S) => q \in S}]

ASSUME CompareAssumption ==
    /\ IsFiniteSet(Paths)
    /\ Dirs \cap Files = {} /\ Dirs \cap Others = {} /\ Files \cap Others = {}
    /\ Entries \in [Dirs -> SUBSET Paths]
    /\ EndingIn \in [Suffixes -> SUBSET Files]
    /\ DefaultSuffix \in Suffixes
    /\ LongMax \in Nat /\ IntMax <= LongMax
    /\ NoDigits \notin Nat

ASSUME CommandLineAssumption ==
    \A line \in CommandLines :
        /\ line \in Seq(Range(line))
        /\ \A k \in DOMAIN line :
              /\ line[k].flag \in Flags \cup {"path"}
              /\ line[k].flag = "-s" => line[k].value \in Suffixes
              /\ line[k].flag \in NumberFlags => line[k].value \in Nat \cup {NoDigits, NoValue}

\* The number of tables is an int (wf_repo.h:8) and does not wrap.
ASSUME CountAssumption ==
    \A line \in CommandLines : Len(line) * Cardinality(Files) <= IntMax

\* The path of an entry is that of its directory, a slash and a name without a
\* slash: it has one directory, and it is longer.
ASSUME TreeAssumption ==
    /\ \A d, e \in Dirs : d # e => Entries[d] \cap Entries[e] = {}
    /\ \A d \in Dirs : \A e \in Entries[d] : d \notin Below[e]

VARIABLES
    argv,               \* records of a flag and a value; a path has the flag "path"
    i,
    main,
    threads,            \* dN, fN and aN
    suffix,
    err_flag,
    directory_queue,
    file_queue,
    wf_stack,
    report,             \* the files that were compared with each other
    lines               \* for how many pairs of them a line was printed

args == <<argv, i>>
options == <<threads, suffix>>
work == <<directory_queue, file_queue, wf_stack>>
printed == <<report, lines>>
vars == <<args, main, options, err_flag, work, printed>>

Over == main \in {"EXIT_SUCCESS", "EXIT_FAILURE", "refused", "died"}

-----------------------------------------------------------------------------
(* initializeOptions: argv from left to right.                             *)

\* atoi: strtol stops at LONG_MAX, and the conversion to int keeps the low bits.
UIntRange == 2 * IntMax + 2
Atoi(n) == (IF n > LongMax THEN LongMax ELSE n) % UIntRange

getDigits(value) == IF value = NoDigits THEN 0 ELSE Atoi(value)

Option(flags) == main = "options" /\ i <= Len(argv) /\ argv[i].flag \in flags

Start ==
    /\ main = "start"
    /\ main' = IF argv = <<>> THEN "refused" ELSE "options"
    /\ UNCHANGED <<args, options, err_flag, work, printed>>

\* Mutant: an option that was given before is kept.
ReadNumberOnce ==
    /\ Option(NumberFlags)
    /\ IF argv[i].value = NoValue \/ getDigits(argv[i].value) = 0
       THEN main' = "refused" /\ UNCHANGED <<i, threads>>
       ELSE /\ threads' = [threads EXCEPT ![argv[i].flag] = IF @ = 1 THEN getDigits(argv[i].value) ELSE @]
            /\ i' = i + 1
            /\ UNCHANGED main
    /\ UNCHANGED <<argv, suffix, err_flag, work, printed>>

ReadNumber ==
    /\ Option(NumberFlags)
    /\ IF argv[i].value = NoValue \/ getDigits(argv[i].value) = 0
       THEN main' = "refused" /\ UNCHANGED <<i, threads>>
       ELSE /\ threads' = [threads EXCEPT ![argv[i].flag] = getDigits(argv[i].value)]
            /\ i' = i + 1
            /\ UNCHANGED main
    /\ UNCHANGED <<argv, suffix, err_flag, work, printed>>

ReadSuffix ==
    /\ Option({"-s"})
    /\ suffix' = argv[i].value
    /\ i' = i + 1
    /\ UNCHANGED <<argv, main, threads, err_flag, work, printed>>

\* "-" alone, and a letter that is no option.
RefuseDash ==
    /\ Option({"-"})
    /\ main' = "refused"
    /\ UNCHANGED <<args, options, err_flag, work, printed>>

RefuseOption ==
    /\ Option({"-?"})
    /\ main' = "refused"
    /\ UNCHANGED <<args, options, err_flag, work, printed>>

PassPath ==
    /\ Option({"path"})
    /\ i' = i + 1
    /\ UNCHANGED <<argv, main, options, err_flag, work, printed>>

\* The queues and the repository are created, and argv is read again.
CreateQueues ==
    /\ main = "options"
    /\ i > Len(argv)
    /\ i' = 1
    /\ main' = "siphon"
    /\ UNCHANGED <<argv, options, err_flag, work, printed>>

-----------------------------------------------------------------------------
(* The arguments that are no options.                                      *)

Argument == main = "siphon" /\ i <= Len(argv)

\* Mutant: the loop goes on with the same argument.
PassOptionForGood ==
    /\ Argument
    /\ argv[i].flag # "path"
    /\ UNCHANGED vars

\* Mutant: the test for an option is left out, and stat does not find it.
PassOptionAsPath ==
    /\ Argument
    /\ argv[i].flag # "path"
    /\ err_flag' = TRUE
    /\ i' = i + 1
    /\ UNCHANGED <<argv, main, options, work, printed>>

PassOption ==
    /\ Argument
    /\ argv[i].flag # "path"
    /\ i' = i + 1
    /\ UNCHANGED <<argv, main, options, err_flag, work, printed>>

\* Mutant: the loop ends at the first argument that does not exist.
ReportPathAndStop ==
    /\ Argument
    /\ argv[i].flag = "path" /\ (argv[i].value \notin Paths \/ argv[i].value \in Faulty)
    /\ err_flag' = TRUE
    /\ i' = Len(argv) + 1
    /\ UNCHANGED <<argv, main, options, work, printed>>

\* Mutant: the message is printed and the flag forgotten.
ReportPathOnly ==
    /\ Argument
    /\ argv[i].flag = "path" /\ (argv[i].value \notin Paths \/ argv[i].value \in Faulty)
    /\ i' = i + 1
    /\ UNCHANGED <<argv, main, options, err_flag, work, printed>>

\* stat, open or opendir fails.
ReportPath ==
    /\ Argument
    /\ argv[i].flag = "path" /\ (argv[i].value \notin Paths \/ argv[i].value \in Faulty)
    /\ err_flag' = TRUE
    /\ i' = i + 1
    /\ UNCHANGED <<argv, main, options, work, printed>>

\* What is neither a directory nor a regular file is passed over.
QueuePath ==
    /\ Argument
    /\ argv[i].flag = "path" /\ argv[i].value \in Paths
    /\ directory_queue' = directory_queue (+) SetToBag({argv[i].value} \cap Dirs)
    /\ file_queue' = file_queue (+) SetToBag({argv[i].value} \cap Files)
    /\ i' = i + 1
    /\ UNCHANGED <<argv, main, options, err_flag, wf_stack, printed>>

Idle == directory_queue = EmptyBag /\ file_queue = EmptyBag

StartCollection ==
    /\ main = "siphon"
    /\ i > Len(argv)
    /\ main' = IF Idle THEN "EXIT_FAILURE" ELSE "collect"
    /\ UNCHANGED <<args, options, err_flag, work, printed>>

-----------------------------------------------------------------------------
(* The collection phase: threads["-d"] and threads["-f"] threads.          *)

ReadDirectory ==
    /\ main = "collect"
    /\ \E d \in BagToSet(directory_queue) : \E bad \in SUBSET (Entries[d] \cap Faulty) :
         /\ directory_queue' = (directory_queue (-) SetToBag({d}))
                                  (+) SetToBag((Entries[d] \ bad) \cap Dirs)
         /\ file_queue' = file_queue (+) SetToBag((Entries[d] \ bad) \cap EndingIn[suffix])
         /\ err_flag' = (err_flag \/ bad # {})
    /\ UNCHANGED <<args, main, options, wf_stack, printed>>

DigestFile ==
    /\ main = "collect"
    /\ \E f \in BagToSet(file_queue) :
         /\ file_queue' = file_queue (-) SetToBag({f})
         /\ wf_stack' = wf_stack (+) SetToBag({f})
    /\ UNCHANGED <<args, main, options, err_flag, directory_queue, printed>>

\* It could be opened before and cannot be opened now.
LoseWork ==
    /\ main = "collect"
    /\ \E p \in Faulty :
         /\ p \in BagToSet(directory_queue) \cup BagToSet(file_queue)
         /\ directory_queue' = directory_queue (-) SetToBag({p})
         /\ file_queue' = file_queue (-) SetToBag({p})
    /\ err_flag' = TRUE
    /\ UNCHANGED <<args, main, options, wf_stack, printed>>

\* All threads are joined; the queues and the suffix are freed.
FinishCollection ==
    /\ main = "collect"
    /\ Idle
    /\ main' = "analyze"
    /\ UNCHANGED <<args, options, err_flag, work, printed>>

-----------------------------------------------------------------------------
(* The analysis phase and the end.                                         *)

\* Each copy of an element of a bag, with a number.
Copies(bag) == UNION {{e} \X (1..bag[e]) : e \in BagToSet(bag)}

size == Cardinality(Copies(wf_stack))
jsd_total_comp == TotalComparisons(size)

\* Two tables at least: a line for as many pairs as were counted.
CompareTables ==
    /\ main = "analyze"
    /\ size >= 2 /\ jsd_total_comp >= 0
    /\ threads' = [threads EXCEPT !["-a"] = IF @ > jsd_total_comp THEN jsd_total_comp ELSE @]
    /\ report' = wf_stack
    /\ lines' = jsd_total_comp
    /\ main' = "clear"
    /\ UNCHANGED <<args, suffix, err_flag, work>>

\* The number of pairs has wrapped below 0, and malloc refuses a list of that length.
RefuseLength ==
    /\ main = "analyze"
    /\ size >= 2 /\ jsd_total_comp < 0
    /\ main' = "died"
    /\ UNCHANGED <<args, options, err_flag, work, printed>>

\* "Fewer than 2 files found!" is a failure, but the tables are still freed.
ReportTooFew ==
    /\ main = "analyze"
    /\ size < 2
    /\ err_flag' = TRUE
    /\ main' = "clear"
    /\ UNCHANGED <<args, options, work, printed>>

\* wf_repo_clear and wf_repo_destroy.
ClearRepository ==
    /\ main = "clear"
    /\ wf_stack' = EmptyBag
    /\ main' = IF err_flag THEN "EXIT_FAILURE" ELSE "EXIT_SUCCESS"
    /\ UNCHANGED <<args, options, err_flag, directory_queue, file_queue, printed>>

\* A malloc, close or pthread call fails; the process exits, or crashes when
\* the malloc is one that nobody checks.
Die ==
    /\ ~Over
    /\ main' = "died"
    /\ UNCHANGED <<args, options, err_flag, work, printed>>

Init ==
    /\ argv \in CommandLines
    /\ i = 1
    /\ main = "start"
    /\ threads = [f \in NumberFlags |-> 1]
    /\ suffix = DefaultSuffix
    /\ err_flag = FALSE
    /\ directory_queue = EmptyBag
    /\ file_queue = EmptyBag
    /\ wf_stack = EmptyBag
    /\ report = EmptyBag
    /\ lines = 0

Stop == Over /\ UNCHANGED vars

MainStep ==
    \/ Start \/ ReadNumber \/ ReadSuffix \/ RefuseDash \/ RefuseOption \/ PassPath \/ CreateQueues
    \/ PassOption \/ ReportPath \/ QueuePath \/ StartCollection
    \/ ReadDirectory \/ DigestFile \/ LoseWork \/ FinishCollection
    \/ CompareTables \/ RefuseLength \/ ReportTooFew \/ ClearRepository

Next == MainStep \/ Die \/ Stop

Spec == Init /\ [][Next]_vars

\* The process runs unless it is over, and a call that could fail need not.
FairSpec == Spec /\ WF_vars(MainStep)

-----------------------------------------------------------------------------
(* Properties.                                                             *)

\* The arguments with one of these flags, by their places, and the value that
\* counts: the one given last.
Given(flags) == {k \in DOMAIN argv : argv[k].flag \in flags}
Last(places) == CHOOSE k \in places : \A n \in places : n <= k
LastValue(flag, default) ==
    IF Given({flag}) = {} THEN default ELSE argv[Last(Given({flag}))].value

\* The places of argv on account of which f has to be examined: it is named
\* there, or it has the suffix and a directory above it is named there.
Reasons(f) ==
    {k \in Given({"path"}) :
        \/ argv[k].value = f
        \/ /\ argv[k].value \in Dirs
           /\ f \in Below[argv[k].value] \cap EndingIn[LastValue("-s", DefaultSuffix)]}
Wanted ==
    [f \in {g \in Files : Reasons(g) # {}} |-> Cardinality(Reasons(f))]

\* Whatever fails, f can be reached from p: no path that may fail lies between
\* them.  The reasons that no failure can take away.
CannotFail(p, f) == \A q \in Below[p] \cap Faulty : f \notin Below[q]
SureReasons(f) == {k \in Reasons(f) : CannotFail(argv[k].value, f)}
Sure ==
    [f \in {g \in Files : SureReasons(g) # {}} |-> Cardinality(SureReasons(f))]

\* Every two of n tables have a line, if the number of pairs fits in an int.
EveryPairPrinted(n) == n * (n - 1) <= IntMax => 2 * lines = n * (n - 1)

\* The exit code is a success only if no option was refused, every path named
\* exists, and the files compared are all that were asked for and no other, as
\* often as they were asked for: with the suffix given last, wherever it was
\* given.  Then every two of them have a line, unless there are so many that the
\* number of pairs wraps: the success is then reported all the same (compare.c:411).
SuccessMeansComplete ==
    main = "EXIT_SUCCESS" =>
        /\ Given({"-", "-?"}) = {}
        /\ \A k \in Given({"path"}) : argv[k].value \in Paths
        /\ report = Wanted
        /\ Cardinality(Copies(Wanted)) >= 2
        /\ EveryPairPrinted(Cardinality(Copies(Wanted)))

\* What fails does not keep the rest from being compared, nor from being freed:
\* at a success and at a failure the queues and the repository are empty, and the
\* report has every file that was asked for and that no failure could hide, and
\* none that was not asked for; or it has nothing, and then there were not two.
RestReported ==
    \/ /\ Sure \sqsubseteq report /\ report \sqsubseteq Wanted
       /\ EveryPairPrinted(Cardinality(Copies(report)))
    \/ report = EmptyBag /\ lines = 0 /\ Cardinality(Copies(Sure)) < 2
RestIsCompared ==
    main \in {"EXIT_SUCCESS", "EXIT_FAILURE"} => Idle /\ wf_stack = EmptyBag /\ RestReported

\* The exit code is a failure only for a reason: a path that does not exist, one
\* that can fail, at any level, or fewer than two files to compare.
FailureHasReason ==
    main = "EXIT_FAILURE" =>
        \/ \E k \in Given({"path"}) :
              argv[k].value \notin Paths \/ Below[argv[k].value] \cap Faulty # {}
        \/ Cardinality(Copies(Wanted)) < 2

\* "The last flag overwrites the value" (compare.c:126), also between paths: the
\* number of threads is the one given last, as it was given if it fits in an int,
\* and no phase is run with none that was asked for.  No analysis thread is started
\* beyond the number of pairs counted.
LastOptionWins ==
    main \in {"collect", "clear"} =>
        \A f \in NumberFlags :
            LET asked == getDigits(LastValue(f, 1)) IN
            /\ asked > 0
            /\ LastValue(f, 1) <= IntMax => asked = LastValue(f, 1)
            /\ threads[f] = IF f = "-a" /\ report # EmptyBag /\ asked > jsd_total_comp
                            THEN jsd_total_comp ELSE asked

\* Every run comes to an exit.
CompareEnds == <>Over
=============================================================================
