--------------------------------- MODULE Jsd ---------------------------------
(***************************************************************************)
(* jsd_comp: the merge of the two lexical lists that computes the          *)
(* Jensen-Shannon divergence of two files.  The sums kld_tab1 and kld_tab2 *)
(* are the sequences of their terms: of the term                           *)
(*     freq * log2(freq / mean_freq)                                       *)
(* only the word and the files whose frequencies enter mean_freq are kept. *)
(* A word is its place in the order of strcmp.                             *)
(***************************************************************************)
EXTENDS Naturals, Sequences

CONSTANT Lists      \* the lexical lists that a file can have

\* hash_lexical_list leaves each word of a file once, in the order of strcmp.
Lexical(list) == \A k, l \in DOMAIN list : k < l => list[k] < list[l]

ASSUME ListsAssumption == Lists \subseteq {s \in Seq(Nat) : Lexical(s)}

VARIABLES
    tab1_list,
    tab2_list,
    i,              \* the next word of tab1_list, counted from 1
    j,
    kld_tab1,
    kld_tab2,
    loop            \* which of the three loops is running

mergeVars == <<tab1_list, tab2_list, i, j, kld_tab1, kld_tab2, loop>>
lists == <<tab1_list, tab2_list>>

\* Where the first loop goes on: it stops when either list is used up.
LoopAt(a, b) ==
    IF a <= Len(tab1_list) /\ b <= Len(tab2_list) THEN "both" ELSE "rest1"

Term(word, files) == [word |-> word, mean |-> files]

MergeInit ==
    /\ tab1_list \in Lists
    /\ tab2_list \in Lists
    /\ i = 1
    /\ j = 1
    /\ kld_tab1 = <<>>
    /\ kld_tab2 = <<>>
    /\ loop = LoopAt(1, 1)

\* The same word in both files: each divergence gets its term, over the mean
\* of both frequencies.
MergeEqual ==
    /\ loop = "both"
    /\ tab1_list[i] = tab2_list[j]
    /\ kld_tab1' = Append(kld_tab1, Term(tab1_list[i], {1, 2}))
    /\ kld_tab2' = Append(kld_tab2, Term(tab2_list[j], {1, 2}))
    /\ i' = i + 1
    /\ j' = j + 1
    /\ loop' = LoopAt(i', j')
    /\ UNCHANGED lists

\* Mutant: both lists are advanced when the words differ.
MergeFirstBoth ==
    /\ loop = "both"
    /\ tab1_list[i] < tab2_list[j]
    /\ kld_tab1' = Append(kld_tab1, Term(tab1_list[i], {1}))
    /\ i' = i + 1
    /\ j' = j + 1
    /\ loop' = LoopAt(i', j')
    /\ UNCHANGED <<lists, kld_tab2>>

\* The smaller word is in the first file alone.
MergeFirst ==
    /\ loop = "both"
    /\ tab1_list[i] < tab2_list[j]
    /\ kld_tab1' = Append(kld_tab1, Term(tab1_list[i], {1}))
    /\ i' = i + 1
    /\ loop' = LoopAt(i', j)
    /\ UNCHANGED <<lists, j, kld_tab2>>

MergeSecond ==
    /\ loop = "both"
    /\ tab1_list[i] > tab2_list[j]
    /\ kld_tab2' = Append(kld_tab2, Term(tab2_list[j], {2}))
    /\ j' = j + 1
    /\ loop' = LoopAt(i, j')
    /\ UNCHANGED <<lists, i, kld_tab1>>

\* The second list was used up first: the words left over are alone.
FinishFirst ==
    /\ loop = "rest1"
    /\ IF i <= Len(tab1_list)
       THEN /\ kld_tab1' = Append(kld_tab1, Term(tab1_list[i], {1}))
            /\ i' = i + 1
            /\ UNCHANGED loop
       ELSE loop' = "rest2" /\ UNCHANGED <<i, kld_tab1>>
    /\ UNCHANGED <<lists, j, kld_tab2>>

FinishSecond ==
    /\ loop = "rest2"
    /\ IF j <= Len(tab2_list)
       THEN /\ kld_tab2' = Append(kld_tab2, Term(tab2_list[j], {2}))
            /\ j' = j + 1
            /\ UNCHANGED loop
       ELSE loop' = "done" /\ UNCHANGED <<j, kld_tab2>>
    /\ UNCHANGED <<lists, i, kld_tab1>>

Returned == loop = "done" /\ UNCHANGED mergeVars

MergeNext ==
    \/ MergeEqual
    \/ MergeFirst
    \/ MergeSecond
    \/ FinishFirst
    \/ FinishSecond
    \/ Returned

MergeSpec == MergeInit /\ [][MergeNext]_mergeVars

-----------------------------------------------------------------------------
(* Properties.                                                             *)

Has(list, word) == \E k \in DOMAIN list : list[k] = word

\* The sum of the definition for list, one of the two lists a and b: a term
\* for every word of the file, in the order of the words, over the mean of the
\* frequencies in both files, where a file without the word has frequency 0.
Divergence(list, a, b) ==
    [k \in DOMAIN list |->
        Term(list[k], {f \in {1, 2} : Has(IF f = 1 THEN a ELSE b, list[k])})]

Divergence1 == Divergence(tab1_list, tab1_list, tab2_list)
Divergence2 == Divergence(tab2_list, tab1_list, tab2_list)

\* The first n terms of the whole sum are what has been added.
PrefixOf(sum, whole, n) ==
    /\ sum \in Seq([word : Nat, mean : SUBSET {1, 2}])
    /\ Len(sum) = n
    /\ \A k \in 1..n : sum[k] = whole[k]

\* The first loop has passed a word of one list only if all that is left of
\* the other list comes after it.
MergeInv ==
    /\ i \in 1..(Len(tab1_list) + 1)
    /\ j \in 1..(Len(tab2_list) + 1)
    /\ loop \in {"both", "rest1", "rest2", "done"}
    /\ PrefixOf(kld_tab1, Divergence1, i - 1)
    /\ PrefixOf(kld_tab2, Divergence2, j - 1)
    /\ \A k \in 1..(i - 1), l \in j..Len(tab2_list) : tab1_list[k] < tab2_list[l]
    /\ \A k \in i..Len(tab1_list), l \in 1..(j - 1) : tab2_list[l] < tab1_list[k]
    /\ loop = "both" <=> i <= Len(tab1_list) /\ j <= Len(tab2_list)
    /\ loop \in {"rest2", "done"} => i = Len(tab1_list) + 1
    /\ loop = "done" => j = Len(tab2_list) + 1

\* When jsd_comp returns, both divergences are those of the definition: no
\* word of the union is skipped, taken twice, or taken for one that the other
\* file lacks, whichever list is used up first and if either is empty.
MergeMeetsDefinition ==
    loop = "done" =>
        /\ kld_tab1 = Divergence1
        /\ kld_tab2 = Divergence2
=============================================================================
