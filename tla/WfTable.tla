------------------------------- MODULE WfTable -------------------------------
(***************************************************************************)
(* The word table of one file: hash_insert with its chains, hash_rehash,   *)
(* hash_lexical_list, hash_comp_freq and hash_destroy in wf_table.c.  No   *)
(* other thread sees a table before it is pushed to the repository, so a   *)
(* call is interrupted only by a failing malloc; the rehash and the        *)
(* destruction, which walk the items, take one item at a time.  An item is *)
(* the number of its allocation.                                           *)
(***************************************************************************)
EXTENDS Integers, Sequences, FiniteSets, Functions

CONSTANTS
    Word,       \* the words of the file, numbers in the order of strcmp
    Hash,       \* hash_func
    InitRows,   \* no_rows and y of hash_create_table
    Y,
    MaxWords    \* bound on the number of words in the file

ASSUME TableAssumption ==
    /\ Word \subseteq Nat
    /\ Hash \in [Word -> Nat]
    /\ InitRows \in Nat \ {0}
    /\ Y \in Nat \ {0}
    /\ MaxWords \in Nat

VARIABLES
    item,           \* word, count and freq of each item ever allocated
    live,           \* the items not freed
    strings,        \* how many strings of words are allocated
    data,           \* the chain of items in each row
    new_data,       \* the rows that hash_rehash is filling
    no_rows,
    no_words,
    no_entries,
    list,
    freed,          \* how far hash_destroy has come
    pc

vars == <<item, live, strings, data, new_data, no_rows, no_words, no_entries,
          list, freed, pc>>
memory == <<item, live, strings>>
rows == <<data, new_data, no_rows>>

NoFreq == <<-1, 1>>
EmptyRows(n) == [r \in 0..(n - 1) |-> <<>>]
Row(n, size) == Hash[item[n].word] % size

\* hash_create_table fails as a whole when one of its mallocs does.
Init ==
    /\ item = <<>>
    /\ live = {}
    /\ strings = 0
    /\ data = EmptyRows(InitRows)
    /\ new_data = <<>>
    /\ no_rows = InitRows
    /\ no_words = 0
    /\ no_entries = 0
    /\ list = <<>>
    /\ freed = 0
    /\ pc \in {"fill", "failed"}

\* The end of hash_insert: double the rows if there are more than y per row.
RehashOr(entries) == IF entries > Y * no_rows THEN "rehash" ELSE "fill"

Inserting(w) == pc = "fill" /\ w \in Word /\ no_words < MaxWords
Chain(w) == data[Hash[w] % no_rows]

\* The items of a chain that hold the word w.
Matches(chain, w) == {k \in DOMAIN chain : item[chain[k]].word = w}

\* Mutant: the string of a word that is counted is not freed.
InsertAgainLeaking(w) ==
    /\ Inserting(w)
    /\ \E k \in Matches(Chain(w), w) :
        /\ \A l \in Matches(Chain(w), w) : k <= l
        /\ item' = [item EXCEPT ![Chain(w)[k]].count = @ + 1]
    /\ strings' = strings + 1
    /\ no_words' = no_words + 1
    /\ pc' = RehashOr(no_entries)
    /\ UNCHANGED <<live, rows, no_entries, list, freed>>

\* The word is in its chain: it is counted, and its second string is freed.
InsertAgain(w) ==
    /\ Inserting(w)
    /\ \E k \in Matches(Chain(w), w) :
        /\ \A l \in Matches(Chain(w), w) : k <= l
        /\ item' = [item EXCEPT ![Chain(w)[k]].count = @ + 1]
    /\ no_words' = no_words + 1
    /\ pc' = RehashOr(no_entries)
    /\ UNCHANGED <<live, strings, rows, no_entries, list, freed>>

\* Mutant: a new item has not been counted.
InsertNewUncounted(w) ==
    LET n == Len(item) + 1
    IN  /\ Inserting(w)
        /\ Matches(Chain(w), w) = {}
        /\ item' = Append(item, [word |-> w, count |-> 0, freq |-> NoFreq])
        /\ live' = live \cup {n}
        /\ strings' = strings + 1
        /\ data' = [data EXCEPT ![Hash[w] % no_rows] = Append(@, n)]
        /\ no_words' = no_words + 1
        /\ no_entries' = no_entries + 1
        /\ pc' = RehashOr(no_entries + 1)
        /\ UNCHANGED <<new_data, no_rows, list, freed>>

\* A new word becomes the last item of its chain.
InsertNew(w) ==
    LET n == Len(item) + 1
    IN  /\ Inserting(w)
        /\ Matches(Chain(w), w) = {}
        /\ item' = Append(item, [word |-> w, count |-> 1, freq |-> NoFreq])
        /\ live' = live \cup {n}
        /\ strings' = strings + 1
        /\ data' = [data EXCEPT ![Hash[w] % no_rows] = Append(@, n)]
        /\ no_words' = no_words + 1
        /\ no_entries' = no_entries + 1
        /\ pc' = RehashOr(no_entries + 1)
        /\ UNCHANGED <<new_data, no_rows, list, freed>>

StartRehash ==
    /\ pc = "rehash"
    /\ pc' = "move"
    /\ new_data' = EmptyRows(2 * no_rows)
    /\ UNCHANGED <<memory, data, no_rows, no_words, no_entries, list, freed>>

\* Mutant: the rest of the chain that the item was in is lost.
MoveItemUnlinking(r) ==
    /\ pc = "move"
    /\ data[r] # <<>>
    /\ data' = [data EXCEPT ![r] = <<>>]
    /\ new_data' = [new_data EXCEPT ![Row(Head(data[r]), 2 * no_rows)] =
                        <<Head(data[r])>> \o @]
    /\ UNCHANGED <<memory, no_rows, no_words, no_entries, list, freed, pc>>

\* The rows are emptied in order, each from its head; an item becomes the
\* head of its chain in the new rows.
MoveItem(r) ==
    /\ pc = "move"
    /\ data[r] # <<>>
    /\ \A q \in 0..(r - 1) : data[q] = <<>>
    /\ data' = [data EXCEPT ![r] = Tail(@)]
    /\ new_data' = [new_data EXCEPT ![Row(Head(data[r]), 2 * no_rows)] =
                        <<Head(data[r])>> \o @]
    /\ UNCHANGED <<memory, no_rows, no_words, no_entries, list, freed, pc>>

FinishRehash ==
    /\ pc = "move"
    /\ \A r \in DOMAIN data : data[r] = <<>>
    /\ data' = new_data
    /\ new_data' = <<>>
    /\ no_rows' = 2 * no_rows
    /\ pc' = "fill"
    /\ UNCHANGED <<memory, no_words, no_entries, list, freed>>

Items == 1..Len(item)

\* The places of the items in the chains.
Cells(array) == {c \in (DOMAIN array) \X Items : c[2] \in DOMAIN array[c[1]]}

Lexical(items) ==
    \A k, l \in DOMAIN items : k < l => item[items[k]].word <= item[items[l]].word

\* hash_lexical_list: the items of all chains, in the order qsort leaves them.
LexicalList ==
    /\ pc = "fill"
    /\ \E order \in Bijection(1..Cardinality(Cells(data)), Cells(data)) :
        /\ list' = [k \in DOMAIN order |-> data[order[k][1]][order[k][2]]]
        /\ Lexical(list')
    /\ pc' = "listed"
    /\ UNCHANGED <<memory, rows, no_words, no_entries, freed>>

\* Mutant: the frequency is the share of the different words.
CompFreqOfEntries ==
    /\ pc = "listed"
    /\ item' = [n \in DOMAIN item |->
                  IF \E k \in 1..no_entries : list[k] = n
                  THEN [item[n] EXCEPT !.freq = <<item[n].count, no_entries>>]
                  ELSE item[n]]
    /\ data' = <<>>
    /\ pc' = "ready"
    /\ UNCHANGED <<live, strings, new_data, no_rows, no_words, no_entries, list, freed>>

\* hash_comp_freq, after which tokenize frees the rows.
CompFreq ==
    /\ pc = "listed"
    /\ item' = [n \in DOMAIN item |->
                  IF \E k \in 1..no_entries : list[k] = n
                  THEN [item[n] EXCEPT !.freq = <<item[n].count, no_words>>]
                  ELSE item[n]]
    /\ data' = <<>>
    /\ pc' = "ready"
    /\ UNCHANGED <<live, strings, new_data, no_rows, no_words, no_entries, list, freed>>

\* hash_destroy frees the words and the items of the list one by one, and
\* then the list and the table.
DestroyItem ==
    /\ pc \in {"ready", "destroy"}
    /\ freed < no_entries
    /\ freed' = freed + 1
    /\ live' = live \ {list[freed']}
    /\ strings' = strings - 1
    /\ pc' = "destroy"
    /\ UNCHANGED <<item, rows, no_words, no_entries, list>>

DestroyTable ==
    /\ pc \in {"ready", "destroy"}
    /\ freed = no_entries
    /\ list' = <<>>
    /\ pc' = "destroyed"
    /\ UNCHANGED <<memory, rows, no_words, no_entries, freed>>

\* A malloc fails: for a new item, the new rows, or the list, where the one of
\* size 0 for a file without a word may be among them.  The process ends.
Fail ==
    /\ pc \in {"fill", "rehash"}
    /\ pc' = "failed"
    /\ UNCHANGED <<memory, rows, no_words, no_entries, list, freed>>

Over == pc \in {"destroyed", "failed"} /\ UNCHANGED vars

Next ==
    \/ \E w \in Word : InsertAgain(w) \/ InsertNew(w)
    \/ StartRehash
    \/ \E r \in DOMAIN data : MoveItem(r)
    \/ FinishRehash
    \/ LexicalList
    \/ CompFreq
    \/ DestroyItem
    \/ DestroyTable
    \/ Fail
    \/ Over

Spec == Init /\ [][Next]_vars

-----------------------------------------------------------------------------
(* Properties.                                                             *)

WfItem == [word : Word, count : Nat \ {0}, freq : Int \X Nat]

TypeOK ==
    /\ item \in Seq(WfItem)
    /\ no_rows \in Nat \ {0}
    /\ no_entries \in Nat
    /\ no_words \in Nat
    /\ pc \in {"fill", "rehash", "move", "listed", "ready", "destroy",
               "destroyed", "failed"}

words == [n \in Items |-> item[n].word]

\* Every chain is made of items whose word belongs to its row, each once.
AtHome(array, size, word) ==
    \A r \in DOMAIN array :
        /\ array[r] \in Seq(DOMAIN word)
        /\ \A k \in DOMAIN array[r] : Hash[word[array[r][k]]] % size = r
        /\ IsInjective(array[r])

In(array, n) == \E r \in DOMAIN array : \E k \in DOMAIN array[r] : array[r][k] = n

\* Each item is in one of the two arrays and not in both.
Split(array, other, word) == \A n \in DOMAIN word : In(array, n) <=> ~In(other, n)

\* From the first insertion to the list, and half way through a rehash, each
\* item is in exactly one of the two arrays, once, in the row in which a later
\* insertion of its word will look; no word has two items; and hash_insert
\* leaves at most y items per row.
LinkedOnce ==
    /\ no_entries = Len(item)
    /\ IsInjective(words)
    /\ pc \in {"fill", "rehash", "move", "listed"} =>
        /\ DOMAIN data = 0..(no_rows - 1)
        /\ AtHome(data, no_rows, words)
        /\ AtHome(new_data, 2 * no_rows, words)
        /\ Split(data, new_data, words)
    /\ pc = "move" => DOMAIN new_data = 0..(2 * no_rows - 1)
    /\ pc \in {"fill", "rehash", "listed"} => new_data = <<>>
    /\ pc \in {"fill", "listed"} => no_entries <= Y * no_rows
    /\ pc \in {"rehash", "move"} => no_entries <= Y * no_rows + 1

\* hash_destroy frees each item once, though it no longer has the rows; when
\* it returns, no item and no word of the file is left, not even the second
\* string of a word that was counted again.
MemoryReturned ==
    /\ pc \in {"ready", "destroy"} =>
        /\ Len(list) = no_entries
        /\ IsInjective(list)
        /\ live = {list[k] : k \in (freed + 1)..no_entries}
    /\ pc = "destroyed" => live = {} /\ strings = 0

\* The inductive form: while the rows are there every item is live, the list
\* has each item once, and a destruction under way has freed the first of it.
MemoryAccounted ==
    /\ pc \in {"fill", "rehash", "move", "listed"} =>
        live = Items /\ strings = Len(item) /\ freed = 0
    /\ pc \in {"listed", "ready", "destroy"} => list \in Bijection(1..no_entries, Items)
    /\ pc \in {"ready", "destroy"} =>
        /\ freed \in 0..no_entries
        /\ live = {list[k] : k \in (freed + 1)..no_entries}
        /\ strings = no_entries - freed
    /\ pc = "destroyed" => live = {} /\ strings = 0
=============================================================================
