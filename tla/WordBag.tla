------------------------------- MODULE WordBag -------------------------------
(***************************************************************************)
(* What a word table promises, without rows, chains or memory: how often   *)
(* each word was inserted and, when the file is done, the list of its      *)
(* words in the order of strcmp with their frequencies.  WfTable.tla       *)
(* implements it.                                                          *)
(***************************************************************************)
EXTENDS Naturals, Sequences

CONSTANT Word       \* the words of the file, numbers in the order of strcmp

VARIABLES
    count,          \* how often each word was inserted
    total,          \* how many words were inserted
    result,         \* the lexical list
    phase

vars == <<count, total, result, phase>>

Init ==
    /\ count = [w \in Word |-> 0]
    /\ total = 0
    /\ result = <<>>
    /\ phase \in {"filling", "failed"}

Insert(w) ==
    /\ phase = "filling"
    /\ count' = [count EXCEPT ![w] = @ + 1]
    /\ total' = total + 1
    /\ UNCHANGED <<result, phase>>

\* The words of the file in their order, each with its share of all words.
IsReport(entries) ==
    /\ entries \in Seq([word : Word, freq : Nat \X Nat])
    /\ \A k, l \in DOMAIN entries : k < l => entries[k].word < entries[l].word
    /\ {entries[k].word : k \in DOMAIN entries} = {w \in Word : count[w] > 0}
    /\ \A k \in DOMAIN entries : entries[k].freq = <<count[entries[k].word], total>>

Report ==
    /\ phase = "filling"
    /\ phase' = "reported"
    /\ IsReport(result')
    /\ UNCHANGED <<count, total>>

Discard ==
    /\ phase = "reported"
    /\ phase' = "discarded"
    /\ result' = <<>>
    /\ UNCHANGED <<count, total>>

\* Out of memory: the process ends.
Fail == phase = "filling" /\ phase' = "failed" /\ UNCHANGED <<count, total, result>>

Next ==
    \/ \E w \in Word : Insert(w)
    \/ Report
    \/ Discard
    \/ Fail

Spec == Init /\ [][Next]_vars
=============================================================================
