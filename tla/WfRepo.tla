------------------------------- MODULE WfRepo --------------------------------
(***************************************************************************)
(* The repository of word tables, wf_repo.c: a stack linked through the    *)
(* tables themselves, with a size and a lock.  File threads push to it;    *)
(* main clears and destroys it when it is alone.  wf_repo_pop and          *)
(* wf_repo_empty have no callers in the program.                           *)
(***************************************************************************)
EXTENDS Naturals, Sequences, FiniteSets, Functions

CONSTANTS
    Callers,        \* the threads that share the repository
    Tables,         \* the word tables, each with its field next
    NULL,
    NoThread        \* the holder of a free lock

ASSUME RepoAssumption ==
    /\ IsFiniteSet(Tables)
    /\ NULL \notin Tables
    /\ NoThread \notin Callers

VARIABLES
    size,
    table,
    next,
    lock,
    pc,
    result,         \* toAddTable of a push, result of a pop
    numEntries,     \* the local of wf_repo_empty, and what it returns
    answer,
    owned,          \* the tables a thread has outside of the repository
    freed,          \* the tables that hash_destroy has freed
    ptr,            \* the local of wf_repo_clear
    phase           \* of main

repo == <<size, table, next>>
callVars == <<result, numEntries, answer, owned>>
mainVars == <<freed, ptr, phase>>
vars == <<repo, lock, pc, callVars, mainVars>>

\* The tables outside of the repository that some thread will push or free.
Owned == UNION {owned[c] : c \in Callers}

Goto(c, label) == pc' = [pc EXCEPT ![c] = label]
Unlock(c) == lock' = NoThread /\ Goto(c, "idle")

Init ==
    /\ size = 0
    /\ table = NULL
    /\ next = [t \in Tables |-> NULL]
    /\ lock = NoThread
    /\ pc = [c \in Callers |-> "idle"]
    /\ result = [c \in Callers |-> NULL]
    /\ numEntries = [c \in Callers |-> 0]
    /\ answer = [c \in Callers |-> 0]
    /\ \E owner \in [Tables -> Callers] :
          owned = [c \in Callers |-> {t \in Tables : owner[t] = c}]
    /\ freed = {}
    /\ ptr = NULL
    /\ phase = "create"

\* wf_repo_create writes to what malloc returned, NULL or not.
Create ==
    /\ phase = "create"
    /\ phase' \in {"shared", "crashed"}
    /\ UNCHANGED <<repo, lock, pc, callVars, freed, ptr>>

\* Mutant: the lock is not waited for.
LockAnyway(c, label) ==
    /\ phase = "shared"
    /\ pc[c] = "idle"
    /\ lock' = c
    /\ Goto(c, label)

Lock(c, label) ==
    /\ phase = "shared"
    /\ pc[c] = "idle"
    /\ lock = NoThread
    /\ lock' = c
    /\ Goto(c, label)

StartPush(c) ==
    /\ \E t \in owned[c] : result' = [result EXCEPT ![c] = t]
    /\ Lock(c, "link")
    /\ UNCHANGED <<repo, numEntries, answer, owned, mainVars>>

LinkTable(c) ==
    /\ pc[c] = "link"
    /\ next' = [next EXCEPT ![result[c]] = table]
    /\ Goto(c, "top")
    /\ UNCHANGED <<size, table, lock, callVars, mainVars>>

SetTop(c) ==
    /\ pc[c] = "top"
    /\ table' = result[c]
    /\ Goto(c, "count")
    /\ UNCHANGED <<size, next, lock, callVars, mainVars>>

CountTable(c) ==
    /\ pc[c] = "count"
    /\ size' = size + 1
    /\ owned' = [owned EXCEPT ![c] = @ \ {result[c]}]
    /\ Unlock(c)
    /\ UNCHANGED <<table, next, result, numEntries, answer, mainVars>>

StartPop(c) ==
    /\ Lock(c, "pop")
    /\ UNCHANGED <<repo, callVars, mainVars>>

\* An empty stack returns NULL.
TakeTop(c) ==
    /\ pc[c] = "pop"
    /\ IF size = 0
       THEN result' = [result EXCEPT ![c] = NULL] /\ Unlock(c) /\ UNCHANGED table
       ELSE /\ result' = [result EXCEPT ![c] = table]
            /\ table' = next[table]
            /\ Goto(c, "uncount")
            /\ UNCHANGED lock
    /\ UNCHANGED <<size, next, numEntries, answer, owned, mainVars>>

UncountTable(c) ==
    /\ pc[c] = "uncount"
    /\ size' = size - 1
    /\ owned' = [owned EXCEPT ![c] = @ \cup {result[c]}]
    /\ Unlock(c)
    /\ UNCHANGED <<table, next, result, numEntries, answer, mainVars>>

StartEmpty(c) ==
    /\ Lock(c, "empty")
    /\ UNCHANGED <<repo, callVars, mainVars>>

\* wf_repo_empty returns 1 if the stack is empty.
ReadSize(c) ==
    /\ pc[c] = "empty"
    /\ numEntries' = [numEntries EXCEPT ![c] = size]
    /\ answer' = [answer EXCEPT ![c] = IF size = 0 THEN 1 ELSE 0]
    /\ Unlock(c)
    /\ UNCHANGED <<repo, result, owned, mainVars>>

\* main has joined all threads and calls wf_repo_clear.
StartClear ==
    /\ phase = "shared"
    /\ \A c \in Callers : pc[c] = "idle"
    /\ ptr' = table
    /\ phase' = "clear"
    /\ UNCHANGED <<repo, lock, pc, callVars, freed>>

\* Mutant: the last table of the list is not freed.
ClearTableButLast ==
    /\ phase = "clear"
    /\ ptr # NULL
    /\ freed' = IF next[ptr] = NULL THEN freed ELSE freed \cup {ptr}
    /\ ptr' = next[ptr]
    /\ UNCHANGED <<repo, lock, pc, callVars, phase>>

ClearTable ==
    /\ phase = "clear"
    /\ ptr # NULL
    /\ freed' = freed \cup {ptr}
    /\ ptr' = next[ptr]
    /\ UNCHANGED <<repo, lock, pc, callVars, phase>>

FinishClear ==
    /\ phase = "clear"
    /\ ptr = NULL
    /\ size' = 0
    /\ table' = NULL
    /\ phase' = "destroy"
    /\ UNCHANGED <<next, lock, pc, callVars, freed, ptr>>

\* wf_repo_destroy refuses a stack that is not empty.
Destroy ==
    /\ phase = "destroy"
    /\ phase' = IF size # 0 THEN "refused" ELSE "destroyed"
    /\ UNCHANGED <<repo, lock, pc, callVars, freed, ptr>>

Over == phase \in {"crashed", "refused", "destroyed"} /\ UNCHANGED vars

CallerStep(c) ==
    \/ StartPush(c) \/ LinkTable(c) \/ SetTop(c) \/ CountTable(c)
    \/ StartPop(c) \/ TakeTop(c) \/ UncountTable(c)
    \/ StartEmpty(c) \/ ReadSize(c)

Next ==
    \/ Create
    \/ \E c \in Callers : CallerStep(c)
    \/ StartClear \/ ClearTable \/ FinishClear \/ Destroy
    \/ Over

Spec == Init /\ [][Next]_vars

-----------------------------------------------------------------------------
(* Properties.                                                             *)

\* The n tables that are linked from t on.
Linked(t, n) ==
    LET At[k \in 1..Cardinality(Tables)] ==
            IF k = 1 THEN t ELSE IF At[k - 1] = NULL THEN NULL ELSE next[At[k - 1]]
    IN  [k \in 1..n |-> At[k]]

\* Between two calls the list has every table that no thread owns, each once, and
\* no other, and it ends where the size says: a table that was pushed stays linked
\* until one thread has popped it.  main frees no table that it has freed or that a
\* thread owns, and when the repository is destroyed it has freed every table that
\* no thread owns; wf_repo_destroy never refuses.
TablesAccounted ==
    LET list == Linked(table, size) IN
    /\ lock = NoThread /\ phase = "shared" =>
        /\ IsInjective(list)
        /\ Range(list) = Tables \ Owned
        /\ size = 0 <=> table = NULL
        /\ size > 0 => next[list[size]] = NULL
    /\ \A c, d \in Callers : c # d => owned[c] \cap owned[d] = {}
    /\ phase = "clear" => ptr \notin freed \cup Owned
    /\ phase = "destroyed" => freed = Tables \ Owned
    /\ phase # "refused"

\* The tables that a call has linked but not counted, or the reverse.
Counted ==
    LET pushing == \E c \in Callers : pc[c] = "count"
        popping == {c \in Callers : pc[c] = "uncount"}
    IN  CASE pushing -> Linked(next[table], size)
          [] popping # {} -> <<result[CHOOSE c \in popping : TRUE]>> \o Linked(table, size - 1)
          [] OTHER -> Linked(table, size)

Stack == INSTANCE AtomicStack WITH
    items <- IF phase = "clear" THEN Linked(table, size) ELSE Counted,
    told <- [c \in Callers |-> answer[c] = 1],
    freed <- IF phase = "clear" THEN {} ELSE freed

\* Whatever the threads do at the same time, each push and each pop takes
\* effect when it changes the size, and clearing frees what is on the stack.
ImplementsAtomicStack == Stack!Spec

-----------------------------------------------------------------------------
(* The inductive invariant.                                                *)

RepoTypes ==
    /\ size \in Nat
    /\ table \in Tables \cup {NULL}
    /\ next \in [Tables -> Tables \cup {NULL}]
    /\ lock \in Callers \cup {NoThread}
    /\ pc \in [Callers -> {"idle", "link", "top", "count", "pop", "uncount", "empty"}]
    /\ result \in [Callers -> Tables \cup {NULL}]
    /\ answer \in [Callers -> {0, 1}]
    /\ owned \in [Callers -> SUBSET Tables]
    /\ freed \subseteq Tables
    /\ ptr \in Tables \cup {NULL}
    /\ phase \in {"create", "crashed", "shared", "clear", "destroy", "destroyed"}

\* Who holds the lock is inside a call, and only while the repository is shared.
LockInv ==
    /\ \A c \in Callers : pc[c] # "idle" <=> lock = c
    /\ phase # "shared" => lock = NoThread

\* A push works on a table that its caller owns; no two callers own a table,
\* and nobody owns one that is freed.
OwnedInv ==
    /\ \A c \in Callers : pc[c] \in {"link", "top", "count"} => result[c] \in owned[c]
    /\ \A c, d \in Callers : c # d => owned[c] \cap owned[d] = {}
    /\ \A c \in Callers : owned[c] \cap freed = {}

\* The stacks that there are tables for.
Stacks == UNION {[1..n -> Tables] : n \in 0..Cardinality(Tables)}

FirstOf(s) == IF s = <<>> THEN NULL ELSE s[1]

\* s is what the size counts: tables that nobody owns, each linked to the next.
Counts(s) ==
    /\ IsInjective(s)
    /\ size = Len(s)
    /\ \A k \in DOMAIN s : next[s[k]] = IF k = Len(s) THEN NULL ELSE s[k + 1]
    /\ \A c \in Callers : owned[c] \cap Range(s) = {}

\* The field table is the first of s, unless a push has set it and not counted
\* yet, or a pop has.
TopIs(s) ==
    /\ \A c \in Callers : pc[c] \in {"top", "count"} => next[result[c]] = FirstOf(s)
    /\ \A c \in Callers : pc[c] = "count" => table = result[c]
    /\ \A c \in Callers : pc[c] = "uncount" => s # <<>> /\ result[c] = s[1] /\ table = next[s[1]]
    /\ (\A c \in Callers : pc[c] \notin {"count", "uncount"}) => table = FirstOf(s)

\* While main clears, what is freed is what ptr has passed.
ClearedTo(s) ==
    /\ phase \in {"create", "crashed", "shared"} => freed = {}
    /\ phase = "clear" => \E k \in 0..Len(s) :
          /\ freed = {s[i] : i \in 1..k}
          /\ ptr = IF k = Len(s) THEN NULL ELSE s[k + 1]
    /\ phase \in {"create", "crashed", "destroy", "destroyed"} => s = <<>>

\* No table is out of reach: it is on the stack, owned or freed.
AllKept(s) == Tables \subseteq Range(s) \cup Owned \cup freed

StackIs(s) == Counts(s) /\ TopIs(s) /\ ClearedTo(s) /\ AllKept(s)

RepoInv == RepoTypes /\ LockInv /\ OwnedInv /\ \E s \in Stacks : StackIs(s)
=============================================================================
