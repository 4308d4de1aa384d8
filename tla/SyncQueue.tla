------------------------------ MODULE SyncQueue ------------------------------
(***************************************************************************)
(* The queue of sync_queue.c: a singly linked list with a count, shared by *)
(* threads that take its lock for every call.  The nodes come from malloc  *)
(* and are freed by the thread that removed them, so the memory of a node  *)
(* is used again, with its old contents, by a later sync_q_add.            *)
(*                                                                         *)
(* A step is one access to the list, or a group of accesses to memory that *)
(* no other thread can reach yet.                                          *)
(***************************************************************************)
EXTENDS Naturals, FiniteSets, Sequences, Functions

CONSTANTS
    Callers,        \* the threads that share the queue
    Names,
    Nodes,          \* the memory blocks malloc can return
    NULL,
    NoThread        \* the holder of a free lock

ASSUME QueueAssumption ==
    /\ IsFiniteSet(Nodes)
    /\ NULL \notin Nodes
    /\ NoThread \notin Callers
    /\ "not yet" \notin Names

Empty == "1"
NotEmpty == "0"
Success == "EXIT_SUCCESS"
Failure == "EXIT_FAILURE"
NoName == "NULL"
Nothing == "not yet"

NoOp == <<"none">>
Calls == {<<"empty">>, <<"remove">>} \cup {<<"add", n>> : n \in Names}

VARIABLES
    entries,
    front,
    rear,
    name,           \* the two fields of each block of memory
    next,
    allocated,      \* the blocks that malloc returned and nobody has freed
    lock,
    pc,
    op,             \* the call a thread is in
    entry,          \* its local variable
    result,         \* what the call returns
    destroyed

queueVars == <<entries, front, rear>>
heapVars == <<name, next>>
callVars == <<op, entry, result>>
vars == <<queueVars, heapVars, allocated, lock, pc, callVars, destroyed>>

Labels == {"idle", "lock", "empty", "add", "link", "count", "remove", "uncount",
           "unlock", "returned"}

Goto(c, label) == pc' = [pc EXCEPT ![c] = label]
Answer(c, r) == result' = [result EXCEPT ![c] = r]

-----------------------------------------------------------------------------
Call(c) ==
    /\ ~destroyed
    /\ pc[c] = "idle"
    /\ \E o \in Calls : op' = [op EXCEPT ![c] = o]
    /\ Goto(c, "lock")
    /\ UNCHANGED <<queueVars, heapVars, allocated, lock, entry, result>>

\* Mutant: the call does not wait for the lock.
LockAnyway(c) ==
    /\ pc[c] = "lock"
    /\ lock' = c
    /\ Goto(c, op[c][1])
    /\ UNCHANGED <<queueVars, heapVars, allocated, callVars>>

Lock(c) ==
    /\ pc[c] = "lock"
    /\ lock = NoThread
    /\ lock' = c
    /\ Goto(c, op[c][1])
    /\ UNCHANGED <<queueVars, heapVars, allocated, callVars>>

Unlock(c) ==
    /\ pc[c] = "unlock"
    /\ lock' = NoThread
    /\ Goto(c, "returned")
    /\ UNCHANGED <<queueVars, heapVars, allocated, callVars>>

\* Mutant: the caller of sync_q_add frees the node as well.
ReturnFreeing(c) ==
    /\ pc[c] = "returned"
    /\ allocated' = allocated \ {entry[c]}
    /\ op' = [op EXCEPT ![c] = NoOp]
    /\ entry' = [entry EXCEPT ![c] = NULL]
    /\ Answer(c, Nothing)
    /\ Goto(c, "idle")
    /\ UNCHANGED <<queueVars, heapVars, lock>>

\* The caller goes on.  It frees the node it removed when it is done with it,
\* except the node of a file that it cannot open, which nobody frees.
Return(c) ==
    /\ pc[c] = "returned"
    /\ \/ op[c] = <<"remove">> /\ allocated' = allocated \ {entry[c]}
       \/ UNCHANGED allocated
    /\ op' = [op EXCEPT ![c] = NoOp]
    /\ entry' = [entry EXCEPT ![c] = NULL]
    /\ Answer(c, Nothing)
    /\ Goto(c, "idle")
    /\ UNCHANGED <<queueVars, heapVars, lock>>

-----------------------------------------------------------------------------
(* sync_q_empty.                                                           *)

ReadEntries(c) ==
    /\ pc[c] = "empty"
    /\ Answer(c, IF entries = 0 THEN Empty ELSE NotEmpty)
    /\ Goto(c, "unlock")
    /\ UNCHANGED <<queueVars, heapVars, allocated, lock, op, entry>>

-----------------------------------------------------------------------------
(* sync_q_add.                                                             *)

\* malloc may fail although memory is left, and fails when none is.
AllocateEntry(c) ==
    /\ pc[c] = "add"
    /\ \/ \E n \in Nodes \ allocated :
            /\ allocated' = allocated \cup {n}
            /\ entry' = [entry EXCEPT ![c] = n]
            /\ name' = [name EXCEPT ![n] = op[c][2]]
            /\ next' = [next EXCEPT ![n] = NULL]
            /\ Goto(c, "link")
            /\ UNCHANGED result
       \/ /\ Answer(c, Failure)
          /\ Goto(c, "unlock")
          /\ UNCHANGED <<allocated, entry, heapVars>>
    /\ UNCHANGED <<queueVars, lock, op>>

LinkEntry(c) ==
    /\ pc[c] = "link"
    /\ IF entries = 0
       THEN front' = entry[c] /\ UNCHANGED next
       ELSE next' = [next EXCEPT ![rear] = entry[c]] /\ UNCHANGED front
    /\ rear' = entry[c]
    /\ Goto(c, "count")
    /\ UNCHANGED <<entries, name, allocated, lock, callVars>>

CountEntry(c) ==
    /\ pc[c] = "count"
    /\ entries' = entries + 1
    /\ Answer(c, Success)
    /\ Goto(c, "unlock")
    /\ UNCHANGED <<front, rear, heapVars, allocated, lock, op, entry>>

-----------------------------------------------------------------------------
(* sync_q_remove.                                                          *)

\* Mutant: the count is lowered before the test for an empty queue.
TakeFrontCounted(c) ==
    /\ pc[c] = "remove"
    /\ entries' = entries - 1
    /\ IF front = NULL
       THEN Answer(c, NoName) /\ UNCHANGED <<entry, front>>
       ELSE entry' = [entry EXCEPT ![c] = front] /\ front' = next[front] /\ Answer(c, name[front])
    /\ Goto(c, "unlock")
    /\ UNCHANGED <<rear, heapVars, allocated, lock, op>>

TakeFront(c) ==
    /\ pc[c] = "remove"
    /\ IF entries = 0
       THEN /\ Answer(c, NoName)
            /\ Goto(c, "unlock")
            /\ UNCHANGED <<entry, front>>
       ELSE /\ entry' = [entry EXCEPT ![c] = front]
            /\ front' = next[front]
            /\ Goto(c, "uncount")
            /\ UNCHANGED result
    /\ UNCHANGED <<entries, rear, heapVars, allocated, lock, op>>

\* Mutant: the rear of an emptied queue still points to the node removed.
UncountEntryOnly(c) ==
    /\ pc[c] = "uncount"
    /\ entries' = entries - 1
    /\ Answer(c, name[entry[c]])
    /\ Goto(c, "unlock")
    /\ UNCHANGED <<front, rear, heapVars, allocated, lock, op, entry>>

UncountEntry(c) ==
    /\ pc[c] = "uncount"
    /\ entries' = entries - 1
    /\ rear' = IF entries' = 0 THEN NULL ELSE rear
    /\ Answer(c, name[entry[c]])
    /\ Goto(c, "unlock")
    /\ UNCHANGED <<front, heapVars, allocated, lock, op, entry>>

-----------------------------------------------------------------------------
Step(c) ==
    \/ Call(c)
    \/ Lock(c)
    \/ Unlock(c)
    \/ Return(c)
    \/ ReadEntries(c)
    \/ AllocateEntry(c)
    \/ LinkEntry(c)
    \/ CountEntry(c)
    \/ TakeFront(c)
    \/ UncountEntry(c)

\* sync_q_create has returned.  Its malloc is not tested (sync_queue.c:8): a failure is
\* a crash before there is a queue.  The memory holds anything, here nothing that a
\* test could take for a pointer.
Init ==
    /\ entries = 0
    /\ front = NULL
    /\ rear = NULL
    /\ name = [n \in Nodes |-> NoName]
    /\ next = [n \in Nodes |-> NULL]
    /\ allocated = {}
    /\ lock = NoThread
    /\ pc = [c \in Callers |-> "idle"]
    /\ op = [c \in Callers |-> NoOp]
    /\ entry = [c \in Callers |-> NULL]
    /\ result = [c \in Callers |-> Nothing]
    /\ destroyed = FALSE

\* sync_q_destroy itself tests nothing.  main calls it when no other thread runs and
\* after it has found both queues empty (compare.c:239 and 355).
Destroy ==
    /\ \A c \in Callers : pc[c] = "idle"
    /\ entries = 0
    /\ destroyed' = TRUE
    /\ UNCHANGED <<queueVars, heapVars, allocated, lock, pc, callVars>>

Stop == destroyed /\ UNCHANGED vars

Next ==
    \/ (\E c \in Callers : Step(c)) /\ UNCHANGED destroyed
    \/ Destroy
    \/ Stop

Spec == Init /\ [][Next]_vars

-----------------------------------------------------------------------------
(* Properties.                                                             *)

\* Every variable holds a value of its C type.
TypeOK ==
    /\ entries \in 0..Cardinality(Nodes)
    /\ front \in Nodes \cup {NULL}
    /\ rear \in Nodes \cup {NULL}
    /\ name \in [Nodes -> Names \cup {NoName}]
    /\ next \in [Nodes -> Nodes \cup {NULL}]
    /\ allocated \subseteq Nodes
    /\ lock \in Callers \cup {NoThread}
    /\ pc \in [Callers -> Labels]
    /\ op \in [Callers -> Calls \cup {NoOp}]
    /\ entry \in [Callers -> Nodes \cup {NULL}]
    /\ result \in [Callers -> Names \cup {Empty, NotEmpty, Success, Failure, NoName, Nothing}]
    /\ destroyed \in BOOLEAN

\* The k-th node from the front, as long as there is one.
NodeAt[k \in 1..Cardinality(Nodes)] ==
    IF k = 1 THEN front
    ELSE IF NodeAt[k - 1] = NULL THEN NULL ELSE next[NodeAt[k - 1]]

\* Between two calls the list is what the count says: that many different
\* nodes, all of them live memory, the last of which is the rear and has no
\* successor; an empty queue points nowhere.
ListWellFormed ==
    lock = NoThread =>
        LET list == [k \in 1..entries |-> NodeAt[k]] IN
        /\ IsInjective(list)
        /\ Range(list) \subseteq allocated
        /\ IF entries = 0
           THEN front = NULL /\ rear = NULL
           ELSE rear = list[entries] /\ next[rear] = NULL

\* A node that a thread has removed is its own until it frees it: it is not in
\* the queue and no other thread has it.
RemovedNodesOwned ==
    \A c \in Callers :
        op[c] = <<"remove">> /\ entry[c] # NULL =>
            /\ entry[c] \in allocated
            /\ \A d \in Callers \ {c} : op[d] = <<"remove">> => entry[d] # entry[c]
            /\ lock = NoThread => \A k \in 1..entries : NodeAt[k] # entry[c]

-----------------------------------------------------------------------------
(* The inductive invariant.                                                *)

\* Who holds the lock is who is between locking and unlocking.
LockInv ==
    \A c \in Callers : pc[c] \notin {"idle", "lock", "returned"} <=> lock = c

\* How far a call has come tells which call it is, whether it has a node and
\* whether it knows its result; a node on its way into the list has its name.
CallInv ==
    \A c \in Callers :
        /\ pc[c] = "idle" <=> op[c] = NoOp
        /\ pc[c] = "empty" => op[c] = <<"empty">>
        /\ pc[c] \in {"add", "link", "count"} => op[c] \in {<<"add", n>> : n \in Names}
        /\ pc[c] \in {"remove", "uncount"} => op[c] = <<"remove">>
        /\ pc[c] \in {"idle", "lock", "empty", "add", "remove"} => entry[c] = NULL
        /\ pc[c] \in {"link", "count", "uncount"} => entry[c] # NULL
        /\ pc[c] \in {"link", "count"} => name[entry[c]] = op[c][2]
        /\ result[c] = Nothing <=> pc[c] \notin {"unlock", "returned"}

\* The lists that memory has room for.
Lists == UNION {[1..n -> Nodes] : n \in 0..Cardinality(Nodes)}

\* The nodes that only thread c can reach: removed, or not linked yet.
Holds(c) == entry[c] # NULL /\ (op[c] = <<"remove">> \/ pc[c] = "link")

\* The nodes linked from the front are those of s, all of them live memory.
Linked(s) ==
    /\ IsInjective(s)
    /\ Range(s) \subseteq allocated
    /\ front = IF s = <<>> THEN NULL ELSE s[1]
    /\ \A k \in DOMAIN s : next[s[k]] = IF k = Len(s) THEN NULL ELSE s[k + 1]
    /\ s # <<>> => rear = s[Len(s)]

\* Only between the link and the count, one way or the other, is the count off
\* by one; only there may the rear of an empty list point to a node.
CountInv(s) ==
    /\ \A c \in Callers : pc[c] = "uncount" => entries = Len(s) + 1
    /\ \A c \in Callers :
         pc[c] = "count" => s # <<>> /\ entries = Len(s) - 1 /\ entry[c] = s[Len(s)]
    /\ (\A c \in Callers : pc[c] \notin {"count", "uncount"}) =>
            entries = Len(s) /\ (s = <<>> => rear = NULL)

\* The nodes that threads hold are live, not in the list, and not shared.
HeldInv(s) ==
    \A c \in Callers :
        Holds(c) =>
            /\ entry[c] \in allocated \ Range(s)
            /\ \A d \in Callers \ {c} : Holds(d) => entry[d] # entry[c]
            /\ pc[c] = "link" => next[entry[c]] = NULL

ListInv == \E s \in Lists : Linked(s) /\ CountInv(s) /\ HeldInv(s)

QueueInv == TypeOK /\ LockInv /\ CallInv /\ ListInv
=============================================================================
