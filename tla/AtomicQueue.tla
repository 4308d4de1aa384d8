----------------------------- MODULE AtomicQueue -----------------------------
(***************************************************************************)
(* What a sync_queue promises to the threads that share it: every call     *)
(* takes effect at one moment between its start and its return, on a       *)
(* first-in first-out queue of names.  Collection.tla uses the queues in   *)
(* this form; SyncQueue.tla implements it.                                 *)
(***************************************************************************)
EXTENDS Naturals, Sequences

CONSTANTS
    Callers,        \* the threads that share the queue
    Names,
    MaxLength       \* bound: how many names fit in memory

\* What the calls return.
Empty == "1"
NotEmpty == "0"
Success == "EXIT_SUCCESS"
Failure == "EXIT_FAILURE"
NoName == "NULL"
Nothing == "not yet"

VARIABLES
    items,          \* the names in the queue, front first
    op,             \* the call each thread is in: <<"add", name>>, <<"remove">>, ...
    result          \* what it returns

vars == <<items, op, result>>

NoOp == <<"none">>
Calls == {<<"empty">>, <<"remove">>} \cup {<<"add", name>> : name \in Names}

Init ==
    /\ items = <<>>
    /\ op = [c \in Callers |-> NoOp]
    /\ result = [c \in Callers |-> Nothing]

Call(c) ==
    /\ op[c] = NoOp
    /\ \E o \in Calls : op' = [op EXCEPT ![c] = o]
    /\ UNCHANGED <<items, result>>

Answer(c, r) == result' = [result EXCEPT ![c] = r]

TestEmpty(c) ==
    /\ op[c] = <<"empty">>
    /\ Answer(c, IF items = <<>> THEN Empty ELSE NotEmpty)
    /\ UNCHANGED items

\* An add may fail for lack of memory; it then leaves the queue as it was.
Add(c) ==
    /\ op[c][1] = "add"
    /\ \/ /\ Len(items) < MaxLength
          /\ items' = Append(items, op[c][2])
          /\ Answer(c, Success)
       \/ Answer(c, Failure) /\ UNCHANGED items

Remove(c) ==
    /\ op[c] = <<"remove">>
    /\ IF items = <<>>
       THEN Answer(c, NoName) /\ UNCHANGED items
       ELSE Answer(c, Head(items)) /\ items' = Tail(items)

Perform(c) ==
    /\ result[c] = Nothing
    /\ TestEmpty(c) \/ Add(c) \/ Remove(c)
    /\ UNCHANGED op

Return(c) ==
    /\ result[c] # Nothing
    /\ op' = [op EXCEPT ![c] = NoOp]
    /\ result' = [result EXCEPT ![c] = Nothing]
    /\ UNCHANGED items

Next == \E c \in Callers : Call(c) \/ Perform(c) \/ Return(c)

Spec == Init /\ [][Next]_vars
=============================================================================
