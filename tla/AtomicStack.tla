----------------------------- MODULE AtomicStack -----------------------------
(***************************************************************************)
(* What the repository promises: a stack of tables on which every call     *)
(* takes effect at one moment, and which is emptied, all tables freed,     *)
(* when its last user is alone.  WfRepo.tla implements it.                 *)
(***************************************************************************)
EXTENDS Naturals, Sequences, FiniteSets, Functions

CONSTANTS
    Callers,
    Tables

VARIABLES
    items,          \* the tables in the repository, top first
    owned,          \* the tables that each caller has
    told,           \* who was told that the stack is empty, when last asking
    freed

vars == <<items, owned, told, freed>>

Init ==
    /\ items = <<>>
    /\ owned \in [Callers -> SUBSET Tables]
    /\ \A c, d \in Callers : c # d => owned[c] \cap owned[d] = {}
    /\ told = [c \in Callers |-> FALSE]
    /\ freed = {}

Push(c, t) ==
    /\ t \in owned[c]
    /\ items' = <<t>> \o items
    /\ owned' = [owned EXCEPT ![c] = @ \ {t}]
    /\ UNCHANGED <<told, freed>>

Pop(c) ==
    /\ items # <<>>
    /\ items' = Tail(items)
    /\ owned' = [owned EXCEPT ![c] = @ \cup {Head(items)}]
    /\ UNCHANGED <<told, freed>>

Test(c) ==
    /\ told' = [told EXCEPT ![c] = (items = <<>>)]
    /\ UNCHANGED <<items, owned, freed>>

Clear ==
    /\ items' = <<>>
    /\ freed' = freed \cup Range(items)
    /\ UNCHANGED <<owned, told>>

Next ==
    \/ \E c \in Callers : Pop(c) \/ Test(c) \/ \E t \in Tables : Push(c, t)
    \/ Clear

Spec == Init /\ [][Next]_vars
=============================================================================
