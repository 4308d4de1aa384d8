------------------------- MODULE SyncQueueRefinement -------------------------
(***************************************************************************)
(* A sync_queue is an AtomicQueue: each call takes effect at one moment,   *)
(* an add and a remove when the count is changed.                          *)
(***************************************************************************)
EXTENDS SyncQueue

\* The node that a remover has taken off the list but not off the count.
HalfRemoved == {c \in Callers : pc[c] = "uncount"}

Listed ==
    IF HalfRemoved = {}
    THEN [k \in 1..entries |-> NodeAt[k]]
    ELSE <<entry[CHOOSE c \in HalfRemoved : TRUE]>> \o [k \in 1..(entries - 1) |-> NodeAt[k]]

Atomic == INSTANCE AtomicQueue WITH
    MaxLength <- Cardinality(Nodes),
    items <- [k \in DOMAIN Listed |-> name[Listed[k]]]

\* Whatever the threads do at the same time, each call returns what it would
\* return if the calls were made one after the other, and no name is lost.
ImplementsAtomicQueue == Atomic!Spec
=============================================================================
