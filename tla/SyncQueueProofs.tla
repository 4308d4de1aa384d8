--------------------------- MODULE SyncQueueProofs ---------------------------
(***************************************************************************)
(* Proofs about the synchronized queue, for any number of threads, names   *)
(* and blocks of memory: the list is what the count says whenever the lock *)
(* is free, a node that was removed belongs to one thread, and the queue   *)
(* implements AtomicQueue.  The invariant speaks of the sequence of nodes  *)
(* that are linked from the front; that it is the one NodeAt computes is   *)
(* the only induction.                                                     *)
(***************************************************************************)
EXTENDS SyncQueueRefinement, FiniteSetTheorems, SequenceTheorems, TLAPS

-----------------------------------------------------------------------------
(* The list as a sequence.                                                 *)

\* A set of natural numbers has a least element.
LEMMA LeastNumber ==
  ASSUME NEW T, T \subseteq Nat, T # {}
  PROVE  \E x \in T : \A y \in T : x <= y
  <1> DEFINE R == OpToRel(<, Nat)
  <1>1. IsWellFoundedOn(R, Nat)
    BY NatLessThanWellFounded
  <1>2. \A x, y \in Nat : x < y => <<x, y>> \in R
    BY DEF OpToRel
  <1> HIDE DEF R
  <1>3. PICK x \in T : \A y \in T : ~ (<<y, x>> \in R)
    BY <1>1, WFMin
  <1>4. \A y \in T : ~ (y < x)
    BY <1>2, <1>3
  <1>5. QED BY <1>4

\* A list in memory is a sequence that is no longer than the memory.
LEMMA ListFacts ==
  ASSUME NEW s \in Lists
  PROVE  /\ s \in Seq(Nodes)
         /\ Len(s) \in Nat
         /\ Len(s) <= Cardinality(Nodes)
         /\ DOMAIN s = 1..Len(s)
         /\ \A k \in 1..Len(s) : s[k] \in Nodes
         /\ s = <<>> <=> Len(s) = 0
  <1>1. Cardinality(Nodes) \in Nat
    BY QueueAssumption, FS_CardinalityType
  <1>2. PICK n \in 0..Cardinality(Nodes) : s \in [1..n -> Nodes]
    BY DEF Lists
  <1>3. n \in Nat /\ n <= Cardinality(Nodes)
    BY <1>1, <1>2
  <1>4. s \in Seq(Nodes) /\ Len(s) = n
    BY <1>2, <1>3
  <1>5. QED BY <1>3, <1>4, LenProperties, EmptySeq

\* A sequence of different nodes is such a list.
LEMMA InjectiveIsList ==
  ASSUME NEW s \in Seq(Nodes), IsInjective(s)
  PROVE  s \in Lists
  <1>1. Len(s) \in Nat /\ s \in [1..Len(s) -> Nodes]
    BY LenProperties
  <1>2. s \in Injection(1..Len(s), Nodes)
    BY <1>1 DEF Injection
  <1>3. Cardinality(1..Len(s)) <= Cardinality(Nodes)
    BY <1>2, QueueAssumption, FS_Injection
  <1>4. Cardinality(1..Len(s)) = Len(s)
    <2>1. 1 \in Int /\ Len(s) \in Int
      BY <1>1
    <2>2. Cardinality(1..Len(s)) = IF 1 > Len(s) THEN 0 ELSE Len(s) - 1 + 1
      BY <2>1, FS_Interval
    <2>3. QED BY <1>1, <2>2
  <1>c. Cardinality(Nodes) \in Nat
    BY QueueAssumption, FS_CardinalityType
  <1>5. Len(s) \in 0..Cardinality(Nodes)
    BY <1>1, <1>3, <1>4, <1>c
  <1>6. QED BY <1>1, <1>5 DEF Lists

\* NodeAt computes the nodes linked from the front, and NULL behind the last.
LEMMA NodeAtIs ==
  ASSUME NEW s \in Lists, Linked(s)
  PROVE  \A k \in 1..Cardinality(Nodes) : NodeAt[k] = IF k <= Len(s) THEN s[k] ELSE NULL
  <1> DEFINE N == Cardinality(Nodes)
             at == [k \in 1..N |-> IF k <= Len(s) THEN s[k] ELSE NULL]
  <1>1. /\ Len(s) \in Nat /\ Len(s) <= N /\ N \in Nat
        /\ DOMAIN s = 1..Len(s)
        /\ \A k \in 1..Len(s) : s[k] \in Nodes /\ s[k] # NULL
        /\ s = <<>> <=> Len(s) = 0
    BY ListFacts, QueueAssumption, FS_CardinalityType
  <1> HIDE DEF N
  <1>2. ASSUME NEW k \in 1..N
        PROVE  at[k] = IF k = 1 THEN front
                       ELSE IF at[k - 1] = NULL THEN NULL ELSE next[at[k - 1]]
    <2>1. CASE k = 1
      <3>1. at[k] = IF 1 <= Len(s) THEN s[1] ELSE NULL
        BY <2>1
      <3>2. QED BY <1>1, <2>1, <3>1 DEF Linked
    <2>2. CASE k # 1 /\ k - 1 <= Len(s)
      <3>1. k - 1 \in 1..N /\ k - 1 \in 1..Len(s) /\ (k - 1) + 1 = k
        BY <1>1, <2>2
      <3>2. at[k - 1] = s[k - 1] /\ s[k - 1] # NULL
        BY <1>1, <3>1, <2>2
      <3>3. next[s[k - 1]] = IF k - 1 = Len(s) THEN NULL ELSE s[(k - 1) + 1]
        BY <1>1, <3>1 DEF Linked
      <3>4. at[k] = IF k - 1 = Len(s) THEN NULL ELSE s[k]
        BY <1>1, <2>2
      <3>5. QED BY <2>2, <3>1, <3>2, <3>3, <3>4
    <2>3. CASE k # 1 /\ ~(k - 1 <= Len(s))
      <3>1. k - 1 \in 1..N /\ ~(k <= Len(s))
        BY <1>1, <2>3
      <3>2. at[k - 1] = NULL /\ at[k] = NULL
        BY <2>3, <3>1
      <3>3. QED BY <2>3, <3>2
    <2>4. QED BY <2>1, <2>2, <2>3
  <1>3. at = [k \in 1..N |-> IF k = 1 THEN front
                             ELSE IF at[k - 1] = NULL THEN NULL ELSE next[at[k - 1]]]
    BY <1>2
  <1> HIDE DEF at
  <1>4. NodeAt = [k \in 1..N |-> IF k = 1 THEN front
                                 ELSE IF NodeAt[k - 1] = NULL THEN NULL ELSE next[NodeAt[k - 1]]]
    BY <1>3 DEF NodeAt, N
  <1>5. \A k \in 1..N : NodeAt[k] = at[k]
    <2> SUFFICES ASSUME NEW j \in 1..N, NodeAt[j] # at[j] PROVE FALSE
      OBVIOUS
    <2> DEFINE Wrong == {k \in 1..N : NodeAt[k] # at[k]}
    <2>1. Wrong \subseteq Nat /\ Wrong # {}
      BY <1>1
    <2>2. PICK k \in Wrong : \A i \in Wrong : k <= i
      BY <2>1, LeastNumber
    <2>3. k \in 1..N /\ NodeAt[k] # at[k]
      BY <2>2
    <2>4. k # 1
      BY <1>2, <1>4, <2>3
    <2>5. k - 1 \in 1..N /\ k - 1 \notin Wrong
      BY <1>1, <2>2, <2>3, <2>4
    <2>6. NodeAt[k - 1] = at[k - 1]
      BY <2>5
    <2>7. NodeAt[k] = IF NodeAt[k - 1] = NULL THEN NULL ELSE next[NodeAt[k - 1]]
      BY <1>4, <2>3, <2>4
    <2>8. at[k] = IF at[k - 1] = NULL THEN NULL ELSE next[at[k - 1]]
      BY <1>2, <2>3, <2>4
    <2>9. QED BY <2>3, <2>6, <2>7, <2>8
  <1>6. QED BY <1>5 DEF at, N

-----------------------------------------------------------------------------
(* Types, the lock and the progress of a call.                             *)

\* The calls that a thread may be in.
LEMMA CallKinds ==
  /\ \A o \in Calls : \/ o = <<"empty">>
                      \/ o = <<"remove">>
                      \/ o \in {<<"add", n>> : n \in Names}
  /\ \A o \in Calls : o[1] \in {"empty", "remove", "add"} /\ o # NoOp
  /\ \A o \in {<<"add", n>> : n \in Names} :
       o \in Calls /\ o[1] = "add" /\ o[2] \in Names /\ o # <<"remove">> /\ o # <<"empty">>
  /\ <<"remove">> \in Calls /\ <<"empty">> \in Calls
  /\ <<"remove">>[1] = "remove" /\ <<"empty">>[1] = "empty" /\ <<"remove">> # <<"empty">>
  BY DEF Calls, NoOp

\* The nodes of a list are live, so there is at most one of them for each block.
LEMMA ListRoom ==
  ASSUME TypeOK, CallInv, NEW s \in Lists, CountInv(s)
  PROVE  /\ Len(s) \in Nat /\ entries \in Nat
         /\ \A c \in Callers : pc[c] = "count" => entries + 1 = Len(s)
         /\ \A c \in Callers : pc[c] = "uncount" => entries > 0
  <1>1. Cardinality(Nodes) \in Nat
    BY QueueAssumption, FS_CardinalityType
  <1>2. Len(s) \in Nat /\ entries \in Nat
    BY <1>1, ListFacts DEF TypeOK
  <1>3. QED BY <1>2 DEF CountInv

\* Every step keeps the types.
LEMMA TypeStep ==
  ASSUME QueueInv, [Next]_vars
  PROVE  TypeOK'
  <1> USE DEF QueueInv, TypeOK
  <1>n. Cardinality(Nodes) \in Nat
    BY QueueAssumption, FS_CardinalityType
  <1>s. PICK s \in Lists : Linked(s) /\ CountInv(s)
    BY DEF ListInv
  <1>l. /\ Len(s) \in Nat /\ Len(s) <= Cardinality(Nodes)
        /\ \A c \in Callers : pc[c] = "count" => entries + 1 = Len(s)
        /\ \A c \in Callers : pc[c] = "uncount" => entries > 0
    BY <1>s, ListFacts, ListRoom
  <1>1. ASSUME NEW c \in Callers, Call(c), UNCHANGED destroyed PROVE TypeOK'
    BY <1>1 DEF Call, Goto, Labels, queueVars, heapVars
  <1>2. ASSUME NEW c \in Callers, Lock(c) \/ Unlock(c), UNCHANGED destroyed PROVE TypeOK'
    <2>1. pc[c] = "lock" => op[c] \in Calls
      BY DEF CallInv
    <2>2. pc[c] = "lock" => op[c][1] \in Labels
      BY <2>1, CallKinds DEF Labels
    <2>3. QED BY <1>2, <2>2 DEF Lock, Unlock, Goto, Labels, queueVars, heapVars, callVars
  <1>3. ASSUME NEW c \in Callers, Return(c), UNCHANGED destroyed PROVE TypeOK'
    BY <1>3 DEF Return, Answer, Goto, Labels, queueVars, heapVars
  <1>4. ASSUME NEW c \in Callers, ReadEntries(c), UNCHANGED destroyed PROVE TypeOK'
    BY <1>4 DEF ReadEntries, Answer, Goto, Labels, queueVars, heapVars
  <1>5. ASSUME NEW c \in Callers, AllocateEntry(c), UNCHANGED destroyed PROVE TypeOK'
    <2>1. op[c][2] \in Names
      BY <1>5, CallKinds DEF AllocateEntry, CallInv
    <2>2. QED BY <1>5, <2>1 DEF AllocateEntry, Answer, Goto, Labels, queueVars, heapVars
  <1>6. ASSUME NEW c \in Callers, LinkEntry(c), UNCHANGED destroyed PROVE TypeOK'
    <2>1. entry[c] \in Nodes
      BY <1>6 DEF LinkEntry, CallInv
    <2>2. QED BY <1>6, <2>1 DEF LinkEntry, Goto, Labels, callVars
  <1>7. ASSUME NEW c \in Callers, CountEntry(c), UNCHANGED destroyed PROVE TypeOK'
    <2>1. entries + 1 \in 0..Cardinality(Nodes)
      BY <1>n, <1>l, <1>7 DEF CountEntry
    <2>2. QED BY <1>7, <2>1 DEF CountEntry, Answer, Goto, Labels, heapVars
  <1>8. ASSUME NEW c \in Callers, TakeFront(c), UNCHANGED destroyed PROVE TypeOK'
    <2>1. entries # 0 => front \in Nodes
      <3>1. \A d \in Callers \ {c} : pc[d] \notin {"count", "uncount"}
        BY <1>8 DEF TakeFront, LockInv
      <3>2. entries = Len(s)
        BY <1>8, <1>s, <3>1 DEF TakeFront, CountInv
      <3>3. QED BY <1>s, <1>l, <3>2, ListFacts DEF Linked
    <2>2. QED BY <1>8, <2>1 DEF TakeFront, Answer, Goto, Labels, heapVars
  <1>9. ASSUME NEW c \in Callers, UncountEntry(c), UNCHANGED destroyed PROVE TypeOK'
    <2>1. entries - 1 \in 0..Cardinality(Nodes)
      BY <1>n, <1>l, <1>9 DEF UncountEntry
    <2>2. entry[c] \in Nodes
      BY <1>9 DEF UncountEntry, CallInv
    <2>3. name[entry[c]] \in Names \cup {NoName}
      BY <2>2
    <2>4. QED BY <1>9, <2>1, <2>3 DEF UncountEntry, Answer, Goto, Labels, heapVars
  <1>10. CASE Destroy \/ UNCHANGED vars
    BY <1>10 DEF Destroy, vars, queueVars, heapVars, callVars
  <1>11. QED
    BY <1>1, <1>2, <1>3, <1>4, <1>5, <1>6, <1>7, <1>8, <1>9, <1>10 DEF Next, Step, Stop

\* Every step keeps the lock with who is between locking and unlocking.
LEMMA LockStep ==
  ASSUME QueueInv, [Next]_vars
  PROVE  LockInv'
  <1> USE DEF QueueInv, LockInv
  <1>p. pc \in [Callers -> Labels] /\ NoThread \notin Callers
    BY QueueAssumption DEF TypeOK
  <1>1. ASSUME NEW c \in Callers, Call(c) \/ Return(c) PROVE LockInv'
    BY <1>p, <1>1 DEF Call, Return, Goto
  <1>2. ASSUME NEW c \in Callers, Lock(c) PROVE LockInv'
    <2>1. op[c][1] \notin {"idle", "lock", "returned"}
      BY <1>2, CallKinds DEF Lock, CallInv, TypeOK
    <2>2. QED BY <1>p, <1>2, <2>1 DEF Lock, Goto
  <1>3. ASSUME NEW c \in Callers, Unlock(c) PROVE LockInv'
    BY <1>p, <1>3 DEF Unlock, Goto
  <1>4. ASSUME NEW c \in Callers,
               \/ ReadEntries(c) \/ AllocateEntry(c) \/ LinkEntry(c)
               \/ CountEntry(c) \/ TakeFront(c) \/ UncountEntry(c)
        PROVE  LockInv'
    <2>1. /\ lock' = lock
          /\ pc[c] \notin {"idle", "lock", "returned"}
          /\ \E label \in {"unlock", "link", "count", "uncount"} : Goto(c, label)
      BY <1>4 DEF ReadEntries, AllocateEntry, LinkEntry, CountEntry, TakeFront, UncountEntry
    <2>2. QED BY <1>p, <2>1 DEF Goto
  <1>5. CASE Destroy \/ UNCHANGED vars
    BY <1>5 DEF Destroy, vars
  <1>6. QED BY <1>1, <1>2, <1>3, <1>4, <1>5 DEF Next, Step, Stop

\* At most one thread is between locking and unlocking.
LEMMA OneInside ==
  ASSUME LockInv, NEW c \in Callers, pc[c] \notin {"idle", "lock", "returned"}
  PROVE  \A d \in Callers \ {c} : pc[d] \in {"idle", "lock", "returned"}
  BY DEF LockInv

\* Every step keeps what a call knows.
LEMMA CallStep ==
  ASSUME QueueInv, [Next]_vars
  PROVE  CallInv'
  <1> USE DEF QueueInv, CallInv
  <1>p. /\ pc \in [Callers -> Labels]
        /\ op \in [Callers -> Calls \cup {NoOp}]
        /\ entry \in [Callers -> Nodes \cup {NULL}]
        /\ name \in [Nodes -> Names \cup {NoName}]
        /\ result \in [Callers -> Names \cup {Empty, NotEmpty, Success, Failure, NoName, Nothing}]
        /\ NULL \notin Nodes
        /\ Nothing \notin Names \cup {Empty, NotEmpty, Success, Failure, NoName}
    BY QueueAssumption DEF TypeOK, Nothing, Empty, NotEmpty, Success, Failure, NoName
  <1>1. ASSUME NEW c \in Callers, Call(c) PROVE CallInv'
    BY <1>p, <1>1, CallKinds DEF Call, Goto, heapVars
  <1>2. ASSUME NEW c \in Callers, Lock(c) PROVE CallInv'
    <2>1. /\ op[c][1] = "empty" => op[c] = <<"empty">>
          /\ op[c][1] = "remove" => op[c] = <<"remove">>
          /\ op[c][1] = "add" => op[c] \in {<<"add", n>> : n \in Names}
          /\ op[c][1] \in {"empty", "remove", "add"}
      BY <1>p, <1>2, CallKinds DEF Lock
    <2>2. QED BY <1>p, <1>2, <2>1 DEF Lock, Goto, heapVars, callVars
  <1>3. ASSUME NEW c \in Callers, Unlock(c) PROVE CallInv'
    BY <1>p, <1>3 DEF Unlock, Goto, heapVars, callVars
  <1>4. ASSUME NEW c \in Callers, Return(c) PROVE CallInv'
    BY <1>p, <1>4 DEF Return, Answer, Goto, heapVars
  <1>5. ASSUME NEW c \in Callers, ReadEntries(c) PROVE CallInv'
    <2>1. \E r \in {Empty, NotEmpty} : Answer(c, r)
      BY <1>5 DEF ReadEntries
    <2>2. QED BY <1>p, <1>5, <2>1 DEF ReadEntries, Answer, Goto, heapVars
  <1>6. ASSUME NEW c \in Callers, AllocateEntry(c) PROVE CallInv'
    <2>1. \A d \in Callers \ {c} : pc[d] \notin {"link", "count"}
      BY <1>6, OneInside DEF AllocateEntry
    <2>2. QED BY <1>p, <1>6, <2>1 DEF AllocateEntry, Answer, Goto, heapVars
  <1>7. ASSUME NEW c \in Callers, LinkEntry(c) PROVE CallInv'
    BY <1>p, <1>7 DEF LinkEntry, Goto, callVars
  <1>8. ASSUME NEW c \in Callers, CountEntry(c) PROVE CallInv'
    BY <1>p, <1>8 DEF CountEntry, Answer, Goto, heapVars
  <1>9. ASSUME NEW c \in Callers, TakeFront(c) PROVE CallInv'
    <2>1. entries # 0 => front # NULL
      <3>1. PICK s \in Lists : Linked(s) /\ CountInv(s)
        BY DEF ListInv
      <3>2. \A d \in Callers : pc[d] \notin {"count", "uncount"}
        BY <1>9, OneInside DEF TakeFront
      <3>3. entries = Len(s)
        BY <3>1, <3>2 DEF CountInv
      <3>4. QED BY <1>p, <3>1, <3>3, ListFacts DEF Linked
    <2>2. QED BY <1>p, <1>9, <2>1 DEF TakeFront, Answer, Goto, heapVars
  <1>10. ASSUME NEW c \in Callers, UncountEntry(c) PROVE CallInv'
    <2>1. name[entry[c]] \in Names \cup {NoName}
      BY <1>p, <1>10 DEF UncountEntry
    <2>2. QED BY <1>p, <1>10, <2>1 DEF UncountEntry, Answer, Goto, heapVars
  <1>11. CASE Destroy \/ UNCHANGED vars
    BY <1>11 DEF Destroy, vars, heapVars, callVars
  <1>12. QED
    BY <1>1, <1>2, <1>3, <1>4, <1>5, <1>6, <1>7, <1>8, <1>9, <1>10, <1>11 DEF Next, Step, Stop

-----------------------------------------------------------------------------
(* The list.                                                               *)

\* All that the invariant says of the list.
ListIs(s) == Linked(s) /\ CountInv(s) /\ HeldInv(s)

\* The count when nobody is between a link and its count.
LEMMA CountSettled ==
  ASSUME LockInv, NEW c \in Callers,
         pc[c] \notin {"idle", "lock", "returned", "count", "uncount"}, NEW s, CountInv(s)
  PROVE  entries = Len(s) /\ (s = <<>> => rear = NULL)
  BY OneInside DEF CountInv

\* What a list looks like with one more node at the rear.
LEMMA LinkedAtRear ==
  ASSUME NEW s \in Lists, IsInjective(s), NEW e \in Nodes, e \notin Range(s)
  PROVE  /\ Append(s, e) \in Lists /\ IsInjective(Append(s, e))
         /\ Len(Append(s, e)) = Len(s) + 1
         /\ DOMAIN Append(s, e) = 1..(Len(s) + 1)
         /\ \A k \in 1..Len(s) : Append(s, e)[k] = s[k]
         /\ Append(s, e)[Len(s) + 1] = e
         /\ Range(Append(s, e)) = Range(s) \cup {e}
         /\ Append(s, e) # <<>>
  <1> DEFINE r == Append(s, e)
  <1>1. /\ s \in Seq(Nodes) /\ Len(s) \in Nat /\ DOMAIN s = 1..Len(s)
    BY ListFacts
  <1>2. /\ r \in Seq(Nodes) /\ Len(r) = Len(s) + 1
        /\ DOMAIN r = 1..(Len(s) + 1)
        /\ \A k \in 1..Len(s) : r[k] = s[k]
        /\ r[Len(s) + 1] = e
        /\ r # <<>>
    BY <1>1, AppendProperties, LenProperties
  <1> HIDE DEF r
  <1>3. 1..(Len(s) + 1) = 1..Len(s) \cup {Len(s) + 1}
    BY <1>1
  <1>4. Range(r) = Range(s) \cup {e}
    BY <1>1, <1>2, <1>3 DEF Range
  <1>5. IsInjective(r)
    BY <1>1, <1>2, <1>3 DEF Range, IsInjective
  <1>6. r \in Lists
    BY <1>2, <1>5, InjectiveIsList
  <1>7. QED BY <1>2, <1>4, <1>5, <1>6 DEF r

\* What a list looks like without its front.
LEMMA WithoutFront ==
  ASSUME NEW s \in Lists, IsInjective(s), s # <<>>
  PROVE  /\ Tail(s) \in Lists /\ IsInjective(Tail(s))
         /\ Len(s) \in Nat \ {0}
         /\ Len(Tail(s)) = Len(s) - 1
         /\ DOMAIN Tail(s) = 1..(Len(s) - 1)
         /\ \A k \in 1..(Len(s) - 1) : Tail(s)[k] = s[k + 1] /\ k + 1 \in 1..Len(s)
         /\ Range(Tail(s)) = Range(s) \ {s[1]}
         /\ s[1] \in Range(s)
  <1> DEFINE r == Tail(s)
  <1>1. /\ s \in Seq(Nodes) /\ Len(s) \in Nat \ {0} /\ DOMAIN s = 1..Len(s)
    BY ListFacts
  <1>2. /\ r \in Seq(Nodes) /\ Len(r) = Len(s) - 1
        /\ DOMAIN r = 1..(Len(s) - 1)
        /\ \A k \in 1..(Len(s) - 1) : r[k] = s[k + 1]
    BY <1>1, HeadTailProperties, LenProperties
  <1> HIDE DEF r
  <1>3. /\ \A k \in 1..(Len(s) - 1) : k + 1 \in 1..Len(s) /\ k + 1 # 1
        /\ \A k \in 1..Len(s) : k # 1 => k - 1 \in 1..(Len(s) - 1) /\ (k - 1) + 1 = k
        /\ \A i, j \in 1..(Len(s) - 1) : i + 1 = j + 1 => i = j
        /\ 1 \in 1..Len(s)
    BY <1>1
  <1>i. \A i, j \in 1..Len(s) : s[i] = s[j] => i = j
    BY <1>1 DEF IsInjective
  <1>4. IsInjective(r)
    <2>1. ASSUME NEW i \in 1..(Len(s) - 1), NEW j \in 1..(Len(s) - 1), r[i] = r[j] PROVE i = j
      BY <1>2, <1>3, <1>i, <2>1
    <2>2. QED BY <1>2, <2>1 DEF IsInjective
  <1>5. Range(r) = Range(s) \ {s[1]}
    <2>1. ASSUME NEW k \in 1..(Len(s) - 1) PROVE r[k] \in Range(s) \ {s[1]}
      <3>1. r[k] = s[k + 1] /\ s[k + 1] # s[1]
        BY <1>2, <1>3, <1>i
      <3>2. QED BY <1>1, <1>3, <3>1 DEF Range
    <2>2. ASSUME NEW k \in 1..Len(s), k # 1 PROVE s[k] \in Range(r)
      <3>1. r[k - 1] = s[k] /\ k - 1 \in DOMAIN r
        BY <1>2, <1>3, <2>2
      <3>2. QED BY <3>1 DEF Range
    <2>3. QED BY <1>1, <1>2, <2>1, <2>2 DEF Range
  <1>6. r \in Lists
    BY <1>2, <1>4, InjectiveIsList
  <1>7. s[1] \in Range(s)
    BY <1>1, <1>3 DEF Range
  <1>8. QED BY <1>1, <1>2, <1>3, <1>4, <1>5, <1>6, <1>7 DEF r

\* The calls and returns that leave the list alone.
LEMMA ListStepOutside ==
  ASSUME QueueInv, NEW c \in Callers,
         Call(c) \/ Lock(c) \/ Unlock(c) \/ Return(c) \/ ReadEntries(c),
         NEW s \in Lists, ListIs(s)
  PROVE  ListIs(s)'
  <1> USE DEF QueueInv
  <1>p. /\ pc \in [Callers -> Labels]
        /\ op \in [Callers -> Calls \cup {NoOp}]
        /\ entry \in [Callers -> Nodes \cup {NULL}]
        /\ allocated \subseteq Nodes
        /\ NULL \notin Nodes
    BY QueueAssumption DEF TypeOK
  <1>s. Linked(s) /\ CountInv(s) /\ HeldInv(s)
    BY DEF ListIs
  <1>1. UNCHANGED <<queueVars, next>>
    BY DEF Call, Lock, Unlock, Return, ReadEntries, heapVars
  <1>2. \A d \in Callers : pc'[d] \in {"count", "uncount", "link"} <=>
                           pc[d] \in {"count", "uncount", "link"}
    <2>1. pc[c] \notin {"count", "uncount", "link"}
      BY DEF Call, Lock, Unlock, Return, ReadEntries
    <2>2. pc[c] = "lock" => op[c][1] \in {"empty", "remove", "add"}
      BY <1>p, CallKinds DEF CallInv
    <2>3. PICK label : Goto(c, label) /\ label \notin {"count", "uncount", "link"}
      BY <2>2 DEF Call, Lock, Unlock, Return, ReadEntries
    <2>4. QED BY <1>p, <2>1, <2>3 DEF Goto
  <1>3. \A d \in Callers : pc[d] \in {"count", "uncount", "link"} =>
                           pc'[d] = pc[d] /\ entry'[d] = entry[d]
    <2>1. pc[c] \notin {"count", "uncount", "link"}
      BY DEF Call, Lock, Unlock, Return, ReadEntries
    <2>2. \A d \in Callers \ {c} : pc'[d] = pc[d] /\ entry'[d] = entry[d]
      BY <1>p DEF Call, Lock, Unlock, Return, ReadEntries, Goto, callVars
    <2>3. QED BY <2>1, <2>2
  <1>4. CountInv(s)'
    BY <1>s, <1>1, <1>2, <1>3 DEF CountInv, queueVars
  <1>5. CASE ~Return(c)
    <2>1. allocated' = allocated /\ entry' = entry
      BY <1>5 DEF Call, Lock, Unlock, ReadEntries, callVars
    <2>2. \A d \in Callers : Holds(d)' => Holds(d)
      BY <1>2, <1>3, <1>5, <1>p DEF Holds, Call, Lock, Unlock, ReadEntries, CallInv, callVars
    <2>3. HeldInv(s)'
      BY <1>s, <1>1, <1>2, <1>3, <2>1, <2>2 DEF HeldInv
    <2>4. Linked(s)'
      BY <1>s, <1>1, <2>1 DEF Linked, queueVars
    <2>5. QED BY <1>4, <2>3, <2>4 DEF ListIs
  <1>6. CASE Return(c)
    <2>1. /\ entry' = [entry EXCEPT ![c] = NULL]
          /\ op' = [op EXCEPT ![c] = NoOp]
          /\ \/ op[c] = <<"remove">> /\ allocated' = allocated \ {entry[c]}
             \/ allocated' = allocated
      BY <1>6 DEF Return
    <2>2. ~Holds(c)' /\ \A d \in Callers \ {c} : Holds(d)' => Holds(d) /\ entry'[d] = entry[d]
      BY <1>p, <1>2, <1>3, <2>1 DEF Holds
    <2>3. Range(s) \subseteq allocated'
      BY <1>p, <1>s, <2>1 DEF Linked, HeldInv, Holds
    <2>4. Linked(s)'
      BY <1>s, <1>1, <2>3 DEF Linked, queueVars
    <2>5. ASSUME NEW d \in Callers \ {c}, Holds(d) PROVE entry[d] \in allocated'
      BY <1>p, <1>s, <2>1, <2>5 DEF HeldInv, Holds
    <2>6. HeldInv(s)'
      BY <1>s, <1>1, <1>2, <1>3, <2>2, <2>5 DEF HeldInv
    <2>7. QED BY <1>4, <2>4, <2>6 DEF ListIs
  <1>7. QED BY <1>5, <1>6

\* sync_q_add: a block that nobody uses becomes a node, is linked and counted.
LEMMA ListStepAdd ==
  ASSUME QueueInv, NEW c \in Callers, AllocateEntry(c) \/ LinkEntry(c) \/ CountEntry(c),
         NEW s \in Lists, ListIs(s)
  PROVE  \E r \in Lists :
            ListIs(r)' /\ r = IF pc[c] = "link" THEN Append(s, entry[c]) ELSE s
  <1> USE DEF QueueInv
  <1>p. /\ pc \in [Callers -> Labels]
        /\ op \in [Callers -> Calls \cup {NoOp}]
        /\ entry \in [Callers -> Nodes \cup {NULL}]
        /\ next \in [Nodes -> Nodes \cup {NULL}]
        /\ allocated \subseteq Nodes
        /\ NULL \notin Nodes
    BY QueueAssumption DEF TypeOK
  <1>s. Linked(s) /\ CountInv(s) /\ HeldInv(s)
    BY DEF ListIs
  <1>f. /\ Len(s) \in Nat /\ DOMAIN s = 1..Len(s)
        /\ \A k \in 1..Len(s) : s[k] \in Nodes /\ s[k] \in Range(s)
        /\ s = <<>> <=> Len(s) = 0
    BY ListFacts DEF Range
  <1>i. /\ \A d \in Callers \ {c} : pc[d] \in {"idle", "lock", "returned"}
        /\ op[c] # <<"remove">>
    BY OneInside, CallKinds DEF AllocateEntry, LinkEntry, CountEntry, CallInv
  <1>1. CASE AllocateEntry(c)
    <2>c. entries = Len(s) /\ (s = <<>> => rear = NULL)
      BY <1>1, <1>s, CountSettled DEF AllocateEntry
    <2>1. CASE allocated' = allocated /\ entry' = entry /\ Goto(c, "unlock") /\ UNCHANGED heapVars
      <3>1. UNCHANGED <<queueVars, next, op>>
        BY <1>1, <2>1 DEF AllocateEntry, heapVars
      <3>2. pc' = [pc EXCEPT ![c] = "unlock"]
        BY <2>1 DEF Goto
      <3>3. \A d \in Callers : Holds(d)' => Holds(d)
        BY <1>p, <2>1, <3>1, <3>2 DEF Holds
      <3>4. Linked(s)' /\ CountInv(s)' /\ HeldInv(s)'
        BY <1>p, <1>s, <1>i, <2>c, <2>1, <3>1, <3>2, <3>3 DEF Linked, CountInv, HeldInv, queueVars
      <3>5. QED BY <1>1, <3>4 DEF ListIs, AllocateEntry
    <2>2. ASSUME NEW n \in Nodes \ allocated,
                 allocated' = allocated \cup {n},
                 entry' = [entry EXCEPT ![c] = n],
                 next' = [next EXCEPT ![n] = NULL],
                 Goto(c, "link")
          PROVE  \E r \in Lists :
                   ListIs(r)' /\ r = IF pc[c] = "link" THEN Append(s, entry[c]) ELSE s
      <3>1. UNCHANGED <<queueVars, op>>
        BY <1>1 DEF AllocateEntry
      <3>2. pc' = [pc EXCEPT ![c] = "link"]
        BY <2>2 DEF Goto
      <3>3. \A k \in 1..Len(s) : s[k] # n
        BY <1>f, <1>s, <2>2 DEF Linked
      <3>4. Linked(s)'
        BY <1>p, <1>f, <1>s, <2>2, <3>1, <3>3 DEF Linked, queueVars
      <3>5. CountInv(s)'
        BY <1>p, <1>i, <2>c, <3>1, <3>2 DEF CountInv, queueVars
      <3>6. entry'[c] = n /\ next'[n] = NULL /\ n \in allocated' /\ n \notin Range(s)
        BY <1>p, <1>s, <2>2 DEF Linked
      <3>7. \A d \in Callers \ {c} : /\ Holds(d)' => Holds(d) /\ entry[d] \in allocated
                                    /\ entry'[d] = entry[d] /\ pc'[d] = pc[d]
        BY <1>p, <1>s, <2>2, <3>1, <3>2 DEF Holds, HeldInv
      <3>8. HeldInv(s)'
        BY <1>i, <1>s, <2>2, <3>6, <3>7 DEF HeldInv
      <3>9. QED BY <1>1, <3>4, <3>5, <3>8 DEF ListIs, AllocateEntry
    <2>3. QED BY <1>1, <2>1, <2>2 DEF AllocateEntry
  <1>2. CASE LinkEntry(c)
    <2>c. entries = Len(s)
      BY <1>2, <1>s, CountSettled DEF LinkEntry
    <2>e. PICK e \in Nodes : e = entry[c]
      BY <1>2, <1>p DEF LinkEntry, CallInv
    <2> DEFINE r == Append(s, e)
    <2>1. /\ pc[c] = "link" /\ e \in Nodes /\ e \in allocated /\ e \notin Range(s) /\ next[e] = NULL
          /\ \A d \in Callers \ {c} : Holds(d) => entry[d] # e
      BY <1>2, <1>p, <1>s, <2>e DEF LinkEntry, CallInv, HeldInv, Holds
    <2>2. /\ UNCHANGED <<entries, allocated, op, entry>>
          /\ rear' = e
          /\ front' = IF s = <<>> THEN e ELSE front
          /\ next' = IF s = <<>> THEN next ELSE [next EXCEPT ![rear] = e]
          /\ pc' = [pc EXCEPT ![c] = "count"]
      BY <1>2, <1>f, <2>c, <2>e DEF LinkEntry, Goto, callVars
    <2>3. IsInjective(s)
      BY <1>s DEF Linked
    <2>4. /\ r \in Lists /\ IsInjective(r)
          /\ Len(r) = Len(s) + 1
          /\ DOMAIN r = 1..(Len(s) + 1)
          /\ \A k \in 1..Len(s) : r[k] = s[k]
          /\ r[Len(s) + 1] = e
          /\ Range(r) = Range(s) \cup {e}
          /\ r # <<>>
      BY <2>1, <2>3, LinkedAtRear
    <2> HIDE DEF r
    <2>5. \A k \in 1..(Len(s) + 1) : next'[r[k]] = IF k = Len(r) THEN NULL ELSE r[k + 1]
      <3>1. CASE s = <<>>
        <4>1. Len(s) = 0
          BY <1>f, <3>1
        <4>2. QED BY <2>1, <2>2, <2>4, <3>1, <4>1
      <3>2. CASE s # <<>>
        <4>1. Len(s) \in 1..Len(s) /\ rear = s[Len(s)] /\ rear \in Nodes /\ rear # e
          BY <1>f, <1>s, <2>1, <3>2 DEF Linked
        <4>2. ASSUME NEW k \in 1..Len(s), k # Len(s) PROVE next'[r[k]] = r[k + 1]
          <5>1. k \in Nat /\ k + 1 \in 1..Len(s)
            <6>1. Len(s) \in Nat
              BY <1>f
            <6>2. QED BY <6>1, <4>2
          <5>2. s[k] # rear /\ next[s[k]] = s[k + 1]
            BY <1>f, <1>s, <2>3, <4>1, <4>2 DEF Linked, IsInjective
          <5>3. QED BY <1>p, <2>2, <2>4, <3>2, <5>1, <5>2
        <4>3. next'[rear] = e /\ next'[e] = NULL
          BY <1>p, <2>1, <2>2, <3>2, <4>1
        <4>4. next'[r[Len(s)]] = r[Len(s) + 1]
          BY <2>4, <4>1, <4>3
        <4>5. next'[r[Len(s) + 1]] = NULL
          BY <2>4, <4>3
        <4>6. ASSUME NEW k \in 1..(Len(s) + 1)
              PROVE  next'[r[k]] = IF k = Len(r) THEN NULL ELSE r[k + 1]
          <5>n. Len(s) \in Nat
            BY <1>f
          <5>1. k = Len(s) + 1 \/ k = Len(s) \/ (k \in 1..Len(s) /\ k # Len(s))
            BY <5>n
          <5>2. Len(s) # Len(s) + 1 /\ (k \in 1..Len(s) => k # Len(s) + 1)
            BY <5>n
          <5>3. QED BY <2>4, <4>2, <4>4, <4>5, <5>1, <5>2
        <4>7. QED BY <4>6
      <3>3. QED BY <3>1, <3>2
    <2>6. front' = r[1]
      BY <1>f, <1>s, <2>2, <2>4 DEF Linked
    <2>7. Linked(r)'
      BY <1>s, <2>1, <2>2, <2>4, <2>5, <2>6 DEF Linked
    <2>8. CountInv(r)'
      <3>1. pc'[c] = "count" /\ \A d \in Callers \ {c} : pc'[d] \notin {"count", "uncount"}
        BY <1>p, <1>i, <2>2
      <3>2. r # <<>> /\ entries' = Len(r) - 1 /\ entry'[c] = r[Len(r)]
        BY <1>f, <2>c, <2>2, <2>4, <2>e
      <3>3. QED BY <3>1, <3>2 DEF CountInv
    <2>9. \A d \in Callers : Holds(d)' => Holds(d) /\ d # c /\ pc'[d] = pc[d]
      BY <1>p, <1>i, <2>2 DEF Holds
    <2>10. HeldInv(r)'
      BY <1>s, <1>i, <2>1, <2>2, <2>4, <2>9 DEF HeldInv
    <2>11. ListIs(r)' /\ r = Append(s, entry[c])
      BY <2>e, <2>7, <2>8, <2>10 DEF ListIs, r
    <2>12. QED BY <2>1, <2>4, <2>11
  <1>3. CASE CountEntry(c)
    <2>1. /\ pc' = [pc EXCEPT ![c] = "unlock"]
          /\ entries' = entries + 1
          /\ UNCHANGED <<front, rear, next, allocated, op, entry>>
      BY <1>3 DEF CountEntry, Goto, heapVars
    <2>2. s # <<>> /\ entries = Len(s) - 1
      BY <1>3, <1>s DEF CountEntry, CountInv
    <2>3. \A d \in Callers : Holds(d)' => Holds(d) /\ d # c /\ pc'[d] = pc[d]
      BY <1>p, <1>i, <2>1 DEF Holds
    <2>4. Linked(s)'
      BY <1>s, <2>1 DEF Linked
    <2>5. CountInv(s)'
      <3>1. \A d \in Callers : pc'[d] \notin {"count", "uncount"}
        BY <1>p, <1>i, <2>1
      <3>2. s # <<>> /\ entries' = Len(s)
        BY <1>f, <2>1, <2>2
      <3>3. QED BY <3>1, <3>2 DEF CountInv
    <2>6. HeldInv(s)'
      BY <1>s, <2>1, <2>3 DEF HeldInv
    <2>7. QED BY <1>3, <2>4, <2>5, <2>6 DEF ListIs, CountEntry
  <1>4. QED BY <1>1, <1>2, <1>3

\* sync_q_remove: the front leaves the list, and the count follows.
LEMMA ListStepRemove ==
  ASSUME QueueInv, NEW c \in Callers, TakeFront(c) \/ UncountEntry(c),
         NEW s \in Lists, ListIs(s)
  PROVE  \E r \in Lists :
            ListIs(r)' /\ r = IF pc[c] = "remove" /\ entries # 0 THEN Tail(s) ELSE s
  <1> USE DEF QueueInv
  <1>p. /\ pc \in [Callers -> Labels]
        /\ op \in [Callers -> Calls \cup {NoOp}]
        /\ entry \in [Callers -> Nodes \cup {NULL}]
        /\ next \in [Nodes -> Nodes \cup {NULL}]
        /\ allocated \subseteq Nodes
        /\ NULL \notin Nodes
    BY QueueAssumption DEF TypeOK
  <1>s. Linked(s) /\ CountInv(s) /\ HeldInv(s)
    BY DEF ListIs
  <1>f. /\ Len(s) \in Nat /\ DOMAIN s = 1..Len(s)
        /\ \A k \in 1..Len(s) : s[k] \in Nodes /\ s[k] \in Range(s)
        /\ s = <<>> <=> Len(s) = 0
    BY ListFacts DEF Range
  <1>i. /\ \A d \in Callers \ {c} : pc[d] \in {"idle", "lock", "returned"}
        /\ op[c] = <<"remove">>
    BY OneInside DEF TakeFront, UncountEntry, CallInv
  <1>1. CASE TakeFront(c)
    <2>c. entries = Len(s) /\ (s = <<>> => rear = NULL)
      BY <1>1, <1>s, CountSettled DEF TakeFront
    <2>1. CASE entries = 0
      <3>1. /\ pc' = [pc EXCEPT ![c] = "unlock"]
            /\ UNCHANGED <<queueVars, next, allocated, op, entry>>
        BY <1>1, <2>1 DEF TakeFront, Goto, heapVars, queueVars
      <3>2. \A d \in Callers : (Holds(d)' => Holds(d)) /\ (pc'[d] = "link" => pc[d] = "link")
        BY <1>p, <3>1 DEF Holds
      <3>3. Linked(s)' /\ CountInv(s)' /\ HeldInv(s)'
        BY <1>p, <1>s, <1>i, <2>c, <3>1, <3>2 DEF Linked, CountInv, HeldInv, queueVars
      <3>4. QED BY <2>1, <3>3 DEF ListIs
    <2>2. CASE entries # 0
      <3> DEFINE r == Tail(s)
      <3>1. s # <<>> /\ IsInjective(s)
        BY <1>f, <1>s, <2>c, <2>2 DEF Linked
      <3>2. /\ r \in Lists /\ IsInjective(r)
            /\ Len(s) \in Nat \ {0}
            /\ Len(r) = Len(s) - 1
            /\ DOMAIN r = 1..(Len(s) - 1)
            /\ \A k \in 1..(Len(s) - 1) : r[k] = s[k + 1] /\ k + 1 \in 1..Len(s)
            /\ Range(r) = Range(s) \ {s[1]}
            /\ s[1] \in Range(s)
        BY <3>1, WithoutFront
      <3> HIDE DEF r
      <3>r. r = <<>> <=> Len(r) = 0
        BY <3>2, ListFacts
      <3>3. /\ pc' = [pc EXCEPT ![c] = "uncount"]
            /\ entry' = [entry EXCEPT ![c] = s[1]]
            /\ front' = next[s[1]]
            /\ UNCHANGED <<entries, rear, next, allocated, op>>
        BY <1>1, <1>s, <2>2, <3>1 DEF TakeFront, Goto, heapVars, Linked
      <3>4. front' = IF r = <<>> THEN NULL ELSE r[1]
        <4>1. 1 \in DOMAIN s
          BY <1>f, <3>2
        <4>2. next[s[1]] = IF 1 = Len(s) THEN NULL ELSE s[1 + 1]
          BY <1>s, <4>1 DEF Linked
        <4>3. 1 = Len(s) <=> r = <<>>
          BY <3>2, <3>r
        <4>4. r # <<>> => 1 \in 1..(Len(s) - 1)
          BY <3>2, <3>r
        <4>5. QED BY <3>2, <3>3, <4>2, <4>3, <4>4
      <3>5. ASSUME NEW k \in 1..(Len(s) - 1)
            PROVE  next[r[k]] = IF k = Len(r) THEN NULL ELSE r[k + 1]
        <4>1. k + 1 \in DOMAIN s /\ r[k] = s[k + 1]
          BY <1>f, <3>2
        <4>2. next[s[k + 1]] = IF k + 1 = Len(s) THEN NULL ELSE s[(k + 1) + 1]
          BY <1>s, <4>1 DEF Linked
        <4>3. k + 1 = Len(s) <=> k = Len(r)
          BY <3>2
        <4>4. k # Len(r) => k + 1 \in 1..(Len(s) - 1)
          BY <3>2
        <4>5. QED BY <3>2, <4>1, <4>2, <4>3, <4>4
      <3>6. r # <<>> => rear = r[Len(r)]
        <4>1. rear = s[Len(s)]
          BY <1>s, <3>1 DEF Linked
        <4>2. r # <<>> => Len(r) \in 1..(Len(s) - 1) /\ Len(r) + 1 = Len(s)
          BY <3>2, <3>r
        <4>3. QED BY <3>2, <4>1, <4>2
      <3>7. Linked(r)'
        BY <1>s, <3>2, <3>3, <3>4, <3>5, <3>6 DEF Linked
      <3>8. CountInv(r)'
        BY <1>p, <1>i, <2>c, <3>2, <3>3 DEF CountInv
      <3>9. s[1] \in allocated /\ entry'[c] = s[1] /\ pc'[c] = "uncount" /\ s[1] \notin Range(r)
        BY <1>p, <1>s, <3>2, <3>3 DEF Linked
      <3>10. \A d \in Callers \ {c} : /\ Holds(d)' => Holds(d)
                                      /\ entry'[d] = entry[d] /\ pc'[d] = pc[d]
        BY <1>p, <3>3 DEF Holds
      <3>11. \A d \in Callers \ {c} : Holds(d) => entry[d] # s[1] /\ entry[d] \in allocated \ Range(r)
        BY <1>s, <3>2 DEF HeldInv
      <3>12. HeldInv(r)'
        BY <1>s, <3>3, <3>9, <3>10, <3>11 DEF HeldInv
      <3>13. ListIs(r)' /\ r = Tail(s)
        BY <3>7, <3>8, <3>12 DEF ListIs, r
      <3>14. QED BY <1>1, <2>2, <3>2, <3>13 DEF TakeFront
    <2>3. QED BY <2>1, <2>2
  <1>2. CASE UncountEntry(c)
    <2>1. /\ pc' = [pc EXCEPT ![c] = "unlock"]
          /\ entries' = entries - 1
          /\ rear' = IF entries' = 0 THEN NULL ELSE rear
          /\ UNCHANGED <<front, next, allocated, op, entry>>
      BY <1>2 DEF UncountEntry, Goto, heapVars
    <2>2. entries = Len(s) + 1
      BY <1>2, <1>s DEF UncountEntry, CountInv
    <2>3. \A d \in Callers : (Holds(d)' => Holds(d)) /\ (pc'[d] = "link" => pc[d] = "link")
      BY <1>p, <2>1 DEF Holds
    <2>4. entries' = Len(s) /\ (s = <<>> => rear' = NULL) /\ (s # <<>> => rear' = rear)
      BY <1>f, <2>1, <2>2
    <2>5. Linked(s)'
      BY <1>s, <2>1, <2>4 DEF Linked
    <2>6. CountInv(s)'
      BY <1>p, <1>i, <2>1, <2>4 DEF CountInv
    <2>7. HeldInv(s)'
      BY <1>s, <2>1, <2>3 DEF HeldInv
    <2>8. QED BY <1>2, <2>5, <2>6, <2>7 DEF ListIs, UncountEntry
  <1>3. QED BY <1>1, <1>2

-----------------------------------------------------------------------------
(* The queue is what its count says.                                       *)

\* sync_q_create makes an empty list.
LEMMA QueueInit == Init => QueueInv
  <1> SUFFICES ASSUME Init PROVE QueueInv
    OBVIOUS
  <1>1. TypeOK
    <2>1. 0 \in 0..Cardinality(Nodes)
      <3>1. Cardinality(Nodes) \in Nat
        BY QueueAssumption, FS_CardinalityType
      <3>2. QED BY <3>1
    <2>2. QED BY <2>1 DEF Init, TypeOK, Labels
  <1>2. LockInv
    BY QueueAssumption DEF Init, LockInv
  <1>3. CallInv
    BY DEF Init, CallInv, NoOp
  <1>4. ListInv
    <2>1. <<>> \in Lists
      <3>1. <<>> \in Seq(Nodes) /\ IsInjective(<<>>)
        BY DEF IsInjective
      <3>2. QED BY <3>1, InjectiveIsList
    <2>2. Linked(<<>>) /\ CountInv(<<>>) /\ HeldInv(<<>>)
      BY DEF Init, Linked, CountInv, HeldInv, Holds, IsInjective, Range
    <2>3. QED BY <2>1, <2>2 DEF ListInv
  <1>5. QED BY <1>1, <1>2, <1>3, <1>4 DEF QueueInv

\* Every step keeps the invariant.
LEMMA QueueStep ==
  ASSUME QueueInv, [Next]_vars
  PROVE  QueueInv'
  <1>1. TypeOK' /\ LockInv' /\ CallInv'
    BY TypeStep, LockStep, CallStep
  <1>2. ListInv'
    <2>s. PICK s \in Lists : ListIs(s)
      BY DEF QueueInv, ListInv, ListIs
    <2>1. CASE Destroy \/ UNCHANGED vars
      <3>1. Linked(s) /\ CountInv(s) /\ HeldInv(s)
        BY <2>s DEF ListIs
      <3>2. UNCHANGED <<entries, front, rear, next, allocated, pc, op, entry>>
        BY <2>1 DEF Destroy, vars, queueVars, heapVars, callVars
      <3>3. Linked(s)' /\ CountInv(s)' /\ HeldInv(s)'
        BY <3>1, <3>2 DEF Linked, CountInv, HeldInv, Holds
      <3>4. QED BY <3>3 DEF ListInv
    <2>2. ASSUME NEW c \in Callers, Step(c) PROVE ListInv'
      <3>1. \E r \in Lists : ListIs(r)'
        BY <2>s, <2>2, ListStepOutside, ListStepAdd, ListStepRemove DEF Step
      <3>2. QED BY <3>1 DEF ListInv, ListIs
    <2>3. QED BY <2>1, <2>2 DEF Next, Stop
  <1>3. QED BY <1>1, <1>2 DEF QueueInv

\* The lock, the calls, the list with its count and the nodes that threads
\* hold agree in every state that the functions of sync_queue.c can reach.
THEOREM QueueCorrect == Spec => []QueueInv
  BY QueueInit, QueueStep, PTL DEF Spec

\* TypeOK of SyncQueue: the count never leaves 0..Cardinality(Nodes), and no
\* pointer of the queue is anything but a block or NULL.
THEOREM QueueTypes == Spec => []TypeOK
  <1>1. QueueInv => TypeOK
    BY DEF QueueInv
  <1>2. QED BY <1>1, QueueCorrect, PTL

\* When the lock is free, the count is the length of the list.
LEMMA FreeList ==
  ASSUME QueueInv, lock = NoThread, NEW s \in Lists, Linked(s), CountInv(s)
  PROVE  /\ entries = Len(s) /\ (s = <<>> => rear = NULL)
         /\ \A k \in 1..entries : NodeAt[k] = s[k]
         /\ s = [k \in 1..entries |-> NodeAt[k]]
  <1>1. \A c \in Callers : pc[c] \notin {"count", "uncount"}
    BY QueueAssumption DEF QueueInv, LockInv
  <1>2. entries = Len(s) /\ (s = <<>> => rear = NULL)
    BY <1>1 DEF CountInv
  <1>3. Len(s) \in Nat /\ Len(s) <= Cardinality(Nodes) /\ Cardinality(Nodes) \in Nat
    BY ListFacts, QueueAssumption, FS_CardinalityType
  <1>4. \A k \in 1..Len(s) : NodeAt[k] = s[k]
    <2>1. \A k \in 1..Len(s) : k \in 1..Cardinality(Nodes) /\ k <= Len(s)
      BY <1>3
    <2>2. QED BY <2>1, NodeAtIs
  <1>5. s = [k \in 1..Len(s) |-> s[k]]
    BY ListFacts
  <1>6. QED BY <1>2, <1>4, <1>5

\* ListWellFormed: between two calls entries different live nodes are linked
\* from front, the last of them is rear and ends the list, and an empty queue
\* points nowhere.
THEOREM QueueWellFormed == Spec => []ListWellFormed
  <1>1. QueueInv => ListWellFormed
    <2> SUFFICES ASSUME QueueInv, lock = NoThread
                 PROVE  LET list == [k \in 1..entries |-> NodeAt[k]] IN
                        /\ IsInjective(list)
                        /\ Range(list) \subseteq allocated
                        /\ IF entries = 0
                           THEN front = NULL /\ rear = NULL
                           ELSE rear = list[entries] /\ next[rear] = NULL
      BY DEF ListWellFormed
    <2>1. PICK s \in Lists : Linked(s) /\ CountInv(s)
      BY DEF QueueInv, ListInv
    <2>2. /\ entries = Len(s) /\ (s = <<>> => rear = NULL)
          /\ s = [k \in 1..entries |-> NodeAt[k]]
      BY <2>1, FreeList
    <2>3. /\ IsInjective(s) /\ Range(s) \subseteq allocated
          /\ front = IF s = <<>> THEN NULL ELSE s[1]
          /\ s # <<>> => rear = s[Len(s)]
      BY <2>1 DEF Linked
    <2>4. s # <<>> => Len(s) \in DOMAIN s
      BY ListFacts
    <2>5. s # <<>> => next[s[Len(s)]] = NULL
      BY <2>1, <2>4 DEF Linked
    <2>6. s = <<>> <=> Len(s) = 0
      BY ListFacts
    <2>7. QED BY <2>2, <2>3, <2>5, <2>6
  <1>2. QED BY <1>1, QueueCorrect, PTL

\* RemovedNodesOwned: the node that sync_q_remove returned is the caller's
\* alone until it frees it.
THEOREM QueueNodesOwned == Spec => []RemovedNodesOwned
  <1>1. QueueInv => RemovedNodesOwned
    <2> SUFFICES ASSUME QueueInv, NEW c \in Callers, op[c] = <<"remove">>, entry[c] # NULL
                 PROVE  /\ entry[c] \in allocated
                        /\ \A d \in Callers \ {c} : op[d] = <<"remove">> => entry[d] # entry[c]
                        /\ lock = NoThread => \A k \in 1..entries : NodeAt[k] # entry[c]
      BY DEF RemovedNodesOwned
    <2>1. PICK s \in Lists : Linked(s) /\ CountInv(s) /\ HeldInv(s)
      BY DEF QueueInv, ListInv
    <2>2. Holds(c) /\ \A d \in Callers : op[d] = <<"remove">> /\ entry[d] # NULL => Holds(d)
      BY DEF Holds
    <2>3. /\ entry[c] \in allocated \ Range(s)
          /\ \A d \in Callers \ {c} : op[d] = <<"remove">> => entry[d] # entry[c]
      BY <2>1, <2>2 DEF HeldInv
    <2>4. ASSUME lock = NoThread, NEW k \in 1..entries PROVE NodeAt[k] # entry[c]
      <3>1. entries = Len(s) /\ NodeAt[k] = s[k]
        BY <2>1, <2>4, FreeList
      <3>2. s[k] \in Range(s)
        BY <3>1, ListFacts DEF Range
      <3>3. QED BY <2>3, <3>1, <3>2
    <2>5. QED BY <2>3, <2>4
  <1>2. QED BY <1>1, QueueCorrect, PTL

-----------------------------------------------------------------------------
(* The queue implements AtomicQueue.                                       *)

\* The names in the queue: what AtomicQueue calls items.
Items == [k \in DOMAIN Listed |-> name[Listed[k]]]

\* The names of the first n nodes of s.
NamesOf(s, n) == [k \in 1..n |-> name[s[k]]]

\* One name more at the rear.
LEMMA NamesAppend ==
  ASSUME NEW n \in Nat, NEW f
  PROVE  [k \in 1..(n + 1) |-> f[k]] = Append([k \in 1..n |-> f[k]], f[n + 1])
  <1> DEFINE S == {f[k] : k \in 1..(n + 1)}
             p == [k \in 1..n |-> f[k]]
             q == [k \in 1..(n + 1) |-> f[k]]
  <1>1. \A k \in 1..n : k \in 1..(n + 1)
    OBVIOUS
  <1>2. n + 1 \in Nat /\ n + 1 \in 1..(n + 1)
    OBVIOUS
  <1>3. p \in Seq(S) /\ Len(p) = n
    <2>1. p \in [1..n -> S]
      BY <1>1
    <2>2. QED BY <2>1
  <1>4. q \in Seq(S) /\ Len(q) = n + 1
    <2>1. q \in [1..(n + 1) -> S]
      OBVIOUS
    <2>2. QED BY <1>2, <2>1
  <1>5. f[n + 1] \in S
    BY <1>2
  <1>6. /\ Append(p, f[n + 1]) \in Seq(S) /\ Len(Append(p, f[n + 1])) = n + 1
        /\ \A k \in 1..n : Append(p, f[n + 1])[k] = p[k]
        /\ Append(p, f[n + 1])[n + 1] = f[n + 1]
    BY <1>3, <1>5, AppendProperties
  <1>7. \A k \in 1..(n + 1) : q[k] = Append(p, f[n + 1])[k]
    <2>1. \A k \in 1..(n + 1) : k \in 1..n \/ k = n + 1
      OBVIOUS
    <2>2. QED BY <1>2, <1>6, <2>1
  <1> HIDE DEF S, p, q
  <1>8. q = Append(p, f[n + 1])
    BY <1>4, <1>6, <1>7, SeqEqual
  <1>9. QED BY <1>8 DEF p, q

\* One name less at the front.
LEMMA NamesTail ==
  ASSUME NEW n \in Nat, NEW f, NEW v
  PROVE  LET p == [k \in 1..(n + 1) |-> IF k = 1 THEN v ELSE f[k - 1]] IN
         p # <<>> /\ Head(p) = v /\ Tail(p) = [k \in 1..n |-> f[k]]
  <1> DEFINE S == {f[k] : k \in 1..n} \cup {v}
             p == [k \in 1..(n + 1) |-> IF k = 1 THEN v ELSE f[k - 1]]
             q == [k \in 1..n |-> f[k]]
  <1>1. /\ n + 1 \in Nat /\ n + 1 # 0 /\ (n + 1) - 1 = n /\ 1 \in 1..(n + 1)
        /\ \A k \in 1..(n + 1) : k # 1 => k - 1 \in 1..n
        /\ \A k \in 1..n : k + 1 \in 1..(n + 1) /\ k + 1 # 1 /\ (k + 1) - 1 = k
    OBVIOUS
  <1>2. p \in Seq(S) /\ Len(p) = n + 1
    <2>1. p \in [1..(n + 1) -> S]
      BY <1>1
    <2>2. QED BY <1>1, <2>1
  <1>3. q \in Seq(S) /\ Len(q) = n
    <2>1. q \in [1..n -> S]
      OBVIOUS
    <2>2. QED BY <2>1
  <1>4. p # <<>>
    BY <1>1, <1>2, EmptySeq
  <1>5. p[1] = v /\ \A k \in 1..n : p[k + 1] = q[k]
    BY <1>1
  <1> HIDE DEF S, p, q
  <1>6. /\ Head(p) = p[1] /\ Tail(p) \in Seq(S) /\ Len(Tail(p)) = n
        /\ \A k \in 1..n : Tail(p)[k] = p[k + 1]
    BY <1>1, <1>2, <1>4, HeadTailProperties
  <1>7. Tail(p) = q
    BY <1>3, <1>5, <1>6, SeqEqual
  <1>8. QED BY <1>4, <1>5, <1>6, <1>7 DEF p, q

\* The same of the names of nodes, at the rear.
LEMMA NamesRear ==
  \A s, n : n \in Nat => NamesOf(s, n + 1) = Append(NamesOf(s, n), name[s[n + 1]])
  <1> SUFFICES ASSUME NEW s, NEW n \in Nat
               PROVE  NamesOf(s, n + 1) = Append(NamesOf(s, n), name[s[n + 1]])
    OBVIOUS
  <1> DEFINE f == [k \in 1..(n + 1) |-> name[s[k]]]
  <1>1. \A k \in 1..(n + 1) : f[k] = name[s[k]]
    OBVIOUS
  <1>2. n + 1 \in 1..(n + 1) /\ \A k \in 1..n : k \in 1..(n + 1)
    OBVIOUS
  <1> HIDE DEF f
  <1>3. [k \in 1..(n + 1) |-> f[k]] = Append([k \in 1..n |-> f[k]], f[n + 1])
    BY NamesAppend
  <1>4. NamesOf(s, n + 1) = [k \in 1..(n + 1) |-> f[k]] /\ NamesOf(s, n) = [k \in 1..n |-> f[k]]
    BY <1>1, <1>2 DEF NamesOf
  <1>5. QED BY <1>1, <1>2, <1>3, <1>4

\* At the front.
LEMMA NamesFront ==
  \A s, n, e : n \in Nat =>
    LET p == [k \in 1..(n + 1) |-> IF k = 1 THEN name[e] ELSE name[s[k - 1]]] IN
    p # <<>> /\ Head(p) = name[e] /\ Tail(p) = NamesOf(s, n)
  <1> SUFFICES ASSUME NEW s, NEW n \in Nat, NEW e
               PROVE  LET p == [k \in 1..(n + 1) |-> IF k = 1 THEN name[e] ELSE name[s[k - 1]]] IN
                      p # <<>> /\ Head(p) = name[e] /\ Tail(p) = NamesOf(s, n)
    OBVIOUS
  <1> DEFINE f == [k \in 1..n |-> name[s[k]]]
             v == name[e]
             p == [k \in 1..(n + 1) |-> IF k = 1 THEN v ELSE f[k - 1]]
  <1>1. \A k \in 1..n : f[k] = name[s[k]]
    OBVIOUS
  <1>2. \A k \in 1..(n + 1) : k # 1 => k - 1 \in 1..n
    OBVIOUS
  <1> HIDE DEF f
  <1>3. p = [k \in 1..(n + 1) |-> IF k = 1 THEN name[e] ELSE name[s[k - 1]]]
    BY <1>1, <1>2
  <1>4. NamesOf(s, n) = [k \in 1..n |-> f[k]]
    BY <1>1 DEF NamesOf
  <1> HIDE DEF v
  <1>5. p # <<>> /\ Head(p) = v /\ Tail(p) = [k \in 1..n |-> f[k]]
    BY NamesTail
  <1>6. QED BY <1>3, <1>4, <1>5 DEF v

\* How many names there are.
LEMMA NamesLength ==
  \A s, n : n \in Nat => Len(NamesOf(s, n)) = n /\ (NamesOf(s, n) = <<>> <=> n = 0)
  <1> SUFFICES ASSUME NEW s, NEW n \in Nat
               PROVE  Len(NamesOf(s, n)) = n /\ (NamesOf(s, n) = <<>> <=> n = 0)
    OBVIOUS
  <1> DEFINE S == {name[s[k]] : k \in 1..n}
  <1>1. NamesOf(s, n) \in [1..n -> S]
    BY DEF NamesOf
  <1> HIDE DEF S
  <1>2. NamesOf(s, n) \in Seq(S) /\ Len(NamesOf(s, n)) = n
    BY <1>1
  <1>3. QED BY <1>2, EmptySeq

\* What the queue holds at each moment: a node counts from the moment its add
\* has counted it, until the moment its remove has.
ItemsKnown ==
  \A s \in Lists : ListIs(s) =>
    /\ (\A c \in Callers : pc[c] \notin {"count", "uncount"}) => Items = NamesOf(s, Len(s))
    /\ \A c \in Callers : pc[c] = "count" => Items = NamesOf(s, Len(s) - 1)
    /\ \A c \in Callers : pc[c] = "uncount" =>
         Items = [k \in 1..(Len(s) + 1) |-> IF k = 1 THEN name[entry[c]] ELSE name[s[k - 1]]]

\* It does so in every state the queue reaches.
LEMMA ItemsAre == QueueInv => ItemsKnown
  <1> SUFFICES ASSUME NEW s \in Lists, QueueInv, ListIs(s)
               PROVE  /\ (\A c \in Callers : pc[c] \notin {"count", "uncount"}) => Items = NamesOf(s, Len(s))
                      /\ \A c \in Callers : pc[c] = "count" => Items = NamesOf(s, Len(s) - 1)
                      /\ \A c \in Callers : pc[c] = "uncount" =>
                           Items = [k \in 1..(Len(s) + 1) |-> IF k = 1 THEN name[entry[c]] ELSE name[s[k - 1]]]
    BY DEF ItemsKnown
  <1>1. Linked(s) /\ CountInv(s)
    BY DEF ListIs
  <1>2. Len(s) \in Nat /\ Len(s) <= Cardinality(Nodes) /\ Cardinality(Nodes) \in Nat
    BY ListFacts, QueueAssumption, FS_CardinalityType
  <1>3. \A k \in 1..Len(s) : NodeAt[k] = s[k]
    <2>1. \A k \in 1..Len(s) : k \in 1..Cardinality(Nodes) /\ k <= Len(s)
      BY <1>2
    <2>2. QED BY <1>1, <2>1, NodeAtIs
  <1>4. ASSUME NEW n \in 0..Len(s), entries = n, HalfRemoved = {}
        PROVE  Items = NamesOf(s, n)
    <2>1. \A k \in 1..n : NodeAt[k] = s[k]
      BY <1>2, <1>3
    <2>2. Listed = [k \in 1..n |-> s[k]]
      BY <1>4, <2>1 DEF Listed
    <2>3. QED BY <2>2 DEF Items, NamesOf
  <1>5. ASSUME \A c \in Callers : pc[c] \notin {"count", "uncount"}
        PROVE  Items = NamesOf(s, Len(s))
    <2>1. entries = Len(s) /\ HalfRemoved = {}
      BY <1>1, <1>5 DEF CountInv, HalfRemoved
    <2>2. Len(s) \in 0..Len(s)
      BY <1>2
    <2>3. QED BY <1>4, <2>1, <2>2
  <1>6. ASSUME NEW c \in Callers, pc[c] = "count"
        PROVE  Items = NamesOf(s, Len(s) - 1)
    <2>1. entries = Len(s) - 1 /\ s # <<>>
      BY <1>1, <1>6 DEF CountInv
    <2>2. \A d \in Callers \ {c} : pc[d] # "uncount"
      BY <1>6, OneInside DEF QueueInv
    <2>3. HalfRemoved = {}
      BY <1>6, <2>2 DEF HalfRemoved
    <2>4. Len(s) # 0
      BY <2>1, ListFacts
    <2>5. Len(s) - 1 \in 0..Len(s)
      BY <1>2, <2>4
    <2>6. QED BY <1>4, <2>1, <2>3, <2>5
  <1>7. ASSUME NEW c \in Callers, pc[c] = "uncount"
        PROVE  Items = [k \in 1..(Len(s) + 1) |-> IF k = 1 THEN name[entry[c]] ELSE name[s[k - 1]]]
    <2>1. entries - 1 = Len(s)
      BY <1>1, <1>2, <1>7 DEF CountInv
    <2>2. \A d \in Callers \ {c} : pc[d] # "uncount"
      BY <1>7, OneInside DEF QueueInv
    <2>3. HalfRemoved = {c}
      BY <1>7, <2>2 DEF HalfRemoved
    <2>4. (CHOOSE d \in HalfRemoved : TRUE) = c
      BY <2>3
    <2>5. [k \in 1..(entries - 1) |-> NodeAt[k]] = s
      BY <1>3, <2>1, ListFacts
    <2>6. Listed = <<entry[c]>> \o s
      BY <2>3, <2>4, <2>5 DEF Listed
    <2>7. entry[c] \in Nodes
      BY <1>7 DEF QueueInv, CallInv, TypeOK
    <2>8. /\ <<entry[c]>> \in Seq(Nodes) /\ Len(<<entry[c]>>) = 1 /\ <<entry[c]>>[1] = entry[c]
          /\ s \in Seq(Nodes)
      BY <2>7, ListFacts
    <2>9. /\ Listed \in Seq(Nodes) /\ Len(Listed) = 1 + Len(s)
          /\ \A k \in 1..(1 + Len(s)) : Listed[k] = IF k <= 1 THEN <<entry[c]>>[k] ELSE s[k - 1]
      BY <2>6, <2>8, ConcatProperties
    <2>10. DOMAIN Listed = 1..(Len(s) + 1)
      BY <1>2, <2>9, LenProperties
    <2>11. ASSUME NEW k \in 1..(Len(s) + 1)
           PROVE  Listed[k] = IF k = 1 THEN entry[c] ELSE s[k - 1]
      <3>1. k \in 1..(1 + Len(s)) /\ (k <= 1 <=> k = 1)
        BY <1>2
      <3>2. QED BY <2>8, <2>9, <3>1
    <2>12. QED BY <2>10, <2>11 DEF Items
  <1>8. QED BY <1>5, <1>6, <1>7

\* A name that stays where it is.
LEMMA SameNames ==
  ASSUME NEW s \in Lists, NEW n \in 0..Len(s),
         \A k \in 1..Len(s) : name'[s[k]] = name[s[k]]
  PROVE  NamesOf(s, n)' = NamesOf(s, n)
  <1>1. Len(s) \in Nat
    BY ListFacts
  <1>2. \A k \in 1..n : k \in 1..Len(s)
    BY <1>1
  <1>3. QED BY <1>2 DEF NamesOf

\* A new queue is empty.
LEMMA InitRefinesQueue == Init => Atomic!Init
  <1> SUFFICES ASSUME Init PROVE Atomic!Init
    OBVIOUS
  <1>1. Listed = [k \in 1..0 |-> NodeAt[k]]
    BY DEF Init, Listed, HalfRemoved
  <1>2. [k \in DOMAIN Listed |-> name[Listed[k]]] = <<>>
    BY <1>1
  <1>3. QED BY <1>2 DEF Init, Atomic!Init, Atomic!NoOp, NoOp, Atomic!Nothing, Nothing

\* Calls, returns and steps at the lock do not touch the names.
LEMMA OutsideKeepsItems ==
  ASSUME QueueInv, QueueInv', NEW c \in Callers,
         Call(c) \/ Lock(c) \/ Unlock(c) \/ Return(c) \/ ReadEntries(c)
  PROVE  Items' = Items
  <1> USE DEF QueueInv
  <1>p. /\ pc \in [Callers -> Labels]
        /\ op \in [Callers -> Calls \cup {NoOp}]
        /\ entry \in [Callers -> Nodes \cup {NULL}]
    BY DEF TypeOK
  <1>1. PICK s \in Lists : ListIs(s)
    BY DEF ListInv, ListIs
  <1>2. ListIs(s)'
    BY <1>1, ListStepOutside
  <1>3. name' = name
    BY DEF Call, Lock, Unlock, Return, ReadEntries, heapVars
  <1>4. /\ pc[c] \notin {"count", "uncount"} /\ pc'[c] \notin {"count", "uncount"}
        /\ \A d \in Callers \ {c} : pc'[d] = pc[d] /\ entry'[d] = entry[d]
    <2>1. pc[c] = "lock" => op[c][1] \in {"empty", "remove", "add"}
      BY <1>p, CallKinds DEF CallInv
    <2>2. QED BY <1>p, <2>1 DEF Call, Lock, Unlock, Return, ReadEntries, Goto, callVars
  <1>5. ItemsKnown /\ ItemsKnown'
    BY ItemsAre, PTL
  <1> HIDE DEF QueueInv
  <1>n. \A n : NamesOf(s, n)' = NamesOf(s, n)
    BY <1>3 DEF NamesOf
  <1>6. CASE \A d \in Callers : pc[d] \notin {"count", "uncount"}
    <2>1. \A d \in Callers : pc'[d] \notin {"count", "uncount"}
      BY <1>4, <1>6
    <2>2. Items = NamesOf(s, Len(s))
      BY <1>1, <1>5, <1>6 DEF ItemsKnown
    <2>3. Items' = NamesOf(s, Len(s))'
      BY <1>2, <1>5, <2>1 DEF ItemsKnown
    <2>4. QED BY <1>n, <2>2, <2>3
  <1>7. ASSUME NEW d \in Callers, pc[d] = "count" PROVE Items' = Items
    <2>1. pc'[d] = "count"
      BY <1>4, <1>7
    <2>2. Items = NamesOf(s, Len(s) - 1)
      BY <1>1, <1>5, <1>7 DEF ItemsKnown
    <2>3. Items' = NamesOf(s, Len(s) - 1)'
      BY <1>2, <1>5, <2>1 DEF ItemsKnown
    <2>4. QED BY <1>n, <2>2, <2>3
  <1>8. ASSUME NEW d \in Callers, pc[d] = "uncount" PROVE Items' = Items
    <2>1. pc'[d] = "uncount" /\ entry'[d] = entry[d]
      BY <1>4, <1>8
    <2>2. Items = [k \in 1..(Len(s) + 1) |->
                     IF k = 1 THEN name[entry[d]] ELSE name[s[k - 1]]]
      BY <1>1, <1>5, <1>8 DEF ItemsKnown
    <2>3. Items' = [k \in 1..(Len(s) + 1) |->
                      IF k = 1 THEN name'[entry'[d]] ELSE name'[s[k - 1]]]
      BY <1>2, <1>5, <2>1 DEF ItemsKnown
    <2>4. QED BY <1>3, <2>1, <2>2, <2>3
  <1>9. QED BY <1>6, <1>7, <1>8

\* Every step of sync_queue.c is a step of AtomicQueue or no step of it.
LEMMA StepRefinesQueue ==
  ASSUME QueueInv, QueueInv', [Next]_vars
  PROVE  [Atomic!Next]_(Atomic!vars)
  <1> USE DEF QueueInv
  <1>p. /\ pc \in [Callers -> Labels]
        /\ op \in [Callers -> Calls \cup {NoOp}]
        /\ entry \in [Callers -> Nodes \cup {NULL}]
        /\ name \in [Nodes -> Names \cup {NoName}]
        /\ result \in [Callers -> Names \cup {Empty, NotEmpty, Success, Failure, NoName, Nothing}]
    BY DEF TypeOK
  <1>s. PICK s \in Lists : ListIs(s) /\ Linked(s) /\ CountInv(s)
    BY DEF ListInv, ListIs
  <1>f. /\ Len(s) \in Nat /\ Len(s) <= Cardinality(Nodes) /\ Cardinality(Nodes) \in Nat
        /\ \A k \in 1..Len(s) : s[k] \in Nodes /\ s[k] \in Range(s)
        /\ s = <<>> <=> Len(s) = 0
    BY ListFacts, QueueAssumption, FS_CardinalityType DEF Range
  <1>k. ItemsKnown /\ ItemsKnown'
    BY ItemsAre, PTL
  <1>v. Items = [k \in DOMAIN Listed |-> name[Listed[k]]]
    BY DEF Items
  <1> USE DEF Atomic!vars
  <1>stutter. ASSUME UNCHANGED <<op, result>>, Items' = Items
              PROVE  UNCHANGED Atomic!vars
    BY <1>stutter DEF Items
  <1>step. ASSUME NEW c \in Callers,
                  \/ /\ op[c] = NoOp /\ (\E o \in Calls : op' = [op EXCEPT ![c] = o])
                     /\ UNCHANGED <<Items, result>>
                  \/ /\ result[c] = Nothing /\ op' = op /\ op[c] = <<"empty">>
                     /\ result' = [result EXCEPT ![c] = IF Items = <<>> THEN Empty ELSE NotEmpty]
                     /\ Items' = Items
                  \/ /\ result[c] = Nothing /\ op' = op /\ op[c][1] = "add"
                     /\ \/ /\ Len(Items) < Cardinality(Nodes)
                           /\ Items' = Append(Items, op[c][2])
                           /\ result' = [result EXCEPT ![c] = Success]
                        \/ result' = [result EXCEPT ![c] = Failure] /\ Items' = Items
                  \/ /\ result[c] = Nothing /\ op' = op /\ op[c] = <<"remove">>
                     /\ IF Items = <<>>
                        THEN result' = [result EXCEPT ![c] = NoName] /\ Items' = Items
                        ELSE result' = [result EXCEPT ![c] = Head(Items)] /\ Items' = Tail(Items)
                  \/ /\ result[c] # Nothing
                     /\ op' = [op EXCEPT ![c] = NoOp] /\ result' = [result EXCEPT ![c] = Nothing]
                     /\ Items' = Items
           PROVE  Atomic!Next
    BY <1>step
    DEF Items, Atomic!Next, Atomic!Call, Atomic!Perform, Atomic!Return, Atomic!TestEmpty, Atomic!Add,
        Atomic!Remove, Atomic!Answer, Atomic!NoOp, Atomic!Calls, Atomic!Nothing, Atomic!Empty,
        Atomic!NotEmpty, Atomic!Success, Atomic!Failure, Atomic!NoName, NoOp, Calls, Nothing, Empty,
        NotEmpty, Success, Failure, NoName
  <1>1. ASSUME NEW c \in Callers, Call(c) PROVE Atomic!Next
    <2>1. Items' = Items
      BY <1>1, OutsideKeepsItems
    <2>2. /\ op[c] = NoOp /\ (\E o \in Calls : op' = [op EXCEPT ![c] = o])
          /\ result' = result
      BY <1>1 DEF Call, CallInv
    <2>3. QED BY <1>step, <2>1, <2>2
  <1>2. ASSUME NEW c \in Callers, Lock(c) \/ Unlock(c) PROVE UNCHANGED Atomic!vars
    <2>1. Items' = Items
      BY <1>2, OutsideKeepsItems
    <2>2. UNCHANGED <<op, result>>
      BY <1>2 DEF Lock, Unlock, callVars
    <2>3. QED BY <1>stutter, <2>1, <2>2
  <1>3. ASSUME NEW c \in Callers, Return(c) PROVE Atomic!Next
    <2>1. Items' = Items
      BY <1>3, OutsideKeepsItems
    <2>2. /\ result[c] # Nothing
          /\ op' = [op EXCEPT ![c] = NoOp] /\ result' = [result EXCEPT ![c] = Nothing]
      BY <1>3 DEF Return, Answer, CallInv
    <2>3. QED BY <1>step, <2>1, <2>2
  <1>4. ASSUME NEW c \in Callers, ReadEntries(c) PROVE Atomic!Next
    <2>1. Items' = Items
      BY <1>4, OutsideKeepsItems
    <2>2. /\ result[c] = Nothing /\ op' = op /\ op[c] = <<"empty">>
          /\ result' = [result EXCEPT ![c] = IF entries = 0 THEN Empty ELSE NotEmpty]
      BY <1>4 DEF ReadEntries, Answer, CallInv
    <2>3. entries = Len(s) /\ Items = NamesOf(s, Len(s))
      <3>1. \A d \in Callers : pc[d] \notin {"count", "uncount"}
        BY <1>4, OneInside DEF ReadEntries
      <3>2. QED BY <1>s, <1>k, <3>1 DEF CountInv, ItemsKnown
    <2>4. Items = <<>> <=> Len(s) = 0
      BY <1>f, <2>3, NamesLength
    <2>5. QED BY <1>step, <2>1, <2>2, <2>3, <2>4
  <1>5. ASSUME NEW c \in Callers, AllocateEntry(c) PROVE Atomic!Next \/ UNCHANGED Atomic!vars
    <2>1. pc[c] = "add" /\ \A d \in Callers \ {c} : pc[d] \in {"idle", "lock", "returned"}
      BY <1>5, OneInside DEF AllocateEntry
    <2>2. ListIs(s)'
      BY <1>s, <1>5, <2>1, ListStepAdd
    <2>3. pc'[c] \in {"link", "unlock"} /\ \A d \in Callers \ {c} : pc'[d] = pc[d]
      BY <1>p, <1>5 DEF AllocateEntry, Goto
    <2>4. Items = NamesOf(s, Len(s))
      BY <1>s, <1>k, <2>1 DEF ItemsKnown
    <2>5. Items' = NamesOf(s, Len(s))'
      BY <1>k, <2>1, <2>2, <2>3 DEF ItemsKnown
    <2>6. \A k \in 1..Len(s) : name'[s[k]] = name[s[k]]
      <3>1. \A k \in 1..Len(s) : s[k] \in allocated
        BY <1>f, <1>s DEF Linked
      <3>2. QED BY <1>p, <1>f, <1>5, <3>1 DEF AllocateEntry, heapVars
    <2>7. Len(s) \in 0..Len(s)
      BY <1>f
    <2>8. Items' = Items
      BY <2>4, <2>5, <2>6, <2>7, SameNames
    <2>9. /\ op' = op
          /\ result' = result \/ result' = [result EXCEPT ![c] = Failure]
      BY <1>5 DEF AllocateEntry, Answer
    <2>10. result[c] = Nothing /\ op[c][1] = "add"
      BY <2>1, CallKinds DEF CallInv
    <2>11. QED BY <1>step, <1>stutter, <2>8, <2>9, <2>10
  <1>6. ASSUME NEW c \in Callers, LinkEntry(c) PROVE UNCHANGED Atomic!vars
    <2>1. pc[c] = "link" /\ \A d \in Callers \ {c} : pc[d] \in {"idle", "lock", "returned"}
      BY <1>6, OneInside DEF LinkEntry
    <2>2. PICK r \in Lists : ListIs(r)' /\ r = Append(s, entry[c])
      BY <1>s, <1>6, <2>1, ListStepAdd
    <2>3. pc'[c] = "count" /\ name' = name /\ UNCHANGED <<op, result>>
      BY <1>p, <1>6 DEF LinkEntry, Goto, callVars
    <2>4. entry[c] \in Nodes
      BY <1>p, <2>1 DEF CallInv
    <2>5. Len(r) = Len(s) + 1 /\ \A k \in 1..Len(s) : r[k] = s[k]
      BY <2>2, <2>4, ListFacts, AppendProperties
    <2>6. Len(r) - 1 = Len(s)
      BY <1>f, <2>5
    <2>7. Items = NamesOf(s, Len(s))
      BY <1>s, <1>k, <2>1 DEF ItemsKnown
    <2>8. Items' = NamesOf(r, Len(s))'
      BY <1>k, <2>2, <2>3, <2>6 DEF ItemsKnown
    <2>9. NamesOf(r, Len(s))' = NamesOf(s, Len(s))
      BY <2>3, <2>5 DEF NamesOf
    <2>10. QED BY <1>stutter, <2>3, <2>7, <2>8, <2>9
  <1>7. ASSUME NEW c \in Callers, CountEntry(c) PROVE Atomic!Next
    <2>1. pc[c] = "count" /\ \A d \in Callers \ {c} : pc[d] \in {"idle", "lock", "returned"}
      BY <1>7, OneInside DEF CountEntry
    <2>2. ListIs(s)'
      BY <1>s, <1>7, <2>1, ListStepAdd
    <2>3. /\ \A d \in Callers : pc'[d] \notin {"count", "uncount"}
          /\ name' = name /\ op' = op /\ result' = [result EXCEPT ![c] = Success]
      BY <1>p, <1>7, <2>1 DEF CountEntry, Goto, Answer, heapVars
    <2>4. PICK n \in Nat : n + 1 = Len(s)
      <3>1. Len(s) # 0
        BY <1>s, <1>f, <2>1 DEF CountInv
      <3>2. Len(s) - 1 \in Nat /\ (Len(s) - 1) + 1 = Len(s)
        BY <1>f, <3>1
      <3>3. QED BY <3>2
    <2>5. Len(s) - 1 = n /\ n < Cardinality(Nodes)
      BY <1>f, <2>4
    <2>6. Items = NamesOf(s, n)
      BY <1>s, <1>k, <2>1, <2>5 DEF ItemsKnown
    <2>7. Items' = NamesOf(s, n + 1)
      <3>1. Items' = NamesOf(s, Len(s))'
        BY <1>k, <2>2, <2>3 DEF ItemsKnown
      <3>2. QED BY <2>3, <2>4, <3>1 DEF NamesOf
    <2>8. name[s[n + 1]] = op[c][2]
      BY <1>s, <2>1, <2>4 DEF CountInv, CallInv
    <2>9. NamesOf(s, n + 1) = Append(NamesOf(s, n), name[s[n + 1]])
      BY NamesRear
    <2>10. Len(Items) = n
      BY <2>6, NamesLength
    <2>11. result[c] = Nothing /\ op[c][1] = "add"
      BY <2>1, CallKinds DEF CallInv
    <2>12. QED BY <1>step, <2>3, <2>5, <2>6, <2>7, <2>8, <2>9, <2>10, <2>11
  <1>8. ASSUME NEW c \in Callers, TakeFront(c) PROVE Atomic!Next \/ UNCHANGED Atomic!vars
    <2>1. /\ pc[c] = "remove" /\ \A d \in Callers \ {c} : pc[d] \in {"idle", "lock", "returned"}
          /\ result[c] = Nothing /\ op[c] = <<"remove">>
      BY <1>8, OneInside DEF TakeFront, CallInv
    <2>2. entries = Len(s) /\ Items = NamesOf(s, Len(s))
      BY <1>s, <1>k, <2>1 DEF CountInv, ItemsKnown
    <2>3. name' = name /\ op' = op
      BY <1>8 DEF TakeFront, heapVars
    <2>4. CASE entries = 0
      <3>1. ListIs(s)'
        BY <1>s, <1>8, <2>4, ListStepRemove
      <3>2. \A d \in Callers : pc'[d] \notin {"count", "uncount"}
        BY <1>p, <1>8, <2>1, <2>4 DEF TakeFront, Goto
      <3>3. Items' = NamesOf(s, Len(s))'
        BY <1>k, <3>1, <3>2 DEF ItemsKnown
      <3>4. Items' = Items
        BY <2>2, <2>3, <3>3 DEF NamesOf
      <3>5. Items = <<>>
        BY <1>f, <2>2, <2>4, NamesLength
      <3>6. result' = [result EXCEPT ![c] = NoName]
        BY <1>8, <2>4 DEF TakeFront, Answer
      <3>7. QED BY <1>step, <2>1, <2>3, <3>4, <3>5, <3>6
    <2>5. CASE entries # 0
      <3>1. PICK r \in Lists : ListIs(r)' /\ r = Tail(s)
        BY <1>s, <1>8, <2>1, <2>5, ListStepRemove
      <3>2. s # <<>> /\ IsInjective(s) /\ front = s[1]
        BY <1>s, <1>f, <2>2, <2>5 DEF Linked
      <3>3. /\ Len(r) + 1 = Len(s) /\ Len(r) \in Nat
            /\ \A k \in 1..Len(r) : r[k] = s[k + 1]
        <4>1. /\ Len(s) \in Nat \ {0} /\ Len(r) = Len(s) - 1
              /\ \A k \in 1..(Len(s) - 1) : r[k] = s[k + 1]
          BY <3>1, <3>2, WithoutFront
        <4>2. QED BY <4>1
      <3>4. pc'[c] = "uncount" /\ entry'[c] = s[1] /\ result' = result
        BY <1>p, <1>8, <2>5, <3>2 DEF TakeFront, Goto
      <3>5. Items' = [k \in 1..(Len(r) + 1) |-> IF k = 1 THEN name'[entry'[c]] ELSE name'[r[k - 1]]]
        BY <1>k, <3>1, <3>4 DEF ItemsKnown
      <3>6. \A k \in 1..(Len(r) + 1) : s[k] = IF k = 1 THEN s[1] ELSE r[k - 1]
        <4>1. \A k \in 1..(Len(r) + 1) : k # 1 => k - 1 \in 1..Len(r) /\ (k - 1) + 1 = k
          BY <3>3
        <4>2. QED BY <3>3, <4>1
      <3>7. Items' = NamesOf(s, Len(r) + 1)
        BY <2>3, <3>4, <3>5, <3>6 DEF NamesOf
      <3>8. Items' = Items
        BY <2>2, <3>3, <3>7
      <3>9. QED BY <1>stutter, <2>3, <3>4, <3>8
    <2>6. QED BY <2>4, <2>5
  <1>9. ASSUME NEW c \in Callers, UncountEntry(c) PROVE Atomic!Next
    <2>1. /\ pc[c] = "uncount" /\ \A d \in Callers \ {c} : pc[d] \in {"idle", "lock", "returned"}
          /\ result[c] = Nothing /\ op[c] = <<"remove">>
      BY <1>9, OneInside DEF UncountEntry, CallInv
    <2>2. ListIs(s)'
      BY <1>s, <1>9, <2>1, ListStepRemove
    <2>3. /\ \A d \in Callers : pc'[d] \notin {"count", "uncount"}
          /\ name' = name /\ op' = op /\ result' = [result EXCEPT ![c] = name[entry[c]]]
      BY <1>p, <1>9, <2>1 DEF UncountEntry, Goto, Answer, heapVars
    <2>4. Items = [k \in 1..(Len(s) + 1) |-> IF k = 1 THEN name[entry[c]] ELSE name[s[k - 1]]]
      BY <1>s, <1>k, <2>1 DEF ItemsKnown
    <2>5. Items' = NamesOf(s, Len(s))
      <3>1. Items' = NamesOf(s, Len(s))'
        BY <1>k, <2>2, <2>3 DEF ItemsKnown
      <3>2. QED BY <2>3, <3>1 DEF NamesOf
    <2>6. Items # <<>> /\ Head(Items) = name[entry[c]] /\ Tail(Items) = NamesOf(s, Len(s))
      <3> DEFINE p == [k \in 1..(Len(s) + 1) |-> IF k = 1 THEN name[entry[c]] ELSE name[s[k - 1]]]
      <3>1. Len(s) \in Nat
        BY <1>f
      <3>2. p # <<>> /\ Head(p) = name[entry[c]] /\ Tail(p) = NamesOf(s, Len(s))
        BY <3>1, NamesFront
      <3> HIDE DEF p
      <3>3. Items = p
        BY <2>4 DEF p
      <3>4. QED BY <3>2, <3>3
    <2>7. QED BY <1>step, <2>1, <2>3, <2>5, <2>6
  <1>10. CASE Destroy \/ UNCHANGED vars
    <2>1. UNCHANGED <<entries, front, next, name, pc, op, entry, result>>
      BY <1>10 DEF Destroy, vars, queueVars, heapVars, callVars
    <2>2. Items' = Items
      BY <2>1 DEF Items, Listed, HalfRemoved, NodeAt
    <2>3. QED BY <1>stutter, <2>1, <2>2
  <1>11. QED
    BY <1>1, <1>2, <1>3, <1>4, <1>5, <1>6, <1>7, <1>8, <1>9, <1>10 DEF Next, Step, Stop

\* ImplementsAtomicQueue: whatever the threads do at the same time, their calls
\* take effect one after the other on a first-in first-out queue.
THEOREM QueueImplementsAtomicQueue == Spec => ImplementsAtomicQueue
  BY InitRefinesQueue, StepRefinesQueue, QueueCorrect, PTL DEF Spec, ImplementsAtomicQueue, Atomic!Spec
=============================================================================
