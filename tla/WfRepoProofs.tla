----------------------------- MODULE WfRepoProofs -----------------------------
(***************************************************************************)
(* Proofs about the repository of word tables, for any number of threads   *)
(* and tables: no table is lost or linked twice, whatever the threads push *)
(* and pop, clearing frees what is on the stack, and the repository        *)
(* implements AtomicStack.                                                 *)
(***************************************************************************)
EXTENDS WfRepo, FiniteSetTheorems, SequenceTheorems, TLAPS

-----------------------------------------------------------------------------
(* Stacks as sequences.                                                    *)

\* A set of natural numbers has a least element.
LEMMA LeastNumber ==
  ASSUME NEW T, T \subseteq Nat, T # {}
  PROVE  \E x \in T : \A y \in T : x <= y
  <1> DEFINE R == OpToRel(<, Nat)
  <1>1. IsWellFoundedOn(R, Nat)
    BY NatLessThanWellFounded
  <1>2. \A x, y \in Nat : x < y => <<x, y>> \in R
    BY DEF OpToRel
  <1> HIDE DEF R
  <1>3. PICK x \in T : \A y \in T : ~ (<<y, x>> \in R)
    BY <1>1, WFMin
  <1>4. \A y \in T : ~ (y < x)
    BY <1>2, <1>3
  <1>5. QED BY <1>4

\* A stack is a sequence that is no longer than there are tables.
LEMMA StackFacts ==
  ASSUME NEW s \in Stacks
  PROVE  /\ s \in Seq(Tables)
         /\ Len(s) \in Nat
         /\ Len(s) <= Cardinality(Tables)
         /\ DOMAIN s = 1..Len(s)
         /\ \A k \in 1..Len(s) : s[k] \in Tables /\ s[k] \in Range(s)
         /\ s = <<>> <=> Len(s) = 0
  <1>1. Cardinality(Tables) \in Nat
    BY RepoAssumption, FS_CardinalityType
  <1>2. PICK n \in 0..Cardinality(Tables) : s \in [1..n -> Tables]
    BY DEF Stacks
  <1>3. n \in Nat /\ n <= Cardinality(Tables)
    BY <1>1, <1>2
  <1>4. s \in Seq(Tables) /\ Len(s) = n
    BY <1>2, <1>3
  <1>5. QED BY <1>3, <1>4, LenProperties, EmptySeq DEF Range

\* A sequence of different tables is such a stack.
LEMMA InjectiveIsStack ==
  ASSUME NEW s \in Seq(Tables), IsInjective(s)
  PROVE  s \in Stacks
  <1>1. Len(s) \in Nat /\ s \in [1..Len(s) -> Tables]
    BY LenProperties
  <1>2. s \in Injection(1..Len(s), Tables)
    BY <1>1 DEF Injection
  <1>3. Cardinality(1..Len(s)) <= Cardinality(Tables)
    BY <1>2, RepoAssumption, FS_Injection
  <1>4. Cardinality(1..Len(s)) = Len(s)
    <2>1. 1 \in Int /\ Len(s) \in Int
      BY <1>1
    <2>2. Cardinality(1..Len(s)) = IF 1 > Len(s) THEN 0 ELSE Len(s) - 1 + 1
      BY <2>1, FS_Interval
    <2>3. QED BY <1>1, <2>2
  <1>5. Cardinality(Tables) \in Nat
    BY RepoAssumption, FS_CardinalityType
  <1>6. Len(s) \in 0..Cardinality(Tables)
    BY <1>1, <1>3, <1>4, <1>5
  <1>7. QED BY <1>1, <1>6 DEF Stacks

\* A stack without its top.
LEMMA WithoutTop ==
  ASSUME NEW s \in Stacks, IsInjective(s), s # <<>>
  PROVE  /\ Tail(s) \in Stacks /\ IsInjective(Tail(s))
         /\ Len(s) \in Nat \ {0}
         /\ Len(Tail(s)) = Len(s) - 1
         /\ DOMAIN Tail(s) = 1..(Len(s) - 1)
         /\ \A k \in 1..(Len(s) - 1) : Tail(s)[k] = s[k + 1] /\ k + 1 \in 1..Len(s)
         /\ Range(Tail(s)) = Range(s) \ {s[1]}
         /\ s[1] \in Range(s)
         /\ Head(s) = s[1]
  <1> DEFINE r == Tail(s)
  <1>1. /\ s \in Seq(Tables) /\ Len(s) \in Nat \ {0} /\ DOMAIN s = 1..Len(s)
    BY StackFacts
  <1>2. /\ r \in Seq(Tables) /\ Len(r) = Len(s) - 1
        /\ DOMAIN r = 1..(Len(s) - 1)
        /\ \A k \in 1..(Len(s) - 1) : r[k] = s[k + 1]
        /\ Head(s) = s[1]
    BY <1>1, HeadTailProperties, LenProperties
  <1> HIDE DEF r
  <1>3. /\ \A k \in 1..(Len(s) - 1) : k + 1 \in 1..Len(s) /\ k + 1 # 1
        /\ \A k \in 1..Len(s) : k # 1 => k - 1 \in 1..(Len(s) - 1) /\ (k - 1) + 1 = k
        /\ \A i, j \in 1..(Len(s) - 1) : i + 1 = j + 1 => i = j
        /\ 1 \in 1..Len(s)
    BY <1>1
  <1>i. \A i, j \in 1..Len(s) : s[i] = s[j] => i = j
    BY <1>1 DEF IsInjective
  <1>4. IsInjective(r)
    <2>1. ASSUME NEW i \in 1..(Len(s) - 1), NEW j \in 1..(Len(s) - 1), r[i] = r[j] PROVE i = j
      BY <1>2, <1>3, <1>i, <2>1
    <2>2. QED BY <1>2, <2>1 DEF IsInjective
  <1>5. Range(r) = Range(s) \ {s[1]}
    <2>1. ASSUME NEW k \in 1..(Len(s) - 1) PROVE r[k] \in Range(s) \ {s[1]}
      <3>1. r[k] = s[k + 1] /\ s[k + 1] # s[1]
        BY <1>2, <1>3, <1>i
      <3>2. QED BY <1>1, <1>3, <3>1 DEF Range
    <2>2. ASSUME NEW k \in 1..Len(s), k # 1 PROVE s[k] \in Range(r)
      <3>1. r[k - 1] = s[k] /\ k - 1 \in DOMAIN r
        BY <1>2, <1>3, <2>2
      <3>2. QED BY <3>1 DEF Range
    <2>3. QED BY <1>1, <1>2, <2>1, <2>2 DEF Range
  <1>6. r \in Stacks
    BY <1>2, <1>4, InjectiveIsStack
  <1>7. s[1] \in Range(s)
    BY <1>1, <1>3 DEF Range
  <1>8. QED BY <1>1, <1>2, <1>3, <1>4, <1>5, <1>6, <1>7 DEF r

\* A stack with one more table on top.
LEMMA WithTop ==
  ASSUME NEW s \in Stacks, IsInjective(s), NEW t \in Tables, t \notin Range(s)
  PROVE  /\ <<t>> \o s \in Stacks /\ IsInjective(<<t>> \o s)
         /\ Len(<<t>> \o s) = Len(s) + 1
         /\ DOMAIN (<<t>> \o s) = 1..(Len(s) + 1)
         /\ \A k \in 1..(Len(s) + 1) : (<<t>> \o s)[k] = IF k = 1 THEN t ELSE s[k - 1]
         /\ Range(<<t>> \o s) = Range(s) \cup {t}
         /\ <<t>> \o s # <<>>
  <1> DEFINE r == <<t>> \o s
  <1>1. /\ s \in Seq(Tables) /\ Len(s) \in Nat /\ DOMAIN s = 1..Len(s)
        /\ <<t>> \in Seq(Tables) /\ Len(<<t>>) = 1 /\ <<t>>[1] = t
    BY StackFacts
  <1>2. /\ r \in Seq(Tables) /\ Len(r) = 1 + Len(s)
        /\ \A k \in 1..(1 + Len(s)) : r[k] = IF k <= 1 THEN <<t>>[k] ELSE s[k - 1]
    BY <1>1, ConcatProperties
  <1> HIDE DEF r
  <1>3. Len(r) = Len(s) + 1 /\ DOMAIN r = 1..(Len(s) + 1)
    BY <1>1, <1>2, LenProperties
  <1>4. ASSUME NEW k \in 1..(Len(s) + 1) PROVE r[k] = IF k = 1 THEN t ELSE s[k - 1]
    <2>1. k \in 1..(1 + Len(s)) /\ (k <= 1 <=> k = 1)
      BY <1>1
    <2>2. QED BY <1>1, <1>2, <2>1
  <1>5. /\ \A k \in 1..(Len(s) + 1) : k # 1 => k - 1 \in 1..Len(s)
        /\ \A k \in 1..Len(s) : k + 1 \in 1..(Len(s) + 1) /\ k + 1 # 1 /\ (k + 1) - 1 = k
        /\ 1 \in 1..(Len(s) + 1)
        /\ \A i, j \in 1..(Len(s) + 1) : i - 1 = j - 1 => i = j
    BY <1>1
  <1>6. \A k \in 1..Len(s) : s[k] # t /\ s[k] \in Range(s)
    BY <1>1 DEF Range
  <1>7. IsInjective(r)
    <2>1. ASSUME NEW i \in 1..(Len(s) + 1), NEW j \in 1..(Len(s) + 1), r[i] = r[j] PROVE i = j
      <3>1. i = 1 <=> j = 1
        BY <1>4, <1>5, <1>6, <2>1
      <3>2. i # 1 => s[i - 1] = s[j - 1]
        BY <1>4, <2>1, <3>1
      <3>3. i # 1 => i - 1 = j - 1
        BY <1>1, <1>5, <3>1, <3>2 DEF IsInjective
      <3>4. QED BY <1>5, <3>1, <3>3
    <2>2. QED BY <1>3, <2>1 DEF IsInjective
  <1>8. Range(r) = Range(s) \cup {t}
    <2>1. ASSUME NEW k \in 1..(Len(s) + 1) PROVE r[k] \in Range(s) \cup {t}
      BY <1>4, <1>5, <1>6
    <2>2. ASSUME NEW k \in 1..Len(s) PROVE s[k] \in Range(r)
      <3>1. r[k + 1] = s[k] /\ k + 1 \in DOMAIN r
        BY <1>3, <1>4, <1>5
      <3>2. QED BY <3>1 DEF Range
    <2>3. t \in Range(r)
      BY <1>3, <1>4, <1>5 DEF Range
    <2>4. QED BY <1>1, <1>3, <2>1, <2>2, <2>3 DEF Range
  <1>9. r \in Stacks /\ r # <<>>
    BY <1>1, <1>2, <1>3, <1>7, InjectiveIsStack, EmptySeq
  <1>10. QED BY <1>3, <1>4, <1>7, <1>8, <1>9 DEF r

\* Linked reads a list of linked tables back.
LEMMA LinkedIs ==
  ASSUME NEW s \in Stacks, NEW t, t = FirstOf(s),
         \A k \in DOMAIN s : next[s[k]] = IF k = Len(s) THEN NULL ELSE s[k + 1]
  PROVE  Linked(t, Len(s)) = s
  <1> DEFINE N == Cardinality(Tables)
             At[k \in 1..Cardinality(Tables)] ==
                IF k = 1 THEN t ELSE IF At[k - 1] = NULL THEN NULL ELSE next[At[k - 1]]
             at == [k \in 1..N |-> IF k <= Len(s) THEN s[k] ELSE NULL]
  <1>1. /\ Len(s) \in Nat /\ Len(s) <= N /\ N \in Nat
        /\ DOMAIN s = 1..Len(s)
        /\ \A k \in 1..Len(s) : s[k] \in Tables /\ s[k] # NULL
        /\ s = <<>> <=> Len(s) = 0
    BY StackFacts, RepoAssumption, FS_CardinalityType
  <1>l. Linked(t, Len(s)) = [k \in 1..Len(s) |-> At[k]]
    BY DEF Linked
  <1> HIDE DEF N
  <1>2. ASSUME NEW k \in 1..N
        PROVE  at[k] = IF k = 1 THEN t
                       ELSE IF at[k - 1] = NULL THEN NULL ELSE next[at[k - 1]]
    <2>1. CASE k = 1
      <3>1. at[k] = IF 1 <= Len(s) THEN s[1] ELSE NULL
        BY <2>1
      <3>2. QED BY <1>1, <2>1, <3>1 DEF FirstOf
    <2>2. CASE k # 1 /\ k - 1 <= Len(s)
      <3>1. k - 1 \in 1..N /\ k - 1 \in 1..Len(s) /\ (k - 1) + 1 = k
        BY <1>1, <2>2
      <3>2. at[k - 1] = s[k - 1] /\ s[k - 1] # NULL
        BY <1>1, <3>1, <2>2
      <3>3. next[s[k - 1]] = IF k - 1 = Len(s) THEN NULL ELSE s[(k - 1) + 1]
        BY <1>1, <3>1
      <3>4. at[k] = IF k - 1 = Len(s) THEN NULL ELSE s[k]
        BY <1>1, <2>2
      <3>5. QED BY <2>2, <3>1, <3>2, <3>3, <3>4
    <2>3. CASE k # 1 /\ ~(k - 1 <= Len(s))
      <3>1. k - 1 \in 1..N /\ ~(k <= Len(s))
        BY <1>1, <2>3
      <3>2. at[k - 1] = NULL /\ at[k] = NULL
        BY <2>3, <3>1
      <3>3. QED BY <2>3, <3>2
    <2>4. QED BY <2>1, <2>2, <2>3
  <1>3. at = [k \in 1..N |-> IF k = 1 THEN t
                             ELSE IF at[k - 1] = NULL THEN NULL ELSE next[at[k - 1]]]
    BY <1>2
  <1> HIDE DEF at
  <1>4. At = [k \in 1..N |-> IF k = 1 THEN t
                             ELSE IF At[k - 1] = NULL THEN NULL ELSE next[At[k - 1]]]
    BY <1>3 DEF N
  <1> HIDE DEF At
  <1>5. \A k \in 1..N : At[k] = at[k]
    <2> SUFFICES ASSUME NEW j \in 1..N, At[j] # at[j] PROVE FALSE
      OBVIOUS
    <2> DEFINE Wrong == {k \in 1..N : At[k] # at[k]}
    <2>1. Wrong \subseteq Nat /\ Wrong # {}
      BY <1>1
    <2>2. PICK k \in Wrong : \A i \in Wrong : k <= i
      BY <2>1, LeastNumber
    <2>3. k \in 1..N /\ At[k] # at[k]
      BY <2>2
    <2>4. k # 1
      BY <1>2, <1>4, <2>3
    <2>5. k - 1 \in 1..N /\ k - 1 \notin Wrong
      BY <1>1, <2>2, <2>3, <2>4
    <2>6. At[k - 1] = at[k - 1]
      BY <2>5
    <2>7. At[k] = IF At[k - 1] = NULL THEN NULL ELSE next[At[k - 1]]
      BY <1>4, <2>3, <2>4
    <2>8. at[k] = IF at[k - 1] = NULL THEN NULL ELSE next[at[k - 1]]
      BY <1>2, <2>3, <2>4
    <2>9. QED BY <2>3, <2>6, <2>7, <2>8
  <1>6. \A k \in 1..Len(s) : k \in 1..N /\ k <= Len(s)
    BY <1>1
  <1>7. \A k \in 1..Len(s) : At[k] = s[k]
    BY <1>5, <1>6 DEF at
  <1>8. s = [k \in 1..Len(s) |-> s[k]]
    BY StackFacts
  <1>9. QED BY <1>l, <1>7, <1>8

-----------------------------------------------------------------------------
(* Types, the lock and the owners.                                         *)

\* At most one thread is inside a call.
LEMMA OneInside ==
  ASSUME LockInv, NEW c \in Callers, pc[c] # "idle"
  PROVE  lock = c /\ phase = "shared" /\ \A d \in Callers \ {c} : pc[d] = "idle"
  BY RepoAssumption DEF LockInv

\* Every step keeps the types.
LEMMA TypesStep ==
  ASSUME RepoInv, [Next]_vars
  PROVE  RepoTypes'
  <1> USE DEF RepoTypes
  <1>t. RepoTypes
    BY DEF RepoInv
  <1>s. PICK s \in Stacks : StackIs(s)
    BY DEF RepoInv
  <1>f. Len(s) \in Nat /\ (s = <<>> <=> Len(s) = 0)
    BY StackFacts
  <1>1. ASSUME NEW c \in Callers, StartPush(c) \/ StartPop(c) \/ StartEmpty(c) PROVE RepoTypes'
    BY <1>t, <1>1 DEF StartPush, StartPop, StartEmpty, Lock, Goto, repo, callVars, mainVars
  <1>2. ASSUME NEW c \in Callers, LinkTable(c) \/ SetTop(c) PROVE RepoTypes'
    BY <1>t, <1>2 DEF LinkTable, SetTop, Goto, callVars, mainVars
  <1>3. ASSUME NEW c \in Callers, CountTable(c) PROVE RepoTypes'
    BY <1>t, <1>3 DEF CountTable, Unlock, Goto, mainVars
  <1>4. ASSUME NEW c \in Callers, TakeTop(c) PROVE RepoTypes'
    <2>1. \A d \in Callers : pc[d] \notin {"count", "uncount"}
      BY <1>4, OneInside DEF TakeTop, RepoInv
    <2>2. size # 0 => table \in Tables
      BY <1>s, <2>1, StackFacts DEF StackIs, TopIs, Counts, FirstOf
    <2>3. QED BY <1>t, <1>4, <2>2 DEF TakeTop, Unlock, Goto, mainVars
  <1>5. ASSUME NEW c \in Callers, UncountTable(c) PROVE RepoTypes'
    <2>1. size # 0 /\ result[c] \in Tables
      BY <1>s, <1>f, <1>5, StackFacts DEF UncountTable, StackIs, TopIs, Counts
    <2>2. size - 1 \in Nat
      BY <1>t, <2>1
    <2>3. QED BY <1>t, <1>5, <2>1, <2>2 DEF UncountTable, Unlock, Goto, mainVars
  <1>6. ASSUME NEW c \in Callers, ReadSize(c) PROVE RepoTypes'
    BY <1>t, <1>6 DEF ReadSize, Unlock, Goto, repo, mainVars
  <1>7. CASE Create \/ StartClear \/ FinishClear
    BY <1>t, <1>7 DEF Create, StartClear, FinishClear, repo, callVars
  <1>8. CASE ClearTable
    BY <1>t, <1>8 DEF ClearTable, repo, callVars
  <1>9. CASE Destroy
    <2>1. size = 0
      BY <1>s, <1>f, <1>9 DEF Destroy, StackIs, Counts, ClearedTo
    <2>2. QED BY <1>t, <1>9, <2>1 DEF Destroy, repo, callVars
  <1>10. CASE UNCHANGED vars
    BY <1>t, <1>10 DEF vars, repo, callVars, mainVars
  <1>11. QED
    BY <1>1, <1>2, <1>3, <1>4, <1>5, <1>6, <1>7, <1>8, <1>9, <1>10 DEF Next, CallerStep, Over

\* Every step keeps the lock with who is inside a call.
LEMMA LockStep ==
  ASSUME RepoInv, [Next]_vars
  PROVE  LockInv'
  <1> USE DEF LockInv
  <1>t. /\ pc \in [Callers -> {"idle", "link", "top", "count", "pop", "uncount", "empty"}]
        /\ lock \in Callers \cup {NoThread}
        /\ NoThread \notin Callers
        /\ LockInv
    BY RepoAssumption DEF RepoInv, RepoTypes
  <1>1. ASSUME NEW c \in Callers, StartPush(c) \/ StartPop(c) \/ StartEmpty(c) PROVE LockInv'
    BY <1>t, <1>1 DEF StartPush, StartPop, StartEmpty, Lock, Goto, mainVars
  <1>2. ASSUME NEW c \in Callers, CallerStep(c), pc[c] # "idle" PROVE LockInv'
    <2>1. /\ \/ Unlock(c)
             \/ lock' = lock /\ \E label \in {"top", "count", "uncount"} : Goto(c, label)
          /\ phase' = phase
      BY <1>2 DEF CallerStep, StartPush, StartPop, StartEmpty, Lock, LinkTable, SetTop, CountTable, TakeTop,
                  UncountTable, ReadSize, mainVars
    <2>2. lock = c /\ phase = "shared" /\ \A d \in Callers \ {c} : pc[d] = "idle"
      BY <1>t, <1>2, OneInside
    <2>3. CASE Unlock(c)
      <3>1. lock' = NoThread /\ \A d \in Callers : pc'[d] = "idle"
        BY <1>t, <2>2, <2>3 DEF Unlock, Goto
      <3>2. QED BY <1>t, <3>1
    <2>4. CASE lock' = lock /\ \E label \in {"top", "count", "uncount"} : Goto(c, label)
      <3>1. lock' = c /\ pc'[c] # "idle" /\ \A d \in Callers \ {c} : pc'[d] = "idle"
        BY <1>t, <2>2, <2>4 DEF Goto
      <3>2. QED BY <1>t, <2>1, <2>2, <3>1
    <2>5. QED BY <2>1, <2>3, <2>4
  <1>3. CASE Create \/ StartClear \/ ClearTable \/ FinishClear \/ Destroy
    BY <1>t, <1>3 DEF Create, StartClear, ClearTable, FinishClear, Destroy
  <1>4. CASE UNCHANGED vars
    BY <1>t, <1>4 DEF vars, mainVars
  <1>5. ASSUME NEW c \in Callers, CallerStep(c), pc[c] = "idle"
        PROVE  StartPush(c) \/ StartPop(c) \/ StartEmpty(c)
    BY <1>5 DEF CallerStep, LinkTable, SetTop, CountTable, TakeTop, UncountTable, ReadSize
  <1>6. QED BY <1>1, <1>2, <1>3, <1>4, <1>5 DEF Next, Over

\* Every step leaves each table with one owner at most.
LEMMA OwnedStep ==
  ASSUME RepoInv, [Next]_vars
  PROVE  OwnedInv'
  <1> USE DEF OwnedInv
  <1>t. /\ pc \in [Callers -> {"idle", "link", "top", "count", "pop", "uncount", "empty"}]
        /\ result \in [Callers -> Tables \cup {NULL}]
        /\ owned \in [Callers -> SUBSET Tables]
        /\ OwnedInv
    BY DEF RepoInv, RepoTypes
  <1>s. PICK s \in Stacks : StackIs(s)
    BY DEF RepoInv
  <1>1. ASSUME NEW c \in Callers, StartPush(c) PROVE OwnedInv'
    BY <1>t, <1>1 DEF StartPush, Lock, Goto, mainVars
  <1>2. ASSUME NEW c \in Callers,
               StartPop(c) \/ StartEmpty(c) \/ LinkTable(c) \/ SetTop(c) \/ ReadSize(c)
        PROVE  OwnedInv'
    BY <1>t, <1>2
    DEF StartPop, StartEmpty, LinkTable, SetTop, ReadSize, Lock, Unlock, Goto, callVars, mainVars
  <1>3. ASSUME NEW c \in Callers, CountTable(c) PROVE OwnedInv'
    <2>1. /\ owned' = [owned EXCEPT ![c] = @ \ {result[c]}]
          /\ pc' = [pc EXCEPT ![c] = "idle"]
          /\ UNCHANGED <<result, freed>>
      BY <1>3 DEF CountTable, Unlock, Goto, mainVars
    <2>2. \A d \in Callers : owned'[d] \subseteq owned[d] /\ (d # c => owned'[d] = owned[d])
      BY <1>t, <2>1
    <2>3. \A d \in Callers : pc'[d] \in {"link", "top", "count"} => d # c /\ pc[d] = pc'[d]
      BY <1>t, <2>1
    <2>4. QED BY <1>t, <2>1, <2>2, <2>3
  <1>4. ASSUME NEW c \in Callers, TakeTop(c) PROVE OwnedInv'
    <2>1. /\ \E label \in {"idle", "uncount"} : Goto(c, label)
          /\ \E r : result' = [result EXCEPT ![c] = r]
          /\ UNCHANGED <<owned, freed>>
      BY <1>4 DEF TakeTop, Unlock, mainVars
    <2>2. \A d \in Callers : pc'[d] \in {"link", "top", "count"} => d # c /\ pc[d] = pc'[d]
      BY <1>t, <2>1 DEF Goto
    <2>3. \A d \in Callers \ {c} : result'[d] = result[d]
      BY <1>t, <2>1
    <2>4. QED BY <1>t, <2>1, <2>2, <2>3
  <1>5. ASSUME NEW c \in Callers, UncountTable(c) PROVE OwnedInv'
    <2>1. /\ owned' = [owned EXCEPT ![c] = @ \cup {result[c]}]
          /\ pc' = [pc EXCEPT ![c] = "idle"]
          /\ UNCHANGED <<result, freed>>
          /\ pc[c] = "uncount"
      BY <1>5 DEF UncountTable, Unlock, Goto, mainVars
    <2>2. result[c] \in Range(s) /\ \A d \in Callers : result[c] \notin owned[d]
      <3>1. s # <<>> /\ result[c] = s[1]
        BY <1>s, <2>1 DEF StackIs, TopIs
      <3>2. result[c] \in Range(s)
        BY <1>s, <3>1, WithoutTop DEF StackIs, Counts
      <3>3. QED BY <1>s, <3>2 DEF StackIs, Counts
    <2>3. freed = {}
      BY <1>s, <2>1, OneInside DEF RepoInv, StackIs, ClearedTo
    <2>4. \A d \in Callers : pc'[d] \in {"link", "top", "count"} => d # c /\ pc[d] = pc'[d]
      BY <1>t, <2>1
    <2>5. owned'[c] = owned[c] \cup {result[c]} /\ \A d \in Callers \ {c} : owned'[d] = owned[d]
      BY <1>t, <2>1
    <2>6. QED BY <1>t, <2>1, <2>2, <2>3, <2>4, <2>5
  <1>6. CASE Create \/ StartClear \/ FinishClear \/ Destroy \/ UNCHANGED vars
    BY <1>t, <1>6 DEF Create, StartClear, FinishClear, Destroy, vars, callVars, mainVars
  <1>7. CASE ClearTable
    <2>1. ptr \in Range(s)
      <3>1. phase = "clear" /\ ptr # NULL
        BY <1>7 DEF ClearTable
      <3>2. PICK k \in 0..Len(s) : ptr = IF k = Len(s) THEN NULL ELSE s[k + 1]
        BY <1>s, <3>1 DEF StackIs, ClearedTo
      <3>3. Len(s) \in Nat
        BY StackFacts
      <3>4. k + 1 \in 1..Len(s)
        BY <3>1, <3>2, <3>3
      <3>5. QED BY <3>1, <3>2, <3>4, StackFacts
    <2>2. \A c \in Callers : ptr \notin owned[c]
      BY <1>s, <2>1 DEF StackIs, Counts
    <2>3. QED BY <1>t, <1>7, <2>2 DEF ClearTable, callVars
  <1>8. QED
    BY <1>1, <1>2, <1>3, <1>4, <1>5, <1>6, <1>7 DEF Next, CallerStep, Over

-----------------------------------------------------------------------------
(* The stack.                                                              *)

\* What a call does to the stack: a push counts at its last step, and so does a
\* pop.
LEMMA StackStepCall ==
  ASSUME RepoInv, NEW c \in Callers, CallerStep(c), NEW s \in Stacks, StackIs(s)
  PROVE  \E r \in Stacks :
            /\ StackIs(r)'
            /\ r = IF pc[c] = "count" THEN <<result[c]>> \o s
                   ELSE IF pc[c] = "uncount" THEN Tail(s) ELSE s
  <1>t. /\ pc \in [Callers -> {"idle", "link", "top", "count", "pop", "uncount", "empty"}]
        /\ result \in [Callers -> Tables \cup {NULL}]
        /\ owned \in [Callers -> SUBSET Tables]
        /\ next \in [Tables -> Tables \cup {NULL}]
        /\ NULL \notin Tables
    BY RepoAssumption DEF RepoInv, RepoTypes
  <1>s. Counts(s) /\ TopIs(s) /\ ClearedTo(s)
    BY DEF StackIs
  <1>f. /\ Len(s) \in Nat /\ DOMAIN s = 1..Len(s)
        /\ \A k \in 1..Len(s) : s[k] \in Tables /\ s[k] \in Range(s)
        /\ s = <<>> <=> Len(s) = 0
    BY StackFacts
  <1>o. /\ phase = "shared" /\ phase' = phase /\ freed' = freed /\ freed = {}
        /\ \A d \in Callers \ {c} : pc'[d] = pc[d] /\ result'[d] = result[d]
    <2>1. phase = "shared"
      <3>1. pc[c] # "idle" => phase = "shared"
        BY OneInside DEF RepoInv
      <3>2. QED BY <3>1 DEF CallerStep, StartPush, StartPop, StartEmpty, Lock, LinkTable, SetTop,
                            CountTable, TakeTop, UncountTable, ReadSize
    <2>2. UNCHANGED mainVars
      BY DEF CallerStep, StartPush, StartPop, StartEmpty, LinkTable, SetTop, CountTable, TakeTop,
             UncountTable, ReadSize
    <2>3. freed = {}
      BY <1>s, <2>1 DEF ClearedTo
    <2>4. \A d \in Callers \ {c} : pc'[d] = pc[d] /\ result'[d] = result[d]
      BY <1>t DEF CallerStep, StartPush, StartPop, StartEmpty, Lock, Unlock, Goto, LinkTable, SetTop,
                  CountTable, TakeTop, UncountTable, ReadSize, callVars
    <2>5. QED BY <2>1, <2>2, <2>3, <2>4 DEF mainVars
  <1>c. ClearedTo(s)' /\ \A r \in Stacks : ClearedTo(r)'
    BY <1>o DEF ClearedTo
  <1>k. AllKept(s) /\ (owned' = owned => AllKept(s)')
    BY <1>o DEF StackIs, AllKept, Owned
  <1>1. CASE StartPush(c) \/ StartPop(c) \/ StartEmpty(c)
    <2>1. /\ pc[c] = "idle" /\ pc'[c] \in {"link", "pop", "empty"}
          /\ UNCHANGED <<size, table, next, owned>>
      BY <1>1, <1>t DEF StartPush, StartPop, StartEmpty, Lock, Goto, repo, callVars
    <2>2. Counts(s)' /\ TopIs(s)'
      BY <1>s, <1>o, <2>1 DEF Counts, TopIs
    <2>3. QED BY <1>c, <1>k, <2>1, <2>2 DEF StackIs
  <1>2. CASE LinkTable(c)
    <2>1. /\ pc[c] = "link" /\ pc'[c] = "top" /\ result' = result
          /\ next' = [next EXCEPT ![result[c]] = table]
          /\ UNCHANGED <<size, table, owned>>
      BY <1>2, <1>t DEF LinkTable, Goto, callVars
    <2>2. \A d \in Callers \ {c} : pc[d] = "idle"
      BY <2>1, OneInside DEF RepoInv
    <2>3. table = FirstOf(s)
      BY <1>s, <2>1, <2>2 DEF TopIs
    <2>4. result[c] \in owned[c] /\ result[c] \in Tables
      BY <1>t, <2>1 DEF RepoInv, OwnedInv
    <2>5. \A k \in 1..Len(s) : s[k] # result[c]
      BY <1>f, <1>s, <2>4 DEF Counts
    <2>6. \A k \in 1..Len(s) : next'[s[k]] = next[s[k]]
      BY <1>t, <1>f, <2>1, <2>5
    <2>7. next'[result[c]] = FirstOf(s)
      BY <1>t, <2>1, <2>3, <2>4
    <2>8. Counts(s)'
      BY <1>f, <1>s, <2>1, <2>6 DEF Counts
    <2>9. TopIs(s)'
      BY <1>o, <2>1, <2>2, <2>3, <2>7 DEF TopIs
    <2>10. QED BY <1>c, <1>k, <2>1, <2>8, <2>9 DEF StackIs
  <1>3. CASE SetTop(c)
    <2>1. /\ pc[c] = "top" /\ pc'[c] = "count" /\ table' = result[c]
          /\ UNCHANGED <<size, next, owned, result>>
      BY <1>3, <1>t DEF SetTop, Goto, callVars
    <2>2. \A d \in Callers \ {c} : pc[d] = "idle"
      BY <2>1, OneInside DEF RepoInv
    <2>3. Counts(s)'
      BY <1>s, <2>1 DEF Counts
    <2>4. TopIs(s)'
      BY <1>o, <1>s, <2>1, <2>2 DEF TopIs
    <2>5. QED BY <1>c, <1>k, <2>1, <2>3, <2>4 DEF StackIs
  <1>4. CASE CountTable(c)
    <2>1. /\ pc[c] = "count" /\ pc'[c] = "idle"
          /\ size' = size + 1
          /\ owned' = [owned EXCEPT ![c] = @ \ {result[c]}]
          /\ UNCHANGED <<table, next, result>>
      BY <1>4, <1>t DEF CountTable, Unlock, Goto
    <2>2. \A d \in Callers \ {c} : pc[d] = "idle"
      BY <2>1, OneInside DEF RepoInv
    <2>e. PICK e \in Tables : e = result[c] /\ e \in owned[c]
      BY <1>t, <2>1 DEF RepoInv, OwnedInv
    <2>3. e \notin Range(s) /\ IsInjective(s) /\ size = Len(s)
      BY <1>s, <2>e DEF Counts
    <2> DEFINE r == <<e>> \o s
    <2>4. /\ r \in Stacks /\ IsInjective(r)
          /\ Len(r) = Len(s) + 1
          /\ DOMAIN r = 1..(Len(s) + 1)
          /\ \A k \in 1..(Len(s) + 1) : r[k] = IF k = 1 THEN e ELSE s[k - 1]
          /\ Range(r) = Range(s) \cup {e}
          /\ r # <<>>
      BY <2>3, WithTop
    <2> HIDE DEF r
    <2>5. next[e] = FirstOf(s) /\ table = e
      BY <1>s, <2>1, <2>e DEF TopIs
    <2>6. ASSUME NEW k \in DOMAIN r PROVE next[r[k]] = IF k = Len(r) THEN NULL ELSE r[k + 1]
      <3>n. Len(s) \in Nat
        BY <1>f
      <3>1. k \in 1..(Len(s) + 1)
        BY <2>4
      <3>2. CASE k = 1
        <4>1. r[k] = e
          BY <2>4, <3>1, <3>2
        <4>2. k = Len(r) <=> s = <<>>
          BY <1>f, <2>4, <3>2
        <4>3. s # <<>> => k + 1 \in 1..(Len(s) + 1) /\ k + 1 # 1 /\ (k + 1) - 1 = 1
          BY <1>f, <3>2
        <4>4. s # <<>> => r[k + 1] = s[1]
          BY <2>4, <4>3
        <4>5. QED BY <2>5, <4>1, <4>2, <4>4 DEF FirstOf
      <3>3. CASE k # 1
        <4>1. k - 1 \in 1..Len(s) /\ (k - 1) + 1 = k /\ (k = Len(s) + 1 <=> k - 1 = Len(s))
          BY <3>n, <3>1, <3>3
        <4>2. r[k] = s[k - 1]
          BY <2>4, <3>1, <3>3
        <4>3. next[s[k - 1]] = IF k - 1 = Len(s) THEN NULL ELSE s[(k - 1) + 1]
          BY <1>f, <1>s, <4>1 DEF Counts
        <4>4. k # Len(r) => k + 1 \in 1..(Len(s) + 1) /\ k + 1 # 1 /\ (k + 1) - 1 = k
          <5>1. Len(r) = Len(s) + 1
            BY <2>4
          <5>2. QED BY <3>n, <3>1, <5>1
        <4>5. k # Len(r) => r[k + 1] = s[k]
          BY <2>4, <4>4
        <4>6. QED BY <2>4, <4>1, <4>2, <4>3, <4>5
      <3>4. QED BY <3>2, <3>3
    <2>7. ASSUME NEW d \in Callers PROVE owned'[d] \cap Range(r) = {}
      <3>1. d # c => e \notin owned[d]
        BY <2>e DEF RepoInv, OwnedInv
      <3>2. e \notin owned'[d] /\ owned'[d] \subseteq owned[d]
        BY <1>t, <2>1, <2>e, <3>1
      <3>3. QED BY <1>s, <2>4, <3>2 DEF Counts
    <2>8. Counts(r)'
      BY <2>1, <2>3, <2>4, <2>6, <2>7 DEF Counts
    <2>9. FirstOf(r) = e
      <3>1. 1 \in 1..(Len(s) + 1)
        BY <1>f
      <3>2. QED BY <2>4, <3>1 DEF FirstOf
    <2>10. TopIs(r)'
      BY <1>o, <2>1, <2>2, <2>5, <2>9 DEF TopIs
    <2>11. AllKept(r)'
      <3>1. \A d \in Callers : owned[d] \subseteq owned'[d] \cup {e}
        BY <1>t, <2>1, <2>e
      <3>2. Owned \subseteq Owned' \cup {e}
        BY <3>1 DEF Owned
      <3>3. QED BY <1>o, <1>k, <2>4, <3>2 DEF AllKept
    <2>12. StackIs(r)' /\ r = <<result[c]>> \o s
      BY <1>c, <2>4, <2>e, <2>8, <2>10, <2>11 DEF StackIs, r
    <2>13. QED BY <2>1, <2>4, <2>12
  <1>5. CASE TakeTop(c)
    <2>1. pc[c] = "pop" /\ \A d \in Callers \ {c} : pc[d] = "idle"
      BY <1>5, OneInside DEF RepoInv, TakeTop
    <2>2. UNCHANGED <<size, next, owned>>
      BY <1>5 DEF TakeTop
    <2>3. Counts(s)'
      BY <1>s, <2>2 DEF Counts
    <2>4. table = FirstOf(s) /\ size = Len(s)
      BY <1>s, <2>1 DEF TopIs, Counts
    <2>5. TopIs(s)'
      <3>1. CASE size = 0
        <4>1. pc'[c] = "idle" /\ table' = table
          BY <1>5, <1>t, <3>1 DEF TakeTop, Unlock, Goto
        <4>2. QED BY <1>o, <2>1, <2>4, <4>1 DEF TopIs
      <3>2. CASE size # 0
        <4>1. /\ pc'[c] = "uncount" /\ result'[c] = table /\ table' = next[table] /\ next' = next
          BY <1>5, <1>t, <3>2 DEF TakeTop, Goto
        <4>2. s # <<>> /\ table = s[1]
          BY <1>f, <2>4, <3>2 DEF FirstOf
        <4>3. QED BY <1>o, <2>1, <4>1, <4>2 DEF TopIs
      <3>3. QED BY <3>1, <3>2
    <2>6. QED BY <1>c, <1>k, <2>1, <2>2, <2>3, <2>5 DEF StackIs
  <1>6. CASE UncountTable(c)
    <2>1. /\ pc[c] = "uncount" /\ pc'[c] = "idle"
          /\ size' = size - 1
          /\ owned' = [owned EXCEPT ![c] = @ \cup {result[c]}]
          /\ UNCHANGED <<table, next, result>>
      BY <1>6, <1>t DEF UncountTable, Unlock, Goto
    <2>2. \A d \in Callers \ {c} : pc[d] = "idle"
      BY <2>1, OneInside DEF RepoInv
    <2>3. s # <<>> /\ result[c] = s[1] /\ table = next[s[1]] /\ IsInjective(s) /\ size = Len(s)
      BY <1>s, <2>1 DEF TopIs, Counts
    <2> DEFINE r == Tail(s)
    <2>4. /\ r \in Stacks /\ IsInjective(r)
          /\ Len(s) \in Nat \ {0}
          /\ Len(r) = Len(s) - 1
          /\ DOMAIN r = 1..(Len(s) - 1)
          /\ \A k \in 1..(Len(s) - 1) : r[k] = s[k + 1] /\ k + 1 \in 1..Len(s)
          /\ Range(r) = Range(s) \ {s[1]}
          /\ s[1] \in Range(s)
      BY <2>3, WithoutTop
    <2> HIDE DEF r
    <2>r. r = <<>> <=> Len(r) = 0
      BY <2>4, StackFacts
    <2>5. ASSUME NEW k \in DOMAIN r PROVE next[r[k]] = IF k = Len(r) THEN NULL ELSE r[k + 1]
      <3>n. Len(s) \in Nat /\ Len(r) = Len(s) - 1 /\ k \in 1..(Len(s) - 1)
        BY <2>4
      <3>1. k + 1 \in DOMAIN s /\ r[k] = s[k + 1]
        BY <1>f, <2>4
      <3>2. next[s[k + 1]] = IF k + 1 = Len(s) THEN NULL ELSE s[(k + 1) + 1]
        BY <1>s, <3>1 DEF Counts
      <3>3. k + 1 = Len(s) <=> k = Len(r)
        BY <3>n
      <3>4. k # Len(r) => k + 1 \in 1..(Len(s) - 1)
        BY <3>n
      <3>5. k # Len(r) => r[k + 1] = s[(k + 1) + 1]
        BY <2>4, <3>4
      <3>6. QED BY <3>1, <3>2, <3>3, <3>5
    <2>6. ASSUME NEW d \in Callers PROVE owned'[d] \cap Range(r) = {}
      <3>1. owned'[d] \subseteq owned[d] \cup {s[1]}
        BY <1>t, <2>1, <2>3
      <3>2. QED BY <1>s, <2>4, <3>1 DEF Counts
    <2>7. Counts(r)'
      BY <2>1, <2>3, <2>4, <2>5, <2>6 DEF Counts
    <2>8. table = FirstOf(r)
      <3>1. 1 \in DOMAIN s
        BY <1>f, <2>4
      <3>2. next[s[1]] = IF 1 = Len(s) THEN NULL ELSE s[1 + 1]
        BY <1>s, <3>1 DEF Counts
      <3>3. 1 = Len(s) <=> r = <<>>
        BY <2>4, <2>r
      <3>4. r # <<>> => 1 \in 1..(Len(s) - 1)
        BY <2>4, <2>r
      <3>5. QED BY <2>3, <2>4, <3>2, <3>3, <3>4 DEF FirstOf
    <2>9. TopIs(r)'
      BY <1>o, <2>1, <2>2, <2>8 DEF TopIs
    <2>10. AllKept(r)'
      <3>1. /\ \A d \in Callers : owned[d] \subseteq owned'[d]
            /\ s[1] \in owned'[c]
        BY <1>t, <2>1, <2>3
      <3>2. Owned \cup {s[1]} \subseteq Owned'
        BY <3>1 DEF Owned
      <3>3. QED BY <1>o, <1>k, <2>4, <3>2 DEF AllKept
    <2>11. StackIs(r)' /\ r = Tail(s)
      BY <1>c, <2>4, <2>7, <2>9, <2>10 DEF StackIs, r
    <2>12. QED BY <2>1, <2>4, <2>11
  <1>7. CASE ReadSize(c)
    <2>1. /\ pc[c] = "empty" /\ pc'[c] = "idle"
          /\ UNCHANGED <<size, table, next, owned>>
      BY <1>7, <1>t DEF ReadSize, Unlock, Goto, repo
    <2>2. Counts(s)' /\ TopIs(s)'
      BY <1>s, <1>o, <2>1 DEF Counts, TopIs
    <2>3. QED BY <1>c, <1>k, <2>1, <2>2 DEF StackIs
  <1>8. QED BY <1>1, <1>2, <1>3, <1>4, <1>5, <1>6, <1>7 DEF CallerStep

\* What main does to the stack: it clears it, and only when that is over does
\* it count as empty.
LEMMA StackStepMain ==
  ASSUME RepoInv, NEW s \in Stacks, StackIs(s),
         Create \/ StartClear \/ ClearTable \/ FinishClear \/ Destroy \/ UNCHANGED vars
  PROVE  \E r \in Stacks : StackIs(r)' /\ r = IF phase = "clear" /\ phase' = "destroy" THEN <<>> ELSE s
  <1>t. /\ pc \in [Callers -> {"idle", "link", "top", "count", "pop", "uncount", "empty"}]
        /\ phase # "shared" => \A c \in Callers : pc[c] = "idle"
    BY RepoAssumption DEF RepoInv, RepoTypes, LockInv
  <1>s. Counts(s) /\ TopIs(s) /\ ClearedTo(s) /\ AllKept(s)
    BY DEF StackIs
  <1>f. /\ Len(s) \in Nat /\ DOMAIN s = 1..Len(s)
        /\ \A k \in 1..Len(s) : s[k] \in Tables /\ s[k] \in Range(s)
        /\ s = <<>> <=> Len(s) = 0
    BY StackFacts
  <1>1. CASE Create \/ StartClear \/ Destroy \/ UNCHANGED vars
    <2>1. UNCHANGED <<size, table, next, pc, result, owned, freed>>
      BY <1>1 DEF Create, StartClear, Destroy, vars, repo, callVars, mainVars
    <2>2. Counts(s)' /\ TopIs(s)' /\ AllKept(s)'
      BY <1>s, <2>1 DEF Counts, TopIs, AllKept, Owned
    <2>3. CASE Create
      <3>1. ClearedTo(s)'
        BY <1>s, <2>1, <2>3 DEF ClearedTo, Create
      <3>2. QED BY <2>2, <2>3, <3>1 DEF StackIs, Create
    <2>4. CASE StartClear
      <3>1. \A c \in Callers : pc[c] = "idle"
        BY <2>4 DEF StartClear
      <3>2. table = FirstOf(s)
        BY <1>s, <3>1 DEF TopIs
      <3>3. freed = {} /\ ptr' = table /\ phase' = "clear" /\ phase = "shared"
        BY <1>s, <2>4 DEF StartClear, ClearedTo
      <3>4. 0 \in 0..Len(s) /\ {s[i] : i \in 1..0} = {} /\ (0 = Len(s) <=> s = <<>>) /\ 0 + 1 = 1
        BY <1>f
      <3>5. freed' = {s[i] : i \in 1..0} /\ ptr' = IF 0 = Len(s) THEN NULL ELSE s[0 + 1]
        BY <2>1, <3>2, <3>3, <3>4 DEF FirstOf
      <3>6. ClearedTo(s)'
        BY <3>3, <3>4, <3>5 DEF ClearedTo
      <3>7. QED BY <2>2, <3>3, <3>6 DEF StackIs
    <2>5. CASE Destroy
      <3>1. phase = "destroy" /\ phase' \in {"refused", "destroyed"} /\ s = <<>>
        BY <1>s, <2>5 DEF Destroy, ClearedTo
      <3>2. ClearedTo(s)'
        BY <3>1 DEF ClearedTo
      <3>3. QED BY <2>2, <3>1, <3>2 DEF StackIs
    <2>6. CASE UNCHANGED vars
      <3>1. ClearedTo(s)' /\ phase' = phase
        BY <1>s, <2>6 DEF ClearedTo, vars, mainVars
      <3>2. QED BY <2>2, <3>1 DEF StackIs
    <2>7. QED BY <1>1, <2>3, <2>4, <2>5, <2>6
  <1>2. CASE ClearTable
    <2>1. /\ phase = "clear" /\ phase' = "clear" /\ ptr # NULL
          /\ freed' = freed \cup {ptr} /\ ptr' = next[ptr]
          /\ UNCHANGED <<size, table, next, pc, result, owned>>
      BY <1>2 DEF ClearTable, repo, callVars
    <2>2. Counts(s)' /\ TopIs(s)' /\ AllKept(s)'
      BY <1>s, <2>1 DEF Counts, TopIs, AllKept, Owned
    <2>3. PICK k \in 0..Len(s) : /\ freed = {s[i] : i \in 1..k}
                                 /\ ptr = IF k = Len(s) THEN NULL ELSE s[k + 1]
      BY <1>s, <2>1 DEF ClearedTo
    <2>4. k # Len(s) /\ ptr = s[k + 1]
      BY <2>1, <2>3
    <2>5. k + 1 \in 1..Len(s) /\ k + 1 \in 0..Len(s)
      <3>1. Len(s) \in Nat
        BY <1>f
      <3>2. QED BY <2>4, <3>1
    <2>6. next[ptr] = IF k + 1 = Len(s) THEN NULL ELSE s[(k + 1) + 1]
      BY <1>f, <1>s, <2>4, <2>5 DEF Counts
    <2>7. freed' = {s[i] : i \in 1..(k + 1)}
      <3>1. 1..(k + 1) = 1..k \cup {k + 1}
        <4>1. Len(s) \in Nat
          BY <1>f
        <4>2. k \in Nat
          BY <4>1
        <4>3. QED BY <4>2
      <3>2. QED BY <2>1, <2>3, <2>4, <3>1
    <2>8. ClearedTo(s)'
      BY <2>1, <2>5, <2>6, <2>7 DEF ClearedTo
    <2>9. QED BY <2>1, <2>2, <2>8 DEF StackIs
  <1>3. CASE FinishClear
    <2>1. /\ phase = "clear" /\ phase' = "destroy" /\ size' = 0 /\ table' = NULL /\ ptr = NULL
          /\ UNCHANGED <<next, pc, owned, freed>>
      BY <1>3 DEF FinishClear, callVars
    <2>2. <<>> \in Stacks /\ IsInjective(<<>>) /\ Len(<<>>) = 0 /\ Range(<<>>) = {}
      <3>1. <<>> \in Seq(Tables) /\ IsInjective(<<>>) /\ Range(<<>>) = {}
        BY DEF IsInjective, Range
      <3>2. QED BY <3>1, InjectiveIsStack
    <2>3. Counts(<<>>)'
      BY <2>1, <2>2 DEF Counts
    <2>4. \A c \in Callers : pc'[c] = "idle"
      BY <1>t, <2>1
    <2>5. TopIs(<<>>)'
      BY <2>1, <2>4 DEF TopIs, FirstOf
    <2>6. ClearedTo(<<>>)'
      BY <2>1 DEF ClearedTo
    <2>7. AllKept(<<>>)'
      <3>1. PICK k \in 0..Len(s) : /\ freed = {s[i] : i \in 1..k}
                                   /\ ptr = IF k = Len(s) THEN NULL ELSE s[k + 1]
        BY <1>s, <2>1 DEF ClearedTo
      <3>2. k = Len(s)
        <4>1. Len(s) \in Nat
          BY <1>f
        <4>2. k # Len(s) => k + 1 \in 1..Len(s)
          BY <4>1
        <4>3. QED BY <1>f, <2>1, <3>1, <4>2, RepoAssumption
      <3>3. Range(s) \subseteq freed
        BY <1>f, <3>1, <3>2 DEF Range
      <3>4. QED BY <1>s, <2>1, <3>3 DEF AllKept, Owned
    <2>8. QED BY <2>1, <2>2, <2>3, <2>5, <2>6, <2>7 DEF StackIs
  <1>4. QED BY <1>1, <1>2, <1>3

-----------------------------------------------------------------------------
(* No table is lost.                                                       *)

\* The repository starts empty.
LEMMA RepoInit == Init => RepoInv
  <1> SUFFICES ASSUME Init PROVE RepoInv
    OBVIOUS
  <1>o. PICK owner \in [Tables -> Callers] :
           owned = [c \in Callers |-> {t \in Tables : owner[t] = c}]
    BY DEF Init
  <1>1. RepoTypes /\ LockInv /\ OwnedInv
    BY <1>o, RepoAssumption DEF Init, RepoTypes, LockInv, OwnedInv
  <1>2. <<>> \in Stacks /\ IsInjective(<<>>) /\ Len(<<>>) = 0 /\ Range(<<>>) = {}
    <2>1. <<>> \in Seq(Tables) /\ IsInjective(<<>>) /\ Range(<<>>) = {}
      BY DEF IsInjective, Range
    <2>2. QED BY <2>1, InjectiveIsStack
  <1>3. Counts(<<>>) /\ TopIs(<<>>) /\ ClearedTo(<<>>)
    BY <1>2 DEF Init, Counts, TopIs, ClearedTo, FirstOf
  <1>4. AllKept(<<>>)
    <2>1. \A t \in Tables : owner[t] \in Callers /\ t \in owned[owner[t]]
      BY <1>o
    <2>2. QED BY <2>1 DEF AllKept, Owned
  <1>5. QED BY <1>1, <1>2, <1>3, <1>4 DEF RepoInv, StackIs

\* Every step keeps the invariant.
LEMMA RepoStep ==
  ASSUME RepoInv, [Next]_vars
  PROVE  RepoInv'
  <1>1. RepoTypes' /\ LockInv' /\ OwnedInv'
    BY TypesStep, LockStep, OwnedStep
  <1>2. PICK s \in Stacks : StackIs(s)
    BY DEF RepoInv
  <1>3. \E r \in Stacks : StackIs(r)'
    BY <1>2, StackStepCall, StackStepMain DEF Next, Over
  <1>4. QED BY <1>1, <1>3 DEF RepoInv

\* The lock, the owners of the tables and the linked stack with its size agree
\* in every state that the functions of wf_repo.c can reach.
THEOREM RepoCorrect == Spec => []RepoInv
  BY RepoInit, RepoStep, PTL DEF Spec

\* TablesAccounted: between two calls the list has each table that no thread
\* owns, once, and no other, and ends where the size says; main frees none of
\* them twice, and all of them before the repository is destroyed, which is never
\* refused.
THEOREM NoTableLost == Spec => []TablesAccounted
  <1>1. RepoInv => TablesAccounted
    <2> SUFFICES ASSUME RepoInv PROVE TablesAccounted
      OBVIOUS
    <2>1. PICK s \in Stacks : StackIs(s)
      BY DEF RepoInv
    <2>2. size = Len(s) /\ Counts(s)
      BY <2>1 DEF StackIs, Counts
    <2>3. ASSUME lock = NoThread, phase = "shared"
          PROVE  /\ Linked(table, size) = s
                 /\ size = 0 <=> table = NULL
                 /\ size > 0 => next[s[size]] = NULL
      <3>1. \A c \in Callers : pc[c] = "idle"
        BY <2>3, RepoAssumption DEF RepoInv, LockInv
      <3>2. table = FirstOf(s)
        BY <2>1, <3>1 DEF StackIs, TopIs
      <3>3. Linked(table, Len(s)) = s
        BY <2>2, <3>2, LinkedIs DEF Counts
      <3>4. /\ Len(s) \in Nat /\ DOMAIN s = 1..Len(s) /\ (s = <<>> <=> Len(s) = 0)
            /\ \A k \in 1..Len(s) : s[k] \in Tables
        BY StackFacts
      <3>5. s # <<>> => 1 \in 1..Len(s) /\ Len(s) \in 1..Len(s)
        BY <3>4
      <3>6. size = 0 <=> table = NULL
        BY <2>2, <3>2, <3>4, <3>5, RepoAssumption DEF FirstOf
      <3>7. s # <<>> => next[s[Len(s)]] = NULL
        BY <2>2, <3>4, <3>5 DEF Counts
      <3>8. size > 0 => s # <<>>
        BY <2>2, <3>4
      <3>9. QED BY <2>2, <3>3, <3>6, <3>7, <3>8
    <2>4. IsInjective(s) /\ Range(s) \subseteq Tables /\ Owned \cap Range(s) = {}
      BY <2>2, StackFacts DEF Counts, Range, Owned
    <2>5. /\ \A c, d \in Callers : c # d => owned[c] \cap owned[d] = {}
          /\ Owned \cap freed = {} /\ Owned \subseteq Tables /\ freed \subseteq Tables
          /\ phase # "refused"
      BY DEF RepoInv, OwnedInv, RepoTypes, Owned
    <2>6. Tables \subseteq Range(s) \cup Owned \cup freed /\ ClearedTo(s)
      BY <2>1 DEF StackIs, AllKept
    <2>7. phase = "shared" => Range(s) = Tables \ Owned
      BY <2>4, <2>6 DEF ClearedTo
    <2>8. ASSUME phase = "clear" PROVE ptr \notin freed \cup Owned
      <3>1. PICK k \in 0..Len(s) : /\ freed = {s[i] : i \in 1..k}
                                   /\ ptr = IF k = Len(s) THEN NULL ELSE s[k + 1]
        BY <2>6, <2>8 DEF ClearedTo
      <3>2. CASE k = Len(s)
        BY <2>5, <3>1, <3>2, RepoAssumption
      <3>3. CASE k # Len(s)
        <4>1. /\ DOMAIN s = 1..Len(s) /\ k + 1 \in 1..Len(s)
              /\ \A i \in 1..k : i \in 1..Len(s) /\ i # k + 1
          BY <3>3, StackFacts
        <4>2. \A i \in 1..k : s[i] # s[k + 1]
          BY <2>4, <4>1 DEF IsInjective
        <4>3. s[k + 1] \in Range(s)
          BY <4>1, StackFacts
        <4>4. QED BY <2>4, <3>1, <3>3, <4>2, <4>3
      <3>4. QED BY <3>2, <3>3
    <2>9. ASSUME phase = "destroyed" PROVE freed = Tables \ Owned
      <3>1. Range(s) = {}
        BY <2>6, <2>9 DEF ClearedTo, Range
      <3>2. QED BY <2>5, <2>6, <3>1
    <2>10. QED BY <2>3, <2>4, <2>5, <2>7, <2>8, <2>9 DEF TablesAccounted
  <1>2. QED BY <1>1, RepoCorrect, PTL

-----------------------------------------------------------------------------
(* The repository implements AtomicStack.                                  *)

\* What AtomicStack calls items: it is the stack that the size counts.
Items == IF phase = "clear" THEN Linked(table, size) ELSE Counted

\* They are.
ItemsKnown == \A s \in Stacks : StackIs(s) => Items = s

\* In every state that is reached, the stack can be read from memory.
LEMMA ItemsAre == RepoInv => ItemsKnown
  <1> SUFFICES ASSUME RepoInv, NEW s \in Stacks, StackIs(s) PROVE Items = s
    BY DEF ItemsKnown
  <1>s. Counts(s) /\ TopIs(s) /\ size = Len(s)
    BY DEF StackIs, Counts
  <1>f. /\ Len(s) \in Nat /\ DOMAIN s = 1..Len(s) /\ (s = <<>> <=> Len(s) = 0)
        /\ \A k \in DOMAIN s : next[s[k]] = IF k = Len(s) THEN NULL ELSE s[k + 1]
    BY <1>s, StackFacts DEF Counts
  <1>1. CASE \A c \in Callers : pc[c] \notin {"count", "uncount"}
    <2>1. table = FirstOf(s)
      BY <1>1, <1>s DEF TopIs
    <2>2. Linked(table, size) = s
      BY <1>f, <1>s, <2>1, LinkedIs
    <2>3. ~(\E c \in Callers : pc[c] = "count") /\ {c \in Callers : pc[c] = "uncount"} = {}
      BY <1>1
    <2>4. QED BY <2>2, <2>3 DEF Items, Counted
  <1>2. ASSUME NEW c \in Callers, pc[c] = "count" PROVE Items = s
    <2>1. phase # "clear" /\ \A d \in Callers \ {c} : pc[d] = "idle"
      BY <1>2, OneInside DEF RepoInv
    <2>2. next[table] = FirstOf(s)
      BY <1>2, <1>s DEF TopIs
    <2>3. Linked(next[table], size) = s
      BY <1>f, <1>s, <2>2, LinkedIs
    <2>4. {d \in Callers : pc[d] = "uncount"} = {}
      BY <1>2, <2>1
    <2>5. QED BY <1>2, <2>1, <2>3, <2>4 DEF Items, Counted
  <1>3. ASSUME NEW c \in Callers, pc[c] = "uncount" PROVE Items = s
    <2>1. phase # "clear" /\ \A d \in Callers \ {c} : pc[d] = "idle"
      BY <1>3, OneInside DEF RepoInv
    <2>2. s # <<>> /\ result[c] = s[1] /\ table = next[s[1]] /\ IsInjective(s)
      BY <1>3, <1>s DEF TopIs, Counts
    <2> DEFINE r == Tail(s)
    <2>3. /\ r \in Stacks
          /\ Len(s) \in Nat \ {0}
          /\ Len(r) = Len(s) - 1
          /\ DOMAIN r = 1..(Len(s) - 1)
          /\ \A k \in 1..(Len(s) - 1) : r[k] = s[k + 1] /\ k + 1 \in 1..Len(s)
          /\ IsInjective(r) /\ Range(r) = Range(s) \ {s[1]} /\ s[1] \in Tables
      BY <2>2, WithoutTop, StackFacts
    <2> HIDE DEF r
    <2>4. s = <<s[1]>> \o r
      <3> DEFINE q == <<s[1]>> \o r
      <3>1. /\ q \in Stacks /\ Len(q) = Len(r) + 1
            /\ \A k \in 1..(Len(r) + 1) : q[k] = IF k = 1 THEN s[1] ELSE r[k - 1]
        BY <2>3, WithTop
      <3> HIDE DEF q
      <3>2. Len(r) + 1 = Len(s) /\ Len(q) = Len(s)
        BY <2>3, <3>1
      <3>3. \A k \in 1..Len(s) : k # 1 => k - 1 \in 1..(Len(s) - 1) /\ (k - 1) + 1 = k
        BY <2>3
      <3>4. \A k \in 1..Len(s) : q[k] = s[k]
        BY <2>3, <3>1, <3>2, <3>3
      <3>5. q = s
        BY <3>1, <3>2, <3>4, StackFacts, SeqEqual
      <3>6. QED BY <3>5 DEF q
    <2>r. r = <<>> <=> Len(r) = 0
      BY <2>3, StackFacts
    <2>5. ASSUME NEW k \in DOMAIN r PROVE next[r[k]] = IF k = Len(r) THEN NULL ELSE r[k + 1]
      <3>n. Len(s) \in Nat /\ Len(r) = Len(s) - 1 /\ k \in 1..(Len(s) - 1)
        BY <2>3
      <3>1. k + 1 \in DOMAIN s /\ r[k] = s[k + 1]
        BY <1>f, <2>3
      <3>2. next[s[k + 1]] = IF k + 1 = Len(s) THEN NULL ELSE s[(k + 1) + 1]
        BY <1>f, <3>1
      <3>3. k + 1 = Len(s) <=> k = Len(r)
        BY <3>n
      <3>4. k # Len(r) => k + 1 \in 1..(Len(s) - 1)
        BY <3>n
      <3>5. k # Len(r) => r[k + 1] = s[(k + 1) + 1]
        BY <2>3, <3>4
      <3>6. QED BY <3>1, <3>2, <3>3, <3>5
    <2>6. table = FirstOf(r)
      <3>1. 1 \in DOMAIN s
        BY <1>f, <2>3
      <3>2. next[s[1]] = IF 1 = Len(s) THEN NULL ELSE s[1 + 1]
        BY <1>f, <3>1
      <3>3. 1 = Len(s) <=> r = <<>>
        BY <2>3, <2>r
      <3>4. r # <<>> => 1 \in 1..(Len(s) - 1)
        BY <2>3, <2>r
      <3>5. QED BY <2>2, <2>3, <3>2, <3>3, <3>4 DEF FirstOf
    <2>7. Linked(table, size - 1) = r
      BY <1>s, <2>3, <2>5, <2>6, LinkedIs
    <2>8. {d \in Callers : pc[d] = "uncount"} = {c} /\ ~(\E d \in Callers : pc[d] = "count")
      BY <1>3, <2>1
    <2>9. (CHOOSE d \in {e \in Callers : pc[e] = "uncount"} : TRUE) = c
      BY <2>8
    <2>10. Counted = <<result[c]>> \o Linked(table, size - 1)
      BY <2>8, <2>9 DEF Counted
    <2>11. QED BY <2>1, <2>2, <2>4, <2>7, <2>10 DEF Items
  <1>4. QED BY <1>1, <1>2, <1>3

\* An empty repository is an empty stack.
LEMMA InitRefinesStack == Init => Stack!Init
  <1> SUFFICES ASSUME Init PROVE Stack!Init
    OBVIOUS
  <1>1. RepoInv /\ ItemsKnown
    BY RepoInit, ItemsAre
  <1>2. Items = <<>>
    <2>1. PICK s \in Stacks : StackIs(s)
      BY <1>1 DEF RepoInv
    <2>2. s = <<>>
      BY <2>1 DEF Init, StackIs, ClearedTo
    <2>3. QED BY <1>1, <2>1, <2>2 DEF ItemsKnown
  <1>3. [c \in Callers |-> answer[c] = 1] = [c \in Callers |-> FALSE]
    <2>1. ASSUME NEW c \in Callers PROVE (answer[c] = 1) = FALSE
      <3>1. answer[c] = 0
        BY DEF Init
      <3>2. QED BY <3>1
    <2>2. QED BY <2>1, Zenon
  <1>4. /\ owned \in [Callers -> SUBSET Tables] /\ freed = {} /\ phase = "create"
        /\ \A c, d \in Callers : c # d => owned[c] \cap owned[d] = {}
    BY <1>1 DEF Init, RepoInv, RepoTypes, OwnedInv
  <1>5. QED BY <1>2, <1>3, <1>4 DEF Items, Stack!Init

\* Every step of the repository is a step of AtomicStack or no step of it.
LEMMA StepRefinesStack ==
  ASSUME RepoInv, RepoInv', [Next]_vars
  PROVE  [Stack!Next]_(Stack!vars)
  <1> DEFINE told == [c \in Callers |-> answer[c] = 1]
             gone == IF phase = "clear" THEN {} ELSE freed
  <1>t. /\ answer \in [Callers -> {0, 1}]
        /\ owned \in [Callers -> SUBSET Tables]
        /\ result \in [Callers -> Tables \cup {NULL}]
    BY DEF RepoInv, RepoTypes
  <1>s. PICK s \in Stacks : StackIs(s) /\ Counts(s) /\ TopIs(s) /\ ClearedTo(s)
    BY DEF RepoInv, StackIs
  <1>f. Len(s) \in Nat /\ (s = <<>> <=> Len(s) = 0)
    BY StackFacts
  <1>k. ItemsKnown /\ ItemsKnown'
    BY ItemsAre, PTL
  <1>i. Items = s
    BY <1>s, <1>k DEF ItemsKnown
  <1>stutter. ASSUME Items' = Items, UNCHANGED <<owned, told, gone>>
              PROVE  UNCHANGED Stack!vars
    BY <1>stutter DEF Items, Stack!vars
  <1>step. ASSUME \/ \E c \in Callers :
                       \/ /\ Items # <<>> /\ Items' = Tail(Items)
                          /\ owned' = [owned EXCEPT ![c] = @ \cup {Head(Items)}]
                          /\ UNCHANGED <<told, gone>>
                       \/ /\ told' = [told EXCEPT ![c] = (Items = <<>>)]
                          /\ UNCHANGED <<Items, owned, gone>>
                       \/ \E t \in Tables :
                            /\ t \in owned[c] /\ Items' = <<t>> \o Items
                            /\ owned' = [owned EXCEPT ![c] = @ \ {t}]
                            /\ UNCHANGED <<told, gone>>
                  \/ /\ Items' = <<>> /\ gone' = gone \cup Range(Items)
                     /\ UNCHANGED <<owned, told>>
           PROVE  Stack!Next
    BY <1>step DEF Items, Stack!Next, Stack!Pop, Stack!Test, Stack!Push, Stack!Clear, Stack!Range, Range
  <1> HIDE DEF told, gone
  <1>1. ASSUME NEW c \in Callers, CallerStep(c) PROVE Stack!Next \/ UNCHANGED Stack!vars
    <2>1. PICK r \in Stacks : /\ StackIs(r)'
                              /\ r = IF pc[c] = "count" THEN <<result[c]>> \o s
                                     ELSE IF pc[c] = "uncount" THEN Tail(s) ELSE s
      BY <1>1, <1>s, StackStepCall
    <2>2. Items' = r
      BY <1>k, <2>1 DEF ItemsKnown
    <2>3. UNCHANGED gone
      BY <1>1 DEF gone, CallerStep, StartPush, StartPop, StartEmpty, LinkTable, SetTop, CountTable,
                  TakeTop, UncountTable, ReadSize, mainVars
    <2>4. CASE CountTable(c)
      <3>1. /\ pc[c] = "count" /\ owned' = [owned EXCEPT ![c] = @ \ {result[c]}]
            /\ UNCHANGED told
        BY <2>4 DEF CountTable, told
      <3>2. result[c] \in owned[c] /\ result[c] \in Tables
        BY <1>t, <3>1 DEF RepoInv, OwnedInv
      <3>3. Items' = <<result[c]>> \o Items
        BY <1>i, <2>1, <2>2, <3>1
      <3>4. QED BY <1>step, <2>3, <3>1, <3>2, <3>3
    <2>5. CASE UncountTable(c)
      <3>1. /\ pc[c] = "uncount" /\ owned' = [owned EXCEPT ![c] = @ \cup {result[c]}]
            /\ UNCHANGED told
        BY <2>5 DEF UncountTable, told
      <3>2. s # <<>> /\ result[c] = s[1] /\ Head(s) = s[1]
        BY <1>s, <3>1, StackFacts DEF TopIs
      <3>3. Items # <<>> /\ Items' = Tail(Items) /\ Head(Items) = result[c]
        BY <1>i, <2>1, <2>2, <3>1, <3>2
      <3>4. QED BY <1>step, <2>3, <3>1, <3>3
    <2>6. CASE ReadSize(c)
      <3>1. /\ pc[c] = "empty" /\ owned' = owned
            /\ answer' = [answer EXCEPT ![c] = IF size = 0 THEN 1 ELSE 0]
        BY <2>6 DEF ReadSize
      <3>2. Items' = Items
        BY <1>i, <2>1, <2>2, <3>1
      <3>3. size = 0 <=> Items = <<>>
        BY <1>i, <1>s, <1>f DEF Counts
      <3>4. told' = [told EXCEPT ![c] = (Items = <<>>)]
        <4>1. \A d \in Callers : answer'[d] = 1 <=> IF d = c THEN Items = <<>> ELSE answer[d] = 1
          BY <1>t, <3>1, <3>3
        <4>2. told' = [d \in Callers |-> IF d = c THEN (Items = <<>>) ELSE answer[d] = 1]
          BY <4>1, Zenon DEF told
        <4>3. QED BY <4>2, Zenon DEF told
      <3>5. QED BY <1>step, <2>3, <3>1, <3>2, <3>4
    <2>7. CASE StartPush(c) \/ StartPop(c) \/ StartEmpty(c) \/ LinkTable(c) \/ SetTop(c) \/ TakeTop(c)
      <3>1. pc[c] \notin {"count", "uncount"} /\ UNCHANGED <<owned, told>>
        BY <2>7 DEF StartPush, StartPop, StartEmpty, Lock, LinkTable, SetTop, TakeTop, callVars, told
      <3>2. Items' = Items
        BY <1>i, <2>1, <2>2, <3>1
      <3>3. QED BY <1>stutter, <2>3, <3>1, <3>2
    <2>8. QED BY <1>1, <2>4, <2>5, <2>6, <2>7 DEF CallerStep
  <1>2. ASSUME Create \/ StartClear \/ ClearTable \/ FinishClear \/ Destroy \/ UNCHANGED vars
        PROVE  Stack!Next \/ UNCHANGED Stack!vars
    <2>1. PICK r \in Stacks : /\ StackIs(r)'
                              /\ r = IF phase = "clear" /\ phase' = "destroy" THEN <<>> ELSE s
      BY <1>2, <1>s, StackStepMain
    <2>2. Items' = r
      BY <1>k, <2>1 DEF ItemsKnown
    <2>3. UNCHANGED <<owned, told>>
      BY <1>2 DEF Create, StartClear, ClearTable, FinishClear, Destroy, vars, callVars, told
    <2>4. CASE FinishClear
      <3>1. phase = "clear" /\ phase' = "destroy" /\ freed' = freed /\ ptr = NULL
        BY <2>4 DEF FinishClear
      <3>2. PICK k \in 0..Len(s) : /\ freed = {s[i] : i \in 1..k}
                                   /\ ptr = IF k = Len(s) THEN NULL ELSE s[k + 1]
        BY <1>s, <3>1 DEF ClearedTo
      <3>3. k = Len(s)
        <4>1. k # Len(s) => k + 1 \in 1..Len(s)
          BY <1>f
        <4>2. QED BY <3>1, <3>2, <4>1, StackFacts, RepoAssumption
      <3>4. freed = Range(Items)
        BY <1>i, <3>2, <3>3, StackFacts DEF Range
      <3>5. gone' = gone \cup Range(Items) /\ Items' = <<>>
        BY <2>1, <2>2, <3>1, <3>4 DEF gone
      <3>6. QED BY <1>step, <2>3, <3>5
    <2>5. CASE ~FinishClear
      <3>1. ~(phase = "clear" /\ phase' = "destroy")
        BY <1>2, <2>5 DEF Create, StartClear, ClearTable, Destroy, vars, mainVars
      <3>2. Items' = Items
        BY <1>i, <2>1, <2>2, <3>1
      <3>3. UNCHANGED gone
        BY <1>2, <1>s, <2>5 DEF Create, StartClear, ClearTable, Destroy, vars, mainVars, gone, ClearedTo
      <3>4. QED BY <1>stutter, <2>3, <3>2, <3>3
    <2>6. QED BY <2>4, <2>5
  <1>3. QED BY <1>1, <1>2 DEF Next, Over

\* ImplementsAtomicStack: whatever the threads do at the same time, their
\* pushes and pops take effect one after the other, and clearing frees what is
\* on the stack.
THEOREM RepoImplementsAtomicStack == Spec => ImplementsAtomicStack
  BY InitRefinesStack, StepRefinesStack, RepoCorrect, PTL DEF Spec, ImplementsAtomicStack, Stack!Spec
=============================================================================
