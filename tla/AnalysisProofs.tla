---------------------------- MODULE AnalysisProofs ----------------------------
(***************************************************************************)
(* Proofs about the analysis phase, for any number of tables and threads   *)
(* and any width of int: the cursor walks the pairs row by row without a   *)
(* NULL pointer, and the entry that a thread writes outside the mutex is   *)
(* its own.  Then, what the width of int does to the number of pairs.      *)
(*                                                                         *)
(* Last, what the phase prints: as long as the product at line 411 of      *)
(* compare.c fits in an int, the report has one line for every pair of     *)
(* files, and the phase implements PairWork.  The argument: the place of a *)
(* pair in the rows of the repository is a number of its own, every entry  *)
(* has the pair whose number is its index, and main reads the entries only *)
(* when none is left to a thread.                                          *)
(*                                                                         *)
(* At the end the comparison itself, jsd_comp, whose module has variables  *)
(* of its own: its merge is correct for any two lexical lists.             *)
(***************************************************************************)
EXTENDS AnalysisRefinement, Jsd, FiniteSetTheorems, SequenceTheorems, TLAPS

-----------------------------------------------------------------------------
(* The inductive invariant.                                                *)

\* Who holds analysis_mutex is who is inside the critical section.
MutexHeld ==
    \A t \in AnalysisThreads : pc[t] \in {"take", "advance"} <=> analysis_mutex = t

\* A thread in the critical section has seen that a comparison is left, and a
\* thread has been given the comparison its index says.
IndicesHandedOut ==
    \A t \in AnalysisThreads :
        /\ pc[t] = "take" => jsd_comp_iter < jsd_total_comp
        /\ pc[t] = "advance" => cur_idx[t] = jsd_comp_iter /\ jsd_comp_iter < jsd_total_comp
        /\ pc[t] \in {"describe", "compare"} => cur_idx[t] < jsd_comp_iter

\* The entries not handed out have no result.
RestIsBlank ==
    \A k \in Indices : k >= jsd_comp_iter => jsd_list[k].jsd = BlankEntry.jsd

\* A thread has been given two tables, not NULL.
GivenTables ==
    \A t \in AnalysisThreads : Busy(t) => f1[t] \in 1..size /\ f2[t] \in 1..size

\* Before the cursor is set up no thread exists; the total is at most the
\* number of pairs, whatever the product wrapped to.
Prepared ==
    /\ main = "prepare" => jsd_total_comp = 0 /\ \A t \in AnalysisThreads : pc[t] = "unborn"
    /\ 2 * jsd_total_comp <= size * (size - 1)

AnalysisInv ==
    /\ TypeOK
    /\ MutexHeld
    /\ IndicesHandedOut
    /\ RestIsBlank
    /\ Prepared
    /\ CursorOnPair
    /\ EntriesOwned
    /\ GivenTables

-----------------------------------------------------------------------------
(* Arithmetic.                                                             *)

\* A sum reduced modulo the range of int is no larger than the sum, so the
\* wrapped number of pairs never exceeds the number of pairs.
LEMMA WrapBelow ==
    ASSUME NEW n \in Nat
    PROVE  Wrap(n) \in Int /\ Wrap(n) <= n
<1>1. IntMax \in Nat \ {0}
  BY IntAssumption
<1>2. n + IntMax + 1 \in Nat /\ 2 * IntMax + 2 \in Nat \ {0}
  BY <1>1
<1>3. ASSUME NEW a \in Nat, NEW b \in Nat \ {0}
      PROVE  a % b \in Nat /\ a % b <= a
  OBVIOUS
<1> QED
  BY <1>1, <1>2, <1>3 DEF Wrap

\* The total is an int, whatever the product wrapped to.
LEMMA TotalIsInt ==
    ASSUME NEW n \in Nat
    PROVE  TotalComparisons(n) \in Int
<1>1. PICK w \in Int : w = Wrap(n * (n - 1))
  <2>1. n * (n - 1) \in Nat
    OBVIOUS
  <2> QED
    BY <2>1, WrapBelow
<1>2. w >= 0 => w \div 2 \in Int
  OBVIOUS
<1>3. w < 0 => 0 - ((0 - w) \div 2) \in Int
  OBVIOUS
<1> QED
  BY <1>1, <1>2, <1>3 DEF TotalComparisons, Half

\* jsd_total_comp is at most the number of pairs when malloc accepts it.
LEMMA TotalBelow ==
    ASSUME NEW n \in Nat, TotalComparisons(n) >= 0
    PROVE  TotalComparisons(n) \in Nat /\ 2 * TotalComparisons(n) <= n * (n - 1)
<1>1. n * (n - 1) \in Nat
  OBVIOUS
<1>2. PICK w \in Int : w = Wrap(n * (n - 1)) /\ w <= n * (n - 1)
  BY <1>1, WrapBelow
<1>3. CASE w >= 0
  <2>1. w \div 2 \in Nat /\ 2 * (w \div 2) <= w
    BY <1>3
  <2> QED
    BY <1>1, <1>2, <1>3, <2>1 DEF TotalComparisons, Half
<1>4. CASE w < 0
  <2>1. PICK v \in Nat : v = 0 - w
    BY <1>4
  <2>2. v \div 2 \in Nat
    OBVIOUS
  <2>3. TotalComparisons(n) = 0 - (v \div 2)
    BY <1>2, <1>4, <2>1 DEF TotalComparisons, Half
  <2> QED
    BY <1>1, <2>2, <2>3
<1> QED
  BY <1>2, <1>3, <1>4

\* The end of a row: the next pair begins a row of its own, and there is such
\* a row unless this was the last pair.
LEMMA NextRow ==
    ASSUME NEW n \in Nat, NEW u \in Nat, NEW v \in Nat, NEW total \in Nat,
           1 <= u, u < n,
           2 * v = (u - 1) * (2 * n - u) + 2 * (n - u - 1),
           2 * total <= n * (n - 1)
    PROVE  /\ 2 * (v + 1) = u * (2 * n - u - 1)
           /\ v + 1 < total => u + 1 < n
<1>1. 2 * (v + 1) = u * (2 * n - u - 1)
  OBVIOUS
<1>2. ASSUME u + 1 = n PROVE 2 * (v + 1) = n * (n - 1)
  BY <1>1, <1>2
<1> QED
  BY <1>1, <1>2

-----------------------------------------------------------------------------
(* Every step preserves the invariant.                                     *)

\* The invariant holds before the cursor is set up.
LEMMA InitInv == Init => AnalysisInv
<1> SUFFICES ASSUME Init PROVE AnalysisInv
  OBVIOUS
<1> USE DEF Init
<1>1. size \in Nat /\ size * (size - 1) >= 0
  BY AnalysisAssumption
<1>2. Indices = {}
  BY DEF Indices
<1>3. TypeOK
  BY <1>1, <1>2, AnalysisAssumption
     DEF TypeOK, Busy, AnalysisLabels, MainLabels, TableOrNull, NULL, Entry
<1>4. MutexHeld /\ IndicesHandedOut /\ RestIsBlank
  BY <1>2, AnalysisAssumption DEF MutexHeld, IndicesHandedOut, RestIsBlank
<1>5. Prepared /\ CursorOnPair /\ EntriesOwned /\ GivenTables
  BY <1>1 DEF Prepared, CursorOnPair, EntriesOwned, Busy, GivenTables
<1> QED
  BY <1>3, <1>4, <1>5 DEF AnalysisInv

\* Steps that leave the cursor, the list and the threads alone.
LEMMA QuietInv ==
    ASSUME AnalysisInv, main # "prepare", main' \in MainLabels \ {"prepare"},
           UNCHANGED <<cursorVars, jsd_list, analysis_mutex, pc, localVars, size,
                       jsd_total_comp>>
    PROVE  AnalysisInv'
<1> USE DEF AnalysisInv, cursorVars, localVars
<1>1. TypeOK'
  BY DEF TypeOK, Busy, Indices, Entry, TableOrNull
<1>2. MutexHeld' /\ IndicesHandedOut' /\ RestIsBlank'
  BY DEF MutexHeld, IndicesHandedOut, RestIsBlank, Indices
<1>3. Prepared' /\ CursorOnPair' /\ EntriesOwned' /\ GivenTables'
  BY DEF Prepared, CursorOnPair, EntriesOwned, Busy, GivenTables
<1> QED
  BY <1>1, <1>2, <1>3

\* The test of the cursor under the mutex (analysis_threads.c:16-29).
LEMMA LockInv ==
    ASSUME AnalysisInv, NEW t \in AnalysisThreads, LockCursor(t)
    PROVE  AnalysisInv'
<1> USE DEF AnalysisInv, LockCursor, Goto, cursorVars, localVars, mainVars
<1>1. pc' \in [AnalysisThreads -> AnalysisLabels] /\ pc'[t] \in {"take", "done"}
  BY DEF TypeOK, AnalysisLabels
<1>2. \A u \in AnalysisThreads \ {t} : pc'[u] = pc[u]
  BY DEF TypeOK
<1>3. \A u \in AnalysisThreads : Busy(u)' <=> Busy(u)
  BY <1>1, <1>2 DEF Busy
<1>4. TypeOK'
  BY <1>1, <1>3 DEF TypeOK, Indices, Entry, TableOrNull
<1>5. MutexHeld'
  BY <1>1, <1>2, AnalysisAssumption DEF MutexHeld, TypeOK
<1>6. IndicesHandedOut'
  <2>1. pc'[t] = "take" => jsd_comp_iter < jsd_total_comp
    BY DEF TypeOK
  <2> QED
    BY <1>1, <1>2, <2>1 DEF IndicesHandedOut
<1>7. RestIsBlank' /\ CursorOnPair'
  BY DEF RestIsBlank, CursorOnPair, Indices
<1>8. EntriesOwned' /\ GivenTables'
  BY <1>3 DEF EntriesOwned, GivenTables
<1>9. Prepared'
  BY DEF Prepared
<1> QED
  BY <1>4, <1>5, <1>6, <1>7, <1>8, <1>9

\* The copy of the cursor: the index taken is nobody else's and its entry blank.
LEMMA TakeInv ==
    ASSUME AnalysisInv, NEW t \in AnalysisThreads, TakePair(t)
    PROVE  AnalysisInv'
<1> USE DEF AnalysisInv, TakePair, Goto, cursorVars, mainVars
<1>1. pc' \in [AnalysisThreads -> AnalysisLabels] /\ pc'[t] = "advance"
  BY DEF TypeOK, AnalysisLabels
<1>2. \A u \in AnalysisThreads \ {t} : pc'[u] = pc[u] /\ cur_idx'[u] = cur_idx[u]
  BY DEF TypeOK
<1>3. cur_idx' \in [AnalysisThreads -> Nat] /\ cur_idx'[t] = jsd_comp_iter
  BY DEF TypeOK
<1>4. jsd_comp_iter < jsd_total_comp /\ jsd_comp_iter \in Indices
  BY DEF IndicesHandedOut, TypeOK, Indices
<1>5. TypeOK'
  <2>1. \A u \in AnalysisThreads : Busy(u)' => cur_idx'[u] \in Indices
    BY <1>2, <1>3, <1>4 DEF TypeOK, Busy
  <2> QED
    BY <1>1, <1>3, <2>1 DEF TypeOK, Indices, Entry, TableOrNull
<1>6. MutexHeld'
  BY <1>1, <1>2 DEF MutexHeld
<1>7. \A u \in AnalysisThreads \ {t} : pc[u] \notin {"take", "advance"}
  BY DEF MutexHeld
<1>8. IndicesHandedOut'
  BY <1>1, <1>2, <1>3, <1>4 DEF IndicesHandedOut
<1>9. RestIsBlank' /\ CursorOnPair' /\ Prepared'
  BY DEF RestIsBlank, CursorOnPair, Indices, Prepared
<1>10. EntriesOwned'
  <2>1. \A u \in AnalysisThreads \ {t} : Busy(u)' => Busy(u) /\ cur_idx'[u] < jsd_comp_iter
    BY <1>2, <1>7 DEF Busy, IndicesHandedOut
  <2>2. \A u \in AnalysisThreads \ {t} : Busy(u)' => cur_idx'[u] # cur_idx'[t]
    BY <1>3, <2>1 DEF TypeOK
  <2>3. jsd_list[cur_idx'[t]].jsd = BlankEntry.jsd
    BY <1>3, <1>4 DEF RestIsBlank, TypeOK
  <2> QED
    BY <1>2, <2>1, <2>2, <2>3 DEF EntriesOwned
<1>11. GivenTables'
  <2>1. f1'[t] \in 1..size /\ f2'[t] \in 1..size
    BY <1>4 DEF CursorOnPair, Prepared, TypeOK, TableOrNull
  <2>2. \A u \in AnalysisThreads \ {t} :
           (Busy(u)' => Busy(u)) /\ f1'[u] = f1[u] /\ f2'[u] = f2[u]
    BY <1>2 DEF Busy, TypeOK
  <2> QED
    BY <2>1, <2>2 DEF GivenTables
<1> QED
  BY <1>5, <1>6, <1>8, <1>9, <1>10, <1>11

\* The step that needs the arithmetic.
LEMMA AdvanceInv ==
    ASSUME AnalysisInv, NEW t \in AnalysisThreads, AdvanceCursor(t)
    PROVE  AnalysisInv'
<1> USE DEF AnalysisInv, AdvanceCursor, Goto, localVars, mainVars
<1>1. pc' \in [AnalysisThreads -> AnalysisLabels] /\ pc'[t] = "describe"
  BY DEF TypeOK, AnalysisLabels
<1>2. \A u \in AnalysisThreads \ {t} : pc'[u] = pc[u] /\ pc[u] \notin {"take", "advance"}
  BY DEF TypeOK, MutexHeld
<1>3. cur_idx[t] = jsd_comp_iter /\ jsd_comp_iter < jsd_total_comp
  BY DEF IndicesHandedOut
<1>4. /\ size \in Nat /\ x \in 0..size /\ y \in 0..size
      /\ jsd_comp_iter \in Nat /\ jsd_total_comp \in Nat
  BY AnalysisAssumption DEF TypeOK, TableOrNull
<1>5. main # "prepare"
  BY DEF Prepared
<1>6. /\ 1 <= x /\ x < y /\ y <= size
      /\ 2 * jsd_comp_iter = (x - 1) * (2 * size - x) + 2 * (y - x - 1)
  BY <1>3, <1>5 DEF CursorOnPair
<1>7. /\ x' \in 0..size /\ y' \in 0..size
      /\ jsd_comp_iter' < jsd_total_comp =>
            /\ 1 <= x' /\ x' < y' /\ y' <= size
            /\ 2 * jsd_comp_iter' = (x' - 1) * (2 * size - x') + 2 * (y' - x' - 1)
  <2>1. CASE y # size
    <3>1. x' = x /\ y' = y + 1 /\ jsd_comp_iter' = jsd_comp_iter + 1
      BY <1>4, <1>6, <2>1 DEF NextTable, NULL
    <3>2. PICK row \in Int : row = (x - 1) * (2 * size - x)
      BY <1>4
    <3>3. 2 * (jsd_comp_iter + 1) = row + 2 * ((y + 1) - x - 1)
      BY <1>4, <1>6, <3>2
    <3> QED
      BY <1>4, <1>6, <2>1, <3>1, <3>2, <3>3
  <2>2. CASE y = size
    <3>1. /\ 2 * (jsd_comp_iter + 1) = x * (2 * size - x - 1)
          /\ jsd_comp_iter + 1 < jsd_total_comp => x + 1 < size
      BY <1>4, <1>6, <2>2, NextRow DEF Prepared
    <3>2. x' = x + 1 /\ y' = IF x + 1 = size THEN 0 ELSE x + 2
      BY <1>4, <1>6, <2>2 DEF NextTable, NULL
    <3>3. x' \in 0..size /\ y' \in 0..size
      BY <1>4, <1>6, <2>2, <3>2
    <3>4. ASSUME jsd_comp_iter' < jsd_total_comp
          PROVE  /\ 1 <= x' /\ x' < y' /\ y' <= size
                 /\ 2 * jsd_comp_iter' = (x' - 1) * (2 * size - x') + 2 * (y' - x' - 1)
      <4>1. x + 1 < size /\ x' = x + 1 /\ y' = x + 2
        BY <1>4, <3>1, <3>2, <3>4
      <4> QED
        BY <1>4, <1>6, <3>1, <4>1
    <3> QED
      BY <3>3, <3>4
  <2> QED
    BY <2>1, <2>2
<1>8. TypeOK'
  <2>1. jsd_comp_iter' \in 0..jsd_total_comp
    BY <1>3, <1>4
  <2>2. \A u \in AnalysisThreads : Busy(u)' => Busy(u)
    BY <1>1, <1>2 DEF Busy
  <2> QED
    BY <1>1, <1>7, <2>1, <2>2, AnalysisAssumption DEF TypeOK, Indices, Entry, TableOrNull
<1>9. MutexHeld'
  BY <1>1, <1>2, AnalysisAssumption DEF MutexHeld
<1>10. IndicesHandedOut'
  BY <1>1, <1>2, <1>3, <1>4 DEF IndicesHandedOut, TypeOK
<1>11. RestIsBlank'
  BY <1>4 DEF RestIsBlank, Indices
<1>12. CursorOnPair' /\ Prepared'
  BY <1>1, <1>5, <1>7 DEF CursorOnPair, Prepared
<1>13. EntriesOwned' /\ GivenTables'
  <2>1. \A u \in AnalysisThreads : Busy(u)' => Busy(u)
    BY <1>1, <1>2 DEF Busy
  <2> QED
    BY <2>1 DEF EntriesOwned, GivenTables
<1> QED
  BY <1>8, <1>9, <1>10, <1>11, <1>12, <1>13

\* The two steps that write an entry outside the mutex.
LEMMA DescribeInv ==
    ASSUME AnalysisInv, NEW t \in AnalysisThreads, DescribeEntry(t)
    PROVE  AnalysisInv'
<1> USE DEF AnalysisInv, DescribeEntry, Goto, cursorVars, localVars, mainVars
<1> DEFINE c == cur_idx[t]
<1>1. pc' \in [AnalysisThreads -> AnalysisLabels] /\ pc'[t] = "compare"
  BY DEF TypeOK, AnalysisLabels
<1>2. \A u \in AnalysisThreads \ {t} : pc'[u] = pc[u]
  BY DEF TypeOK
<1>3. c \in Indices /\ f1[t] \in TableOrNull /\ f2[t] \in TableOrNull
  BY DEF TypeOK, Busy
<1>4. \A k \in Indices : jsd_list'[k].jsd = jsd_list[k].jsd
  BY <1>3 DEF TypeOK, Entry
<1>5. NoWords[f1[t]] + NoWords[f2[t]] \in Nat
  <2>1. f1[t] \in 1..size /\ f2[t] \in 1..size
    BY <1>3 DEF GivenTables, Busy
  <2> QED
    BY <2>1, AnalysisAssumption DEF TypeOK
<1>6. jsd_list' \in [Indices -> Entry]
  BY <1>3, <1>5 DEF TypeOK, Entry
<1>7. TypeOK'
  <2>1. \A u \in AnalysisThreads : Busy(u)' => Busy(u)
    BY <1>1, <1>2 DEF Busy
  <2> QED
    BY <1>1, <1>6, <2>1 DEF TypeOK, Indices, Entry, TableOrNull
<1>8. MutexHeld' /\ IndicesHandedOut'
  BY <1>1, <1>2 DEF MutexHeld, IndicesHandedOut
<1>9. RestIsBlank'
  BY <1>4 DEF RestIsBlank, Indices
<1>10. CursorOnPair' /\ Prepared'
  BY <1>1, <1>2 DEF CursorOnPair, Prepared
<1>11. EntriesOwned' /\ GivenTables'
  <2>1. \A u \in AnalysisThreads : Busy(u)' => Busy(u)
    BY <1>1, <1>2 DEF Busy
  <2> QED
    BY <1>4, <2>1 DEF EntriesOwned, TypeOK, GivenTables
<1> QED
  BY <1>7, <1>8, <1>9, <1>10, <1>11

\* The divergence goes to an entry of the thread's own.
LEMMA CompareInv ==
    ASSUME AnalysisInv, NEW t \in AnalysisThreads, CompareFiles(t)
    PROVE  AnalysisInv'
<1> USE DEF AnalysisInv, CompareFiles, Goto, cursorVars, localVars, mainVars
<1> DEFINE c == cur_idx[t]
<1>1. pc' \in [AnalysisThreads -> AnalysisLabels] /\ pc'[t] = "lock"
  BY DEF TypeOK, AnalysisLabels
<1>2. \A u \in AnalysisThreads \ {t} : pc'[u] = pc[u]
  BY DEF TypeOK
<1>3. c \in Indices /\ f1[t] \in TableOrNull /\ f2[t] \in TableOrNull
  BY DEF TypeOK, Busy
<1>4. \A k \in Indices \ {c} : jsd_list'[k] = jsd_list[k]
  BY <1>3 DEF TypeOK
<1>5. jsd_list' \in [Indices -> Entry]
  BY <1>3 DEF TypeOK, Entry
<1>6. \A u \in AnalysisThreads : Busy(u)' => Busy(u) /\ u # t
  BY <1>1, <1>2 DEF Busy
<1>7. TypeOK'
  BY <1>1, <1>5, <1>6 DEF TypeOK, Indices, Entry, TableOrNull
<1>8. MutexHeld' /\ IndicesHandedOut'
  BY <1>1, <1>2 DEF MutexHeld, IndicesHandedOut
<1>9. RestIsBlank'
  <2>1. c < jsd_comp_iter
    BY DEF IndicesHandedOut
  <2>2. \A k \in Indices : k >= jsd_comp_iter => k # c
    BY <2>1 DEF TypeOK, Indices
  <2> QED
    BY <1>4, <2>2 DEF RestIsBlank, Indices
<1>10. CursorOnPair' /\ Prepared'
  BY <1>1, <1>2 DEF CursorOnPair, Prepared
<1>11. EntriesOwned' /\ GivenTables'
  <2>1. \A u \in AnalysisThreads : Busy(u)' => cur_idx[u] \in Indices \ {c}
    BY <1>6 DEF EntriesOwned, TypeOK, Busy
  <2> QED
    BY <1>4, <1>6, <2>1 DEF EntriesOwned, GivenTables
<1> QED
  BY <1>7, <1>8, <1>9, <1>10, <1>11

\* main sets the cursor on the first pair, or finds no pair or no memory.
LEMMA PrepareInv ==
    ASSUME AnalysisInv, PrepareAnalysis
    PROVE  AnalysisInv'
<1> USE DEF AnalysisInv, PrepareAnalysis, localVars
<1> DEFINE total == TotalComparisons(size)
<1>1. size \in Nat /\ jsd_comp_iter = 0 /\ jsd_total_comp = 0
  BY AnalysisAssumption DEF TypeOK, Prepared
<1>2. \A t \in AnalysisThreads : pc[t] = "unborn" /\ pc'[t] = "unborn"
  BY DEF Prepared
<1>3. /\ main' \in MainLabels \ {"prepare"}
      /\ x' \in TableOrNull /\ y' \in TableOrNull
      /\ jsd_total_comp' \in Nat
      /\ 2 * jsd_total_comp' <= size * (size - 1)
      /\ jsd_list' \in [Indices' -> Entry]
      /\ \A k \in Indices' : jsd_list'[k].jsd = BlankEntry.jsd
      /\ jsd_total_comp' > 0 => x' = 1 /\ y' = 2 /\ 2 <= size
  <2>1. CASE size < 2 \/ total < 0
    <3>1. UNCHANGED <<jsd_total_comp, jsd_list>> /\ main' \in {"few", "exited"}
      BY <2>1
    <3>2. x' \in TableOrNull /\ y' \in TableOrNull
      BY <1>1, <2>1 DEF TypeOK, TableOrNull
    <3> QED
      BY <1>1, <3>1, <3>2 DEF TypeOK, Prepared, Indices, Entry, TableOrNull, MainLabels
  <2>2. CASE size >= 2 /\ total >= 0
    <3>1. total \in Nat /\ 2 * total <= size * (size - 1)
      BY <1>1, <2>2, TotalBelow
    <3>2. /\ jsd_total_comp' = total /\ x' = 1 /\ y' = 2 /\ main' = "create"
          /\ jsd_list' = [k \in 0..(total - 1) |-> BlankEntry]
      <4>1. ~ (size < 2) /\ ~ (total < 0)
        BY <1>1, <2>2, <3>1
      <4> HIDE DEF total
      <4> QED
        BY <4>1 DEF total
    <3>3. BlankEntry \in Entry
      BY <1>1 DEF BlankEntry, Entry, TableOrNull, NULL
    <3> QED
      BY <1>1, <2>2, <3>1, <3>2, <3>3 DEF Indices, TableOrNull, MainLabels
  <2>3. TotalComparisons(size) \in Int
    BY <1>1, TotalIsInt
  <2> QED
    BY <1>1, <2>1, <2>2, <2>3
<1>4. \A t \in AnalysisThreads : ~ Busy(t)'
  BY <1>2 DEF Busy
<1>5. TypeOK'
  BY <1>1, <1>3, <1>4 DEF TypeOK, Entry, TableOrNull
<1>6. MutexHeld' /\ IndicesHandedOut' /\ RestIsBlank'
  BY <1>2, <1>3 DEF MutexHeld, IndicesHandedOut, RestIsBlank
<1>7. CursorOnPair'
  BY <1>1, <1>3 DEF CursorOnPair
<1>8. Prepared' /\ EntriesOwned' /\ GivenTables'
  BY <1>3, <1>4 DEF Prepared, EntriesOwned, GivenTables
<1> QED
  BY <1>5, <1>6, <1>7, <1>8

\* A thread that main creates has taken nothing.
LEMMA CreateInv ==
    ASSUME AnalysisInv, CreateAnalysisThread
    PROVE  AnalysisInv'
<1> USE DEF AnalysisInv, CreateAnalysisThread, Goto, cursorVars, localVars, mainVars
<1> PICK t \in AnalysisThreads : pc[t] = "unborn" /\ pc' = [pc EXCEPT ![t] = "lock"]
  BY DEF Created
<1>1. pc' \in [AnalysisThreads -> AnalysisLabels] /\ pc'[t] = "lock"
  BY DEF TypeOK, AnalysisLabels
<1>2. \A u \in AnalysisThreads \ {t} : pc'[u] = pc[u]
  BY DEF TypeOK
<1>3. \A u \in AnalysisThreads : Busy(u)' <=> Busy(u)
  BY <1>1, <1>2 DEF Busy
<1>4. TypeOK'
  BY <1>1, <1>3 DEF TypeOK, Indices, Entry, TableOrNull
<1>5. MutexHeld' /\ IndicesHandedOut' /\ RestIsBlank'
  BY <1>1, <1>2 DEF MutexHeld, IndicesHandedOut, RestIsBlank, Indices
<1>6. Prepared' /\ CursorOnPair' /\ EntriesOwned' /\ GivenTables'
  BY <1>3 DEF Prepared, CursorOnPair, EntriesOwned, GivenTables
<1> QED
  BY <1>4, <1>5, <1>6

\* One step per action.
LEMMA StepInv == AnalysisInv /\ [Next]_vars => AnalysisInv'
<1> SUFFICES ASSUME AnalysisInv, [Next]_vars PROVE AnalysisInv'
  OBVIOUS
<1>1. ASSUME NEW t \in AnalysisThreads, ThreadStep(t) PROVE AnalysisInv'
  BY <1>1, LockInv, TakeInv, AdvanceInv, DescribeInv, CompareInv DEF ThreadStep
<1>2. CASE PrepareAnalysis
  BY <1>2, PrepareInv
<1>3. CASE CreateAnalysisThread
  BY <1>3, CreateInv
<1>4. CASE main # "prepare" /\ (AllCreated \/ JoinAnalysisThreads \/ SortAndPrint \/ ExitProcess)
  <2>1. main' \in MainLabels \ {"prepare"}
    BY <1>4 DEF AllCreated, JoinAnalysisThreads, SortAndPrint, ExitProcess, MainLabels
  <2> QED
    BY <1>4, <2>1, QuietInv
       DEF AllCreated, JoinAnalysisThreads, SortAndPrint, ExitProcess, cursorVars, localVars
<1>5. CASE main = "prepare" /\ ExitProcess
  <2> USE DEF AnalysisInv, ExitProcess, cursorVars, localVars
  <2>1. TypeOK'
    BY <1>5 DEF TypeOK, Busy, Indices, Entry, TableOrNull, MainLabels
  <2>2. MutexHeld' /\ IndicesHandedOut' /\ RestIsBlank' /\ EntriesOwned' /\ GivenTables'
    BY <1>5 DEF MutexHeld, IndicesHandedOut, RestIsBlank, Indices, EntriesOwned, Busy,
                GivenTables
  <2>3. Prepared' /\ CursorOnPair'
    BY <1>5 DEF Prepared, CursorOnPair, TypeOK
  <2> QED
    BY <2>1, <2>2, <2>3
<1>6. CASE UNCHANGED vars
  BY <1>6 DEF vars, cursorVars, localVars, mainVars, AnalysisInv, TypeOK, Busy, Indices,
              Entry, TableOrNull, MutexHeld, IndicesHandedOut, RestIsBlank, Prepared,
              CursorOnPair, EntriesOwned, GivenTables
<1>7. ASSUME MainStep PROVE main # "prepare" \/ PrepareAnalysis
  BY <1>7 DEF MainStep, CreateAnalysisThread, AllCreated, JoinAnalysisThreads, SortAndPrint
<1> QED
  BY <1>1, <1>2, <1>3, <1>4, <1>5, <1>6, <1>7 DEF Next, Progress, MainStep, Stop

-----------------------------------------------------------------------------
(* What holds of every behaviour.                                          *)

\* The inductive invariant holds.
THEOREM AnalysisInvariant == Spec => []AnalysisInv
<1>1. Init => AnalysisInv
  BY InitInv
<1>2. AnalysisInv /\ [Next]_vars => AnalysisInv'
  BY StepInv
<1> QED
  BY <1>1, <1>2, PTL DEF Spec

\* The variables keep their types and no index leaves the list (take and
\* describe, analysis_threads.c:31-52).
THEOREM TypeCorrect == Spec => []TypeOK
<1>1. AnalysisInv => TypeOK
  BY DEF AnalysisInv
<1> QED
  BY <1>1, AnalysisInvariant, PTL

\* The pointers followed at analysis_threads.c:36-39 are never NULL and the
\* pairs are handed out row by row, for any number of files and any int.
THEOREM CursorCorrect == Spec => []CursorOnPair
<1>1. AnalysisInv => CursorOnPair
  BY DEF AnalysisInv
<1> QED
  BY <1>1, AnalysisInvariant, PTL

\* No two threads write one entry, and none writes an entry with a result,
\* although the writes are outside the mutex (analysis_threads.c:49-52).
THEOREM EntriesNeverShared == Spec => []EntriesOwned
<1>1. AnalysisInv => EntriesOwned
  BY DEF AnalysisInv
<1> QED
  BY <1>1, AnalysisInvariant, PTL

-----------------------------------------------------------------------------
(* The number of pairs and the width of int (compare.c:411).               *)

\* jsd_total_comp is the number of pairs when the product fits in an int.
THEOREM PairsCounted ==
    ASSUME NEW n \in Nat, n * (n - 1) <= IntMax
    PROVE  2 * TotalComparisons(n) = n * (n - 1)
<1>1. IntMax \in Nat \ {0}
  BY IntAssumption
<1>2. PICK m \in Nat : m = n * (n - 1)
  OBVIOUS
<1>3. Wrap(m) = m
  <2>1. m + IntMax + 1 \in 0..(2 * IntMax + 1)
    BY <1>1, <1>2
  <2>2. ASSUME NEW a \in Nat, NEW b \in Nat \ {0}, a < b PROVE a % b = a
    BY <2>2
  <2>3. (m + IntMax + 1) % (2 * IntMax + 2) = m + IntMax + 1
    BY <1>1, <2>1, <2>2
  <2> QED
    BY <1>1, <1>2, <2>3 DEF Wrap
<1>4. m % 2 = 0
  <2>1. PICK k \in Nat : n = 2 * k \/ n = 2 * k + 1
    <3>1. n \div 2 \in Nat /\ (n = 2 * (n \div 2) \/ n = 2 * (n \div 2) + 1)
      OBVIOUS
    <3> QED
      BY <3>1
  <2>2. CASE n = 2 * k
    <3>1. m = 2 * (k * (2 * k - 1)) /\ k * (2 * k - 1) \in Int
      BY <1>2, <2>2
    <3> QED
      BY <3>1
  <2>3. CASE n = 2 * k + 1
    <3>1. m = 2 * (k * (2 * k + 1)) /\ k * (2 * k + 1) \in Int
      BY <1>2, <2>3
    <3> QED
      BY <3>1
  <2> QED
    BY <2>1, <2>2, <2>3
<1>5. 2 * (m \div 2) = m
  BY <1>4
<1> QED
  BY <1>2, <1>3, <1>5 DEF TotalComparisons, Half

\* With an int of 32 bits the product wraps to 65536 for 65537 files, and the
\* program compares 32768 pairs, one in 65537, without a failure to report.
THEOREM PairsLost ==
    ASSUME IntMax = 2147483647
    PROVE  TotalComparisons(65537) = 32768
<1>1. Wrap(65537 * (65537 - 1)) = 65536
  <2>1. 65537 * (65537 - 1) = 4295032832
    OBVIOUS
  <2>2. (4295032832 + 2147483647 + 1) % (2 * 2147483647 + 2) = 2147549184
    OBVIOUS
  <2> QED
    BY <2>1, <2>2 DEF Wrap
<1> QED
  BY <1>1 DEF TotalComparisons, Half

-----------------------------------------------------------------------------
(* Sizes whose product fits.                                               *)

\* The product size * (size - 1) does not wrap.
PairsFit == \A n \in Sizes : n * (n - 1) <= IntMax

-----------------------------------------------------------------------------
(* The number of a pair.                                                   *)

\* Twice the number of the pairs in the rows before row u, of n files.
RowStart(n, u) == (u - 1) * (2 * n - u)

\* Pair p of n files is the one that is handed out after k others.
IsPairNumber(n, k, p) ==
    /\ p \in (1..n) \X (1..n)
    /\ p[1] < p[2]
    /\ 2 * k = RowStart(n, p[1]) + 2 * (p[2] - p[1] - 1)

\* Row h begins after all the pairs of row u.
LEMMA RowsApart ==
    ASSUME NEW n \in Nat, NEW u \in 1..n, NEW h \in 1..n, u < h
    PROVE  RowStart(n, h) >= RowStart(n, u) + 2 * (n - u)
<1>1. PICK d \in Nat : d = h - u /\ d >= 1
  OBVIOUS
<1>2. PICK m \in Nat : m = n - u /\ d <= m
  BY <1>1
<1>3. PICK e \in Nat : e = d - 1
  BY <1>1
<1>4. PICK g \in Nat : g = 2 * m - d
  BY <1>2
<1>5. e * g >= 0
  BY <1>3, <1>4
<1>6. h = u + d /\ n = u + m
  BY <1>1, <1>2
<1>7. (u + d - 1) * (2 * (u + m) - (u + d)) = (u - 1) * (2 * (u + m) - u) + (d - 1) * (2 * m - d) + 2 * m
  BY <1>1, <1>2
<1> QED
  BY <1>3, <1>4, <1>5, <1>6, <1>7 DEF RowStart

\* No two pairs have one number.
LEMMA PairOfNumber ==
    ASSUME NEW n \in Nat, NEW k \in Nat, NEW p, NEW q,
           IsPairNumber(n, k, p), IsPairNumber(n, k, q)
    PROVE  p = q
<1> USE DEF IsPairNumber
<1>1. RowStart(n, p[1]) \in Int /\ RowStart(n, q[1]) \in Int
  BY DEF RowStart
<1>2. ~ p[1] < q[1]
  BY <1>1, RowsApart
<1>3. ~ q[1] < p[1]
  BY <1>1, RowsApart
<1>4. p[1] = q[1] /\ p[2] = q[2]
  BY <1>1, <1>2, <1>3
<1> QED
  BY <1>4

\* Every pair has a number, below the number of all pairs.
LEMMA NumberOfPair ==
    ASSUME NEW n \in Nat, NEW p \in (1..n) \X (1..n), p[1] < p[2]
    PROVE  \E k \in Nat : IsPairNumber(n, k, p) /\ 2 * k < n * (n - 1)
<1> DEFINE u == p[1]
<1>1. u \in 1..n /\ p[2] \in 1..n /\ u < n
  OBVIOUS
<1>2. PICK r \in Nat : RowStart(n, u) = 2 * r
  <2>1. PICK a \in Nat : u = 2 * a \/ u = 2 * a + 1
    <3>1. u \div 2 \in Nat /\ (u = 2 * (u \div 2) \/ u = 2 * (u \div 2) + 1)
      BY <1>1
    <3> QED
      BY <3>1
  <2>2. CASE u = 2 * a
    <3>1. RowStart(n, u) = 2 * ((2 * a - 1) * (n - a))
      BY <2>2 DEF RowStart
    <3>2. (2 * a - 1) \in Nat /\ (n - a) \in Nat
      BY <1>1, <2>2
    <3> QED
      BY <3>1, <3>2
  <2>3. CASE u = 2 * a + 1
    <3>1. RowStart(n, u) = 2 * (a * (2 * n - u))
      BY <2>3, <1>1 DEF RowStart
    <3>2. (2 * n - u) \in Nat
      BY <1>1
    <3> QED
      BY <3>1, <3>2
  <2> QED
    BY <2>1, <2>2, <2>3
<1>3. PICK s \in Nat : s = p[2] - u - 1
  BY <1>1
<1>4. IsPairNumber(n, r + s, p)
  BY <1>2, <1>3 DEF IsPairNumber
<1>5. 2 * (r + s) < n * (n - 1)
  <2>1. RowStart(n, u) + 2 * (n - u) + (n - u) * (n - u - 1) = n * (n - 1)
    BY <1>1 DEF RowStart
  <2>2. (n - u) * (n - u - 1) >= 0
    <3>1. n - u \in Nat /\ n - u - 1 \in Nat
      BY <1>1
    <3> QED
      BY <3>1
  <2>3. (n - u) * (n - u - 1) \in Int /\ n * (n - 1) \in Int
    BY <1>1
  <2> QED
    BY <1>1, <1>2, <1>3, <2>1, <2>2, <2>3
<1> QED
  BY <1>4, <1>5

-----------------------------------------------------------------------------
(* The inductive invariant, beside that of AnalysisProofs.                 *)

\* A thread has the pair whose number is its index.
RightPairGiven ==
    \A t \in AnalysisThreads : Busy(t) => IsPairNumber(size, cur_idx[t], <<f1[t], f2[t]>>)

\* The two files are in the entry before the divergence is.
FilesDescribed ==
    \A t \in AnalysisThreads : pc[t] = "compare" =>
        jsd_list[cur_idx[t]].file_1 = f1[t] /\ jsd_list[cur_idx[t]].file_2 = f2[t]

\* An entry with a result has that of the pair whose number is its index.
RightResults ==
    \A k \in Indices : jsd_list[k].jsd # BlankEntry.jsd =>
        /\ IsPairNumber(size, k, jsd_list[k].jsd)
        /\ jsd_list[k].jsd = <<jsd_list[k].file_1, jsd_list[k].file_2>>

\* An entry handed out and still blank has a thread that will write it.
NoneForgotten ==
    \A k \in Indices : k < jsd_comp_iter /\ jsd_list[k].jsd = BlankEntry.jsd =>
        \E t \in AnalysisThreads : pc[t] \in {"describe", "compare"} /\ cur_idx[t] = k

\* Once the list is there, it has an entry for every pair.
RoomForAll ==
    main \in {"create", "join", "print", "printed"} =>
        size >= 2 /\ 2 * jsd_total_comp = size * (size - 1)

\* A thread ends when nothing is left to hand out, and main waits for them all.
ThreadsJoined ==
    /\ \A t \in AnalysisThreads : pc[t] = "done" => jsd_comp_iter = jsd_total_comp
    /\ main \in {"join", "print", "printed"} => \E t \in AnalysisThreads : pc[t] # "unborn"
    /\ main \in {"print", "printed"} => \A t \in AnalysisThreads : pc[t] \in {"unborn", "done"}

\* The report is the list in some order.
ListPrinted ==
    main = "printed" =>
        \E place \in Orders : output = [k \in Indices |-> jsd_list[place[k]]]

ReportInv ==
    /\ RightPairGiven
    /\ FilesDescribed
    /\ RightResults
    /\ NoneForgotten
    /\ RoomForAll
    /\ ThreadsJoined
    /\ ListPrinted

\* Nothing has been handed out before the cursor is set up.
LEMMA ReportInit == Init => ReportInv
<1> SUFFICES ASSUME Init PROVE ReportInv
  OBVIOUS
<1> USE DEF Init
<1>1. Indices = {}
  BY DEF Indices
<1> QED
  BY <1>1 DEF ReportInv, RightPairGiven, FilesDescribed, RightResults, NoneForgotten,
              RoomForAll, ThreadsJoined, ListPrinted, Busy

\* A thread looks at the cursor: it ends only if nothing is left.
LEMMA LockReport ==
    ASSUME AnalysisInv, ReportInv, NEW t \in AnalysisThreads, LockCursor(t)
    PROVE  ReportInv'
<1> USE DEF AnalysisInv, ReportInv, LockCursor, Goto, cursorVars, localVars, mainVars
<1>1. pc'[t] \in {"take", "done"} /\ (pc'[t] = "done" => jsd_comp_iter = jsd_total_comp)
  BY DEF TypeOK
<1>2. \A u \in AnalysisThreads \ {t} : pc'[u] = pc[u]
  BY DEF TypeOK
<1>3. main \notin {"print", "printed"}
  BY DEF ThreadsJoined
<1>4. RightPairGiven' /\ FilesDescribed' /\ RightResults' /\ RoomForAll'
  BY <1>1, <1>2 DEF RightPairGiven, FilesDescribed, RightResults, RoomForAll, Busy, Indices
<1>5. NoneForgotten'
  BY <1>1, <1>2 DEF NoneForgotten, Indices
<1>6. ThreadsJoined' /\ ListPrinted'
  BY <1>1, <1>2, <1>3 DEF ThreadsJoined, ListPrinted
<1> QED
  BY <1>4, <1>5, <1>6

\* The pair taken is the one the cursor is on.
LEMMA TakeReport ==
    ASSUME AnalysisInv, ReportInv, NEW t \in AnalysisThreads, TakePair(t)
    PROVE  ReportInv'
<1> USE DEF AnalysisInv, ReportInv, TakePair, Goto, cursorVars, mainVars
<1>1. pc'[t] = "advance" /\ cur_idx'[t] = jsd_comp_iter /\ f1'[t] = x /\ f2'[t] = y
  BY DEF TypeOK
<1>2. \A u \in AnalysisThreads \ {t} :
         pc'[u] = pc[u] /\ cur_idx'[u] = cur_idx[u] /\ f1'[u] = f1[u] /\ f2'[u] = f2[u]
  BY DEF TypeOK
<1>3. main \notin {"print", "printed", "prepare"}
  BY DEF ThreadsJoined, Prepared
<1>4. IsPairNumber(size, jsd_comp_iter, <<x, y>>)
  <2>1. jsd_comp_iter < jsd_total_comp
    BY DEF IndicesHandedOut
  <2>2. x \in 1..size /\ y \in 1..size
    BY <1>3, <2>1 DEF CursorOnPair, TypeOK, TableOrNull
  <2> QED
    BY <1>3, <2>1, <2>2 DEF CursorOnPair, IsPairNumber, RowStart
<1>5. RightPairGiven'
  BY <1>1, <1>2, <1>4 DEF RightPairGiven, Busy
<1>6. FilesDescribed' /\ RightResults' /\ RoomForAll'
  BY <1>1, <1>2 DEF FilesDescribed, RightResults, RoomForAll, Indices
<1>7. NoneForgotten'
  BY <1>1, <1>2 DEF NoneForgotten, Indices
<1>8. ThreadsJoined' /\ ListPrinted'
  BY <1>1, <1>2, <1>3 DEF ThreadsJoined, ListPrinted
<1> QED
  BY <1>5, <1>6, <1>7, <1>8

\* The entry handed out has its thread from now on.
LEMMA AdvanceReport ==
    ASSUME AnalysisInv, ReportInv, NEW t \in AnalysisThreads, AdvanceCursor(t)
    PROVE  ReportInv'
<1> USE DEF AnalysisInv, ReportInv, AdvanceCursor, Goto, localVars, mainVars
<1>1. pc'[t] = "describe" /\ \A u \in AnalysisThreads \ {t} : pc'[u] = pc[u]
  BY DEF TypeOK
<1>2. cur_idx[t] = jsd_comp_iter /\ jsd_comp_iter < jsd_total_comp
  BY DEF IndicesHandedOut
<1>3. main \notin {"print", "printed"}
  BY DEF ThreadsJoined
<1>4. RightPairGiven' /\ FilesDescribed' /\ RightResults' /\ RoomForAll'
  BY <1>1 DEF RightPairGiven, FilesDescribed, RightResults, RoomForAll, Busy, Indices
<1>5. NoneForgotten'
  <2> SUFFICES ASSUME NEW k \in Indices, k < jsd_comp_iter + 1,
                      jsd_list[k].jsd = BlankEntry.jsd
               PROVE  \E u \in AnalysisThreads :
                         pc'[u] \in {"describe", "compare"} /\ cur_idx[u] = k
    BY DEF NoneForgotten, Indices
  <2>1. k < jsd_comp_iter \/ k = jsd_comp_iter
    BY DEF TypeOK, Indices
  <2> QED
    BY <1>1, <1>2, <2>1 DEF NoneForgotten
<1>6. ThreadsJoined' /\ ListPrinted'
  <2>1. \A u \in AnalysisThreads : pc'[u] # "done"
    BY <1>1, <1>2 DEF ThreadsJoined, TypeOK
  <2> QED
    BY <1>1, <1>3, <2>1 DEF ThreadsJoined, ListPrinted
<1> QED
  BY <1>4, <1>5, <1>6

\* The files are written, the result is not.
LEMMA DescribeReport ==
    ASSUME AnalysisInv, ReportInv, NEW t \in AnalysisThreads, DescribeEntry(t)
    PROVE  ReportInv'
<1> USE DEF AnalysisInv, ReportInv, DescribeEntry, Goto, cursorVars, localVars, mainVars
<1> DEFINE c == cur_idx[t]
<1>1. pc'[t] = "compare" /\ \A u \in AnalysisThreads \ {t} : pc'[u] = pc[u]
  BY DEF TypeOK
<1>2. c \in Indices /\ Busy(t)
  BY DEF TypeOK, Busy
<1>3. /\ jsd_list'[c].file_1 = f1[t] /\ jsd_list'[c].file_2 = f2[t]
      /\ jsd_list'[c].jsd = jsd_list[c].jsd
      /\ \A k \in Indices \ {c} : jsd_list'[k] = jsd_list[k]
  BY <1>2 DEF TypeOK
<1>4. jsd_list[c].jsd = BlankEntry.jsd
  BY <1>2 DEF EntriesOwned
<1>5. main \notin {"print", "printed"}
  BY DEF ThreadsJoined
<1>6. RightPairGiven' /\ RoomForAll'
  BY <1>1, <1>2 DEF RightPairGiven, RoomForAll, Busy
<1>7. FilesDescribed'
  <2>1. \A u \in AnalysisThreads \ {t} : pc[u] = "compare" => cur_idx[u] \in Indices \ {c}
    BY <1>2 DEF EntriesOwned, TypeOK, Busy
  <2> QED
    BY <1>1, <1>3, <2>1 DEF FilesDescribed
<1>8. RightResults'
  BY <1>3, <1>4 DEF RightResults, Indices
<1>9. NoneForgotten'
  BY <1>1, <1>3 DEF NoneForgotten, Indices
<1>10. ThreadsJoined' /\ ListPrinted'
  BY <1>1, <1>5 DEF ThreadsJoined, ListPrinted
<1> QED
  BY <1>6, <1>7, <1>8, <1>9, <1>10

\* The result is that of the pair that the entry describes.
LEMMA CompareReport ==
    ASSUME AnalysisInv, ReportInv, NEW t \in AnalysisThreads, CompareFiles(t)
    PROVE  ReportInv'
<1> USE DEF AnalysisInv, ReportInv, CompareFiles, Goto, cursorVars, localVars, mainVars
<1> DEFINE c == cur_idx[t]
<1>1. pc'[t] = "lock" /\ \A u \in AnalysisThreads \ {t} : pc'[u] = pc[u]
  BY DEF TypeOK
<1>2. c \in Indices /\ Busy(t)
  BY DEF TypeOK, Busy
<1>3. /\ jsd_list'[c].jsd = <<f1[t], f2[t]>>
      /\ jsd_list'[c].file_1 = f1[t] /\ jsd_list'[c].file_2 = f2[t]
      /\ \A k \in Indices \ {c} : jsd_list'[k] = jsd_list[k]
  BY <1>2 DEF TypeOK, Entry, FilesDescribed
<1>4. main \notin {"print", "printed"}
  BY DEF ThreadsJoined
<1>5. RightPairGiven' /\ RoomForAll'
  BY <1>1 DEF RightPairGiven, RoomForAll, Busy
<1>6. \A u \in AnalysisThreads \ {t} : Busy(u) => cur_idx[u] \in Indices \ {c}
  BY <1>2 DEF EntriesOwned, TypeOK, Busy
<1>7. FilesDescribed'
  BY <1>1, <1>3, <1>6 DEF FilesDescribed, Busy
<1>8. RightResults'
  BY <1>2, <1>3 DEF RightResults, RightPairGiven, Indices
<1>9. NoneForgotten'
  <2>1. jsd_list'[c].jsd # BlankEntry.jsd
    BY <1>2, <1>3 DEF GivenTables, BlankEntry, NULL
  <2> QED
    BY <1>1, <1>2, <1>3, <2>1 DEF NoneForgotten, Indices
<1>10. ThreadsJoined' /\ ListPrinted'
  BY <1>1, <1>4 DEF ThreadsJoined, ListPrinted
<1> QED
  BY <1>5, <1>7, <1>8, <1>9, <1>10

\* main allocates an entry for every pair, if the product does not wrap.
LEMMA PrepareReport ==
    ASSUME PairsFit, AnalysisInv, ReportInv, PrepareAnalysis
    PROVE  ReportInv'
<1> USE DEF AnalysisInv, ReportInv, PrepareAnalysis, localVars
<1> DEFINE total == TotalComparisons(size)
<1>1. size \in Nat /\ size * (size - 1) <= IntMax /\ jsd_total_comp = 0 /\ jsd_comp_iter = 0
  BY AnalysisAssumption DEF TypeOK, Prepared, PairsFit
<1>2. \A t \in AnalysisThreads : pc[t] = "unborn" /\ pc'[t] = "unborn"
  BY DEF Prepared
<1>3. 2 * total = size * (size - 1)
  BY <1>1, PairsCounted
<1>4. CASE size < 2
  <2>1. main' = "few" /\ jsd_total_comp' = 0 /\ Indices' = {}
    BY <1>1, <1>4 DEF Indices
  <2> QED
    BY <1>2, <2>1 DEF RightPairGiven, FilesDescribed, RightResults, NoneForgotten, RoomForAll,
                      ThreadsJoined, ListPrinted, Busy
<1>5. CASE size >= 2
  <2>1. total \in Int /\ total >= 0
    <3>1. total \in Int
      BY <1>1, TotalIsInt
    <3>2. size * (size - 1) >= 0
      BY <1>1, <1>5
    <3> HIDE DEF total
    <3> QED
      BY <1>3, <3>1, <3>2
  <2>2. main' = "create" /\ jsd_total_comp' = total /\ jsd_list' = [k \in 0..(total - 1) |-> BlankEntry]
    <3>1. ~ (size < 2) /\ ~ (total < 0)
      BY <1>1, <1>5, <2>1
    <3> HIDE DEF total
    <3> QED
      BY <3>1 DEF total
  <2>3. \A k \in Indices' : jsd_list'[k].jsd = BlankEntry.jsd
    BY <2>2 DEF Indices
  <2>4. RoomForAll'
    BY <1>3, <1>5, <2>2 DEF RoomForAll
  <2>5. \A k \in Indices' : ~ k < jsd_comp_iter'
    BY <1>1, <2>1, <2>2 DEF Indices
  <2> QED
    BY <1>2, <2>2, <2>3, <2>4, <2>5
       DEF RightPairGiven, FilesDescribed, RightResults, NoneForgotten, ThreadsJoined,
           ListPrinted, Busy
<1> QED
  BY <1>1, <1>4, <1>5

\* A thread that main creates stands before the cursor.
LEMMA CreateReport ==
    ASSUME AnalysisInv, ReportInv, CreateAnalysisThread
    PROVE  ReportInv'
<1> USE DEF AnalysisInv, ReportInv, CreateAnalysisThread, Goto, cursorVars, localVars, mainVars
<1> PICK t \in AnalysisThreads : pc[t] = "unborn" /\ pc' = [pc EXCEPT ![t] = "lock"]
  BY DEF Created
<1>1. pc'[t] = "lock" /\ \A u \in AnalysisThreads \ {t} : pc'[u] = pc[u]
  BY DEF TypeOK
<1>2. RightPairGiven' /\ FilesDescribed' /\ RightResults' /\ RoomForAll'
  BY <1>1 DEF RightPairGiven, FilesDescribed, RightResults, RoomForAll, Busy, Indices
<1>3. NoneForgotten'
  BY <1>1 DEF NoneForgotten, Indices
<1>4. ThreadsJoined' /\ ListPrinted'
  BY <1>1 DEF ThreadsJoined, ListPrinted
<1> QED
  BY <1>2, <1>3, <1>4

\* main goes on to its joins with a thread to join, and to the report when
\* every thread has ended.
LEMMA MainReport ==
    ASSUME AnalysisInv, ReportInv,
           AllCreated \/ JoinAnalysisThreads \/ SortAndPrint \/ ExitProcess
    PROVE  ReportInv'
<1> USE DEF AnalysisInv, ReportInv, AllCreated, JoinAnalysisThreads, SortAndPrint, ExitProcess
<1>1. UNCHANGED <<cursorVars, jsd_list, analysis_mutex, pc, localVars, size, jsd_total_comp>>
  OBVIOUS
<1>2. RightPairGiven' /\ FilesDescribed' /\ RightResults' /\ NoneForgotten'
  BY <1>1 DEF RightPairGiven, FilesDescribed, RightResults, NoneForgotten, Busy, Indices,
              cursorVars, localVars
<1>3. RoomForAll'
  BY <1>1 DEF RoomForAll
<1>4. ThreadsJoined'
  <2>1. ASSUME AllCreated PROVE \E t \in AnalysisThreads : pc[t] # "unborn"
    <3>1. CASE Created = AnalysisThreads
      BY <3>1, AnalysisAssumption DEF Created
    <3>2. CASE Cardinality(Created) = jsd_total_comp
      <4>1. 2 * jsd_total_comp = size * (size - 1) /\ size >= 2 /\ size \in Nat
        BY <2>1, AnalysisAssumption DEF RoomForAll, TypeOK
      <4>2. size * (size - 1) > 0
        BY <4>1
      <4>3. jsd_total_comp # 0
        BY ONLY <4>1, <4>2
      <4>4. Cardinality({}) = 0
        BY FS_EmptySet
      <4>5. Created # {}
        BY ONLY <3>2, <4>3, <4>4
      <4> QED
        BY <4>5 DEF Created
    <3> QED
      BY <2>1, <3>1, <3>2
  <2>2. ASSUME JoinAnalysisThreads PROVE \A t \in AnalysisThreads : pc[t] \in {"unborn", "done"}
    BY <2>2 DEF Created
  <2> QED
    BY <1>1, <2>1, <2>2 DEF ThreadsJoined, cursorVars
<1>5. ListPrinted'
  <2>1. CASE SortAndPrint
    <3>1. Orders' = Orders /\ Indices' = Indices /\ jsd_list' = jsd_list
      BY <1>1 DEF Orders, Indices
    <3>2. \E place \in Orders : output' = [k \in Indices |-> jsd_list[place[k]]]
      BY <2>1
    <3> QED
      BY <3>1, <3>2 DEF ListPrinted
  <2>2. CASE AllCreated \/ JoinAnalysisThreads \/ ExitProcess
    BY <2>2 DEF ListPrinted
  <2> QED
    BY <2>1, <2>2
<1> QED
  BY <1>2, <1>3, <1>4, <1>5

\* One step per action.
LEMMA ReportStep ==
    ASSUME PairsFit, AnalysisInv, ReportInv, [Next]_vars
    PROVE  ReportInv'
<1>1. ASSUME NEW t \in AnalysisThreads, ThreadStep(t) PROVE ReportInv'
  BY <1>1, LockReport, TakeReport, AdvanceReport, DescribeReport, CompareReport DEF ThreadStep
<1>2. ASSUME MainStep \/ ExitProcess PROVE ReportInv'
  BY <1>2, PrepareReport, CreateReport, MainReport DEF MainStep
<1>3. CASE UNCHANGED vars
  <2> USE <1>3 DEF vars, cursorVars, localVars, mainVars, ReportInv
  <2>1. RightPairGiven' /\ FilesDescribed' /\ RightResults' /\ NoneForgotten'
    BY DEF RightPairGiven, FilesDescribed, RightResults, NoneForgotten, Busy, Indices
  <2>2. RoomForAll' /\ ThreadsJoined'
    BY DEF RoomForAll, ThreadsJoined
  <2>3. Orders' = Orders /\ Indices' = Indices
    BY DEF Orders, Indices
  <2>4. ListPrinted'
    BY <2>3 DEF ListPrinted
  <2> QED
    BY <2>1, <2>2, <2>4
<1> QED
  BY <1>1, <1>2, <1>3 DEF Next, Progress, Stop

\* Both invariants hold together.
LEMMA ReportInvariant ==
    ASSUME PairsFit
    PROVE  Spec => [](AnalysisInv /\ ReportInv)
<1>1. Init => AnalysisInv /\ ReportInv
  BY InitInv, ReportInit
<1>2. (AnalysisInv /\ ReportInv) /\ [Next]_vars => (AnalysisInv /\ ReportInv)'
  BY StepInv, ReportStep
<1> QED
  BY <1>1, <1>2, PTL DEF Spec

-----------------------------------------------------------------------------
(* What is printed.                                                        *)

\* When main has joined, the entries have all the pairs, each its own.
LEMMA EntriesComplete ==
    ASSUME AnalysisInv, ReportInv, main \in {"print", "printed"}
    PROVE  /\ size >= 2
           /\ \A k \in Indices :
                 /\ IsPairNumber(size, k, jsd_list[k].jsd)
                 /\ jsd_list[k].jsd = <<jsd_list[k].file_1, jsd_list[k].file_2>>
           /\ {jsd_list[k].jsd : k \in Indices} = {p \in Tables \X Tables : p[1] < p[2]}
<1> USE DEF AnalysisInv, ReportInv
<1>1. /\ size \in Nat /\ size >= 2 /\ 2 * jsd_total_comp = size * (size - 1)
      /\ jsd_total_comp \in Nat /\ jsd_comp_iter = jsd_total_comp
  BY AnalysisAssumption DEF RoomForAll, ThreadsJoined, TypeOK
<1>2. ASSUME NEW k \in Indices PROVE jsd_list[k].jsd # BlankEntry.jsd
  BY <1>1, <1>2 DEF NoneForgotten, ThreadsJoined, Indices
<1>3. \A k \in Indices : /\ IsPairNumber(size, k, jsd_list[k].jsd)
                         /\ jsd_list[k].jsd = <<jsd_list[k].file_1, jsd_list[k].file_2>>
  BY <1>2 DEF RightResults
<1>4. ASSUME NEW p \in Tables \X Tables, p[1] < p[2]
      PROVE  \E k \in Indices : p = jsd_list[k].jsd
  <2>1. PICK k \in Nat : IsPairNumber(size, k, p) /\ 2 * k < size * (size - 1)
    BY <1>1, <1>4, NumberOfPair DEF Tables
  <2>2. k \in Indices
    BY <1>1, <2>1 DEF Indices
  <2> QED
    BY <1>1, <1>3, <2>1, <2>2, PairOfNumber
<1>5. \A k \in Indices : jsd_list[k].jsd \in {p \in Tables \X Tables : p[1] < p[2]}
  BY <1>3 DEF IsPairNumber, Tables
<1> QED
  BY <1>1, <1>3, <1>4, <1>5

\* If the product fits, what is printed has one line for every pair of files
\* and no other, with the files of the pair (compare.c:407-443).
THEOREM ReportCorrect ==
    ASSUME PairsFit
    PROVE  Spec => []ReportComplete
<1>1. ASSUME AnalysisInv, ReportInv, main = "printed"
      PROVE  ReportComplete
  <2>1. PICK place \in Orders : output = [k \in Indices |-> jsd_list[place[k]]]
    BY <1>1 DEF ReportInv, ListPrinted
  <2>2. place \in [Indices -> Indices] /\ \A k \in Indices : \E v \in Indices : place[v] = k
    BY <2>1 DEF Orders
  <2>3. size \in Nat /\ Indices \subseteq Nat /\ IsFiniteSet(Indices)
    <3>1. size \in Nat /\ jsd_total_comp \in Nat
      BY <1>1, AnalysisAssumption DEF AnalysisInv, TypeOK
    <3> QED
      BY <3>1, FS_Interval DEF Indices
  <2>4. \A v, k \in Indices : place[v] = place[k] => v = k
    <3>1. place \in Surjection(Indices, Indices)
      BY <2>2 DEF Surjection
    <3>2. place \in Injection(Indices, Indices)
      BY <2>3, <3>1, FS_Surjection
    <3> QED
      BY <3>2 DEF Injection, IsInjective
  <2>5. {output[k].jsd : k \in Indices} = {jsd_list[k].jsd : k \in Indices}
    BY <2>1, <2>2
  <2>6. \A k \in Indices : output[k].jsd = <<output[k].file_1, output[k].file_2>>
    BY <1>1, <2>1, <2>2, EntriesComplete
  <2>7. ASSUME NEW v \in Indices, NEW k \in Indices, output[v].jsd = output[k].jsd
        PROVE  v = k
    <3>1. /\ IsPairNumber(size, place[v], output[v].jsd)
          /\ IsPairNumber(size, place[k], output[v].jsd)
      BY <1>1, <2>1, <2>2, <2>7, EntriesComplete
    <3>2. 2 * place[v] = 2 * place[k]
      BY <3>1 DEF IsPairNumber
    <3>3. place[v] \in Nat /\ place[k] \in Nat
      BY <2>2, <2>3
    <3>4. place[v] = place[k]
      BY <3>2, <3>3
    <3> QED
      BY <2>4, <3>4
  <2>8. DOMAIN output = Indices
    BY <2>1
  <2> QED
    BY <1>1, <2>5, <2>6, <2>7, <2>8, EntriesComplete DEF ReportComplete
<1>2. AnalysisInv /\ ReportInv => ReportComplete
  BY <1>1 DEF ReportComplete
<1> QED
  BY <1>2, ReportInvariant, PTL

-----------------------------------------------------------------------------
(* The analysis phase implements PairWork.                                 *)

\* The states before the end are those in which PairWork compares.
LEMMA PhaseWhileRunning ==
    ASSUME TypeOK, ~Over
    PROVE  PhaseOf = "comparing"
  BY DEF TypeOK, Over, PhaseOf, MainLabels

\* A step that leaves the results and the phase alone is not seen.
LEMMA Unseen ==
    ASSUME UNCHANGED <<size, jsd_total_comp, PhaseOf>>,
           \A k \in Indices : jsd_list'[k].jsd = jsd_list[k].jsd
    PROVE  UNCHANGED Promise!vars
<1>1. ComparedPairs' = ComparedPairs
  BY DEF ComparedPairs, Indices, BlankEntry, NULL
<1> QED
  BY <1>1 DEF Promise!vars

\* The divergence of a pair that no entry had before is a comparison.
LEMMA CompareRefines ==
    ASSUME AnalysisInv, ReportInv, NEW t \in AnalysisThreads, CompareFiles(t), ~Over
    PROVE  Promise!Next
<1> USE DEF AnalysisInv, ReportInv, CompareFiles, cursorVars, localVars, mainVars
<1> DEFINE c == cur_idx[t]
           p == <<f1[t], f2[t]>>
<1>1. c \in Indices /\ Busy(t) /\ size \in Nat /\ Indices \subseteq Nat
  BY AnalysisAssumption DEF TypeOK, Busy, Indices
<1>2. jsd_list'[c].jsd = p /\ \A k \in Indices \ {c} : jsd_list'[k].jsd = jsd_list[k].jsd
  BY <1>1 DEF TypeOK, Entry
<1>3. IsPairNumber(size, c, p)
  BY <1>1 DEF RightPairGiven
<1>4. jsd_list[c].jsd = BlankEntry.jsd
  BY <1>1 DEF EntriesOwned
<1>5. p # BlankEntry.jsd
  BY <1>1 DEF GivenTables, BlankEntry, NULL
<1>6. p \in Promise!Pairs(size)
  BY <1>3 DEF IsPairNumber, Promise!Pairs
<1>7. p \notin ComparedPairs
  <2> SUFFICES ASSUME NEW k \in Indices, jsd_list[k].jsd = p PROVE FALSE
    BY DEF ComparedPairs
  <2>1. IsPairNumber(size, k, p)
    BY <1>5 DEF RightResults
  <2>2. 2 * k = 2 * c
    BY <1>3, <2>1 DEF IsPairNumber
  <2>3. k = c
    BY <1>1, <2>2
  <2> QED
    BY <1>4, <1>5, <2>3
<1>8. ComparedPairs' = ComparedPairs \cup {p}
  <2>1. Indices' = Indices
    BY DEF Indices
  <2>2. {jsd_list'[k].jsd : k \in Indices} \ {BlankEntry.jsd} = ComparedPairs \cup {p}
    BY <1>1, <1>2, <1>4, <1>5 DEF ComparedPairs
  <2> QED
    BY <2>1, <2>2 DEF ComparedPairs, BlankEntry, NULL
<1>9. PhaseOf = "comparing" /\ PhaseOf' = PhaseOf
  BY PhaseWhileRunning DEF PhaseOf
<1> QED
  BY <1>6, <1>7, <1>8, <1>9 DEF Promise!Next, Promise!Compare

\* main refuses, prepares or fails before any pair has been compared.
LEMMA PrepareRefines ==
    ASSUME AnalysisInv, PrepareAnalysis
    PROVE  Promise!Next \/ UNCHANGED Promise!vars
<1> USE DEF AnalysisInv, PrepareAnalysis
<1> DEFINE total == TotalComparisons(size)
<1>1. jsd_total_comp = 0 /\ size \in Nat
  BY AnalysisAssumption DEF Prepared, TypeOK
<1>2. ComparedPairs = {} /\ PhaseOf = "comparing"
  BY <1>1 DEF ComparedPairs, Indices, PhaseOf
<1>3. CASE size < 2
  <2>1. main' = "few" /\ UNCHANGED <<size, jsd_list, jsd_total_comp>>
    BY <1>3
  <2>2. ComparedPairs' = ComparedPairs /\ PhaseOf' = "few"
    BY <2>1 DEF ComparedPairs, PhaseOf, Indices, BlankEntry, NULL
  <2> QED
    BY <1>2, <1>3, <2>1, <2>2 DEF Promise!Next, Promise!Refuse
<1>4. CASE ~ (size < 2) /\ total < 0
  <2>1. main' = "exited" /\ UNCHANGED <<size, jsd_list, jsd_total_comp>>
    BY <1>4
  <2>2. ComparedPairs' = ComparedPairs /\ PhaseOf' = "exited"
    BY <2>1 DEF ComparedPairs, PhaseOf, Indices, BlankEntry, NULL
  <2> QED
    BY <1>2, <2>1, <2>2 DEF Promise!Next, Promise!Fail
<1>5. CASE ~ (size < 2) /\ ~ (total < 0)
  <2> HIDE DEF total
  <2>1. /\ main' = "create" /\ size' = size /\ jsd_total_comp' = total
        /\ jsd_list' = [k \in 0..(total - 1) |-> BlankEntry]
    BY <1>5 DEF total
  <2>2. \A k \in Indices' : jsd_list'[k].jsd = BlankEntry.jsd
    BY <2>1 DEF Indices
  <2>3. ComparedPairs' = {}
    BY <2>2 DEF ComparedPairs, BlankEntry, NULL
  <2>4. PhaseOf' = "comparing"
    BY <2>1 DEF PhaseOf
  <2> QED
    BY <1>2, <2>1, <2>3, <2>4 DEF Promise!vars
<1> QED
  BY <1>3, <1>4, <1>5

\* The report is printed when every pair has been compared.
LEMMA PrintRefines ==
    ASSUME AnalysisInv, ReportInv, SortAndPrint
    PROVE  Promise!Next
<1> USE DEF SortAndPrint
<1>1. UNCHANGED <<size, jsd_list, jsd_total_comp>> /\ main = "print" /\ main' = "printed"
  BY DEF cursorVars
<1>2. size >= 2 /\ {jsd_list[k].jsd : k \in Indices} = Promise!Pairs(size)
  BY <1>1, EntriesComplete DEF Promise!Pairs, Tables
<1>3. BlankEntry.jsd \notin Promise!Pairs(size)
  BY DEF BlankEntry, NULL, Promise!Pairs
<1>4. ComparedPairs = Promise!Pairs(size)
  BY <1>2, <1>3 DEF ComparedPairs
<1>5. ComparedPairs' = ComparedPairs /\ PhaseOf = "comparing" /\ PhaseOf' = "printed"
  BY <1>1 DEF ComparedPairs, PhaseOf, Indices, BlankEntry, NULL
<1> QED
  BY <1>1, <1>2, <1>4, <1>5 DEF Promise!Next, Promise!Report

\* Every step is one of PairWork, or is not seen.
LEMMA StepRefines ==
    ASSUME AnalysisInv, ReportInv, [Next]_vars
    PROVE  [Promise!Next]_(Promise!vars)
<1>1. ASSUME NEW t \in AnalysisThreads, ThreadStep(t), ~Over
      PROVE  Promise!Next \/ UNCHANGED Promise!vars
  <2>1. CASE CompareFiles(t)
    BY <1>1, <2>1, CompareRefines
  <2>2. CASE DescribeEntry(t)
    <3>1. UNCHANGED <<size, jsd_total_comp, PhaseOf>>
      BY <2>2 DEF DescribeEntry, mainVars, PhaseOf
    <3>2. \A k \in Indices : jsd_list'[k].jsd = jsd_list[k].jsd
      BY <2>2 DEF DescribeEntry, AnalysisInv, TypeOK, Busy
    <3> QED
      BY <3>1, <3>2, Unseen
  <2>3. CASE LockCursor(t) \/ TakePair(t) \/ AdvanceCursor(t)
    <3>1. UNCHANGED <<size, jsd_total_comp, PhaseOf, jsd_list>>
      BY <2>3 DEF LockCursor, TakePair, AdvanceCursor, mainVars, PhaseOf
    <3> QED
      BY <3>1, Unseen
  <2> QED
    BY <1>1, <2>1, <2>2, <2>3 DEF ThreadStep
<1>2. ASSUME CreateAnalysisThread \/ AllCreated \/ JoinAnalysisThreads
      PROVE  UNCHANGED Promise!vars
  <2>1. UNCHANGED <<size, jsd_total_comp, PhaseOf, jsd_list>>
    BY <1>2 DEF CreateAnalysisThread, AllCreated, JoinAnalysisThreads, mainVars, PhaseOf
  <2> QED
    BY <2>1, Unseen
<1>3. ASSUME ExitProcess, ~Over PROVE Promise!Next
  <2>1. UNCHANGED <<size, jsd_list, jsd_total_comp>> /\ main' = "exited"
    BY <1>3 DEF ExitProcess
  <2>2. ComparedPairs' = ComparedPairs /\ PhaseOf' = "exited" /\ PhaseOf = "comparing"
    BY <1>3, <2>1, PhaseWhileRunning
       DEF ComparedPairs, PhaseOf, Indices, BlankEntry, NULL, AnalysisInv
  <2> QED
    BY <2>1, <2>2 DEF Promise!Next, Promise!Fail
<1>4. CASE UNCHANGED vars
  <2>1. UNCHANGED <<size, jsd_total_comp, PhaseOf, jsd_list>>
    BY <1>4 DEF vars, mainVars, PhaseOf
  <2> QED
    BY <2>1, Unseen
<1> QED
  BY <1>1, <1>2, <1>3, <1>4, PrepareRefines, PrintRefines DEF Next, Progress, MainStep, Stop

\* If the product fits, the threads, the cursor and the list do what PairWork
\* promises: every pair is compared once, and reported when all of them are
\* (analysis_threads.c, compare.c:407-449).
THEOREM AnalysisImplementsPairWork ==
    ASSUME PairsFit
    PROVE  Spec => ImplementsPairWork
<1>1. Init => Promise!Init
  <2> SUFFICES ASSUME Init PROVE Promise!Init
    OBVIOUS
  <2>1. ComparedPairs = {} /\ PhaseOf = "comparing" /\ size \in Sizes
    BY DEF Init, ComparedPairs, Indices, PhaseOf
  <2> QED
    BY <2>1 DEF Promise!Init
<1>2. (AnalysisInv /\ ReportInv) /\ [Next]_vars => [Promise!Next]_(Promise!vars)
  BY StepRefines
<1> QED
  BY <1>1, <1>2, ReportInvariant, PTL DEF Spec, ImplementsPairWork, Promise!Spec

-----------------------------------------------------------------------------
(* The comparison of two tables: the merge of jsd_comp.                    *)

Terms == [word : Nat, mean : SUBSET {1, 2}]

\* A list and its words.
LEMMA ListFacts ==
    ASSUME NEW list \in Lists
    PROVE  /\ list \in Seq(Nat)
           /\ DOMAIN list = 1..Len(list)
           /\ Len(list) \in Nat
           /\ \A k \in 1..Len(list) : list[k] \in Nat
           /\ \A k, l \in 1..Len(list) : k < l => list[k] < list[l]
<1>1. list \in Seq(Nat) /\ Lexical(list)
  BY ListsAssumption
<1>2. DOMAIN list = 1..Len(list) /\ Len(list) \in Nat
  BY <1>1, LenProperties
<1> QED
  BY <1>1, <1>2, ElementOfSeq DEF Lexical

\* A sum grows by the next term of the definition.
LEMMA PrefixGrows ==
    ASSUME NEW sum, NEW whole, NEW n \in Nat, NEW term \in Terms,
           PrefixOf(sum, whole, n), whole[n + 1] = term
    PROVE  PrefixOf(Append(sum, term), whole, n + 1)
<1>1. sum \in Seq(Terms) /\ Len(sum) = n
  BY DEF PrefixOf, Terms
<1>2. /\ Append(sum, term) \in Seq(Terms)
      /\ Len(Append(sum, term)) = n + 1
      /\ \A k \in 1..n : Append(sum, term)[k] = sum[k]
      /\ Append(sum, term)[n + 1] = term
  BY <1>1, AppendProperties
<1>3. ASSUME NEW k \in 1..(n + 1) PROVE Append(sum, term)[k] = whole[k]
  <2>1. k \in 1..n \/ k = n + 1
    OBVIOUS
  <2> QED
    BY <1>2, <2>1 DEF PrefixOf
<1> QED
  BY <1>2, <1>3 DEF PrefixOf, Terms

\* What the definition says of the k-th word of list, by where it occurs.
LEMMA NextTerm ==
    ASSUME NEW a, NEW b, NEW list \in Lists, NEW k \in 1..Len(list)
    PROVE  /\ Has(a, list[k]) /\ Has(b, list[k]) =>
                  Divergence(list, a, b)[k] = Term(list[k], {1, 2})
           /\ Has(a, list[k]) /\ ~Has(b, list[k]) =>
                  Divergence(list, a, b)[k] = Term(list[k], {1})
           /\ ~Has(a, list[k]) /\ Has(b, list[k]) =>
                  Divergence(list, a, b)[k] = Term(list[k], {2})
           /\ Term(list[k], {1, 2}) \in Terms
           /\ Term(list[k], {1}) \in Terms
           /\ Term(list[k], {2}) \in Terms
<1> DEFINE files == {f \in {1, 2} : Has(IF f = 1 THEN a ELSE b, list[k])}
<1>1. k \in DOMAIN list /\ list[k] \in Nat
  BY ListFacts
<1>2. Divergence(list, a, b)[k] = Term(list[k], files)
  BY <1>1 DEF Divergence
<1>3. /\ Has(a, list[k]) /\ Has(b, list[k]) => files = {1, 2}
      /\ Has(a, list[k]) /\ ~Has(b, list[k]) => files = {1}
      /\ ~Has(a, list[k]) /\ Has(b, list[k]) => files = {2}
  OBVIOUS
<1> QED
  BY <1>1, <1>2, <1>3 DEF Term, Terms

\* The invariant holds before the first loop.
LEMMA MergeStarts == MergeInit => MergeInv
<1> SUFFICES ASSUME MergeInit PROVE MergeInv
  OBVIOUS
<1>1. Len(tab1_list) \in Nat /\ Len(tab2_list) \in Nat
  BY ListFacts DEF MergeInit
<1>2. <<>> \in Seq(Terms) /\ Len(<<>>) = 0
  BY EmptySeq
<1>3. PrefixOf(kld_tab1, Divergence1, i - 1) /\ PrefixOf(kld_tab2, Divergence2, j - 1)
  BY <1>2 DEF MergeInit, PrefixOf, Terms
<1> QED
  BY <1>1, <1>3 DEF MergeInit, MergeInv, LoopAt

\* Every step of the merge keeps the invariant.
LEMMA MergeStep ==
    ASSUME tab1_list \in Lists, tab2_list \in Lists, MergeInv, [MergeNext]_mergeVars
    PROVE  MergeInv' /\ UNCHANGED lists
<1>1. /\ DOMAIN tab1_list = 1..Len(tab1_list) /\ Len(tab1_list) \in Nat
      /\ \A k \in 1..Len(tab1_list) : tab1_list[k] \in Nat
      /\ \A k, l \in 1..Len(tab1_list) : k < l => tab1_list[k] < tab1_list[l]
  BY ListFacts
<1>2. /\ DOMAIN tab2_list = 1..Len(tab2_list) /\ Len(tab2_list) \in Nat
      /\ \A k \in 1..Len(tab2_list) : tab2_list[k] \in Nat
      /\ \A k, l \in 1..Len(tab2_list) : k < l => tab2_list[k] < tab2_list[l]
  BY ListFacts
<1>3. /\ \A k \in 1..Len(tab1_list) : Has(tab1_list, tab1_list[k])
      /\ \A k \in 1..Len(tab2_list) : Has(tab2_list, tab2_list[k])
  BY <1>1, <1>2 DEF Has
\* A word that is smaller than what is left of the other list, and greater
\* than what has been passed of it, is not in it.
<1>4. ASSUME i \in 1..Len(tab1_list),
             \A l \in j..Len(tab2_list) : tab1_list[i] < tab2_list[l]
      PROVE  ~Has(tab2_list, tab1_list[i])
  BY <1>1, <1>2, <1>4 DEF MergeInv, Has
<1>5. ASSUME j \in 1..Len(tab2_list),
             \A k \in i..Len(tab1_list) : tab2_list[j] < tab1_list[k]
      PROVE  ~Has(tab1_list, tab2_list[j])
  BY <1>1, <1>2, <1>5 DEF MergeInv, Has
<1>6. CASE MergeEqual
  <2>1. i \in 1..Len(tab1_list) /\ j \in 1..Len(tab2_list) /\ tab1_list[i] = tab2_list[j]
    BY <1>6, <1>1, <1>2 DEF MergeEqual, MergeInv
  <2>2. PrefixOf(kld_tab1', Divergence1, i)
    <3>1. Divergence1[i] = Term(tab1_list[i], {1, 2}) /\ Term(tab1_list[i], {1, 2}) \in Terms
      BY <2>1, <1>3, NextTerm DEF Divergence1
    <3>2. i - 1 \in Nat /\ (i - 1) + 1 = i /\ PrefixOf(kld_tab1, Divergence1, i - 1)
      BY <1>1, <1>2 DEF MergeInv
    <3>3. PrefixOf(Append(kld_tab1, Term(tab1_list[i], {1, 2})), Divergence1, (i - 1) + 1)
      BY ONLY <3>1, <3>2, PrefixGrows
    <3> QED
      BY <3>2, <3>3, <1>6 DEF MergeEqual
  <2>3. PrefixOf(kld_tab2', Divergence2, j)
    <3>1. Divergence2[j] = Term(tab2_list[j], {1, 2}) /\ Term(tab2_list[j], {1, 2}) \in Terms
      BY <2>1, <1>3, NextTerm DEF Divergence2
    <3>2. j - 1 \in Nat /\ (j - 1) + 1 = j /\ PrefixOf(kld_tab2, Divergence2, j - 1)
      BY <1>1, <1>2 DEF MergeInv
    <3>3. PrefixOf(Append(kld_tab2, Term(tab2_list[j], {1, 2})), Divergence2, (j - 1) + 1)
      BY ONLY <3>1, <3>2, PrefixGrows
    <3> QED
      BY <3>2, <3>3, <1>6 DEF MergeEqual
  <2>4. ASSUME NEW k \in 1..i, NEW l \in (j + 1)..Len(tab2_list)
        PROVE  tab1_list[k] < tab2_list[l]
    <3>1. tab2_list[j] < tab2_list[l]
      BY <2>1, <1>2
    <3>2. k = i \/ tab1_list[k] < tab1_list[i]
      BY <2>1, <1>1
    <3> QED
      BY <3>1, <3>2, <2>1, <1>1, <1>2
  <2>5. ASSUME NEW k \in (i + 1)..Len(tab1_list), NEW l \in 1..j
        PROVE  tab2_list[l] < tab1_list[k]
    <3>1. tab1_list[i] < tab1_list[k]
      BY <2>1, <1>1
    <3>2. l = j \/ tab2_list[l] < tab2_list[j]
      BY <2>1, <1>2
    <3> QED
      BY <3>1, <3>2, <2>1, <1>1, <1>2
  <2> QED
    BY <2>1, <2>2, <2>4, <2>3, <2>5, <1>1, <1>2, <1>6
    DEF MergeEqual, MergeInv, LoopAt, lists, Divergence1, Divergence2
<1>7. CASE MergeFirst
  <2>1. i \in 1..Len(tab1_list) /\ j \in 1..Len(tab2_list) /\ tab1_list[i] < tab2_list[j]
    BY <1>7, <1>1, <1>2 DEF MergeFirst, MergeInv
  <2>2. \A l \in j..Len(tab2_list) : tab1_list[i] < tab2_list[l]
    <3> TAKE l \in j..Len(tab2_list)
    <3>1. l = j \/ tab2_list[j] < tab2_list[l]
      BY <2>1, <1>2
    <3> QED
      BY <3>1, <2>1, <1>1, <1>2
  <2>3. PrefixOf(kld_tab1', Divergence1, i)
    <3>1. Divergence1[i] = Term(tab1_list[i], {1}) /\ Term(tab1_list[i], {1}) \in Terms
      BY <2>1, <2>2, <1>3, <1>4, NextTerm DEF Divergence1
    <3>2. i - 1 \in Nat /\ (i - 1) + 1 = i /\ PrefixOf(kld_tab1, Divergence1, i - 1)
      BY <1>1, <1>2 DEF MergeInv
    <3>3. PrefixOf(Append(kld_tab1, Term(tab1_list[i], {1})), Divergence1, (i - 1) + 1)
      BY ONLY <3>1, <3>2, PrefixGrows
    <3> QED
      BY <3>2, <3>3, <1>7 DEF MergeFirst
  <2>4. \A k \in 1..i, l \in j..Len(tab2_list) : tab1_list[k] < tab2_list[l]
    BY <2>1, <2>2, <1>1, <1>2 DEF MergeInv
  <2> QED
    BY <2>1, <2>3, <2>4, <1>1, <1>2, <1>7
    DEF MergeFirst, MergeInv, LoopAt, lists, Divergence1, Divergence2
<1>8. CASE MergeSecond
  <2>1. i \in 1..Len(tab1_list) /\ j \in 1..Len(tab2_list) /\ tab2_list[j] < tab1_list[i]
    BY <1>8, <1>1, <1>2 DEF MergeSecond, MergeInv
  <2>2. \A k \in i..Len(tab1_list) : tab2_list[j] < tab1_list[k]
    <3> TAKE k \in i..Len(tab1_list)
    <3>1. k = i \/ tab1_list[i] < tab1_list[k]
      BY <2>1, <1>1
    <3> QED
      BY <3>1, <2>1, <1>1, <1>2
  <2>3. PrefixOf(kld_tab2', Divergence2, j)
    <3>1. Divergence2[j] = Term(tab2_list[j], {2}) /\ Term(tab2_list[j], {2}) \in Terms
      BY <2>1, <2>2, <1>3, <1>5, NextTerm DEF Divergence2
    <3>2. j - 1 \in Nat /\ (j - 1) + 1 = j /\ PrefixOf(kld_tab2, Divergence2, j - 1)
      BY <1>1, <1>2 DEF MergeInv
    <3>3. PrefixOf(Append(kld_tab2, Term(tab2_list[j], {2})), Divergence2, (j - 1) + 1)
      BY ONLY <3>1, <3>2, PrefixGrows
    <3> QED
      BY <3>2, <3>3, <1>8 DEF MergeSecond
  <2>4. \A k \in i..Len(tab1_list), l \in 1..j : tab2_list[l] < tab1_list[k]
    BY <2>1, <2>2, <1>1, <1>2 DEF MergeInv
  <2> QED
    BY <2>1, <2>3, <2>4, <1>1, <1>2, <1>8
    DEF MergeSecond, MergeInv, LoopAt, lists, Divergence1, Divergence2
<1>9. CASE FinishFirst
  <2>1. CASE i <= Len(tab1_list)
    <3>1. i \in 1..Len(tab1_list) /\ j = Len(tab2_list) + 1
      BY <2>1, <1>9, <1>1, <1>2 DEF FinishFirst, MergeInv
    <3>2. PrefixOf(kld_tab1', Divergence1, i)
      <4>1. Divergence1[i] = Term(tab1_list[i], {1}) /\ Term(tab1_list[i], {1}) \in Terms
        BY <3>1, <1>2, <1>3, <1>4, NextTerm DEF Divergence1
      <4>2. i - 1 \in Nat /\ (i - 1) + 1 = i /\ PrefixOf(kld_tab1, Divergence1, i - 1)
        BY <1>1, <1>2 DEF MergeInv
      <4>3. PrefixOf(Append(kld_tab1, Term(tab1_list[i], {1})), Divergence1, (i - 1) + 1)
        BY ONLY <4>1, <4>2, PrefixGrows
      <4> QED
        BY <4>2, <4>3, <1>9, <2>1 DEF FinishFirst
    <3> QED
      BY <3>1, <3>2, <1>1, <1>2, <1>9
      DEF FinishFirst, MergeInv, lists, Divergence1, Divergence2
  <2>2. CASE ~(i <= Len(tab1_list))
    BY <2>2, <1>1, <1>2, <1>9 DEF FinishFirst, MergeInv, lists, Divergence1, Divergence2
  <2> QED
    BY <2>1, <2>2
<1>10. CASE FinishSecond
  <2>1. CASE j <= Len(tab2_list)
    <3>1. j \in 1..Len(tab2_list) /\ i = Len(tab1_list) + 1
      BY <2>1, <1>10, <1>1, <1>2 DEF FinishSecond, MergeInv
    <3>2. PrefixOf(kld_tab2', Divergence2, j)
      <4>1. Divergence2[j] = Term(tab2_list[j], {2}) /\ Term(tab2_list[j], {2}) \in Terms
        BY <3>1, <1>1, <1>3, <1>5, NextTerm DEF Divergence2
      <4>2. j - 1 \in Nat /\ (j - 1) + 1 = j /\ PrefixOf(kld_tab2, Divergence2, j - 1)
        BY <1>1, <1>2 DEF MergeInv
      <4>3. PrefixOf(Append(kld_tab2, Term(tab2_list[j], {2})), Divergence2, (j - 1) + 1)
        BY ONLY <4>1, <4>2, PrefixGrows
      <4> QED
        BY <4>2, <4>3, <1>10, <2>1 DEF FinishSecond
    <3> QED
      BY <3>1, <3>2, <1>1, <1>2, <1>10
      DEF FinishSecond, MergeInv, lists, Divergence1, Divergence2
  <2>2. CASE ~(j <= Len(tab2_list))
    BY <2>2, <1>1, <1>2, <1>10 DEF FinishSecond, MergeInv, lists, Divergence1, Divergence2
  <2> QED
    BY <2>1, <2>2
<1>11. CASE UNCHANGED mergeVars
  BY <1>11 DEF mergeVars, lists, MergeInv, Divergence1, Divergence2
<1> QED
  BY <1>6, <1>7, <1>8, <1>9, <1>10, <1>11 DEF MergeNext, Returned

\* The merge never loses its place: the inductive invariant of jsd_comp.
THEOREM MergeInvariant ==
    MergeSpec => [](tab1_list \in Lists /\ tab2_list \in Lists /\ MergeInv)
<1>1. MergeInit => tab1_list \in Lists /\ tab2_list \in Lists /\ MergeInv
  BY MergeStarts DEF MergeInit
<1>2. tab1_list \in Lists /\ tab2_list \in Lists /\ MergeInv /\ [MergeNext]_mergeVars
        => (tab1_list \in Lists /\ tab2_list \in Lists /\ MergeInv)'
  BY MergeStep DEF lists
<1> QED
  BY <1>1, <1>2, PTL DEF MergeSpec

\* A sum that has every term of the whole is the whole.
LEMMA WholeIsPrefix ==
    ASSUME NEW n \in Nat, NEW sum, NEW whole, PrefixOf(sum, whole, n),
           DOMAIN whole = 1..n, whole = [k \in DOMAIN whole |-> whole[k]]
    PROVE  sum = whole
<1>1. /\ sum \in Seq([word : Nat, mean : SUBSET {1, 2}]) /\ Len(sum) = n
      /\ \A k \in 1..n : sum[k] = whole[k]
  BY DEF PrefixOf
<1>2. sum = [k \in 1..n |-> sum[k]]
  BY <1>1
<1>3. sum = [k \in 1..n |-> whole[k]]
  BY ONLY <1>1, <1>2
<1> QED
  BY ONLY <1>3, DOMAIN whole = 1..n, whole = [k \in DOMAIN whole |-> whole[k]]

\* Whatever the two files contain, jsd_comp returns the divergence of the
\* definition: every word of either file counts once and in the right way.
THEOREM MergeCorrect == MergeSpec => []MergeMeetsDefinition
<1>1. ASSUME tab1_list \in Lists, tab2_list \in Lists, MergeInv
      PROVE  MergeMeetsDefinition
  <2> SUFFICES ASSUME loop = "done"
               PROVE  kld_tab1 = Divergence1 /\ kld_tab2 = Divergence2
    BY DEF MergeMeetsDefinition
  <2>1. /\ DOMAIN tab1_list = 1..Len(tab1_list) /\ Len(tab1_list) \in Nat
        /\ DOMAIN tab2_list = 1..Len(tab2_list) /\ Len(tab2_list) \in Nat
    BY <1>1, ListFacts
  <2>2. i - 1 = Len(tab1_list) /\ j - 1 = Len(tab2_list)
    BY <1>1, <2>1 DEF MergeInv
  <2>3. /\ PrefixOf(kld_tab1, Divergence1, Len(tab1_list))
        /\ PrefixOf(kld_tab2, Divergence2, Len(tab2_list))
    BY <1>1, <2>2 DEF MergeInv
  <2>4. kld_tab1 = Divergence1
    <3>1. DOMAIN Divergence1 = 1..Len(tab1_list)
          /\ Divergence1 = [k \in DOMAIN Divergence1 |-> Divergence1[k]]
      BY <2>1 DEF Divergence1, Divergence
    <3> QED
      BY <2>1, <2>3, <3>1, WholeIsPrefix
  <2>5. kld_tab2 = Divergence2
    <3>1. DOMAIN Divergence2 = 1..Len(tab2_list)
          /\ Divergence2 = [k \in DOMAIN Divergence2 |-> Divergence2[k]]
      BY <2>1 DEF Divergence2, Divergence
    <3> QED
      BY <2>1, <2>3, <3>1, WholeIsPrefix
  <2> QED
    BY <2>4, <2>5
<1> QED
  BY <1>1, MergeInvariant, PTL
=============================================================================
