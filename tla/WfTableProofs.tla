---------------------------- MODULE WfTableProofs ----------------------------
(***************************************************************************)
(* LinkedOnce is an invariant of WfTable for every vocabulary, every hash  *)
(* function, every initial number of rows and every load: no insertion and *)
(* no rehash loses an item, links it twice or puts it into a row in which  *)
(* a later insertion will not look for it.  MemoryReturned is one too: the *)
(* list has every item exactly once, because every item has one place in   *)
(* the chains and qsort only orders them.  Hence the table implements the  *)
(* bag of the words of its file.                                           *)
(***************************************************************************)
EXTENDS WfTableRefinement, FiniteSetTheorems, FunctionTheorems, TLAPS

\* What the three operations on chains do: the operands are chains without
\* repetitions, and so are the results.
LEMMA ChainAppend ==
    ASSUME NEW S, NEW s \in Seq(S), IsInjective(s), NEW x, \A k \in DOMAIN s : s[k] # x
    PROVE  /\ Append(s, x) \in Seq(S \cup {x})
           /\ DOMAIN Append(s, x) = 1..(Len(s) + 1)
           /\ DOMAIN s = 1..Len(s)
           /\ \A k \in DOMAIN s : Append(s, x)[k] = s[k]
           /\ Append(s, x)[Len(s) + 1] = x
           /\ IsInjective(Append(s, x))
BY DEF IsInjective

LEMMA ChainTail ==
    ASSUME NEW S, NEW s \in Seq(S), IsInjective(s), s # <<>>
    PROVE  /\ Tail(s) \in Seq(S)
           /\ Head(s) = s[1] /\ 1 \in DOMAIN s
           /\ \A k \in DOMAIN Tail(s) : k + 1 \in DOMAIN s /\ Tail(s)[k] = s[k + 1]
           /\ \A k \in DOMAIN s : k # 1 => k - 1 \in DOMAIN Tail(s) /\ Tail(s)[k - 1] = s[k]
           /\ IsInjective(Tail(s))
<1>1. /\ DOMAIN s = 1..Len(s) /\ Len(s) \in Nat /\ Len(s) # 0
      /\ DOMAIN Tail(s) = 1..(Len(s) - 1)
      /\ \A k \in 1..(Len(s) - 1) : Tail(s)[k] = s[k + 1]
  OBVIOUS
<1>2. \A k \in DOMAIN Tail(s) : k + 1 \in DOMAIN s /\ Tail(s)[k] = s[k + 1]
  BY <1>1
<1>3. \A k \in DOMAIN s : k # 1 => k - 1 \in DOMAIN Tail(s) /\ Tail(s)[k - 1] = s[k]
  <2>. TAKE k \in DOMAIN s
  <2>. HAVE k # 1
  <2>1. k \in Int /\ k - 1 \in 1..(Len(s) - 1) /\ (k - 1) + 1 = k
    BY <1>1
  <2>. QED  BY <2>1, <1>1
<1>4. IsInjective(Tail(s))
  BY <1>1, <1>2 DEF IsInjective
<1>. QED  BY <1>1, <1>2, <1>3, <1>4

LEMMA ChainCons ==
    ASSUME NEW S, NEW s \in Seq(S), IsInjective(s), NEW x \in S, \A k \in DOMAIN s : s[k] # x
    PROVE  /\ <<x>> \o s \in Seq(S)
           /\ 1 \in DOMAIN (<<x>> \o s) /\ (<<x>> \o s)[1] = x
           /\ \A k \in DOMAIN (<<x>> \o s) :
                k = 1 \/ (k - 1 \in DOMAIN s /\ (<<x>> \o s)[k] = s[k - 1])
           /\ \A k \in DOMAIN s : k + 1 \in DOMAIN (<<x>> \o s) /\ (<<x>> \o s)[k + 1] = s[k]
           /\ IsInjective(<<x>> \o s)
<1>1. /\ DOMAIN s = 1..Len(s) /\ Len(s) \in Nat
      /\ <<x>> \o s \in Seq(S)
      /\ DOMAIN (<<x>> \o s) = 1..(Len(s) + 1)
      /\ (<<x>> \o s)[1] = x
      /\ \A k \in 2..(Len(s) + 1) : (<<x>> \o s)[k] = s[k - 1]
  OBVIOUS
<1>2. \A k \in DOMAIN (<<x>> \o s) :
        k = 1 \/ (k - 1 \in DOMAIN s /\ (<<x>> \o s)[k] = s[k - 1])
  BY <1>1
<1>3. \A k \in DOMAIN s : k + 1 \in DOMAIN (<<x>> \o s) /\ (<<x>> \o s)[k + 1] = s[k]
  <2>. TAKE k \in DOMAIN s
  <2>1. k \in Int /\ k + 1 \in 2..(Len(s) + 1) /\ (k + 1) - 1 = k
    BY <1>1
  <2>. QED  BY <2>1, <1>1
<1>4. IsInjective(<<x>> \o s)
  BY <1>1, <1>2 DEF IsInjective
<1>. QED  BY <1>1, <1>2, <1>3, <1>4

LEMMA DoubleRows ==
    ASSUME NEW a \in Nat \ {0}, NEW b \in Nat \ {0}
    PROVE  a * b \in Nat /\ a * b >= 1 /\ a * (2 * b) = 2 * (a * b)
OBVIOUS

LEMMA ModRange ==
    ASSUME NEW h \in Nat, NEW n \in Nat \ {0}
    PROVE  h % n \in 0..(n - 1)
OBVIOUS

-----------------------------------------------------------------------------
TableInv == TypeOK /\ LinkedOnce

Linked == {"fill", "rehash", "move", "listed"}

LEMMA WordsTyped ==
    ASSUME TypeOK
    PROVE  /\ Len(item) \in Nat
           /\ DOMAIN words = 1..Len(item)
           /\ \A n \in 1..Len(item) : words[n] = item[n].word /\ words[n] \in Word
<1>1. item \in Seq(WfItem)
  BY DEF TypeOK
<1>2. \A n \in 1..Len(item) : item[n] \in WfItem
  BY <1>1
<1>3. \A n \in 1..Len(item) : item[n].word \in Word
  BY <1>2 DEF WfItem
<1>. QED  BY <1>1, <1>3 DEF words, Items

\* An empty array has no item out of place.
LEMMA EmptyArray ==
    ASSUME NEW array, NEW size, NEW word, \A r \in DOMAIN array : array[r] = <<>>
    PROVE  AtHome(array, size, word) /\ \A n : ~In(array, n)
<1>1. <<>> \in Seq(DOMAIN word) /\ DOMAIN <<>> = {}
  OBVIOUS
<1>. QED  BY <1>1 DEF AtHome, In, IsInjective

\* Outside of a rehash new_data is no array at all.
LEMMA NoArray ==
    ASSUME NEW size, NEW word
    PROVE  AtHome(<<>>, size, word) /\ \A n : ~In(<<>>, n)
<1>1. \A r \in DOMAIN <<>> : <<>>[r] = <<>>
  OBVIOUS
<1>. QED  BY ONLY <1>1, EmptyArray

LEMMA InitTable == Init => TableInv
<1>. SUFFICES ASSUME Init PROVE TableInv
  OBVIOUS
<1>1. TypeOK
  BY TableAssumption DEF Init, TypeOK
<1>2. Len(item) = 0 /\ DOMAIN words = {}
  BY DEF Init, words, Items
<1>3. AtHome(data, no_rows, words) /\ DOMAIN data = 0..(no_rows - 1)
  BY EmptyArray DEF Init, EmptyRows
<1>4. AtHome(new_data, 2 * no_rows, words)
  BY NoArray DEF Init
<1>5. Y * no_rows \in Nat
  BY TableAssumption DEF Init
<1>6. LinkedOnce
  BY <1>2, <1>3, <1>4, <1>5 DEF Init, LinkedOnce, Split, IsInjective
<1>. QED  BY <1>1, <1>6 DEF TableInv

\* A word that is counted again changes no word and no row.
LEMMA AgainStep ==
    ASSUME TableInv, NEW w \in Word, InsertAgain(w)
    PROVE  TableInv'
<1>1. PICK m : /\ \E k \in DOMAIN Chain(w) : Chain(w)[k] = m
               /\ item' = [item EXCEPT ![m].count = @ + 1]
  BY DEF InsertAgain, Matches
<1>2. Hash[w] \in Nat /\ no_rows \in Nat \ {0}
  BY TableAssumption DEF TableInv, TypeOK
<1>3. Hash[w] % no_rows \in DOMAIN data
  BY <1>2, ModRange DEF TableInv, LinkedOnce, InsertAgain, Inserting
<1>4. Chain(w) \in Seq(DOMAIN words)
  BY <1>3 DEF TableInv, LinkedOnce, InsertAgain, Inserting, AtHome, Chain
<1>5. m \in 1..Len(item)
  BY <1>1, <1>4, WordsTyped DEF TableInv
<1>6. item \in Seq(WfItem)
  BY DEF TableInv, TypeOK
<1>7. /\ item' \in Seq(WfItem)
      /\ Len(item') = Len(item)
      /\ \A n \in 1..Len(item) : item'[n].word = item[n].word
  <2>1. item' = [item EXCEPT ![m] = [item[m] EXCEPT !.count = item[m].count + 1]]
    BY <1>1, <1>5, <1>6
  <2>2. item[m] \in WfItem
    BY <1>5, <1>6
  <2>3. /\ [item[m] EXCEPT !.count = item[m].count + 1] \in WfItem
        /\ [item[m] EXCEPT !.count = item[m].count + 1].word = item[m].word
    BY <2>2 DEF WfItem
  <2>. QED  BY <2>1, <2>3, <1>5, <1>6
<1>8. words' = words
  BY <1>7 DEF words, Items
<1>9. TypeOK'
  <2>1. /\ no_words' = no_words + 1 /\ no_words \in Nat
        /\ no_rows' = no_rows /\ no_entries' = no_entries /\ no_entries \in Nat
        /\ pc' \in {"fill", "rehash"}
    BY DEF TypeOK, TableInv, InsertAgain, RehashOr, rows
  <2>2. no_words' \in Nat
    BY <2>1
  <2>. QED  BY <2>1, <2>2, <1>2, <1>7 DEF TypeOK
<1>10. pc' = "fill" /\ no_entries' <= Y * no_rows'
  <2>1. Y * no_rows \in Nat /\ no_entries <= Y * no_rows /\ no_entries \in Nat
    BY <1>2, TableAssumption DEF TableInv, TypeOK, LinkedOnce, InsertAgain, Inserting
  <2>. QED  BY <2>1 DEF InsertAgain, RehashOr, rows
<1>11. LinkedOnce'
  BY <1>7, <1>8, <1>10 DEF TableInv, LinkedOnce, InsertAgain, Inserting, rows
<1>. QED  BY <1>9, <1>11 DEF TableInv

\* A new word: its item is the only one with this word, since an older one
\* would be in the chain that was searched.
LEMMA NewStep ==
    ASSUME TableInv, NEW w \in Word, InsertNew(w)
    PROVE  TableInv'
<1>. DEFINE n == Len(item) + 1
            q == Hash[w] % no_rows
            x == [word |-> w, count |-> 1, freq |-> NoFreq]
<1>1. /\ Hash[w] \in Nat /\ no_rows \in Nat \ {0} /\ item \in Seq(WfItem)
      /\ Len(item) \in Nat /\ no_entries = Len(item) /\ no_words \in Nat
  BY TableAssumption DEF TableInv, TypeOK, LinkedOnce
<1>2. /\ pc = "fill" /\ new_data = <<>> /\ new_data' = <<>> /\ no_rows' = no_rows
      /\ no_words' = no_words + 1 /\ no_entries' = no_entries + 1
      /\ item' = Append(item, x)
      /\ data' = [data EXCEPT ![q] = Append(data[q], n)]
      /\ pc' = RehashOr(no_entries + 1)
      /\ Matches(Chain(w), w) = {}
  BY DEF TableInv, LinkedOnce, InsertNew, Inserting
<1>3. /\ DOMAIN data = 0..(no_rows - 1) /\ AtHome(data, no_rows, words)
      /\ \A m \in DOMAIN words : In(data, m)
      /\ no_entries <= Y * no_rows
      /\ IsInjective(words)
  <2>1. \A m : ~In(new_data, m)
    BY <1>2, NoArray
  <2>. QED  BY <1>2, <2>1 DEF TableInv, LinkedOnce, Split
<1>4. x \in WfItem
  BY DEF WfItem, NoFreq
<1>5. /\ item' \in Seq(WfItem) /\ Len(item') = n /\ item'[n] = x
      /\ \A m \in 1..Len(item) : item'[m] = item[m]
  BY <1>1, <1>2, <1>4
<1>6. /\ DOMAIN words = 1..Len(item) /\ DOMAIN words' = 1..n
      /\ words'[n] = w
      /\ \A m \in 1..Len(item) : words'[m] = words[m]
  BY <1>1, <1>5 DEF words, Items
<1>7. \A m \in DOMAIN words : words[m] # w
  <2>. SUFFICES ASSUME NEW m \in DOMAIN words, words[m] = w PROVE FALSE
    OBVIOUS
  <2>1. PICK r, k : r \in DOMAIN data /\ k \in DOMAIN data[r] /\ data[r][k] = m
    BY <1>3 DEF In
  <2>2. Hash[words[m]] % no_rows = r
    BY <1>3, <2>1 DEF AtHome
  <2>3. data[r] = Chain(w) /\ item[m].word = w
    BY <2>2, <1>6 DEF Chain, words, Items
  <2>4. k \in Matches(Chain(w), w)
    BY <2>1, <2>3 DEF Matches
  <2>. QED  BY <2>4, <1>2
<1>8. IsInjective(words')
  BY <1>3, <1>6, <1>7 DEF IsInjective
<1>9. q \in DOMAIN data
  BY <1>1, <1>3, ModRange
<1>10. /\ data[q] \in Seq(DOMAIN words) /\ IsInjective(data[q])
       /\ \A k \in DOMAIN data[q] : data[q][k] # n
  <2>1. data[q] \in Seq(DOMAIN words) /\ IsInjective(data[q])
    BY <1>9, <1>3 DEF AtHome
  <2>2. \A k \in DOMAIN data[q] : data[q][k] \in DOMAIN words
    BY <2>1
  <2>. QED  BY <2>1, <2>2, <1>1, <1>6
<1>11. /\ Append(data[q], n) \in Seq(DOMAIN words \cup {n})
       /\ DOMAIN Append(data[q], n) = 1..(Len(data[q]) + 1)
       /\ DOMAIN data[q] = 1..Len(data[q])
       /\ \A k \in DOMAIN data[q] : Append(data[q], n)[k] = data[q][k]
       /\ Append(data[q], n)[Len(data[q]) + 1] = n
       /\ IsInjective(Append(data[q], n))
  BY <1>10, ChainAppend
<1>12. Len(data[q]) \in Nat
  BY <1>10
<1>. HIDE DEF n, q, x
<1>13. ASSUME NEW r \in DOMAIN data'
       PROVE  /\ data'[r] \in Seq(DOMAIN words')
              /\ \A k \in DOMAIN data'[r] : Hash[words'[data'[r][k]]] % no_rows = r
              /\ IsInjective(data'[r])
  <2>1. r \in DOMAIN data /\ DOMAIN words' = DOMAIN words \cup {n}
    BY <1>2, <1>6, <1>1 DEF n
  <2>2. /\ data[r] \in Seq(DOMAIN words) /\ IsInjective(data[r])
        /\ \A k \in DOMAIN data[r] : Hash[words[data[r][k]]] % no_rows = r
    BY <2>1, <1>3 DEF AtHome
  <2>3. \A k \in DOMAIN data[r] : data[r][k] \in DOMAIN words
    BY <2>2
  <2>4. \A k \in DOMAIN data[r] : Hash[words'[data[r][k]]] % no_rows = r
    BY <2>2, <2>3, <1>6
  <2>5. CASE r # q
    <3>1. data'[r] = data[r]
      BY <2>1, <2>5, <1>2
    <3>2. data[r] \in Seq(DOMAIN words')
      BY <2>1, <2>2
    <3>. QED  BY <3>1, <3>2, <2>2, <2>4
  <2>6. CASE r = q
    <3>1. data'[r] = Append(data[q], n)
      BY <2>1, <2>6, <1>2
    <3>2. \A k \in DOMAIN data'[r] : k \in DOMAIN data[q] \/ k = Len(data[q]) + 1
      BY <3>1, <1>11, <1>12
    <3>3. Hash[words'[n]] % no_rows = r
      BY <1>6, <2>6 DEF q
    <3>. QED  BY <3>1, <3>2, <3>3, <2>1, <2>4, <2>6, <1>11
  <2>. QED  BY <2>5, <2>6
<1>14. AtHome(data', no_rows', words')
  BY <1>2, <1>13 DEF AtHome
<1>15. Split(data', new_data', words')
  <2>1. \A m : ~In(new_data', m)
    BY <1>2, NoArray
  <2>2. ASSUME NEW m \in DOMAIN words PROVE In(data', m)
    <3>1. PICK r, k : r \in DOMAIN data /\ k \in DOMAIN data[r] /\ data[r][k] = m
      BY <1>3 DEF In
    <3>2. r \in DOMAIN data' /\ k \in DOMAIN data'[r] /\ data'[r][k] = m
      <4>1. CASE r # q
        BY <4>1, <3>1, <1>2
      <4>2. CASE r = q
        <5>1. data'[r] = Append(data[q], n)
          BY <4>2, <3>1, <1>2
        <5>2. k \in DOMAIN Append(data[q], n)
          BY <4>2, <3>1, <1>11, <1>12
        <5>. QED  BY <5>1, <5>2, <4>2, <3>1, <1>2, <1>11
      <4>. QED  BY <4>1, <4>2
    <3>. QED  BY <3>2 DEF In
  <2>3. In(data', n)
    <3>1. q \in DOMAIN data' /\ data'[q] = Append(data[q], n)
      BY <1>2, <1>9
    <3>2. Len(data[q]) + 1 \in DOMAIN data'[q] /\ data'[q][Len(data[q]) + 1] = n
      BY <3>1, <1>11, <1>12
    <3>. QED  BY <3>1, <3>2 DEF In
  <2>4. \A m \in DOMAIN words' : m \in DOMAIN words \/ m = n
    BY <1>6, <1>1 DEF n
  <2>. QED  BY <2>1, <2>2, <2>3, <2>4 DEF Split
<1>16. TypeOK'
  <2>1. no_words + 1 \in Nat /\ no_entries + 1 \in Nat
    BY <1>1
  <2>. QED  BY <2>1, <1>1, <1>2, <1>5 DEF TypeOK, RehashOr
<1>17. /\ pc' \in {"fill", "rehash"}
       /\ pc' = "fill" => no_entries' <= Y * no_rows'
       /\ no_entries' <= Y * no_rows' + 1
  <2>1. Y * no_rows \in Nat
    BY <1>1, TableAssumption
  <2>. QED  BY <2>1, <1>1, <1>2, <1>3 DEF RehashOr
<1>18. LinkedOnce'
  <2>1. AtHome(new_data', 2 * no_rows', words')
    BY <1>2, NoArray
  <2>2. no_entries' = Len(item')
    BY <1>1, <1>2, <1>5 DEF n
  <2>. QED
    BY <2>1, <2>2, <1>2, <1>3, <1>8, <1>14, <1>15, <1>17 DEF LinkedOnce
<1>. QED  BY <1>16, <1>18 DEF TableInv

LEMMA StartStep ==
    ASSUME TableInv, StartRehash
    PROVE  TableInv'
<1>1. /\ pc = "rehash" /\ pc' = "move" /\ data' = data /\ no_rows' = no_rows
      /\ no_entries' = no_entries /\ no_words' = no_words /\ item' = item
      /\ new_data' = EmptyRows(2 * no_rows) /\ new_data = <<>>
  BY DEF StartRehash, memory, TableInv, LinkedOnce
<1>2. words' = words
  BY <1>1 DEF words, Items
<1>3. DOMAIN new_data' = 0..(2 * no_rows' - 1)
  BY <1>1 DEF EmptyRows
<1>4. AtHome(new_data', 2 * no_rows', words') /\ \A n : ~In(new_data', n)
  BY <1>1, EmptyArray DEF EmptyRows
<1>5. \A n : ~In(new_data, n)
  BY <1>1, NoArray
<1>6. Split(data', new_data', words')
  BY <1>1, <1>2, <1>4, <1>5 DEF TableInv, LinkedOnce, Split
<1>7. LinkedOnce'
  BY <1>1, <1>2, <1>3, <1>4, <1>6 DEF TableInv, LinkedOnce
<1>8. TypeOK'
  BY <1>1 DEF TableInv, TypeOK
<1>. QED  BY <1>7, <1>8 DEF TableInv

\* The item at the head of a row goes to the head of its new row: it leaves
\* the old array, in which it was only once, and was not in the new one.
LEMMA MoveStep ==
    ASSUME TableInv, NEW r \in DOMAIN data, MoveItem(r)
    PROVE  TableInv'
<1>. DEFINE h == Head(data[r])
            q == Row(h, 2 * no_rows)
<1>1. /\ pc = "move" /\ pc' = pc /\ no_rows' = no_rows /\ no_entries' = no_entries
      /\ no_words' = no_words /\ item' = item /\ data[r] # <<>>
      /\ data' = [data EXCEPT ![r] = Tail(data[r])]
      /\ new_data' = [new_data EXCEPT ![q] = <<h>> \o new_data[q]]
  BY DEF MoveItem, memory
<1>2. words' = words
  BY <1>1 DEF words, Items
<1>3. /\ DOMAIN data = 0..(no_rows - 1) /\ DOMAIN new_data = 0..(2 * no_rows - 1)
      /\ AtHome(data, no_rows, words) /\ AtHome(new_data, 2 * no_rows, words)
      /\ Split(data, new_data, words)
      /\ no_rows \in Nat \ {0}
  BY <1>1 DEF TableInv, LinkedOnce, TypeOK
<1>4. data[r] \in Seq(DOMAIN words) /\ IsInjective(data[r])
  BY <1>3 DEF AtHome
<1>5. /\ Tail(data[r]) \in Seq(DOMAIN words)
      /\ h = data[r][1] /\ 1 \in DOMAIN data[r]
      /\ \A k \in DOMAIN Tail(data[r]) :
            k + 1 \in DOMAIN data[r] /\ Tail(data[r])[k] = data[r][k + 1]
      /\ \A k \in DOMAIN data[r] :
            k # 1 => k - 1 \in DOMAIN Tail(data[r]) /\ Tail(data[r])[k - 1] = data[r][k]
      /\ IsInjective(Tail(data[r]))
  BY <1>1, <1>4, ChainTail
<1>6. h \in DOMAIN words
  BY <1>4, <1>5
<1>7. q = Hash[words[h]] % (2 * no_rows) /\ q \in DOMAIN new_data
  <2>1. words[h] = item[h].word /\ words[h] \in Word
    BY <1>6, WordsTyped DEF TableInv
  <2>2. Hash[words[h]] \in Nat /\ 2 * no_rows \in Nat \ {0}
    BY <2>1, <1>3, TableAssumption
  <2>. QED  BY <2>1, <2>2, <1>3, ModRange DEF Row
<1>8. In(data, h) /\ ~In(new_data, h)
  <2>1. In(data, h)
    BY <1>5 DEF In
  <2>. QED  BY <2>1, <1>3, <1>6 DEF Split
<1>9. /\ new_data[q] \in Seq(DOMAIN words) /\ IsInjective(new_data[q])
      /\ \A k \in DOMAIN new_data[q] : new_data[q][k] # h
  BY <1>3, <1>7, <1>8 DEF AtHome, In
<1>10. /\ <<h>> \o new_data[q] \in Seq(DOMAIN words)
       /\ 1 \in DOMAIN (<<h>> \o new_data[q]) /\ (<<h>> \o new_data[q])[1] = h
       /\ \A k \in DOMAIN (<<h>> \o new_data[q]) :
            k = 1 \/ (k - 1 \in DOMAIN new_data[q]
                      /\ (<<h>> \o new_data[q])[k] = new_data[q][k - 1])
       /\ \A k \in DOMAIN new_data[q] :
            /\ k + 1 \in DOMAIN (<<h>> \o new_data[q])
            /\ (<<h>> \o new_data[q])[k + 1] = new_data[q][k]
       /\ IsInjective(<<h>> \o new_data[q])
  BY <1>6, <1>9, ChainCons
<1>. HIDE DEF h, q
<1>11. /\ DOMAIN data' = DOMAIN data /\ DOMAIN new_data' = DOMAIN new_data
       /\ data'[r] = Tail(data[r]) /\ new_data'[q] = <<h>> \o new_data[q]
       /\ \A s \in DOMAIN data : s # r => data'[s] = data[s]
       /\ \A s \in DOMAIN new_data : s # q => new_data'[s] = new_data[s]
  BY <1>1, <1>7
<1>12. AtHome(data', no_rows, words)
  <2>. SUFFICES ASSUME NEW s \in DOMAIN data
                PROVE  /\ data'[s] \in Seq(DOMAIN words)
                       /\ \A k \in DOMAIN data'[s] : Hash[words[data'[s][k]]] % no_rows = s
                       /\ IsInjective(data'[s])
    BY <1>11 DEF AtHome
  <2>1. CASE s # r
    BY <2>1, <1>3, <1>11 DEF AtHome
  <2>2. CASE s = r
    <3>1. \A k \in DOMAIN data[r] : Hash[words[data[r][k]]] % no_rows = r
      BY <1>3 DEF AtHome
    <3>2. \A k \in DOMAIN Tail(data[r]) : Hash[words[Tail(data[r])[k]]] % no_rows = r
      BY <3>1, <1>5
    <3>. QED  BY <2>2, <3>2, <1>5, <1>11
  <2>. QED  BY <2>1, <2>2
<1>13. AtHome(new_data', 2 * no_rows, words)
  <2>. SUFFICES ASSUME NEW s \in DOMAIN new_data
                PROVE  /\ new_data'[s] \in Seq(DOMAIN words)
                       /\ \A k \in DOMAIN new_data'[s] :
                            Hash[words[new_data'[s][k]]] % (2 * no_rows) = s
                       /\ IsInjective(new_data'[s])
    BY <1>11 DEF AtHome
  <2>1. CASE s # q
    BY <2>1, <1>3, <1>11 DEF AtHome
  <2>2. CASE s = q
    <3>1. \A k \in DOMAIN new_data[q] : Hash[words[new_data[q][k]]] % (2 * no_rows) = q
      BY <1>3, <1>7 DEF AtHome
    <3>2. ASSUME NEW k \in DOMAIN (<<h>> \o new_data[q])
          PROVE  Hash[words[(<<h>> \o new_data[q])[k]]] % (2 * no_rows) = q
      <4>1. CASE k = 1
        BY <4>1, <1>7, <1>10
      <4>2. CASE k # 1
        <5>1. k - 1 \in DOMAIN new_data[q] /\ (<<h>> \o new_data[q])[k] = new_data[q][k - 1]
          BY <4>2, <1>10
        <5>. QED  BY <5>1, <3>1
      <4>. QED  BY <4>1, <4>2
    <3>. QED  BY <2>2, <3>2, <1>10, <1>11
  <2>. QED  BY <2>1, <2>2
<1>14. \A m \in DOMAIN words : In(data', m) <=> In(data, m) /\ m # h
  <2>. TAKE m \in DOMAIN words
  <2>1. ASSUME In(data', m) PROVE In(data, m) /\ m # h
    <3>1. PICK s, k : s \in DOMAIN data /\ k \in DOMAIN data'[s] /\ data'[s][k] = m
      BY <2>1, <1>11 DEF In
    <3>2. CASE s # r
      <4>1. k \in DOMAIN data[s] /\ data[s][k] = m
        BY <3>1, <3>2, <1>11
      <4>2. Hash[words[m]] % no_rows = s
        BY <3>1, <4>1, <1>3 DEF AtHome
      <4>3. Hash[words[h]] % no_rows = r
        BY <1>3, <1>5 DEF AtHome
      <4>4. In(data, m)
        BY <3>1, <4>1 DEF In
      <4>. QED  BY <4>2, <4>3, <4>4, <3>2
    <3>3. CASE s = r
      <4>1. k + 1 \in DOMAIN data[r] /\ data[r][k + 1] = m
        BY <3>1, <3>3, <1>5, <1>11
      <4>2. k + 1 # 1
        BY <3>1, <3>3, <1>5, <1>11
      <4>3. data[r][k + 1] # data[r][1]
        BY <4>1, <4>2, <1>4, <1>5 DEF IsInjective
      <4>4. In(data, m)
        BY <4>1 DEF In
      <4>. QED  BY <4>1, <4>3, <4>4, <1>5
    <3>. QED  BY <3>2, <3>3
  <2>2. ASSUME In(data, m), m # h PROVE In(data', m)
    <3>1. PICK s, k : s \in DOMAIN data /\ k \in DOMAIN data[s] /\ data[s][k] = m
      BY <2>2 DEF In
    <3>2. CASE s # r
      BY <3>1, <3>2, <1>11 DEF In
    <3>3. CASE s = r
      <4>1. k # 1
        BY <3>1, <3>3, <2>2, <1>5
      <4>2. k - 1 \in DOMAIN data'[r] /\ data'[r][k - 1] = m
        BY <4>1, <3>1, <3>3, <1>5, <1>11
      <4>. QED  BY <4>2, <1>11 DEF In
    <3>. QED  BY <3>2, <3>3
  <2>. QED  BY <2>1, <2>2
<1>15. \A m \in DOMAIN words : In(new_data', m) <=> In(new_data, m) \/ m = h
  <2>. TAKE m \in DOMAIN words
  <2>1. ASSUME In(new_data', m) PROVE In(new_data, m) \/ m = h
    <3>1. PICK s, k : s \in DOMAIN new_data /\ k \in DOMAIN new_data'[s] /\ new_data'[s][k] = m
      BY <2>1, <1>11 DEF In
    <3>2. CASE s # q
      BY <3>1, <3>2, <1>11 DEF In
    <3>3. CASE s = q
      BY <3>1, <3>3, <1>10, <1>11 DEF In
    <3>. QED  BY <3>2, <3>3
  <2>2. ASSUME In(new_data, m) PROVE In(new_data', m)
    <3>1. PICK s, k : s \in DOMAIN new_data /\ k \in DOMAIN new_data[s] /\ new_data[s][k] = m
      BY <2>2 DEF In
    <3>2. CASE s # q
      BY <3>1, <3>2, <1>11 DEF In
    <3>3. CASE s = q
      <4>1. q \in DOMAIN new_data' /\ k + 1 \in DOMAIN new_data'[q] /\ new_data'[q][k + 1] = m
        BY <3>1, <3>3, <1>10, <1>11
      <4>. QED  BY <4>1 DEF In
    <3>. QED  BY <3>2, <3>3
  <2>3. In(new_data', h)
    BY <1>7, <1>10, <1>11 DEF In
  <2>. QED  BY <2>1, <2>2, <2>3
<1>16. Split(data', new_data', words)
  BY <1>3, <1>8, <1>14, <1>15 DEF Split
<1>17. LinkedOnce'
  BY <1>1, <1>2, <1>3, <1>11, <1>12, <1>13, <1>16 DEF TableInv, LinkedOnce
<1>18. TypeOK'
  BY <1>1 DEF TableInv, TypeOK
<1>. QED  BY <1>17, <1>18 DEF TableInv

\* The old rows are empty, so every item is in the new ones, and twice the
\* rows are enough for one item too many.
LEMMA FinishStep ==
    ASSUME TableInv, FinishRehash
    PROVE  TableInv'
<1>1. /\ pc = "move" /\ pc' = "fill" /\ data' = new_data /\ new_data' = <<>>
      /\ no_rows' = 2 * no_rows /\ no_entries' = no_entries
      /\ no_words' = no_words /\ item' = item
      /\ \A r \in DOMAIN data : data[r] = <<>>
  BY DEF FinishRehash, memory
<1>2. words' = words
  BY <1>1 DEF words, Items
<1>3. no_rows \in Nat \ {0} /\ no_entries \in Nat
  BY DEF TableInv, TypeOK
<1>4. \A n : ~In(data, n)
  BY <1>1, EmptyArray
<1>5. AtHome(new_data', 2 * no_rows', words') /\ \A n : ~In(new_data', n)
  BY <1>1, NoArray
<1>6. Split(data', new_data', words')
  BY <1>1, <1>2, <1>4, <1>5 DEF TableInv, LinkedOnce, Split
<1>7. no_entries' <= Y * no_rows'
  <2>1. Y * no_rows \in Nat /\ Y * no_rows >= 1 /\ Y * (2 * no_rows) = 2 * (Y * no_rows)
    BY <1>3, DoubleRows, TableAssumption
  <2>2. no_entries <= Y * no_rows + 1
    BY <1>1 DEF TableInv, LinkedOnce
  <2>. QED  BY <2>1, <2>2, <1>1, <1>3
<1>8. LinkedOnce'
  BY <1>1, <1>2, <1>5, <1>6, <1>7 DEF TableInv, LinkedOnce
<1>9. TypeOK'
  BY <1>1, <1>3 DEF TableInv, TypeOK
<1>. QED  BY <1>8, <1>9 DEF TableInv

\* The steps after which the rows and the words of the items are as before, or
\* the rows are gone.
LEMMA QuietStep ==
    ASSUME TableInv, \/ LexicalList \/ CompFreq \/ DestroyItem \/ DestroyTable
                     \/ Fail \/ UNCHANGED vars
    PROVE  TableInv'
<1>1. item \in Seq(WfItem) /\ no_rows \in Nat \ {0} /\ no_entries \in Nat /\ no_words \in Nat
  BY DEF TableInv, TypeOK
<1>2. no_rows' = no_rows /\ no_entries' = no_entries /\ no_words' = no_words
      /\ new_data' = new_data
  BY DEF LexicalList, CompFreq, DestroyItem, DestroyTable, Fail, vars, rows
<1>3. item' \in Seq(WfItem) /\ Len(item') = Len(item)
      /\ \A n \in 1..Len(item) : item'[n].word = item[n].word
  <2>1. CASE CompFreq
    <3>1. item' = [n \in DOMAIN item |->
                      IF \E k \in 1..no_entries : list[k] = n
                      THEN [item[n] EXCEPT !.freq = <<item[n].count, no_words>>]
                      ELSE item[n]]
      BY <2>1 DEF CompFreq
    <3>2. ASSUME NEW n \in 1..Len(item)
          PROVE  item'[n] \in WfItem /\ item'[n].word = item[n].word
      <4>1. item[n] \in WfItem /\ n \in DOMAIN item
        BY <1>1
      <4>2. /\ [item[n] EXCEPT !.freq = <<item[n].count, no_words>>] \in WfItem
            /\ [item[n] EXCEPT !.freq = <<item[n].count, no_words>>].word = item[n].word
        <5>1. item[n].count \in Nat \ {0}
          BY <4>1 DEF WfItem
        <5>2. <<item[n].count, no_words>> \in Int \X Nat
          BY <5>1, <1>1
        <5>3. ASSUME NEW f \in Int \X Nat
              PROVE  /\ [item[n] EXCEPT !.freq = f] \in WfItem
                     /\ [item[n] EXCEPT !.freq = f].word = item[n].word
          BY <4>1 DEF WfItem
        <5>. QED  BY <5>2, <5>3
      <4>3. \/ item'[n] = item[n]
            \/ item'[n] = [item[n] EXCEPT !.freq = <<item[n].count, no_words>>]
        BY <3>1, <4>1
      <4>. QED  BY <4>1, <4>2, <4>3
    <3>3. item' = [n \in 1..Len(item) |-> item'[n]]
      BY <3>1, <1>1
    <3>4. Len(item) \in Nat
      BY <1>1
    <3>. QED  BY <3>2, <3>3, <3>4
  <2>2. CASE ~CompFreq
    BY <2>2, <1>1 DEF LexicalList, DestroyItem, DestroyTable, Fail, vars, memory
  <2>. QED  BY <2>1, <2>2
<1>4. words' = words
  BY <1>3 DEF words, Items
<1>5. TypeOK'
  BY <1>1, <1>2, <1>3
     DEF TypeOK, TableInv, LexicalList, CompFreq, DestroyItem, DestroyTable, Fail, vars
<1>6. CASE pc' \notin Linked
  BY <1>2, <1>3, <1>4, <1>5, <1>6 DEF Linked, TableInv, LinkedOnce
<1>7. CASE pc' \in Linked
  <2>1. /\ data' = data
        /\ \/ pc' = pc
           \/ pc = "fill" /\ pc' = "listed"
    BY <1>7 DEF Linked, LexicalList, CompFreq, DestroyItem, DestroyTable, Fail, vars, rows
  <2>2. LinkedOnce'
    BY <2>1, <1>2, <1>3, <1>4 DEF TableInv, LinkedOnce
  <2>. QED  BY <2>2, <1>5 DEF TableInv
<1>. QED  BY <1>6, <1>7

LEMMA TableStep == TableInv /\ [Next]_vars => TableInv'
<1>. SUFFICES ASSUME TableInv, [Next]_vars PROVE TableInv'
  OBVIOUS
<1>1. ASSUME NEW w \in Word, InsertAgain(w) PROVE TableInv'
  BY <1>1, AgainStep
<1>2. ASSUME NEW w \in Word, InsertNew(w) PROVE TableInv'
  BY <1>2, NewStep
<1>3. CASE StartRehash
  BY <1>3, StartStep
<1>4. ASSUME NEW r \in DOMAIN data, MoveItem(r) PROVE TableInv'
  BY <1>4, MoveStep
<1>5. CASE FinishRehash
  BY <1>5, FinishStep
<1>6. CASE LexicalList \/ CompFreq \/ DestroyItem \/ DestroyTable \/ Fail \/ UNCHANGED vars
  BY <1>6, QuietStep
<1>. QED
  BY <1>1, <1>2, <1>3, <1>4, <1>5, <1>6 DEF Next, Over

\* The types of the table, and that no item is lost or linked twice, hold of
\* every table at any time, in particular half way through a rehash.
THEOREM TableCorrect == Spec => [](TypeOK /\ LinkedOnce)
<1>1. Init => TableInv
  BY InitTable
<1>2. TableInv /\ [Next]_vars => TableInv'
  BY TableStep
<1>3. TableInv => TypeOK /\ LinkedOnce
  BY DEF TableInv
<1>. QED  BY <1>1, <1>2, <1>3, PTL DEF Spec

\* TypeOK of WfTable.
THEOREM TableTypes == Spec => []TypeOK
<1>1. TypeOK /\ LinkedOnce => TypeOK
  OBVIOUS
<1>. QED  BY <1>1, TableCorrect, PTL

-----------------------------------------------------------------------------
(* The memory of the items.                                                *)

\* What is at a place of the rows, and what the places of data hold together.
Held(c) == data[c[1]][c[2]]

\* Every item has one place in the rows when they are not being moved, and a
\* place is no further down its chain than there are items.
LEMMA CellsAreItems ==
    ASSUME TableInv, pc = "fill"
    PROVE  [c \in Cells(data) |-> Held(c)] \in Bijection(Cells(data), Items)
<1>1. /\ Len(item) \in Nat /\ DOMAIN words = 1..Len(item) /\ Items = 1..Len(item)
  BY WordsTyped DEF TableInv, Items
<1>2. AtHome(data, no_rows, words) /\ Split(data, <<>>, words)
  BY DEF TableInv, LinkedOnce
<1>3. \A n \in Items : In(data, n)
  BY <1>1, <1>2, NoArray DEF Split
<1>4. ASSUME NEW r \in DOMAIN data
      PROVE  /\ DOMAIN data[r] \subseteq Items
             /\ \A k \in DOMAIN data[r] : data[r][k] \in Items /\ Hash[words[data[r][k]]] % no_rows = r
             /\ \A k, l \in DOMAIN data[r] : data[r][k] = data[r][l] => k = l
  <2>1. data[r] \in Seq(Items) /\ IsInjective(data[r])
    BY <1>1, <1>2 DEF AtHome
  <2>2. Len(data[r]) \in Nat /\ data[r] \in [1..Len(data[r]) -> Items]
    BY <2>1
  <2>3. data[r] \in Injection(1..Len(data[r]), Items)
    BY <2>1, <2>2 DEF Injection
  <2>4. IsFiniteSet(Items) /\ Cardinality(Items) = Len(item)
    <3>1. 1 \in Int /\ Len(item) \in Int
      BY <1>1
    <3>2. IsFiniteSet(1..Len(item)) /\ Cardinality(1..Len(item)) = IF 1 > Len(item) THEN 0 ELSE Len(item) - 1 + 1
      BY <3>1, FS_Interval
    <3>. QED  BY <1>1, <3>2
  <2>5. Cardinality(1..Len(data[r])) <= Len(item)
    BY <2>3, <2>4, FS_Injection
  <2>6. Cardinality(1..Len(data[r])) = Len(data[r])
    <3>1. 1 \in Int /\ Len(data[r]) \in Int
      BY <2>2
    <3>2. Cardinality(1..Len(data[r])) = IF 1 > Len(data[r]) THEN 0 ELSE Len(data[r]) - 1 + 1
      BY <3>1, FS_Interval
    <3>. QED  BY <2>2, <3>2
  <2>7. DOMAIN data[r] = 1..Len(data[r]) /\ 1..Len(data[r]) \subseteq 1..Len(item)
    BY <1>1, <2>2, <2>5, <2>6
  <2>8. \A k, l \in DOMAIN data[r] : data[r][k] = data[r][l] => k = l
    BY <2>1 DEF IsInjective
  <2>. QED  BY <1>1, <1>2, <2>2, <2>7, <2>8 DEF AtHome
<1> DEFINE g == [c \in Cells(data) |-> Held(c)]
<1>5. \A c \in Cells(data) : c[1] \in DOMAIN data /\ c[2] \in DOMAIN data[c[1]] /\ c = <<c[1], c[2]>>
  BY DEF Cells
<1>6. g \in [Cells(data) -> Items]
  BY <1>4, <1>5 DEF Held
<1>7. ASSUME NEW c \in Cells(data), NEW d \in Cells(data), g[c] = g[d] PROVE c = d
  <2>1. data[c[1]][c[2]] = data[d[1]][d[2]]
    BY <1>7 DEF Held
  <2>2. c[1] = d[1]
    BY <1>4, <1>5, <2>1
  <2>3. c[2] = d[2]
    BY <1>4, <1>5, <2>1, <2>2
  <2>. QED  BY <1>5, <2>2, <2>3
<1>8. ASSUME NEW n \in Items PROVE \E c \in Cells(data) : g[c] = n
  <2>1. PICK r \in DOMAIN data : \E k \in DOMAIN data[r] : data[r][k] = n
    BY <1>3 DEF In
  <2>2. PICK k \in DOMAIN data[r] : data[r][k] = n
    BY <2>1
  <2>3. <<r, k>> \in Cells(data)
    BY <1>4, <2>2 DEF Cells
  <2>4. g[<<r, k>>] = n
    BY <2>2, <2>3 DEF Held
  <2>. QED  BY <2>3, <2>4
<1>. QED  BY <1>6, <1>7, <1>8 DEF Bijection, Injection, Surjection, IsInjective

\* hash_lexical_list lists every item exactly once.
LEMMA ListStep ==
    ASSUME TableInv, LexicalList
    PROVE  list' \in Bijection(1..no_entries, Items)
<1>1. PICK order \in Bijection(1..Cardinality(Cells(data)), Cells(data)) :
          list' = [k \in DOMAIN order |-> data[order[k][1]][order[k][2]]]
  BY DEF LexicalList
<1> DEFINE g == [c \in Cells(data) |-> Held(c)]
<1>2. pc = "fill" /\ no_entries = Len(item) /\ Len(item) \in Nat
  BY WordsTyped DEF LexicalList, TableInv, LinkedOnce
<1>3. g \in Bijection(Cells(data), Items)
  BY <1>2, CellsAreItems
<1> HIDE DEF g
<1>4. Cardinality(Cells(data)) = no_entries
  <2>1. IsFiniteSet(Items) /\ Cardinality(Items) = Len(item)
    <3>1. 1 \in Int /\ Len(item) \in Int
      BY <1>2
    <3>2. IsFiniteSet(1..Len(item)) /\ Cardinality(1..Len(item)) = IF 1 > Len(item) THEN 0 ELSE Len(item) - 1 + 1
      BY <3>1, FS_Interval
    <3>. QED  BY <1>2, <3>2 DEF Items
  <2>2. g \in Injection(Cells(data), Items) /\ g \in Surjection(Cells(data), Items)
    BY <1>3 DEF Bijection
  <2>3. Cardinality(Cells(data)) = Cardinality(Items)
    BY <2>1, <2>2, FS_Injection
  <2>. QED  BY <1>2, <2>1, <2>3
<1>5. order \in Bijection(1..no_entries, Cells(data))
  BY <1>4
<1>6. DOMAIN order = 1..no_entries /\ \A k \in 1..no_entries : order[k] \in Cells(data)
  BY <1>5 DEF Bijection, Injection
<1>7. list' = [k \in 1..no_entries |-> g[order[k]]]
  BY <1>1, <1>6 DEF g, Held
<1>8. [k \in 1..no_entries |-> g[order[k]]] \in Bijection(1..no_entries, Items)
  BY <1>3, <1>5, Fun_BijTransitive
<1>. QED  BY <1>7, <1>8

\* What a list that is a bijection onto the items says of its entries.
LEMMA ListFacts ==
    ASSUME NEW s, NEW n \in Nat, NEW S, s \in Bijection(1..n, S)
    PROVE  /\ s \in Seq(S) /\ Len(s) = n /\ IsInjective(s)
           /\ \A k, l \in 1..n : s[k] = s[l] => k = l
           /\ S = {s[k] : k \in 1..n}
<1>1. s \in [1..n -> S] /\ IsInjective(s) /\ \A x \in S : \E k \in 1..n : s[k] = x
  BY DEF Bijection, Injection, Surjection
<1>2. s \in Seq(S) /\ Len(s) = n
  BY <1>1
<1>3. \A k, l \in 1..n : s[k] = s[l] => k = l
  BY <1>1 DEF IsInjective
<1>. QED  BY <1>1, <1>2, <1>3

LEMMA InitMemory == Init => MemoryAccounted
<1>. SUFFICES ASSUME Init PROVE MemoryAccounted
  OBVIOUS
<1>1. Len(item) = 0 /\ Items = {}
  BY DEF Init, Items
<1>. QED  BY <1>1 DEF Init, MemoryAccounted

\* A step that adds a word keeps the items live, and takes a string only with
\* a new item.
LEMMA FillMemory ==
    ASSUME TableInv, MemoryAccounted, NEW w \in Word, InsertAgain(w) \/ InsertNew(w)
    PROVE  MemoryAccounted'
<1>1. /\ live = 1..Len(item) /\ strings = Len(item) /\ freed = 0 /\ freed' = freed
      /\ item \in Seq(WfItem) /\ Len(item) \in Nat
      /\ pc' \in {"fill", "rehash"}
  BY DEF TableInv, TypeOK, MemoryAccounted, InsertAgain, InsertNew, Inserting, RehashOr, Items
<1>2. CASE InsertAgain(w)
  <2>1. \E m : item' = [item EXCEPT ![m].count = @ + 1]
    BY <1>2 DEF InsertAgain
  <2>2. Len(item') = Len(item)
    BY <1>1, <2>1
  <2>3. live' = live /\ strings' = strings
    BY <1>2 DEF InsertAgain
  <2>. QED  BY <1>1, <2>2, <2>3 DEF MemoryAccounted, Items
<1>3. CASE InsertNew(w)
  <2>1. /\ live' = live \cup {Len(item) + 1} /\ strings' = strings + 1
        /\ Len(item') = Len(item) + 1
    BY <1>1, <1>3 DEF InsertNew
  <2>2. live' = 1..Len(item')
    BY <1>1, <2>1
  <2>. QED  BY <1>1, <2>1, <2>2 DEF MemoryAccounted, Items
<1>. QED  BY <1>2, <1>3

\* hash_comp_freq is given the list of all items, and leaves it.
LEMMA FreqMemory ==
    ASSUME TableInv, MemoryAccounted, CompFreq
    PROVE  MemoryAccounted'
<1>1. /\ live = Items /\ strings = Len(item) /\ freed = 0 /\ no_entries = Len(item)
      /\ list \in Bijection(1..no_entries, Items) /\ no_entries \in Nat
      /\ item \in Seq(WfItem)
  BY DEF TableInv, TypeOK, LinkedOnce, MemoryAccounted, CompFreq
<1>2. /\ live' = live /\ strings' = strings /\ freed' = freed /\ list' = list
      /\ no_entries' = no_entries /\ pc' = "ready" /\ DOMAIN item' = DOMAIN item
  BY DEF CompFreq
<1>3. Len(item') = Len(item)
  <2>1. item' = [n \in 1..Len(item) |-> item'[n]] /\ Len(item) \in Nat
    BY <1>1 DEF CompFreq
  <2>. QED  BY <2>1
<1>4. Items = {list[k] : k \in 1..no_entries}
  BY <1>1, ListFacts
<1>. QED  BY <1>1, <1>2, <1>3, <1>4 DEF MemoryAccounted, Items

\* One more of the list is freed, and no other entry is the same item.
LEMMA DestroyMemory ==
    ASSUME TableInv, MemoryAccounted, DestroyItem
    PROVE  MemoryAccounted'
<1>1. /\ live = {list[k] : k \in (freed + 1)..no_entries} /\ strings = no_entries - freed
      /\ freed \in 0..no_entries /\ no_entries \in Nat
      /\ list \in Bijection(1..no_entries, Items)
  BY DEF TableInv, TypeOK, MemoryAccounted, DestroyItem
<1>2. /\ freed < no_entries /\ freed' = freed + 1 /\ live' = live \ {list[freed + 1]}
      /\ strings' = strings - 1 /\ pc' = "destroy" /\ list' = list /\ item' = item
      /\ no_entries' = no_entries
  BY DEF DestroyItem
<1>3. \A k, l \in 1..no_entries : list[k] = list[l] => k = l
  BY <1>1, ListFacts
<1>4. live' = {list[k] : k \in (freed + 2)..no_entries}
  <2>1. \A k \in (freed + 2)..no_entries :
           k \in (freed + 1)..no_entries /\ k \in 1..no_entries /\ k # freed + 1
    BY <1>1
  <2>2. freed + 1 \in 1..no_entries
    BY <1>1, <1>2
  <2>3. \A k \in (freed + 1)..no_entries : k = freed + 1 \/ k \in (freed + 2)..no_entries
    BY <1>1
  <2>4. \A k \in (freed + 2)..no_entries : list[k] # list[freed + 1]
    BY <1>3, <2>1, <2>2
  <2>. QED  BY <1>1, <1>2, <2>1, <2>3, <2>4
<1>5. freed' + 1 = freed + 2 /\ freed' \in 0..no_entries /\ strings' = no_entries - freed'
  BY <1>1, <1>2
<1>. QED  BY <1>1, <1>2, <1>4, <1>5 DEF MemoryAccounted, Items

LEMMA MemoryStep == TableInv /\ MemoryAccounted /\ [Next]_vars => MemoryAccounted'
<1>. SUFFICES ASSUME TableInv, MemoryAccounted, [Next]_vars PROVE MemoryAccounted'
  OBVIOUS
<1>1. ASSUME NEW w \in Word, InsertAgain(w) \/ InsertNew(w) PROVE MemoryAccounted'
  BY <1>1, FillMemory
<1>2. CASE StartRehash \/ (\E r \in DOMAIN data : MoveItem(r)) \/ FinishRehash
  <2>1. /\ live' = live /\ strings' = strings /\ freed' = freed /\ item' = item
        /\ pc \in {"rehash", "move"} /\ pc' \in {"move", "fill"}
    BY <1>2 DEF StartRehash, MoveItem, FinishRehash, memory
  <2>. QED  BY <2>1 DEF MemoryAccounted, Items
<1>3. CASE LexicalList
  <2>1. list' \in Bijection(1..no_entries, Items)
    BY <1>3, ListStep
  <2>2. /\ live' = live /\ strings' = strings /\ freed' = freed /\ item' = item
        /\ no_entries' = no_entries /\ pc = "fill" /\ pc' = "listed"
    BY <1>3 DEF LexicalList, memory
  <2>. QED  BY <2>1, <2>2 DEF MemoryAccounted, Items
<1>4. CASE CompFreq
  BY <1>4, FreqMemory
<1>5. CASE DestroyItem
  BY <1>5, DestroyMemory
<1>6. CASE DestroyTable
  <2>1. /\ freed = no_entries /\ no_entries \in Nat
        /\ live = {list[k] : k \in (freed + 1)..no_entries} /\ strings = no_entries - freed
    BY <1>6 DEF TableInv, TypeOK, MemoryAccounted, DestroyTable
  <2>2. live = {} /\ strings = 0
    BY <2>1
  <2>3. live' = live /\ strings' = strings /\ pc' = "destroyed"
    BY <1>6 DEF DestroyTable, memory
  <2>. QED  BY <2>2, <2>3 DEF MemoryAccounted
<1>7. CASE Fail
  BY <1>7 DEF Fail, MemoryAccounted
<1>8. CASE UNCHANGED vars
  BY <1>8 DEF vars, MemoryAccounted, Items
<1>. QED
  BY <1>1, <1>2, <1>3, <1>4, <1>5, <1>6, <1>7, <1>8 DEF Next, Over

\* The items and the strings of a table are accounted for at any time: all of
\* them before the list is made, all of the list after that, and the rest of it
\* while hash_destroy frees them (wf_table.c:20-72, 164-173, 218-239).
THEOREM MemoryCorrect == Spec => []MemoryAccounted
<1>1. Init => TableInv /\ MemoryAccounted
  BY InitTable, InitMemory
<1>2. (TableInv /\ MemoryAccounted) /\ [Next]_vars => (TableInv /\ MemoryAccounted)'
  BY TableStep, MemoryStep
<1>3. TableInv /\ MemoryAccounted => MemoryAccounted
  OBVIOUS
<1>. QED  BY <1>1, <1>2, <1>3, PTL DEF Spec

\* hash_destroy, which has no rows any more, frees each item and each string
\* exactly once, for every vocabulary, hash function and load.
THEOREM TableReturned == Spec => []MemoryReturned
<1>1. (TypeOK /\ LinkedOnce) /\ MemoryAccounted => MemoryReturned
  <2>. SUFFICES ASSUME TypeOK, MemoryAccounted PROVE MemoryReturned
    OBVIOUS
  <2>1. ASSUME pc \in {"ready", "destroy"}
        PROVE  Len(list) = no_entries /\ IsInjective(list)
    <3>1. no_entries \in Nat /\ list \in Bijection(1..no_entries, Items)
      BY <2>1 DEF TypeOK, MemoryAccounted
    <3>. QED  BY <3>1, ListFacts
  <2>. QED  BY <2>1 DEF MemoryAccounted, MemoryReturned
<1>. QED  BY <1>1, TableCorrect, MemoryCorrect, PTL
-----------------------------------------------------------------------------
(* The bag of words.                                                       *)

\* Once made, the list is in the order of strcmp until it has its frequencies.
ListOrdered == pc = "listed" => Lexical(list)

BagInv == TableInv /\ MemoryAccounted /\ ListOrdered

LEMMA BagStep == BagInv /\ [Next]_vars => BagInv'
<1>. SUFFICES ASSUME BagInv, [Next]_vars PROVE BagInv'
  OBVIOUS
<1>1. TableInv' /\ MemoryAccounted'
  BY TableStep, MemoryStep DEF BagInv
<1>2. ListOrdered'
  <2>. SUFFICES ASSUME pc' = "listed" PROVE Lexical(list)'
    BY DEF ListOrdered
  <2>1. LexicalList \/ UNCHANGED vars
    BY DEF Next, Over, InsertAgain, InsertNew, StartRehash, MoveItem, FinishRehash, CompFreq,
           DestroyItem, DestroyTable, Fail, RehashOr
  <2>2. CASE LexicalList
    BY <2>2 DEF LexicalList, Lexical, memory
  <2>3. CASE UNCHANGED vars
    BY <2>3 DEF BagInv, ListOrdered, Lexical, vars
  <2>. QED  BY <2>1, <2>2, <2>3
<1>. QED  BY <1>1, <1>2 DEF BagInv

\* No item is ever out of reach while the table is in use.
LEMMA AllFound ==
    ASSUME BagInv, pc # "failed"
    PROVE  found = Items
<1>1. CASE pc \in {"fill", "rehash", "move", "listed"}
  <2>1. DOMAIN words = Items
    BY DEF words
  <2>2. \A n \in Items : In(data, n) \/ In(new_data, n)
    BY <1>1, <2>1 DEF BagInv, TableInv, LinkedOnce, Split
  <2>. QED  BY <1>1, <2>2 DEF found, Findable
<1>2. CASE pc \in {"ready", "destroy"}
  <2>1. no_entries \in Nat /\ list \in Bijection(1..no_entries, Items)
    BY <1>2 DEF BagInv, TableInv, TypeOK, MemoryAccounted
  <2>2. DOMAIN list = 1..no_entries /\ Items = {list[k] : k \in 1..no_entries}
    BY <2>1, ListFacts DEF Bijection, Injection
  <2>3. \A n \in Items : n \in Range(list)
    BY <2>2 DEF Range
  <2>. QED  BY <1>2, <2>3 DEF found, Findable
<1>3. CASE pc = "destroyed"
  BY <1>3 DEF found
<1>. QED  BY <1>1, <1>2, <1>3 DEF BagInv, TableInv, TypeOK

\* What is counted of a word: the count of its item, which is the only one.
CountsRight ==
    /\ \A n \in Items : item[n].word \in Word /\ counted(item[n].word) = item[n].count
    /\ \A w \in Word : (\A n \in Items : item[n].word # w) => counted(w) = 0

InUse == pc # "failed"

LEMMA WordCounted == BagInv /\ InUse => CountsRight
<1>. SUFFICES ASSUME BagInv, InUse PROVE CountsRight
  OBVIOUS
<1>1. found = Items
  BY AllFound DEF InUse
<1>2. IsInjective(words) /\ DOMAIN words = Items /\ \A n \in Items : words[n] = item[n].word
  BY DEF BagInv, TableInv, LinkedOnce, words
<1>3. \A n \in Items : item[n].word \in Word
  BY <1>2, WordsTyped DEF BagInv, TableInv, Items
<1>4. ASSUME NEW n \in Items PROVE counted(item[n].word) = item[n].count
  <2>1. Of(item[n].word) = {n}
    BY <1>1, <1>2 DEF Of, IsInjective
  <2>2. (CHOOSE m \in {n} : TRUE) = n
    OBVIOUS
  <2>. QED  BY <2>1, <2>2 DEF counted
<1>5. ASSUME NEW w \in Word, \A n \in Items : item[n].word # w PROVE counted(w) = 0
  BY <1>1, <1>5 DEF counted, Of
<1>. QED  BY <1>3, <1>4, <1>5 DEF CountsRight

\* The same after a step.
LEMMA WordCountedAfter == BagInv' /\ InUse' => CountsRight'
BY WordCounted, PTL

\* While no item is added, a word is counted by the items of before.
LEMMA CountsMove ==
    ASSUME CountsRight, CountsRight', Items' = Items,
           \A n \in Items : item'[n].word = item[n].word /\ item'[n].count = item[n].count
    PROVE  counts' = counts
<1>1. ASSUME NEW w \in Word PROVE counted(w)' = counted(w)
  <2>1. CASE \E n \in Items : item[n].word = w
    <3>1. PICK n \in Items : item[n].word = w
      BY <2>1
    <3>2. counted(w) = item[n].count
      BY <3>1 DEF CountsRight
    <3>3. n \in Items' /\ item'[n].word = w
      BY <3>1
    <3>4. counted(w)' = item'[n].count
      BY <3>3 DEF CountsRight
    <3>. QED  BY <3>1, <3>2, <3>4
  <2>2. CASE \A n \in Items : item[n].word # w
    <3>1. \A n \in Items' : item'[n].word # w
      BY <2>2
    <3>. QED  BY <2>2, <3>1 DEF CountsRight
  <2>. QED  BY <2>1, <2>2
<1>. QED  BY <1>1 DEF counts

\* A word that is counted again is the only one that is.
LEMMA AgainCounts ==
    ASSUME BagInv, CountsRight, CountsRight', NEW w \in Word, InsertAgain(w)
    PROVE  Bag!Insert(w)
<1>1. PICK m : /\ \E k \in DOMAIN Chain(w) : Chain(w)[k] = m
               /\ item[m].word = w
               /\ item' = [item EXCEPT ![m].count = @ + 1]
  BY DEF InsertAgain, Matches
<1>2. item \in Seq(WfItem) /\ no_rows \in Nat \ {0} /\ Hash[w] \in Nat
  BY TableAssumption DEF BagInv, TableInv, TypeOK
<1>3. Hash[w] % no_rows \in DOMAIN data
  BY <1>2, ModRange DEF BagInv, TableInv, LinkedOnce, InsertAgain, Inserting
<1>4. Chain(w) \in Seq(DOMAIN words)
  BY <1>3 DEF BagInv, TableInv, LinkedOnce, InsertAgain, Inserting, AtHome, Chain
<1>5. m \in Items
  BY <1>1, <1>4 DEF words
<1>6. IsInjective(words) /\ DOMAIN words = Items /\ \A n \in Items : words[n] = item[n].word
  BY DEF BagInv, TableInv, LinkedOnce, words
<1>7. /\ Items' = Items
      /\ \A n \in Items : item'[n].word = item[n].word
      /\ \A n \in Items : n # m => item'[n].count = item[n].count
      /\ item'[m].count = item[m].count + 1
  <2>1. item' = [item EXCEPT ![m] = [item[m] EXCEPT !.count = item[m].count + 1]]
    BY <1>1, <1>2, <1>5 DEF Items
  <2>2. item[m] \in WfItem
    BY <1>2, <1>5 DEF Items
  <2>3. /\ [item[m] EXCEPT !.count = item[m].count + 1].count = item[m].count + 1
        /\ [item[m] EXCEPT !.count = item[m].count + 1].word = item[m].word
    BY <2>2 DEF WfItem
  <2>4. Len(item') = Len(item) /\ \A n \in 1..Len(item) : item'[n] =
           IF n = m THEN [item[m] EXCEPT !.count = item[m].count + 1] ELSE item[n]
    BY <1>2, <1>5, <2>1 DEF Items
  <2>. QED  BY <1>5, <2>3, <2>4 DEF Items
<1>8. counted(w)' = counted(w) + 1
  BY <1>1, <1>5, <1>7 DEF CountsRight
<1>9. ASSUME NEW v \in Word, v # w PROVE counted(v)' = counted(v)
  <2>1. CASE \E n \in Items : item[n].word = v
    <3>1. PICK n \in Items : item[n].word = v
      BY <2>1
    <3>2. n # m /\ item'[n].word = v /\ n \in Items'
      BY <1>1, <1>7, <1>9, <3>1
    <3>. QED  BY <1>7, <3>1, <3>2 DEF CountsRight
  <2>2. CASE \A n \in Items : item[n].word # v
    BY <1>7, <2>2 DEF CountsRight
  <2>. QED  BY <2>1, <2>2
<1>10. counts' = [counts EXCEPT ![w] = @ + 1]
  BY <1>8, <1>9 DEF counts
<1>11. /\ stage = "filling" /\ stage' = "filling" /\ reported = <<>> /\ reported' = <<>>
       /\ no_words' = no_words + 1
  BY DEF InsertAgain, Inserting, RehashOr, stage, reported
<1>. QED  BY <1>10, <1>11 DEF Bag!Insert

\* A new word has not been counted before, and no other is counted with it.
LEMMA NewCounts ==
    ASSUME BagInv, CountsRight, CountsRight', NEW w \in Word, InsertNew(w)
    PROVE  Bag!Insert(w)
<1>. DEFINE x == [word |-> w, count |-> 1, freq |-> NoFreq]
<1>1. item \in Seq(WfItem) /\ Len(item) \in Nat /\ item' = Append(item, x)
  BY DEF BagInv, TableInv, TypeOK, InsertNew
<1>2. x \in WfItem /\ x.word = w /\ x.count = 1
  BY DEF WfItem, NoFreq
<1>. HIDE DEF x
<1>3. PICK n : n = Len(item) + 1
  OBVIOUS
<1>4. /\ Items' = Items \cup {n} /\ n \notin Items /\ item'[n] = x
      /\ \A m \in Items : item'[m] = item[m]
  BY <1>1, <1>2, <1>3 DEF Items
<1>5. IsInjective(words)' /\ DOMAIN words' = Items'
      /\ \A m \in Items' : words'[m] = item'[m].word
  <2>1. LinkedOnce'
    <3>1. TableInv'
      BY NewStep DEF BagInv
    <3>. QED  BY <3>1 DEF TableInv
  <2>. QED  BY <2>1 DEF LinkedOnce, words
<1>6. \A m \in Items : item[m].word # w
  <2>. SUFFICES ASSUME NEW m \in Items, item[m].word = w PROVE FALSE
    OBVIOUS
  <2>1. m \in Items' /\ n \in Items' /\ words'[m] = words'[n] /\ m # n
    BY <1>2, <1>4, <1>5
  <2>. QED  BY <1>5, <2>1 DEF IsInjective
<1>7. counted(w)' = counted(w) + 1
  <2>1. counted(w) = 0 /\ counted(w)' = 1
    BY <1>2, <1>4, <1>6 DEF CountsRight
  <2>. QED  BY <2>1
<1>8. ASSUME NEW v \in Word, v # w PROVE counted(v)' = counted(v)
  <2>1. CASE \E m \in Items : item[m].word = v
    <3>1. PICK m \in Items : item[m].word = v
      BY <2>1
    <3>2. item'[m] = item[m] /\ m \in Items'
      BY <1>4, <3>1
    <3>. QED  BY <3>1, <3>2 DEF CountsRight
  <2>2. CASE \A m \in Items : item[m].word # v
    <3>1. \A m \in Items' : item'[m].word # v
      BY <1>2, <1>4, <1>8, <2>2
    <3>. QED  BY <2>2, <3>1 DEF CountsRight
  <2>. QED  BY <2>1, <2>2
<1>9. counts' = [counts EXCEPT ![w] = @ + 1]
  BY <1>7, <1>8 DEF counts
<1>10. /\ stage = "filling" /\ stage' = "filling" /\ reported = <<>> /\ reported' = <<>>
       /\ no_words' = no_words + 1
  BY DEF InsertNew, Inserting, RehashOr, stage, reported
<1>. QED  BY <1>9, <1>10 DEF Bag!Insert

\* hash_comp_freq completes the list: every word of the file once, in order,
\* with its share of all words.
LEMMA FreqReports ==
    ASSUME BagInv, CountsRight, CountsRight', CompFreq
    PROVE  Bag!Report
<1>1. /\ no_entries \in Nat /\ no_entries = Len(item) /\ no_words \in Nat
      /\ item \in Seq(WfItem) /\ list \in Bijection(1..no_entries, Items)
      /\ Lexical(list) /\ IsInjective(words)
  BY DEF BagInv, TableInv, TypeOK, LinkedOnce, MemoryAccounted, ListOrdered, CompFreq
<1>2. /\ list \in Seq(Items) /\ Len(list) = no_entries
      /\ \A k, l \in 1..no_entries : list[k] = list[l] => k = l
      /\ Items = {list[k] : k \in 1..no_entries}
  BY <1>1, ListFacts
<1>3. DOMAIN list = 1..no_entries /\ \A k \in 1..no_entries : list[k] \in Items
  BY <1>2
<1>4. item' = [n \in Items |-> [item[n] EXCEPT !.freq = <<item[n].count, no_words>>]]
  <2>1. \A n \in Items : \E k \in 1..no_entries : list[k] = n
    BY <1>2
  <2>2. DOMAIN item = Items
    BY <1>1 DEF Items
  <2>. QED  BY <2>1, <2>2 DEF CompFreq
<1>5. \A n \in Items : item[n] \in WfItem
  BY <1>1 DEF Items
<1>6. ASSUME NEW n \in Items
      PROVE  /\ item'[n].word = item[n].word /\ item[n].word \in Word
             /\ item'[n].count = item[n].count /\ item[n].count \in Nat \ {0}
             /\ item'[n].freq = <<item[n].count, no_words>>
  BY <1>4, <1>5 DEF WfItem
<1>7. Items' = Items
  <2>1. Len(item) \in Nat /\ item' = [n \in 1..Len(item) |-> item'[n]]
    BY <1>1, <1>4 DEF Items
  <2>2. Len(item') = Len(item)
    BY <2>1
  <2>. QED  BY <2>2 DEF Items
<1>8. counts' = counts
  BY <1>6, <1>7, CountsMove
<1>9. /\ stage = "filling" /\ stage' = "reported"
      /\ reported' = [k \in 1..no_entries |->
                        [word |-> item[list[k]].word,
                         freq |-> <<item[list[k]].count, no_words>>]]
      /\ no_words' = no_words
  <2>1. pc = "listed" /\ pc' = "ready" /\ list' = list /\ no_words' = no_words
    BY DEF CompFreq
  <2>2. reported' = [k \in 1..no_entries |->
                       [word |-> item'[list[k]].word, freq |-> item'[list[k]].freq]]
    BY <1>3, <2>1 DEF reported
  <2>. QED  BY <1>3, <1>6, <2>1, <2>2 DEF stage
<1>10. PICK entries : entries = reported'
  OBVIOUS
<1>11. /\ DOMAIN entries = 1..no_entries
       /\ \A k \in 1..no_entries : /\ entries[k].word = item[list[k]].word
                                   /\ entries[k].freq = <<item[list[k]].count, no_words>>
                                   /\ entries[k] \in [word : Word, freq : Nat \X Nat]
  BY <1>1, <1>3, <1>6, <1>9, <1>10
<1>12. entries \in Seq([word : Word, freq : Nat \X Nat])
  <2>1. entries = [k \in 1..no_entries |-> entries[k]]
    BY <1>9, <1>10
  <2>. QED  BY <1>1, <1>11, <2>1
<1>13. ASSUME NEW k \in 1..no_entries, NEW l \in 1..no_entries, k < l
       PROVE  entries[k].word < entries[l].word
  <2>1. item[list[k]].word <= item[list[l]].word
    BY <1>1, <1>3, <1>13 DEF Lexical
  <2>2. list[k] # list[l] /\ list[k] \in Items /\ list[l] \in Items
    BY <1>2, <1>3, <1>13
  <2>3. words[list[k]] # words[list[l]]
    BY <1>1, <2>2 DEF IsInjective, words
  <2>4. item[list[k]].word # item[list[l]].word
    BY <2>2, <2>3 DEF words
  <2>5. item[list[k]].word \in Nat /\ item[list[l]].word \in Nat
    BY <1>6, <2>2, TableAssumption
  <2>. QED  BY <1>11, <2>1, <2>4, <2>5
<1>14. {entries[k].word : k \in DOMAIN entries} = {w \in Word : counts[w] > 0}
  <2>1. ASSUME NEW k \in 1..no_entries
        PROVE  entries[k].word \in Word /\ counts[entries[k].word] > 0
    <3>1. list[k] \in Items /\ entries[k].word = item[list[k]].word
      BY <1>3, <1>11
    <3>. QED  BY <1>6, <3>1 DEF counts, CountsRight
  <2>2. ASSUME NEW w \in Word, counts[w] > 0
        PROVE  \E k \in 1..no_entries : entries[k].word = w
    <3>1. counted(w) # 0
      BY <2>2 DEF counts
    <3>2. PICK n \in Items : item[n].word = w
      BY <3>1 DEF CountsRight
    <3>3. PICK k \in 1..no_entries : list[k] = n
      BY <1>2, <3>2
    <3>. QED  BY <1>11, <3>2, <3>3
  <2>. QED  BY <1>11, <2>1, <2>2
<1>15. \A k \in DOMAIN entries : entries[k].freq = <<counts[entries[k].word], no_words>>
  <2>1. ASSUME NEW k \in 1..no_entries
        PROVE  counts[entries[k].word] = item[list[k]].count
    BY <1>3, <1>6, <1>11 DEF counts, CountsRight
  <2>. QED  BY <1>11, <2>1
<1>16. \A k, l \in DOMAIN entries : k < l => entries[k].word < entries[l].word
  BY <1>11, <1>13
<1>17. Bag!IsReport(entries)
  BY <1>12, <1>14, <1>15, <1>16 DEF Bag!IsReport
<1>. QED  BY <1>8, <1>9, <1>10, <1>17 DEF Bag!Report

\* The steps of a rehash, the making of the list and the destruction count
\* nothing; the first item freed, or the table when it has none, ends the report.
LEMMA QuietCounts ==
    ASSUME BagInv, BagInv', InUse, InUse',
           \/ StartRehash
           \/ \E r \in DOMAIN data : MoveItem(r)
           \/ FinishRehash
           \/ LexicalList
           \/ DestroyItem
           \/ DestroyTable
    PROVE  [Bag!Next]_(Bag!vars)
<1>1. item' = item /\ no_words' = no_words
  BY DEF StartRehash, MoveItem, FinishRehash, LexicalList, DestroyItem, DestroyTable, memory
<1>2. counts' = counts
  BY <1>1, WordCounted, WordCountedAfter, CountsMove DEF Items
<1>3. CASE StartRehash \/ (\E r \in DOMAIN data : MoveItem(r)) \/ FinishRehash \/ LexicalList
  <2>1. /\ stage = "filling" /\ stage' = "filling" /\ reported = <<>> /\ reported' = <<>>
    BY <1>3 DEF StartRehash, MoveItem, FinishRehash, LexicalList, stage, reported
  <2>. QED  BY <1>1, <1>2, <2>1 DEF Bag!vars
<1>4. CASE DestroyItem \/ DestroyTable
  <2>1. /\ pc \in {"ready", "destroy"} /\ stage' = "discarded" /\ reported' = <<>>
    BY <1>4 DEF DestroyItem, DestroyTable, stage, reported
  <2>2. CASE pc = "ready"
    BY <1>1, <1>2, <2>1, <2>2 DEF Bag!Next, Bag!Discard, stage
  <2>3. CASE pc = "destroy"
    BY <1>1, <1>2, <2>1, <2>3 DEF Bag!vars, stage, reported
  <2>. QED  BY <2>1, <2>2, <2>3
<1>. QED  BY <1>3, <1>4

\* A process that ends leaves the table as it is.
LEMMA FailCounts == ASSUME Fail PROVE Bag!Next
<1>1. /\ UNCHANGED <<item, data, new_data, list, no_words>>
      /\ pc \in {"fill", "rehash"} /\ pc' = "failed"
  BY DEF Fail, memory, rows
<1>2. found' = found
  BY <1>1 DEF found, Findable, In, Items
<1>3. counts' = counts
  BY <1>1, <1>2 DEF counts, counted, Of
<1>4. stage = "filling" /\ stage' = "failed" /\ reported = <<>> /\ reported' = <<>>
  BY <1>1 DEF stage, reported
<1>. QED  BY <1>1, <1>3, <1>4 DEF Bag!Next, Bag!Fail

\* The table of a file is a bag of its words, for every vocabulary, hash function
\* and load: each insertion counts its word once, no rehash changes a count, and
\* the list has each word once, in order, with its share
\* (hash_insert to hash_comp_freq, wf_table.c:20-216).
THEOREM TableImplementsWordBag == Spec => ImplementsWordBag
<1>1. Init => BagInv /\ Bag!Init
  <2>. SUFFICES ASSUME Init PROVE BagInv /\ Bag!Init
    OBVIOUS
  <2>1. BagInv
    BY InitTable, InitMemory DEF BagInv, ListOrdered, Init
  <2>2. Items = {}
    BY DEF Init, Items
  <2>3. counts = [w \in Word |-> 0]
    BY <2>2 DEF counts, counted, Of, found, Findable
  <2>4. no_words = 0 /\ reported = <<>> /\ stage \in {"filling", "failed"}
    BY DEF Init, reported, stage
  <2>. QED  BY <2>1, <2>3, <2>4 DEF Bag!Init
<1>2. BagInv /\ BagInv' /\ [Next]_vars => [Bag!Next]_(Bag!vars)
  <2>. SUFFICES ASSUME BagInv, BagInv', [Next]_vars PROVE [Bag!Next]_(Bag!vars)
    OBVIOUS
  <2>1. ASSUME NEW w \in Word, InsertAgain(w) \/ InsertNew(w) PROVE Bag!Next
    <3>1. InUse /\ InUse'
      BY <2>1 DEF InsertAgain, InsertNew, Inserting, RehashOr, InUse
    <3>2. CountsRight /\ CountsRight'
      BY <3>1, WordCounted, WordCountedAfter
    <3>. QED  BY <2>1, <3>2, AgainCounts, NewCounts DEF Bag!Next
  <2>2. CASE \/ StartRehash
             \/ \E r \in DOMAIN data : MoveItem(r)
             \/ FinishRehash
             \/ LexicalList
             \/ DestroyItem
             \/ DestroyTable
    <3>1. InUse /\ InUse'
      BY <2>2 DEF StartRehash, MoveItem, FinishRehash, LexicalList, DestroyItem,
                  DestroyTable, InUse
    <3>. QED  BY <2>2, <3>1, QuietCounts
  <2>3. CASE CompFreq
    <3>1. InUse /\ InUse'
      BY <2>3 DEF CompFreq, InUse
    <3>2. CountsRight /\ CountsRight'
      BY <3>1, WordCounted, WordCountedAfter
    <3>. QED  BY <2>3, <3>2, FreqReports DEF Bag!Next
  <2>4. CASE Fail
    BY <2>4, FailCounts
  <2>5. CASE UNCHANGED vars
    <3>1. found' = found
      BY <2>5 DEF vars, found, Findable, In, Items
    <3>2. counts' = counts
      BY <2>5, <3>1 DEF vars, counts, counted, Of
    <3>. QED  BY <2>5, <3>2 DEF vars, Bag!vars, stage, reported
  <2>. QED  BY <2>1, <2>2, <2>3, <2>4, <2>5 DEF Next, Over
<1>. QED  BY <1>1, <1>2, BagStep, PTL DEF Spec, ImplementsWordBag, Bag!Spec
=============================================================================



