--------------------------- MODULE TokenizerProofs ---------------------------
(***************************************************************************)
(* The buffer of a file thread is never read or written outside of its     *)
(* block, for every alphabet, every length it begins with, words of any    *)
(* length and any number of files; tokenize keeps to the operations of the *)
(* buffer; and the words it inserts are the words of the file, wherever    *)
(* the blocks that read returns begin and end.                             *)
(***************************************************************************)
EXTENDS TokenizerReference, FiniteSetTheorems, TLAPS

LEMMA CreateTerminated == sb_create => BufferTerminated
BY BufferAssumption DEF sb_create, BufferTerminated, Malloc, Write

\* Room for the character and the NUL is there: before the call one byte is
\* left at least, and a buffer that grows gains as many as it has in use.
LEMMA AppendTerminated ==
    ASSUME BufferTerminated, length >= 2, NEW item \in Char, sb_append(item)
    PROVE  /\ BufferTerminated' /\ length' >= 2
           /\ used' = used + 1 /\ data'[used] = item
           /\ \A k \in 0..(used - 1) : data'[k] = data[k]
<1>. DEFINE full == used = length - 1
            size == IF full THEN 2 * (length - 1) + 1 ELSE length
            room == IF full THEN Realloc(data, size) ELSE data
            one == Write(room, used, item)
<1>1. /\ length \in Nat /\ used \in Nat /\ used <= length - 1
      /\ DOMAIN data = 0..(length - 1)
      /\ \A k \in 0..(used - 1) : data[k] \in Char
  BY DEF BufferTerminated
<1>2. length' = size /\ used' = used + 1 /\ data' = Write(one, used + 1, NUL)
  BY DEF sb_append
<1>3. size \in Nat /\ size >= length /\ used + 1 <= size - 1
  BY <1>1
<1>4. DOMAIN room = 0..(size - 1) /\ \A k \in 0..(used - 1) : room[k] = data[k]
  <2>1. CASE full
    BY <2>1, <1>1, <1>3 DEF Realloc
  <2>2. CASE ~full
    BY <2>2, <1>1
  <2>. QED  BY <2>1, <2>2
<1>. HIDE DEF full, size, room
<1>5. /\ DOMAIN one = 0..(size - 1) /\ one[used] = item
      /\ \A k \in 0..(used - 1) : one[k] = data[k]
  <2>1. used \in DOMAIN room
    BY <1>1, <1>3, <1>4
  <2>2. DOMAIN one = DOMAIN room \cup {used} /\ one[used] = item
        /\ \A k \in DOMAIN room : k # used => one[k] = room[k]
    BY DEF one, Write
  <2>3. \A k \in 0..(used - 1) : k \in DOMAIN room /\ k # used
    BY <1>1, <1>3, <1>4
  <2>. QED  BY <2>1, <2>2, <2>3, <1>4
<1>. HIDE DEF one
<1>6. /\ DOMAIN data' = 0..(size - 1) /\ data'[used + 1] = NUL
      /\ \A k \in 0..used : data'[k] = one[k]
  <2>1. used + 1 \in DOMAIN one
    BY <1>1, <1>3, <1>5
  <2>2. DOMAIN data' = DOMAIN one \cup {used + 1} /\ data'[used + 1] = NUL
        /\ \A k \in DOMAIN one : k # used + 1 => data'[k] = one[k]
    BY <1>2 DEF Write
  <2>3. \A k \in 0..used : k \in DOMAIN one /\ k # used + 1 /\ (k = used \/ k \in 0..(used - 1))
    BY <1>1, <1>3, <1>5
  <2>. QED  BY <2>1, <2>2, <2>3, <1>5
<1>7. \A k \in 0..used : data'[k] \in Char
  <2>1. \A k \in 0..used : k = used \/ k \in 0..(used - 1)
    BY <1>1
  <2>. QED  BY <2>1, <1>1, <1>5, <1>6
<1>8. data'[used] = item /\ \A k \in 0..(used - 1) : data'[k] = data[k]
  <2>1. used \in 0..used /\ \A k \in 0..(used - 1) : k \in 0..used
    BY <1>1
  <2>. QED  BY <2>1, <1>5, <1>6
<1>. QED  BY <1>1, <1>2, <1>3, <1>6, <1>7, <1>8 DEF BufferTerminated

LEMMA TakeTerminated ==
    ASSUME BufferTerminated, NEW word, sb_get_lower_word(word)
    PROVE  BufferTerminated' /\ length' = length
<1>1. /\ length \in Nat /\ length >= 1 /\ DOMAIN data = 0..(length - 1)
      /\ 0 \in DOMAIN data
  BY DEF BufferTerminated
<1>2. DOMAIN data' = 0..(length - 1) /\ data'[0] = NUL
  BY <1>1 DEF sb_get_lower_word, Write
<1>. QED  BY <1>1, <1>2 DEF BufferTerminated, sb_get_lower_word

\* Whoever uses the buffer by its operations stays inside of its block.
THEOREM BufferSafe == BufferSpec => []BufferTerminated
<1>. DEFINE Inv == BufferTerminated /\ length >= 2
<1>1. sb_create => Inv
  BY CreateTerminated, BufferAssumption DEF sb_create
<1>2. Inv /\ [BufferNext]_buffer => Inv'
  <2>. SUFFICES ASSUME Inv, [BufferNext]_buffer PROVE Inv'
    OBVIOUS
  <2>1. ASSUME NEW item \in Char, sb_append(item) PROVE Inv'
    BY <2>1, AppendTerminated
  <2>2. CASE sb_get_lower_word(LowerWord)
    BY <2>2, TakeTerminated
  <2>3. CASE UNCHANGED buffer
    BY <2>3 DEF buffer, BufferTerminated
  <2>. QED  BY <2>1, <2>2, <2>3 DEF BufferNext
<1>. QED  BY <1>1, <1>2, PTL DEF BufferSpec

\* tokenize touches the buffer by its operations alone.
THEOREM KeepsToBuffer == Spec => BufferSpec
<1>1. Init => sb_create
  BY DEF Init
<1>2. [Next]_vars => [BufferNext]_buffer
  <2>. SUFFICES ASSUME [Next]_vars PROVE [BufferNext]_buffer
    OBVIOUS
  <2>1. CASE UNCHANGED vars
    BY <2>1 DEF vars
  <2>2. CASE ReadBlock \/ ReadNothing \/ Fail \/ NextFile \/ Over
    BY <2>2 DEF ReadBlock, ReadNothing, Fail, NextFile, Over, vars
  <2>3. ASSUME NEW c \in Char, AppendChar(c) \/ EndWord(c) \/ SkipChar(c)
        PROVE  [BufferNext]_buffer
    BY <2>3 DEF AppendChar, EndWord, SkipChar, InsertWord, BufferNext
  <2>4. CASE FinishFile
    BY <2>4 DEF FinishFile, InsertWord, BufferNext
  <2>. QED  BY <2>1, <2>2, <2>3, <2>4 DEF Next
<1>. QED  BY <1>1, <1>2, PTL DEF Spec, BufferSpec

\* The buffer of a file thread is terminated and within its block at every
\* moment of every file.
THEOREM TokenizerSafe == Spec => []BufferTerminated
BY BufferSafe, KeepsToBuffer, PTL

-----------------------------------------------------------------------------
(* A text that is one character longer.                                    *)

LEMMA TextFacts ==
    ASSUME NEW t \in Seq(Char)
    PROVE  /\ Len(t) \in Nat /\ Kept(t) \subseteq 1..Len(t) /\ Starts(t) \subseteq Kept(t)
           /\ IsFiniteSet(Kept(t)) /\ IsFiniteSet(Starts(t))
           /\ Cardinality(Starts(t)) \in Nat
           /\ \A n : IsFiniteSet(LettersOf(t, n)) /\ Cardinality(LettersOf(t, n)) \in Nat
           /\ \A p : WordOf(t, p) \in Nat /\ WordOf(t, p) <= Cardinality(Starts(t))
           /\ LettersOf(t, Cardinality(Starts(t)) + 1) = {}
<1>1. Len(t) \in Nat /\ Kept(t) \subseteq 1..Len(t) /\ Starts(t) \subseteq Kept(t)
  BY DEF Kept, Starts
<1>2. IsFiniteSet(1..Len(t))
  <2>1. 1 \in Int /\ Len(t) \in Int
    BY <1>1
  <2>. QED  BY <2>1, FS_Interval
<1>3. IsFiniteSet(Kept(t))
  BY <1>1, <1>2, FS_Subset
<1>4. IsFiniteSet(Starts(t)) /\ Cardinality(Starts(t)) \in Nat
  BY <1>1, <1>3, FS_Subset, FS_CardinalityType
<1>5. ASSUME NEW n
      PROVE  IsFiniteSet(LettersOf(t, n)) /\ Cardinality(LettersOf(t, n)) \in Nat
  <2>1. LettersOf(t, n) \subseteq Kept(t)
    BY DEF LettersOf
  <2>. QED  BY <2>1, <1>3, FS_Subset, FS_CardinalityType
<1>6. ASSUME NEW p
      PROVE  WordOf(t, p) \in Nat /\ WordOf(t, p) <= Cardinality(Starts(t))
  <2>1. {s \in Starts(t) : s <= p} \in SUBSET Starts(t)
    OBVIOUS
  <2>2. /\ IsFiniteSet({s \in Starts(t) : s <= p})
        /\ Cardinality({s \in Starts(t) : s <= p}) <= Cardinality(Starts(t))
    BY <2>1, <1>4, FS_Subset
  <2>3. Cardinality({s \in Starts(t) : s <= p}) \in Nat
    BY <2>2, FS_CardinalityType
  <2>. QED  BY <2>2, <2>3 DEF WordOf
<1>7. LettersOf(t, Cardinality(Starts(t)) + 1) = {}
  <2>1. \A p : WordOf(t, p) # Cardinality(Starts(t)) + 1
    BY <1>4, <1>6
  <2>. QED  BY <2>1 DEF LettersOf
<1>. QED  BY <1>1, <1>3, <1>4, <1>5, <1>6, <1>7

\* The letters, and the words that begin, are those from before, and the new
\* character when it is part of a word.
LEMMA NextStarts ==
    ASSUME NEW t \in Seq(Char), NEW c \in Char, NEW u, u = Append(t, c)
    PROVE  /\ u \in Seq(Char) /\ Len(u) = Len(t) + 1 /\ u[Len(t) + 1] = c
           /\ Kept(u) = Kept(t) \cup (IF c \in InWord THEN {Len(t) + 1} ELSE {})
           /\ Starts(u) = Starts(t) \cup
                            (IF c \in InWord /\ ~Open(t) THEN {Len(t) + 1} ELSE {})
           /\ Open(u) = (c \in InWord \/ (c \notin Space /\ Open(t)))
<1>1. /\ u \in Seq(Char) /\ Len(u) = Len(t) + 1 /\ u[Len(t) + 1] = c /\ Len(t) \in Nat
      /\ \A k \in 1..Len(t) : u[k] = t[k]
      /\ DOMAIN u = 1..(Len(t) + 1) /\ DOMAIN t = 1..Len(t)
  OBVIOUS
<1>. DEFINE new == Len(t) + 1
<1>2. \A p \in 1..new : p \in 1..Len(t) \/ p = new
  BY <1>1
<1>3. new \in 1..new /\ new \notin 1..Len(t) /\ 1..Len(t) \subseteq 1..new
  BY <1>1
<1>. HIDE DEF new
<1>4. Kept(u) = Kept(t) \cup (IF c \in InWord THEN {new} ELSE {})
  BY <1>1, <1>2, <1>3 DEF Kept, new
<1>5. Kept(t) \subseteq 1..Len(t)
  BY <1>1 DEF Kept
<1>6. c \in InWord => c \notin Space
  BY DEF InWord
<1>7. ASSUME NEW p \in Kept(t) PROVE p \in Starts(u) <=> p \in Starts(t)
  <2>1. p \in 1..Len(t) /\ p \in Kept(u)
    BY <1>4, <1>5
  <2>2. \A q \in Kept(u) : q < p => q \in Kept(t)
    BY <1>1, <1>4, <2>1 DEF new
  <2>3. \A q \in Kept(t) : \A s \in q..p : s \in 1..Len(t) /\ u[s] = t[s]
    BY <1>1, <1>5, <2>1
  <2>4. Kept(t) \subseteq Kept(u)
    BY <1>4
  <2>. QED  BY <2>1, <2>2, <2>3, <2>4 DEF Starts
<1>8. ASSUME c \in InWord PROVE new \in Starts(u) <=> ~Open(t)
  <2>1. new \in Kept(u)
    BY <1>4, <1>8
  <2>2. \A q \in Kept(u) : q < new <=> q \in Kept(t)
    BY <1>1, <1>4, <1>5, <1>8 DEF new
  <2>3. \A q \in Kept(t) : \A s \in q..new : s = new \/ (s \in q..Len(t) /\ u[s] = t[s])
    BY <1>1, <1>5 DEF new
  <2>4. \A q \in Kept(t) : \A s \in q..Len(t) : s \in q..new /\ u[s] = t[s]
    BY <1>1, <1>5 DEF new
  <2>5. u[new] \notin Space
    BY <1>1, <1>6, <1>8 DEF new
  <2>6. \A q \in Kept(t) : (\E s \in q..new : u[s] \in Space)
                              <=> (\E s \in q..Len(t) : t[s] \in Space)
    BY <2>3, <2>4, <2>5
  <2>7. new \in Starts(u) <=> \A q \in Kept(t) : \E s \in q..new : u[s] \in Space
    BY <2>1, <2>2, <1>4 DEF Starts
  <2>. QED  BY <2>6, <2>7 DEF Open
<1>9. Starts(u) \subseteq Kept(u) /\ Starts(t) \subseteq Kept(t)
  BY DEF Starts
<1>10. Starts(u) = Starts(t) \cup (IF c \in InWord /\ ~Open(t) THEN {new} ELSE {})
  <2>1. CASE c \in InWord
    BY <2>1, <1>4, <1>7, <1>8, <1>9
  <2>2. CASE c \notin InWord
    BY <2>2, <1>4, <1>7, <1>9
  <2>. QED  BY <2>1, <2>2
<1>11. Open(u) = (c \in InWord \/ (c \notin Space /\ Open(t)))
  <2>1. CASE c \in InWord
    <3>1. new \in Kept(u) /\ \A s \in new..Len(u) : s = new
      BY <2>1, <1>1, <1>4 DEF new
    <3>2. u[new] \notin Space
      BY <2>1, <1>1, <1>6 DEF new
    <3>. QED  BY <3>1, <3>2, <2>1 DEF Open
  <2>2. CASE c \notin InWord
    <3>1. Kept(u) = Kept(t)
      BY <2>2, <1>4
    <3>2. ASSUME NEW q \in Kept(t)
          PROVE  (\A s \in q..Len(u) : u[s] \notin Space)
                    <=> c \notin Space /\ \A s \in q..Len(t) : t[s] \notin Space
      <4>1. q \in 1..Len(t)
        BY <1>5
      <4>2. \A s \in q..Len(u) : s = new \/ (s \in q..Len(t) /\ u[s] = t[s])
        BY <1>1, <4>1 DEF new
      <4>3. new \in q..Len(u) /\ u[new] = c
        BY <1>1, <4>1 DEF new
      <4>4. \A s \in q..Len(t) : s \in q..Len(u) /\ u[s] = t[s]
        BY <1>1, <4>1
      <4>. QED  BY <4>2, <4>3, <4>4
    <3>. QED  BY <2>2, <3>1, <3>2 DEF Open
  <2>. QED  BY <2>1, <2>2
<1>. QED  BY <1>1, <1>4, <1>10, <1>11 DEF new

\* An earlier letter keeps its place in its word.
LEMMA EarlierLetters ==
    ASSUME NEW t \in Seq(Char), NEW c \in Char, NEW u, u = Append(t, c)
    PROVE  \A p \in Kept(t) : /\ u[p] = t[p]
                               /\ WordOf(u, p) = WordOf(t, p)
                               /\ PlaceOf(u, p) = PlaceOf(t, p)
<1>. TAKE p \in Kept(t)
<1>1. Len(t) \in Nat /\ Kept(t) \subseteq 1..Len(t) /\ Starts(t) \subseteq Kept(t)
  BY TextFacts
<1>2. /\ Kept(t) \subseteq Kept(u) /\ Kept(u) \subseteq Kept(t) \cup {Len(t) + 1}
      /\ Starts(t) \subseteq Starts(u) /\ Starts(u) \subseteq Starts(t) \cup {Len(t) + 1}
  <2>1. /\ Kept(u) = Kept(t) \cup (IF c \in InWord THEN {Len(t) + 1} ELSE {})
        /\ Starts(u) = Starts(t) \cup
                         (IF c \in InWord /\ ~Open(t) THEN {Len(t) + 1} ELSE {})
    BY NextStarts
  <2>. QED  BY ONLY <2>1
<1>3. ASSUME NEW q \in Kept(t) PROVE WordOf(u, q) = WordOf(t, q)
  <2>1. q \in 1..Len(t) /\ ~ Len(t) + 1 <= q
    BY <1>1
  <2>2. {s \in Starts(u) : s <= q} = {s \in Starts(t) : s <= q}
    BY <1>2, <2>1
  <2>. QED  BY <2>2 DEF WordOf
<1>4. ASSUME NEW n
      PROVE  {q \in LettersOf(u, n) : q <= p} = {q \in LettersOf(t, n) : q <= p}
  <2>1. p \in 1..Len(t) /\ ~ Len(t) + 1 <= p
    BY <1>1
  <2>. QED  BY <2>1, <1>2, <1>3 DEF LettersOf
<1>5. PlaceOf(u, p) = PlaceOf(t, p)
  BY <1>3, <1>4 DEF PlaceOf
<1>6. u[p] = t[p]
  BY <1>1
<1>. QED  BY <1>2, <1>3, <1>5, <1>6

\* The text u has the letters of t and no other.
NoLetterMore(t, u) ==
    /\ Starts(u) = Starts(t) /\ LettersIn(u) = LettersIn(t)
    /\ \A n : LettersOf(u, n) = LettersOf(t, n)

\* A character that is not part of a word changes nothing.
LEMMA OtherLetters ==
    ASSUME NEW t \in Seq(Char), NEW c \in Char, NEW u, u = Append(t, c), c \notin InWord
    PROVE  NoLetterMore(t, u)
<1>1. \A p \in Kept(t) : u[p] = t[p] /\ WordOf(u, p) = WordOf(t, p) /\ PlaceOf(u, p) = PlaceOf(t, p)
  BY EarlierLetters
<1>2. Kept(u) = Kept(t) /\ Starts(u) = Starts(t)
  <2>1. /\ Kept(u) = Kept(t) \cup (IF c \in InWord THEN {Len(t) + 1} ELSE {})
        /\ Starts(u) = Starts(t) \cup
                         (IF c \in InWord /\ ~Open(t) THEN {Len(t) + 1} ELSE {})
    BY NextStarts
  <2>. QED  BY ONLY <2>1, c \notin InWord
<1>. QED  BY <1>1, <1>2 DEF NoLetterMore, LettersIn, LettersOf

\* The text u is t with one more letter, of the nth word, as its last.
OneLetterMore(t, u, n, letter) ==
    /\ n = IF Open(t) THEN Cardinality(Starts(t)) ELSE Cardinality(Starts(t)) + 1
    /\ Cardinality(LettersOf(u, n)) = Cardinality(LettersOf(t, n)) + 1
    /\ LettersIn(u) = LettersIn(t) \cup {<<n, Cardinality(LettersOf(t, n)) + 1, letter>>}

\* One that is part of a word is the next letter of the last word.
LEMMA NewLetter ==
    ASSUME NEW t \in Seq(Char), NEW c \in InWord
    PROVE  \A u, n : u = Append(t, c) /\ n = Cardinality(Starts(u)) =>
                        OneLetterMore(t, u, n, Lower[c])
<1>. TAKE u, n
<1>. HAVE u = Append(t, c) /\ n = Cardinality(Starts(u))
<1>0. c \in Char
  BY DEF InWord
<1>. DEFINE new == Len(t) + 1
<1>1. /\ Len(t) \in Nat /\ Kept(t) \subseteq 1..Len(t) /\ Starts(t) \subseteq Kept(t)
      /\ IsFiniteSet(Starts(t)) /\ IsFiniteSet(LettersOf(t, n))
  BY TextFacts
<1>2. new \notin Kept(t) /\ \A p \in Kept(t) : p <= new
  BY <1>1
<1>3. /\ Kept(u) = Kept(t) \cup {new} /\ u[new] = c
      /\ Starts(u) = IF Open(t) THEN Starts(t) ELSE Starts(t) \cup {new}
  BY <1>0, NextStarts
<1>4. new <= new
  BY <1>1
<1>. HIDE DEF new
<1>5. n = IF Open(t) THEN Cardinality(Starts(t)) ELSE Cardinality(Starts(t)) + 1
  <2>1. new \notin Starts(t)
    BY <1>1, <1>2
  <2>. QED  BY <2>1, <1>1, <1>3, FS_AddElement
<1>6. WordOf(u, new) = n
  <2>1. {s \in Starts(u) : s <= new} = Starts(u)
    BY <1>1, <1>2, <1>3, <1>4
  <2>. QED  BY <2>1 DEF WordOf
<1>7. \A p \in Kept(t) : u[p] = t[p] /\ WordOf(u, p) = WordOf(t, p) /\ PlaceOf(u, p) = PlaceOf(t, p)
  BY <1>0, EarlierLetters
<1>8. LettersOf(u, n) = LettersOf(t, n) \cup {new}
  BY <1>3, <1>6, <1>7 DEF LettersOf
<1>9. Cardinality(LettersOf(u, n)) = Cardinality(LettersOf(t, n)) + 1
  <2>1. new \notin LettersOf(t, n)
    BY <1>2 DEF LettersOf
  <2>2. Cardinality(LettersOf(t, n) \cup {new}) = Cardinality(LettersOf(t, n)) + 1
    BY ONLY <2>1, <1>1, FS_AddElement
  <2>. QED  BY <2>2, <1>8
<1>10. PlaceOf(u, new) = Cardinality(LettersOf(t, n)) + 1
  <2>1. {q \in LettersOf(u, n) : q <= new} = LettersOf(u, n)
    BY <1>2, <1>4, <1>8 DEF LettersOf
  <2>. QED  BY <2>1, <1>6, <1>9 DEF PlaceOf
<1>11. LettersIn(u) = LettersIn(t) \cup {<<n, Cardinality(LettersOf(t, n)) + 1, Lower[c]>>}
  <2>1. {<<WordOf(u, p), PlaceOf(u, p), Lower[u[p]]>> : p \in Kept(t)} = LettersIn(t)
    BY <1>7 DEF LettersIn
  <2>2. LettersIn(u) = {<<WordOf(u, p), PlaceOf(u, p), Lower[u[p]]>> : p \in Kept(t)}
                        \cup {<<WordOf(u, new), PlaceOf(u, new), Lower[u[new]]>>}
    BY <1>3 DEF LettersIn
  <2>. QED  BY <2>1, <2>2, <1>3, <1>6, <1>10
<1>. QED  BY <1>5, <1>9, <1>11 DEF OneLetterMore

-----------------------------------------------------------------------------
(* The words that were inserted, and the one in the buffer.                *)

\* A word without letters adds none; a letter adds one.
LEMMA LettersAppend ==
    ASSUME NEW S, NEW ws \in Seq(Seq(S))
    PROVE  /\ Letters(Append(ws, <<>>)) = Letters(ws)
           /\ \A w \in Seq(S), x \in S :
                 Letters(Append(ws, Append(w, x))) =
                    Letters(Append(ws, w)) \cup {<<Len(ws) + 1, Len(w) + 1, x>>}
<1>1. ASSUME NEW words, NEW z
      PROVE  z \in Letters(words) <=>
                \E n \in DOMAIN words : \E k \in DOMAIN words[n] : z = <<n, k, words[n][k]>>
  BY DEF Letters
<1>2. Len(ws) \in Nat /\ DOMAIN ws = 1..Len(ws)
  OBVIOUS
<1>3. ASSUME NEW y \in Seq(S)
      PROVE  /\ DOMAIN Append(ws, y) = DOMAIN ws \cup {Len(ws) + 1}
             /\ Append(ws, y)[Len(ws) + 1] = y
             /\ \A n \in DOMAIN ws : Append(ws, y)[n] = ws[n]
  <2>1. DOMAIN Append(ws, y) = 1..(Len(ws) + 1)
    BY <1>2
  <2>2. 1..(Len(ws) + 1) = DOMAIN ws \cup {Len(ws) + 1}
    BY <1>2
  <2>3. Append(ws, y)[Len(ws) + 1] = y /\ \A n \in DOMAIN ws : Append(ws, y)[n] = ws[n]
    BY <1>2
  <2>. QED  BY <2>1, <2>2, <2>3
<1>4. ASSUME NEW y \in Seq(S), NEW z
      PROVE  z \in Letters(Append(ws, y)) <=>
                \/ z \in Letters(ws)
                \/ \E k \in DOMAIN y : z = <<Len(ws) + 1, k, y[k]>>
  <2>1. PICK v : v = Append(ws, y)
    OBVIOUS
  <2>2. /\ DOMAIN v = DOMAIN ws \cup {Len(ws) + 1} /\ v[Len(ws) + 1] = y
        /\ \A n \in DOMAIN ws : v[n] = ws[n]
    BY <1>3, <2>1
  <2>3. /\ z \in Letters(v) <=> \E n \in DOMAIN v : \E k \in DOMAIN v[n] : z = <<n, k, v[n][k]>>
        /\ z \in Letters(ws) <=> \E n \in DOMAIN ws : \E k \in DOMAIN ws[n] : z = <<n, k, ws[n][k]>>
    BY <1>1
  <2>4. (\E n \in DOMAIN v : \E k \in DOMAIN v[n] : z = <<n, k, v[n][k]>>) <=>
           \/ \E n \in DOMAIN ws : \E k \in DOMAIN ws[n] : z = <<n, k, ws[n][k]>>
           \/ \E k \in DOMAIN y : z = <<Len(ws) + 1, k, y[k]>>
    BY ONLY <2>2, Zenon
  <2>. QED  BY <2>1, <2>3, <2>4
<1>5. Letters(Append(ws, <<>>)) = Letters(ws)
  <2>1. <<>> \in Seq(S) /\ DOMAIN <<>> = {}
    OBVIOUS
  <2>. QED  BY <2>1, <1>4
<1>6. ASSUME NEW w \in Seq(S), NEW x \in S
      PROVE  Letters(Append(ws, Append(w, x))) =
                Letters(Append(ws, w)) \cup {<<Len(ws) + 1, Len(w) + 1, x>>}
  <2>1. PICK v : v = Append(w, x)
    OBVIOUS
  <2>2. /\ v \in Seq(S) /\ DOMAIN v = DOMAIN w \cup {Len(w) + 1}
        /\ v[Len(w) + 1] = x /\ \A k \in DOMAIN w : v[k] = w[k]
    <3>1. Len(w) \in Nat /\ DOMAIN w = 1..Len(w)
      OBVIOUS
    <3>2. DOMAIN v = 1..(Len(w) + 1) /\ 1..(Len(w) + 1) = DOMAIN w \cup {Len(w) + 1}
      BY <2>1, <3>1
    <3>3. v \in Seq(S) /\ v[Len(w) + 1] = x /\ \A k \in DOMAIN w : v[k] = w[k]
      BY <2>1, <3>1
    <3>. QED  BY <3>2, <3>3
  <2>3. ASSUME NEW z
        PROVE  z \in Letters(Append(ws, v)) <=>
                  z \in Letters(Append(ws, w)) \/ z = <<Len(ws) + 1, Len(w) + 1, x>>
    <3>1. (\E k \in DOMAIN v : z = <<Len(ws) + 1, k, v[k]>>) <=>
             \/ \E k \in DOMAIN w : z = <<Len(ws) + 1, k, w[k]>>
             \/ z = <<Len(ws) + 1, Len(w) + 1, x>>
      BY <2>2
    <3>. QED  BY <3>1, <2>2, <1>4
  <2>. QED  BY <2>1, <2>3
<1>. QED  BY <1>5, <1>6

LEMMA WordTyped ==
    ASSUME BufferTerminated
    PROVE  LowerWord \in Seq(Char) /\ Len(LowerWord) = used /\ used \in Nat
<1>1. used \in Nat /\ \A k \in 1..used : data[k - 1] \in Char
  BY DEF BufferTerminated
<1>2. \A k \in 1..used : Lower[data[k - 1]] \in Char
  BY <1>1, BufferAssumption
<1>. QED  BY <1>1, <1>2 DEF LowerWord

\* No words yet.
LEMMA EmptyText ==
    /\ AreWords(<<>>, <<>>) /\ ~Open(<<>>)
    /\ Starts(<<>>) = {}
<1>1. DOMAIN <<>> = {} /\ Len(<<>>) = 0
  OBVIOUS
<1>2. Kept(<<>>) = {} /\ Starts(<<>>) = {}
  BY <1>1 DEF Kept, Starts
<1>3. Letters(<<>>) = {} /\ LettersIn(<<>>) = {}
  BY <1>1, <1>2 DEF Letters, LettersIn
<1>. QED  BY <1>1, <1>2, <1>3, FS_EmptySet DEF AreWords, Open

Reading == {"read", "scan", "rest"}

LEMMA ScannedTyped ==
    ASSUME Blocks
    PROVE  /\ Scanned \in Seq(Char) /\ Len(content) \in Nat /\ Len(inter_buf) \in Nat
           /\ Len(Scanned) = Len(content) - Len(inter_buf)
           /\ \A k \in 1..(Len(content) - Len(inter_buf)) : Scanned[k] = content[k]
           /\ inter_buf = <<>> => Scanned = content
<1>1. /\ content \in Seq(Char) /\ Len(content) \in Nat /\ Len(inter_buf) \in Nat
      /\ Len(inter_buf) <= Len(content)
  BY DEF Blocks
<1>2. PICK n \in Nat : n = Len(content) - Len(inter_buf) /\ n <= Len(content)
  <2>1. Len(content) - Len(inter_buf) \in Nat /\ Len(content) - Len(inter_buf) <= Len(content)
    BY <1>1
  <2>. QED  BY <2>1
<1>3. Scanned = [k \in 1..n |-> content[k]]
  BY <1>1, <1>2 DEF Scanned
<1>4. \A k \in 1..n : content[k] \in Char
  BY <1>1, <1>2
<1>5. Scanned \in Seq(Char) /\ Len(Scanned) = n /\ \A k \in 1..n : Scanned[k] = content[k]
  BY <1>2, <1>3, <1>4
<1>6. ASSUME inter_buf = <<>> PROVE Scanned = content
  <2>1. n = Len(content)
    BY <1>1, <1>2, <1>6
  <2>. QED  BY <1>1, <1>3, <2>1
<1>. QED  BY <1>1, <1>2, <1>5, <1>6

\* What has been looked at is all but the rest of the block.
ScannedPrefix ==
    /\ Scanned \in Seq(Char) /\ Len(Scanned) = Len(content) - Len(inter_buf)
    /\ \A k \in 1..(Len(content) - Len(inter_buf)) : Scanned[k] = content[k]

LEMMA ScannedIsPrefix == Blocks => ScannedPrefix
BY ScannedTyped DEF ScannedPrefix

\* While the file is read: the letters inserted and in the buffer are those of
\* the text so far.
LEMMA SoFar ==
    ASSUME TokenizerInv, pc \in Reading
    PROVE  /\ Letters(Append(inserted, LowerWord)) = LettersIn(Scanned)
           /\ Cardinality(Starts(Scanned)) = Len(inserted) + (IF Open(Scanned) THEN 1 ELSE 0)
           /\ inserted \in Seq(Seq(Char)) /\ Len(inserted) \in Nat
<1>1. /\ inserted \in Seq(Seq(Char)) /\ Len(inserted) \in Nat /\ OpenWord
      /\ AreWords(IF word_state = "wIncomplete" THEN Append(inserted, LowerWord)
                                                ELSE inserted, Scanned)
      /\ LowerWord \in Seq(Char) /\ Len(LowerWord) = used
  BY WordTyped DEF TokenizerInv, WordsSoFar, Reading
<1>2. CASE Open(Scanned)
  <2>1. AreWords(Append(inserted, LowerWord), Scanned)
    BY <1>1, <1>2 DEF OpenWord
  <2>2. Len(Append(inserted, LowerWord)) = Len(inserted) + 1
    BY <1>1
  <2>. QED  BY <2>1, <2>2, <1>1, <1>2 DEF AreWords
<1>3. CASE ~Open(Scanned)
  <2>1. AreWords(inserted, Scanned) /\ used = 0
    BY <1>1, <1>3 DEF OpenWord
  <2>2. LowerWord = <<>>
    BY <1>1, <2>1
  <2>3. Letters(Append(inserted, <<>>)) = Letters(inserted)
    BY <1>1, LettersAppend
  <2>. QED  BY <2>1, <2>2, <2>3, <1>1, <1>3 DEF AreWords
<1>. QED  BY <1>2, <1>3

\* One character of the block is looked at.
LEMMA ScanStep ==
    ASSUME TokenizerInv, NEW c \in Char, Scan(c)
    PROVE  /\ Scanned \in Seq(Char) /\ Scanned' = Append(Scanned, c) /\ Blocks'
           /\ pc \in Reading /\ pc' \in {"read", "scan"}
<1>1. /\ Blocks /\ pc = "scan" /\ c = Head(inter_buf) /\ inter_buf' = Tail(inter_buf)
      /\ content' = content /\ pc' = IF inter_buf' = <<>> THEN "read" ELSE "scan"
  BY DEF TokenizerInv, Scan
<1>2. /\ content \in Seq(Char) /\ inter_buf \in Seq(Char) /\ inter_buf # <<>>
      /\ Len(content) \in Nat /\ Len(inter_buf) \in Nat /\ Len(inter_buf) <= Len(content)
      /\ \A k \in 1..Len(inter_buf) : inter_buf[k] = content[Len(content) - Len(inter_buf) + k]
  BY <1>1 DEF Blocks
<1>3. /\ inter_buf' \in Seq(Char) /\ Len(inter_buf') = Len(inter_buf) - 1
      /\ Len(inter_buf) >= 1 /\ c = inter_buf[1]
      /\ \A k \in 1..(Len(inter_buf) - 1) : inter_buf'[k] = inter_buf[k + 1]
  BY <1>1, <1>2
<1>4. ASSUME NEW k \in 1..Len(inter_buf')
      PROVE  inter_buf'[k] = content'[Len(content') - Len(inter_buf') + k]
  <2>1. /\ k + 1 \in 1..Len(inter_buf) /\ k \in 1..(Len(inter_buf) - 1)
        /\ Len(content) - Len(inter_buf) + (k + 1) = Len(content) - Len(inter_buf') + k
    BY <1>2, <1>3
  <2>. QED  BY <2>1, <1>1, <1>2, <1>3
<1>5. Blocks'
  <2>1. Len(inter_buf') <= Len(content)
    BY <1>2, <1>3
  <2>. QED  BY <1>1, <1>2, <1>3, <1>4, <2>1 DEF Blocks
<1>6. PICK t : t = Scanned
  OBVIOUS
<1>7. /\ t \in Seq(Char) /\ Len(t) = Len(content) - Len(inter_buf)
      /\ \A k \in 1..(Len(content) - Len(inter_buf)) : t[k] = content[k]
  BY <1>1, <1>6, ScannedTyped
<1>8. c = content[Len(t) + 1]
  <2>1. 1 \in 1..Len(inter_buf)
    BY <1>2, <1>3
  <2>. QED  BY <2>1, <1>2, <1>3, <1>7
<1>9. Scanned' = [k \in 1..(Len(t) + 1) |-> content[k]]
  <2>1. Len(content') - Len(inter_buf') = Len(t) + 1
    BY <1>1, <1>2, <1>3, <1>7
  <2>2. Len(t) + 1 \in 0..Len(content)
    BY <1>2, <1>3, <1>7
  <2>3. Scanned' = SubSeq(content, 1, Len(t) + 1)
    BY <1>1, <2>1 DEF Scanned
  <2>. QED  BY <1>2, <2>2, <2>3
<1>10. Append(t, c) = [k \in 1..(Len(t) + 1) |-> content[k]]
  <2>1. PICK u : u = Append(t, c)
    OBVIOUS
  <2>2. /\ u \in Seq(Char) /\ Len(u) = Len(t) + 1 /\ Len(t) \in Nat
        /\ u[Len(t) + 1] = c /\ \A k \in 1..Len(t) : u[k] = t[k]
    BY <1>7, <2>1
  <2>3. \A k \in 1..(Len(t) + 1) : u[k] = content[k]
    <3>1. \A k \in 1..(Len(t) + 1) : k = Len(t) + 1 \/ k \in 1..Len(t)
      BY <2>2
    <3>. QED  BY <3>1, <2>2, <1>7, <1>8
  <2>4. u = [k \in 1..(Len(t) + 1) |-> u[k]]
    BY <2>2
  <2>. QED  BY <2>1, <2>3, <2>4
<1>. QED  BY <1>1, <1>5, <1>6, <1>7, <1>9, <1>10 DEF Reading

LEMMA AppendStep ==
    ASSUME TokenizerInv, NEW c \in Char, AppendChar(c)
    PROVE  TokenizerInv'
<1>1. PICK t, u, n : t = Scanned /\ u = Append(t, c) /\ n = Cardinality(Starts(u))
  OBVIOUS
<1>2. /\ t \in Seq(Char) /\ Scanned' = u /\ Blocks' /\ pc \in Reading /\ pc' \in {"read", "scan"}
  BY <1>1, ScanStep DEF AppendChar
<1>3. /\ Letters(Append(inserted, LowerWord)) = LettersIn(t)
      /\ Cardinality(Starts(t)) = Len(inserted) + (IF Open(t) THEN 1 ELSE 0)
      /\ inserted \in Seq(Seq(Char)) /\ Len(inserted) \in Nat
  BY <1>1, <1>2, SoFar
<1>4. /\ BufferTerminated /\ length >= 2 /\ OpenWord
      /\ c \in InWord /\ sb_append(c) /\ word_state' = "wIncomplete" /\ inserted' = inserted
  BY <1>2 DEF TokenizerInv, Reading, AppendChar
<1>5. LowerWord \in Seq(Char) /\ Len(LowerWord) = used /\ used \in Nat /\ Lower[c] \in Char
  BY <1>4, WordTyped, BufferAssumption
<1>6. /\ BufferTerminated' /\ length' >= 2 /\ used' = used + 1 /\ data'[used] = c
      /\ \A k \in 0..(used - 1) : data'[k] = data[k]
  BY <1>4, AppendTerminated
<1>7. LowerWord' = Append(LowerWord, Lower[c])
  <2>1. LowerWord' = [k \in 1..(used + 1) |-> Lower[data'[k - 1]]]
    BY <1>6 DEF LowerWord
  <2>2. Append(LowerWord, Lower[c]) =
           [k \in 1..(used + 1) |-> IF k = used + 1 THEN Lower[c] ELSE LowerWord[k]]
    BY <1>5
  <2>3. ASSUME NEW k \in 1..(used + 1)
        PROVE  Lower[data'[k - 1]] = IF k = used + 1 THEN Lower[c] ELSE LowerWord[k]
    <3>1. CASE k = used + 1
      BY <3>1, <1>5, <1>6
    <3>2. CASE k # used + 1
      <4>1. k \in 1..used /\ k - 1 \in 0..(used - 1)
        BY <3>2, <1>5
      <4>. QED  BY <4>1, <3>2, <1>6 DEF LowerWord
    <3>. QED  BY <3>1, <3>2
  <2>. QED  BY <2>1, <2>2, <2>3
<1>0. /\ n = IF Open(t) THEN Cardinality(Starts(t)) ELSE Cardinality(Starts(t)) + 1
      /\ Cardinality(LettersOf(u, n)) = Cardinality(LettersOf(t, n)) + 1
      /\ LettersIn(u) = LettersIn(t) \cup {<<n, Cardinality(LettersOf(t, n)) + 1, Lower[c]>>}
  <2>1. t \in Seq(Char) /\ u = Append(t, c) /\ c \in InWord /\ n = Cardinality(Starts(u))
    BY <1>1, <1>2, <1>4
  <2>2. OneLetterMore(t, u, n, Lower[c])
    BY ONLY <2>1, NewLetter
  <2>. QED  BY <2>2 DEF OneLetterMore
<1>8. n = Len(inserted) + 1 /\ Cardinality(LettersOf(t, n)) = used
  <2>1. n = IF Open(t) THEN Cardinality(Starts(t)) ELSE Cardinality(Starts(t)) + 1
    BY <1>0
  <2>2. n = Len(inserted) + 1
    BY <2>1, <1>3
  <2>3. CASE Open(t)
    BY <2>1, <2>2, <2>3, <1>1, <1>4 DEF OpenWord
  <2>4. CASE ~Open(t)
    <3>1. LettersOf(t, n) = {}
      BY <2>1, <2>4, <1>2, TextFacts
    <3>. QED  BY <2>2, <2>4, <3>1, <1>1, <1>4, FS_EmptySet DEF OpenWord
  <2>. QED  BY <2>2, <2>3, <2>4
<1>9. /\ Cardinality(LettersOf(u, n)) = used + 1
      /\ LettersIn(u) = LettersIn(t) \cup {<<n, used + 1, Lower[c]>>}
      /\ Open(u)
  <2>1. Open(u)
    BY <1>1, <1>2, <1>4, NextStarts
  <2>. QED  BY <2>1, <1>0, <1>8
<1>10. AreWords(Append(inserted', LowerWord'), u)
  <2>1. Letters(Append(inserted, Append(LowerWord, Lower[c]))) =
          Letters(Append(inserted, LowerWord)) \cup {<<Len(inserted) + 1, Len(LowerWord) + 1, Lower[c]>>}
    BY <1>3, <1>5, LettersAppend
  <2>2. Len(Append(inserted, Append(LowerWord, Lower[c]))) = Len(inserted) + 1
    BY <1>3
  <2>. QED  BY <2>1, <2>2, <1>1, <1>3, <1>4, <1>5, <1>7, <1>8, <1>9 DEF AreWords
<1>11. OpenWord'
  BY <1>1, <1>2, <1>4, <1>6, <1>9 DEF OpenWord
<1>12. WordsSoFar'
  <2>1. used' # 0
    BY <1>5, <1>6
  <2>. QED  BY <2>1, <1>2, <1>4, <1>10 DEF WordsSoFar
<1>13. AllWordsInserted'
  BY <1>2 DEF AllWordsInserted
<1>. QED  BY <1>2, <1>3, <1>4, <1>6, <1>11, <1>12, <1>13 DEF TokenizerInv

\* A space ends the word in the buffer, which goes to the table.
LEMMA EndStep ==
    ASSUME TokenizerInv, NEW c \in Char, EndWord(c)
    PROVE  TokenizerInv'
<1>1. PICK t, u : t = Scanned /\ u = Append(t, c)
  OBVIOUS
<1>2. /\ t \in Seq(Char) /\ Scanned' = u /\ Blocks' /\ pc \in Reading /\ pc' \in {"read", "scan"}
  BY <1>1, ScanStep DEF EndWord
<1>3. /\ Letters(Append(inserted, LowerWord)) = LettersIn(t)
      /\ Cardinality(Starts(t)) = Len(inserted) + (IF Open(t) THEN 1 ELSE 0)
      /\ inserted \in Seq(Seq(Char)) /\ Len(inserted) \in Nat
  BY <1>1, <1>2, SoFar
<1>4. /\ BufferTerminated /\ length >= 2 /\ OpenWord
      /\ c \in Space /\ sb_get_lower_word(LowerWord) /\ word_state = "wIncomplete"
      /\ word_state' = "wEmpty" /\ inserted' = Append(inserted, LowerWord)
  BY <1>2 DEF TokenizerInv, Reading, EndWord, InsertWord
<1>5. Open(t) /\ c \notin InWord
  BY <1>1, <1>4 DEF OpenWord, InWord
<1>6. Starts(u) = Starts(t) /\ LettersIn(u) = LettersIn(t) /\ ~Open(u)
  <2>1. NoLetterMore(t, u) /\ Open(u) = (c \in InWord \/ (c \notin Space /\ Open(t)))
    BY <1>1, <1>2, <1>5, OtherLetters, NextStarts
  <2>. QED  BY <2>1, <1>4, <1>5 DEF NoLetterMore
<1>7. BufferTerminated' /\ length' >= 2 /\ used' = 0
  BY <1>4, TakeTerminated DEF sb_get_lower_word
<1>8. LowerWord \in Seq(Char)
  BY <1>4, WordTyped
<1>9. inserted' \in Seq(Seq(Char)) /\ Len(inserted') = Len(inserted) + 1
  BY <1>3, <1>4, <1>8
<1>10. AreWords(inserted', u)
  BY <1>3, <1>4, <1>5, <1>6, <1>9 DEF AreWords
<1>11. OpenWord'
  BY <1>2, <1>4, <1>6, <1>7 DEF OpenWord
<1>12. WordsSoFar'
  BY <1>2, <1>4, <1>7, <1>10 DEF WordsSoFar
<1>13. AllWordsInserted'
  BY <1>2 DEF AllWordsInserted
<1>. QED  BY <1>2, <1>7, <1>9, <1>11, <1>12, <1>13 DEF TokenizerInv

\* A character that is passed over neither begins a word nor ends one.
LEMMA SkipStep ==
    ASSUME TokenizerInv, NEW c \in Char, SkipChar(c)
    PROVE  TokenizerInv'
<1>1. PICK t, u : t = Scanned /\ u = Append(t, c)
  OBVIOUS
<1>2. /\ t \in Seq(Char) /\ Scanned' = u /\ Blocks' /\ pc \in Reading /\ pc' \in {"read", "scan"}
  BY <1>1, ScanStep DEF SkipChar
<1>3. /\ OpenWord /\ WordsSoFar /\ (c \in Other \/ (c \in Space /\ word_state = "wEmpty"))
      /\ UNCHANGED <<data, used, length, word_state, inserted>>
  BY <1>2 DEF TokenizerInv, Reading, SkipChar, buffer
<1>4. c \notin InWord /\ (c \in Other => c \notin Space)
  BY <1>3, CharAssumption DEF InWord
<1>5. Open(u) = Open(t)
  <2>1. Open(u) = (c \in InWord \/ (c \notin Space /\ Open(t)))
    BY <1>1, <1>2, NextStarts
  <2>2. word_state = IF Open(t) THEN "wIncomplete" ELSE "wEmpty"
    BY <1>1, <1>3 DEF OpenWord
  <2>3. Open(u) \in BOOLEAN /\ Open(t) \in BOOLEAN
    BY DEF Open
  <2>. QED  BY <2>1, <2>2, <2>3, <1>3, <1>4
<1>6. /\ Starts(u) = Starts(t) /\ LettersIn(u) = LettersIn(t)
      /\ \A n : LettersOf(u, n) = LettersOf(t, n)
  <2>1. NoLetterMore(t, u)
    BY <1>1, <1>2, <1>4, OtherLetters
  <2>. QED  BY <2>1 DEF NoLetterMore
<1>7. OpenWord'
  BY <1>1, <1>2, <1>3, <1>5, <1>6 DEF OpenWord
<1>8. LowerWord' = LowerWord
  BY <1>3 DEF LowerWord
<1>9. WordsSoFar'
  BY <1>1, <1>2, <1>3, <1>6, <1>8 DEF WordsSoFar, AreWords, Reading
<1>10. AllWordsInserted'
  BY <1>2 DEF AllWordsInserted
<1>11. BufferTerminated' /\ length' >= 2 /\ inserted' \in Seq(Seq(Char))
  BY <1>3 DEF TokenizerInv, BufferTerminated
<1>. QED  BY <1>2, <1>7, <1>9, <1>10, <1>11 DEF TokenizerInv

\* A step that looks at no character, whatever is read.
LEMMA QuietStep ==
    ASSUME TokenizerInv, UNCHANGED <<data, used, length, word_state, inserted>>,
           Blocks', Scanned' = Scanned,
           pc' \in {"read", "scan", "rest"} => pc \in {"read", "scan", "rest"},
           pc' = "success" => pc = "success" /\ content' = content
    PROVE  TokenizerInv'
<1>1. LowerWord' = LowerWord /\ (BufferTerminated' <=> BufferTerminated)
  BY DEF LowerWord, BufferTerminated
<1>2. OpenWord' <=> OpenWord
  BY DEF OpenWord
<1>3. WordsSoFar'
  BY <1>1 DEF TokenizerInv, WordsSoFar
<1>4. AllWordsInserted'
  BY DEF TokenizerInv, AllWordsInserted
<1>. QED  BY <1>1, <1>2, <1>3, <1>4 DEF TokenizerInv

LEMMA ReadStep ==
    ASSUME TokenizerInv, ReadBlock
    PROVE  TokenizerInv'
<1>1. PICK n \in 1..BlockSize : \E block \in [1..n -> Char] :
        content' = content \o block /\ inter_buf' = block
  BY DEF ReadBlock
<1>2. PICK block \in [1..n -> Char] : content' = content \o block /\ inter_buf' = block
  BY <1>1
<1>3. /\ pc = "read" /\ pc' = "scan" /\ Blocks
      /\ UNCHANGED <<data, used, length, word_state, inserted>>
  BY DEF ReadBlock, buffer, TokenizerInv
<1>4. /\ content \in Seq(Char) /\ Len(content) \in Nat /\ inter_buf = <<>> /\ Scanned = content
  BY <1>3, ScannedTyped DEF Blocks
<1>5. n \in Nat /\ n >= 1
  BY CharAssumption
<1>6. block \in Seq(Char) /\ Len(block) = n
  BY <1>5
<1>7. /\ content' \in Seq(Char) /\ Len(content') = Len(content) + n
      /\ \A k \in 1..n : content'[Len(content) + k] = block[k]
      /\ \A k \in 1..Len(content) : content'[k] = content[k]
  <2>1. PICK s, b : s = content /\ b = block
    OBVIOUS
  <2>2. s \in Seq(Char) /\ b \in Seq(Char) /\ Len(b) = n
    BY <2>1, <1>4, <1>6
  <2>3. /\ s \o b \in Seq(Char) /\ Len(s \o b) = Len(s) + Len(b)
        /\ \A k \in 1..Len(b) : (s \o b)[Len(s) + k] = b[k]
        /\ \A k \in 1..Len(s) : (s \o b)[k] = s[k]
    BY ONLY <2>2
  <2>. QED  BY <2>1, <2>2, <2>3, <1>2
<1>8. Blocks'
  <2>1. Len(content') - Len(inter_buf') = Len(content) /\ Len(inter_buf') <= Len(content')
    BY <1>2, <1>4, <1>5, <1>6, <1>7
  <2>2. inter_buf' # <<>>
    BY <1>2, <1>5, <1>6
  <2>. QED  BY <2>1, <2>2, <1>2, <1>3, <1>6, <1>7 DEF Blocks
<1>9. Scanned' = Scanned
  <2>1. Len(content') - Len(inter_buf') = Len(content)
    BY <1>2, <1>4, <1>5, <1>6, <1>7
  <2>2. /\ Scanned' \in Seq(Char) /\ Len(Scanned') = Len(content)
        /\ \A k \in 1..Len(content) : Scanned'[k] = content'[k]
    <3>1. Blocks' => ScannedPrefix'
      BY ScannedIsPrefix, PTL
    <3>. QED  BY <3>1, <2>1, <1>8 DEF ScannedPrefix
  <2>3. Scanned' = [k \in 1..Len(content) |-> Scanned'[k]] /\ content = [k \in 1..Len(content) |-> content[k]]
    BY <2>2, <1>4
  <2>4. \A k \in 1..Len(content) : Scanned'[k] = content[k]
    BY <2>2, <1>7
  <2>. QED  BY <2>3, <2>4, <1>4
<1>. QED  BY <1>3, <1>8, <1>9, QuietStep

LEMMA FinishStep ==
    ASSUME TokenizerInv, FinishFile
    PROVE  TokenizerInv'
<1>1. /\ pc = "rest" /\ pc' = "success" /\ content' = content /\ inter_buf' = inter_buf
      /\ Blocks /\ BufferTerminated /\ length >= 2 /\ OpenWord /\ WordsSoFar
      /\ inserted \in Seq(Seq(Char))
  BY DEF FinishFile, TokenizerInv
<1>2. Blocks' /\ Scanned = content
  BY <1>1, ScannedTyped DEF Blocks
<1>3. LowerWord \in Seq(Char)
  BY <1>1, WordTyped
<1>4. /\ BufferTerminated' /\ length' >= 2 /\ used' = 0
      /\ inserted' \in Seq(Seq(Char)) /\ AreWords(inserted', content)
  <2>1. CASE word_state = "wIncomplete"
    <3>1. sb_get_lower_word(LowerWord) /\ inserted' = Append(inserted, LowerWord)
      BY <2>1 DEF FinishFile, InsertWord
    <3>2. BufferTerminated' /\ length' >= 2 /\ used' = 0
      BY <3>1, <1>1, TakeTerminated DEF sb_get_lower_word
    <3>3. AreWords(inserted', content)
      BY <2>1, <3>1, <1>1, <1>2 DEF WordsSoFar
    <3>4. inserted' \in Seq(Seq(Char))
      BY <3>1, <1>1, <1>3
    <3>. QED  BY <3>2, <3>3, <3>4
  <2>2. CASE word_state # "wIncomplete"
    <3>1. UNCHANGED <<data, used, length, inserted>>
      BY <2>2 DEF FinishFile, buffer
    <3>2. used = 0 /\ AreWords(inserted, content)
      BY <2>2, <1>1, <1>2 DEF WordsSoFar, OpenWord
    <3>. QED  BY <3>1, <3>2, <1>1 DEF BufferTerminated
  <2>. QED  BY <2>1, <2>2
<1>5. AllWordsInserted'
  BY <1>1, <1>4 DEF AllWordsInserted
<1>. QED  BY <1>1, <1>2, <1>4, <1>5 DEF TokenizerInv, WordsSoFar

\* A file begins with an empty buffer, the first and the next one.
Begins ==
    /\ content = <<>> /\ inter_buf = <<>> /\ inserted = <<>> /\ word_state = "wEmpty"
    /\ used = 0 /\ pc = "read" /\ BufferTerminated /\ length >= 2

LEMMA BeginStep == Begins => TokenizerInv
<1>. SUFFICES ASSUME Begins PROVE TokenizerInv
  OBVIOUS
<1>. USE DEF Begins
<1>1. <<>> \in Seq(Char) /\ <<>> \in Seq(Seq(Char)) /\ Len(<<>>) = 0
  OBVIOUS
<1>2. Blocks
  BY <1>1 DEF Blocks
<1>3. Scanned = <<>>
  BY <1>2, ScannedTyped
<1>4. OpenWord /\ WordsSoFar /\ AllWordsInserted
  BY <1>3, EmptyText DEF OpenWord, WordsSoFar, AllWordsInserted
<1>. QED  BY <1>1, <1>2, <1>4 DEF TokenizerInv

LEMMA TokenizerStep == TokenizerInv /\ [Next]_vars => TokenizerInv'
<1>. SUFFICES ASSUME TokenizerInv, [Next]_vars PROVE TokenizerInv'
  OBVIOUS
<1>1. ASSUME NEW c \in Char, AppendChar(c) \/ EndWord(c) \/ SkipChar(c) PROVE TokenizerInv'
  BY <1>1, AppendStep, EndStep, SkipStep
<1>2. CASE ReadBlock
  BY <1>2, ReadStep
<1>3. CASE FinishFile
  BY <1>3, FinishStep
<1>4. CASE NextFile
  <2>1. /\ content' = <<>> /\ inter_buf' = inter_buf /\ inserted' = <<>> /\ word_state' = "wEmpty"
        /\ UNCHANGED <<data, used, length>> /\ pc' = "read" /\ pc = "success"
    BY <1>4 DEF NextFile, buffer
  <2>2. inter_buf = <<>> /\ used = 0 /\ BufferTerminated /\ length >= 2
    BY <2>1 DEF TokenizerInv, Blocks, AllWordsInserted
  <2>3. BufferTerminated'
    BY <2>1, <2>2 DEF BufferTerminated
  <2>4. Begins' => TokenizerInv'
    BY BeginStep, PTL
  <2>. QED  BY <2>1, <2>2, <2>3, <2>4 DEF Begins
<1>5. CASE ReadNothing \/ Fail \/ UNCHANGED vars
  <2>1. /\ UNCHANGED <<data, used, length, word_state, inserted, content, inter_buf>>
        /\ \/ pc = "read" /\ pc' = "rest"
           \/ pc' = "failed"
           \/ pc' = pc
    BY <1>5 DEF ReadNothing, Fail, vars, buffer
  <2>2. Blocks' /\ Scanned' = Scanned
    BY <2>1 DEF TokenizerInv, Blocks, Scanned
  <2>. QED  BY <2>1, <2>2, QuietStep
<1>. QED  BY <1>1, <1>2, <1>3, <1>4, <1>5 DEF Next, Over

\* The words of a file are split and put together again wherever read ends its
\* blocks, over any number of files in one buffer (tokenize.c:12-64).
THEOREM TokenizerCorrect == Spec => []TokenizerInv
<1>1. Init => TokenizerInv
  <2>. SUFFICES ASSUME Init PROVE TokenizerInv
    OBVIOUS
  <2>1. BufferTerminated /\ used = 0 /\ length >= 2
    BY CreateTerminated, BufferAssumption DEF Init, sb_create
  <2>. QED  BY <2>1, BeginStep DEF Init, Begins
<1>. QED  BY <1>1, TokenizerStep, PTL DEF Spec

\* At every character the words so far are those of the text so far.
THEOREM WordsKept == Spec => []WordsSoFar
<1>1. TokenizerInv => WordsSoFar
  BY DEF TokenizerInv
<1>. QED  BY <1>1, TokenizerCorrect, PTL

\* When tokenize returns, the words of what was read are in the table, and the
\* buffer is ready for the next file.
THEOREM WordsComplete == Spec => []AllWordsInserted
<1>1. TokenizerInv => AllWordsInserted
  BY DEF TokenizerInv
<1>. QED  BY <1>1, TokenizerCorrect, PTL
=============================================================================
