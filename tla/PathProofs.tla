----------------------------- MODULE PathProofs ------------------------------
(***************************************************************************)
(* The path that generateFilePath makes is right for every directory and   *)
(* every name, whatever the length the buffer begins with and whichever    *)
(* of the calls makes it grow, and no call leaves the block; a suffix is   *)
(* compared with the end of the whole path.  The buffer itself keeps the   *)
(* text of any sequence of calls.                                          *)
(***************************************************************************)
EXTENDS FilePath, TLAPS

\* The buffer has the string, its NUL, and a length that realloc has given it.
Holds(str) ==
    /\ used = Len(str)
    /\ length \in Nat \ {0}
    /\ DOMAIN data = 0..(length - 1)
    /\ used < length
    /\ data[used] = NUL
    /\ \A k \in 0..(used - 1) : data[k] = str[k + 1]
    /\ length <= 2 * Larger(InitLength, MaxText + 1)

\* Whatever the buffer holds, it is terminated within its block.
LEMMA HoldsTerminated ==
    ASSUME NEW str, Holds(str)
    PROVE  BufferTerminated
  BY DEF Holds, BufferTerminated

LEMMA InitHolds == sb_initk => Holds(<<>>)
<1> SUFFICES ASSUME sb_initk PROVE Holds(<<>>)
  OBVIOUS
<1>1. length \in Nat \ {0} /\ used = 0 /\ 0 \in 0..(length - 1) /\ MaxText + 1 \in Nat
  BY PathBufferAssumption DEF sb_initk
<1>2. DOMAIN data = 0..(length - 1) /\ data[0] = NUL
  BY <1>1 DEF sb_initk, Malloc, Write
<1>3. length <= 2 * Larger(InitLength, MaxText + 1)
  BY <1>1, PathBufferAssumption DEF sb_initk, Larger
<1> QED
  BY <1>1, <1>2, <1>3 DEF Holds

\* A write inside of the block changes one byte.
LEMMA WriteWithin ==
    ASSUME NEW block, NEW at \in DOMAIN block, NEW byte
    PROVE  /\ DOMAIN Write(block, at, byte) = DOMAIN block
           /\ Write(block, at, byte)[at] = byte
           /\ \A k \in DOMAIN block : k # at => Write(block, at, byte)[k] = block[k]
  BY DEF Write

\* The text before a byte that is written stays.
LEMMA WriteBehind ==
    ASSUME NEW block, NEW n \in Nat, NEW at \in Nat, at < n, DOMAIN block = 0..(n - 1), NEW byte
    PROVE  /\ DOMAIN Write(block, at, byte) = 0..(n - 1)
           /\ Write(block, at, byte)[at] = byte
           /\ \A k \in 0..(at - 1) : Write(block, at, byte)[k] = block[k]
<1>1. at \in DOMAIN block
  OBVIOUS
<1>2. \A k \in 0..(at - 1) : k \in DOMAIN block
  OBVIOUS
<1>3. \A k \in 0..(at - 1) : k # at
  OBVIOUS
<1>4. DOMAIN Write(block, at, byte) = DOMAIN block /\ Write(block, at, byte)[at] = byte
  BY <1>1 DEF Write
<1>5. \A k \in 0..(at - 1) : Write(block, at, byte)[k] = block[k]
  BY <1>2, <1>3 DEF Write
<1> QED
  BY <1>4, <1>5

\* A string written inside of the block changes its own bytes.
LEMMA WriteStringWithin ==
    ASSUME NEW S, NEW block, NEW at \in Nat, NEW str \in Seq(S),
           at..(at + Len(str) - 1) \subseteq DOMAIN block
    PROVE  /\ DOMAIN WriteString(block, at, str) = DOMAIN block
           /\ \A k \in at..(at + Len(str) - 1) :
                 WriteString(block, at, str)[k] = str[k - at + 1]
           /\ \A k \in DOMAIN block \ (at..(at + Len(str) - 1)) :
                 WriteString(block, at, str)[k] = block[k]
<1> DEFINE here == at..(at + Len(str) - 1)
<1>1. DOMAIN block \cup here = DOMAIN block
  OBVIOUS
<1>2. WriteString(block, at, str) =
         [k \in DOMAIN block \cup here |-> IF k \in here THEN str[k - at + 1] ELSE block[k]]
  BY DEF WriteString
<1> HIDE DEF here
<1>3. /\ DOMAIN WriteString(block, at, str) = DOMAIN block
      /\ \A k \in DOMAIN block :
            WriteString(block, at, str)[k] = IF k \in here THEN str[k - at + 1] ELSE block[k]
  BY <1>1, <1>2
<1>4. /\ \A k \in here : WriteString(block, at, str)[k] = str[k - at + 1]
      /\ \A k \in DOMAIN block \ here : WriteString(block, at, str)[k] = block[k]
  BY <1>1, <1>3
<1> QED
  BY <1>3, <1>4 DEF here

\* The block that a call writes to: as long as length says, with the string.
LEMMA GrowKeeps ==
    ASSUME NEW S, NEW str \in Seq(S), Holds(str), NEW full \in BOOLEAN, NEW size \in Nat,
           size >= length, GrownTo(full, size)
    PROVE  /\ length' \in Nat /\ length' >= length
           /\ DOMAIN Grow(full, size) = 0..(length' - 1)
           /\ \A k \in 0..(used - 1) : Grow(full, size)[k] = str[k + 1]
<1> USE DEF Holds, GrownTo, Grow
<1>1. CASE full
  <2>1. Grow(full, size) = Realloc(data, size) /\ length' = size
    BY <1>1
  <2>2. \A k \in 0..(used - 1) : k \in 0..(size - 1) /\ k \in DOMAIN data
    OBVIOUS
  <2> QED
    BY <2>1, <2>2 DEF Realloc
<1>2. CASE ~full
  BY <1>2
<1> QED
  BY <1>1, <1>2

\* strbuf.used + 1 < strbuf.length is restored before the character is put.
LEMMA AppendHolds ==
    ASSUME NEW S, NEW str \in Seq(S), Holds(str), NEW item \in S, sb_appendk(item)
    PROVE  Holds(str \o <<item>>)'
<1> DEFINE full == used + 1 = length
           room == Grow(full, 2 * length)
           one == Write(room, used, item)
<1>1. used \in Nat /\ length \in Nat \ {0} /\ used < length /\ used = Len(str)
  BY DEF Holds
<1>2. /\ length' \in Nat /\ length' >= length /\ DOMAIN room = 0..(length' - 1)
      /\ \A k \in 0..(used - 1) : room[k] = str[k + 1]
  <2>1. GrownTo(full, 2 * length) /\ full \in BOOLEAN /\ 2 * length \in Nat /\ 2 * length >= length
    BY <1>1 DEF sb_appendk
  <2> HIDE DEF full
  <2> QED
    BY <2>1, GrowKeeps
<1>3. used' = used + 1 /\ used + 1 < length' /\ data' = Write(one, used + 1, NUL)
  BY <1>1, <1>2 DEF sb_appendk, GrownTo
<1>4. length' <= 2 * Larger(InitLength, MaxText + 1)
  BY <1>1, PathBufferAssumption DEF sb_appendk, GrownTo, Holds, Larger
<1> HIDE DEF full, room
<1>5. /\ DOMAIN one = 0..(length' - 1) /\ one[used] = item
      /\ \A k \in 0..(used - 1) : one[k] = str[k + 1]
  <2>1. used \in DOMAIN room /\ \A k \in 0..(used - 1) : k \in DOMAIN room /\ k # used
    BY <1>1, <1>2, <1>3
  <2>2. /\ DOMAIN Write(room, used, item) = DOMAIN room /\ Write(room, used, item)[used] = item
        /\ \A k \in DOMAIN room : k # used => Write(room, used, item)[k] = room[k]
    BY <2>1, WriteWithin
  <2> QED
    BY <1>2, <2>1, <2>2
<1> HIDE DEF one
<1>6. /\ DOMAIN data' = 0..(length' - 1) /\ data'[used + 1] = NUL
      /\ \A k \in 0..used : data'[k] = one[k]
  <2>1. used + 1 \in DOMAIN one /\ \A k \in 0..used : k \in DOMAIN one /\ k # used + 1
    BY <1>1, <1>2, <1>3, <1>5
  <2>2. /\ DOMAIN Write(one, used + 1, NUL) = DOMAIN one /\ Write(one, used + 1, NUL)[used + 1] = NUL
        /\ \A k \in DOMAIN one : k # used + 1 => Write(one, used + 1, NUL)[k] = one[k]
    BY <2>1, WriteWithin
  <2> QED
    BY <1>3, <1>5, <2>1, <2>2
<1>7. \A k \in 0..used : data'[k] = (str \o <<item>>)[k + 1]
  BY <1>1, <1>5, <1>6
<1>8. used' = Len(str \o <<item>>)
  BY <1>1, <1>3
<1> QED
  BY <1>1, <1>2, <1>3, <1>4, <1>6, <1>7, <1>8 DEF Holds

\* The larger of twice the length and the text with its NUL is long enough.
LEMMA ConcatHolds ==
    ASSUME NEW S, NEW str \in Seq(S), Holds(str), NEW add \in Seq(S), sb_concatk(add)
    PROVE  Holds(str \o add)'
<1> DEFINE end == used + Len(add)
           full == end >= length
           size == Larger(end + 1, 2 * length)
           room == Grow(full, size)
           whole == WriteString(room, used, add)
<1>1. /\ used \in Nat /\ length \in Nat \ {0} /\ used < length /\ used = Len(str)
      /\ Len(add) \in Nat /\ end \in Nat
  BY DEF Holds
<1>2. size \in Nat /\ size >= length /\ size > end /\ (size = end + 1 \/ size = 2 * length)
  BY <1>1 DEF Larger
<1>3. /\ length' \in Nat /\ length' >= length /\ DOMAIN room = 0..(length' - 1)
      /\ \A k \in 0..(used - 1) : room[k] = str[k + 1]
  <2>1. GrownTo(full, size) /\ full \in BOOLEAN
    BY DEF sb_concatk
  <2> HIDE DEF full, size
  <2> QED
    BY <1>2, <2>1, GrowKeeps
<1>4. used' = end /\ end < length' /\ data' = Write(whole, end, NUL) /\ end <= MaxText
  <2>1. used' = end /\ data' = Write(whole, end, NUL) /\ end <= MaxText
    BY DEF sb_concatk
  <2>2. length' = IF full THEN size ELSE length
    BY DEF sb_concatk, GrownTo
  <2> QED
    BY <1>1, <1>2, <2>1, <2>2
<1>5. length' <= 2 * Larger(InitLength, MaxText + 1)
  <2>1. length' = IF full THEN size ELSE length
    BY DEF sb_concatk, GrownTo
  <2>2. MaxText \in Nat /\ InitLength \in Nat /\ length <= 2 * Larger(InitLength, MaxText + 1)
    BY PathBufferAssumption DEF Holds
  <2>3. Larger(InitLength, MaxText + 1) \in Nat /\ Larger(InitLength, MaxText + 1) >= MaxText + 1
    BY <2>2 DEF Larger
  <2> QED
    BY <1>1, <1>2, <1>4, <2>1, <2>2, <2>3
<1> HIDE DEF full, room, size
<1>6. /\ DOMAIN whole = 0..(length' - 1)
      /\ \A k \in 0..(used - 1) : whole[k] = str[k + 1]
      /\ \A k \in used..(end - 1) : whole[k] = add[k - used + 1]
  <2>1. end \in Nat /\ end < length' /\ length' \in Nat /\ DOMAIN room = 0..(length' - 1)
    BY <1>1, <1>3, <1>4
  <2>2. end = used + Len(add) /\ whole = WriteString(room, used, add)
    OBVIOUS
  <2> HIDE DEF end, whole
  <2>3. used..(end - 1) \subseteq DOMAIN room
    BY <1>1, <2>1
  <2>4. \A k \in 0..(used - 1) : k \in DOMAIN room \ (used..(end - 1))
    BY <1>1, <2>1, <2>2
  <2>5. /\ DOMAIN whole = DOMAIN room
        /\ \A k \in used..(end - 1) : whole[k] = add[k - used + 1]
        /\ \A k \in DOMAIN room \ (used..(end - 1)) : whole[k] = room[k]
    <3>1. used..(used + Len(add) - 1) = used..(end - 1)
      BY <1>1, <2>1, <2>2
    <3>2. used..(used + Len(add) - 1) \subseteq DOMAIN room /\ used \in Nat
      BY <1>1, <2>3, <3>1
    <3>3. /\ DOMAIN WriteString(room, used, add) = DOMAIN room
          /\ \A k \in used..(used + Len(add) - 1) :
                WriteString(room, used, add)[k] = add[k - used + 1]
          /\ \A k \in DOMAIN room \ (used..(used + Len(add) - 1)) :
                WriteString(room, used, add)[k] = room[k]
      BY <3>2, WriteStringWithin
    <3> QED
      BY <2>2, <3>1, <3>3
  <2> QED
    BY <1>3, <2>1, <2>4, <2>5
<1> HIDE DEF whole
<1>7. /\ DOMAIN data' = 0..(length' - 1) /\ data'[end] = NUL
      /\ \A k \in 0..(end - 1) : data'[k] = whole[k]
  <2>0. data' = Write(whole, end, NUL)
    BY <1>4
  <2>1. end \in Nat /\ end < length' /\ length' \in Nat
    BY <1>1, <1>3, <1>4
  <2>2. DOMAIN whole = 0..(length' - 1)
    BY <1>6
  <2> HIDE DEF end
  <2> QED
    BY <2>0, <2>1, <2>2, WriteBehind
<1>8. \A k \in 0..(end - 1) : data'[k] = (str \o add)[k + 1]
  <2> SUFFICES ASSUME NEW k \in 0..(end - 1) PROVE data'[k] = (str \o add)[k + 1]
    OBVIOUS
  <2>1. CASE k < used
    BY <1>1, <1>6, <1>7, <2>1
  <2>2. CASE k >= used
    <3>1. k \in used..(end - 1) /\ (str \o add)[k + 1] = add[k + 1 - Len(str)]
      BY <1>1, <2>2
    <3> QED
      BY <1>1, <1>6, <1>7, <3>1
  <2> QED
    BY <1>1, <2>1, <2>2
<1>9. used' = Len(str \o add)
  BY <1>1, <1>4
<1> QED
  BY <1>1, <1>3, <1>4, <1>5, <1>7, <1>8, <1>9 DEF Holds

-----------------------------------------------------------------------------
(* Any sequence of calls: the bytes in use are the text of the calls.      *)

\* The buffer is usable: no call before has left its block.
Usable ==
    /\ used \in Nat
    /\ length \in Nat \ {0}
    /\ BufferTerminated

\* The characters that a call can leave or put in the text.
Bytes == Item \cup {data[k] : k \in 0..(used - 1)}

\* A usable buffer holds a text of bytes.
LEMMA TextHeld ==
    ASSUME Usable
    PROVE  /\ Holds(Text(data, used)) /\ Text(data, used) \in Seq(Bytes)
           /\ Len(Text(data, used)) = used
<1>1. used \in Nat /\ \A k \in 1..used : k - 1 \in 0..(used - 1)
  BY DEF Usable
<1>2. \A k \in 1..used : data[k - 1] \in Bytes
  BY <1>1 DEF Bytes
<1>3. Text(data, used) \in Seq(Bytes) /\ Len(Text(data, used)) = used
  BY <1>1, <1>2 DEF Text
<1>4. \A k \in 0..(used - 1) : k + 1 \in 1..used /\ (k + 1) - 1 = k
  BY <1>1
<1>5. \A k \in 0..(used - 1) : Text(data, used)[k + 1] = data[k]
  BY <1>4 DEF Text
<1> QED
  BY <1>3, <1>5 DEF Holds, Usable, BufferTerminated

\* A buffer that holds a string is usable, and the string is its text.
LEMMA HeldText ==
    ASSUME NEW S, NEW str \in Seq(S), Holds(str)
    PROVE  Usable /\ Text(data, used) = str
<1>1. Len(str) \in Nat /\ used = Len(str)
  BY DEF Holds
<1>2. \A k \in 1..used : k - 1 \in 0..(used - 1) /\ (k - 1) + 1 = k
  BY <1>1
<1>3. \A k \in 1..used : data[k - 1] = str[k]
  BY <1>2 DEF Holds
<1>4. Text(data, used) = [k \in 1..Len(str) |-> str[k]]
  BY <1>1, <1>3 DEF Text
<1>5. str = [k \in 1..Len(str) |-> str[k]]
  OBVIOUS
<1> QED
  BY <1>1, <1>4, <1>5 DEF Holds, Usable, BufferTerminated

\* The text, as a fact about the state that can be stated of the next one too.
IsText(str) == Text(data, used) = str
IsOfBytes == Text(data, used) \in Seq(Bytes) /\ Len(Text(data, used)) = used

\* The same of the state after a step.
LEMMA HeldTextAfter ==
    ASSUME NEW S, NEW str \in Seq(S)
    PROVE  Holds(str)' => Usable' /\ Text(data', used') = str
<1>1. Holds(str) => Usable /\ IsText(str)
  BY HeldText DEF IsText
<1>2. Holds(str)' => Usable' /\ IsText(str)'
  BY <1>1, PTL
<1> QED
  BY <1>2 DEF IsText

LEMMA TextHeldAfter ==
    Usable' => /\ Text(data', used') \in Seq(Bytes') /\ Len(Text(data', used')) = used'
<1>1. Usable => IsOfBytes
  BY TextHeld DEF IsOfBytes
<1>2. Usable' => IsOfBytes'
  BY <1>1, PTL
<1> QED
  BY <1>2 DEF IsOfBytes

\* The last character goes, and the NUL takes its place.
LEMMA RemoveHolds ==
    ASSUME NEW S, NEW str \in Seq(S), Holds(str), sb_removek
    PROVE  str # <<>> /\ Holds(SubSeq(str, 1, Len(str) - 1))'
<1>1. /\ used \in Nat /\ length \in Nat \ {0} /\ used < length /\ used = Len(str) /\ used > 0
      /\ DOMAIN data = 0..(length - 1)
      /\ \A k \in 0..(used - 1) : data[k] = str[k + 1]
  BY DEF Holds, sb_removek
<1>2. used' = used - 1 /\ length' = length /\ data' = Write(data, used - 1, NUL)
  BY DEF sb_removek
<1>3. PICK end \in Nat : end = used - 1
  BY <1>1
<1>4. end < length /\ end + 1 = used
  BY <1>1, <1>3
<1>5. /\ DOMAIN data' = 0..(length - 1) /\ data'[end] = NUL
      /\ \A k \in 0..(end - 1) : data'[k] = data[k]
  BY <1>1, <1>2, <1>3, <1>4, WriteBehind
<1>6. /\ Len(SubSeq(str, 1, Len(str) - 1)) = end
      /\ \A k \in 1..end : SubSeq(str, 1, Len(str) - 1)[k] = str[k]
  BY <1>1, <1>3, <1>4
<1>7. \A k \in 0..(end - 1) : k \in 0..(used - 1) /\ k + 1 \in 1..end
  BY <1>3, <1>4
<1>8. \A k \in 0..(end - 1) : data'[k] = SubSeq(str, 1, Len(str) - 1)[k + 1]
  BY <1>1, <1>5, <1>6, <1>7
<1>9. length' <= 2 * Larger(InitLength, MaxText + 1)
  BY <1>2 DEF Holds
<1>10. str # <<>>
  BY <1>1
<1> QED
  BY <1>1, <1>2, <1>3, <1>4, <1>5, <1>6, <1>8, <1>9, <1>10 DEF Holds

\* The block is kept, and is empty up to the first byte.
LEMMA ResetHolds ==
    ASSUME NEW str, Holds(str), sb_resetk
    PROVE  Holds(<<>>)'
<1>1. /\ length \in Nat \ {0} /\ 0 \in DOMAIN data
      /\ DOMAIN data = 0..(length - 1)
  BY DEF Holds
<1>2. used' = 0 /\ length' = length /\ data' = Write(data, 0, NUL)
  BY DEF sb_resetk
<1>3. DOMAIN data' = 0..(length' - 1) /\ data'[0] = NUL
  BY <1>1, <1>2 DEF Write
<1> QED
  BY <1>1, <1>2, <1>3 DEF Holds

\* What sb_insertk makes of a text that is longer than index.
Inserted(str, index, item) ==
    SubSeq(str, 1, index) \o <<item>> \o SubSeq(str, index + 1, Len(str))

\* The characters of such a text, one by one.
LEMMA InsertedText ==
    ASSUME NEW S, NEW str \in Seq(S), NEW item \in S, NEW index \in 0..Len(str)
    PROVE  /\ Inserted(str, index, item) \in Seq(S)
           /\ Len(Inserted(str, index, item)) = Len(str) + 1
           /\ \A k \in 1..index : Inserted(str, index, item)[k] = str[k]
           /\ Inserted(str, index, item)[index + 1] = item
           /\ \A k \in (index + 2)..(Len(str) + 1) :
                 Inserted(str, index, item)[k] = str[k - 1]
<1>1. Len(str) \in Nat /\ index \in Nat /\ index <= Len(str)
  OBVIOUS
<1>2. PICK n \in Nat : n = Len(str)
  BY <1>1
<1>3. PICK before : before = SubSeq(str, 1, index)
  OBVIOUS
<1>4. PICK after : after = SubSeq(str, index + 1, Len(str))
  OBVIOUS
<1>5. before \in Seq(S) /\ Len(before) = index /\ \A k \in 1..index : before[k] = str[k]
  BY <1>1, <1>3
<1>6. /\ after \in Seq(S) /\ Len(after) = n - index
      /\ \A k \in 1..(n - index) : after[k] = str[index + k]
  BY <1>1, <1>2, <1>4
<1>7. PICK begin : begin = before \o <<item>>
  OBVIOUS
<1>8. /\ begin \in Seq(S) /\ Len(begin) = index + 1 /\ begin[index + 1] = item
      /\ \A k \in 1..index : begin[k] = str[k]
  BY <1>1, <1>5, <1>7
<1>9. PICK new : new = begin \o after
  OBVIOUS
<1>10. /\ new \in Seq(S) /\ Len(new) = n + 1
       /\ \A k \in 1..(index + 1) : new[k] = begin[k]
       /\ \A k \in (index + 2)..(n + 1) : new[k] = after[k - (index + 1)]
  <2>1. /\ begin \o after \in Seq(S) /\ Len(begin \o after) = Len(begin) + Len(after)
        /\ \A k \in 1..Len(begin) : (begin \o after)[k] = begin[k]
        /\ \A k \in (Len(begin) + 1)..(Len(begin) + Len(after)) :
              (begin \o after)[k] = after[k - Len(begin)]
    <3>1. begin \in Seq(S) /\ after \in Seq(S)
      BY <1>6, <1>8
    <3> QED
      BY ONLY <3>1
  <2>2. (index + 1) + (n - index) = n + 1 /\ (index + 1) + 1 = index + 2
    BY <1>1, <1>2
  <2> QED
    BY <1>6, <1>8, <1>9, <2>1, <2>2
<1>11. \A k \in (index + 2)..(n + 1) :
          k - (index + 1) \in 1..(n - index) /\ index + (k - (index + 1)) = k - 1
  BY <1>1, <1>2
<1>12. \A k \in (index + 2)..(n + 1) : new[k] = str[k - 1]
  BY <1>6, <1>10, <1>11
<1>13. new = Inserted(str, index, item)
  BY <1>3, <1>4, <1>7, <1>9 DEF Inserted
<1>14. new[index + 1] = item /\ \A k \in 1..index : new[k] = str[k]
  BY <1>1, <1>8, <1>10
<1> QED
  BY <1>2, <1>10, <1>12, <1>13, <1>14

\* The rest of the text moves over by one, and the NUL with it.
LEMMA InsertWithinHolds ==
    ASSUME NEW S, NEW str \in Seq(S), Holds(str), NEW item \in S, NEW index \in Nat,
           InsertWithin(index, item)
    PROVE  index \in 0..Len(str) /\ Holds(Inserted(str, index, item))'
<1> DEFINE full == used + 1 = length
           room == Grow(full, 2 * length)
           rest == [k \in 1..(used - index) |-> data[index + k - 1]]
           moved == <<item>> \o rest
           whole == WriteString(room, index, moved)
<1>1. /\ used \in Nat /\ length \in Nat \ {0} /\ used < length /\ used = Len(str)
      /\ index <= used /\ index \in 0..Len(str)
  BY DEF Holds, InsertWithin
<1>2. /\ length' \in Nat /\ length' >= length /\ DOMAIN room = 0..(length' - 1)
      /\ \A k \in 0..(used - 1) : room[k] = str[k + 1]
  <2>1. GrownTo(full, 2 * length) /\ full \in BOOLEAN /\ 2 * length \in Nat /\ 2 * length >= length
    BY <1>1 DEF InsertWithin
  <2> HIDE DEF full
  <2> QED
    BY <2>1, GrowKeeps
<1>3. used' = used + 1 /\ used + 1 < length' /\ data' = Write(whole, used + 1, NUL)
  BY <1>1, <1>2 DEF InsertWithin, GrownTo
<1>4. length' <= 2 * Larger(InitLength, MaxText + 1)
  BY <1>1, PathBufferAssumption DEF InsertWithin, GrownTo, Holds, Larger
<1> HIDE DEF full, room, rest, moved, whole
<1>5. PICK after \in Nat : after = used - index
  <2>1. used - index \in Nat
    BY <1>1
  <2> QED
    BY <2>1
<1>6. /\ moved \in Seq(S) /\ Len(moved) = after + 1 /\ moved[1] = item
      /\ \A k \in 2..(after + 1) : moved[k] = str[index + k - 1]
  <2>1. \A k \in 1..after : /\ index + k - 1 \in 0..(used - 1) /\ index + k \in 1..Len(str)
                             /\ (index + k - 1) + 1 = index + k
    BY <1>1, <1>5
  <2>2. \A k \in 1..after : data[index + k - 1] = str[index + k]
    BY <2>1 DEF Holds
  <2>3. \A k \in 1..after : str[index + k] \in S
    <3>1. \A k \in 1..Len(str) : str[k] \in S
      OBVIOUS
    <3> QED
      BY <2>1, <3>1
  <2>4. rest = [k \in 1..after |-> str[index + k]]
    BY <1>5, <2>2 DEF rest
  <2>5. rest \in Seq(S) /\ Len(rest) = after /\ \A k \in 1..after : rest[k] = str[index + k]
    <3>1. PICK right : right = [k \in 1..after |-> str[index + k]]
      OBVIOUS
    <3>2. right \in Seq(S) /\ Len(right) = after /\ \A k \in 1..after : right[k] = str[index + k]
      BY <2>3, <3>1
    <3> QED
      BY <2>4, <3>1, <3>2
  <2>6. \A k \in 2..(after + 1) : k - 1 \in 1..after /\ index + (k - 1) = index + k - 1
    BY <1>1, <1>5
  <2>7. moved \in Seq(S) /\ Len(moved) = after + 1 /\ moved[1] = item
        /\ \A k \in 2..(after + 1) : moved[k] = rest[k - 1]
    BY <2>5 DEF moved
  <2> QED
    BY <2>5, <2>6, <2>7
<1>7. /\ DOMAIN whole = 0..(length' - 1)
      /\ \A k \in 0..(index - 1) : whole[k] = str[k + 1]
      /\ whole[index] = item
      /\ \A k \in (index + 1)..used : whole[k] = str[k]
  <2>0. DOMAIN room = 0..(length' - 1) /\ used < length' /\ length' \in Nat
    <3>1. used + 1 < length' /\ length' \in Nat
      BY <1>2, <1>3
    <3> QED
      BY <1>1, <1>2, <3>1
  <2>1. index + Len(moved) - 1 = used /\ index..used \subseteq DOMAIN room
    <3>1. Len(moved) = after + 1
      BY <1>6
    <3>2. index + after = used /\ index + (after + 1) - 1 = used
      BY <1>1, <1>5
    <3> QED
      BY <1>1, <2>0, <3>1, <3>2
  <2>2. /\ DOMAIN whole = DOMAIN room
        /\ \A k \in index..used : whole[k] = moved[k - index + 1]
        /\ \A k \in DOMAIN room \ (index..used) : whole[k] = room[k]
    <3>1. PICK text \in Seq(S) : text = moved
      BY <1>6
    <3>2. PICK block : block = room
      OBVIOUS
    <3>3. index..(index + Len(text) - 1) = index..used
      BY <2>1, <3>1
    <3>4. index..(index + Len(text) - 1) \subseteq DOMAIN block
      BY <2>1, <3>2, <3>3
    <3>5. /\ DOMAIN WriteString(block, index, text) = DOMAIN block
          /\ \A k \in index..(index + Len(text) - 1) :
                WriteString(block, index, text)[k] = text[k - index + 1]
          /\ \A k \in DOMAIN block \ (index..(index + Len(text) - 1)) :
                WriteString(block, index, text)[k] = block[k]
      BY ONLY index \in Nat, text \in Seq(S), <3>4, WriteStringWithin
    <3>6. whole = WriteString(block, index, text)
      BY <3>1, <3>2 DEF whole
    <3> QED
      BY ONLY <3>1, <3>2, <3>3, <3>5, <3>6
  <2>4. \A k \in 0..(index - 1) : whole[k] = str[k + 1]
    <3>1. \A k \in 0..(index - 1) : k \in 0..(used - 1) /\ k \notin index..used
      BY <1>1
    <3>2. \A k \in 0..(used - 1) : k \in DOMAIN room
      <4>1. used < length' /\ used \in Nat /\ length' \in Nat
        BY <1>1, <2>0
      <4> QED
        BY <2>0, <4>1
    <3> QED
      BY <1>2, <2>2, <3>1, <3>2
  <2>5. whole[index] = item
    <3>1. index \in index..used /\ index - index + 1 = 1
      BY <1>1
    <3> QED
      BY <1>6, <2>2, <3>1
  <2>6. \A k \in (index + 1)..used : whole[k] = str[k]
    <3> SUFFICES ASSUME NEW k \in (index + 1)..used PROVE whole[k] = str[k]
      OBVIOUS
    <3>1. /\ k \in index..used /\ k - index + 1 \in 2..(after + 1)
          /\ index + (k - index + 1) - 1 = k
      BY <1>1, <1>5
    <3> QED
      BY <1>6, <2>2, <3>1
  <2> QED
    BY <1>2, <2>2, <2>4, <2>5, <2>6
<1>8. /\ DOMAIN data' = 0..(length' - 1) /\ data'[used + 1] = NUL
      /\ \A k \in 0..used : data'[k] = whole[k]
  <2>1. PICK end : end = used + 1
    OBVIOUS
  <2>2. end \in Nat /\ end < length' /\ length' \in Nat /\ 0..(end - 1) = 0..used
    BY <1>1, <1>2, <1>3, <2>1
  <2>3. DOMAIN whole = 0..(length' - 1)
    BY <1>7
  <2>4. /\ DOMAIN Write(whole, end, NUL) = 0..(length' - 1)
        /\ Write(whole, end, NUL)[end] = NUL
        /\ \A k \in 0..(end - 1) : Write(whole, end, NUL)[k] = whole[k]
    BY <2>2, <2>3, WriteBehind
  <2> QED
    BY <1>3, <2>1, <2>2, <2>4
<1>9. PICK new : new = Inserted(str, index, item)
  OBVIOUS
<1>10. /\ Len(new) = used + 1 /\ new[index + 1] = item
       /\ \A k \in 1..index : new[k] = str[k]
       /\ \A k \in (index + 2)..(used + 1) : new[k] = str[k - 1]
  <2>1. /\ Len(Inserted(str, index, item)) = Len(str) + 1
        /\ \A k \in 1..index : Inserted(str, index, item)[k] = str[k]
        /\ Inserted(str, index, item)[index + 1] = item
        /\ \A k \in (index + 2)..(Len(str) + 1) :
              Inserted(str, index, item)[k] = str[k - 1]
    <3>1. index \in 0..Len(str)
      BY <1>1
    <3> QED
      BY <3>1, InsertedText
  <2> QED
    BY <1>1, <1>9, <2>1
<1>11. \A k \in 0..used : data'[k] = new[k + 1]
  <2> SUFFICES ASSUME NEW k \in 0..used PROVE data'[k] = new[k + 1]
    OBVIOUS
  <2>1. CASE k < index
    BY <1>1, <1>7, <1>8, <1>10, <2>1
  <2>2. CASE k = index
    BY <1>1, <1>7, <1>8, <1>10, <2>2
  <2>3. CASE k > index
    <3>1. k \in (index + 1)..used /\ k + 1 \in (index + 2)..(used + 1) /\ (k + 1) - 1 = k
      BY <1>1, <2>3
    <3> QED
      BY <1>7, <1>8, <1>10, <3>1
  <2> QED
    BY <1>1, <2>1, <2>2, <2>3
<1>12. Holds(new)'
  BY <1>1, <1>2, <1>3, <1>4, <1>8, <1>10, <1>11 DEF Holds
<1> QED
  BY <1>1, <1>9, <1>12

\* The text is as long as the insertion needs, and begins as before.
LEMMA InsertBeyondHolds ==
    ASSUME NEW S, NEW str \in Seq(S), Holds(str), NEW item, NEW index \in Nat,
           InsertBeyond(index, item)
    PROVE  /\ Len(str) < index /\ index + 1 <= MaxText
           /\ used' = index + 1 /\ length' \in Nat \ {0} /\ BufferTerminated'
           /\ \A k \in 0..(Len(str) - 1) : data'[k] = str[k + 1]
           /\ data'[index] = item
<1> DEFINE far == index + 1 >= 2 * length
           full == index + 1 >= length
           size == IF far THEN index + 2 ELSE 2 * length
           room == Grow(full, size)
           one == Write(room, index, item)
<1>1. /\ used \in Nat /\ length \in Nat \ {0} /\ used < length /\ used = Len(str)
      /\ used < index /\ index + 1 <= MaxText /\ MaxText \in Nat /\ InitLength \in Nat
      /\ length <= 2 * Larger(InitLength, MaxText + 1)
  BY PathBufferAssumption DEF Holds, InsertBeyond
<1>2. /\ GrownTo(full, size) /\ full \in BOOLEAN /\ size \in Nat /\ size >= length
      /\ index + 1 < size /\ (size = index + 2 \/ size = 2 * length)
      /\ used' = index + 1 /\ data' = Write(one, index + 1, NUL)
  BY <1>1 DEF InsertBeyond
<1>3. length' = IF full THEN size ELSE length
  BY <1>2 DEF GrownTo
<1>4. index + 1 < length' /\ length' <= 2 * Larger(InitLength, MaxText + 1)
  <2>1. Larger(InitLength, MaxText + 1) \in Nat /\ Larger(InitLength, MaxText + 1) >= MaxText + 1
    BY <1>1 DEF Larger
  <2> HIDE DEF size, far
  <2> QED
    BY <1>1, <1>2, <1>3, <2>1
<1> HIDE DEF far, full, size
<1>5. /\ length' \in Nat /\ DOMAIN room = 0..(length' - 1)
      /\ \A k \in 0..(used - 1) : room[k] = str[k + 1]
  BY <1>2, GrowKeeps
<1> HIDE DEF room
<1>6. /\ DOMAIN one = 0..(length' - 1) /\ one[index] = item
      /\ \A k \in 0..(index - 1) : one[k] = room[k]
  <2>1. PICK n \in Nat : n = length' /\ index < n /\ DOMAIN room = 0..(n - 1)
    <3>1. index < length'
      BY <1>4, <1>5
    <3> QED
      BY <1>5, <3>1
  <2>2. /\ DOMAIN Write(room, index, item) = 0..(n - 1)
        /\ Write(room, index, item)[index] = item
        /\ \A k \in 0..(index - 1) : Write(room, index, item)[k] = room[k]
    BY <2>1, WriteBehind
  <2> QED
    BY <2>1, <2>2
<1> HIDE DEF one
<1>7. /\ DOMAIN data' = 0..(length' - 1) /\ data'[index + 1] = NUL
      /\ \A k \in 0..index : data'[k] = one[k]
  <2>1. PICK end \in Nat : end = index + 1
    OBVIOUS
  <2>2. end < length' /\ length' \in Nat /\ 0..(end - 1) = 0..index
    BY <1>4, <1>5, <2>1
  <2> QED
    BY <1>2, <1>6, <2>1, <2>2, WriteBehind
<1>8. \A k \in 0..(used - 1) : k \in 0..(index - 1) /\ k \in 0..index
  BY <1>1
<1>9. \A k \in 0..(Len(str) - 1) : data'[k] = str[k + 1]
  BY <1>1, <1>5, <1>6, <1>7, <1>8
<1>10. BufferTerminated'
  BY <1>1, <1>2, <1>4, <1>7 DEF BufferTerminated
<1>11. length' \in Nat \ {0} /\ data'[index] = item
  <2>1. index \in 0..index
    OBVIOUS
  <2> QED
    BY <1>4, <1>5, <1>6, <1>7, <2>1
<1> QED
  BY <1>1, <1>2, <1>9, <1>10, <1>11

\* A new buffer has no text.
LEMMA NewBuffer == sb_initk => Usable /\ Abstract!Init
<1> SUFFICES ASSUME sb_initk PROVE Usable /\ Abstract!Init
  OBVIOUS
<1>1. Holds(<<>>) /\ <<>> \in Seq(Item)
  BY InitHolds
<1> QED
  BY <1>1, HeldText DEF Abstract!Init

\* Each call leaves the buffer usable and changes the text as it promises.
LEMMA CallKeepsText ==
    ASSUME Usable, BufferNext
    PROVE  Usable' /\ Abstract!Next
<1>1. PICK S : S = Bytes
  OBVIOUS
<1>2. PICK str : str = Text(data, used)
  OBVIOUS
<1>3. str \in Seq(S) /\ Holds(str) /\ Len(str) = used /\ Item \subseteq S
  BY <1>1, <1>2, TextHeld DEF Bytes
<1>4. CASE \E item \in Item : sb_appendk(item)
  <2>1. PICK item \in Item : sb_appendk(item)
    BY <1>4
  <2>2. Holds(str \o <<item>>)'
    BY <1>3, <2>1, AppendHolds
  <2>3. /\ str \o <<item>> \in Seq(S) /\ str \o <<item>> = Append(str, item)
        /\ Len(Append(str, item)) = used + 1
    BY <1>3, <2>1
  <2>4. Usable' /\ Text(data', used') = Append(str, item)
    BY <2>2, <2>3, HeldTextAfter
  <2>5. used + 1 <= MaxText
    BY <2>1 DEF sb_appendk
  <2> QED
    BY <1>2, <2>1, <2>3, <2>4, <2>5 DEF Abstract!Next, Abstract!Put
<1>5. CASE \E add \in Strings : sb_concatk(add)
  <2>1. PICK add \in Strings : sb_concatk(add)
    BY <1>5
  <2>2. add \in Seq(Item) /\ add \in Seq(S)
    BY <1>3, <2>1, PathBufferAssumption
  <2>3. Holds(str \o add)'
    BY <1>3, <2>1, <2>2, ConcatHolds
  <2>4. str \o add \in Seq(S) /\ Len(str \o add) = used + Len(add)
    BY <1>3, <2>2
  <2>5. Usable' /\ Text(data', used') = str \o add
    BY <2>3, <2>4, HeldTextAfter
  <2>6. used + Len(add) <= MaxText
    BY <2>1 DEF sb_concatk
  <2> QED
    BY <1>2, <2>1, <2>4, <2>5, <2>6 DEF Abstract!Next, Abstract!Put
<1>6. ASSUME NEW index \in 0..(MaxText - 1), NEW item \in Item, InsertWithin(index, item)
      PROVE  Usable' /\ Abstract!Insert(index, item)
  <2>1. index \in Nat /\ item \in S
    BY <1>3, <1>6
  <2>2. index \in 0..Len(str) /\ Holds(Inserted(str, index, item))'
    BY <1>3, <1>6, <2>1, InsertWithinHolds
  <2>3. Inserted(str, index, item) \in Seq(S) /\ Len(Inserted(str, index, item)) = Len(str) + 1
    <3>1. index \in 0..Len(str) /\ str \in Seq(S) /\ item \in S
      BY <1>3, <2>1, <2>2
    <3> QED
      BY <3>1, InsertedText
  <2>4. Usable' /\ Text(data', used') = Inserted(str, index, item)
    BY <2>2, <2>3, HeldTextAfter
  <2>5. used + 1 <= MaxText /\ index <= used
    BY <1>6 DEF InsertWithin
  <2> QED
    BY <1>2, <1>3, <2>3, <2>4, <2>5 DEF Abstract!Insert, Abstract!Put, Inserted
<1>7. ASSUME NEW index \in 0..(MaxText - 1), NEW item \in Item, InsertBeyond(index, item)
      PROVE  Usable' /\ Abstract!Insert(index, item)
  <2>1. index \in Nat /\ MaxText \in Nat
    BY PathBufferAssumption
  <2>2. /\ Len(str) < index /\ index + 1 <= MaxText
        /\ used' = index + 1 /\ length' \in Nat \ {0} /\ BufferTerminated'
        /\ \A k \in 0..(Len(str) - 1) : data'[k] = str[k + 1]
        /\ data'[index] = item
    BY <1>3, <1>7, <2>1, InsertBeyondHolds
  <2>3. Usable'
    BY <2>1, <2>2 DEF Usable
  <2>4. PICK new : new = Text(data', used')
    OBVIOUS
  <2>5. PICK T : T = Bytes'
    OBVIOUS
  <2>6. new \in Seq(T) /\ Len(new) = index + 1
    BY <2>2, <2>3, <2>4, <2>5, TextHeldAfter
  <2>7. \A k \in 1..(index + 1) : new[k] = data'[k - 1]
    BY <2>2, <2>4 DEF Text
  <2>8. \A k \in 1..Len(str) : new[k] = str[k]
    <3> SUFFICES ASSUME NEW k \in 1..Len(str) PROVE new[k] = str[k]
      OBVIOUS
    <3>1. k \in 1..(index + 1) /\ k - 1 \in 0..(Len(str) - 1) /\ (k - 1) + 1 = k
      BY <1>3, <2>1, <2>2
    <3> QED
      BY <2>2, <2>7, <3>1
  <2>9. SubSeq(new, 1, Len(str)) = str
    <3>1. Len(str) \in Nat /\ Len(str) < index + 1
      BY <1>3, <2>1, <2>2
    <3>2. SubSeq(new, 1, Len(str)) = [k \in 1..Len(str) |-> new[k]]
      BY <2>6, <3>1
    <3>3. str = [k \in 1..Len(str) |-> str[k]]
      BY <1>3
    <3> QED
      BY <2>8, <3>2, <3>3
  <2>10. new[index + 1] = item
    <3>1. index + 1 \in 1..(index + 1) /\ (index + 1) - 1 = index
      BY <2>1
    <3> QED
      BY <2>2, <2>7, <3>1
  <2>11. ~ index <= Len(str) /\ index < MaxText
    BY <1>3, <2>1, <2>2
  <2> QED
    BY <1>2, <2>3, <2>4, <2>6, <2>9, <2>10, <2>11 DEF Abstract!Insert
<1>8. CASE \E index \in 0..(MaxText - 1), item \in Item : sb_insertk(index, item)
  <2>1. PICK index \in 0..(MaxText - 1), item \in Item : sb_insertk(index, item)
    BY <1>8
  <2>2. Usable' /\ Abstract!Insert(index, item)
    BY <1>6, <1>7, <2>1 DEF sb_insertk
  <2> QED
    BY <2>1, <2>2 DEF Abstract!Next
<1>9. CASE sb_removek
  <2>1. str # <<>> /\ Holds(SubSeq(str, 1, Len(str) - 1))'
    BY <1>3, <1>9, RemoveHolds
  <2>2. SubSeq(str, 1, Len(str) - 1) \in Seq(S)
    BY <1>3, <2>1
  <2>3. Usable' /\ Text(data', used') = SubSeq(str, 1, Len(str) - 1)
    BY <2>1, <2>2, HeldTextAfter
  <2> QED
    BY <1>2, <2>1, <2>3 DEF Abstract!Next
<1>10. CASE sb_resetk
  <2>1. Holds(<<>>)' /\ <<>> \in Seq(S)
    BY <1>3, <1>10, ResetHolds
  <2>2. Usable' /\ Text(data', used') = <<>>
    BY <2>1, HeldTextAfter
  <2> QED
    BY <2>2 DEF Abstract!Next
<1> QED
  BY <1>4, <1>5, <1>8, <1>9, <1>10 DEF BufferNext

\* Between two calls nothing changes.
LEMMA KeptText == UNCHANGED buffer => (Usable => Usable') /\ UNCHANGED Text(data, used)
BY DEF buffer, Usable, BufferTerminated, Text

\* No sequence of calls, of whatever length, leaves the block, also not of those
\* that have no caller yet (strbuf, helperR.c:155-311).
THEOREM CallsStayInBlock == BufferSpec => []BufferTerminated
<1>1. sb_initk => Usable
  BY NewBuffer
<1>2. Usable /\ [BufferNext]_buffer => Usable'
  BY CallKeepsText, KeptText
<1>3. Usable => BufferTerminated
  BY DEF Usable
<1> QED
  BY <1>1, <1>2, <1>3, PTL DEF BufferSpec

\* The bytes in use are the text that the calls made, whichever of them made the
\* buffer grow (strbuf, helperR.c:155-311).
THEOREM BufferImplementsText == BufferSpec => ImplementsText
<1>1. sb_initk => Usable /\ Abstract!Init
  BY NewBuffer
<1>2. Usable /\ [BufferNext]_buffer => Usable' /\ [Abstract!Next]_(Text(data, used))
  BY CallKeepsText, KeptText
<1> QED
  BY <1>1, <1>2, PTL DEF BufferSpec, ImplementsText, Abstract!Spec

-----------------------------------------------------------------------------
(* The steps of generateFilePath.                                          *)

\* What the buffer holds before each call, and what is returned.
PathInv ==
    /\ directoryName \in Strings /\ currPath \in Strings
    /\ pc \in {"directory", "slash", "name", "copy", "done", "exited"}
    /\ pc = "directory" => Holds(<<>>)
    /\ pc = "slash" => Holds(directoryName)
    /\ pc = "name" => Holds(directoryName \o <<Slash>>)
    /\ pc \in {"copy", "done"} => Holds(Joined)
    /\ BufferTerminated
    /\ PathJoined

\* strlen stops at the NUL that is kept after the text: no item is one.
LEMMA LengthOfPath ==
    ASSUME NEW str \in Seq(Item), Holds(str)
    PROVE  StringLength(data) = used
<1> DEFINE Ends(n) == data[n] = NUL /\ \A k \in 0..(n - 1) : data[k] # NUL
<1>1. used \in DOMAIN data /\ used \in Nat /\ DOMAIN data \subseteq Nat
  BY DEF Holds
<1>2. \A k \in 0..(used - 1) : data[k] # NUL
  BY PathBufferAssumption DEF Holds
<1>3. Ends(used)
  BY <1>2 DEF Holds
<1>4. ASSUME NEW n \in DOMAIN data, Ends(n) PROVE n = used
  <2>1. n \in Nat /\ ~ n < used /\ ~ used < n
    BY <1>1, <1>2, <1>3, <1>4
  <2> QED
    BY <1>1, <2>1
<1>5. StringLength(data) = CHOOSE n \in DOMAIN data : Ends(n)
  BY DEF StringLength
<1> HIDE DEF Ends
<1> QED
  BY <1>1, <1>3, <1>4, <1>5

\* strcpy copies the path and its NUL to a block that is as long.
LEMMA CopyInv ==
    ASSUME PathInv, CopyPath
    PROVE  PathInv'
<1> USE DEF PathInv, CopyPath
<1>1. PICK str : str = Joined
  OBVIOUS
<1>2. str \in Seq(Item) /\ Holds(str)
  <2>1. directoryName \in Seq(Item) /\ currPath \in Seq(Item)
    BY PathBufferAssumption
  <2> QED
    BY <1>1, <2>1, FilePathAssumption DEF Joined
<1>3. StringLength(data) = used /\ used = Len(str) /\ used \in Nat
  BY <1>2, LengthOfPath DEF Holds
<1> DEFINE block == Malloc(used + 1)
           text == Text(data, used)
           whole == WriteString(block, 0, text)
<1>4. /\ text \in Seq(Item) /\ Len(text) = used
      /\ \A k \in 1..used : text[k] = str[k]
  <2>1. \A k \in 1..used : data[k - 1] = str[k]
    <3> SUFFICES ASSUME NEW k \in 1..used PROVE data[k - 1] = str[k]
      OBVIOUS
    <3>1. k - 1 \in 0..(used - 1) /\ (k - 1) + 1 = k
      BY <1>3
    <3> QED
      BY <1>2, <3>1 DEF Holds
  <2>2. \A k \in 1..used : str[k] \in Item
    BY <1>2, <1>3
  <2> QED
    BY <1>3, <2>1, <2>2 DEF Text
<1>5. DOMAIN block = 0..used
  BY <1>3 DEF Malloc
<1>6. returnString' = Write(whole, used, NUL)
  BY <1>3
<1> HIDE DEF block, text
<1>7. /\ DOMAIN whole = 0..used
      /\ \A k \in 0..(used - 1) : whole[k] = text[k + 1]
  <2>1. 0..(0 + Len(text) - 1) \subseteq DOMAIN block /\ 0 \in Nat
    BY <1>3, <1>4, <1>5
  <2>2. /\ DOMAIN WriteString(block, 0, text) = DOMAIN block
        /\ \A k \in 0..(0 + Len(text) - 1) : WriteString(block, 0, text)[k] = text[k - 0 + 1]
    BY <1>4, <2>1, WriteStringWithin
  <2> QED
    BY <1>3, <1>4, <1>5, <2>2
<1> HIDE DEF whole
<1>8. /\ DOMAIN returnString' = 0..used /\ returnString'[used] = NUL
      /\ \A k \in 0..(used - 1) : returnString'[k] = text[k + 1]
  <2>1. used \in DOMAIN whole /\ \A k \in 0..(used - 1) : k \in DOMAIN whole /\ k # used
    BY <1>3, <1>7
  <2>2. /\ DOMAIN Write(whole, used, NUL) = DOMAIN whole /\ Write(whole, used, NUL)[used] = NUL
        /\ \A k \in DOMAIN whole : k # used => Write(whole, used, NUL)[k] = whole[k]
    BY <2>1, WriteWithin
  <2> QED
    BY <1>6, <1>7, <2>1, <2>2
<1>9. Text(returnString', used) = str
  <2>1. \A k \in 1..used : returnString'[k - 1] = str[k]
    <3> SUFFICES ASSUME NEW k \in 1..used PROVE returnString'[k - 1] = str[k]
      OBVIOUS
    <3>1. k - 1 \in 0..(used - 1) /\ (k - 1) + 1 = k
      BY <1>3
    <3> QED
      BY <1>4, <1>8, <3>1
  <2>2. Text(returnString', used) = [k \in 1..used |-> str[k]]
    BY <2>1 DEF Text
  <2> QED
    BY <1>2, <1>3, <2>2
<1>10. Joined' = str
  BY <1>1 DEF Joined
<1>11. PathJoined'
  BY <1>3, <1>8, <1>9, <1>10 DEF PathJoined
<1>12. Holds(str)' /\ BufferTerminated'
  BY <1>2 DEF Holds, BufferTerminated, buffer
<1> QED
  BY <1>10, <1>11, <1>12

\* The path of an entry is its directory, a slash and its name, whichever call
\* makes the buffer grow (generateFilePath, helperR.c:134-153).
LEMMA PathInvariant == Spec => []PathInv
<1>1. Init => PathInv
  <2> SUFFICES ASSUME Init PROVE PathInv
    OBVIOUS
  <2>1. Holds(<<>>)
    BY InitHolds DEF Init
  <2> QED
    BY <2>1, HoldsTerminated, PathBufferAssumption DEF Init, PathInv, PathJoined
<1>2. PathInv /\ [Next]_vars => PathInv'
  <2> SUFFICES ASSUME PathInv, [Next]_vars PROVE PathInv'
    OBVIOUS
  <2> USE DEF PathInv, locals
  <2>1. PICK dir \in Seq(Item), name \in Seq(Item) : dir = directoryName /\ name = currPath
    BY PathBufferAssumption
  <2>2. ASSUME NEW str, Holds(str)' PROVE BufferTerminated'
    BY <2>2 DEF Holds, BufferTerminated
  <2>3. CASE AddDirectory
    <3>1. Holds(<<>> \o dir)'
      <4>1. Holds(<<>>) /\ <<>> \in Seq(Item) /\ sb_concatk(dir)
        BY <2>1, <2>3 DEF AddDirectory
      <4> QED
        BY <4>1, ConcatHolds
    <3>2. <<>> \o dir = dir
      OBVIOUS
    <3> QED
      BY <2>1, <2>2, <2>3, <3>1, <3>2 DEF AddDirectory, PathJoined
  <2>4. CASE AddSlash
    <3>1. Holds(dir \o <<Slash>>)'
      BY <2>1, <2>4, AppendHolds, FilePathAssumption DEF AddSlash
    <3> QED
      BY <2>1, <2>2, <2>4, <3>1 DEF AddSlash, PathJoined
  <2>5. CASE AddName
    <3>1. dir \o <<Slash>> \in Seq(Item)
      BY FilePathAssumption
    <3>2. Holds(dir \o <<Slash>> \o name)'
      BY <2>1, <2>5, <3>1, ConcatHolds DEF AddName
    <3> QED
      BY <2>1, <2>2, <2>5, <3>2 DEF AddName, PathJoined, Joined
  <2>6. CASE CopyPath
    BY <2>6, CopyInv
  <2>7. CASE Exit
    BY <2>7 DEF Exit, buffer, BufferTerminated, PathJoined
  <2>8. CASE UNCHANGED vars
    BY <2>8 DEF vars, buffer, Holds, BufferTerminated, PathJoined, Joined
  <2> QED
    BY <2>3, <2>4, <2>5, <2>6, <2>7, <2>8 DEF Next, Stop
<1> QED
  BY <1>1, <1>2, PTL DEF Spec

\* No call of generateFilePath leaves the block of the buffer
\* (sb_concatk and sb_appendk, helperR.c:186-248).
THEOREM PathBufferSafe == Spec => []BufferTerminated
<1>1. PathInv => BufferTerminated
  BY DEF PathInv
<1> QED
  BY <1>1, PathInvariant, PTL

\* The path returned is the directory, a slash and the name, in a block of its
\* length (helperR.c:134-153).
THEOREM PathCorrect == Spec => []PathJoined
<1>1. PathInv => PathJoined
  BY DEF PathInv
<1> QED
  BY <1>1, PathInvariant, PTL

\* generateFilePath uses the buffer by its calls alone, so its text is the one
\* that the calls make (helperR.c:134-153).
THEOREM PathImplementsText == Spec => ImplementsText
<1>1. Init => sb_initk
  BY DEF Init
<1>2. PathInv /\ [Next]_vars => [BufferNext]_buffer
  <2> SUFFICES ASSUME PathInv, [Next]_vars PROVE [BufferNext]_buffer
    OBVIOUS
  <2>1. CASE AddDirectory \/ AddName
    BY <2>1 DEF AddDirectory, AddName, PathInv, BufferNext
  <2>2. CASE AddSlash
    BY <2>2, FilePathAssumption DEF AddSlash, BufferNext
  <2>3. CASE CopyPath \/ Exit \/ UNCHANGED vars
    BY <2>3 DEF CopyPath, Exit, vars
  <2> QED
    BY <2>1, <2>2, <2>3 DEF Next, Stop
<1>3. Spec => BufferSpec
  BY <1>1, <1>2, PathInvariant, PTL DEF Spec, BufferSpec
<1> QED
  BY <1>3, BufferImplementsText

-----------------------------------------------------------------------------
(* The suffix.                                                             *)

\* Two sequences joined: the letters of the first, then those of the second.
LEMMA LettersOfJoin ==
    ASSUME NEW S, NEW a \in Seq(S), NEW b \in Seq(S), NEW n \in Nat, Len(a) = n
    PROVE  /\ a \o b \in Seq(S) /\ Len(a \o b) = n + Len(b)
           /\ \A k \in 1..n : (a \o b)[k] = a[k]
           /\ \A k \in (n + 1)..(n + Len(b)) : (a \o b)[k] = b[k - n]
<1>1. Len(a) \in Nat /\ Len(b) \in Nat
  OBVIOUS
<1>2. a \o b \in Seq(S) /\ Len(a \o b) = n + Len(b)
  OBVIOUS
<1>3. \A k \in 1..(n + Len(b)) : (a \o b)[k] = IF k <= n THEN a[k] ELSE b[k - n]
  BY <1>1
<1>4. \A k \in 1..n : k \in 1..(n + Len(b)) /\ k <= n
  BY <1>1
<1>5. \A k \in (n + 1)..(n + Len(b)) : k \in 1..(n + Len(b)) /\ ~(k <= n)
  BY <1>1
<1> QED
  BY ONLY <1>2, <1>3, <1>4, <1>5

\* Comparing from the end tells whether the rest of the name and the suffix
\* make the name (endsWithSuffix, helperR.c:119-132).
LEMMA SuffixCompared ==
    ASSUME NEW S, NEW f \in Seq(S), NEW s \in Seq(S)
    PROVE  endsWithSuffix(f, s) <=> \E n \in 0..Len(s) : s = SubSeq(s, 1, n) \o f
<1>1. Len(f) \in Nat /\ Len(s) \in Nat
  OBVIOUS
<1>2. ASSUME NEW n \in 0..Len(s)
      PROVE  /\ SubSeq(s, 1, n) \in Seq(S) /\ Len(SubSeq(s, 1, n)) = n
             /\ \A k \in 1..n : SubSeq(s, 1, n)[k] = s[k]
             /\ SubSeq(s, 1, n) \o f \in Seq(S) /\ Len(SubSeq(s, 1, n) \o f) = n + Len(f)
             /\ \A k \in 1..n : (SubSeq(s, 1, n) \o f)[k] = s[k]
             /\ \A k \in (n + 1)..(n + Len(f)) : (SubSeq(s, 1, n) \o f)[k] = f[k - n]
  <2>1. n \in Nat /\ n <= Len(s)
    BY <1>1
  <2>2. \A k \in 1..n : s[k] \in S
    BY <1>1, <2>1
  <2>3. SubSeq(s, 1, n) = [k \in 1..n |-> s[k]]
    BY <1>1, <2>1
  <2>4. [k \in 1..n |-> s[k]] \in Seq(S) /\ Len([k \in 1..n |-> s[k]]) = n
    BY <2>1, <2>2
  <2>5. PICK t : t = SubSeq(s, 1, n)
    OBVIOUS
  <2>6. t \in Seq(S) /\ Len(t) = n /\ \A k \in 1..n : t[k] = s[k]
    BY <2>3, <2>4, <2>5
  <2>7. /\ t \o f \in Seq(S) /\ Len(t \o f) = n + Len(f)
        /\ \A k \in 1..n : (t \o f)[k] = t[k]
        /\ \A k \in (n + 1)..(n + Len(f)) : (t \o f)[k] = f[k - n]
    <3>1. t \in Seq(S) /\ Len(t) = n
      BY <2>6
    <3> QED
      BY <2>1, <3>1, LettersOfJoin
  <2> QED
    BY <2>5, <2>6, <2>7
<1>3. ASSUME endsWithSuffix(f, s) PROVE \E n \in 0..Len(s) : s = SubSeq(s, 1, n) \o f
  <2>1. PICK n \in 0..Len(s) : n + Len(f) = Len(s)
    <3>1. Len(s) - Len(f) \in 0..Len(s) /\ (Len(s) - Len(f)) + Len(f) = Len(s)
      BY <1>1, <1>3 DEF endsWithSuffix
    <3> QED
      BY <3>1
  <2>0. PICK t : t = SubSeq(s, 1, n) \o f
    OBVIOUS
  <2>2. /\ t \in Seq(S) /\ Len(t) = Len(s)
        /\ \A k \in 1..n : t[k] = s[k]
        /\ \A k \in (n + 1)..Len(s) : t[k] = f[k - n]
    <3>1. /\ t \in Seq(S) /\ Len(t) = n + Len(f)
          /\ \A k \in 1..n : t[k] = s[k]
          /\ \A k \in (n + 1)..(n + Len(f)) : t[k] = f[k - n]
      BY <1>2, <2>0
    <3> QED
      BY <2>1, <3>1
  <2>3. \A k \in (n + 1)..Len(s) : f[k - n] = s[k]
    <3> SUFFICES ASSUME NEW k \in (n + 1)..Len(s) PROVE f[k - n] = s[k]
      OBVIOUS
    <3>1. /\ Len(s) - k \in 0..(Len(f) - 1)
          /\ Len(f) - (Len(s) - k) = k - n /\ Len(s) - (Len(s) - k) = k
      BY <1>1, <2>1
    <3>2. f[Len(f) - (Len(s) - k)] = s[Len(s) - (Len(s) - k)]
      BY <1>3, <3>1 DEF endsWithSuffix
    <3> QED
      BY <3>1, <3>2
  <2>4. \A k \in 1..Len(s) : t[k] = s[k]
    <3>1. \A k \in 1..Len(s) : k \in 1..n \/ k \in (n + 1)..Len(s)
      BY <1>1, <2>1
    <3> QED
      BY <2>2, <2>3, <3>1
  <2>5. t = s
    <3>1. t = [k \in 1..Len(s) |-> t[k]] /\ s = [k \in 1..Len(s) |-> s[k]]
      BY <2>2
    <3> QED
      BY <2>4, <3>1
  <2> QED
    BY <2>0, <2>5
<1>4. ASSUME NEW n \in 0..Len(s), s = SubSeq(s, 1, n) \o f PROVE endsWithSuffix(f, s)
  <2>1. /\ Len(s) = n + Len(f) /\ n \in Nat
        /\ \A k \in (n + 1)..(n + Len(f)) : s[k] = f[k - n]
    BY <1>1, <1>2, <1>4
  <2>2. ASSUME NEW i \in 0..(Len(f) - 1) PROVE f[Len(f) - i] = s[Len(s) - i]
    <3>1. Len(s) - i \in (n + 1)..(n + Len(f)) /\ (Len(s) - i) - n = Len(f) - i
      BY <1>1, <2>1
    <3> QED
      BY <2>1, <3>1
  <2> QED
    BY <1>1, <2>1, <2>2 DEF endsWithSuffix
<1> QED
  BY <1>3, <1>4

\* Which files are read: the suffix is one of the whole path
\* (endsWithSuffix, helperR.c:119-132).
THEOREM SuffixCorrect == Spec => []SuffixDecides
<1>1. PathInv => SuffixDecides
  <2> SUFFICES ASSUME PathInv, NEW fileSuffix \in Suffixes
               PROVE  endsWithSuffix(fileSuffix, Joined) <=>
                         \E n \in 0..Len(Joined) : Joined = SubSeq(Joined, 1, n) \o fileSuffix
    BY DEF SuffixDecides
  <2>1. Joined \in Seq(Item) /\ fileSuffix \in Seq(Item)
    BY PathBufferAssumption, FilePathAssumption DEF PathInv, Joined
  <2> QED
    BY <2>1, SuffixCompared
<1> QED
  BY <1>1, PathInvariant, PTL
=============================================================================
