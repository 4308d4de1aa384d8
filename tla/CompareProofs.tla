---------------------------- MODULE CompareProofs ----------------------------
(***************************************************************************)
(* Proofs about compare as a whole, for any command line and any tree: the *)
(* exit code is a success only with the complete report, it is a failure   *)
(* only for a reason, what does not fail is reported all the same, and the *)
(* last option wins.                                                       *)
(*                                                                         *)
(* The argument: every reason to examine a file, that is an argument that  *)
(* names it or a directory above it, is at any moment one copy of          *)
(* something in the queues or the repository, namely of the file itself or *)
(* of the lowest directory above it that has been found on account of that *)
(* argument.  As long as no error is remembered no step loses one, because *)
(* just one of the entries of a directory has the file below it; and a     *)
(* step that fails loses one only if the path that failed is on the way    *)
(* from the argument to the file.  When the queues are empty all the       *)
(* copies are tables.                                                      *)
(***************************************************************************)
EXTENDS Compare, FiniteSetTheorems, SequenceTheorems, TLAPS

-----------------------------------------------------------------------------
(* The inductive invariant.                                                *)

\* How often e is in the bag.
Count(e, bag) == IF e \in DOMAIN bag THEN bag[e] ELSE 0

Reading == main \in {"start", "options"}
Working == main \in {"siphon", "collect", "analyze"}
Failed == main = "EXIT_FAILURE"

\* v is the value of the last of the first n - 1 arguments with this flag.
Earlier(flag, n) == {k \in Given({flag}) : k < n}
LastSoFar(flag, default, n, v) ==
    \/ Earlier(flag, n) = {} /\ v = default
    \/ \E k \in Earlier(flag, n) : (\A m \in Earlier(flag, n) : m <= k) /\ v = argv[k].value

BagsKept ==
    /\ argv \in CommandLines /\ i \in Nat \ {0}
    /\ IsABag(directory_queue) /\ DOMAIN directory_queue \subseteq Dirs
    /\ IsABag(file_queue) /\ DOMAIN file_queue \subseteq Files
    /\ IsABag(wf_stack) /\ DOMAIN wf_stack \subseteq Files
    /\ err_flag \in BOOLEAN
    /\ suffix \in Suffixes
    /\ main \in {"start", "options", "siphon", "collect", "analyze", "clear",
                 "EXIT_SUCCESS", "EXIT_FAILURE", "refused", "died"}

\* The options read so far, and all of them from then on.
OptionsKept ==
    /\ DOMAIN threads = NumberFlags
    /\ main = "start" => i = 1
    /\ Reading =>
          /\ \A f \in NumberFlags :
                \E v \in {1} \cup {argv[k].value : k \in Given({f})} :
                    /\ LastSoFar(f, 1, i, v)
                    /\ v \in Nat /\ getDigits(v) > 0 /\ threads[f] = getDigits(v)
          /\ LastSoFar("-s", DefaultSuffix, i, suffix)
          /\ \A k \in Given({"-", "-?"}) : i <= k
    /\ Working =>
          /\ \A f \in NumberFlags :
                /\ LastValue(f, 1) \in Nat /\ getDigits(LastValue(f, 1)) > 0
                /\ threads[f] = getDigits(LastValue(f, 1))
          /\ suffix = LastValue("-s", DefaultSuffix)
    /\ ~Reading /\ main \notin {"refused", "died"} => Given({"-", "-?"}) = {}
    /\ main = "clear" => LastOptionWins

\* Nothing happens before the options are read, and no report before its time.
NothingEarly ==
    /\ Reading => ~err_flag /\ Idle
    /\ Reading \/ main = "siphon" => wf_stack = EmptyBag
    /\ Reading \/ Working => report = EmptyBag /\ lines = 0
    /\ main = "analyze" => Idle

\* There is a reason to remember an error.
Blamed ==
    \E k \in Given({"path"}) :
        argv[k].value \notin Paths \/ Below[argv[k].value] \cap Faulty # {}
TooFew == Cardinality(Copies(Wanted)) < 2

ErrorsBlamed ==
    /\ err_flag /\ Working => Blamed
    /\ (err_flag /\ main = "clear") \/ Failed => Blamed \/ TooFew

\* What is queued is named in argv, or below a directory that is.
QueuesNamed ==
    \A p \in DOMAIN directory_queue \cup DOMAIN file_queue :
        \E k \in Given({"path"}) : argv[k].value \in Paths /\ p \in Below[argv[k].value]

\* An argument that does not exist is remembered as an error.
PathsFound ==
    ~err_flag /\ ~Reading /\ main \notin {"refused", "died"} =>
        \A k \in Given({"path"}) : argv[k].value \notin Paths => main = "siphon" /\ i <= k

\* The reasons to examine f that the loop over argv has come to, and those of
\* them that no failure can take away.
Examined(f) == {k \in Reasons(f) : main = "siphon" => k < i}
SurelyExamined(f) == Examined(f) \cap SureReasons(f)

\* The directories on the way to f, those on whose part of the way nothing can
\* fail, and how many copies of such directories are still to be read.
Leading(f) == {d \in Dirs : f \in EndingIn[suffix] \cap Below[d]}
SurelyLeading(f) == {d \in Leading(f) : CannotFail(d, f)}
HeldIn(bag, G) == {c \in Copies(bag) : c[1] \in G}
Held(G) == Cardinality(HeldIn(directory_queue, G))

\* The copies of f itself, to be digested or digested.
Stock(f) == Count(f, wf_stack) + Count(f, file_queue)

\* Every reason is at most one copy of the file or of a directory on the way to
\* it; without an error just one, and just one whatever fails if nothing on the
\* way can.
Accounted(f) ==
    /\ Stock(f) + Held(Leading(f)) <= Cardinality(Examined(f))
    /\ Cardinality(SurelyExamined(f)) <= Stock(f) + Held(SurelyLeading(f))
    /\ ~err_flag => Cardinality(Examined(f)) = Stock(f) + Held(Leading(f))
ReasonsAccounted == Working => \A f \in Files : Accounted(f)

\* Without an error the report has what was asked for.
ReportWanted ==
    /\ main = "EXIT_SUCCESS" => ~err_flag
    /\ main \in {"clear", "EXIT_SUCCESS"} /\ ~err_flag =>
          /\ report = Wanted /\ Cardinality(Copies(Wanted)) >= 2
          /\ EveryPairPrinted(Cardinality(Copies(Wanted)))

\* With an error, too, it has what could not fail, and the tables are freed.
RestKept ==
    main \in {"clear", "EXIT_SUCCESS", "EXIT_FAILURE"} =>
        /\ Idle /\ RestReported
        /\ main # "clear" => wf_stack = EmptyBag

CompareInv ==
    /\ BagsKept
    /\ OptionsKept
    /\ NothingEarly
    /\ ErrorsBlamed
    /\ QueuesNamed
    /\ PathsFound
    /\ ReasonsAccounted
    /\ ReportWanted
    /\ RestKept

-----------------------------------------------------------------------------
(* Bags.                                                                   *)

LEMMA CountIs ==
    ASSUME NEW bag, IsABag(bag)
    PROVE  \A e : /\ Count(e, bag) \in Nat
                  /\ e \in DOMAIN bag <=> Count(e, bag) > 0
                  /\ e \notin DOMAIN bag <=> Count(e, bag) = 0
                  /\ e \in DOMAIN bag => Count(e, bag) = bag[e]
BY DEF Count, IsABag

\* Both bags together.
LEMMA CountOfSum ==
    ASSUME NEW a, NEW b, IsABag(a), IsABag(b)
    PROVE  /\ IsABag(a (+) b)
           /\ DOMAIN (a (+) b) = DOMAIN a \cup DOMAIN b
           /\ \A e : Count(e, a (+) b) = Count(e, a) + Count(e, b)
<1>1. a (+) b = [e \in (DOMAIN a) \cup (DOMAIN b) |-> Count(e, a) + Count(e, b)]
  BY DEF (+), Count
<1>2. DOMAIN (a (+) b) = DOMAIN a \cup DOMAIN b
  BY <1>1
<1>3. \A e \in DOMAIN a \cup DOMAIN b : Count(e, a) + Count(e, b) \in {n \in Nat : n > 0}
  BY CountIs
<1>4. IsABag(a (+) b)
  BY <1>1, <1>2, <1>3 DEF IsABag
<1>5. \A e : Count(e, a (+) b) = Count(e, a) + Count(e, b)
  <2> TAKE e
  <2>1. CASE e \in DOMAIN a \cup DOMAIN b
    BY <1>1, <1>2, <2>1 DEF Count
  <2>2. CASE e \notin DOMAIN a \cup DOMAIN b
    BY <1>2, <2>2 DEF Count
  <2> QED
    BY <2>1, <2>2
<1> QED
  BY <1>2, <1>4, <1>5

\* One bag without the other.
LEMMA CountOfRest ==
    ASSUME NEW a, NEW b, IsABag(a), IsABag(b)
    PROVE  /\ IsABag(a (-) b)
           /\ DOMAIN (a (-) b) \subseteq DOMAIN a
           /\ \A e : Count(e, a (-) b) =
                        IF Count(e, a) > Count(e, b) THEN Count(e, a) - Count(e, b) ELSE 0
<1> DEFINE rest == [e \in DOMAIN a |-> IF e \in DOMAIN b THEN a[e] - b[e] ELSE a[e]]
           left == {e \in DOMAIN a : rest[e] > 0}
<1>1. a (-) b = [e \in left |-> rest[e]]
  BY DEF (-)
<1>2. \A e \in DOMAIN a : rest[e] = Count(e, a) - Count(e, b)
  BY CountIs DEF Count
<1>3. DOMAIN (a (-) b) = left
  BY <1>1
<1> HIDE DEF rest
<1>4. \A e \in left : rest[e] \in {n \in Nat : n > 0}
  BY <1>2, CountIs
<1>5. IsABag(a (-) b)
  BY <1>1, <1>3, <1>4 DEF IsABag
<1>6. \A e : Count(e, a (-) b) = IF e \in left THEN rest[e] ELSE 0
  BY <1>1, <1>3 DEF Count
<1>7. \A e : e \in left <=> Count(e, a) > Count(e, b)
  <2> TAKE e
  <2>1. CASE e \in DOMAIN a
    BY <1>2, <2>1, CountIs
  <2>2. CASE e \notin DOMAIN a
    BY <2>2, CountIs
  <2> QED
    BY <2>1, <2>2
<1> QED
  BY <1>2, <1>3, <1>5, <1>6, <1>7

LEMMA CountOfSet ==
    ASSUME NEW S
    PROVE  /\ IsABag(SetToBag(S))
           /\ DOMAIN SetToBag(S) = S
           /\ \A e : Count(e, SetToBag(S)) = IF e \in S THEN 1 ELSE 0
BY DEF IsABag, SetToBag, Count

LEMMA CountOfEmpty ==
    /\ IsABag(EmptyBag)
    /\ DOMAIN EmptyBag = {}
    /\ \A e : Count(e, EmptyBag) = 0
BY CountOfSet DEF EmptyBag

\* The copies are numbered from 1.
LEMMA CopiesAre ==
    ASSUME NEW bag, IsABag(bag)
    PROVE  Copies(bag) = {c \in (DOMAIN bag) \X Nat : c[2] \in 1..Count(c[1], bag)}
<1>1. Copies(bag) = UNION {{e} \X (1..bag[e]) : e \in DOMAIN bag}
  BY DEF Copies, BagToSet
<1>2. \A e \in DOMAIN bag : Count(e, bag) = bag[e]
  BY CountIs
<1>3. ASSUME NEW c \in Copies(bag)
      PROVE  c \in (DOMAIN bag) \X Nat /\ c[2] \in 1..Count(c[1], bag)
  <2>1. PICK e \in DOMAIN bag : c \in {e} \X (1..bag[e])
    BY <1>1
  <2>2. c = <<c[1], c[2]>> /\ c[1] = e /\ c[2] \in 1..bag[e]
    BY <2>1
  <2>3. bag[e] \in Nat /\ 1..bag[e] \subseteq Nat
    BY CountIs
  <2> QED
    BY <1>2, <2>2, <2>3
<1>4. ASSUME NEW c \in (DOMAIN bag) \X Nat, c[2] \in 1..Count(c[1], bag)
      PROVE  c \in Copies(bag)
  <2>1. c = <<c[1], c[2]>> /\ c[1] \in DOMAIN bag
    OBVIOUS
  <2>2. c \in {c[1]} \X (1..bag[c[1]])
    BY <1>2, <1>4, <2>1
  <2> QED
    BY <1>1, <2>1, <2>2
<1> QED
  BY <1>3, <1>4

\* The elements of a set once more, and one element once less.
LEMMA SetAdded ==
    ASSUME NEW bag, IsABag(bag), NEW S
    PROVE  /\ IsABag(bag (+) SetToBag(S))
           /\ DOMAIN (bag (+) SetToBag(S)) = DOMAIN bag \cup S
           /\ \A e : Count(e, bag (+) SetToBag(S)) = Count(e, bag) + (IF e \in S THEN 1 ELSE 0)
<1>1. /\ IsABag(SetToBag(S)) /\ DOMAIN SetToBag(S) = S
      /\ \A e : Count(e, SetToBag(S)) = IF e \in S THEN 1 ELSE 0
  BY CountOfSet
<1>2. /\ IsABag(bag (+) SetToBag(S))
      /\ DOMAIN (bag (+) SetToBag(S)) = DOMAIN bag \cup DOMAIN SetToBag(S)
      /\ \A e : Count(e, bag (+) SetToBag(S)) = Count(e, bag) + Count(e, SetToBag(S))
  BY <1>1, CountOfSum
<1> QED
  BY ONLY <1>1, <1>2

LEMMA OneRemoved ==
    ASSUME NEW bag, IsABag(bag), NEW d
    PROVE  /\ IsABag(bag (-) SetToBag({d}))
           /\ DOMAIN (bag (-) SetToBag({d})) \subseteq DOMAIN bag
           /\ \A e : e # d => Count(e, bag (-) SetToBag({d})) = Count(e, bag)
           /\ d \in DOMAIN bag => Count(d, bag (-) SetToBag({d})) = Count(d, bag) - 1
<1>1. /\ IsABag(SetToBag({d}))
      /\ \A e : Count(e, SetToBag({d})) = IF e \in {d} THEN 1 ELSE 0
  BY CountOfSet
<1>2. /\ IsABag(bag (-) SetToBag({d}))
      /\ DOMAIN (bag (-) SetToBag({d})) \subseteq DOMAIN bag
      /\ \A e : Count(e, bag (-) SetToBag({d})) =
                   IF Count(e, bag) > Count(e, SetToBag({d}))
                   THEN Count(e, bag) - Count(e, SetToBag({d})) ELSE 0
  BY <1>1, CountOfRest
<1>3. \A e : Count(e, bag) \in Nat /\ (e \in DOMAIN bag => Count(e, bag) > 0)
  BY CountIs
<1>4. PICK less : less = bag (-) SetToBag({d})
  OBVIOUS
<1>5. \A e : e # d => Count(e, SetToBag({d})) = 0
  BY ONLY <1>1
<1>6. Count(d, SetToBag({d})) = 1
  BY ONLY <1>1
<1>7. \A e : Count(e, less) = IF Count(e, bag) > Count(e, SetToBag({d}))
                              THEN Count(e, bag) - Count(e, SetToBag({d})) ELSE 0
  BY ONLY <1>2, <1>4
<1>8. ASSUME NEW e, e # d PROVE Count(e, less) = Count(e, bag)
  <2>1. Count(e, bag) \in Nat
    BY <1>3
  <2>2. Count(e, less) = IF Count(e, bag) > 0 THEN Count(e, bag) - 0 ELSE 0
    BY ONLY <1>5, <1>7, <1>8
  <2> QED
    BY ONLY <2>1, <2>2
<1>9. ASSUME d \in DOMAIN bag PROVE Count(d, less) = Count(d, bag) - 1
  <2>1. Count(d, bag) \in Nat /\ Count(d, bag) > 0
    BY <1>3, <1>9
  <2>2. Count(d, less) = IF Count(d, bag) > 1 THEN Count(d, bag) - 1 ELSE 0
    BY ONLY <1>6, <1>7
  <2> QED
    BY ONLY <2>1, <2>2
<1> QED
  BY ONLY <1>2, <1>4, <1>8, <1>9

\* One copy more of each element of S, and one copy less of d: the last.
LEMMA CopiesMore ==
    ASSUME NEW bag, IsABag(bag), NEW S
    PROVE  Copies(bag (+) SetToBag(S)) = Copies(bag) \cup {<<e, Count(e, bag) + 1>> : e \in S}
<1> DEFINE more == bag (+) SetToBag(S)
<1>1. /\ IsABag(more) /\ DOMAIN more = DOMAIN bag \cup S
      /\ \A e : Count(e, more) = Count(e, bag) + (IF e \in S THEN 1 ELSE 0)
  BY SetAdded
<1>2. Copies(more) = {c \in (DOMAIN more) \X Nat : c[2] \in 1..Count(c[1], more)}
  BY <1>1, CopiesAre
<1>3. Copies(bag) = {c \in (DOMAIN bag) \X Nat : c[2] \in 1..Count(c[1], bag)}
  BY CopiesAre
<1> HIDE DEF more
<1>4. ASSUME NEW c \in Copies(more)
      PROVE  c \in Copies(bag) \cup {<<e, Count(e, bag) + 1>> : e \in S}
  <2>1. /\ c = <<c[1], c[2]>> /\ c[1] \in DOMAIN more /\ c[2] \in Nat
        /\ c[2] \in 1..Count(c[1], more)
    BY <1>2
  <2>2. Count(c[1], bag) \in Nat
    BY CountIs
  <2>3. CASE c[2] <= Count(c[1], bag)
    <3>1. c[1] \in DOMAIN bag
      BY <2>1, <2>3, CountIs
    <3> QED
      BY <1>3, <2>1, <2>2, <2>3, <3>1
  <2>4. CASE c[2] > Count(c[1], bag)
    <3>1. c[1] \in S /\ c[2] = Count(c[1], bag) + 1
      BY <1>1, <2>1, <2>2, <2>4
    <3> QED
      BY <2>1, <3>1
  <2> QED
    BY <2>1, <2>2, <2>3, <2>4
<1>5. ASSUME NEW c \in Copies(bag) PROVE c \in Copies(more)
  <2>1. /\ c \in (DOMAIN bag) \X Nat /\ c[2] \in 1..Count(c[1], bag)
        /\ Count(c[1], bag) \in Nat /\ Count(c[1], more) >= Count(c[1], bag)
    BY <1>1, <1>3, CountIs
  <2>2. Count(c[1], more) \in Nat
    BY <1>1, CountIs
  <2> QED
    BY <1>1, <1>2, <2>1, <2>2
<1>6. ASSUME NEW e \in S PROVE <<e, Count(e, bag) + 1>> \in Copies(more)
  <2>1. /\ e \in DOMAIN more /\ Count(e, bag) \in Nat
        /\ Count(e, more) = Count(e, bag) + 1
    BY <1>1, CountIs
  <2> QED
    BY <1>2, <2>1
<1> QED
  BY <1>4, <1>5, <1>6 DEF more

LEMMA CopiesLess ==
    ASSUME NEW bag, IsABag(bag), NEW d \in DOMAIN bag
    PROVE  /\ <<d, Count(d, bag)>> \in Copies(bag)
           /\ Copies(bag (-) SetToBag({d})) = Copies(bag) \ {<<d, Count(d, bag)>>}
<1> DEFINE less == bag (-) SetToBag({d})
<1>1. /\ IsABag(less) /\ DOMAIN less \subseteq DOMAIN bag
      /\ \A e : Count(e, bag) \in Nat /\ Count(e, less) \in Nat
      /\ \A e : e # d => Count(e, less) = Count(e, bag)
      /\ Count(d, bag) > 0 /\ Count(d, less) = Count(d, bag) - 1
  BY OneRemoved, CountIs
<1>2. Copies(less) = {c \in (DOMAIN less) \X Nat : c[2] \in 1..Count(c[1], less)}
  BY <1>1, CopiesAre
<1>3. Copies(bag) = {c \in (DOMAIN bag) \X Nat : c[2] \in 1..Count(c[1], bag)}
  BY CopiesAre
<1> HIDE DEF less
<1>4. <<d, Count(d, bag)>> \in Copies(bag)
  BY <1>1, <1>3
<1>5. ASSUME NEW c \in Copies(less) PROVE c \in Copies(bag) /\ c # <<d, Count(d, bag)>>
  <2>1. c = <<c[1], c[2]>> /\ c[1] \in DOMAIN bag /\ c[2] \in Nat /\ c[2] \in 1..Count(c[1], less)
    BY <1>1, <1>2
  <2>2. Count(c[1], less) <= Count(c[1], bag) /\ (c[1] = d => c[2] # Count(d, bag))
    BY <1>1, <2>1
  <2>3. c[2] \in 1..Count(c[1], bag)
    BY <1>1, <2>1, <2>2
  <2> QED
    BY <1>3, <2>1, <2>2, <2>3
<1>6. ASSUME NEW c \in Copies(bag), c # <<d, Count(d, bag)>> PROVE c \in Copies(less)
  <2>1. c = <<c[1], c[2]>> /\ c[1] \in DOMAIN bag /\ c[2] \in Nat /\ c[2] \in 1..Count(c[1], bag)
    BY <1>3
  <2>2. c[1] = d => c[2] # Count(d, bag)
    BY <1>6, <2>1
  <2>3. c[2] \in 1..Count(c[1], less)
    BY <1>1, <2>1, <2>2
  <2>4. c[1] \in DOMAIN less
    BY <1>1, <2>3, CountIs
  <2> QED
    BY <1>2, <2>1, <2>3, <2>4
<1> QED
  BY <1>4, <1>5, <1>6 DEF less

\* The copy that comes next is not there.
LEMMA NewCopy ==
    ASSUME NEW bag, IsABag(bag), NEW e
    PROVE  <<e, Count(e, bag) + 1>> \notin Copies(bag)
<1>1. Count(e, bag) \in Nat
  BY CountIs
<1>2. \A c \in Copies(bag) : c[2] \in 1..Count(c[1], bag)
  BY CopiesAre
<1> QED
  BY <1>1, <1>2

\* A bag of finitely many elements has finitely many copies.
LEMMA CopiesFinite ==
    ASSUME NEW bag, IsABag(bag), IsFiniteSet(DOMAIN bag)
    PROVE  IsFiniteSet(Copies(bag)) /\ Cardinality(Copies(bag)) \in Nat
<1> DEFINE copies == [e \in DOMAIN bag |-> {e} \X (1..bag[e])]
           T == {{e} \X (1..bag[e]) : e \in DOMAIN bag}
<1>1. copies \in Surjection(DOMAIN bag, T)
  BY DEF Surjection
<1>2. IsFiniteSet(T)
  BY <1>1, FS_Surjection
<1>3. ASSUME NEW e \in DOMAIN bag PROVE IsFiniteSet({e} \X (1..bag[e]))
  <2>1. bag[e] \in Nat
    BY CountIs
  <2>2. IsFiniteSet(1..bag[e])
    BY <2>1, FS_Interval
  <2> QED
    BY <2>2, FS_Singleton, FS_Product
<1>4. Copies(bag) = UNION T
  BY DEF Copies, BagToSet
<1>5. IsFiniteSet(UNION T)
  BY <1>2, <1>3, FS_UNION
<1> QED
  BY <1>4, <1>5, FS_CardinalityType

\* The copies of some of the elements only: as many again if none of these is
\* added, one more if one is, one less if one is removed.
LEMMA HeldFinite ==
    ASSUME NEW bag, IsABag(bag), IsFiniteSet(DOMAIN bag), NEW G
    PROVE  IsFiniteSet(HeldIn(bag, G)) /\ Cardinality(HeldIn(bag, G)) \in Nat
<1>1. IsFiniteSet(Copies(bag))
  BY CopiesFinite
<1>2. HeldIn(bag, G) \in SUBSET Copies(bag)
  BY DEF HeldIn
<1> QED
  BY <1>1, <1>2, FS_Subset, FS_CardinalityType

LEMMA HeldNoMore ==
    ASSUME NEW bag, IsABag(bag), NEW S, NEW G, S \cap G = {}
    PROVE  HeldIn(bag (+) SetToBag(S), G) = HeldIn(bag, G)
<1>1. Copies(bag (+) SetToBag(S)) = Copies(bag) \cup {<<e, Count(e, bag) + 1>> : e \in S}
  BY CopiesMore
<1> QED
  BY <1>1 DEF HeldIn

LEMMA HeldOneMore ==
    ASSUME NEW bag, IsABag(bag), IsFiniteSet(DOMAIN bag), NEW S, NEW G, NEW e, S \cap G = {e}
    PROVE  Cardinality(HeldIn(bag (+) SetToBag(S), G)) = Cardinality(HeldIn(bag, G)) + 1
<1>1. Copies(bag (+) SetToBag(S)) = Copies(bag) \cup {<<x, Count(x, bag) + 1>> : x \in S}
  BY CopiesMore
<1>2. PICK copy : copy = <<e, Count(e, bag) + 1>>
  OBVIOUS
<1>3. HeldIn(bag (+) SetToBag(S), G) = HeldIn(bag, G) \cup {copy}
  BY <1>1, <1>2 DEF HeldIn
<1>4. copy \notin HeldIn(bag, G)
  BY <1>2, NewCopy DEF HeldIn
<1>5. PICK held : held = HeldIn(bag, G) /\ IsFiniteSet(held)
  BY HeldFinite
<1>6. Cardinality(held \cup {copy}) = Cardinality(held) + 1
  BY <1>4, <1>5, FS_AddElement
<1> QED
  BY <1>3, <1>5, <1>6

LEMMA HeldLess ==
    ASSUME NEW bag, IsABag(bag), IsFiniteSet(DOMAIN bag), NEW d \in DOMAIN bag, NEW G
    PROVE  Cardinality(HeldIn(bag (-) SetToBag({d}), G)) =
              Cardinality(HeldIn(bag, G)) - (IF d \in G THEN 1 ELSE 0)
<1>1. PICK last : last = <<d, Count(d, bag)>>
  OBVIOUS
<1>2. /\ last \in Copies(bag)
      /\ Copies(bag (-) SetToBag({d})) = Copies(bag) \ {last}
  BY <1>1, CopiesLess
<1>3. HeldIn(bag (-) SetToBag({d}), G) = HeldIn(bag, G) \ {last}
  BY <1>2 DEF HeldIn
<1>4. PICK held : held = HeldIn(bag, G) /\ IsFiniteSet(held) /\ Cardinality(held) \in Nat
  BY HeldFinite
<1>5. CASE d \in G
  <2>1. last \in held
    BY <1>1, <1>2, <1>4, <1>5 DEF HeldIn
  <2>2. Cardinality(held \ {last}) = Cardinality(held) - 1
    BY <1>4, <2>1, FS_RemoveElement
  <2> QED
    BY <1>3, <1>4, <1>5, <2>2
<1>6. CASE d \notin G
  <2>1. held \ {last} = held
    BY <1>1, <1>4, <1>6 DEF HeldIn
  <2>2. Cardinality(held) = Cardinality(held) - 0
    BY <1>4
  <2>3. Cardinality(HeldIn(bag (-) SetToBag({d}), G)) = Cardinality(HeldIn(bag, G)) - 0
    BY ONLY <1>3, <1>4, <2>1, <2>2
  <2> QED
    BY <1>6, <2>3
<1> QED
  BY <1>5, <1>6

LEMMA NoneRemoved ==
    ASSUME NEW bag, IsABag(bag), NEW d, d \notin DOMAIN bag
    PROVE  /\ \A e : Count(e, bag (-) SetToBag({d})) = Count(e, bag)
           /\ Copies(bag (-) SetToBag({d})) = Copies(bag)
<1>0. /\ IsABag(bag (-) SetToBag({d})) /\ DOMAIN (bag (-) SetToBag({d})) \subseteq DOMAIN bag
      /\ \A e : e # d => Count(e, bag (-) SetToBag({d})) = Count(e, bag)
  BY OneRemoved
<1>1. PICK less :
         /\ less = bag (-) SetToBag({d})
         /\ IsABag(less) /\ DOMAIN less \subseteq DOMAIN bag
         /\ \A e : e # d => Count(e, less) = Count(e, bag)
  BY ONLY <1>0
<1>2. Count(d, less) = 0 /\ Count(d, bag) = 0
  BY <1>1 DEF Count
<1>3. \A e : Count(e, less) = Count(e, bag)
  BY <1>1, <1>2
<1>4. DOMAIN less = DOMAIN bag
  BY <1>1, <1>3, CountIs
<1>5. /\ Copies(less) = {c \in (DOMAIN less) \X Nat : c[2] \in 1..Count(c[1], less)}
      /\ Copies(bag) = {c \in (DOMAIN bag) \X Nat : c[2] \in 1..Count(c[1], bag)}
  BY <1>1, CopiesAre
<1>6. Copies(less) = Copies(bag)
  BY <1>3, <1>4, <1>5
<1> QED
  BY <1>1, <1>3, <1>6

LEMMA NoCopies ==
    /\ Copies(EmptyBag) = {}
    /\ Cardinality(Copies(EmptyBag)) = 0
<1>1. Copies(EmptyBag) = {}
  BY CountOfEmpty DEF Copies, BagToSet
<1> QED
  BY <1>1, FS_EmptySet

-----------------------------------------------------------------------------
(* The tree.                                                               *)

LEMMA BelowFacts ==
    ASSUME NEW p \in Paths
    PROVE  /\ p \in Below[p]
           /\ Below[p] \subseteq Paths
           /\ Closed(Below[p])
           /\ \A S \in SUBSET Paths : p \in S /\ Closed(S) => Below[p] \subseteq S
<1>1. Below[p] = {q \in Paths : \A S \in SUBSET Paths : p \in S /\ Closed(S) => q \in S}
  BY DEF Below
<1>2. \A d \in Dirs : Entries[d] \subseteq Paths
  BY CompareAssumption
<1>3. Closed(Below[p])
  <2> SUFFICES ASSUME NEW d \in Below[p] \cap Dirs, NEW e \in Entries[d]
               PROVE  e \in Below[p]
    BY DEF Closed
  <2>1. \A S \in SUBSET Paths : p \in S /\ Closed(S) => e \in S
    BY <1>1 DEF Closed
  <2> QED
    BY <1>1, <1>2, <2>1
<1> QED
  BY <1>1, <1>3

\* What is below an entry is below the directory.
LEMMA BelowEntry ==
    ASSUME NEW p \in Paths, NEW q \in Below[p]
    PROVE  Below[q] \subseteq Below[p]
BY BelowFacts

\* Below a path that is no directory is nothing else.
LEMMA BelowFile ==
    ASSUME NEW p \in Paths \ Dirs
    PROVE  Below[p] = {p}
<1>1. Closed({p})
  BY DEF Closed
<1> QED
  BY <1>1, BelowFacts

\* What is below a directory is the directory itself or below an entry.
LEMMA BelowDirectory ==
    ASSUME NEW d \in Dirs
    PROVE  Below[d] \subseteq {d} \cup UNION {Below[e] : e \in Entries[d]}
<1> DEFINE S == {d} \cup UNION {Below[e] : e \in Entries[d]}
<1>1. d \in Paths /\ Entries[d] \subseteq Paths
  BY CompareAssumption DEF Paths
<1>2. S \in SUBSET Paths
  BY <1>1, BelowFacts
<1>3. Closed(S)
  <2> SUFFICES ASSUME NEW q \in S \cap Dirs, NEW x \in Entries[q]
               PROVE  x \in S
    BY DEF Closed
  <2>1. CASE q = d
    BY <1>1, <2>1, BelowFacts
  <2>2. CASE q # d
    <3>1. PICK e \in Entries[d] : q \in Below[e]
      BY <2>2
    <3>2. x \in Below[e]
      BY <1>1, <3>1, BelowFacts DEF Closed
    <3> QED
      BY <3>2
  <2> QED
    BY <2>1, <2>2
<1> QED
  BY <1>1, <1>2, <1>3, BelowFacts

\* What is below a path, and is not the path, is an entry of something below it.
LEMMA BelowHasParent ==
    ASSUME NEW p \in Paths, NEW q \in Below[p], q # p
    PROVE  \E d \in Below[p] \cap Dirs : q \in Entries[d]
<1> DEFINE S == {x \in Below[p] : x = p \/ \E d \in Below[p] \cap Dirs : x \in Entries[d]}
<1>1. p \in S /\ S \in SUBSET Paths
  BY BelowFacts
<1>2. Closed(S)
  <2>1. \A d \in Below[p] \cap Dirs : Entries[d] \subseteq Below[p]
    BY BelowFacts DEF Closed
  <2> QED
    BY <2>1 DEF Closed
<1> QED
  BY <1>1, <1>2, BelowFacts

\* No path is below two entries of one directory.
LEMMA OneEntryAbove ==
    ASSUME NEW d \in Dirs, NEW a \in Entries[d], NEW b \in Entries[d],
           NEW p, p \in Below[a], p \in Below[b]
    PROVE  a = b
<1> SUFFICES ASSUME a # b PROVE FALSE
  OBVIOUS
<1>1. a \in Paths /\ b \in Paths
  BY CompareAssumption
<1> DEFINE S == Below[a] \ Below[b]
<1>2. \A c \in Dirs : a \in Entries[c] \/ b \in Entries[c] => c = d
  BY TreeAssumption
<1>3. d \notin Below[a] /\ d \notin Below[b]
  BY TreeAssumption
<1>4. a \in S
  <2>1. a \notin Below[b]
    BY <1>1, <1>2, <1>3, BelowHasParent
  <2> QED
    BY <1>1, <2>1, BelowFacts
<1>5. Closed(S)
  <2> SUFFICES ASSUME NEW c \in S \cap Dirs, NEW x \in Entries[c]
               PROVE  x \in S
    BY DEF Closed
  <2>1. x \in Below[a]
    BY <1>1, BelowFacts DEF Closed
  <2>2. x # b
    BY <1>2, <1>3
  <2>3. x \notin Below[b]
    <3> SUFFICES ASSUME x \in Below[b] PROVE FALSE
      OBVIOUS
    <3>1. PICK e \in Below[b] \cap Dirs : x \in Entries[e]
      BY <1>1, <2>2, BelowHasParent
    <3>2. e = c
      BY <3>1, TreeAssumption
    <3> QED
      BY <3>1, <3>2
  <2> QED
    BY <2>1, <2>3
<1>6. S \in SUBSET Paths
  BY <1>1, BelowFacts
<1> QED
  BY <1>1, <1>4, <1>5, <1>6, BelowFacts

-----------------------------------------------------------------------------
(* The arguments.                                                          *)

LEMMA ArgvFacts ==
    ASSUME argv \in CommandLines
    PROVE  /\ Len(argv) \in Nat /\ DOMAIN argv = 1..Len(argv)
           /\ \A k \in DOMAIN argv :
                 /\ argv[k].flag \in Flags \cup {"path"}
                 /\ argv[k].flag = "-s" => argv[k].value \in Suffixes
                 /\ argv[k].flag \in NumberFlags => argv[k].value \in Nat \cup {NoDigits, NoValue}
<1>1. argv \in Seq(Range(argv))
  BY CommandLineAssumption
<1> QED
  BY <1>1, CommandLineAssumption, LenProperties

\* Nothing said of the arguments alone changes while they stay.
LEMMA ArgvStays ==
    ASSUME argv' = argv
    PROVE  /\ \A flags : Given(flags)' = Given(flags)
           /\ \A flag, default : LastValue(flag, default)' = LastValue(flag, default)
           /\ \A f : Reasons(f)' = Reasons(f) /\ SureReasons(f)' = SureReasons(f)
           /\ Wanted' = Wanted /\ Sure' = Sure
           /\ Blamed' = Blamed
           /\ TooFew' = TooFew
<1>1. \A flags : Given(flags)' = Given(flags)
  BY DEF Given
<1>2. \A flag, default : LastValue(flag, default)' = LastValue(flag, default)
  BY <1>1 DEF LastValue
<1>3. \A f : Reasons(f)' = Reasons(f)
  BY <1>1, <1>2 DEF Reasons
<1>4. Wanted' = Wanted
  BY <1>3 DEF Wanted
<1>5. \A f : SureReasons(f)' = SureReasons(f)
  BY <1>3 DEF SureReasons
<1>6. Sure' = Sure
  BY <1>5 DEF Sure
<1>7. Blamed' = Blamed
  BY <1>1 DEF Blamed
<1> QED
  BY <1>1, <1>2, <1>3, <1>4, <1>5, <1>6, <1>7 DEF TooFew

\* Nor the way to a file, while the suffix stays.
LEMMA WayStays ==
    ASSUME argv' = argv, suffix' = suffix
    PROVE  \A f : /\ Leading(f)' = Leading(f) /\ SurelyLeading(f)' = SurelyLeading(f)
                  /\ SureReasons(f)' = SureReasons(f)
<1>1. \A f : Leading(f)' = Leading(f)
  BY DEF Leading
<1> QED
  BY <1>1, ArgvStays DEF SurelyLeading

\* Nor the account of a file, while nothing is moved.
LEMMA AccountStays ==
    ASSUME UNCHANGED <<argv, suffix, err_flag, directory_queue, file_queue, wf_stack>>,
           NEW f, Examined(f)' = Examined(f), Accounted(f)
    PROVE  Accounted(f)'
<1>1. /\ Leading(f)' = Leading(f) /\ SurelyLeading(f)' = SurelyLeading(f)
      /\ SurelyExamined(f)' = SurelyExamined(f)
  BY WayStays DEF SurelyExamined
<1>2. /\ Held(Leading(f))' = Held(Leading(f))
      /\ Held(SurelyLeading(f))' = Held(SurelyLeading(f))
      /\ Stock(f)' = Stock(f)
  BY <1>1 DEF Held, HeldIn, Stock
<1> QED
  BY <1>1, <1>2 DEF Accounted

\* A number that fits in an int is read as it is.
LEMMA DigitsAre ==
    ASSUME NEW n \in Nat
    PROVE  getDigits(n) \in Nat /\ (n <= IntMax => getDigits(n) = n)
<1>1. /\ IntMax \in Nat \ {0} /\ LongMax \in Nat /\ IntMax <= LongMax
      /\ UIntRange \in Nat \ {0} /\ IntMax < UIntRange
  BY IntAssumption, CompareAssumption DEF UIntRange
<1>2. PICK m \in Nat : m = (IF n > LongMax THEN LongMax ELSE n)
  BY <1>1
<1>3. getDigits(n) = m % UIntRange
  BY <1>2, CompareAssumption DEF getDigits, Atoi
<1>4. m % UIntRange \in Nat
  BY <1>1
<1>5. ASSUME n <= IntMax PROVE m % UIntRange = n
  <2>1. m = n /\ m < UIntRange
    BY <1>1, <1>2, <1>5
  <2>2. ASSUME NEW a \in Nat, NEW b \in Nat \ {0}, a < b PROVE a % b = a
    BY <2>2
  <2> QED
    BY <1>1, <2>1, <2>2
<1> QED
  BY <1>3, <1>4, <1>5

\* All the numbers that the invariant speaks of are natural numbers.
LEMMA NumbersAre ==
    ASSUME BagsKept
    PROVE  /\ IsFiniteSet(DOMAIN directory_queue)
           /\ \A f : Stock(f) \in Nat
           /\ \A G : Held(G) \in Nat
           /\ \A f : /\ Reasons(f) \subseteq DOMAIN argv
                     /\ IsFiniteSet(Reasons(f)) /\ IsFiniteSet(SureReasons(f))
                     /\ Cardinality(Examined(f)) \in Nat
                     /\ Cardinality(SurelyExamined(f)) \in Nat
<1>1. /\ IsABag(directory_queue) /\ IsABag(file_queue) /\ IsABag(wf_stack)
      /\ DOMAIN directory_queue \in SUBSET Paths /\ argv \in CommandLines
  BY DEF BagsKept, Paths
<1>2. IsFiniteSet(DOMAIN directory_queue)
  BY <1>1, CompareAssumption, FS_Subset
<1>3. \A f : Stock(f) \in Nat
  BY <1>1, CountIs DEF Stock
<1>4. \A G : Held(G) \in Nat
  BY <1>1, <1>2, HeldFinite DEF Held
<1>5. IsFiniteSet(DOMAIN argv)
  BY <1>1, ArgvFacts, FS_Interval
<1>6. ASSUME NEW f
      PROVE  /\ Reasons(f) \subseteq DOMAIN argv
             /\ IsFiniteSet(Reasons(f)) /\ IsFiniteSet(SureReasons(f))
             /\ Cardinality(Examined(f)) \in Nat
             /\ Cardinality(SurelyExamined(f)) \in Nat
  <2>1. Reasons(f) \in SUBSET DOMAIN argv
    BY DEF Reasons, Given
  <2>2. IsFiniteSet(Reasons(f))
    BY <1>5, <2>1, FS_Subset
  <2>3. /\ SureReasons(f) \in SUBSET Reasons(f) /\ Examined(f) \in SUBSET Reasons(f)
        /\ SurelyExamined(f) \in SUBSET Reasons(f)
    BY DEF SureReasons, Examined, SurelyExamined
  <2> QED
    BY <2>1, <2>2, <2>3, FS_Subset, FS_CardinalityType
<1> QED
  BY <1>2, <1>3, <1>4, <1>6

\* Nothing is held of an empty queue.
LEMMA NoneHeld ==
    ASSUME directory_queue = EmptyBag, NEW G
    PROVE  Held(G) = 0
<1>1. HeldIn(directory_queue, G) = {}
  BY NoCopies DEF HeldIn
<1> QED
  BY <1>1, FS_EmptySet DEF Held

\* The value after all the arguments is the last of them.
LEMMA LastOfAll ==
    ASSUME argv \in CommandLines, NEW flag, NEW default, NEW n \in Nat, NEW v,
           LastSoFar(flag, default, n, v), n > Len(argv)
    PROVE  v = LastValue(flag, default)
<1>1. \A k \in Given({flag}) : k < n /\ k \in Nat
  BY ArgvFacts DEF Given
<1>2. {k \in Given({flag}) : k < n} = Given({flag})
  BY <1>1
<1>3. CASE Given({flag}) = {}
  BY <1>2, <1>3 DEF LastSoFar, Earlier, LastValue
<1>4. CASE Given({flag}) # {}
  <2>1. PICK k \in Given({flag}) : (\A m \in Given({flag}) : m <= k) /\ v = argv[k].value
    BY <1>2, <1>4 DEF LastSoFar, Earlier
  <2>2. ASSUME NEW h \in Given({flag}), \A m \in Given({flag}) : m <= h
        PROVE  h = k
    <3>1. h <= k /\ k <= h /\ h \in Nat /\ k \in Nat
      BY <1>1, <2>1, <2>2
    <3> QED
      BY <3>1
  <2>3. Last(Given({flag})) = k
    BY <2>1, <2>2 DEF Last
  <2> QED
    BY <1>4, <2>1, <2>3 DEF LastValue
<1> QED
  BY <1>3, <1>4

\* One argument further: its value if it has the flag, the value so far if not.
LEMMA LastSoFarSteps ==
    ASSUME argv \in CommandLines, NEW flag, NEW default, NEW n \in DOMAIN argv, NEW v,
           LastSoFar(flag, default, n, v)
    PROVE  LastSoFar(flag, default, n + 1, IF argv[n].flag = flag THEN argv[n].value ELSE v)
<1>1. n \in Nat /\ \A k \in Given({flag}) : k \in Nat
  BY ArgvFacts DEF Given
<1>2. CASE argv[n].flag = flag
  <2>1. n \in Given({flag}) /\ n < n + 1
    BY <1>1, <1>2 DEF Given
  <2>2. \A m \in Given({flag}) : m < n + 1 => m <= n
    BY <1>1
  <2> QED
    BY <1>2, <2>1, <2>2 DEF LastSoFar, Earlier
<1>3. CASE argv[n].flag # flag
  <2>1. n \notin Given({flag})
    BY <1>3 DEF Given
  <2>2. \A k \in Given({flag}) : k < n + 1 <=> k < n
    BY <1>1, <2>1
  <2>3. {k \in Given({flag}) : k < n + 1} = {k \in Given({flag}) : k < n}
    BY <2>2
  <2> QED
    BY <1>3, <2>3 DEF LastSoFar, Earlier
<1> QED
  BY <1>2, <1>3

-----------------------------------------------------------------------------
(* Every step preserves the invariant.                                     *)

LEMMA InitInv == Init => CompareInv
<1> SUFFICES ASSUME Init PROVE CompareInv
  OBVIOUS
<1> USE DEF Init
<1>1. BagsKept
  <2>1. /\ IsABag(directory_queue) /\ IsABag(file_queue) /\ IsABag(wf_stack)
        /\ DOMAIN directory_queue = {} /\ DOMAIN file_queue = {} /\ DOMAIN wf_stack = {}
    BY CountOfEmpty
  <2>2. argv \in CommandLines /\ i \in Nat \ {0}
    OBVIOUS
  <2>3. suffix \in Suffixes
    BY CompareAssumption
  <2>4. main = "start" /\ err_flag \in BOOLEAN
    OBVIOUS
  <2> QED
    BY ONLY <2>1, <2>2, <2>3, <2>4 DEF BagsKept
<1>2. \A flags : \A k \in Given(flags) : ~ k < 1 /\ 1 <= k
  BY ArgvFacts DEF Given
<1>3. OptionsKept
  <2>1. \A flag, default : LastSoFar(flag, default, 1, default)
    BY <1>2 DEF LastSoFar, Earlier
  <2>2. getDigits(1) = 1
    BY IntAssumption, DigitsAre
  <2> QED
    BY <1>2, <2>1, <2>2 DEF OptionsKept, Reading, Working
<1>4. NothingEarly
  BY DEF NothingEarly, Reading, Working, Idle
<1>5. QueuesNamed
  BY CountOfEmpty DEF QueuesNamed
<1> QED
  BY <1>1, <1>3, <1>4, <1>5
  DEF CompareInv, ErrorsBlamed, PathsFound, ReasonsAccounted, ReportWanted, RestKept,
      Reading, Working, Failed

\* The options are read from left to right.
LEMMA OptionStep ==
    ASSUME CompareInv, Start \/ ReadNumber \/ ReadSuffix \/ RefuseDash \/ RefuseOption \/ PassPath
    PROVE  CompareInv'
<1>1. /\ main \in {"start", "options"} /\ main' \in {"options", "refused"}
      /\ UNCHANGED <<argv, err_flag, work, report, lines>>
  BY DEF Start, ReadNumber, ReadSuffix, RefuseDash, RefuseOption, PassPath, Option, args, options, printed
<1>2. BagsKept /\ OptionsKept /\ NothingEarly
  BY DEF CompareInv
<1>3. BagsKept'
  <2>1. i' \in Nat \ {0}
    BY <1>2 DEF BagsKept, Start, ReadNumber, ReadSuffix, RefuseDash, RefuseOption, PassPath, args
  <2>2. suffix' \in Suffixes
    BY <1>2, ArgvFacts
    DEF BagsKept, Start, ReadNumber, ReadSuffix, RefuseDash, RefuseOption, PassPath, Option, options
  <2> QED
    BY <1>1, <1>2, <2>1, <2>2 DEF BagsKept, work
<1>4. OptionsKept'
  <2>1. DOMAIN threads' = NumberFlags
    BY <1>2 DEF OptionsKept, Start, ReadNumber, ReadSuffix, RefuseDash, RefuseOption, PassPath, options
  <2>2. CASE main' = "refused"
    BY <2>1, <2>2 DEF OptionsKept, Reading, Working
  <2>4. \/ UNCHANGED <<i, threads, suffix>>
        \/ main = "options" /\ i \in DOMAIN argv /\ i' = i + 1
    BY <1>2, ArgvFacts
    DEF BagsKept, Start, ReadNumber, ReadSuffix, RefuseDash, RefuseOption, PassPath, Option, args, options
  <2>3. CASE main' = "options"
    <3>1. \A flag, default, v : LastSoFar(flag, default, i, v)' <=> LastSoFar(flag, default, i', v)
      <4>1. \A flag : Earlier(flag, i)' = Earlier(flag, i')
        BY <1>1, ArgvStays DEF Earlier
      <4> QED
        BY <1>1, <4>1 DEF LastSoFar
    <3>2. \A f \in NumberFlags :
             \E v \in {1} \cup {argv[k].value : k \in Given({f})} :
                 /\ LastSoFar(f, 1, i', v)
                 /\ v \in Nat /\ getDigits(v) > 0 /\ threads'[f] = getDigits(v)
      <4>1. CASE UNCHANGED <<i, threads>>
        BY <1>1, <1>2, <4>1 DEF OptionsKept, Reading
      <4>2. CASE main = "options" /\ i \in DOMAIN argv /\ i' = i + 1
        <5> SUFFICES ASSUME NEW f \in NumberFlags
                     PROVE  \E v \in {1} \cup {argv[k].value : k \in Given({f})} :
                               /\ LastSoFar(f, 1, i', v)
                 /\ v \in Nat /\ getDigits(v) > 0 /\ threads'[f] = getDigits(v)
          OBVIOUS
        <5>1. PICK v \in {1} \cup {argv[k].value : k \in Given({f})} :
                 /\ LastSoFar(f, 1, i, v)
                 /\ v \in Nat /\ getDigits(v) > 0 /\ threads[f] = getDigits(v)
          BY <1>2, <4>2 DEF OptionsKept, Reading
        <5> DEFINE w == IF argv[i].flag = f THEN argv[i].value ELSE v
        <5>2. LastSoFar(f, 1, i', w)
          BY <1>2, <4>2, <5>1, LastSoFarSteps DEF BagsKept
        <5>3. w \in {1} \cup {argv[k].value : k \in Given({f})}
          BY <4>2, <5>1 DEF Given
        <5>4. w \in Nat /\ getDigits(w) > 0 /\ threads'[f] = getDigits(w)
          <6>1. CASE argv[i].flag = f
            <7>1. /\ argv[i].value # NoValue /\ getDigits(argv[i].value) # 0
                  /\ threads'[f] = getDigits(argv[i].value)
              BY <2>3, <4>2, <6>1, <1>2
              DEF OptionsKept, Start, ReadNumber, ReadSuffix, RefuseDash, RefuseOption, PassPath, Option,
                  NumberFlags, options
            <7>2. argv[i].value \in Nat \cup {NoDigits, NoValue}
              BY <1>2, <4>2, <6>1, ArgvFacts DEF BagsKept
            <7>3. argv[i].value \in Nat
              BY <7>1, <7>2 DEF getDigits
            <7>4. getDigits(argv[i].value) > 0
              BY <7>1, <7>3, DigitsAre
            <7> QED
              BY <6>1, <7>1, <7>3, <7>4
          <6>2. CASE argv[i].flag # f
            BY <2>3, <4>2, <5>1, <6>2, <1>2
            DEF OptionsKept, Start, ReadNumber, ReadSuffix, RefuseDash, RefuseOption, PassPath, Option,
                NumberFlags, options
          <6> QED
            BY <6>1, <6>2
        <5> QED
          BY <5>2, <5>3, <5>4
      <4> QED
        BY <2>4, <4>1, <4>2
    <3>3. LastSoFar("-s", DefaultSuffix, i', suffix')
      <4>1. CASE UNCHANGED <<i, suffix>>
        BY <1>1, <1>2, <4>1 DEF OptionsKept, Reading
      <4>2. CASE main = "options" /\ i \in DOMAIN argv /\ i' = i + 1
        <5>1. LastSoFar("-s", DefaultSuffix, i, suffix)
          BY <1>2, <4>2 DEF OptionsKept, Reading
        <5>2. suffix' = IF argv[i].flag = "-s" THEN argv[i].value ELSE suffix
          BY <2>3, <4>2
          DEF Start, ReadNumber, ReadSuffix, RefuseDash, RefuseOption, PassPath, Option, NumberFlags, options
        <5> QED
          BY <1>2, <4>2, <5>1, <5>2, LastSoFarSteps DEF BagsKept
      <4> QED
        BY <2>4, <4>1, <4>2
    <3>4. \A k \in Given({"-", "-?"}) : i' <= k
      <4>1. CASE UNCHANGED i
        BY <1>1, <1>2, <4>1 DEF OptionsKept, Reading
      <4>2. CASE main = "options" /\ i \in DOMAIN argv /\ i' = i + 1
        <5>1. argv[i].flag \notin {"-", "-?"}
          BY <2>3, <4>2
          DEF Start, ReadNumber, ReadSuffix, RefuseDash, RefuseOption, PassPath, Option, NumberFlags
        <5>2. \A k \in Given({"-", "-?"}) : i <= k /\ i # k /\ k \in Nat
          BY <1>2, <4>2, <5>1, ArgvFacts DEF BagsKept, OptionsKept, Reading, Given
        <5> QED
          BY <1>2, <4>2, <5>2 DEF BagsKept
      <4> QED
        BY <2>4, <4>1, <4>2
    <3>5. \A flags : {argv[k].value : k \in Given(flags)}' = {argv[k].value : k \in Given(flags)}
      BY <1>1, ArgvStays
    <3> QED
      BY <1>1, <2>1, <2>3, <3>1, <3>2, <3>3, <3>4, <3>5, ArgvStays DEF OptionsKept, Reading, Working
  <2> QED
    BY <1>1, <2>2, <2>3
<1>5. NothingEarly'
  BY <1>1, <1>2 DEF NothingEarly, Reading, Working, Idle, work
<1>6. QueuesNamed'
  BY <1>1, <1>2, CountOfEmpty DEF NothingEarly, QueuesNamed, Reading, Idle, work
<1> QED
  BY <1>1, <1>2, <1>3, <1>4, <1>5, <1>6
  DEF CompareInv, NothingEarly, ErrorsBlamed, PathsFound, ReasonsAccounted, ReportWanted, RestKept,
      Reading, Working, Failed

\* The queues are made, and argv is read again from the beginning.
LEMMA QueuesStep ==
    ASSUME CompareInv, CreateQueues
    PROVE  CompareInv'
<1>1. /\ main = "options" /\ main' = "siphon" /\ i > Len(argv) /\ i' = 1
      /\ UNCHANGED <<argv, options, err_flag, work, report, lines>>
  BY DEF CreateQueues, printed
<1>2. BagsKept /\ OptionsKept /\ NothingEarly
  BY DEF CompareInv
<1>3. BagsKept'
  BY <1>1, <1>2 DEF BagsKept, options, work
<1>4. i \in Nat /\ argv \in CommandLines /\ \A flags : \A k \in Given(flags) : k \in Nat /\ 1 <= k /\ k < i
  BY <1>1, <1>2, ArgvFacts DEF BagsKept, Given
<1>5. OptionsKept'
  <2>1. \A f \in NumberFlags :
           /\ LastValue(f, 1) \in Nat /\ getDigits(LastValue(f, 1)) > 0
           /\ threads[f] = getDigits(LastValue(f, 1))
    BY <1>1, <1>2, <1>4, LastOfAll DEF OptionsKept, Reading
  <2>2. suffix = LastValue("-s", DefaultSuffix)
    BY <1>1, <1>2, <1>4, LastOfAll DEF OptionsKept, Reading
  <2>3. Given({"-", "-?"}) = {}
    <3>1. \A k \in Given({"-", "-?"}) : i <= k
      BY <1>1, <1>2 DEF OptionsKept, Reading
    <3> QED
      BY <1>4, <3>1
  <2> QED
    BY <1>1, <1>2, <2>1, <2>2, <2>3, ArgvStays DEF OptionsKept, options, Reading, Working
<1>6. NothingEarly'
  BY <1>1, <1>2 DEF NothingEarly, Reading, Working, Idle, work
<1>7. ErrorsBlamed'
  BY <1>1, <1>2 DEF NothingEarly, ErrorsBlamed, Reading, Working, Failed
<1>8. QueuesNamed'
  BY <1>1, <1>2, CountOfEmpty DEF NothingEarly, QueuesNamed, Reading, Idle, work
<1>9. PathsFound'
  BY <1>1, <1>4, ArgvStays DEF PathsFound
<1>10. ReasonsAccounted'
  <2> SUFFICES ASSUME NEW f \in Files PROVE Accounted(f)'
    BY DEF ReasonsAccounted
  <2>1. Examined(f)' = {} /\ SurelyExamined(f)' = {}
    <3>1. \A k \in Reasons(f) : ~ k < 1
      BY <1>4 DEF Reasons
    <3>2. Examined(f)' = {}
      BY <1>1, <3>1, ArgvStays DEF Examined
    <3> QED
      BY <3>2 DEF SurelyExamined
  <2>2. directory_queue' = EmptyBag /\ file_queue' = EmptyBag /\ wf_stack' = EmptyBag
    BY <1>1, <1>2 DEF NothingEarly, Reading, Idle, work
  <2>3. Stock(f)' = 0
    BY <2>2, CountOfEmpty DEF Stock
  <2>4. \A G : Cardinality(HeldIn(directory_queue', G)) = 0
    BY <2>2, NoCopies, FS_EmptySet DEF HeldIn
  <2>5. Held(Leading(f))' = 0 /\ Held(SurelyLeading(f))' = 0
    BY <2>4 DEF Held
  <2> QED
    BY <2>1, <2>3, <2>5, FS_EmptySet DEF Accounted
<1>11. ReportWanted' /\ RestKept'
  BY <1>1 DEF ReportWanted, RestKept
<1> QED
  BY <1>3, <1>5, <1>6, <1>7, <1>8, <1>9, <1>10, <1>11 DEF CompareInv

\* What the loop over argv keeps when it goes on to the next argument.
LEMMA OneMorePlace ==
    ASSUME argv \in CommandLines, NEW n \in DOMAIN argv, NEW R \in SUBSET DOMAIN argv
    PROVE  /\ n \in Nat /\ IsFiniteSet({k \in R : k < n})
           /\ Cardinality({k \in R : k < n + 1}) =
                 Cardinality({k \in R : k < n}) + (IF n \in R THEN 1 ELSE 0)
<1>1. DOMAIN argv = 1..Len(argv) /\ Len(argv) \in Nat
  BY ArgvFacts
<1>2. PICK S : S = {k \in R : k < n}
  OBVIOUS
<1>3. IsFiniteSet(S) /\ Cardinality(S) \in Nat
  <2>1. IsFiniteSet(DOMAIN argv) /\ S \in SUBSET DOMAIN argv
    BY <1>1, <1>2, FS_Interval
  <2> QED
    BY <2>1, FS_Subset, FS_CardinalityType
<1>4. \A k \in R : k < n + 1 <=> k < n \/ k = n
  BY <1>1
<1>5. n \in Nat /\ n \notin S
  BY <1>1, <1>2
<1>6. CASE n \in R
  <2>1. {k \in R : k < n + 1} = S \cup {n}
    BY <1>2, <1>4, <1>6
  <2>2. Cardinality(S \cup {n}) = Cardinality(S) + 1
    BY <1>3, <1>5, FS_AddElement
  <2> QED
    BY <1>2, <1>3, <1>5, <1>6, <2>1, <2>2
<1>7. CASE n \notin R
  <2>1. {k \in R : k < n + 1} = S
    BY <1>2, <1>4, <1>7
  <2>2. Cardinality(S) = Cardinality(S) + 0
    BY <1>3
  <2> QED
    BY <1>2, <1>3, <1>5, <1>7, <2>1, <2>2
<1> QED
  BY <1>6, <1>7

LEMMA NextArgument ==
    ASSUME CompareInv, Argument, main' = main, i' = i + 1, argv' = argv
    PROVE  /\ i \in Nat \ {0} /\ i \in DOMAIN argv /\ argv \in CommandLines
           /\ \A f : /\ Cardinality(Examined(f))' =
                           Cardinality(Examined(f)) + (IF i \in Reasons(f) THEN 1 ELSE 0)
                     /\ Cardinality(SurelyExamined(f))' =
                           Cardinality(SurelyExamined(f)) + (IF i \in SureReasons(f) THEN 1 ELSE 0)
<1>1. i \in Nat \ {0} /\ i \in DOMAIN argv /\ argv \in CommandLines /\ main = "siphon"
  BY ArgvFacts DEF CompareInv, BagsKept, Argument
<1>2. ASSUME NEW f
      PROVE  /\ Cardinality(Examined(f))' =
                   Cardinality(Examined(f)) + (IF i \in Reasons(f) THEN 1 ELSE 0)
             /\ Cardinality(SurelyExamined(f))' =
                   Cardinality(SurelyExamined(f)) + (IF i \in SureReasons(f) THEN 1 ELSE 0)
  <2>1. /\ Examined(f) = {k \in Reasons(f) : k < i}
        /\ Examined(f)' = {k \in Reasons(f) : k < i + 1}
    BY <1>1, ArgvStays DEF Examined
  <2>2. SureReasons(f) \subseteq Reasons(f) /\ SureReasons(f)' = SureReasons(f)
    BY ArgvStays DEF SureReasons
  <2>3. /\ SurelyExamined(f) = {k \in SureReasons(f) : k < i}
        /\ SurelyExamined(f)' = {k \in SureReasons(f) : k < i + 1}
    BY <2>1, <2>2 DEF SurelyExamined
  <2>4. Reasons(f) \in SUBSET DOMAIN argv /\ SureReasons(f) \in SUBSET DOMAIN argv
    BY <2>2 DEF Reasons, Given
  <2>5. ASSUME NEW R \in SUBSET DOMAIN argv
        PROVE  Cardinality({k \in R : k < i + 1}) =
                  Cardinality({k \in R : k < i}) + (IF i \in R THEN 1 ELSE 0)
    BY <1>1, OneMorePlace
  <2>6. /\ Cardinality({k \in Reasons(f) : k < i + 1}) =
              Cardinality({k \in Reasons(f) : k < i}) + (IF i \in Reasons(f) THEN 1 ELSE 0)
        /\ Cardinality({k \in SureReasons(f) : k < i + 1}) =
              Cardinality({k \in SureReasons(f) : k < i}) + (IF i \in SureReasons(f) THEN 1 ELSE 0)
    BY ONLY <2>4, <2>5
  <2> QED
    BY ONLY <2>1, <2>3, <2>6
<1> QED
  BY <1>1, <1>2

\* The options stay, and no report is written, while argv and the tree are read.
LEMMA WorkGoesOn ==
    ASSUME CompareInv, main \in {"siphon", "collect"}, main' = main,
           UNCHANGED <<argv, options, report, lines>>, main = "siphon" => UNCHANGED wf_stack
    PROVE  OptionsKept' /\ NothingEarly' /\ ReportWanted' /\ RestKept'
<1>1. OptionsKept /\ NothingEarly
  BY DEF CompareInv
<1>2. OptionsKept'
  BY <1>1, ArgvStays DEF OptionsKept, Reading, Working, options
<1>3. NothingEarly'
  BY <1>1 DEF NothingEarly, Reading, Working
<1> QED
  BY <1>2, <1>3 DEF ReportWanted, RestKept

\* An option is passed over, and so is a path that stat or open refuses.
LEMMA PassArgument ==
    ASSUME CompareInv, PassOption \/ ReportPath
    PROVE  CompareInv'
<1>1. /\ Argument /\ main = "siphon" /\ main' = main /\ i' = i + 1
      /\ UNCHANGED <<argv, options, work, report, lines>>
      /\ \/ argv[i].flag # "path" /\ UNCHANGED err_flag
         \/ /\ argv[i].flag = "path" /\ (argv[i].value \notin Paths \/ argv[i].value \in Faulty)
            /\ err_flag' = TRUE
  BY DEF PassOption, ReportPath, Argument, printed
<1>2. BagsKept /\ ErrorsBlamed /\ QueuesNamed /\ PathsFound /\ ReasonsAccounted
  BY DEF CompareInv
<1>3. i \in Nat \ {0} /\ i \in DOMAIN argv /\ argv \in CommandLines
  BY <1>1, NextArgument
<1>4. BagsKept'
  <2>1. err_flag' \in BOOLEAN
    BY <1>1, <1>2 DEF BagsKept
  <2> QED
    BY <1>1, <1>2, <1>3, <2>1 DEF BagsKept, options, work
<1>5. OptionsKept' /\ NothingEarly' /\ ReportWanted' /\ RestKept'
  BY <1>1, WorkGoesOn DEF work
<1>6. ErrorsBlamed'
  <2>1. CASE UNCHANGED err_flag
    BY <1>1, <1>2, <2>1, ArgvStays DEF ErrorsBlamed, Working, Failed
  <2>2. CASE argv[i].flag = "path" /\ (argv[i].value \notin Paths \/ argv[i].value \in Faulty)
    <3>1. i \in Given({"path"})
      BY <1>3, <2>2 DEF Given
    <3>2. argv[i].value \in Paths => argv[i].value \in Below[argv[i].value]
      BY BelowFacts
    <3>3. Blamed
      BY <2>2, <3>1, <3>2 DEF Blamed
    <3> QED
      BY <1>1, <3>3, ArgvStays DEF ErrorsBlamed, Failed
  <2> QED
    BY <1>1, <2>1, <2>2
<1>7. QueuesNamed'
  BY <1>1, <1>2, ArgvStays DEF QueuesNamed, work
<1>8. PathsFound'
  <2> SUFFICES ASSUME ~err_flag', NEW k \in Given({"path"}), argv[k].value \notin Paths
               PROVE  i' <= k
    BY <1>1, ArgvStays DEF PathsFound
  <2>1. UNCHANGED err_flag /\ argv[i].flag # "path"
    BY <1>1
  <2>2. i <= k /\ k # i /\ k \in Nat
    BY <1>1, <1>2, <1>3, <2>1, ArgvFacts DEF PathsFound, Given, Reading
  <2> QED
    BY <1>1, <1>3, <2>2
<1>9. ReasonsAccounted'
  <2> SUFFICES ASSUME NEW f \in Files PROVE Accounted(f)'
    BY DEF ReasonsAccounted
  <2>1. Accounted(f)
    BY <1>1, <1>2 DEF ReasonsAccounted, Working
  <2>2. /\ Stock(f)' = Stock(f) /\ Held(Leading(f))' = Held(Leading(f))
        /\ Held(SurelyLeading(f))' = Held(SurelyLeading(f))
    <3>1. UNCHANGED <<suffix, directory_queue, file_queue, wf_stack>>
      BY <1>1 DEF work, options
    <3>2. Leading(f)' = Leading(f) /\ SurelyLeading(f)' = SurelyLeading(f)
      BY <1>1, <3>1, WayStays
    <3> QED
      BY <3>1, <3>2 DEF Stock, Held, HeldIn
  <2>3. i \notin SureReasons(f)
    <3> SUFFICES ASSUME i \in SureReasons(f) PROVE FALSE
      OBVIOUS
    <3>1. argv[i].flag = "path" /\ argv[i].value \in Paths /\ f \in Below[argv[i].value]
      BY BelowFacts DEF SureReasons, Reasons, Given, Paths
    <3>2. argv[i].value \in Below[argv[i].value] \cap Faulty
      BY <1>1, <3>1, BelowFacts
    <3> QED
      BY <3>1, <3>2 DEF SureReasons, CannotFail
  <2>4. ~err_flag' => i \notin Reasons(f)
    BY <1>1 DEF Reasons, Given
  <2>5. /\ Cardinality(Examined(f))' =
              Cardinality(Examined(f)) + (IF i \in Reasons(f) THEN 1 ELSE 0)
        /\ Cardinality(SurelyExamined(f))' = Cardinality(SurelyExamined(f))
    <3>1. Cardinality(SurelyExamined(f)) \in Nat
      BY <1>2, NumbersAre
    <3> QED
      BY <1>1, <2>3, <3>1, NextArgument
  <2>6. /\ Cardinality(Examined(f)) \in Nat /\ Stock(f) \in Nat /\ Held(Leading(f)) \in Nat
        /\ ~err_flag' => ~err_flag
    BY <1>1, <1>2, NumbersAre
  <2> QED
    BY <2>1, <2>2, <2>4, <2>5, <2>6 DEF Accounted
<1> QED
  BY <1>4, <1>5, <1>6, <1>7, <1>8, <1>9 DEF CompareInv

\* What argument i is a reason for: the path itself, or what is below it.
LEMMA ReasonsOfPath ==
    ASSUME CompareInv, main = "siphon", i \in DOMAIN argv,
           argv[i].flag = "path", argv[i].value \in Paths, NEW f \in Files
    PROVE  /\ argv[i].value \in Files => (i \in Reasons(f) <=> f = argv[i].value)
           /\ argv[i].value \in Dirs =>
                 (i \in Reasons(f) <=> f \in EndingIn[suffix] \cap Below[argv[i].value])
           /\ argv[i].value \in Others => i \notin Reasons(f)
<1>1. suffix = LastValue("-s", DefaultSuffix)
  BY DEF CompareInv, OptionsKept, Working
<1>2. i \in Given({"path"})
  BY DEF Given
<1>3. Dirs \cap Files = {} /\ Dirs \cap Others = {} /\ Files \cap Others = {}
  BY CompareAssumption
<1> QED
  BY <1>1, <1>2, <1>3 DEF Reasons

\* An argument is queued by what stat says of it.
LEMMA QueuePathStep ==
    ASSUME CompareInv, QueuePath
    PROVE  CompareInv'
<1>1. /\ Argument /\ main = "siphon" /\ main' = main /\ i' = i + 1
      /\ UNCHANGED <<argv, options, err_flag, wf_stack, report, lines>>
      /\ argv[i].flag = "path"
  BY DEF QueuePath, Argument, printed
<1>2. PICK p \in Paths : p = argv[i].value
  BY DEF QueuePath
<1>3. BagsKept /\ ErrorsBlamed /\ QueuesNamed /\ PathsFound /\ ReasonsAccounted
  BY DEF CompareInv
<1>4. i \in Nat \ {0} /\ i \in DOMAIN argv /\ argv \in CommandLines
  BY <1>1, NextArgument
<1>5. Dirs \cap Files = {} /\ Dirs \cap Others = {} /\ Files \cap Others = {}
  BY CompareAssumption
<1>6. /\ IsABag(directory_queue') /\ DOMAIN directory_queue' = DOMAIN directory_queue \cup ({p} \cap Dirs)
      /\ directory_queue' = directory_queue (+) SetToBag({p} \cap Dirs)
  <2>1. directory_queue' = directory_queue (+) SetToBag({p} \cap Dirs) /\ IsABag(directory_queue)
    BY <1>2, <1>3 DEF QueuePath, BagsKept
  <2> QED
    BY <2>1, SetAdded
<1>7. /\ IsABag(file_queue') /\ DOMAIN file_queue' = DOMAIN file_queue \cup ({p} \cap Files)
      /\ \A f : Count(f, file_queue') = Count(f, file_queue) + (IF f \in {p} \cap Files THEN 1 ELSE 0)
  <2>1. file_queue' = file_queue (+) SetToBag({p} \cap Files) /\ IsABag(file_queue)
    BY <1>2, <1>3 DEF QueuePath, BagsKept
  <2> QED
    BY <2>1, SetAdded
<1>8. BagsKept'
  <2>1. DOMAIN directory_queue' \subseteq Dirs /\ DOMAIN file_queue' \subseteq Files
    BY <1>3, <1>6, <1>7 DEF BagsKept
  <2> QED
    BY <1>1, <1>3, <1>4, <1>6, <1>7, <2>1 DEF BagsKept, options
<1>9. OptionsKept' /\ NothingEarly' /\ ReportWanted' /\ RestKept'
  BY <1>1, WorkGoesOn
<1>10. ErrorsBlamed'
  BY <1>1, <1>3, ArgvStays DEF ErrorsBlamed, Working, Failed
<1>11. QueuesNamed'
  <2> SUFFICES ASSUME NEW q \in DOMAIN directory_queue' \cup DOMAIN file_queue'
               PROVE  \E k \in Given({"path"}) : argv[k].value \in Paths /\ q \in Below[argv[k].value]
    BY <1>1, ArgvStays DEF QueuesNamed
  <2>1. CASE q \in DOMAIN directory_queue \cup DOMAIN file_queue
    BY <1>3, <2>1 DEF QueuesNamed
  <2>2. CASE q = p
    <3>1. i \in Given({"path"}) /\ argv[i].value = p /\ p \in Below[p]
      BY <1>1, <1>2, <1>4, BelowFacts DEF Given
    <3> QED
      BY <2>2, <3>1
  <2> QED
    BY <1>6, <1>7, <2>1, <2>2
<1>12. PathsFound'
  <2> SUFFICES ASSUME ~err_flag, NEW k \in Given({"path"}), argv[k].value \notin Paths
               PROVE  i' <= k
    BY <1>1, ArgvStays DEF PathsFound
  <2>1. i <= k /\ k # i /\ k \in Nat
    BY <1>1, <1>2, <1>3, <1>4, ArgvFacts DEF PathsFound, Given, Reading
  <2> QED
    BY <1>1, <1>4, <2>1
<1>13. ReasonsAccounted'
  <2> SUFFICES ASSUME NEW f \in Files PROVE Accounted(f)'
    BY DEF ReasonsAccounted
  <2>1. Accounted(f)
    BY <1>1, <1>3 DEF ReasonsAccounted, Working
  <2>2. /\ Stock(f) \in Nat /\ Count(f, wf_stack) \in Nat /\ Count(f, file_queue) \in Nat
        /\ Held(Leading(f)) \in Nat /\ Held(SurelyLeading(f)) \in Nat
        /\ Cardinality(Examined(f)) \in Nat /\ Cardinality(SurelyExamined(f)) \in Nat
    BY <1>3, NumbersAre, CountIs DEF BagsKept
  <2>3. /\ Cardinality(Examined(f))' =
              Cardinality(Examined(f)) + (IF i \in Reasons(f) THEN 1 ELSE 0)
        /\ Cardinality(SurelyExamined(f))' =
              Cardinality(SurelyExamined(f)) + (IF i \in SureReasons(f) THEN 1 ELSE 0)
    BY <1>1, NextArgument
  <2>4. /\ p \in Files => (i \in Reasons(f) <=> f = p)
        /\ p \in Dirs => (i \in Reasons(f) <=> f \in EndingIn[suffix] \cap Below[p])
        /\ p \in Others => i \notin Reasons(f)
    BY <1>1, <1>2, <1>4, ReasonsOfPath
  <2>5. i \in SureReasons(f) <=> i \in Reasons(f) /\ CannotFail(p, f)
    BY <1>2 DEF SureReasons
  <2>6. /\ Held(Leading(f))' = Cardinality(HeldIn(directory_queue', Leading(f)))
        /\ Held(SurelyLeading(f))' = Cardinality(HeldIn(directory_queue', SurelyLeading(f)))
    BY <1>1, WayStays DEF Held, HeldIn, options
  <2>7. CASE p \in Dirs
    <3>1. ASSUME NEW G
          PROVE  Cardinality(HeldIn(directory_queue', G)) = Held(G) + (IF p \in G THEN 1 ELSE 0)
      <4>1. IsABag(directory_queue) /\ IsFiniteSet(DOMAIN directory_queue) /\ Held(G) \in Nat
        BY <1>3, NumbersAre DEF BagsKept
      <4>2. directory_queue' = directory_queue (+) SetToBag({p})
        <5>1. {p} \cap Dirs = {p}
          BY <2>7
        <5> QED
          BY <1>6, <5>1
      <4>3. CASE p \in G
        <5>1. {p} \cap G = {p}
          BY <4>3
        <5>2. Cardinality(HeldIn(directory_queue (+) SetToBag({p}), G)) =
                 Cardinality(HeldIn(directory_queue, G)) + 1
          BY ONLY <4>1, <5>1, HeldOneMore
        <5> QED
          BY <4>2, <4>3, <5>2 DEF Held
      <4>4. CASE p \notin G
        <5>1. {p} \cap G = {}
          BY <4>4
        <5>2. HeldIn(directory_queue (+) SetToBag({p}), G) = HeldIn(directory_queue, G)
          BY ONLY <4>1, <5>1, HeldNoMore
        <5> QED
          BY <4>1, <4>2, <4>4, <5>2 DEF Held
      <4> QED
        BY <4>3, <4>4
    <3>2. p \in Leading(f) <=> i \in Reasons(f)
      BY <2>4, <2>7 DEF Leading
    <3>3. p \in SurelyLeading(f) <=> i \in SureReasons(f)
      BY <2>5, <3>2 DEF SurelyLeading
    <3>4. Stock(f)' = Stock(f)
      BY <1>1, <1>5, <1>7, <2>2, <2>7 DEF Stock
    <3>5. /\ Held(Leading(f))' = Held(Leading(f)) + (IF i \in Reasons(f) THEN 1 ELSE 0)
          /\ Held(SurelyLeading(f))' =
                Held(SurelyLeading(f)) + (IF i \in SureReasons(f) THEN 1 ELSE 0)
      BY <2>6, <3>1, <3>2, <3>3
    <3> QED
      BY <1>1, <2>1, <2>2, <2>3, <3>4, <3>5 DEF Accounted
  <2>8. CASE p \notin Dirs
    <3>1. \A G : HeldIn(directory_queue', G) = HeldIn(directory_queue, G)
      <4>1. IsABag(directory_queue) /\ {p} \cap Dirs = {}
        BY <1>3, <2>8 DEF BagsKept
      <4>2. \A G : HeldIn(directory_queue (+) SetToBag({}), G) = HeldIn(directory_queue, G)
        BY <4>1, HeldNoMore
      <4> QED
        BY <1>6, <4>1, <4>2
    <3>2. Held(Leading(f))' = Held(Leading(f)) /\ Held(SurelyLeading(f))' = Held(SurelyLeading(f))
      BY <2>6, <3>1 DEF Held
    <3>3. Count(f, file_queue') = Count(f, file_queue) + (IF i \in Reasons(f) THEN 1 ELSE 0)
      BY <1>2, <1>5, <1>7, <2>4, <2>8 DEF Paths
    <3>4. Stock(f)' = Stock(f) + (IF i \in Reasons(f) THEN 1 ELSE 0)
      BY <1>1, <2>2, <3>3 DEF Stock
    <3>5. i \in SureReasons(f) => i \in Reasons(f)
      BY <2>5
    <3> QED
      BY <1>1, <2>1, <2>2, <2>3, <3>2, <3>4, <3>5 DEF Accounted
  <2> QED
    BY <2>7, <2>8
<1> QED
  BY <1>8, <1>9, <1>10, <1>11, <1>12, <1>13 DEF CompareInv

\* A part of a bag has no more copies than the bag.
LEMMA SizeOfPart ==
    ASSUME NEW a, NEW b, IsABag(a), IsABag(b), IsFiniteSet(DOMAIN b), a \sqsubseteq b
    PROVE  Cardinality(Copies(a)) <= Cardinality(Copies(b))
<1>1. /\ Copies(a) = {c \in (DOMAIN a) \X Nat : c[2] \in 1..Count(c[1], a)}
      /\ Copies(b) = {c \in (DOMAIN b) \X Nat : c[2] \in 1..Count(c[1], b)}
  BY CopiesAre
<1>2. DOMAIN a \subseteq DOMAIN b
  BY DEF \sqsubseteq
<1>3. \A e \in DOMAIN a : /\ Count(e, a) \in Nat /\ Count(e, b) \in Nat
                          /\ Count(e, a) <= Count(e, b)
  BY <1>2, CountIs DEF \sqsubseteq
<1>4. Copies(a) \subseteq Copies(b)
  <2> SUFFICES ASSUME NEW c \in Copies(a) PROVE c \in Copies(b)
    OBVIOUS
  <2>1. c \in (DOMAIN a) \X Nat /\ c[2] \in 1..Count(c[1], a)
    BY <1>1
  <2>2. c \in (DOMAIN b) \X Nat /\ c[2] \in 1..Count(c[1], b)
    BY <1>2, <1>3, <2>1
  <2> QED
    BY <1>1, <2>2
<1>5. IsFiniteSet(Copies(b))
  BY CopiesFinite
<1> QED
  BY <1>4, <1>5, FS_Subset

\* When all the arguments are read and the queues are empty, the repository has
\* what could not fail, and nothing that was not asked for; without an error it
\* has all that was.
LEMMA AllDigested ==
    ASSUME CompareInv, Working, Idle, main = "siphon" => i > Len(argv)
    PROVE  /\ Sure \sqsubseteq wf_stack /\ wf_stack \sqsubseteq Wanted
           /\ Cardinality(Copies(Sure)) \in Nat
           /\ Cardinality(Copies(wf_stack)) \in Nat
           /\ Cardinality(Copies(Sure)) <= Cardinality(Copies(wf_stack))
           /\ ~err_flag => wf_stack = Wanted
<1>1. BagsKept /\ ReasonsAccounted
  BY DEF CompareInv
<1>2. /\ argv \in CommandLines /\ i \in Nat
      /\ IsABag(wf_stack) /\ DOMAIN wf_stack \subseteq Files
      /\ directory_queue = EmptyBag /\ file_queue = EmptyBag
  BY <1>1 DEF BagsKept, Idle
<1>3. \A k \in Given({"path"}) : k \in 1..Len(argv) /\ Len(argv) \in Nat
  BY <1>2, ArgvFacts DEF Given
<1>4. ASSUME NEW f \in Files
      PROVE  /\ Count(f, wf_stack) \in Nat
             /\ Cardinality(SureReasons(f)) \in Nat /\ Cardinality(Reasons(f)) \in Nat
             /\ Cardinality(SureReasons(f)) <= Count(f, wf_stack)
             /\ Count(f, wf_stack) <= Cardinality(Reasons(f))
             /\ ~err_flag => Count(f, wf_stack) = Cardinality(Reasons(f))
             /\ Reasons(f) # {} <=> Cardinality(Reasons(f)) > 0
             /\ SureReasons(f) # {} <=> Cardinality(SureReasons(f)) > 0
  <2>1. Examined(f) = Reasons(f)
    <3>1. \A k \in Reasons(f) : main = "siphon" => k < i
      BY <1>2, <1>3 DEF Reasons
    <3> QED
      BY <3>1 DEF Examined
  <2>2. SurelyExamined(f) = SureReasons(f)
    BY <2>1 DEF SurelyExamined, SureReasons
  <2>3. Stock(f) = Count(f, wf_stack) /\ Count(f, wf_stack) \in Nat
    BY <1>2, CountOfEmpty, CountIs DEF Stock
  <2>4. Held(Leading(f)) = 0 /\ Held(SurelyLeading(f)) = 0
    BY <1>2, NoneHeld
  <2>5. /\ Stock(f) + Held(Leading(f)) <= Cardinality(Examined(f))
        /\ Cardinality(SurelyExamined(f)) <= Stock(f) + Held(SurelyLeading(f))
        /\ ~err_flag => Cardinality(Examined(f)) = Stock(f) + Held(Leading(f))
    BY <1>1 DEF ReasonsAccounted, Accounted
  <2>6. /\ IsFiniteSet(Reasons(f)) /\ IsFiniteSet(SureReasons(f))
        /\ Cardinality(Reasons(f)) \in Nat /\ Cardinality(SureReasons(f)) \in Nat
    BY <1>1, NumbersAre, FS_CardinalityType
  <2>7. /\ Cardinality(Reasons(f)) = 0 <=> Reasons(f) = {}
        /\ Cardinality(SureReasons(f)) = 0 <=> SureReasons(f) = {}
    BY <2>6, FS_EmptySet
  <2> QED
    BY <2>1, <2>2, <2>3, <2>4, <2>5, <2>6, <2>7
<1>5. /\ DOMAIN Wanted = {g \in Files : Reasons(g) # {}}
      /\ \A f \in DOMAIN Wanted : Wanted[f] = Cardinality(Reasons(f))
      /\ DOMAIN Sure = {g \in Files : SureReasons(g) # {}}
      /\ \A f \in DOMAIN Sure : Sure[f] = Cardinality(SureReasons(f))
      /\ Wanted = [f \in DOMAIN Wanted |-> Wanted[f]]
      /\ Sure = [f \in DOMAIN Sure |-> Sure[f]]
  BY DEF Wanted, Sure
<1>6. \A f \in Files : f \in DOMAIN wf_stack <=> Count(f, wf_stack) > 0
  BY <1>2, CountIs
<1>7. \A f \in DOMAIN wf_stack : wf_stack[f] = Count(f, wf_stack)
  BY DEF Count
<1>8. Sure \sqsubseteq wf_stack
  <2>1. ASSUME NEW f \in DOMAIN Sure PROVE f \in DOMAIN wf_stack /\ Sure[f] <= wf_stack[f]
    <3>1. f \in Files /\ Cardinality(SureReasons(f)) > 0
      BY <1>4, <1>5
    <3>2. Count(f, wf_stack) > 0
      BY <1>4, <3>1
    <3> QED
      BY <1>4, <1>5, <1>6, <1>7, <3>1, <3>2
  <2> QED
    BY <2>1 DEF \sqsubseteq
<1>9. ASSUME NEW f \in DOMAIN wf_stack PROVE f \in DOMAIN Wanted /\ wf_stack[f] <= Wanted[f]
  <2>1. f \in Files /\ Count(f, wf_stack) > 0
    BY <1>2, <1>6
  <2>2. Cardinality(Reasons(f)) > 0
    BY <1>4, <2>1
  <2> QED
    BY <1>4, <1>5, <1>7, <2>1, <2>2
<1>10. wf_stack \sqsubseteq Wanted
  BY <1>9 DEF \sqsubseteq
<1>11. IsFiniteSet(DOMAIN wf_stack) /\ IsFiniteSet(DOMAIN Sure)
  <2>1. DOMAIN wf_stack \in SUBSET Paths /\ DOMAIN Sure \in SUBSET Paths
    BY <1>2, <1>5 DEF Paths
  <2> QED
    BY <2>1, CompareAssumption, FS_Subset
<1>12. IsABag(Sure)
  <2>1. \A f \in DOMAIN Sure : Sure[f] \in {n \in Nat : n > 0}
    BY <1>4, <1>5
  <2> QED
    BY <1>5, <2>1 DEF IsABag
<1>13. /\ Cardinality(Copies(Sure)) \in Nat /\ Cardinality(Copies(wf_stack)) \in Nat
       /\ Cardinality(Copies(Sure)) <= Cardinality(Copies(wf_stack))
  BY <1>2, <1>8, <1>11, <1>12, CopiesFinite, SizeOfPart
<1>14. ASSUME ~err_flag PROVE wf_stack = Wanted
  <2>1. DOMAIN wf_stack = DOMAIN Wanted
    <3>1. ASSUME NEW f \in DOMAIN Wanted PROVE f \in DOMAIN wf_stack
      BY <1>4, <1>5, <1>6, <1>14
    <3> QED
      BY <1>9, <3>1
  <2>2. \A f \in DOMAIN Wanted : wf_stack[f] = Wanted[f]
    BY <1>4, <1>5, <1>7, <1>14, <2>1
  <2>3. wf_stack = [f \in DOMAIN wf_stack |-> wf_stack[f]]
    BY <1>2 DEF IsABag
  <2> QED
    BY <1>5, <2>1, <2>2, <2>3
<1> QED
  BY <1>8, <1>10, <1>13, <1>14

\* After the last argument the threads are started, unless nothing is queued.
LEMMA StartCollectionStep ==
    ASSUME CompareInv, StartCollection
    PROVE  CompareInv'
<1>1. /\ main = "siphon" /\ i > Len(argv)
      /\ main' = IF Idle THEN "EXIT_FAILURE" ELSE "collect"
      /\ UNCHANGED <<argv, i, options, err_flag, work, report, lines>>
  BY DEF StartCollection, args, printed
<1>2. BagsKept /\ OptionsKept /\ NothingEarly /\ ErrorsBlamed /\ QueuesNamed /\ PathsFound /\ ReasonsAccounted
  BY DEF CompareInv
<1>3. BagsKept'
  BY <1>1, <1>2 DEF BagsKept, options, work
<1>4. \A k \in Given({"path"}) : k \in Nat /\ k < i
  BY <1>1, <1>2, ArgvFacts DEF BagsKept, Given
<1>5. OptionsKept'
  BY <1>1, <1>2, ArgvStays DEF OptionsKept, options, Reading, Working
<1>6. NothingEarly'
  BY <1>1, <1>2 DEF NothingEarly, Reading, Working
<1>7. ErrorsBlamed'
  <2>1. CASE Idle /\ ~err_flag
    <3>1. wf_stack = Wanted
      BY <1>1, <2>1, AllDigested DEF Working
    <3>2. wf_stack = EmptyBag
      BY <1>1, <1>2 DEF NothingEarly
    <3>3. TooFew
      BY <3>1, <3>2, NoCopies DEF TooFew
    <3> QED
      BY <1>1, <2>1, <3>3, ArgvStays DEF ErrorsBlamed, Working
  <2>2. CASE err_flag
    <3>1. Blamed
      BY <1>1, <1>2, <2>2 DEF ErrorsBlamed, Working
    <3> QED
      BY <1>1, <3>1, ArgvStays DEF ErrorsBlamed
  <2>3. CASE ~Idle /\ ~err_flag
    BY <1>1, <2>3 DEF ErrorsBlamed, Failed
  <2> QED
    BY <2>1, <2>2, <2>3
<1>8. QueuesNamed'
  BY <1>1, <1>2, ArgvStays DEF QueuesNamed, work
<1>9. PathsFound'
  <2> SUFFICES ASSUME ~err_flag, NEW k \in Given({"path"}), argv[k].value \notin Paths
               PROVE  FALSE
    BY <1>1, ArgvStays DEF PathsFound
  <2>1. i <= k
    BY <1>1, <1>2 DEF PathsFound, Reading
  <2> QED
    BY <1>2, <1>4, <2>1 DEF BagsKept
<1>10. ReasonsAccounted'
  <2> SUFFICES ASSUME main' = "collect", NEW f \in Files PROVE Accounted(f)'
    BY <1>1 DEF ReasonsAccounted, Working
  <2>1. Examined(f)' = Examined(f)
    <3>1. Reasons(f)' = Reasons(f) /\ \A k \in Reasons(f) : k < i
      BY <1>1, <1>4, ArgvStays DEF Reasons
    <3> QED
      BY <1>1, <3>1 DEF Examined
  <2>2. Accounted(f)
    BY <1>1, <1>2 DEF ReasonsAccounted, Working
  <2> QED
    BY <1>1, <2>1, <2>2, AccountStays DEF options, work
<1>11. ReportWanted'
  BY <1>1 DEF ReportWanted
<1>12. RestKept'
  <2> SUFFICES ASSUME Idle
               PROVE  Idle' /\ wf_stack' = EmptyBag /\ RestReported'
    BY <1>1 DEF RestKept
  <2>1. wf_stack = EmptyBag /\ report = EmptyBag /\ lines = 0
    BY <1>1, <1>2 DEF NothingEarly, Working
  <2>2. Cardinality(Copies(Sure)) < 2
    <3>1. /\ Cardinality(Copies(Sure)) \in Nat
          /\ Cardinality(Copies(Sure)) <= Cardinality(Copies(wf_stack))
      BY <1>1, AllDigested DEF Working
    <3>2. Cardinality(Copies(wf_stack)) = 0
      BY <2>1, NoCopies
    <3> QED
      BY <3>1, <3>2
  <2>3. Sure' = Sure
    BY <1>1, ArgvStays
  <2> QED
    BY <1>1, <2>1, <2>2, <2>3 DEF Idle, RestReported, work
<1> QED
  BY <1>3, <1>5, <1>6, <1>7, <1>8, <1>9, <1>10, <1>11, <1>12 DEF CompareInv

\* The collection phase takes nothing from the arguments, and gives nothing to
\* the report.
LEMMA CollectionGoesOn ==
    ASSUME CompareInv, main = "collect", UNCHANGED <<args, main, options, printed>>
    PROVE  /\ argv' = argv /\ i' = i /\ suffix' = suffix
           /\ OptionsKept' /\ NothingEarly' /\ ReportWanted' /\ RestKept'
           /\ (err_flag' \/ UNCHANGED err_flag) => PathsFound'
           /\ \A f : Examined(f)' = Examined(f) /\ SurelyExamined(f)' = SurelyExamined(f)
<1>1. argv' = argv /\ i' = i /\ suffix' = suffix
  BY DEF args, options
<1>2. OptionsKept' /\ NothingEarly' /\ ReportWanted' /\ RestKept'
  BY <1>1, WorkGoesOn DEF printed
<1>3. ASSUME err_flag' \/ UNCHANGED err_flag PROVE PathsFound'
  <2> SUFFICES ASSUME ~err_flag', NEW k \in Given({"path"}), argv[k].value \notin Paths
               PROVE  FALSE
    BY <1>1, ArgvStays DEF PathsFound
  <2> QED
    BY <1>3 DEF CompareInv, PathsFound, Reading
<1>4. \A f : Examined(f)' = Examined(f) /\ SurelyExamined(f)' = SurelyExamined(f)
  BY <1>1, ArgvStays DEF Examined, SurelyExamined
<1> QED
  BY <1>1, <1>2, <1>3, <1>4

\* What fails below something that is queued is a reason for an error.
LEMMA QueuedIsBlamed ==
    ASSUME CompareInv, NEW p \in DOMAIN directory_queue \cup DOMAIN file_queue,
           NEW q \in Below[p] \cap Faulty
    PROVE  Blamed
<1>1. PICK k \in Given({"path"}) : argv[k].value \in Paths /\ p \in Below[argv[k].value]
  BY DEF CompareInv, QueuesNamed
<1>2. q \in Below[argv[k].value]
  BY <1>1, BelowEntry
<1> QED
  BY <1>1, <1>2 DEF Blamed

\* A file is digested: the copy goes from the queue to the repository.
LEMMA DigestFileStep ==
    ASSUME CompareInv, DigestFile
    PROVE  CompareInv'
<1>1. /\ main = "collect" /\ UNCHANGED <<args, main, options, err_flag, directory_queue, printed>>
  BY DEF DigestFile
<1>2. PICK g \in DOMAIN file_queue :
         /\ file_queue' = file_queue (-) SetToBag({g})
         /\ wf_stack' = wf_stack (+) SetToBag({g})
  BY DEF DigestFile, BagToSet
<1>3. BagsKept /\ ErrorsBlamed /\ QueuesNamed /\ ReasonsAccounted
  BY DEF CompareInv
<1>4. /\ IsABag(file_queue') /\ DOMAIN file_queue' \subseteq DOMAIN file_queue
      /\ \A f : f # g => Count(f, file_queue') = Count(f, file_queue)
      /\ Count(g, file_queue') = Count(g, file_queue) - 1
  BY <1>2, <1>3, OneRemoved DEF BagsKept
<1>5. /\ IsABag(wf_stack') /\ DOMAIN wf_stack' = DOMAIN wf_stack \cup {g}
      /\ \A f : Count(f, wf_stack') = Count(f, wf_stack) + (IF f \in {g} THEN 1 ELSE 0)
  <2>1. wf_stack' = wf_stack (+) SetToBag({g}) /\ IsABag(wf_stack)
    BY <1>2, <1>3 DEF BagsKept
  <2> QED
    BY <2>1, SetAdded
<1>6. /\ argv' = argv /\ i' = i /\ suffix' = suffix
      /\ OptionsKept' /\ NothingEarly' /\ ReportWanted' /\ RestKept' /\ PathsFound'
      /\ \A f : Examined(f)' = Examined(f) /\ SurelyExamined(f)' = SurelyExamined(f)
  BY <1>1, CollectionGoesOn
<1>7. BagsKept'
  <2>1. DOMAIN file_queue' \subseteq Files /\ DOMAIN wf_stack' \subseteq Files
    BY <1>3, <1>4, <1>5 DEF BagsKept
  <2> QED
    BY <1>1, <1>3, <1>4, <1>5, <1>6, <2>1 DEF BagsKept, options
<1>8. ErrorsBlamed'
  BY <1>1, <1>3, <1>6, ArgvStays DEF ErrorsBlamed, Working, Failed
<1>9. QueuesNamed'
  BY <1>1, <1>3, <1>4, <1>6, ArgvStays DEF QueuesNamed
<1>10. ReasonsAccounted'
  <2> SUFFICES ASSUME NEW f \in Files PROVE Accounted(f)'
    BY DEF ReasonsAccounted
  <2>1. Accounted(f)
    BY <1>1, <1>3 DEF ReasonsAccounted, Working
  <2>2. /\ Held(Leading(f))' = Held(Leading(f))
        /\ Held(SurelyLeading(f))' = Held(SurelyLeading(f))
    BY <1>1, <1>6, WayStays DEF Held, HeldIn
  <2>3. Stock(f)' = Stock(f)
    <3>1. Count(f, wf_stack) \in Nat /\ Count(f, file_queue) \in Nat
      BY <1>3, CountIs DEF BagsKept
    <3>2. Count(f, wf_stack') + Count(f, file_queue') = Count(f, wf_stack) + Count(f, file_queue)
      BY <1>4, <1>5, <3>1
    <3> QED
      BY <3>2 DEF Stock
  <2> QED
    BY <1>1, <1>6, <2>1, <2>2, <2>3 DEF Accounted
<1> QED
  BY <1>6, <1>7, <1>8, <1>9, <1>10 DEF CompareInv

\* A reason that no failure can take away is none for a file that may fail.
LEMMA SureIsSound ==
    ASSUME NEW f \in Files \cap Faulty
    PROVE  SureReasons(f) = {}
<1> SUFFICES ASSUME NEW k \in SureReasons(f) PROVE FALSE
  OBVIOUS
<1>1. f \in Paths /\ f \in Below[f]
  BY BelowFacts DEF Paths
<1>2. argv[k].value \in Paths /\ f \in Below[argv[k].value]
  BY <1>1 DEF SureReasons, Reasons, Paths
<1> QED
  BY <1>1, <1>2 DEF SureReasons, CannotFail

\* A copy is lost, but not in silence.
LEMMA LoseWorkStep ==
    ASSUME CompareInv, LoseWork
    PROVE  CompareInv'
<1>1. /\ main = "collect" /\ err_flag' /\ err_flag' = TRUE
      /\ UNCHANGED <<args, main, options, wf_stack, printed>>
  BY DEF LoseWork
<1>2. PICK p \in Faulty :
         /\ p \in DOMAIN directory_queue \cup DOMAIN file_queue
         /\ directory_queue' = directory_queue (-) SetToBag({p})
         /\ file_queue' = file_queue (-) SetToBag({p})
  BY DEF LoseWork, BagToSet
<1>3. BagsKept /\ QueuesNamed /\ ReasonsAccounted
  BY DEF CompareInv
<1>4. /\ IsABag(file_queue') /\ DOMAIN file_queue' \subseteq DOMAIN file_queue
      /\ IsABag(directory_queue') /\ DOMAIN directory_queue' \subseteq DOMAIN directory_queue
  BY <1>2, <1>3, OneRemoved DEF BagsKept
<1>5. /\ argv' = argv /\ i' = i /\ suffix' = suffix
      /\ OptionsKept' /\ NothingEarly' /\ ReportWanted' /\ RestKept' /\ PathsFound'
      /\ \A f : Examined(f)' = Examined(f) /\ SurelyExamined(f)' = SurelyExamined(f)
  BY <1>1, CollectionGoesOn
<1>6. BagsKept'
  <2>1. DOMAIN file_queue' \subseteq Files /\ DOMAIN directory_queue' \subseteq Dirs
    BY <1>3, <1>4 DEF BagsKept
  <2>2. err_flag' \in BOOLEAN
    BY <1>1
  <2> QED
    BY <1>1, <1>3, <1>4, <1>5, <2>1, <2>2 DEF BagsKept, options
<1>7. ErrorsBlamed'
  <2>1. p \in Paths
    BY <1>2, <1>3 DEF BagsKept, Paths
  <2>2. Blamed
    BY <1>2, <2>1, BelowFacts, QueuedIsBlamed
  <2> QED
    BY <1>1, <1>5, <2>2, ArgvStays DEF ErrorsBlamed
<1>8. QueuesNamed'
  BY <1>3, <1>4, <1>5, ArgvStays DEF QueuesNamed
<1>9. ReasonsAccounted'
  <2> SUFFICES ASSUME NEW f \in Files PROVE Accounted(f)'
    BY DEF ReasonsAccounted
  <2>1. Accounted(f)
    BY <1>1, <1>3 DEF ReasonsAccounted, Working
  <2>2. /\ Stock(f) \in Nat /\ \A G : Held(G) \in Nat
        /\ Cardinality(Examined(f)) \in Nat /\ Cardinality(SurelyExamined(f)) \in Nat
        /\ Count(f, wf_stack) \in Nat /\ Count(f, file_queue) \in Nat
        /\ IsABag(directory_queue) /\ IsFiniteSet(DOMAIN directory_queue) /\ IsABag(file_queue)
    BY <1>3, NumbersAre, CountIs DEF BagsKept
  <2>3. /\ Held(Leading(f))' = Cardinality(HeldIn(directory_queue', Leading(f)))
        /\ Held(SurelyLeading(f))' = Cardinality(HeldIn(directory_queue', SurelyLeading(f)))
    BY <1>5, WayStays DEF Held, HeldIn
  <2>4. Dirs \cap Files = {}
    BY CompareAssumption
  <2>5. CASE p \in DOMAIN directory_queue
    <3>1. p \in Paths /\ p \notin DOMAIN file_queue
      BY <1>3, <2>4, <2>5 DEF BagsKept, Paths
    <3>2. Count(f, file_queue') = Count(f, file_queue)
      BY <1>2, <2>2, <3>1, NoneRemoved
    <3>3. Stock(f)' = Stock(f)
      BY <1>1, <3>2 DEF Stock
    <3>4. ASSUME NEW G
          PROVE  Cardinality(HeldIn(directory_queue', G)) = Held(G) - (IF p \in G THEN 1 ELSE 0)
      <4>1. Cardinality(HeldIn(directory_queue (-) SetToBag({p}), G)) =
               Cardinality(HeldIn(directory_queue, G)) - (IF p \in G THEN 1 ELSE 0)
        BY <2>2, <2>5, HeldLess
      <4> QED
        BY <1>2, <4>1 DEF Held
    <3>5. p \notin SurelyLeading(f)
      BY <3>1, BelowFacts DEF SurelyLeading, Leading, CannotFail
    <3>6. /\ Held(SurelyLeading(f))' = Held(SurelyLeading(f))
          /\ Held(Leading(f))' \in Int /\ Held(Leading(f))' <= Held(Leading(f))
      BY <2>2, <2>3, <3>4, <3>5
    <3> QED
      BY <1>1, <1>5, <2>1, <2>2, <3>3, <3>6 DEF Accounted
  <2>6. CASE p \notin DOMAIN directory_queue
    <3>1. p \in DOMAIN file_queue
      BY <1>2, <2>6
    <3>2. HeldIn(directory_queue', Leading(f)) = HeldIn(directory_queue, Leading(f))
          /\ HeldIn(directory_queue', SurelyLeading(f)) = HeldIn(directory_queue, SurelyLeading(f))
      BY <1>2, <2>2, <2>6, NoneRemoved DEF HeldIn
    <3>3. Held(Leading(f))' = Held(Leading(f)) /\ Held(SurelyLeading(f))' = Held(SurelyLeading(f))
      BY <2>3, <3>2 DEF Held
    <3>4. CASE f # p
      <4>1. Count(f, file_queue') = Count(f, file_queue)
        BY <1>2, <2>2, <3>4, OneRemoved
      <4>2. Stock(f)' = Stock(f)
        BY <1>1, <4>1 DEF Stock
      <4> QED
        BY <1>1, <1>5, <2>1, <3>3, <4>2 DEF Accounted
    <3>5. CASE f = p
      <4>1. SurelyExamined(f) = {}
        BY <3>5, SureIsSound DEF SurelyExamined
      <4>2. Cardinality(SurelyExamined(f)) = 0
        BY <4>1, FS_EmptySet
      <4>3. Count(f, file_queue') = Count(f, file_queue) - 1 /\ Count(f, file_queue') \in Nat
        BY <1>2, <1>4, <2>2, <3>1, <3>5, OneRemoved, CountIs
      <4>4. Stock(f)' = Stock(f) - 1 /\ Stock(f)' \in Nat
        BY <1>1, <2>2, <4>3 DEF Stock
      <4> QED
        BY <1>1, <1>5, <2>1, <2>2, <3>3, <4>2, <4>4 DEF Accounted
    <3> QED
      BY <3>4, <3>5
  <2> QED
    BY <2>5, <2>6
<1> QED
  BY <1>5, <1>6, <1>7, <1>8, <1>9 DEF CompareInv

\* Just one of the entries of a directory has f below it: a directory, or f itself.
LEMMA NextAbove ==
    ASSUME NEW d \in Dirs, NEW f \in Files \cap Below[d]
    PROVE  \E e \in Entries[d] :
              /\ f \in Below[e]
              /\ \A x \in Entries[d] : f \in Below[x] => x = e
              /\ e \in Dirs => f \notin Entries[d]
              /\ e \notin Dirs => e = f
<1>1. Entries[d] \subseteq Paths /\ f \in Paths /\ f \notin Dirs
  BY CompareAssumption DEF Paths
<1>2. PICK e \in Entries[d] : f \in Below[e]
  BY <1>1, BelowDirectory
<1>3. \A x \in Entries[d] : f \in Below[x] => x = e
  BY <1>2, OneEntryAbove
<1>4. e \in Dirs => f \notin Entries[d]
  BY <1>1, <1>3, BelowFacts
<1>5. e \notin Dirs => e = f
  BY <1>1, <1>2, BelowFile
<1> QED
  BY <1>2, <1>3, <1>4, <1>5

\* A directory is read: the copy of it makes way for one of each directory in
\* it, and each file in it that has the suffix is queued once.
LEMMA ReadDirectoryStep ==
    ASSUME CompareInv, ReadDirectory
    PROVE  CompareInv'
<1>1. /\ main = "collect" /\ UNCHANGED <<args, main, options, wf_stack, printed>>
  BY DEF ReadDirectory
<1>2. PICK d \in DOMAIN directory_queue : \E bad \in SUBSET (Entries[d] \cap Faulty) :
         /\ directory_queue' = (directory_queue (-) SetToBag({d}))
                                  (+) SetToBag((Entries[d] \ bad) \cap Dirs)
         /\ file_queue' = file_queue (+) SetToBag((Entries[d] \ bad) \cap EndingIn[suffix])
         /\ err_flag' = (err_flag \/ bad # {})
  BY DEF ReadDirectory, BagToSet
<1>3. PICK bad \in SUBSET (Entries[d] \cap Faulty) :
         /\ directory_queue' = (directory_queue (-) SetToBag({d}))
                                  (+) SetToBag((Entries[d] \ bad) \cap Dirs)
         /\ file_queue' = file_queue (+) SetToBag((Entries[d] \ bad) \cap EndingIn[suffix])
         /\ err_flag' = (err_flag \/ bad # {})
  BY <1>2
<1>4. PICK subs, found :
         /\ subs = (Entries[d] \ bad) \cap Dirs
         /\ found = (Entries[d] \ bad) \cap EndingIn[suffix]
  OBVIOUS
<1>5. BagsKept /\ ErrorsBlamed /\ QueuesNamed /\ ReasonsAccounted
  BY DEF CompareInv
<1>6. PICK less :
         /\ less = directory_queue (-) SetToBag({d})
         /\ IsABag(less) /\ DOMAIN less \subseteq DOMAIN directory_queue
  BY <1>5, OneRemoved DEF BagsKept
<1>7. /\ directory_queue' = less (+) SetToBag(subs)
      /\ IsABag(directory_queue') /\ DOMAIN directory_queue' = DOMAIN less \cup subs
  <2>1. directory_queue' = less (+) SetToBag(subs)
    BY <1>3, <1>4, <1>6
  <2>2. IsABag(less (+) SetToBag(subs)) /\ DOMAIN (less (+) SetToBag(subs)) = DOMAIN less \cup subs
    BY <1>6, SetAdded
  <2> QED
    BY <2>1, <2>2
<1>8. /\ IsABag(file_queue') /\ DOMAIN file_queue' = DOMAIN file_queue \cup found
      /\ \A f : Count(f, file_queue') = Count(f, file_queue) + (IF f \in found THEN 1 ELSE 0)
  <2>1. file_queue' = file_queue (+) SetToBag(found) /\ IsABag(file_queue)
    BY <1>3, <1>4, <1>5 DEF BagsKept
  <2> QED
    BY <2>1, SetAdded
<1>9. /\ d \in Dirs /\ d \in Paths /\ Entries[d] \subseteq Paths
      /\ suffix \in Suffixes /\ EndingIn[suffix] \subseteq Files
  BY <1>5, CompareAssumption DEF BagsKept, Paths
<1>10. /\ argv' = argv /\ i' = i /\ suffix' = suffix
       /\ OptionsKept' /\ NothingEarly' /\ ReportWanted' /\ RestKept'
       /\ (err_flag' \/ UNCHANGED err_flag) => PathsFound'
       /\ \A f : Examined(f)' = Examined(f) /\ SurelyExamined(f)' = SurelyExamined(f)
  BY <1>1, CollectionGoesOn
<1>11. Entries[d] \subseteq Below[d]
  BY <1>9, BelowFacts DEF Closed
<1>12. BagsKept'
  <2>1. DOMAIN directory_queue' \subseteq Dirs /\ DOMAIN file_queue' \subseteq Files
    BY <1>4, <1>5, <1>6, <1>7, <1>8, <1>9 DEF BagsKept
  <2>2. err_flag' \in BOOLEAN
    BY <1>3
  <2> QED
    BY <1>1, <1>5, <1>7, <1>8, <1>10, <2>1, <2>2 DEF BagsKept, options
<1>13. ErrorsBlamed'
  <2>1. CASE bad = {}
    <3>1. err_flag' => err_flag
      BY <1>3, <2>1
    <3> QED
      BY <1>1, <1>5, <1>10, <3>1, ArgvStays DEF ErrorsBlamed, Working, Failed
  <2>2. CASE bad # {}
    <3>1. PICK e \in bad : e \in Below[d] \cap Faulty
      BY <1>11, <2>2
    <3>2. Blamed
      BY <3>1, QueuedIsBlamed
    <3> QED
      BY <1>1, <1>10, <3>2, ArgvStays DEF ErrorsBlamed
  <2> QED
    BY <2>1, <2>2
<1>14. QueuesNamed'
  <2> SUFFICES ASSUME NEW q \in DOMAIN directory_queue' \cup DOMAIN file_queue'
               PROVE  \E k \in Given({"path"}) : argv[k].value \in Paths /\ q \in Below[argv[k].value]
    BY <1>10, ArgvStays DEF QueuesNamed
  <2>1. CASE q \in DOMAIN directory_queue \cup DOMAIN file_queue
    BY <1>5, <2>1 DEF QueuesNamed
  <2>2. CASE q \in Entries[d]
    <3>1. PICK k \in Given({"path"}) : argv[k].value \in Paths /\ d \in Below[argv[k].value]
      BY <1>5 DEF QueuesNamed
    <3> QED
      BY <1>11, <2>2, <3>1, BelowEntry
  <2> QED
    BY <1>4, <1>6, <1>7, <1>8, <2>1, <2>2
<1>15. PathsFound'
  <2>1. err_flag' \/ UNCHANGED err_flag
    BY <1>3, <1>5 DEF BagsKept
  <2> QED
    BY <1>10, <2>1
<1>16. ReasonsAccounted'
  <2> SUFFICES ASSUME NEW f \in Files PROVE Accounted(f)'
    BY DEF ReasonsAccounted
  <2>1. Accounted(f)
    BY <1>1, <1>5 DEF ReasonsAccounted, Working
  <2>2. /\ Stock(f) \in Nat /\ \A G : Held(G) \in Nat
        /\ Cardinality(Examined(f)) \in Nat /\ Cardinality(SurelyExamined(f)) \in Nat
        /\ Count(f, wf_stack) \in Nat /\ Count(f, file_queue) \in Nat
        /\ IsABag(directory_queue) /\ IsFiniteSet(DOMAIN directory_queue)
    BY <1>5, NumbersAre, CountIs DEF BagsKept
  <2>3. /\ Held(Leading(f))' = Cardinality(HeldIn(directory_queue', Leading(f)))
        /\ Held(SurelyLeading(f))' = Cardinality(HeldIn(directory_queue', SurelyLeading(f)))
    BY <1>10, WayStays DEF Held, HeldIn
  <2>4. Stock(f)' = Stock(f) + (IF f \in found THEN 1 ELSE 0)
    BY <1>1, <1>8, <2>2 DEF Stock
  <2>5. IsFiniteSet(DOMAIN less)
    BY <1>6, <2>2, FS_Subset
  <2>6. ASSUME NEW G
        PROVE  /\ Cardinality(HeldIn(less, G)) = Held(G) - (IF d \in G THEN 1 ELSE 0)
               /\ Held(G) - (IF d \in G THEN 1 ELSE 0) \in Nat
    <3>1. Cardinality(HeldIn(less, G)) =
             Cardinality(HeldIn(directory_queue, G)) - (IF d \in G THEN 1 ELSE 0)
      BY <1>6, <2>2, HeldLess
    <3>2. Cardinality(HeldIn(less, G)) \in Nat
      BY <1>6, <2>5, HeldFinite
    <3> QED
      BY <3>1, <3>2 DEF Held
  <2>7. ASSUME NEW G, subs \cap G = {}
        PROVE  Cardinality(HeldIn(directory_queue', G)) = Held(G) - (IF d \in G THEN 1 ELSE 0)
    <3>1. HeldIn(less (+) SetToBag(subs), G) = HeldIn(less, G)
      BY <1>6, <2>7, HeldNoMore
    <3> QED
      BY <1>7, <2>6, <3>1
  <2>8. ASSUME NEW G, NEW e, subs \cap G = {e}
        PROVE  Cardinality(HeldIn(directory_queue', G)) = Held(G) - (IF d \in G THEN 1 ELSE 0) + 1
    <3>1. Cardinality(HeldIn(less (+) SetToBag(subs), G)) = Cardinality(HeldIn(less, G)) + 1
      BY <1>6, <2>5, <2>8, HeldOneMore
    <3> QED
      BY <1>7, <2>6, <3>1
  <2>9. SurelyLeading(f) \subseteq Leading(f)
    BY DEF SurelyLeading
  <2>10. CASE d \in Leading(f)
    <3>1. f \in EndingIn[suffix] \cap Below[d]
      BY <2>10 DEF Leading
    <3>2. PICK e \in Entries[d] :
             /\ f \in Below[e]
             /\ \A x \in Entries[d] : f \in Below[x] => x = e
             /\ e \in Dirs => f \notin Entries[d]
             /\ e \notin Dirs => e = f
      BY <1>9, <3>1, NextAbove
    <3>3. \A x \in subs \cap Leading(f) : x = e
      BY <1>4, <3>2 DEF Leading
    <3>4. e \in Below[d] /\ Below[e] \subseteq Below[d]
      BY <1>9, <1>11, BelowEntry
    <3>5. CASE e \in subs
      <4>1. e \in Dirs /\ f \notin found
        BY <1>4, <3>2, <3>5
      <4>2. e \in Leading(f) /\ subs \cap Leading(f) = {e}
        BY <3>1, <3>2, <3>3, <3>5, <4>1 DEF Leading
      <4>3. Held(Leading(f))' = Held(Leading(f))
        <5>1. Cardinality(HeldIn(directory_queue', Leading(f))) = Held(Leading(f)) - 1 + 1
          BY <2>8, <2>10, <4>2
        <5> QED
          BY <2>2, <2>3, <5>1
      <4>4. Held(SurelyLeading(f))' \in Int /\ Held(SurelyLeading(f))' >= Held(SurelyLeading(f))
        <5>1. CASE e \in SurelyLeading(f)
          <6>1. subs \cap SurelyLeading(f) = {e}
            BY <2>9, <4>2, <5>1
          <6>2. Cardinality(HeldIn(directory_queue', SurelyLeading(f))) =
                   Held(SurelyLeading(f)) - (IF d \in SurelyLeading(f) THEN 1 ELSE 0) + 1
            BY <2>8, <6>1
          <6> QED
            BY <2>2, <2>3, <6>2
        <5>2. CASE e \notin SurelyLeading(f)
          <6>1. subs \cap SurelyLeading(f) = {}
            BY <2>9, <4>2, <5>2
          <6>2. d \notin SurelyLeading(f)
            BY <3>4, <4>2, <5>2 DEF SurelyLeading, CannotFail
          <6>3. Cardinality(HeldIn(directory_queue', SurelyLeading(f))) = Held(SurelyLeading(f)) - 0
            BY <2>7, <6>1, <6>2
          <6> QED
            BY <2>2, <2>3, <6>3
        <5> QED
          BY <5>1, <5>2
      <4>5. Stock(f)' = Stock(f)
        BY <2>2, <2>4, <4>1
      <4>6. ~err_flag' => ~err_flag
        BY <1>3
      <4> QED
        BY <1>10, <2>1, <2>2, <4>3, <4>4, <4>5, <4>6 DEF Accounted
    <3>6. CASE e \notin subs
      <4>1. subs \cap Leading(f) = {} /\ subs \cap SurelyLeading(f) = {}
        BY <2>9, <3>3, <3>6
      <4>2. Held(Leading(f))' = Held(Leading(f)) - 1
        <5>1. Cardinality(HeldIn(directory_queue', Leading(f))) = Held(Leading(f)) - 1
          BY <2>7, <2>10, <4>1
        <5> QED
          BY <2>3, <5>1
      <4>3. Held(SurelyLeading(f))' =
               Held(SurelyLeading(f)) - (IF d \in SurelyLeading(f) THEN 1 ELSE 0)
        BY <2>3, <2>7, <4>1
      <4>4. CASE e \in bad
        <5>1. d \notin SurelyLeading(f)
          BY <3>2, <3>4, <4>4 DEF SurelyLeading, CannotFail
        <5>2. f \notin found
          <6>1. f \in Entries[d] => f = e
            BY <1>9, <3>2, BelowFacts
          <6> QED
            BY <1>4, <4>4, <6>1
        <5>3. Stock(f)' = Stock(f) /\ Held(SurelyLeading(f))' = Held(SurelyLeading(f))
          BY <2>2, <2>4, <4>3, <5>1, <5>2
        <5>4. err_flag'
          BY <1>3, <4>4
        <5> QED
          BY <1>10, <2>1, <2>2, <4>2, <5>3, <5>4 DEF Accounted
      <4>5. CASE e \notin bad
        <5>1. e \notin Dirs /\ e = f
          BY <1>4, <3>2, <3>6, <4>5
        <5>2. f \in found
          BY <1>4, <3>1, <3>2, <4>5, <5>1
        <5>3. Stock(f)' = Stock(f) + 1
          BY <2>4, <5>2
        <5>4. ~err_flag' => ~err_flag
          BY <1>3
        <5> QED
          BY <1>10, <2>1, <2>2, <4>2, <4>3, <5>3, <5>4 DEF Accounted
      <4> QED
        BY <4>4, <4>5
    <3> QED
      BY <3>5, <3>6
  <2>11. CASE d \notin Leading(f)
    <3>1. d \in Dirs /\ ~(f \in EndingIn[suffix] /\ f \in Below[d])
      BY <1>9, <2>11 DEF Leading
    <3>2. f \notin found
      BY <1>4, <1>11, <3>1
    <3>3. subs \cap Leading(f) = {}
      <4> SUFFICES ASSUME NEW e \in subs, e \in Leading(f) PROVE FALSE
        OBVIOUS
      <4>1. e \in Below[d]
        BY <1>4, <1>11
      <4>2. Below[e] \subseteq Below[d]
        BY <1>9, <4>1, BelowEntry
      <4> QED
        BY <3>1, <4>2 DEF Leading
    <3>4. subs \cap SurelyLeading(f) = {} /\ d \notin SurelyLeading(f)
      BY <2>9, <2>11, <3>3
    <3>5. /\ Held(Leading(f))' = Held(Leading(f)) - 0
          /\ Held(SurelyLeading(f))' = Held(SurelyLeading(f)) - 0
      BY <2>3, <2>7, <2>11, <3>3, <3>4
    <3>6. Stock(f)' = Stock(f)
      BY <2>2, <2>4, <3>2
    <3>7. ~err_flag' => ~err_flag
      BY <1>3
    <3> QED
      BY <1>10, <2>1, <2>2, <3>5, <3>6, <3>7 DEF Accounted
  <2> QED
    BY <2>10, <2>11
<1> QED
  BY <1>10, <1>12, <1>13, <1>14, <1>15, <1>16 DEF CompareInv

\* All threads are joined.
LEMMA FinishCollectionStep ==
    ASSUME CompareInv, FinishCollection
    PROVE  CompareInv'
<1>1. /\ main = "collect" /\ main' = "analyze" /\ Idle
      /\ UNCHANGED <<argv, i, options, err_flag, work, report, lines>>
  BY DEF FinishCollection, args, printed
<1>2. BagsKept /\ OptionsKept /\ NothingEarly /\ ErrorsBlamed /\ QueuesNamed /\ PathsFound /\ ReasonsAccounted
  BY DEF CompareInv
<1>3. BagsKept'
  BY <1>1, <1>2 DEF BagsKept, options, work
<1>4. OptionsKept'
  BY <1>1, <1>2, ArgvStays DEF OptionsKept, options, Reading, Working
<1>5. NothingEarly'
  BY <1>1, <1>2 DEF NothingEarly, Reading, Working, Idle, work
<1>6. ErrorsBlamed'
  BY <1>1, <1>2, ArgvStays DEF ErrorsBlamed, Working, Failed
<1>7. QueuesNamed'
  BY <1>1, <1>2, ArgvStays DEF QueuesNamed, work
<1>8. PathsFound'
  BY <1>1, <1>2, ArgvStays DEF PathsFound, Reading
<1>9. ReasonsAccounted'
  <2> SUFFICES ASSUME NEW f \in Files PROVE Accounted(f)'
    BY DEF ReasonsAccounted
  <2>1. Examined(f)' = Examined(f)
    BY <1>1, ArgvStays DEF Examined
  <2>2. Accounted(f)
    BY <1>1, <1>2 DEF ReasonsAccounted, Working
  <2> QED
    BY <1>1, <2>1, <2>2, AccountStays DEF options, work
<1>10. ReportWanted' /\ RestKept'
  BY <1>1 DEF ReportWanted, RestKept
<1> QED
  BY <1>3, <1>4, <1>5, <1>6, <1>7, <1>8, <1>9, <1>10 DEF CompareInv

\* The number of pairs, when the product fits in an int.
LEMMA PairsCounted ==
    ASSUME NEW n \in Nat, n * (n - 1) <= IntMax
    PROVE  2 * TotalComparisons(n) = n * (n - 1)
<1>1. IntMax \in Nat \ {0}
  BY IntAssumption
<1>2. PICK m \in Nat : m = n * (n - 1)
  OBVIOUS
<1>3. Wrap(m) = m
  <2>1. m + IntMax + 1 \in 0..(2 * IntMax + 1)
    BY <1>1, <1>2
  <2>2. ASSUME NEW a \in Nat, NEW b \in Nat \ {0}, a < b PROVE a % b = a
    BY <2>2
  <2>3. (m + IntMax + 1) % (2 * IntMax + 2) = m + IntMax + 1
    BY <1>1, <2>1, <2>2
  <2> QED
    BY <1>1, <1>2, <2>3 DEF Wrap
<1>4. 2 * (m \div 2) = m
  <2>1. PICK k \in Nat : n = 2 * k \/ n = 2 * k + 1
    <3>1. n \div 2 \in Nat /\ (n = 2 * (n \div 2) \/ n = 2 * (n \div 2) + 1)
      OBVIOUS
    <3> QED
      BY <3>1
  <2>2. PICK h \in Int : m = 2 * h
    <3>1. n = 2 * k => m = 2 * (k * (2 * k - 1)) /\ k * (2 * k - 1) \in Int
      BY <1>2
    <3>2. n = 2 * k + 1 => m = 2 * (k * (2 * k + 1)) /\ k * (2 * k + 1) \in Int
      BY <1>2
    <3> QED
      BY <2>1, <3>1, <3>2
  <2> QED
    BY <2>2
<1> QED
  BY <1>2, <1>3, <1>4 DEF TotalComparisons, Half

\* The tables are compared, unless there are fewer than two.
LEMMA AnalyzeStep ==
    ASSUME CompareInv, CompareTables \/ ReportTooFew
    PROVE  CompareInv'
<1>1. /\ main = "analyze" /\ main' = "clear"
      /\ UNCHANGED <<argv, i, suffix, directory_queue, file_queue, wf_stack>>
  BY DEF CompareTables, ReportTooFew, args, options, work
<1>2. BagsKept /\ OptionsKept /\ NothingEarly /\ ErrorsBlamed /\ QueuesNamed /\ PathsFound
  BY DEF CompareInv
<1>3. \/ /\ size >= 2 /\ UNCHANGED err_flag /\ report' = wf_stack /\ lines' = jsd_total_comp
         /\ threads' = [threads EXCEPT !["-a"] = IF @ > jsd_total_comp THEN jsd_total_comp ELSE @]
      \/ size < 2 /\ err_flag' /\ err_flag' = TRUE /\ UNCHANGED <<threads, report, lines>>
  BY DEF CompareTables, ReportTooFew, options, printed
<1>4. size \in Nat /\ size = Cardinality(Copies(wf_stack))
  <2>1. IsABag(wf_stack) /\ DOMAIN wf_stack \in SUBSET Paths
    BY <1>2 DEF BagsKept, Paths
  <2>2. IsFiniteSet(DOMAIN wf_stack)
    BY <2>1, CompareAssumption, FS_Subset
  <2> QED
    BY <2>1, <2>2, CopiesFinite DEF size
<1>5. /\ Idle /\ report = EmptyBag /\ lines = 0
      /\ Sure \sqsubseteq wf_stack /\ wf_stack \sqsubseteq Wanted
      /\ Cardinality(Copies(Sure)) \in Nat /\ Cardinality(Copies(Sure)) <= size
      /\ ~err_flag => wf_stack = Wanted
  BY <1>1, <1>2, <1>4, AllDigested DEF NothingEarly, Working
<1>6. BagsKept'
  <2>1. err_flag' \in BOOLEAN
    BY <1>2, <1>3 DEF BagsKept
  <2> QED
    BY <1>1, <1>2, <2>1 DEF BagsKept
<1>7. LastOptionWins'
  <2> SUFFICES ASSUME NEW f \in NumberFlags, NEW asked, asked = getDigits(LastValue(f, 1))
               PROVE  /\ asked > 0
                      /\ LastValue(f, 1) <= IntMax => asked = LastValue(f, 1)
                      /\ threads'[f] = IF f = "-a" /\ report' # EmptyBag /\ asked > jsd_total_comp
                                       THEN jsd_total_comp ELSE asked
    BY <1>1, ArgvStays DEF LastOptionWins, jsd_total_comp, size
  <2>1. threads[f] = asked /\ asked > 0 /\ DOMAIN threads = NumberFlags
    BY <1>1, <1>2 DEF OptionsKept, Working
  <2>2. LastValue(f, 1) <= IntMax => asked = LastValue(f, 1)
    BY <1>1, <1>2, DigitsAre DEF OptionsKept, Working
  <2>3. CASE /\ size >= 2 /\ report' = wf_stack
             /\ threads' = [threads EXCEPT !["-a"] = IF @ > jsd_total_comp THEN jsd_total_comp ELSE @]
    <3>1. wf_stack # EmptyBag
      BY <1>4, <2>3, NoCopies
    <3> QED
      BY <2>1, <2>2, <2>3, <3>1
  <2>4. CASE UNCHANGED <<threads, report, lines>>
    BY <1>5, <2>1, <2>2, <2>4
  <2> QED
    BY <1>3, <2>3, <2>4
<1>8. OptionsKept'
  <2>1. DOMAIN threads' = NumberFlags
    BY <1>2, <1>3 DEF OptionsKept
  <2>2. Given({"-", "-?"})' = {}
    BY <1>1, <1>2, ArgvStays DEF OptionsKept, Reading
  <2> QED
    BY <1>1, <1>7, <2>1, <2>2 DEF OptionsKept, Reading, Working
<1>9. NothingEarly'
  BY <1>1 DEF NothingEarly, Reading, Working
<1>10. ErrorsBlamed'
  <2>1. err_flag' => Blamed \/ TooFew
    <3>1. err_flag => Blamed
      BY <1>1, <1>2 DEF ErrorsBlamed, Working
    <3>2. ~err_flag /\ size < 2 => TooFew
      BY <1>4, <1>5 DEF TooFew
    <3> QED
      BY <1>3, <3>1, <3>2
  <2> QED
    BY <1>1, <2>1, ArgvStays DEF ErrorsBlamed, Working, Failed
<1>11. QueuesNamed'
  BY <1>1, <1>2, ArgvStays DEF QueuesNamed
<1>12. PathsFound'
  <2>1. ~err_flag' => ~err_flag
    BY <1>3
  <2> QED
    BY <1>1, <1>2, <2>1, ArgvStays DEF PathsFound, Reading
<1>13. ReasonsAccounted'
  BY <1>1 DEF ReasonsAccounted, Working
<1>14. size >= 2 /\ lines' = jsd_total_comp => EveryPairPrinted(size)'
  <2> SUFFICES ASSUME lines' = jsd_total_comp, size * (size - 1) <= IntMax
               PROVE  2 * lines' = size * (size - 1)
    <3>1. size' = size
      BY <1>1 DEF size
    <3> QED
      BY <3>1 DEF EveryPairPrinted
  <2> QED
    BY <1>4, PairsCounted DEF jsd_total_comp
<1>15. ReportWanted'
  <2> SUFFICES ASSUME ~err_flag'
               PROVE  /\ report' = Wanted /\ Cardinality(Copies(Wanted)) >= 2
                      /\ EveryPairPrinted(Cardinality(Copies(Wanted)))'
    BY <1>1, ArgvStays DEF ReportWanted
  <2>1. size >= 2 /\ report' = wf_stack /\ wf_stack = Wanted /\ lines' = jsd_total_comp
    BY <1>3, <1>5
  <2>2. size' = size /\ Wanted' = Wanted
    BY <1>1, ArgvStays DEF size
  <2> QED
    BY <1>4, <1>14, <2>1, <2>2 DEF EveryPairPrinted
<1>16. RestKept'
  <2> SUFFICES Idle' /\ RestReported'
    BY <1>1 DEF RestKept
  <2>1. Idle' /\ Sure' = Sure /\ Wanted' = Wanted /\ size' = size
    BY <1>1, <1>5, ArgvStays DEF Idle, size
  <2>2. CASE size >= 2 /\ report' = wf_stack /\ lines' = jsd_total_comp
    <3>1. EveryPairPrinted(Cardinality(Copies(report)))'
      BY <1>4, <1>14, <2>1, <2>2 DEF EveryPairPrinted
    <3> QED
      BY <1>5, <2>1, <2>2, <3>1 DEF RestReported
  <2>3. CASE size < 2 /\ UNCHANGED <<report, lines>>
    <3>1. Cardinality(Copies(Sure)) < 2
      BY <1>4, <1>5, <2>3
    <3> QED
      BY <1>5, <2>1, <2>3, <3>1 DEF RestReported
  <2> QED
    BY <1>3, <2>1, <2>2, <2>3
<1> QED
  BY <1>6, <1>8, <1>9, <1>10, <1>11, <1>12, <1>13, <1>15, <1>16 DEF CompareInv

\* The tables are freed, and the flag decides on the exit code.
LEMMA ClearStep ==
    ASSUME CompareInv, ClearRepository
    PROVE  CompareInv'
<1>1. /\ main = "clear" /\ main' = IF err_flag THEN "EXIT_FAILURE" ELSE "EXIT_SUCCESS"
      /\ wf_stack' = EmptyBag
      /\ UNCHANGED <<argv, i, options, err_flag, directory_queue, file_queue, report, lines>>
  BY DEF ClearRepository, args, printed
<1>2. BagsKept /\ OptionsKept /\ ErrorsBlamed /\ QueuesNamed /\ PathsFound /\ ReportWanted /\ RestKept
  BY DEF CompareInv
<1>3. BagsKept'
  BY <1>1, <1>2, CountOfEmpty DEF BagsKept, options
<1>4. OptionsKept'
  BY <1>1, <1>2, ArgvStays DEF OptionsKept, options, Reading, Working
<1>5. NothingEarly'
  BY <1>1 DEF NothingEarly, Reading, Working
<1>6. ErrorsBlamed'
  BY <1>1, <1>2, ArgvStays DEF ErrorsBlamed, Working, Failed
<1>7. QueuesNamed'
  BY <1>1, <1>2, ArgvStays DEF QueuesNamed
<1>8. PathsFound'
  BY <1>1, <1>2, ArgvStays DEF PathsFound, Reading
<1>9. ReasonsAccounted'
  BY <1>1 DEF ReasonsAccounted, Working
<1>10. ReportWanted'
  BY <1>1, <1>2, ArgvStays DEF ReportWanted, EveryPairPrinted
<1>11. RestKept'
  <2>1. Idle /\ RestReported
    BY <1>1, <1>2 DEF RestKept
  <2>2. Idle' /\ RestReported'
    BY <1>1, <2>1, ArgvStays DEF Idle, RestReported, EveryPairPrinted
  <2> QED
    BY <1>1, <2>2 DEF RestKept
<1> QED
  BY <1>3, <1>4, <1>5, <1>6, <1>7, <1>8, <1>9, <1>10, <1>11 DEF CompareInv

\* The process may die at any time, and dies when the number of pairs is negative.
LEMMA DieStep ==
    ASSUME CompareInv, Die \/ RefuseLength
    PROVE  CompareInv'
<1>1. main' = "died" /\ UNCHANGED <<argv, i, options, err_flag, work, report, lines>>
  BY DEF Die, RefuseLength, args, printed
<1>2. BagsKept /\ OptionsKept /\ QueuesNamed
  BY DEF CompareInv
<1>3. BagsKept'
  BY <1>1, <1>2 DEF BagsKept, options, work
<1>4. OptionsKept'
  BY <1>1, <1>2 DEF OptionsKept, options, Reading, Working
<1>5. QueuesNamed'
  BY <1>1, <1>2, ArgvStays DEF QueuesNamed, work
<1> QED
  BY <1>1, <1>3, <1>4, <1>5
  DEF CompareInv, NothingEarly, ErrorsBlamed, PathsFound, ReasonsAccounted, ReportWanted, RestKept,
      Reading, Working, Failed

\* A step that changes nothing.
LEMMA StutterStep ==
    ASSUME CompareInv, UNCHANGED vars
    PROVE  CompareInv'
<1>1. UNCHANGED <<argv, i, main, threads, suffix, err_flag, directory_queue, file_queue, wf_stack, report, lines>>
  BY DEF vars, args, options, work, printed
<1>2. BagsKept'
  BY <1>1 DEF CompareInv, BagsKept
<1>3. Reading' = Reading /\ Working' = Working /\ Failed' = Failed
  BY <1>1 DEF Reading, Working, Failed
<1>4. OptionsKept'
  <2>1. LastOptionWins' <=> LastOptionWins
    BY <1>1, ArgvStays DEF LastOptionWins, jsd_total_comp, size
  <2>2. \A flag, default, v : LastSoFar(flag, default, i, v)' <=> LastSoFar(flag, default, i, v)
    <3>1. \A flag : Earlier(flag, i)' = Earlier(flag, i)
      BY <1>1, ArgvStays DEF Earlier
    <3> QED
      BY <1>1, <3>1 DEF LastSoFar
  <2>3. \A flags : {argv[k].value : k \in Given(flags)}' = {argv[k].value : k \in Given(flags)}
    BY <1>1, ArgvStays
  <2> QED
    BY <1>1, <1>3, <2>1, <2>2, <2>3, ArgvStays DEF CompareInv, OptionsKept
<1>5. NothingEarly'
  BY <1>1, <1>3 DEF CompareInv, NothingEarly, Idle
<1>6. ErrorsBlamed'
  BY <1>1, <1>3, ArgvStays DEF CompareInv, ErrorsBlamed
<1>7. QueuesNamed'
  BY <1>1, ArgvStays DEF CompareInv, QueuesNamed
<1>8. PathsFound'
  BY <1>1, <1>3, ArgvStays DEF CompareInv, PathsFound
<1>9. ReasonsAccounted'
  <2> SUFFICES ASSUME Working, NEW f \in Files PROVE Accounted(f)'
    BY <1>3 DEF ReasonsAccounted
  <2>1. Examined(f)' = Examined(f)
    BY <1>1, ArgvStays DEF Examined
  <2>2. Accounted(f)
    BY DEF CompareInv, ReasonsAccounted
  <2> QED
    BY <1>1, <2>1, <2>2, AccountStays
<1>10. ReportWanted'
  BY <1>1, ArgvStays DEF CompareInv, ReportWanted, EveryPairPrinted
<1>11. RestKept'
  <2>1. RestReported' <=> RestReported
    BY <1>1, ArgvStays DEF RestReported, EveryPairPrinted
  <2> QED
    BY <1>1, <2>1 DEF CompareInv, RestKept, Idle
<1> QED
  BY <1>2, <1>4, <1>5, <1>6, <1>7, <1>8, <1>9, <1>10, <1>11 DEF CompareInv

\* At every moment of every run each reason to examine a file that main has come
\* to (compare.c:172-236) is one copy of the file or of a directory above it, in
\* the queues or the repository, unless an error is remembered for which there
\* is a reason, and then it is if nothing on the way to the file can fail; and
\* the options are those given last.
THEOREM CompareInvariant == Spec => []CompareInv
<1>1. CompareInv /\ [Next]_vars => CompareInv'
  <2> SUFFICES ASSUME CompareInv, [Next]_vars
               PROVE  CompareInv'
    OBVIOUS
  <2>1. CASE Start \/ ReadNumber \/ ReadSuffix \/ RefuseDash \/ RefuseOption \/ PassPath
    BY <2>1, OptionStep
  <2>2. CASE CreateQueues
    BY <2>2, QueuesStep
  <2>3. CASE PassOption \/ ReportPath
    BY <2>3, PassArgument
  <2>4. CASE QueuePath
    BY <2>4, QueuePathStep
  <2>5. CASE StartCollection
    BY <2>5, StartCollectionStep
  <2>6. CASE ReadDirectory
    BY <2>6, ReadDirectoryStep
  <2>7. CASE DigestFile
    BY <2>7, DigestFileStep
  <2>8. CASE LoseWork
    BY <2>8, LoseWorkStep
  <2>9. CASE FinishCollection
    BY <2>9, FinishCollectionStep
  <2>10. CASE CompareTables \/ ReportTooFew
    BY <2>10, AnalyzeStep
  <2>11. CASE ClearRepository
    BY <2>11, ClearStep
  <2>12. CASE Die \/ RefuseLength
    BY <2>12, DieStep
  <2>13. CASE UNCHANGED vars
    BY <2>13, StutterStep
  <2> QED
    BY <2>1, <2>2, <2>3, <2>4, <2>5, <2>6, <2>7, <2>8, <2>9, <2>10, <2>11, <2>12, <2>13
    DEF Next, MainStep, Stop
<1> QED
  BY <1>1, InitInv, PTL DEF Spec

-----------------------------------------------------------------------------
(* What compare promises.                                                  *)

\* compare returns EXIT_SUCCESS (compare.c:477-480) only when no option was
\* refused, every path named exists, and the files compared are those that the
\* arguments ask for, as often as they ask for them, and no other.  Every two of
\* them then have a line, if the number of pairs, which is computed in an int and
\* wraps (compare.c:411), fits in one.
THEOREM SuccessIsComplete == Spec => []SuccessMeansComplete
<1>1. CompareInv => SuccessMeansComplete
  <2> SUFFICES ASSUME CompareInv, main = "EXIT_SUCCESS"
               PROVE  /\ Given({"-", "-?"}) = {}
                      /\ \A k \in Given({"path"}) : argv[k].value \in Paths
                      /\ report = Wanted
                      /\ Cardinality(Copies(Wanted)) >= 2
                      /\ EveryPairPrinted(Cardinality(Copies(Wanted)))
    BY DEF SuccessMeansComplete
  <2>1. Given({"-", "-?"}) = {}
    BY DEF CompareInv, OptionsKept, Reading
  <2>2. /\ ~err_flag /\ report = Wanted /\ Cardinality(Copies(Wanted)) >= 2
        /\ EveryPairPrinted(Cardinality(Copies(Wanted)))
    BY DEF CompareInv, ReportWanted
  <2>3. \A k \in Given({"path"}) : argv[k].value \in Paths
    BY <2>2 DEF CompareInv, PathsFound, Reading
  <2> QED
    BY <2>1, <2>2, <2>3
<1> QED
  BY <1>1, CompareInvariant, PTL

\* At an exit of main with either code nothing is left in the queues and the
\* repository (compare.c:450-480), and every file that was asked for and that no
\* failure could hide has been compared with the others, whatever failed before,
\* unless there were fewer than two of them.
THEOREM RestIsReported == Spec => []RestIsCompared
<1>1. CompareInv => RestIsCompared
  BY DEF CompareInv, RestKept, RestIsCompared
<1> QED
  BY <1>1, CompareInvariant, PTL

\* compare returns EXIT_FAILURE (compare.c:239, 477) only when a path named does not exist, something
\* at or below one may fail, or there are fewer than two files to compare.
THEOREM FailureIsReasoned == Spec => []FailureHasReason
<1>1. CompareInv => FailureHasReason
  BY DEF CompareInv, ErrorsBlamed, FailureHasReason, Failed, Blamed, TooFew
<1> QED
  BY <1>1, CompareInvariant, PTL

\* When the threads are started, and when the comparison is over, each number is
\* the one given last, wherever it was given (compare.c:126); that of the
\* analysis threads is capped by the number of pairs.
THEOREM OptionsWin == Spec => []LastOptionWins
<1>1. CompareInv => LastOptionWins
  <2> SUFFICES ASSUME CompareInv PROVE LastOptionWins
    OBVIOUS
  <2>1. CASE main = "clear"
    BY <2>1 DEF CompareInv, OptionsKept
  <2>2. CASE main = "collect"
    <3>1. report = EmptyBag
      BY <2>2 DEF CompareInv, NothingEarly, Working
    <3>2. ASSUME NEW f \in NumberFlags
          PROVE  /\ getDigits(LastValue(f, 1)) > 0 /\ threads[f] = getDigits(LastValue(f, 1))
                 /\ LastValue(f, 1) <= IntMax => getDigits(LastValue(f, 1)) = LastValue(f, 1)
      BY <2>2, DigitsAre DEF CompareInv, OptionsKept, Working
    <3> QED
      BY <3>1, <3>2 DEF LastOptionWins
  <2>3. CASE main \notin {"collect", "clear"}
    BY <2>3 DEF LastOptionWins
  <2> QED
    BY <2>1, <2>2, <2>3
<1> QED
  BY <1>1, CompareInvariant, PTL
=============================================================================
