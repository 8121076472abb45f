---------------------------- MODULE RelPqProofs ----------------------------
(***************************************************************************)
(* What the operations of the release queue do to a sound queue, for every *)
(* number of servers, size of an int and size of the bitmaps.              *)
(***************************************************************************)
EXTENDS RelPq, Facts

\* The servers that have a node in some list of the queue.
Held(q) == {n \in Server : Places(q, n) # {}}

\* Every operation leaves a sound queue sound: typed, each bit set exactly when
\* its list has a node, each node in one list at most, and all of them counted.
Typed(q) ==
  /\ IsRelPq(q)
  /\ q.bitmap_size \in Nat \ {0}
  /\ q.active_bitmap_int_index \in 0 .. q.bitmap_size - 1

OnePlace(q) == \A n \in Server : \A p, r \in Places(q, n) : p = r

Sound(q) ==
  /\ Typed(q)
  /\ BitmapMatchesLists(q)
  /\ OnePlace(q)
  /\ q.nr_of_elements = Cardinality(Held(q))

----------------------------------------------------------------------------
\* Least, the ffs() of the program, finds the least element.
LEMMA LeastProperty ==
  ASSUME NEW S \in SUBSET Nat, S # {}
  PROVE  Least(S) \in S /\ \A y \in S : Least(S) <= y
BY NatMin DEF Least

\* A value of 1 .. W has its bit in one integer, and each bit its value.
LEMMA BitPosition ==
  ASSUME NEW size \in Nat \ {0}, NEW v \in 1 .. size * INT_SIZE_BIT
  PROVE  /\ DivByIntSize(v) \in 0 .. size - 1
         /\ BitOf(v) \in 1 .. INT_SIZE_BIT
         /\ v = BitOf(v) + DivByIntSize(v) * INT_SIZE_BIT
<1> DEFINE d == v \div INT_SIZE_BIT
           m == v % INT_SIZE_BIT
<1>0. INT_SIZE_BIT \in Nat \ {0} /\ v \in Nat /\ v > 0 /\ v <= size * INT_SIZE_BIT
  BY RelPqAssumption
<1>1. d \in Nat /\ m \in 0 .. INT_SIZE_BIT - 1 /\ v = INT_SIZE_BIT * d + m
  BY <1>0, DivMod
<1> HIDE DEF d, m
<1>2. CASE m = 0
  <2>1. d > 0 /\ d <= size
    BY <1>0, <1>1, <1>2
  <2>2. DivByIntSize(v) = d - 1
    BY <1>2 DEF DivByIntSize, d, m
  <2>3. BitOf(v) = INT_SIZE_BIT
    BY <2>2, <1>0, <1>1, <1>2 DEF BitOf
  <2> QED
    BY <2>1, <2>2, <2>3, <1>0, <1>1, <1>2
<1>3. CASE m # 0
  <2>1. d < size
    BY <1>0, <1>1, <1>3
  <2>2. DivByIntSize(v) = d
    BY <1>3, <1>1 DEF DivByIntSize, d, m
  <2>3. BitOf(v) = m
    BY <2>2, <1>0, <1>1 DEF BitOf
  <2> QED
    BY <2>1, <2>2, <2>3, <1>0, <1>1, <1>3
<1> QED
  BY <1>2, <1>3

LEMMA ValuePosition ==
  ASSUME NEW size \in Nat \ {0}, NEW i \in 0 .. size - 1,
         NEW bit \in 1 .. INT_SIZE_BIT
  PROVE  /\ bit + i * INT_SIZE_BIT \in 1 .. size * INT_SIZE_BIT
         /\ BitOf(bit + i * INT_SIZE_BIT) = bit
         /\ DivByIntSize(bit + i * INT_SIZE_BIT) = i
<1> DEFINE v == bit + i * INT_SIZE_BIT
<1>0. INT_SIZE_BIT \in Nat \ {0} /\ i \in Nat /\ bit \in Nat
  BY RelPqAssumption
<1>1. v \in 1 .. size * INT_SIZE_BIT
  <2>1. i + 1 <= size
    BY <1>0
  <2>2. (i + 1) * INT_SIZE_BIT <= size * INT_SIZE_BIT
    BY <2>1, <1>0
  <2>3. i * INT_SIZE_BIT \in Nat /\ size * INT_SIZE_BIT \in Nat
    BY <1>0
  <2> QED
    BY <2>2, <2>3, <1>0
<1>2. /\ DivByIntSize(v) \in 0 .. size - 1
      /\ BitOf(v) \in 1 .. INT_SIZE_BIT
      /\ v = BitOf(v) + DivByIntSize(v) * INT_SIZE_BIT
  BY <1>1, BitPosition
<1>3. DivByIntSize(v) = i
  <2> DEFINE k == DivByIntSize(v)
             c == BitOf(v)
  <2>1. k \in Nat /\ c \in 1 .. INT_SIZE_BIT
        /\ bit + i * INT_SIZE_BIT = c + k * INT_SIZE_BIT
    BY <1>2
  <2> HIDE DEF k, c
  <2>2. ~(k < i)
    <3> SUFFICES ASSUME k < i PROVE FALSE
      OBVIOUS
    <3>1. (k + 1) * INT_SIZE_BIT <= i * INT_SIZE_BIT
      BY <2>1, <1>0
    <3> QED
      BY <3>1, <2>1, <1>0
  <2>3. ~(i < k)
    <3> SUFFICES ASSUME i < k PROVE FALSE
      OBVIOUS
    <3>1. (i + 1) * INT_SIZE_BIT <= k * INT_SIZE_BIT
      BY <2>1, <1>0
    <3> QED
      BY <3>1, <2>1, <1>0
  <2>4. k = i
    BY <2>1, <2>2, <2>3, <1>0
  <2> QED
    BY <2>4 DEF k
<1> QED
  BY <1>1, <1>2, <1>3, <1>0

----------------------------------------------------------------------------
(* Searching.                                                              *)

\* A queue that moved to another place is a queue.
LEMMA MovedIsRelPq ==
  ASSUME NEW q, IsRelPq(q), NEW vt \in Int, NEW active \in {0, 1},
         NEW index \in Nat,
         NEW s, s = [q EXCEPT !.active_bitmap = active,
                              !.active_bitmap_int_index = index,
                              !.virtual_time = vt]
  PROVE  IsRelPq(s)
BY DEF IsRelPq, Wrap

\* Two queues that hold the same, whatever the bitmap they are at.
SameContent(s, q) ==
  /\ s.nr_of_elements = q.nr_of_elements
  /\ s.bitmap_size = q.bitmap_size
  /\ s.bitmap = q.bitmap
  /\ s.bitmap_extension = q.bitmap_extension
  /\ s.since = q.since

LEMMA SameContentSound ==
  ASSUME NEW q, NEW s, Sound(q), Typed(s), SameContent(s, q)
  PROVE  Sound(s) /\ Held(s) = Held(q)
<1>1. \A n \in Server : Places(s, n) = Places(q, n)
  BY DEF SameContent, Places, Wrap
<1>2. Held(s) = Held(q) /\ OnePlace(s)
  BY <1>1 DEF Held, OnePlace, Sound
<1>3. BitmapMatchesLists(s)
  BY DEF SameContent, BitmapMatchesLists, Wrap, Sound
<1> QED
  BY <1>2, <1>3 DEF Sound, SameContent

LEMMA ShiftBitmapSound ==
  ASSUME NEW q, Typed(q)
  PROVE  LET s == ShiftBitmap(q)
         IN  /\ Typed(s)
             /\ SameContent(s, q)
             /\ s.active_bitmap = Other(q.active_bitmap)
             /\ s.active_bitmap_int_index = 0
<1> DEFINE s == ShiftBitmap(q)
<1>1. /\ s = [q EXCEPT !.active_bitmap = Other(@),
                       !.active_bitmap_int_index = 0,
                       !.virtual_time = -(Wrap(q) - @)]
      /\ q.bitmap_size \in Nat \ {0}
      /\ IsRelPq(q)
  BY DEF ShiftBitmap, Typed
<1>2. Wrap(q) \in Int
  BY <1>1, RelPqAssumption DEF Wrap
<1>3. -(Wrap(q) - q.virtual_time) \in Int
  BY <1>1, <1>2 DEF IsRelPq
<1>4. /\ SameContent(s, q)
      /\ s.active_bitmap = Other(q.active_bitmap)
      /\ s.active_bitmap_int_index = 0
  BY <1>1 DEF SameContent, IsRelPq
<1>5. Other(q.active_bitmap) \in {0, 1}
  BY <1>1 DEF IsRelPq, Other
<1>6. Wrap(s) = Wrap(q)
  BY <1>4 DEF Wrap, SameContent
<1>7. IsRelPq(s)
  <2> DEFINE vt == -(Wrap(q) - q.virtual_time)
             active == Other(q.active_bitmap)
  <2>1. s = [q EXCEPT !.active_bitmap = active,
                      !.active_bitmap_int_index = 0,
                      !.virtual_time = vt]
    BY <1>1
  <2>2. vt \in Int /\ active \in {0, 1} /\ 0 \in Nat /\ IsRelPq(q)
    BY <1>1, <1>3, <1>5
  <2> HIDE DEF vt, active, s
  <2> QED
    BY <2>1, <2>2, MovedIsRelPq
<1> QED
  BY <1>1, <1>4, <1>7 DEF Typed, SameContent

\* A search over the integers of the active bitmap stops at a list with a node.
LEMMA FoundValueProperty ==
  ASSUME NEW q, Sound(q), NonEmptyInts(q) # {},
         NEW s, s = [q EXCEPT !.active_bitmap_int_index =
                                Least(NonEmptyInts(q))]
  PROVE  /\ Sound(s)
         /\ SameContent(s, q)
         /\ s.active_bitmap = q.active_bitmap
         /\ FoundValue(s) \in 1 .. Wrap(s)
         /\ DivByIntSize(FoundValue(s)) = s.active_bitmap_int_index
         /\ s.bitmap_extension[s.active_bitmap][FoundValue(s)] # {}
<1> DEFINE i == Least(NonEmptyInts(q))
           b == q.active_bitmap
           ints == q.bitmap[b][i]
<1>1. /\ IsRelPq(q)
      /\ q.bitmap_size \in Nat \ {0}
      /\ q.active_bitmap_int_index \in 0 .. q.bitmap_size - 1
  BY DEF Sound, Typed
<1>2. NonEmptyInts(q) \in SUBSET Nat
  BY <1>1 DEF NonEmptyInts
<1>3. i \in NonEmptyInts(q)
  BY <1>2, LeastProperty
<1>4. i \in 0 .. q.bitmap_size - 1 /\ ints # {}
  <2> HIDE DEF i
  <2> QED
    BY <1>1, <1>3 DEF NonEmptyInts
<1>5. /\ SameContent(s, q)
      /\ s.active_bitmap = b
      /\ s.active_bitmap_int_index = i
      /\ s.virtual_time = q.virtual_time
  BY <1>1 DEF SameContent, IsRelPq
<1>6. Typed(s)
  <2>1. Wrap(s) = Wrap(q)
    BY <1>5 DEF Wrap, SameContent
  <2>2. i \in Nat
    BY <1>1, <1>4
  <2>3. IsRelPq(s)
    BY <1>1, <1>5, <2>1, <2>2 DEF IsRelPq, SameContent
  <2> QED
    BY <1>1, <1>4, <1>5, <2>3 DEF Typed, SameContent
<1>7. Sound(s)
  BY <1>5, <1>6, SameContentSound
<1>8. ints \in SUBSET (1 .. INT_SIZE_BIT) /\ b \in {0, 1}
  BY <1>1, <1>4 DEF IsRelPq
<1>9. Least(ints) \in ints
  <2>1. ints \in SUBSET Nat
    BY <1>8, RelPqAssumption
  <2> HIDE DEF ints
  <2> QED
    BY <2>1, <1>4, LeastProperty
<1>10. Least(ints) \in 1 .. INT_SIZE_BIT
  BY <1>8, <1>9
<1>11. FoundValue(s) = Least(ints) + i * INT_SIZE_BIT
  BY <1>5 DEF FoundValue, SameContent
<1>12. /\ FoundValue(s) \in 1 .. q.bitmap_size * INT_SIZE_BIT
       /\ BitOf(FoundValue(s)) = Least(ints)
       /\ DivByIntSize(FoundValue(s)) = i
  <2> HIDE DEF ints, i
  <2> QED
    BY <1>1, <1>4, <1>10, <1>11, ValuePosition
<1>13. FoundValue(s) \in 1 .. Wrap(s) /\ Wrap(s) = Wrap(q)
  BY <1>5, <1>12 DEF Wrap, SameContent
<1>14. q.bitmap_extension[b][FoundValue(s)] # {}
  BY <1>8, <1>9, <1>12, <1>13 DEF Sound, BitmapMatchesLists
<1> QED
  BY <1>5, <1>7, <1>12, <1>13, <1>14 DEF SameContent

\* A search in a queue that holds a node finds a list with a node.
LEMMA SearchProperty ==
  ASSUME NEW q, Sound(q), Held(q) # {}
  PROVE  LET s == Search(q)
         IN  /\ Sound(s)
             /\ SameContent(s, q)
             /\ FoundValue(s) \in 1 .. Wrap(s)
             /\ DivByIntSize(FoundValue(s)) = s.active_bitmap_int_index
             /\ s.bitmap_extension[s.active_bitmap][FoundValue(s)] # {}
<1> DEFINE s1 == ShiftBitmap(q)
           s2 == ShiftBitmap(s1)
           b  == q.active_bitmap
<1>1. /\ Typed(q) /\ BitmapMatchesLists(q) /\ IsRelPq(q) /\ b \in {0, 1}
      /\ q.bitmap_size \in Nat \ {0}
  BY DEF Sound, Typed, IsRelPq
<1>2. /\ Sound(s1) /\ SameContent(s1, q)
      /\ s1.active_bitmap = Other(b) /\ s1.active_bitmap_int_index = 0
  BY <1>1, ShiftBitmapSound, SameContentSound
<1>3. /\ Sound(s2) /\ SameContent(s2, q)
      /\ s2.active_bitmap = b /\ s2.active_bitmap_int_index = 0
  <2>1. /\ Typed(s2) /\ SameContent(s2, s1)
        /\ s2.active_bitmap = Other(Other(b)) /\ s2.active_bitmap_int_index = 0
    <3>1. Typed(s1)
      BY <1>2 DEF Sound
    <3> HIDE DEF s1
    <3> QED
      BY <1>2, <3>1, ShiftBitmapSound
  <2>2. SameContent(s2, q)
    BY <1>2, <2>1 DEF SameContent
  <2>3. Other(Other(b)) = b
    BY <1>1 DEF Other
  <2> QED
    BY <2>1, <2>2, <2>3, SameContentSound
<1>4. PICK n \in Server, c \in {0, 1}, v \in 1 .. Wrap(q) :
        n \in q.bitmap_extension[c][v]
  BY DEF Held, Places
<1>5. /\ DivByIntSize(v) \in 0 .. q.bitmap_size - 1
      /\ q.bitmap[c][DivByIntSize(v)] # {}
  <2>1. DivByIntSize(v) \in 0 .. q.bitmap_size - 1
    BY <1>1, <1>4, BitPosition DEF Wrap
  <2>2. BitOf(v) \in q.bitmap[c][DivByIntSize(v)]
    BY <1>1, <1>4 DEF BitmapMatchesLists
  <2> QED
    BY <2>1, <2>2
<1>6. NonEmptyInts(s1) # {} \/ NonEmptyInts(s2) # {}
  <2>1. CASE c = b
    <3>1. DivByIntSize(v) \in NonEmptyInts(s2)
      BY <1>3, <1>5, <2>1 DEF NonEmptyInts, SameContent
    <3> QED
      BY <3>1
  <2>2. CASE c # b
    <3>1. c = Other(b)
      BY <1>1, <1>4, <2>2 DEF Other
    <3>2. DivByIntSize(v) \in NonEmptyInts(s1)
      BY <1>2, <1>5, <3>1 DEF NonEmptyInts, SameContent
    <3> QED
      BY <3>2
  <2> QED
    BY <2>1, <2>2
<1>7. PICK p : /\ Sound(p) /\ SameContent(p, q) /\ NonEmptyInts(p) # {}
               /\ Search(q) = [p EXCEPT !.active_bitmap_int_index =
                                          Least(NonEmptyInts(p))]
  <2>1. CASE NonEmptyInts(q) # {}
    <3>1. Search(q) = [q EXCEPT !.active_bitmap_int_index =
                                  Least(NonEmptyInts(q))]
      BY <2>1 DEF Search
    <3>2. SameContent(q, q)
      BY DEF SameContent
    <3> QED
      BY <2>1, <3>1, <3>2
  <2>2. CASE NonEmptyInts(q) = {} /\ NonEmptyInts(s1) # {}
    <3>1. Search(q) = [s1 EXCEPT !.active_bitmap_int_index =
                                   Least(NonEmptyInts(s1))]
      BY <2>2 DEF Search
    <3> QED
      BY <1>2, <2>2, <3>1
  <2>3. CASE NonEmptyInts(q) = {} /\ NonEmptyInts(s1) = {}
    <3>1. Search(q) = [s2 EXCEPT !.active_bitmap_int_index =
                                   Least(NonEmptyInts(s2))]
      BY <2>3 DEF Search
    <3> QED
      BY <1>3, <1>6, <2>3, <3>1
  <2> QED
    BY <2>1, <2>2, <2>3
<1>8. SameContent(Search(q), p) => SameContent(Search(q), q)
  BY <1>7 DEF SameContent
<1> QED
  BY <1>7, <1>8, FoundValueProperty

----------------------------------------------------------------------------
(* Unlinking nodes.                                                        *)

\* A queue with other lists is a queue.
LEMMA ChangedIsRelPq ==
  ASSUME NEW q, IsRelPq(q), NEW nr \in Nat, NEW since \in [Server -> Nat],
         NEW bits \in [{0, 1} -> [0 .. q.bitmap_size - 1 ->
                                    SUBSET (1 .. INT_SIZE_BIT)]],
         NEW lists \in [{0, 1} -> [1 .. Wrap(q) -> SUBSET Server]],
         NEW r, r = [q EXCEPT !.nr_of_elements = nr,
                              !.since = since,
                              !.bitmap = bits,
                              !.bitmap_extension = lists]
  PROVE  /\ IsRelPq(r)
         /\ r.virtual_time = q.virtual_time
         /\ r.nr_of_elements = nr
         /\ r.active_bitmap_int_index = q.active_bitmap_int_index
         /\ r.bitmap_size = q.bitmap_size
         /\ r.active_bitmap = q.active_bitmap
         /\ r.since = since
         /\ r.bitmap = bits
         /\ r.bitmap_extension = lists
BY DEF IsRelPq, Wrap

LEMMA PoppedType ==
  ASSUME NEW q, NEW nodes
  PROVE  Popped(q, nodes) \in [Server -> Nat]
<1> DEFINE Later(m, n) == IF m \in nodes <=> n \in nodes
                          THEN q.since[m] < q.since[n] ELSE n \in nodes
<1>1. \A n \in Server : Cardinality({m \in Server : Later(m, n)}) \in Nat
  BY RelPqAssumption, FS_Subset, FS_CardinalityType
<1> QED
  BY <1>1 DEF Popped

\* The place <<bitmap, value>> of the list at which a search stopped.
Stopped(s) ==
  /\ Sound(s)
  /\ FoundValue(s) \in 1 .. Wrap(s)
  /\ DivByIntSize(FoundValue(s)) = s.active_bitmap_int_index
  /\ FoundList(s) # {}

LEMMA CardinalityDifference ==
  ASSUME NEW S, IsFiniteSet(S), NEW T, T \subseteq S
  PROVE  /\ Cardinality(S \ T) = Cardinality(S) - Cardinality(T)
         /\ Cardinality(S \ T) \in Nat
<1> DEFINE D == S \ T
<1>1. IsFiniteSet(T) /\ IsFiniteSet(D)
  BY FS_Subset
<1>2. T \cup D = S /\ T \cap D = {}
  OBVIOUS
<1> HIDE DEF D
<1>3. Cardinality(T \cup D)
        = Cardinality(T) + Cardinality(D) - Cardinality(T \cap D)
  BY <1>1, FS_Union
<1>4. Cardinality(T) \in Nat /\ Cardinality(D) \in Nat
  BY <1>1, FS_CardinalityType
<1>5. Cardinality(S) = Cardinality(T) + Cardinality(D)
  <2>1. Cardinality(T \cap D) = 0
    BY <1>2, FS_EmptySet
  <2>2. Cardinality(T \cup D) = Cardinality(S)
    BY <1>2
  <2> QED
    BY <1>3, <1>4, <2>1, <2>2
<1>6. Cardinality(D) = Cardinality(S) - Cardinality(T) /\ Cardinality(D) \in Nat
  BY <1>4, <1>5
<1> QED
  BY <1>6 DEF D

LEMMA CardinalityUnion ==
  ASSUME NEW S, IsFiniteSet(S), NEW T, IsFiniteSet(T), S \cap T = {}
  PROVE  Cardinality(S \cup T) = Cardinality(S) + Cardinality(T)
<1>1. Cardinality(S \cup T)
        = Cardinality(S) + Cardinality(T) - Cardinality(S \cap T)
  BY FS_Union
<1>2. Cardinality(S) \in Nat /\ Cardinality(T) \in Nat
  BY FS_CardinalityType
<1> QED
  BY <1>1, <1>2, FS_EmptySet

LEMMA HeldFinite ==
  ASSUME NEW q
  PROVE  IsFiniteSet(Held(q)) /\ Cardinality(Held(q)) \in Nat
<1>1. Held(q) \in SUBSET Server
  BY DEF Held
<1> QED
  BY <1>1, RelPqAssumption, FS_Subset, FS_CardinalityType

\* Unlinking nodes of the list found leaves a sound queue without them.
LEMMA UnlinkSound ==
  ASSUME NEW s, Stopped(s),
         NEW nodes \in SUBSET FoundList(s), nodes # {}
  PROVE  LET r == Unlink(s, nodes)
         IN  /\ Sound(r)
             /\ Held(r) = Held(s) \ nodes
             /\ nodes \subseteq Held(s)
             /\ r.bitmap_size = s.bitmap_size
             /\ r.virtual_time = s.virtual_time
<1> DEFINE v     == FoundValue(s)
           b     == s.active_bitmap
           i     == s.active_bitmap_int_index
           list  == s.bitmap_extension[b][v]
           nr    == s.nr_of_elements - Cardinality(nodes)
           since == Popped(s, nodes)
           left  == list \ nodes
           bits  == Update(s.bitmap, b, i,
                           IF left = {} THEN s.bitmap[b][i] \ {BitOf(v)}
                                        ELSE s.bitmap[b][i])
           lists == Update(s.bitmap_extension, b, v, left)
           r     == Unlink(s, nodes)
           F     == [0 .. s.bitmap_size - 1 -> SUBSET (1 .. INT_SIZE_BIT)]
           G     == [1 .. Wrap(s) -> SUBSET Server]
<1>1. /\ IsRelPq(s) /\ BitmapMatchesLists(s) /\ OnePlace(s)
      /\ s.nr_of_elements = Cardinality(Held(s))
      /\ s.bitmap_size \in Nat \ {0}
      /\ b \in {0, 1} /\ i \in 0 .. s.bitmap_size - 1
      /\ v \in 1 .. Wrap(s) /\ DivByIntSize(v) = i
      /\ s.bitmap \in [{0, 1} -> F]
      /\ s.bitmap_extension \in [{0, 1} -> G]
  BY DEF Stopped, Sound, Typed, IsRelPq
<1>2. /\ list \in SUBSET Server /\ nodes \in SUBSET list
      /\ \A n \in list : <<b, v>> \in Places(s, n)
      /\ nodes \subseteq Held(s)
  <2>1. nodes \in SUBSET list
    BY DEF FoundList
  <2> HIDE DEF b, v
  <2>2. list \in SUBSET Server
    BY <1>1
  <2>3. \A n \in list : <<b, v>> \in Places(s, n)
    BY <1>1 DEF Places
  <2> QED
    BY <2>1, <2>2, <2>3 DEF Held
<1>3. nr = Cardinality(Held(s) \ nodes) /\ nr \in Nat
  <2> HIDE DEF b, v
  <2> QED
    BY <1>1, <1>2, HeldFinite, CardinalityDifference
<1>4. since \in [Server -> Nat]
  BY PoppedType
<1>5. bits \in [{0, 1} -> F]
  <2> HIDE DEF i, b, v, left
  <2> QED
    BY <1>1 DEF Update
<1>6. lists \in [{0, 1} -> G]
  <2> HIDE DEF b, v
  <2> QED
    BY <1>1, <1>2 DEF Update
<1>7. r = [s EXCEPT !.nr_of_elements = nr, !.since = since,
                    !.bitmap = bits, !.bitmap_extension = lists]
  BY DEF Unlink, FoundList
<1>8. /\ IsRelPq(r)
      /\ r.virtual_time = s.virtual_time
      /\ r.nr_of_elements = nr
      /\ r.active_bitmap_int_index = i
      /\ r.bitmap_size = s.bitmap_size
      /\ r.active_bitmap = b
      /\ r.bitmap = bits
      /\ r.bitmap_extension = lists
      /\ Wrap(r) = Wrap(s)
  <2>1. IsRelPq(s) /\ nr \in Nat
    BY <1>1, <1>3
  <2> HIDE DEF r, nr, since, bits, lists
  <2>2. /\ IsRelPq(r)
        /\ r.virtual_time = s.virtual_time
        /\ r.nr_of_elements = nr
        /\ r.active_bitmap_int_index = i
        /\ r.bitmap_size = s.bitmap_size
        /\ r.active_bitmap = b
        /\ r.bitmap = bits
        /\ r.bitmap_extension = lists
    BY <2>1, <1>4, <1>5, <1>6, <1>7 DEF IsRelPq, Wrap
  <2> QED
    BY <2>2 DEF Wrap
<1>9. \A n \in Server : Places(r, n) = IF n \in nodes THEN {}
                                                      ELSE Places(s, n)
  <2>1. \A c \in {0, 1}, w \in 1 .. Wrap(s) :
          lists[c][w] = IF c = b /\ w = v THEN list \ nodes
                                          ELSE s.bitmap_extension[c][w]
    <3> HIDE DEF b, v
    <3> QED
      BY <1>1 DEF Update
  <2> HIDE DEF lists, r
  <2>2. SUFFICES ASSUME NEW n \in Server,
                        NEW c \in {0, 1}, NEW w \in 1 .. Wrap(s)
                 PROVE  <<c, w>> \in Places(r, n)
                          <=> n \notin nodes /\ <<c, w>> \in Places(s, n)
    BY <1>8 DEF Places
  <2>3. <<c, w>> \in Places(r, n) <=> n \in lists[c][w]
    BY <1>8 DEF Places
  <2>4. <<c, w>> \in Places(s, n) <=> n \in s.bitmap_extension[c][w]
    BY DEF Places
  <2>5. n \in nodes /\ <<c, w>> \in Places(s, n) => c = b /\ w = v
    <3> HIDE DEF b, v
    <3> QED
      BY <1>1, <1>2 DEF OnePlace
  <2> HIDE DEF b, v
  <2> QED
    BY <1>2, <2>1, <2>3, <2>4, <2>5
<1>10. Held(r) = Held(s) \ nodes /\ OnePlace(r)
  <2> HIDE DEF r
  <2> QED
    BY <1>1, <1>9 DEF Held, OnePlace
<1>11. BitmapMatchesLists(r)
  <2> SUFFICES ASSUME NEW c \in {0, 1}, NEW w \in 1 .. Wrap(s)
               PROVE  BitOf(w) \in bits[c][DivByIntSize(w)]
                        <=> lists[c][w] # {}
    BY <1>8 DEF BitmapMatchesLists
  <2>1. DivByIntSize(w) \in 0 .. s.bitmap_size - 1
        /\ w = BitOf(w) + DivByIntSize(w) * INT_SIZE_BIT
        /\ v = BitOf(v) + i * INT_SIZE_BIT
    BY <1>1, BitPosition DEF Wrap
  <2>2. BitOf(w) \in s.bitmap[c][DivByIntSize(w)]
          <=> s.bitmap_extension[c][w] # {}
    BY <1>1 DEF BitmapMatchesLists
  <2> HIDE DEF b, v, i
  <2>3. CASE c = b /\ w = v
    <3>1. lists[c][w] = left
      BY <1>1, <2>3 DEF Update
    <3>2. bits[c][DivByIntSize(w)] =
            IF left = {} THEN s.bitmap[b][i] \ {BitOf(v)} ELSE s.bitmap[b][i]
      BY <1>1, <2>3 DEF Update
    <3>3. BitOf(v) \in s.bitmap[b][i]
      BY <1>1, <1>2, <2>2, <2>3
    <3> QED
      BY <2>3, <3>1, <3>2, <3>3
  <2>4. CASE ~(c = b /\ w = v)
    <3>1. lists[c][w] = s.bitmap_extension[c][w]
      BY <1>1, <2>4 DEF Update
    <3>2. c = b /\ DivByIntSize(w) = i => BitOf(w) # BitOf(v)
      BY <2>1, <2>4
    <3>3. BitOf(w) \in bits[c][DivByIntSize(w)]
            <=> BitOf(w) \in s.bitmap[c][DivByIntSize(w)]
      BY <1>1, <2>1, <3>2 DEF Update
    <3> QED
      BY <2>2, <3>1, <3>3
  <2> QED
    BY <2>3, <2>4
<1>12. Typed(r)
  BY <1>1, <1>8 DEF Typed
<1> QED
  <2> HIDE DEF nr
  <2> QED
    BY <1>2, <1>3, <1>8, <1>10, <1>11, <1>12 DEF Sound

LEMMA SearchStops ==
  ASSUME NEW q, Sound(q), Held(q) # {}
  PROVE  LET s == Search(q)
         IN  /\ Stopped(s)
             /\ Held(s) = Held(q)
             /\ s.bitmap_size = q.bitmap_size
             /\ Wrap(s) = Wrap(q)
<1> DEFINE s == Search(q)
<1>1. /\ Sound(s)
      /\ SameContent(s, q)
      /\ FoundValue(s) \in 1 .. Wrap(s)
      /\ DivByIntSize(FoundValue(s)) = s.active_bitmap_int_index
      /\ s.bitmap_extension[s.active_bitmap][FoundValue(s)] # {}
  BY SearchProperty
<1> HIDE DEF s
<1>2. Held(s) = Held(q)
  BY <1>1, SameContentSound DEF Sound
<1>3. s.bitmap_size = q.bitmap_size /\ Wrap(s) = Wrap(q)
  BY <1>1 DEF SameContent, Wrap
<1>4. Stopped(s)
  BY <1>1 DEF Stopped, FoundList
<1> QED
  BY <1>2, <1>3, <1>4 DEF s

\* The head of a list is in it.
LEMMA FirstProperty ==
  ASSUME NEW q, q.since \in [Server -> Nat],
         NEW list \in SUBSET Server, list # {}
  PROVE  First(q, list) \in list
<1> DEFINE T == {q.since[n] : n \in list}
<1>1. PICK t \in T : \A u \in T : t <= u
  <2>1. T \in SUBSET Nat /\ T # {}
    OBVIOUS
  <2> HIDE DEF T
  <2> QED
    BY <2>1, NatMin
<1>2. \E n \in list : \A m \in list : q.since[n] <= q.since[m]
  BY <1>1
<1> QED
  BY <1>2 DEF First

\* A retrieve takes one node out of a queue that holds one.
LEMMA RetrieveSound ==
  ASSUME NEW q, Sound(q), Held(q) # {}
  PROVE  LET r == Retrieve(q)
         IN  /\ r.event \in 1 .. Wrap(q)
             /\ r.node \in Held(q)
             /\ r.node \in FoundList(Search(q))
             /\ Sound(r.queue)
             /\ Held(r.queue) = Held(q) \ {r.node}
             /\ r.queue.bitmap_size = q.bitmap_size
<1> DEFINE s    == Search(q)
           list == FoundList(s)
           node == First(s, list)
           u    == Unlink(s, {node})
<1>1. /\ Stopped(s) /\ Held(s) = Held(q)
      /\ s.bitmap_size = q.bitmap_size /\ Wrap(s) = Wrap(q)
  BY SearchStops
<1> HIDE DEF s
<1>2. node \in list
  <2>1. s.since \in [Server -> Nat] /\ list \in SUBSET Server
    <3> DEFINE b == s.active_bitmap
               v == FoundValue(s)
    <3>1. IsRelPq(s) /\ v \in 1 .. Wrap(s)
      BY <1>1 DEF Stopped, Sound, Typed
    <3> HIDE DEF v
    <3>2. s.since \in [Server -> Nat] /\ s.bitmap_extension[b][v] \in SUBSET Server
      BY <3>1 DEF IsRelPq
    <3> QED
      BY <3>2 DEF FoundList, v
  <2>2. list # {}
    BY <1>1 DEF Stopped
  <2> HIDE DEF list
  <2> QED
    BY <2>1, <2>2, FirstProperty
<1>3. /\ Sound(u) /\ Held(u) = Held(s) \ {node} /\ node \in Held(s)
      /\ u.bitmap_size = s.bitmap_size
  <2>1. {node} \in SUBSET FoundList(s) /\ {node} # {}
    BY <1>2
  <2> HIDE DEF node
  <2> QED
    BY <1>1, <2>1, UnlinkSound
<1>4. Retrieve(q) = [event |-> FoundValue(s), node |-> node, queue |-> u]
  BY DEF Retrieve, s
<1>5. FoundValue(s) \in 1 .. Wrap(q)
  BY <1>1 DEF Stopped
<1> HIDE DEF u, node
<1> QED
  BY <1>1, <1>2, <1>3, <1>4, <1>5 DEF s

\* So do the retrieves of a loop, for every node of a list.
LEMMA RetrieveListSound ==
  ASSUME NEW q, Sound(q), Held(q) # {}
  PROVE  LET r == RetrieveList(q)
         IN  /\ r.event \in 1 .. Wrap(q)
             /\ r.nodes \subseteq Held(q) /\ r.nodes # {}
             /\ r.nodes = FoundList(Search(q))
             /\ Sound(r.queue)
             /\ Held(r.queue) = Held(q) \ r.nodes
             /\ r.queue.bitmap_size = q.bitmap_size
<1> DEFINE s    == Search(q)
           list == FoundList(s)
           u    == Unlink(s, list)
<1>1. /\ Stopped(s) /\ Held(s) = Held(q)
      /\ s.bitmap_size = q.bitmap_size /\ Wrap(s) = Wrap(q)
  BY SearchStops
<1> HIDE DEF s
<1>2. /\ Sound(u) /\ Held(u) = Held(s) \ list /\ list \subseteq Held(s)
      /\ u.bitmap_size = s.bitmap_size
  <2>1. list # {}
    BY <1>1 DEF Stopped
  <2> QED
    BY <1>1, <2>1, UnlinkSound
<1>3. RetrieveList(q) = [event |-> FoundValue(s), nodes |-> list, queue |-> u]
  BY DEF RetrieveList, s
<1>4. FoundValue(s) \in 1 .. Wrap(q) /\ list # {}
  BY <1>1 DEF Stopped
<1> HIDE DEF u
<1> QED
  BY <1>1, <1>2, <1>3, <1>4 DEF s

----------------------------------------------------------------------------
(* Inserting nodes.                                                        *)

LEMMA PushedType ==
  ASSUME NEW q, NEW nodes
  PROVE  Pushed(q, nodes) \in [Server -> Nat]
<1> DEFINE Later(m, n) == IF m \in nodes <=> n \in nodes
                          THEN (m \in nodes) # (q.since[m] < q.since[n]) /\ m # n
                          ELSE m \in nodes
<1>1. \A n \in Server : Cardinality({m \in Server : Later(m, n)}) \in Nat
  BY RelPqAssumption, FS_Subset, FS_CardinalityType
<1> QED
  BY <1>1 DEF Pushed

\* Inserting nodes that the queue does not hold, at values that are no more
\* than two rounds away, leaves a sound queue that holds them too.
LEMMA InsertAllSound ==
  ASSUME NEW q, Sound(q),
         NEW D \in SUBSET Server, D \cap Held(q) = {},
         NEW at \in [D -> 1 .. 2 * Wrap(q)]
  PROVE  LET r == InsertAll(q, at)
         IN  /\ Sound(r)
             /\ Held(r) = Held(q) \cup D
             /\ r.bitmap_size = q.bitmap_size
             /\ r.virtual_time = q.virtual_time
<1> DEFINE bit(n) == Wrapped(q, at[n])
           In(c)  == {n \in D : Bitmap(q, at[n]) = c}
           nr     == q.nr_of_elements + Cardinality(D)
           since  == Pushed(q, D)
           bits   == [c \in {0, 1} |-> [i \in DOMAIN q.bitmap[c] |->
                        q.bitmap[c][i] \cup
                          {BitOf(bit(n)) : n \in {m \in In(c) :
                             DivByIntSize(bit(m)) = i}}]]
           lists  == [c \in {0, 1} |-> [v \in DOMAIN q.bitmap_extension[c] |->
                        q.bitmap_extension[c][v]
                          \cup {n \in In(c) : bit(n) = v}]]
           r      == InsertAll(q, at)
           F      == [0 .. q.bitmap_size - 1 -> SUBSET (1 .. INT_SIZE_BIT)]
           G      == [1 .. Wrap(q) -> SUBSET Server]
<1>1. /\ IsRelPq(q) /\ BitmapMatchesLists(q) /\ OnePlace(q)
      /\ q.nr_of_elements = Cardinality(Held(q))
      /\ q.bitmap_size \in Nat \ {0}
      /\ q.active_bitmap_int_index \in 0 .. q.bitmap_size - 1
      /\ q.active_bitmap \in {0, 1}
      /\ q.bitmap \in [{0, 1} -> F]
      /\ q.bitmap_extension \in [{0, 1} -> G]
  BY DEF Sound, Typed, IsRelPq
<1>2. Wrap(q) \in Nat
  BY <1>1, RelPqAssumption DEF Wrap
<1>3. \A n \in D : /\ bit(n) \in 1 .. Wrap(q)
                   /\ Bitmap(q, at[n]) \in {0, 1}
                   /\ DivByIntSize(bit(n)) \in 0 .. q.bitmap_size - 1
                   /\ BitOf(bit(n)) \in 1 .. INT_SIZE_BIT
  <2> SUFFICES ASSUME NEW n \in D
               PROVE  /\ bit(n) \in 1 .. Wrap(q)
                      /\ Bitmap(q, at[n]) \in {0, 1}
                      /\ DivByIntSize(bit(n)) \in 0 .. q.bitmap_size - 1
                      /\ BitOf(bit(n)) \in 1 .. INT_SIZE_BIT
    OBVIOUS
  <2>1. bit(n) \in 1 .. Wrap(q)
    <3>1. at[n] \in 1 .. 2 * Wrap(q)
      OBVIOUS
    <3> QED
      BY <1>2, <3>1 DEF Wrapped
  <2>2. Bitmap(q, at[n]) \in {0, 1}
    BY <1>1 DEF Bitmap, Other
  <2> HIDE DEF bit
  <2> QED
    BY <1>1, <2>1, <2>2, BitPosition DEF Wrap
<1> HIDE DEF bit
<1>4. nr = Cardinality(Held(q) \cup D) /\ nr \in Nat
  <2>1. IsFiniteSet(D) /\ IsFiniteSet(Held(q)) /\ Held(q) \cap D = {}
    BY HeldFinite, RelPqAssumption, FS_Subset
  <2>2. Cardinality(D) \in Nat /\ Cardinality(Held(q)) \in Nat
    BY <2>1, FS_CardinalityType
  <2> QED
    BY <1>1, <2>1, <2>2, CardinalityUnion
<1>5. since \in [Server -> Nat]
  BY PushedType
<1>6. bits \in [{0, 1} -> F]
  BY <1>1, <1>3
<1>7. lists \in [{0, 1} -> G]
  BY <1>1, <1>3
<1>8. r = [q EXCEPT !.nr_of_elements = nr, !.since = since,
                    !.bitmap = bits, !.bitmap_extension = lists]
  BY DEF InsertAll, bit
<1>9. /\ IsRelPq(r)
      /\ r.virtual_time = q.virtual_time
      /\ r.nr_of_elements = nr
      /\ r.active_bitmap_int_index = q.active_bitmap_int_index
      /\ r.bitmap_size = q.bitmap_size
      /\ r.bitmap = bits
      /\ r.bitmap_extension = lists
      /\ Wrap(r) = Wrap(q)
  <2>1. IsRelPq(q) /\ nr \in Nat
    BY <1>1, <1>4
  <2> HIDE DEF r, nr, since, bits, lists
  <2>2. /\ IsRelPq(r)
        /\ r.virtual_time = q.virtual_time
        /\ r.nr_of_elements = nr
        /\ r.active_bitmap_int_index = q.active_bitmap_int_index
        /\ r.bitmap_size = q.bitmap_size
        /\ r.bitmap = bits
        /\ r.bitmap_extension = lists
    BY <2>1, <1>5, <1>6, <1>7, <1>8 DEF IsRelPq, Wrap
  <2> QED
    BY <2>2 DEF Wrap
<1>10. \A c \in {0, 1}, v \in 1 .. Wrap(q) :
         lists[c][v] = q.bitmap_extension[c][v]
                         \cup {n \in In(c) : bit(n) = v}
  BY <1>1
<1>11. \A c \in {0, 1}, i \in 0 .. q.bitmap_size - 1 :
         bits[c][i] = q.bitmap[c][i] \cup
           {BitOf(bit(n)) : n \in {m \in In(c) : DivByIntSize(bit(m)) = i}}
  BY <1>1
<1> HIDE DEF r, bits, lists
<1>12. \A n \in Server : Places(r, n) =
         IF n \in D THEN {<<Bitmap(q, at[n]), bit(n)>>} ELSE Places(q, n)
  <2>1. SUFFICES ASSUME NEW n \in Server,
                        NEW c \in {0, 1}, NEW v \in 1 .. Wrap(q)
                 PROVE  <<c, v>> \in Places(r, n)
                          <=> IF n \in D
                              THEN c = Bitmap(q, at[n]) /\ v = bit(n)
                              ELSE <<c, v>> \in Places(q, n)
    BY <1>3, <1>9 DEF Places
  <2>2. <<c, v>> \in Places(r, n) <=> n \in lists[c][v]
    BY <1>9 DEF Places
  <2>3. <<c, v>> \in Places(q, n) <=> n \in q.bitmap_extension[c][v]
    BY DEF Places
  <2>4. n \in D => <<c, v>> \notin Places(q, n)
    BY DEF Held
  <2> QED
    BY <1>10, <2>2, <2>3, <2>4
<1>13. Held(r) = Held(q) \cup D /\ OnePlace(r)
  BY <1>1, <1>12 DEF Held, OnePlace
<1>14. BitmapMatchesLists(r)
  <2> SUFFICES ASSUME NEW c \in {0, 1}, NEW v \in 1 .. Wrap(q)
               PROVE  BitOf(v) \in bits[c][DivByIntSize(v)]
                        <=> lists[c][v] # {}
    BY <1>9 DEF BitmapMatchesLists
  <2>1. /\ DivByIntSize(v) \in 0 .. q.bitmap_size - 1
        /\ v = BitOf(v) + DivByIntSize(v) * INT_SIZE_BIT
    BY <1>1, BitPosition DEF Wrap
  <2>2. BitOf(v) \in q.bitmap[c][DivByIntSize(v)]
          <=> q.bitmap_extension[c][v] # {}
    BY <1>1 DEF BitmapMatchesLists
  <2>3. \A n \in In(c) : bit(n) = v <=> /\ DivByIntSize(bit(n)) = DivByIntSize(v)
                                        /\ BitOf(bit(n)) = BitOf(v)
    <3> SUFFICES ASSUME NEW n \in In(c),
                        DivByIntSize(bit(n)) = DivByIntSize(v),
                        BitOf(bit(n)) = BitOf(v)
                 PROVE  bit(n) = v
      OBVIOUS
    <3>1. bit(n) = BitOf(bit(n)) + DivByIntSize(bit(n)) * INT_SIZE_BIT
      BY <1>1, <1>3, BitPosition DEF Wrap
    <3> QED
      BY <2>1, <3>1
  <2> QED
    BY <1>10, <1>11, <2>1, <2>2, <2>3
<1>15. Typed(r)
  BY <1>1, <1>9 DEF Typed
<1> HIDE DEF nr
<1> QED
  BY <1>4, <1>9, <1>13, <1>14, <1>15 DEF Sound, r

----------------------------------------------------------------------------
(* The uses that the handlers make of the queue.                           *)

LEMMA WrapType ==
  ASSUME NEW q, Sound(q)
  PROVE  Wrap(q) \in Nat \ {0}
<1>1. q.bitmap_size \in Nat \ {0}
  BY DEF Sound, Typed
<1> QED
  BY <1>1, RelPqAssumption DEF Wrap

\* Looking at the next event leaves the queue with the nodes it had.
LEMMA FetchNextSound ==
  ASSUME NEW q, Sound(q), Held(q) # {}
  PROVE  LET r == FetchNext(q)
         IN  /\ r.event \in 1 .. Wrap(q)
             /\ r.node \in Held(q)
             /\ Sound(r.queue)
             /\ Held(r.queue) = Held(q)
             /\ r.queue.bitmap_size = q.bitmap_size
             /\ DOMAIN r = {"event", "node", "queue"}
<1> DEFINE next == Retrieve(q)
           at   == [n \in {next.node} |-> next.event]
           u    == InsertAll(next.queue, at)
<1>1. /\ next.event \in 1 .. Wrap(q)
      /\ next.node \in Held(q)
      /\ Sound(next.queue)
      /\ Held(next.queue) = Held(q) \ {next.node}
      /\ next.queue.bitmap_size = q.bitmap_size
  BY RetrieveSound
<1>2. next = [event |-> next.event, node |-> next.node, queue |-> next.queue]
  BY DEF Retrieve
<1>3. FetchNext(q) = [event |-> next.event, node |-> next.node, queue |-> u]
  <2>1. FetchNext(q) = [next EXCEPT !.queue = Insert(next.queue, next.event,
                                                     next.node)]
    BY DEF FetchNext
  <2>2. Insert(next.queue, next.event, next.node) = u
    BY DEF Insert
  <2> HIDE DEF next, u
  <2> QED
    BY <1>2, <2>1, <2>2
<1> HIDE DEF next
<1>4. Wrap(next.queue) = Wrap(q) /\ Wrap(q) \in Nat
  BY <1>1, WrapType DEF Wrap
<1>5. at \in [{next.node} -> 1 .. 2 * Wrap(next.queue)]
  BY <1>1, <1>4
<1>6. {next.node} \in SUBSET Server /\ {next.node} \cap Held(next.queue) = {}
  BY <1>1 DEF Held
<1>7. /\ Sound(u) /\ Held(u) = Held(next.queue) \cup {next.node}
      /\ u.bitmap_size = next.queue.bitmap_size
  <2> HIDE DEF at
  <2> QED
    BY <1>1, <1>5, <1>6, InsertAllSound, ZenonT(40)
<1> HIDE DEF u
<1> QED
  BY <1>1, <1>3, <1>7

\* The nodes that are due, and the others.
LEMMA RetrieveDueSound ==
  ASSUME NEW q, Sound(q), Held(q) # {}
  PROVE  LET r == RetrieveDue(q)
         IN  /\ r.event \in 1 .. Wrap(q)
             /\ r.nodes \subseteq Held(q)
             /\ FoundList(Search(q)) \subseteq r.nodes
             /\ Sound(r.queue)
             /\ Held(r.queue) = Held(q) \ r.nodes
             /\ r.queue.bitmap_size = q.bitmap_size
<1> DEFINE one  == RetrieveList(q)
           more == RetrieveList(one.queue)
<1>1. /\ one.event \in 1 .. Wrap(q)
      /\ one.nodes \subseteq Held(q)
      /\ one.nodes = FoundList(Search(q))
      /\ Sound(one.queue)
      /\ Held(one.queue) = Held(q) \ one.nodes
      /\ one.queue.bitmap_size = q.bitmap_size
  BY RetrieveListSound
<1>2. CASE Peek(one.queue) # one.event
  <2>1. RetrieveDue(q) = one
    BY <1>2 DEF RetrieveDue
  <2> HIDE DEF one
  <2> QED
    BY <1>1, <2>1
<1>3. CASE Peek(one.queue) = one.event
  <2>1. RetrieveDue(q) = [more EXCEPT !.nodes = more.nodes \cup one.nodes]
    BY <1>3 DEF RetrieveDue
  <2>2. more = [event |-> more.event, nodes |-> more.nodes,
                queue |-> more.queue]
    BY DEF RetrieveList
  <2> HIDE DEF one
  <2>3. Held(one.queue) # {}
    <3>1. SUFFICES ASSUME Held(one.queue) = {} PROVE FALSE
      OBVIOUS
    <3>2. one.queue.nr_of_elements = 0
      BY <1>1, <3>1, FS_EmptySet DEF Sound
    <3>3. Peek(one.queue) = -1
      BY <3>2 DEF Peek
    <3> QED
      BY <1>1, <1>3, <3>3, WrapType
  <2>4. /\ more.event \in 1 .. Wrap(one.queue)
        /\ more.nodes \subseteq Held(one.queue)
        /\ Sound(more.queue)
        /\ Held(more.queue) = Held(one.queue) \ more.nodes
        /\ more.queue.bitmap_size = one.queue.bitmap_size
    BY <1>1, <2>3, RetrieveListSound
  <2>5. Wrap(one.queue) = Wrap(q)
    BY <1>1 DEF Wrap
  <2> HIDE DEF more
  <2>6. RetrieveDue(q) = [event |-> more.event,
                          nodes |-> more.nodes \cup one.nodes,
                          queue |-> more.queue]
    BY <2>1, <2>2
  <2> QED
    BY <1>1, <2>4, <2>5, <2>6
<1> QED
  BY <1>2, <1>3

\* A release inserts again every node that it takes out.
LEMMA ReleaseDueSound ==
  ASSUME NEW q, Sound(q), Held(q) # {},
         NEW period, \A n \in Server : period[n] \in 1 .. Wrap(q)
  PROVE  LET r == ReleaseDue(q, period)
         IN  /\ Sound(r.queue)
             /\ Held(r.queue) = Held(q)
             /\ r.queue.bitmap_size = q.bitmap_size
             /\ r.nodes \subseteq Held(q)
             /\ r.first \in r.nodes
             /\ r.node \in Held(q)
             /\ r.relative \in Int
<1> DEFINE due  == RetrieveDue(q)
           at   == [n \in due.nodes |-> due.event + period[n]]
           u    == InsertAll(due.queue, at)
           next == FetchNext(u)
<1>1. /\ due.event \in 1 .. Wrap(q)
      /\ due.nodes \subseteq Held(q)
      /\ FoundList(Search(q)) \subseteq due.nodes
      /\ Sound(due.queue)
      /\ Held(due.queue) = Held(q) \ due.nodes
      /\ due.queue.bitmap_size = q.bitmap_size
  BY RetrieveDueSound
<1>2. Retrieve(q).node \in due.nodes
  <2>1. Retrieve(q).node \in FoundList(Search(q))
    BY RetrieveSound
  <2> QED
    BY <1>1, <2>1
<1>3. ReleaseDue(q, period) =
        [ queue |-> next.queue, nodes |-> due.nodes,
          first |-> Retrieve(q).node, node |-> next.node,
          relative |-> next.event - next.queue.virtual_time ]
  BY DEF ReleaseDue
<1> HIDE DEF due
<1>4. Wrap(due.queue) = Wrap(q) /\ Wrap(q) \in Nat
  BY <1>1, WrapType DEF Wrap
<1>5. due.nodes \in SUBSET Server
  BY <1>1 DEF Held
<1>6. at \in [due.nodes -> 1 .. 2 * Wrap(due.queue)]
  BY <1>1, <1>4, <1>5
<1>7. Sound(u) /\ Held(u) = Held(q) /\ u.bitmap_size = q.bitmap_size
  <2> HIDE DEF at
  <2>1. /\ Sound(u) /\ Held(u) = Held(due.queue) \cup due.nodes
        /\ u.bitmap_size = due.queue.bitmap_size
    BY <1>1, <1>5, <1>6, InsertAllSound
  <2> QED
    BY <1>1, <2>1
<1> HIDE DEF u
<1>8. /\ next.event \in 1 .. Wrap(u) /\ next.node \in Held(q)
      /\ Sound(next.queue) /\ Held(next.queue) = Held(q)
      /\ next.queue.bitmap_size = q.bitmap_size
  BY <1>7, FetchNextSound
<1> HIDE DEF next
<1>9. next.event - next.queue.virtual_time \in Int
  <2>1. next.queue.virtual_time \in Int
    BY <1>8 DEF Sound, Typed, IsRelPq
  <2>2. next.event \in Int
    BY <1>7, <1>8, WrapType
  <2> QED
    BY <2>1, <2>2
<1> QED
  BY <1>1, <1>2, <1>3, <1>8, <1>9

----------------------------------------------------------------------------
(* The queue at the start.                                                 *)

\* The bitmaps are long enough for the largest period.
LEMMA BitmapSizeProperty ==
  ASSUME NEW largest \in Nat \ {0}
  PROVE  /\ BitmapSize(largest) \in Nat \ {0}
         /\ BitmapSize(largest) * INT_SIZE_BIT >= largest
<1> DEFINE S == {n \in 0 .. largest : n * INT_SIZE_BIT >= largest}
<1>1. S \in SUBSET Nat
  OBVIOUS
<1>2. largest \in S
  BY RelPqAssumption
<1>3. Least(S) \in S
  <2> HIDE DEF S
  <2> QED
    BY <1>1, <1>2, LeastProperty
<1>4. 0 \notin S
  BY RelPqAssumption
<1> QED
  BY <1>1, <1>3, <1>4 DEF BitmapSize

\* A queue that was just initialised is sound and empty.
LEMMA RelPqInitSound ==
  ASSUME NEW largest \in Nat \ {0}, NEW position \in [Server -> Nat]
  PROVE  LET q == [RelPqInit(largest) EXCEPT !.since = position]
         IN  /\ Sound(q) /\ Held(q) = {}
             /\ q.virtual_time = 0
             /\ Wrap(q) >= largest
<1> DEFINE size  == BitmapSize(largest)
           bits  == [c \in {0, 1} |-> [i \in 0 .. size - 1 |-> {}]]
           lists == [c \in {0, 1} |-> [v \in 1 .. size * INT_SIZE_BIT |-> {}]]
           q     == [RelPqInit(largest) EXCEPT !.since = position]
<1>1. size \in Nat \ {0} /\ size * INT_SIZE_BIT >= largest
  BY BitmapSizeProperty
<1>2. q = [ virtual_time |-> 0, nr_of_elements |-> 0,
            active_bitmap_int_index |-> 0, bitmap_size |-> size,
            active_bitmap |-> 0, since |-> position,
            bitmap |-> bits, bitmap_extension |-> lists ]
  <2> DEFINE zero == [n \in Server |-> 0]
  <2>1. RelPqInit(largest) =
          [ virtual_time |-> 0, nr_of_elements |-> 0,
            active_bitmap_int_index |-> 0, bitmap_size |-> size,
            active_bitmap |-> 0, since |-> zero,
            bitmap |-> bits, bitmap_extension |-> lists ]
    BY DEF RelPqInit
  <2> HIDE DEF bits, lists, size, zero
  <2> QED
    BY <2>1
<1> HIDE DEF q, size
<1>3. IsRelPq(q) /\ Wrap(q) = size * INT_SIZE_BIT
  BY <1>1, <1>2 DEF IsRelPq, Wrap
<1>4. Typed(q)
  BY <1>1, <1>2, <1>3 DEF Typed
<1>5. \A n \in Server : Places(q, n) = {}
  BY <1>2, <1>3 DEF Places
<1>6. Held(q) = {} /\ OnePlace(q)
  BY <1>5 DEF Held, OnePlace
<1>7. BitmapMatchesLists(q)
  <2> SUFFICES ASSUME NEW c \in {0, 1}, NEW v \in 1 .. Wrap(q)
               PROVE  /\ q.bitmap[c][DivByIntSize(v)] = {}
                      /\ q.bitmap_extension[c][v] = {}
    BY DEF BitmapMatchesLists
  <2>1. DivByIntSize(v) \in 0 .. size - 1
    BY <1>1, <1>3, BitPosition
  <2> QED
    BY <1>2, <1>3, <2>1
<1>8. q.nr_of_elements = Cardinality(Held(q))
  BY <1>2, <1>6, FS_EmptySet
<1> QED
  BY <1>1, <1>2, <1>3, <1>4, <1>6, <1>7, <1>8 DEF Sound, q

----------------------------------------------------------------------------
(* When the nodes are due.                                                 *)

\* Each node in a list of q is due d[n] jiffies after the virtual time.
Timed(q, d) ==
  \A b \in {0, 1} : \A v \in 1 .. Wrap(q) : \A n \in q.bitmap_extension[b][v] :
    v + (IF b = q.active_bitmap THEN 0 ELSE Wrap(q)) = q.virtual_time + d[n]

\* No list of the active bitmap is behind the integer where a search starts.
Ahead(q) ==
  \A v \in 1 .. Wrap(q) : q.bitmap_extension[q.active_bitmap][v] # {} =>
    DivByIntSize(v) >= q.active_bitmap_int_index

\* Where a search stopped are the nodes that are due first, and only those.
FirstDue(s, d) ==
  \A n \in Held(s) :
    /\ FoundValue(s) <= s.virtual_time + d[n]
    /\ n \in FoundList(s) <=> FoundValue(s) = s.virtual_time + d[n]

\* A node that is held is in some list.
LEMMA HeldInList ==
  ASSUME NEW q, NEW n \in Held(q)
  PROVE  n \in Server /\ \E b \in {0, 1} : \E v \in 1 .. Wrap(q) :
                           n \in q.bitmap_extension[b][v]
BY DEF Held, Places

\* The instant of a node is what Timed says.
LEMMA TimedInstants ==
  ASSUME NEW q, NEW d, Timed(q, d), NEW n \in Held(q)
  PROVE  Instants(q, n) = {q.virtual_time + d[n]}
<1> DEFINE at(p) == p[2] + (IF p[1] = q.active_bitmap THEN 0 ELSE Wrap(q))
<1>1. \A p \in Places(q, n) : at(p) = q.virtual_time + d[n]
  BY DEF Timed, Places
<1>2. Places(q, n) # {}
  BY DEF Held
<1>3. Instants(q, n) = {at(p) : p \in Places(q, n)}
  BY DEF Instants
<1> HIDE DEF at
<1> QED
  BY <1>1, <1>2, <1>3

\* A search over the active bitmap stops at the nodes that are due first.
LEMMA LeastDue ==
  ASSUME NEW q, Sound(q), NonEmptyInts(q) # {},
         NEW d \in [Server -> Int], Timed(q, d), Ahead(q),
         NEW s, s = [q EXCEPT !.active_bitmap_int_index =
                                Least(NonEmptyInts(q))]
  PROVE  /\ Timed(s, d) /\ Ahead(s) /\ FirstDue(s, d)
         /\ s.virtual_time = q.virtual_time
<1> DEFINE b == s.active_bitmap
           i == s.active_bitmap_int_index
           f == FoundValue(s)
           ints == s.bitmap[b][i]
<1>1. /\ Sound(s) /\ SameContent(s, q) /\ b = q.active_bitmap
      /\ f \in 1 .. Wrap(s) /\ DivByIntSize(f) = i
  BY FoundValueProperty
<1>2. /\ IsRelPq(q) /\ q.bitmap_size \in Nat \ {0}
      /\ q.active_bitmap_int_index \in 0 .. q.bitmap_size - 1
  BY DEF Sound, Typed
<1>3. /\ s.virtual_time = q.virtual_time /\ i = Least(NonEmptyInts(q))
      /\ Wrap(s) = Wrap(q) /\ s.bitmap = q.bitmap
      /\ s.bitmap_extension = q.bitmap_extension
      /\ s.bitmap_size = q.bitmap_size
  BY <1>1, <1>2 DEF IsRelPq, SameContent, Wrap
<1>4. /\ b \in {0, 1} /\ s.virtual_time \in Int /\ Wrap(s) \in Nat /\ f \in Nat
      /\ i \in 0 .. s.bitmap_size - 1 /\ s.bitmap_size \in Nat \ {0}
      /\ INT_SIZE_BIT \in Nat \ {0}
      /\ BitmapMatchesLists(s)
      /\ \A c \in {0, 1} : \A j \in 0 .. s.bitmap_size - 1 :
           s.bitmap[c][j] \in SUBSET (1 .. INT_SIZE_BIT)
  <2>1. IsRelPq(s) /\ s.bitmap_size \in Nat \ {0} /\ Wrap(s) \in Nat
        /\ i \in 0 .. s.bitmap_size - 1 /\ BitmapMatchesLists(s)
    BY <1>1, WrapType DEF Sound, Typed
  <2>2. /\ b \in {0, 1} /\ s.virtual_time \in Int
        /\ s.bitmap \in [{0, 1} ->
             [0 .. s.bitmap_size - 1 -> SUBSET (1 .. INT_SIZE_BIT)]]
    BY <2>1 DEF IsRelPq
  <2> QED
    BY <1>1, <2>1, <2>2, RelPqAssumption
<1>5. Timed(s, d)
  BY <1>1, <1>3 DEF Timed
<1>6. ASSUME NEW v \in 1 .. Wrap(s), s.bitmap_extension[b][v] # {}
      PROVE  DivByIntSize(v) >= i /\ f <= v
  <2> DEFINE k == DivByIntSize(v)
             c == BitOf(v)
  <2>1. /\ k \in 0 .. s.bitmap_size - 1 /\ c \in 1 .. INT_SIZE_BIT
        /\ v = c + k * INT_SIZE_BIT
        /\ BitOf(f) \in 1 .. INT_SIZE_BIT
        /\ f = BitOf(f) + i * INT_SIZE_BIT
    BY <1>1, <1>4, BitPosition DEF Wrap
  <2>2. c \in s.bitmap[b][k]
    BY <1>4, <1>6 DEF BitmapMatchesLists
  <2>3. k >= q.active_bitmap_int_index
    BY <1>1, <1>3, <1>6 DEF Ahead
  <2>4. k \in NonEmptyInts(q)
    <3>1. k \in Nat /\ k <= q.bitmap_size - 1
      BY <1>1, <1>3, <2>1
    <3>2. q.bitmap[q.active_bitmap][k] # {}
      BY <1>1, <1>3, <2>2
    <3>3. q.active_bitmap_int_index \in Nat /\ q.bitmap_size \in Nat
      BY <1>2
    <3> HIDE DEF k
    <3>4. k \in q.active_bitmap_int_index .. q.bitmap_size - 1
      BY <2>3, <3>1, <3>3
    <3> QED
      BY <3>2, <3>4 DEF NonEmptyInts
  <2>5. i <= k
    <3>1. NonEmptyInts(q) \in SUBSET Nat
      BY <1>2 DEF NonEmptyInts
    <3> QED
      BY <1>3, <2>4, <3>1, LeastProperty
  <2>6. CASE i < k
    <3>1. (i + 1) * INT_SIZE_BIT <= k * INT_SIZE_BIT
      BY <1>4, <2>1, <2>6
    <3>2. i * INT_SIZE_BIT \in Nat /\ k * INT_SIZE_BIT \in Nat
      BY <1>4, <2>1
    <3> QED
      BY <1>4, <2>1, <2>5, <3>1, <3>2
  <2>7. CASE i = k
    <3>1. ints \in SUBSET Nat
      BY <1>4
    <3>2. c \in ints
      BY <2>2, <2>7
    <3>3. Least(ints) <= c
      <4> HIDE DEF ints, c
      <4> QED
        BY <3>1, <3>2, LeastProperty
    <3>4. Least(ints) \in Nat
      <4> HIDE DEF ints, c
      <4> QED
        BY <3>1, <3>2, LeastProperty
    <3>5. f = Least(ints) + i * INT_SIZE_BIT
      BY DEF FoundValue
    <3>6. i * INT_SIZE_BIT \in Nat
      BY <1>4
    <3>7. k * INT_SIZE_BIT = i * INT_SIZE_BIT /\ k >= i
      BY <1>4, <2>1, <2>7
    <3>8. f <= v
      <4> HIDE DEF f, ints, c, k
      <4> QED
        BY <2>1, <3>3, <3>4, <3>5, <3>6, <3>7
    <3> QED
      BY <3>7, <3>8
  <2> QED
    BY <1>4, <2>1, <2>5, <2>6, <2>7
<1>7. Ahead(s)
  BY <1>6 DEF Ahead
<1>8. FoundList(s) = s.bitmap_extension[b][f]
  BY DEF FoundList
<1>9. ASSUME NEW n \in Held(s)
      PROVE  /\ f <= s.virtual_time + d[n]
             /\ n \in FoundList(s) <=> f = s.virtual_time + d[n]
  <2>1. PICK c \in {0, 1}, v \in 1 .. Wrap(s) : n \in s.bitmap_extension[c][v]
    BY HeldInList
  <2>2. n \in Server /\ d[n] \in Int
    BY HeldInList
  <2>3. v + (IF c = b THEN 0 ELSE Wrap(s)) = s.virtual_time + d[n]
    BY <1>5, <2>1 DEF Timed
  <2>4. n \in FoundList(s) => f = s.virtual_time + d[n]
    <3> HIDE DEF f
    <3> SUFFICES ASSUME n \in s.bitmap_extension[b][f]
                 PROVE  f = s.virtual_time + d[n]
      BY <1>8
    <3>1. f + (IF b = b THEN 0 ELSE Wrap(s)) = s.virtual_time + d[n]
      BY <1>1, <1>4, <1>5 DEF Timed
    <3> QED
      BY <1>4, <3>1
  <2> HIDE DEF f
  <2>5. CASE c = b
    <3>1. f <= v /\ v = s.virtual_time + d[n]
      BY <1>4, <1>6, <2>1, <2>3, <2>5
    <3>2. f = v => n \in FoundList(s)
      BY <1>8, <2>1, <2>5
    <3> QED
      BY <2>4, <3>1, <3>2
  <2>6. CASE c # b
    BY <1>1, <1>4, <2>2, <2>3, <2>4, <2>6
  <2> QED
    BY <2>5, <2>6
<1> QED
  BY <1>3, <1>5, <1>7, <1>9 DEF FirstDue

\* A search leaves the active bitmap when it is empty; the nodes of the other
\* one are due as before.
LEMMA ShiftDue ==
  ASSUME NEW q, Sound(q), NonEmptyInts(q) = {},
         NEW d \in [Server -> Int], Timed(q, d), Ahead(q),
         NEW s, s = ShiftBitmap(q)
  PROVE  /\ Timed(s, d) /\ Ahead(s)
         /\ s.virtual_time = q.virtual_time - Wrap(q)
         /\ Held(q) # {} => NonEmptyInts(s) # {}
<1> DEFINE b == q.active_bitmap
<1>1. /\ IsRelPq(q) /\ q.bitmap_size \in Nat \ {0} /\ BitmapMatchesLists(q)
      /\ q.active_bitmap_int_index \in 0 .. q.bitmap_size - 1
      /\ Wrap(q) \in Nat
  BY WrapType DEF Sound, Typed
<1>2. /\ Typed(s) /\ SameContent(s, q) /\ s.active_bitmap = Other(b)
      /\ s.active_bitmap_int_index = 0
  BY ShiftBitmapSound DEF Sound
<1>3. /\ b \in {0, 1} /\ q.virtual_time \in Int
      /\ s.bitmap_extension = q.bitmap_extension /\ Wrap(s) = Wrap(q)
  BY <1>1, <1>2 DEF IsRelPq, SameContent, Wrap
<1>4. s.virtual_time = q.virtual_time - Wrap(q)
  <2>1. s.virtual_time = -(Wrap(q) - q.virtual_time)
    BY <1>1 DEF ShiftBitmap, IsRelPq
  <2> QED
    BY <1>1, <1>3, <2>1
<1>5. ASSUME NEW v \in 1 .. Wrap(q)
      PROVE  q.bitmap_extension[b][v] = {}
  <2> SUFFICES ASSUME q.bitmap_extension[b][v] # {}
               PROVE  FALSE
    OBVIOUS
  <2>1. DivByIntSize(v) \in 0 .. q.bitmap_size - 1
    BY <1>1, BitPosition DEF Wrap
  <2>2. BitOf(v) \in q.bitmap[b][DivByIntSize(v)]
    BY <1>1, <1>3 DEF BitmapMatchesLists
  <2>3. DivByIntSize(v) >= q.active_bitmap_int_index
    BY DEF Ahead
  <2>4. DivByIntSize(v) \in NonEmptyInts(q)
    BY <1>1, <2>1, <2>2, <2>3 DEF NonEmptyInts
  <2> QED
    BY <2>4
<1>6. Timed(s, d)
  <2> SUFFICES ASSUME NEW c \in {0, 1}, NEW v \in 1 .. Wrap(q),
                      NEW n \in q.bitmap_extension[c][v]
               PROVE  v + (IF c = s.active_bitmap THEN 0 ELSE Wrap(q))
                        = s.virtual_time + d[n]
    BY <1>3 DEF Timed
  <2>1. c # b /\ c = s.active_bitmap
    BY <1>2, <1>3, <1>5 DEF Other
  <2>2. v + (IF c = b THEN 0 ELSE Wrap(q)) = q.virtual_time + d[n]
    BY DEF Timed
  <2>3. n \in Server /\ d[n] \in Int
    BY <1>1 DEF IsRelPq
  <2> QED
    BY <1>1, <1>3, <1>4, <2>1, <2>2, <2>3
<1>7. Ahead(s)
  <2>1. \A v \in 1 .. Wrap(q) : DivByIntSize(v) >= 0
    BY <1>1, BitPosition DEF Wrap
  <2> QED
    BY <1>2, <1>3, <2>1 DEF Ahead
<1>8. ASSUME NEW n \in Held(q)
      PROVE  NonEmptyInts(s) # {}
  <2>1. PICK c \in {0, 1}, v \in 1 .. Wrap(q) : n \in q.bitmap_extension[c][v]
    BY HeldInList
  <2>2. c = s.active_bitmap
    BY <1>2, <1>3, <1>5, <2>1 DEF Other
  <2>3. DivByIntSize(v) \in 0 .. q.bitmap_size - 1
    BY <1>1, BitPosition DEF Wrap
  <2>4. BitOf(v) \in s.bitmap[c][DivByIntSize(v)]
    BY <1>1, <1>2, <2>1 DEF BitmapMatchesLists, SameContent
  <2>5. DivByIntSize(v) \in NonEmptyInts(s)
    BY <1>1, <1>2, <2>2, <2>3, <2>4 DEF NonEmptyInts, SameContent
  <2> QED
    BY <2>5
<1> QED
  BY <1>4, <1>6, <1>7, <1>8

\* A search finds the nodes that are due first.  It leaves the active bitmap
\* once at most.
LEMMA SearchDue ==
  ASSUME NEW q, Sound(q), Held(q) # {},
         NEW d \in [Server -> Int], Timed(q, d), Ahead(q),
         NEW s, s = Search(q)
  PROVE  /\ Timed(s, d) /\ Ahead(s) /\ FirstDue(s, d)
         /\ s.virtual_time \in {q.virtual_time, q.virtual_time - Wrap(q)}
<1>1. CASE NonEmptyInts(q) # {}
  <2>1. s = [q EXCEPT !.active_bitmap_int_index = Least(NonEmptyInts(q))]
    BY <1>1 DEF Search
  <2> QED
    BY <1>1, <2>1, LeastDue
<1>2. CASE NonEmptyInts(q) = {}
  <2>1. PICK p : p = ShiftBitmap(q)
    OBVIOUS
  <2>2. /\ Timed(p, d) /\ Ahead(p)
        /\ p.virtual_time = q.virtual_time - Wrap(q)
    BY <1>2, <2>1, ShiftDue
  <2>3. /\ Sound(p) /\ Held(p) = Held(q) /\ p.active_bitmap_int_index = 0
    BY <2>1, ShiftBitmapSound, SameContentSound DEF Sound
  <2>4. NonEmptyInts(p) # {}
    BY <1>2, <2>1, ShiftDue
  <2>5. s = [p EXCEPT !.active_bitmap_int_index = Least(NonEmptyInts(p))]
    BY <1>2, <2>1, <2>4 DEF Search
  <2> QED
    BY <2>2, <2>3, <2>4, <2>5, LeastDue
<1> QED
  BY <1>1, <1>2

\* The nodes that stay when others are unlinked are due as before.
LEMMA UnlinkDue ==
  ASSUME NEW s, Stopped(s), NEW nodes,
         NEW d, Timed(s, d), Ahead(s),
         NEW r, r = Unlink(s, nodes)
  PROVE  /\ Timed(r, d) /\ Ahead(r)
         /\ r.virtual_time = s.virtual_time
         /\ r.active_bitmap_int_index = s.active_bitmap_int_index
         /\ Wrap(r) = Wrap(s)
<1> DEFINE v     == FoundValue(s)
           b     == s.active_bitmap
           left  == FoundList(s) \ nodes
           lists == Update(s.bitmap_extension, b, v, left)
<1>1. /\ IsRelPq(s) /\ b \in {0, 1} /\ v \in 1 .. Wrap(s)
      /\ s.bitmap_extension \in [{0, 1} -> [1 .. Wrap(s) -> SUBSET Server]]
      /\ left \subseteq s.bitmap_extension[b][v]
  BY DEF Stopped, Sound, Typed, IsRelPq, FoundList
<1>2. /\ r.virtual_time = s.virtual_time
      /\ r.active_bitmap_int_index = s.active_bitmap_int_index
      /\ r.active_bitmap = b
      /\ r.bitmap_size = s.bitmap_size
      /\ r.bitmap_extension = lists
  BY <1>1 DEF Unlink, IsRelPq
<1>3. \A c \in {0, 1} : \A w \in 1 .. Wrap(s) :
        lists[c][w] \subseteq s.bitmap_extension[c][w]
  <2> HIDE DEF v, b, left
  <2> QED
    BY <1>1 DEF Update
<1>4. Wrap(r) = Wrap(s)
  BY <1>2 DEF Wrap
<1> HIDE DEF v, left, lists
<1>5. Timed(r, d)
  BY <1>2, <1>3, <1>4 DEF Timed
<1>6. Ahead(r)
  BY <1>1, <1>2, <1>3, <1>4 DEF Ahead
<1> QED
  BY <1>2, <1>4, <1>5, <1>6

\* A retrieve takes out a node that is due first.
LEMMA RetrieveFirst ==
  ASSUME NEW q, Sound(q), Held(q) # {},
         NEW d \in [Server -> Int], Timed(q, d), Ahead(q),
         NEW r, r = Retrieve(q)
  PROVE  /\ Timed(r.queue, d) /\ Ahead(r.queue)
         /\ r.event = r.queue.virtual_time + d[r.node]
         /\ DivByIntSize(r.event) = r.queue.active_bitmap_int_index
         /\ \A n \in Held(q) : d[r.node] <= d[n]
         /\ r.queue.virtual_time \in {q.virtual_time, q.virtual_time - Wrap(q)}
<1>1. PICK s : s = Search(q)
  OBVIOUS
<1>2. /\ Timed(s, d) /\ Ahead(s) /\ FirstDue(s, d)
      /\ s.virtual_time \in {q.virtual_time, q.virtual_time - Wrap(q)}
  BY <1>1, SearchDue
<1>3. Stopped(s) /\ Held(s) = Held(q) /\ Wrap(s) = Wrap(q)
  BY <1>1, SearchStops
<1>4. r.node \in Held(q) /\ r.node \in FoundList(s)
  BY <1>1, RetrieveSound
<1>5. PICK n : n = r.node
  OBVIOUS
<1>6. r = [event |-> FoundValue(s), node |-> n, queue |-> Unlink(s, {n})]
  BY <1>1, <1>5 DEF Retrieve
<1>7. r.event = FoundValue(s) /\ r.queue = Unlink(s, {n})
  BY <1>6
<1>8. /\ Timed(r.queue, d) /\ Ahead(r.queue)
      /\ r.queue.virtual_time = s.virtual_time
      /\ r.queue.active_bitmap_int_index = s.active_bitmap_int_index
  BY <1>2, <1>3, <1>7, UnlinkDue
<1>9. FoundValue(s) = s.virtual_time + d[n]
  BY <1>2, <1>3, <1>4, <1>5 DEF FirstDue
<1>10. \A m \in Held(q) : d[n] <= d[m]
  <2> TAKE m \in Held(q)
  <2>1. FoundValue(s) <= s.virtual_time + d[m]
    BY <1>2, <1>3 DEF FirstDue
  <2>2. d[n] \in Int /\ d[m] \in Int /\ s.virtual_time \in Int
    <3>1. n \in Server /\ m \in Server
      BY <1>4, <1>5 DEF Held
    <3> QED
      BY <1>3, <3>1 DEF Stopped, Sound, Typed, IsRelPq
  <2> QED
    BY <1>9, <2>1, <2>2
<1>11. DivByIntSize(FoundValue(s)) = s.active_bitmap_int_index
  BY <1>3 DEF Stopped
<1> QED
  BY <1>2, <1>5, <1>7, <1>8, <1>9, <1>10, <1>11

\* The retrieves of a loop take out all the nodes that are due first.
LEMMA RetrieveListFirst ==
  ASSUME NEW q, Sound(q), Held(q) # {},
         NEW d \in [Server -> Int], Timed(q, d), Ahead(q),
         NEW r, r = RetrieveList(q)
  PROVE  /\ Timed(r.queue, d) /\ Ahead(r.queue)
         /\ r.nodes = {n \in Held(q) : \A m \in Held(q) : d[n] <= d[m]}
         /\ \A n \in r.nodes : r.event = r.queue.virtual_time + d[n]
         /\ DivByIntSize(r.event) = r.queue.active_bitmap_int_index
         /\ r.queue.virtual_time \in {q.virtual_time, q.virtual_time - Wrap(q)}
<1>1. PICK s : s = Search(q)
  OBVIOUS
<1>2. /\ Timed(s, d) /\ Ahead(s) /\ FirstDue(s, d)
      /\ s.virtual_time \in {q.virtual_time, q.virtual_time - Wrap(q)}
  BY <1>1, SearchDue
<1>3. Stopped(s) /\ Held(s) = Held(q) /\ Wrap(s) = Wrap(q)
  BY <1>1, SearchStops
<1>4. r.nodes = FoundList(s) /\ r.nodes \subseteq Held(q) /\ r.nodes # {}
  BY <1>1, RetrieveListSound
<1>5. r = [event |-> FoundValue(s), nodes |-> FoundList(s),
           queue |-> Unlink(s, FoundList(s))]
  BY <1>1 DEF RetrieveList
<1>6. r.event = FoundValue(s) /\ r.queue = Unlink(s, FoundList(s))
  BY <1>5
<1>7. /\ Timed(r.queue, d) /\ Ahead(r.queue)
      /\ r.queue.virtual_time = s.virtual_time
      /\ r.queue.active_bitmap_int_index = s.active_bitmap_int_index
  BY <1>2, <1>3, <1>6, UnlinkDue
<1>8. \A n \in Held(q) : d[n] \in Int
  BY DEF Held
<1>9. PICK f, t : f = FoundValue(s) /\ t = s.virtual_time
  OBVIOUS
<1>10. f \in Int /\ t \in Int
  BY <1>3, <1>9, WrapType DEF Stopped, Sound, Typed, IsRelPq
<1>11. ASSUME NEW n \in Held(q)
       PROVE  f <= t + d[n] /\ (n \in r.nodes <=> f = t + d[n])
  BY <1>2, <1>3, <1>4, <1>9 DEF FirstDue
<1>12. r.nodes = {n \in Held(q) : \A m \in Held(q) : d[n] <= d[m]}
  <2>1. PICK k \in r.nodes : TRUE
    BY <1>4
  <2>2. k \in Held(q) /\ f = t + d[k]
    BY <1>4, <1>11, <2>1
  <2>3. ASSUME NEW n \in Held(q)
        PROVE  n \in r.nodes <=> \A m \in Held(q) : d[n] <= d[m]
    <3>1. n \in r.nodes => \A m \in Held(q) : d[n] <= d[m]
      <4> SUFFICES ASSUME n \in r.nodes, NEW m \in Held(q)
                   PROVE  d[n] <= d[m]
        OBVIOUS
      <4>1. f = t + d[n] /\ f <= t + d[m] /\ d[n] \in Int /\ d[m] \in Int
        BY <1>8, <1>11
      <4> QED
        BY <1>10, <4>1
    <3>2. d[n] <= d[k] => n \in r.nodes
      <4>1. f <= t + d[n] /\ d[n] \in Int /\ d[k] \in Int
        BY <1>8, <1>11, <2>2
      <4>2. d[n] <= d[k] => f = t + d[n]
        BY <1>10, <2>2, <4>1
      <4> QED
        BY <1>11, <4>2
    <3> QED
      BY <2>2, <3>1, <3>2
  <2> QED
    BY <1>4, <2>3
<1>13. \A n \in r.nodes : r.event = r.queue.virtual_time + d[n]
  <2> TAKE n \in r.nodes
  <2>1. f = t + d[n]
    BY <1>4, <1>11
  <2> QED
    BY <1>6, <1>7, <1>9, <2>1
<1>14. DivByIntSize(FoundValue(s)) = s.active_bitmap_int_index
  BY <1>3 DEF Stopped
<1> QED
  BY <1>2, <1>6, <1>7, <1>12, <1>13, <1>14

\* Nodes are due when they were inserted for.
LEMMA InsertAllDue ==
  ASSUME NEW q, Sound(q), NEW D \in SUBSET Server,
         NEW at \in [D -> 1 .. 2 * Wrap(q)],
         NEW d \in [Server -> Int], Timed(q, d), Ahead(q),
         \A n \in D : at[n] = q.virtual_time + d[n],
         \A n \in D : at[n] <= Wrap(q) =>
           DivByIntSize(at[n]) >= q.active_bitmap_int_index,
         NEW r, r = InsertAll(q, at)
  PROVE  /\ Timed(r, d) /\ Ahead(r)
         /\ r.virtual_time = q.virtual_time
         /\ r.since = Pushed(q, D)
<1> DEFINE b == q.active_bitmap
           bit(n) == Wrapped(q, at[n])
           In(c)  == {n \in D : Bitmap(q, at[n]) = c}
           lists  == [c \in {0, 1} |-> [v \in DOMAIN q.bitmap_extension[c] |->
                        q.bitmap_extension[c][v]
                          \cup {n \in In(c) : bit(n) = v}]]
<1>1. /\ IsRelPq(q) /\ b \in {0, 1} /\ Wrap(q) \in Nat
      /\ q.bitmap_extension \in [{0, 1} -> [1 .. Wrap(q) -> SUBSET Server]]
  BY WrapType DEF Sound, Typed, IsRelPq
<1>2. /\ r.virtual_time = q.virtual_time
      /\ r.active_bitmap_int_index = q.active_bitmap_int_index
      /\ r.active_bitmap = b
      /\ r.bitmap_size = q.bitmap_size
      /\ r.since = Pushed(q, D)
      /\ r.bitmap_extension = lists
  <2>1. DOMAIN at = D
    OBVIOUS
  <2> QED
    BY <1>1, <2>1 DEF InsertAll, IsRelPq
<1>3. Wrap(r) = Wrap(q)
  BY <1>2 DEF Wrap
<1>4. ASSUME NEW c \in {0, 1}, NEW v \in 1 .. Wrap(q), NEW n \in lists[c][v]
      PROVE  \/ n \in q.bitmap_extension[c][v]
             \/ n \in D /\ Bitmap(q, at[n]) = c /\ bit(n) = v
  <2> HIDE DEF b, bit
  <2> QED
    BY <1>1, <1>4
<1> HIDE DEF lists
<1>5. ASSUME NEW n \in D, NEW c \in {0, 1}, NEW v \in 1 .. Wrap(q),
             Bitmap(q, at[n]) = c, bit(n) = v
      PROVE  /\ v + (IF c = b THEN 0 ELSE Wrap(q)) = at[n]
             /\ c = b => v = at[n] /\ at[n] <= Wrap(q)
  <2>1. PICK x, w : x = at[n] /\ w = Wrap(q)
    OBVIOUS
  <2>2. x \in Nat /\ w \in Nat /\ v \in Nat
    BY <1>1, <2>1
  <2>3. CASE x > w
    <3>1. c = Other(b) /\ v = x - w
      BY <1>5, <2>1, <2>3 DEF Bitmap, Wrapped
    <3> QED
      BY <1>1, <2>1, <2>2, <3>1 DEF Other
  <2>4. CASE ~(x > w)
    <3>1. c = b /\ v = x
      BY <1>5, <2>1, <2>4 DEF Bitmap, Wrapped
    <3> QED
      BY <2>1, <2>2, <2>4, <3>1
  <2> QED
    BY <2>3, <2>4
<1>6. Timed(r, d)
  <2> SUFFICES ASSUME NEW c \in {0, 1}, NEW v \in 1 .. Wrap(q),
                      NEW n \in lists[c][v]
               PROVE  v + (IF c = b THEN 0 ELSE Wrap(q)) = q.virtual_time + d[n]
    BY <1>2, <1>3 DEF Timed
  <2>1. CASE n \in q.bitmap_extension[c][v]
    BY <2>1 DEF Timed
  <2>2. CASE n \in D /\ Bitmap(q, at[n]) = c /\ bit(n) = v
    BY <1>5, <2>2
  <2> QED
    BY <1>4, <2>1, <2>2
<1>7. Ahead(r)
  <2> SUFFICES ASSUME NEW v \in 1 .. Wrap(q), NEW n \in lists[b][v]
               PROVE  DivByIntSize(v) >= q.active_bitmap_int_index
    BY <1>2, <1>3 DEF Ahead
  <2>1. CASE n \in q.bitmap_extension[b][v]
    BY <2>1 DEF Ahead
  <2>2. CASE n \in D /\ Bitmap(q, at[n]) = b /\ bit(n) = v
    BY <1>1, <1>5, <2>2
  <2> QED
    BY <1>1, <1>4, <2>1, <2>2
<1> QED
  BY <1>2, <1>6, <1>7

\* A node is the newest one when it was inserted last.
Newest(q, n) == \A m \in Server \ {n} : q.since[n] < q.since[m]

LEMMA PushedNewest ==
  ASSUME NEW q, NEW n \in Server, NEW r, r.since = Pushed(q, {n})
  PROVE  Newest(r, n)
<1> DEFINE Later(m, k) == IF m \in {n} <=> k \in {n}
                          THEN (m \in {n}) # (q.since[m] < q.since[k]) /\ m # k
                          ELSE m \in {n}
           S(k) == {m \in Server : Later(m, k)}
<1>1. \A k \in Server : r.since[k] = Cardinality(S(k))
  BY DEF Pushed
<1>2. S(n) = {}
  OBVIOUS
<1>3. ASSUME NEW k \in Server \ {n}
      PROVE  n \in S(k) /\ IsFiniteSet(S(k))
  BY RelPqAssumption, FS_Subset
<1> HIDE DEF S
<1>4. r.since[n] = 0
  BY <1>1, <1>2, FS_EmptySet
<1>5. ASSUME NEW k \in Server \ {n}
      PROVE  r.since[k] > 0
  <2>1. S(k) # {} /\ IsFiniteSet(S(k))
    BY <1>3
  <2>2. Cardinality(S(k)) \in Nat /\ Cardinality(S(k)) # 0
    BY <2>1, FS_CardinalityType, FS_EmptySet
  <2> QED
    BY <1>1, <2>2
<1> QED
  BY <1>4, <1>5 DEF Newest

\* Of the nodes that are due first the newest one is retrieved first.
LEMMA NewestRetrieved ==
  ASSUME NEW q, Sound(q), Held(q) # {},
         NEW d \in [Server -> Int], Timed(q, d), Ahead(q),
         NEW n \in Held(q), \A m \in Held(q) : d[n] <= d[m], Newest(q, n)
  PROVE  Retrieve(q).node = n
<1>1. PICK s : s = Search(q)
  OBVIOUS
<1>2. FirstDue(s, d)
  BY <1>1, SearchDue
<1>3. Stopped(s) /\ Held(s) = Held(q)
  BY <1>1, SearchStops
<1>4. s.since = q.since /\ q.since \in [Server -> Nat]
  BY <1>1, SearchProperty DEF SameContent, Sound, Typed, IsRelPq
<1>5. PICK k : k = Retrieve(q).node
  OBVIOUS
<1>6. k \in Held(q) /\ k \in FoundList(s)
  BY <1>1, <1>5, RetrieveSound
<1>7. FoundList(s) \subseteq Server
  <2>1. IsRelPq(s) /\ FoundValue(s) \in 1 .. Wrap(s)
    BY <1>3 DEF Stopped, Sound, Typed
  <2>2. /\ s.bitmap_extension \in [{0, 1} -> [1 .. Wrap(s) -> SUBSET Server]]
        /\ s.active_bitmap \in {0, 1}
    BY <2>1 DEF IsRelPq
  <2> QED
    BY <2>1, <2>2 DEF FoundList
<1>8. d[k] <= d[n]
  BY <1>5, RetrieveFirst
<1>9. d[k] = d[n]
  BY <1>6, <1>8 DEF Held
<1>10. n \in FoundList(s)
  BY <1>2, <1>3, <1>6, <1>9 DEF FirstDue
<1>11. k = First(s, FoundList(s))
  BY <1>1, <1>5 DEF Retrieve
<1>12. \A m \in FoundList(s) : s.since[n] <= s.since[m]
  BY <1>4, <1>7, <1>10 DEF Newest
<1>13. s.since[k] <= s.since[n]
  BY <1>10, <1>11, <1>12 DEF First
<1>14. n \in Server /\ k \in Server
  BY <1>7, <1>10, <1>6
<1> QED
  BY <1>4, <1>5, <1>13, <1>14 DEF Newest

\* Looking at the next event shows a node that is due first, and leaves all
\* nodes due when they were.
LEMMA FetchNextFirst ==
  ASSUME NEW q, Sound(q), Held(q) # {},
         NEW d \in [Server -> Int], Timed(q, d), Ahead(q),
         NEW r, r = FetchNext(q)
  PROVE  /\ Timed(r.queue, d) /\ Ahead(r.queue) /\ Newest(r.queue, r.node)
         /\ r.event = r.queue.virtual_time + d[r.node]
         /\ \A n \in Held(q) : d[r.node] <= d[n]
         /\ r.queue.virtual_time \in {q.virtual_time, q.virtual_time - Wrap(q)}
<1>1. PICK next : next = Retrieve(q)
  OBVIOUS
<1>2. PICK k, p : k = next.node /\ p = next.queue
  OBVIOUS
<1>3. /\ next.event \in 1 .. Wrap(q) /\ k \in Held(q)
      /\ Sound(p) /\ Held(p) = Held(q) \ {k} /\ Wrap(p) = Wrap(q)
  BY <1>1, <1>2, RetrieveSound DEF Wrap
<1>4. /\ Timed(p, d) /\ Ahead(p)
      /\ next.event = p.virtual_time + d[k]
      /\ DivByIntSize(next.event) = p.active_bitmap_int_index
      /\ \A n \in Held(q) : d[k] <= d[n]
      /\ p.virtual_time \in {q.virtual_time, q.virtual_time - Wrap(q)}
  BY <1>1, <1>2, RetrieveFirst
<1>5. PICK at : at = [n \in {k} |-> next.event]
  OBVIOUS
<1>6. next = [event |-> next.event, node |-> k, queue |-> p]
  BY <1>1, <1>2 DEF Retrieve
<1>7. r = [next EXCEPT !.queue = InsertAll(p, at)]
  BY <1>1, <1>2, <1>5 DEF FetchNext, Insert
<1>8. r.event = next.event /\ r.node = k /\ r.queue = InsertAll(p, at)
  BY <1>6, <1>7
<1>9. /\ at \in [{k} -> 1 .. 2 * Wrap(p)] /\ {k} \in SUBSET Server
      /\ \A n \in {k} : at[n] = p.virtual_time + d[n]
      /\ \A n \in {k} : at[n] <= Wrap(p) =>
           DivByIntSize(at[n]) >= p.active_bitmap_int_index
  <2>1. Wrap(p) \in Nat /\ p.active_bitmap_int_index \in Nat
    BY <1>3, WrapType DEF Sound, Typed, IsRelPq
  <2>2. next.event \in 1 .. 2 * Wrap(p)
    BY <1>3, <2>1
  <2>3. {k} \in SUBSET Server
    BY <1>3 DEF Held
  <2> QED
    BY <1>4, <1>5, <2>1, <2>2, <2>3
<1>10. /\ Timed(r.queue, d) /\ Ahead(r.queue)
       /\ r.queue.virtual_time = p.virtual_time
       /\ r.queue.since = Pushed(p, {k})
  BY <1>3, <1>4, <1>8, <1>9, InsertAllDue
<1>11. Newest(r.queue, k)
  BY <1>9, <1>10, PushedNewest
<1> QED
  BY <1>4, <1>8, <1>10, <1>11

\* When no node is due a round after another one, those retrieved by the loop
\* of server_release_handler are of one list: peek does not mistake a value of
\* the next round for the same one.
LEMMA DueIsList ==
  ASSUME NEW q, Sound(q), Held(q) # {},
         NEW d \in [Server -> Int], Timed(q, d), Ahead(q),
         \A n, m \in Held(q) : d[n] - d[m] < Wrap(q)
  PROVE  RetrieveDue(q) = RetrieveList(q)
<1>1. PICK one : one = RetrieveList(q)
  OBVIOUS
<1>2. PICK p : p = one.queue
  OBVIOUS
<1>3. /\ one.event \in 1 .. Wrap(q)
      /\ one.nodes \subseteq Held(q) /\ one.nodes # {}
      /\ Sound(p) /\ Held(p) = Held(q) \ one.nodes /\ Wrap(p) = Wrap(q)
  BY <1>1, <1>2, RetrieveListSound DEF Wrap
<1>4. /\ Timed(p, d) /\ Ahead(p)
      /\ one.nodes = {n \in Held(q) : \A m \in Held(q) : d[n] <= d[m]}
      /\ \A n \in one.nodes : one.event = p.virtual_time + d[n]
  BY <1>1, <1>2, RetrieveListFirst
<1>5. ASSUME Peek(p) = one.event
      PROVE  FALSE
  <2>1. Held(p) # {}
    <3> SUFFICES ASSUME Held(p) = {} PROVE FALSE
      OBVIOUS
    <3>1. p.nr_of_elements = 0
      BY <1>3, FS_EmptySet DEF Sound
    <3>2. Peek(p) = -1
      BY <3>1 DEF Peek
    <3> QED
      BY <1>3, <1>5, <3>2, WrapType
  <2>2. p.nr_of_elements # 0
    BY <1>3, <2>1, HeldFinite, FS_EmptySet DEF Sound
  <2>3. PICK s : s = Search(p)
    OBVIOUS
  <2>4. /\ FirstDue(s, d)
        /\ s.virtual_time \in {p.virtual_time, p.virtual_time - Wrap(p)}
    BY <1>3, <1>4, <2>1, <2>3, SearchDue
  <2>5. Stopped(s) /\ Held(s) = Held(p)
    BY <1>3, <2>1, <2>3, SearchStops
  <2>6. PICK k \in FoundList(s) : k \in Held(p)
    <3>1. RetrieveList(p).nodes = FoundList(s) /\ FoundList(s) # {}
          /\ FoundList(s) \subseteq Held(p)
      BY <1>3, <2>1, <2>3, RetrieveListSound
    <3> QED
      BY <3>1
  <2>7. PICK n \in one.nodes : TRUE
    BY <1>3
  <2>8. PICK t, v, w : t = p.virtual_time /\ v = s.virtual_time /\ w = Wrap(q)
    OBVIOUS
  <2>9. /\ d[k] \in Int /\ d[n] \in Int /\ t \in Int /\ w \in Nat \ {0}
        /\ v \in {t, t - w}
    <3>1. k \in Server /\ n \in Server
      BY <1>3, <2>6, <2>7 DEF Held
    <3>2. t \in Int
      BY <1>3, <2>8 DEF Sound, Typed, IsRelPq
    <3> QED
      BY <1>3, <2>4, <2>8, <3>1, <3>2, WrapType
  <2>10. v + d[k] = t + d[n]
    <3>1. FoundValue(s) = v + d[k]
      BY <2>4, <2>5, <2>6, <2>8 DEF FirstDue
    <3>2. Peek(p) = FoundValue(s)
      BY <2>2, <2>3 DEF Peek
    <3> QED
      BY <1>4, <1>5, <2>7, <2>8, <3>1, <3>2
  <2>11. k \in Held(q) /\ n \in Held(q) /\ k \notin one.nodes
    BY <1>3, <2>6, <2>7
  <2>12. d[k] - d[n] < w /\ d[k] # d[n]
    BY <1>4, <2>7, <2>8, <2>11
  <2> QED
    BY <2>9, <2>10, <2>12
<1> QED
  BY <1>1, <1>2, <1>5 DEF RetrieveDue

\* A value that is not smaller is not in an integer before.
LEMMA DivMonotone ==
  ASSUME NEW size \in Nat \ {0}, NEW v \in 1 .. size * INT_SIZE_BIT,
         NEW w \in 1 .. size * INT_SIZE_BIT, v <= w
  PROVE  DivByIntSize(v) <= DivByIntSize(w)
<1>1. PICK i, j, a, b : /\ i = DivByIntSize(v) /\ j = DivByIntSize(w)
                        /\ a = BitOf(v) /\ b = BitOf(w)
  OBVIOUS
<1>2. INT_SIZE_BIT \in Nat \ {0}
  BY RelPqAssumption
<1>3. /\ i \in Nat /\ j \in Nat
      /\ a \in 1 .. INT_SIZE_BIT /\ b \in 1 .. INT_SIZE_BIT
      /\ a + i * INT_SIZE_BIT <= b + j * INT_SIZE_BIT
  BY <1>1, BitPosition
<1>4. CASE j < i
  <2>1. (j + 1) * INT_SIZE_BIT <= i * INT_SIZE_BIT
    BY <1>2, <1>3, <1>4
  <2> QED
    BY <1>2, <1>3, <2>1
<1> QED
  BY <1>1, <1>3, <1>4

\* The nodes that are due first, and when all are due once these were put back.
DueFirst(q, d) == {n \in Held(q) : \A m \in Held(q) : d[n] <= d[m]}
PutBack(q, d, period) ==
  [n \in Server |-> IF n \in DueFirst(q, d) THEN d[n] + period[n] ELSE d[n]]

\* No node is due a round after another one.
OneRound(q, d) == \A n, m \in Held(q) : d[n] - d[m] < Wrap(q)

\* A release takes out the nodes that are due first, the newest of which is the
\* first, puts them back a period later and shows the node that is due next.
ReleasesDue(r, q, e) ==
  /\ Timed(r.queue, e) /\ Ahead(r.queue) /\ Newest(r.queue, r.node)
  /\ r.relative = e[r.node]
  /\ \A n \in Held(q) : e[r.node] <= e[n]
  /\ r.queue.virtual_time + r.relative \in 1 .. Wrap(q)

LEMMA ReleaseDueFirst ==
  ASSUME NEW q, Sound(q), Held(q) # {},
         NEW period \in [Server -> Nat],
         \A n \in Server : period[n] \in 1 .. Wrap(q),
         NEW d \in [Server -> Int], Timed(q, d), Ahead(q), OneRound(q, d),
         NEW r, r = ReleaseDue(q, period)
  PROVE  /\ ReleasesDue(r, q, PutBack(q, d, period))
         /\ r.nodes = DueFirst(q, d)
         /\ r.first = Retrieve(q).node
<1> PICK D, e : D = DueFirst(q, d) /\ e = PutBack(q, d, period)
  OBVIOUS
<1>1. Held(q) \subseteq Server /\ D \subseteq Server
  BY DEF Held, DueFirst
<1>2. /\ e \in [Server -> Int]
      /\ \A n \in Held(q) \ D : e[n] = d[n]
      /\ \A n \in D : e[n] = d[n] + period[n]
  BY <1>1 DEF PutBack
<1>3. PICK due : due = RetrieveList(q)
  OBVIOUS
<1>4. PICK p, f : p = due.queue /\ f = due.event
  OBVIOUS
<1>5. RetrieveDue(q) = due
  BY <1>3, DueIsList DEF OneRound
<1>6. /\ f \in 1 .. Wrap(q) /\ due.nodes \subseteq Held(q)
      /\ Sound(p) /\ Held(p) = Held(q) \ due.nodes /\ Wrap(p) = Wrap(q)
      /\ p.bitmap_size = q.bitmap_size
  BY <1>3, <1>4, RetrieveListSound DEF Wrap
<1>7. /\ Timed(p, d) /\ Ahead(p)
      /\ due.nodes = D
      /\ \A n \in D : f = p.virtual_time + d[n]
      /\ DivByIntSize(f) = p.active_bitmap_int_index
  BY <1>3, <1>4, RetrieveListFirst DEF DueFirst
<1>8. /\ IsRelPq(p) /\ Wrap(p) \in Nat \ {0} /\ p.bitmap_size \in Nat \ {0}
      /\ p.virtual_time \in Int
      /\ p.bitmap_extension \in [{0, 1} -> [1 .. Wrap(p) -> SUBSET Server]]
  BY <1>6, WrapType DEF Sound, Typed, IsRelPq
<1>9. D \in SUBSET Server /\ D \cap Held(p) = {}
  BY <1>6, <1>7 DEF Held
<1>10. PICK at : at = [n \in D |-> f + period[n]]
  OBVIOUS
<1>11. at \in [D -> 1 .. 2 * Wrap(p)]
  BY <1>6, <1>8, <1>9, <1>10
<1>12. Timed(p, e)
  <2> SUFFICES ASSUME NEW b \in {0, 1}, NEW v \in 1 .. Wrap(p),
                      NEW n \in p.bitmap_extension[b][v]
               PROVE  e[n] = d[n]
    BY <1>7 DEF Timed
  <2>1. n \in Server
    BY <1>8
  <2>2. <<b, v>> \in Places(p, n)
    BY DEF Places
  <2>3. n \in Held(p)
    BY <2>1, <2>2 DEF Held
  <2> QED
    BY <1>6, <1>7, <1>2, <2>3
<1>13. \A n \in D : at[n] = p.virtual_time + e[n]
  <2> TAKE n \in D
  <2>1. /\ at[n] = f + period[n] /\ e[n] = d[n] + period[n]
        /\ f = p.virtual_time + d[n]
    BY <1>7, <1>10, <1>2
  <2>2. d[n] \in Int /\ period[n] \in Int
    BY <1>9
  <2> QED
    BY <1>8, <2>1, <2>2
<1>14. \A n \in D : at[n] <= Wrap(p) =>
         DivByIntSize(at[n]) >= p.active_bitmap_int_index
  <2> SUFFICES ASSUME NEW n \in D, at[n] <= Wrap(p)
               PROVE  DivByIntSize(f) <= DivByIntSize(at[n])
    BY <1>6, <1>7, <1>8, BitPosition DEF Wrap
  <2>1. f <= at[n] /\ f \in 1 .. Wrap(p) /\ at[n] \in 1 .. Wrap(p)
    <3>1. at[n] = f + period[n] /\ period[n] \in Nat
      BY <1>9, <1>10
    <3> QED
      BY <1>6, <1>8, <3>1
  <2> QED
    BY <1>8, <2>1, DivMonotone DEF Wrap
<1>15. PICK u : u = InsertAll(p, at)
  OBVIOUS
<1>16. Timed(u, e) /\ Ahead(u)
  BY <1>2, <1>6, <1>7, <1>9, <1>11, <1>12, <1>13, <1>14, <1>15, InsertAllDue
<1>17. /\ Sound(u) /\ Held(u) = Held(q) /\ Wrap(u) = Wrap(q)
  <2>1. Sound(u) /\ Held(u) = Held(p) \cup D /\ u.bitmap_size = p.bitmap_size
    BY <1>6, <1>9, <1>11, <1>15, InsertAllSound
  <2> QED
    BY <1>6, <1>7, <2>1 DEF Wrap
<1>18. PICK next : next = FetchNext(u)
  OBVIOUS
<1>19. PICK k, g, z : k = next.node /\ g = next.event /\ z = next.queue
  OBVIOUS
<1>20. /\ Timed(z, e) /\ Ahead(z) /\ Newest(z, k)
       /\ g = z.virtual_time + e[k]
       /\ \A n \in Held(q) : e[k] <= e[n]
  BY <1>2, <1>16, <1>17, <1>18, <1>19, FetchNextFirst
<1>21. g \in 1 .. Wrap(q) /\ k \in Held(q) /\ Sound(z)
  BY <1>17, <1>18, <1>19, FetchNextSound
<1>22. r = [queue |-> z, nodes |-> D, first |-> Retrieve(q).node,
            node |-> k, relative |-> g - z.virtual_time]
  BY <1>4, <1>5, <1>7, <1>10, <1>15, <1>18, <1>19 DEF ReleaseDue
<1>23. /\ r.queue = z /\ r.nodes = D /\ r.first = Retrieve(q).node
       /\ r.node = k /\ r.relative = g - z.virtual_time
  BY <1>22
<1>24. g - z.virtual_time = e[k] /\ z.virtual_time + (g - z.virtual_time) = g
  <2>1. z.virtual_time \in Int /\ e[k] \in Int /\ g \in Int
    BY <1>2, <1>21, WrapType DEF Held, Sound, Typed, IsRelPq
  <2> QED
    BY <1>20, <2>1
<1>25. ReleasesDue(r, q, e)
  BY <1>20, <1>21, <1>23, <1>24 DEF ReleasesDue
<1> QED
  BY <1>23, <1>25

\* The queue of memsched_init: every node is due a period after its start.
LEMMA RelPqInitDue ==
  ASSUME NEW largest \in Nat \ {0}, NEW position \in [Server -> Nat],
         NEW period \in [Server -> Nat],
         \A n \in Server : period[n] \in 1 .. largest,
         NEW q, q = InsertAll([RelPqInit(largest) EXCEPT !.since = position],
                              period)
  PROVE  /\ Timed(q, period) /\ Ahead(q) /\ q.virtual_time = 0
<1>1. PICK p : p = [RelPqInit(largest) EXCEPT !.since = position]
  OBVIOUS
<1>2. /\ Sound(p) /\ Held(p) = {} /\ p.virtual_time = 0 /\ Wrap(p) >= largest
  BY <1>1, RelPqInitSound
<1>3. p.active_bitmap_int_index = 0
  BY <1>1 DEF RelPqInit
<1>4. /\ Wrap(p) \in Nat \ {0} /\ p.bitmap_size \in Nat \ {0}
      /\ p.bitmap_extension \in [{0, 1} -> [1 .. Wrap(p) -> SUBSET Server]]
      /\ p.active_bitmap \in {0, 1}
  BY <1>2, WrapType DEF Sound, Typed, IsRelPq
<1>5. \A b \in {0, 1} : \A v \in 1 .. Wrap(p) : p.bitmap_extension[b][v] = {}
  <2> SUFFICES ASSUME NEW b \in {0, 1}, NEW v \in 1 .. Wrap(p),
                      NEW n \in p.bitmap_extension[b][v]
               PROVE  FALSE
    OBVIOUS
  <2>1. n \in Server /\ <<b, v>> \in Places(p, n)
    BY <1>4 DEF Places
  <2> QED
    BY <1>2, <2>1 DEF Held
<1>6. Timed(p, period) /\ Ahead(p)
  BY <1>4, <1>5 DEF Timed, Ahead
<1>7. \A n \in Server : period[n] \in 1 .. Wrap(p)
  BY <1>2, <1>4
<1>8. /\ period \in [Server -> 1 .. 2 * Wrap(p)]
      /\ period \in [Server -> Int]
      /\ \A n \in Server : period[n] = p.virtual_time + period[n]
      /\ \A n \in Server : period[n] <= Wrap(p) =>
           DivByIntSize(period[n]) >= p.active_bitmap_int_index
  <2>1. \A n \in Server : DivByIntSize(period[n]) >= 0
    BY <1>4, <1>7, BitPosition DEF Wrap
  <2> QED
    BY <1>2, <1>3, <1>4, <1>7, <2>1
<1>9. q = InsertAll(p, period)
  BY <1>1
<1>10. PICK D \in SUBSET Server : D = Server
  OBVIOUS
<1>11. PICK at : at = period
  OBVIOUS
<1>12. /\ at \in [D -> 1 .. 2 * Wrap(p)]
       /\ \A n \in D : at[n] = p.virtual_time + period[n]
       /\ \A n \in D : at[n] <= Wrap(p) =>
            DivByIntSize(at[n]) >= p.active_bitmap_int_index
  BY <1>8, <1>10, <1>11
<1>13. q = InsertAll(p, at)
  BY <1>9, <1>11
<1>14. /\ Timed(q, period) /\ Ahead(q) /\ q.virtual_time = p.virtual_time
  BY <1>2, <1>6, <1>8, <1>12, <1>13, InsertAllDue
<1> QED
  BY <1>2, <1>14

\* Moving the virtual time to an event leaves the other distances from there.
LEMMA MoveTime ==
  ASSUME NEW q, IsRelPq(q), NEW e \in [Server -> Int], Timed(q, e), Ahead(q),
         NEW event \in Int,
         NEW z, z = [q EXCEPT !.virtual_time = @ + event],
         NEW d, d = [s \in Server |-> e[s] - event]
  PROVE  /\ Timed(z, d) /\ Ahead(z)
         /\ \A s \in Server : Newest(q, s) => Newest(z, s)
<1>1. /\ z.virtual_time = q.virtual_time + event /\ q.virtual_time \in Int
      /\ z.bitmap_size = q.bitmap_size /\ z.active_bitmap = q.active_bitmap
      /\ z.active_bitmap_int_index = q.active_bitmap_int_index
      /\ z.bitmap_extension = q.bitmap_extension /\ z.since = q.since
      /\ q.bitmap_extension \in [{0, 1} -> [1 .. Wrap(q) -> SUBSET Server]]
  BY DEF IsRelPq
<1>2. Wrap(z) = Wrap(q)
  BY <1>1 DEF Wrap
<1>3. ASSUME NEW b \in {0, 1}, NEW v \in 1 .. Wrap(q),
             NEW n \in q.bitmap_extension[b][v]
      PROVE  z.virtual_time + d[n] = q.virtual_time + e[n]
  <2>1. n \in Server
    BY <1>1
  <2>2. d[n] = e[n] - event /\ e[n] \in Int
    BY <2>1
  <2> QED
    BY <1>1, <2>2
<1>4. Timed(z, d)
  <2> SUFFICES ASSUME NEW b \in {0, 1}, NEW v \in 1 .. Wrap(q),
                      NEW n \in q.bitmap_extension[b][v]
               PROVE  v + (IF b = q.active_bitmap THEN 0 ELSE Wrap(q))
                        = z.virtual_time + d[n]
    BY Z3, <1>1, <1>2 DEF Timed
  <2>1. v + (IF b = q.active_bitmap THEN 0 ELSE Wrap(q))
          = q.virtual_time + e[n]
    BY DEF Timed
  <2> QED
    BY <1>3, <2>1
<1>5. Ahead(z)
  BY <1>1, <1>2 DEF Ahead
<1>6. \A s \in Server : Newest(q, s) => Newest(z, s)
  BY <1>1 DEF Newest
<1> QED
  BY <1>4, <1>5, <1>6

\* The times to the releases, as they are read off a queue.
TimesIn(q) ==
  [n \in Server |-> (CHOOSE i \in Instants(q, n) : TRUE) - q.virtual_time]

\* What is read off a queue is what is timed.
LEMMA TimesRead ==
  ASSUME NEW q, IsRelPq(q), Held(q) = Server,
         NEW d \in [Server -> Int], Timed(q, d)
  PROVE  TimesIn(q) = d
<1>1. q.virtual_time \in Int
  BY DEF IsRelPq
<1>2. ASSUME NEW n \in Server
      PROVE  (CHOOSE i \in Instants(q, n) : TRUE) - q.virtual_time = d[n]
  <2>1. Instants(q, n) = {q.virtual_time + d[n]}
    BY TimedInstants
  <2>2. (CHOOSE i \in Instants(q, n) : TRUE) = q.virtual_time + d[n]
    BY <2>1
  <2>3. PICK i, v, e : /\ i = CHOOSE j \in Instants(q, n) : TRUE
                       /\ v = q.virtual_time /\ e = d[n]
    OBVIOUS
  <2>4. v \in Int /\ e \in Int /\ i = v + e
    BY <1>1, <2>2, <2>3
  <2>5. i - v = e
    BY <2>4
  <2> QED
    BY <2>3, <2>5
<1>3. TimesIn(q) = [n \in Server |-> d[n]]
  BY <1>2 DEF TimesIn
<1> QED
  BY <1>3
=============================================================================
