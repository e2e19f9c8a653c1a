--------------------------- MODULE SpscRing_proofs ---------------------------
(***************************************************************************)
(* Proofs about SpscRing for every capacity, index width, batch length,    *)
(* staleness of the index loads and set of items.                          *)
(***************************************************************************)
EXTENDS SpscRing, SequenceTheorems, TLAPS

(***************************************************************************)
(* Facts about % for a modulus that is a constant but not a numeral, as    *)
(* the wrapping size_t indices need them.                                  *)
(***************************************************************************)

\* Multiplication distributes over a difference.
LEMMA Distribute ==
  ASSUME NEW m \in Int, NEW a \in Int, NEW b \in Int
  PROVE  /\ m * (a - b) = m * a - m * b
         /\ m * a \in Int
         /\ m * b \in Int
OBVIOUS

\* A positive multiple of m is at least m.
LEMMA Scale ==
  ASSUME NEW m \in Nat \ {0}, NEW d \in Int, d >= 1
  PROVE  m * d >= m
<1>1. m * d - m = m * (d - 1)
  OBVIOUS
<1>2. m * (d - 1) >= 0
  OBVIOUS
<1>3. m * d \in Int
  OBVIOUS
<1> QED BY <1>1, <1>2, <1>3

\* Euclidean division: quotient, remainder and what they sum to.
LEMMA DivMod ==
  ASSUME NEW m \in Nat \ {0}, NEW x \in Int
  PROVE  /\ x \div m \in Int
         /\ x % m \in 0..(m - 1)
         /\ x = m * (x \div m) + (x % m)
<1>1. x \div m \in Int
  OBVIOUS
<1>2. x % m \in 0..(m - 1)
  OBVIOUS
<1>3. x = m * (x \div m) + (x % m)
  OBVIOUS
<1> QED BY <1>1, <1>2, <1>3

\* Multiples of m that differ by less than m are the same multiple.
LEMMA NearMultiples ==
  ASSUME NEW m \in Nat \ {0}, NEW p \in Int, NEW q \in Int,
         NEW a \in Int, NEW b \in Int,
         m * p - m * q = a - b, a - b < m, b - a < m
  PROVE  p = q
<1>1. CASE p >= q + 1
  <2>1. m * (p - q) >= m
    BY <1>1, Scale
  <2> QED BY <2>1, Distribute
<1>2. CASE q >= p + 1
  <2>1. m * (q - p) >= m
    BY <1>2, Scale
  <2> QED BY <2>1, Distribute
<1> QED BY <1>1, <1>2

\* The remainder is unique.
LEMMA ModUnique ==
  ASSUME NEW m \in Nat \ {0}, NEW q \in Int, NEW r \in 0..(m - 1),
         NEW x \in Int, x = m * q + r
  PROVE  x % m = r
<1> DEFINE p == x \div m
           s == x % m
<1>1. p \in Int /\ s \in 0..(m - 1) /\ x = m * p + s
  BY DivMod
<1> HIDE DEF p, s
<1>2. m * q \in Int /\ m * p \in Int
  BY <1>1
<1>3. m * q - m * p = s - r
  BY <1>1, <1>2
<1>4. q = p
  BY <1>1, <1>3, NearMultiples
<1>5. s = r
  BY <1>1, <1>2, <1>3, <1>4
<1> QED BY <1>5 DEF s

\* Two integers less than m apart have different remainders.
LEMMA ModDistinct ==
  ASSUME NEW m \in Nat \ {0}, NEW x \in Int, NEW y \in Int,
         x < y, y < x + m
  PROVE  x % m # y % m
<1> SUFFICES ASSUME x % m = y % m
             PROVE  FALSE
  OBVIOUS
<1> DEFINE s == x % m
           p == x \div m
           q == y \div m
<1>1. /\ p \in Int /\ q \in Int /\ s \in Int
      /\ x = m * p + s
      /\ y = m * q + s
  BY DivMod
<1> HIDE DEF s, p, q
<1>2. m * p \in Int /\ m * q \in Int
  BY <1>1
<1>3. m * q - m * p = y - x
  BY <1>1, <1>2
<1>4. q = p
  BY <1>1, <1>3, NearMultiples
<1> QED BY <1>2, <1>3, <1>4

\* Adding a multiple of the modulus does not change the remainder.
LEMMA ModShift ==
  ASSUME NEW m \in Nat \ {0}, NEW x \in Int, NEW d \in Int
  PROVE  (x - m * d) % m = x % m
<1> DEFINE q == x \div m
           r == x % m
<1>1. q \in Int /\ r \in 0..(m - 1) /\ x = m * q + r
  BY DivMod
<1> HIDE DEF q, r
<1>2. /\ m * (q - d) = m * q - m * d
      /\ m * q \in Int /\ m * d \in Int /\ q - d \in Int
  BY <1>1, Distribute
<1>3. x - m * d = m * (q - d) + r
  BY <1>1, <1>2
<1>4. (x - m * d) % m = r
  BY <1>1, <1>2, <1>3, ModUnique
<1> QED BY <1>4 DEF r

\* When c divides m, reducing modulo m subtracts a multiple of c.
LEMMA ModGap ==
  ASSUME NEW m \in Nat \ {0}, NEW c \in Nat \ {0}, m % c = 0, NEW x \in Int
  PROVE  \E e \in Int : x % m = x - c * e
<1> DEFINE k == m \div c
           d == x \div m
           r == x % m
<1>1. k \in Int /\ m = c * k
  <2>1. m \div c \in Int /\ m = c * (m \div c) + (m % c)
    BY DivMod
  <2>2. c * (m \div c) \in Int
    BY <2>1
  <2> QED BY <2>1, <2>2
<1>2. d \in Int /\ r \in Int /\ x = m * d + r
  BY DivMod
<1> HIDE DEF k, d, r
<1>3. m * d = c * (k * d) /\ k * d \in Int /\ m * d \in Int
  BY <1>1, <1>2
<1>4. r = x - c * (k * d)
  BY <1>2, <1>3
<1> QED BY <1>3, <1>4 DEF r

\* ... so that it does not change the remainder modulo c,
LEMMA ModOfMod ==
  ASSUME NEW m \in Nat \ {0}, NEW c \in Nat \ {0}, m % c = 0, NEW x \in Int
  PROVE  (x % m) % c = x % c
<1>1. PICK e \in Int : x % m = x - c * e
  BY ModGap
<1> QED BY <1>1, ModShift, ZenonT(30)

\* ... nor after an offset is added.
LEMMA ModOfModPlus ==
  ASSUME NEW m \in Nat \ {0}, NEW c \in Nat \ {0}, m % c = 0,
         NEW x \in Int, NEW i \in Int
  PROVE  ((x % m) + i) % c = (x + i) % c
<1>1. PICK e \in Int : x % m = x - c * e
  BY ModGap
<1> DEFINE y == x + i
<1>2. y \in Int /\ c * e \in Int
  OBVIOUS
<1>3. (x % m) + i = y - c * e
  BY <1>1, <1>2
<1> HIDE DEF y
<1>4. (y - c * e) % c = y % c
  BY <1>2, ModShift
<1>5. ((x % m) + i) % c = y % c
  BY <1>3, <1>4
<1> QED BY <1>5 DEF y

------------------------------------------------------------------------------
\* What size_t arithmetic does to an index: the wrapped sum of an index and
\* less than a turn, and the distance between two indices, case by case.
LEMMA WrapFacts ==
  /\ 0 \in Index
  /\ \A x \in Int : Wrap(x) \in Index
  /\ \A x \in Index, n \in Index :
       Wrap(x + n) = IF x + n < IndexModulus THEN x + n ELSE x + n - IndexModulus
  /\ \A x, y \in Index :
       /\ Dist(x, y) = IF x >= y THEN x - y ELSE x - y + IndexModulus
       /\ Dist(x, y) \in Index
<1> USE DEF Index, Wrap, Dist
<1>1. IndexModulus \in Nat \ {0}
  BY RingAssumption
<1>2. 0 \in Index
  BY <1>1
<1>3. ASSUME NEW x \in Int PROVE Wrap(x) \in Index
  BY <1>1, DivMod
<1>4. ASSUME NEW x \in Index, NEW n \in Index
      PROVE  Wrap(x + n) = IF x + n < IndexModulus THEN x + n
                                                    ELSE x + n - IndexModulus
  <2> DEFINE s == x + n
  <2>1. s \in Int /\ s >= 0 /\ s < 2 * IndexModulus
    BY <1>1
  <2> HIDE DEF s
  <2>2. s % IndexModulus = IF s < IndexModulus THEN s ELSE s - IndexModulus
    BY <1>1, <2>1
  <2> QED BY <1>1, <2>1, <2>2 DEF s
<1>5. ASSUME NEW x \in Index, NEW y \in Index
      PROVE  /\ Dist(x, y) = IF x >= y THEN x - y ELSE x - y + IndexModulus
             /\ Dist(x, y) \in Index
  <2> DEFINE d == x - y
  <2>1. d \in Int /\ d < IndexModulus /\ d >= -IndexModulus
    BY <1>1
  <2>2. x >= y <=> d >= 0
    BY <1>1
  <2> HIDE DEF d
  <2>3. d % IndexModulus = IF d >= 0 THEN d ELSE d + IndexModulus
    BY <1>1, <2>1
  <2>4. d % IndexModulus \in 0..(IndexModulus - 1)
    BY <1>1, <2>1, DivMod
  <2> QED BY <2>2, <2>3, <2>4 DEF d
<1> QED BY <1>2, <1>3, <1>4, <1>5

\* A load that may be stale returns an index between the last one seen and the
\* current one.
LEMMA VisibleFacts ==
  ASSUME NEW current \in Index, NEW seen \in Index,
         NEW v \in Visible(current, seen)
  PROVE  /\ v \in Index
         /\ Dist(current, seen) = Dist(current, v) + Dist(v, seen)
<1>1. PICK lag \in 0..Least(MaxLag, Dist(current, seen)) : v = Wrap(current - lag)
  BY DEF Visible
<1>2. Dist(current, seen) \in Index
  BY WrapFacts
<1>3. lag \in Index /\ lag <= Dist(current, seen)
  BY <1>1, <1>2, RingAssumption DEF Least, Index
<1>4. v = Dist(current, lag)
  BY <1>1 DEF Dist
<1>5. IndexModulus \in Nat
  BY RingAssumption
<1>6. /\ Dist(current, seen) = IF current >= seen THEN current - seen
                                               ELSE current - seen + IndexModulus
      /\ v = IF current >= lag THEN current - lag
                               ELSE current - lag + IndexModulus
      /\ v \in Index
  BY <1>3, <1>4, WrapFacts
<1>7. /\ Dist(current, v) = IF current >= v THEN current - v
                                            ELSE current - v + IndexModulus
      /\ Dist(v, seen) = IF v >= seen THEN v - seen
                                      ELSE v - seen + IndexModulus
  BY <1>6, WrapFacts
<1> QED BY <1>3, <1>5, <1>6, <1>7 DEF Index

\* The slots of less than Capacity consecutive positions are distinct, and a
\* position's slot does not depend on where the index wrapped.
LEMMA SlotFacts ==
  /\ \A x \in Int : Slot(x) \in 0..(Capacity - 1)
  /\ \A x, y \in Int : x < y /\ y < x + Capacity => Slot(x) # Slot(y)
  /\ \A x, i \in Int : Slot(Wrap(x) + i) = Slot(x + i)
<1>1. /\ IndexModulus \in Nat \ {0} /\ Capacity \in Nat \ {0}
      /\ IndexModulus % Capacity = 0
  BY RingAssumption
<1>2. ASSUME NEW x \in Int PROVE Slot(x) = x % Capacity
  BY <1>1, ModOfMod DEF Slot, Wrap
<1>3. ASSUME NEW x \in Int PROVE Slot(x) \in 0..(Capacity - 1)
  BY <1>1, <1>2, DivMod
<1>4. ASSUME NEW x \in Int, NEW y \in Int, x < y, y < x + Capacity
      PROVE  Slot(x) # Slot(y)
  BY <1>1, <1>2, <1>4, ModDistinct
<1>5. ASSUME NEW x \in Int, NEW i \in Int
      PROVE  Slot(Wrap(x) + i) = Slot(x + i)
  <2>1. ((x % IndexModulus) + i) % Capacity = (x + i) % Capacity
    BY <1>1, ModOfModPlus, ZenonT(30)
  <2>2. x % IndexModulus \in Int /\ (x % IndexModulus) + i \in Int /\ x + i \in Int
    BY <1>1, DivMod
  <2> QED BY <1>2, <2>1, <2>2 DEF Wrap
<1> QED BY <1>3, <1>4, <1>5

------------------------------------------------------------------------------
\* Types.

\* A prefix of an offered batch is a sequence of items of the length asked for.
LEMMA PrefixFacts ==
  ASSUME NEW items \in Batch, NEW k \in 0..Len(items)
  PROVE  /\ items \in Seq(Item)
         /\ Len(items) \in Nat \ {0}
         /\ SubSeq(items, 1, k) \in Seq(Item)
         /\ Len(SubSeq(items, 1, k)) = k
         /\ \A i \in 1..k : SubSeq(items, 1, k)[i] = items[i]
<1>1. PICK n \in 1..MaxBatch : items \in [1..n -> Item]
  BY DEF Batch
<1>2. n \in Nat \ {0} /\ items \in Seq(Item) /\ Len(items) = n
  BY <1>1, RingAssumption
<1>3. k \in Nat /\ \A i \in 1..k : items[i] \in Item
  BY <1>1, <1>2
<1>4. /\ SubSeq(items, 1, k) \in Seq(Item)
      /\ Len(SubSeq(items, 1, k)) = IF 1 <= k THEN k - 1 + 1 ELSE 0
      /\ \A i \in 1..(k - 1 + 1) : SubSeq(items, 1, k)[i] = items[1 + i - 1]
  BY <1>3, SubSeqProperties
<1> QED BY <1>2, <1>3, <1>4

\* What the type invariant says of each index and count.
LEMMA FieldTypes ==
  ASSUME TypeOK
  PROVE  /\ write_idx \in Index /\ read_idx \in Index /\ overflow_count \in Index
         /\ current_read \in Index /\ current_write \in Index
         /\ write_idx \in Int /\ read_idx \in Int /\ overflow_count \in Int
         /\ Len(src) \in Nat /\ copied \in Nat /\ copied <= Len(src)
         /\ Len(dst) \in Nat /\ to_read \in Nat /\ to_read \in 0..MaxBatch
         /\ Capacity \in Nat \ {0} /\ IndexModulus \in Nat /\ MaxBatch \in Nat
BY RingAssumption DEF TypeOK, Index

\* What a push claims: never more than the batch or the room it saw.
LEMMA ClaimFacts ==
  ASSUME TypeOK, NEW items \in Batch, NEW r \in Index
  PROVE  LET to_write == Least(Len(items), Available(r))
         IN  /\ to_write \in 0..Len(items)
             /\ to_write > 0 => Dist(write_idx, r) + to_write <= Capacity
<1>1. Dist(write_idx, r) \in Index
  BY FieldTypes, WrapFacts
<1>2. Dist(write_idx, r) \in Nat /\ Capacity \in Nat
  BY <1>1, FieldTypes DEF Index
<1>3. Len(items) \in Nat
  BY RingAssumption DEF Batch
<1> QED BY <1>2, <1>3 DEF Available, Least

\* Every variable keeps its type.
THEOREM TypeCorrect == Spec => []TypeOK
<1>1. Init => TypeOK
  BY RingAssumption, WrapFacts DEF Init, TypeOK
<1>2. TypeOK /\ [Next]_vars => TypeOK'
  <2> SUFFICES ASSUME TypeOK, [Next]_vars
               PROVE  TypeOK'
    OBVIOUS
  <2> USE FieldTypes DEF ring, producer, consumer
  <2>1. ASSUME NEW items \in Batch, Offer(items)
        PROVE  TypeOK'
    <3>1. PICK r \in Visible(read_idx, current_read) :
            LET to_write == Least(Len(items), Available(r))
            IN  /\ overflow_count' = Wrap(overflow_count + Len(items) - to_write)
                /\ src' = SubSeq(items, 1, to_write)
                /\ current_read' = r
      BY <2>1 DEF Offer
    <3> DEFINE k == Least(Len(items), Available(r))
    <3>2. r \in Index
      BY VisibleFacts
    <3>3. k \in 0..Len(items)
      BY <3>2, ClaimFacts
    <3> HIDE DEF k
    <3>4. /\ overflow_count' = Wrap(overflow_count + Len(items) - k)
          /\ src' = SubSeq(items, 1, k)
      BY <3>1 DEF k
    <3>5. /\ src' \in Seq(Item) /\ Len(src') = k
          /\ Len(items) \in Nat /\ k \in Nat
      BY <3>3, <3>4, PrefixFacts
    <3>6. overflow_count + Len(items) - k \in Int
      BY <3>5
    <3>7. overflow_count' \in Index
      BY <3>4, <3>6, WrapFacts
    <3>8. copied = 0
      BY <2>1 DEF Offer
    <3> QED BY <2>1, <3>1, <3>2, <3>5, <3>7, <3>8, SMTT(30) DEF Offer, TypeOK
  <2>2. CASE CopyIn
    <3>1. write_idx + copied \in Int
      OBVIOUS
    <3>2. Slot(write_idx + copied) \in 0..(Capacity - 1)
      BY <3>1, SlotFacts
    <3>3. src[copied + 1] \in Item /\ copied + 1 \in 0..Len(src)
      BY <2>2, SMTT(30) DEF CopyIn, TypeOK
    <3>4. buffer' \in [0..(Capacity - 1) -> Item \cup {Blank}]
      BY <2>2, <3>2, <3>3 DEF CopyIn, TypeOK
    <3> QED BY <2>2, <3>3, <3>4 DEF CopyIn, TypeOK
  <2>3. CASE Publish
    <3>1. write_idx + Len(src) \in Int
      OBVIOUS
    <3>2. write_idx' \in Index
      BY <2>3, <3>1, WrapFacts DEF Publish
    <3> QED BY <2>3, <3>2 DEF Publish, TypeOK
  <2>4. ASSUME NEW max_count \in 1..MaxBatch, Request(max_count)
        PROVE  TypeOK'
    <3>1. PICK w \in Visible(write_idx, current_write) :
            /\ to_read' = Least(max_count, Dist(w, read_idx))
            /\ current_write' = w
      BY <2>4 DEF Request
    <3>2. w \in Index /\ Dist(w, read_idx) \in Index
      BY VisibleFacts, WrapFacts
    <3>3. to_read' \in 0..MaxBatch
      BY <3>1, <3>2, SMTT(30) DEF Least, Index
    <3>4. dst' = <<>>
      BY <2>4 DEF Request
    <3> QED BY <2>4, <3>1, <3>2, <3>3, <3>4 DEF Request, TypeOK
  <2>5. CASE CopyOut
    <3>1. read_idx + Len(dst) \in Int
      OBVIOUS
    <3>2. Slot(read_idx + Len(dst)) \in 0..(Capacity - 1)
      BY <3>1, SlotFacts
    <3>3. buffer[Slot(read_idx + Len(dst))] \in Item \cup {Blank}
      BY <3>2 DEF TypeOK
    <3>4. dst' \in Seq(Item \cup {Blank}) /\ Len(dst') = Len(dst) + 1
      BY <2>5, <3>3 DEF CopyOut, TypeOK
    <3>5. Len(dst) + 1 <= to_read
      BY <2>5 DEF CopyOut
    <3> QED BY <2>5, <3>4, <3>5 DEF CopyOut, TypeOK
  <2>6. CASE Release
    <3>1. read_idx + to_read \in Int
      OBVIOUS
    <3>2. read_idx' \in Index
      BY <2>6, <3>1, WrapFacts DEF Release
    <3> QED BY <2>6, <3>2 DEF Release, TypeOK
  <2>7. CASE Clear
    BY <2>7, WrapFacts DEF Clear, TypeOK
  <2>8. CASE ResetOverflow
    BY <2>8, WrapFacts DEF ResetOverflow, TypeOK
  <2>9. CASE UNCHANGED vars
    BY <2>9 DEF vars, TypeOK
  <2> QED BY <2>1, <2>2, <2>3, <2>4, <2>5, <2>6, <2>7, <2>8, <2>9 DEF Next, Stream
<1> QED BY <1>1, <1>2, PTL DEF Spec

------------------------------------------------------------------------------
\* The order of the indices.

\* Distances between indices add up along a chain, and moving the front index
\* forward, or the back one, adds or takes away what it moves by.
LEMMA DistFacts ==
  /\ \A x \in Index : Dist(x, x) = 0
  /\ \A x, y, v, z \in Index :
       /\ Dist(x, z) = Dist(x, y) + Dist(y, z)
       /\ Dist(y, z) = Dist(y, v) + Dist(v, z)
       => Dist(x, v) = Dist(x, y) + Dist(y, v)
  /\ \A x, v, y, z \in Index :
       /\ Dist(x, z) = Dist(x, y) + Dist(y, z)
       /\ Dist(x, y) = Dist(x, v) + Dist(v, y)
       => Dist(x, z) = Dist(x, v) + Dist(v, z)
  /\ \A x, y, n \in Index :
       Dist(x, y) + n < IndexModulus => Dist(Wrap(x + n), y) = Dist(x, y) + n
  /\ \A x, y, n \in Index :
       n <= Dist(x, y) => Dist(x, Wrap(y + n)) = Dist(x, y) - n
<1>1. IndexModulus \in Nat
  BY RingAssumption
<1> DEFINE D(x, y) == IF x >= y THEN x - y ELSE x - y + IndexModulus
<1>2. \A x, y \in Index : Dist(x, y) = D(x, y)
  BY WrapFacts
<1>3. \A x \in Index : Dist(x, x) = 0
  BY <1>1, <1>2 DEF Index
<1>4. ASSUME NEW x \in Index, NEW y \in Index, NEW v \in Index, NEW z \in Index,
             Dist(x, z) = Dist(x, y) + Dist(y, z),
             Dist(y, z) = Dist(y, v) + Dist(v, z)
      PROVE  Dist(x, v) = Dist(x, y) + Dist(y, v)
  <2>1. D(x, z) = D(x, y) + D(y, z) /\ D(y, z) = D(y, v) + D(v, z)
    BY <1>2, <1>4
  <2>2. D(x, v) = D(x, y) + D(y, v)
    BY <1>1, <2>1 DEF Index
  <2> QED BY <1>2, <2>2
<1>5. ASSUME NEW x \in Index, NEW v \in Index, NEW y \in Index, NEW z \in Index,
             Dist(x, z) = Dist(x, y) + Dist(y, z),
             Dist(x, y) = Dist(x, v) + Dist(v, y)
      PROVE  Dist(x, z) = Dist(x, v) + Dist(v, z)
  <2>1. D(x, z) = D(x, y) + D(y, z) /\ D(x, y) = D(x, v) + D(v, y)
    BY <1>2, <1>5
  <2>2. D(x, z) = D(x, v) + D(v, z)
    BY <1>1, <2>1 DEF Index
  <2> QED BY <1>2, <2>2
<1>6. ASSUME NEW x \in Index, NEW y \in Index, NEW n \in Index
      PROVE  /\ Dist(x, y) + n < IndexModulus
               => Dist(Wrap(x + n), y) = Dist(x, y) + n
             /\ n <= Dist(x, y) => Dist(x, Wrap(y + n)) = Dist(x, y) - n
  <2> DEFINE wx == Wrap(x + n)
             wy == Wrap(y + n)
  <2>1. /\ wx = IF x + n < IndexModulus THEN x + n ELSE x + n - IndexModulus
        /\ wy = IF y + n < IndexModulus THEN y + n ELSE y + n - IndexModulus
    BY WrapFacts
  <2>2. wx \in Index /\ wy \in Index
    BY <1>1, <2>1 DEF Index
  <2> HIDE DEF wx, wy
  <2>3. Dist(x, y) = D(x, y) /\ Dist(wx, y) = D(wx, y) /\ Dist(x, wy) = D(x, wy)
    BY <1>2, <2>2
  <2>4. /\ D(x, y) + n < IndexModulus => D(wx, y) = D(x, y) + n
        /\ n <= D(x, y) => D(x, wy) = D(x, y) - n
    BY <1>1, <2>1, <2>2 DEF Index
  <2> QED BY <2>3, <2>4 DEF wx, wy
<1> QED BY <1>3, <1>4, <1>5, <1>6

\* What the type invariant says of the distances IndexOrder is about.
LEMMA DistTypes ==
  ASSUME TypeOK
  PROVE  /\ \A x, y \in Index : Dist(x, y) \in Index /\ Dist(x, y) \in Nat
         /\ \A n \in Nat : n <= Capacity => n \in Index
         /\ Capacity < IndexModulus
         /\ Used \in Nat
<1>1. IndexModulus \in Nat /\ Capacity \in Nat /\ Capacity < IndexModulus
  BY RingAssumption
<1>2. ASSUME NEW x \in Index, NEW y \in Index
      PROVE  Dist(x, y) \in Index /\ Dist(x, y) \in Nat
  BY <1>1, WrapFacts DEF Index
<1>3. Used \in Nat
  BY <1>2, FieldTypes DEF Used
<1> QED BY <1>1, <1>2, <1>3 DEF Index

\* The wrapped indices keep their order within Capacity of one another,
\* whatever the wrap of size_t and however stale the views are: the room push
\* computes and the count pop computes are never an underflowed subtraction.
THEOREM OrderKept == Spec => []IndexOrder
<1>1. Init => IndexOrder
  BY RingAssumption, DistFacts, WrapFacts DEF Init, IndexOrder, Used
<1>2. TypeOK /\ IndexOrder /\ [Next]_vars => IndexOrder'
  <2> SUFFICES ASSUME TypeOK, IndexOrder, [Next]_vars
               PROVE  IndexOrder'
    OBVIOUS
  <2> USE DEF ring, producer, consumer
  <2> DEFINE w  == write_idx
             r  == read_idx
             cr == current_read
             cw == current_write
             n  == Len(src)
  <2>1. /\ w \in Index /\ r \in Index /\ cr \in Index /\ cw \in Index
        /\ n \in Nat /\ to_read \in Nat
        /\ Capacity \in Nat /\ IndexModulus \in Nat /\ Capacity < IndexModulus
    BY FieldTypes, DistTypes
  <2>2. /\ Dist(w, cr) \in Nat /\ Dist(w, r) \in Nat /\ Dist(r, cr) \in Nat
        /\ Dist(w, cw) \in Nat /\ Dist(cw, r) \in Nat
    BY <2>1, DistTypes
  <2>3. /\ Dist(w, cr) = Dist(w, r) + Dist(r, cr)
        /\ Dist(w, r) = Dist(w, cw) + Dist(cw, r)
        /\ Dist(w, cr) + n <= Capacity
        /\ to_read <= Dist(cw, r)
    BY DEF IndexOrder, Used
  <2>4. n \in Index /\ to_read \in Index
    BY <2>1, <2>2, <2>3, SMTT(30) DEF Index
  <2>5. ASSUME NEW items \in Batch, Offer(items)
        PROVE  IndexOrder'
    <3>1. PICK v \in Visible(r, cr) :
            /\ src' = SubSeq(items, 1, Least(Len(items), Available(v)))
            /\ current_read' = v
      BY <2>5 DEF Offer
    <3> DEFINE k == Least(Len(items), Available(v))
    <3>2. v \in Index /\ Dist(r, cr) = Dist(r, v) + Dist(v, cr)
      BY <2>1, VisibleFacts
    <3>3. /\ k \in 0..Len(items)
          /\ k > 0 => Dist(w, v) + k <= Capacity
      BY <3>2, ClaimFacts
    <3> HIDE DEF k
    <3>4. Len(src') = k /\ k \in Nat
      BY <3>1, <3>3, PrefixFacts DEF k
    <3>5. Dist(w, v) = Dist(w, r) + Dist(r, v)
      BY <2>1, <2>3, <3>2, DistFacts
    <3>6. Dist(r, v) \in Nat /\ Dist(v, cr) \in Nat /\ Dist(w, v) \in Nat
      BY <2>1, <3>2, DistTypes
    <3>7. Dist(w, v) + k <= Capacity
      <4>1. Dist(w, v) <= Capacity
        <5> HIDE DEF n, w, r, cr, cw
        <5> QED BY <2>1, <2>2, <2>3, <3>2, <3>5, <3>6
      <4> QED BY <2>1, <3>3, <3>4, <3>6, <4>1
    <3>8. UNCHANGED <<write_idx, read_idx, current_write, to_read>>
      BY <2>5 DEF Offer
    <3> QED BY <2>3, <3>1, <3>4, <3>5, <3>7, <3>8 DEF IndexOrder, Used
  <2>6. CASE Publish
    <3> DEFINE u == write_idx'
    <3>1. u = Wrap(w + n)
      BY <2>6 DEF Publish
    <3>2. /\ Len(src') = 0
          /\ UNCHANGED <<read_idx, current_read, current_write, to_read>>
      BY <2>6 DEF Publish
    <3> HIDE DEF n, u, w, r, cr, cw
    <3>3. Dist(w, cr) + n < IndexModulus
      BY <2>1, <2>2, <2>3
    <3>4. Dist(w, r) + n < IndexModulus /\ Dist(w, cw) + n < IndexModulus
      BY <2>1, <2>2, <2>3
    <3>5. Dist(u, cr) = Dist(w, cr) + n
      BY <2>1, <2>4, <3>1, <3>3, DistFacts
    <3>6. Dist(u, r) = Dist(w, r) + n
      BY <2>1, <2>4, <3>1, <3>4, DistFacts
    <3>7. Dist(u, cw) = Dist(w, cw) + n
      BY <2>1, <2>4, <3>1, <3>4, DistFacts
    <3>8. /\ Dist(u, cr) = Dist(u, r) + Dist(r, cr)
          /\ Dist(u, r) = Dist(u, cw) + Dist(cw, r)
          /\ Dist(u, cr) + 0 <= Capacity
      BY <2>1, <2>2, <2>3, <3>5, <3>6, <3>7
    <3> QED BY <2>3, <3>2, <3>8 DEF IndexOrder, Used, u, w, r, cr, cw
  <2>7. ASSUME NEW max_count \in 1..MaxBatch, Request(max_count)
        PROVE  IndexOrder'
    <3>1. PICK v \in Visible(w, cw) :
            /\ to_read' = Least(max_count, Dist(v, r))
            /\ current_write' = v
      BY <2>7 DEF Request
    <3>2. v \in Index /\ Dist(w, cw) = Dist(w, v) + Dist(v, cw)
      BY <2>1, VisibleFacts
    <3>3. Dist(w, r) = Dist(w, v) + Dist(v, r)
      BY <2>1, <2>3, <3>2, DistFacts
    <3>4. Dist(v, r) \in Nat /\ max_count \in Nat
      BY <2>1, <3>2, DistTypes
    <3>5. to_read' <= Dist(v, r)
      BY <3>1, <3>4 DEF Least
    <3>6. UNCHANGED <<write_idx, read_idx, current_read, src>>
      BY <2>7 DEF Request
    <3> QED BY <2>3, <3>1, <3>3, <3>5, <3>6 DEF IndexOrder, Used
  <2>8. CASE Release
    <3> DEFINE m == to_read
               u == read_idx'
    <3>1. u = Wrap(r + m)
      BY <2>8 DEF Release
    <3>2. /\ to_read' = 0
          /\ UNCHANGED <<write_idx, current_read, current_write, src>>
      BY <2>8 DEF Release
    <3>3. m \in Index /\ m \in Nat /\ m <= Dist(cw, r)
      BY <2>4, <2>1, <2>3
    <3> HIDE DEF n, m, u, w, r, cr, cw
    <3>4. m <= Dist(w, r) /\ Dist(r, cr) + m < IndexModulus
      BY <2>1, <2>2, <2>3, <3>3
    <3>5. Dist(w, u) = Dist(w, r) - m
      BY <2>1, <3>1, <3>3, <3>4, DistFacts
    <3>6. Dist(cw, u) = Dist(cw, r) - m
      BY <2>1, <3>1, <3>3, DistFacts
    <3>7. Dist(u, cr) = Dist(r, cr) + m
      BY <2>1, <3>1, <3>3, <3>4, DistFacts
    <3>8. /\ Dist(w, cr) = Dist(w, u) + Dist(u, cr)
          /\ Dist(w, u) = Dist(w, cw) + Dist(cw, u)
          /\ 0 <= Dist(cw, u)
      BY <2>1, <2>2, <2>3, <3>3, <3>5, <3>6, <3>7
    <3> QED BY <2>3, <3>2, <3>8 DEF IndexOrder, Used, u, w, r, cr, cw, n
  <2>9. CASE Clear
    <3>1. write_idx' = 0 /\ read_idx' = 0 /\ current_read' = 0 /\ current_write' = 0
      BY <2>9 DEF Clear
    <3>2. Len(src') = 0 /\ to_read' = 0
      BY <2>9 DEF Clear
    <3>3. Dist(0, 0) = 0
      BY WrapFacts, DistFacts
    <3> QED BY <2>1, <3>1, <3>2, <3>3 DEF IndexOrder, Used
  <2>10. CASE CopyIn \/ CopyOut \/ ResetOverflow \/ UNCHANGED vars
    BY <2>10 DEF CopyIn, CopyOut, ResetOverflow, vars, IndexOrder, Used
  <2> QED BY <2>5, <2>6, <2>7, <2>8, <2>9, <2>10 DEF Next, Stream
<1> QED BY <1>1, <1>2, TypeCorrect, PTL DEF Spec

------------------------------------------------------------------------------
\* The contents of the slots.

\* The room and the items the two sides work within, from IndexOrder.
LEMMA OrderFacts ==
  ASSUME TypeOK, IndexOrder
  PROVE  /\ Used \in Nat /\ Capacity \in Nat /\ Used + Len(src) <= Capacity
         /\ Used + Len(src) < IndexModulus
         /\ to_read <= Used
         /\ write_idx = Wrap(read_idx + Used)
<1>1. /\ Dist(write_idx, current_read) \in Nat /\ Dist(read_idx, current_read) \in Nat
      /\ Dist(write_idx, current_write) \in Nat /\ Dist(current_write, read_idx) \in Nat
      /\ Used \in Nat /\ Capacity \in Nat /\ Len(src) \in Nat /\ to_read \in Nat
      /\ read_idx \in Index /\ write_idx \in Index /\ IndexModulus \in Nat
      /\ Capacity < IndexModulus
  BY FieldTypes, DistTypes
<1>2. Used + Len(src) <= Capacity /\ to_read <= Used
  BY <1>1, SMTT(30) DEF IndexOrder
<1>3. write_idx = Wrap(read_idx + Used)
  <2> DEFINE u == Used
  <2>1. u \in Index /\ u = IF write_idx >= read_idx
          THEN write_idx - read_idx ELSE write_idx - read_idx + IndexModulus
    BY <1>1, WrapFacts DEF Used
  <2> HIDE DEF u
  <2>2. Wrap(read_idx + u) = IF read_idx + u < IndexModulus
          THEN read_idx + u ELSE read_idx + u - IndexModulus
    BY <1>1, <2>1, WrapFacts
  <2>3. Wrap(read_idx + u) = write_idx
    BY <1>1, <2>1, <2>2 DEF Index
  <2> QED BY <2>3 DEF u
<1> QED BY <1>1, <1>2, <1>3

\* A slot of the push in progress, counted from the oldest item.
LEMMA PushSlots ==
  ASSUME TypeOK, IndexOrder, NEW i \in Int
  PROVE  Slot(write_idx + i) = Slot(read_idx + Used + i)
<1> DEFINE y == read_idx + Used
<1>1. y \in Int /\ write_idx = Wrap(y)
  BY OrderFacts, FieldTypes
<1>2. Slot(Wrap(y) + i) = Slot(y + i)
  BY <1>1, SlotFacts
<1> QED BY <1>1, <1>2

\* Positions less than Capacity after the oldest item have slots of their own.
LEMMA SlotsApart ==
  ASSUME TypeOK, NEW i \in 0..(Capacity - 1), NEW j \in 0..(Capacity - 1), i # j
  PROVE  Slot(read_idx + i) # Slot(read_idx + j)
<1>1. read_idx + i \in Int /\ read_idx + j \in Int /\ Capacity \in Nat
  BY FieldTypes
<1>2. \/ read_idx + i < read_idx + j /\ read_idx + j < read_idx + i + Capacity
      \/ read_idx + j < read_idx + i /\ read_idx + i < read_idx + j + Capacity
  <2>1. read_idx \in Int /\ Capacity \in Nat \ {0}
    BY FieldTypes
  <2>2. CASE i < j
    BY <2>1, <2>2
  <2>3. CASE j < i
    BY <2>1, <2>3
  <2> QED BY <2>1, <2>2, <2>3
<1> QED BY <1>1, <1>2, SlotFacts

\* The producer never writes a slot the consumer is reading: the data race a
\* lock-free queue is most exposed to does not happen.
THEOREM RaceFree == Spec => []NoSlotRace
<1>1. TypeOK /\ IndexOrder => NoSlotRace
  <2> SUFFICES ASSUME TypeOK, IndexOrder,
                      NEW i \in 0..(Len(src) - 1), NEW j \in 0..(to_read - 1)
               PROVE  Slot(write_idx + i) # Slot(read_idx + j)
    BY DEF NoSlotRace
  <2>1. i \in Nat /\ j \in Nat /\ Used \in Nat /\ read_idx \in Int
    BY OrderFacts, FieldTypes
  <2>2. Used + i \in 0..(Capacity - 1) /\ j \in 0..(Capacity - 1) /\ Used + i # j
    BY <2>1, OrderFacts, FieldTypes, SMTT(60)
  <2>3. read_idx + Used + i = read_idx + (Used + i)
    BY <2>1
  <2> QED BY <2>1, <2>2, <2>3, PushSlots, SlotsApart
<1> QED BY <1>1, TypeCorrect, OrderKept, PTL

\* What was copied stays intact until it changes hands: no store of one thread
\* disturbs a slot the other is still working on.
THEOREM CopiesKept == Spec => []CopiesIntact
<1>1. Init => CopiesIntact
  BY DEF Init, CopiesIntact
<1>2. TypeOK /\ IndexOrder /\ CopiesIntact /\ [Next]_vars => CopiesIntact'
  <2> SUFFICES ASSUME TypeOK, IndexOrder, CopiesIntact, [Next]_vars
               PROVE  CopiesIntact'
    OBVIOUS
  <2> USE DEF ring, producer, consumer
  <2>1. ASSUME NEW items \in Batch, Offer(items)
        PROVE  CopiesIntact'
    <3>1. copied' = 0
      BY <2>1, FieldTypes DEF Offer
    <3> QED BY <2>1, <3>1 DEF Offer, CopiesIntact
  <2>2. CASE CopyIn
    <3> DEFINE p == Used + copied
    <3>1. /\ p \in 0..(Capacity - 1) /\ copied \in Nat
          /\ copied < Len(src) /\ Len(src) \in Nat
      BY <2>2, OrderFacts, FieldTypes, SMTT(60) DEF CopyIn
    <3>2. Slot(write_idx + copied) = Slot(read_idx + p)
      <4>1. Slot(write_idx + copied) = Slot(read_idx + Used + copied)
        BY <3>1, PushSlots
      <4>2. read_idx + Used + copied = read_idx + (Used + copied)
        BY <3>1, OrderFacts, FieldTypes
      <4> QED BY <4>1, <4>2
    <3>3. /\ buffer' = [buffer EXCEPT ![Slot(read_idx + p)] = src[copied + 1]]
          /\ copied' = copied + 1
          /\ UNCHANGED <<write_idx, read_idx, src, to_read, dst>>
      BY <2>2, <3>2 DEF CopyIn
    <3>4. \A x \in 0..(Capacity - 1) :
            buffer'[x] = IF x = Slot(read_idx + p) THEN src[copied + 1] ELSE buffer[x]
      BY <3>3 DEF TypeOK
    <3>5. ASSUME NEW i \in 0..copied
          PROVE  buffer'[Slot(write_idx + i)] = src[i + 1]
      <4>1. Used + i \in 0..(Capacity - 1) /\ i \in Int /\ Used \in Nat /\ read_idx \in Int
        <5>1. Used \in Nat /\ Capacity \in Nat /\ read_idx \in Int
          BY OrderFacts, FieldTypes
        <5> QED BY <3>1, <5>1
      <4>2. Slot(write_idx + i) = Slot(read_idx + (Used + i))
        <5>1. Slot(write_idx + i) = Slot(read_idx + Used + i)
          BY <4>1, PushSlots
        <5>2. read_idx + Used + i = read_idx + (Used + i)
          BY <4>1
        <5> QED BY <5>1, <5>2
      <4>3. Slot(write_idx + i) \in 0..(Capacity - 1)
        <5>1. write_idx + i \in Int
          BY <4>1, FieldTypes
        <5> QED BY <5>1, SlotFacts
      <4>4. CASE i = copied
        BY <3>4, <4>2, <4>3, <4>4
      <4>5. CASE i < copied
        <5>1. Slot(read_idx + (Used + i)) # Slot(read_idx + p)
          BY <3>1, <4>1, <4>5, SlotsApart
        <5>2. i \in 0..(copied - 1)
          BY <3>1, <4>5
        <5> QED BY <3>4, <4>2, <4>3, <5>1, <5>2 DEF CopiesIntact
      <4> QED BY <3>1, <4>4, <4>5
    <3>6. ASSUME to_read > 0, NEW j \in 0..(Len(dst) - 1)
          PROVE  dst[j + 1] = buffer'[Slot(read_idx + j)]
      <4>1. /\ j \in 0..(Capacity - 1) /\ j # p
            /\ read_idx + j \in Int
        <5>1. Len(dst) \in Nat /\ Len(dst) <= to_read /\ to_read <= Used /\ to_read \in Nat
          BY <3>6, OrderFacts, FieldTypes DEF TypeOK
        <5>2. read_idx \in Int /\ Capacity \in Nat /\ Used \in Nat
          BY OrderFacts, FieldTypes
        <5>3. j \in Nat /\ j < Used
          BY <3>6, <5>1, <5>2
        <5>4. p \in 0..(Capacity - 1) /\ p >= Used
          BY <3>1, <5>2
        <5> HIDE DEF p
        <5> QED BY <5>2, <5>3, <5>4
      <4>2. Slot(read_idx + j) # Slot(read_idx + p) /\ Slot(read_idx + j) \in 0..(Capacity - 1)
        BY <3>1, <4>1, SlotsApart, SlotFacts
      <4> QED BY <3>4, <3>6, <4>2 DEF CopiesIntact
    <3>7. \A i \in 0..(copied' - 1) : buffer'[Slot(write_idx' + i)] = src'[i + 1]
      BY <3>1, <3>3, <3>5
    <3> QED BY <3>3, <3>6, <3>7 DEF CopiesIntact
  <2>3. CASE Publish
    BY <2>3 DEF Publish, CopiesIntact
  <2>4. ASSUME NEW max_count \in 1..MaxBatch, Request(max_count)
        PROVE  CopiesIntact'
    BY <2>4 DEF Request, CopiesIntact
  <2>5. CASE CopyOut
    <3>1. /\ dst' = Append(dst, buffer[Slot(read_idx + Len(dst))])
          /\ UNCHANGED <<buffer, write_idx, read_idx, src, copied, to_read>>
          /\ to_read > 0
      BY <2>5, FieldTypes DEF CopyOut
    <3>2. \A j \in 0..(Len(dst) - 1) : dst[j + 1] = buffer[Slot(read_idx + j)]
      BY <3>1 DEF CopiesIntact
    <3>3. dst \in Seq(Item \cup {Blank})
      BY DEF TypeOK
    <3>4. \A j \in 0..(Len(dst') - 1) : dst'[j + 1] = buffer[Slot(read_idx + j)]
      <4>1. /\ Len(dst') = Len(dst) + 1 /\ Len(dst) \in Nat
            /\ \A k \in 1..Len(dst) : dst'[k] = dst[k]
            /\ dst'[Len(dst) + 1] = buffer[Slot(read_idx + Len(dst))]
        BY <3>1, <3>3
      <4> QED BY <3>2, <4>1
    <3> QED BY <3>1, <3>4 DEF CopiesIntact
  <2>6. CASE Release
    BY <2>6 DEF Release, CopiesIntact
  <2>7. CASE Clear
    <3>1. copied' = 0
      BY <2>7, FieldTypes DEF Clear
    <3> QED BY <2>7, <3>1 DEF Clear, CopiesIntact
  <2>8. CASE ResetOverflow \/ UNCHANGED vars
    BY <2>8 DEF ResetOverflow, vars, CopiesIntact
  <2> QED BY <2>1, <2>2, <2>3, <2>4, <2>5, <2>6, <2>7, <2>8 DEF Next, Stream
<1> QED BY <1>1, <1>2, TypeCorrect, OrderKept, PTL DEF Spec

------------------------------------------------------------------------------
\* Refinement.

\* A stale view is at most MaxLag behind the current index.
LEMMA LagBound ==
  ASSUME NEW current \in Index, NEW seen \in Index, NEW v \in Visible(current, seen)
  PROVE  Dist(current, v) <= MaxLag
<1>1. PICK lag \in 0..Least(MaxLag, Dist(current, seen)) : v = Wrap(current - lag)
  BY DEF Visible
<1>2. Dist(current, seen) \in Index /\ IndexModulus \in Nat /\ MaxLag \in Nat
  BY WrapFacts, RingAssumption
<1>3. lag \in Index /\ lag <= MaxLag
  BY <1>1, <1>2 DEF Least, Index
<1>4. v = Dist(current, lag)
  BY <1>1 DEF Dist
<1>5. v \in Index /\ v = IF current >= lag THEN current - lag
                                           ELSE current - lag + IndexModulus
  BY <1>3, <1>4, WrapFacts
<1>6. Dist(current, v) = IF current >= v THEN current - v
                                         ELSE current - v + IndexModulus
  BY <1>5, WrapFacts
<1> QED BY <1>2, <1>3, <1>5, <1>6 DEF Index

\* Contents is a sequence as long as the distance between the indices.
LEMMA ContentsFacts ==
  ASSUME TypeOK, IndexOrder
  PROVE  /\ Contents \in Seq(Item \cup {Blank})
         /\ Len(Contents) = Used
         /\ \A k \in 1..Used : Contents[k] = buffer[Slot(read_idx + k - 1)]
<1>1. Used \in Nat
  BY OrderFacts
<1>2. ASSUME NEW k \in 1..Used
      PROVE  buffer[Slot(read_idx + k - 1)] \in Item \cup {Blank}
  <2>1. read_idx + k - 1 \in Int
    BY <1>1, FieldTypes
  <2>2. Slot(read_idx + k - 1) \in 0..(Capacity - 1)
    BY <2>1, SlotFacts
  <2> QED BY <2>2 DEF TypeOK
<1> QED BY <1>1, <1>2 DEF Contents

\* An offered batch is accepted as far as the queue has room, up to the lag.
LEMMA OfferRefines ==
  ASSUME TypeOK, IndexOrder, NEW items \in Batch, Offer(items)
  PROVE  \E n \in 0..MaxBatch : Fifo!Offer(items, n)
<1>1. PICK r \in Visible(read_idx, current_read) :
        LET to_write == Least(Len(items), Available(r))
        IN  /\ overflow_count' = Wrap(overflow_count + Len(items) - to_write)
            /\ src' = SubSeq(items, 1, to_write)
            /\ current_read' = r
  BY DEF Offer
<1> DEFINE n == Least(Len(items), Available(r))
<1>2. r \in Index /\ Dist(read_idx, r) <= MaxLag
      /\ Dist(read_idx, current_read) = Dist(read_idx, r) + Dist(r, current_read)
  BY FieldTypes, VisibleFacts, LagBound
<1>3. Dist(write_idx, r) = Used + Dist(read_idx, r)
  BY <1>2, FieldTypes, DistFacts DEF IndexOrder, Used
<1>4. /\ Used \in Nat /\ Capacity \in Nat /\ Used <= Capacity
      /\ Dist(read_idx, r) \in Nat /\ MaxLag \in Nat /\ MaxBatch \in Nat
      /\ Len(items) \in 1..MaxBatch
  <2>1. Used \in Nat /\ Capacity \in Nat /\ Used + Len(src) <= Capacity /\ Len(src) \in Nat
    BY OrderFacts, FieldTypes
  <2>2. Used <= Capacity
    BY <2>1
  <2>3. Dist(read_idx, r) \in Nat
    BY <1>2, DistTypes, FieldTypes
  <2>4. Len(items) \in 1..MaxBatch
    BY RingAssumption DEF Batch
  <2> QED BY <2>1, <2>2, <2>3, <2>4, RingAssumption
<1>5. /\ n \in 0..MaxBatch /\ n <= Len(items) /\ n <= Capacity - Used
      /\ n = Len(items) \/ n + MaxLag >= Capacity - Used
  BY <1>2, <1>3, <1>4 DEF Least, Available
<1>6. /\ overflow_count' = (overflow_count + Len(items) - n) % IndexModulus
      /\ src' = SubSeq(items, 1, n)
  BY <1>1 DEF Wrap
<1> HIDE DEF n
<1>7. /\ UNCHANGED <<Contents, to_read, dst>>
      /\ src = <<>> /\ Len(Contents) = Used
  BY ContentsFacts DEF Offer, Contents, Used, ring, producer, consumer
<1>8. Fifo!Offer(items, n)
  BY <1>5, <1>6, <1>7 DEF Fifo!Offer, Fifo!Free
<1> QED BY <1>5, <1>8

\* Publishing appends the whole batch.
LEMMA PublishRefines ==
  ASSUME TypeOK, IndexOrder, CopiesIntact, IndexOrder', TypeOK', Publish
  PROVE  Fifo!Commit
<1> DEFINE n == Len(src)
           u == Used
<1>1. /\ copied = n /\ src' = <<>> /\ write_idx' = Wrap(write_idx + n)
      /\ UNCHANGED <<buffer, read_idx, overflow_count, to_read, dst>>
  BY DEF Publish, consumer
<1>2. u \in Nat /\ n \in Nat /\ u + n < IndexModulus /\ read_idx \in Int
      /\ n \in Index /\ u \in Index /\ write_idx \in Index /\ read_idx \in Index
  <2>1. Used \in Nat /\ Len(src) \in Nat /\ Used + Len(src) < IndexModulus
        /\ read_idx \in Index /\ write_idx \in Index /\ IndexModulus \in Nat
    BY OrderFacts, FieldTypes
  <2> QED BY <2>1 DEF Index
<1>3. Used' = u + n
  <2>1. Used' = Dist(Wrap(write_idx + n), read_idx)
    BY <1>1 DEF Used
  <2>2. u = Dist(write_idx, read_idx)
    BY DEF Used
  <2> HIDE DEF u, n
  <2> QED BY <1>2, <2>1, <2>2, DistFacts
<1>4. /\ Contents \in Seq(Item \cup {Blank}) /\ Len(Contents) = u
      /\ \A k \in 1..u : Contents[k] = buffer[Slot(read_idx + k - 1)]
      /\ src \in Seq(Item)
  BY ContentsFacts DEF TypeOK
<1>5. Contents' = [k \in 1..(u + n) |-> buffer[Slot(read_idx + k - 1)]]
  BY <1>1, <1>3 DEF Contents
<1>6. ASSUME NEW k \in (u + 1)..(u + n)
      PROVE  buffer[Slot(read_idx + k - 1)] = src[k - u]
  <2> DEFINE i == k - u - 1
  <2>1. i \in 0..(copied - 1) /\ i \in Int /\ i + 1 = k - u
    BY <1>1, <1>2
  <2>2. Slot(write_idx + i) = Slot(read_idx + u + i)
    BY <2>1, PushSlots
  <2>3. read_idx + u + i = read_idx + k - 1
    BY <1>2
  <2>4. buffer[Slot(write_idx + i)] = src[i + 1]
    BY <2>1 DEF CopiesIntact
  <2> QED BY <2>1, <2>2, <2>3, <2>4
<1>7. Contents' = Contents \o src
  <2> HIDE DEF u
  <2>1. Contents \o src = [k \in 1..(u + n) |-> IF k <= u THEN Contents[k] ELSE src[k - u]]
    <3> DEFINE v == Item \cup {Blank}
               s == Contents
    <3>1. s \in Seq(v) /\ src \in Seq(v) /\ Len(s) = u /\ Len(src) = n
      BY <1>4
    <3>2. /\ s \o src \in Seq(v) /\ Len(s \o src) = u + n
          /\ \A k \in 1..(u + n) : (s \o src)[k] = IF k <= u THEN s[k] ELSE src[k - u]
      <4> HIDE DEF s, v, n
      <4> QED BY <3>1, ConcatProperties
    <3> HIDE DEF s, v, n
    <3>3. s \o src = [k \in 1..(u + n) |-> (s \o src)[k]]
      <4> DEFINE t == s \o src
      <4>1. t \in Seq(v) /\ Len(t) = u + n
        BY <3>2
      <4> HIDE DEF t
      <4>2. t = [k \in 1..(u + n) |-> t[k]]
        BY <4>1
      <4> QED BY <4>2 DEF t
    <3> QED BY <3>2, <3>3 DEF s
  <2>2. \A k \in 1..(u + n) : buffer[Slot(read_idx + k - 1)]
                                = IF k <= u THEN Contents[k] ELSE src[k - u]
    BY <1>2, <1>4, <1>6
  <2> QED BY <1>5, <2>1, <2>2
<1> QED BY <1>1, <1>7 DEF Fifo!Commit

\* Releasing takes the oldest items, as they were copied.
LEMMA ReleaseRefines ==
  ASSUME TypeOK, IndexOrder, CopiesIntact, TypeOK', IndexOrder', Release
  PROVE  \E n \in 1..Len(Contents) : Fifo!Take(n)
<1> DEFINE n == to_read
           u == Used
<1>1. /\ n > 0 /\ Len(dst) = n /\ read_idx' = Wrap(read_idx + n) /\ to_read' = 0
      /\ UNCHANGED <<buffer, write_idx, overflow_count, src, dst>>
  BY DEF Release, producer
<1>2. /\ u \in Nat /\ n \in Nat /\ n <= u /\ n \in Index
      /\ write_idx \in Index /\ read_idx \in Index /\ read_idx \in Int
  <2>1. Used \in Nat /\ to_read \in Nat /\ to_read <= Used /\ Used + Len(src) < IndexModulus
        /\ read_idx \in Index /\ write_idx \in Index /\ IndexModulus \in Nat
        /\ Len(src) \in Nat /\ read_idx \in Int
    BY OrderFacts, FieldTypes
  <2> QED BY <2>1 DEF Index
<1>3. Used' = u - n
  <2>1. Used' = Dist(write_idx, Wrap(read_idx + n))
    BY <1>1 DEF Used
  <2>2. u = Dist(write_idx, read_idx)
    BY DEF Used
  <2> HIDE DEF u, n
  <2> QED BY <1>2, <2>1, <2>2, DistFacts
<1>4. /\ Contents \in Seq(Item \cup {Blank}) /\ Len(Contents) = u
      /\ \A k \in 1..u : Contents[k] = buffer[Slot(read_idx + k - 1)]
      /\ dst \in Seq(Item \cup {Blank})
  BY ContentsFacts DEF TypeOK
<1>5. \A j \in 0..(n - 1) : dst[j + 1] = buffer[Slot(read_idx + j)]
  BY <1>1 DEF CopiesIntact
<1>6. Contents' = [k \in 1..(u - n) |-> buffer[Slot(Wrap(read_idx + n) + k - 1)]]
  BY <1>1, <1>3 DEF Contents
<1>7. ASSUME NEW k \in 1..(u - n)
      PROVE  buffer[Slot(Wrap(read_idx + n) + k - 1)] = Contents[n + k]
  <2> HIDE DEF u, n
  <2> DEFINE x == read_idx + n
             j == k - 1
  <2>1. x \in Int /\ j \in Int /\ n + k \in 1..u
    BY <1>2
  <2>2. Slot(Wrap(x) + j) = Slot(x + j)
    BY <2>1, SlotFacts
  <2>3. /\ Wrap(x) \in Int
        /\ x + j = read_idx + (n + k) - 1
    BY <1>2, <2>1, WrapFacts, FieldTypes DEF Index
  <2>4. Wrap(x) + j = Wrap(x) + k - 1
    BY <2>3
  <2> QED BY <1>4, <2>1, <2>2, <2>3, <2>4
<1> HIDE DEF u, n
<1>8. SubSeq(Contents, n + 1, Len(Contents)) = Contents'
  <2>1. \A i \in (n + 1)..u : Contents[i] \in Item \cup {Blank}
    BY <1>2, <1>4
  <2>2. SubSeq(Contents, n + 1, u) = [k \in 1..(u - n) |-> Contents[n + k]]
    BY <1>2, <1>4
  <2> QED BY <1>4, <1>6, <1>7, <2>2
<1>9. SubSeq(Contents, 1, n) = dst
  <2>1. SubSeq(Contents, 1, n) = [k \in 1..n |-> Contents[k]]
    BY <1>2, <1>4
  <2>2. dst = [k \in 1..n |-> dst[k]]
    BY <1>1, <1>4 DEF n
  <2>3. ASSUME NEW k \in 1..n PROVE Contents[k] = dst[k]
    <3> DEFINE j == k - 1
    <3>1. j \in 0..(n - 1) /\ j + 1 = k /\ read_idx + j = read_idx + k - 1 /\ k \in 1..u
      BY <1>2
    <3> HIDE DEF j
    <3> QED BY <1>4, <1>5, <3>1
  <2> QED BY <2>1, <2>2, <2>3
<1>10. n \in 1..Len(Contents)
  BY <1>1, <1>2, <1>4 DEF n
<1>11. Fifo!Take(n)
  BY <1>1, <1>8, <1>9 DEF Fifo!Take
<1> QED BY <1>10, <1>11

\* The ring implements the bounded first-in first-out queue, at every capacity,
\* index width, batch length and staleness.
THEOREM RingIsFifo == Spec => ImplementsFifo
<1>1. Init => Fifo!Init
  <2> SUFFICES ASSUME Init PROVE Fifo!Init
    OBVIOUS
  <2>1. Used = 0
    BY WrapFacts, DistFacts DEF Init, Used
  <2>2. Contents = <<>>
    BY <2>1 DEF Contents
  <2> QED BY <2>2 DEF Init, Fifo!Init
<1>2. /\ TypeOK /\ IndexOrder /\ CopiesIntact
      /\ TypeOK' /\ IndexOrder'
      /\ [Next]_vars
      => [Fifo!Next]_(Fifo!vars)
  <2> SUFFICES ASSUME TypeOK, IndexOrder, CopiesIntact, TypeOK', IndexOrder', [Next]_vars
               PROVE  [Fifo!Next]_(Fifo!vars)
    OBVIOUS
  <2> USE DEF ring, producer, consumer
  <2>1. ASSUME NEW items \in Batch, Offer(items)
        PROVE  Fifo!Next
    BY <2>1, OfferRefines DEF Fifo!Next, Fifo!Batch, Batch
  <2>2. CASE CopyIn
    <3> DEFINE p == Used + copied
    <3>1. /\ p \in 0..(Capacity - 1) /\ copied \in Nat /\ Used \in Nat /\ Capacity \in Nat
          /\ Used <= p
      BY <2>2, OrderFacts, FieldTypes, SMTT(30) DEF CopyIn
    <3>2. Slot(write_idx + copied) = Slot(read_idx + p)
      <4>1. Slot(write_idx + copied) = Slot(read_idx + Used + copied)
        BY <3>1, PushSlots
      <4>2. read_idx + Used + copied = read_idx + (Used + copied)
        BY <3>1, FieldTypes
      <4> QED BY <4>1, <4>2
    <3>3. UNCHANGED <<write_idx, read_idx, overflow_count, src, to_read, dst, Used>>
      BY <2>2 DEF CopyIn, Used
    <3> HIDE DEF p
    <3>4. ASSUME NEW k \in 1..Used
          PROVE  buffer'[Slot(read_idx + k - 1)] = buffer[Slot(read_idx + k - 1)]
      <4> DEFINE j == k - 1
      <4>1. j \in 0..(Capacity - 1) /\ j # p /\ read_idx + j = read_idx + k - 1
        BY <3>1, FieldTypes DEF p
      <4>2. Slot(read_idx + j) # Slot(read_idx + p)
        BY <3>1, <4>1, SlotsApart
      <4>3. Slot(read_idx + k - 1) # Slot(write_idx + copied)
        BY <3>2, <4>1, <4>2
      <4> QED BY <2>2, <4>3 DEF CopyIn, TypeOK
    <3>5. Contents' = Contents
      BY <3>3, <3>4 DEF Contents
    <3> QED BY <3>3, <3>5 DEF Fifo!vars
  <2>3. CASE Publish
    BY <2>3, PublishRefines DEF Fifo!Next
  <2>4. ASSUME NEW max_count \in 1..MaxBatch, Request(max_count)
        PROVE  Fifo!Next
    <3>1. dst' = <<>> /\ UNCHANGED <<buffer, write_idx, read_idx, overflow_count, src>>
      BY <2>4 DEF Request
    <3>2. UNCHANGED Contents
      BY <3>1 DEF Contents, Used
    <3>3. Fifo!Poll
      BY <3>1, <3>2 DEF Fifo!Poll
    <3> QED BY <3>3 DEF Fifo!Next
  <2>5. CASE CopyOut
    <3>1. /\ to_read > 0
          /\ UNCHANGED <<buffer, write_idx, read_idx, overflow_count, src, to_read>>
      BY <2>5, FieldTypes DEF CopyOut
    <3>2. UNCHANGED Contents
      BY <3>1 DEF Contents, Used
    <3> QED BY <3>1, <3>2, FieldTypes DEF Fifo!vars
  <2>6. CASE Release
    BY <2>6, ReleaseRefines DEF Fifo!Next
  <2>7. CASE Clear
    <3>1. /\ src = <<>> /\ overflow_count' = 0 /\ write_idx' = 0 /\ read_idx' = 0
          /\ UNCHANGED <<src, to_read, dst>>
      BY <2>7 DEF Clear
    <3>2. Used' = 0
      BY <3>1, WrapFacts, DistFacts DEF Used
    <3>3. Contents' = <<>>
      BY <3>2 DEF Contents
    <3>4. Fifo!Clear
      BY <3>1, <3>3 DEF Fifo!Clear
    <3> QED BY <3>4 DEF Fifo!Next
  <2>8. CASE ResetOverflow
    <3>1. overflow_count' = 0 /\ UNCHANGED <<buffer, write_idx, read_idx, src, to_read, dst>>
      BY <2>8 DEF ResetOverflow
    <3>2. UNCHANGED Contents
      BY <3>1 DEF Contents, Used
    <3>3. Fifo!ResetLost
      BY <3>1, <3>2 DEF Fifo!ResetLost
    <3> QED BY <3>3 DEF Fifo!Next
  <2>9. CASE UNCHANGED vars
    <3>1. UNCHANGED Contents
      BY <2>9 DEF vars, Contents, Used
    <3> QED BY <2>9, <3>1 DEF vars, Fifo!vars
  <2> QED BY <2>1, <2>2, <2>3, <2>4, <2>5, <2>6, <2>7, <2>8, <2>9 DEF Next, Stream
<1> QED BY <1>1, <1>2, TypeCorrect, OrderKept, CopiesKept, PTL
        DEF Spec, ImplementsFifo, Fifo!Spec

=============================================================================
