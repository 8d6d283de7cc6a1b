-------------------------- MODULE CodeStoreProofs --------------------------
(***************************************************************************)
(* The instruction memory for any number of patches of any size.           *)
(*                                                                         *)
(* The types and the layout of the driver's records hold whatever fails.   *)
(* The count is right while CountAssumption holds, and a process finds     *)
(* the patches' own code while the memory and the chunks are large enough: *)
(* RoomAssumption and ChunkAssumption are cited for that alone.            *)
(***************************************************************************)
EXTENDS AmpleCode, PatchListTheorems

-----------------------------------------------------------------------------
(* Sizes.                                                                  *)

LEMMA SizeType ==
    ASSUME NEW S \in SUBSET Patches
    PROVE  /\ IsFiniteSet(S) /\ \A p \in S : Size[p] \in Nat
           /\ SizeOf(S) = SumOver(Size, S) /\ SizeOf(S) \in Nat
<1>1. IsFiniteSet(S) /\ \A p \in S : Size[p] \in Nat
  BY SizeAssumption, FS_Subset
<1>2. SizeOf(S) = SumOver(Size, S)
  BY DEF SizeOf, SumOver
<1>3. QED
  BY <1>1, <1>2, SumType

LEMMA SizeEmpty == SizeOf({}) = 0
  BY SumEmpty, SizeType

LEMMA SizeAdd ==
    ASSUME NEW S \in SUBSET Patches, NEW p \in Patches, p \notin S
    PROVE  SizeOf(S \cup {p}) = SizeOf(S) + Size[p]
<1>1. Size[p] \in Nat /\ S \cup {p} \in SUBSET Patches
  BY SizeAssumption
<1>2. IsFiniteSet(S) /\ \A q \in S : Size[q] \in Nat
  BY SizeType
<1>3. SumOver(Size, S \cup {p}) = SumOver(Size, S) + Size[p]
  BY <1>1, <1>2, SumAdd
<1>4. QED
  BY <1>1, <1>3, SizeType

LEMMA SizeDrop ==
    ASSUME NEW S \in SUBSET Patches, NEW p \in S
    PROVE  SizeOf(S \ {p}) = SizeOf(S) - Size[p]
<1>1. p \in Patches /\ p \notin S \ {p} /\ (S \ {p}) \cup {p} = S /\ S \ {p} \in SUBSET Patches
  OBVIOUS
<1>2. SizeOf((S \ {p}) \cup {p}) = SizeOf(S \ {p}) + Size[p]
  BY <1>1, SizeAdd
<1>3. SizeOf(S \ {p}) \in Nat /\ Size[p] \in Nat
  BY <1>1, SizeType, SizeAssumption
<1>4. QED
  BY <1>1, <1>2, <1>3

LEMMA SizePart ==
    ASSUME NEW S \in SUBSET Patches, NEW T \in SUBSET S
    PROVE  SizeOf(T) <= SizeOf(S)
<1>1. T \in SUBSET Patches
  OBVIOUS
<1>2. SumOver(Size, T) <= SumOver(Size, S)
  BY SizeType, SumPart
<1>3. QED
  BY <1>1, <1>2, SizeType

-----------------------------------------------------------------------------
(* The records of the driver.                                              *)

RecordSet == [patch : Patches, start : Nat, size : Nat]

\* The patches of the first j records.
Pre(d, j) == {d.patches[i].patch : i \in 1 .. j}

\* The first m records are the input patches: they start at 0, the routing patch
\* follows them, the others follow it.
Layout(d, m) ==
    /\ d.routing.start = SizeOf(Pre(d, m))
    /\ \A j \in DOMAIN d.patches :
          d.patches[j].start = SizeOf(Pre(d, j - 1)) + (IF j <= m THEN 0 ELSE d.routing.size)

RecordsOk(d) ==
    /\ d.patches \in Seq(RecordSet)
    /\ d.routing.size \in RSizes \cup PartSizes \cup {0}
    /\ \A j \in DOMAIN d.patches : d.patches[j].size = Size[d.patches[j].patch]
    /\ \A j, k \in DOMAIN d.patches : d.patches[j].patch = d.patches[k].patch => j = k

DriverOk(d) == RecordsOk(d) /\ \E m \in 0 .. Len(d.patches) : Layout(d, m)

LEMMA RecordType ==
    ASSUME NEW d, RecordsOk(d)
    PROVE  /\ Len(d.patches) \in Nat /\ DOMAIN d.patches = 1 .. Len(d.patches)
           /\ d.routing.size \in Nat
           /\ \A j \in DOMAIN d.patches :
                 /\ d.patches[j].patch \in Patches
                 /\ d.patches[j].start \in Nat
                 /\ d.patches[j].size \in Nat \ {0}
           /\ \A j \in 0 .. Len(d.patches) : Pre(d, j) \in SUBSET Patches
<1>1. Len(d.patches) \in Nat /\ DOMAIN d.patches = 1 .. Len(d.patches)
  BY DEF RecordsOk
<1>2. d.routing.size \in Nat
  <2>1. d.routing.size \in RSizes \cup PartSizes \cup {0}
    BY DEF RecordsOk
  <2>2. \A n \in RSizes \cup PartSizes \cup {0} : n \in Nat
    BY SizeAssumption
  <2>3. QED
    BY <2>1, <2>2, Zenon
<1>3. ASSUME NEW j \in DOMAIN d.patches
      PROVE  /\ d.patches[j].patch \in Patches
             /\ d.patches[j].start \in Nat
             /\ d.patches[j].size \in Nat \ {0}
  <2>1. d.patches[j] \in RecordSet
    BY <1>1 DEF RecordsOk
  <2>2. d.patches[j].patch \in Patches /\ d.patches[j].start \in Nat
    BY <2>1 DEF RecordSet
  <2>3. Size[d.patches[j].patch] \in Nat \ {0}
    BY <2>2, SizeAssumption
  <2>4. QED
    BY <2>2, <2>3 DEF RecordsOk
<1>4. ASSUME NEW j \in 0 .. Len(d.patches) PROVE Pre(d, j) \in SUBSET Patches
  BY <1>1, <1>3 DEF Pre
<1>5. QED
  BY <1>1, <1>2, <1>3, <1>4

\* The part before a record grows by that record.
LEMMA PreStep ==
    ASSUME NEW d, RecordsOk(d), NEW j \in DOMAIN d.patches
    PROVE  /\ SizeOf(Pre(d, j)) = SizeOf(Pre(d, j - 1)) + d.patches[j].size
           /\ SizeOf(Pre(d, j - 1)) \in Nat /\ SizeOf(Pre(d, j)) \in Nat
<1>1. j \in 1 .. Len(d.patches) /\ j - 1 \in 0 .. Len(d.patches) /\ j \in 0 .. Len(d.patches)
  BY RecordType
<1>2. Pre(d, j) = Pre(d, j - 1) \cup {d.patches[j].patch}
  <2>1. 1 .. j = (1 .. j - 1) \cup {j}
    BY <1>1
  <2>2. QED
    BY <2>1 DEF Pre
<1>3. d.patches[j].patch \notin Pre(d, j - 1)
  <2>1. SUFFICES ASSUME NEW i \in 1 .. j - 1, d.patches[i].patch = d.patches[j].patch PROVE FALSE
    BY DEF Pre
  <2>2. i \in DOMAIN d.patches /\ i # j
    BY <1>1, RecordType
  <2>3. QED
    BY <2>1, <2>2 DEF RecordsOk
<1>4. Pre(d, j - 1) \in SUBSET Patches /\ Pre(d, j) \in SUBSET Patches
  BY <1>1, RecordType
<1>5. d.patches[j].patch \in Patches /\ d.patches[j].size = Size[d.patches[j].patch]
  BY RecordType DEF RecordsOk
<1>6. SizeOf(Pre(d, j - 1) \cup {d.patches[j].patch}) = SizeOf(Pre(d, j - 1)) + Size[d.patches[j].patch]
  BY <1>3, <1>4, <1>5, SizeAdd
<1>7. QED
  BY <1>2, <1>4, <1>5, <1>6, SizeType

LEMMA PreGrows ==
    ASSUME NEW d, RecordsOk(d), NEW k \in 0 .. Len(d.patches), NEW j \in 0 .. k
    PROVE  SizeOf(Pre(d, j)) <= SizeOf(Pre(d, k))
<1>1. Len(d.patches) \in Nat /\ Pre(d, k) \in SUBSET Patches
  BY RecordType
<1>2. Pre(d, j) \in SUBSET Pre(d, k)
  BY <1>1 DEF Pre
<1>3. QED
  BY <1>1, <1>2, SizePart

\* Where the records are: one behind the other.
LEMMA RecordOrder ==
    ASSUME NEW d, RecordsOk(d), NEW m \in 0 .. Len(d.patches), Layout(d, m)
    PROVE  /\ d.routing.start \in Nat
           /\ \A j \in DOMAIN d.patches :
                 IF j <= m THEN d.patches[j].start + d.patches[j].size <= d.routing.start
                           ELSE d.routing.start + d.routing.size <= d.patches[j].start
           /\ \A j, k \in DOMAIN d.patches :
                 j < k => d.patches[j].start + d.patches[j].size <= d.patches[k].start
<1>1. /\ Len(d.patches) \in Nat /\ DOMAIN d.patches = 1 .. Len(d.patches)
      /\ d.routing.size \in Nat
      /\ SizeOf(Pre(d, m)) \in Nat
  BY RecordType, SizeType
<1>2. d.routing.start \in Nat
  BY <1>1 DEF Layout
<1>3. ASSUME NEW j \in DOMAIN d.patches, j <= m
      PROVE  d.patches[j].start + d.patches[j].size <= d.routing.start
  <2>1. d.patches[j].start = SizeOf(Pre(d, j - 1)) + 0
    BY <1>3 DEF Layout
  <2>2. SizeOf(Pre(d, j)) <= SizeOf(Pre(d, m))
    BY <1>1, <1>3, PreGrows
  <2>3. QED
    BY <2>1, <2>2, PreStep DEF Layout
<1>4. ASSUME NEW j \in DOMAIN d.patches, ~(j <= m)
      PROVE  d.routing.start + d.routing.size <= d.patches[j].start
  <2>1. d.patches[j].start = SizeOf(Pre(d, j - 1)) + d.routing.size
    BY <1>4 DEF Layout
  <2>2. j - 1 \in 0 .. Len(d.patches) /\ m \in 0 .. j - 1
    BY <1>1, <1>4
  <2>3. SizeOf(Pre(d, m)) <= SizeOf(Pre(d, j - 1))
    BY <2>2, PreGrows
  <2>4. SizeOf(Pre(d, j - 1)) \in Nat
    BY PreStep
  <2>5. QED
    BY <1>1, <2>1, <2>3, <2>4 DEF Layout
<1>5. ASSUME NEW j \in DOMAIN d.patches, NEW k \in DOMAIN d.patches, j < k
      PROVE  d.patches[j].start + d.patches[j].size <= d.patches[k].start
  <2>1. /\ d.patches[j].start = SizeOf(Pre(d, j - 1)) + (IF j <= m THEN 0 ELSE d.routing.size)
        /\ d.patches[k].start = SizeOf(Pre(d, k - 1)) + (IF k <= m THEN 0 ELSE d.routing.size)
    BY DEF Layout
  <2>2. k - 1 \in 0 .. Len(d.patches) /\ j \in 0 .. k - 1
    BY <1>1, <1>5
  <2>3. SizeOf(Pre(d, j)) <= SizeOf(Pre(d, k - 1))
    BY <2>2, PreGrows
  <2>4. /\ SizeOf(Pre(d, j - 1)) \in Nat /\ SizeOf(Pre(d, j)) \in Nat /\ SizeOf(Pre(d, k - 1)) \in Nat
        /\ SizeOf(Pre(d, j)) = SizeOf(Pre(d, j - 1)) + d.patches[j].size
        /\ d.patches[j].size \in Nat
    BY PreStep, RecordType
  <2>5. j \in Int /\ k \in Int /\ m \in Int
    BY <1>1
  <2> DEFINE a == IF j <= m THEN 0 ELSE d.routing.size
             b == IF k <= m THEN 0 ELSE d.routing.size
  <2>6. a \in Nat /\ b \in Nat /\ a <= b
    BY <1>1, <1>5, <2>5
  <2> HIDE DEF a, b
  <2>7. d.patches[j].start = SizeOf(Pre(d, j - 1)) + a /\ d.patches[k].start = SizeOf(Pre(d, k - 1)) + b
    BY <2>1 DEF a, b
  <2> DEFINE x == SizeOf(Pre(d, j - 1))
             y == d.patches[j].size
             z == SizeOf(Pre(d, k - 1))
  <2>8. x \in Nat /\ y \in Nat /\ z \in Nat /\ x + y <= z
    BY <2>3, <2>4
  <2> HIDE DEF x, y, z
  <2>9. (x + a) + y <= z + b
    BY <2>6, <2>8
  <2>10. QED
    BY <2>7, <2>9 DEF x, y, z
<1>6. QED
  BY <1>2, <1>3, <1>4, <1>5

\* Each one starts at 0 or where another one ends.
LEMMA RecordsTouch ==
    ASSUME NEW d, RecordsOk(d), NEW m \in 0 .. Len(d.patches), Layout(d, m)
    PROVE  LET all == {d.routing} \cup ToSet(d.patches)
           IN \A r \in all : r.start = 0 \/ \E q \in all : q.start + q.size = r.start
<1> DEFINE all == {d.routing} \cup ToSet(d.patches)
<1>1. Len(d.patches) \in Nat /\ DOMAIN d.patches = 1 .. Len(d.patches) /\ d.routing.size \in Nat
  BY RecordType
<1>2. \A j \in DOMAIN d.patches : d.patches[j] \in all
  BY DEF ToSet
<1>3. Pre(d, 0) = {}
  BY DEF Pre
\* What ends where the first k patches do.
<1>4. ASSUME NEW k \in 1 .. Len(d.patches)
      PROVE  d.patches[k].start + d.patches[k].size =
                SizeOf(Pre(d, k)) + (IF k <= m THEN 0 ELSE d.routing.size)
  <2>1. d.patches[k].start = SizeOf(Pre(d, k - 1)) + (IF k <= m THEN 0 ELSE d.routing.size)
    BY <1>1 DEF Layout
  <2>2. /\ SizeOf(Pre(d, k)) = SizeOf(Pre(d, k - 1)) + d.patches[k].size
        /\ SizeOf(Pre(d, k - 1)) \in Nat /\ d.patches[k].size \in Nat
    BY <1>1, PreStep, RecordType
  <2> DEFINE b == IF k <= m THEN 0 ELSE d.routing.size
             x == SizeOf(Pre(d, k - 1))
             y == d.patches[k].size
  <2>3. b \in Nat /\ x \in Nat /\ y \in Nat
    BY <1>1, <2>2
  <2> HIDE DEF b, x, y
  <2>4. (x + b) + y = (x + y) + b
    BY <2>3
  <2>5. QED
    BY <2>1, <2>2, <2>4 DEF b, x, y
<1>5. d.routing.start = 0 \/ \E q \in all : q.start + q.size = d.routing.start
  <2>1. CASE m = 0
    BY <1>3, <2>1, SizeEmpty DEF Layout
  <2>2. CASE m # 0
    <3>1. m \in 1 .. Len(d.patches) /\ SizeOf(Pre(d, m)) \in Nat
      BY <1>1, <2>2, RecordType, SizeType
    <3>2. d.patches[m].start + d.patches[m].size = SizeOf(Pre(d, m)) + 0
      BY <1>4, <3>1
    <3>3. d.patches[m] \in all
      BY <1>1, <1>2, <3>1
    <3>4. QED
      BY <3>1, <3>2, <3>3 DEF Layout
  <2>3. QED
    BY <2>1, <2>2
<1>6. ASSUME NEW j \in 1 .. Len(d.patches)
      PROVE  \/ d.patches[j].start = 0
             \/ \E q \in all : q.start + q.size = d.patches[j].start
  <2>1. d.patches[j].start = SizeOf(Pre(d, j - 1)) + (IF j <= m THEN 0 ELSE d.routing.size)
    BY <1>1 DEF Layout
  <2>2. SizeOf(Pre(d, j - 1)) \in Nat
    BY <1>1, PreStep
  <2>3. CASE j - 1 = m
    <3>1. d.patches[j].start = d.routing.start + d.routing.size
      BY <1>1, <2>1, <2>2, <2>3 DEF Layout
    <3>2. QED
      BY <3>1
  <2>4. CASE j - 1 # m /\ j = 1
    <3>1. j - 1 = 0 /\ j <= m
      BY <1>1, <2>4
    <3>2. SizeOf(Pre(d, j - 1)) = 0
      BY <1>3, <3>1, SizeEmpty
    <3>3. d.patches[j].start = 0
      BY <2>1, <3>1, <3>2
    <3>4. QED
      BY <3>3
  <2>5. CASE j - 1 # m /\ j # 1
    <3>1. j - 1 \in 1 .. Len(d.patches) /\ (j <= m <=> j - 1 <= m)
      BY <1>1, <2>5
    <3>2. d.patches[j - 1].start + d.patches[j - 1].size = d.patches[j].start
      BY <1>4, <2>1, <3>1
    <3>3. d.patches[j - 1] \in all
      BY <1>1, <1>2, <3>1
    <3>4. QED
      BY <3>2, <3>3
  <2>6. QED
    BY <2>3, <2>4, <2>5
<1>7. \A r \in all : r = d.routing \/ \E j \in 1 .. Len(d.patches) : r = d.patches[j]
  BY <1>1 DEF ToSet
<1> HIDE DEF all
<1>8. \A r \in all : r.start = 0 \/ \E q \in all : q.start + q.size = r.start
  BY <1>5, <1>6, <1>7
<1>9. QED
  BY <1>8 DEF all

LEMMA RecordsApart ==
    ASSUME NEW d, RecordsOk(d), NEW m \in 0 .. Len(d.patches), Layout(d, m)
    PROVE  LET all == {d.routing} \cup ToSet(d.patches)
           IN \A r \in all : \A q \in all \ {r} :
                 q.start + q.size <= r.start \/ r.start + r.size <= q.start
<1> DEFINE all == {d.routing} \cup ToSet(d.patches)
<1>1. Len(d.patches) \in Nat /\ DOMAIN d.patches = 1 .. Len(d.patches)
  BY RecordType
<1>2. \A r \in all : r = d.routing \/ \E j \in DOMAIN d.patches : r = d.patches[j]
  BY DEF ToSet
<1> HIDE DEF all
<1>3. SUFFICES ASSUME NEW r \in all, NEW q \in all, q # r
               PROVE  q.start + q.size <= r.start \/ r.start + r.size <= q.start
  BY DEF all
<1>4. ASSUME NEW j \in DOMAIN d.patches
      PROVE  \/ d.patches[j].start + d.patches[j].size <= d.routing.start
             \/ d.routing.start + d.routing.size <= d.patches[j].start
  BY RecordOrder
<1>5. ASSUME NEW j \in DOMAIN d.patches, NEW k \in DOMAIN d.patches, d.patches[j] # d.patches[k]
      PROVE  \/ d.patches[j].start + d.patches[j].size <= d.patches[k].start
             \/ d.patches[k].start + d.patches[k].size <= d.patches[j].start
  <2>1. j < k \/ k < j
    BY <1>1, <1>5
  <2>2. QED
    BY <2>1, RecordOrder
<1>6. CASE r = d.routing
  <2>1. PICK j \in DOMAIN d.patches : q = d.patches[j]
    BY <1>2, <1>3, <1>6
  <2>2. QED
    BY <1>4, <1>6, <2>1
<1>7. CASE r # d.routing
  <2>1. PICK j \in DOMAIN d.patches : r = d.patches[j]
    BY <1>2, <1>7
  <2>2. CASE q = d.routing
    BY <1>4, <2>1, <2>2
  <2>3. CASE q # d.routing
    <3>1. PICK k \in DOMAIN d.patches : q = d.patches[k]
      BY <1>2, <2>3
    <3>2. QED
      BY <1>3, <1>5, <2>1, <3>1
  <2>4. QED
    BY <2>2, <2>3
<1>8. QED
  BY <1>6, <1>7

-----------------------------------------------------------------------------
(* What the next process reads back.                                       *)

LEMMA NthOfInterval ==
    ASSUME NEW a \in Int, NEW b \in Int, b - a + 1 \in Nat
    PROVE  /\ Cardinality(a .. b) = b - a + 1
           /\ \A k \in 1 .. b - a + 1 : Nth(a .. b, k) = a + k - 1
<1>1. Cardinality(a .. b) = b - a + 1
  BY FS_Interval
<1>2. ASSUME NEW j \in a .. b PROVE Cardinality({i \in a .. b : i <= j}) = j - a + 1
  <2>1. {i \in a .. b : i <= j} = a .. j
    OBVIOUS
  <2>2. Cardinality(a .. j) = j - a + 1
    BY FS_Interval
  <2>3. QED
    BY <2>1, <2>2
<1>3. ASSUME NEW k \in 1 .. b - a + 1 PROVE Nth(a .. b, k) = a + k - 1
  <2>1. a + k - 1 \in a .. b /\ (a + k - 1) - a + 1 = k
    OBVIOUS
  <2>2. \A j \in a .. b : Cardinality({i \in a .. b : i <= j}) = k <=> j = a + k - 1
    BY <1>2
  <2>3. QED
    BY <2>1, <2>2 DEF Nth
<1>4. QED
  BY <1>1, <1>3

LEMMA Halves ==
    ASSUME NEW n \in Nat, NEW m \in 0 .. n
    PROVE  {j \in 1 .. n : j <= m} = 1 .. m /\ {j \in 1 .. n : ~(j <= m)} = m + 1 .. n
  OBVIOUS

\* What a process reads back from the records d.
RecordsIn(d, input) == {j \in DOMAIN d.patches : (d.patches[j].start < d.routing.start) <=> input}
ReadOf(d, input) ==
    LET J == RecordsIn(d, input) IN [k \in 1 .. Cardinality(J) |-> d.patches[Nth(J, k)].patch]

\* The two lists are the first m patches of the records and the rest.
LEMMA ReadOfIs ==
    ASSUME NEW d, RecordsOk(d), NEW m \in 0 .. Len(d.patches), Layout(d, m)
    PROVE  /\ ReadOf(d, TRUE) = [k \in 1 .. m |-> d.patches[k].patch]
           /\ ReadOf(d, FALSE) = [k \in 1 .. Len(d.patches) - m |-> d.patches[m + k].patch]
<1> DEFINE n == Len(d.patches)
<1>1. n \in Nat /\ DOMAIN d.patches = 1 .. n /\ d.routing.size \in Nat
      /\ \A j \in 1 .. n : d.patches[j].start \in Nat /\ d.patches[j].size \in Nat \ {0}
  BY RecordType
<1>2. d.routing.start \in Nat
  BY RecordOrder
<1>3. ASSUME NEW j \in 1 .. n PROVE d.patches[j].start < d.routing.start <=> j <= m
  <2>1. CASE j <= m
    <3>1. d.patches[j].start + d.patches[j].size <= d.routing.start
      BY <1>1, <2>1, RecordOrder
    <3>2. QED
      BY <1>1, <1>2, <2>1, <3>1
  <2>2. CASE ~(j <= m)
    <3>1. d.routing.start + d.routing.size <= d.patches[j].start
      BY <1>1, <2>2, RecordOrder
    <3>2. QED
      BY <1>1, <1>2, <2>2, <3>1
  <2>3. QED
    BY <2>1, <2>2
<1>4. RecordsIn(d, TRUE) = 1 .. m /\ RecordsIn(d, FALSE) = m + 1 .. n
  <2>1. RecordsIn(d, TRUE) = {j \in 1 .. n : j <= m} /\ RecordsIn(d, FALSE) = {j \in 1 .. n : ~(j <= m)}
    BY <1>1, <1>3 DEF RecordsIn
  <2>2. {j \in 1 .. n : j <= m} = 1 .. m /\ {j \in 1 .. n : ~(j <= m)} = m + 1 .. n
    BY <1>1, Halves
  <2>3. QED
    BY <2>1, <2>2
<1>5. ReadOf(d, TRUE) = [k \in 1 .. m |-> d.patches[k].patch]
  <2>1. Cardinality(1 .. m) = m /\ \A k \in 1 .. m : Nth(1 .. m, k) = k
    <3>1. m \in Int /\ m - 1 + 1 = m /\ m \in Nat
      BY <1>1
    <3>2. Cardinality(1 .. m) = m - 1 + 1 /\ \A k \in 1 .. m - 1 + 1 : Nth(1 .. m, k) = 1 + k - 1
      BY <3>1, NthOfInterval
    <3>3. QED
      BY <3>1, <3>2
  <2>2. QED
    BY <1>4, <2>1 DEF ReadOf
<1>6. ReadOf(d, FALSE) = [k \in 1 .. n - m |-> d.patches[m + k].patch]
  <2>1. Cardinality(m + 1 .. n) = n - m /\ \A k \in 1 .. n - m : Nth(m + 1 .. n, k) = m + k
    <3>1. m + 1 \in Int /\ n \in Int /\ n - (m + 1) + 1 = n - m /\ n - m \in Nat
      BY <1>1
    <3>2. /\ Cardinality(m + 1 .. n) = n - (m + 1) + 1
          /\ \A k \in 1 .. n - (m + 1) + 1 : Nth(m + 1 .. n, k) = (m + 1) + k - 1
      BY <3>1, NthOfInterval
    <3>3. \A k \in 1 .. n - m : (m + 1) + k - 1 = m + k
      BY <1>1
    <3>4. QED
      BY <3>1, <3>2, <3>3
  <2>2. QED
    BY <1>4, <2>1 DEF ReadOf
<1>7. QED
  BY <1>5, <1>6

LEMMA ReadBackOf ==
    ReadBack(TRUE) = ReadOf(driver, TRUE) /\ ReadBack(FALSE) = ReadOf(driver, FALSE)
  BY DEF ReadBack, ReadOf, RecordsOf, RecordsIn, IsInput

LEMMA ReadBackIs ==
    ASSUME RecordsOk(driver), NEW m \in 0 .. Len(driver.patches), Layout(driver, m)
    PROVE  /\ ReadBack(TRUE) = [k \in 1 .. m |-> driver.patches[k].patch]
           /\ ReadBack(FALSE) = [k \in 1 .. Len(driver.patches) - m |-> driver.patches[m + k].patch]
  BY ReadBackOf, ReadOfIs

LEMMA ReadBackApart ==
    ASSUME DriverOk(driver)
    PROVE  /\ Apart(ReadBack(TRUE), ReadBack(FALSE))
           /\ ToSet(ReadBack(TRUE) \o ReadBack(FALSE)) =
                 {driver.patches[j].patch : j \in DOMAIN driver.patches}
<1>1. PICK m \in 0 .. Len(driver.patches) : RecordsOk(driver) /\ Layout(driver, m)
  BY DEF DriverOk
<1> DEFINE n == Len(driver.patches)
           P(j) == driver.patches[j].patch
           s == [k \in 1 .. m |-> P(k)]
           t == [k \in 1 .. n - m |-> P(m + k)]
<1>2. ReadBack(TRUE) = s /\ ReadBack(FALSE) = t
  BY <1>1, ReadBackIs
<1>3. /\ n \in Nat /\ m \in 0 .. n /\ DOMAIN driver.patches = 1 .. n
      /\ \A j \in 1 .. n : P(j) \in Patches
      /\ \A j, k \in 1 .. n : P(j) = P(k) => j = k
  BY <1>1, RecordType DEF RecordsOk
<1> HIDE DEF n, P
<1>4. /\ s \in Seq(Patches) /\ Len(s) = m /\ DOMAIN s = 1 .. m
      /\ t \in Seq(Patches) /\ Len(t) = n - m /\ DOMAIN t = 1 .. n - m
  <2>1. m \in Nat /\ n - m \in Nat
    BY <1>3
  <2>2. \A k \in 1 .. m : P(k) \in Patches
    BY <1>3
  <2>3. \A k \in 1 .. n - m : P(m + k) \in Patches
    <3>1. \A k \in 1 .. n - m : m + k \in 1 .. n
      BY <1>3
    <3>2. QED
      BY <1>3, <3>1
  <2>4. QED
    BY <2>1, <2>2, <2>3
<1>5. /\ ToSet(s) = {P(j) : j \in 1 .. m}
      /\ ToSet(t) = {P(j) : j \in m + 1 .. n}
  <2>1. ToSet(s) = {P(j) : j \in 1 .. m}
    BY <1>4 DEF ToSet
  <2>2. \A x : x \in ToSet(t) => x \in {P(j) : j \in m + 1 .. n}
    <3>1. \A k \in 1 .. n - m : m + k \in m + 1 .. n
      BY <1>3
    <3>2. QED
      BY <1>4, <3>1 DEF ToSet
  <2>3. \A x : x \in {P(j) : j \in m + 1 .. n} => x \in ToSet(t)
    <3>1. ASSUME NEW j \in m + 1 .. n PROVE P(j) \in ToSet(t)
      <4>1. j - m \in 1 .. n - m /\ m + (j - m) = j
        BY <1>3
      <4>2. t[j - m] = P(j)
        BY <4>1
      <4>3. QED
        BY <1>4, <4>1, <4>2 DEF ToSet
    <3>2. QED
      BY <3>1
  <2>4. QED
    BY <2>1, <2>2, <2>3
<1>6. Distinct(s)
  BY <1>3, <1>4 DEF Distinct
<1>7. Distinct(t)
  <2>1. \A k \in 1 .. n - m : m + k \in 1 .. n /\ t[k] = P(m + k)
    BY <1>3
  <2>2. ASSUME NEW j \in 1 .. n - m, NEW k \in 1 .. n - m, t[j] = t[k] PROVE j = k
    <3>1. m + j \in 1 .. n /\ m + k \in 1 .. n /\ P(m + j) = P(m + k)
      BY <2>1, <2>2
    <3>2. m + j = m + k
      BY <1>3, <3>1
    <3>3. QED
      BY <1>3, <3>2
  <2> HIDE DEF t
  <2>3. QED
    BY <1>4, <2>2 DEF Distinct
<1>8. ToSet(s) \cap ToSet(t) = {}
  <2>1. SUFFICES ASSUME NEW j \in 1 .. m, NEW k \in m + 1 .. n, P(j) = P(k) PROVE FALSE
    BY <1>5
  <2>2. j \in 1 .. n /\ k \in 1 .. n /\ j # k
    BY <1>3
  <2>3. QED
    BY <1>3, <2>1, <2>2
<1>9. ToSet(s \o t) = {P(j) : j \in 1 .. n}
  <2>1. ToSet(s \o t) = ToSet(s) \cup ToSet(t)
    BY <1>4, Joined
  <2>2. 1 .. n = (1 .. m) \cup (m + 1 .. n)
    BY <1>3
  <2>3. QED
    BY <1>5, <2>1, <2>2
<1> HIDE DEF s, t
<1>10. QED
  BY <1>2, <1>3, <1>4, <1>6, <1>7, <1>8, <1>9 DEF Apart, P

-----------------------------------------------------------------------------
(* The invariant of the types and the layout.                              *)

CodeTyped == /\ DOMAIN code = Patches
             /\ \A p \in Patches : \A k \in DOMAIN code[p] : code[p][k] \in Words

TInv == /\ loads \in -1 .. MaxLoads
        /\ Apart(ilist, olist)
        /\ rsize \in RSizes \cup PartSizes \cup {0}
        /\ free \in 0 .. U16 - 1
        /\ ifree \in 0 .. U16 - 1
        /\ dsp \in [0 .. CodeSize - 1 -> Words]
        /\ CodeTyped
        /\ DriverOk(driver)

LEMMA Counts ==
    ASSUME NEW n \in Int, NEW m \in Int
    PROVE  Plus(n, m) \in 0 .. U16 - 1 /\ Minus(n, m) \in 0 .. U16 - 1
<1>1. U16 \in Nat \ {0}
  BY DEF U16
<1>2. \A k \in Int : k % U16 \in 0 .. U16 - 1
  BY <1>1
<1>3. n + m \in Int /\ n - m \in Int
  OBVIOUS
<1>4. (n + m) % U16 \in 0 .. U16 - 1 /\ (n - m) % U16 \in 0 .. U16 - 1
  BY <1>2, <1>3, Zenon
<1>5. QED
  BY <1>4 DEF Plus, Minus

LEMMA CountIsInt == ASSUME NEW n \in 0 .. U16 - 1 PROVE n \in Int
<1>1. U16 - 1 \in Int
  BY DEF U16
<1>2. QED
  BY <1>1

LEMMA CountsAreInts == ASSUME TInv PROVE free \in Int /\ ifree \in Int
<1>1. free \in 0 .. U16 - 1 /\ ifree \in 0 .. U16 - 1
  BY DEF TInv
<1>2. QED
  BY <1>1, CountIsInt

LEMMA DriverKept == ASSUME DriverOk(driver), UNCHANGED driver PROVE DriverOk(driver)'
  OBVIOUS

LEMMA SizesAreNat ==
    /\ \A n \in RSizes \cup PartSizes \cup {0} : n \in Nat
    /\ \A p \in Patches : Size[p] \in Nat \ {0}
    /\ CodeSize \in 1 .. U16 - 1 /\ CodeSize \in Nat /\ Chunk \in Nat \ {0} /\ MaxLoads \in Nat \ {0}
<1>1. (\A n \in RSizes \cup PartSizes \cup {0} : n \in Nat) /\ \A p \in Patches : Size[p] \in Nat \ {0}
  BY SizeAssumption
<1>2. CodeSize \in 1 .. U16 - 1 /\ Chunk \in Nat \ {0} /\ MaxLoads \in Nat \ {0}
  BY SizeAssumption
<1>3. \A n \in Int : \A m \in 1 .. n : m \in Nat
  OBVIOUS
<1>4. U16 - 1 \in Int
  BY DEF U16
<1>5. CodeSize \in Nat
  BY <1>2, <1>3, <1>4
<1>6. QED
  BY <1>1, <1>2, <1>5

LEMMA OwnTyped ==
    ASSUME NEW p \in Patches
    PROVE  \A k \in DOMAIN Own(p) : Own(p)[k] \in Words
  BY SizesAreNat DEF Own, Words

LEMMA InitTInv == Init => TInv
<1>1. SUFFICES ASSUME Init PROVE TInv
  OBVIOUS
<1>2. Apart(ilist, olist)
  BY <1>1 DEF Init, Apart, Distinct, ToSet
<1>3. CodeTyped
  BY <1>1, OwnTyped DEF Init, CodeTyped
<1>4. DriverOk(driver)
  <2>1. driver.patches = <<>> /\ driver.routing.start = 0 /\ driver.routing.size = 0
    BY <1>1 DEF Init
  <2>2. RecordsOk(driver)
    BY <2>1 DEF RecordsOk
  <2>3. Pre(driver, 0) = {}
    BY DEF Pre
  <2>4. Layout(driver, 0) /\ 0 \in 0 .. Len(driver.patches)
    BY <2>1, <2>3, SizeEmpty DEF Layout
  <2>5. QED
    BY <2>2, <2>4 DEF DriverOk
<1>5. /\ loads \in -1 .. MaxLoads /\ rsize \in RSizes \cup PartSizes \cup {0}
      /\ free \in 0 .. U16 - 1 /\ ifree \in 0 .. U16 - 1
  <2>1. loads = -1 /\ rsize = 0 /\ free = 0 /\ ifree = 0
    BY <1>1 DEF Init
  <2>2. 0 \in 0 .. U16 - 1
    BY DEF U16
  <2>3. \A k \in Nat : -1 \in -1 .. k
    OBVIOUS
  <2>4. -1 \in -1 .. MaxLoads
    BY <2>3, SizeAssumption
  <2>5. QED
    BY <2>1, <2>2, <2>4
<1>6. dsp \in [0 .. CodeSize - 1 -> Words]
  BY <1>1 DEF Init, Words
<1>7. QED
  BY <1>2, <1>3, <1>4, <1>5, <1>6 DEF TInv

LEMMA StartTInv == ASSUME TInv, Start PROVE TInv'
<1>1. Apart(ilist', olist') /\ DriverOk(driver)
  BY ReadBackApart DEF TInv, Start
<1>2. ASSUME NEW r \in ToSet(driver.patches), NEW k \in DOMAIN CodeRead(r)
      PROVE  CodeRead(r)[k] \in Words
  <2>1. r.start \in Nat /\ r.size \in Nat
    BY <1>1, RecordType DEF ToSet, DriverOk
  <2>2. k \in 0 .. r.size - 1
    BY DEF CodeRead
  <2> DEFINE from == IF k < Chunk THEN r.start + k
                     ELSE IF k < r.start + Chunk THEN CodeSize ELSE k
  <2>3. CodeRead(r)[k] = IF from < CodeSize THEN dsp[from] ELSE Junk
    BY <2>2 DEF CodeRead
  <2>4. from \in Nat
    BY <2>1, <2>2, SizesAreNat
  <2> HIDE DEF from
  <2>5. from < CodeSize => dsp[from] \in Words
    BY <2>4, SizesAreNat DEF TInv
  <2>6. Junk \in Words
    BY DEF Words
  <2>7. QED
    BY <2>3, <2>5, <2>6
<1>3. CodeTyped'
  <2>1. ASSUME NEW p \in Patches PROVE \A k \in DOMAIN code'[p] : code'[p][k] \in Words
    <3>1. CASE \E r \in ToSet(driver.patches) : r.patch = p
      <4>1. RecordOf(p) \in ToSet(driver.patches)
        BY <3>1 DEF RecordOf
      <4>2. code'[p] = CodeRead(RecordOf(p))
        BY <3>1 DEF Start
      <4>3. QED
        BY <1>2, <4>1, <4>2
    <3>2. CASE ~ \E r \in ToSet(driver.patches) : r.patch = p
      BY <3>2, OwnTyped DEF Start
    <3>3. QED
      BY <3>1, <3>2
  <2>2. QED
    BY <2>1 DEF CodeTyped, Start, Words
<1>4. free' \in 0 .. U16 - 1 /\ ifree' \in 0 .. U16 - 1
  <2>1. driver.routing.size \in Int
    BY <1>1, RecordType DEF DriverOk
  <2>2. SizeOf(ToSet(ilist' \o olist')) \in Int
    <3>1. ToSet(ilist' \o olist') \in SUBSET Patches
      BY <1>1 DEF Apart, ToSet
    <3>2. QED
      BY <3>1, SizeType
  <2>3. QED
    BY <2>1, <2>2, Counts DEF Start
<1>5. rsize' \in RSizes \cup PartSizes \cup {0} /\ loads' \in -1 .. MaxLoads
  BY <1>1, SizesAreNat DEF Start, DriverOk, RecordsOk
<1>6. dsp' \in [0 .. CodeSize - 1 -> Words]
  BY DEF TInv, Start
<1>7. DriverOk(driver)'
  BY <1>1, DriverKept DEF Start
<1>8. Apart(ilist, olist)'
  BY <1>1 DEF Apart, Distinct
<1>9. QED
  BY <1>3, <1>4, <1>5, <1>6, <1>7, <1>8 DEF TInv, Words

-----------------------------------------------------------------------------
(* The steps that change the lists.                                        *)

LEMMA ReadPatchTInv == ASSUME TInv, NEW p \in Patches, ReadPatch(p) PROVE TInv'
<1>1. /\ ilist \in Seq(Patches) /\ Distinct(ilist) /\ olist \in Seq(Patches) /\ Distinct(olist)
      /\ ToSet(ilist) \cap ToSet(olist) = {}
  BY DEF TInv, Apart
<1>2. p \notin ToSet(ilist) /\ p \notin ToSet(olist)
  <2>1. p \notin ToSet(ilist \o olist)
    BY DEF ReadPatch, Loaded, Lists
  <2>2. QED
    BY <1>1, <2>1, Joined
<1>3. Apart(ilist', olist')
  <2>1. CASE ilist' \in {<<p>> \o ilist, ilist \o <<p>>} /\ olist' = olist
    <3>1. /\ ilist' \in Seq(Patches) /\ Distinct(ilist') /\ ToSet(ilist') = ToSet(ilist) \cup {p}
      <4>1. ASSUME NEW t \in {<<p>> \o ilist, ilist \o <<p>>}
            PROVE  t \in Seq(Patches) /\ Distinct(t) /\ ToSet(t) = ToSet(ilist) \cup {p}
        <5>1. ilist \in Seq(Patches) /\ Distinct(ilist) /\ p \in Patches /\ p \notin ToSet(ilist)
          BY <1>1, <1>2
        <5>2. QED
          BY <5>1, PutIn
      <4>2. QED
        BY <2>1, <4>1
    <3>2. QED
      BY <1>1, <1>2, <2>1, <3>1 DEF Apart
  <2>2. CASE olist' \in {<<p>> \o olist, olist \o <<p>>} /\ ilist' = ilist
    <3>1. /\ olist' \in Seq(Patches) /\ Distinct(olist') /\ ToSet(olist') = ToSet(olist) \cup {p}
      <4>1. ASSUME NEW t \in {<<p>> \o olist, olist \o <<p>>}
            PROVE  t \in Seq(Patches) /\ Distinct(t) /\ ToSet(t) = ToSet(olist) \cup {p}
        <5>1. olist \in Seq(Patches) /\ Distinct(olist) /\ p \in Patches /\ p \notin ToSet(olist)
          BY <1>1, <1>2
        <5>2. QED
          BY <5>1, PutIn
      <4>2. QED
        BY <2>2, <4>1
    <3>2. QED
      BY <1>1, <1>2, <2>2, <3>1 DEF Apart
  <2>3. QED
    BY <2>1, <2>2 DEF ReadPatch
<1>4. CodeTyped'
  <2>1. code' = [code EXCEPT ![p] = Own(p)]
    BY DEF ReadPatch
  <2>2. \A q \in Patches : \A k \in DOMAIN code'[q] : code'[q][k] \in Words
    BY <2>1, OwnTyped DEF TInv, CodeTyped
  <2>3. DOMAIN code' = Patches
    BY <2>1 DEF TInv, CodeTyped
  <2>4. QED
    BY <2>2, <2>3 DEF CodeTyped, Words
<1>5. free' \in 0 .. U16 - 1
  <2>1. free \in Int /\ Size[p] \in Int
    BY SizesAreNat, CountsAreInts
  <2>2. QED
    BY <2>1, Counts DEF ReadPatch
<1>6. QED
  <2>1. UNCHANGED <<loads, rsize, ifree, dsp, driver>>
    BY DEF ReadPatch
  <2>2. DriverOk(driver)'
    BY <2>1, DriverKept DEF TInv
  <2>3. /\ loads' \in -1 .. MaxLoads /\ rsize' \in RSizes \cup PartSizes \cup {0}
        /\ ifree' \in 0 .. U16 - 1 /\ dsp' \in [0 .. CodeSize - 1 -> Words]
    BY <2>1 DEF TInv
  <2>4. Apart(ilist, olist)'
    BY <1>3 DEF Apart, Distinct
  <2>5. QED
    BY <1>4, <1>5, <2>2, <2>3, <2>4 DEF TInv, Words

\* The lists and the patch that is taken out of one of them.
LEMMA UnloadLists ==
    ASSUME Apart(ilist, olist), NEW p \in Patches, UnloadPatch(p)
    PROVE  Apart(ilist', olist') /\ p \in Loaded /\ ToSet(ilist' \o olist') = Loaded \ {p}
<1>1. /\ ilist \in Seq(Patches) /\ Distinct(ilist) /\ olist \in Seq(Patches) /\ Distinct(olist)
      /\ ToSet(ilist) \cap ToSet(olist) = {}
  BY DEF Apart
<1>2. Loaded = ToSet(ilist) \cup ToSet(olist)
  BY <1>1, Joined DEF Loaded, Lists
<1>3. CASE \E j \in DOMAIN ilist : ilist[j] = p /\ ilist' = RemoveAt(ilist, j) /\ olist' = olist
  <2>1. PICK j \in DOMAIN ilist : ilist[j] = p /\ ilist' = RemoveAt(ilist, j) /\ olist' = olist
    BY <1>3
  <2>2. ilist' \in Seq(Patches) /\ Distinct(ilist') /\ ToSet(ilist') = ToSet(ilist) \ {p}
    BY <1>1, <2>1, TakenOut
  <2>3. p \in ToSet(ilist)
    BY <2>1 DEF ToSet
  <2>4. ToSet(ilist' \o olist') = ToSet(ilist') \cup ToSet(olist)
    BY <1>1, <2>1, <2>2, Joined
  <2>5. QED
    BY <1>1, <1>2, <2>1, <2>2, <2>3, <2>4 DEF Apart
<1>4. CASE \E j \in DOMAIN olist : olist[j] = p /\ olist' = RemoveAt(olist, j) /\ ilist' = ilist
  <2>1. PICK j \in DOMAIN olist : olist[j] = p /\ olist' = RemoveAt(olist, j) /\ ilist' = ilist
    BY <1>4
  <2>2. olist' \in Seq(Patches) /\ Distinct(olist') /\ ToSet(olist') = ToSet(olist) \ {p}
    BY <1>1, <2>1, TakenOut
  <2>3. p \in ToSet(olist)
    BY <2>1 DEF ToSet
  <2>4. ToSet(ilist' \o olist') = ToSet(ilist) \cup ToSet(olist')
    BY <1>1, <2>1, <2>2, Joined
  <2>5. QED
    BY <1>1, <1>2, <2>1, <2>2, <2>3, <2>4 DEF Apart
<1>5. QED
  BY <1>3, <1>4 DEF UnloadPatch

LEMMA UnloadPatchTInv == ASSUME TInv, NEW p \in Patches, UnloadPatch(p) PROVE TInv'
<1>1. Apart(ilist, olist)'
  BY UnloadLists DEF TInv, Apart, Distinct
<1>2. free' \in 0 .. U16 - 1
  <2>1. free \in Int /\ Size[p] \in Int
    BY SizesAreNat, CountsAreInts
  <2>2. QED
    BY <2>1, Counts DEF UnloadPatch, Left
<1>3. UNCHANGED <<loads, code, rsize, ifree, dsp, driver>>
  BY DEF UnloadPatch
<1>4. DriverOk(driver)' /\ CodeTyped'
  BY <1>3, DriverKept DEF TInv, CodeTyped, Words
<1>5. QED
  BY <1>1, <1>2, <1>3, <1>4 DEF TInv, Words

LEMMA UnloadAllTInv == ASSUME TInv, UnloadAll PROVE TInv'
<1>1. Apart(ilist, olist)'
  BY DEF UnloadAll, Apart, Distinct, ToSet
<1>2. free' \in 0 .. U16 - 1 /\ ifree' \in 0 .. U16 - 1 /\ rsize' \in RSizes \cup PartSizes \cup {0}
  <2>1. free' = 0 /\ ifree' = CodeSize /\ rsize' = 0
    BY DEF UnloadAll
  <2>2. 0 \in 0 .. U16 - 1 /\ CodeSize \in 0 .. U16 - 1
    <3>1. CodeSize \in 1 .. U16 - 1 /\ U16 - 1 \in Int
      BY SizesAreNat DEF U16
    <3> DEFINE u == U16 - 1
    <3> HIDE DEF u
    <3>2. CodeSize \in 1 .. u /\ u \in Int
      BY <3>1 DEF u
    <3>3. 0 \in 0 .. u /\ CodeSize \in 0 .. u
      BY <3>2
    <3>4. QED
      BY <3>3 DEF u
  <2>3. QED
    BY <2>1, <2>2
<1>3. UNCHANGED <<loads, code, dsp, driver>>
  BY DEF UnloadAll
<1>4. DriverOk(driver)' /\ CodeTyped'
  BY <1>3, DriverKept DEF TInv, CodeTyped, Words
<1>5. QED
  BY <1>1, <1>2, <1>3, <1>4 DEF TInv, Words

-----------------------------------------------------------------------------
(* A load.                                                                 *)

Driver(n) == [routing |-> [start |-> RoutingStart, size |-> n], patches |-> Records(n)]

LEMMA RecordsFit ==
    ASSUME Apart(ilist, olist), NEW n \in RSizes \cup PartSizes \cup {0}
    PROVE  /\ RecordsOk(Driver(n)) /\ Layout(Driver(n), Len(ilist))
           /\ Len(Driver(n).patches) = Len(Lists) /\ Len(ilist) \in 0 .. Len(Lists)
           /\ \A j \in DOMAIN Lists : Driver(n).patches[j].patch = Lists[j]
<1>1. /\ ilist \in Seq(Patches) /\ olist \in Seq(Patches)
      /\ Len(ilist) \in Nat /\ Len(olist) \in Nat
  BY DEF Apart
<1>2. /\ Lists \in Seq(Patches) /\ Len(Lists) = Len(ilist) + Len(olist)
      /\ DOMAIN Lists = 1 .. Len(Lists)
      /\ \A j \in 1 .. Len(ilist) : Lists[j] = ilist[j]
  BY <1>1, Joined DEF Lists
<1>3. Distinct(Lists)
  BY JoinedDistinct DEF Lists
<1>4. n \in Nat
  BY SizesAreNat, Zenon
<1> DEFINE d == Driver(n)
           Earlier(j) == {Lists[i] : i \in 1 .. j}
<1>5. Len(Lists) \in Nat /\ \A j \in 1 .. Len(Lists) : Lists[j] \in Patches
  BY <1>2
<1>6. \A j \in 0 .. Len(Lists) : Earlier(j) \in SUBSET Patches /\ SizeOf(Earlier(j)) \in Nat
  <2>1. \A j \in 0 .. Len(Lists) : Earlier(j) \in SUBSET Patches
    BY <1>5
  <2> HIDE DEF Earlier
  <2>2. QED
    BY <2>1, SizeType
<1>7. /\ d.routing.start = RoutingStart /\ d.routing.size = n
      /\ Len(d.patches) = Len(Lists) /\ DOMAIN d.patches = 1 .. Len(Lists)
      /\ \A j \in 1 .. Len(Lists) : /\ d.patches[j].patch = Lists[j]
                                   /\ d.patches[j].start = StartOf(j, n)
                                   /\ d.patches[j].size = Size[Lists[j]]
  BY <1>5 DEF Driver, Records
<1>8. \A j \in 1 .. Len(Lists) :
          StartOf(j, n) = SizeOf(Earlier(j - 1)) + (IF j <= Len(ilist) THEN 0 ELSE n)
  <2>1. ASSUME NEW j \in 1 .. Len(Lists)
        PROVE  StartOf(j, n) = SizeOf(Earlier(j - 1)) + (IF j <= Len(ilist) THEN 0 ELSE n)
    <3>1. j - 1 \in 0 .. Len(Lists)
      BY <1>5
    <3>2. SizeOf(Earlier(j - 1)) \in Nat
      BY <1>6, <3>1
    <3>3. StartOf(j, n) = IF j <= Len(ilist) THEN SizeOf(Earlier(j - 1)) ELSE n + SizeOf(Earlier(j - 1))
      BY DEF StartOf
    <3> HIDE DEF Earlier
    <3>4. QED
      BY <1>4, <3>2, <3>3
  <2>2. QED
    BY <2>1
<1> HIDE DEF d
<1>9. \A j \in 0 .. Len(Lists) : Pre(d, j) = Earlier(j)
  BY <1>5, <1>7 DEF Pre
<1>10. RoutingStart = SizeOf(Pre(d, Len(ilist)))
  <2>1. ToSet(ilist) = {ilist[i] : i \in 1 .. Len(ilist)}
    BY <1>1 DEF ToSet
  <2>2. ToSet(ilist) = Earlier(Len(ilist))
    BY <1>2, <2>1
  <2>3. Len(ilist) \in 0 .. Len(Lists)
    BY <1>1, <1>2
  <2> HIDE DEF Earlier
  <2>4. QED
    BY <1>9, <2>2, <2>3 DEF RoutingStart
<1>11. d.patches \in Seq(RecordSet)
  <2>1. \A j \in 1 .. Len(Lists) : SizeOf(Earlier(j - 1)) \in Nat
    <3>1. \A j \in 1 .. Len(Lists) : j - 1 \in 0 .. Len(Lists)
      BY <1>5
    <3> HIDE DEF Earlier
    <3>2. QED
      BY <1>6, <3>1
  <2>2. \A j \in 1 .. Len(Lists) : StartOf(j, n) \in Nat
    <3> HIDE DEF Earlier
    <3>1. QED
      BY <1>4, <1>8, <2>1
  <2>3. \A j \in 1 .. Len(Lists) : Size[Lists[j]] \in Nat
    BY <1>5, SizesAreNat
  <2>4. \A j \in 1 .. Len(Lists) :
           [patch |-> Lists[j], start |-> StartOf(j, n), size |-> Size[Lists[j]]] \in RecordSet
    BY <1>5, <2>2, <2>3 DEF RecordSet
  <2>5. Records(n) \in Seq(RecordSet)
    BY <1>5, <2>4 DEF Records
  <2>6. QED
    BY <2>5 DEF d, Driver
<1> HIDE DEF Earlier
<1>12. RecordsOk(d)
  <2>1. \A j \in 1 .. Len(Lists) : d.patches[j].patch = Lists[j] /\ d.patches[j].size = Size[Lists[j]]
    BY <1>7
  <2>2. \A j, k \in 1 .. Len(Lists) : Lists[j] = Lists[k] => j = k
    BY <1>2, <1>3 DEF Distinct
  <2>3. QED
    BY <1>7, <1>11, <2>1, <2>2 DEF RecordsOk
<1>13. Layout(d, Len(ilist))
  <2>1. \A j \in 1 .. Len(Lists) : j - 1 \in 0 .. Len(Lists)
    BY <1>5
  <2>2. \A j \in 1 .. Len(Lists) : d.patches[j].start = StartOf(j, n)
    BY <1>7
  <2>3. \A j \in 1 .. Len(Lists) : Pre(d, j - 1) = Earlier(j - 1)
    BY <1>9, <2>1
  <2>4. \A j \in DOMAIN d.patches :
           d.patches[j].start = SizeOf(Pre(d, j - 1)) + (IF j <= Len(ilist) THEN 0 ELSE d.routing.size)
    <3>1. DOMAIN d.patches = 1 .. Len(Lists) /\ d.routing.size = n
      BY <1>7
    <3>2. QED
      BY <1>8, <2>2, <2>3, <3>1
  <2>5. d.routing.start = SizeOf(Pre(d, Len(ilist)))
    BY <1>7, <1>10
  <2>6. QED
    BY <2>4, <2>5 DEF Layout
<1>14. QED
  BY <1>1, <1>2, <1>7, <1>12, <1>13 DEF d

LEMMA LoadTInv ==
    ASSUME TInv, Running, loads < MaxLoads, NEW n \in RSizes \cup PartSizes \cup {0},
           NEW newFree \in 0 .. U16 - 1, LoadWith(n, newFree)
    PROVE  TInv'
<1>1. Apart(ilist, olist)
  BY DEF TInv
<1>2. DriverOk(driver)'
  <2>1. driver' = Driver(n)
    BY DEF LoadWith, Driver
  <2>2. DriverOk(Driver(n))
    BY <1>1, RecordsFit DEF DriverOk
  <2>3. QED
    BY <2>1, <2>2
<1>3. \A w \in Writes(n) : w.word \in Words
  <2>1. ASSUME NEW c, NEW start, NEW k, \A i \in DOMAIN c : c[i] \in Words
        PROVE  WordSent(c, start, k) \in Words
    BY <2>1 DEF WordSent, Words
  <2>2. n \in Nat
    BY SizesAreNat, Zenon
  <2>3. \A i \in DOMAIN RoutingCode(n) : RoutingCode(n)[i] \in Words
    BY <2>2, SizesAreNat DEF RoutingCode, Words
  <2>4. ASSUME NEW r \in ToSet(Records(n)) PROVE \A i \in DOMAIN code[r.patch] : code[r.patch][i] \in Words
    <3>1. PICK j \in DOMAIN Records(n) : r = Records(n)[j]
      BY DEF ToSet
    <3>2. RecordsOk(Driver(n)) /\ Driver(n).patches = Records(n)
      BY <1>1, RecordsFit DEF Driver
    <3>3. Records(n)[j].patch \in Patches
      BY <3>1, <3>2, RecordType
    <3>4. QED
      BY <3>1, <3>3 DEF TInv, CodeTyped
  <2>5. QED
    BY <2>1, <2>3, <2>4 DEF Writes
<1>4. dsp' \in [0 .. CodeSize - 1 -> Words]
  <2>1. \A at : (\E w \in Writes(n) : w.at = at) => (CHOOSE w \in Writes(n) : w.at = at).word \in Words
    BY <1>3
  <2>2. Nop \in Words
    BY DEF Words
  <2>3. \A at \in 0 .. CodeSize - 1 : dsp[at] \in Words
    BY DEF TInv
  <2>4. dsp' = [at \in 0 .. CodeSize - 1 |->
                 IF at \in Cleared(newFree) THEN Nop
                 ELSE IF \E w \in Writes(n) : w.at = at
                        THEN (CHOOSE w \in Writes(n) : w.at = at).word
                        ELSE dsp[at]]
    BY DEF LoadWith
  <2>5. QED
    BY <2>1, <2>2, <2>3, <2>4
<1>5. /\ rsize' \in RSizes \cup PartSizes \cup {0} /\ free' \in 0 .. U16 - 1
      /\ loads' \in -1 .. MaxLoads
  <2>1. rsize' = n /\ free' = newFree /\ loads' = loads + 1
    BY DEF LoadWith
  <2>2. loads \in -1 .. MaxLoads /\ MaxLoads \in Nat
    BY SizesAreNat DEF TInv
  <2>3. loads + 1 \in -1 .. MaxLoads
    BY <2>2
  <2>4. QED
    BY <2>1, <2>3
<1>6. UNCHANGED <<ilist, olist, code, ifree>>
  BY DEF LoadWith
<1>7. Apart(ilist, olist)' /\ CodeTyped' /\ ifree' \in 0 .. U16 - 1
  BY <1>6 DEF TInv, Apart, Distinct, CodeTyped, Words
<1>8. QED
  BY <1>2, <1>4, <1>5, <1>7 DEF TInv, Words

LEMMA NextTInv == ASSUME TInv, [Next]_vars PROVE TInv'
<1>1. CASE Start
  BY <1>1, StartTInv
<1>2. CASE Exit
  <2>1. loads' = -1 /\ UNCHANGED <<ilist, olist, code, rsize, free, ifree, dsp, driver>>
    BY <1>2 DEF Exit
  <2>2. DriverOk(driver)' /\ loads' \in -1 .. MaxLoads
    BY <2>1, DriverKept, SizesAreNat DEF TInv
  <2>3. Apart(ilist, olist)' /\ CodeTyped'
    BY <2>1 DEF TInv, Apart, Distinct, CodeTyped, Words
  <2>4. QED
    BY <2>1, <2>2, <2>3 DEF TInv, Words
<1>3. ASSUME NEW p \in Patches, ReadPatch(p) PROVE TInv'
  BY <1>3, ReadPatchTInv
<1>4. ASSUME NEW p \in Patches, UnloadPatch(p) PROVE TInv'
  BY <1>4, UnloadPatchTInv
<1>5. CASE UnloadAll
  BY <1>5, UnloadAllTInv
<1>6. CASE Load
  <2>1. PICK n \in RSizes : LoadWith(n, Plus(Minus(free, rsize), n))
    BY <1>6 DEF Load
  <2>2. Running /\ loads < MaxLoads
    BY <1>6 DEF Load
  <2>3. n \in Int /\ rsize \in Int
    <3>1. rsize \in RSizes \cup PartSizes \cup {0} /\ n \in RSizes \cup PartSizes \cup {0}
      BY DEF TInv
    <3>2. QED
      BY <3>1, SizesAreNat
  <2>4. Minus(free, rsize) \in Int
    <3>1. Minus(free, rsize) \in 0 .. U16 - 1
      BY <2>3, Counts, CountsAreInts
    <3>2. QED
      BY <3>1, CountIsInt
  <2>5. Plus(Minus(free, rsize), n) \in 0 .. U16 - 1
    BY <2>3, <2>4, Counts
  <2>6. QED
    BY <2>1, <2>2, <2>5, LoadTInv
<1>7. CASE LoadPart
  <2>1. PICK n \in PartSizes : LoadWith(n, Minus(free, rsize))
    BY <1>7 DEF LoadPart
  <2>2. Running /\ loads < MaxLoads
    BY <1>7 DEF LoadPart
  <2>3. rsize \in Int
    BY SizesAreNat DEF TInv
  <2>4. Minus(free, rsize) \in 0 .. U16 - 1
    BY <2>3, Counts, CountsAreInts
  <2>5. QED
    BY <2>1, <2>2, <2>4, LoadTInv
<1>8. CASE UNCHANGED vars
  <2>1. UNCHANGED <<loads, ilist, olist, code, rsize, free, ifree, dsp, driver>>
    BY <1>8 DEF vars
  <2>2. DriverOk(driver)'
    BY <2>1, DriverKept DEF TInv
  <2>3. Apart(ilist, olist)' /\ CodeTyped'
    BY <2>1 DEF TInv, Apart, Distinct, CodeTyped, Words
  <2>4. QED
    BY <2>1, <2>2, <2>3 DEF TInv, Words
<1>9. QED
  BY <1>1, <1>2, <1>3, <1>4, <1>5, <1>6, <1>7, <1>8 DEF Next

LEMMA TInvImplies == ASSUME TInv PROVE TypeOK /\ OneBlock
<1>1. Apart(ilist, olist) /\ Lists \in Seq(Patches) /\ Distinct(Lists)
  BY JoinedDistinct, Joined DEF TInv, Apart, Lists
<1>2. ToSet(Lists) \subseteq Patches /\ Len(Lists) = Cardinality(ToSet(Lists))
  <2>1. ToSet(Lists) \subseteq Patches
    BY <1>1 DEF ToSet
  <2>2. Len(Lists) = Cardinality(ToSet(Lists))
    BY <1>1, DistinctCount
  <2>3. QED
    BY <2>1, <2>2
<1>3. TypeOK
  BY <1>2 DEF TInv, TypeOK
<1>4. PICK m \in 0 .. Len(driver.patches) : RecordsOk(driver) /\ Layout(driver, m)
  BY DEF TInv, DriverOk
<1>5. \A r \in AllRecords : r.start = 0 \/ \E q \in AllRecords : q.start + q.size = r.start
  BY <1>4, RecordsTouch DEF AllRecords
<1>6. \A r \in AllRecords : \A q \in AllRecords \ {r} :
         q.start + q.size <= r.start \/ r.start + r.size <= q.start
  BY <1>4, RecordsApart DEF AllRecords
<1>7. OneBlock
  BY <1>5, <1>6 DEF OneBlock
<1>8. QED
  BY <1>3, <1>7

\* dsp_init(), dsp_read_patch(), dsp_unload_patch(), dsp_unload_all() and dsp_load()
\* keep every type: the counts are u16, a patch is in the lists once, and what the
\* DSP holds are words of the programs.
THEOREM CodeTypes == Spec => []TypeOK
<1>1. Init => TInv
  BY InitTInv
<1>2. TInv /\ [Next]_vars => TInv'
  BY NextTInv
<1>3. TInv => TypeOK
  BY TInvImplies
<1>4. QED
  BY <1>1, <1>2, <1>3, PTL DEF Spec

\* set_code_start() and load_patches() leave one block of records, whatever was
\* read, unloaded and loaded, and though the construction of the routing code fails.
THEOREM RecordsAreOneBlock == Spec => []OneBlock
<1>1. Init => TInv
  BY InitTInv
<1>2. TInv /\ [Next]_vars => TInv'
  BY NextTInv
<1>3. TInv => OneBlock
  BY TInvImplies
<1>4. QED
  BY <1>1, <1>2, <1>3, PTL DEF Spec

-----------------------------------------------------------------------------
(* The count.                                                              *)

\* The patches of the driver's records.
Kept == {driver.patches[j].patch : j \in DOMAIN driver.patches}

\* The count and what keeps it from the end of its u16.
CInv == /\ Running => /\ free = rsize + SizeOf(Loaded)
                      /\ SizeOf(Loaded) <= CodeSize
        /\ SizeOf(Kept) <= CodeSize

LEMMA NoWrap ==
    ASSUME NEW n \in Nat, NEW m \in Nat
    PROVE  /\ n + m < U16 => Plus(n, m) = n + m
           /\ m <= n /\ n < U16 => Minus(n, m) = n - m
<1>1. U16 \in Nat \ {0}
  BY DEF U16
<1>2. \A k \in 0 .. U16 - 1 : k % U16 = k
  BY <1>1
<1>3. n + m < U16 => n + m \in 0 .. U16 - 1
  BY <1>1
<1>4. m <= n /\ n < U16 => n - m \in 0 .. U16 - 1
  BY <1>1
<1>5. QED
  BY <1>2, <1>3, <1>4 DEF Plus, Minus

LEMMA LoadedIs ==
    ASSUME TInv
    PROVE  /\ Loaded = ToSet(ilist) \cup ToSet(olist)
           /\ Loaded \in SUBSET Patches /\ SizeOf(Loaded) \in Nat
<1>1. ilist \in Seq(Patches) /\ olist \in Seq(Patches)
  BY DEF TInv, Apart
<1>2. Loaded = ToSet(ilist) \cup ToSet(olist)
  BY <1>1, Joined DEF Loaded, Lists
<1>3. Loaded \in SUBSET Patches
  BY <1>1, <1>2 DEF ToSet
<1>4. QED
  BY <1>2, <1>3, SizeType

\* The sizes and the counts in terms of the memory.
LEMMA SmallSizes ==
    ASSUME TInv
    PROVE  /\ rsize \in Nat /\ rsize <= CodeSize
           /\ driver.routing.size \in Nat /\ driver.routing.size <= CodeSize
           /\ \A n \in RSizes : n \in Nat /\ n <= CodeSize
           /\ \A p \in Patches : Size[p] \in Nat /\ Size[p] <= CodeSize
           /\ CodeSize \in Nat /\ U16 \in Nat /\ 3 * CodeSize < U16
<1>1. \A n \in RSizes : n \in Nat /\ n <= CodeSize
  BY SizesAreNat, CountAssumption
<1>2. \A p \in Patches : Size[p] \in Nat /\ Size[p] <= CodeSize
  BY SizesAreNat, CountAssumption
<1>3. CodeSize \in Nat /\ U16 \in Nat /\ 3 * CodeSize < U16
  <2>1. U16 \in Nat
    BY DEF U16
  <2>2. QED
    BY <2>1, SizesAreNat, CountAssumption
<1>4. \A n \in RSizes \cup PartSizes \cup {0} : n \in Nat /\ n <= CodeSize
  BY <1>1, <1>3, CountAssumption
<1>5. rsize \in RSizes \cup PartSizes \cup {0} /\ driver.routing.size \in RSizes \cup PartSizes \cup {0}
  BY DEF TInv, DriverOk, RecordsOk
<1>6. QED
  BY <1>1, <1>2, <1>3, <1>4, <1>5, Zenon

LEMMA InitCInv == Init => CInv
<1>1. SUFFICES ASSUME Init PROVE CInv
  OBVIOUS
<1>2. ~Running
  BY <1>1 DEF Init, Running
<1>3. Kept = {}
  BY <1>1 DEF Init, Kept
<1>4. QED
  BY <1>2, <1>3, SizeEmpty, SizesAreNat DEF CInv

LEMMA StartLoaded ==
    ASSUME TInv, Start
    PROVE  Loaded' = Kept /\ Kept \in SUBSET Patches /\ SizeOf(Kept) \in Nat
<1>1. DriverOk(driver)
  BY DEF TInv
<1>2. ToSet(ReadBack(TRUE) \o ReadBack(FALSE)) = Kept
  BY <1>1, ReadBackApart DEF Kept
<1>3. Loaded' = Kept
  BY <1>2 DEF Start, Loaded, Lists
<1>4. Kept \in SUBSET Patches
  BY <1>1, RecordType DEF Kept, DriverOk
<1>5. QED
  BY <1>3, <1>4, SizeType

LEMMA StartCInv == ASSUME TInv, CInv, Start PROVE CInv'
<1>1. Loaded' = Kept /\ Kept' = Kept /\ SizeOf(Kept) \in Nat
  BY StartLoaded DEF Start, Kept
<1>2. rsize' = driver.routing.size /\ free' = Plus(driver.routing.size, SizeOf(Loaded'))
  BY DEF Start, Loaded, Lists
<1>3. free' = driver.routing.size + SizeOf(Kept)
  <2>1. driver.routing.size + SizeOf(Kept) < U16
    BY <1>1, SmallSizes DEF CInv
  <2>2. QED
    BY <1>1, <1>2, <2>1, SmallSizes, NoWrap
<1>4. SizeOf(Kept) <= CodeSize
  BY DEF CInv
<1>5. QED
  BY <1>1, <1>2, <1>3, <1>4 DEF CInv

\* The patches after a patch is read.
LEMMA ReadLoaded ==
    ASSUME TInv, NEW p \in Patches, ReadPatch(p)
    PROVE  Loaded' = Loaded \cup {p} /\ p \notin Loaded
<1>1. /\ ilist \in Seq(Patches) /\ Distinct(ilist) /\ olist \in Seq(Patches) /\ Distinct(olist)
  BY DEF TInv, Apart
<1>2. p \notin Loaded /\ Loaded = ToSet(ilist) \cup ToSet(olist)
  BY LoadedIs DEF ReadPatch
<1>0. p \notin ToSet(ilist) /\ p \notin ToSet(olist)
  BY <1>2
<1>3. CASE ilist' \in {<<p>> \o ilist, ilist \o <<p>>} /\ olist' = olist
  <2>1. ilist' \in Seq(Patches) /\ ToSet(ilist') = ToSet(ilist) \cup {p}
    <3>1. ASSUME NEW t \in {<<p>> \o ilist, ilist \o <<p>>}
          PROVE  t \in Seq(Patches) /\ ToSet(t) = ToSet(ilist) \cup {p}
      <4>1. ilist \in Seq(Patches) /\ Distinct(ilist) /\ p \in Patches /\ p \notin ToSet(ilist)
        BY <1>0, <1>1
      <4>2. QED
        BY <4>1, PutIn
    <3>2. QED
      BY <1>3, <3>1
  <2>2. ToSet(ilist' \o olist') = ToSet(ilist') \cup ToSet(olist')
    BY <1>1, <1>3, <2>1, Joined
  <2>3. QED
    BY <1>2, <1>3, <2>1, <2>2 DEF Loaded, Lists
<1>4. CASE olist' \in {<<p>> \o olist, olist \o <<p>>} /\ ilist' = ilist
  <2>1. olist' \in Seq(Patches) /\ ToSet(olist') = ToSet(olist) \cup {p}
    <3>1. ASSUME NEW t \in {<<p>> \o olist, olist \o <<p>>}
          PROVE  t \in Seq(Patches) /\ ToSet(t) = ToSet(olist) \cup {p}
      <4>1. olist \in Seq(Patches) /\ Distinct(olist) /\ p \in Patches /\ p \notin ToSet(olist)
        BY <1>0, <1>1
      <4>2. QED
        BY <4>1, PutIn
    <3>2. QED
      BY <1>4, <3>1
  <2>2. ToSet(ilist' \o olist') = ToSet(ilist') \cup ToSet(olist')
    BY <1>1, <1>4, <2>1, Joined
  <2>3. QED
    BY <1>2, <1>4, <2>1, <2>2 DEF Loaded, Lists
<1>5. QED
  BY <1>3, <1>4 DEF ReadPatch

LEMMA ReadPatchCInv == ASSUME TInv, CInv, NEW p \in Patches, ReadPatch(p) PROVE CInv'
<1>1. Running /\ Loaded \in SUBSET Patches /\ SizeOf(Loaded) \in Nat
  BY LoadedIs DEF ReadPatch, Editing, Running
<1>2. SizeOf(Loaded') = SizeOf(Loaded) + Size[p]
  BY <1>1, ReadLoaded, SizeAdd
<1>3. free = rsize + SizeOf(Loaded) /\ SizeOf(Loaded) <= CodeSize /\ SizeOf(Kept) <= CodeSize
  BY <1>1 DEF CInv
<1>4. free' = free + Size[p] /\ free' <= CodeSize
  <2>1. free \in Nat /\ free + Size[p] < U16
    BY <1>1, <1>3, SmallSizes
  <2>2. Plus(free, Size[p]) = free + Size[p]
    BY <2>1, SmallSizes, NoWrap
  <2>3. QED
    BY <2>2 DEF ReadPatch
<1>5. rsize' = rsize /\ Kept' = Kept
  BY DEF ReadPatch, Kept
<1>6. free' = rsize' + SizeOf(Loaded') /\ SizeOf(Loaded') <= CodeSize
  BY <1>1, <1>2, <1>3, <1>4, <1>5, SmallSizes
<1>7. QED
  BY <1>3, <1>5, <1>6 DEF CInv

LEMMA UnloadPatchCInv == ASSUME TInv, CInv, NEW p \in Patches, UnloadPatch(p) PROVE CInv'
<1>1. Running /\ Loaded \in SUBSET Patches /\ SizeOf(Loaded) \in Nat
  BY LoadedIs DEF UnloadPatch, Editing, Running
<1>2. p \in Loaded /\ Loaded' = Loaded \ {p}
  BY UnloadLists DEF TInv, Loaded, Lists
<1>3. SizeOf(Loaded') = SizeOf(Loaded) - Size[p] /\ SizeOf(Loaded') \in Nat
  BY <1>1, <1>2, SizeDrop, SizeType
<1>4. free = rsize + SizeOf(Loaded) /\ SizeOf(Loaded) <= CodeSize /\ SizeOf(Kept) <= CodeSize
  BY <1>1 DEF CInv
<1>5. free' = free - Size[p]
  <2>1. free \in Nat /\ Size[p] <= free /\ free < U16
    BY <1>1, <1>3, <1>4, SmallSizes
  <2>2. Minus(free, Size[p]) = free - Size[p]
    BY <2>1, SmallSizes, NoWrap
  <2>3. QED
    BY <2>2 DEF UnloadPatch, Left
<1>6. rsize' = rsize /\ Kept' = Kept
  BY DEF UnloadPatch, Kept
<1>7. free' = rsize' + SizeOf(Loaded') /\ SizeOf(Loaded') <= CodeSize
  BY <1>1, <1>3, <1>4, <1>5, <1>6, SmallSizes
<1>8. QED
  BY <1>4, <1>6, <1>7 DEF CInv

LEMMA LoadKept ==
    ASSUME TInv, NEW n \in RSizes \cup PartSizes \cup {0}, NEW newFree, LoadWith(n, newFree)
    PROVE  driver' = Driver(n) /\ Kept' = Loaded /\ Loaded' = Loaded
<1>1. driver' = Driver(n)
  BY DEF LoadWith, Driver
<1>2. Apart(ilist, olist) /\ Lists \in Seq(Patches)
  BY Joined DEF TInv, Apart, Lists
<1>3. /\ RecordsOk(Driver(n)) /\ Len(Driver(n).patches) = Len(Lists)
      /\ \A j \in DOMAIN Lists : Driver(n).patches[j].patch = Lists[j]
  BY <1>2, RecordsFit
<1>4. DOMAIN Driver(n).patches = DOMAIN Lists
  BY <1>2, <1>3, RecordType
<1>5. {Driver(n).patches[j].patch : j \in DOMAIN Driver(n).patches} = Loaded
  BY <1>3, <1>4 DEF Loaded, ToSet
<1>6. Loaded' = Loaded
  BY DEF LoadWith, Loaded, Lists
<1>7. QED
  BY <1>1, <1>5, <1>6 DEF Kept

LEMMA LoadCInv ==
    ASSUME TInv, CInv, NEW n \in RSizes, Running, LoadWith(n, Plus(Minus(free, rsize), n))
    PROVE  CInv' /\ free' = n + SizeOf(Loaded) /\ rsize' = n
<1>1. /\ SizeOf(Loaded) \in Nat /\ free = rsize + SizeOf(Loaded)
      /\ SizeOf(Loaded) <= CodeSize
  BY LoadedIs DEF CInv
<1>2. Minus(free, rsize) = SizeOf(Loaded)
  <2>1. free \in Nat /\ rsize <= free /\ free < U16 /\ free - rsize = SizeOf(Loaded)
    BY <1>1, SmallSizes
  <2>2. QED
    BY <2>1, SmallSizes, NoWrap
<1>3. Plus(SizeOf(Loaded), n) = n + SizeOf(Loaded)
  <2>1. SizeOf(Loaded) + n < U16 /\ n \in Nat
    BY <1>1, SmallSizes
  <2>2. Plus(SizeOf(Loaded), n) = SizeOf(Loaded) + n
    BY <1>1, <2>1, NoWrap
  <2>3. QED
    BY <1>1, <2>1, <2>2
<1>4. rsize' = n /\ free' = n + SizeOf(Loaded)
  BY <1>2, <1>3 DEF LoadWith
<1>5. Kept' = Loaded /\ Loaded' = Loaded
  BY LoadKept
<1>6. QED
  BY <1>1, <1>4, <1>5 DEF CInv

LEMMA NextCInv == ASSUME TInv, CInv, [Next]_vars PROVE CInv'
<1>1. CASE Start
  BY <1>1, StartCInv
<1>2. CASE Exit
  <2>1. ~Running' /\ Kept' = Kept
    BY <1>2 DEF Exit, Running, Kept
  <2>2. QED
    BY <2>1 DEF CInv
<1>3. ASSUME NEW p \in Patches, ReadPatch(p) PROVE CInv'
  BY <1>3, ReadPatchCInv
<1>4. ASSUME NEW p \in Patches, UnloadPatch(p) PROVE CInv'
  BY <1>4, UnloadPatchCInv
<1>5. CASE UnloadAll
  <2>1. rsize' = 0 /\ free' = 0 /\ Loaded' = {} /\ Kept' = Kept
    BY <1>5 DEF UnloadAll, Loaded, Lists, Kept, ToSet
  <2>2. SizeOf(Loaded') = 0
    BY <2>1, SizeEmpty
  <2>3. SizeOf(Kept) <= CodeSize
    BY DEF CInv
  <2>4. QED
    BY <2>1, <2>2, <2>3, SizesAreNat DEF CInv
<1>6. CASE Load
  BY <1>6, LoadCInv DEF Load
<1>7. CASE LoadPart
  BY <1>7, CountAssumption DEF LoadPart
<1>8. CASE UNCHANGED vars
  <2>1. /\ Running' = Running /\ free' = free /\ rsize' = rsize
        /\ Loaded' = Loaded /\ Kept' = Kept
    BY <1>8 DEF vars, Running, Loaded, Lists, Kept
  <2>2. QED
    BY <2>1 DEF CInv
<1>9. QED
  BY <1>1, <1>2, <1>3, <1>4, <1>5, <1>6, <1>7, <1>8 DEF Next

\* code_free_start is the size of the routing patch and of the patches in the lists,
\* after any reading, unloading and loading, for whoever adds to it or takes from it:
\* dsp_init(), dsp_read_patch(), dsp_unload_patch(), dsp_unload_all(), dsp_load().
THEOREM TheCountIsRight == Spec => []CodeCounted
<1>1. Init => TInv /\ CInv
  BY InitTInv, InitCInv
<1>2. TInv /\ CInv /\ [Next]_vars => (TInv /\ CInv)'
  BY NextTInv, NextCInv
<1>3. CInv => CodeCounted
  BY DEF CInv, CodeCounted
<1>4. QED
  BY <1>1, <1>2, <1>3, PTL DEF Spec

-----------------------------------------------------------------------------
(* The code.                                                               *)

\* The words of a record are in the memory.
Holds(d, mem) ==
    \A j \in DOMAIN d.patches : \A k \in 0 .. d.patches[j].size - 1 :
        mem[d.patches[j].start + k] = <<d.patches[j].patch, k>>

\* The block of the driver ends in the memory.
Fits(d) == \A j \in DOMAIN d.patches : d.patches[j].start + d.patches[j].size <= CodeSize

WInv == CodeIntact /\ Holds(driver, dsp) /\ Fits(driver)

LEMMA InitWInv == Init => WInv
<1>1. SUFFICES ASSUME Init PROVE WInv
  OBVIOUS
<1>2. ~Running /\ driver.patches = <<>>
  BY <1>1 DEF Init, Running
<1>3. QED
  BY <1>2 DEF WInv, CodeIntact, Holds, Fits

\* dsp_init() gets the words that are in the memory.
LEMMA StartWInv == ASSUME TInv, WInv, Start PROVE WInv'
<1>1. RecordsOk(driver) /\ DOMAIN driver.patches = 1 .. Len(driver.patches)
  BY RecordType DEF TInv, DriverOk
<1>2. ASSUME NEW j \in DOMAIN driver.patches
      PROVE  LET p == driver.patches[j].patch IN code'[p] = Own(p)
  <2> DEFINE r == driver.patches[j]
             p == r.patch
  <2>1. p \in Patches /\ r.start \in Nat /\ r.size = Size[p] /\ Size[p] \in Nat \ {0}
    BY <1>1, RecordType DEF RecordsOk
  <2>2. r \in ToSet(driver.patches)
    BY DEF ToSet
  <2>3. \A q \in ToSet(driver.patches) : q.patch = p => q = r
    BY <1>1 DEF ToSet, RecordsOk
  <2>4. RecordOf(p) = r
    BY <2>2, <2>3 DEF RecordOf
  <2>5. code'[p] = CodeRead(r)
    BY <2>1, <2>2, <2>4 DEF Start
  <2>6. ASSUME NEW k \in 0 .. r.size - 1 PROVE CodeRead(r)[k] = <<p, k>>
    <3>1. k < Chunk
      BY <2>1, SizesAreNat, ChunkAssumption
    <3>2. r.start + k < CodeSize
      BY <2>1, SizesAreNat DEF WInv, Fits
    <3>3. CodeRead(r)[k] = dsp[r.start + k]
      BY <3>1, <3>2 DEF CodeRead
    <3>4. dsp[r.start + k] = <<p, k>>
      BY DEF WInv, Holds
    <3>5. QED
      BY <3>3, <3>4
  <2>7. CodeRead(r) = [k \in 0 .. r.size - 1 |-> CodeRead(r)[k]]
    BY DEF CodeRead
  <2>8. Own(p) = [k \in 0 .. r.size - 1 |-> <<p, k>>]
    BY <2>1 DEF Own
  <2> HIDE DEF r, p
  <2>9. code'[p] = Own(p)
    BY <2>5, <2>6, <2>7, <2>8
  <2>10. QED
    BY <2>9 DEF p, r
<1>3. Loaded' = Kept
  BY StartLoaded
<1>4. CodeIntact'
  <2>1. \A p \in Kept : code'[p] = Own(p)
    BY <1>2 DEF Kept
  <2>2. QED
    BY <1>3, <2>1 DEF CodeIntact, Own
<1>5. driver' = driver /\ dsp' = dsp
  BY DEF Start
<1>6. QED
  BY <1>4, <1>5 DEF WInv, Holds, Fits

\* What the lists and the routing patch take ends in the memory.
LEMMA BlockFits ==
    ASSUME Apart(ilist, olist), NEW n \in RSizes \cup {0}
    PROVE  \A j \in DOMAIN Driver(n).patches :
              /\ Driver(n).patches[j].start + Driver(n).patches[j].size <= n + SizeOf(Loaded)
              /\ Driver(n).patches[j].start + Driver(n).patches[j].size <= CodeSize
<1> DEFINE d == Driver(n)
           m == Len(ilist)
<1>1. RecordsOk(d) /\ Layout(d, m) /\ Len(d.patches) = Len(Lists) /\ m \in 0 .. Len(Lists)
      /\ \A j \in DOMAIN Lists : d.patches[j].patch = Lists[j]
  BY RecordsFit
<1>2. Lists \in Seq(Patches) /\ Loaded \in SUBSET Patches /\ DOMAIN Lists = 1 .. Len(Lists)
  <2>1. Lists \in Seq(Patches)
    BY Joined DEF Apart, Lists
  <2>2. QED
    BY <2>1 DEF Loaded, ToSet
<1>3. n \in Nat /\ d.routing.size = n
  <2>1. n \in Nat
    BY SizesAreNat
  <2>2. QED
    BY <2>1 DEF Driver
<1> HIDE DEF d, m
<1>4. ASSUME NEW j \in DOMAIN d.patches
      PROVE  d.patches[j].start + d.patches[j].size <= n + SizeOf(Loaded)
  <2>1. j \in 1 .. Len(Lists)
    BY <1>1, RecordType
  <2>2. /\ SizeOf(Pre(d, j)) = SizeOf(Pre(d, j - 1)) + d.patches[j].size
        /\ SizeOf(Pre(d, j - 1)) \in Nat /\ d.patches[j].size \in Nat
    BY <1>1, PreStep, RecordType
  <2>3. d.patches[j].start = SizeOf(Pre(d, j - 1)) + (IF j <= m THEN 0 ELSE n)
    BY <1>1, <1>3 DEF Layout
  <2>4. Pre(d, j) \in SUBSET Loaded
    <3>1. \A i \in 1 .. j : i \in DOMAIN Lists
      BY <1>2, <2>1
    <3>2. \A i \in DOMAIN Lists : Lists[i] \in Loaded
      BY DEF Loaded, ToSet
    <3>3. QED
      BY <1>1, <3>1, <3>2 DEF Pre
  <2>5. SizeOf(Pre(d, j)) <= SizeOf(Loaded) /\ SizeOf(Loaded) \in Nat
    BY <1>2, <2>4, SizePart, SizeType
  <2>6. QED
    BY <1>3, <2>2, <2>3, <2>5
<1>5. n + SizeOf(Loaded) <= CodeSize
  <2>1. SizeOf(Loaded) <= SizeOf(Patches) /\ SizeOf(Loaded) \in Nat /\ SizeOf(Patches) \in Nat
    BY <1>2, SizePart, SizeType
  <2>2. SizeOf(Patches) + n <= CodeSize
    BY RoomAssumption
  <2>3. QED
    BY <1>3, <2>1, <2>2, SizesAreNat
<1>6. \A j \in DOMAIN d.patches : d.patches[j].start \in Nat /\ d.patches[j].size \in Nat
  BY <1>1, RecordType
<1>7. SizeOf(Loaded) \in Nat
  BY <1>2, SizeType
<1>8. \A j \in DOMAIN d.patches :
         /\ d.patches[j].start + d.patches[j].size <= n + SizeOf(Loaded)
         /\ d.patches[j].start + d.patches[j].size <= CodeSize
  BY <1>3, <1>4, <1>5, <1>6, <1>7, SizesAreNat
<1>9. QED
  BY <1>8 DEF d

\* Every word that load_patch_code() writes to a place of a record is the patch's.
LEMMA WordsWritten ==
    ASSUME TInv, CodeIntact, Running, NEW n \in RSizes,
           NEW j \in DOMAIN Records(n), NEW k \in 0 .. Records(n)[j].size - 1
    PROVE  LET r == Records(n)[j]
           IN /\ \E w \in Writes(n) : w.at = r.start + k
              /\ \A w \in Writes(n) : w.at = r.start + k => w.word = <<r.patch, k>>
<1> DEFINE d == Driver(n)
           m == Len(ilist)
           r == Records(n)[j]
<1>1. /\ RecordsOk(d) /\ Layout(d, m) /\ m \in 0 .. Len(d.patches)
      /\ d.patches = Records(n) /\ d.routing.start = RoutingStart /\ d.routing.size = n
  <2>1. /\ RecordsOk(d) /\ Layout(d, m) /\ Len(d.patches) = Len(Lists) /\ m \in 0 .. Len(Lists)
    BY RecordsFit DEF TInv
  <2>2. QED
    BY <2>1 DEF Driver
<1>2. \A i \in DOMAIN Records(n) : /\ Records(n)[i].patch \in Loaded
                                   /\ Records(n)[i].patch \in Patches
                                   /\ Records(n)[i].start \in Nat
                                   /\ Records(n)[i].size \in Nat
                                   /\ Records(n)[i].size = Size[Records(n)[i].patch]
  <2>1. \A i \in DOMAIN Records(n) : Records(n)[i].patch \in Loaded
    <3>1. Lists \in Seq(Patches)
      BY Joined DEF TInv, Apart, Lists
    <3>2. DOMAIN Records(n) = DOMAIN Lists /\ \A i \in DOMAIN Records(n) : Records(n)[i].patch = Lists[i]
      BY <3>1 DEF Records
    <3>3. QED
      BY <3>2 DEF Loaded, ToSet
  <2>2. QED
    BY <1>1, <2>1, RecordType DEF RecordsOk
<1>3. n \in Nat /\ n <= Chunk /\ n <= CodeSize
  BY SmallSizes, ChunkAssumption
<1>4. /\ RoutingStart \in Nat
      /\ \A i \in DOMAIN Records(n) :
            \/ Records(n)[i].start + Records(n)[i].size <= RoutingStart
            \/ RoutingStart + n <= Records(n)[i].start
      /\ \A i, l \in DOMAIN Records(n) :
            i < l => Records(n)[i].start + Records(n)[i].size <= Records(n)[l].start
  BY <1>1, RecordOrder
\* What one record writes.
<1>5. ASSUME NEW i \in DOMAIN Records(n), NEW l \in 0 .. Records(n)[i].size - 1
      PROVE  LET q == Records(n)[i]
             IN WordSent(code[q.patch], q.start, l) = <<q.patch, l>>
  <2> DEFINE p == Records(n)[i].patch
  <2>1. code[p] = Own(p) /\ Records(n)[i].size = Size[p] /\ p \in Patches
    BY <1>2 DEF CodeIntact
  <2>2. l \in 0 .. Size[p] - 1 /\ l < Chunk
    <3>1. l \in 0 .. Size[p] - 1
      BY <2>1
    <3>2. Size[p] <= Chunk /\ Size[p] \in Nat /\ Chunk \in Nat
      BY <2>1, ChunkAssumption, SizesAreNat
    <3>3. QED
      BY <3>1, <3>2
  <2>3. Own(p)[l] = <<p, l>> /\ l \in DOMAIN Own(p)
    BY <2>2 DEF Own
  <2> HIDE DEF p
  <2>4. WordSent(code[p], Records(n)[i].start, l) = <<p, l>>
    BY <2>1, <2>2, <2>3 DEF WordSent
  <2>5. QED
    BY <2>4 DEF p
<1>6. [at |-> r.start + k, word |-> WordSent(code[r.patch], r.start, k)] \in Writes(n)
  BY DEF Writes, ToSet
<1>7. ASSUME NEW w \in Writes(n), w.at = r.start + k
      PROVE  w.word = <<r.patch, k>>
  <2>1. CASE w \in {[at |-> RoutingStart + l, word |-> WordSent(RoutingCode(n), RoutingStart, l)] :
                       l \in 0 .. n - 1}
    <3>1. PICK l \in 0 .. n - 1 : w.at = RoutingStart + l
      BY <2>1
    <3>2. QED
      BY <1>2, <1>3, <1>4, <1>7, <3>1
  <2>2. CASE w \notin {[at |-> RoutingStart + l, word |-> WordSent(RoutingCode(n), RoutingStart, l)] :
                       l \in 0 .. n - 1}
    <3>1. PICK q \in ToSet(Records(n)) : \E l \in 0 .. q.size - 1 :
             w = [at |-> q.start + l, word |-> WordSent(code[q.patch], q.start, l)]
      BY <2>2 DEF Writes
    <3>2. PICK l \in 0 .. q.size - 1 :
             w.at = q.start + l /\ w.word = WordSent(code[q.patch], q.start, l)
      BY <3>1
    <3>3. PICK i \in DOMAIN Records(n) : q = Records(n)[i]
      BY DEF ToSet
    <3>4. i = j
      <4>1. i \in Int /\ j \in Int
        BY <1>1, RecordType
      <4>2. ~(i < j) /\ ~(j < i)
        BY <1>2, <1>4, <1>7, <3>2, <3>3
      <4>3. QED
        BY <4>1, <4>2
    <3>5. l = k
      BY <1>2, <1>7, <3>2, <3>3, <3>4
    <3>6. QED
      BY <1>5, <3>2, <3>3, <3>4, <3>5
  <2>3. QED
    BY <2>1, <2>2
<1>8. QED
  BY <1>6, <1>7

LEMMA LoadWInv ==
    ASSUME TInv, CInv, WInv, Running, NEW n \in RSizes, LoadWith(n, Plus(Minus(free, rsize), n))
    PROVE  WInv'
<1> DEFINE newFree == Plus(Minus(free, rsize), n)
<1>1. driver' = Driver(n) /\ Loaded' = Loaded
  BY LoadKept
<1>2. newFree = n + SizeOf(Loaded) /\ n \in Nat /\ SizeOf(Loaded) \in Nat
  <2>1. free' = n + SizeOf(Loaded)
    BY LoadCInv
  <2>2. free' = newFree
    BY DEF LoadWith
  <2>3. QED
    BY <2>1, <2>2, SmallSizes, LoadedIs
<1>3. Driver(n).patches = Records(n)
  BY DEF Driver
<1>4. Apart(ilist, olist) /\ RecordsOk(Driver(n))
  BY RecordsFit DEF TInv
<1>5. Fits(Driver(n))
  BY <1>4, BlockFits DEF Fits
<1> HIDE DEF newFree
<1>6. ASSUME NEW j \in DOMAIN Records(n), NEW k \in 0 .. Records(n)[j].size - 1
      PROVE  dsp'[Records(n)[j].start + k] = <<Records(n)[j].patch, k>>
  <2> DEFINE r == Records(n)[j]
             at == r.start + k
  <2>1. r.start \in Nat /\ r.size \in Nat
    BY <1>3, <1>4, RecordType
  <2>2. r.start + r.size <= newFree /\ r.start + r.size <= CodeSize
    BY <1>2, <1>3, <1>4, BlockFits
  <2>3. /\ \E w \in Writes(n) : w.at = at
        /\ \A w \in Writes(n) : w.at = at => w.word = <<r.patch, k>>
    BY WordsWritten DEF WInv
  <2>4. k \in 0 .. r.size - 1
    OBVIOUS
  <2> HIDE DEF r
  <2>5. at \in 0 .. CodeSize - 1 /\ ~(newFree <= at)
    BY <1>2, <2>1, <2>2, <2>4, SizesAreNat
  <2> HIDE DEF at
  <2>6. dsp' = [a \in 0 .. CodeSize - 1 |->
                 IF a \in Cleared(newFree) THEN Nop
                 ELSE IF \E w \in Writes(n) : w.at = a
                        THEN (CHOOSE w \in Writes(n) : w.at = a).word
                        ELSE dsp[a]]
    BY DEF LoadWith, newFree
  <2>7. at \notin Cleared(newFree)
    BY <2>5 DEF Cleared
  <2>8. dsp'[at] = (CHOOSE w \in Writes(n) : w.at = at).word
    BY <2>3, <2>5, <2>6, <2>7
  <2>9. dsp'[at] = <<r.patch, k>>
    BY <2>3, <2>8
  <2>10. QED
    BY <2>9 DEF at, r
<1>7. Holds(driver, dsp)'
  <2>1. Holds(Driver(n), dsp')
    BY <1>3, <1>6 DEF Holds
  <2>2. QED
    BY <1>1, <2>1
<1>8. CodeIntact'
  <2>1. code' = code
    BY DEF LoadWith
  <2>2. QED
    BY <1>1, <2>1 DEF WInv, CodeIntact, Own
<1>9. Fits(driver)'
  BY <1>1, <1>5
<1>10. QED
  BY <1>7, <1>8, <1>9 DEF WInv

LEMMA NextWInv == ASSUME TInv, CInv, WInv, [Next]_vars PROVE WInv'
<1>1. ASSUME UNCHANGED <<driver, dsp>>, CodeIntact' PROVE WInv'
  BY <1>1 DEF WInv, Holds, Fits
<1>2. CASE Start
  BY <1>2, StartWInv
<1>3. CASE Exit
  <2>1. UNCHANGED <<driver, dsp>> /\ ~Running'
    BY <1>3 DEF Exit, Running
  <2>2. QED
    BY <1>1, <2>1 DEF CodeIntact
<1>4. ASSUME NEW p \in Patches, ReadPatch(p) PROVE WInv'
  <2>1. Loaded' = Loaded \cup {p} /\ code' = [code EXCEPT ![p] = Own(p)] /\ Running
        /\ UNCHANGED <<driver, dsp>> /\ DOMAIN code = Patches
    <3>1. Loaded' = Loaded \cup {p}
      BY <1>4, ReadLoaded
    <3>2. code' = [code EXCEPT ![p] = Own(p)] /\ UNCHANGED <<driver, dsp>>
      BY <1>4 DEF ReadPatch
    <3>3. Running /\ DOMAIN code = Patches
      BY <1>4 DEF ReadPatch, Editing, Running, TInv, CodeTyped
    <3>4. QED
      BY <3>1, <3>2, <3>3
  <2>2. \A q \in Loaded : code[q] = Own(q)
    BY <2>1 DEF WInv, CodeIntact
  <2>3. \A q \in Loaded' : code'[q] = Own(q)
    BY <2>1, <2>2, LoadedIs
  <2>4. QED
    BY <1>1, <2>1, <2>3 DEF CodeIntact, Own
<1>5. ASSUME NEW p \in Patches, UnloadPatch(p) PROVE WInv'
  <2>1. Loaded' = Loaded \ {p}
    BY <1>5, UnloadLists DEF TInv, Loaded, Lists
  <2>2. code' = code /\ UNCHANGED <<driver, dsp>> /\ Running
    BY <1>5 DEF UnloadPatch, Editing, Running
  <2>3. QED
    BY <1>1, <2>1, <2>2 DEF WInv, CodeIntact, Own
<1>6. CASE UnloadAll
  <2>1. Loaded' = {} /\ UNCHANGED <<driver, dsp>>
    BY <1>6 DEF UnloadAll, Loaded, Lists, ToSet
  <2>2. QED
    BY <1>1, <2>1 DEF CodeIntact
<1>7. CASE Load
  BY <1>7, LoadWInv DEF Load
<1>8. CASE LoadPart
  BY <1>8, CountAssumption DEF LoadPart
<1>9. CASE UNCHANGED vars
  <2>1. Running' = Running /\ Loaded' = Loaded /\ code' = code /\ UNCHANGED <<driver, dsp>>
    BY <1>9 DEF vars, Running, Loaded, Lists
  <2>2. QED
    BY <1>1, <2>1 DEF WInv, CodeIntact, Own
<1>10. QED
  BY <1>2, <1>3, <1>4, <1>5, <1>6, <1>7, <1>8, <1>9 DEF Next

\* dsp_init() of one process finds the code that dsp_load() of another has written,
\* wherever the block has moved: get_patch_code() undoes load_patch_code().
THEOREM CodeComesBack == Spec => []CodeIntact
<1>1. Init => TInv /\ CInv /\ WInv
  BY InitTInv, InitCInv, InitWInv
<1>2. TInv /\ CInv /\ WInv /\ [Next]_vars => (TInv /\ CInv /\ WInv)'
  BY NextTInv, NextCInv, NextWInv
<1>3. WInv => CodeIntact
  BY DEF WInv
<1>4. QED
  BY <1>1, <1>2, <1>3, PTL DEF Spec


-----------------------------------------------------------------------------
(* What DspImage makes of a list.                                          *)

IsFlat(seqs, g) == g = [i \in 1 .. Len(seqs) |-> IF i = 1 THEN seqs[i] ELSE g[i - 1] \o seqs[i]]

\* The recursion of FlattenSeq has a value.
LEMMA FlatExists == ASSUME NEW seqs, Len(seqs) \in Nat PROVE \E g : IsFlat(seqs, g)
<1> DEFINE Part(n, g) == g = [i \in 1 .. n |-> IF i = 1 THEN seqs[i] ELSE g[i - 1] \o seqs[i]]
           B == {n \in Nat : ~ \E g : Part(n, g)}
<1>1. B = {}
  <2>1. SUFFICES ASSUME B # {} PROVE FALSE
    OBVIOUS
  <2>2. PICK n \in B : \A k \in B : n <= k
    <3>1. B \in SUBSET Nat
      OBVIOUS
    <3> HIDE DEF B
    <3>2. QED
      BY <2>1, <3>1, LeastNat
  <2>3. n # 0
    <3>1. Part(0, [i \in 1 .. 0 |-> 0])
      OBVIOUS
    <3>2. QED
      BY <3>1
  <2>4. n - 1 \in Nat /\ n - 1 \notin B
    <3>1. n \in Nat
      OBVIOUS
    <3> HIDE DEF B
    <3>2. QED
      BY <2>2, <2>3, <3>1
  <2>5. PICK h : Part(n - 1, h)
    BY <2>4
  <2> DEFINE At(i, f) == IF i = 1 THEN seqs[i] ELSE f[i - 1] \o seqs[i]
             g == [i \in 1 .. n |-> IF i = n THEN At(n, h) ELSE h[i]]
  <2>6. \A i \in 1 .. n - 1 : h[i] = At(i, h)
    BY <2>5
  <2>7. ASSUME NEW i \in 1 .. n PROVE g[i] = At(i, g)
    <3>1. i # 1 => i - 1 \in 1 .. n /\ i - 1 # n
      BY <2>3
    <3>2. i # 1 => g[i - 1] = h[i - 1]
      BY <3>1
    <3>3. At(i, g) = At(i, h)
      BY <3>2
    <3>4. CASE i = n
      BY <3>3, <3>4
    <3>5. CASE i # n
      <4>1. i \in 1 .. n - 1
        BY <3>5, <2>3
      <4>2. g[i] = h[i]
        BY <3>5
      <4>3. QED
        BY <2>6, <3>3, <4>1, <4>2
    <3>6. QED
      BY <3>4, <3>5
  <2>8. g = [i \in 1 .. n |-> At(i, g)]
    <3>1. DOMAIN g = 1 .. n /\ g = [i \in 1 .. n |-> g[i]]
      OBVIOUS
    <3> HIDE DEF g, At
    <3>2. QED
      BY <2>7, <3>1
  <2>9. Part(n, g)
    <3> HIDE DEF g
    <3>1. QED
      BY <2>8
  <2>10. QED
    BY <2>2, <2>9
<1>2. \E g : Part(Len(seqs), g)
  BY <1>1
<1>3. QED
  BY <1>2 DEF IsFlat

LEMMA FlattenIs ==
    ASSUME NEW seqs, Len(seqs) \in Nat \ {0}
    PROVE  \E g : IsFlat(seqs, g) /\ Image!FlattenSeq(seqs) = g[Len(seqs)]
<1> DEFINE h == CHOOSE g : IsFlat(seqs, g)
<1>1. Image!FlattenSeq(seqs) = h[Len(seqs)]
  BY DEF Image!FlattenSeq, IsFlat
<1>2. IsFlat(seqs, h)
  BY FlatExists
<1>3. QED
  BY <1>1, <1>2

\* The first words of a list of patches, by the number of patches they are of.
Before(s, j) == SizeOf({s[i] : i \in 1 .. j})

LEMMA BeforeStep ==
    ASSUME NEW s \in Seq(Patches), Distinct(s), NEW j \in 1 .. Len(s)
    PROVE  /\ Before(s, j) = Before(s, j - 1) + Size[s[j]]
           /\ Before(s, j) \in Nat /\ Before(s, j - 1) \in Nat
<1>1. Len(s) \in Nat /\ DOMAIN s = 1 .. Len(s) /\ \A i \in 1 .. Len(s) : s[i] \in Patches
  OBVIOUS
<1> DEFINE T == {s[i] : i \in 1 .. j - 1}
<1>2. {s[i] : i \in 1 .. j} = T \cup {s[j]}
  <2>1. 1 .. j = (1 .. j - 1) \cup {j}
    BY <1>1
  <2>2. QED
    BY <2>1
<1>3. T \in SUBSET Patches /\ s[j] \in Patches
  BY <1>1
<1>4. s[j] \notin T
  <2>1. \A i \in 1 .. j - 1 : i \in 1 .. Len(s) /\ i # j
    BY <1>1
  <2>2. QED
    BY <1>1, <2>1 DEF Distinct
<1> HIDE DEF T
<1>5. SizeOf(T \cup {s[j]}) = SizeOf(T) + Size[s[j]]
  BY <1>3, <1>4, SizeAdd
<1>6. SizeOf(T) \in Nat /\ SizeOf(T \cup {s[j]}) \in Nat
  BY <1>3, SizeType
<1>7. QED
  BY <1>2, <1>5, <1>6 DEF Before, T

LEMMA BeforeEnds ==
    ASSUME NEW s \in Seq(Patches)
    PROVE  Before(s, 0) = 0 /\ Before(s, Len(s)) = SizeOf(ToSet(s))
<1>1. {s[i] : i \in 1 .. 0} = {} /\ {s[i] : i \in 1 .. Len(s)} = ToSet(s)
  BY DEF ToSet
<1>2. QED
  BY <1>1, SizeEmpty DEF Before

LEMMA ProgramWords ==
    ASSUME NEW p \in {Routing} \cup Patches, NEW n \in Nat
    PROVE  /\ Image!Code(p, n) \in Seq(({Routing} \cup Patches) \X Nat) /\ Len(Image!Code(p, n)) = n
           /\ \A k \in 0 .. n - 1 : Image!Code(p, n)[k + 1] = <<p, k>>
  BY DEF Image!Code

LEMMA Concat ==
    ASSUME NEW W, NEW s \in Seq(W), NEW t \in Seq(W)
    PROVE  /\ s \o t \in Seq(W) /\ Len(s \o t) = Len(s) + Len(t)
           /\ \A k \in 1 .. Len(s) : (s \o t)[k] = s[k]
           /\ \A k \in 1 .. Len(t) : (s \o t)[Len(s) + k] = t[k]
  OBVIOUS

LEMMA ListWords ==
    ASSUME NEW s \in Seq(Patches), Distinct(s)
    PROVE  /\ Image!Codes(s) \in Seq(({Routing} \cup Patches) \X Nat)
           /\ Len(Image!Codes(s)) = SizeOf(ToSet(s))
           /\ \A x \in 0 .. SizeOf(ToSet(s)) - 1 :
                 \E i \in 1 .. Len(s) : \E k \in 0 .. Size[s[i]] - 1 :
                    x = Before(s, i - 1) + k /\ Image!Codes(s)[x + 1] = <<s[i], k>>
<1> DEFINE W == ({Routing} \cup Patches) \X Nat
           c(j) == Image!Code(s[j], Size[s[j]])
           seqs == [j \in 1 .. Len(s) |-> c(j)]
<1>1. /\ Len(s) \in Nat /\ DOMAIN s = 1 .. Len(s)
      /\ \A i \in 1 .. Len(s) : s[i] \in Patches /\ Size[s[i]] \in Nat \ {0}
  BY SizesAreNat
<1>2. Image!Codes(s) = Image!FlattenSeq(seqs) /\ Len(seqs) = Len(s)
  BY <1>1 DEF Image!Codes
<1>3. \A j \in 1 .. Len(s) :
         /\ c(j) \in Seq(W) /\ Len(c(j)) = Size[s[j]]
         /\ \A k \in 0 .. Size[s[j]] - 1 : c(j)[k + 1] = <<s[j], k>>
  BY <1>1, ProgramWords
<1> HIDE DEF W, c
<1>4. CASE Len(s) = 0
  <2>1. seqs = <<>> /\ Image!FlattenSeq(seqs) = seqs
    BY <1>2, <1>4 DEF Image!FlattenSeq
  <2>2. SizeOf(ToSet(s)) = 0
    BY <1>4, BeforeEnds
  <2>3. Image!Codes(s) = <<>>
    BY <1>2, <2>1
  <2>4. QED
    BY <2>2, <2>3
<1>5. CASE Len(s) # 0
  <2>1. PICK g : IsFlat(seqs, g) /\ Image!FlattenSeq(seqs) = g[Len(s)]
    <3> HIDE DEF seqs
    <3>1. QED
      BY <1>1, <1>2, <1>5, FlattenIs
  <2>2. \A j \in 1 .. Len(s) : g[j] = IF j = 1 THEN c(j) ELSE g[j - 1] \o c(j)
    BY <1>2, <2>1 DEF IsFlat
  <2> DEFINE Good(j) ==
                /\ g[j] \in Seq(W) /\ Len(g[j]) = Before(s, j)
                /\ \A x \in 0 .. Before(s, j) - 1 :
                      \E i \in 1 .. j : \E k \in 0 .. Size[s[i]] - 1 :
                         x = Before(s, i - 1) + k /\ g[j][x + 1] = <<s[i], k>>
             B == {j \in Nat : j \in 1 .. Len(s) /\ ~Good(j)}
  <2>3. ASSUME NEW j \in 1 .. Len(s), j = 1 \/ Good(j - 1) PROVE Good(j)
    <3>1. /\ Before(s, j) = Before(s, j - 1) + Size[s[j]]
          /\ Before(s, j) \in Nat /\ Before(s, j - 1) \in Nat
      BY BeforeStep
    <3>2. CASE j = 1
      <4>1. Before(s, j - 1) = 0
        BY <3>2, BeforeEnds
      <4>2. g[j] = c(j)
        BY <2>2, <3>2
      <4>3. \A x \in 0 .. Size[s[j]] - 1 : x = Before(s, j - 1) + x /\ g[j][x + 1] = <<s[j], x>>
        BY <1>3, <4>1, <4>2
      <4>4. QED
        BY <1>1, <1>3, <3>1, <3>2, <4>1, <4>2, <4>3
    <3>3. CASE j # 1
      <4> DEFINE e == g[j - 1]
                 d == c(j)
                 f == e \o d
      <4>1. g[j] = f
        BY <2>2, <3>3
      <4>2. Good(j - 1) /\ j - 1 \in 1 .. Len(s)
        <5> HIDE DEF Good
        <5>1. QED
          BY <1>1, <2>3, <3>3
      <4>3. e \in Seq(W) /\ Len(e) = Before(s, j - 1) /\ d \in Seq(W) /\ Len(d) = Size[s[j]]
        BY <1>3, <4>2
      <4>4. /\ f \in Seq(W) /\ Len(f) = Len(e) + Len(d)
            /\ \A x \in 1 .. Len(e) : f[x] = e[x]
            /\ \A x \in 1 .. Len(d) : f[Len(e) + x] = d[x]
        <5> HIDE DEF e, d, Good
        <5>1. f = e \o d
          OBVIOUS
        <5>2. e \in Seq(W) /\ d \in Seq(W)
          BY <4>3
        <5> HIDE DEF f, W
        <5>3. QED
          BY <5>1, <5>2, Concat
      <4>5. \A x \in 0 .. Before(s, j - 1) - 1 :
               \E i \in 1 .. j - 1 : \E k \in 0 .. Size[s[i]] - 1 :
                  x = Before(s, i - 1) + k /\ e[x + 1] = <<s[i], k>>
        BY <4>2
      <4>6. \A k \in 0 .. Size[s[j]] - 1 : d[k + 1] = <<s[j], k>>
        BY <1>3
      <4> HIDE DEF e, d, f, Good
      <4>7. ASSUME NEW x \in 0 .. Before(s, j) - 1
            PROVE  \E i \in 1 .. j : \E k \in 0 .. Size[s[i]] - 1 :
                      x = Before(s, i - 1) + k /\ f[x + 1] = <<s[i], k>>
        <5>1. CASE x < Before(s, j - 1)
          <6>1. x \in 0 .. Before(s, j - 1) - 1 /\ x + 1 \in 1 .. Len(e)
            BY <3>1, <4>3, <5>1
          <6>2. f[x + 1] = e[x + 1]
            BY <4>4, <6>1
          <6>3. \A i \in 1 .. j - 1 : i \in 1 .. j
            BY <1>1
          <6>4. QED
            BY <4>5, <6>1, <6>2, <6>3
        <5>2. CASE x >= Before(s, j - 1)
          <6> DEFINE k == x - Before(s, j - 1)
          <6>1. k \in 0 .. Size[s[j]] - 1 /\ k + 1 \in 1 .. Len(d) /\ x + 1 = Len(e) + (k + 1)
                /\ x = Before(s, j - 1) + k
            <7> DEFINE before == Before(s, j - 1)
                       size == Size[s[j]]
            <7>1. before \in Nat /\ size \in Nat /\ Before(s, j) = before + size
              BY <1>1, <3>1
            <7>2. Len(e) = before /\ Len(d) = size
              BY <4>3
            <7>3. x \in 0 .. before + size - 1 /\ x >= before /\ k = x - before
              BY <5>2, <7>1
            <7> HIDE DEF before, size, k
            <7>4. k \in 0 .. size - 1 /\ k + 1 \in 1 .. size /\ x + 1 = before + (k + 1) /\ x = before + k
              BY <7>1, <7>3
            <7>5. QED
              BY <7>2, <7>4 DEF before, size
          <6> HIDE DEF k
          <6>2. f[x + 1] = d[k + 1]
            BY <4>4, <6>1
          <6>3. f[x + 1] = <<s[j], k>>
            BY <4>6, <6>1, <6>2
          <6>4. j \in 1 .. j
            BY <1>1
          <6>5. QED
            BY <6>1, <6>3, <6>4
        <5>3. QED
          BY <3>1, <5>1, <5>2
      <4>8. Len(f) = Before(s, j)
        BY <3>1, <4>3, <4>4
      <4>9. QED
        BY <4>1, <4>4, <4>7, <4>8 DEF Good
    <3>4. QED
      BY <3>2, <3>3
  <2> HIDE DEF Good
  <2>4. \A j \in 1 .. Len(s) : Good(j)
    <3>1. SUFFICES ASSUME B # {} PROVE FALSE
      BY <1>1
    <3>2. B \in SUBSET Nat /\ \A j \in B : j \in 1 .. Len(s) /\ ~Good(j)
      OBVIOUS
    <3>3. \A j \in 1 .. Len(s) : j \notin B => Good(j)
      BY <1>1
    <3> HIDE DEF B
    <3>4. PICK j \in B : \A k \in B : j <= k
      BY <3>1, <3>2, LeastNat
    <3>5. j = 1 \/ (j - 1 \in 1 .. Len(s) /\ j - 1 \notin B)
      BY <1>1, <3>2, <3>4
    <3>6. QED
      BY <2>3, <3>2, <3>3, <3>5
  <2>5. Good(Len(s))
    BY <1>1, <1>5, <2>4
  <2>6. Before(s, Len(s)) = SizeOf(ToSet(s)) /\ Image!Codes(s) = g[Len(s)]
    BY <1>2, <2>1, BeforeEnds
  <2>7. QED
    BY <2>5, <2>6 DEF Good, W
<1>6. QED
  BY <1>4, <1>5

-----------------------------------------------------------------------------
(* The memory after a load.                                                *)

LEMMA SizeJoin ==
    ASSUME NEW S \in SUBSET Patches, NEW T \in SUBSET Patches, S \cap T = {}
    PROVE  SizeOf(S \cup T) = SizeOf(S) + SizeOf(T)
<1>1. /\ IsFiniteSet(S) /\ SizeOf(S) = SumOver(Size, S)
      /\ IsFiniteSet(T) /\ SizeOf(T) = SumOver(Size, T)
      /\ \A p \in S \cup T : Size[p] \in Nat
  BY SizeType
<1>2. SumOver(Size, S \cup T) = SumOver(Size, S) + SumOver(Size, T)
  BY <1>1, SumUnion
<1>3. S \cup T \in SUBSET Patches
  OBVIOUS
<1>4. SizeOf(S \cup T) = SumOver(Size, S \cup T)
  BY <1>3, SizeType
<1>5. QED
  BY <1>1, <1>2, <1>4

LEMMA SizesOfLists ==
    ASSUME TInv
    PROVE  /\ SizeOf(Loaded) = SizeOf(ToSet(ilist)) + SizeOf(ToSet(olist))
           /\ SizeOf(ToSet(ilist)) \in Nat /\ SizeOf(ToSet(olist)) \in Nat
           /\ RoutingStart = SizeOf(ToSet(ilist))
<1>1. ToSet(ilist) \in SUBSET Patches /\ ToSet(olist) \in SUBSET Patches /\ ToSet(ilist) \cap ToSet(olist) = {}
  BY DEF TInv, Apart, ToSet
<1>2. Loaded = ToSet(ilist) \cup ToSet(olist)
  BY LoadedIs
<1>3. QED
  BY <1>1, <1>2, SizeJoin, SizeType DEF RoutingStart

\* Where the two lists have their code.
LEMMA StartsAre ==
    ASSUME TInv, NEW n \in RSizes
    PROVE  /\ Len(ilist) \in Nat /\ Len(olist) \in Nat
           /\ Records(n) = Driver(n).patches
           /\ \A j \in 1 .. Len(ilist) :
                 /\ j \in DOMAIN Records(n)
                 /\ Records(n)[j].patch = ilist[j] /\ Records(n)[j].size = Size[ilist[j]]
                 /\ Records(n)[j].start = Before(ilist, j - 1)
           /\ \A j \in 1 .. Len(olist) :
                 /\ Len(ilist) + j \in DOMAIN Records(n)
                 /\ Records(n)[Len(ilist) + j].patch = olist[j]
                 /\ Records(n)[Len(ilist) + j].size = Size[olist[j]]
                 /\ Records(n)[Len(ilist) + j].start =
                        SizeOf(ToSet(ilist)) + n + Before(olist, j - 1)
<1> DEFINE h == Len(ilist)
<1>1. /\ ilist \in Seq(Patches) /\ olist \in Seq(Patches) /\ h \in Nat /\ Len(olist) \in Nat
      /\ ToSet(ilist) \cap ToSet(olist) = {} /\ n \in Nat
  BY SizesAreNat DEF TInv, Apart
<1>2. /\ Lists \in Seq(Patches) /\ Len(Lists) = h + Len(olist)
      /\ \A k \in 1 .. h : Lists[k] = ilist[k]
      /\ \A k \in 1 .. Len(olist) : Lists[h + k] = olist[k]
  BY <1>1, Joined DEF Lists
<1>3. /\ DOMAIN Records(n) = 1 .. h + Len(olist)
      /\ \A j \in 1 .. h + Len(olist) : /\ Records(n)[j].patch = Lists[j]
                                        /\ Records(n)[j].size = Size[Lists[j]]
                                        /\ Records(n)[j].start = StartOf(j, n)
  BY <1>2 DEF Records
<1> HIDE DEF h
<1>4. ASSUME NEW j \in 1 .. h
      PROVE  j \in 1 .. h + Len(olist) /\ Lists[j] = ilist[j] /\ StartOf(j, n) = Before(ilist, j - 1)
  <2>1. j \in 1 .. h + Len(olist) /\ j <= h /\ \A i \in 1 .. j - 1 : i \in 1 .. h
    BY <1>1
  <2>2. {Lists[i] : i \in 1 .. j - 1} = {ilist[i] : i \in 1 .. j - 1}
    BY <1>2, <2>1
  <2>3. QED
    BY <1>2, <2>1, <2>2 DEF StartOf, Before, h
<1>5. ASSUME NEW j \in 1 .. Len(olist)
      PROVE  /\ h + j \in 1 .. h + Len(olist) /\ Lists[h + j] = olist[j]
             /\ StartOf(h + j, n) = SizeOf(ToSet(ilist)) + n + Before(olist, j - 1)
  <2> DEFINE T == {olist[i] : i \in 1 .. j - 1}
             U == {Lists[i] : i \in 1 .. (h + j) - 1}
  <2>1. h + j \in 1 .. h + Len(olist) /\ ~(h + j <= h)
    BY <1>1
  <2>2. U = ToSet(ilist) \cup T
    <3>1. 1 .. (h + j) - 1 = (1 .. h) \cup {h + i : i \in 1 .. j - 1}
      <4>1. \A i \in 1 .. (h + j) - 1 : i \in 1 .. h \/ (i - h \in 1 .. j - 1 /\ i = h + (i - h))
        BY <1>1
      <4>2. \A i \in 1 .. j - 1 : h + i \in 1 .. (h + j) - 1
        BY <1>1
      <4>3. \A i \in 1 .. h : i \in 1 .. (h + j) - 1
        BY <1>1
      <4>4. QED
        BY <4>1, <4>2, <4>3
    <3>2. ToSet(ilist) = {ilist[i] : i \in 1 .. h}
      BY <1>1 DEF ToSet, h
    <3>3. \A i \in 1 .. j - 1 : Lists[h + i] = olist[i]
      <4>1. \A i \in 1 .. j - 1 : i \in 1 .. Len(olist)
        BY <1>1
      <4>2. QED
        BY <1>2, <4>1
    <3>4. ASSUME NEW x \in U PROVE x \in ToSet(ilist) \cup T
      <4>1. PICK i \in (1 .. h) \cup {h + k : k \in 1 .. j - 1} : x = Lists[i]
        BY <3>1
      <4>2. CASE i \in 1 .. h
        BY <1>2, <3>2, <4>1, <4>2
      <4>3. CASE i \notin 1 .. h
        <5>1. PICK k \in 1 .. j - 1 : i = h + k
          BY <4>1, <4>3
        <5>2. QED
          BY <3>3, <4>1, <5>1
      <4>4. QED
        BY <4>2, <4>3
    <3>5. ASSUME NEW i \in 1 .. h PROVE ilist[i] \in U
      <4>1. i \in 1 .. (h + j) - 1 /\ Lists[i] = ilist[i]
        BY <1>2, <3>1
      <4>2. QED
        BY <4>1
    <3>6. ASSUME NEW i \in 1 .. j - 1 PROVE olist[i] \in U
      <4>1. h + i \in 1 .. (h + j) - 1 /\ Lists[h + i] = olist[i]
        BY <3>1, <3>3
      <4>2. QED
        BY <4>1
    <3> HIDE DEF U
    <3>7. QED
      BY <3>2, <3>4, <3>5, <3>6
  <2>3. ToSet(ilist) \in SUBSET Patches /\ T \in SUBSET Patches /\ ToSet(ilist) \cap T = {}
    <3>1. \A i \in 1 .. j - 1 : olist[i] \in ToSet(olist) /\ olist[i] \in Patches
      <4>1. \A i \in 1 .. j - 1 : i \in DOMAIN olist
        BY <1>1
      <4>2. QED
        BY <1>1, <4>1 DEF ToSet
    <3>2. ToSet(ilist) \in SUBSET Patches
      BY <1>1 DEF ToSet
    <3>3. QED
      BY <1>1, <3>1, <3>2
  <2> HIDE DEF T, U
  <2>4. SizeOf(U) = SizeOf(ToSet(ilist)) + SizeOf(T) /\ SizeOf(ToSet(ilist)) \in Nat /\ SizeOf(T) \in Nat
    BY <2>2, <2>3, SizeJoin, SizeType
  <2>5. StartOf(h + j, n) = n + SizeOf(U)
    BY <2>1 DEF StartOf, U, h
  <2>6. Before(olist, j - 1) = SizeOf(T)
    BY DEF Before, T
  <2>7. QED
    BY <1>1, <1>2, <2>1, <2>4, <2>5, <2>6
<1>6. \A j \in 1 .. h :
         /\ j \in DOMAIN Records(n)
         /\ Records(n)[j].patch = ilist[j] /\ Records(n)[j].size = Size[ilist[j]]
         /\ Records(n)[j].start = Before(ilist, j - 1)
  BY <1>3, <1>4
<1>7. \A j \in 1 .. Len(olist) :
         /\ h + j \in DOMAIN Records(n)
         /\ Records(n)[h + j].patch = olist[j] /\ Records(n)[h + j].size = Size[olist[j]]
         /\ Records(n)[h + j].start = SizeOf(ToSet(ilist)) + n + Before(olist, j - 1)
  BY <1>3, <1>5
<1>8. QED
  BY <1>1, <1>6, <1>7 DEF Driver, h

\* Every word that load_patch_code() writes to a place of the routing patch is its own.
LEMMA RoutingWritten ==
    ASSUME TInv, NEW n \in RSizes, NEW k \in 0 .. n - 1
    PROVE  /\ \E w \in Writes(n) : w.at = RoutingStart + k
           /\ \A w \in Writes(n) : w.at = RoutingStart + k => w.word = <<Routing, k>>
<1> DEFINE d == Driver(n)
<1>1. /\ RecordsOk(d) /\ Layout(d, Len(ilist)) /\ Len(ilist) \in 0 .. Len(d.patches)
      /\ d.patches = Records(n) /\ d.routing.start = RoutingStart /\ d.routing.size = n
  <2>1. /\ RecordsOk(d) /\ Layout(d, Len(ilist)) /\ Len(d.patches) = Len(Lists)
        /\ Len(ilist) \in 0 .. Len(Lists)
    BY RecordsFit DEF TInv
  <2>2. QED
    BY <2>1 DEF Driver
<1>2. \A i \in DOMAIN Records(n) : Records(n)[i].start \in Nat /\ Records(n)[i].size \in Nat
  BY <1>1, RecordType
<1>3. n \in Nat /\ n <= Chunk /\ n <= CodeSize /\ Chunk \in Nat /\ CodeSize \in Nat
  BY SmallSizes, ChunkAssumption, SizesAreNat
<1>4. /\ RoutingStart \in Nat
      /\ \A i \in DOMAIN Records(n) :
            \/ Records(n)[i].start + Records(n)[i].size <= RoutingStart
            \/ RoutingStart + n <= Records(n)[i].start
  BY <1>1, RecordOrder
<1>5. ASSUME NEW l \in 0 .. n - 1 PROVE WordSent(RoutingCode(n), RoutingStart, l) = <<Routing, l>>
  <2>1. l < Chunk /\ l \in 0 .. CodeSize - 1 /\ l < n
    BY <1>3
  <2>2. RoutingCode(n)[l] = <<Routing, l>> /\ l \in DOMAIN RoutingCode(n)
    BY <2>1 DEF RoutingCode
  <2>3. QED
    BY <2>1, <2>2 DEF WordSent
<1>6. [at |-> RoutingStart + k, word |-> WordSent(RoutingCode(n), RoutingStart, k)] \in Writes(n)
  BY DEF Writes
<1>7. ASSUME NEW w \in Writes(n), w.at = RoutingStart + k
      PROVE  w.word = <<Routing, k>>
  <2>1. CASE w \in {[at |-> RoutingStart + l, word |-> WordSent(RoutingCode(n), RoutingStart, l)] :
                       l \in 0 .. n - 1}
    <3>1. PICK l \in 0 .. n - 1 : /\ w.at = RoutingStart + l
                                  /\ w.word = WordSent(RoutingCode(n), RoutingStart, l)
      BY <2>1
    <3>2. RoutingStart + l = RoutingStart + k /\ l \in Int /\ k \in Int
      BY <1>3, <1>7, <3>1
    <3>3. l = k
      BY <1>4, <3>2
    <3>4. QED
      BY <1>5, <3>1, <3>3
  <2>2. CASE w \notin {[at |-> RoutingStart + l, word |-> WordSent(RoutingCode(n), RoutingStart, l)] :
                       l \in 0 .. n - 1}
    <3>1. PICK q \in ToSet(Records(n)) : \E l \in 0 .. q.size - 1 :
             w = [at |-> q.start + l, word |-> WordSent(code[q.patch], q.start, l)]
      BY <2>2 DEF Writes
    <3>2. PICK l \in 0 .. q.size - 1 : w.at = q.start + l
      BY <3>1
    <3>3. PICK i \in DOMAIN Records(n) : q = Records(n)[i]
      BY DEF ToSet
    <3>4. QED
      BY <1>2, <1>3, <1>4, <1>7, <3>2, <3>3
  <2>3. QED
    BY <2>1, <2>2
<1>8. QED
  BY <1>6, <1>7

\* Nothing is written behind the block.
LEMMA WritesEnd ==
    ASSUME TInv, NEW n \in RSizes, NEW w \in Writes(n)
    PROVE  w.at < n + SizeOf(Loaded)
<1>1. /\ SizeOf(Loaded) = RoutingStart + SizeOf(ToSet(olist)) /\ RoutingStart \in Nat
      /\ SizeOf(ToSet(olist)) \in Nat /\ n \in Nat
  BY SizesOfLists, SmallSizes
<1>2. CASE \E k \in 0 .. n - 1 : w.at = RoutingStart + k
  BY <1>1, <1>2
<1>3. CASE \E q \in ToSet(Records(n)) : \E l \in 0 .. q.size - 1 : w.at = q.start + l
  <2>1. PICK q \in ToSet(Records(n)) : \E l \in 0 .. q.size - 1 : w.at = q.start + l
    BY <1>3
  <2>2. PICK i \in DOMAIN Records(n) : q = Records(n)[i]
    BY DEF ToSet
  <2>3. Records(n) = Driver(n).patches
    BY DEF Driver
  <2>4. q.start + q.size <= n + SizeOf(Loaded)
    BY <2>2, <2>3, BlockFits DEF TInv
  <2>5. q.start \in Nat /\ q.size \in Nat
    BY <2>2, <2>3, RecordsFit, RecordType DEF TInv
  <2>6. QED
    BY <1>1, <2>1, <2>4, <2>5
<1>4. QED
  BY <1>2, <1>3 DEF Writes

\* Behind the block there is nothing, and while a process has not loaded yet, nothing
\* from where it will clear to.
ImageInv ==
    /\ \A at \in 0 .. CodeSize - 1 : driver.routing.size + SizeOf(Kept) <= at => dsp[at] = Nop
    /\ loads = 0 => \A at \in 0 .. CodeSize - 1 : ifree <= at => dsp[at] = Nop

Work == [in |-> ilist, out |-> olist]

\* The memory after a load, word by word.
LEMMA WordsAfter ==
    ASSUME TInv, CInv, WInv, ImageInv, loads = 0, NEW n \in RSizes,
           LoadWith(n, Plus(Minus(free, rsize), n))
    PROVE  /\ Holds(Driver(n), dsp')
           /\ \A k \in 0 .. n - 1 : dsp'[RoutingStart + k] = <<Routing, k>>
           /\ \A at \in 0 .. CodeSize - 1 : n + SizeOf(Loaded) <= at => dsp'[at] = Nop
           /\ n + SizeOf(Loaded) <= CodeSize
           /\ DOMAIN dsp' = 0 .. CodeSize - 1
<1> DEFINE newFree == Plus(Minus(free, rsize), n)
<1>1. Running /\ driver' = Driver(n)
  BY LoadKept DEF Running
<1>2. newFree = n + SizeOf(Loaded) /\ n \in Nat /\ SizeOf(Loaded) \in Nat /\ CodeSize \in Nat
  <2>1. free' = n + SizeOf(Loaded)
    BY <1>1, LoadCInv
  <2>2. free' = newFree
    BY DEF LoadWith
  <2>3. QED
    BY <2>1, <2>2, SmallSizes, LoadedIs
<1>3. n + SizeOf(Loaded) <= CodeSize
  <2>1. SizeOf(Loaded) <= SizeOf(Patches) /\ SizeOf(Patches) \in Nat
    BY LoadedIs, SizePart, SizeType
  <2>2. SizeOf(Patches) + n <= CodeSize
    BY RoomAssumption
  <2>3. QED
    BY <1>2, <2>1, <2>2
<1>4. /\ SizeOf(Loaded) = RoutingStart + SizeOf(ToSet(olist)) /\ RoutingStart \in Nat
      /\ SizeOf(ToSet(olist)) \in Nat
  BY SizesOfLists
<1>5. Holds(Driver(n), dsp')
  <2>1. WInv'
    BY <1>1, LoadWInv
  <2>2. Holds(driver', dsp')
    BY <2>1 DEF WInv
  <2>3. QED
    BY <1>1, <2>2
<1> HIDE DEF newFree
<1>6. /\ DOMAIN dsp' = 0 .. CodeSize - 1
      /\ \A at \in 0 .. CodeSize - 1 :
            dsp'[at] = IF at \in Cleared(newFree) THEN Nop
                       ELSE IF \E w \in Writes(n) : w.at = at
                              THEN (CHOOSE w \in Writes(n) : w.at = at).word
                              ELSE dsp[at]
  BY DEF LoadWith, newFree
<1>7. ASSUME NEW k \in 0 .. n - 1 PROVE dsp'[RoutingStart + k] = <<Routing, k>>
  <2>1. RoutingStart + k \in 0 .. CodeSize - 1 /\ ~(newFree <= RoutingStart + k)
    BY <1>2, <1>3, <1>4
  <2>2. /\ \E w \in Writes(n) : w.at = RoutingStart + k
        /\ \A w \in Writes(n) : w.at = RoutingStart + k => w.word = <<Routing, k>>
    BY RoutingWritten
  <2> DEFINE at == RoutingStart + k
  <2> HIDE DEF at
  <2>3. at \notin Cleared(newFree) /\ at \in 0 .. CodeSize - 1
    BY <2>1 DEF Cleared, at
  <2>4. /\ \E w \in Writes(n) : w.at = at
        /\ \A w \in Writes(n) : w.at = at => w.word = <<Routing, k>>
    BY <2>2 DEF at
  <2>5. dsp'[at] = (CHOOSE w \in Writes(n) : w.at = at).word
    BY <1>6, <2>3, <2>4
  <2>6. dsp'[at] = <<Routing, k>>
    BY <2>4, <2>5
  <2>7. QED
    BY <2>6 DEF at
<1>8. ASSUME NEW at \in 0 .. CodeSize - 1, n + SizeOf(Loaded) <= at PROVE dsp'[at] = Nop
  <2>1. CASE at \in Cleared(newFree)
    BY <1>6, <2>1
  <2>2. CASE at \notin Cleared(newFree)
    <3>1. ~(at < ifree)
      BY <1>2, <1>8, <2>2 DEF Cleared
    <3>2. dsp[at] = Nop
      BY <3>1, CountsAreInts DEF ImageInv
    <3>3. ~ \E w \in Writes(n) : w.at = at
      BY <1>2, <1>8, WritesEnd
    <3>4. QED
      BY <1>6, <2>2, <3>2, <3>3
  <2>3. QED
    BY <2>1, <2>2
<1>9. QED
  BY <1>3, <1>5, <1>6, <1>7, <1>8

\* It is what DspImage loads.
LEMMA LoadImage ==
    ASSUME TInv, CInv, WInv, ImageInv, loads = 0, NEW n \in RSizes,
           LoadWith(n, Plus(Minus(free, rsize), n))
    PROVE  dsp' = Image!Memory(Image!Program(Work, n))
<1> DEFINE W == ({Routing} \cup Patches) \X Nat
           ci == Image!Codes(ilist)
           co == Image!Codes(olist)
           r == Image!Code(Routing, n)
           x == SizeOf(ToSet(ilist))
           y == SizeOf(ToSet(olist))
           prog == Image!Program(Work, n)
<1>1. /\ x \in Nat /\ y \in Nat /\ n \in Nat /\ CodeSize \in Nat
      /\ SizeOf(Loaded) = x + y /\ RoutingStart = x
  BY SizesOfLists, SmallSizes
<1>2. /\ ci \in Seq(W) /\ Len(ci) = x
      /\ \A a \in 0 .. x - 1 :
            \E i \in 1 .. Len(ilist) : \E k \in 0 .. Size[ilist[i]] - 1 :
               a = Before(ilist, i - 1) + k /\ ci[a + 1] = <<ilist[i], k>>
  BY ListWords DEF TInv, Apart
<1>3. /\ co \in Seq(W) /\ Len(co) = y
      /\ \A a \in 0 .. y - 1 :
            \E i \in 1 .. Len(olist) : \E k \in 0 .. Size[olist[i]] - 1 :
               a = Before(olist, i - 1) + k /\ co[a + 1] = <<olist[i], k>>
  BY ListWords DEF TInv, Apart
<1>4. r \in Seq(W) /\ Len(r) = n /\ \A k \in 0 .. n - 1 : r[k + 1] = <<Routing, k>>
  BY <1>1, ProgramWords
<1>5. prog = (ci \o r) \o co
  BY DEF Image!Program, Work
<1>6. /\ Holds(Driver(n), dsp')
      /\ \A k \in 0 .. n - 1 : dsp'[x + k] = <<Routing, k>>
      /\ \A at \in 0 .. CodeSize - 1 : n + (x + y) <= at => dsp'[at] = Nop
      /\ DOMAIN dsp' = 0 .. CodeSize - 1
  BY <1>1, WordsAfter
<1>7. /\ Records(n) = Driver(n).patches /\ DOMAIN Driver(n).patches = DOMAIN Records(n)
      /\ \A j \in 1 .. Len(ilist) :
            /\ j \in DOMAIN Records(n)
            /\ Records(n)[j].patch = ilist[j] /\ Records(n)[j].size = Size[ilist[j]]
            /\ Records(n)[j].start = Before(ilist, j - 1)
      /\ \A j \in 1 .. Len(olist) :
            /\ Len(ilist) + j \in DOMAIN Records(n)
            /\ Records(n)[Len(ilist) + j].patch = olist[j]
            /\ Records(n)[Len(ilist) + j].size = Size[olist[j]]
            /\ Records(n)[Len(ilist) + j].start = x + n + Before(olist, j - 1)
  BY StartsAre
<1>8. \A i \in 1 .. Len(ilist) : \A k \in 0 .. Size[ilist[i]] - 1 :
         dsp'[Before(ilist, i - 1) + k] = <<ilist[i], k>>
  <2>1. \A j \in DOMAIN Records(n) : \A k \in 0 .. Records(n)[j].size - 1 :
           dsp'[Records(n)[j].start + k] = <<Records(n)[j].patch, k>>
    BY <1>6, <1>7 DEF Holds
  <2>2. ASSUME NEW i \in 1 .. Len(ilist), NEW k \in 0 .. Size[ilist[i]] - 1
        PROVE  dsp'[(Before(ilist, i - 1)) + k] = <<ilist[i], k>>
    <3> DEFINE j == i
    <3>1. /\ j \in DOMAIN Records(n) /\ Records(n)[j].patch = ilist[i] /\ Records(n)[j].size = Size[ilist[i]]
          /\ Records(n)[j].start = Before(ilist, i - 1)
      BY <1>7
    <3> HIDE DEF j
    <3>2. dsp'[Records(n)[j].start + k] = <<Records(n)[j].patch, k>>
      BY <2>1, <3>1
    <3>3. QED
      BY <3>1, <3>2
  <2>3. QED
    BY <2>2
<1>9. \A i \in 1 .. Len(olist) : \A k \in 0 .. Size[olist[i]] - 1 :
         dsp'[(x + n + Before(olist, i - 1)) + k] = <<olist[i], k>>
  <2>1. \A j \in DOMAIN Records(n) : \A k \in 0 .. Records(n)[j].size - 1 :
           dsp'[Records(n)[j].start + k] = <<Records(n)[j].patch, k>>
    BY <1>6, <1>7 DEF Holds
  <2>2. ASSUME NEW i \in 1 .. Len(olist), NEW k \in 0 .. Size[olist[i]] - 1
        PROVE  dsp'[(x + n + Before(olist, i - 1)) + k] = <<olist[i], k>>
    <3> DEFINE j == Len(ilist) + i
    <3>1. /\ j \in DOMAIN Records(n) /\ Records(n)[j].patch = olist[i] /\ Records(n)[j].size = Size[olist[i]]
          /\ Records(n)[j].start = x + n + Before(olist, i - 1)
      BY <1>7
    <3> HIDE DEF j
    <3>2. dsp'[Records(n)[j].start + k] = <<Records(n)[j].patch, k>>
      BY <2>1, <3>1
    <3>3. QED
      BY <3>1, <3>2
  <2>3. QED
    BY <2>2
<1>10. \A i \in 1 .. Len(olist) : Before(olist, i - 1) \in Nat
  BY BeforeStep DEF TInv, Apart
<1> HIDE DEF W, ci, co, r, x, y, prog
<1> DEFINE cr == ci \o r
<1>11. /\ cr \in Seq(W) /\ Len(cr) = x + n
       /\ \A a \in 1 .. x : cr[a] = ci[a]
       /\ \A a \in 1 .. n : cr[x + a] = r[a]
  <2>1. /\ cr \in Seq(W) /\ Len(cr) = Len(ci) + Len(r)
        /\ \A k \in 1 .. Len(ci) : cr[k] = ci[k]
        /\ \A k \in 1 .. Len(r) : cr[Len(ci) + k] = r[k]
    <3>1. ci \in Seq(W) /\ r \in Seq(W)
      BY <1>2, <1>4
    <3>2. QED
      BY <3>1, Concat
  <2> HIDE DEF cr
  <2>2. QED
    BY <1>2, <1>4, <2>1
<1> HIDE DEF cr
<1>12. /\ prog \in Seq(W) /\ Len(prog) = x + n + y
       /\ \A a \in 1 .. x + n : prog[a] = cr[a]
       /\ \A a \in 1 .. y : prog[(x + n) + a] = co[a]
  <2>1. prog = cr \o co
    BY <1>5 DEF cr
  <2>2. /\ prog \in Seq(W) /\ Len(prog) = Len(cr) + Len(co)
        /\ \A k \in 1 .. Len(cr) : prog[k] = cr[k]
        /\ \A k \in 1 .. Len(co) : prog[Len(cr) + k] = co[k]
    <3>1. cr \in Seq(W) /\ co \in Seq(W)
      BY <1>3, <1>11
    <3>2. QED
      BY <2>1, <3>1, Concat
  <2>3. QED
    BY <1>3, <1>11, <2>2
<1>13. ASSUME NEW a \in 0 .. CodeSize - 1
       PROVE  dsp'[a] = IF a < Len(prog) THEN prog[a + 1] ELSE Nop
  <2>1. CASE a < x
    <3>1. a \in 0 .. x - 1 /\ a + 1 \in 1 .. x /\ a + 1 \in 1 .. x + n /\ a < Len(prog)
      BY <1>1, <1>12, <2>1
    <3>2. prog[a + 1] = ci[a + 1]
      BY <1>11, <1>12, <3>1
    <3>3. dsp'[a] = ci[a + 1]
      <4>1. PICK i \in 1 .. Len(ilist) : \E k \in 0 .. Size[ilist[i]] - 1 :
               a = Before(ilist, i - 1) + k /\ ci[a + 1] = <<ilist[i], k>>
        BY <1>2, <3>1
      <4>2. PICK k \in 0 .. Size[ilist[i]] - 1 :
               a = Before(ilist, i - 1) + k /\ ci[a + 1] = <<ilist[i], k>>
        BY <4>1
      <4>3. dsp'[Before(ilist, i - 1) + k] = <<ilist[i], k>>
        BY <1>8
      <4>4. QED
        BY <4>2, <4>3
    <3>4. QED
      BY <3>1, <3>2, <3>3
  <2>2. CASE x <= a /\ a < x + n
    <3> DEFINE k == a - x
    <3>1. k \in 0 .. n - 1 /\ k + 1 \in 1 .. n /\ x + k = a /\ x + (k + 1) = a + 1
          /\ a + 1 \in 1 .. x + n /\ a < Len(prog)
      BY <1>1, <1>12, <2>2
    <3> HIDE DEF k
    <3>2. cr[x + (k + 1)] = r[k + 1] /\ prog[a + 1] = cr[a + 1] /\ r[k + 1] = <<Routing, k>>
      BY <1>4, <1>11, <1>12, <3>1
    <3>3. dsp'[x + k] = <<Routing, k>>
      BY <1>6, <3>1
    <3>4. QED
      BY <3>1, <3>2, <3>3
  <2>3. CASE x + n <= a /\ a < x + n + y
    <3> DEFINE b == a - (x + n)
    <3>1. b \in 0 .. y - 1 /\ b + 1 \in 1 .. y /\ (x + n) + b = a /\ (x + n) + (b + 1) = a + 1
          /\ a < Len(prog)
      BY <1>1, <1>12, <2>3
    <3> HIDE DEF b
    <3>2. PICK i \in 1 .. Len(olist) : \E k \in 0 .. Size[olist[i]] - 1 :
             b = Before(olist, i - 1) + k /\ co[b + 1] = <<olist[i], k>>
      BY <1>3, <3>1
    <3>3. PICK k \in 0 .. Size[olist[i]] - 1 : b = Before(olist, i - 1) + k /\ co[b + 1] = <<olist[i], k>>
      BY <3>2
    <3>4. (x + n + Before(olist, i - 1)) + k = a
      <4>1. Before(olist, i - 1) \in Int /\ k \in Int /\ x \in Int /\ n \in Int
        BY <1>1, <1>10
      <4>2. \A t \in Int : b = t + k => (x + n + t) + k = (x + n) + b
        BY <4>1
      <4>3. (x + n) + b = a
        BY <3>1
      <4>4. QED
        BY <3>3, <4>1, <4>2, <4>3
    <3>5. dsp'[a] = <<olist[i], k>>
      BY <1>9, <3>4
    <3>6. prog[a + 1] = co[b + 1]
      BY <1>12, <3>1
    <3>7. QED
      BY <3>1, <3>3, <3>5, <3>6
  <2>4. CASE x + n + y <= a
    BY <1>1, <1>6, <1>12, <2>4
  <2>5. QED
    BY <1>1, <2>1, <2>2, <2>3, <2>4
<1>14. dsp' = [a \in 0 .. CodeSize - 1 |-> dsp'[a]]
  <2>1. dsp' = [a \in 0 .. CodeSize - 1 |->
                 IF a \in Cleared(Plus(Minus(free, rsize), n)) THEN Nop
                 ELSE IF \E w \in Writes(n) : w.at = a
                        THEN (CHOOSE w \in Writes(n) : w.at = a).word
                        ELSE dsp[a]]
    BY DEF LoadWith
  <2>2. QED
    BY <2>1
<1>15. Image!Memory(prog) = [a \in 0 .. CodeSize - 1 |-> IF a < Len(prog) THEN prog[a + 1] ELSE Nop]
  BY DEF Image!Memory
<1>16. dsp' = Image!Memory(prog)
  BY <1>13, <1>14, <1>15
<1>17. QED
  BY <1>16 DEF prog

-----------------------------------------------------------------------------
(* The steps of DspImage.                                                  *)

\* The lists that were loaded are read back.
LEMMA LoadReads ==
    ASSUME TInv, NEW n \in RSizes
    PROVE  ReadOf(Driver(n), TRUE) = ilist /\ ReadOf(Driver(n), FALSE) = olist
<1> DEFINE d == Driver(n)
<1> HIDE DEF d
<1>1. /\ RecordsOk(d) /\ Layout(d, Len(ilist)) /\ Len(d.patches) = Len(Lists)
      /\ Len(ilist) \in 0 .. Len(Lists)
      /\ \A j \in DOMAIN Lists : d.patches[j].patch = Lists[j]
  BY RecordsFit DEF TInv, d
<1>2. ilist \in Seq(Patches) /\ olist \in Seq(Patches) /\ Len(ilist) \in Nat /\ Len(olist) \in Nat
  BY DEF TInv, Apart
<1>3. /\ Lists \in Seq(Patches) /\ Len(Lists) = Len(ilist) + Len(olist) /\ DOMAIN Lists = 1 .. Len(Lists)
      /\ \A k \in 1 .. Len(ilist) : Lists[k] = ilist[k]
      /\ \A k \in 1 .. Len(olist) : Lists[Len(ilist) + k] = olist[k]
  BY <1>2, Joined DEF Lists
<1>4. /\ ReadOf(d, TRUE) = [k \in 1 .. Len(ilist) |-> d.patches[k].patch]
      /\ ReadOf(d, FALSE) = [k \in 1 .. Len(olist) |-> d.patches[Len(ilist) + k].patch]
  <2>1. Len(d.patches) - Len(ilist) = Len(olist)
    BY <1>1, <1>2, <1>3
  <2>2. /\ ReadOf(d, TRUE) = [k \in 1 .. Len(ilist) |-> d.patches[k].patch]
        /\ ReadOf(d, FALSE) = [k \in 1 .. Len(d.patches) - Len(ilist) |-> d.patches[Len(ilist) + k].patch]
    <3>1. Len(ilist) \in 0 .. Len(d.patches)
      BY <1>1
    <3>2. QED
      BY <1>1, <3>1, ReadOfIs
  <2>3. QED
    BY <2>1, <2>2
<1>5. ASSUME NEW k \in 1 .. Len(ilist) PROVE d.patches[k].patch = ilist[k]
  <2>1. k \in DOMAIN Lists /\ Lists[k] = ilist[k]
    BY <1>2, <1>3
  <2>2. QED
    BY <1>1, <2>1
<1>6. ASSUME NEW k \in 1 .. Len(olist) PROVE d.patches[Len(ilist) + k].patch = olist[k]
  <2>1. Len(ilist) + k \in DOMAIN Lists /\ Lists[Len(ilist) + k] = olist[k]
    BY <1>2, <1>3
  <2>2. QED
    BY <1>1, <2>1
<1>7. ilist = [k \in 1 .. Len(ilist) |-> ilist[k]] /\ olist = [k \in 1 .. Len(olist) |-> olist[k]]
  BY <1>2
<1>8. ReadOf(d, TRUE) = ilist /\ ReadOf(d, FALSE) = olist
  BY <1>4, <1>5, <1>6, <1>7
<1>9. QED
  BY <1>8 DEF d

LEMMA InitImageInv == Init => ImageInv
<1>1. SUFFICES ASSUME Init PROVE ImageInv
  OBVIOUS
<1>2. loads = -1 /\ \A at \in 0 .. CodeSize - 1 : dsp[at] = Nop
  BY <1>1 DEF Init
<1>3. QED
  BY <1>2 DEF ImageInv

LEMMA NextImageInv ==
    ASSUME MaxLoads = 1, TInv, CInv, WInv, ImageInv, [Next]_vars
    PROVE  ImageInv'
<1>1. \A at \in 0 .. CodeSize - 1 : driver.routing.size + SizeOf(Kept) <= at => dsp[at] = Nop
  BY DEF ImageInv
<1>2. ASSUME UNCHANGED <<driver, dsp>>, loads' = 0 => loads = 0 /\ ifree' = ifree PROVE ImageInv'
  BY <1>2 DEF ImageInv, Kept
<1>3. CASE Start
  <2>1. driver' = driver /\ dsp' = dsp /\ Kept' = Kept /\ ifree' = free'
    BY <1>3 DEF Start, Kept
  <2>2. free' = driver.routing.size + SizeOf(Kept)
    <3>1. CInv' /\ Loaded' = Kept
      BY <1>3, StartCInv, StartLoaded
    <3>2. Running' /\ rsize' = driver.routing.size
      BY <1>3 DEF Start, Running
    <3>3. QED
      BY <3>1, <3>2 DEF CInv
  <2>3. QED
    BY <1>1, <2>1, <2>2 DEF ImageInv
<1>4. CASE Exit
  BY <1>2, <1>4 DEF Exit
<1>5. ASSUME NEW p \in Patches, ReadPatch(p) PROVE ImageInv'
  BY <1>2, <1>5 DEF ReadPatch, Editing
<1>6. ASSUME NEW p \in Patches, UnloadPatch(p) PROVE ImageInv'
  BY <1>2, <1>6 DEF UnloadPatch, Editing
<1>7. CASE UnloadAll
  <2>1. ifree' = CodeSize /\ driver' = driver /\ dsp' = dsp /\ Kept' = Kept
    BY <1>7 DEF UnloadAll, Kept
  <2>2. \A at \in 0 .. CodeSize - 1 : ~(CodeSize <= at)
    BY SizesAreNat
  <2>3. QED
    BY <1>1, <2>1, <2>2 DEF ImageInv
<1>8. CASE Load
  <2>1. PICK n \in RSizes : LoadWith(n, Plus(Minus(free, rsize), n))
    BY <1>8 DEF Load
  <2>2. loads = 0 /\ loads' = 1
    <3>1. loads >= 0 /\ loads < 1 /\ loads' = loads + 1 /\ loads \in -1 .. MaxLoads
      BY <1>8, <2>1 DEF Load, LoadWith, Running, TInv
    <3>2. QED
      BY <3>1
  <2>3. driver' = Driver(n) /\ Kept' = Loaded
    BY <2>1, LoadKept
  <2>4. Driver(n).routing.size = n
    BY DEF Driver
  <2>5. \A at \in 0 .. CodeSize - 1 : n + SizeOf(Loaded) <= at => dsp'[at] = Nop
    BY <2>1, <2>2, WordsAfter
  <2>6. QED
    BY <2>2, <2>3, <2>4, <2>5 DEF ImageInv
<1>9. CASE LoadPart
  BY <1>9, CountAssumption DEF LoadPart
<1>10. CASE UNCHANGED vars
  BY <1>2, <1>10 DEF vars
<1>11. QED
  BY <1>3, <1>4, <1>5, <1>6, <1>7, <1>8, <1>9, <1>10 DEF Next

\* The refinement mapping.
Saved == [in |-> ReadBack(TRUE), out |-> ReadBack(FALSE)]
Mapped == IF Running THEN Work ELSE Saved

\* AReadPatch and AUnload of any lists w.
Reads(w, next, p) ==
    /\ p \notin ToSet(w.in) \cup ToSet(w.out)
    /\ \/ \E l \in {<<p>> \o w.in, w.in \o <<p>>} : next = [w EXCEPT !.in = l]
       \/ \E l \in {<<p>> \o w.out, w.out \o <<p>>} : next = [w EXCEPT !.out = l]
Unloads(w, next, p) ==
    \/ \E j \in DOMAIN w.in : w.in[j] = p /\ next = [w EXCEPT !.in = RemoveAt(@, j)]
    \/ \E j \in DOMAIN w.out : w.out[j] = p /\ next = [w EXCEPT !.out = RemoveAt(@, j)]

LEMMA StepMaps ==
    ASSUME MaxLoads = 1, TInv, CInv, WInv, ImageInv, [Next]_vars
    PROVE  [Image!ANext]_(Image!avars)
<1>1. ASSUME Mapped' = Mapped, Saved' = Saved, dsp' = dsp PROVE [Image!ANext]_(Image!avars)
  BY <1>1 DEF Mapped, Saved, Work, Image!avars
<1>2. ASSUME UNCHANGED <<driver, dsp>> PROVE Saved' = Saved /\ dsp' = dsp
  BY <1>2 DEF Saved, ReadBack, RecordsOf, IsInput
<1>3. CASE Start
  <2>1. ~Running /\ Running' /\ Work' = Saved /\ UNCHANGED <<driver, dsp>>
    BY <1>3 DEF Start, Running, Work, Saved
  <2>2. QED
    BY <1>1, <1>2, <2>1 DEF Mapped
<1>4. CASE Exit
  <2>1. ~Running' /\ UNCHANGED <<driver, dsp>>
    BY <1>4 DEF Exit, Running
  <2>2. Mapped' = Saved /\ Saved' = Saved /\ dsp' = dsp
    BY <1>2, <2>1 DEF Mapped
  <2>3. Image!AStart
    BY <2>2 DEF Mapped, Saved, Work, Image!AStart
  <2>4. QED
    BY <2>3 DEF Image!ANext
<1>5. ASSUME NEW p \in Patches, ReadPatch(p) PROVE Image!ANext
  <2>1. /\ Running /\ Running' /\ p \notin ToSet(ilist) \cup ToSet(olist)
        /\ Saved' = Saved /\ dsp' = dsp
    BY <1>2, <1>5, LoadedIs DEF ReadPatch, Editing, Running
  <2>2. \/ ilist' \in {<<p>> \o ilist, ilist \o <<p>>} /\ olist' = olist
        \/ olist' \in {<<p>> \o olist, olist \o <<p>>} /\ ilist' = ilist
    BY <1>5 DEF ReadPatch
  <2>3. Mapped = Work /\ Mapped' = Work'
    BY <2>1 DEF Mapped
  <2>4. Reads(Work, Work', p)
    <3>1. \A l : /\ [Work EXCEPT !.in = l] = [in |-> l, out |-> Work.out]
                 /\ [Work EXCEPT !.out = l] = [in |-> Work.in, out |-> l]
      BY DEF Work
    <3>2. /\ Work.in = ilist /\ Work.out = olist
          /\ Work' = [in |-> ilist', out |-> olist']
      BY DEF Work
    <3>3. CASE ilist' \in {<<p>> \o ilist, ilist \o <<p>>} /\ olist' = olist
      <4>1. Work' = [Work EXCEPT !.in = ilist']
        BY <3>1, <3>2, <3>3
      <4>2. QED
        BY <2>1, <3>2, <3>3, <4>1, Zenon DEF Reads
    <3>4. CASE olist' \in {<<p>> \o olist, olist \o <<p>>} /\ ilist' = ilist
      <4>1. Work' = [Work EXCEPT !.out = olist']
        BY <3>1, <3>2, <3>4
      <4>2. QED
        BY <2>1, <3>2, <3>4, <4>1, Zenon DEF Reads
    <3>5. QED
      BY <2>2, <3>3, <3>4
  <2>5. Reads(Mapped, Mapped', p)
    BY <2>3, <2>4
  <2>6. Image!AReadPatch(p)
    BY <2>1, <2>5 DEF Reads, Mapped, Saved, Work, Image!AReadPatch, Image!Loaded, Image!ToSet, ToSet
  <2>7. QED
    BY <2>6 DEF Image!ANext
<1>6. ASSUME NEW p \in Patches, UnloadPatch(p) PROVE Image!ANext
  <2>1. Running /\ Running' /\ Saved' = Saved /\ dsp' = dsp
    BY <1>2, <1>6 DEF UnloadPatch, Editing, Running
  <2>2. \/ \E j \in DOMAIN ilist : ilist[j] = p /\ ilist' = RemoveAt(ilist, j) /\ olist' = olist
        \/ \E j \in DOMAIN olist : olist[j] = p /\ olist' = RemoveAt(olist, j) /\ ilist' = ilist
    BY <1>6 DEF UnloadPatch
  <2>3. Mapped = Work /\ Mapped' = Work'
    BY <2>1 DEF Mapped
  <2>4. Unloads(Work, Work', p)
    BY <2>2 DEF Work, Unloads
  <2>5. Unloads(Mapped, Mapped', p)
    BY <2>3, <2>4
  <2>6. Image!AUnload(p)
    BY <2>1, <2>5 DEF Unloads, Mapped, Saved, Work, Image!AUnload, Image!RemoveAt, RemoveAt
  <2>7. QED
    BY <2>6 DEF Image!ANext
<1>7. CASE UnloadAll
  <2>1. Running /\ Running' /\ ilist' = <<>> /\ olist' = <<>> /\ Saved' = Saved /\ dsp' = dsp
    BY <1>2, <1>7 DEF UnloadAll, Editing, Running
  <2>2. Image!AUnloadAll
    BY <2>1 DEF Mapped, Saved, Work, Image!AUnloadAll, Image!NoPatches, Image!Lists
  <2>3. QED
    BY <2>2 DEF Image!ANext
<1>8. CASE Load
  <2>1. PICK n \in RSizes : LoadWith(n, Plus(Minus(free, rsize), n))
    BY <1>8 DEF Load
  <2>2. loads = 0 /\ loads' = 1
    <3>1. loads >= 0 /\ loads < 1 /\ loads' = loads + 1 /\ loads \in -1 .. MaxLoads
      BY <1>8, <2>1 DEF Load, LoadWith, Running, TInv
    <3>2. QED
      BY <3>1
  <2>3. dsp' = Image!Memory(Image!Program(Work, n))
    BY <2>1, <2>2, LoadImage
  <2>4. Work' = Work /\ Saved' = Work
    <3>1. ReadBack(TRUE)' = ReadOf(driver', TRUE) /\ ReadBack(FALSE)' = ReadOf(driver', FALSE)
      BY DEF ReadBack, ReadOf, RecordsOf, RecordsIn, IsInput
    <3>2. driver' = Driver(n) /\ ilist' = ilist /\ olist' = olist
      BY <2>1, LoadKept DEF LoadWith
    <3>3. ReadOf(driver', TRUE) = ilist /\ ReadOf(driver', FALSE) = olist
      BY <3>2, LoadReads
    <3>4. QED
      BY <3>1, <3>2, <3>3 DEF Work, Saved
  <2>5. Mapped = Work /\ Mapped' = Work
    BY <2>2, <2>4 DEF Mapped, Running
  <2>6. Image!ALoad
    BY <2>3, <2>4, <2>5 DEF Image!ALoad, Mapped, Saved, Work
  <2>7. QED
    BY <2>6 DEF Image!ANext
<1>9. CASE LoadPart
  BY <1>9, CountAssumption DEF LoadPart
<1>10. CASE UNCHANGED vars
  <2>1. Running' = Running /\ Work' = Work /\ UNCHANGED <<driver, dsp>>
    BY <1>10 DEF vars, Running, Work
  <2>2. QED
    BY <1>1, <1>2, <2>1 DEF Mapped
<1>11. QED
  BY <1>3, <1>4, <1>5, <1>6, <1>7, <1>8, <1>9, <1>10 DEF Next

\* A process that loads once leaves the DSP with the programs of its lists, in their
\* order and nothing else, and the next process finds the same lists: what load_patches(),
\* set_code_start() and get_patches() do implements DspImage.
THEOREM LoadsKeepImage == ASSUME MaxLoads = 1 PROVE Spec => KeepsImage
<1>1. Init => TInv /\ CInv /\ WInv /\ ImageInv
  BY InitTInv, InitCInv, InitWInv, InitImageInv
<1>2. TInv /\ CInv /\ WInv /\ ImageInv /\ [Next]_vars => (TInv /\ CInv /\ WInv /\ ImageInv)'
  BY NextTInv, NextCInv, NextWInv, NextImageInv
<1>3. Init => Image!AInit
  <2>1. SUFFICES ASSUME Init PROVE Image!AInit
    OBVIOUS
  <2>2. ReadBack(TRUE) = <<>> /\ ReadBack(FALSE) = <<>>
    <3>1. driver.patches = <<>> /\ DOMAIN driver.patches = {}
      BY <2>1 DEF Init
    <3>2. RecordsOf(TRUE) = {} /\ RecordsOf(FALSE) = {}
      BY <3>1 DEF RecordsOf
    <3>3. Cardinality({}) = 0
      BY FS_EmptySet
    <3>4. \A J : Cardinality(J) = 0 =>
             [k \in 1 .. Cardinality(J) |-> driver.patches[Nth(J, k)].patch] = <<>>
      OBVIOUS
    <3>5. QED
      BY <3>2, <3>3, <3>4 DEF ReadBack
  <2>3. dsp = Image!Memory(<<>>)
    BY <2>1, SizesAreNat DEF Init, Image!Memory
  <2>4. ~Running
    BY <2>1 DEF Init, Running
  <2>5. QED
    BY <2>2, <2>3, <2>4 DEF Image!AInit, Image!NoPatches, Image!Lists
<1>4. TInv /\ CInv /\ WInv /\ ImageInv /\ [Next]_vars => [Image!ANext]_(Image!avars)
  BY StepMaps
<1>5. QED
  BY <1>1, <1>2, <1>3, <1>4, PTL DEF Spec, KeepsImage, Image!ASpec
=============================================================================
