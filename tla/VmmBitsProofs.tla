---------------------------- MODULE VmmBitsProofs -----------------------------
(***************************************************************************)
(* Proofs about the bit maps of vmm, in bytes and words of any width:      *)
(*                                                                         *)
(*   objects of class bits: the count of ones is exact, for any number of  *)
(*   maps of any size;                                                     *)
(*   bits_regions: if the regions divide the size of every map and memory  *)
(*   suffices, then mask, counts and bits agree, for any number of regions *)
(*   of any size, and the map is a set of numbers;                         *)
(*   the searches: each finds the least one of a map with an exact count.  *)
(***************************************************************************)
EXTENDS VmmBitsObject, VmmBitsRegions, VmmBitSearch, NumberFacts

\* A map of n bits: its memory is the bytes its bits need, and its count is right.
MapRecord == [alloc : Nat, mem : SUBSET Nat, count : Nat, sets : Nat]
GoodBits(v, n) ==
    /\ v \in MapRecord
    /\ v.count = n /\ v.alloc = InBytes(n)
    /\ \A i \in v.mem : i < v.alloc
    /\ Exact(v)

-----------------------------------------------------------------------------
(* Numbers *)

\* Widths and bounds are numbers.
LEMMA Widths ==
  /\ ByteBits \in Nat /\ ByteBits > 0
  /\ SizeMax \in Nat
  /\ MaxCount \in Nat /\ MaxCount <= SizeMax
  /\ NumRegions \in Nat /\ NumRegions > 0 /\ MinCount \in Nat /\ MinCount > 0
  /\ Word \in Nat /\ Word > 0 /\ Group \in Nat /\ Group > 0
  /\ None \notin Nat
BY WidthsAssumption, MaxCountAssumption, RegionsAssumption, SearchAssumption

\* Bytes for n bits: enough, and less than one byte more.
LEMMA InBytesBounds ==
  ASSUME NEW n \in Nat
  PROVE  /\ InBytes(n) \in Nat
         /\ n <= InBytes(n) /\ InBytes(n) <= n + ByteBits - 1
         /\ n = 0 => InBytes(n) = 0
<1>1. PICK q : q = (n + ByteBits - 1) \div ByteBits
  OBVIOUS
<1>2. n + ByteBits - 1 \in Nat
  BY Widths
<1>3. /\ q \in Nat /\ q * ByteBits <= n + ByteBits - 1
      /\ n + ByteBits - 1 < q * ByteBits + ByteBits
  BY <1>1, <1>2, Widths, Z3
<1>4. q * ByteBits \in Nat
  BY <1>3, Widths
<1>5. InBytes(n) = q * ByteBits
  BY <1>1 DEF InBytes
<1>6. n <= InBytes(n) /\ InBytes(n) <= n + ByteBits - 1
  BY <1>3, <1>4, <1>5, Widths
<1>7. ASSUME n = 0
      PROVE  InBytes(n) = 0
  <2>1. q = 0
    BY <1>1, <1>7, Widths
  <2> QED
    BY <1>5, <2>1, Widths
<1> QED
  BY <1>4, <1>5, <1>6, <1>7

\* A product with a larger factor is larger.
LEMMA ProductsGrow ==
  ASSUME NEW d \in Nat, NEW a \in Nat, NEW b \in Nat, a < b
  PROVE  d * a \in Nat /\ d * b \in Nat /\ d * a + d <= d * b
<1>1. PICK e \in Nat : b = a + 1 + e
  <2>1. b - a - 1 \in Nat /\ b = a + 1 + (b - a - 1)
    OBVIOUS
  <2> QED
    BY <2>1
<1>2. d * b = d * a + d + d * e
  BY <1>1, Z3
<1>3. d * e \in Nat /\ d * a \in Nat /\ d * b \in Nat
  OBVIOUS
<1> QED
  BY <1>2, <1>3

\* Division with remainder: every number below d * k has one region and one place.
LEMMA OneRegion ==
  ASSUME NEW d \in Nat, NEW k \in Nat, NEW i \in Nat, i < d * k
  PROVE  /\ i \div d \in 0 .. k - 1 /\ i - d * (i \div d) \in 0 .. d - 1
         /\ i = d * (i \div d) + (i - d * (i \div d))
<1>1. d > 0
  BY Z3
<1>2. PICK q : q = i \div d
  OBVIOUS
<1>3. q \in Nat /\ d * q <= i /\ i < d * q + d /\ d * q \in Nat
  BY <1>1, <1>2, Z3
<1>4. q < k
  <2>1. CASE k <= q
    <3>1. CASE k = q
      BY <1>3, <3>1
    <3>2. CASE k < q
      BY <1>3, <3>2, ProductsGrow
    <3> QED
      BY <1>3, <2>1, <3>1, <3>2
  <2> QED
    BY <1>3, <2>1
<1> QED
  BY <1>2, <1>3, <1>4

\* And no two pairs of region and place are the same number.
LEMMA RegionUnique ==
  ASSUME NEW d \in Nat, NEW r \in Nat, NEW j \in 0 .. d - 1
  PROVE  (d * r + j) \div d = r
<1>1. PICK i : i = d * r + j
  OBVIOUS
<1>2. i \in Nat /\ d > 0 /\ d * r \in Nat
  BY <1>1
<1>3. PICK q : q = i \div d
  OBVIOUS
<1>4. q \in Nat /\ d * q <= i /\ i < d * q + d /\ d * q \in Nat
  BY <1>2, <1>3, Z3
<1>5. ~(q < r)
  BY <1>1, <1>2, <1>4, ProductsGrow
<1>6. ~(r < q)
  BY <1>1, <1>2, <1>4, ProductsGrow
<1> QED
  BY <1>1, <1>3, <1>4, <1>5, <1>6

-----------------------------------------------------------------------------
(* The members of bits keep a map good *)

\* A map without memory is good.
LEMMA EmptyBits == GoodBits(EmptyMap, 0) /\ Ones(EmptyMap) = {}
<1>1. Ones(EmptyMap) = {}
  BY DEF Ones, EmptyMap
<1>2. EmptyMap \in MapRecord
  BY DEF EmptyMap, MapRecord
<1> QED
  BY <1>1, <1>2, InBytesBounds, FS_EmptySet DEF GoodBits, EmptyMap, Exact

\* What is in a good map: as many ones as it says, and no more than it has bits.
LEMMA BitsOnes ==
  ASSUME NEW v, NEW n \in Nat, GoodBits(v, n)
  PROVE  /\ Ones(v) = Below(v.mem, n) /\ v.mem \in SUBSET Nat
         /\ v.sets = Cardinality(Ones(v)) /\ v.sets \in 0 .. n
         /\ Ones(v) \subseteq 0 .. n - 1
         /\ Ones(v) = {} <=> v.sets = 0
<1>1. Ones(v) = Below(v.mem, n) /\ v.mem \in SUBSET Nat
  BY DEF GoodBits, MapRecord, Ones, Below
<1>2. v.sets = Cardinality(Ones(v))
  BY DEF GoodBits, Exact
<1>3. Ones(v) \subseteq 0 .. n - 1
  <2>1. SUFFICES ASSUME NEW i \in Ones(v)
                 PROVE  i \in 0 .. n - 1
    OBVIOUS
  <2>2. i \in Nat /\ i < n
    BY <1>1 DEF Below
  <2> QED
    BY <2>2
<1> QED
  BY <1>1, <1>2, <1>3, BelowBounded

\* A new map has memory for its bits, all 0.
LEMMA NewBits ==
  ASSUME NEW v, GoodBits(v, 0), NEW n \in Nat, n > 0
  PROVE  LET w == Resize(v, n, TRUE, {}) IN GoodBits(w, n) /\ Ones(w) = {}
<1>1. v.alloc = 0 /\ v.count = 0 /\ v.sets = 0
  <2>1. v.sets \in 0 .. 0
    BY BitsOnes
  <2> QED
    BY <2>1, InBytesBounds DEF GoodBits
<1>2. PICK w : w = [v EXCEPT !.alloc = InBytes(n), !.mem = {}, !.count = n]
  OBVIOUS
<1>3. Resize(v, n, TRUE, {}) = w
  BY <1>1, <1>2 DEF Resize, NewMap
<1>4. w \in MapRecord /\ w.alloc = InBytes(n) /\ w.count = n /\ w.mem = {} /\ w.sets = 0
  <2>1. InBytes(n) \in Nat /\ {} \in SUBSET Nat
    BY InBytesBounds
  <2> QED
    BY <1>1, <1>2, <2>1 DEF GoodBits, MapRecord
<1>5. Ones(w) = {}
  BY <1>4 DEF Ones
<1>6. GoodBits(w, n)
  BY <1>4, <1>5, FS_EmptySet DEF GoodBits, Exact
<1> QED
  BY <1>3, <1>5, <1>6

\* all_set: as many ones as it has bits, whatever its last byte holds.
LEMMA FullBits ==
  ASSUME NEW v, NEW n \in Nat, n > 0, GoodBits(v, n)
  PROVE  GoodBits(AllSet(v), n) /\ Ones(AllSet(v)) = 0 .. n - 1
<1>1. v.alloc \in Nat /\ v.alloc >= n /\ v.count = n
  BY InBytesBounds DEF GoodBits
<1>2. PICK w : w = [v EXCEPT !.mem = 0 .. v.alloc - 1, !.sets = v.count]
  OBVIOUS
<1>3. AllSet(v) = w
  BY <1>1, <1>2 DEF AllSet
<1>4. /\ w \in MapRecord /\ w.alloc = v.alloc /\ w.count = n
      /\ w.mem = 0 .. v.alloc - 1 /\ w.sets = n
  <2>1. 0 .. v.alloc - 1 \in SUBSET Nat
    BY <1>1
  <2> QED
    BY <1>1, <1>2, <2>1 DEF GoodBits, MapRecord
<1>5. 0 .. n - 1 \subseteq w.mem /\ w.mem \subseteq Nat /\ \A i \in w.mem : i < w.alloc
  BY <1>1, <1>4
<1>6. Ones(w) = Below(w.mem, n)
  BY <1>4 DEF Ones, Below
<1>7. Ones(w) = 0 .. n - 1 /\ Cardinality(Ones(w)) = n
  BY <1>5, <1>6, BelowFull
<1>8. GoodBits(w, n)
  BY <1>4, <1>5, <1>7 DEF GoodBits, Exact
<1> QED
  BY <1>3, <1>7, <1>8

\* all_unset leaves no ones.
LEMMA ClearedBits ==
  ASSUME NEW v, NEW n \in Nat, n > 0, GoodBits(v, n)
  PROVE  GoodBits(AllUnset(v), n) /\ Ones(AllUnset(v)) = {}
<1>1. v.alloc \in Nat /\ v.alloc >= n
  BY InBytesBounds DEF GoodBits
<1>2. PICK w : w = [v EXCEPT !.mem = {}, !.sets = 0]
  OBVIOUS
<1>3. AllUnset(v) = w
  BY <1>1, <1>2 DEF AllUnset
<1>4. w \in MapRecord /\ w.alloc = v.alloc /\ w.count = n /\ w.mem = {} /\ w.sets = 0
  BY <1>2 DEF GoodBits, MapRecord
<1>5. Ones(w) = {}
  BY <1>4 DEF Ones
<1>6. GoodBits(w, n)
  BY <1>4, <1>5, FS_EmptySet DEF GoodBits, Exact
<1> QED
  BY <1>3, <1>5, <1>6

\* A bit that is set counts once, and the count does not wrap around.
LEMMA BitsWith ==
  ASSUME NEW v, NEW n \in Nat, n <= SizeMax, GoodBits(v, n), NEW i \in 0 .. n - 1
  PROVE  /\ GoodBits(SetBit(v, i), n) /\ Ones(SetBit(v, i)) = Ones(v) \cup {i}
         /\ SetBit(v, i) # v <=> i \notin Ones(v)
<1>1. v.mem \in SUBSET Nat /\ Ones(v) = Below(v.mem, n) /\ v.sets = Cardinality(Ones(v))
  BY BitsOnes
<1>2. i \in v.mem <=> i \in Ones(v)
  BY <1>1 DEF Below
<1>3. CASE i \in v.mem
  BY <1>2, <1>3 DEF SetBit
<1>4. CASE i \notin v.mem
  <2>1. PICK w : w = [v EXCEPT !.mem = @ \cup {i}, !.sets = Increment(@)]
    OBVIOUS
  <2>2. SetBit(v, i) = w
    BY <1>4, <2>1 DEF SetBit
  <2>3. /\ Below(v.mem \cup {i}, n) = Below(v.mem, n) \cup {i}
        /\ Cardinality(Below(v.mem \cup {i}, n)) = Cardinality(Below(v.mem, n)) + 1
        /\ Cardinality(Below(v.mem, n)) < n
    BY <1>1, <1>4, BelowWith
  <2>4. v.sets \in 0 .. n /\ v.sets < n
    BY <1>1, <2>3, BitsOnes
  <2>5. Increment(v.sets) = v.sets + 1
    BY <2>4, Widths DEF Increment
  <2>6. /\ w \in MapRecord /\ w.alloc = v.alloc /\ w.count = n
        /\ w.mem = v.mem \cup {i} /\ w.sets = v.sets + 1
    <3>1. v.mem \cup {i} \in SUBSET Nat /\ v.sets + 1 \in Nat
      BY <1>1, <2>4
    <3> QED
      BY <2>1, <2>5, <3>1 DEF GoodBits, MapRecord
  <2>7. Ones(w) = Below(v.mem \cup {i}, n)
    BY <2>6 DEF Ones, Below
  <2>8. \A j \in w.mem : j < w.alloc
    BY <2>6, InBytesBounds DEF GoodBits
  <2>9. GoodBits(w, n)
    BY <1>1, <2>3, <2>6, <2>7, <2>8 DEF GoodBits, Exact
  <2>10. w # v
    BY <1>4, <2>6
  <2> QED
    BY <1>1, <1>2, <1>4, <2>2, <2>3, <2>7, <2>9, <2>10
<1> QED
  BY <1>3, <1>4

\* A bit that is taken away counts no longer.
LEMMA BitsWithout ==
  ASSUME NEW v, NEW n \in Nat, GoodBits(v, n), NEW i \in 0 .. n - 1
  PROVE  /\ GoodBits(UnsetBit(v, i), n) /\ Ones(UnsetBit(v, i)) = Ones(v) \ {i}
         /\ UnsetBit(v, i) # v <=> i \in Ones(v)
<1>1. v.mem \in SUBSET Nat /\ Ones(v) = Below(v.mem, n) /\ v.sets = Cardinality(Ones(v))
  BY BitsOnes
<1>2. i \in v.mem <=> i \in Ones(v)
  BY <1>1 DEF Below
<1>3. CASE i \notin v.mem
  BY <1>2, <1>3 DEF UnsetBit
<1>4. CASE i \in v.mem
  <2>1. PICK w : w = [v EXCEPT !.mem = @ \ {i}, !.sets = Decrement(@)]
    OBVIOUS
  <2>2. UnsetBit(v, i) = w
    BY <1>4, <2>1 DEF UnsetBit
  <2>3. /\ Below(v.mem \ {i}, n) = Below(v.mem, n) \ {i}
        /\ Cardinality(Below(v.mem \ {i}, n)) = Cardinality(Below(v.mem, n)) - 1
        /\ Cardinality(Below(v.mem, n)) > 0
    BY <1>1, <1>4, BelowWithout
  <2>4. v.sets \in 0 .. n /\ v.sets > 0
    BY <1>1, <2>3, BitsOnes
  <2>5. Decrement(v.sets) = v.sets - 1
    BY <2>4 DEF Decrement
  <2>6. /\ w \in MapRecord /\ w.alloc = v.alloc /\ w.count = n
        /\ w.mem = v.mem \ {i} /\ w.sets = v.sets - 1
    <3>1. v.mem \ {i} \in SUBSET Nat /\ v.sets - 1 \in Nat
      BY <1>1, <2>4
    <3> QED
      BY <2>1, <2>5, <3>1 DEF GoodBits, MapRecord
  <2>7. Ones(w) = Below(v.mem \ {i}, n)
    BY <2>6 DEF Ones, Below
  <2>8. \A j \in w.mem : j < w.alloc
    BY <2>6 DEF GoodBits
  <2>9. GoodBits(w, n)
    BY <1>1, <2>3, <2>6, <2>7, <2>8 DEF GoodBits, Exact
  <2>10. w # v
    BY <1>4, <2>6
  <2> QED
    BY <1>1, <1>2, <1>4, <2>2, <2>3, <2>7, <2>9, <2>10
<1> QED
  BY <1>3, <1>4

-----------------------------------------------------------------------------
(* Objects of class bits *)

\* What every map satisfies.
GoodMap(v) == GoodBits(v, v.count) /\ v.count <= MaxCount

MapsInv ==
    /\ maps \in [Objects -> MapRecord]
    /\ \A o \in Objects : GoodMap(maps[o])

\* A map without bits has no memory, and one with bits has some.
LEMMA MemoryIfBits ==
  ASSUME NEW v, GoodMap(v)
  PROVE  v.count \in Nat /\ v.alloc \in Nat /\ (v.alloc = 0 <=> v.count = 0)
<1>1. v.count \in Nat /\ v.alloc = InBytes(v.count)
  BY DEF GoodMap, GoodBits, MapRecord
<1> QED
  BY <1>1, InBytesBounds

\* A good map is one of its type, and what CountExact says.
LEMMA GoodMaps ==
  ASSUME NEW v, GoodMap(v)
  PROVE  v \in Map(MaxCount) /\ MemoryCovers(v) /\ Exact(v)
<1>1. v \in MapRecord /\ v.count \in 0 .. MaxCount /\ Exact(v)
  BY DEF GoodMap, GoodBits, MapRecord
<1>2. v.count <= v.alloc /\ v.alloc <= v.count + ByteBits - 1 /\ v.alloc \in Nat
  BY <1>1, InBytesBounds DEF GoodMap, GoodBits
<1>3. v.alloc \in 0 .. MaxCount + ByteBits - 1
  BY <1>1, <1>2, Widths
<1>4. v.mem \in SUBSET (0 .. MaxCount + ByteBits - 2)
  BY <1>1, <1>3, Widths DEF GoodMap, GoodBits, MapRecord
<1>5. v.sets \in 0 .. SizeMax
  BY <1>1, BitsOnes, Widths DEF GoodMap
<1>6. MemoryCovers(v)
  BY <1>1, <1>2, MemoryIfBits DEF GoodMap, GoodBits, MemoryCovers
<1> QED
  BY <1>1, <1>3, <1>4, <1>5, <1>6 DEF Map, MapRecord

\* all_set and all_unset do nothing without memory.
LEMMA FillGood ==
  ASSUME NEW v, GoodMap(v)
  PROVE  GoodMap(AllSet(v)) /\ GoodMap(AllUnset(v))
<1>1. CASE v.alloc = 0
  BY <1>1 DEF AllSet, AllUnset
<1>2. CASE v.alloc # 0
  <2>1. v.count \in Nat /\ v.count > 0
    BY <1>2, MemoryIfBits
  <2>2. GoodBits(AllSet(v), v.count) /\ GoodBits(AllUnset(v), v.count)
    BY <2>1, FullBits, ClearedBits DEF GoodMap
  <2> QED
    BY <2>2 DEF GoodMap, GoodBits
<1> QED
  BY <1>1, <1>2

\* A bit that is set or unset leaves the size of the map.
LEMMA ChangeGood ==
  ASSUME NEW v, GoodMap(v), NEW i \in 0 .. v.count - 1
  PROVE  GoodMap(SetBit(v, i)) /\ GoodMap(UnsetBit(v, i))
<1>1. v.count \in Nat /\ v.count <= SizeMax
  BY MemoryIfBits, Widths DEF GoodMap
<1>2. GoodBits(SetBit(v, i), v.count) /\ GoodBits(UnsetBit(v, i), v.count)
  BY <1>1, BitsWith, BitsWithout DEF GoodMap
<1> QED
  BY <1>2 DEF GoodMap, GoodBits

\* Counting again changes nothing.
LEMMA RecountedSame ==
  ASSUME NEW v, GoodMap(v)
  PROVE  [v EXCEPT !.sets = Recounted(v, v.mem, {})] = v
<1>1. {i \in v.mem \cup {} : i < v.count} = Ones(v)
  BY DEF Ones
<1>2. Recounted(v, v.mem, {}) = v.sets
  BY <1>1 DEF Recounted, GoodMap, GoodBits, Exact
<1> QED
  BY <1>2 DEF GoodMap, GoodBits, MapRecord

\* A map gets its size when it has none, or loses it.
LEMMA ResizeGood ==
  ASSUME NEW v, GoodMap(v), NEW n \in 0 .. MaxCount, NEW ok \in BOOLEAN, NEW junk,
         v.count = 0 \/ n = 0
  PROVE  GoodMap(Resize(v, n, ok, junk))
<1>1. CASE n = 0
  BY <1>1, EmptyBits DEF Resize, GoodMap, EmptyMap
<1>2. CASE n > 0
  <2>1. v.count = 0 /\ v.alloc = 0
    BY <1>2, MemoryIfBits
  <2>2. Resize(v, n, ok, junk) = NewMap(v, n, ok)
    BY <1>2, <2>1 DEF Resize
  <2>3. CASE ~ok
    BY <2>2, <2>3 DEF NewMap
  <2>4. CASE ok
    <3>1. Resize(v, n, TRUE, {}) = NewMap(v, n, TRUE)
      BY <1>2, <2>1 DEF Resize
    <3>2. n \in Nat /\ n <= MaxCount /\ GoodBits(v, 0)
      BY <2>1, Widths DEF GoodMap
    <3>3. GoodBits(Resize(v, n, TRUE, {}), n)
      BY <1>2, <3>2, NewBits
    <3>4. PICK w : w = NewMap(v, n, TRUE)
      OBVIOUS
    <3>5. GoodBits(w, n)
      BY <3>1, <3>3, <3>4
    <3>6. GoodMap(w)
      BY <3>2, <3>5 DEF GoodMap, GoodBits
    <3> QED
      BY <2>2, <2>4, <3>4, <3>6
  <2> QED
    BY <2>3, <2>4
<1> QED
  BY <1>1, <1>2

\* A copy into a new object has the count of the original, or no memory.
LEMMA AssignGood ==
  ASSUME NEW v, GoodMap(v), v.count = 0, NEW w, GoodMap(w), NEW ok \in BOOLEAN, NEW junk
  PROVE  GoodMap(Assign(v, w, ok, junk))
<1>1. PICK sized : sized = Resize(v, w.count, ok, junk)
  OBVIOUS
<1>2. w.count \in 0 .. MaxCount
  BY MemoryIfBits DEF GoodMap
<1>3. GoodMap(sized)
  BY <1>1, <1>2, ResizeGood
<1>4. CASE sized.alloc = 0
  BY <1>1, <1>3, <1>4 DEF Assign
<1>5. CASE sized.alloc # 0
  <2>1. v.alloc = 0
    BY MemoryIfBits
  <2>2. w.count # 0 /\ sized = NewMap(v, w.count, ok)
    BY <1>1, <1>2, <1>5, <2>1 DEF Resize
  <2>3. sized = [v EXCEPT !.alloc = InBytes(w.count), !.mem = {}, !.count = w.count]
    BY <1>5, <2>1, <2>2 DEF NewMap
  <2>4. sized \in MapRecord /\ sized.count = w.count /\ sized.alloc = InBytes(w.count)
    BY <1>3, <2>3 DEF GoodMap, GoodBits, MapRecord
  <2>5. PICK x : x = [sized EXCEPT !.mem = w.mem, !.sets = w.sets]
    OBVIOUS
  <2>6. /\ x \in MapRecord /\ x.alloc = InBytes(w.count) /\ x.count = w.count
        /\ x.mem = w.mem /\ x.sets = w.sets
    BY <2>4, <2>5 DEF GoodMap, GoodBits, MapRecord
  <2>7. Ones(x) = Ones(w)
    BY <2>6 DEF Ones
  <2>8. GoodMap(x)
    BY <2>6, <2>7 DEF GoodMap, GoodBits, Exact
  <2> QED
    BY <1>1, <1>5, <2>5, <2>8 DEF Assign
<1> QED
  BY <1>4, <1>5

\* A good map in the place of one leaves all maps good.
LEMMA BecomeGood ==
  ASSUME MapsInv, NEW o \in Objects, NEW v, GoodMap(v), Become(o, v)
  PROVE  MapsInv'
<1>1. v \in MapRecord
  BY DEF GoodMap, GoodBits
<1>2. maps' \in [Objects -> MapRecord]
  BY <1>1 DEF MapsInv, Become
<1>3. \A p \in Objects : maps'[p] = IF p = o THEN v ELSE maps[p]
  BY DEF MapsInv, Become
<1>4. \A p \in Objects : GoodMap(maps'[p])
  BY <1>3 DEF MapsInv
<1> QED
  BY <1>2, <1>4 DEF MapsInv, GoodMap, GoodBits, Exact

\* Every call keeps all maps good.
LEMMA ObjectsNextInv ==
  ASSUME MapsInv, [UsedNext]_maps
  PROVE  MapsInv'
<1>1. CASE UNCHANGED maps
  BY <1>1 DEF MapsInv, GoodMap, GoodBits, Exact
<1>2. CASE UsedNext
  <2>1. PICK o \in Objects :
          \/ \E n \in 0 .. MaxCount : (Unsized(o) \/ n = 0) /\ ResizeObject(o, n)
          \/ Fill(o)
          \/ Change(o)
          \/ UpdateSets(o)
          \/ \E p \in Objects \ {o} : Unsized(o) /\ AssignObject(o, p)
    BY <1>2 DEF UsedNext
  <2>2. \A p \in Objects : GoodMap(maps[p])
    BY DEF MapsInv
  <2>3. ASSUME NEW n \in 0 .. MaxCount, Unsized(o) \/ n = 0, ResizeObject(o, n)
        PROVE  MapsInv'
    <3>1. PICK ok \in BOOLEAN, junk \in JunkOf(maps[o], n) :
             Become(o, Resize(maps[o], n, ok, junk))
      BY <2>3 DEF ResizeObject
    <3>2. GoodMap(Resize(maps[o], n, ok, junk))
      BY <2>2, <2>3, ResizeGood DEF Unsized
    <3> QED
      BY <3>1, <3>2, BecomeGood
  <2>4. CASE Fill(o)
    BY <2>2, <2>4, FillGood, BecomeGood DEF Fill
  <2>5. CASE Change(o)
    BY <2>2, <2>5, ChangeGood, BecomeGood DEF Change
  <2>6. CASE UpdateSets(o)
    <3>1. Become(o, maps[o])
      BY <2>2, <2>6, RecountedSame DEF UpdateSets
    <3> QED
      BY <2>2, <3>1, BecomeGood
  <2>7. ASSUME NEW p \in Objects \ {o}, Unsized(o), AssignObject(o, p)
        PROVE  MapsInv'
    <3>1. PICK ok \in BOOLEAN, junk \in JunkOf(maps[o], maps[p].count) :
             Become(o, Assign(maps[o], maps[p], ok, junk))
      BY <2>7 DEF AssignObject
    <3>2. GoodMap(Assign(maps[o], maps[p], ok, junk))
      BY <2>2, <2>7, AssignGood DEF Unsized
    <3> QED
      BY <3>1, <3>2, BecomeGood
  <2> QED
    BY <2>1, <2>3, <2>4, <2>5, <2>6, <2>7
<1> QED
  BY <1>1, <1>2

\* The invariant of the objects.
THEOREM MapsInvariant == UsedSpec => []MapsInv
<1>1. ObjectsInit => MapsInv
  BY EmptyBits, Widths DEF ObjectsInit, MapsInv, GoodMap, GoodBits, EmptyMap
<1> QED
  BY <1>1, ObjectsNextInv, PTL DEF UsedSpec

\* Every map keeps its type: memory of whole bytes, and a count that never wraps around.
THEOREM MapsTypeCorrect == UsedSpec => []ObjectsTypeOK
<1>1. MapsInv => ObjectsTypeOK
  BY GoodMaps DEF MapsInv, ObjectsTypeOK
<1> QED
  BY <1>1, MapsInvariant, PTL

\* _sets is the number of ones after any sequence of calls.
THEOREM CountIsExact == UsedSpec => []CountExact
<1>1. MapsInv => CountExact
  BY GoodMaps DEF MapsInv, CountExact
<1> QED
  BY <1>1, MapsInvariant, PTL

-----------------------------------------------------------------------------
(* The map of regions *)

\* What the theorems ask of the sizes: vmm has 16 regions and 65536 bits.
RegionsDivide == \A n \in Sizes : RoundedSize(n) % NumRegions = 0

ShapeInv ==
    /\ distance \in Nat /\ count = distance * NumRegions
    /\ count \in Nat /\ count <= SizeMax
    /\ count = 0 \/ count >= MinCount

RegionsInv ==
    /\ regionBits \in [Regions -> MapRecord]
    /\ \A r \in Regions : GoodBits(regionBits[r], distance)

MaskInv ==
    /\ regionMap \subseteq Regions
    /\ \A r \in Regions : r \in regionMap <=> Ones(regionBits[r]) # {}

WholeMapInv == ShapeInv /\ RegionsInv /\ MaskInv /\ sets = Cardinality(AllOnes)

FlatOnes(bits, d) ==
    UNION {{d * r + i : i \in Ones(bits[r])} : r \in Regions}

\* A number is in the map if its place is in its region.
LEMMA Flattened ==
  ASSUME NEW d \in Nat, NEW bits, \A r \in Regions : Ones(bits[r]) \subseteq 0 .. d - 1
  PROVE  /\ FlatOnes(bits, d) \subseteq Nat
         /\ \A i \in Nat :
               i \in FlatOnes(bits, d)
                 <=> i < d * NumRegions /\ i - d * (i \div d) \in Ones(bits[i \div d])
<1>1. ASSUME NEW r \in Regions, NEW j \in Ones(bits[r])
      PROVE  LET i == d * r + j IN
             i \in Nat /\ i < d * NumRegions /\ i \div d = r /\ i - d * (i \div d) = j
  <2>1. r \in Nat /\ r < NumRegions /\ j \in 0 .. d - 1
    BY <1>1, Widths DEF Regions
  <2>2. d * r \in Nat /\ d * NumRegions \in Nat /\ d * r + d <= d * NumRegions
    BY <2>1, ProductsGrow, Widths
  <2>3. (d * r + j) \div d = r
    BY <2>1, RegionUnique
  <2>4. PICK i : i = d * r + j
    OBVIOUS
  <2>5. i \in Nat /\ i < d * NumRegions
    BY <2>1, <2>2, <2>4
  <2>6. i \div d = r
    BY <2>3, <2>4
  <2>7. i - d * r = j
    BY <2>1, <2>2, <2>4
  <2>8. i - d * (i \div d) = j
    BY <2>6, <2>7
  <2> QED
    BY <2>4, <2>5, <2>6, <2>8
<1>2. ASSUME NEW i \in Nat, i < d * NumRegions, i - d * (i \div d) \in Ones(bits[i \div d])
      PROVE  i \in FlatOnes(bits, d)
  <2>1. PICK r, j : r = i \div d /\ j = i - d * (i \div d)
    OBVIOUS
  <2>2. r \in Regions /\ i = d * r + j
    BY <1>2, <2>1, OneRegion, Widths DEF Regions
  <2> QED
    BY <1>2, <2>1, <2>2 DEF FlatOnes
<1>3. ASSUME NEW i \in FlatOnes(bits, d)
      PROVE  /\ i \in Nat /\ i < d * NumRegions
             /\ i - d * (i \div d) \in Ones(bits[i \div d])
  <2>1. PICK r \in Regions : \E j \in Ones(bits[r]) : i = d * r + j
    BY <1>3 DEF FlatOnes
  <2>2. PICK j \in Ones(bits[r]) : i = d * r + j
    BY <2>1
  <2> QED
    BY <1>1, <2>2
<1> QED
  BY <1>2, <1>3

\* One bit more or less in one region is one number more or less in the map.
LEMMA FlattenedWith ==
  ASSUME NEW d \in Nat, NEW bits, \A r \in Regions : Ones(bits[r]) \subseteq 0 .. d - 1,
         NEW i \in Nat, i < d * NumRegions,
         NEW bits2, \A r \in Regions : Ones(bits2[r]) \subseteq 0 .. d - 1,
         \A r \in Regions : r # i \div d => Ones(bits2[r]) = Ones(bits[r])
  PROVE  /\ Ones(bits2[i \div d]) = Ones(bits[i \div d]) \cup {i - d * (i \div d)}
              => FlatOnes(bits2, d) = FlatOnes(bits, d) \cup {i}
         /\ Ones(bits2[i \div d]) = Ones(bits[i \div d]) \ {i - d * (i \div d)}
              => FlatOnes(bits2, d) = FlatOnes(bits, d) \ {i}
<1>1. /\ FlatOnes(bits, d) \subseteq Nat
      /\ \A x \in Nat : x \in FlatOnes(bits, d)
            <=> x < d * NumRegions /\ x - d * (x \div d) \in Ones(bits[x \div d])
  BY Flattened
<1>2. /\ FlatOnes(bits2, d) \subseteq Nat
      /\ \A x \in Nat : x \in FlatOnes(bits2, d)
            <=> x < d * NumRegions /\ x - d * (x \div d) \in Ones(bits2[x \div d])
  BY Flattened
<1>3. ASSUME NEW x \in Nat, x < d * NumRegions
      PROVE  /\ x \div d \in Regions
             /\ x = d * (x \div d) + (x - d * (x \div d))
  BY <1>3, OneRegion, Widths DEF Regions
<1>4. PICK q : q = i \div d
  OBVIOUS
<1>5. PICK p : p = i - d * q
  OBVIOUS
<1>6. q \in Regions /\ i = d * q + p
  BY <1>3, <1>4, <1>5
<1>7. ASSUME NEW x \in Nat, x < d * NumRegions, x # i, x \div d = q
      PROVE  x - d * q # p
  BY <1>3, <1>6, <1>7
<1>8. ASSUME NEW x \in Nat, x < d * NumRegions, x # i,
             \/ Ones(bits2[q]) = Ones(bits[q]) \cup {p}
             \/ Ones(bits2[q]) = Ones(bits[q]) \ {p}
      PROVE  x \in FlatOnes(bits2, d) <=> x \in FlatOnes(bits, d)
  <2>1. PICK r, j : r = x \div d /\ j = x - d * r
    OBVIOUS
  <2>2. r \in Regions
    BY <1>3, <1>8, <2>1
  <2>3. j \in Ones(bits2[r]) <=> j \in Ones(bits[r])
    BY <1>4, <1>7, <1>8, <2>1, <2>2
  <2>4. /\ x \in FlatOnes(bits, d) <=> j \in Ones(bits[r])
        /\ x \in FlatOnes(bits2, d) <=> j \in Ones(bits2[r])
    BY <1>1, <1>2, <1>8, <2>1
  <2> QED
    BY <2>3, <2>4
<1>9. i \in FlatOnes(bits2, d) <=> p \in Ones(bits2[q])
  BY <1>2, <1>4, <1>5
<1>10. CASE Ones(bits2[q]) = Ones(bits[q]) \cup {p}
  <2>1. i \in FlatOnes(bits2, d)
    BY <1>9, <1>10
  <2>2. \A x \in Nat : x \in FlatOnes(bits2, d) <=> x \in FlatOnes(bits, d) \cup {i}
    BY <1>1, <1>2, <1>8, <1>10, <2>1
  <2>3. FlatOnes(bits2, d) = FlatOnes(bits, d) \cup {i}
    BY <1>1, <1>2, <2>2
  <2>4. Ones(bits2[q]) # Ones(bits[q]) \ {p}
    BY <1>10
  <2> QED
    BY <1>4, <1>5, <2>3, <2>4
<1>11. CASE Ones(bits2[q]) = Ones(bits[q]) \ {p}
  <2>1. i \notin FlatOnes(bits2, d)
    BY <1>9, <1>11
  <2>2. \A x \in Nat : x \in FlatOnes(bits2, d) <=> x \in FlatOnes(bits, d) \ {i}
    BY <1>1, <1>2, <1>8, <1>11, <2>1
  <2>3. FlatOnes(bits2, d) = FlatOnes(bits, d) \ {i}
    BY <1>1, <1>2, <2>2
  <2>4. Ones(bits2[q]) # Ones(bits[q]) \cup {p}
    BY <1>11
  <2> QED
    BY <1>4, <1>5, <2>3, <2>4
<1> QED
  BY <1>4, <1>5, <1>10, <1>11

\* The ones of the map, as a function of regions and distance.
LEMMA AllOnesAre == AllOnes = FlatOnes(regionBits, distance)
BY DEF AllOnes, FlatOnes, RegionStart

\* In a map in which all regions are good, the ones are below its size.
LEMMA AllOnesFacts ==
  ASSUME ShapeInv, RegionsInv
  PROVE  /\ AllOnes \subseteq Nat /\ AllOnes \subseteq 0 .. count - 1
         /\ \A r \in Regions : Ones(regionBits[r]) \subseteq 0 .. distance - 1
         /\ IsFiniteSet(AllOnes) /\ Cardinality(AllOnes) \in 0 .. count
         /\ AllOnes = {} <=> Cardinality(AllOnes) = 0
         /\ Cardinality(AllOnes) = count => AllOnes = 0 .. count - 1
<1>1. \A r \in Regions : Ones(regionBits[r]) \subseteq 0 .. distance - 1
  BY BitsOnes DEF RegionsInv, ShapeInv
<1>2. AllOnes \subseteq Nat /\ \A i \in AllOnes : i < count
  BY <1>1, Flattened, AllOnesAre DEF ShapeInv
<1>3. AllOnes = Below(AllOnes, count)
  BY <1>2 DEF Below
<1>4. AllOnes \subseteq 0 .. count - 1
  BY <1>2 DEF ShapeInv
<1>5. /\ IsFiniteSet(AllOnes) /\ Cardinality(AllOnes) \in Nat
      /\ Cardinality(AllOnes) <= count
      /\ Cardinality(AllOnes) = count => AllOnes = 0 .. count - 1
      /\ AllOnes = {} <=> Cardinality(AllOnes) = 0
  BY <1>2, <1>3, BelowBounded DEF ShapeInv
<1> QED
  BY <1>1, <1>2, <1>4, <1>5 DEF ShapeInv

\* A page's size: vmm's rounding leaves it below SizeMax.
LEMMA RoundedSizes ==
  ASSUME NEW n \in Sizes
  PROVE  RoundedSize(n) \in Nat /\ RoundedSize(n) <= SizeMax
<1>1. n \in Nat /\ Multiple \in Nat /\ Multiple > 0 /\ SizeMax \in Nat
  BY RegionsAssumption, Widths
<1>2. PICK x : x = (n * Multiple) % (SizeMax + 1)
  OBVIOUS
<1>3. x \in Nat /\ x <= SizeMax
  <2>1. n * Multiple \in Nat
    BY <1>1
  <2> QED
    BY <1>1, <1>2, <2>1
<1>4. x \div Multiple \in Nat /\ x \div Multiple <= x
  BY <1>1, <1>3, Z3
<1> QED
  BY <1>1, <1>2, <1>3, <1>4 DEF RoundedSize

\* Every region gets the same number of bits, and memory for them.
LEMMA SetSizeStep ==
  ASSUME RegionsDivide, MemoryFails = FALSE, WholeMapInv, SetSize
  PROVE  WholeMapInv'
<1> USE DEF WholeMapInv
<1>1. PICK n : /\ n \in Nat /\ n <= SizeMax /\ n % NumRegions = 0
               /\ ResizeRegions(n)
  BY RoundedSizes DEF SetSize, RegionsDivide
<1>2. PICK d : d = n \div NumRegions
  OBVIOUS
<1>3. /\ n >= MinCount /\ count = 0 /\ distance' = d /\ count' = n
      /\ regionMap' = {} /\ sets' = 0
  BY <1>1, <1>2 DEF ResizeRegions
<1>4. d \in Nat /\ n = d * NumRegions
  BY <1>1, <1>2, Widths, Z3
<1>5. d > 0
  BY <1>3, <1>4, Widths
<1>6. distance = 0
  BY <1>3, Widths, Z3 DEF ShapeInv
<1>7. \A r \in Regions : RegionEnd(n, d, r) - d * r = d
  <2>1. TAKE r \in Regions
  <2>2. r \in Nat
    BY DEF Regions
  <2>3. CASE r = NumRegions - 1
    <3>1. NumRegions = r + 1 /\ n = d * (r + 1)
      BY <1>4, <2>2, <2>3, Widths
    <3>2. d * (r + 1) = d * r + d
      BY <1>4, <2>2, Z3
    <3>3. d * r \in Nat
      BY <1>4, <2>2
    <3> QED
      BY <1>4, <2>3, <3>1, <3>2, <3>3 DEF RegionEnd
  <2>4. CASE r # NumRegions - 1
    <3>1. d * (r + 1) = d * r + d
      BY <1>4, <2>2, Z3
    <3>2. d * r \in Nat
      BY <1>4, <2>2
    <3> QED
      BY <1>4, <2>4, <3>1, <3>2 DEF RegionEnd
  <2> QED
    BY <2>3, <2>4
<1>8. PICK ok \in [Regions -> {TRUE}] :
         regionBits' = [r \in Regions |->
             Resize(regionBits[r], RegionEnd(n, d, r) - d * r, ok[r], {})]
  BY <1>1, <1>3 DEF ResizeRegions
<1>9. \A r \in Regions : regionBits'[r] = Resize(regionBits[r], d, TRUE, {})
  BY <1>7, <1>8
<1>10. \A r \in Regions : GoodBits(regionBits'[r], d) /\ Ones(regionBits'[r]) = {}
  BY <1>4, <1>5, <1>6, <1>9, NewBits DEF RegionsInv
<1>11. AllOnes' = {}
  BY <1>10 DEF AllOnes
<1>12. regionBits' \in [Regions -> MapRecord]
  BY <1>8, <1>10 DEF GoodBits
<1>13. ShapeInv'
  BY <1>1, <1>3, <1>4 DEF ShapeInv
<1>14. RegionsInv'
  BY <1>3, <1>10, <1>12 DEF RegionsInv
<1>15. MaskInv'
  BY <1>3, <1>10 DEF MaskInv
<1> QED
  BY <1>3, <1>11, <1>13, <1>14, <1>15, FS_EmptySet

\* A map with bits has some in every region.
LEMMA SizedMap ==
  ASSUME ShapeInv, count > 0
  PROVE  distance > 0
BY Widths, Z3 DEF ShapeInv

\* All bits become 1: then the map has all numbers below its size.
LEMMA FillStep ==
  ASSUME WholeMapInv, count > 0, AllRegionsSet
  PROVE  WholeMapInv' /\ AllOnes' = 0 .. count - 1
<1> USE DEF WholeMapInv
<1>1. /\ regionBits' = [r \in Regions |-> AllSet(regionBits[r])]
      /\ sets' = count /\ regionMap' = Regions /\ distance' = distance /\ count' = count
  BY DEF AllRegionsSet
<1>2. distance > 0 /\ distance \in Nat
  BY SizedMap DEF ShapeInv
<1>3. \A r \in Regions : /\ GoodBits(regionBits'[r], distance)
                         /\ Ones(regionBits'[r]) = 0 .. distance - 1
  BY <1>1, <1>2, FullBits DEF RegionsInv
<1>4. regionBits' \in [Regions -> MapRecord]
  BY <1>1, <1>3 DEF GoodBits
<1>5. AllOnes' = FlatOnes(regionBits', distance)
  BY <1>1 DEF AllOnes, FlatOnes, RegionStart
<1>6. /\ AllOnes' \subseteq Nat
      /\ \A i \in Nat : i \in AllOnes'
            <=> i < count /\ i - distance * (i \div distance) \in 0 .. distance - 1
  <2>1. PICK bits : bits = regionBits'
    OBVIOUS
  <2>2. /\ FlatOnes(bits, distance) \subseteq Nat
        /\ \A i \in Nat :
              i \in FlatOnes(bits, distance)
                <=> /\ i < distance * NumRegions
                    /\ i - distance * (i \div distance) \in Ones(bits[i \div distance])
    BY <1>2, <1>3, <2>1, Flattened
  <2>3. \A i \in Nat : i < distance * NumRegions => i \div distance \in Regions
    BY <1>2, OneRegion, Widths DEF Regions
  <2> QED
    BY <1>3, <1>5, <2>1, <2>2, <2>3 DEF ShapeInv
<1>7. \A i \in Nat : i < count => i - distance * (i \div distance) \in 0 .. distance - 1
  BY <1>2, OneRegion, Widths DEF ShapeInv
<1>8. AllOnes' = 0 .. count - 1
  <2>1. \A i \in Nat : i \in AllOnes' <=> i < count
    BY <1>6, <1>7
  <2>2. PICK S, n : S = AllOnes' /\ n = count
    OBVIOUS
  <2>3. S \subseteq Nat /\ n \in Nat /\ \A i \in Nat : i \in S <=> i < n
    BY <1>6, <2>1, <2>2 DEF ShapeInv
  <2>4. ASSUME NEW i
        PROVE  i \in S <=> i \in 0 .. n - 1
    <3>1. i \in 0 .. n - 1 <=> i \in Nat /\ i < n
      BY <2>3
    <3> QED
      BY <2>3, <3>1
  <2> QED
    BY <2>2, <2>4
<1>9. Cardinality(AllOnes') = count
  <2>1. 0 .. count - 1 \subseteq Nat /\ count \in Nat
    BY DEF ShapeInv
  <2>2. Below(0 .. count - 1, count) = 0 .. count - 1
        /\ Cardinality(Below(0 .. count - 1, count)) = count
    BY <2>1, BelowFull
  <2> QED
    BY <1>8, <2>2
<1>10. MaskInv'
  <2>1. 0 .. distance - 1 # {}
    <3>1. 0 \in 0 .. distance - 1
      BY <1>2
    <3> QED
      BY <3>1
  <2> QED
    BY <1>1, <1>3, <2>1 DEF MaskInv
<1>11. ShapeInv' /\ RegionsInv'
  BY <1>1, <1>3, <1>4 DEF ShapeInv, RegionsInv
<1> QED
  BY <1>1, <1>8, <1>9, <1>10, <1>11

\* All bits become 0.
LEMMA ClearStep ==
  ASSUME WholeMapInv, count > 0, AllRegionsUnset
  PROVE  WholeMapInv' /\ AllOnes' = {}
<1> USE DEF WholeMapInv
<1>1. /\ regionBits' = [r \in Regions |-> AllUnset(regionBits[r])]
      /\ sets' = 0 /\ regionMap' = {} /\ distance' = distance /\ count' = count
  BY DEF AllRegionsUnset
<1>2. distance > 0 /\ distance \in Nat
  BY SizedMap DEF ShapeInv
<1>3. \A r \in Regions : GoodBits(regionBits'[r], distance) /\ Ones(regionBits'[r]) = {}
  BY <1>1, <1>2, ClearedBits DEF RegionsInv
<1>4. regionBits' \in [Regions -> MapRecord]
  BY <1>1, <1>3 DEF GoodBits
<1>5. AllOnes' = {}
  BY <1>3 DEF AllOnes
<1>6. ShapeInv' /\ RegionsInv' /\ MaskInv'
  BY <1>1, <1>3, <1>4 DEF ShapeInv, RegionsInv, MaskInv
<1> QED
  BY <1>1, <1>5, <1>6, FS_EmptySet

\* Every bit of the map has a region and a place in it.
LEMMA BitHasRegion ==
  ASSUME ShapeInv, NEW i \in 0 .. count - 1
  PROVE  /\ RegionOf(i) \in Regions /\ PlaceOf(i) \in 0 .. distance - 1
         /\ RegionOf(i) = i \div distance
         /\ PlaceOf(i) = i - distance * (i \div distance)
         /\ i \in Nat /\ i < distance * NumRegions
<1>1. i \in Nat /\ i < distance * NumRegions
  BY DEF ShapeInv
<1> QED
  BY <1>1, OneRegion, Widths DEF ShapeInv, RegionOf, PlaceOf, RegionStart, Regions

\* A bit becomes 1.
LEMMA SetStep ==
  ASSUME WholeMapInv, NEW i \in 0 .. count - 1, Set(i)
  PROVE  WholeMapInv' /\ AllOnes' = AllOnes \cup {i}
<1> USE DEF WholeMapInv
<1>1. PICK r, p, v : /\ r = RegionOf(i) /\ p = PlaceOf(i)
                     /\ v = SetBit(regionBits[r], p)
  OBVIOUS
<1>2. /\ r \in Regions /\ p \in 0 .. distance - 1 /\ distance \in Nat
      /\ r = i \div distance /\ p = i - distance * (i \div distance)
      /\ i \in Nat /\ i < distance * NumRegions
  BY <1>1, BitHasRegion DEF ShapeInv
<1>3. /\ regionBits' = [regionBits EXCEPT ![r] = v]
      /\ distance' = distance /\ count' = count
      /\ v # regionBits[r] => regionMap' = regionMap \cup {r} /\ sets' = Increment(sets)
      /\ v = regionBits[r] => regionMap' = regionMap /\ sets' = sets
  BY <1>1 DEF Set, Marked
<1>4. distance <= SizeMax
  BY <1>2, Widths, Z3 DEF ShapeInv
<1>5. /\ GoodBits(v, distance) /\ Ones(v) = Ones(regionBits[r]) \cup {p}
      /\ v # regionBits[r] <=> p \notin Ones(regionBits[r])
  BY <1>1, <1>2, <1>4, BitsWith DEF RegionsInv
<1>6. \A q \in Regions : regionBits'[q] = IF q = r THEN v ELSE regionBits[q]
  BY <1>3 DEF RegionsInv
<1>7. regionBits' \in [Regions -> MapRecord]
  BY <1>3, <1>5 DEF RegionsInv, GoodBits
<1>8. RegionsInv' /\ ShapeInv'
  BY <1>3, <1>5, <1>6, <1>7 DEF RegionsInv, ShapeInv
<1>9. MaskInv'
  BY <1>2, <1>3, <1>5, <1>6 DEF MaskInv
<1>10. AllOnes' = AllOnes \cup {i}
  <2>1. PICK bits2 : bits2 = regionBits'
    OBVIOUS
  <2>2. \A q \in Regions : Ones(bits2[q]) \subseteq 0 .. distance - 1
    BY <1>3, <1>8, <2>1, <1>2, BitsOnes DEF RegionsInv
  <2>3. \A q \in Regions : Ones(regionBits[q]) \subseteq 0 .. distance - 1
    BY AllOnesFacts
  <2>4. FlatOnes(bits2, distance) = FlatOnes(regionBits, distance) \cup {i}
    BY <1>2, <1>5, <1>6, <2>1, <2>2, <2>3, FlattenedWith
  <2>5. AllOnes' = FlatOnes(bits2, distance)
    BY <1>3, <2>1 DEF AllOnes, FlatOnes, RegionStart
  <2> QED
    BY <2>4, <2>5, AllOnesAre
<1>11. p \in Ones(regionBits[r]) <=> i \in AllOnes
  BY <1>2, AllOnesFacts, AllOnesAre, Flattened
<1>12. sets' = Cardinality(AllOnes')
  <2>1. CASE i \in AllOnes
    BY <1>3, <1>5, <1>10, <1>11, <2>1
  <2>2. CASE i \notin AllOnes
    <3>1. Cardinality(AllOnes \cup {i}) = Cardinality(AllOnes) + 1
      BY <2>2, AllOnesFacts, FS_AddElement
    <3>2. sets \in Nat /\ sets <= count /\ sets # count /\ count \in Nat /\ count <= SizeMax
      BY <2>2, AllOnesFacts DEF ShapeInv
    <3>3. Increment(sets) = sets + 1
      BY <3>2, Widths DEF Increment
    <3> QED
      BY <1>3, <1>5, <1>10, <1>11, <2>2, <3>1, <3>3
  <2> QED
    BY <2>1, <2>2
<1> QED
  BY <1>8, <1>9, <1>10, <1>12

\* The region leaves the mask with its last one.
LEMMA UnsetStep ==
  ASSUME WholeMapInv, NEW i \in 0 .. count - 1, Unset(i)
  PROVE  WholeMapInv' /\ AllOnes' = AllOnes \ {i}
<1> USE DEF WholeMapInv
<1>1. PICK r, p, v : /\ r = RegionOf(i) /\ p = PlaceOf(i)
                     /\ v = UnsetBit(regionBits[r], p)
  OBVIOUS
<1>2. /\ r \in Regions /\ p \in 0 .. distance - 1 /\ distance \in Nat
      /\ r = i \div distance /\ p = i - distance * (i \div distance)
      /\ i \in Nat /\ i < distance * NumRegions
  BY <1>1, BitHasRegion DEF ShapeInv
<1>3. /\ regionBits' = [regionBits EXCEPT ![r] = v]
      /\ distance' = distance /\ count' = count
      /\ v # regionBits[r] =>
            /\ regionMap' = IF v.sets = 0 THEN regionMap \ {r} ELSE regionMap
            /\ sets' = Decrement(sets)
      /\ v = regionBits[r] => regionMap' = regionMap /\ sets' = sets
  BY <1>1 DEF Unset, Unmarked
<1>4. /\ GoodBits(v, distance) /\ Ones(v) = Ones(regionBits[r]) \ {p}
      /\ v # regionBits[r] <=> p \in Ones(regionBits[r])
  BY <1>1, <1>2, BitsWithout DEF RegionsInv
<1>5. v.sets = 0 <=> Ones(v) = {}
  BY <1>2, <1>4, BitsOnes
<1>6. \A q \in Regions : regionBits'[q] = IF q = r THEN v ELSE regionBits[q]
  BY <1>3 DEF RegionsInv
<1>7. regionBits' \in [Regions -> MapRecord]
  BY <1>3, <1>4 DEF RegionsInv, GoodBits
<1>8. RegionsInv' /\ ShapeInv'
  BY <1>3, <1>4, <1>6, <1>7 DEF RegionsInv, ShapeInv
<1>9. MaskInv'
  BY <1>2, <1>3, <1>4, <1>5, <1>6 DEF MaskInv
<1>10. AllOnes' = AllOnes \ {i}
  <2>1. PICK bits2 : bits2 = regionBits'
    OBVIOUS
  <2>2. \A q \in Regions : Ones(bits2[q]) \subseteq 0 .. distance - 1
    BY <1>3, <1>8, <2>1, <1>2, BitsOnes DEF RegionsInv
  <2>3. \A q \in Regions : Ones(regionBits[q]) \subseteq 0 .. distance - 1
    BY AllOnesFacts
  <2>4. FlatOnes(bits2, distance) = FlatOnes(regionBits, distance) \ {i}
    BY <1>2, <1>4, <1>6, <2>1, <2>2, <2>3, FlattenedWith
  <2>5. AllOnes' = FlatOnes(bits2, distance)
    BY <1>3, <2>1 DEF AllOnes, FlatOnes, RegionStart
  <2> QED
    BY <2>4, <2>5, AllOnesAre
<1>11. p \in Ones(regionBits[r]) <=> i \in AllOnes
  BY <1>2, AllOnesFacts, AllOnesAre, Flattened
<1>12. sets' = Cardinality(AllOnes')
  <2>1. CASE i \notin AllOnes
    BY <1>3, <1>4, <1>10, <1>11, <2>1
  <2>2. CASE i \in AllOnes
    <3>1. Cardinality(AllOnes \ {i}) = Cardinality(AllOnes) - 1
      BY <2>2, AllOnesFacts, FS_RemoveElement
    <3>2. sets \in Nat /\ sets # 0
      BY <2>2, AllOnesFacts
    <3>3. Decrement(sets) = sets - 1
      BY <3>2 DEF Decrement
    <3> QED
      BY <1>3, <1>4, <1>10, <1>11, <2>2, <3>1, <3>3
  <2> QED
    BY <2>1, <2>2
<1> QED
  BY <1>8, <1>9, <1>10, <1>12

\* A map begins without regions, counts and ones.
LEMMA RegionsInitInv ==
  ASSUME Init
  PROVE  WholeMapInv
<1>1. GoodBits(EmptyMap, 0) /\ Ones(EmptyMap) = {}
  BY EmptyBits
<1>2. \A r \in Regions : regionBits[r] = EmptyMap
  BY DEF Init
<1>3. AllOnes = {}
  BY <1>1, <1>2 DEF AllOnes
<1>4. ShapeInv
  BY Widths DEF Init, ShapeInv
<1>5. RegionsInv
  BY <1>1 DEF Init, RegionsInv, GoodBits
<1>6. MaskInv
  BY <1>1 DEF Init, MaskInv
<1> QED
  BY <1>3, <1>4, <1>5, <1>6, FS_EmptySet DEF Init, WholeMapInv

\* Every call keeps the invariant.
LEMMA RegionsNextInv ==
  ASSUME RegionsDivide, MemoryFails = FALSE, WholeMapInv, [Next]_vars
  PROVE  WholeMapInv'
<1>1. CASE UNCHANGED vars
  BY <1>1 DEF vars, WholeMapInv, ShapeInv, RegionsInv, MaskInv, AllOnes, RegionStart
<1>2. CASE SetSize
  BY <1>2, SetSizeStep
<1>3. CASE FillOrClear
  BY <1>3, FillStep, ClearStep DEF FillOrClear
<1>4. CASE ChangeBit
  BY <1>4, SetStep, UnsetStep DEF ChangeBit
<1> QED
  BY <1>1, <1>2, <1>3, <1>4 DEF Next

\* The invariant of the map.
THEOREM RegionsInvariant ==
  ASSUME RegionsDivide, MemoryFails = FALSE
  PROVE  Spec => []WholeMapInv
BY RegionsInitInv, RegionsNextInv, PTL DEF Spec

\* Every variable keeps its type.
THEOREM RegionsTypeCorrect ==
  ASSUME RegionsDivide, MemoryFails = FALSE
  PROVE  Spec => []TypeOK
<1>1. WholeMapInv => TypeOK
  <2> SUFFICES ASSUME WholeMapInv
               PROVE  TypeOK
    OBVIOUS
  <2>1. /\ distance \in Nat /\ count \in Nat /\ distance <= count /\ count <= SizeMax
        /\ count \in {0} \cup {n \in 0 .. SizeMax : n >= MinCount}
    <3>1. distance \in Nat /\ count \in Nat /\ count = distance * NumRegions
      BY DEF WholeMapInv, ShapeInv
    <3>2. distance <= distance * NumRegions
      BY <3>1, Widths, Z3
    <3> QED
      BY <3>1, <3>2, Widths DEF WholeMapInv, ShapeInv
  <2>2. ASSUME NEW r \in Regions
        PROVE  regionBits[r] \in Map(count)
    <3>1. PICK v : v = regionBits[r]
      OBVIOUS
    <3>2. GoodBits(v, distance)
      BY <3>1 DEF WholeMapInv, RegionsInv
    <3>3. v.alloc \in 0 .. count + ByteBits - 1
      BY <2>1, <3>2, InBytesBounds, Widths DEF GoodBits
    <3>4. v.mem \in SUBSET (0 .. count + ByteBits - 2)
      <4>1. SUFFICES ASSUME NEW i \in v.mem
                     PROVE  i \in 0 .. count + ByteBits - 2
        OBVIOUS
      <4>2. i \in Nat /\ i < v.alloc
        BY <3>2 DEF GoodBits, MapRecord
      <4> QED
        BY <2>1, <3>3, <4>2, Widths
    <3>5. v.count \in 0 .. count
      BY <2>1, <3>2 DEF GoodBits
    <3>6. v.sets \in 0 .. SizeMax
      BY <2>1, <3>2, BitsOnes, Widths
    <3> QED
      BY <3>1, <3>2, <3>3, <3>4, <3>5, <3>6 DEF Map, GoodBits, MapRecord
  <2>3. sets \in 0 .. SizeMax
    BY <2>1, AllOnesFacts, Widths DEF WholeMapInv
  <2> QED
    BY <2>1, <2>2, <2>3, Widths DEF TypeOK, WholeMapInv, RegionsInv, MaskInv
<1> QED
  BY <1>1, RegionsInvariant, PTL

\* The search looks where the ones are: the mask has exactly the regions with a one.
THEOREM MaskIsExact ==
  ASSUME RegionsDivide, MemoryFails = FALSE
  PROVE  Spec => []MaskExact
<1>1. WholeMapInv => MaskExact
  BY DEF WholeMapInv, MaskExact, MaskInv, RegionsInv, GoodBits
<1> QED
  BY <1>1, RegionsInvariant, PTL

\* The total is the number of ones of all regions.
THEOREM TotalIsExact ==
  ASSUME RegionsDivide, MemoryFails = FALSE
  PROVE  Spec => []TotalExact
<1>1. WholeMapInv => TotalExact
  BY DEF WholeMapInv, TotalExact
<1> QED
  BY <1>1, RegionsInvariant, PTL

\* No bit is behind the last region, and none shares its place.
THEOREM BitsHaveRegions ==
  ASSUME RegionsDivide, MemoryFails = FALSE
  PROVE  Spec => []EveryBitHasRegion
<1>1. WholeMapInv => EveryBitHasRegion
  <2> SUFFICES ASSUME WholeMapInv, NEW i \in 0 .. count - 1
               PROVE  /\ RegionOf(i) \in Regions
                      /\ PlaceOf(i) < regionBits[RegionOf(i)].count
    BY DEF EveryBitHasRegion
  <2>1. RegionOf(i) \in Regions /\ PlaceOf(i) \in 0 .. distance - 1
    BY BitHasRegion DEF WholeMapInv
  <2>2. regionBits[RegionOf(i)].count = distance /\ distance \in Nat
    BY <2>1 DEF WholeMapInv, RegionsInv, GoodBits, ShapeInv
  <2> QED
    BY <2>1, <2>2
<1> QED
  BY <1>1, RegionsInvariant, PTL

\* A search of the first region of the mask finds the least number of the map.
SearchRight == Search = IF AllOnes = {} THEN None ELSE Min(AllOnes)

\* The first region of the mask has the least number, at its least place.
LEMMA SearchFindsLeast ==
  ASSUME WholeMapInv
  PROVE  SearchRight
<1> USE DEF WholeMapInv
<1>1. AllOnes = {} <=> sets = 0
  BY AllOnesFacts
<1>2. CASE AllOnes = {}
  BY <1>1, <1>2 DEF Search, SearchRight
<1>3. CASE AllOnes # {}
  <2>1. /\ distance \in Nat /\ AllOnes \subseteq Nat
        /\ \A i \in AllOnes :
              /\ i < distance * NumRegions
              /\ i - distance * (i \div distance) \in Ones(regionBits[i \div distance])
              /\ i \div distance \in Regions
              /\ i = distance * (i \div distance) + (i - distance * (i \div distance))
    <3>1. /\ distance \in Nat /\ AllOnes \subseteq Nat
          /\ \A i \in Nat : i \in AllOnes <=>
                /\ i < distance * NumRegions
                /\ i - distance * (i \div distance) \in Ones(regionBits[i \div distance])
      BY AllOnesFacts, AllOnesAre, Flattened DEF ShapeInv
    <3>2. \A i \in Nat : i < distance * NumRegions =>
             /\ i \div distance \in Regions
             /\ i = distance * (i \div distance) + (i - distance * (i \div distance))
      BY <3>1, OneRegion, Widths DEF Regions
    <3> QED
      BY <3>1, <3>2
  <2>2. \A i \in AllOnes : i \div distance \in regionMap
    BY <2>1 DEF MaskInv
  <2>3. regionMap # {} /\ regionMap \in SUBSET Nat
    BY <1>3, <2>2 DEF MaskInv, Regions
  <2>4. PICK r \in regionMap : r = Min(regionMap) /\ \A q \in regionMap : r <= q
    BY <2>3, MinIsLeast
  <2>5. r \in Regions /\ r \in Nat /\ Ones(regionBits[r]) # {}
    BY <2>4 DEF MaskInv, Regions
  <2>6. Ones(regionBits[r]) \subseteq 0 .. distance - 1 /\ regionBits[r].sets # 0
    BY <2>1, <2>5, BitsOnes DEF RegionsInv
  <2>7. Ones(regionBits[r]) \in SUBSET Nat
    BY <2>6
  <2>8. PICK j \in Ones(regionBits[r]) :
           j = Min(Ones(regionBits[r])) /\ \A x \in Ones(regionBits[r]) : j <= x
    BY <2>5, <2>7, MinIsLeast
  <2>9. FindFirst(regionBits[r]) = j /\ j \in Nat
    BY <2>5, <2>6, <2>7, <2>8 DEF FindFirst
  <2>10. Search = distance * r + j
    BY <1>1, <1>3, <2>3, <2>4, <2>9, Widths DEF Search, RegionStart
  <2>11. distance * r + j \in AllOnes
    BY <2>5, <2>8 DEF AllOnes, RegionStart
  <2>12. \A i \in AllOnes : distance * r + j <= i
    <3>1. TAKE i \in AllOnes
    <3>2. PICK q, x : q = i \div distance /\ x = i - distance * q
      OBVIOUS
    <3>3. /\ q \in regionMap /\ q \in Nat /\ x \in Ones(regionBits[q])
          /\ i = distance * q + x /\ r <= q
      BY <2>1, <2>2, <2>3, <2>4, <3>2
    <3>4. CASE r = q
      BY <2>1, <2>5, <2>7, <2>8, <2>9, <3>3, <3>4
    <3>5. CASE r < q
      <4>1. /\ distance * r \in Nat /\ distance * q \in Nat
            /\ distance * r + distance <= distance * q
        BY <2>1, <2>5, <3>3, <3>5, ProductsGrow
      <4>2. j \in 0 .. distance - 1 /\ x \in Nat
        <5>1. q \in Regions
          BY <3>3 DEF MaskInv
        <5>2. Ones(regionBits[q]) \subseteq 0 .. distance - 1
          BY <2>1, <5>1, BitsOnes DEF RegionsInv
        <5> QED
          BY <2>6, <3>3, <5>2
      <4> QED
        BY <2>1, <3>3, <4>1, <4>2
    <3> QED
      BY <2>5, <3>3, <3>4, <3>5
  <2>13. Min(AllOnes) = distance * r + j
    <3>1. Min(AllOnes) \in AllOnes /\ \A y \in AllOnes : Min(AllOnes) <= y
      BY <1>3, <2>1, MinIsLeast
    <3>2. PICK m, k : m = Min(AllOnes) /\ k = distance * r + j
      OBVIOUS
    <3>3. m \in Nat /\ k \in Nat /\ m <= k /\ k <= m
      BY <2>1, <2>11, <2>12, <3>1, <3>2
    <3> QED
      BY <3>2, <3>3
  <2> QED
    BY <1>3, <2>10, <2>13 DEF SearchRight
<1> QED
  BY <1>2, <1>3

\* Every call of the map is one of a set of numbers, and its search gives the least.
THEOREM RegionsAreSet ==
  ASSUME RegionsDivide, MemoryFails = FALSE
  PROVE  Spec => ImplementsSet
<1>1. Spec => []WholeMapInv
  BY RegionsInvariant
<1>2. WholeMapInv => SearchRight
  BY SearchFindsLeast
<1>3. Init /\ WholeMapInv => Flat!SetInit
  <2> SUFFICES ASSUME Init, WholeMapInv
               PROVE  Flat!SetInit
    OBVIOUS
  <2>1. AllOnes = {}
    BY AllOnesFacts DEF Init, WholeMapInv
  <2> QED
    BY <2>1 DEF Init, Flat!SetInit, Search
<1>4. WholeMapInv /\ WholeMapInv' /\ SearchRight' /\ [Next]_vars => [Flat!SetNext]_(Flat!setVars)
  <2> SUFFICES ASSUME WholeMapInv, WholeMapInv', SearchRight', [Next]_vars
               PROVE  [Flat!SetNext]_(Flat!setVars)
    OBVIOUS
  <2>1. Search' = IF AllOnes' = {} THEN None ELSE Flat!Min(AllOnes')
    BY DEF SearchRight, Min, Flat!Min
  <2>2. CASE UNCHANGED vars
    BY <2>2 DEF vars, Flat!setVars, AllOnes, Search, RegionStart
  <2>3. CASE SetSize
    <3>1. count = 0 /\ sets' = 0
      BY <2>3 DEF SetSize, ResizeRegions
    <3>2. AllOnes' = {}
      <4>1. PICK S : S = AllOnes'
        OBVIOUS
      <4>2. Cardinality(S) = 0
        BY <3>1, <4>1 DEF WholeMapInv
      <4>3. \A r \in Regions : r \notin regionMap'
        BY <2>3 DEF SetSize, ResizeRegions
      <4>4. \A r \in Regions : Ones(regionBits'[r]) = {}
        BY <4>3 DEF WholeMapInv, MaskInv
      <4> QED
        BY <4>4 DEF AllOnes
    <3>3. count' \in Nat
      BY DEF WholeMapInv, ShapeInv
    <3> QED
      BY <2>1, <3>1, <3>2, <3>3 DEF Flat!SetNext, Flat!Size
  <2>4. CASE FillOrClear
    <3>1. count' = count
      BY <2>4 DEF FillOrClear, AllRegionsSet, AllRegionsUnset
    <3>2. AllOnes' = 0 .. count - 1 \/ AllOnes' = {}
      BY <2>4, FillStep, ClearStep DEF FillOrClear
    <3> QED
      BY <2>1, <3>1, <3>2 DEF Flat!SetNext, Flat!Fill, Flat!Clear
  <2>5. CASE ChangeBit
    <3>1. PICK i \in 0 .. count - 1 : Set(i) \/ Unset(i)
      BY <2>5 DEF ChangeBit
    <3>2. count' = count
      BY <3>1 DEF Set, Unset
    <3>3. AllOnes' = AllOnes \cup {i} \/ AllOnes' = AllOnes \ {i}
      BY <3>1, SetStep, UnsetStep
    <3> QED
      BY <2>1, <3>1, <3>2, <3>3 DEF Flat!SetNext, Flat!Put, Flat!Take
  <2> QED
    BY <2>2, <2>3, <2>4, <2>5 DEF Next
<1> QED
  BY <1>1, <1>2, <1>3, <1>4, PTL DEF Spec, ImplementsSet, Flat!SetSpec
-----------------------------------------------------------------------------
(* The searches *)

\* The map, and that the memory behind it is behind its last bit.
InputInv ==
    /\ GoodBits(searched, searched.count)
    /\ searched.count \in Counts
    /\ search \in Searches
    /\ behind \subseteq Nat /\ \A b \in behind : b >= searched.count
    /\ search = "plain" => WholeWords(searched.count)

\* A loop is only entered for a map with ones, and the index is assigned when it
\* is left.
LoopInv ==
    /\ at \in Nat /\ ret \in BOOLEAN /\ index \in Nat \cup {None}
    /\ pc \in {"start", "words", "tail", "done"}
    /\ pc # "done" => index = None
    /\ pc \in {"words", "tail"} => Ones(searched) # {}

SearchInv == InputInv /\ LoopInv /\ NothingSkipped /\ FindsLeast

\* The least of a set is what is in it and not above any other.
LEMMA LeastIsMin ==
  ASSUME NEW S \in SUBSET Nat, NEW x \in S, \A y \in S : x <= y
  PROVE  Min(S) = x
<1>1. PICK m : m = Min(S)
  OBVIOUS
<1>2. m \in S /\ m <= x
  BY <1>1, MinIsLeast
<1> QED
  BY <1>1, <1>2

\* Which word a bit is in.
LEMMA WordOfBit ==
  ASSUME NEW b \in Nat
  PROVE  \A k \in Nat :
           /\ k * Word \in Nat
           /\ b \div Word = k <=> k * Word <= b /\ b < k * Word + Word
           /\ b \div Word \in Nat
           /\ k <= b \div Word <=> k * Word <= b
<1> TAKE k \in Nat
<1>1. PICK q : q = b \div Word
  OBVIOUS
<1>2. q \in Nat /\ q * Word <= b /\ b < q * Word + Word /\ q * Word \in Nat
  BY <1>1, Widths, Z3
<1>3. k * Word = Word * k /\ q * Word = Word * q /\ k * Word \in Nat
  BY <1>2, Widths
<1>4. q < k => Word * q + Word <= Word * k
  BY <1>2, Widths, ProductsGrow
<1>5. k < q => Word * k + Word <= Word * q
  BY <1>2, Widths, ProductsGrow
<1> QED
  BY <1>1, <1>2, <1>3, <1>4, <1>5, Widths

\* The ones of the map are those in memory below its size.
LEMMA OnesInMemory ==
  ASSUME InputInv
  PROVE  /\ searched.mem \cup behind \in SUBSET Nat /\ searched.count \in Nat
         /\ Ones(searched) \in SUBSET Nat
         /\ \A b \in searched.mem \cup behind :
               b \in Ones(searched) <=> b < searched.count
         /\ Ones(searched) \subseteq searched.mem \cup behind
         /\ Ones(searched) = {} <=> searched.sets = 0
<1>1. searched.count \in Nat /\ searched \in MapRecord
  BY DEF InputInv, GoodBits, MapRecord
<1>2. Ones(searched) = {} <=> searched.sets = 0
  BY <1>1, BitsOnes DEF InputInv
<1>3. searched.mem \in SUBSET Nat
  BY <1>1 DEF MapRecord
<1>4. \A b \in searched.mem \cup behind : b \in Ones(searched) <=> b < searched.count
  <2>1. TAKE b \in searched.mem \cup behind
  <2>2. CASE b \in searched.mem
    BY <2>2 DEF Ones
  <2>3. CASE b \in behind
    <3>1. b \in Nat /\ b >= searched.count
      BY <2>3 DEF InputInv
    <3> QED
      BY <1>1, <3>1 DEF Ones
  <2> QED
    BY <2>2, <2>3
<1> QED
  BY <1>1, <1>2, <1>3, <1>4 DEF InputInv, Ones

\* With ones, FindFirst is the least of them.
LEMMA FindFirstIsMin ==
  ASSUME InputInv, Ones(searched) # {}
  PROVE  FindFirst(searched) = Min(Ones(searched))
BY OnesInMemory DEF FindFirst

\* The first bit of a word that is not zero.
LEMMA FirstOfWord ==
  ASSUME InputInv, NEW k \in Nat, OnesOf(k) # {}
  PROVE  /\ k * Word + FirstOf(k) \in OnesOf(k) /\ FirstOf(k) # Word
         /\ \A b \in OnesOf(k) : k * Word + FirstOf(k) <= b
<1>1. OnesOf(k) \in SUBSET Nat
  BY OnesInMemory DEF OnesOf
<1>2. PICK m \in OnesOf(k) : m = Min(OnesOf(k)) /\ \A b \in OnesOf(k) : m <= b
  BY <1>1, MinIsLeast
<1>3. m \in Nat /\ m \div Word = k
  BY <1>1, <1>2 DEF OnesOf
<1>4. PICK x : x = m % Word
  OBVIOUS
<1>5. x \in 0 .. Word - 1 /\ m = k * Word + x
  BY <1>3, <1>4, Widths, Z3
<1>6. FirstOf(k) = x
  BY <1>2, <1>4 DEF FirstOf
<1>7. FirstOf(k) # Word
  BY <1>5, <1>6, Widths
<1> QED
  BY <1>2, <1>5, <1>6, <1>7

\* A word of ones that no one of the map lies before has the least one, also if it
\* reaches beyond the map: what lies there is larger.
LEMMA FirstWordHasLeast ==
  ASSUME InputInv, Ones(searched) # {}, NEW k \in Nat, OnesOf(k) # {},
         \A b \in Ones(searched) : k * Word <= b
  PROVE  k * Word + FirstOf(k) = FindFirst(searched)
<1>1. PICK m : m = k * Word + FirstOf(k)
  OBVIOUS
<1>2. m \in OnesOf(k) /\ \A b \in OnesOf(k) : m <= b
  BY <1>1, FirstOfWord
<1>3. m \in searched.mem \cup behind /\ m \in Nat /\ m \div Word = k
  BY <1>2, OnesInMemory DEF OnesOf
<1>4. \A b \in Ones(searched) : m <= b
  <2>1. TAKE b \in Ones(searched)
  <2>2. b \in Nat /\ b \in searched.mem \cup behind /\ k * Word <= b
    BY OnesInMemory
  <2>3. CASE b < k * Word + Word
    BY <1>2, <2>2, <2>3, WordOfBit DEF OnesOf
  <2>4. CASE ~(b < k * Word + Word)
    BY <1>3, <2>2, <2>4, WordOfBit, Widths
  <2> QED
    BY <2>3, <2>4
<1>5. m \in Ones(searched)
  <2>1. PICK b \in Ones(searched) : TRUE
    OBVIOUS
  <2>2. b \in Nat /\ b < searched.count /\ m <= b
    BY <1>4, <2>1, OnesInMemory
  <2> QED
    BY <1>3, <2>2, OnesInMemory
<1>6. Min(Ones(searched)) = m
  BY <1>4, <1>5, OnesInMemory, LeastIsMin
<1> QED
  BY <1>1, <1>6, FindFirstIsMin

\* Words without ones can be passed over.
LEMMA ZeroWordsPassed ==
  ASSUME InputInv, NEW k \in Nat, NEW n \in Nat,
         \A b \in Ones(searched) : k * Word <= b,
         \A w \in k .. k + n - 1 : OnesOf(w) = {}
  PROVE  \A b \in Ones(searched) : (k + n) * Word <= b
<1>1. TAKE b \in Ones(searched)
<1>2. b \in Nat /\ b \in searched.mem \cup behind /\ k * Word <= b
  BY OnesInMemory
<1>3. PICK q : q = b \div Word
  OBVIOUS
<1>4. q \in Nat /\ k <= q
  BY <1>2, <1>3, WordOfBit
<1>5. b \in OnesOf(q)
  BY <1>2, <1>3 DEF OnesOf
<1>6. q \notin k .. k + n - 1
  BY <1>5
<1>7. k + n \in Nat /\ k + n <= q
  BY <1>4, <1>6
<1> QED
  BY <1>2, <1>3, <1>7, WordOfBit

\* The mask of a group: empty if all its words are zero, and else its first word
\* is the first that is not zero, though words may be in it that were not looked at.
LEMMA MaskOfGroup ==
  ASSUME NEW k \in Nat
  PROVE  /\ Mask(k) = {} => \A w \in GroupAt(k) : OnesOf(w) = {}
         /\ Mask(k) # {} =>
               /\ Min(Mask(k)) \in GroupAt(k) /\ OnesOf(Min(Mask(k))) # {}
               /\ \A w \in GroupAt(k) : w < Min(Mask(k)) => OnesOf(w) = {}
<1>1. PICK half, nonzero :
         /\ half = {w \in GroupAt(k) : w < k + Group \div 2}
         /\ nonzero = {w \in GroupAt(k) : OnesOf(w) # {}}
  OBVIOUS
<1>2. Mask(k) = IF half \cap nonzero # {}
                THEN (half \cap nonzero) \cup (GroupAt(k) \ half)
                ELSE nonzero
  BY <1>1 DEF Mask
<1>3. Mask(k) \in SUBSET Nat /\ Mask(k) \subseteq GroupAt(k) /\ nonzero \subseteq Mask(k)
  BY <1>1, <1>2, Widths DEF GroupAt
<1>4. Mask(k) = {} => \A w \in GroupAt(k) : OnesOf(w) = {}
  BY <1>1, <1>3
<1>5. ASSUME Mask(k) # {}
      PROVE  /\ Min(Mask(k)) \in GroupAt(k) /\ OnesOf(Min(Mask(k))) # {}
             /\ \A w \in GroupAt(k) : w < Min(Mask(k)) => OnesOf(w) = {}
  <2>1. PICK m \in Mask(k) : m = Min(Mask(k)) /\ \A w \in Mask(k) : m <= w
    BY <1>3, <1>5, MinIsLeast
  <2>2. \A w \in GroupAt(k) : w < m => OnesOf(w) = {}
    <3>1. TAKE w \in GroupAt(k)
    <3>2. w \in Nat /\ m \in Nat
      BY <1>3, <2>1, Widths DEF GroupAt
    <3> QED
      BY <1>1, <1>3, <2>1, <3>2
  <2>3. m \in nonzero
    <3>1. CASE half \cap nonzero # {}
      <4>1. PICK h \in half \cap nonzero : TRUE
        BY <3>1
      <4>2. h \in Mask(k) /\ m <= h /\ m \in Nat /\ h \in Nat
        BY <1>3, <2>1, <4>1
      <4>3. Group \div 2 \in Nat
        BY Widths
      <4>4. m \in half
        BY <1>1, <1>3, <4>1, <4>2, <4>3
      <4> QED
        BY <1>2, <2>1, <3>1, <4>4
    <3>2. CASE half \cap nonzero = {}
      BY <1>2, <2>1, <3>2
    <3> QED
      BY <3>1, <3>2
  <2> QED
    BY <1>1, <1>3, <2>1, <2>2, <2>3
<1> QED
  BY <1>4, <1>5

\* A search begins with a good map.
LEMMA SearchInitInv ==
  ASSUME SearchInit
  PROVE  SearchInv
<1>1. PICK c \in Counts :
        /\ search = "plain" => WholeWords(c)
        /\ \E m \in SUBSET (0 .. InBytes(c) - 1) : searched = MapOf(c, m)
        /\ behind \in SUBSET (InBytes(c) .. ReadEnd(search, c) - 1)
  BY DEF SearchInit
<1>2. PICK m \in SUBSET (0 .. InBytes(c) - 1) : searched = MapOf(c, m)
  BY <1>1
<1>3. c \in Nat
  BY SearchAssumption, Widths
<1>4. InBytes(c) \in Nat /\ c <= InBytes(c)
  BY <1>3, InBytesBounds
<1>5. m \in SUBSET Nat /\ \A b \in m : b < InBytes(c)
  BY <1>4
<1>6. IsFiniteSet(Below(m, c)) /\ Cardinality(Below(m, c)) \in Nat
  BY <1>3, <1>5, BelowBounded
<1>7. Cardinality({b \in m : b < c}) \in Nat
  BY <1>6 DEF Below
<1>8. searched \in MapRecord
  BY <1>2, <1>3, <1>4, <1>5, <1>7 DEF MapOf, MapRecord
<1>9. /\ searched.count = c /\ searched.alloc = InBytes(c) /\ searched.mem = m
      /\ searched.sets = Cardinality({b \in m : b < c})
  BY <1>2 DEF MapOf
<1>10. GoodBits(searched, searched.count)
  BY <1>5, <1>8, <1>9 DEF GoodBits, Exact, Ones
<1>11. behind \subseteq Nat /\ \A b \in behind : b >= c
  <2>1. SUFFICES ASSUME NEW b \in behind
                 PROVE  b \in Nat /\ b >= c
    OBVIOUS
  <2>2. b \in InBytes(c) .. ReadEnd(search, c) - 1
    BY <1>1
  <2>3. b \in Int /\ b >= InBytes(c)
    BY <2>2
  <2> QED
    BY <1>3, <1>4, <2>3
<1> QED
  BY <1>1, <1>9, <1>10, <1>11
     DEF SearchInit, SearchInv, InputInv, LoopInv, NothingSkipped, FindsLeast

\* Each step of a search: what is returned is right, and what is passed over has no ones.
LEMMA SearchNextInv ==
  ASSUME SearchInv, [SearchNext]_searchVars
  PROVE  SearchInv'
<1> USE DEF SearchInv
<1>1. CASE UNCHANGED searchVars
  BY <1>1 DEF searchVars, input, InputInv, LoopInv, NothingSkipped, FindsLeast,
              GoodBits, Exact, Ones, FindFirst
<1>2. ASSUME UNCHANGED input
      PROVE  InputInv' /\ Ones(searched') = Ones(searched)
             /\ FindFirst(searched') = FindFirst(searched) /\ searched' = searched
  BY <1>2 DEF input, InputInv, GoodBits, Exact
<1>3. ASSUME NEW r \in BOOLEAN, NEW x \in Nat \cup {None}, Return(r, x),
             r = (Ones(searched) # {}), x = FindFirst(searched)
      PROVE  SearchInv'
  BY <1>2, <1>3 DEF Return, LoopInv, NothingSkipped, FindsLeast
<1>4. ASSUME NEW n \in Nat, NEW where \in {"words", "tail"}, GoOn(n, where), index = None,
             Ones(searched) # {},
             where = "words" => \A b \in Ones(searched) : n * Word <= b,
             where = "tail" => \A b \in Ones(searched) : n <= b
      PROVE  SearchInv'
  <2>1. n * Word \in Nat /\ \A b \in Ones(searched) : b \in Nat
    BY Widths, OnesInMemory
  <2>2. /\ where = "words" => \A b \in Ones(searched) : b >= n * Word
        /\ where = "tail" => \A b \in Ones(searched) : b >= n
    BY <1>4, <2>1
  <2> QED
    BY <1>2, <1>4, <2>2 DEF GoOn, LoopInv, NothingSkipped, FindsLeast
<1>5. CASE Start
  <2>1. index = None
    BY <1>5 DEF Start, LoopInv
  <2>2. CASE searched.sets = 0
    <3>1. Ones(searched) = {} /\ FindFirst(searched) = None
      BY <2>2, OnesInMemory DEF FindFirst
    <3> QED
      BY <1>3, <1>5, <2>1, <2>2, <3>1 DEF Start
  <2>3. CASE searched.sets # 0
    <3>1. Ones(searched) # {} /\ \A b \in Ones(searched) : 0 * Word <= b /\ 0 <= b
      BY <2>3, OnesInMemory, Widths
    <3> QED
      BY <1>4, <1>5, <2>1, <2>3, <3>1 DEF Start
  <2> QED
    BY <2>2, <2>3
<1>6. CASE OneWord
  <2>1. /\ at \in Nat /\ index = None /\ Ones(searched) # {}
        /\ \A b \in Ones(searched) : at * Word <= b
    BY <1>6, OnesInMemory, Widths DEF OneWord, LoopInv, NothingSkipped
  <2>2. CASE FirstOf(at) # Word
    <3>1. OnesOf(at) # {}
      BY <2>2 DEF FirstOf
    <3>2. at * Word + FirstOf(at) = FindFirst(searched)
      BY <2>1, <3>1, FirstWordHasLeast
    <3>3. at * Word + FirstOf(at) \in Nat
      BY <2>1, <3>1, FirstOfWord, OnesInMemory DEF OnesOf
    <3> QED
      BY <1>3, <1>6, <2>1, <2>2, <3>2, <3>3 DEF OneWord
  <2>3. CASE FirstOf(at) = Word
    <3>1. OnesOf(at) = {}
      BY <2>1, <2>3, FirstOfWord
    <3>2. \A w \in at .. at + 1 - 1 : OnesOf(w) = {}
      BY <2>1, <3>1
    <3>3. \A b \in Ones(searched) : (at + 1) * Word <= b
      BY <2>1, <3>2, ZeroWordsPassed
    <3> QED
      BY <1>4, <1>6, <2>1, <2>3, <3>3 DEF OneWord
  <2> QED
    BY <2>2, <2>3
<1>7. CASE OneGroup
  <2>1. /\ at \in Nat /\ index = None /\ Ones(searched) # {}
        /\ \A b \in Ones(searched) : at * Word <= b
    BY <1>7, OnesInMemory, Widths DEF OneGroup, LoopInv, NothingSkipped
  <2>2. CASE Mask(at) # {}
    <3>1. PICK w : w = Min(Mask(at))
      OBVIOUS
    <3>2. /\ w \in Nat /\ at <= w /\ w <= at + Group - 1 /\ OnesOf(w) # {}
          /\ \A k \in GroupAt(at) : k < w => OnesOf(k) = {}
      BY <2>1, <2>2, <3>1, MaskOfGroup, Widths DEF GroupAt
    <3>3. w - at \in Nat /\ at + (w - at) = w
      BY <2>1, <3>2
    <3>4. \A k \in at .. at + (w - at) - 1 : OnesOf(k) = {}
      BY <2>1, <3>2, <3>3, Widths DEF GroupAt
    <3>5. \A b \in Ones(searched) : (at + (w - at)) * Word <= b
      BY <2>1, <3>3, <3>4, ZeroWordsPassed
    <3>6. w * Word + FirstOf(w) = FindFirst(searched)
      BY <2>1, <3>2, <3>3, <3>5, FirstWordHasLeast
    <3>7. w * Word + FirstOf(w) \in Nat
      BY <3>2, FirstOfWord, OnesInMemory DEF OnesOf
    <3> QED
      BY <1>3, <1>7, <2>1, <2>2, <3>1, <3>6, <3>7 DEF OneGroup
  <2>3. CASE Mask(at) = {}
    <3>1. \A w \in at .. at + Group - 1 : OnesOf(w) = {}
      BY <2>1, <2>3, MaskOfGroup DEF GroupAt
    <3>2. Group \in Nat /\ at + Group \in Nat
      BY <2>1, Widths
    <3>3. \A b \in Ones(searched) : (at + Group) * Word <= b
      BY <2>1, <3>1, <3>2, ZeroWordsPassed
    <3> QED
      BY <1>4, <1>7, <2>1, <2>3, <3>2, <3>3 DEF OneGroup, NextGroup
  <2> QED
    BY <2>2, <2>3
<1>8. CASE EndOfWords
  <2>1. /\ at \in Nat /\ index = None /\ Ones(searched) # {} /\ at >= FullWords
        /\ \A b \in Ones(searched) : at * Word <= b
    BY <1>8, OnesInMemory, Widths DEF EndOfWords, LoopInv, NothingSkipped
  <2>2. searched.count \in Nat
    BY OnesInMemory
  <2>3. FullWords \in Nat /\ FullWords * Word \in Nat
    BY <2>2, Widths, WordOfBit DEF FullWords
  <2>4. FullWords * Word <= at * Word
    BY <2>1, <2>3, Widths, Z3
  <2>5. \A b \in Ones(searched) : FullWords * Word <= b
    BY <2>1, <2>3, <2>4, OnesInMemory, Widths
  <2>6. search # "plain"
    <3>1. SUFFICES ASSUME search = "plain"
                   PROVE  FALSE
      OBVIOUS
    <3>2. searched.count % Word = 0
      BY <3>1 DEF InputInv, WholeWords
    <3>3. FullWords * Word = searched.count
      BY <2>2, <3>2, Widths, Z3 DEF FullWords
    <3>4. PICK b \in Ones(searched) : TRUE
      BY <2>1
    <3>5. b < searched.count /\ b \in Nat
      BY <3>4, OnesInMemory
    <3> QED
      BY <2>2, <2>5, <3>3, <3>4, <3>5
  <2> QED
    BY <1>4, <1>8, <2>1, <2>3, <2>5, <2>6 DEF EndOfWords, TailStart
<1>9. CASE OneBit
  <2>1. /\ at \in Nat /\ index = None /\ Ones(searched) # {}
        /\ \A b \in Ones(searched) : at <= b
    BY <1>9, OnesInMemory DEF OneBit, LoopInv, NothingSkipped
  <2>2. CASE at < searched.count /\ at \in searched.mem
    <3>1. at \in Ones(searched)
      BY <2>2, OnesInMemory
    <3>2. at = FindFirst(searched)
      BY <2>1, <3>1, OnesInMemory, LeastIsMin, FindFirstIsMin
    <3> QED
      BY <1>3, <1>9, <2>1, <2>2, <3>2 DEF OneBit
  <2>3. CASE at < searched.count /\ at \notin searched.mem
    <3>1. \A b \in Ones(searched) : at + 1 <= b
      BY <2>1, <2>3, OnesInMemory DEF Ones
    <3>2. at + 1 \in Nat
      BY <2>1
    <3> QED
      BY <1>4, <1>9, <2>1, <2>3, <3>1, <3>2 DEF OneBit
  <2>4. CASE ~(at < searched.count)
    <3>1. PICK b \in Ones(searched) : TRUE
      BY <2>1
    <3>2. b < searched.count /\ b \in Nat /\ searched.count \in Nat
      BY <3>1, OnesInMemory
    <3> QED
      BY <2>1, <2>4, <3>1, <3>2
  <2> QED
    BY <2>2, <2>3, <2>4
<1> QED
  BY <1>1, <1>5, <1>6, <1>7, <1>8, <1>9 DEF SearchNext

\* The invariant of the searches.
THEOREM SearchInvariant == SearchSpec => []SearchInv
BY SearchInitInv, SearchNextInv, PTL DEF SearchSpec

\* Every variable of a search keeps its type.
THEOREM SearchTypeCorrect == SearchSpec => []SearchTypeOK
<1>1. SearchInv => SearchTypeOK
  <2> SUFFICES ASSUME SearchInv
               PROVE  SearchTypeOK
    OBVIOUS
  <2>1. searched \in MapRecord /\ searched.count \in 0 .. SizeMax
    <3>1. searched.count \in 1 .. SizeMax
      BY SearchAssumption DEF SearchInv, InputInv
    <3>2. searched.count \in 0 .. SizeMax
      BY <3>1, Widths
    <3> QED
      BY <3>2 DEF SearchInv, InputInv, GoodBits
  <2>2. searched.alloc \in 0 .. SizeMax + ByteBits - 1
    BY <2>1, InBytesBounds, Widths DEF SearchInv, InputInv, GoodBits
  <2>3. searched.mem \in SUBSET (0 .. SizeMax + ByteBits - 2)
    BY <2>1, <2>2, Widths DEF SearchInv, InputInv, GoodBits, MapRecord
  <2>4. searched.sets \in 0 .. SizeMax
    BY <2>1, BitsOnes, Widths DEF SearchInv, InputInv
  <2>5. searched \in Map(SizeMax)
    BY <2>1, <2>2, <2>3, <2>4 DEF Map, MapRecord
  <2> QED
    BY <2>5 DEF SearchTypeOK, SearchInv, InputInv, LoopInv
<1> QED
  BY <1>1, SearchInvariant, PTL

\* Each of the four searches returns what FindFirst says, whatever lies behind the map.
THEOREM SearchesFindLeast == SearchSpec => []FindsLeast
<1>1. SearchInv => FindsLeast
  BY DEF SearchInv
<1> QED
  BY <1>1, SearchInvariant, PTL

\* No loop of a search passes over a one.
THEOREM SearchesSkipNothing == SearchSpec => []NothingSkipped
<1>1. SearchInv => NothingSkipped
  BY DEF SearchInv
<1> QED
  BY <1>1, SearchInvariant, PTL
=============================================================================
