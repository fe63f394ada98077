--------------------------- MODULE VmmBitsRegions ---------------------------
(***************************************************************************)
(* bits_regions of vmm (depends/vmm/source/vbits.cpp): a large bit map cut *)
(* into regions, each a map of its own, with a mask of the regions that    *)
(* contain a one.  The search takes the first region of the mask and then  *)
(* the first one in it.                                                    *)
(*                                                                         *)
(* The pool's map of pages and the maps of pages with 65536 blocks are     *)
(* objects of this class.                                                  *)
(***************************************************************************)
EXTENDS VmmBits

CONSTANTS
    NumRegions, \* regions of a map (16)
    MinCount,   \* the least size (65536)
    Multiple,   \* what a page's size should be a multiple of (256)
    Sizes,      \* the sizes asked for
    MemoryFails \* whether the memory of a region may not be allocated

ASSUME RegionsAssumption ==
    /\ NumRegions \in Nat \ {0}
    /\ MinCount \in Nat /\ MinCount >= NumRegions
    /\ Multiple \in Nat \ {0}
    /\ Sizes \subseteq 0 .. SizeMax
    /\ MemoryFails \in BOOLEAN

Regions == 0 .. NumRegions - 1

VARIABLES
    regionBits, \* the map of each region (_region_bits)
    regionMap,  \* the regions with a 1 in the mask (_region_map)
    distance,   \* _distance
    count,      \* _count
    sets        \* _sets

vars == <<regionBits, regionMap, distance, count, sets>>

\* The bits of region r; the last region takes the rest.
RegionStart(r) == distance * r
BugInclusiveEnd(n, d, r) ==
    IF r = NumRegions - 1 THEN n ELSE d * (r + 1) - 1

RegionEnd(n, d, r) == IF r = NumRegions - 1 THEN n ELSE d * (r + 1)

\* Where bit i is: its region, and its place there.
RegionOf(i) == i \div distance
PlaceOf(i) == i - RegionStart(RegionOf(i))

TypeOK ==
    /\ regionBits \in [Regions -> Map(count)]
    /\ regionMap \subseteq Regions
    /\ distance \in 0 .. SizeMax
    /\ count \in {0} \cup {n \in 0 .. SizeMax : n >= MinCount}
    /\ sets \in 0 .. SizeMax

Init ==
    /\ regionBits = [r \in Regions |-> EmptyMap]
    /\ regionMap = {}
    /\ distance = 0
    /\ count = 0
    /\ sets = 0

\* page_t::set_size: "rounded down to a multiple of 256" by a shift to the left
\* and back, which changes no size below 2^56.
RoundedSize(n) == ((n * Multiple) % (SizeMax + 1)) \div Multiple

\* resize: a map gets its size once; a size too small, and clear(), do nothing.
ResizeRegions(n) ==
    /\ n >= MinCount
    /\ count = 0
    /\ distance' = n \div NumRegions
    /\ \E ok \in [Regions -> IF MemoryFails THEN BOOLEAN ELSE {TRUE}] :
           regionBits' = [r \in Regions |->
               Resize(regionBits[r],
                      RegionEnd(n, distance', r) - distance' * r, ok[r], {})]
    /\ regionMap' = {}
    /\ count' = n
    /\ sets' = 0

SetSize == \E n \in Sizes : ResizeRegions(RoundedSize(n))

AllRegionsSet ==
    /\ regionBits' = [r \in Regions |-> AllSet(regionBits[r])]
    /\ sets' = count
    /\ regionMap' = Regions
    /\ UNCHANGED <<distance, count>>

AllRegionsUnset ==
    /\ regionBits' = [r \in Regions |-> AllUnset(regionBits[r])]
    /\ sets' = 0
    /\ regionMap' = {}
    /\ UNCHANGED <<distance, count>>

\* A bit whose region exists and has memory; the code goes on without looking.
Reachable(i) ==
    /\ RegionOf(i) \in Regions
    /\ regionBits[RegionOf(i)].alloc > 0

BugMarkNotSet(r) == regionMap

Marked(r) == regionMap \cup {r}

Set(i) ==
    LET r == RegionOf(i)
        v == SetBit(regionBits[r], PlaceOf(i))
    IN  /\ regionBits' = [regionBits EXCEPT ![r] = v]
        /\ IF v # regionBits[r]
           THEN regionMap' = Marked(r) /\ sets' = Increment(sets)
           ELSE UNCHANGED <<regionMap, sets>>
        /\ UNCHANGED <<distance, count>>

BugUnmarkAlways(r, v) == regionMap \ {r}

\* The region leaves the mask with its last one.
Unmarked(r, v) == IF v.sets = 0 THEN regionMap \ {r} ELSE regionMap

Unset(i) ==
    LET r == RegionOf(i)
        v == UnsetBit(regionBits[r], PlaceOf(i))
    IN  /\ regionBits' = [regionBits EXCEPT ![r] = v]
        /\ IF v # regionBits[r]
           THEN regionMap' = Unmarked(r, v) /\ sets' = Decrement(sets)
           ELSE UNCHANGED <<regionMap, sets>>
        /\ UNCHANGED <<distance, count>>

ChangeBit == \E i \in 0 .. count - 1 : Reachable(i) /\ (Set(i) \/ Unset(i))

\* Pages and pools fill a map only after they gave it a size.
FillOrClear == count > 0 /\ (AllRegionsSet \/ AllRegionsUnset)

Next == SetSize \/ FillOrClear \/ ChangeBit

Spec == Init /\ [][Next]_vars

\* find_first_set_bit; None where it returns false.
Search ==
    IF sets = 0 \/ regionMap = {} THEN None
    ELSE LET r == Min(regionMap)
             found == FindFirst(regionBits[r])
         IN  IF found = None THEN None ELSE RegionStart(r) + found

-----------------------------------------------------------------------------
(* Properties *)

\* The ones of the whole map.
AllOnes ==
    UNION {{RegionStart(r) + i : i \in Ones(regionBits[r])} : r \in Regions}

\* The mask has exactly the regions with a one, and each region's count is
\* right: the search looks where the ones are.
MaskExact == \A r \in Regions :
    /\ Exact(regionBits[r])
    /\ r \in regionMap <=> Ones(regionBits[r]) # {}

\* _sets of the whole map is the number of ones of all regions: a page is
\* empty, and may be deleted, by this number.
TotalExact == sets = Cardinality(AllOnes)

\* Every bit of the map has a region, and no two bits share a place.
\* vmmpage.h:61 and :64: "the size will be rounded to a multiple of 256".
EveryBitHasRegion == \A i \in 0 .. count - 1 :
    /\ RegionOf(i) \in Regions
    /\ PlaceOf(i) < regionBits[RegionOf(i)].count

\* The map is a set of numbers, and its search finds the least of them.
Flat == INSTANCE BitSet WITH size <- count, ones <- AllOnes, first <- Search
ImplementsSet == Flat!SetSpec

=============================================================================
