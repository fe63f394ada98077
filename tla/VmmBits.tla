------------------------------ MODULE VmmBits -------------------------------
(***************************************************************************)
(* The bit map `bits' of vmm (depends/vmm/source/vbits.cpp) as a value:    *)
(* its members are operators from a map to the map they leave.             *)
(*                                                                         *)
(* A map is a record: alloc, the bits its memory has room for (0 for a     *)
(* null _mem); mem, the bits that are 1; count (_count); sets (_sets).     *)
(* Memory comes in bytes, so alloc can exceed count: the bits from count   *)
(* up to alloc belong to the last byte and to nobody.                      *)
(***************************************************************************)
EXTENDS Naturals, FiniteSetsExt

CONSTANTS
    ByteBits,   \* bits in a byte (8)
    SizeMax,    \* the largest size_t
    None        \* no index

ASSUME WidthsAssumption ==
    /\ ByteBits \in Nat \ {0}
    /\ SizeMax \in Nat \ {0}
    /\ None \notin Nat

Map(maxCount) ==
    [alloc : 0 .. maxCount + ByteBits - 1,
     mem   : SUBSET (0 .. maxCount + ByteBits - 2),
     count : 0 .. maxCount,
     sets  : 0 .. SizeMax]

EmptyMap == [alloc |-> 0, mem |-> {}, count |-> 0, sets |-> 0]

\* The ones among the bits of the map.
Ones(v) == {i \in v.mem : i < v.count}

\* _sets is what get_sets_count and the tests for all ones and all zeros go by.
Exact(v) == v.sets = Cardinality(Ones(v))

\* size_t wraps around.
Increment(s) == IF s = SizeMax THEN 0 ELSE s + 1
Decrement(s) == IF s = 0 THEN SizeMax ELSE s - 1

BugAllSetCountsMemory(v) ==
    IF v.alloc = 0 THEN v
    ELSE [v EXCEPT !.mem = 0 .. v.alloc - 1, !.sets = v.alloc]

AllSet(v) ==
    IF v.alloc = 0 THEN v
    ELSE [v EXCEPT !.mem = 0 .. v.alloc - 1, !.sets = v.count]

AllUnset(v) ==
    IF v.alloc = 0 THEN v ELSE [v EXCEPT !.mem = {}, !.sets = 0]

\* set and unset return whether they changed the bit; i < v.count.
SetBit(v, i) ==
    IF i \in v.mem THEN v
    ELSE [v EXCEPT !.mem = @ \cup {i}, !.sets = Increment(@)]

BugUnsetAlwaysCounts(v, i) == [v EXCEPT !.mem = @ \ {i}, !.sets = Decrement(@)]

UnsetBit(v, i) ==
    IF i \in v.mem
    THEN [v EXCEPT !.mem = @ \ {i}, !.sets = Decrement(@)]
    ELSE v

\* Bits in the bytes that n bits need.
InBytes(n) == ((n + ByteBits - 1) \div ByteBits) * ByteBits

\* What resize makes of an unsized map: zeroed memory, or no change if there is none.
NewMap(v, n, ok) ==
    IF ok THEN [v EXCEPT !.alloc = InBytes(n), !.mem = {}, !.count = n] ELSE v

\* update_sets counts the ones up to the old count, before _count is changed;
\* "junk" are the ones it reads behind the memory that was just made smaller.
Recounted(v, kept, junk) ==
    Cardinality({i \in kept \cup junk : i < v.count})

\* What resize makes of a map with memory: recalloc keeps what fits and
\* zeroes what is new; without memory the old block is lost and _mem is null.
ChangedMap(v, n, ok, junk) ==
    LET kept == {i \in v.mem : i < InBytes(n)}
    IN  IF ~ok THEN [v EXCEPT !.alloc = 0, !.mem = {}]
        ELSE [alloc |-> InBytes(n), mem |-> kept, count |-> n,
              sets |-> IF v.count > n THEN Recounted(v, kept, junk) ELSE v.sets]

Resize(v, n, ok, junk) ==
    CASE n = 0 -> IF v.alloc = 0 THEN v ELSE EmptyMap
      [] n > 0 /\ v.alloc = 0 -> NewMap(v, n, ok)
      [] OTHER -> ChangedMap(v, n, ok, junk)

\* The junk resize may read.
JunkOf(v, n) ==
    IF v.alloc > 0 /\ n > 0 THEN SUBSET (InBytes(n) .. v.count - 1) ELSE {{}}

\* operator=: take the size of w, then its bytes and its count of ones.
Assign(v, w, ok, junk) ==
    LET sized == Resize(v, w.count, ok, junk)
    IN  IF sized.alloc = 0 THEN sized
        ELSE [sized EXCEPT !.mem = w.mem, !.sets = w.sets]

\* find_first_set_bit: None where the code returns false.  With an exact count
\* each of its four searches finds the least one (module VmmBitSearch).
FindFirst(v) ==
    IF v.sets = 0 \/ Ones(v) = {} THEN None ELSE Min(Ones(v))

=============================================================================
