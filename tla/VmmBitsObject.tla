--------------------------- MODULE VmmBitsObject ----------------------------
(***************************************************************************)
(* Objects of class bits under any sequence of calls to their members      *)
(* (depends/vmm/source/vbits.cpp).                                         *)
(*                                                                         *)
(* The calls are those vmm makes: pages and pools size a map once, and a   *)
(* copy is made into a new object.  (A map that is made smaller is counted *)
(* up to its old size, vbits.cpp:98; nobody makes one smaller.)            *)
(***************************************************************************)
EXTENDS VmmBits

CONSTANTS
    Objects,    \* the maps in use
    MaxCount    \* bound on the bits asked for

ASSUME MaxCountAssumption == MaxCount \in Nat /\ MaxCount <= SizeMax

VARIABLE maps   \* the value of each object

ObjectsTypeOK == maps \in [Objects -> Map(MaxCount)]

ObjectsInit == maps = [o \in Objects |-> EmptyMap]

Become(o, v) == maps' = [maps EXCEPT ![o] = v]

\* resize(n), clear() for n = 0; memory may run out.
ResizeObject(o, n) ==
    \E ok \in BOOLEAN, junk \in JunkOf(maps[o], n) :
        Become(o, Resize(maps[o], n, ok, junk))

Fill(o) == Become(o, AllSet(maps[o])) \/ Become(o, AllUnset(maps[o]))

\* A bit of a map that has memory; beyond its count, or without memory, the
\* call is an error of the caller.
Change(o) ==
    /\ maps[o].alloc > 0
    /\ \E i \in 0 .. maps[o].count - 1 :
           \/ Become(o, SetBit(maps[o], i))
           \/ Become(o, UnsetBit(maps[o], i))

UpdateSets(o) ==
    /\ maps[o].alloc > 0
    /\ Become(o, [maps[o] EXCEPT !.sets = Recounted(maps[o], maps[o].mem, {})])

AssignObject(o, p) ==
    \E ok \in BOOLEAN, junk \in JunkOf(maps[o], maps[p].count) :
        Become(o, Assign(maps[o], maps[p], ok, junk))

Unsized(o) == maps[o].count = 0

UsedNext == \E o \in Objects :
    \/ \E n \in 0 .. MaxCount : (Unsized(o) \/ n = 0) /\ ResizeObject(o, n)
    \/ Fill(o)
    \/ Change(o)
    \/ UpdateSets(o)
    \/ \E p \in Objects \ {o} : Unsized(o) /\ AssignObject(o, p)

UsedSpec == ObjectsInit /\ [][UsedNext]_maps

-----------------------------------------------------------------------------
(* Properties *)

\* Memory covers the bits of the map, and an unsized map has none.
MemoryCovers(v) ==
    /\ v.count <= v.alloc
    /\ v.count = 0 => v.alloc = 0
    /\ \A i \in v.mem : i < v.alloc

\* _sets is the number of ones, whatever mixture of whole-map and single-bit
\* calls came before, also when the last byte is not full.
CountExact == \A o \in Objects : MemoryCovers(maps[o]) /\ Exact(maps[o])

=============================================================================
