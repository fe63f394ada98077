------------------------------- MODULE BitSet -------------------------------
(***************************************************************************)
(* What a bit map promises: it is a set of numbers below its size, and a   *)
(* search gives its least member.                                          *)
(***************************************************************************)
EXTENDS Naturals, FiniteSetsExt

CONSTANT None       \* the result of a search of an empty set

VARIABLES
    size,       \* the bits of the map
    ones,       \* those that are 1
    first       \* what a search returns now

setVars == <<size, ones, first>>

SetInit == size = 0 /\ ones = {} /\ first = None

\* A map gets its size once, with all bits 0.
Size == size = 0 /\ size' \in Nat /\ ones' = {}

Fill == ones' = 0 .. size - 1 /\ UNCHANGED size
Clear == ones' = {} /\ UNCHANGED size
Put(i) == ones' = ones \cup {i} /\ UNCHANGED size
Take(i) == ones' = ones \ {i} /\ UNCHANGED size

SetNext ==
    /\ \/ Size
       \/ Fill
       \/ Clear
       \/ \E i \in 0 .. size - 1 : Put(i) \/ Take(i)
    /\ first' = IF ones' = {} THEN None ELSE Min(ones')

SetSpec == SetInit /\ [][SetNext]_setVars

=============================================================================
