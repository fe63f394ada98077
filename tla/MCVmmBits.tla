----------------------------- MODULE MCVmmBits ------------------------------
(* Two maps of a few bits, and a map of three regions of two or three bits, *)
(* in bytes of two bits, for model checking.                                *)
EXTENDS VmmBitsObject, VmmBitsRegions

\* Objects of the two classes share nothing: it is enough that one kind is used while
\* the other is new.
EitherInit == ObjectsInit /\ Init

EitherNext ==
    \/ Init /\ UsedNext /\ UNCHANGED vars
    \/ ObjectsInit /\ Next /\ UNCHANGED maps

EitherSpec == EitherInit /\ [][EitherNext]_<<maps, vars>>
=============================================================================
