--------------------------- MODULE MCVmmBitSearch ---------------------------
(* Words of two bits in groups of four, for model checking. *)
EXTENDS VmmBitSearch

\* A single word and a rest, one group exactly, a group and a rest that no
\* group reaches, a group and a half with a rest inside the last group.
SomeCounts == {3, 8, 9, 11}
=============================================================================
