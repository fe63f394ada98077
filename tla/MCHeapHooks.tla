---------------------------- MODULE MCHeapHooks -----------------------------
(* Alignments 2 and 4 are the managers', 8 is large; sizes end at 16. *)
EXTENDS HeapHooks, TLC

BlockSymmetry == Permutations(Blocks)
=============================================================================
