---------------------------- MODULE MCVmmManager ----------------------------
(* Two pools of small blocks, for model checking. *)
EXTENDS VmmManager, TLC

TwoPools == <<1, 3>>

\* The threads of the game are alike.
ThreadSymmetry == Permutations(Clients)
=============================================================================
