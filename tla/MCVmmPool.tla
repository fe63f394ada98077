----------------------------- MODULE MCVmmPool ------------------------------
(* A pool with few pages, for model checking. *)
EXTENDS VmmPool
=============================================================================
