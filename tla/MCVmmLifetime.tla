--------------------------- MODULE MCVmmLifetime ----------------------------
(* A few threads of the game and the caching thread, for model checking. *)
EXTENDS VmmLifetime
=============================================================================
