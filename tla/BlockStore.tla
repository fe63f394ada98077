----------------------------- MODULE BlockStore -----------------------------
(***************************************************************************)
(* What a pool of fixed-size blocks promises its callers: a block that is  *)
(* handed out is not handed out again before it is given back.  How blocks *)
(* are found, cached or backed by memory does not appear here.             *)
(***************************************************************************)

CONSTANT Block      \* the blocks a pool can ever hand out

VARIABLE holders    \* how many callers hold each block

StoreInit == holders = [b \in Block |-> 0]

\* A caller receives block b, which nobody holds.
Acquire(b) ==
    /\ holders[b] = 0
    /\ holders' = [holders EXCEPT ![b] = 1]

\* The caller that holds block b gives it back.
GiveBack(b) ==
    /\ holders[b] = 1
    /\ holders' = [holders EXCEPT ![b] = 0]

StoreNext == \E b \in Block : Acquire(b) \/ GiveBack(b)

StoreSpec == StoreInit /\ [][StoreNext]_holders

=============================================================================
