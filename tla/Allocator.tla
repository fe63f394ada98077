----------------------------- MODULE Allocator ------------------------------
(***************************************************************************)
(* What a memory manager promises the threads that call it: a block that a *)
(* thread received is nobody else's until that thread hands it back.       *)
(***************************************************************************)

CONSTANTS
    Client,     \* the threads
    Block       \* the blocks the manager may ever hand out

VARIABLE owned  \* the blocks each thread has

AllocInit == owned = [c \in Client |-> {}]

\* Thread c receives block b, which no thread has.
Receive(c, b) ==
    /\ \A d \in Client : b \notin owned[d]
    /\ owned' = [owned EXCEPT ![c] = @ \cup {b}]

\* Thread c hands block b back, to be freed or to be exchanged for another.
HandBack(c, b) ==
    /\ b \in owned[c]
    /\ owned' = [owned EXCEPT ![c] = @ \ {b}]

AllocNext == \E c \in Client, b \in Block : Receive(c, b) \/ HandBack(c, b)

AllocSpec == AllocInit /\ [][AllocNext]_owned

=============================================================================
