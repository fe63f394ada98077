----------------------------- MODULE VmmManager -----------------------------
(***************************************************************************)
(* The memory manager of vmm (depends/vmm/source/vmmmain.cpp) with the     *)
(* block headers (vmmblock.h) and the recursive lock (vsimplelock.cpp):    *)
(* threads that allocate, reallocate and free, and the caching thread.     *)
(*                                                                         *)
(* A block is a pair: <<p, k>> is block k of pool p (the page and the      *)
(* block number of the code in one), <<0, h>> a block allocated by itself, *)
(* <<0, 0>> the block of size zero.  A pool is the set of its free blocks: *)
(* it is a block store (theorem PoolImplementsStore of VmmPoolProofs),     *)
(* and which block it gives is its own affair.                             *)
(*                                                                         *)
(* Threads pass the manager blocks they have received.  For a null pointer *)
(* or one without the prologue, and for a reallocation to size zero, the   *)
(* code returns before it changes anything; these calls are left out.      *)
(***************************************************************************)
EXTENDS Naturals, Sequences, FiniteSetsExt

CONSTANTS
    Clients,    \* the threads of the game
    Capacity,   \* the block size of each pool, ascending (8 ... 8192)
    Eager,      \* pools that exist from the start; the others when first used
    BlocksPerPool, \* bound: blocks of one pool
    HeapBlocks, \* bound: blocks allocated by themselves
    Sizes,      \* sizes asked for
    VirtualMin, \* from this size on VirtualAlloc is used (MAX_BLOCK_SIZE, 2^30)
    Wrap,       \* size fields of 32 bits hold sizes modulo this (2^32)
    MaxHeld,    \* bound: blocks one thread holds
    Null,       \* the null pointer
    Nobody      \* no owner

Pools == 1 .. Len(Capacity)
MaxPooled == Capacity[Len(Capacity)]
PoolBlocks == Pools \X (0 .. BlocksPerPool - 1)
Zero == <<0, 0>>
DefaultBlocks == {0} \X (1 .. HeapBlocks)
AllBlocks == PoolBlocks \cup DefaultBlocks \cup {Zero}

ASSUME ManagerAssumption ==
    /\ Capacity \in Seq(Nat \ {0}) /\ Capacity # <<>>
    /\ \A p, q \in Pools : p < q => Capacity[p] < Capacity[q]
    /\ Eager \subseteq Pools
    /\ BlocksPerPool \in Nat /\ HeapBlocks \in Nat /\ MaxHeld \in Nat
    /\ Sizes \subseteq Nat
    /\ VirtualMin \in Nat /\ Wrap \in Nat
    /\ MaxPooled < VirtualMin /\ VirtualMin < Wrap
    /\ Null \notin AllBlocks /\ Nobody \notin Clients

VARIABLES
    pooled,     \* whether there is an array of pools
    pools,      \* the pools created
    free,       \* the blocks each pool can give
    heap,       \* for a default block, what its memory came from
    hdr,        \* the header in front of each block
    lock,       \* owner and depth of the recursive lock
    call,       \* the call each thread is in
    held,       \* the blocks each thread has received and not passed back
    data,       \* what is in each block: whose bytes, and how many
    wanted      \* the size each block in a thread's hands was asked for

memVars == <<pooled, pools, free, heap, hdr>>
vars == <<memVars, lock, call, held, data, wanted>>

Header ==
    [kind : {"none", "pool", "default"}, pool : 0 .. Len(Capacity),
     id : 0 .. BlocksPerPool, size : Nat]
PC == {"idle", "enter", "lock", "resize", "take", "default", "copy", "free", "ret"}

TypeOK ==
    /\ pooled \in BOOLEAN
    /\ pools \subseteq Pools
    /\ free \in [Pools -> SUBSET (0 .. BlocksPerPool - 1)]
    /\ heap \in [DefaultBlocks -> {"none", "heap", "virtual", "corrupt"}]
    /\ hdr \in [AllBlocks -> Header]
    /\ lock \in [owner : Clients \cup {Nobody}, depth : 0 .. 2]
    /\ call \in [Clients -> [op : {"none", "alloc", "realloc", "free"},
                             pc : PC, ptr : AllBlocks \cup {Null},
                             size : Sizes \cup {0}, was : Sizes \cup {0},
                             new : AllBlocks \cup {Null}]]
    /\ held \in [Clients -> SUBSET AllBlocks]
    /\ data \in [AllBlocks -> [by : Clients \cup {Nobody}, len : Nat]]
    /\ wanted \in [AllBlocks -> Nat]

NoCall == [op |-> "none", pc |-> "idle", ptr |-> Null, size |-> 0, was |-> 0,
           new |-> Null]
NoData == [by |-> Nobody, len |-> 0]

\* create_default_block and create_pool_block.  The 64-bit size of a default
\* block lies over the page and block numbers, which it therefore lacks.
DefaultHeader(n) == [kind |-> "default", pool |-> 0, id |-> 0, size |-> n]

BugHeaderOfFirstPool(p, k, n) ==
    [kind |-> "pool", pool |-> 1, id |-> k, size |-> n % Wrap]

PoolHeader(p, k, n) == [kind |-> "pool", pool |-> p, id |-> k, size |-> n % Wrap]

\* The constructor; without its two events it stops before it makes the pools.
Init ==
    /\ pooled \in BOOLEAN
    /\ pools = IF pooled THEN Eager ELSE {}
    /\ free = [p \in Pools |-> 0 .. BlocksPerPool - 1]
    /\ heap = [b \in DefaultBlocks |-> "none"]
    /\ hdr = [b \in AllBlocks |->
                 IF b = Zero THEN DefaultHeader(0)
                 ELSE [kind |-> "none", pool |-> 0, id |-> 0, size |-> 0]]
    /\ lock = [owner |-> Nobody, depth |-> 0]
    /\ call = [c \in Clients |-> NoCall]
    /\ held = [c \in Clients |-> {}]
    /\ data = [b \in AllBlocks |-> NoData]
    /\ wanted = [b \in AllBlocks |-> 0]

-----------------------------------------------------------------------------
(* Lock and program counters *)

BugUnlockForgotten(c) == lock

BugUnlockAll(c) == [owner |-> Nobody, depth |-> 0]

\* LeaveCriticalSection: the lock is free when it was left as often as entered.
Unlocked(c) ==
    IF lock.depth = 1 THEN [owner |-> Nobody, depth |-> 0]
    ELSE [lock EXCEPT !.depth = @ - 1]

At(c, pc) == call[c].pc = pc
Goto(c, pc) == call' = [call EXCEPT ![c].pc = pc]
GotoWith(c, pc, b) == call' = [call EXCEPT ![c].pc = pc, ![c].new = b]

\* Where alloc begins: no lock is needed for sizes no pool has.
Route(n) ==
    CASE n = 0 -> "ret"
      [] n > 0 /\ (~pooled \/ n > MaxPooled) -> "default"
      [] OTHER -> "lock"

BugOldBlockKept(c) == "ret"

BugCopyForgotten(c) == IF call[c].op = "alloc" THEN "ret" ELSE "free"

\* Where alloc ends: in its caller, or in realloc, which copies and frees.
AfterAlloc(c) == IF call[c].op = "alloc" THEN "ret" ELSE "copy"

-----------------------------------------------------------------------------
(* Calls begin *)

StartedCall(c, op, b, n) ==
    [op |-> op, pc |-> IF op = "alloc" THEN Route(n) ELSE "enter",
     ptr |-> b, size |-> n, was |-> IF b = Null THEN 0 ELSE wanted[b],
     new |-> IF op = "alloc" /\ n = 0 THEN Zero ELSE Null]

Begin(c, op, b, n) ==
    /\ At(c, "idle")
    /\ call' = [call EXCEPT ![c] = StartedCall(c, op, b, n)]
    /\ UNCHANGED <<memVars, lock, data>>

StartAlloc(c) ==
    /\ Cardinality(held[c]) < MaxHeld
    /\ \E n \in Sizes : Begin(c, "alloc", Null, n)
    /\ UNCHANGED <<held, wanted>>

PassBack(c, b) ==
    /\ held' = [held EXCEPT ![c] = @ \ {b}]
    /\ wanted' = [wanted EXCEPT ![b] = 0]

\* The thread passes its block to the call.
StartRealloc(c) == \E b \in held[c], n \in Sizes \ {0} :
    /\ Begin(c, "realloc", b, n)
    /\ PassBack(c, b)

StartFree(c) == \E b \in held[c] :
    /\ Begin(c, "free", b, 0)
    /\ PassBack(c, b)

\* EnterCriticalSection, by realloc and free ...
Acquire(c) ==
    /\ lock.owner \in {Nobody, c}
    /\ lock' = [owner |-> c, depth |-> lock.depth + 1]
    /\ UNCHANGED <<memVars, held, data, wanted>>

EnterCall(c) ==
    /\ At(c, "enter")
    /\ Acquire(c)
    /\ Goto(c, IF call[c].op = "free" THEN "free" ELSE "resize")

\* ... and by alloc, for the second time if realloc called it.
EnterAlloc(c) ==
    /\ At(c, "lock")
    /\ Acquire(c)
    /\ Goto(c, "take")

-----------------------------------------------------------------------------
(* alloc *)

\* The smallest pool with blocks of size n.
PoolFor(n) == Min({p \in Pools : n <= Capacity[p]})

BugTakenStaysFree(p, k) == free

Taken(p, k) == [free EXCEPT ![p] = @ \ {k}]

\* The pool is made if need be and gives a block, or has none: then the block
\* is allocated by itself, after the lock was left.
Take(c) ==
    LET n == call[c].size
        p == PoolFor(n)
    IN  /\ At(c, "take")
        /\ pools' = pools \cup {p}
        /\ \/ \E k \in free[p] :
                  /\ free' = Taken(p, k)
                  /\ hdr' = [hdr EXCEPT ![<<p, k>>] = PoolHeader(p, k, n)]
                  /\ GotoWith(c, AfterAlloc(c), <<p, k>>)
           \/ Goto(c, "default") /\ UNCHANGED <<free, hdr>>
        /\ lock' = Unlocked(c)
        /\ UNCHANGED <<pooled, heap, held, data, wanted>>

\* A block of its own, or the null pointer when memory has run out.
AllocDefault(c) ==
    LET n == call[c].size
    IN  /\ At(c, "default")
        /\ \/ \E b \in DefaultBlocks :
                  /\ heap[b] = "none"
                  /\ heap' = [heap EXCEPT ![b] =
                                 IF n >= VirtualMin THEN "virtual" ELSE "heap"]
                  /\ hdr' = [hdr EXCEPT ![b] = DefaultHeader(n)]
                  /\ GotoWith(c, AfterAlloc(c), b)
           \/ GotoWith(c, AfterAlloc(c), Null) /\ UNCHANGED <<heap, hdr>>
        /\ UNCHANGED <<pooled, pools, free, lock, held, data, wanted>>

-----------------------------------------------------------------------------
(* realloc *)

BugFitsNextPool(b, n) ==
    hdr[b].kind = "pool" /\ n <= Capacity[hdr[b].pool] + 1

\* A block of a pool is kept if the new size fits it.
Fits(b, n) == hdr[b].kind = "pool" /\ n <= Capacity[hdr[b].pool]

BugSizeKept(h, n) == h

Resized(h, n) == [h EXCEPT !.size = n % Wrap]

ResizeInPlace(c) ==
    /\ At(c, "resize")
    /\ Fits(call[c].ptr, call[c].size)
    /\ hdr' = [hdr EXCEPT ![call[c].ptr] = Resized(@, call[c].size)]
    /\ lock' = Unlocked(c)
    /\ GotoWith(c, "ret", call[c].ptr)
    /\ UNCHANGED <<pooled, pools, free, heap, held, data, wanted>>

\* Otherwise alloc is called with the lock held.
ResizeByMove(c) ==
    /\ At(c, "resize")
    /\ ~Fits(call[c].ptr, call[c].size)
    /\ Goto(c, Route(call[c].size))
    /\ UNCHANGED <<memVars, lock, held, data, wanted>>

\* msize of the old block and the new size decide how much is copied.
CopyLength(old, n) == Min({old, n})

Copy(c) ==
    LET ptr == call[c].ptr
        new == call[c].new
        len == CopyLength(hdr[ptr].size, call[c].size)
    IN  /\ At(c, "copy")
        /\ data' = IF new = Null \/ hdr[ptr].size = 0 THEN data
                   ELSE [data EXCEPT ![new] =
                            [data[ptr] EXCEPT !.len = Min({@, len})]]
        /\ Goto(c, "free")
        /\ UNCHANGED <<memVars, lock, held, wanted>>

-----------------------------------------------------------------------------
(* free, also of the old block in realloc, whether or not there is a new one *)

\* free reads the lower half of the size.
LowSize(b) == hdr[b].size % Wrap

BugVirtualAbove(b) == LowSize(b) > VirtualMin

FreesByVirtualFree(b) == LowSize(b) >= VirtualMin

\* aligned_free of memory that aligned_malloc did not return.
AlignedFree(source) == IF source = "heap" THEN "none" ELSE "corrupt"

\* VirtualFree fails for MEM_RELEASE with a size, and memory is kept; its
\* result is not looked at.  A block of low size 0 is kept, too.
FreeDefault(b) ==
    IF LowSize(b) = 0 \/ FreesByVirtualFree(b) THEN heap
    ELSE [heap EXCEPT ![b] = AlignedFree(@)]

Free(c) ==
    LET b == call[c].ptr
    IN  /\ At(c, "free")
        /\ IF hdr[b].kind = "default"
           THEN /\ heap' = IF b = Zero THEN heap ELSE FreeDefault(b)
                /\ UNCHANGED free
           ELSE /\ free' = [free EXCEPT ![hdr[b].pool] = @ \cup {hdr[b].id}]
                /\ UNCHANGED heap
        /\ data' = [data EXCEPT ![b] = NoData]
        /\ lock' = Unlocked(c)
        /\ Goto(c, "ret")
        /\ UNCHANGED <<pooled, pools, hdr, held, wanted>>

-----------------------------------------------------------------------------
\* The thread gets its result and fills the block.
Return(c) ==
    LET b == call[c].new
        n == call[c].size
    IN  /\ At(c, "ret")
        /\ IF b = Null THEN UNCHANGED <<held, data, wanted>>
           ELSE /\ held' = [held EXCEPT ![c] = @ \cup {b}]
                /\ wanted' = [wanted EXCEPT ![b] = n]
                /\ data' = IF n = 0 THEN data
                           ELSE [data EXCEPT ![b] = [by |-> c, len |-> n]]
        /\ call' = [call EXCEPT ![c] = NoCall]
        /\ UNCHANGED <<memVars, lock>>

\* The steps of a call that has begun.
Continue(c) ==
    \/ EnterCall(c) \/ EnterAlloc(c)
    \/ Take(c) \/ AllocDefault(c)
    \/ ResizeInPlace(c) \/ ResizeByMove(c) \/ Copy(c)
    \/ Free(c)
    \/ Return(c)

Next == \E c \in Clients :
    StartAlloc(c) \/ StartRealloc(c) \/ StartFree(c) \/ Continue(c)

Spec == Init /\ [][Next]_vars

-----------------------------------------------------------------------------
(* Properties *)

\* The block a call is about: handed in, or found and not yet handed out.
InCall(c, b) ==
    \/ b = call[c].ptr /\ ~At(c, "ret")
    \/ b = call[c].new

Owned(c, b) == b \in held[c] \/ InCall(c, b)

\* Every block that a thread has, or that its call works on, has a header that
\* names that very block and its size, and the size fits it: free and realloc
\* will go to the pool it came from.
HeadersTrue == \A c \in Clients : \A b \in AllBlocks :
    Owned(c, b) =>
        /\ b \in PoolBlocks =>
               /\ hdr[b].kind = "pool" /\ hdr[b].pool = b[1] /\ hdr[b].id = b[2]
               /\ hdr[b].size <= Capacity[b[1]]
        /\ b \notin PoolBlocks => hdr[b].kind = "default"
        /\ b \in held[c] => hdr[b].size = wanted[b]

\* What a thread wrote stays until it passes the block back, whatever the
\* calls of other threads do.
ContentsKept == \A c \in Clients : \A b \in held[c] \ {Zero} :
    data[b] = [by |-> c, len |-> wanted[b]]

\* realloc returns the old contents, up to the smaller of the two sizes.
ReallocKeepsContents == \A c \in Clients :
    LET k == call[c]
    IN  (k.op = "realloc" /\ k.pc = "ret" /\ k.new # Null /\ k.was > 0)
            => /\ data[k.new].by = c
               /\ data[k.new].len >= Min({k.was, k.size})

\* No two threads have the same block: the manager keeps an allocator's promise.
Promise == INSTANCE Allocator WITH
    Client <- Clients, Block <- AllBlocks \ {Zero},
    owned <- [c \in Clients |-> held[c] \ {Zero}]
ImplementsAllocator == Promise!AllocSpec

\* A block of a pool is free, or some thread has it, or a call works on it:
\* no path through realloc, the failing ones included, loses one or frees it early.
BlocksAccounted == \A b \in PoolBlocks :
    b[2] \in free[b[1]] <=> \A c \in Clients : ~Owned(c, b)

\* Pools, headers of pool blocks and frees are touched with the lock held, once
\* more for a nested alloc, and no call returns with it.
LockDiscipline ==
    /\ lock.owner = Nobody <=> lock.depth = 0
    /\ \A c \in Clients :
          /\ call[c].pc \in {"resize", "copy", "free"} =>
                 lock = [owner |-> c, depth |-> 1]
          /\ At(c, "take") =>
                 lock = [owner |-> c, depth |-> IF call[c].op = "alloc" THEN 1 ELSE 2]
          /\ call[c].pc \in {"idle", "ret"} => lock.owner # c

\* Memory is given back by the function that belongs to the one it came from, for
\* sizes below Wrap.  (Voltek.MemoryManager.h:24 says that larger ones are refused;
\* they are not, and the lower half of their size then decides.)
RightDeallocator == \A b \in DefaultBlocks : heap[b] # "corrupt"

\* vmmmain.h:52: free "releases memory", false (:53) only for a foreign pointer.  A
\* default block that is in use is then one that a thread has.
FreedIsReleased == \A b \in DefaultBlocks :
    heap[b] # "none" => \E c \in Clients : Owned(c, b)

=============================================================================
