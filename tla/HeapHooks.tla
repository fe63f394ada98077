------------------------------ MODULE HeapHooks ------------------------------
(***************************************************************************)
(* The heap functions that Turpentine puts in the place of the game's      *)
(* (core/TMemory.cpp): malloc and its relatives of the C runtime, and the  *)
(* allocator of the Wwise audio library.  The hooks are installed one by   *)
(* one while threads of the game may run, and the game keeps blocks it got *)
(* before: what a function is given may come from any of five allocators.  *)
(*                                                                         *)
(* Simplifications:                                                        *)
(*  - a call is one step: the managers below lock by themselves, and a     *)
(*    caller owns the block it passes;                                     *)
(*  - the game pairs functions as their documents ask: what malloc gave    *)
(*    goes to free or realloc, and so on for each family;                  *)
(*  - bytes are only counted: how many at the start of a block are still   *)
(*    those that were written there;                                       *)
(*  - a manager knows its own blocks and no others.  The code looks for a  *)
(*    prologue in the memory in front of the pointer (vmmblock.h:166-188), *)
(*    which is not the manager's for a foreign block and stale for one     *)
(*    that was released; by chance it may look like a header;              *)
(*  - every function that is to be replaced is: an import that the game    *)
(*    does not have is one it does not call.  That the import table cannot *)
(*    be written (nobody looks at it) is left out;                         *)
(*  - after a block went to an allocator that did not make it, memory is   *)
(*    corrupt; the model notes that and takes the block as gone.           *)
(***************************************************************************)
EXTENDS Naturals, Sequences, FiniteSetsExt

CONSTANTS
    Blocks,     \* bound: blocks there can be at a time
    Sizes,      \* sizes asked for
    Counts,     \* numbers of elements calloc is asked for
    Alignments, \* alignments asked for
    Line,       \* the alignment the managers guarantee (16)
    Wrap,       \* sizes wrap around here (2^64)
    Null        \* the null pointer

\* The block of size zero of each of the two managers.
Zeros == {"vmm zero", "audio zero"}
Manager == {"vmm", "audio"}
ZeroOf(m) == IF m = "vmm" THEN "vmm zero" ELSE "audio zero"

ASSUME HooksAssumption ==
    /\ Line \in Nat \ {0} /\ Wrap \in Nat /\ Line < Wrap
    /\ Sizes \subseteq 0 .. Wrap - 1
    /\ Counts \subseteq Nat \ {0}
    /\ Alignments \subseteq Nat \ {0}
    /\ Null \notin Blocks \cup Zeros
    /\ Blocks \cap Zeros = {}

VARIABLES
    hooked,     \* the functions replaced so far
    todo,       \* the functions still to be replaced, in the order of the code
    blk,        \* each block the game holds
    misused,    \* the block the last call gave to an allocator that did not make it
    moved,      \* the block the last call moved
    crashed     \* the function that wrote through a null pointer, or "no"

vars == <<hooked, todo, blk, misused, moved, crashed>>

-----------------------------------------------------------------------------
(* The functions *)

BugCrtHooks ==
    <<"_aligned_malloc", "_aligned_free", "_aligned_realloc",
      "calloc", "free", "malloc", "realloc">>

\* The order of installation.
CrtHooks ==
    <<"_aligned_free", "_aligned_malloc", "_aligned_realloc",
      "calloc", "free", "malloc", "realloc">>
AudioHooks == <<"Free", "Malign", "Malloc", "Realloc", "ReallocAligned">>

Functions == Range(CrtHooks \o AudioHooks)
Allocating == {"malloc", "calloc", "_aligned_malloc", "Malign", "Malloc"}
Freeing == {"free", "_aligned_free", "Free"}
Reallocating == {"realloc", "_aligned_realloc", "Realloc", "ReallocAligned"}
WithAlignment == {"_aligned_malloc", "_aligned_realloc", "Malign", "ReallocAligned"}

\* Functions of one family take each other's blocks.
Family(f) ==
    CASE f \in {"malloc", "calloc", "free", "realloc"} -> "plain"
      [] f \in {"_aligned_malloc", "_aligned_free", "_aligned_realloc"} -> "aligned"
      [] OTHER -> "audio"

\* What makes a block before the function is hooked, and which manager after.
OriginalMaker(f) ==
    CASE Family(f) = "plain" -> "crt"
      [] Family(f) = "aligned" -> "crtAligned"
      [] OTHER -> "ak"
ManagerOf(f) == IF Family(f) = "audio" THEN "audio" ELSE "vmm"

\* The next power of two, as the shifts and ors compute it.
PowerOfTwo(a) == Min({p \in {2 ^ i : i \in 0 .. a} : p >= a})

\* The managers' own alignment is such a power.
ASSUME LineAssumption == \A a \in 1 .. Line : PowerOfTwo(a) \in 1 .. Line

\* malloc, calloc and realloc pass alignment 0 and leave `aligned' false, Malloc
\* and Realloc pass 0: alloc and Malign make Line of it.  The C runtime takes
\* powers of two only.
AlignmentsFor(f) ==
    CASE f \notin WithAlignment -> {Line}
      [] Family(f) = "aligned" -> {a \in Alignments : a = PowerOfTwo(a)}
      [] OTHER -> Alignments
CountsFor(f) == IF f = "calloc" THEN Counts ELSE {1}

-----------------------------------------------------------------------------
(* Blocks *)

NoBlock == [maker |-> "none", family |-> "none", asked |-> 0, size |-> 0]

\* A block for n bytes, which the game fills at once.
Block(f, maker, n, size) ==
    [maker |-> maker, family |-> Family(f), asked |-> n, size |-> size]
Filled(b) == Min({blk[b].asked, blk[b].size})

Live == {b \in DOMAIN blk : blk[b] # NoBlock}
Fresh == Blocks \ Live

TypeOK ==
    /\ hooked \subseteq Functions
    /\ todo \in Seq(Functions)
    /\ DOMAIN blk = Blocks \cup Zeros
    /\ \A b \in Live :
          /\ blk[b].maker \in {"crt", "crtAligned", "ak"} \cup Manager
          /\ blk[b].size \in 0 .. Wrap - 1
          /\ b \in Zeros => blk[b].maker \in Manager /\ b = ZeroOf(blk[b].maker)
    /\ crashed \in {"no"} \cup Reallocating

Init ==
    /\ hooked = {}
    /\ \E crtmem, audiomem \in BOOLEAN :
          todo = (IF crtmem THEN CrtHooks ELSE <<>>)
                   \o (IF audiomem THEN AudioHooks ELSE <<>>)
    /\ blk = [b \in Blocks \cup Zeros |-> NoBlock]
    /\ misused = {}
    /\ moved = {}
    /\ crashed = "no"

\* Memory: one entry of the import table, or one jump, at a time.
Install ==
    /\ todo # <<>>
    /\ hooked' = hooked \cup {Head(todo)}
    /\ todo' = Tail(todo)
    /\ misused' = {} /\ moved' = {}
    /\ UNCHANGED <<blk, crashed>>

-----------------------------------------------------------------------------
(* MemoryHeap::alloc and MemoryMgr::Malign *)

BugRoundedDown(n, a) == (n \div a) * a

\* size rounded up to a multiple of the alignment, in size_t.
Rounded(n, a) == IF n % a = 0 THEN n ELSE (((n + a - 1) % Wrap) \div a) * a

\* A large alignment goes to _aligned_malloc, whatever the function.
Maker(f, a) == IF a <= Line THEN ManagerOf(f) ELSE "crtAligned"

\* What a hooked function may return for n bytes: a pointer and the size of its
\* block.  Size 0, asked for or reached by wrapping, is the manager's own block.
Alloc(f, n, a) ==
    LET size == IF a <= Line THEN Rounded(n, PowerOfTwo(a)) ELSE n
    IN  IF n = 0 \/ size = 0
        THEN {[ptr |-> ZeroOf(ManagerOf(f)), maker |-> ManagerOf(f), size |-> 0]}
        ELSE {[ptr |-> p, maker |-> Maker(f, a), size |-> size] : p \in Fresh \cup {Null}}

\* What the replaced function may return; calloc looks for overflow.
OriginalAlloc(f, n) ==
    IF n >= Wrap THEN {[ptr |-> Null, maker |-> OriginalMaker(f), size |-> 0]}
    ELSE {[ptr |-> p, maker |-> OriginalMaker(f), size |-> n] : p \in Fresh \cup {Null}}

Results(f, n, a) ==
    IF f \in hooked THEN Alloc(f, n % Wrap, a) ELSE OriginalAlloc(f, n)

\* The game allocates, and fills what it has been given.
Allocate(f) == \E n \in Sizes, k \in CountsFor(f), a \in AlignmentsFor(f) :
    \E r \in Results(f, k * n, a) :
        /\ blk' = IF r.ptr = Null THEN blk
                  ELSE [blk EXCEPT ![r.ptr] = Block(f, r.maker, k * n, r.size)]
        /\ misused' = {} /\ moved' = {}
        /\ UNCHANGED <<hooked, todo, crashed>>

-----------------------------------------------------------------------------
(* MemoryHeap::dealloc and MemoryMgr::Free *)

\* The managers know their own blocks and call all others 0 bytes long (idealised,
\* see above).
Msize(f, b) == IF b # Null /\ blk[b].maker = ManagerOf(f) THEN blk[b].size ELSE 0

\* A block without a size is taken for one of _aligned_malloc.
Dealloc(f, b) == IF Msize(f, b) = 0 THEN "crtAligned" ELSE ManagerOf(f)

\* The allocator to which function f gives block b.
GivenTo(f, b) == IF f \in hooked THEN Dealloc(f, b) ELSE OriginalMaker(f)

Misuse(f, b) ==
    IF b = Null \/ GivenTo(f, b) = blk[b].maker THEN {}
    ELSE {[fn |-> f, ptr |-> b, maker |-> blk[b].maker, to |-> GivenTo(f, b)]}

Release(f) == \E b \in Live :
    /\ blk[b].family = Family(f)
    /\ misused' = Misuse(f, b) /\ moved' = {}
    /\ blk' = [blk EXCEPT ![b] = NoBlock]
    /\ UNCHANGED <<hooked, todo, crashed>>

-----------------------------------------------------------------------------
(* realloc, aligned_realloc, MemoryMgr::ReallocAligned *)

\* realloc does not look whether it got a new block; the others do.
CopiesInto(f, r) == f = "realloc" \/ r # Null

BugCopiedBytes(f, b, n) == Min({n - 1, Msize(f, b)})

CopiedBytes(f, b, n) == Min({n, Msize(f, b)})

\* The old block gives way to the new one, if there is one.
Replaced(f, b, n, r) ==
    [c \in DOMAIN blk |-> IF c = r.ptr THEN Block(f, r.maker, n, r.size)
                          ELSE IF c = b THEN NoBlock ELSE blk[c]]

\* What was kept of the old block, and what its owner can expect.
Move(f, b, n, r) ==
    IF b = Null \/ r.ptr = Null THEN {}
    ELSE {[from |-> blk[b].maker, size |-> n, owed |-> Min({Filled(b), n}),
           kept |-> Min({Filled(b), r.size,
                         IF f \in hooked THEN CopiedBytes(f, b, n) ELSE n})]}

\* A hooked realloc releases the old block whether or not there is a new one; the
\* original keeps it when there is no memory.
HookedRealloc(f, b, n, a) ==
    /\ f \in hooked
    /\ \E r \in Alloc(f, n, a) :
          IF b # Null /\ r.ptr = Null /\ Msize(f, b) > 0 /\ CopiesInto(f, r.ptr)
          THEN crashed' = f /\ misused' = {} /\ moved' = {} /\ UNCHANGED blk
          ELSE /\ blk' = Replaced(f, b, n, r)
               /\ misused' = Misuse(f, b)
               /\ moved' = Move(f, b, n, r)
               /\ UNCHANGED crashed

OriginalRealloc(f, b, n) ==
    /\ f \notin hooked
    /\ \E r \in OriginalAlloc(f, n) :
          IF r.ptr = Null THEN misused' = {} /\ moved' = {} /\ UNCHANGED blk
          ELSE /\ blk' = Replaced(f, b, n, r)
               /\ misused' = Misuse(f, b)
               /\ moved' = Move(f, b, n, r)
    /\ UNCHANGED crashed

Reallocate(f) == \E b \in Live \cup {Null}, n \in Sizes \ {0}, a \in AlignmentsFor(f) :
    /\ b # Null => blk[b].family = Family(f)
    /\ HookedRealloc(f, b, n, a) \/ OriginalRealloc(f, b, n)
    /\ UNCHANGED <<hooked, todo>>

\* With size 0 the block is released and null returned.
ReallocateToZero(f) == f \in Reallocating /\ Release(f)

Next ==
    /\ crashed = "no"
    /\ \/ Install
       \/ \E f \in Allocating : Allocate(f)
       \/ \E f \in Freeing : Release(f)
       \/ \E f \in Reallocating : Reallocate(f) \/ ReallocateToZero(f)

Spec == Init /\ [][Next]_vars

-----------------------------------------------------------------------------
(* Properties *)

\* A block goes back to the allocator that made it.  There are two exceptions:
\* the block of size zero; and, while functions of its family are replaced, a block
\* that does not go to _aligned_free, or later one that the replaced malloc or audio
\* library made.  _aligned_free is replaced before anything that makes blocks for
\* it, and is right at any time.
RightDeallocator == \A m \in misused :
    \/ m.ptr \in Zeros
    \/ /\ m.fn # "_aligned_free"
       /\ \/ \E f \in Range(todo) : Family(f) = Family(m.fn)
          \/ m.maker \in {"crt", "ak"}

\* There is room for what was asked, unless rounding up wraps around or the
\* product in calloc does: then a small block, or the one of size 0, is returned.
EnoughRoom == \A b \in Live :
    blk[b].asked <= Wrap - Line => blk[b].size >= blk[b].asked

\* Moving a block of a manager keeps what is in it, up to the new size, if there is
\* room.  (For blocks of other makers msize is 0, and nothing is copied.)
MovesKeepContents == \A m \in moved :
    m.from \in Manager /\ m.size <= Wrap - Line => m.kept >= m.owed

\* Voltek.MemoryManager.h:49-51: msize is 0 "on error, which means that the pointer
\* does not belong to the manager" -- which is what dealloc relies on.
MsizeTellsOwner == \A m \in misused : m.to = "crtAligned" => m.maker \notin Manager

=============================================================================
