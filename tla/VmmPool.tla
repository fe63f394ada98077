------------------------------ MODULE VmmPool -------------------------------
(***************************************************************************)
(* pool_t of the vmm memory manager (depends/vmm/source/vmmpool.h) with    *)
(* its pages page_t (vmmpage.h).                                           *)
(*                                                                         *)
(* A pool owns a table of pages, created when they are first needed and    *)
(* deleted when their last block is returned.  A page has a bitmap of its  *)
(* free blocks; the pool has a bitmap of the pages worth searching, a      *)
(* pointer to the page it is taking blocks from, and a stack of blocks     *)
(* that were returned (or fetched ahead by the caching thread) and can be  *)
(* handed out without a search.                                            *)
(*                                                                         *)
(* Every operation runs under the manager's lock, so each is one step.     *)
(* Page objects are named by their index in the table: the table holds at  *)
(* most one page per index, and a reference to a page that is not in       *)
(* `created' is a dangling pointer.                                        *)
(*                                                                         *)
(* Definitions named Bug... are broken variants of the definition that     *)
(* follows them; no specification uses them.  Substituted for it, they     *)
(* show that the properties below can fail.                                *)
(***************************************************************************)
EXTENDS Naturals, Sequences, FiniteSetsExt

CONSTANTS
    NumPages,   \* pages a pool may have (POOL_SIZE, 65536)
    NumBlocks,  \* blocks in one page (_blocks_in_page)
    CacheSize,  \* bound on the stack of free blocks (__VMM_POOL_CONFIG_CACHE_SIZE)
    None        \* the null page pointer

Pages == 0 .. NumPages - 1
Blocks == 0 .. NumBlocks - 1

ASSUME SizesAssumption ==
    /\ NumPages \in Nat \ {0}
    /\ NumBlocks \in Nat \ {0}
    /\ CacheSize \in Nat
ASSUME NoneAssumption == None \notin Nat

Entries == Pages \X Blocks

VARIABLES
    created,    \* indices whose slot of _pages is not null
    emptyPages, \* created pages whose block array could not be allocated (page_t::empty)
    pageMap,    \* bits set in the pool's map: pages worth searching
    free,       \* bits set in the map of each page
    current,    \* _current
    cache,      \* free_stack_blocks, bottom first
    holders     \* for each block, the hand-outs not yet returned

pageVars == <<created, emptyPages, pageMap, free, current>>
vars == <<created, emptyPages, pageMap, free, current, cache, holders>>

\* The blocks in the hands of callers.
live == {e \in Entries : holders[e] > 0}

TypeOK ==
    /\ created \subseteq Pages
    /\ emptyPages \subseteq created
    /\ pageMap \subseteq Pages
    /\ free \in [Pages -> SUBSET Blocks]
    /\ current \in Pages \cup {None}
    /\ cache \in Seq(Entries)
    /\ Len(cache) <= CacheSize
    /\ holders \in [Entries -> {0, 1}]

\* set_size: a table of null pointers and a map of ones; or, without memory for the
\* table, the zeros the map was sized with (map.clear() does nothing to it).
Init ==
    /\ created = {}
    /\ emptyPages = {}
    /\ pageMap \in {Pages, {}}
    /\ free = [p \in Pages |-> {}]
    /\ current = None
    /\ cache = <<>>
    /\ holders = [e \in Entries |-> 0]

-----------------------------------------------------------------------------
(* Creating pages.  Memory may run out, for the page object or for its     *)
(* array of blocks; "mem" says what happens at each page a search creates. *)

MemOutcomes == {"ok", "no_blocks", "no_page"}

BugNewPageBits(outcome) == IF outcome = "no_page" THEN {} ELSE Blocks

\* The map of a new page: all ones if the blocks could be allocated, and
\* the zeros of calloc otherwise (map.clear() does nothing to a map of regions).
NewPageBits(outcome) == IF outcome = "ok" THEN Blocks ELSE {}

\* The map of page p, as the search finds it after creating p if need be.
BitsAt(p, mem) == IF p \in created THEN free[p] ELSE NewPageBits(mem[p])

-----------------------------------------------------------------------------
(* get_free_block *)

CurrentExhausted == current # None => free[current] = {}

\* An exhausted current page leaves the map before the search.
Candidates == pageMap \ {current}

\* The search ends at a page with a free block, and where a page cannot be created.
SearchStops(p, mem) ==
    \/ BitsAt(p, mem) # {}
    \/ p \notin created /\ mem[p] = "no_page"

\* The pages the search goes through and marks busy on its way.
Skipped(mem) ==
    {p \in Candidates : \A q \in Candidates : SearchStops(q, mem) => p < q}

\* The search creates the pages of "made" whose slots are null, some without blocks.
CreatePages(made, mem) ==
    /\ created' = created \cup made
    /\ emptyPages' = emptyPages \cup {p \in made \ created : mem[p] = "no_blocks"}

BugTakeFirstNotMarked(bits) == bits     \* set_block_busy forgotten

\* find_first_set_bit returns the lowest bit; the block it names is marked busy.
TakeFirst(bits) == bits \ {Min(bits)}

BugNotPopped == cache

Popped == SubSeq(cache, 1, Len(cache) - 1)

\* The block on top of the stack.
GetFromCache(e) ==
    /\ cache # <<>>
    /\ e = cache[Len(cache)]
    /\ cache' = Popped
    /\ UNCHANGED pageVars

\* The stack is empty and the current page has a free block.
GetFromCurrent(e) ==
    /\ cache = <<>>
    /\ ~CurrentExhausted
    /\ e = <<current, Min(free[current])>>
    /\ free' = [free EXCEPT ![current] = TakeFirst(@)]
    /\ UNCHANGED <<created, emptyPages, pageMap, current>>

\* The current page is used up: the lowest page of the map with a free block,
\* created if its slot is null, becomes the current one.
GetFromNextPage(e, mem) ==
    /\ cache = <<>>
    /\ CurrentExhausted
    /\ pageMap' = Candidates \ Skipped(mem)
    /\ Candidates # Skipped(mem)
    /\ LET page == Min(Candidates \ Skipped(mem))
           bits == BitsAt(page, mem)
       IN  /\ bits # {}
           /\ e = <<page, Min(bits)>>
           /\ CreatePages(Skipped(mem) \cup {page}, mem)
           /\ free' = [free EXCEPT ![page] = TakeFirst(bits)]
           /\ current' = page

\* get_free_block returns false: no page is left, or a page object could not
\* be allocated.
GetNothing(mem) ==
    /\ cache = <<>>
    /\ CurrentExhausted
    /\ pageMap' = Candidates \ Skipped(mem)
    /\ Candidates # Skipped(mem) =>
           BitsAt(Min(Candidates \ Skipped(mem)), mem) = {}
    /\ CreatePages(Skipped(mem), mem)
    /\ current' = None
    /\ UNCHANGED <<free, cache>>

\* The bitmaps give up block e.
GetFromPages(e) ==
    \/ GetFromCurrent(e)
    \/ \E mem \in [Pages -> MemOutcomes] : GetFromNextPage(e, mem)

\* A caller asks for a block.
GetFreeBlock ==
    \/ \E e \in Entries :
           /\ \/ GetFromCache(e)
              \/ GetFromPages(e) /\ UNCHANGED cache
           /\ holders' = [holders EXCEPT ![e] = @ + 1]
    \/ /\ \E mem \in [Pages -> MemOutcomes] : GetNothing(mem)
       /\ UNCHANGED holders

-----------------------------------------------------------------------------
(* release_block *)

BugPageEmptyOffByOne(bits) == Cardinality(bits) >= NumBlocks - 1

\* is_all_blocks_free
AllBlocksFree(bits) == bits = Blocks

BugPageMapKept(p) == pageMap

\* A page that gets a block back is worth searching again.
MarkPageFree(p) == pageMap \cup {p}

BugCurrentKept(p) == current

\* The pool never keeps a deleted page as its current one.
CurrentWithout(p) == IF current = p THEN None ELSE current

\* The last block of a page other than the first came back: the page is
\* deleted and the whole stack dropped.
DeletePage(p, b) ==
    /\ AllBlocksFree(free[p] \cup {b})
    /\ p > 0
    /\ current' = CurrentWithout(p)
    /\ cache' = <<>>
    /\ created' = created \ {p}
    /\ free' = [free EXCEPT ![p] = {}]

BugCacheHasRoomForOneMore == Len(cache) <= CacheSize

CacheHasRoom == Len(cache) < CacheSize

BugBitLeftSet(p, b) == [free EXCEPT ![p] = @ \cup {b}]

\* A cached block stays busy in the map of its page.
BitsWhileCached(p, b) == free

\* Otherwise the block goes on the stack if there is room for it ...
PushReleased(p, b) ==
    /\ ~(AllBlocksFree(free[p] \cup {b}) /\ p > 0)
    /\ CacheHasRoom
    /\ free' = BitsWhileCached(p, b)
    /\ cache' = Append(cache, <<p, b>>)
    /\ UNCHANGED <<created, current>>

\* ... and stays free in the map of its page if there is none.
LeaveInPage(p, b) ==
    /\ ~(AllBlocksFree(free[p] \cup {b}) /\ p > 0)
    /\ ~CacheHasRoom
    /\ free' = [free EXCEPT ![p] = @ \cup {b}]
    /\ UNCHANGED <<created, current, cache>>

\* A caller returns a block it holds.
ReleaseBlock(p, b) ==
    /\ <<p, b>> \in live
    /\ holders' = [holders EXCEPT ![<<p, b>>] = @ - 1]
    /\ IF p \in created /\ b \notin free[p]
       THEN /\ pageMap' = MarkPageFree(p)
            /\ DeletePage(p, b) \/ PushReleased(p, b) \/ LeaveInPage(p, b)
            /\ UNCHANGED emptyPages
       ELSE UNCHANGED <<pageVars, cache>>

-----------------------------------------------------------------------------
(* push_free_block_to_cache, called by the caching thread.  It takes its   *)
(* block with get_free_block, which pops the stack whenever it is not      *)
(* empty: then the block goes back where it was and nothing changes.       *)

PushFreeBlockToCache ==
    /\ CacheHasRoom
    /\ cache = <<>>
    /\ \/ \E e \in Entries :
              /\ GetFromPages(e)
              /\ cache' = Append(cache, e)
       \/ \E mem \in [Pages -> MemOutcomes] : GetNothing(mem)
    /\ UNCHANGED holders

-----------------------------------------------------------------------------
Next ==
    \/ GetFreeBlock
    \/ \E p \in Pages, b \in Blocks : ReleaseBlock(p, b)
    \/ PushFreeBlockToCache

Spec == Init /\ [][Next]_vars

-----------------------------------------------------------------------------
(* Properties *)

CachedEntries == {cache[i] : i \in DOMAIN cache}

\* A block is backed by memory and busy in the map of its page.
HeldInPage(e) == e[1] \in created \ emptyPages /\ e[2] \notin free[e[1]]

\* What callers hold lies on pages that exist and have memory, and no search
\* can find it: releasing it will succeed.
LiveBlocksHeld == \A e \in live : HeldInPage(e)

CacheDistinct == \A i, j \in DOMAIN cache : cache[i] = cache[j] => i = j

\* The stack only holds blocks of existing pages that no search can find, each
\* once, and none that a caller still uses: a pop can neither follow a pointer
\* to a deleted page nor hand a block out twice.
CacheSound ==
    /\ \A e \in CachedEntries : HeldInPage(e) /\ e \notin live
    /\ CacheDistinct

\* A pool that got no table has no pages, and nothing leads it to look for one.
NoTable == created = {} /\ pageMap = {}

\* A page with a free block, and a slot where a page can be created, is marked
\* in the pool's map: the search by get_free_block cannot miss it.
FreePagesFindable ==
    NoTable \/ \A p \in Pages : p \notin created \/ free[p] # {} => p \in pageMap

\* _current is null or a page of the table with memory, never a deleted page.
CurrentUsable == current # None => current \in created \ emptyPages

\* Only a created page with memory has free bits: a search that finds a bit has
\* found a block.
BitsNeedBlocks == \A p \in Pages : free[p] # {} => p \in created \ emptyPages

\* The inductive invariant: on the one hand the pages among themselves, on the
\* other hand what callers and the stack hold of them.
PagesInv ==
    /\ created \subseteq Pages
    /\ emptyPages \subseteq created
    /\ pageMap \subseteq Pages
    /\ free \in [Pages -> SUBSET Blocks]
    /\ current \in Pages \cup {None}
    /\ BitsNeedBlocks
    /\ FreePagesFindable
    /\ CurrentUsable
HoldersInv ==
    /\ cache \in Seq(Entries)
    /\ Len(cache) <= CacheSize
    /\ holders \in [Entries -> {0, 1}]
    /\ LiveBlocksHeld
    /\ CacheSound
IInv == PagesInv /\ HoldersInv

\* A page is deleted only when nobody refers to its blocks: no caller and no
\* entry of the stack.  (So dropping the stack is not needed for safety.)
DeletedPageUnused ==
    [][\A p \in created \ created' :
          \A b \in Blocks : <<p, b>> \notin live' \cup CachedEntries]_vars

\* The promise to callers: the pool is a block store.
Store == INSTANCE BlockStore WITH Block <- Entries
ImplementsStore == Store!StoreSpec

\* What vmmpage.h:88 and vmmpool.h:211 say of the maps: a bit is 1 for a free
\* block and 0 for a busy one, and a released block is released.  A block that
\* is busy in its map is then with a caller or on the stack.
NoBlockLost ==
    \A p \in created \ emptyPages, b \in Blocks :
        \/ b \in free[p]
        \/ <<p, b>> \in live \cup CachedEntries

=============================================================================
