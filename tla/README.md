# Verification of Turpentine

Turpentine is a plugin for Oblivion Remastered (OBSE64): a DLL that is loaded into
the game, reads its settings, and replaces or patches functions of the game. The
largest part of its own logic is `vmm`, the memory manager (`depends/vmm`) that it
puts behind the game's `malloc` family and behind the Wwise audio allocator.

This directory holds TLA+ models of that code, the TLC configurations that check
them on small instances, and theorems that TLAPS proves for all sizes.
Paths below are relative to the repository's root; `vmm/` stands for
`depends/vmm/source/`.

## Inventory

| Component | Source | State | Operations | Interacts with |
|---|---|---|---|---|
| bit maps | `vmm/vbits.*` | `bits`: memory, count, number of ones. `bits_regions`: 16 `bits`, a 16-bit mask of the regions with a one, total of ones | resize, set, unset, all_set, find first one | pages and pools use them as free maps |
| page, pool | `vmm/vmmpage.h`, `vmm/vmmpool.h` | table of pages, map of pages, current page, stack of free blocks; map of blocks per page | get_free_block, release_block, push_free_block_to_cache | called by the manager under its lock |
| block header | `vmm/vmmblock.h` | prologue, size / page / block number overlaid with a 64-bit size, flags, pool | create, size, validity | written by alloc and realloc, read by free, realloc, msize |
| memory manager | `vmm/vmmmain.*`, `vmm/vmm.cpp` | ten pools (six created on demand), lock, caching thread, two events | alloc, realloc, free, msize; thread loop; shutdown | `vmm.cpp` exports it; the game's threads call it concurrently |
| low-level allocation | `vmm/valloc.*`, `vmm/vbase.*` | a handle in front of each aligned allocation | aligned_malloc, aligned_realloc, aligned_recalloc, aligned_free | everything above |
| lock | `vmm/vsimplelock.*` | recursive critical section | lock, unlock, scoped | manager |
| heap hooks | `core/TMemory.*` | which allocator a pointer came from (implicit) | alloc, dealloc, realloc, aligned_realloc; audio Free, Malign, ReallocAligned | game -> vmm or the C runtime |
| settings | `core/TSettings.*`, `core/TModSettings.*` | typed values, collection of settings, TOML file | Add, Remove, Find, LoadFromFile, typed get/set | `dllmain.cpp` reads them to decide what to install |
| thread hooks | `core/TThreads.*` | thread priorities and affinity | HKSetThreadPriority and relatives | game threads |
| relocation | `core/TRelocation.*` | address library singleton, page protection | IDDB create/lookup/release, ScopeLock, Patch, FindPattern, Detour | all patches |
| start-up | `dllmain.cpp` | settings, patches installed | Start | everything |
| small patches | `core/TMaxStdio`, `TSafeExit`, `TFFXQueryCrash`, `TNo*`, `THook*`, ... | none of their own | install one hook each | relocation |

What makes the memory manager hard: it keeps redundant state (a bit in a page's map,
a bit in the pool's map, an entry of the stack, a pointer to the current page, a
header inside the block) that must agree after any sequence of calls; it deletes
pages that raw pointers refer to; allocation may fail half-way through a search; a
background thread takes blocks and puts them on the same stack; and sizes are kept in
32 or in 64 bits at the same place of the header. The hooks are put in place while the
game runs, and afterwards meet blocks and calls that began without them. Settings and
start-up are sequential, but what they do depends on the order of calls, on the file and
on which functions the library of addresses knows.

Correctness, per component:

* bit maps: a map is a set of numbers; the redundant counts and the region mask agree
  with it; the search returns its least element.
* pool: a block is with a caller, on the stack, or free in the map of its page, and in
  only one of these places; no pointer to a deleted page remains; a free page is found.
* manager: what a caller holds is disjoint from what others hold, whatever the threads
  do; a block returns to the pool and page it came from; its size fits its block;
  shutdown waits for the caching thread and ends.
* hooks: a pointer is released by the allocator that made it; a reallocation keeps the
  contents.
* settings: names are unique, a loaded value has the type of its setting, all settings
  of the file take effect.

## Plan

The order follows the weight of the behaviour: what could corrupt the game's memory
first, what decides which patches are active next, tools last.

| Step | Modules | State |
|---|---|---|
| 1 | `BlockStore`, `VmmPool` | checked and proved |
| 2 | `VmmBits`, `VmmBitsObject`, `BitSet`, `VmmBitsRegions` | checked and proved |
| 2 | `VmmBitSearch` | checked, safety proved |
| 3 | `Allocator`, `VmmManager` | checked and proved |
| 4 | `VmmLifetime` | checked, safety proved |
| 5 | `HeapHooks` | checked and proved |
| 6 | `Settings`, `StartUp`, with the address library of `TRelocation.cpp` | checked and proved |
| 7 | `ThreadHooks` | checked and proved |
| 8 | aligned allocation: handle and address arithmetic with bounded widths (`valloc.cpp` 220-311); page protection and the search for patterns (`TRelocation.cpp` 95-187) | not done |

Every safety property that a run checks has its theorem. What step 8 would add has
neither.

## Modules

Composition: `VmmPool` implements `BlockStore` (proved). `VmmManager` uses that:
its pools are sets of free blocks and whichever free block comes out is the pool's own
affair, so that pages and stacks do not appear again. `VmmManager` implements
`Allocator` (proved). `VmmBits` is the value level of the class `bits`;
`VmmBitsObject` lets objects live through sequences of calls, and `VmmBitsRegions` is
built of sixteen (in the run: three) such values and implements `BitSet` (proved), the
set of free numbers that `VmmPool` takes a map to be. `VmmBitSearch` is the inside of
the one operator `FindFirst` of `VmmBits`. `HeapHooks` stands between the game and
managers that keep what `Allocator` promises. `StartUp` extends `Settings` and decides
whether the hooks of `HeapHooks` and `ThreadHooks` are installed at all.

Definitions whose names begin with `Bug` are broken variants of the definition that
follows them. No specification uses them. Put in the place of the right definition,
each makes one property fail; `PROJECT.json` pairs them.

### VmmPool (`vmm/vmmpool.h`, `vmm/vmmpage.h`)

| Variable | Code |
|---|---|
| `created` | slots of `_pages` that are not null |
| `emptyPages` | pages whose block array could not be allocated (`page_t::empty`) |
| `pageMap` | `map` of the pool |
| `free` | `map` of each page |
| `current` | `_current` |
| `cache` | `free_stack_blocks` |
| `holders` | who holds each block; not in the code |

Every call runs under the manager's lock and is one step. `GetFreeBlock` is the whole of
`get_free_block`: the stack, then the current page, then the search, which marks pages
busy as it passes them (`Skipped`) and creates pages in empty slots. A page may be
created in three ways (`MemOutcomes`): with blocks, without blocks because the array
could not be allocated, or not at all. `ReleaseBlock` is `release_block` with its three
ends: the page is deleted and the stack dropped, the block goes on the stack, or the bit
in the page is set. `PushFreeBlockToCache` is the call of the caching thread; when the
stack is not empty it takes the top entry off and puts it back, which is no step.
`set_size` is not looked at by its caller: without memory for the table (`NoTable`) the
pool's map is all zeros, no page is ever found, and the pool gives nothing.

### VmmBits, VmmBitsObject, VmmBitSearch (`vmm/vbits.cpp`, class `bits`)

A map is a record of its memory in whole bytes (`alloc`, `mem`), `_count` and `_sets`.
The bits of the last byte behind `_count` are part of the model: `all_set` writes them.
`UsedSpec` allows the calls vmm makes: a map gets its size once.

`VmmBitSearch` steps through the loops; what is searched is a map of `VmmBits`, and what
is found is compared with its `FindFirst`: `bits` for small maps, `words`, `vector` for
AVX2 and SSE4.1 (the two differ in `Word` and `Group` only) and `plain`. `Mask` is the
result of the vector comparisons: the second half of a group is only compared when
the first is zero, otherwise it counts as ones, as the code's initial mask has it.
The memory behind the map (`behind`) is arbitrary.

### VmmBitsRegions (`vmm/vbits.cpp`, class `bits_regions`; `vmmpage.h` 59-91)

`regionBits`, `regionMap`, `distance`, `count`, `sets` are the members of the class.
`SetSize` is the caller's `set_size`, with its rounding, and `resize`.

### VmmManager (`vmm/vmmmain.cpp`, `vmm/vmmblock.h`, `vmm/vsimplelock.cpp`)

Each thread of the game has a call record (`call`: operation, program counter, the
block passed in, sizes, the block found). The steps are those between which another
thread can act: entering the lock (`EnterCall`, `EnterAlloc`), the work under the lock,
the part of `alloc` that runs without it (`AllocDefault`), and the return. `realloc`
is `ResizeInPlace`, or `ResizeByMove` with the nested `alloc`, `Copy` and `Free`; the
lock is entered twice for the nested `alloc`, and `goto` out of `alloc`'s locked scope
leaves it once. The nested `msize` and `free` enter and leave it within one step.

| Variable | Code |
|---|---|
| `pooled`, `pools`, `free` | `pools`, its entries created so far, what each can give |
| `heap` | what each block's own memory came from (`VirtualAlloc`, `aligned_malloc`) |
| `hdr` | `block_base` in front of each block |
| `lock` | `lock`, a recursive critical section: owner and depth |
| `held`, `data`, `wanted` | what callers have, wrote and asked for; not in the code |

Sizes are numbers scaled down: pools of 1 and 3, `VirtualMin` 6 for 1 GB, `Wrap` 8 for
2^32. A block's header holds 32 bits of the size for pool blocks and 64 for others, and
`free` reads 32 of either (`LowSize`).

Assumed of callers: they pass only blocks they have received and not passed back, and no
other thread writes to a block during a call on it. For other pointers the code returns
early and changes nothing.

The caching thread's pushes do not appear: it takes a block with `get_free_block` and
puts it on the stack of the same pool, so the set of blocks the pool can give is the
same before and after (in `VmmPool` that is a step that leaves `holders` unchanged).

### VmmLifetime (`vmm/vmmmain.cpp` 94-193, `vmm/vmm.cpp`, `vmm/vsimplelock.cpp`)

The object, its pools, its two events and the thread's program counter. `Construct`
may fail in one of three ways, and each leaves the object behind: no events (then no
pools and no thread), no array of pools, no critical section in the lock. As
`Voltek.MemoryManager.h` asks of its user, no call is under way when the manager is
started or shut down.

### HeapHooks (`core/TMemory.cpp`)

| Variable | Code |
|---|---|
| `hooked`, `todo` | entries of the import table, and jumps, written so far and still to be written, in the order of lines 267-308 |
| `blk` | for each block of the game: who made it, for which family of functions, bytes asked for and bytes there; not in the code, which guesses the maker from `scalable_msize` |
| `misused`, `moved` | what the last call did with a block: given to an allocator that did not make it, or moved; not in the code |
| `crashed` | a copy to the null pointer |

A block may come from the C runtime, its `_aligned_malloc`, the game's audio library or
one of the two managers. `Alloc` is `MemoryHeap::alloc` with its rounding in `size_t`,
`Dealloc` the guess of `MemoryHeap::dealloc`, `HookedRealloc` the four functions that
reallocate: `realloc` does not look at the new block before it copies. The managers are
those of `VmmManager`: each call is one step, and may find no memory. The game is assumed
to pair functions as their documents ask and to pass blocks it owns.

Two things are better in the model than in the code. `Msize` knows the manager's blocks; the
code looks for a prologue in the memory in front of whatever pointer it is given
(`vmmblock.h` 166-188, `vmmmain.cpp` 792-799), which memory of another allocator may have
by chance, or from an earlier block. And each function is found in the import table; that
`DetourIAT` may fail is part of `StartUp` and `ThreadHooks`, not of `HeapHooks`.

### Settings, StartUp (`core/TSettings.cpp`, `TModSettings.cpp`, `TRelocation.cpp` 66-91, `dllmain.cpp`, the patches)

| Variable | Code |
|---|---|
| `listed` | the collection, sorted by the hash of the names (`Order`) |
| `garbage` | the memory behind its last entry, which `Add` reads |
| `file` | what the parser makes of `Turpentine.toml` |
| `value` | the settings' values |
| `next`, `loading` | the loop of `LoadFromFile` and its result |
| `pc`, `at` | where `Start` is |
| `library`, `open` | the address library of this game, `siddb` |
| `patched`, `installed`, `unfit`, `spoiled`, `stdio` | what has been written to the game: functions found by number, others, patches that do not fit or could not be installed, writes to arbitrary addresses, the runtime's number of files |

`Settings` has the collection and the loading, setting by setting; `StartUp` the sequence
of `Start`: sections of the program, address library, list of settings, loading, and each
patch in the order of the code. `PlacesOf` names the functions each patch asks the library
for. `DetourFunction` and `DetourCall` are not in the repository; near address 0 they may
fault. Which bytes are written is left out: a place is patched or not. A library has
`sealed` functions, whose pages cannot be made writable; a write there is skipped without
a word (`TRelocation.cpp` 193, 204, 216). `DetourIAT` may fail and nobody looks
(`TMemory.cpp` 267-273, `TSafeExit.cpp` 26): each patch without numbers may end in `unfit`.

The properties compare what is in effect with what the file says (`FileSays`), not with
what the code has read. Three kinds of settings have no effect, and `Overlooked` names
them: `bFFXQueryCrash`, which nobody lists; one that `Add` may refuse for what is in the
memory behind the collection; and those that come, by their hashes, at or after a setting
whose section is no table. `LoadedAsFile` and `ActiveAsFile` say that nothing else is lost.

### ThreadHooks (`core/TThreads.cpp`)

| Variable | Code |
|---|---|
| `pc` | where `Threads()` is: between the jump at line 173 and the storing of the pointer it returns, other threads run |
| `detoured`, `original`, `hooked` | the jump, `ptrCreateThreadTask`, the entry of the import table |
| `alive`, `priority` | the threads and their priorities, kept by the system |
| `call` | the calls of the game's threads: `HKSetThreadPriority` reads a priority and sets one in two steps |
| `crashed` | a call through the null pointer |

## Runs

| Run | Question | Result |
|---|---|---|
| `pool` | do references to pages, maps, stack and callers agree, and is the pool a block store? 3 pages of 2 blocks, stack of 2 | holds, 21460 states |
| `pool_lost_blocks` | is every busy block with a caller or on the stack? | violated |
| `bits` | are the counts of ones exact, does the mask of regions agree with the bits, is the map of regions a set with a search for the least? Two maps of at most 3 bits in bytes of 2; a map of three regions of 2 or 3 bits | holds, 1713 states |
| `search` | does each search find the least one, and end? Words of 2 bits in groups of 4; 3, 8, 9 and 11 bits and all contents, also behind the map | holds, 241669 states |
| `manager` | two threads, two pools of one block, two blocks of their own, sizes 0, 1, 2 and 6: are blocks exclusive, contents kept, headers true, lock entered and left in pairs? | holds, 647139 states |
| `manager_large` | is freed memory released (1 GB and more)? | violated |
| `lifetime` | four threads, the caching thread, any number of starts and shutdowns, all failures: who uses what after its end, does a shutdown end? | holds, 716 states |
| `hooks` | twelve functions replaced one by one while the game uses two blocks and those of size 0: where does each block go, is it large enough, what is kept when it moves? | holds, 72610 states |
| `hooks_zero` | does a size of 0 mean that the block is not the manager's? | violated |
| `startup` | 244 settings files, four address libraries, every failure: is what is installed what the file asks for, but for what `Overlooked` names and what cannot be installed? | holds with these exceptions, 1676740 states |
| `startup_fix_off` | does a line of the file turn a fix off? | violated |
| `threads` | two threads, four priorities, hooks installed meanwhile, system calls that fail: who lowers a priority, who calls the null pointer? | holds, 64972 states |

Why the bounds are enough. `pool`: with three pages there are a current one, one that is
deleted and one passed by the search; two blocks separate the first, the last and a
middle state of a page (`is_all_blocks_free` differs from "one block was returned"); the
stack of two can be empty, partly filled and full, and holds blocks of two pages. `bits`:
three bits in bytes of two leave a last byte that is not full, and regions of 2 and of 3
bits are with and without one. The two kinds of map share nothing, so each is used while
the other is new. `search`: the sizes are a
single word with a rest, one group exactly, a group and a rest no group reaches, and a
group with a rest that the second group reads beyond. `manager`: with two threads each
lock is contended; one block per pool makes each pool run dry, so both the pool and the
default path of every call are taken; size 2 fits the larger pool only, 6 takes
`VirtualAlloc`. The threads are interchangeable, so symmetry is used, and no liveness is
checked in this run. `hooks`: with `Wrap` 16 and `Line` 4, size 13 wraps around when it
is rounded up and 3 times 13 when it is multiplied; 3 is rounded and 0 is the fixed block;
the alignments are below `Line`, no power of two, and above `Line`. Two blocks are one
that is moved and one it is moved to. `startup`: the files have each of a section's three
kinds (none, a table, something else) for all four sections, values of a wrong type, and
numbers below, between and above the limits and beyond 32 bits (scaled: limits 1 and 4 for
512 and 8192, `IntWrap` 16 for 2^32). The order of the settings in `MCStartUp` is that of
the 32-bit hashes (MurmurHash2) that the code computes from their names. The libraries are
none, a complete one, one with some addresses missing, some sealed, and one that is too
short, so that each patch finds its functions, half of them, or none. `threads`: one thread starts the
plugin and one belongs to the game; a priority below normal, normal, and two above.

All theorems below hold for all sizes. Deadlock is checked in `pool`, `bits`, `manager`
and `lifetime`, where it says for the last two that no thread waits for a lock
that nobody leaves. `search` and `startup` end, and `hooks` and `threads` stop at a crash.

Fairness. `VmmBitSearch`: the loop goes on (weak fairness of `Next`), as any sequential
code does. `VmmLifetime`: weak fairness of the caching thread's steps, of the steps of
calls that have begun, and of the end of the destructor's wait. The thread's waits
have a timeout of 10 ms and the lock is left by whoever is in it, so each of these is
again and again, and in the end for good, possible. No strong fairness is needed: calls
cannot begin during a shutdown, so the lock becomes free and stays so. That a
shutdown begins, or that a thread calls, is not assumed. The other modules state
safety only.

## What the code does otherwise than its comments say

Each of these has a run that shows it (`PROJECT.json`, "findings"):

* `pool_lost_blocks`: `release_block` drops the whole stack when it deletes a page;
  released blocks of other pages keep their busy bits and are never found again
  (`vmmpool.h:231`).
* `manager_large`: `VirtualFree` with `MEM_RELEASE` and a size fails, so a block of 1 GB
  or more is never released (`vmmmain.cpp:673`).
* `hooks_zero`: `msize` of the block that `alloc(0)` returns is 0, which
  `Voltek.MemoryManager.h:49-51` reserves for pointers that do not belong to the manager;
  `dealloc` therefore gives it to the C runtime (`TMemory.cpp:66`).
* `startup_fix_off`: `bFFXQueryCrash` is never added to the collection
  (`dllmain.cpp:189-203`), so the line of `Turpentine.toml:7` that turns the fix off has
  no effect, and the fix is installed (`dllmain.cpp:258`).

Met while modelling, without a run:

* `bits`: making a map smaller counts the ones up to the old size (`vbits.cpp:98` against
  `vbits.h:47`). vmm makes no map smaller.
* `bits_regions`: a region without memory is marked and searched first, so that false does
  not mean that all bits are 0 (`vbits.cpp:467` against `vbits.h:188`).
* The lower half of a 64-bit size decides how a block is released, so memory of 4 GB and
  more goes back the wrong way (`vmmmain.cpp:670` against `Voltek.MemoryManager.h:24`).
  `DeallocatorIsRight` is proved for sizes that fit 32 bits.
* The caching thread reads the array of pools also when it was not allocated
  (`vmmmain.cpp:131` against `208-209`).
* The search for processors without vector instructions has no loop over the bits
  behind the last whole word (`vbits.cpp:385`), although `vbits.h:91` says that false
  means that all bits are 0. vmm's maps are whole words there; `VmmBitSearch` checks
  `plain` on whole words.
* A size of `bits_regions` that the number of regions does not divide gives the last
  bits a region that does not exist (`vbits.cpp:463` and `501`). The rounding to a
  multiple of 256 that `vmmpage.h:64` announces changes nothing (`(n << 8) >> 8`). vmm
  only asks for 65536; `VmmBitsRegions` is checked, and proved, for sizes that divide.
* `alloc(0)` returns the address of a fixed block (`vmmmain.cpp:200-201`), as
  `Voltek.MemoryManager.h:26` says, and not null, as `vmmmain.h:43-44` says.
* Without memory for its critical section the lock does not lock
  (`vsimplelock.cpp:28-30`, `55`), although line 47 says that it does. `Exclusive` is
  stated for a lock that has it.
* When `recalloc` fails, `bits` keeps its count without memory (`vbits.cpp:95`), and
  when there is no memory for a larger block, `realloc` frees the old one all the
  same (`vmmmain.cpp:501`). The models follow the code.
* `calloc` and `recalloc` of `vmm.cpp:36` do not look for overflow; nobody calls them.
  The hook for `calloc` multiplies likewise (`HeapHooks`, `Results`).
* `Add` takes a setting for a duplicate when the entry behind the last one has its hash,
  not when an entry of the collection has (`TSettings.cpp:347-349`); the setting it refuses
  is one of `Overlooked`.
* A section that is no table ends the loading; which settings were read by then depends on
  the hashes of their names (`TSettings.cpp:515`); the others are in `Overlooked`.
* `FindByName` and `RemoveByName` leak the setting they search with (`TSettings.cpp:388`,
  `411`), and `SetString` keeps 16 bits of a length (`TSettings.cpp:218`). Nobody calls
  them.

## Proofs

`NumberFacts` has what the proofs share: the least element of a set of numbers (from
well-founded induction), and how many numbers of a set are below a bound.

`VmmPoolProofs` proves, for every number of pages and blocks and every size of the
stack, all that the run `pool` checks: type correctness, `LiveBlocksHeld`,
`CacheSound`, `FreePagesFindable`, `CurrentUsable`, `DeletedPageUnused` and that the
pool implements `BlockStore`. Assumed of the constants: at least one page and one block
(`SizesAssumption`) and that the null page is no number (`NoneAssumption`).
`FreePagesFindable` is about pools that have a table.
The inductive invariant `IInv` has two halves. `PagesInv` is about pages: bits only in
created pages with memory (`BitsNeedBlocks`), which is what makes the search end at a
page that has a block; free pages and empty slots are in the map; `_current` is usable.
`HoldersInv` is about blocks: what callers and the stack hold is busy in its page,
and no block is held twice. Neither half is inductive without the other: that a
deleted page is not referred to follows because all its bits are set while every held
block's bit is not, and that a block from the maps is held by nobody needs that held
blocks are busy.

`VmmManagerProofs` proves all that the run `manager` checks, for any number of threads,
pools and blocks: that no two threads have the same block (`ManagerKeepsPromise`, the
refinement of `Allocator`), that headers, contents, accounting and lock are right, and
`DeallocatorIsRight` if all sizes are below 2^32. The invariant has four parts.
`CallLockInv` ties each program counter to the owner and the depth of the lock; without it
two threads could take the same free block. `MemType` is the type of memory, with blocks
and headers apart. `OwnInv` says that a block has one place: free, with a caller, or with
one call on its way in or out; from it follow exclusiveness and that none is lost.
`ContentInv` says what blocks of callers and those between `alloc` and `Copy` contain; it
needs `OwnInv`, since another thread's write would else disturb it.

`VmmBitsProofs` proves the counts exact for bytes of any width,
maps of any size and any number of regions. `GoodMap` adds to `CountExact` that the memory
of a map is exactly the bytes that its bits need: only then is what `AllSet` writes behind
the last bit harmless and a copy complete. For regions the invariant says that all have the
same size (`ShapeInv`, `RegionsInv`); division with remainder (`OneRegion`,
`RegionUnique`) makes the numbers of the map and the places in regions one to one, so that
a step of one bit is a step of the set (`FlattenedWith`), and the first region of the mask
has the least number (`SearchFindsLeast`). Assumed: the number of regions divides all sizes
(`RegionsDivide`), and memory suffices; without either the statements are false (see above).

The same module proves that each of the four searches returns the least one of a map, and
nothing only if there is none, for words, groups and maps of any size and any memory behind
the map. The invariant (`SearchInv`) says where the loop is (`NothingSkipped`), that a loop
is only entered for a map with ones, and that what lies behind the map has no number of the
map (`InputInv`). `WordOfBit` cuts a map into words; `FirstWordHasLeast` is why the first
word that is not zero has the answer, although a group may reach beyond the map: the map
has a one, so a word of the map comes first. `MaskOfGroup` is the case of the mask whose
second half was not compared. Assumed: groups are even, and each map's count of ones is
right, which is `CountIsExact`.

`VmmLifetimeProofs` proves for any number of threads the type invariant,
`ThreadHasManager`, `AnswerIsOwn` and `Exclusive`. `ThreadInv` adds to them that the
thread has ended exactly when it has answered, and that the close event is set only
during and after a shutdown; `LockInv` that the owner of the lock and those among
the pools are the same.

`HeapHooksProofs` proves the properties of the run `hooks` for any number of blocks and all
sizes and alignments. `InstallInv`: what has been replaced is a beginning of one of the four
lists of hooks, which gives the order `RightDeallocator` depends on. `GoodBlock`: a block was
made by an allocator that its family could reach by then, a manager's block outside of
`Zeros` has a size, and there is room for what was asked. Assumed: sizes are below `Wrap`,
and the powers of two up to `Line` do not exceed it (`LineAssumption`; `Line` is one).

`ThreadHooksProofs` proves the properties of the run `threads` for any number of threads and
priorities; the invariant adds to the types that the pointer is stored after the jump.

`StartUpProofs` proves all that the run `startup` checks, for every settings file, library
of addresses and order of the hashes, with the exceptions that the properties name.
The invariant is about three loops. `ListInv`: all settings listed so far are in the
collection, but for the one that `Add` may refuse; so that what the code has in effect is
what the file says, but for `Overlooked` (`EffectiveIsFromFile`). `LoadInv`: in the
loop over the settings the values are those of the settings passed so far (`LoadedBelow`),
none of which has a section that is no table; so that both ends of the loop, the early one
and the late one, leave the values in effect (`LoadedWhenStopped`, `LoadedAtEnd`).
`InstallInv`: what is installed, written to and found unfit is what the patches before the
present one ask for (`InstalledBefore`), and the library is open exactly when it has
addresses. That a patch has its turn once (`InstallOrderFacts`) keeps one that does not fit
apart from those that were installed. Assumed: `Order` has each option once, as the hashes
of the names differ (`SettingsAssumption`).

Only model-checked: `ShutdownEnds` and `Ends` (liveness is out of reach of the prover), and
all violations.

## Not modelled

* Aligned allocation (`valloc.*`): addresses and handles without a state. That it gives
  memory or does not is part of `VmmPool` and `VmmManager`.
* Of `TRelocation.cpp` the bytes written and the search for patterns; of the protection of
  pages only that it may fail. Of `TThreads.cpp` the class of the process, the processors and the hooks that
  do nothing; those for `Sleep` are not installed.
* What the patched functions of the game do: their code is not in the repository.
* Files, assertions, dumps, processor detection, clocks and paths: input and output.
* `page2_t` is not instantiated and the mapper is not compiled in. Copying a
  `bits_regions`, `try_lock`, `calloc` and `recalloc` of `vmm.cpp` and several members of
  `Settings` are called by nobody.
* The vendored libraries (TOML parser, xbyak, OBSE64, F4SE common, SHA) are used, not
  verified. They are nearly nine tenths of the implementation lines in the repository.
