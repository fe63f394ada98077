--------------------------- MODULE VmmPoolProofs ----------------------------
EXTENDS VmmPool, NumberFacts

-----------------------------------------------------------------------------
(* What an operation of the pool does to pages, and to the blocks that     *)
(* somebody holds: blocks held before it are held after it.                *)

\* Pages and blocks are numbered; the null page has no number.
LEMMA IntervalsAreNats == Pages \subseteq Nat /\ Blocks \subseteq Nat /\ None \notin Pages
BY SizesAssumption, NoneAssumption DEF Pages, Blocks

\* The pages the search skips have no free block, and the created ones stay.
LEMMA SkippedPagesHaveNoBits ==
  ASSUME PagesInv, NEW mem, NEW p \in Skipped(mem)
  PROVE  /\ p \in pageMap
         /\ BitsAt(p, mem) = {}
         /\ free[p] = {}
<1>1. p \in Candidates /\ p \in Nat /\ p \in Pages
  BY IntervalsAreNats DEF Skipped, Candidates, PagesInv
<1>2. ~SearchStops(p, mem)
  BY <1>1 DEF Skipped
<1> QED
  BY <1>1, <1>2 DEF SearchStops, BitsAt, Candidates, PagesInv, BitsNeedBlocks

\* A block taken from the bitmaps was held by nobody, and is held now.
LEMMA TakeFromCurrent ==
  ASSUME PagesInv, NEW e \in Entries, GetFromCurrent(e)
  PROVE  /\ PagesInv'
         /\ ~HeldInPage(e) /\ HeldInPage(e)'
         /\ \A x \in Entries : HeldInPage(x) => HeldInPage(x)'
<1> DEFINE b == Min(free[current])
<1>1. current \in Pages /\ free[current] # {} /\ current \in created \ emptyPages
  BY DEF GetFromCurrent, CurrentExhausted, PagesInv, CurrentUsable
<1>2. b \in free[current]
  BY <1>1, MinIsLeast, IntervalsAreNats DEF PagesInv
<1>3. e = <<current, b>> /\ free' = [free EXCEPT ![current] = @ \ {b}]
      /\ UNCHANGED <<created, emptyPages, pageMap, current>>
  BY DEF GetFromCurrent, TakeFirst
<1>4. PagesInv'
  BY <1>1, <1>2, <1>3 DEF PagesInv, BitsNeedBlocks, FreePagesFindable, NoTable, CurrentUsable
<1>5. ~HeldInPage(e) /\ HeldInPage(e)'
  BY <1>1, <1>2, <1>3 DEF PagesInv, HeldInPage
<1>6. \A x \in Entries : HeldInPage(x) => HeldInPage(x)'
  BY <1>1, <1>3 DEF PagesInv, HeldInPage, Entries
<1> QED
  BY <1>4, <1>5, <1>6

\* The search goes on to another page, and may create it.
LEMMA TakeFromNextPage ==
  ASSUME PagesInv, NEW e \in Entries, NEW mem \in [Pages -> MemOutcomes],
         GetFromNextPage(e, mem)
  PROVE  /\ PagesInv'
         /\ ~HeldInPage(e) /\ HeldInPage(e)'
         /\ \A x \in Entries : HeldInPage(x) => HeldInPage(x)'
<1> DEFINE page == Min(Candidates \ Skipped(mem))
           bits == BitsAt(page, mem)
           b == Min(bits)
<1>1. /\ pageMap' = Candidates \ Skipped(mem)
      /\ emptyPages' = emptyPages \cup
           {p \in (Skipped(mem) \cup {page}) \ created : mem[p] = "no_blocks"}
      /\ created' = created \cup Skipped(mem) \cup {page}
      /\ free' = [free EXCEPT ![page] = bits \ {b}]
      /\ current' = page
      /\ e = <<page, b>>
      /\ bits # {}
      /\ Candidates # Skipped(mem)
      /\ CurrentExhausted
  BY DEF GetFromNextPage, CreatePages, TakeFirst
<1> HIDE DEF page, bits, b
<1>2. Candidates \subseteq Pages /\ Candidates \subseteq Nat /\ Skipped(mem) \subseteq Candidates
  BY IntervalsAreNats DEF Candidates, Skipped, PagesInv
<1>3. page \in Candidates \ Skipped(mem) /\ page \in Pages /\ page \in pageMap
  <2>1. Candidates \ Skipped(mem) # {}
    BY <1>1, <1>2
  <2> QED
    BY <2>1, <1>2, MinIsLeast DEF page, Candidates
<1>4. /\ bits \subseteq Blocks
      /\ b \in bits
      /\ page \in created => bits = free[page] /\ page \notin emptyPages
      /\ page \notin created => free[page] = {} /\ mem[page] # "no_blocks"
  <2>1. bits \subseteq Blocks
    BY <1>3 DEF bits, BitsAt, NewPageBits, PagesInv
  <2>2. b \in bits
    BY <1>1, <2>1, MinIsLeast, IntervalsAreNats DEF b
  <2>3. page \in created => bits = free[page]
    BY DEF bits, BitsAt
  <2>4. page \notin created => mem[page] # "no_blocks"
    BY <1>1 DEF bits, BitsAt, NewPageBits
  <2> QED
    BY <1>1, <1>3, <2>1, <2>2, <2>3, <2>4 DEF PagesInv, BitsNeedBlocks
<1>5. \A p \in Skipped(mem) : free[p] = {} /\ p # page
  BY <1>3, SkippedPagesHaveNoBits
<1>6. PagesInv'
  <2>1. /\ created' \subseteq Pages
        /\ emptyPages' \subseteq created'
        /\ pageMap' \subseteq Pages
        /\ free' \in [Pages -> SUBSET Blocks]
        /\ current' \in Pages \cup {None}
    BY <1>1, <1>2, <1>3, <1>4 DEF PagesInv
  <2>2. page \in created' \ emptyPages'
    BY <1>1, <1>3, <1>4 DEF PagesInv
  <2>3. BitsNeedBlocks'
    BY <1>1, <1>2, <1>3, <1>5, <2>2 DEF PagesInv, BitsNeedBlocks
  <2>4. FreePagesFindable'
    <3> SUFFICES ASSUME NEW p \in Pages, p \notin created' \/ free'[p] # {}
                 PROVE  p \in pageMap'
      BY DEF FreePagesFindable
    <3>1. CASE p = page
      BY <3>1, <1>1, <1>3
    <3>2. CASE p # page
      <4>1. free'[p] = free[p] /\ (p \notin created' => p \notin created)
        BY <3>2, <1>1, <1>3 DEF PagesInv
      <4>2. p \notin Skipped(mem)
        BY <4>1, <1>1, <1>5
      <4>3. p # current
        BY <4>1, <1>1, IntervalsAreNats DEF PagesInv, CurrentExhausted, CurrentUsable
      <4>4. p \in pageMap
        BY <4>1, <1>3 DEF PagesInv, FreePagesFindable, NoTable
      <4> QED
        BY <4>2, <4>3, <4>4, <1>1 DEF Candidates
    <3> QED
      BY <3>1, <3>2
  <2>5. CurrentUsable'
    BY <2>2, <1>1 DEF CurrentUsable
  <2> QED
    BY <2>1, <2>3, <2>4, <2>5 DEF PagesInv
<1>7. HeldInPage(e)'
  BY <1>1, <1>3, <1>4 DEF PagesInv, HeldInPage
<1>8. ~HeldInPage(e)
  BY <1>1, <1>4 DEF HeldInPage
<1>9. \A x \in Entries : HeldInPage(x) => HeldInPage(x)'
  <2> SUFFICES ASSUME NEW x \in Entries, HeldInPage(x)
               PROVE  HeldInPage(x)'
    OBVIOUS
  <2>1. x[1] \in Pages
    BY DEF Entries
  <2>2. x[1] \in created' \ emptyPages'
    BY <1>1 DEF HeldInPage
  <2>3. x[2] \notin free'[x[1]]
    BY <2>1, <1>1, <1>3, <1>4 DEF HeldInPage, PagesInv
  <2> QED
    BY <2>2, <2>3 DEF HeldInPage
<1> QED
  BY <1>6, <1>7, <1>8, <1>9

\* The search passes all pages and finds no block.
LEMMA FindNothing ==
  ASSUME PagesInv, NEW mem \in [Pages -> MemOutcomes], GetNothing(mem)
  PROVE  /\ PagesInv'
         /\ \A x \in Entries : HeldInPage(x) => HeldInPage(x)'
<1>1. /\ pageMap' = Candidates \ Skipped(mem)
      /\ emptyPages' = emptyPages \cup {p \in Skipped(mem) \ created : mem[p] = "no_blocks"}
      /\ created' = created \cup Skipped(mem)
      /\ current' = None
      /\ free' = free
      /\ CurrentExhausted
  BY DEF GetNothing, CreatePages
<1>2. Candidates \subseteq Pages /\ Skipped(mem) \subseteq Candidates
  BY DEF Candidates, Skipped, PagesInv
<1>3. \A p \in Skipped(mem) : free[p] = {}
  BY SkippedPagesHaveNoBits
<1>4. BitsNeedBlocks'
  BY <1>1, <1>3 DEF PagesInv, BitsNeedBlocks
<1>5. FreePagesFindable'
  <2>1. CASE NoTable
    BY <1>1, <1>2, <2>1 DEF NoTable, Candidates, FreePagesFindable
  <2>2. CASE ~NoTable
    <3> SUFFICES ASSUME NEW p \in Pages, p \notin created' \/ free[p] # {}
                 PROVE  p \in pageMap'
      BY <1>1 DEF FreePagesFindable
    <3>1. p \notin Skipped(mem) /\ p \in pageMap
      BY <1>1, <1>3, <2>2 DEF PagesInv, FreePagesFindable
    <3>2. p # current
      BY <1>1, IntervalsAreNats DEF PagesInv, CurrentExhausted, CurrentUsable
    <3> QED
      BY <3>1, <3>2, <1>1 DEF Candidates
  <2> QED
    BY <2>1, <2>2
<1>6. PagesInv'
  BY <1>1, <1>2, <1>4, <1>5 DEF PagesInv, CurrentUsable
<1>7. \A x \in Entries : HeldInPage(x) => HeldInPage(x)'
  BY <1>1 DEF HeldInPage
<1> QED
  BY <1>6, <1>7

\* get_free_block takes from the bitmaps what nobody held.
LEMMA TakeFromPages ==
  ASSUME PagesInv, NEW e \in Entries, GetFromPages(e)
  PROVE  /\ PagesInv'
         /\ ~HeldInPage(e) /\ HeldInPage(e)'
         /\ \A x \in Entries : HeldInPage(x) => HeldInPage(x)'
BY TakeFromCurrent, TakeFromNextPage DEF GetFromPages

-----------------------------------------------------------------------------
(* The stack of free blocks.                                               *)

\* An entry is pushed that nobody holds.
LEMMA PushEntry ==
  ASSUME cache \in Seq(Entries), CacheDistinct,
         NEW e \in Entries, e \notin CachedEntries, cache' = Append(cache, e)
  PROVE  /\ cache' \in Seq(Entries)
         /\ Len(cache') = Len(cache) + 1
         /\ CachedEntries' = CachedEntries \cup {e}
         /\ CacheDistinct'
<1>1. /\ cache' \in Seq(Entries)
      /\ Len(cache') = Len(cache) + 1
      /\ DOMAIN cache = 1 .. Len(cache)
      /\ DOMAIN cache' = 1 .. Len(cache) + 1
      /\ \A i \in DOMAIN cache : cache'[i] = cache[i]
      /\ cache'[Len(cache) + 1] = e
      /\ Len(cache) \in Nat
  OBVIOUS
<1>2. CachedEntries' = CachedEntries \cup {e}
  BY <1>1 DEF CachedEntries
<1>3. CacheDistinct'
  BY <1>1 DEF CacheDistinct, CachedEntries
<1> QED
  BY <1>1, <1>2, <1>3

\* The top entry leaves the stack.
LEMMA PopEntry ==
  ASSUME cache \in Seq(Entries), CacheDistinct, cache # <<>>,
         cache' = SubSeq(cache, 1, Len(cache) - 1)
  PROVE  /\ cache' \in Seq(Entries)
         /\ Len(cache') = Len(cache) - 1
         /\ cache[Len(cache)] \in CachedEntries
         /\ CachedEntries' = CachedEntries \ {cache[Len(cache)]}
         /\ CacheDistinct'
<1> DEFINE n == Len(cache)
<1>1. /\ n \in Nat
      /\ n >= 1
      /\ DOMAIN cache = 1 .. n
      /\ \A i \in 1 .. n : cache[i] \in Entries
  OBVIOUS
<1>2. /\ cache' \in Seq(Entries)
      /\ Len(cache') = n - 1
      /\ DOMAIN cache' = 1 .. n - 1
      /\ \A i \in 1 .. n - 1 : cache'[i] = cache[i]
  BY <1>1
<1>3. cache[n] \in CachedEntries
  BY <1>1 DEF CachedEntries
<1>4. CachedEntries' = CachedEntries \ {cache[n]}
  <2>1. ASSUME NEW x \in CachedEntries', TRUE
        PROVE  x \in CachedEntries \ {cache[n]}
    BY <1>1, <1>2, <2>1 DEF CachedEntries, CacheDistinct
  <2>2. ASSUME NEW x \in CachedEntries, x # cache[n]
        PROVE  x \in CachedEntries'
    <3>1. PICK i \in 1 .. n : cache[i] = x
      BY <1>1, <2>2 DEF CachedEntries
    <3>2. i \in 1 .. n - 1
      BY <1>1, <2>2, <3>1
    <3>3. i \in DOMAIN cache' /\ cache'[i] = x
      BY <1>2, <3>1, <3>2
    <3> QED
      BY <3>3 DEF CachedEntries
  <2> QED
    BY <2>1, <2>2
<1>5. CacheDistinct'
  BY <1>1, <1>2 DEF CacheDistinct
<1> QED
  BY <1>2, <1>3, <1>4, <1>5

-----------------------------------------------------------------------------
(* Handing a block out and taking it back.                                 *)

\* A block nobody holds gets a holder.
LEMMA HandOut ==
  ASSUME holders \in [Entries -> {0, 1}], NEW e \in Entries, e \notin live,
         holders' = [holders EXCEPT ![e] = @ + 1]
  PROVE  /\ holders' \in [Entries -> {0, 1}]
         /\ live' = live \cup {e}
         /\ Store!Acquire(e)
<1>1. holders[e] = 0
  BY DEF live
<1>2. holders' = [holders EXCEPT ![e] = 1]
  BY <1>1
<1>3. \A x \in Entries : holders'[x] = IF x = e THEN 1 ELSE holders[x]
  BY <1>2
<1>4. live' = live \cup {e}
  BY <1>3 DEF live
<1> QED
  BY <1>1, <1>2, <1>4 DEF Store!Acquire

\* A caller gives its block back.
LEMMA TakeBack ==
  ASSUME holders \in [Entries -> {0, 1}], NEW e \in live,
         holders' = [holders EXCEPT ![e] = @ - 1]
  PROVE  /\ holders' \in [Entries -> {0, 1}]
         /\ live' = live \ {e}
         /\ Store!GiveBack(e)
<1>1. e \in Entries /\ holders[e] = 1
  BY DEF live
<1>2. holders' = [holders EXCEPT ![e] = 0]
  BY <1>1
<1>3. \A x \in Entries : holders'[x] = IF x = e THEN 0 ELSE holders[x]
  BY <1>1, <1>2
<1>4. live' = live \ {e}
  BY <1>1, <1>3 DEF live
<1> QED
  BY <1>1, <1>2, <1>4 DEF Store!GiveBack

\* Blocks in use are blocks of pages.
LEMMA LiveAreEntries == live \subseteq Entries
BY DEF live

-----------------------------------------------------------------------------
(* One lemma per operation: the inductive invariant is preserved, and the  *)
(* blocks in the hands of callers change as the block store allows.        *)

\* get_free_block keeps the invariant.
LEMMA GetFreeBlockStep ==
  ASSUME IInv, GetFreeBlock
  PROVE  IInv' /\ (holders' = holders \/ \E e \in Entries : Store!Acquire(e))
<1>1. PagesInv /\ HoldersInv
  BY DEF IInv
<1>2. ASSUME NEW e \in Entries, GetFromCache(e), holders' = [holders EXCEPT ![e] = @ + 1]
      PROVE  IInv' /\ Store!Acquire(e)
  <2>1. /\ cache \in Seq(Entries) /\ CacheDistinct /\ cache # <<>>
        /\ e = cache[Len(cache)]
        /\ cache' = SubSeq(cache, 1, Len(cache) - 1)
        /\ UNCHANGED pageVars
    BY <1>1, <1>2 DEF GetFromCache, Popped, HoldersInv, CacheSound
  <2>2. /\ cache' \in Seq(Entries)
        /\ Len(cache') = Len(cache) - 1
        /\ e \in CachedEntries
        /\ CachedEntries' = CachedEntries \ {e}
        /\ CacheDistinct'
    BY <2>1, PopEntry
  <2>3. PagesInv'
    BY <1>1, <2>1 DEF PagesInv, BitsNeedBlocks, FreePagesFindable, NoTable, CurrentUsable, pageVars
  <2>4. \A x : HeldInPage(x)' <=> HeldInPage(x)
    BY <2>1 DEF HeldInPage, pageVars
  <2>5. /\ holders' \in [Entries -> {0, 1}]
        /\ live' = live \cup {e}
        /\ Store!Acquire(e)
    BY <1>1, <1>2, <2>2, HandOut DEF HoldersInv, CacheSound
  <2>6. HoldersInv'
    <3>1. Len(cache') <= CacheSize
      BY <1>1, <2>1, <2>2, SizesAssumption DEF HoldersInv
    <3>2. LiveBlocksHeld'
      BY <1>1, <2>2, <2>4, <2>5 DEF HoldersInv, LiveBlocksHeld, CacheSound
    <3>3. CacheSound'
      BY <1>1, <2>2, <2>4, <2>5 DEF HoldersInv, CacheSound
    <3> QED
      BY <2>2, <2>5, <3>1, <3>2, <3>3 DEF HoldersInv
  <2> QED
    BY <2>3, <2>5, <2>6 DEF IInv
<1>3. ASSUME NEW e \in Entries, GetFromPages(e), UNCHANGED cache,
             holders' = [holders EXCEPT ![e] = @ + 1]
      PROVE  IInv' /\ Store!Acquire(e)
  <2>1. /\ PagesInv'
        /\ ~HeldInPage(e) /\ HeldInPage(e)'
        /\ \A x \in Entries : HeldInPage(x) => HeldInPage(x)'
    BY <1>1, <1>3, TakeFromPages
  <2>2. CachedEntries' = CachedEntries /\ CachedEntries \subseteq Entries
    BY <1>1, <1>3 DEF CachedEntries, HoldersInv
  <2>3. /\ holders' \in [Entries -> {0, 1}]
        /\ live' = live \cup {e}
        /\ Store!Acquire(e)
    BY <1>1, <1>3, <2>1, HandOut DEF HoldersInv, LiveBlocksHeld
  <2>4. HoldersInv'
    BY <1>1, <1>3, <2>1, <2>2, <2>3, LiveAreEntries
    DEF HoldersInv, LiveBlocksHeld, CacheSound, CacheDistinct
  <2> QED
    BY <2>1, <2>3, <2>4 DEF IInv
<1>4. ASSUME NEW mem \in [Pages -> MemOutcomes], GetNothing(mem), UNCHANGED holders
      PROVE  IInv'
  <2>1. PagesInv' /\ \A x \in Entries : HeldInPage(x) => HeldInPage(x)'
    BY <1>1, <1>4, FindNothing
  <2>2. cache' = cache /\ CachedEntries' = CachedEntries /\ CachedEntries \subseteq Entries
    BY <1>1, <1>4 DEF CachedEntries, HoldersInv, GetNothing
  <2>3. live' = live
    BY <1>4 DEF live
  <2>4. HoldersInv'
    BY <1>1, <1>4, <2>1, <2>2, <2>3, LiveAreEntries
    DEF HoldersInv, LiveBlocksHeld, CacheSound, CacheDistinct
  <2> QED
    BY <2>1, <2>4 DEF IInv
<1> QED
  BY <1>2, <1>3, <1>4 DEF GetFreeBlock

\* release_block keeps the invariant.
LEMMA ReleaseBlockStep ==
  ASSUME IInv, NEW p \in Pages, NEW b \in Blocks, ReleaseBlock(p, b)
  PROVE  IInv' /\ Store!GiveBack(<<p, b>>)
<1> DEFINE e == <<p, b>>
<1>1. PagesInv /\ HoldersInv
  BY DEF IInv
<1>2. /\ e \in live /\ e \in Entries /\ e[1] = p /\ e[2] = b
      /\ holders' \in [Entries -> {0, 1}]
      /\ live' = live \ {e}
  BY <1>1, TakeBack DEF ReleaseBlock, Entries, HoldersInv
<1>3. p \in created \ emptyPages /\ b \notin free[p] /\ e \notin CachedEntries
  BY <1>1, <1>2 DEF HoldersInv, LiveBlocksHeld, CacheSound, HeldInPage
<1>4. /\ pageMap' = pageMap \cup {p}
      /\ DeletePage(p, b) \/ PushReleased(p, b) \/ LeaveInPage(p, b)
      /\ emptyPages' = emptyPages
  BY <1>3 DEF ReleaseBlock, MarkPageFree
<1>5. CachedEntries \subseteq Entries /\ live \subseteq Entries
  BY <1>1, LiveAreEntries DEF HoldersInv, CachedEntries
<1>6. \A x \in Entries : x[1] \in Pages /\ x[2] \in Blocks /\ x = <<x[1], x[2]>>
  BY DEF Entries
<1>7. Store!GiveBack(e)
  BY <1>1, TakeBack DEF ReleaseBlock, HoldersInv
<1>8. CASE DeletePage(p, b)
  <2>1. /\ free[p] \cup {b} = Blocks
        /\ current' = IF current = p THEN None ELSE current
        /\ cache' = <<>>
        /\ created' = created \ {p}
        /\ free' = [free EXCEPT ![p] = {}]
    BY <1>8 DEF DeletePage, AllBlocksFree, CurrentWithout
  <2>2. /\ created' \subseteq Pages
        /\ emptyPages' \subseteq created'
        /\ pageMap' \subseteq Pages
        /\ free' \in [Pages -> SUBSET Blocks]
        /\ current' \in Pages \cup {None}
    BY <1>1, <1>3, <1>4, <2>1 DEF PagesInv
  <2>3. BitsNeedBlocks' /\ FreePagesFindable'
    BY <1>1, <1>3, <1>4, <2>1 DEF PagesInv, BitsNeedBlocks, FreePagesFindable, NoTable
  <2>4. CurrentUsable'
    BY <1>1, <1>4, <2>1 DEF PagesInv, CurrentUsable
  <2>5. LiveBlocksHeld'
    <3> SUFFICES ASSUME NEW x \in live'
                 PROVE  HeldInPage(x)'
      BY DEF LiveBlocksHeld
    <3>1. x \in live /\ x # e /\ x \in Entries
      BY <1>2, <1>5
    <3>2. HeldInPage(x)
      BY <1>1, <3>1 DEF HoldersInv, LiveBlocksHeld
    <3>3. x[1] # p
      BY <1>6, <2>1, <3>1, <3>2 DEF HeldInPage
    <3> QED
      BY <1>1, <1>4, <1>6, <2>1, <3>1, <3>2, <3>3 DEF PagesInv, HeldInPage
  <2>6. cache' \in Seq(Entries) /\ Len(cache') <= CacheSize /\ CacheSound'
    BY <2>1, SizesAssumption DEF CacheSound, CacheDistinct, CachedEntries
  <2> QED
    BY <1>2, <1>5, <1>7, <2>2, <2>3, <2>4, <2>5, <2>6 DEF IInv, PagesInv, HoldersInv
<1>9. CASE PushReleased(p, b)
  <2>1. /\ free' = free /\ created' = created /\ current' = current
        /\ cache' = Append(cache, e)
        /\ Len(cache) < CacheSize
    BY <1>9 DEF PushReleased, BitsWhileCached, CacheHasRoom
  <2>2. PagesInv'
    BY <1>1, <1>3, <1>4, <2>1
    DEF PagesInv, BitsNeedBlocks, FreePagesFindable, NoTable, CurrentUsable
  <2>3. \A x : HeldInPage(x)' <=> HeldInPage(x)
    BY <1>4, <2>1 DEF HeldInPage
  <2>4. /\ cache' \in Seq(Entries)
        /\ Len(cache') = Len(cache) + 1
        /\ CachedEntries' = CachedEntries \cup {e}
        /\ CacheDistinct'
    BY <1>1, <1>2, <1>3, <2>1, PushEntry DEF HoldersInv, CacheSound
  <2>5. Len(cache') <= CacheSize
    BY <1>1, <2>1, <2>4, SizesAssumption DEF HoldersInv
  <2>6. LiveBlocksHeld'
    BY <1>1, <1>2, <2>3 DEF HoldersInv, LiveBlocksHeld
  <2>7. CacheSound'
    BY <1>1, <1>2, <2>3, <2>4 DEF HoldersInv, LiveBlocksHeld, CacheSound
  <2> QED
    BY <1>2, <1>5, <1>7, <2>2, <2>4, <2>5, <2>6, <2>7 DEF IInv, HoldersInv
<1>10. CASE LeaveInPage(p, b)
  <2>1. /\ free' = [free EXCEPT ![p] = @ \cup {b}]
        /\ UNCHANGED <<created, current, cache>>
    BY <1>10 DEF LeaveInPage
  <2>2. PagesInv'
    BY <1>1, <1>3, <1>4, <2>1
    DEF PagesInv, BitsNeedBlocks, FreePagesFindable, NoTable, CurrentUsable
  <2>3. \A x \in Entries : HeldInPage(x) /\ x # e => HeldInPage(x)'
    <3> SUFFICES ASSUME NEW x \in Entries, HeldInPage(x), x # e
                 PROVE  HeldInPage(x)'
      OBVIOUS
    <3>1. CASE x[1] = p
      BY <3>1, <1>1, <1>4, <1>6, <2>1 DEF PagesInv, HeldInPage
    <3>2. CASE x[1] # p
      BY <3>2, <1>1, <1>4, <1>6, <2>1 DEF PagesInv, HeldInPage
    <3> QED
      BY <3>1, <3>2
  <2>4. CachedEntries' = CachedEntries
    BY <2>1 DEF CachedEntries
  <2>5. LiveBlocksHeld'
    BY <1>1, <1>2, <1>5, <2>3 DEF HoldersInv, LiveBlocksHeld
  <2>6. CacheSound'
    BY <1>1, <1>2, <1>3, <1>5, <2>1, <2>3, <2>4 DEF HoldersInv, CacheSound, CacheDistinct
  <2> QED
    BY <1>1, <1>2, <1>5, <1>7, <2>1, <2>2, <2>5, <2>6 DEF IInv, HoldersInv
<1> QED
  BY <1>4, <1>8, <1>9, <1>10

\* push_free_block_to_cache keeps the invariant.
LEMMA PushFreeBlockToCacheStep ==
  ASSUME IInv, PushFreeBlockToCache
  PROVE  IInv' /\ holders' = holders
<1>1. PagesInv /\ HoldersInv /\ holders' = holders /\ live' = live /\ Len(cache) < CacheSize
  BY DEF IInv, PushFreeBlockToCache, CacheHasRoom, live
<1>2. CachedEntries \subseteq Entries /\ live \subseteq Entries
  BY <1>1, LiveAreEntries DEF HoldersInv, CachedEntries
<1>3. ASSUME NEW e \in Entries, GetFromPages(e), cache' = Append(cache, e)
      PROVE  IInv'
  <2>1. /\ PagesInv'
        /\ ~HeldInPage(e) /\ HeldInPage(e)'
        /\ \A x \in Entries : HeldInPage(x) => HeldInPage(x)'
    BY <1>1, <1>3, TakeFromPages
  <2>2. e \notin live /\ e \notin CachedEntries
    BY <1>1, <2>1 DEF HoldersInv, LiveBlocksHeld, CacheSound
  <2>3. /\ cache' \in Seq(Entries)
        /\ Len(cache') = Len(cache) + 1
        /\ CachedEntries' = CachedEntries \cup {e}
        /\ CacheDistinct'
    BY <1>1, <1>3, <2>2, PushEntry DEF HoldersInv, CacheSound
  <2>4. Len(cache') <= CacheSize
    BY <1>1, <2>3, SizesAssumption DEF HoldersInv
  <2>5. LiveBlocksHeld' /\ CacheSound'
    BY <1>1, <1>2, <2>1, <2>2, <2>3 DEF HoldersInv, LiveBlocksHeld, CacheSound
  <2> QED
    BY <1>1, <1>2, <2>1, <2>3, <2>4, <2>5 DEF IInv, HoldersInv
<1>4. ASSUME NEW mem \in [Pages -> MemOutcomes], GetNothing(mem)
      PROVE  IInv'
  <2>1. PagesInv' /\ \A x \in Entries : HeldInPage(x) => HeldInPage(x)'
    BY <1>1, <1>4, FindNothing
  <2>2. cache' = cache /\ CachedEntries' = CachedEntries
    BY <1>4 DEF CachedEntries, GetNothing
  <2> QED
    BY <1>1, <1>2, <2>1, <2>2
    DEF IInv, HoldersInv, LiveBlocksHeld, CacheSound, CacheDistinct
<1> QED
  BY <1>1, <1>3, <1>4 DEF PushFreeBlockToCache

-----------------------------------------------------------------------------
(* Theorems.                                                               *)

\* A pool begins without pages.
LEMMA InitIInv == Init => IInv
BY SizesAssumption, IntervalsAreNats
DEF Init, IInv, PagesInv, HoldersInv, BitsNeedBlocks, FreePagesFindable, NoTable,
    CurrentUsable,
    LiveBlocksHeld, CacheSound, CacheDistinct, CachedEntries, live

\* Every call keeps the invariant.
LEMMA NextIInv == IInv /\ [Next]_vars => IInv'
<1> SUFFICES ASSUME IInv, [Next]_vars PROVE IInv'
  OBVIOUS
<1>1. CASE GetFreeBlock
  BY <1>1, GetFreeBlockStep
<1>2. ASSUME NEW p \in Pages, NEW b \in Blocks, ReleaseBlock(p, b)
      PROVE  IInv'
  BY <1>2, ReleaseBlockStep
<1>3. CASE PushFreeBlockToCache
  BY <1>3, PushFreeBlockToCacheStep
<1>4. CASE UNCHANGED vars
  <2>1. /\ CachedEntries' = CachedEntries
        /\ live' = live
        /\ \A x : HeldInPage(x)' <=> HeldInPage(x)
    BY <1>4 DEF vars, CachedEntries, HeldInPage, live
  <2> QED
    BY <1>4, <2>1
    DEF vars, IInv, PagesInv, HoldersInv, BitsNeedBlocks, FreePagesFindable, NoTable,
    CurrentUsable,
        LiveBlocksHeld, CacheSound, CacheDistinct
<1> QED
  BY <1>1, <1>2, <1>3, <1>4 DEF Next

\* The inductive invariant holds in every reachable state.
THEOREM InductiveInvariant == Spec => []IInv
BY InitIInv, NextIInv, PTL DEF Spec

\* Every variable of the pool keeps its type; the stack keeps its bound.
THEOREM TypeCorrect == Spec => []TypeOK
<1>1. IInv => TypeOK
  BY DEF IInv, PagesInv, HoldersInv, TypeOK
<1> QED
  BY <1>1, InductiveInvariant, PTL

\* A block in use lies in an existing page and no search or pop can reach it.
THEOREM LiveBlocksSafe == Spec => []LiveBlocksHeld
<1>1. IInv => LiveBlocksHeld
  BY DEF IInv, HoldersInv
<1> QED
  BY <1>1, InductiveInvariant, PTL

\* The stack never refers to a deleted page, a block in use, or a block twice.
THEOREM CacheAlwaysSound == Spec => []CacheSound
<1>1. IInv => CacheSound
  BY DEF IInv, HoldersInv
<1> QED
  BY <1>1, InductiveInvariant, PTL

\* The search cannot miss a page that has a free block or can be created.
THEOREM FreePagesAlwaysFindable == Spec => []FreePagesFindable
<1>1. IInv => FreePagesFindable
  BY DEF IInv, PagesInv
<1> QED
  BY <1>1, InductiveInvariant, PTL

\* The pool's pointer to its current page is never stale.
THEOREM CurrentAlwaysUsable == Spec => []CurrentUsable
<1>1. IInv => CurrentUsable
  BY DEF IInv, PagesInv
<1> QED
  BY <1>1, InductiveInvariant, PTL

\* The pool implements the block store: no block is handed out twice.
THEOREM PoolImplementsStore == Spec => ImplementsStore
<1>1. Init => Store!StoreInit
  BY DEF Init, Store!StoreInit
<1>2. IInv /\ [Next]_vars => [Store!StoreNext]_holders
  <2> SUFFICES ASSUME IInv, [Next]_vars
               PROVE  Store!StoreNext \/ holders' = holders
    OBVIOUS
  <2>1. CASE GetFreeBlock
    BY <2>1, GetFreeBlockStep DEF Store!StoreNext
  <2>2. ASSUME NEW p \in Pages, NEW b \in Blocks, ReleaseBlock(p, b)
        PROVE  Store!StoreNext
    BY <2>2, ReleaseBlockStep DEF Store!StoreNext, Entries
  <2>3. CASE PushFreeBlockToCache
    BY <2>3, PushFreeBlockToCacheStep
  <2>4. CASE UNCHANGED vars
    BY <2>4 DEF vars
  <2> QED
    BY <2>1, <2>2, <2>3, <2>4 DEF Next
<1> QED
  BY <1>1, <1>2, InductiveInvariant, PTL DEF Spec, ImplementsStore, Store!StoreSpec

\* A page is deleted only when neither a caller nor the stack refers to it, so
\* emptying the stack on a deletion protects nothing.
THEOREM DeletedPagesUnused == Spec => DeletedPageUnused
<1>1. IInv /\ [Next]_vars =>
        [\A p \in created \ created' :
            \A b \in Blocks : <<p, b>> \notin live' \cup CachedEntries]_vars
  <2> SUFFICES ASSUME IInv, Next, NEW p \in created \ created', NEW b \in Blocks
               PROVE  <<p, b>> \notin live' \cup CachedEntries
    OBVIOUS
  <2>1. ~GetFreeBlock /\ ~PushFreeBlockToCache
    BY DEF GetFreeBlock, PushFreeBlockToCache, GetFromCache, GetFromPages, GetFromCurrent,
           GetFromNextPage, GetNothing, CreatePages, pageVars
  <2>2. PICK q \in Pages, c \in Blocks : ReleaseBlock(q, c)
    BY <2>1 DEF Next
  <2>3. DeletePage(q, c)
    BY <2>2 DEF ReleaseBlock, PushReleased, LeaveInPage, pageVars
  <2>4. p = q /\ free[p] \cup {c} = Blocks /\ <<p, c>> \in live
    BY <2>2, <2>3 DEF DeletePage, AllBlocksFree, ReleaseBlock
  <2>5. live' = live \ {<<p, c>>}
    BY <2>2, <2>4, TakeBack DEF ReleaseBlock, IInv, HoldersInv
  <2>6. CASE b = c
    BY <2>4, <2>5, <2>6 DEF IInv, HoldersInv, CacheSound
  <2>7. CASE b # c
    <3>1. b \in free[p] /\ <<p, b>>[1] = p /\ <<p, b>>[2] = b
      BY <2>4, <2>7
    <3>2. ~HeldInPage(<<p, b>>)
      BY <3>1 DEF HeldInPage
    <3>3. <<p, b>> \notin live /\ <<p, b>> \notin CachedEntries
      BY <3>2 DEF IInv, HoldersInv, LiveBlocksHeld, CacheSound
    <3> QED
      BY <2>5, <3>3
  <2> QED
    BY <2>6, <2>7
<1> QED
  BY <1>1, InductiveInvariant, PTL DEF Spec, DeletedPageUnused
=============================================================================
