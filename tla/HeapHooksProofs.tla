--------------------------- MODULE HeapHooksProofs ---------------------------
(***************************************************************************)
(* What MCHeapHooks checks for sizes below 16, proved for all sizes,       *)
(* alignments and numbers of blocks: which allocator gets a block back     *)
(* while the hooks are installed, and what a block has room for.           *)
(***************************************************************************)
EXTENDS HeapHooks, NumberFacts

\* What may be hooked: neither, one or both of the groups.
Lists == {<<>>, CrtHooks, AudioHooks, CrtHooks \o AudioHooks}

\* Installation has gone through the first n functions of the list.
InstallInv == \E L \in Lists : \E n \in 0 .. Len(L) :
    /\ hooked = {L[i] : i \in 1 .. n}
    /\ todo = SubSeq(L, n + 1, Len(L))

\* Who may have made a block of a family.
MakersOf(family) ==
    CASE family = "plain" -> {"crt", "vmm"}
      [] family = "aligned" -> {"crtAligned", "vmm"}
      [] OTHER -> {"ak", "audio", "crtAligned"}
OriginalOf(family) ==
    CASE family = "plain" -> "crt"
      [] family = "aligned" -> "crtAligned"
      [] OTHER -> "ak"

BlockRecord ==
    [maker : {"none", "crt", "crtAligned", "ak", "vmm", "audio"},
     family : {"none", "plain", "aligned", "audio"}, asked : Nat, size : Nat]

\* A block that the game has, as the allocators left it.
GoodBlock(b, k) ==
    /\ k \in BlockRecord
    /\ k.family # "none" /\ k.maker \in MakersOf(k.family)
    /\ k.maker # OriginalOf(k.family) => \E f \in hooked : Family(f) = k.family
    /\ k.maker \in Manager /\ b \notin Zeros => k.size # 0
    /\ b \in Zeros => k.maker \in Manager /\ b = ZeroOf(k.maker)
    /\ k.size < Wrap
    /\ k.asked <= Wrap - Line => k.size >= k.asked

BlocksInv ==
    /\ blk \in [Blocks \cup Zeros -> BlockRecord]
    /\ \A b \in Blocks \cup Zeros : blk[b] # NoBlock => GoodBlock(b, blk[b])

IInv ==
    /\ InstallInv /\ BlocksInv
    /\ RightDeallocator /\ MovesKeepContents
    /\ crashed \in {"no", "realloc"}

-----------------------------------------------------------------------------
(* The list of hooks *)

\* The functions, one by one.
LEMMA FunctionSet ==
  Functions = {"_aligned_free", "_aligned_malloc", "_aligned_realloc", "calloc", "free",
               "malloc", "realloc", "Free", "Malign", "Malloc", "Realloc", "ReallocAligned"}
<1> DEFINE L == CrtHooks \o AudioHooks
<1>1. Len(CrtHooks) = 7 /\ Len(AudioHooks) = 5
  BY DEF CrtHooks, AudioHooks
<1>2. DOMAIN L = 1 .. 12
  BY <1>1 DEF CrtHooks, AudioHooks
<1>3. /\ \A i \in 1 .. 7 : L[i] = CrtHooks[i]
      /\ \A i \in 8 .. 12 : L[i] = AudioHooks[i - 7]
  BY <1>1 DEF CrtHooks, AudioHooks
<1>4. Functions = {L[i] : i \in 1 .. 12}
  BY <1>2 DEF Functions, Range
<1> HIDE DEF L
<1>5. /\ L[1] = "_aligned_free" /\ L[2] = "_aligned_malloc" /\ L[3] = "_aligned_realloc"
      /\ L[4] = "calloc" /\ L[5] = "free" /\ L[6] = "malloc" /\ L[7] = "realloc"
      /\ L[8] = "Free" /\ L[9] = "Malign" /\ L[10] = "Malloc" /\ L[11] = "Realloc"
      /\ L[12] = "ReallocAligned"
  BY <1>3 DEF CrtHooks, AudioHooks
<1>6. 1 .. 12 = {1, 2, 3, 4, 5, 6, 7, 8, 9, 10, 11, 12}
  OBVIOUS
<1> QED
  BY <1>4, <1>5, <1>6

\* The functions of each family.
LEMMA Families ==
  /\ \A f \in Functions : Family(f) = "plain" <=> f \in {"malloc", "calloc", "free", "realloc"}
  /\ \A f \in Functions : Family(f) = "aligned"
                          <=> f \in {"_aligned_malloc", "_aligned_free", "_aligned_realloc"}
  /\ \A f \in Functions : Family(f) = "audio"
            <=> f \in {"Free", "Malign", "Malloc", "Realloc", "ReallocAligned"}
  /\ \A f \in Functions : Family(f) \in {"plain", "aligned", "audio"}
BY FunctionSet DEF Family

Listed(L) == {L[i] : i \in 1 .. Len(L)}

\* The two lists and their concatenation.
LEMMA ListElements ==
  /\ Listed(<<>>) = {}
  /\ Listed(CrtHooks) = {f \in Functions : Family(f) # "audio"}
  /\ Listed(AudioHooks) = {f \in Functions : Family(f) = "audio"}
  /\ Listed(CrtHooks \o AudioHooks) = Functions
<1>1. Listed(<<>>) = {}
  BY DEF Listed
<1>2. Listed(CrtHooks) = {"_aligned_free", "_aligned_malloc", "_aligned_realloc", "calloc",
                          "free", "malloc", "realloc"}
  <2>1. Len(CrtHooks) = 7 /\ 1 .. 7 = {1, 2, 3, 4, 5, 6, 7}
    BY DEF CrtHooks
  <2> QED
    BY <2>1 DEF Listed, CrtHooks
<1>3. Listed(AudioHooks) = {"Free", "Malign", "Malloc", "Realloc", "ReallocAligned"}
  <2>1. Len(AudioHooks) = 5 /\ 1 .. 5 = {1, 2, 3, 4, 5}
    BY DEF AudioHooks
  <2> QED
    BY <2>1 DEF Listed, AudioHooks
<1>4. Listed(CrtHooks \o AudioHooks) = Functions
  BY DEF Listed, Functions, Range, CrtHooks, AudioHooks
<1>5. {f \in Functions : Family(f) # "audio"} =
        {"_aligned_free", "_aligned_malloc", "_aligned_realloc", "calloc",
         "free", "malloc", "realloc"}
  BY FunctionSet, Families
<1>6. {f \in Functions : Family(f) = "audio"} =
        {"Free", "Malign", "Malloc", "Realloc", "ReallocAligned"}
  BY FunctionSet, Families
<1> QED
  BY <1>1, <1>2, <1>3, <1>4, <1>5, <1>6

\* A list has a family as a whole or not at all, and begins with _aligned_free if it has
\* functions that make blocks for it.
LEMMA ListFacts ==
  ASSUME NEW L \in Lists
  PROVE  /\ L \in Seq(Functions) /\ Listed(L) \subseteq Functions
         /\ \A f, g \in Functions :
               f \in Listed(L) /\ Family(f) = Family(g) => g \in Listed(L)
         /\ \A f \in Listed(L) : Family(f) = "aligned" => L[1] = "_aligned_free"
<1>1. CrtHooks \in Seq(Functions) /\ AudioHooks \in Seq(Functions) /\ <<>> \in Seq(Functions)
  BY FunctionSet DEF CrtHooks, AudioHooks
<1>2. L \in Seq(Functions)
  <2>1. CASE L \in {<<>>, CrtHooks, AudioHooks}
    BY <1>1, <2>1
  <2>2. CASE L = CrtHooks \o AudioHooks
    <3>1. CrtHooks \o AudioHooks \in Seq(Functions)
      BY <1>1
    <3> QED
      BY <2>2, <3>1
  <2> QED
    BY <2>1, <2>2 DEF Lists
<1>3. Listed(L) \in {{}, {f \in Functions : Family(f) # "audio"},
                     {f \in Functions : Family(f) = "audio"}, Functions}
  BY ListElements DEF Lists
<1>4. CrtHooks[1] = "_aligned_free" /\ (CrtHooks \o AudioHooks)[1] = "_aligned_free"
  BY <1>1 DEF CrtHooks, AudioHooks
<1>5. \A f \in Listed(L) : Family(f) = "aligned" => L[1] = "_aligned_free"
  BY <1>4, ListElements DEF Lists
<1> QED
  BY <1>2, <1>3, <1>5

\* What the order of installation is for: a block for _aligned_free is made by vmm only
\* when that function is replaced.  And a function of a family that is replaced in part
\* will be replaced.
LEMMA HookFacts ==
  ASSUME InstallInv
  PROVE  /\ hooked \subseteq Functions /\ todo \in Seq(Functions)
         /\ \A f \in hooked : Family(f) = "aligned" => "_aligned_free" \in hooked
         /\ \A f \in hooked, g \in Functions :
               Family(f) = Family(g) /\ g \notin hooked => g \in Range(todo)
<1>1. PICK L \in Lists : \E n \in 0 .. Len(L) :
         /\ hooked = {L[i] : i \in 1 .. n}
         /\ todo = SubSeq(L, n + 1, Len(L))
  BY DEF InstallInv
<1>2. PICK n \in 0 .. Len(L) : /\ hooked = {L[i] : i \in 1 .. n}
                               /\ todo = SubSeq(L, n + 1, Len(L))
  BY <1>1
<1>3. L \in Seq(Functions) /\ Len(L) \in Nat /\ n \in Nat /\ n <= Len(L)
  BY <1>2, ListFacts
<1>4. hooked \subseteq Listed(L) /\ hooked \subseteq Functions
  BY <1>2, <1>3, ListFacts DEF Listed
<1>5. /\ todo \in Seq(Functions) /\ Len(todo) = Len(L) - n
      /\ \A j \in 1 .. Len(L) - n : todo[j] = L[n + j]
  BY <1>2, <1>3
<1>6. ASSUME NEW f \in hooked, Family(f) = "aligned"
      PROVE  "_aligned_free" \in hooked
  <2>1. L[1] = "_aligned_free"
    BY <1>4, <1>6, ListFacts
  <2>2. n > 0
    BY <1>2, <1>3, <1>6
  <2> QED
    BY <1>2, <1>3, <2>1, <2>2
<1>7. ASSUME NEW f \in hooked, NEW g \in Functions, Family(f) = Family(g), g \notin hooked
      PROVE  g \in Range(todo)
  <2>1. PICK i \in 1 .. Len(L) : L[i] = g
    BY <1>4, <1>7, ListFacts DEF Listed
  <2>2. i > n
    BY <1>2, <1>3, <1>7, <2>1
  <2>3. i - n \in 1 .. Len(L) - n /\ todo[i - n] = g
    BY <1>3, <1>5, <2>1, <2>2
  <2>4. i - n \in DOMAIN todo
    BY <1>5, <2>3
  <2> QED
    BY <2>3, <2>4 DEF Range
<1> QED
  BY <1>4, <1>5, <1>6, <1>7

\* One more is replaced.
LEMMA InstallStep ==
  ASSUME InstallInv, Install
  PROVE  InstallInv' /\ hooked \subseteq hooked'
<1>1. PICK L \in Lists : \E n \in 0 .. Len(L) :
         /\ hooked = {L[i] : i \in 1 .. n}
         /\ todo = SubSeq(L, n + 1, Len(L))
  BY DEF InstallInv
<1>2. PICK n \in 0 .. Len(L) : /\ hooked = {L[i] : i \in 1 .. n}
                               /\ todo = SubSeq(L, n + 1, Len(L))
  BY <1>1
<1>3. L \in Seq(Functions) /\ Len(L) \in Nat /\ n \in Nat /\ n <= Len(L)
  BY <1>2, ListFacts
<1>4. todo # <<>> /\ hooked' = hooked \cup {Head(todo)} /\ todo' = Tail(todo)
  BY DEF Install
<1>5. n < Len(L)
  BY <1>2, <1>3, <1>4
<1>6. Head(todo) = L[n + 1] /\ Tail(todo) = SubSeq(L, n + 2, Len(L))
  BY <1>2, <1>3, <1>5
<1>7. hooked' = {L[i] : i \in 1 .. n + 1}
  BY <1>2, <1>3, <1>4, <1>6
<1>8. n + 1 \in 0 .. Len(L) /\ (n + 1) + 1 = n + 2
  BY <1>3, <1>5
<1> QED
  BY <1>4, <1>6, <1>7, <1>8 DEF InstallInv

-----------------------------------------------------------------------------
(* What the functions return *)

\* The constants as numbers.
LEMMA Numbers ==
  /\ Line \in Nat /\ Line > 0 /\ Wrap \in Nat /\ Line < Wrap
  /\ \A n \in Sizes : n \in Nat /\ n < Wrap
  /\ Null \notin Blocks \cup Zeros /\ Blocks \cap Zeros = {}
BY HooksAssumption

\* Rounding up makes a size no smaller, except where it wraps around.
LEMMA RoundedFacts ==
  ASSUME NEW n \in Nat, n < Wrap, NEW a \in 1 .. Line
  PROVE  /\ Rounded(n, a) \in Nat /\ Rounded(n, a) < Wrap
         /\ n <= Wrap - Line => Rounded(n, a) >= n
<1>1. a \in Nat /\ a > 0 /\ a <= Line
  BY Numbers
<1>2. CASE n % a = 0
  BY <1>2, Numbers DEF Rounded
<1>3. CASE n % a # 0
  <2>0. PICK s : s = (n + a - 1) % Wrap
    OBVIOUS
  <2>1. n + a - 1 \in Nat
    BY <1>1
  <2>2. s \in Nat /\ s < Wrap /\ (n + a - 1 < Wrap => s = n + a - 1)
    BY <2>0, <2>1, Numbers, SmallModulo
  <2>3. (s \div a) * a <= s /\ s < (s \div a) * a + a /\ s \div a \in Nat
    BY <1>1, <2>2
  <2>4. (s \div a) * a \in Nat
    BY <1>1, <2>3
  <2>5. Rounded(n, a) = (s \div a) * a
    BY <1>3, <2>0 DEF Rounded
  <2>6. n <= Wrap - Line => n + a - 1 < Wrap
    BY <1>1, Numbers
  <2> QED
    BY <1>1, <2>2, <2>3, <2>4, <2>5, <2>6, Numbers
<1> QED
  BY <1>2, <1>3

\* A hooked function returns a block that nobody has, or the block of size zero.
LEMMA AllocFacts ==
  ASSUME NEW f \in Functions, NEW n \in Nat, n < Wrap, NEW a \in AlignmentsFor(f),
         NEW r \in Alloc(f, n, a), r.ptr # Null
  PROVE  /\ r.ptr \in Fresh \/ (r.ptr = ZeroOf(ManagerOf(f)) /\ r.maker = ManagerOf(f))
         /\ r.maker \in {ManagerOf(f), "crtAligned"}
         /\ r.maker = "crtAligned" => Family(f) # "plain"
         /\ r.ptr \in Fresh /\ r.maker \in Manager => r.size # 0
         /\ r.size \in Nat /\ r.size < Wrap
         /\ n <= Wrap - Line => r.size >= n
<1>0. PICK size : size = IF a <= Line THEN Rounded(n, PowerOfTwo(a)) ELSE n
  OBVIOUS
<1>1. a \in Nat /\ a > 0 /\ (Family(f) = "plain" => a = Line)
  BY Families, Numbers, HooksAssumption, FunctionSet DEF AlignmentsFor, WithAlignment
<1>2. size \in Nat /\ size < Wrap /\ (n <= Wrap - Line => size >= n)
  <2>1. CASE a <= Line
    <3>1. PowerOfTwo(a) \in 1 .. Line
      BY <1>1, <2>1, Numbers, LineAssumption
    <3> QED
      BY <1>0, <2>1, <3>1, RoundedFacts
  <2>2. CASE ~(a <= Line)
    BY <1>0, <2>2
  <2> QED
    BY <2>1, <2>2
<1>3. r \in IF n = 0 \/ size = 0
            THEN {[ptr |-> ZeroOf(ManagerOf(f)), maker |-> ManagerOf(f), size |-> 0]}
            ELSE {[ptr |-> p, maker |-> Maker(f, a), size |-> size] : p \in Fresh \cup {Null}}
  BY <1>0 DEF Alloc
<1>4. CASE n = 0 \/ size = 0
  <2>1. r = [ptr |-> ZeroOf(ManagerOf(f)), maker |-> ManagerOf(f), size |-> 0]
    BY <1>3, <1>4
  <2>2. n <= Wrap - Line => n = 0
    BY <1>2, <1>4
  <2>3. r.ptr \notin Fresh
    BY <2>1, Numbers DEF Fresh, ZeroOf, Zeros
  <2>4. ManagerOf(f) # "crtAligned"
    BY DEF ManagerOf
  <2>5. r.ptr = ZeroOf(ManagerOf(f)) /\ r.maker = ManagerOf(f) /\ r.size = 0
    BY <2>1
  <2> QED
    BY <2>2, <2>3, <2>4, <2>5, Numbers
<1>5. CASE ~(n = 0 \/ size = 0)
  <2>1. PICK p \in Fresh \cup {Null} : r = [ptr |-> p, maker |-> Maker(f, a), size |-> size]
    BY <1>3, <1>5
  <2>2. Maker(f, a) \in {ManagerOf(f), "crtAligned"}
        /\ (Maker(f, a) = "crtAligned" => Family(f) # "plain")
    BY <1>1, Numbers DEF Maker, ManagerOf
  <2> QED
    BY <1>2, <1>5, <2>1, <2>2
<1> QED
  BY <1>4, <1>5

\* Every block that a function returns is a good one.
LEMMA NewBlock ==
  ASSUME InstallInv, NEW f \in Functions, NEW m \in Nat, NEW a \in AlignmentsFor(f),
         NEW r \in Results(f, m, a), r.ptr # Null
  PROVE  /\ GoodBlock(r.ptr, Block(f, r.maker, m, r.size))
         /\ r.ptr \in Blocks \cup Zeros /\ r.size \in Nat
         /\ m <= Wrap - Line => r.size >= m
<1>0. PICK k : k = Block(f, r.maker, m, r.size)
  OBVIOUS
<1>1. Family(f) \in {"plain", "aligned", "audio"}
  BY Families
<1>2. k = [maker |-> r.maker, family |-> Family(f), asked |-> m, size |-> r.size]
  BY <1>0 DEF Block
<1>3. CASE f \in hooked
  <2>0. PICK n : n = m % Wrap
    OBVIOUS
  <2>1. n \in Nat /\ n < Wrap /\ (m < Wrap => n = m) /\ (m <= Wrap - Line => n = m)
    BY <2>0, Numbers, SmallModulo
  <2>2. r \in Alloc(f, n, a)
    BY <1>3, <2>0 DEF Results
  <2>3. /\ r.ptr \in Fresh \/ (r.ptr = ZeroOf(ManagerOf(f)) /\ r.maker = ManagerOf(f))
        /\ r.maker \in {ManagerOf(f), "crtAligned"}
        /\ r.maker = "crtAligned" => Family(f) # "plain"
        /\ r.ptr \in Fresh /\ r.maker \in Manager => r.size # 0
        /\ r.size \in Nat /\ r.size < Wrap
        /\ n <= Wrap - Line => r.size >= n
    BY <2>1, <2>2, AllocFacts
  <2>4. ManagerOf(f) \in Manager /\ ZeroOf(ManagerOf(f)) \in Zeros
        /\ (r.ptr \in Fresh => r.ptr \in Blocks /\ r.ptr \notin Zeros)
    BY Numbers DEF ManagerOf, Manager, ZeroOf, Zeros, Fresh
  <2>5. r.maker \in MakersOf(Family(f))
    BY <1>1, <2>3 DEF ManagerOf, MakersOf
  <2>6. k \in BlockRecord
    BY <1>1, <1>2, <2>3 DEF BlockRecord, ManagerOf
  <2>7. m <= Wrap - Line => r.size >= m
    BY <2>1, <2>3
  <2>8. GoodBlock(r.ptr, k)
    BY <1>1, <1>2, <1>3, <2>3, <2>4, <2>5, <2>6, <2>7 DEF GoodBlock
  <2> QED
    BY <1>0, <2>3, <2>4, <2>7, <2>8
<1>4. CASE f \notin hooked
  <2>1. r \in OriginalAlloc(f, m)
    BY <1>4 DEF Results
  <2>2. /\ m < Wrap /\ r.ptr \in Fresh
        /\ r.maker = OriginalMaker(f) /\ r.size = m
    BY <2>1, Numbers DEF OriginalAlloc
  <2>3. OriginalMaker(f) = OriginalOf(Family(f))
    BY DEF OriginalMaker, OriginalOf
  <2>4. OriginalOf(Family(f)) \in MakersOf(Family(f))
        /\ OriginalOf(Family(f)) \in {"crt", "crtAligned", "ak"}
    BY <1>1 DEF OriginalOf, MakersOf
  <2>5. r.ptr \in Blocks /\ r.ptr \notin Zeros
    BY <2>2, Numbers DEF Fresh
  <2>6. k \in BlockRecord
    BY <1>1, <1>2, <2>2, <2>3, <2>4 DEF BlockRecord
  <2>7. GoodBlock(r.ptr, k)
    BY <1>1, <1>2, <2>2, <2>3, <2>4, <2>5, <2>6 DEF GoodBlock, Manager
  <2> QED
    BY <1>0, <2>2, <2>5, <2>7
<1> QED
  BY <1>3, <1>4

-----------------------------------------------------------------------------
(* Steps *)

\* The alignments and sizes of a call.
LEMMA CallFacts ==
  /\ Allocating \subseteq Functions /\ Freeing \subseteq Functions
  /\ Reallocating \subseteq Functions
  /\ \A f \in Functions, n \in Sizes : \A k \in CountsFor(f) : k * n \in Nat
BY FunctionSet, Numbers, HooksAssumption
   DEF Allocating, Freeing, Reallocating, CountsFor

\* A block in use, among the variables.
LEMMA LiveBlocks ==
  ASSUME BlocksInv
  PROVE  /\ Live = {b \in Blocks \cup Zeros : blk[b] # NoBlock}
         /\ \A b \in Live : GoodBlock(b, blk[b])
BY DEF BlocksInv, Live

\* NoBlock is not a good block, but a record.
LEMMA NoBlockRecord == NoBlock \in BlockRecord
BY DEF NoBlock, BlockRecord

\* A block made or released leaves the others as they are.
LEMMA BlocksStep ==
  ASSUME BlocksInv, hooked \subseteq hooked',
         blk' \in [Blocks \cup Zeros -> BlockRecord],
         \A b \in Blocks \cup Zeros :
            blk'[b] # NoBlock => blk'[b] = blk[b] \/ GoodBlock(b, blk'[b])
  PROVE  BlocksInv'
<1>1. ASSUME NEW b \in Blocks \cup Zeros, blk'[b] # NoBlock
      PROVE  GoodBlock(b, blk[b])'
  <2>1. GoodBlock(b, blk'[b])
    BY <1>1 DEF BlocksInv
  <2> QED
    BY <2>1 DEF GoodBlock
<1> QED
  BY <1>1 DEF BlocksInv

\* The game allocates.
LEMMA AllocateStep ==
  ASSUME IInv, NEW f \in Allocating, Allocate(f)
  PROVE  IInv'
<1> USE DEF IInv
<1>1. PICK n \in Sizes, k \in CountsFor(f), a \in AlignmentsFor(f) :
        \E r \in Results(f, k * n, a) :
            /\ blk' = IF r.ptr = Null THEN blk
                      ELSE [blk EXCEPT ![r.ptr] = Block(f, r.maker, k * n, r.size)]
            /\ misused' = {} /\ moved' = {}
            /\ UNCHANGED <<hooked, todo, crashed>>
  BY DEF Allocate
<1>2. PICK m, r : /\ m = k * n /\ r \in Results(f, m, a)
                  /\ blk' = IF r.ptr = Null THEN blk
                            ELSE [blk EXCEPT ![r.ptr] = Block(f, r.maker, m, r.size)]
                  /\ misused' = {} /\ moved' = {}
                  /\ UNCHANGED <<hooked, todo, crashed>>
  BY <1>1
<1>3. f \in Functions /\ m \in Nat
  BY <1>2, CallFacts
<1>4. InstallInv'
  BY <1>2 DEF InstallInv
<1>5. BlocksInv'
  <2>1. CASE r.ptr = Null
    BY <1>2, <2>1, BlocksStep DEF BlocksInv
  <2>2. CASE r.ptr # Null
    <3>0. PICK p, new : p = r.ptr /\ new = Block(f, r.maker, m, r.size)
      OBVIOUS
    <3>1. GoodBlock(p, new) /\ p \in Blocks \cup Zeros
      BY <1>2, <1>3, <2>2, <3>0, NewBlock
    <3>2. new \in BlockRecord
      BY <3>1 DEF GoodBlock
    <3>3. blk' = [blk EXCEPT ![p] = new]
      BY <1>2, <2>2, <3>0
    <3>4. blk' \in [Blocks \cup Zeros -> BlockRecord]
      BY <3>2, <3>3 DEF BlocksInv
    <3>5. \A b \in Blocks \cup Zeros :
             blk'[b] # NoBlock => blk'[b] = blk[b] \/ GoodBlock(b, blk'[b])
      BY <3>1, <3>3 DEF BlocksInv
    <3> QED
      BY <1>2, <3>4, <3>5, BlocksStep
  <2> QED
    BY <2>1, <2>2
<1> QED
  BY <1>2, <1>4, <1>5 DEF RightDeallocator, MovesKeepContents

\* Where a block of the game goes back to: if not to its maker, it is the block of size
\* zero, or its family is being replaced, or an original function had made it.
LEMMA MisuseExcused ==
  ASSUME InstallInv, BlocksInv, NEW f \in Functions, NEW b \in Live, blk[b].family = Family(f)
  PROVE  \A m \in Misuse(f, b) :
           \/ m.ptr \in Zeros
           \/ /\ m.fn # "_aligned_free"
              /\ \/ \E g \in Range(todo) : Family(g) = Family(m.fn)
                 \/ m.maker \in {"crt", "ak"}
<1>0. PICK k : k = blk[b]
  OBVIOUS
<1>1. GoodBlock(b, k) /\ k.family = Family(f) /\ k.maker \in MakersOf(Family(f))
  BY <1>0, LiveBlocks DEF GoodBlock
<1>2. SUFFICES ASSUME GivenTo(f, b) # k.maker, b \notin Zeros
               PROVE  /\ f # "_aligned_free"
                      /\ \/ \E g \in Range(todo) : Family(g) = Family(f)
                         \/ k.maker \in {"crt", "ak"}
  BY <1>0 DEF Misuse
<1>3. Family(f) \in {"plain", "aligned", "audio"}
      /\ (Family(f) = "aligned" <=> f \in {"_aligned_malloc", "_aligned_free", "_aligned_realloc"})
  BY Families
<1>4. CASE f \in hooked
  <2>1. GivenTo(f, b) = IF Msize(f, b) = 0 THEN "crtAligned" ELSE ManagerOf(f)
    BY <1>4 DEF GivenTo, Dealloc
  <2>2. k.maker # ManagerOf(f)
    <3>1. SUFFICES ASSUME k.maker = ManagerOf(f)
                   PROVE  FALSE
      OBVIOUS
    <3>2. b # Null /\ k.maker \in Manager
      BY <3>1, Numbers, LiveBlocks DEF ManagerOf, Manager
    <3>3. Msize(f, b) = k.size /\ k.size # 0
      BY <1>0, <1>1, <1>2, <3>1, <3>2 DEF Msize, GoodBlock
    <3> QED
      BY <1>2, <2>1, <3>1, <3>3
  <2>3. k.maker # "crtAligned"
    BY <1>0, <1>2, <2>1, <2>2 DEF Msize
  <2>4. k.maker \in {"crt", "ak"}
    BY <1>1, <1>3, <2>2, <2>3 DEF MakersOf, ManagerOf
  <2>5. f # "_aligned_free"
    BY <1>1, <1>3, <2>4 DEF MakersOf
  <2> QED
    BY <2>4, <2>5
<1>5. CASE f \notin hooked
  <2>1. GivenTo(f, b) = OriginalMaker(f) /\ OriginalMaker(f) = OriginalOf(Family(f))
    BY <1>5 DEF GivenTo, OriginalMaker, OriginalOf
  <2>2. PICK g \in hooked : Family(g) = Family(f)
    BY <1>1, <1>2, <2>1 DEF GoodBlock
  <2>3. f \in Range(todo)
    BY <1>5, <2>2, HookFacts
  <2>4. f # "_aligned_free"
    BY <1>3, <1>5, <2>2, HookFacts
  <2> QED
    BY <2>3, <2>4
<1> QED
  BY <1>4, <1>5

\* The game releases a block.
LEMMA ReleaseStep ==
  ASSUME IInv, NEW f \in Functions, Release(f)
  PROVE  IInv'
<1> USE DEF IInv
<1>1. PICK b \in Live : /\ blk[b].family = Family(f)
                        /\ misused' = Misuse(f, b) /\ moved' = {}
                        /\ blk' = [blk EXCEPT ![b] = NoBlock]
                        /\ UNCHANGED <<hooked, todo, crashed>>
  BY DEF Release
<1>2. InstallInv'
  BY <1>1 DEF InstallInv
<1>3. blk' \in [Blocks \cup Zeros -> BlockRecord]
      /\ \A x \in Blocks \cup Zeros : blk'[x] # NoBlock => blk'[x] = blk[x]
  BY <1>1, NoBlockRecord DEF BlocksInv
<1>4. BlocksInv'
  BY <1>1, <1>3, BlocksStep
<1>5. RightDeallocator'
  BY <1>1, MisuseExcused DEF RightDeallocator
<1> QED
  BY <1>1, <1>2, <1>4, <1>5 DEF MovesKeepContents

\* A block of a manager that is moved keeps as much of its contents as the new size has
\* room for: msize tells how much there was, and rounding up leaves room for it.
LEMMA MoveKeeps ==
  ASSUME InstallInv, BlocksInv, NEW f \in Functions, NEW b \in Live \cup {Null},
         b # Null => blk[b].family = Family(f),
         NEW n \in Nat, NEW a \in AlignmentsFor(f), NEW r \in Results(f, n, a)
  PROVE  \A m \in Move(f, b, n, r) :
            m.from \in Manager /\ m.size <= Wrap - Line => m.kept >= m.owed
<1>0. PICK k, filled, copied :
         /\ k = blk[b] /\ filled = Filled(b)
         /\ copied = IF f \in hooked THEN CopiedBytes(f, b, n) ELSE n
  OBVIOUS
<1>1. SUFFICES ASSUME b # Null, r.ptr # Null, k.maker \in Manager, n <= Wrap - Line
               PROVE  Min({filled, r.size, copied}) >= Min({filled, n})
  BY <1>0 DEF Move
<1>2. b \in Live /\ GoodBlock(b, k) /\ k.family = Family(f)
  BY <1>0, <1>1, LiveBlocks
<1>3. k.asked \in Nat /\ k.size \in Nat
  BY <1>2 DEF GoodBlock, BlockRecord
<1>4. filled \in Nat /\ filled <= k.size
  BY <1>0, <1>3, MinOfTwo DEF Filled
<1>5. r.size \in Nat /\ r.size >= n
  BY <1>1, NewBlock
<1>6. k.maker = ManagerOf(f)
  <2>1. k.maker \in MakersOf(Family(f)) /\ k.maker \in {"vmm", "audio"}
    BY <1>1, <1>2 DEF GoodBlock, Manager
  <2>2. Family(f) \in {"plain", "aligned", "audio"}
    BY Families
  <2> QED
    BY <2>1, <2>2 DEF MakersOf, ManagerOf
<1>7. Msize(f, b) = k.size
  BY <1>0, <1>1, <1>6 DEF Msize
<1>8. copied \in {n, k.size}
  BY <1>0, <1>3, <1>7, MinOfTwo DEF CopiedBytes
<1>9. Min({filled, n}) <= filled /\ Min({filled, n}) <= n /\ Min({filled, n}) \in Nat
  BY <1>4, MinOfTwo
<1>10. Min({filled, r.size, copied}) \in {filled, r.size, copied}
  BY <1>3, <1>4, <1>5, <1>8, MinOfThree
<1> QED
  BY <1>3, <1>4, <1>5, <1>8, <1>9, <1>10

\* The new block takes the place of the old one.
LEMMA ReplacedBlocks ==
  ASSUME InstallInv, BlocksInv, hooked' = hooked, NEW f \in Functions, NEW b \in Live \cup {Null},
         NEW n \in Nat, NEW a \in AlignmentsFor(f), NEW r \in Results(f, n, a),
         blk' = Replaced(f, b, n, r)
  PROVE  BlocksInv'
<1>0. PICK p, new : p = r.ptr /\ new = Block(f, r.maker, n, r.size)
  OBVIOUS
<1>1. blk' = [x \in Blocks \cup Zeros |-> IF x = p THEN new ELSE IF x = b THEN NoBlock ELSE blk[x]]
  BY <1>0 DEF Replaced, BlocksInv
<1>2. p # Null => GoodBlock(p, new)
  BY <1>0, NewBlock
<1>3. \A x \in Blocks \cup Zeros : x = p => p # Null
  BY Numbers
<1>4. blk' \in [Blocks \cup Zeros -> BlockRecord]
  BY <1>1, <1>2, <1>3, NoBlockRecord DEF BlocksInv, GoodBlock
<1>5. \A x \in Blocks \cup Zeros :
         blk'[x] # NoBlock => blk'[x] = blk[x] \/ GoodBlock(x, blk'[x])
  BY <1>1, <1>2, <1>3
<1> QED
  BY <1>4, <1>5, BlocksStep

\* The game reallocates.
LEMMA ReallocateStep ==
  ASSUME IInv, NEW f \in Reallocating, Reallocate(f)
  PROVE  IInv'
<1> USE DEF IInv
<1>1. PICK b \in Live \cup {Null}, n \in Sizes \ {0}, a \in AlignmentsFor(f) :
         /\ b # Null => blk[b].family = Family(f)
         /\ HookedRealloc(f, b, n, a) \/ OriginalRealloc(f, b, n)
         /\ UNCHANGED <<hooked, todo>>
  BY DEF Reallocate
<1>2. f \in Functions /\ n \in Nat /\ n < Wrap /\ n % Wrap = n
  BY <1>1, CallFacts, Numbers, SmallModulo
<1>3. InstallInv'
  BY <1>1 DEF InstallInv
<1>4. PICK r \in Results(f, n, a) :
         \/ /\ crashed' = "realloc" /\ misused' = {} /\ moved' = {} /\ UNCHANGED blk
         \/ /\ misused' = {} /\ moved' = {} /\ UNCHANGED <<blk, crashed>>
         \/ /\ blk' = Replaced(f, b, n, r)
            /\ misused' = Misuse(f, b) /\ moved' = Move(f, b, n, r)
            /\ UNCHANGED crashed
  BY <1>1, <1>2 DEF HookedRealloc, OriginalRealloc, Results, CopiesInto
<1>5. CASE UNCHANGED blk /\ misused' = {} /\ moved' = {} /\ crashed' \in {crashed, "realloc"}
  <2>1. BlocksInv'
    BY <1>1, <1>5, BlocksStep DEF BlocksInv
  <2> QED
    BY <1>3, <1>5, <2>1 DEF RightDeallocator, MovesKeepContents
<1>6. CASE /\ blk' = Replaced(f, b, n, r)
           /\ misused' = Misuse(f, b) /\ moved' = Move(f, b, n, r)
           /\ UNCHANGED crashed
  <2>1. BlocksInv'
    BY <1>1, <1>2, <1>6, ReplacedBlocks
  <2>2. RightDeallocator'
    <3>1. CASE b = Null
      BY <1>6, <3>1 DEF Misuse, RightDeallocator
    <3>2. CASE b # Null
      BY <1>1, <1>2, <1>6, <3>2, MisuseExcused DEF RightDeallocator
    <3> QED
      BY <3>1, <3>2
  <2>3. MovesKeepContents'
    BY <1>1, <1>2, <1>6, MoveKeeps DEF MovesKeepContents
  <2> QED
    BY <1>3, <1>6, <2>1, <2>2, <2>3
<1> QED
  BY <1>4, <1>5, <1>6

-----------------------------------------------------------------------------
(* The invariant and the properties *)

\* Nothing is hooked, and there are no blocks.
LEMMA InitInv ==
  ASSUME Init
  PROVE  IInv
<1>1. PICK crtmem \in BOOLEAN, audiomem \in BOOLEAN :
         todo = (IF crtmem THEN CrtHooks ELSE <<>>) \o (IF audiomem THEN AudioHooks ELSE <<>>)
  BY DEF Init
<1>2. CrtHooks \in Seq(Functions) /\ AudioHooks \in Seq(Functions)
  BY FunctionSet DEF CrtHooks, AudioHooks
<1>3. todo \in Lists
  <2>1. \A s \in Seq(Functions) : s \o <<>> = s
    OBVIOUS
  <2>2. \A s \in Seq(Functions) : <<>> \o s = s
    OBVIOUS
  <2>3. <<>> \in Seq(Functions)
    OBVIOUS
  <2>4. CASE crtmem /\ audiomem
    BY <1>1, <2>4 DEF Lists
  <2>5. CASE crtmem /\ ~audiomem
    <3>1. todo = CrtHooks \o <<>>
      BY <1>1, <2>5
    <3> QED
      BY <1>2, <2>1, <3>1 DEF Lists
  <2>6. CASE ~crtmem /\ audiomem
    <3>1. todo = <<>> \o AudioHooks
      BY <1>1, <2>6
    <3> QED
      BY <1>2, <2>2, <3>1 DEF Lists
  <2>7. CASE ~crtmem /\ ~audiomem
    <3>1. todo = <<>> \o <<>>
      BY <1>1, <2>7
    <3> QED
      BY <2>1, <2>3, <3>1 DEF Lists
  <2> QED
    BY <2>4, <2>5, <2>6, <2>7
<1>4. InstallInv
  <2>1. todo \in Seq(Functions)
    BY <1>3, ListFacts
  <2>2. todo = SubSeq(todo, 0 + 1, Len(todo)) /\ 0 \in 0 .. Len(todo)
    BY <2>1
  <2>3. hooked = {todo[i] : i \in 1 .. 0}
    BY DEF Init
  <2> QED
    BY <1>3, <2>2, <2>3 DEF InstallInv
<1>5. BlocksInv
  BY NoBlockRecord DEF Init, BlocksInv
<1> QED
  BY <1>4, <1>5 DEF Init, IInv, RightDeallocator, MovesKeepContents

\* Every step keeps the invariant.
LEMMA NextInv ==
  ASSUME IInv, [Next]_vars
  PROVE  IInv'
<1> USE DEF IInv
<1>1. CASE UNCHANGED vars
  <2>1. BlocksInv'
    BY <1>1, BlocksStep DEF vars, BlocksInv
  <2> QED
    BY <1>1, <2>1 DEF vars, InstallInv, RightDeallocator, MovesKeepContents
<1>2. CASE Install
  <2>1. InstallInv' /\ hooked \subseteq hooked'
    BY <1>2, InstallStep
  <2>2. misused' = {} /\ moved' = {} /\ UNCHANGED <<blk, crashed>>
    BY <1>2 DEF Install
  <2>3. BlocksInv'
    BY <2>1, <2>2, BlocksStep DEF BlocksInv
  <2> QED
    BY <2>1, <2>2, <2>3 DEF RightDeallocator, MovesKeepContents
<1>3. ASSUME NEW f \in Allocating, Allocate(f)
      PROVE  IInv'
  BY <1>3, AllocateStep
<1>4. ASSUME NEW f \in Freeing \cup Reallocating, Release(f)
      PROVE  IInv'
  <2>1. f \in Functions
    BY CallFacts
  <2> QED
    BY <1>4, <2>1, ReleaseStep
<1>5. ASSUME NEW f \in Reallocating, Reallocate(f)
      PROVE  IInv'
  BY <1>5, ReallocateStep
<1> QED
  BY <1>1, <1>2, <1>3, <1>4, <1>5 DEF Next, ReallocateToZero

\* The invariant of the hooks.
THEOREM HooksInvariant == Spec => []IInv
BY InitInv, NextInv, PTL DEF Spec

\* Every variable keeps its type.
THEOREM HooksTypeCorrect == Spec => []TypeOK
<1>1. IInv => TypeOK
  <2> SUFFICES ASSUME IInv
               PROVE  TypeOK
    OBVIOUS
  <2>1. hooked \subseteq Functions /\ todo \in Seq(Functions)
    BY HookFacts DEF IInv
  <2>2. DOMAIN blk = Blocks \cup Zeros
    BY DEF IInv, BlocksInv
  <2>3. ASSUME NEW b \in Live
        PROVE  /\ blk[b].maker \in {"crt", "crtAligned", "ak"} \cup Manager
               /\ blk[b].size \in 0 .. Wrap - 1
               /\ b \in Zeros => blk[b].maker \in Manager /\ b = ZeroOf(blk[b].maker)
    <3>1. GoodBlock(b, blk[b])
      BY LiveBlocks DEF IInv
    <3> QED
      BY <3>1, Numbers DEF GoodBlock, BlockRecord, MakersOf, Manager
  <2>4. crashed \in {"no"} \cup Reallocating
    BY DEF IInv, Reallocating
  <2> QED
    BY <2>1, <2>2, <2>3, <2>4 DEF TypeOK
<1> QED
  BY <1>1, HooksInvariant, PTL

\* A block goes back to the allocator that made it, with two exceptions, at any point of
\* the installation.
THEOREM DeallocatorIsRight == Spec => []RightDeallocator
<1>1. IInv => RightDeallocator
  BY DEF IInv
<1> QED
  BY <1>1, HooksInvariant, PTL

\* There is room for what was asked, unless rounding up wraps around.
THEOREM RoomIsEnough == Spec => []EnoughRoom
<1>1. IInv => EnoughRoom
  BY LiveBlocks DEF IInv, EnoughRoom, GoodBlock
<1> QED
  BY <1>1, HooksInvariant, PTL

\* Moving a block of a manager keeps its contents.
THEOREM MovesKeep == Spec => []MovesKeepContents
<1>1. IInv => MovesKeepContents
  BY DEF IInv
<1> QED
  BY <1>1, HooksInvariant, PTL
=============================================================================
