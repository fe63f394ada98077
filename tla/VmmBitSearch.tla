---------------------------- MODULE VmmBitSearch ----------------------------
(***************************************************************************)
(* The four searches for the first one in a bit map                        *)
(* (depends/vmm/source/vbits.cpp, find_first_set_bit and its variants),    *)
(* loop by loop:                                                           *)
(*                                                                         *)
(*   bits    each bit in turn (maps under 32 bits);                        *)
(*   words   each word, then the bits of the last, incomplete one          *)
(*           (maps under 2048 bits);                                       *)
(*   vector  Group words at a time, the second half of them only if the    *)
(*           first is all zero, then the rest (AVX2 and SSE4.1);           *)
(*   plain   each 64-bit word (neither instruction set).                   *)
(*                                                                         *)
(* The vector search reads whole groups, so also memory behind that of the *)
(* map: its bits there are arbitrary.  The map is a value of VmmBits, and  *)
(* what is found is what FindFirst of that module says.                    *)
(***************************************************************************)
EXTENDS VmmBits

CONSTANTS
    Word,       \* bits in a word (32 or 64)
    Group,      \* words in one step of the vector search (32 or 16)
    Counts,     \* the sizes of the maps searched
    Searches    \* a subset of {"bits", "words", "vector", "plain"}

ASSUME SearchAssumption ==
    /\ Word \in Nat \ {0}
    /\ Group \in Nat \ {0} /\ Group % 2 = 0
    /\ Counts \subseteq 1 .. SizeMax
    /\ Searches \subseteq {"bits", "words", "vector", "plain"}

VARIABLES
    search,     \* which of the searches runs
    searched,   \* the map
    behind,     \* the ones in the memory behind that of the map
    at,         \* the loop's index, in words and then in bits
    pc,         \* "start", "words", "tail" or "done"
    ret,        \* the value returned
    index       \* the index found; None if not assigned

input == <<search, searched, behind>>
searchVars == <<input, at, pc, ret, index>>

FullWords == searched.count \div Word

\* The words that one step of the vector search reads, from word k.
GroupAt(k) == k .. k + Group - 1

\* The first bit behind what a search of c bits can read.
ReadEnd(s, c) ==
    LET groups == (c \div Word + Group - 1) \div Group
    IN  IF s = "vector" /\ groups * Group * Word > c
        THEN groups * Group * Word
        ELSE c

\* The plain search has no loop over the bits behind the last full word; the
\* maps of vmm (65536 bits in 16 regions) have none.
WholeWords(c) == c % Word = 0

\* A map of c bits; its count of ones is right (CountExact of VmmBitsObject).
MapOf(c, m) ==
    [alloc |-> InBytes(c), mem |-> m, count |-> c,
     sets |-> Cardinality({b \in m : b < c})]

SearchInit ==
    /\ search \in Searches
    /\ \E c \in Counts :
        /\ search = "plain" => WholeWords(c)
        /\ \E m \in SUBSET (0 .. InBytes(c) - 1) : searched = MapOf(c, m)
        /\ behind \in SUBSET (InBytes(c) .. ReadEnd(search, c) - 1)
    /\ at = 0
    /\ pc = "start"
    /\ ret = FALSE
    /\ index = None

\* The ones of word k, and its first one (ctz; Word for a zero word).
OnesOf(k) == {b \in searched.mem \cup behind : b \div Word = k}
FirstOf(k) == IF OnesOf(k) = {} THEN Word ELSE Min(OnesOf(k)) % Word

Return(r, x) == pc' = "done" /\ ret' = r /\ index' = x /\ UNCHANGED <<input, at>>

GoOn(next, where) ==
    pc' = where /\ at' = next /\ UNCHANGED <<input, ret, index>>

\* is_all_unsets goes by the count of ones.
Start ==
    /\ pc = "start"
    /\ IF searched.sets = 0 THEN Return(FALSE, index)
       ELSE GoOn(0, IF search = "bits" THEN "tail" ELSE "words")

\* One word, for the searches that take them one by one.
OneWord ==
    /\ pc = "words"
    /\ search \in {"words", "plain"}
    /\ at < FullWords
    /\ IF FirstOf(at) # Word THEN Return(TRUE, at * Word + FirstOf(at))
       ELSE GoOn(at + 1, "words")

BugMaskSkipsFirstHalf(k) ==
    {w \in GroupAt(k) : w >= k + Group \div 2 /\ OnesOf(w) # {}}

\* The mask of one group: the words known to be zero are not in it.  If there
\* is a one in the first half, the second is not looked at and counts as ones.
Mask(k) ==
    LET half == {w \in GroupAt(k) : w < k + Group \div 2}
        nonzero == {w \in GroupAt(k) : OnesOf(w) # {}}
    IN  IF half \cap nonzero # {}
        THEN (half \cap nonzero) \cup (GroupAt(k) \ half)
        ELSE nonzero

BugStaysAtGroup(k) == k

NextGroup(k) == k + Group

\* A group of words; it may reach beyond the full words, and beyond memory.
OneGroup ==
    /\ pc = "words"
    /\ search = "vector"
    /\ at < FullWords
    /\ IF Mask(at) # {}
       THEN Return(TRUE, Min(Mask(at)) * Word + FirstOf(Min(Mask(at))))
       ELSE GoOn(NextGroup(at), "words")

BugTailStart == FullWords * Word + 1

TailStart == FullWords * Word

\* The words are through; the plain search gives up, the others look at the rest.
EndOfWords ==
    /\ pc = "words"
    /\ at >= FullWords
    /\ IF search = "plain" THEN Return(FALSE, index)
       ELSE GoOn(TailStart, "tail")

\* One bit.  At the end, the vector search returns false, the other two true.
OneBit ==
    /\ pc = "tail"
    /\ IF at < searched.count
       THEN IF at \in searched.mem THEN Return(TRUE, at) ELSE GoOn(at + 1, "tail")
       ELSE Return(search # "vector", index)

SearchNext == Start \/ OneWord \/ OneGroup \/ EndOfWords \/ OneBit

SearchSpec == SearchInit /\ [][SearchNext]_searchVars /\ WF_searchVars(SearchNext)

-----------------------------------------------------------------------------
(* Properties *)

SearchTypeOK ==
    /\ search \in Searches
    /\ searched \in Map(SizeMax)
    /\ behind \subseteq Nat
    /\ at \in Nat
    /\ pc \in {"start", "words", "tail", "done"}
    /\ ret \in BOOLEAN
    /\ index \in Nat \cup {None}

\* Every search returns the least one of the map, whatever lies behind the map
\* in memory, and false only for a map without ones: a page's first free block,
\* and the pool's first free page, are what the code says they are.
FindsLeast ==
    pc = "done" =>
        /\ ret = (Ones(searched) # {})
        /\ index = FindFirst(searched)

\* Nothing below the loop's index was passed over: the loops agree on where
\* one ends and the next begins.
NothingSkipped ==
    /\ pc = "words" => \A b \in Ones(searched) : b >= at * Word
    /\ pc = "tail" => \A b \in Ones(searched) : b >= at

\* Every search ends: the steps of its loops reach the end they test for.
Ends == <>(pc = "done")

=============================================================================
