---------------------------- MODULE NumberFacts -----------------------------
(* Facts about sets of numbers, for the proofs. *)
EXTENDS Integers, FiniteSetsExt, FiniteSetTheorems, WellFoundedInduction, TLAPS

\* Min returns the least element of a nonempty set of naturals
\* (find_first_set_bit, the order in which get_free_block tries pages, the pool for
\* a size).
LEMMA MinIsLeast ==
  ASSUME NEW S \in SUBSET Nat, S # {}
  PROVE  Min(S) \in S /\ \A y \in S : Min(S) <= y
<1> DEFINE Less == {ss \in Nat \X Nat : ss[1] < ss[2]}
<1>1. IsWellFoundedOn(Less, Nat)
  BY NatLessThanWellFounded DEF OpToRel
<1>2. PICK x \in S : \A y \in S : ~(<<y, x>> \in Less)
  BY <1>1, WFMin
<1>3. ASSUME NEW y \in S
      PROVE  x <= y
  <2>1. <<y, x>> \in Nat \X Nat /\ <<y, x>>[1] = y /\ <<y, x>>[2] = x
    OBVIOUS
  <2>2. ~(y < x)
    BY <1>2, <2>1
  <2> QED
    BY <2>2
<1> QED
  BY <1>3 DEF Min

\* The smaller of two numbers.
LEMMA MinOfTwo ==
  ASSUME NEW a \in Nat, NEW b \in Nat
  PROVE  Min({a, b}) \in {a, b} /\ Min({a, b}) <= a /\ Min({a, b}) <= b
<1>1. {a, b} \in SUBSET Nat /\ {a, b} # {}
  OBVIOUS
<1>2. Min({a, b}) \in {a, b} /\ \A y \in {a, b} : Min({a, b}) <= y
  BY <1>1, MinIsLeast
<1> QED
  BY <1>2

\* And of three.
LEMMA MinOfThree ==
  ASSUME NEW a \in Nat, NEW b \in Nat, NEW c \in Nat
  PROVE  /\ Min({a, b, c}) \in {a, b, c}
         /\ Min({a, b, c}) <= a /\ Min({a, b, c}) <= b /\ Min({a, b, c}) <= c
<1>1. {a, b, c} \in SUBSET Nat /\ {a, b, c} # {}
  OBVIOUS
<1>2. Min({a, b, c}) \in {a, b, c} /\ \A y \in {a, b, c} : Min({a, b, c}) <= y
  BY <1>1, MinIsLeast
<1> QED
  BY <1>2

\* A size field keeps a size that it is wide enough for.
LEMMA SmallModulo ==
  ASSUME NEW n \in Nat, NEW w \in Nat, w > 0
  PROVE  n % w \in Nat /\ (n < w => n % w = n)
OBVIOUS

\* The numbers of a set that are below n: the ones of a bit map with n bits.
Below(S, n) == {i \in S : i < n}

\* There are at most n.
LEMMA BelowBounded ==
  ASSUME NEW S \in SUBSET Nat, NEW n \in Nat
  PROVE  /\ IsFiniteSet(Below(S, n)) /\ Cardinality(Below(S, n)) \in Nat
         /\ Cardinality(Below(S, n)) <= n
         /\ Cardinality(Below(S, n)) = n => Below(S, n) = 0 .. n - 1
         /\ Below(S, n) = {} <=> Cardinality(Below(S, n)) = 0
<1>1. Below(S, n) \subseteq 0 .. n - 1
  <2>1. SUFFICES ASSUME NEW i \in Below(S, n)
                 PROVE  i \in 0 .. n - 1
    OBVIOUS
  <2>2. i \in Nat /\ i < n
    BY DEF Below
  <2> QED
    BY <2>2
<1>2. IsFiniteSet(0 .. n - 1) /\ Cardinality(0 .. n - 1) = n
  <2>1. 0 \in Int /\ n - 1 \in Int
    OBVIOUS
  <2>2. /\ IsFiniteSet(0 .. n - 1)
        /\ Cardinality(0 .. n - 1) = IF 0 > n - 1 THEN 0 ELSE n - 1 - 0 + 1
    BY ONLY <2>1, FS_Interval
  <2> QED
    BY <2>2
<1>3. /\ IsFiniteSet(Below(S, n)) /\ Cardinality(Below(S, n)) <= n
      /\ Cardinality(Below(S, n)) = n => Below(S, n) = 0 .. n - 1
  BY <1>1, <1>2, FS_Subset
<1> QED
  BY <1>3, FS_CardinalityType, FS_EmptySet

\* All of them are n.
LEMMA BelowFull ==
  ASSUME NEW S, NEW n \in Nat, 0 .. n - 1 \subseteq S, S \subseteq Nat
  PROVE  Below(S, n) = 0 .. n - 1 /\ Cardinality(Below(S, n)) = n
<1>1. Below(S, n) = 0 .. n - 1
  <2>1. ASSUME NEW i \in Below(S, n)
        PROVE  i \in 0 .. n - 1
    <3>1. i \in Nat /\ i < n
      BY DEF Below
    <3> QED
      BY <3>1
  <2>2. ASSUME NEW i \in 0 .. n - 1
        PROVE  i \in Below(S, n)
    <3>1. i \in S /\ i < n
      OBVIOUS
    <3> QED
      BY <3>1 DEF Below
  <2> QED
    BY <2>1, <2>2
<1>2. 0 \in Int /\ n - 1 \in Int
  OBVIOUS
<1>3. Cardinality(0 .. n - 1) = IF 0 > n - 1 THEN 0 ELSE n - 1 - 0 + 1
  BY ONLY <1>2, FS_Interval
<1> QED
  BY <1>1, <1>3

\* One more.
LEMMA BelowWith ==
  ASSUME NEW S \in SUBSET Nat, NEW n \in Nat, NEW i \in 0 .. n - 1, i \notin S
  PROVE  /\ Below(S \cup {i}, n) = Below(S, n) \cup {i}
         /\ Cardinality(Below(S \cup {i}, n)) = Cardinality(Below(S, n)) + 1
         /\ Cardinality(Below(S, n)) < n
<1>1. Below(S \cup {i}, n) = Below(S, n) \cup {i} /\ i \notin Below(S, n)
  BY DEF Below
<1>2. /\ IsFiniteSet(Below(S, n)) /\ Cardinality(Below(S, n)) \in Nat
      /\ Cardinality(Below(S, n)) <= n /\ Cardinality(Below(S, n)) # n
  BY <1>1, BelowBounded
<1>3. Cardinality(Below(S, n) \cup {i}) = Cardinality(Below(S, n)) + 1
  BY <1>1, <1>2, FS_AddElement
<1> QED
  BY <1>1, <1>2, <1>3

\* One less.
LEMMA BelowWithout ==
  ASSUME NEW S \in SUBSET Nat, NEW n \in Nat, NEW i \in 0 .. n - 1, i \in S
  PROVE  /\ Below(S \ {i}, n) = Below(S, n) \ {i}
         /\ Cardinality(Below(S \ {i}, n)) = Cardinality(Below(S, n)) - 1
         /\ Cardinality(Below(S, n)) > 0
<1>1. Below(S \ {i}, n) = Below(S, n) \ {i} /\ i \in Below(S, n)
  BY DEF Below
<1>2. IsFiniteSet(Below(S, n)) /\ Cardinality(Below(S, n)) \in Nat
  BY BelowBounded
<1>3. Cardinality(Below(S, n) \ {i}) = Cardinality(Below(S, n)) - 1
  BY <1>1, <1>2, FS_RemoveElement
<1>4. Cardinality(Below(S, n) \ {i}) \in Nat
  BY <1>2, FS_RemoveElement, FS_CardinalityType
<1>5. Cardinality(Below(S, n)) > 0
  BY <1>2, <1>3, <1>4
<1> QED
  BY <1>1, <1>3, <1>5
=============================================================================
