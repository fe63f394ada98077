-------------------------- MODULE VmmManagerProofs --------------------------
(***************************************************************************)
(* What MCVmmManager checks for two threads and a few blocks, proved for   *)
(* any number of threads, pools and blocks: the lock, who has which block, *)
(* and that the manager keeps an allocator's promise.                      *)
(***************************************************************************)
EXTENDS VmmManager, NumberFacts

CallRecord ==
    [op : {"none", "alloc", "realloc", "free"}, pc : PC, ptr : AllBlocks \cup {Null},
     size : Sizes \cup {0}, was : Sizes \cup {0}, new : AllBlocks \cup {Null}]

\* Where a call of each kind may be, and what it has in its hands there.
CallInv == \A c \in Clients :
    LET k == call[c]
    IN  /\ k.op = "none" <=> k.pc = "idle"
        /\ k.op = "none" => k.ptr = Null /\ k.new = Null
        /\ k.op = "alloc" => k.ptr = Null /\ k.pc \in {"lock", "take", "default", "ret"}
        /\ k.op = "free" => k.ptr # Null /\ k.new = Null /\ k.pc \in {"enter", "free", "ret"}
        /\ k.op = "realloc" => k.ptr # Null /\ k.size # 0
        /\ k.pc \in {"enter", "lock", "resize", "take", "default"} => k.new = Null
        /\ k.pc \in {"lock", "take"} => k.size \in 1 .. MaxPooled
        /\ k.pc \in {"resize", "copy"} => k.op = "realloc"
        /\ k.pc = "default" => k.size # 0
        /\ k.op = "alloc" /\ k.size = 0 => k.new = Zero

\* Which thread has the lock, and how often.
LockInv ==
    /\ lock \in [owner : Clients \cup {Nobody}, depth : 0 .. 2]
    /\ lock.owner = Nobody <=> lock.depth = 0
    /\ \A c \in Clients :
        LET k == call[c]
            once == [owner |-> c, depth |-> 1]
        IN  /\ k.pc \in {"resize", "copy", "free"} => lock = once
            /\ k.pc = "take" =>
                   lock = [owner |-> c, depth |-> IF k.op = "alloc" THEN 1 ELSE 2]
            /\ k.pc \in {"lock", "default"} /\ k.op = "realloc" => lock = once
            /\ k.pc \in {"idle", "ret", "enter"} \/ (k.op = "alloc" /\ k.pc # "take")
                   => lock.owner # c

CallType == call \in [Clients -> CallRecord]

\* Every block of wanted size; a thread only asks for the sizes there are.
WantedType == wanted \in [AllBlocks -> Sizes \cup {0}]

MemType ==
    /\ pooled \in BOOLEAN
    /\ pools \subseteq Pools
    /\ free \in [Pools -> SUBSET (0 .. BlocksPerPool - 1)]
    /\ heap \in [DefaultBlocks -> {"none", "heap", "virtual", "corrupt"}]
    /\ hdr \in [AllBlocks -> Header]
    /\ data \in [AllBlocks -> [by : Clients \cup {Nobody}, len : Nat]]

HeldType == held \in [Clients -> SUBSET AllBlocks]

CallLockInv == CallType /\ WantedType /\ HeldType /\ CallInv /\ LockInv

-----------------------------------------------------------------------------
(* Steps of a call *)

\* Goto changes one field of one call.
LEMMA GotoFields ==
  ASSUME CallType, NEW c \in Clients, NEW pc \in PC, Goto(c, pc)
  PROVE  /\ CallType'
         /\ call'[c] = [op |-> call[c].op, pc |-> pc, ptr |-> call[c].ptr,
                        size |-> call[c].size, was |-> call[c].was, new |-> call[c].new]
         /\ \A d \in Clients : d # c => call'[d] = call[d]
BY DEF CallType, CallRecord, Goto

\* GotoWith changes two.
LEMMA GotoWithFields ==
  ASSUME CallType, NEW c \in Clients, NEW pc \in PC, NEW b \in AllBlocks \cup {Null},
         GotoWith(c, pc, b)
  PROVE  /\ CallType'
         /\ call'[c] = [op |-> call[c].op, pc |-> pc, ptr |-> call[c].ptr,
                        size |-> call[c].size, was |-> call[c].was, new |-> b]
         /\ \A d \in Clients : d # c => call'[d] = call[d]
BY DEF CallType, CallRecord, GotoWith

\* What the constants are.
LEMMA Constants ==
  /\ MaxPooled \in Nat \ {0} /\ Pools \subseteq Nat \ {0} /\ Len(Capacity) \in Pools
  /\ \A p \in Pools : Capacity[p] \in Nat \ {0}
  /\ Sizes \cup {0} \subseteq Nat
  /\ Null \notin AllBlocks /\ Nobody \notin Clients
  /\ Zero \in AllBlocks
BY ManagerAssumption DEF MaxPooled, Pools, AllBlocks

\* A size field is wide enough for every size a pool has.
LEMMA Widths ==
  /\ Wrap \in Nat /\ Wrap > 0 /\ MaxPooled < Wrap
  /\ \A p \in Pools : Capacity[p] <= MaxPooled
<1>1. MaxPooled \in Nat /\ Wrap \in Nat /\ VirtualMin \in Nat
      /\ MaxPooled < VirtualMin /\ VirtualMin < Wrap
  BY ManagerAssumption, Constants
<1>2. ASSUME NEW p \in Pools
      PROVE  Capacity[p] <= MaxPooled
  <2>1. Len(Capacity) \in Pools /\ p <= Len(Capacity) /\ p \in Nat /\ Len(Capacity) \in Nat
    BY Constants DEF Pools
  <2>2. CASE p = Len(Capacity)
    BY <1>1, <2>2 DEF MaxPooled
  <2>3. CASE p < Len(Capacity)
    <3>1. Capacity[p] < Capacity[Len(Capacity)]
      BY <2>1, <2>3, ManagerAssumption
    <3> QED
      BY <1>1, <2>1, <3>1, Constants DEF MaxPooled
  <2> QED
    BY <2>1, <2>2, <2>3
<1> QED
  BY <1>1, <1>2

\* alloc goes to a pool with sizes a pool has, and with no other.
LEMMA RouteOf ==
  ASSUME NEW n \in Sizes \cup {0}
  PROVE  IF n = 0 THEN Route(n) = "ret"
         ELSE Route(n) = "default" \/ (Route(n) = "lock" /\ n \in 1 .. MaxPooled)
<1>1. n \in Nat /\ MaxPooled \in Nat
  BY Constants
<1>2. CASE n = 0
  BY <1>2 DEF Route
<1>3. CASE n # 0 /\ (~pooled \/ n > MaxPooled)
  BY <1>1, <1>3 DEF Route
<1>4. CASE n # 0 /\ ~(~pooled \/ n > MaxPooled)
  <2>1. Route(n) = "lock"
    BY <1>4, <1>1 DEF Route
  <2> QED
    BY <1>1, <1>4, <2>1
<1> QED
  BY <1>2, <1>3, <1>4

\* How a call begins.
LEMMA BeginFields ==
  ASSUME CallType, WantedType, NEW c \in Clients, NEW op \in {"alloc", "realloc", "free"},
         NEW b \in AllBlocks \cup {Null}, NEW n \in Sizes \cup {0}, Begin(c, op, b, n)
  PROVE  /\ CallType'
         /\ call'[c].op = op /\ call'[c].ptr = b /\ call'[c].size = n
         /\ call'[c].pc = IF op = "alloc" THEN Route(n) ELSE "enter"
         /\ call'[c].new = IF op = "alloc" /\ n = 0 THEN Zero ELSE Null
         /\ call'[c].was = IF b = Null THEN 0 ELSE wanted[b]
         /\ \A d \in Clients : d # c => call'[d] = call[d]
<1> DEFINE was == IF b = Null THEN 0 ELSE wanted[b]
           pc == IF op = "alloc" THEN Route(n) ELSE "enter"
           new == IF op = "alloc" /\ n = 0 THEN Zero ELSE Null
<1>1. was \in Sizes \cup {0}
  BY DEF WantedType
<1>2. pc \in PC
  BY RouteOf DEF PC
<1>3. new \in AllBlocks \cup {Null}
  BY Constants
<1>4. call' = [call EXCEPT ![c] = [op |-> op, pc |-> pc, ptr |-> b, size |-> n,
                                   was |-> was, new |-> new]]
  BY DEF Begin, StartedCall
<1> HIDE DEF was, pc, new
<1>5. /\ CallType'
      /\ call'[c].op = op /\ call'[c].ptr = b /\ call'[c].size = n
      /\ call'[c].pc = pc
      /\ call'[c].new = new /\ call'[c].was = was
      /\ \A d \in Clients : d # c => call'[d] = call[d]
  BY <1>1, <1>2, <1>3, <1>4 DEF CallType, CallRecord
<1> QED
  BY <1>5 DEF pc, new, was

-----------------------------------------------------------------------------
(* The lock *)

\* A step of thread c that leaves the lock alone, or changes it for c alone.
LEMMA LockKept ==
  ASSUME LockInv, NEW c \in Clients,
         \A d \in Clients : d # c => call'[d] = call[d],
         lock' = lock \/ (lock.owner \in {Nobody, c} /\ lock'.owner \in {Nobody, c})
  PROVE  \A d \in Clients : d # c =>
           LET k == call[d]'
               once == [owner |-> d, depth |-> 1]
           IN  /\ k.pc \in {"resize", "copy", "free"} => lock' = once
               /\ k.pc = "take" =>
                      lock' = [owner |-> d, depth |-> IF k.op = "alloc" THEN 1 ELSE 2]
               /\ k.pc \in {"lock", "default"} /\ k.op = "realloc" => lock' = once
               /\ k.pc \in {"idle", "ret", "enter"} \/ (k.op = "alloc" /\ k.pc # "take")
                      => lock'.owner # d
BY Constants DEF LockInv

\* LeaveCriticalSection of the thread that has the lock.
LEMMA UnlockedOnce ==
  ASSUME NEW c \in Clients, lock = [owner |-> c, depth |-> 1]
  PROVE  Unlocked(c) = [owner |-> Nobody, depth |-> 0]
BY DEF Unlocked

\* ... and of one that has it twice.
LEMMA UnlockedTwice ==
  ASSUME NEW c \in Clients, lock = [owner |-> c, depth |-> 2]
  PROVE  Unlocked(c) = [owner |-> c, depth |-> 1]
BY DEF Unlocked

\* Every action keeps where the calls are and who has the lock: alloc begins ...
LEMMA StartAllocLock ==
  ASSUME CallLockInv, NEW c \in Clients, StartAlloc(c)
  PROVE  CallLockInv'
<1> USE DEF CallLockInv
<1>1. PICK n \in Sizes : Begin(c, "alloc", Null, n)
  BY DEF StartAlloc
<1>2. /\ CallType'
      /\ call'[c].op = "alloc" /\ call'[c].ptr = Null /\ call'[c].size = n
      /\ call'[c].pc = Route(n)
      /\ call'[c].new = IF n = 0 THEN Zero ELSE Null
      /\ \A d \in Clients : d # c => call'[d] = call[d]
  BY <1>1, BeginFields
<1>3. call[c].pc = "idle" /\ lock' = lock /\ UNCHANGED <<held, wanted>>
  BY <1>1 DEF Begin, At, StartAlloc
<1>4. IF n = 0 THEN Route(n) = "ret"
      ELSE Route(n) = "default" \/ (Route(n) = "lock" /\ n \in 1 .. MaxPooled)
  BY RouteOf
<1>5. CallInv'
  BY <1>2, <1>4 DEF CallInv
<1>6. LockInv'
  BY <1>2, <1>3, <1>4, LockKept DEF LockInv
<1> QED
  BY <1>2, <1>3, <1>5, <1>6 DEF WantedType, HeldType

\* ... realloc and free begin ...
LEMMA StartOtherLock ==
  ASSUME CallLockInv, NEW c \in Clients, StartRealloc(c) \/ StartFree(c)
  PROVE  CallLockInv'
<1> USE DEF CallLockInv
<1>1. PICK b \in held[c], op \in {"realloc", "free"}, n \in Sizes \cup {0} :
         /\ op = "realloc" => n # 0
         /\ Begin(c, op, b, n) /\ PassBack(c, b)
  BY DEF StartRealloc, StartFree
<1>2. b \in AllBlocks /\ b # Null
  BY Constants DEF HeldType
<1>3. /\ CallType'
      /\ call'[c].op = op /\ call'[c].ptr = b /\ call'[c].size = n
      /\ call'[c].pc = "enter"
      /\ call'[c].new = Null
      /\ \A d \in Clients : d # c => call'[d] = call[d]
  BY <1>1, <1>2, BeginFields
<1>4. call[c].pc = "idle" /\ lock' = lock
  BY <1>1 DEF Begin, At
<1>5. CallInv'
  BY <1>1, <1>2, <1>3 DEF CallInv
<1>6. LockInv'
  BY <1>3, <1>4, LockKept DEF LockInv
<1>7. WantedType' /\ HeldType'
  BY <1>1, <1>2 DEF PassBack, WantedType, HeldType
<1> QED
  BY <1>3, <1>5, <1>6, <1>7

\* ... the lock is entered by realloc and free ...
LEMMA EnterCallLock ==
  ASSUME CallLockInv, NEW c \in Clients, EnterCall(c)
  PROVE  CallLockInv'
<1> USE DEF CallLockInv
<1> DEFINE pc == IF call[c].op = "free" THEN "free" ELSE "resize"
<1>1. call[c].pc = "enter" /\ Acquire(c) /\ Goto(c, pc)
  BY DEF EnterCall, At
<1>2. pc \in {"free", "resize"} /\ pc \in PC
  BY DEF PC
<1>3. /\ CallType'
      /\ call'[c] = [op |-> call[c].op, pc |-> pc, ptr |-> call[c].ptr,
                     size |-> call[c].size, was |-> call[c].was, new |-> call[c].new]
      /\ \A d \in Clients : d # c => call'[d] = call[d]
  BY <1>1, <1>2, GotoFields
<1>4. call[c].op \in {"realloc", "free"} /\ call[c].new = Null
  BY <1>1 DEF CallInv, CallType, CallRecord
<1>5. CallInv'
  BY <1>1, <1>3, <1>4 DEF CallInv
<1>6. /\ lock.owner \in {Nobody, c} /\ lock' = [owner |-> c, depth |-> lock.depth + 1]
      /\ UNCHANGED <<held, wanted>>
  BY <1>1 DEF Acquire
<1>7. lock' = [owner |-> c, depth |-> 1]
  BY <1>1, <1>6 DEF LockInv
<1>8. LockInv'
  BY <1>2, <1>3, <1>4, <1>6, <1>7, LockKept, Constants DEF LockInv
<1> QED
  BY <1>3, <1>5, <1>6, <1>8 DEF WantedType, HeldType

\* ... and by alloc, for the first or the second time ...
LEMMA EnterAllocLock ==
  ASSUME CallLockInv, NEW c \in Clients, EnterAlloc(c)
  PROVE  CallLockInv'
<1> USE DEF CallLockInv
<1>1. call[c].pc = "lock" /\ Acquire(c) /\ Goto(c, "take") /\ "take" \in PC
  BY DEF EnterAlloc, At, PC
<1>2. /\ CallType'
      /\ call'[c] = [op |-> call[c].op, pc |-> "take", ptr |-> call[c].ptr,
                     size |-> call[c].size, was |-> call[c].was, new |-> call[c].new]
      /\ \A d \in Clients : d # c => call'[d] = call[d]
  BY <1>1, GotoFields
<1>3. call[c].op \in {"alloc", "realloc"} /\ call[c].new = Null
  BY <1>1 DEF CallInv, CallType, CallRecord
<1>4. CallInv'
  BY <1>1, <1>2, <1>3 DEF CallInv
<1>5. /\ lock.owner \in {Nobody, c} /\ lock' = [owner |-> c, depth |-> lock.depth + 1]
      /\ UNCHANGED <<held, wanted>>
  BY <1>1 DEF Acquire
<1>6. lock' = [owner |-> c, depth |-> IF call[c].op = "alloc" THEN 1 ELSE 2]
  BY <1>1, <1>3, <1>5 DEF LockInv
<1>7. LockInv'
  BY <1>2, <1>3, <1>5, <1>6, LockKept, Constants DEF LockInv
<1> QED
  BY <1>2, <1>4, <1>5, <1>7 DEF WantedType, HeldType

\* The pool that Take asks has blocks of the size.
LEMMA PoolForSize ==
  ASSUME NEW n \in 1 .. MaxPooled
  PROVE  PoolFor(n) \in Pools /\ n <= Capacity[PoolFor(n)]
<1> DEFINE S == {p \in Pools : n <= Capacity[p]}
<1>1. n <= Capacity[Len(Capacity)] /\ Len(Capacity) \in Pools
  BY Constants DEF MaxPooled
<1>2. S \in SUBSET Nat /\ S # {}
  BY <1>1, Constants
<1>3. Min(S) \in S
  BY <1>2, MinIsLeast
<1> QED
  BY <1>3 DEF PoolFor

\* What Take does to the call: the block it found, or on to a block of its own.
LEMMA TakeFields ==
  ASSUME CallLockInv, MemType, NEW c \in Clients, Take(c)
  PROVE  /\ CallType'
         /\ call[c].pc = "take" /\ call[c].op \in {"alloc", "realloc"}
         /\ \/ \E k \in free[PoolFor(call[c].size)] :
                 /\ <<PoolFor(call[c].size), k>> \in PoolBlocks
                 /\ free' = Taken(PoolFor(call[c].size), k)
                 /\ hdr' = [hdr EXCEPT ![<<PoolFor(call[c].size), k>>] =
                               PoolHeader(PoolFor(call[c].size), k, call[c].size)]
                 /\ call'[c] = [op |-> call[c].op, pc |-> AfterAlloc(c), ptr |-> call[c].ptr,
                                size |-> call[c].size, was |-> call[c].was,
                                new |-> <<PoolFor(call[c].size), k>>]
            \/ /\ call'[c] = [op |-> call[c].op, pc |-> "default", ptr |-> call[c].ptr,
                              size |-> call[c].size, was |-> call[c].was, new |-> call[c].new]
               /\ UNCHANGED <<free, hdr>>
         /\ \A d \in Clients : d # c => call'[d] = call[d]
<1> USE DEF CallLockInv
<1> DEFINE p == PoolFor(call[c].size)
<1>1. call[c].pc = "take" /\ call[c].op \in {"alloc", "realloc"}
  BY DEF Take, At, CallInv, CallType, CallRecord
<1>2. p \in Pools
  BY <1>1, PoolForSize DEF CallInv
<1>3. AfterAlloc(c) \in PC /\ "default" \in PC
  BY DEF AfterAlloc, PC
<1> HIDE DEF p
<1>4. CASE Goto(c, "default") /\ UNCHANGED <<free, hdr>>
  <2>1. /\ CallType'
        /\ call'[c] = [op |-> call[c].op, pc |-> "default", ptr |-> call[c].ptr,
                       size |-> call[c].size, was |-> call[c].was, new |-> call[c].new]
        /\ \A d \in Clients : d # c => call'[d] = call[d]
    BY <1>3, <1>4, GotoFields
  <2> QED
    BY <1>1, <1>4, <2>1
<1>5. ASSUME NEW k \in free[p],
             free' = Taken(p, k),
             hdr' = [hdr EXCEPT ![<<p, k>>] = PoolHeader(p, k, call[c].size)],
             GotoWith(c, AfterAlloc(c), <<p, k>>)
      PROVE  /\ CallType' /\ <<p, k>> \in PoolBlocks
             /\ call'[c] = [op |-> call[c].op, pc |-> AfterAlloc(c), ptr |-> call[c].ptr,
                            size |-> call[c].size, was |-> call[c].was, new |-> <<p, k>>]
             /\ \A d \in Clients : d # c => call'[d] = call[d]
  <2>1. k \in 0 .. BlocksPerPool - 1
    BY <1>2 DEF MemType
  <2>2. <<p, k>> \in PoolBlocks /\ <<p, k>> \in AllBlocks
    BY <1>2, <2>1 DEF PoolBlocks, AllBlocks
  <2>3. <<p, k>> \in AllBlocks \cup {Null}
    BY <2>2
  <2>4. /\ CallType'
        /\ call'[c] = [op |-> call[c].op, pc |-> AfterAlloc(c), ptr |-> call[c].ptr,
                       size |-> call[c].size, was |-> call[c].was, new |-> <<p, k>>]
        /\ \A d \in Clients : d # c => call'[d] = call[d]
    BY ONLY <2>3, <1>3, <1>5, CallType, c \in Clients, GotoWithFields
  <2> QED
    BY <2>2, <2>4
<1> QED
  BY <1>1, <1>4, <1>5 DEF Take, p

\* ... a pool is asked, and the lock left once ...
LEMMA TakeLock ==
  ASSUME CallLockInv, MemType, NEW c \in Clients, Take(c)
  PROVE  CallLockInv'
<1> USE DEF CallLockInv
<1>1. /\ CallType'
      /\ call[c].pc = "take" /\ call[c].op \in {"alloc", "realloc"}
      /\ \/ \E b \in PoolBlocks :
              call'[c] = [op |-> call[c].op, pc |-> AfterAlloc(c), ptr |-> call[c].ptr,
                          size |-> call[c].size, was |-> call[c].was, new |-> b]
         \/ call'[c] = [op |-> call[c].op, pc |-> "default", ptr |-> call[c].ptr,
                        size |-> call[c].size, was |-> call[c].was, new |-> call[c].new]
      /\ \A d \in Clients : d # c => call'[d] = call[d]
  BY TakeFields
<1>2. /\ call'[c].op = call[c].op /\ call'[c].ptr = call[c].ptr
      /\ call'[c].size = call[c].size
      /\ \/ call'[c].pc = IF call[c].op = "alloc" THEN "ret" ELSE "copy"
         \/ call'[c].pc = "default" /\ call'[c].new = call[c].new
  <2>1. ASSUME NEW b \in PoolBlocks,
               call'[c] = [op |-> call[c].op, pc |-> AfterAlloc(c), ptr |-> call[c].ptr,
                           size |-> call[c].size, was |-> call[c].was, new |-> b]
        PROVE  /\ call'[c].op = call[c].op /\ call'[c].ptr = call[c].ptr
               /\ call'[c].size = call[c].size
               /\ call'[c].pc = IF call[c].op = "alloc" THEN "ret" ELSE "copy"
    BY <2>1 DEF AfterAlloc
  <2>2. ASSUME call'[c] = [op |-> call[c].op, pc |-> "default", ptr |-> call[c].ptr,
                           size |-> call[c].size, was |-> call[c].was, new |-> call[c].new]
        PROVE  /\ call'[c].op = call[c].op /\ call'[c].ptr = call[c].ptr
               /\ call'[c].size = call[c].size
               /\ call'[c].pc = "default" /\ call'[c].new = call[c].new
    BY <2>2
  <2> QED
    BY <1>1, <2>1, <2>2
<1>3. CallInv'
  BY <1>1, <1>2 DEF CallInv
<1>4. lock' = Unlocked(c) /\ UNCHANGED <<held, wanted>>
  BY DEF Take
<1>5. CASE call[c].op = "alloc"
  <2>1. lock = [owner |-> c, depth |-> 1]
    BY <1>1, <1>5 DEF LockInv
  <2>2. lock' = [owner |-> Nobody, depth |-> 0]
    BY <1>4, <2>1, UnlockedOnce
  <2>3. LockInv'
    BY <1>1, <1>2, <1>5, <2>1, <2>2, LockKept, Constants DEF LockInv
  <2> QED
    BY <1>1, <1>3, <1>4, <2>3 DEF WantedType, HeldType
<1>6. CASE call[c].op = "realloc"
  <2>1. lock = [owner |-> c, depth |-> 2]
    BY <1>1, <1>6 DEF LockInv
  <2>2. lock' = [owner |-> c, depth |-> 1]
    BY <1>4, <2>1, UnlockedTwice
  <2>3. LockInv'
    BY <1>1, <1>2, <1>6, <2>1, <2>2, LockKept, Constants DEF LockInv
  <2> QED
    BY <1>1, <1>3, <1>4, <2>3 DEF WantedType, HeldType
<1> QED
  BY <1>1, <1>5, <1>6

\* What AllocDefault does to the call.
LEMMA AllocDefaultFields ==
  ASSUME CallLockInv, NEW c \in Clients, AllocDefault(c)
  PROVE  /\ CallType'
         /\ call[c].pc = "default" /\ call[c].op \in {"alloc", "realloc"}
         /\ \E b \in DefaultBlocks \cup {Null} :
               /\ b # Null =>
                    /\ heap[b] = "none"
                    /\ heap' = [heap EXCEPT ![b] =
                                   IF call[c].size >= VirtualMin THEN "virtual" ELSE "heap"]
                    /\ hdr' = [hdr EXCEPT ![b] = DefaultHeader(call[c].size)]
               /\ b = Null => UNCHANGED <<heap, hdr>>
               /\ call'[c] = [op |-> call[c].op, pc |-> AfterAlloc(c), ptr |-> call[c].ptr,
                              size |-> call[c].size, was |-> call[c].was, new |-> b]
         /\ \A d \in Clients : d # c => call'[d] = call[d]
<1> USE DEF CallLockInv
<1>1. call[c].pc = "default" /\ call[c].op \in {"alloc", "realloc"}
  BY DEF AllocDefault, At, CallInv, CallType, CallRecord
<1>2. AfterAlloc(c) \in PC
  BY DEF AfterAlloc, PC
<1>3. Null \notin DefaultBlocks /\ DefaultBlocks \subseteq AllBlocks
  BY Constants DEF AllBlocks
<1>4. PICK b \in DefaultBlocks \cup {Null} :
        /\ GotoWith(c, AfterAlloc(c), b)
        /\ b # Null =>
             /\ heap[b] = "none"
             /\ heap' = [heap EXCEPT ![b] =
                            IF call[c].size >= VirtualMin THEN "virtual" ELSE "heap"]
             /\ hdr' = [hdr EXCEPT ![b] = DefaultHeader(call[c].size)]
        /\ b = Null => UNCHANGED <<heap, hdr>>
  BY <1>3 DEF AllocDefault
<1>5. b \in AllBlocks \cup {Null}
  BY <1>3
<1>6. /\ CallType'
      /\ call'[c] = [op |-> call[c].op, pc |-> AfterAlloc(c), ptr |-> call[c].ptr,
                     size |-> call[c].size, was |-> call[c].was, new |-> b]
      /\ \A d \in Clients : d # c => call'[d] = call[d]
  BY <1>2, <1>4, <1>5, GotoWithFields
<1> QED
  BY <1>1, <1>4, <1>6

\* ... a block is allocated by itself ...
LEMMA AllocDefaultLock ==
  ASSUME CallLockInv, NEW c \in Clients, AllocDefault(c)
  PROVE  CallLockInv'
<1> USE DEF CallLockInv
<1>1. /\ CallType'
      /\ call[c].pc = "default" /\ call[c].op \in {"alloc", "realloc"}
      /\ \E b \in DefaultBlocks \cup {Null} :
              call'[c] = [op |-> call[c].op, pc |-> AfterAlloc(c), ptr |-> call[c].ptr,
                          size |-> call[c].size, was |-> call[c].was, new |-> b]
      /\ \A d \in Clients : d # c => call'[d] = call[d]
  BY AllocDefaultFields
<1>2. /\ call'[c].op = call[c].op /\ call'[c].ptr = call[c].ptr
      /\ call'[c].size = call[c].size
      /\ call'[c].pc = IF call[c].op = "alloc" THEN "ret" ELSE "copy"
  BY <1>1 DEF AfterAlloc
<1>3. CallInv'
  BY <1>1, <1>2 DEF CallInv
<1>4. UNCHANGED <<lock, held, wanted>>
  BY DEF AllocDefault
<1>5. LockInv'
  BY <1>1, <1>2, <1>4, LockKept DEF LockInv
<1> QED
  BY <1>1, <1>3, <1>4, <1>5 DEF WantedType, HeldType

\* ... realloc keeps the block, or calls alloc with the lock held ...
LEMMA ResizeLock ==
  ASSUME CallLockInv, NEW c \in Clients, ResizeInPlace(c) \/ ResizeByMove(c)
  PROVE  CallLockInv'
<1> USE DEF CallLockInv
<1>1. /\ call[c].pc = "resize" /\ call[c].op = "realloc"
      /\ call[c].ptr # Null /\ call[c].size # 0
      /\ lock = [owner |-> c, depth |-> 1]
      /\ call[c].ptr \in AllBlocks \cup {Null} /\ call[c].size \in Sizes \cup {0}
  BY DEF ResizeInPlace, ResizeByMove, At, CallInv, LockInv, CallType, CallRecord
<1>2. UNCHANGED <<held, wanted>>
  BY DEF ResizeInPlace, ResizeByMove
<1>3. CASE ResizeInPlace(c)
  <2>1. GotoWith(c, "ret", call[c].ptr) /\ lock' = Unlocked(c) /\ "ret" \in PC
    BY <1>3 DEF ResizeInPlace, PC
  <2>2. /\ CallType'
        /\ call'[c] = [op |-> call[c].op, pc |-> "ret", ptr |-> call[c].ptr,
                       size |-> call[c].size, was |-> call[c].was, new |-> call[c].ptr]
        /\ \A d \in Clients : d # c => call'[d] = call[d]
    BY <1>1, <2>1, GotoWithFields
  <2>3. CallInv'
    BY <1>1, <2>2 DEF CallInv
  <2>4. lock' = [owner |-> Nobody, depth |-> 0]
    BY <1>1, <2>1, UnlockedOnce
  <2>5. LockInv'
    BY <1>1, <2>2, <2>4, LockKept, Constants DEF LockInv
  <2> QED
    BY <1>2, <2>2, <2>3, <2>5 DEF WantedType, HeldType
<1>4. CASE ResizeByMove(c)
  <2> DEFINE pc == Route(call[c].size)
  <2>1. pc = "default" \/ (pc = "lock" /\ call[c].size \in 1 .. MaxPooled)
    BY <1>1, RouteOf
  <2>2. Goto(c, pc) /\ lock' = lock /\ pc \in PC
    BY <1>4, <2>1 DEF ResizeByMove, PC
  <2> HIDE DEF pc
  <2>3. /\ CallType'
        /\ call'[c] = [op |-> call[c].op, pc |-> pc, ptr |-> call[c].ptr,
                       size |-> call[c].size, was |-> call[c].was, new |-> call[c].new]
        /\ \A d \in Clients : d # c => call'[d] = call[d]
    BY <2>2, GotoFields
  <2>4. CallInv'
    BY <1>1, <2>1, <2>3 DEF CallInv
  <2>5. LockInv'
    BY <1>1, <2>1, <2>2, <2>3, LockKept DEF LockInv
  <2> QED
    BY <1>2, <2>3, <2>4, <2>5 DEF WantedType, HeldType
<1> QED
  BY <1>3, <1>4

\* ... copies ...
LEMMA CopyLock ==
  ASSUME CallLockInv, NEW c \in Clients, Copy(c)
  PROVE  CallLockInv'
<1> USE DEF CallLockInv
<1>1. call[c].pc = "copy" /\ call[c].op = "realloc" /\ Goto(c, "free") /\ "free" \in PC
  BY DEF Copy, At, CallInv, PC
<1>2. /\ CallType'
      /\ call'[c] = [op |-> call[c].op, pc |-> "free", ptr |-> call[c].ptr,
                     size |-> call[c].size, was |-> call[c].was, new |-> call[c].new]
      /\ \A d \in Clients : d # c => call'[d] = call[d]
  BY <1>1, GotoFields
<1>3. UNCHANGED <<lock, held, wanted>>
  BY DEF Copy
<1>4. CallInv'
  BY <1>1, <1>2 DEF CallInv
<1>5. LockInv'
  BY <1>1, <1>2, <1>3, LockKept DEF LockInv
<1> QED
  BY <1>2, <1>3, <1>4, <1>5 DEF WantedType, HeldType

\* ... frees and leaves the lock ...
LEMMA FreeLock ==
  ASSUME CallLockInv, NEW c \in Clients, Free(c)
  PROVE  CallLockInv'
<1> USE DEF CallLockInv
<1>1. /\ call[c].pc = "free" /\ call[c].op \in {"free", "realloc"}
      /\ Goto(c, "ret") /\ "ret" \in PC
      /\ lock = [owner |-> c, depth |-> 1]
  BY DEF Free, At, CallInv, PC, LockInv, CallType, CallRecord
<1>2. /\ CallType'
      /\ call'[c] = [op |-> call[c].op, pc |-> "ret", ptr |-> call[c].ptr,
                     size |-> call[c].size, was |-> call[c].was, new |-> call[c].new]
      /\ \A d \in Clients : d # c => call'[d] = call[d]
  BY <1>1, GotoFields
<1>3. lock' = Unlocked(c) /\ UNCHANGED <<held, wanted>>
  BY DEF Free
<1>4. CallInv'
  BY <1>1, <1>2 DEF CallInv
<1>5. lock' = [owner |-> Nobody, depth |-> 0]
  BY <1>1, <1>3, UnlockedOnce
<1>6. LockInv'
  BY <1>1, <1>2, <1>5, LockKept, Constants DEF LockInv
<1> QED
  BY <1>2, <1>3, <1>4, <1>6 DEF WantedType, HeldType

\* ... and the call returns.
LEMMA ReturnLock ==
  ASSUME CallLockInv, NEW c \in Clients, Return(c)
  PROVE  CallLockInv'
<1> USE DEF CallLockInv
<1>1. call[c].pc = "ret" /\ call' = [call EXCEPT ![c] = NoCall] /\ lock' = lock
  BY DEF Return, At
<1>2. /\ CallType'
      /\ call'[c] = NoCall
      /\ \A d \in Clients : d # c => call'[d] = call[d]
  BY <1>1 DEF CallType, CallRecord, NoCall, PC
<1>3. CallInv'
  BY <1>2 DEF CallInv, NoCall
<1>4. LockInv'
  BY <1>1, <1>2, LockKept DEF LockInv, NoCall
<1>5. call[c].new \in AllBlocks \cup {Null} /\ call[c].size \in Sizes \cup {0}
  BY DEF CallType, CallRecord
<1>6. WantedType' /\ HeldType'
  BY <1>5 DEF Return, WantedType, HeldType
<1> QED
  BY <1>2, <1>3, <1>4, <1>6

-----------------------------------------------------------------------------
(* Who has which block *)

Real == PoolBlocks \cup DefaultBlocks

\* A block has at most one owner, which has it in one way; a pool's block is free or
\* has an owner; a block that was not allocated has none.
OwnInv ==
    /\ \A c, d \in Clients, b \in Real : Owned(c, b) /\ Owned(d, b) => c = d
    /\ \A c \in Clients, b \in Real : b \in held[c] => ~InCall(c, b)
    /\ BlocksAccounted
    /\ \A b \in DefaultBlocks : heap[b] = "none" => \A c \in Clients : ~Owned(c, b)
    /\ \A c \in Clients :
          call[c].pc # "ret" /\ call[c].new # Null => call[c].new # call[c].ptr

\* The blocks of pools, those allocated by themselves and the one of size zero differ.
LEMMA BlockSets ==
  /\ Zero \notin Real /\ Null \notin Real
  /\ AllBlocks = Real \cup {Zero}
  /\ PoolBlocks \cap DefaultBlocks = {}
  /\ \A b \in PoolBlocks : b = <<b[1], b[2]>> /\ b[1] \in Pools /\ b[2] \in 0 .. BlocksPerPool - 1
<1>1. \A b \in PoolBlocks : b = <<b[1], b[2]>> /\ b[1] \in Pools /\ b[2] \in 0 .. BlocksPerPool - 1
  BY DEF PoolBlocks
<1>2. \A b \in DefaultBlocks : b[1] = 0 /\ b[2] \in 1 .. HeapBlocks
  BY DEF DefaultBlocks
<1>3. Zero[1] = 0 /\ Zero[2] = 0
  BY DEF Zero
<1>4. \A p \in Pools : p # 0
  BY Constants
<1>5. Zero \notin Real
  BY <1>1, <1>2, <1>3, <1>4 DEF Real
<1>6. PoolBlocks \cap DefaultBlocks = {}
  BY <1>1, <1>2, <1>4
<1> QED
  BY <1>1, <1>5, <1>6, Constants DEF Real, AllBlocks

\* A step that leaves every block with its owner, in pools and in memory.
LEMMA OwnersKept ==
  ASSUME OwnInv, UNCHANGED <<free, heap>>,
         \A d \in Clients, b \in Real : Owned(d, b)' <=> Owned(d, b),
         (\A d \in Clients, b \in Real : b \in held[d] => ~InCall(d, b))',
         (\A d \in Clients :
            call[d].pc # "ret" /\ call[d].new # Null => call[d].new # call[d].ptr)'
  PROVE  OwnInv'
<1>1. PoolBlocks \subseteq Real /\ DefaultBlocks \subseteq Real
  BY DEF Real
<1>2. (\A b \in DefaultBlocks : heap[b] = "none" => \A c \in Clients : ~Owned(c, b))'
  BY <1>1 DEF OwnInv
<1>3. BlocksAccounted'
  BY <1>1 DEF OwnInv, BlocksAccounted
<1>4. (\A c, d \in Clients, b \in Real : Owned(c, b) /\ Owned(d, b) => c = d)'
  BY DEF OwnInv
<1> QED
  BY <1>2, <1>3, <1>4 DEF OwnInv

\* A step in the middle of a call.
LEMMA AdvanceOwn ==
  ASSUME OwnInv, NEW c \in Clients, NEW pc, pc # "ret", call[c].pc # "ret",
         call'[c] = [op |-> call[c].op, pc |-> pc, ptr |-> call[c].ptr,
                     size |-> call[c].size, was |-> call[c].was, new |-> call[c].new],
         \A d \in Clients : d # c => call'[d] = call[d],
         UNCHANGED <<free, heap, held>>
  PROVE  OwnInv'
<1>1. /\ call'[c].pc # "ret" /\ call'[c].ptr = call[c].ptr /\ call'[c].new = call[c].new
      /\ \A d \in Clients : d # c => call'[d] = call[d]
      /\ UNCHANGED <<free, heap, held>>
  OBVIOUS
<1>2. \A d \in Clients, b \in Real : InCall(d, b)' <=> InCall(d, b)
  BY <1>1 DEF InCall, At
<1>3. \A d \in Clients, b \in Real : Owned(d, b)' <=> Owned(d, b)
  BY <1>1, <1>2 DEF Owned
<1>4. (\A d \in Clients, b \in Real : b \in held[d] => ~InCall(d, b))'
  BY <1>1, <1>2 DEF OwnInv
<1>5. (\A d \in Clients :
         call[d].pc # "ret" /\ call[d].new # Null => call[d].new # call[d].ptr)'
  BY <1>1 DEF OwnInv
<1> QED
  BY <1>1, <1>3, <1>4, <1>5, OwnersKept

\* Every action keeps the owners: alloc begins with no block ...
LEMMA StartAllocOwn ==
  ASSUME CallLockInv, OwnInv, NEW c \in Clients, StartAlloc(c)
  PROVE  OwnInv'
<1> USE DEF CallLockInv
<1>1. PICK n \in Sizes : Begin(c, "alloc", Null, n)
  BY DEF StartAlloc
<1>2. /\ call'[c].ptr = Null /\ call'[c].new \in {Zero, Null}
      /\ \A d \in Clients : d # c => call'[d] = call[d]
  BY <1>1, BeginFields
<1>3. call[c].ptr = Null /\ call[c].new = Null /\ UNCHANGED <<held, free, heap>>
  BY <1>1 DEF Begin, At, StartAlloc, CallInv, memVars
<1>4. \A d \in Clients, b \in Real : InCall(d, b)' <=> InCall(d, b)
  BY <1>2, <1>3, BlockSets DEF InCall, At
<1>5. \A d \in Clients, b \in Real : Owned(d, b)' <=> Owned(d, b)
  BY <1>3, <1>4 DEF Owned
<1>6. (\A d \in Clients, b \in Real : b \in held[d] => ~InCall(d, b))'
  BY <1>3, <1>4 DEF OwnInv
<1>7. (\A d \in Clients :
         call[d].pc # "ret" /\ call[d].new # Null => call[d].new # call[d].ptr)'
  BY <1>2, Constants DEF OwnInv
<1> QED
  BY <1>3, <1>5, <1>6, <1>7, OwnersKept

\* ... realloc and free take over the block they are passed ...
LEMMA StartOtherOwn ==
  ASSUME CallLockInv, OwnInv, NEW c \in Clients, StartRealloc(c) \/ StartFree(c)
  PROVE  OwnInv'
<1> USE DEF CallLockInv
<1>1. PICK b \in held[c], op \in {"realloc", "free"}, n \in Sizes \cup {0} :
         Begin(c, op, b, n) /\ PassBack(c, b)
  BY DEF StartRealloc, StartFree
<1>2. b \in AllBlocks
  BY DEF HeldType
<1>3. /\ call'[c].ptr = b /\ call'[c].pc = "enter" /\ call'[c].new = Null
      /\ \A d \in Clients : d # c => call'[d] = call[d]
  BY <1>1, <1>2, BeginFields
<1>4. /\ call[c].ptr = Null /\ call[c].new = Null /\ UNCHANGED <<free, heap>>
      /\ held' = [held EXCEPT ![c] = @ \ {b}]
  BY <1>1 DEF Begin, At, CallInv, memVars, PassBack
<1>5. /\ held'[c] = held[c] \ {b}
      /\ \A d \in Clients : d # c => held'[d] = held[d]
  BY <1>4 DEF HeldType
<1>6. \A x \in Real : /\ InCall(c, x)' <=> x = b
                     /\ ~InCall(c, x)
  BY <1>3, <1>4, BlockSets DEF InCall, At
<1>7. \A d \in Clients, x \in Real : d # c => (InCall(d, x)' <=> InCall(d, x))
  BY <1>3 DEF InCall, At
<1>8. \A d \in Clients, x \in Real : Owned(d, x)' <=> Owned(d, x)
  BY <1>1, <1>5, <1>6, <1>7 DEF Owned
<1>9. (\A d \in Clients, x \in Real : x \in held[d] => ~InCall(d, x))'
  BY <1>5, <1>6, <1>7 DEF OwnInv
<1>10. (\A d \in Clients :
         call[d].pc # "ret" /\ call[d].new # Null => call[d].new # call[d].ptr)'
  BY <1>3 DEF OwnInv
<1> QED
  BY <1>4, <1>8, <1>9, <1>10, OwnersKept

\* ... the block that realloc keeps is the one it was passed ...
LEMMA ResizeInPlaceOwn ==
  ASSUME CallLockInv, OwnInv, NEW c \in Clients, ResizeInPlace(c)
  PROVE  OwnInv'
<1> USE DEF CallLockInv
<1>1. /\ call[c].pc = "resize" /\ call[c].new = Null
      /\ call[c].ptr \in AllBlocks \cup {Null}
      /\ GotoWith(c, "ret", call[c].ptr) /\ "ret" \in PC
      /\ UNCHANGED <<free, heap, held>>
  BY DEF ResizeInPlace, At, CallInv, PC, CallType, CallRecord
<1>2. /\ call'[c].ptr = call[c].ptr /\ call'[c].new = call[c].ptr /\ call'[c].pc = "ret"
      /\ \A d \in Clients : d # c => call'[d] = call[d]
  <2>1. /\ call'[c] = [op |-> call[c].op, pc |-> "ret", ptr |-> call[c].ptr,
                       size |-> call[c].size, was |-> call[c].was, new |-> call[c].ptr]
        /\ \A d \in Clients : d # c => call'[d] = call[d]
    BY <1>1, GotoWithFields
  <2> QED
    BY <2>1
<1>3. \A d \in Clients, b \in Real : InCall(d, b)' <=> InCall(d, b)
  BY <1>1, <1>2, BlockSets DEF InCall, At
<1>4. \A d \in Clients, b \in Real : Owned(d, b)' <=> Owned(d, b)
  BY <1>1, <1>3 DEF Owned
<1>5. (\A d \in Clients, b \in Real : b \in held[d] => ~InCall(d, b))'
  BY <1>1, <1>3 DEF OwnInv
<1>6. (\A d \in Clients :
         call[d].pc # "ret" /\ call[d].new # Null => call[d].new # call[d].ptr)'
  BY <1>2 DEF OwnInv
<1> QED
  BY <1>1, <1>4, <1>5, <1>6, OwnersKept

\* A call gets a block that nobody has.
LEMMA GetBlock ==
  ASSUME CallLockInv, OwnInv, NEW c \in Clients, NEW b \in Real,
         \A d \in Clients : ~Owned(d, b),
         call[c].pc # "ret", call[c].new = Null,
         call'[c].new = b, call'[c].ptr = call[c].ptr,
         call'[c].pc = "ret" => call[c].ptr = Null,
         \A d \in Clients : d # c => call'[d] = call[d],
         UNCHANGED held
  PROVE  /\ \A d \in Clients, x \in Real :
               Owned(d, x)' <=> (Owned(d, x) \/ (d = c /\ x = b))
         /\ (\A d \in Clients, x \in Real : x \in held[d] => ~InCall(d, x))'
         /\ (\A d \in Clients :
               call[d].pc # "ret" /\ call[d].new # Null => call[d].new # call[d].ptr)'
<1>1. \A x \in Real : InCall(c, x)' <=> (InCall(c, x) \/ x = b)
  BY BlockSets DEF InCall, At
<1>2. \A d \in Clients, x \in Real : d # c => (InCall(d, x)' <=> InCall(d, x))
  BY DEF InCall, At
<1>3. \A d \in Clients, x \in Real :
         Owned(d, x)' <=> (Owned(d, x) \/ (d = c /\ x = b))
  BY <1>1, <1>2 DEF Owned
<1>4. (\A d \in Clients, x \in Real : x \in held[d] => ~InCall(d, x))'
  BY <1>1, <1>2 DEF OwnInv, Owned
<1>5. call[c].ptr # b
  BY DEF Owned, InCall, At
<1>6. (\A d \in Clients :
         call[d].pc # "ret" /\ call[d].new # Null => call[d].new # call[d].ptr)'
  BY <1>5 DEF OwnInv
<1> QED
  BY <1>3, <1>4, <1>6

\* The block that a pool gives had no owner ...
LEMMA TakeOwn ==
  ASSUME CallLockInv, MemType, OwnInv, NEW c \in Clients, Take(c)
  PROVE  OwnInv'
<1> USE DEF CallLockInv
<1> DEFINE p == PoolFor(call[c].size)
<1>1. call[c].pc = "take" /\ call[c].new = Null /\ UNCHANGED <<heap, held>>
  BY DEF Take, At, CallInv
<1>2. \A d \in Clients : d # c => call'[d] = call[d]
  BY TakeFields
<1>3. p \in Pools
  BY <1>1, PoolForSize DEF CallInv
<1>4. ASSUME NEW k \in free[p],
             <<p, k>> \in PoolBlocks, free' = Taken(p, k),
             call'[c] = [op |-> call[c].op, pc |-> AfterAlloc(c), ptr |-> call[c].ptr,
                         size |-> call[c].size, was |-> call[c].was, new |-> <<p, k>>]
      PROVE  OwnInv'
  <2> DEFINE b == <<p, k>>
  <2>1. b \in Real /\ b \in PoolBlocks /\ b[1] = p /\ b[2] = k
    BY <1>4 DEF Real
  <2>2. \A d \in Clients : ~Owned(d, b)
    BY <1>4, <2>1 DEF OwnInv, BlocksAccounted
  <2>3. /\ call'[c].new = b /\ call'[c].ptr = call[c].ptr
        /\ call'[c].pc = "ret" => call[c].ptr = Null
    BY <1>4 DEF AfterAlloc, CallInv
  <2> HIDE DEF b
  <2>4. /\ \A d \in Clients, x \in Real :
              Owned(d, x)' <=> (Owned(d, x) \/ (d = c /\ x = b))
        /\ (\A d \in Clients, x \in Real : x \in held[d] => ~InCall(d, x))'
        /\ (\A d \in Clients :
              call[d].pc # "ret" /\ call[d].new # Null => call[d].new # call[d].ptr)'
    BY <1>1, <1>2, <2>1, <2>2, <2>3, GetBlock
  <2>5. \A x \in PoolBlocks : x[2] \in free'[x[1]] <=> (x[2] \in free[x[1]] /\ x # b)
    <3>1. /\ free'[p] = free[p] \ {k}
          /\ \A q \in Pools : q # p => free'[q] = free[q]
      BY <1>3, <1>4 DEF Taken, MemType
    <3> QED
      BY <2>1, <3>1, BlockSets
  <2>6. BlocksAccounted'
    BY <2>1, <2>4, <2>5 DEF OwnInv, BlocksAccounted, Real
  <2>7. (\A x \in DefaultBlocks : heap[x] = "none" => \A d \in Clients : ~Owned(d, x))'
    BY <1>1, <2>1, <2>4, BlockSets DEF OwnInv, Real
  <2>8. (\A d, e \in Clients, x \in Real : Owned(d, x) /\ Owned(e, x) => d = e)'
    BY <2>2, <2>4 DEF OwnInv
  <2> QED
    BY <2>4, <2>6, <2>7, <2>8 DEF OwnInv
<1>5. CASE /\ call'[c] = [op |-> call[c].op, pc |-> "default", ptr |-> call[c].ptr,
                          size |-> call[c].size, was |-> call[c].was, new |-> call[c].new]
           /\ UNCHANGED <<free, hdr>>
  BY <1>1, <1>2, <1>5, AdvanceOwn
<1> QED
  BY <1>4, <1>5, TakeFields DEF p

\* ... nor had one allocated by itself ...
LEMMA AllocDefaultOwn ==
  ASSUME CallLockInv, MemType, OwnInv, NEW c \in Clients, AllocDefault(c)
  PROVE  OwnInv'
<1> USE DEF CallLockInv
<1>1. call[c].pc = "default" /\ call[c].new = Null /\ UNCHANGED <<free, held>>
  BY DEF AllocDefault, At, CallInv
<1>2. PICK b \in DefaultBlocks \cup {Null} :
        /\ b # Null =>
             /\ heap[b] = "none"
             /\ heap' = [heap EXCEPT ![b] =
                            IF call[c].size >= VirtualMin THEN "virtual" ELSE "heap"]
        /\ b = Null => UNCHANGED heap
        /\ call'[c] = [op |-> call[c].op, pc |-> AfterAlloc(c), ptr |-> call[c].ptr,
                       size |-> call[c].size, was |-> call[c].was, new |-> b]
  BY AllocDefaultFields
<1>3. \A d \in Clients : d # c => call'[d] = call[d]
  BY AllocDefaultFields
<1>4. /\ call'[c].new = b /\ call'[c].ptr = call[c].ptr
      /\ call'[c].pc = "ret" => call[c].ptr = Null
  BY <1>2 DEF AfterAlloc, CallInv
<1>5. CASE b = Null
  <2>1. \A d \in Clients, x \in Real : InCall(d, x)' <=> InCall(d, x)
    BY <1>1, <1>3, <1>4, <1>5, BlockSets DEF InCall, At
  <2>2. \A d \in Clients, x \in Real : Owned(d, x)' <=> Owned(d, x)
    BY <1>1, <2>1 DEF Owned
  <2>3. (\A d \in Clients, x \in Real : x \in held[d] => ~InCall(d, x))'
    BY <1>1, <2>1 DEF OwnInv
  <2>4. (\A d \in Clients :
           call[d].pc # "ret" /\ call[d].new # Null => call[d].new # call[d].ptr)'
    BY <1>3, <1>4, <1>5 DEF OwnInv
  <2>5. UNCHANGED <<free, heap>>
    BY <1>1, <1>2, <1>5
  <2> QED
    BY <2>2, <2>3, <2>4, <2>5, OwnersKept
<1>6. CASE b # Null
  <2>1. b \in Real /\ b \in DefaultBlocks /\ heap[b] = "none"
    BY <1>2, <1>6 DEF Real
  <2>2. \A d \in Clients : ~Owned(d, b)
    BY <2>1 DEF OwnInv
  <2>3. /\ \A d \in Clients, x \in Real :
              Owned(d, x)' <=> (Owned(d, x) \/ (d = c /\ x = b))
        /\ (\A d \in Clients, x \in Real : x \in held[d] => ~InCall(d, x))'
        /\ (\A d \in Clients :
              call[d].pc # "ret" /\ call[d].new # Null => call[d].new # call[d].ptr)'
    BY <1>1, <1>3, <1>4, <2>1, <2>2, GetBlock
  <2>4. BlocksAccounted'
    BY <1>1, <2>1, <2>3, BlockSets DEF OwnInv, BlocksAccounted, Real
  <2>5. \A x \in DefaultBlocks : heap'[x] = "none" => heap[x] = "none" /\ x # b
    BY <1>2, <1>6, <2>1 DEF MemType
  <2>6. (\A x \in DefaultBlocks : heap[x] = "none" => \A d \in Clients : ~Owned(d, x))'
    BY <2>3, <2>5 DEF OwnInv, Real
  <2>7. (\A d, e \in Clients, x \in Real : Owned(d, x) /\ Owned(e, x) => d = e)'
    BY <2>2, <2>3 DEF OwnInv
  <2> QED
    BY <2>3, <2>4, <2>6, <2>7 DEF OwnInv
<1> QED
  BY <1>5, <1>6

\* What free and realloc go by: the header of a block that somebody has names it.
BlockNamed(b) ==
    /\ b \in PoolBlocks =>
          /\ hdr[b].kind = "pool" /\ hdr[b].pool = b[1] /\ hdr[b].id = b[2]
          /\ hdr[b].size <= Capacity[b[1]]
    /\ b \in DefaultBlocks => hdr[b].kind = "default"

\* What a thread's blocks hold: while it has them, while realloc works on the old
\* one, and when the new one has the contents.
ClientInv(c) ==
    LET k == call[c]
    IN  /\ \A b \in Real : Owned(c, b) => BlockNamed(b)
        /\ \A b \in Real : b \in held[c] =>
              hdr[b].size = wanted[b] /\ data[b] = [by |-> c, len |-> wanted[b]]
        /\ k.new # Null => hdr[k.new].size = k.size
        /\ k.op = "realloc" /\ k.pc # "ret" =>
              /\ hdr[k.ptr].size = k.was
              /\ k.ptr \in Real => data[k.ptr] = [by |-> c, len |-> k.was]
        /\ k.op = "realloc" /\ k.pc \in {"free", "ret"} /\ k.new # Null /\ k.was > 0 =>
              data[k.new].by = c /\ data[k.new].len >= Min({k.was, k.size})

\* The block of size zero.
ZeroInv == hdr[Zero].kind = "default" /\ hdr[Zero].size = 0 /\ wanted[Zero] = 0

ContentInv == ZeroInv /\ \A c \in Clients : ClientInv(c)

\* What is freed goes back to where it came from ...
LEMMA FreeOwn ==
  ASSUME CallLockInv, MemType, ContentInv, OwnInv, NEW c \in Clients, Free(c)
  PROVE  OwnInv'
<1> USE DEF CallLockInv
<1>0. PICK b : b = call[c].ptr
  OBVIOUS
<1>1. /\ call[c].pc = "free" /\ Goto(c, "ret") /\ "ret" \in PC /\ UNCHANGED held
      /\ b \in AllBlocks
      /\ call[c].new # Null => call[c].new # b
  BY <1>0 DEF Free, At, PC, CallInv, OwnInv, CallType, CallRecord
<1>2. /\ call'[c].pc = "ret" /\ call'[c].new = call[c].new
      /\ \A d \in Clients : d # c => call'[d] = call[d]
  <2>1. /\ call'[c] = [op |-> call[c].op, pc |-> "ret", ptr |-> call[c].ptr,
                       size |-> call[c].size, was |-> call[c].was, new |-> call[c].new]
        /\ \A d \in Clients : d # c => call'[d] = call[d]
    BY <1>1, GotoFields
  <2> QED
    BY <2>1
<1>3. InCall(c, b)
  BY <1>0, <1>1 DEF InCall, At
<1>4. \A x \in Real : InCall(c, x)' <=> (InCall(c, x) /\ x # b)
  BY <1>0, <1>1, <1>2, BlockSets DEF InCall, At
<1>5. \A d \in Clients, x \in Real : d # c => (InCall(d, x)' <=> InCall(d, x))
  BY <1>2 DEF InCall, At
<1>6. \A d \in Clients, x \in Real :
         Owned(d, x)' <=> (Owned(d, x) /\ ~(d = c /\ x = b))
  BY <1>1, <1>3, <1>4, <1>5 DEF Owned, OwnInv
<1>7. b \in Real => Owned(c, b) /\ \A d \in Clients : ~Owned(d, b)'
  <2>1. Owned(c, b)
    BY <1>3 DEF Owned
  <2>2. b \in Real => \A d \in Clients : d # c => ~Owned(d, b)
    BY <2>1 DEF OwnInv
  <2> QED
    BY <1>6, <2>1, <2>2
<1>8. /\ (\A d, e \in Clients, x \in Real : Owned(d, x) /\ Owned(e, x) => d = e)'
      /\ (\A d \in Clients, x \in Real : x \in held[d] => ~InCall(d, x))'
      /\ (\A d \in Clients :
            call[d].pc # "ret" /\ call[d].new # Null => call[d].new # call[d].ptr)'
  BY <1>1, <1>2, <1>4, <1>5, <1>6 DEF OwnInv
<1>9. CASE b \in PoolBlocks
  <2>1. hdr[b].kind = "pool" /\ hdr[b].pool = b[1] /\ hdr[b].id = b[2]
    <3>1. BlockNamed(b)
      BY <1>7, <1>9 DEF ContentInv, ClientInv, Real
    <3> QED
      BY <1>9, <3>1 DEF BlockNamed
  <2>2. free' = [free EXCEPT ![b[1]] = @ \cup {b[2]}] /\ UNCHANGED heap
    BY <1>0, <2>1 DEF Free
  <2>3. b[1] \in Pools
    BY <1>9, BlockSets
  <2>4. /\ free'[b[1]] = free[b[1]] \cup {b[2]}
        /\ \A q \in Pools : q # b[1] => free'[q] = free[q]
    BY <2>2, <2>3 DEF MemType
  <2>5. \A x \in PoolBlocks : x[2] \in free'[x[1]] <=> (x[2] \in free[x[1]] \/ x = b)
    BY <1>9, <2>4, BlockSets
  <2>6. BlocksAccounted'
    BY <1>6, <1>7, <1>9, <2>5 DEF OwnInv, BlocksAccounted, Real
  <2>7. (\A x \in DefaultBlocks : heap[x] = "none" => \A d \in Clients : ~Owned(d, x))'
    BY <1>6, <2>2 DEF OwnInv, Real
  <2> QED
    BY <1>8, <2>6, <2>7 DEF OwnInv
<1>10. CASE b \notin PoolBlocks
  <2>1. b \in DefaultBlocks \cup {Zero}
    BY <1>1, <1>10, BlockSets DEF Real
  <2>2. hdr[b].kind = "default"
    <3>1. b \in DefaultBlocks => BlockNamed(b)
      BY <1>7 DEF ContentInv, ClientInv, Real
    <3> QED
      BY <2>1, <3>1 DEF BlockNamed, ContentInv, ZeroInv
  <2>3. free' = free /\ heap' = IF b = Zero THEN heap ELSE FreeDefault(b)
    BY <1>0, <2>2 DEF Free
  <2>4. \A x \in DefaultBlocks : heap'[x] = "none" => heap[x] = "none" \/ x = b
    BY <2>1, <2>3 DEF FreeDefault, MemType
  <2>5. BlocksAccounted'
    BY <1>6, <1>10, <2>3 DEF OwnInv, BlocksAccounted, Real
  <2>6. (\A x \in DefaultBlocks : heap[x] = "none" => \A d \in Clients : ~Owned(d, x))'
    BY <1>6, <1>7, <2>4 DEF OwnInv, Real
  <2> QED
    BY <1>8, <2>5, <2>6 DEF OwnInv
<1> QED
  BY <1>9, <1>10

\* ... and one that is returned stays with the thread.
LEMMA ReturnOwn ==
  ASSUME CallLockInv, OwnInv, NEW c \in Clients, Return(c)
  PROVE  OwnInv'
<1> USE DEF CallLockInv
<1> DEFINE b == call[c].new
<1>1. /\ call[c].pc = "ret" /\ call' = [call EXCEPT ![c] = NoCall]
      /\ held' = IF b = Null THEN held ELSE [held EXCEPT ![c] = @ \cup {b}]
      /\ UNCHANGED <<free, heap>>
  BY DEF Return, At, memVars
<1>2. /\ call'[c] = NoCall
      /\ \A d \in Clients : d # c => call'[d] = call[d]
  BY <1>1 DEF CallType
<1>3. /\ held'[c] = IF b = Null THEN held[c] ELSE held[c] \cup {b}
      /\ \A d \in Clients : d # c => held'[d] = held[d]
  BY <1>1 DEF HeldType
<1>4. \A x \in Real : /\ InCall(c, x) <=> x = b
                     /\ ~InCall(c, x)'
  BY <1>1, <1>2, BlockSets DEF InCall, At, NoCall
<1>5. \A d \in Clients, x \in Real : d # c => (InCall(d, x)' <=> InCall(d, x))
  BY <1>2 DEF InCall, At
<1>6. \A d \in Clients, x \in Real : Owned(d, x)' <=> Owned(d, x)
  BY <1>3, <1>4, <1>5, BlockSets DEF Owned
<1>7. (\A d \in Clients, x \in Real : x \in held[d] => ~InCall(d, x))'
  BY <1>3, <1>4, <1>5 DEF OwnInv
<1>8. (\A d \in Clients :
         call[d].pc # "ret" /\ call[d].new # Null => call[d].new # call[d].ptr)'
  BY <1>2 DEF OwnInv, NoCall
<1> QED
  BY <1>1, <1>6, <1>7, <1>8, OwnersKept

-----------------------------------------------------------------------------
(* What the headers say and the blocks hold *)

\* A step of another thread, which writes nothing in front of or into this one's blocks.
LEMMA OthersKept ==
  ASSUME CallLockInv, ZeroInv, ZeroInv', NEW d \in Clients, ClientInv(d),
         call'[d] = call[d], held'[d] = held[d],
         \A x \in Real : Owned(d, x) =>
            hdr'[x] = hdr[x] /\ data'[x] = data[x] /\ wanted'[x] = wanted[x]
  PROVE  ClientInv(d)'
<1>1. \A x \in Real : Owned(d, x)' <=> Owned(d, x)
  BY DEF Owned, InCall, At
<1>2. (\A x \in Real : Owned(d, x) => BlockNamed(x))'
  BY <1>1 DEF ClientInv, BlockNamed
<1>3. (\A x \in Real : x \in held[d] =>
          hdr[x].size = wanted[x] /\ data[x] = [by |-> d, len |-> wanted[x]])'
  BY DEF ClientInv, Owned
<1>4. call[d].new # Null => call[d].new = Zero \/ (call[d].new \in Real /\ Owned(d, call[d].new))
  BY BlockSets DEF CallLockInv, CallType, CallRecord, Owned, InCall
<1>5. (call[d].new # Null => hdr[call[d].new].size = call[d].size)'
  BY <1>4 DEF ClientInv, ZeroInv
<1>6. (call[d].op = "realloc" /\ call[d].pc # "ret" =>
         /\ hdr[call[d].ptr].size = call[d].was
         /\ call[d].ptr \in Real => data[call[d].ptr] = [by |-> d, len |-> call[d].was])'
  <2>1. SUFFICES ASSUME call[d].op = "realloc", call[d].pc # "ret"
                 PROVE  /\ hdr'[call[d].ptr].size = call[d].was
                        /\ call[d].ptr \in Real =>
                              data'[call[d].ptr] = [by |-> d, len |-> call[d].was]
    OBVIOUS
  <2>2. call[d].ptr \in Real \/ call[d].ptr = Zero
    BY <2>1, BlockSets DEF CallLockInv, CallInv, CallType, CallRecord
  <2>3. Owned(d, call[d].ptr)
    BY <2>1 DEF Owned, InCall, At
  <2> QED
    BY <2>1, <2>2, <2>3, BlockSets DEF ClientInv, ZeroInv
<1>7. (call[d].op = "realloc" /\ call[d].pc \in {"free", "ret"} /\ call[d].new # Null
          /\ call[d].was > 0 =>
         data[call[d].new].by = d /\ data[call[d].new].len >= Min({call[d].was, call[d].size}))'
  <2>1. call[d].op = "realloc" => call[d].new # Zero
    BY Constants DEF CallLockInv, CallInv, ClientInv, ZeroInv
  <2> QED
    BY <1>4, <2>1 DEF ClientInv
<1> QED
  BY <1>2, <1>3, <1>5, <1>6, <1>7 DEF ClientInv

\* What is left to show of a step: what it does for its own thread.
LEMMA ContentStep ==
  ASSUME CallLockInv, ContentInv, NEW c \in Clients, ClientInv(c)', ZeroInv',
         \A d \in Clients : d # c => call'[d] = call[d] /\ held'[d] = held[d],
         \A d \in Clients, x \in Real : d # c /\ Owned(d, x) =>
            hdr'[x] = hdr[x] /\ data'[x] = data[x] /\ wanted'[x] = wanted[x]
  PROVE  ContentInv'
<1>1. ASSUME NEW d \in Clients, d # c
      PROVE  ClientInv(d)'
  BY <1>1, OthersKept DEF ContentInv
<1> QED
  BY <1>1 DEF ContentInv

\* What the invariant says of one thread.
LEMMA ClientFacts ==
  ASSUME ContentInv, NEW c \in Clients
  PROVE  /\ \A b \in Real : Owned(c, b) => BlockNamed(b)
         /\ \A b \in Real : b \in held[c] =>
               hdr[b].size = wanted[b] /\ data[b] = [by |-> c, len |-> wanted[b]]
         /\ call[c].op = "realloc" /\ call[c].pc # "ret" =>
               /\ hdr[call[c].ptr].size = call[c].was
               /\ call[c].ptr \in Real =>
                     data[call[c].ptr] = [by |-> c, len |-> call[c].was]
BY DEF ContentInv, ClientInv

\* A step in the middle of a call that writes nothing.
LEMMA AdvanceContent ==
  ASSUME CallLockInv, ContentInv, NEW c \in Clients, NEW pc, pc # "ret", call[c].pc # "ret",
         call[c].op = "realloc" => pc # "free",
         call'[c] = [op |-> call[c].op, pc |-> pc, ptr |-> call[c].ptr,
                     size |-> call[c].size, was |-> call[c].was, new |-> call[c].new],
         \A d \in Clients : d # c => call'[d] = call[d],
         UNCHANGED <<hdr, data, held, wanted>>
  PROVE  ContentInv'
<1>1. /\ call'[c].op = call[c].op /\ call'[c].pc = pc /\ call'[c].ptr = call[c].ptr
      /\ call'[c].size = call[c].size /\ call'[c].was = call[c].was
      /\ call'[c].new = call[c].new
  OBVIOUS
<1>2. \A x \in Real : Owned(c, x)' <=> Owned(c, x)
  BY <1>1 DEF Owned, InCall, At
<1>3. ZeroInv' /\ ZeroInv
  BY DEF ContentInv, ZeroInv
<1>4. (\A x \in Real : Owned(c, x) => BlockNamed(x))'
  BY <1>2 DEF ContentInv, ClientInv, BlockNamed
<1>5. ClientInv(c)'
  BY <1>1, <1>4 DEF ContentInv, ClientInv
<1> QED
  BY <1>3, <1>5, ContentStep

\* alloc begins: nothing is passed.
LEMMA StartAllocContent ==
  ASSUME CallLockInv, ContentInv, NEW c \in Clients, StartAlloc(c)
  PROVE  ContentInv'
<1> USE DEF CallLockInv
<1>1. PICK n \in Sizes : Begin(c, "alloc", Null, n)
  BY DEF StartAlloc
<1>2. /\ call'[c].op = "alloc" /\ call'[c].ptr = Null /\ call'[c].size = n
      /\ call'[c].new = IF n = 0 THEN Zero ELSE Null
      /\ \A d \in Clients : d # c => call'[d] = call[d]
  BY <1>1, BeginFields
<1>3. call[c].ptr = Null /\ call[c].new = Null /\ UNCHANGED <<held, hdr, data, wanted>>
  BY <1>1 DEF Begin, At, StartAlloc, CallInv, memVars
<1>4. \A x \in Real : Owned(c, x)' <=> Owned(c, x)
  BY <1>2, <1>3, BlockSets DEF Owned, InCall, At
<1>5. ZeroInv' /\ ZeroInv
  BY <1>3 DEF ContentInv, ZeroInv
<1>6. (\A x \in Real : Owned(c, x) => BlockNamed(x))'
  BY <1>3, <1>4 DEF ContentInv, ClientInv, BlockNamed
<1>7. ClientInv(c)'
  BY <1>2, <1>3, <1>5, <1>6 DEF ContentInv, ClientInv, ZeroInv
<1> QED
  BY <1>2, <1>3, <1>5, <1>7, ContentStep

\* realloc and free begin: what was wanted of the block goes into the call.
LEMMA StartOtherContent ==
  ASSUME CallLockInv, OwnInv, ContentInv, NEW c \in Clients, StartRealloc(c) \/ StartFree(c)
  PROVE  ContentInv'
<1> USE DEF CallLockInv
<1>1. PICK b \in held[c], op \in {"realloc", "free"}, n \in Sizes \cup {0} :
         Begin(c, op, b, n) /\ PassBack(c, b)
  BY DEF StartRealloc, StartFree
<1>2. b \in AllBlocks /\ b # Null
  BY Constants DEF HeldType
<1>3. /\ call'[c].op = op /\ call'[c].ptr = b /\ call'[c].pc = "enter"
      /\ call'[c].new = Null /\ call'[c].was = wanted[b]
      /\ \A d \in Clients : d # c => call'[d] = call[d]
  BY <1>1, <1>2, BeginFields
<1>4. /\ call[c].ptr = Null /\ call[c].new = Null /\ UNCHANGED <<hdr, data>>
      /\ held' = [held EXCEPT ![c] = @ \ {b}]
      /\ wanted' = [wanted EXCEPT ![b] = 0]
  BY <1>1 DEF Begin, At, CallInv, memVars, PassBack
<1>5. /\ held'[c] = held[c] \ {b}
      /\ \A d \in Clients : d # c => held'[d] = held[d]
      /\ wanted'[b] = 0
      /\ \A x \in AllBlocks : x # b => wanted'[x] = wanted[x]
  BY <1>2, <1>4 DEF HeldType, WantedType
<1>6. \A x \in Real : Owned(c, x)' => Owned(c, x)
  BY <1>1, <1>3, <1>5, BlockSets DEF Owned, InCall, At
<1>7. ZeroInv' /\ ZeroInv
  BY <1>4, <1>5, Constants DEF ContentInv, ZeroInv
<1>8. (\A x \in Real : Owned(c, x) => BlockNamed(x))'
  BY <1>4, <1>6 DEF ContentInv, ClientInv, BlockNamed
<1>9. (\A x \in Real : x \in held[c] =>
          hdr[x].size = wanted[x] /\ data[x] = [by |-> c, len |-> wanted[x]])'
  <2>1. \A x \in Real : x \in held'[c] => x \in held[c] /\ wanted'[x] = wanted[x]
    BY <1>5, BlockSets
  <2> QED
    BY <1>4, <2>1, ClientFacts
<1>10. /\ hdr[b].size = wanted[b]
       /\ b \in Real => data[b] = [by |-> c, len |-> wanted[b]]
  BY <1>1, <1>2, <1>7, BlockSets DEF ContentInv, ClientInv, ZeroInv
<1>11. ClientInv(c)'
  BY <1>3, <1>4, <1>8, <1>9, <1>10 DEF ClientInv
<1>12. \A d \in Clients, x \in Real : d # c /\ Owned(d, x) => x # b
  BY <1>1 DEF OwnInv, Owned
<1>13. Real \subseteq AllBlocks
  BY BlockSets
<1> QED
  BY <1>3, <1>4, <1>5, <1>7, <1>11, <1>12, <1>13, ContentStep

\* A new block for a call: its header is written, and nobody had it.
LEMMA NewBlockContent ==
  ASSUME CallLockInv, MemType, ContentInv, NEW c \in Clients,
         NEW b \in Real, \A d \in Clients : ~Owned(d, b),
         call[c].pc \in {"take", "default"}, call[c].op \in {"alloc", "realloc"},
         call'[c] = [op |-> call[c].op, pc |-> AfterAlloc(c), ptr |-> call[c].ptr,
                     size |-> call[c].size, was |-> call[c].was, new |-> b],
         \A d \in Clients : d # c => call'[d] = call[d],
         UNCHANGED <<held, data, wanted>>,
         \A x \in AllBlocks : x # b => hdr'[x] = hdr[x],
         BlockNamed(b)', hdr'[b].size = call[c].size
  PROVE  ContentInv'
<1> USE DEF CallLockInv
<1>1. /\ call'[c].op = call[c].op /\ call'[c].ptr = call[c].ptr
      /\ call'[c].size = call[c].size /\ call'[c].was = call[c].was
      /\ call'[c].pc = IF call[c].op = "alloc" THEN "ret" ELSE "copy"
      /\ call'[c].new = b
  BY DEF AfterAlloc
<1>2. \A x \in Real : Owned(c, x)' => Owned(c, x) \/ x = b
  BY <1>1 DEF Owned, InCall, At
<1>3. Real \subseteq AllBlocks /\ Zero \in AllBlocks /\ b # Zero
  BY BlockSets
<1>4. ZeroInv'
  BY <1>3 DEF ContentInv, ZeroInv
<1>5. (\A x \in Real : Owned(c, x) => BlockNamed(x))'
  <2>1. ASSUME NEW x \in Real, x # b, Owned(c, x)
        PROVE  BlockNamed(x)'
    <3>1. BlockNamed(x) /\ hdr'[x] = hdr[x]
      BY <1>3, <2>1, ClientFacts
    <3> QED
      BY <3>1 DEF BlockNamed
  <2> QED
    BY <1>2, <2>1
<1>6. (\A x \in Real : x \in held[c] =>
          hdr[x].size = wanted[x] /\ data[x] = [by |-> c, len |-> wanted[x]])'
  <2>1. \A x \in Real : x \in held[c] => x # b /\ hdr'[x] = hdr[x]
    BY <1>3 DEF Owned
  <2> QED
    BY <2>1, ClientFacts
<1>7. (call[c].op = "realloc" /\ call[c].pc # "ret" =>
         /\ hdr[call[c].ptr].size = call[c].was
         /\ call[c].ptr \in Real => data[call[c].ptr] = [by |-> c, len |-> call[c].was])'
  <2>1. call[c].op = "realloc" => call[c].ptr \in AllBlocks /\ call[c].ptr # b
    BY DEF CallInv, CallType, CallRecord, Owned, InCall, At
  <2>2. call[c].pc # "ret"
    OBVIOUS
  <2>3. call[c].op = "realloc" => hdr'[call[c].ptr] = hdr[call[c].ptr] /\ data' = data
    BY <2>1
  <2>4. call[c].op = "realloc" =>
           /\ hdr'[call[c].ptr].size = call[c].was
           /\ call[c].ptr \in Real => data'[call[c].ptr] = [by |-> c, len |-> call[c].was]
    BY <2>2, <2>3, ClientFacts
  <2> QED
    BY ONLY <1>1, <2>4
<1>8. ClientInv(c)'
  BY <1>1, <1>5, <1>6, <1>7 DEF ClientInv
<1> QED
  BY <1>3, <1>4, <1>8, ContentStep

\* What Take writes is the header of the block it took.
LEMMA TakeContent ==
  ASSUME CallLockInv, MemType, OwnInv, ContentInv, NEW c \in Clients, Take(c)
  PROVE  ContentInv'
<1> USE DEF CallLockInv
<1>0. PICK p, n : p = PoolFor(call[c].size) /\ n = call[c].size
  OBVIOUS
<1>1. /\ call[c].pc = "take" /\ call[c].op \in {"alloc", "realloc"} /\ call[c].new = Null
      /\ UNCHANGED <<held, data, wanted>>
      /\ \A d \in Clients : d # c => call'[d] = call[d]
  BY TakeFields DEF Take, CallInv
<1>2. n \in 1 .. MaxPooled /\ p \in Pools /\ n <= Capacity[p]
  BY <1>0, <1>1, PoolForSize DEF CallInv
<1>3. n % Wrap = n
  BY <1>2, Widths, Constants, SmallModulo
<1>4. ASSUME NEW k \in free[p],
             <<p, k>> \in PoolBlocks,
             hdr' = [hdr EXCEPT ![<<p, k>>] = PoolHeader(p, k, n)],
             call'[c] = [op |-> call[c].op, pc |-> AfterAlloc(c), ptr |-> call[c].ptr,
                         size |-> call[c].size, was |-> call[c].was, new |-> <<p, k>>]
      PROVE  ContentInv'
  <2>0. PICK b : b = <<p, k>>
    OBVIOUS
  <2>1. b \in Real /\ b \in PoolBlocks /\ b[1] = p /\ b[2] = k /\ b \in AllBlocks
    BY <1>4, <2>0 DEF Real, AllBlocks
  <2>2. \A d \in Clients : ~Owned(d, b)
    BY <1>4, <2>1 DEF OwnInv, BlocksAccounted
  <2>3. hdr'[b] = [kind |-> "pool", pool |-> p, id |-> k, size |-> n]
    BY <1>3, <1>4, <2>0, <2>1 DEF PoolHeader, MemType
  <2>4. \A x \in AllBlocks : x # b => hdr'[x] = hdr[x]
    BY <1>4, <2>0 DEF MemType
  <2>5. b \notin DefaultBlocks
    BY <2>1, BlockSets
  <2>6. BlockNamed(b)'
    BY <1>2, <2>1, <2>3, <2>5 DEF BlockNamed
  <2>7. hdr'[b].size = call[c].size
    BY <1>0, <2>3
  <2> QED
    BY <1>1, <1>4, <2>0, <2>1, <2>2, <2>4, <2>6, <2>7, NewBlockContent
<1>5. CASE /\ call'[c] = [op |-> call[c].op, pc |-> "default", ptr |-> call[c].ptr,
                          size |-> call[c].size, was |-> call[c].was, new |-> call[c].new]
           /\ UNCHANGED hdr
  BY <1>1, <1>5, AdvanceContent
<1> QED
  BY <1>0, <1>4, <1>5, TakeFields

\* So is what AllocDefault writes.
LEMMA AllocDefaultContent ==
  ASSUME CallLockInv, MemType, OwnInv, ContentInv, NEW c \in Clients, AllocDefault(c)
  PROVE  ContentInv'
<1> USE DEF CallLockInv
<1>1. /\ call[c].pc = "default" /\ call[c].op \in {"alloc", "realloc"} /\ call[c].new = Null
      /\ UNCHANGED <<held, data, wanted>>
      /\ \A d \in Clients : d # c => call'[d] = call[d]
  BY AllocDefaultFields DEF AllocDefault, CallInv
<1>2. PICK b \in DefaultBlocks \cup {Null} :
        /\ b # Null =>
             /\ heap[b] = "none"
             /\ hdr' = [hdr EXCEPT ![b] = DefaultHeader(call[c].size)]
        /\ b = Null => UNCHANGED hdr
        /\ call'[c] = [op |-> call[c].op, pc |-> AfterAlloc(c), ptr |-> call[c].ptr,
                       size |-> call[c].size, was |-> call[c].was, new |-> b]
  BY AllocDefaultFields
<1>3. CASE b = Null
  <2>1. /\ call'[c].op = call[c].op /\ call'[c].ptr = call[c].ptr
        /\ call'[c].size = call[c].size /\ call'[c].was = call[c].was
        /\ call'[c].pc = IF call[c].op = "alloc" THEN "ret" ELSE "copy"
        /\ call'[c].new = Null
    BY <1>2, <1>3 DEF AfterAlloc
  <2>2. \A x \in Real : Owned(c, x)' => Owned(c, x)
    BY <1>1, <2>1, BlockSets DEF Owned, InCall, At
  <2>3. UNCHANGED <<held, hdr, data, wanted>>
    BY <1>1, <1>2, <1>3
  <2>4. ZeroInv' /\ ZeroInv
    BY <2>3 DEF ContentInv, ZeroInv
  <2>5. (\A x \in Real : Owned(c, x) => BlockNamed(x))'
    BY <2>2, <2>3, ClientFacts DEF BlockNamed
  <2>6. ClientInv(c)'
    BY <1>1, <2>1, <2>3, <2>5, ClientFacts DEF ClientInv
  <2> QED
    BY <1>1, <2>3, <2>4, <2>6, ContentStep
<1>4. CASE b # Null
  <2>1. b \in Real /\ b \in DefaultBlocks /\ b \in AllBlocks /\ b \notin PoolBlocks
    BY <1>2, <1>4, BlockSets DEF Real
  <2>2. \A d \in Clients : ~Owned(d, b)
    BY <1>2, <1>4, <2>1 DEF OwnInv
  <2>3. hdr'[b] = DefaultHeader(call[c].size)
    BY <1>2, <1>4, <2>1 DEF MemType
  <2>4. \A x \in AllBlocks : x # b => hdr'[x] = hdr[x]
    BY <1>2, <1>4 DEF MemType
  <2>5. BlockNamed(b)' /\ hdr'[b].size = call[c].size
    BY <2>1, <2>3 DEF BlockNamed, DefaultHeader
  <2> QED
    BY <1>1, <1>2, <2>1, <2>2, <2>4, <2>5, NewBlockContent
<1> QED
  BY <1>3, <1>4

\* The block that realloc keeps has the new size in its header and the old contents.
LEMMA ResizeInPlaceContent ==
  ASSUME CallLockInv, MemType, OwnInv, ContentInv, NEW c \in Clients, ResizeInPlace(c)
  PROVE  ContentInv'
<1> USE DEF CallLockInv
<1>0. PICK b, n : b = call[c].ptr /\ n = call[c].size
  OBVIOUS
<1>1. /\ call[c].pc = "resize" /\ call[c].op = "realloc" /\ call[c].new = Null
      /\ b # Null /\ b \in AllBlocks
      /\ n \in Nat /\ n # 0 /\ call[c].was \in Nat
      /\ hdr[b].kind = "pool" /\ n <= Capacity[hdr[b].pool]
      /\ hdr' = [hdr EXCEPT ![b] = Resized(@, n)]
      /\ GotoWith(c, "ret", b) /\ "ret" \in PC
      /\ UNCHANGED <<held, data, wanted>>
  BY <1>0, Constants DEF ResizeInPlace, Fits, At, CallInv, PC, CallType, CallRecord
<1>2. /\ call'[c].op = "realloc" /\ call'[c].ptr = b /\ call'[c].pc = "ret"
      /\ call'[c].size = n /\ call'[c].was = call[c].was /\ call'[c].new = b
      /\ \A d \in Clients : d # c => call'[d] = call[d]
  <2>1. /\ call'[c] = [op |-> call[c].op, pc |-> "ret", ptr |-> call[c].ptr,
                       size |-> call[c].size, was |-> call[c].was, new |-> b]
        /\ \A d \in Clients : d # c => call'[d] = call[d]
    BY <1>1, GotoWithFields
  <2> QED
    BY <1>0, <1>1, <2>1
<1>3. Owned(c, b) /\ InCall(c, b)
  BY <1>0, <1>1 DEF Owned, InCall, At
<1>4. b # Zero
  BY <1>1 DEF ContentInv, ZeroInv
<1>5. b \in Real /\ BlockNamed(b)
  BY <1>1, <1>3, <1>4, BlockSets, ClientFacts
<1>6. b \in PoolBlocks /\ b \notin DefaultBlocks
  BY <1>1, <1>5 DEF BlockNamed, Real
<1>7. /\ hdr[b].pool = b[1] /\ hdr[b].id = b[2] /\ b[1] \in Pools /\ n <= Capacity[b[1]]
  BY <1>1, <1>5, <1>6, BlockSets DEF BlockNamed
<1>8. n < Wrap
  <2>1. Capacity[b[1]] <= MaxPooled /\ Capacity[b[1]] \in Nat /\ MaxPooled \in Nat
    BY <1>7, Widths, Constants
  <2> QED
    BY <1>1, <1>7, <2>1, Widths
<1>9. n % Wrap = n
  BY <1>1, <1>8, Widths, SmallModulo
<1>10. hdr[b] \in Header
  BY <1>1 DEF MemType
<1>11. /\ hdr'[b].kind = "pool" /\ hdr'[b].pool = b[1] /\ hdr'[b].id = b[2]
       /\ hdr'[b].size = n
       /\ \A x \in AllBlocks : x # b => hdr'[x] = hdr[x]
  <2>1. hdr'[b] = [hdr[b] EXCEPT !.size = n]
    BY <1>1, <1>9 DEF Resized, MemType
  <2> QED
    BY <1>1, <1>7, <1>10, <2>1 DEF Header, MemType
<1>12. BlockNamed(b)'
  BY <1>6, <1>7, <1>11 DEF BlockNamed
<1>13. Real \subseteq AllBlocks /\ Zero \in AllBlocks
  BY BlockSets
<1>14. ZeroInv'
  BY <1>1, <1>4, <1>11, <1>13 DEF ContentInv, ZeroInv
<1>15. \A x \in Real : Owned(c, x)' => Owned(c, x)
  BY <1>0, <1>1, <1>2, <1>3, BlockSets DEF Owned, InCall, At
<1>16. (\A x \in Real : Owned(c, x) => BlockNamed(x))'
  <2>1. ASSUME NEW x \in Real, x # b, Owned(c, x)
        PROVE  BlockNamed(x)'
    <3>1. BlockNamed(x) /\ hdr'[x] = hdr[x]
      BY <1>11, <1>13, <2>1, ClientFacts
    <3> QED
      BY <3>1 DEF BlockNamed
  <2> QED
    BY <1>12, <1>15, <2>1
<1>17. (\A x \in Real : x \in held[c] =>
          hdr[x].size = wanted[x] /\ data[x] = [by |-> c, len |-> wanted[x]])'
  <2>1. \A x \in Real : x \in held[c] => x # b
    BY <1>3 DEF OwnInv
  <2> QED
    BY <1>1, <1>11, <1>13, <2>1, ClientFacts
<1>18. data'[b].by = c /\ data'[b].len >= Min({call[c].was, n})
  <2>1. data'[b] = [by |-> c, len |-> call[c].was]
    BY <1>0, <1>1, <1>5, ClientFacts
  <2> QED
    BY <1>1, <2>1, MinOfTwo
<1>19. ClientInv(c)'
  BY <1>2, <1>11, <1>16, <1>17, <1>18 DEF ClientInv
<1>20. \A d \in Clients, x \in Real : d # c /\ Owned(d, x) => x # b
  BY <1>3, <1>5 DEF OwnInv
<1> QED
  BY <1>1, <1>2, <1>11, <1>13, <1>14, <1>19, <1>20, ContentStep

\* Copy fills the new block with as much of the old one as fits.
LEMMA CopyContent ==
  ASSUME CallLockInv, MemType, OwnInv, ContentInv, NEW c \in Clients, Copy(c)
  PROVE  ContentInv'
<1> USE DEF CallLockInv
<1>0. PICK b, old, n, was : /\ b = call[c].new /\ old = call[c].ptr
                            /\ n = call[c].size /\ was = call[c].was
  OBVIOUS
<1>1. /\ call[c].pc = "copy" /\ call[c].op = "realloc"
      /\ b \in AllBlocks \cup {Null} /\ old \in AllBlocks /\ old # Null
      /\ n \in Nat /\ n # 0 /\ was \in Nat
      /\ Goto(c, "free") /\ "free" \in PC
      /\ UNCHANGED <<held, hdr, wanted>>
  BY <1>0, Constants DEF Copy, At, CallInv, PC, CallType, CallRecord, memVars
<1>2. /\ call'[c].op = "realloc" /\ call'[c].ptr = old /\ call'[c].pc = "free"
      /\ call'[c].size = n /\ call'[c].was = was /\ call'[c].new = b
      /\ \A d \in Clients : d # c => call'[d] = call[d]
  <2>1. /\ call'[c] = [op |-> call[c].op, pc |-> "free", ptr |-> call[c].ptr,
                       size |-> call[c].size, was |-> call[c].was, new |-> call[c].new]
        /\ \A d \in Clients : d # c => call'[d] = call[d]
    BY <1>1, GotoFields
  <2> QED
    BY <1>0, <1>1, <2>1
<1>3. /\ hdr[old].size = was
      /\ old \in Real => data[old] = [by |-> c, len |-> was]
  BY <1>0, <1>1, ClientFacts
<1>4. was > 0 => old \in Real
  BY <1>1, <1>3, BlockSets DEF ContentInv, ZeroInv
<1>5. b # Null => b \in Real /\ hdr[b].size = n
  <2>1. b # Null => hdr[b].size = n
    BY <1>0 DEF ContentInv, ClientInv
  <2> QED
    BY <1>1, <2>1, BlockSets DEF ContentInv, ZeroInv
<1>6. data' = IF b = Null \/ was = 0 THEN data
              ELSE [data EXCEPT ![b] = [data[old] EXCEPT !.len = Min({@, CopyLength(was, n)})]]
  BY <1>0, <1>3 DEF Copy
<1>7. b # Null => b # old /\ Owned(c, b) /\ InCall(c, b)
  BY <1>0, <1>1 DEF OwnInv, Owned, InCall
<1>8. \A x \in AllBlocks : x # b => data'[x] = data[x]
  BY <1>6 DEF MemType
<1>9. Real \subseteq AllBlocks /\ Zero \in AllBlocks
  BY BlockSets
<1>10. ASSUME b # Null, was > 0
       PROVE  data'[b].by = c /\ data'[b].len >= Min({was, n})
  <2>1. data[old] = [by |-> c, len |-> was]
    BY <1>3, <1>4, <1>10
  <2>2. CopyLength(was, n) = Min({was, n}) /\ Min({was, n}) \in Nat /\ Min({was, n}) <= was
    BY <1>1, MinOfTwo DEF CopyLength
  <2>3. Min({was, Min({was, n})}) \in {was, Min({was, n})}
    BY <1>1, <2>2, MinOfTwo
  <2>4. data'[b] = [data[old] EXCEPT !.len = Min({@, CopyLength(was, n)})]
    BY <1>1, <1>6, <1>10 DEF MemType
  <2>5. data'[b] = [by |-> c, len |-> Min({was, Min({was, n})})]
    BY <2>1, <2>2, <2>4
  <2> QED
    BY <1>1, <2>2, <2>3, <2>5
<1>11. ZeroInv' /\ ZeroInv
  BY <1>1 DEF ContentInv, ZeroInv
<1>12. \A x \in Real : Owned(c, x)' <=> Owned(c, x)
  BY <1>0, <1>1, <1>2 DEF Owned, InCall, At
<1>13. (\A x \in Real : Owned(c, x) => BlockNamed(x))'
  BY <1>1, <1>12, ClientFacts DEF BlockNamed
<1>14. (\A x \in Real : x \in held[c] =>
           hdr[x].size = wanted[x] /\ data[x] = [by |-> c, len |-> wanted[x]])'
  <2>1. \A x \in Real : x \in held[c] => x # b
    BY <1>7, BlockSets DEF OwnInv
  <2> QED
    BY <1>1, <1>8, <1>9, <2>1, ClientFacts
<1>15. hdr'[old].size = was /\ (old \in Real => data'[old] = [by |-> c, len |-> was])
  <2>1. old # b
    BY <1>1, <1>7, Constants
  <2> QED
    BY <1>1, <1>3, <1>8, <2>1
<1>16. ClientInv(c)'
  BY <1>1, <1>2, <1>5, <1>10, <1>13, <1>14, <1>15 DEF ClientInv
<1>17. \A d \in Clients, x \in Real : d # c /\ Owned(d, x) => x # b
  BY <1>7, BlockSets DEF OwnInv
<1> QED
  BY <1>1, <1>2, <1>8, <1>9, <1>11, <1>16, <1>17, ContentStep

\* Free writes into the block that is freed.
LEMMA FreeContent ==
  ASSUME CallLockInv, MemType, OwnInv, ContentInv, NEW c \in Clients, Free(c)
  PROVE  ContentInv'
<1> USE DEF CallLockInv
<1>0. PICK b : b = call[c].ptr
  OBVIOUS
<1>1. /\ call[c].pc = "free" /\ call[c].op \in {"free", "realloc"}
      /\ b \in AllBlocks /\ Goto(c, "ret") /\ "ret" \in PC
      /\ data' = [data EXCEPT ![b] = NoData]
      /\ UNCHANGED <<held, hdr, wanted>>
      /\ call[c].new # Null => call[c].new # b
  BY <1>0 DEF Free, At, CallInv, PC, CallType, CallRecord, OwnInv
<1>2. /\ call'[c].op = call[c].op /\ call'[c].ptr = b /\ call'[c].pc = "ret"
      /\ call'[c].size = call[c].size /\ call'[c].was = call[c].was
      /\ call'[c].new = call[c].new
      /\ \A d \in Clients : d # c => call'[d] = call[d]
  <2>1. /\ call'[c] = [op |-> call[c].op, pc |-> "ret", ptr |-> call[c].ptr,
                       size |-> call[c].size, was |-> call[c].was, new |-> call[c].new]
        /\ \A d \in Clients : d # c => call'[d] = call[d]
    BY <1>1, GotoFields
  <2> QED
    BY <1>0, <2>1
<1>3. Owned(c, b) /\ InCall(c, b)
  BY <1>0, <1>1 DEF Owned, InCall, At
<1>4. \A x \in AllBlocks : x # b => data'[x] = data[x]
  BY <1>1 DEF MemType
<1>5. Real \subseteq AllBlocks /\ Zero \in AllBlocks
  BY BlockSets
<1>6. ZeroInv' /\ ZeroInv
  BY <1>1 DEF ContentInv, ZeroInv
<1>7. \A x \in Real : Owned(c, x)' => Owned(c, x)
  BY <1>0, <1>1, <1>2 DEF Owned, InCall, At
<1>8. (\A x \in Real : Owned(c, x) => BlockNamed(x))'
  BY <1>1, <1>7, ClientFacts DEF BlockNamed
<1>9. (\A x \in Real : x \in held[c] =>
          hdr[x].size = wanted[x] /\ data[x] = [by |-> c, len |-> wanted[x]])'
  <2>1. \A x \in Real : x \in held[c] => x # b
    BY <1>3 DEF OwnInv
  <2> QED
    BY <1>1, <1>4, <1>5, <2>1, ClientFacts
<1>10. /\ call[c].new # Null => hdr[call[c].new].size = call[c].size
       /\ call[c].op = "realloc" /\ call[c].new # Null /\ call[c].was > 0 =>
             data[call[c].new].by = c /\ data[call[c].new].len >= Min({call[c].was, call[c].size})
  BY <1>1 DEF ContentInv, ClientInv
<1>11. call[c].new # Null => data'[call[c].new] = data[call[c].new]
  BY <1>1, <1>4 DEF CallType, CallRecord
<1>12. /\ call[c].new # Null => hdr'[call[c].new].size = call[c].size
       /\ call[c].op = "realloc" /\ call[c].new # Null /\ call[c].was > 0 =>
             /\ data'[call[c].new].by = c
             /\ data'[call[c].new].len >= Min({call[c].was, call[c].size})
  BY <1>1, <1>10, <1>11
<1>13. ClientInv(c)'
  BY <1>2, <1>8, <1>9, <1>12 DEF ClientInv
<1>14. \A d \in Clients, x \in Real : d # c /\ Owned(d, x) => x # b
  BY <1>3 DEF OwnInv
<1> QED
  BY <1>1, <1>2, <1>4, <1>5, <1>6, <1>13, <1>14, ContentStep

\* The thread fills the block that is returned, and what it wants of it is its size.
LEMMA ReturnContent ==
  ASSUME CallLockInv, MemType, OwnInv, ContentInv, NEW c \in Clients, Return(c)
  PROVE  ContentInv'
<1> USE DEF CallLockInv
<1>0. PICK b, n : b = call[c].new /\ n = call[c].size
  OBVIOUS
<1>1. /\ call[c].pc = "ret" /\ call' = [call EXCEPT ![c] = NoCall] /\ hdr' = hdr
      /\ b \in AllBlocks \cup {Null} /\ n \in Sizes \cup {0}
      /\ held' = IF b = Null THEN held ELSE [held EXCEPT ![c] = @ \cup {b}]
      /\ wanted' = IF b = Null THEN wanted ELSE [wanted EXCEPT ![b] = n]
      /\ data' = IF b = Null \/ n = 0 THEN data
                 ELSE [data EXCEPT ![b] = [by |-> c, len |-> n]]
  BY <1>0 DEF Return, At, CallType, CallRecord, memVars
<1>2. /\ call'[c] = NoCall
      /\ \A d \in Clients : d # c => call'[d] = call[d]
  BY <1>1 DEF CallType
<1>3. /\ held'[c] = IF b = Null THEN held[c] ELSE held[c] \cup {b}
      /\ \A d \in Clients : d # c => held'[d] = held[d]
  BY <1>1 DEF HeldType
<1>4. b # Null => hdr[b].size = n /\ wanted'[b] = n
  BY <1>0, <1>1 DEF ContentInv, ClientInv, WantedType
<1>5. \A x \in AllBlocks : x # b => data'[x] = data[x] /\ wanted'[x] = wanted[x]
  BY <1>1 DEF MemType, WantedType
<1>6. Real \subseteq AllBlocks /\ Zero \in AllBlocks /\ Zero # Null
  BY BlockSets, Constants
<1>7. ZeroInv' /\ ZeroInv
  BY <1>1, <1>4, <1>5, <1>6 DEF ContentInv, ZeroInv
<1>8. b \in Real => n # 0
  <2>1. call[c].op \in {"none", "alloc", "realloc", "free"}
    BY DEF CallType, CallRecord
  <2> QED
    BY <1>0, <1>1, <2>1, BlockSets DEF CallInv
<1>9. b \in Real => data'[b] = [by |-> c, len |-> n]
  BY <1>1, <1>6, <1>8, BlockSets DEF MemType
<1>10. \A x \in Real : Owned(c, x)' => Owned(c, x)
  BY <1>0, <1>1, <1>2, <1>3, BlockSets DEF Owned, InCall, At, NoCall
<1>11. (\A x \in Real : Owned(c, x) => BlockNamed(x))'
  BY <1>1, <1>10, ClientFacts DEF BlockNamed
<1>12. (\A x \in Real : x \in held[c] =>
           hdr[x].size = wanted[x] /\ data[x] = [by |-> c, len |-> wanted[x]])'
  <2>1. ASSUME NEW x \in Real, x \in held'[c]
        PROVE  hdr'[x].size = wanted'[x] /\ data'[x] = [by |-> c, len |-> wanted'[x]]
    <3>1. CASE x = b
      BY <1>1, <1>4, <1>9, <3>1, BlockSets
    <3>2. CASE x # b
      <4>1. x \in held[c] /\ hdr'[x] = hdr[x] /\ wanted'[x] = wanted[x] /\ data'[x] = data[x]
        BY <1>1, <1>3, <1>5, <1>6, <2>1, <3>2
      <4> QED
        BY <4>1, ClientFacts
    <3> QED
      BY <3>1, <3>2
  <2> QED
    BY <2>1
<1>13. ClientInv(c)'
  BY <1>2, <1>11, <1>12 DEF ClientInv, NoCall
<1>14. \A d \in Clients, x \in Real : d # c /\ Owned(d, x) => x # b
  BY <1>0 DEF OwnInv, Owned, InCall
<1> QED
  BY <1>1, <1>2, <1>3, <1>5, <1>6, <1>7, <1>13, <1>14, ContentStep

-----------------------------------------------------------------------------
(* The types of pools, memory and headers *)

\* Take makes a pool, takes one of its blocks and writes a header.
LEMMA TakeMem ==
  ASSUME CallLockInv, MemType, NEW c \in Clients, Take(c)
  PROVE  MemType'
<1>0. PICK p, n : p = PoolFor(call[c].size) /\ n = call[c].size
  OBVIOUS
<1>1. n \in 1 .. MaxPooled /\ p \in Pools /\ p \in 0 .. Len(Capacity)
  BY <1>0, PoolForSize DEF CallLockInv, CallInv, Take, At, Pools
<1>2. n % Wrap \in Nat
  BY <1>1, Widths, Constants, SmallModulo
<1>3. pools' = pools \cup {p} /\ UNCHANGED <<pooled, heap, data>>
  BY <1>0 DEF Take
<1>4. ASSUME NEW k \in free[p], free' = Taken(p, k),
             hdr' = [hdr EXCEPT ![<<p, k>>] = PoolHeader(p, k, n)]
      PROVE  MemType'
  <2>1. k \in 0 .. BlocksPerPool
    BY <1>1, ManagerAssumption DEF MemType
  <2>2. PoolHeader(p, k, n) \in Header
    BY <1>1, <1>2, <2>1 DEF PoolHeader, Header
  <2>3. hdr' \in [AllBlocks -> Header]
    BY <1>4, <2>2 DEF MemType
  <2>4. free' \in [Pools -> SUBSET (0 .. BlocksPerPool - 1)]
    BY <1>4 DEF MemType, Taken
  <2> QED
    BY <1>1, <1>3, <2>3, <2>4 DEF MemType
<1>5. CASE UNCHANGED <<free, hdr>>
  BY <1>1, <1>3, <1>5 DEF MemType
<1> QED
  BY <1>0, <1>4, <1>5, TakeFields

\* The other steps of a call write values of the right types, too.
LEMMA OtherMem ==
  ASSUME CallLockInv, MemType, OwnInv, ContentInv, NEW c \in Clients,
         AllocDefault(c) \/ ResizeInPlace(c) \/ Copy(c) \/ Free(c) \/ Return(c)
  PROVE  MemType'
<1>0. PICK n, b, new : n = call[c].size /\ b = call[c].ptr /\ new = call[c].new
  OBVIOUS
<1>1. /\ n \in Nat /\ b \in AllBlocks \cup {Null} /\ new \in AllBlocks \cup {Null}
  BY <1>0, Constants DEF CallLockInv, CallType, CallRecord
<1>2. CASE AllocDefault(c)
  <2>1. DefaultHeader(n) \in Header
    BY <1>1, ManagerAssumption, Constants DEF DefaultHeader, Header
  <2>2. UNCHANGED <<pooled, pools, free, data>>
    BY <1>2 DEF AllocDefault
  <2>3. PICK d \in DefaultBlocks \cup {Null} :
          /\ d # Null =>
               /\ heap' = [heap EXCEPT ![d] = IF n >= VirtualMin THEN "virtual" ELSE "heap"]
               /\ hdr' = [hdr EXCEPT ![d] = DefaultHeader(n)]
          /\ d = Null => UNCHANGED <<heap, hdr>>
    BY <1>0, <1>2, AllocDefaultFields
  <2>4. heap' \in [DefaultBlocks -> {"none", "heap", "virtual", "corrupt"}]
    BY <2>3 DEF MemType
  <2>5. hdr' \in [AllBlocks -> Header]
    BY <2>1, <2>3 DEF MemType
  <2> QED
    BY <2>2, <2>4, <2>5 DEF MemType
<1>3. CASE ResizeInPlace(c)
  <2>1. n % Wrap \in Nat
    BY <1>1, Widths, SmallModulo
  <2>2. hdr' = [hdr EXCEPT ![b] = [hdr[b] EXCEPT !.size = n % Wrap]]
        /\ UNCHANGED <<pooled, pools, free, heap, data>>
    BY <1>0, <1>3 DEF ResizeInPlace, Resized
  <2> QED
    BY <2>1, <2>2 DEF MemType, Header
<1>4. CASE Copy(c)
  <2>1. b \in AllBlocks /\ UNCHANGED <<pooled, pools, free, heap, hdr>>
    BY <1>0, <1>1, <1>4 DEF Copy, At, CallLockInv, CallInv, memVars
  <2>2. hdr[b].size \in Nat /\ data[b].len \in Nat
    BY <2>1 DEF MemType, Header
  <2>3. CopyLength(hdr[b].size, n) \in Nat
    BY <1>1, <2>2, MinOfTwo DEF CopyLength
  <2>4. Min({data[b].len, CopyLength(hdr[b].size, n)}) \in Nat
    BY <2>2, <2>3, MinOfTwo
  <2>5. data' = data
        \/ data' = [data EXCEPT ![new] = [data[b] EXCEPT
                       !.len = Min({data[b].len, CopyLength(hdr[b].size, n)})]]
    BY <1>0, <1>4 DEF Copy
  <2>6. data' \in [AllBlocks -> [by : Clients \cup {Nobody}, len : Nat]]
    BY <2>1, <2>4, <2>5 DEF MemType
  <2> QED
    BY <2>1, <2>6 DEF MemType
<1>5. CASE Free(c)
  <2>1. /\ b \in AllBlocks /\ Owned(c, b) /\ UNCHANGED <<pooled, pools, hdr>>
        /\ data' = [data EXCEPT ![b] = NoData]
        /\ IF hdr[b].kind = "default"
           THEN heap' = (IF b = Zero THEN heap ELSE FreeDefault(b)) /\ free' = free
           ELSE free' = [free EXCEPT ![hdr[b].pool] = @ \cup {hdr[b].id}] /\ heap' = heap
    <3>1. call[c].pc = "free" /\ b \in AllBlocks
      BY <1>0, <1>1, <1>5 DEF Free, At, CallLockInv, CallInv, CallType, CallRecord
    <3>2. Owned(c, b)
      BY <1>0, <3>1 DEF Owned, InCall, At
    <3> QED
      BY <1>0, <1>5, <3>1, <3>2 DEF Free
  <2>2. heap' \in [DefaultBlocks -> {"none", "heap", "virtual", "corrupt"}]
    BY <2>1 DEF MemType, FreeDefault, AlignedFree
  <2>3. CASE hdr[b].kind = "default"
    BY <2>1, <2>2, <2>3 DEF MemType, NoData
  <2>4. CASE hdr[b].kind # "default"
    <3>1. b \in Real /\ BlockNamed(b)
      BY <2>1, <2>4, BlockSets, ClientFacts DEF ContentInv, ZeroInv
    <3>2. hdr[b].pool \in Pools /\ hdr[b].id \in 0 .. BlocksPerPool - 1
      BY <2>4, <3>1, BlockSets DEF BlockNamed, Real
    <3>3. free' \in [Pools -> SUBSET (0 .. BlocksPerPool - 1)]
      BY <2>1, <2>4, <3>2 DEF MemType
    <3> QED
      BY <2>1, <2>2, <3>3 DEF MemType, NoData
  <2> QED
    BY <2>3, <2>4
<1>6. CASE Return(c)
  BY <1>0, <1>1, <1>6 DEF Return, MemType, memVars
<1> QED
  BY <1>2, <1>3, <1>4, <1>5, <1>6

-----------------------------------------------------------------------------
(* The invariant *)

\* Where the calls are and who has the lock; who has which block; what the headers
\* say and the blocks hold.  Each part needs the ones before: a free block is found by
\* a call with the lock, and freed by the header that its one owner left alone.
IInv == CallLockInv /\ MemType /\ OwnInv /\ ContentInv

\* It holds at the start.
LEMMA InitInv ==
  ASSUME Init
  PROVE  IInv
<1>1. Zero \in AllBlocks /\ Nobody \notin Clients /\ Null \notin AllBlocks
  BY Constants
<1>2. CallLockInv
  BY <1>1 DEF Init, CallLockInv, CallType, CallRecord, WantedType, HeldType, CallInv, LockInv,
              NoCall, PC
<1>3. MemType
  <2>1. pools \subseteq Pools /\ pooled \in BOOLEAN
    BY ManagerAssumption DEF Init
  <2>2. hdr \in [AllBlocks -> Header]
    BY ManagerAssumption, Constants DEF Init, Header, DefaultHeader
  <2> QED
    BY <2>1, <2>2 DEF Init, MemType, NoData
<1>4. \A c \in Clients, b \in Real : ~Owned(c, b)
  BY BlockSets DEF Init, Owned, InCall, NoCall
<1>5. OwnInv
  <2>1. BlocksAccounted
    BY <1>4, BlockSets DEF Init, BlocksAccounted, Real
  <2> QED
    BY <1>4, <2>1 DEF OwnInv, Init, NoCall, Owned, Real
<1>6. ContentInv
  BY <1>1, <1>4 DEF ContentInv, ClientInv, ZeroInv, Init, NoCall, DefaultHeader, Owned
<1> QED
  BY <1>2, <1>3, <1>5, <1>6 DEF IInv

\* The three steps in the middle of a call that only take the lock or go on.
LEMMA AdvanceInv ==
  ASSUME IInv, NEW c \in Clients, EnterCall(c) \/ EnterAlloc(c) \/ ResizeByMove(c)
  PROVE  IInv'
<1> USE DEF IInv
<1>1. CallLockInv'
  BY EnterCallLock, EnterAllocLock, ResizeLock
<1>2. PICK pc \in {"free", "resize", "take", "default", "lock"} :
        Goto(c, pc) /\ (call[c].op = "realloc" => pc # "free")
  <2>1. CASE EnterCall(c)
    BY <2>1 DEF EnterCall
  <2>2. CASE EnterAlloc(c)
    BY <2>2 DEF EnterAlloc
  <2>3. CASE ResizeByMove(c)
    <3>1. call[c].size \in Sizes \cup {0} /\ call[c].size # 0
      BY <2>3 DEF ResizeByMove, At, CallLockInv, CallInv, CallType, CallRecord
    <3>2. Route(call[c].size) \in {"default", "lock"}
      BY <3>1, RouteOf
    <3> QED
      BY <2>3, <3>2 DEF ResizeByMove
  <2> QED
    BY <2>1, <2>2, <2>3
<1>3. /\ call[c].pc # "ret"
      /\ UNCHANGED <<pooled, pools, free, heap, hdr, held, data, wanted>>
  BY DEF EnterCall, EnterAlloc, ResizeByMove, Acquire, At, memVars
<1>4. pc \in PC
  BY DEF PC
<1>5. /\ call'[c] = [op |-> call[c].op, pc |-> pc, ptr |-> call[c].ptr,
                     size |-> call[c].size, was |-> call[c].was, new |-> call[c].new]
      /\ \A d \in Clients : d # c => call'[d] = call[d]
  BY <1>2, <1>4, GotoFields DEF CallLockInv
<1>6. OwnInv'
  BY <1>2, <1>3, <1>5, AdvanceOwn
<1>7. ContentInv'
  BY <1>2, <1>3, <1>5, AdvanceContent
<1>8. MemType'
  BY <1>3 DEF MemType
<1> QED
  BY <1>1, <1>6, <1>7, <1>8

\* Every step keeps it.
LEMMA NextInv ==
  ASSUME IInv, [Next]_vars
  PROVE  IInv'
<1> USE DEF IInv
<1>1. CASE UNCHANGED vars
  <2> USE <1>1 DEF vars, memVars
  <2>1. CallLockInv'
    BY DEF CallLockInv, CallType, WantedType, HeldType, CallInv, LockInv
  <2>2. MemType'
    BY DEF MemType
  <2>3. \A c \in Clients, b \in Real : Owned(c, b)' <=> Owned(c, b)
    BY DEF Owned, InCall, At
  <2>4. OwnInv'
    BY <2>3, OwnersKept DEF OwnInv, InCall, At
  <2>5. ZeroInv' /\ ZeroInv
    BY DEF ContentInv, ZeroInv
  <2>6. ContentInv'
    BY <2>5, OthersKept DEF ContentInv
  <2> QED
    BY <2>1, <2>2, <2>4, <2>6
<1>2. ASSUME NEW c \in Clients, StartAlloc(c)
      PROVE  IInv'
  <2>1. MemType'
    BY <1>2 DEF StartAlloc, Begin, memVars, MemType
  <2> QED
    BY <1>2, <2>1, StartAllocLock, StartAllocOwn, StartAllocContent
<1>3. ASSUME NEW c \in Clients, StartRealloc(c) \/ StartFree(c)
      PROVE  IInv'
  <2>1. MemType'
    BY <1>3 DEF StartRealloc, StartFree, Begin, memVars, MemType
  <2> QED
    BY <1>3, <2>1, StartOtherLock, StartOtherOwn, StartOtherContent
<1>4. ASSUME NEW c \in Clients, EnterCall(c) \/ EnterAlloc(c) \/ ResizeByMove(c)
      PROVE  IInv'
  BY <1>4, AdvanceInv
<1>5. ASSUME NEW c \in Clients, Take(c)
      PROVE  IInv'
  BY <1>5, TakeLock, TakeMem, TakeOwn, TakeContent
<1>6. ASSUME NEW c \in Clients, AllocDefault(c)
      PROVE  IInv'
  BY <1>6, AllocDefaultLock, OtherMem, AllocDefaultOwn, AllocDefaultContent
<1>7. ASSUME NEW c \in Clients, ResizeInPlace(c)
      PROVE  IInv'
  BY <1>7, ResizeLock, OtherMem, ResizeInPlaceOwn, ResizeInPlaceContent
<1>8. ASSUME NEW c \in Clients, Copy(c)
      PROVE  IInv'
  <2>1. call[c].pc = "copy" /\ Goto(c, "free") /\ "free" \in PC
        /\ UNCHANGED <<free, heap, held>>
    BY <1>8 DEF Copy, At, PC, memVars
  <2>2. /\ call'[c] = [op |-> call[c].op, pc |-> "free", ptr |-> call[c].ptr,
                       size |-> call[c].size, was |-> call[c].was, new |-> call[c].new]
        /\ \A d \in Clients : d # c => call'[d] = call[d]
    BY <2>1, GotoFields DEF CallLockInv
  <2>3. OwnInv'
    BY <2>1, <2>2, AdvanceOwn
  <2> QED
    BY <1>8, <2>3, CopyLock, OtherMem, CopyContent
<1>9. ASSUME NEW c \in Clients, Free(c)
      PROVE  IInv'
  BY <1>9, FreeLock, OtherMem, FreeOwn, FreeContent
<1>10. ASSUME NEW c \in Clients, Return(c)
       PROVE  IInv'
  BY <1>10, ReturnLock, OtherMem, ReturnOwn, ReturnContent
<1> QED
  BY <1>1, <1>2, <1>3, <1>4, <1>5, <1>6, <1>7, <1>8, <1>9, <1>10 DEF Next, Continue

\* The invariant of every run of the manager.
THEOREM ManagerInvariant == Spec => []IInv
BY InitInv, NextInv, PTL DEF Spec

-----------------------------------------------------------------------------
(* The properties of the manager *)

\* Every variable keeps its type: the lock is never entered a third time, a freed
\* block goes back to a pool that exists.
THEOREM ManagerTypeCorrect == Spec => []TypeOK
<1>1. IInv => TypeOK
  <2> SUFFICES ASSUME IInv
               PROVE  TypeOK
    OBVIOUS
  <2>1. wanted \in [AllBlocks -> Nat]
    BY Constants DEF IInv, CallLockInv, WantedType
  <2>2. call \in [Clients -> [op : {"none", "alloc", "realloc", "free"},
                             pc : PC, ptr : AllBlocks \cup {Null},
                             size : Sizes \cup {0}, was : Sizes \cup {0},
                             new : AllBlocks \cup {Null}]]
    BY DEF IInv, CallLockInv, CallType, CallRecord
  <2> QED
    BY <2>1, <2>2 DEF IInv, CallLockInv, HeldType, LockInv, MemType, TypeOK
<1> QED
  BY <1>1, ManagerInvariant, PTL

\* Pools, headers and frees are touched with the lock held, and no call returns with
\* it, whatever the number of threads.
THEOREM LockDisciplineHolds == Spec => []LockDiscipline
<1>1. IInv => LockDiscipline
  BY DEF IInv, CallLockInv, LockInv, LockDiscipline, At
<1> QED
  BY <1>1, ManagerInvariant, PTL

\* No path through alloc, realloc and free loses a block of a pool or frees it early.
THEOREM EveryBlockAccounted == Spec => []BlocksAccounted
<1>1. IInv => BlocksAccounted
  BY DEF IInv, OwnInv
<1> QED
  BY <1>1, ManagerInvariant, PTL

\* The header of a block that a thread has, or that its call works on, names that
\* block, and its size field is wide enough.
THEOREM HeadersAreTrue == Spec => []HeadersTrue
<1>1. IInv => HeadersTrue
  <2> SUFFICES ASSUME IInv, NEW c \in Clients, NEW b \in AllBlocks, Owned(c, b)
               PROVE  /\ b \in PoolBlocks =>
                            /\ hdr[b].kind = "pool" /\ hdr[b].pool = b[1] /\ hdr[b].id = b[2]
                            /\ hdr[b].size <= Capacity[b[1]]
                      /\ b \notin PoolBlocks => hdr[b].kind = "default"
                      /\ b \in held[c] => hdr[b].size = wanted[b]
    BY DEF HeadersTrue
  <2> USE DEF IInv
  <2>1. CASE b = Zero
    BY <2>1, BlockSets DEF ContentInv, ZeroInv, Real
  <2>2. CASE b # Zero
    <3>1. b \in Real
      BY <2>2, BlockSets
    <3>2. BlockNamed(b) /\ (b \in held[c] => hdr[b].size = wanted[b])
      BY <3>1, ClientFacts
    <3> QED
      BY <3>1, <3>2 DEF BlockNamed, Real
  <2> QED
    BY <2>1, <2>2
<1> QED
  BY <1>1, ManagerInvariant, PTL

\* What a thread wrote stays until it passes the block back.
THEOREM ContentsStay == Spec => []ContentsKept
<1>1. IInv => ContentsKept
  <2>1. IInv => \A c \in Clients : held[c] \ {Zero} \subseteq Real
    BY BlockSets DEF IInv, CallLockInv, HeldType
  <2> QED
    BY <2>1, ClientFacts DEF IInv, ContentsKept
<1> QED
  BY <1>1, ManagerInvariant, PTL

\* realloc returns the old contents, also when it has moved the block.
THEOREM ReallocCopies == Spec => []ReallocKeepsContents
<1>1. IInv => ReallocKeepsContents
  BY DEF IInv, ContentInv, ClientInv, ReallocKeepsContents
<1> QED
  BY <1>1, ManagerInvariant, PTL

\* A thread's blocks change only when it passes one back or receives one, and then
\* nobody else has it: the manager keeps an allocator's promise.
LEMMA PromiseStep ==
  ASSUME IInv, [Next]_vars
  PROVE  [Promise!AllocNext]_([c \in Clients |-> held[c] \ {Zero}])
<1> DEFINE owned == [c \in Clients |-> held[c] \ {Zero}]
<1> SUFFICES Promise!AllocNext \/ owned' = owned
  OBVIOUS
<1> USE DEF IInv, CallLockInv
<1>1. AllBlocks \ {Zero} = Real
  BY BlockSets
<1>2. CASE held' = held
  BY <1>2
<1>3. ASSUME NEW c \in Clients, StartRealloc(c) \/ StartFree(c)
      PROVE  Promise!AllocNext \/ owned' = owned
  <2>1. PICK b \in held[c] : held' = [held EXCEPT ![c] = @ \ {b}]
    BY <1>3 DEF StartRealloc, StartFree, PassBack
  <2>2. owned' = [owned EXCEPT ![c] = @ \ {b}]
    BY <2>1 DEF HeldType
  <2>3. CASE b = Zero
    BY <2>1, <2>3 DEF HeldType
  <2>4. CASE b # Zero
    <3>1. b \in owned[c] /\ b \in AllBlocks \ {Zero}
      BY <2>4 DEF HeldType
    <3> QED
      BY <2>2, <3>1 DEF Promise!AllocNext, Promise!HandBack
  <2> QED
    BY <2>3, <2>4
<1>4. ASSUME NEW c \in Clients, Return(c)
      PROVE  Promise!AllocNext \/ owned' = owned
  <2>1. PICK b \in AllBlocks \cup {Null} :
           /\ b = call[c].new
           /\ held' = IF b = Null THEN held ELSE [held EXCEPT ![c] = @ \cup {b}]
    BY <1>4 DEF Return, CallType, CallRecord
  <2>2. CASE b \in {Null, Zero}
    BY <2>1, <2>2 DEF HeldType
  <2>3. CASE b \notin {Null, Zero}
    <3>1. b \in Real /\ b \in AllBlocks \ {Zero}
      BY <1>1, <2>1, <2>3
    <3>2. InCall(c, b)
      BY <2>1 DEF InCall
    <3>3. \A d \in Clients : b \notin held[d]
      BY <3>1, <3>2 DEF OwnInv, Owned
    <3>4. \A d \in Clients : b \notin owned[d]
      BY <3>3
    <3>5. owned' = [owned EXCEPT ![c] = @ \cup {b}]
      BY <2>1, <2>3 DEF HeldType
    <3> QED
      BY <3>1, <3>4, <3>5 DEF Promise!AllocNext, Promise!Receive
  <2> QED
    BY <2>2, <2>3
<1>5. ASSUME NEW c \in Clients,
             StartAlloc(c) \/ EnterCall(c) \/ EnterAlloc(c) \/ Take(c) \/ AllocDefault(c)
               \/ ResizeInPlace(c) \/ ResizeByMove(c) \/ Copy(c) \/ Free(c)
      PROVE  held' = held
  BY <1>5 DEF StartAlloc, EnterCall, EnterAlloc, Acquire, Take, AllocDefault, ResizeInPlace,
              ResizeByMove, Copy, Free
<1>6. UNCHANGED vars => held' = held
  BY DEF vars
<1> HIDE DEF owned
<1> QED
  BY <1>2, <1>3, <1>4, <1>5, <1>6 DEF Next, Continue

\* No two threads ever have the same block.
THEOREM ManagerKeepsPromise == Spec => ImplementsAllocator
<1>1. Init => Promise!AllocInit
  BY DEF Init, Promise!AllocInit
<1>2. IInv /\ [Next]_vars => [Promise!AllocNext]_([c \in Clients |-> held[c] \ {Zero}])
  BY PromiseStep
<1> QED
  BY <1>1, <1>2, ManagerInvariant, PTL DEF Spec, ImplementsAllocator, Promise!AllocSpec

-----------------------------------------------------------------------------
(* What a block's memory is given back by *)

\* The size in a block's header tells what its memory came from.
SourceInv == \A b \in DefaultBlocks :
    /\ heap[b] # "corrupt"
    /\ heap[b] = "heap" => hdr[b].size < VirtualMin
    /\ heap[b] = "virtual" => hdr[b].size >= VirtualMin /\ hdr[b].size < Wrap

\* Only AllocDefault writes memory or headers of such blocks ...
LEMMA SourceKept ==
  ASSUME IInv, SourceInv, [Next]_vars,
         \A c \in Clients : ~AllocDefault(c) /\ ~Free(c)
  PROVE  SourceInv'
<1> USE DEF IInv
<1>1. heap' = heap
  BY DEF Next, Continue, StartAlloc, StartRealloc, StartFree, Begin, EnterCall, EnterAlloc,
         Acquire, Take, ResizeInPlace, ResizeByMove, Copy, Return, vars, memVars
<1>2. \A b \in DefaultBlocks : hdr'[b] = hdr[b]
  <2>1. DefaultBlocks \subseteq AllBlocks
    BY DEF AllBlocks
  <2>2. CASE hdr' = hdr
    BY <2>2
  <2>3. ASSUME NEW c \in Clients, Take(c)
        PROVE  \A b \in DefaultBlocks : hdr'[b] = hdr[b]
    <3>0. PICK p, n : p = PoolFor(call[c].size) /\ n = call[c].size
      OBVIOUS
    <3>1. ASSUME NEW k, <<p, k>> \in PoolBlocks,
                 hdr' = [hdr EXCEPT ![<<p, k>>] = PoolHeader(p, k, n)]
          PROVE  \A b \in DefaultBlocks : hdr'[b] = hdr[b]
      BY <2>1, <3>1, BlockSets DEF MemType
    <3> QED
      BY <2>3, <3>0, <3>1, TakeFields
  <2>4. ASSUME NEW c \in Clients, ResizeInPlace(c)
        PROVE  \A b \in DefaultBlocks : hdr'[b] = hdr[b]
    <3>1. PICK x : x = call[c].ptr
      OBVIOUS
    <3>2. hdr[x].kind = "pool" /\ Owned(c, x)
          /\ hdr' = [hdr EXCEPT ![x] = Resized(@, call[c].size)]
      BY <2>4, <3>1 DEF ResizeInPlace, Fits, Owned, InCall, At
    <3>3. x \notin DefaultBlocks
      <4>1. x \in DefaultBlocks => BlockNamed(x)
        BY <3>2, ClientFacts DEF Real
      <4> QED
        BY <3>2, <4>1 DEF BlockNamed
    <3> QED
      BY <2>1, <3>2, <3>3 DEF MemType
  <2>5. CASE Next /\ \A c \in Clients : ~Take(c) /\ ~ResizeInPlace(c)
    BY <2>5 DEF Next, Continue, StartAlloc, StartRealloc, StartFree, Begin, EnterCall,
         EnterAlloc, Acquire, ResizeByMove, Copy, Return, memVars
  <2>6. CASE UNCHANGED vars
    BY <2>6 DEF vars, memVars
  <2> QED
    BY <2>3, <2>4, <2>5, <2>6
<1> QED
  BY <1>1, <1>2 DEF SourceInv

\* ... and a block that is freed was allocated.
LEMMA SourceStep ==
  ASSUME \A n \in Sizes : n < Wrap, IInv, SourceInv, [Next]_vars
  PROVE  SourceInv'
<1> USE DEF IInv
<1>1. VirtualMin \in Nat /\ Wrap \in Nat /\ Wrap > 0 /\ VirtualMin < Wrap
      /\ DefaultBlocks \subseteq AllBlocks
  BY ManagerAssumption, Widths DEF AllBlocks
<1>2. ASSUME NEW c \in Clients, AllocDefault(c)
      PROVE  SourceInv'
  <2>0. PICK n : n = call[c].size
    OBVIOUS
  <2>1. n \in Nat /\ n < Wrap
    BY <1>1, <2>0, Constants DEF CallLockInv, CallType, CallRecord
  <2>2. PICK b \in DefaultBlocks \cup {Null} :
          /\ b # Null =>
               /\ heap' = [heap EXCEPT ![b] = IF n >= VirtualMin THEN "virtual" ELSE "heap"]
               /\ hdr' = [hdr EXCEPT ![b] = DefaultHeader(n)]
          /\ b = Null => UNCHANGED <<heap, hdr>>
    BY <1>2, <2>0, AllocDefaultFields
  <2>3. CASE b = Null
    BY <2>2, <2>3 DEF SourceInv
  <2>4. CASE b # Null
    <3>1. /\ heap'[b] = IF n >= VirtualMin THEN "virtual" ELSE "heap"
          /\ hdr'[b].size = n
          /\ \A x \in DefaultBlocks : x # b => heap'[x] = heap[x] /\ hdr'[x] = hdr[x]
      BY <1>1, <2>2, <2>4 DEF MemType, DefaultHeader
    <3> QED
      BY <1>1, <2>1, <3>1 DEF SourceInv
  <2> QED
    BY <2>3, <2>4
<1>3. ASSUME NEW c \in Clients, Free(c)
      PROVE  SourceInv'
  <2>0. PICK b : b = call[c].ptr
    OBVIOUS
  <2>1. hdr' = hdr /\ Owned(c, b)
        /\ (heap' = heap \/ (b # Zero /\ hdr[b].kind = "default" /\ heap' = FreeDefault(b)))
    BY <1>3, <2>0 DEF Free, At, Owned, InCall
  <2>2. CASE heap' = heap
    BY <2>1, <2>2 DEF SourceInv
  <2>3. CASE b # Zero /\ hdr[b].kind = "default" /\ heap' = FreeDefault(b)
    <3>1. b \in DefaultBlocks
      <4>1. b \in Real
        BY <1>3, <2>0, <2>3, BlockSets DEF Free, At, CallLockInv, CallInv, CallType, CallRecord
      <4>2. BlockNamed(b)
        BY <2>1, <4>1, ClientFacts
      <4> QED
        BY <2>3, <4>1, <4>2 DEF BlockNamed, Real
    <3>2. heap[b] \in {"heap", "virtual"} /\ hdr[b].size \in Nat
      BY <1>1, <2>1, <3>1 DEF OwnInv, SourceInv, MemType, Header
    <3>3. hdr[b].size < Wrap
      BY <1>1, <3>1, <3>2 DEF SourceInv
    <3>4. LowSize(b) = hdr[b].size
      BY <1>1, <3>2, <3>3, SmallModulo DEF LowSize
    <3>5. CASE heap[b] = "virtual"
      BY <2>1, <2>3, <3>1, <3>4, <3>5
        DEF SourceInv, FreeDefault, FreesByVirtualFree
    <3>6. CASE heap[b] = "heap"
      <4>1. heap' = heap \/ heap' = [heap EXCEPT ![b] = "none"]
        BY <2>3, <3>6 DEF FreeDefault, AlignedFree
      <4> QED
        BY <2>1, <3>1, <4>1 DEF SourceInv, MemType
    <3> QED
      BY <3>2, <3>5, <3>6
  <2> QED
    BY <2>1, <2>2, <2>3
<1>4. CASE \A c \in Clients : ~AllocDefault(c) /\ ~Free(c)
  BY <1>4, SourceKept
<1> QED
  BY <1>2, <1>3, <1>4

\* Memory is given back by the function that belongs to the one it came from, if all
\* sizes fit a field of 32 bits; free reads only that much of a larger one.
THEOREM DeallocatorIsRight ==
  ASSUME \A n \in Sizes : n < Wrap
  PROVE  Spec => []RightDeallocator
<1>1. Init => SourceInv
  BY DEF Init, SourceInv
<1>2. IInv /\ SourceInv /\ [Next]_vars => SourceInv'
  BY SourceStep
<1>3. SourceInv => RightDeallocator
  BY DEF SourceInv, RightDeallocator
<1> QED
  BY <1>1, <1>2, <1>3, ManagerInvariant, PTL DEF Spec
=============================================================================
