------------------------- MODULE VmmLifetimeProofs --------------------------
(***************************************************************************)
(* The safety invariants of VmmLifetime, for any number of threads.  That  *)
(* a shutdown ends is a liveness property, and checked by TLC only.        *)
(***************************************************************************)
EXTENDS VmmLifetime, TLAPS

\* What keeps the caching thread and the object together: the thread runs only
\* while there is an object, has ended exactly when it has answered, and pools
\* are deleted only with the object.
ThreadInv ==
    /\ worker \notin {"none", "done"} => manager \in {"alive", "closing"}
    /\ doneEvent <=> worker = "done"
    /\ closeEvent => manager \in {"closing", "dead"}
    /\ worker \in {"signal", "done"} => closeEvent
    /\ manager \in {"alive", "closing"} => pools # "dead"

\* The owner of the lock is who is among the pools; a lock without its critical
\* section has none.
LockInv ==
    /\ locks => (worker = "push" <=> lock = Worker)
    /\ locks => \A c \in Clients : client[c] = "pools" <=> lock = c
    /\ ~locks => lock = Nobody

\* The inductive invariant.
IInv == TypeOK /\ ThreadInv /\ LockInv

\* Before the first start there is no thread and no owner of the lock.
LEMMA InitIInv == Init => IInv
<1> SUFFICES ASSUME Init PROVE IInv
  OBVIOUS
<1> USE LifetimeAssumption
<1>1. TypeOK
  BY DEF Init, TypeOK
<1>2. ThreadInv /\ LockInv
  BY DEF Init, ThreadInv, LockInv
<1> QED
  BY <1>1, <1>2 DEF IInv

\* No step of the constructor or destructor finds a thread at work that it does
\* not wait for.
LEMMA ObjectStep ==
  ASSUME IInv, (\E failure \in Failures : Construct(failure)) \/ BeginShutdown \/ EndShutdown
  PROVE  IInv'
<1> USE LifetimeAssumption DEF IInv, objectVars
<1>1. ASSUME NEW failure \in Failures, Construct(failure)
      PROVE  IInv'
  <2>1. worker \in {"none", "done"} /\ worker' \in {"none", "lock"}
        /\ manager' = "alive" /\ closeEvent' = FALSE /\ doneEvent' = FALSE
        /\ lock' = Nobody /\ client' = client /\ pools' \in {"null", "alive"}
        /\ locks' \in BOOLEAN
    BY <1>1 DEF Construct, NewEvents, TypeOK, ThreadInv
  <2>2. \A c \in Clients : client[c] = "out"
    BY <1>1 DEF Construct, AllOut
  <2> QED
    BY <2>1, <2>2 DEF TypeOK, ThreadInv, LockInv
<1>2. CASE BeginShutdown
  BY <1>2 DEF BeginShutdown, TypeOK, ThreadInv, LockInv
<1>3. CASE EndShutdown
  BY <1>3 DEF EndShutdown, ThreadAnswered, TypeOK, ThreadInv, LockInv
<1> QED
  BY <1>1, <1>2, <1>3

\* The thread moves on alone, and enters the lock only when nobody is in it.
LEMMA WorkerKeepsIInv ==
  ASSUME IInv, WorkerNext
  PROVE  IInv'
<1> USE LifetimeAssumption DEF IInv, objectVars, WorkerStep
<1>1. CASE WorkerLocks
  BY <1>1 DEF WorkerLocks, Lock, TypeOK, ThreadInv, LockInv
<1>2. CASE WorkerPushes
  <2>1. \A c \in Clients : locks => client[c] # "pools"
    BY <1>2 DEF WorkerPushes, LockInv, TypeOK
  <2> QED
    BY <1>2, <2>1 DEF WorkerPushes, Unlock, TypeOK, ThreadInv, LockInv
<1>3. CASE WorkerWaits
  BY <1>3 DEF WorkerWaits, SeesCloseOrTimeout, TypeOK, ThreadInv, LockInv
<1>4. CASE WorkerSleeps
  BY <1>4 DEF WorkerSleeps, TypeOK, ThreadInv, LockInv
<1>5. CASE WorkerAnswers
  BY <1>5 DEF WorkerAnswers, TypeOK, ThreadInv, LockInv
<1> QED
  BY <1>1, <1>2, <1>3, <1>4, <1>5 DEF WorkerNext

\* Calls change nothing but the lock, and that like the thread does.
LEMMA ClientKeepsIInv ==
  ASSUME IInv, NEW c \in Clients, Call(c) \/ ClientContinues(c)
  PROVE  IInv'
<1> USE LifetimeAssumption DEF IInv, objectVars, ClientStep
<1>1. CASE Call(c)
  BY <1>1 DEF Call, TypeOK, ThreadInv, LockInv
<1>2. CASE CallWithoutLock(c)
  BY <1>2 DEF CallWithoutLock, TypeOK, ThreadInv, LockInv
<1>3. CASE CallLocks(c)
  BY <1>3 DEF CallLocks, Lock, TypeOK, ThreadInv, LockInv
<1>4. CASE CallUnlocks(c)
  BY <1>4 DEF CallUnlocks, Unlock, TypeOK, ThreadInv, LockInv
<1> QED
  BY <1>1, <1>2, <1>3, <1>4 DEF ClientContinues

\* Every step keeps the invariant.
LEMMA NextIInv == IInv /\ [Next]_vars => IInv'
<1> SUFFICES ASSUME IInv, [Next]_vars PROVE IInv'
  OBVIOUS
<1>1. CASE UNCHANGED vars
  BY <1>1 DEF vars, objectVars, IInv, TypeOK, ThreadInv, LockInv
<1>2. CASE Next
  BY <1>2, ObjectStep, WorkerKeepsIInv, ClientKeepsIInv DEF Next
<1> QED
  BY <1>1, <1>2

\* The invariant holds through every sequence of starts, calls and shutdowns
\* (memory_manager's constructor, destructor and thread).
THEOREM LifetimeInvariant == Spec => []IInv
BY InitIInv, NextIInv, PTL DEF Spec

\* Every variable keeps its type; the lock's owner is among the pools.
THEOREM LifetimeTypeCorrect == Spec => []TypeOK
<1>1. IInv => TypeOK
  BY DEF IInv
<1> QED
  BY LifetimeInvariant, <1>1, PTL

\* The caching thread never reaches for an object or pools that are gone
\* (memory_manager::~memory_manager waits for event_close_w).
THEOREM ThreadAlwaysHasManager == Spec => []ThreadHasManager
<1>1. IInv => ThreadHasManager
  BY DEF IInv, ThreadInv, ThreadHasManager
<1> QED
  BY LifetimeInvariant, <1>1, PTL

\* A manager never takes an answer that was meant for an earlier one.
THEOREM AnswersAreOwn == Spec => []AnswerIsOwn
<1>1. IInv => AnswerIsOwn
  BY DEF IInv, ThreadInv, AnswerIsOwn
<1> QED
  BY LifetimeInvariant, <1>1, PTL

\* With its critical section the lock keeps any number of threads, and the
\* caching thread, apart.
THEOREM LockExcludes == Spec => []Exclusive
<1>1. IInv => Exclusive
  BY LifetimeAssumption DEF IInv, LockInv, Exclusive
<1> QED
  BY LifetimeInvariant, <1>1, PTL

=============================================================================
