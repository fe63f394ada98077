---------------------------- MODULE VmmLifetime -----------------------------
(***************************************************************************)
(* Start and shutdown of the memory manager: the constructor and the       *)
(* destructor (depends/vmm/source/vmmmain.cpp), the caching thread and its *)
(* two events, the lock, and the exported functions that look at           *)
(* global_memory_manager before they call it (vmm.cpp).                    *)
(*                                                                         *)
(* What the calls do with blocks is in module VmmManager; here a call is   *)
(* only a visit to the manager's object and to its pools.  As the library  *)
(* asks of its user, threads of the game do not call the manager while it  *)
(* is started or shut down.                                                *)
(***************************************************************************)
EXTENDS Naturals

CONSTANTS
    Clients,    \* the threads of the game
    Worker,     \* the caching thread
    Nobody,     \* owner of the free lock
    Failures    \* what may fail in the constructor: {"none", "events", "pools", "lock"}

ASSUME LifetimeAssumption ==
    /\ Worker \notin Clients
    /\ Nobody \notin Clients \cup {Worker}
    /\ Failures \subseteq {"none", "events", "pools", "lock"}

VARIABLES
    manager,    \* the object: "none", "alive", "closing", "dead"
    pools,      \* the array of pools: "null", "alive", "dead"
    closeEvent, \* event_close
    doneEvent,  \* event_close_w
    locks,      \* whether the lock has its critical section (handle)
    lock,       \* its owner
    worker,     \* where the caching thread is
    client      \* where each thread of the game is

objectVars == <<manager, pools, closeEvent, doneEvent>>
vars == <<objectVars, locks, lock, worker, client>>

TypeOK ==
    /\ manager \in {"none", "alive", "closing", "dead"}
    /\ pools \in {"null", "alive", "dead"}
    /\ closeEvent \in BOOLEAN /\ doneEvent \in BOOLEAN
    /\ locks \in BOOLEAN
    /\ lock \in {Nobody} \cup {c \in Clients : client[c] = "pools"}
                       \cup {w \in {Worker} : worker = "push"}
    /\ worker \in {"none", "lock", "push", "wait", "signal", "sleep", "done"}
    /\ client \in [Clients -> {"out", "in", "pools"}]

Init ==
    /\ manager = "none"
    /\ pools = "null"
    /\ closeEvent = FALSE /\ doneEvent = FALSE
    /\ locks = TRUE
    /\ lock = Nobody
    /\ worker = "none"
    /\ client = [c \in Clients |-> "out"]

AllOut == \A c \in Clients : client[c] = "out"

-----------------------------------------------------------------------------
(* Constructor and destructor, one call at a time *)

BugAnswerKept == closeEvent' = FALSE /\ UNCHANGED doneEvent

NewEvents == closeEvent' = FALSE /\ doneEvent' = FALSE

\* Without events the constructor returns before it makes pools and thread;
\* without an array of pools it still makes the thread; and without memory for
\* its critical section, a lock remains that locks nothing.
Construct(failure) ==
    /\ manager \in {"none", "dead"}
    /\ AllOut
    /\ manager' = "alive"
    /\ NewEvents
    /\ pools' = IF failure \in {"events", "pools"} THEN "null" ELSE "alive"
    /\ worker' = IF failure = "events" THEN "none" ELSE "lock"
    /\ locks' = (failure # "lock")
    /\ lock' = Nobody
    /\ UNCHANGED client

\* The destructor tells the thread, if there is one ...
BeginShutdown ==
    /\ manager = "alive"
    /\ AllOut
    /\ manager' = "closing"
    /\ closeEvent' = (worker # "none")
    /\ UNCHANGED <<pools, doneEvent, locks, lock, worker, client>>

BugDoesNotWait == TRUE

ThreadAnswered == worker = "none" \/ doneEvent

\* ... waits for its answer, and deletes the pools; then the object goes.
EndShutdown ==
    /\ manager = "closing"
    /\ ThreadAnswered
    /\ manager' = "dead"
    /\ pools' = IF worker # "none" /\ pools = "alive" THEN "dead" ELSE pools
    /\ UNCHANGED <<closeEvent, doneEvent, locks, lock, worker, client>>

-----------------------------------------------------------------------------
(* simple_lock: without its critical section, lock and unlock do nothing *)

BugLockTaken(t) == lock' = t

Lock(t) == IF locks THEN lock = Nobody /\ lock' = t ELSE UNCHANGED lock

BugUnlockForgotten == UNCHANGED lock

Unlock == lock' = Nobody

-----------------------------------------------------------------------------
(* The caching thread *)

WorkerStep(from, to) ==
    worker = from /\ worker' = to /\ UNCHANGED <<locks, client>>

WorkerLocks ==
    /\ WorkerStep("lock", "push")
    /\ Lock(Worker)
    /\ UNCHANGED objectVars

\* A block of each pool goes on its stack; the lock is left.
WorkerPushes ==
    /\ WorkerStep("push", "wait")
    /\ Unlock
    /\ UNCHANGED objectVars

BugCloseNotSeen == worker' = "sleep"

\* WaitForSingleObject with 10 ms: the event, or a timeout if it is not set.
SeesCloseOrTimeout == worker' = IF closeEvent THEN "signal" ELSE "sleep"

WorkerWaits ==
    /\ worker = "wait"
    /\ SeesCloseOrTimeout
    /\ UNCHANGED <<objectVars, locks, lock, client>>

WorkerSleeps == WorkerStep("sleep", "lock") /\ UNCHANGED <<objectVars, lock>>

WorkerAnswers ==
    /\ WorkerStep("signal", "done")
    /\ doneEvent' = TRUE
    /\ UNCHANGED <<manager, pools, closeEvent, lock>>

WorkerNext ==
    \/ WorkerLocks \/ WorkerPushes \/ WorkerWaits
    \/ WorkerSleeps \/ WorkerAnswers

-----------------------------------------------------------------------------
(* Calls: without a manager they return at once *)

ClientStep(c, from, to) ==
    /\ client[c] = from
    /\ client' = [client EXCEPT ![c] = to]
    /\ UNCHANGED <<objectVars, locks, worker>>

Call(c) ==
    /\ manager = "alive"
    /\ ClientStep(c, "out", "in")
    /\ UNCHANGED lock

\* A large block, or the one of size zero: no lock.
CallWithoutLock(c) == ClientStep(c, "in", "out") /\ UNCHANGED lock

CallLocks(c) ==
    /\ ClientStep(c, "in", "pools")
    /\ Lock(c)

CallUnlocks(c) == ClientStep(c, "pools", "out") /\ Unlock

ClientContinues(c) == CallWithoutLock(c) \/ CallLocks(c) \/ CallUnlocks(c)

Next ==
    \/ \E failure \in Failures : Construct(failure)
    \/ BeginShutdown \/ EndShutdown
    \/ WorkerNext
    \/ \E c \in Clients : Call(c) \/ ClientContinues(c)

\* The thread is scheduled, calls go on, and a shutdown that can end does.
Spec ==
    /\ Init /\ [][Next]_vars
    /\ WF_vars(WorkerNext)
    /\ WF_vars(EndShutdown)
    /\ \A c \in Clients : WF_vars(ClientContinues(c))

-----------------------------------------------------------------------------
(* Properties *)

\* The thread reads the object's events, its lock and the pools: all that must
\* be there until its last access, the one that sets event_close_w.
ThreadHasManager ==
    /\ worker \in {"lock", "push", "wait", "sleep", "signal"} =>
           manager \in {"alive", "closing"}
    /\ worker = "push" => pools # "dead"

\* A shutdown ends, also one that begins while the thread sleeps or waits for
\* the lock: its loop comes back to the event.
ShutdownEnds == manager = "closing" ~> manager = "dead"

\* An answer is never left from an earlier life of the manager: a new one waits
\* for its own thread.
AnswerIsOwn == doneEvent => closeEvent /\ worker = "done"

\* The pools are touched by one thread at a time, the caching thread included,
\* if the lock got memory for its critical section; without it, nothing keeps
\* threads apart, although vsimplelock.cpp:47 says that lock does.
Exclusive ==
    locks =>
        /\ worker = "push" => \A c \in Clients : client[c] # "pools"
        /\ \A c, d \in Clients :
              client[c] = "pools" /\ client[d] = "pools" => c = d

=============================================================================
