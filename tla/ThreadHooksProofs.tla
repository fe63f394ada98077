-------------------------- MODULE ThreadHooksProofs ---------------------------
(***************************************************************************)
(* What MCThreadHooks checks for two threads, proved for any number of     *)
(* threads and any priorities.                                             *)
(***************************************************************************)
EXTENDS ThreadHooks, TLAPS

\* The inductive invariant: the hook is there only in the end; the jump to
\* CreateThreadTask and the pointer agree except in the window; a new task gets the
\* highest priority; and nobody crashed outside the window.
InstallInv ==
    /\ hooked => pc = "done"
    /\ pc \in {"main", "detour"} => ~detoured /\ ~original
    /\ pc \in {"hook", "done"} => (detoured <=> original)
    /\ \A t \in Threads : call[t].at = "created" => call[t].asked = TimeCritical
    /\ NullCallOnlyInWindow

IInv == TypeOK /\ InstallInv

\* The larger of two numbers.
LEMMA MaxOfTwo ==
    ASSUME NEW a \in Int, NEW b \in Int
    PROVE  /\ Max({a, b}) \in {a, b}
           /\ Max({a, b}) >= a /\ Max({a, b}) >= b
<1>1. \E x \in {a, b} : \A y \in {a, b} : x >= y
  <2>1. CASE a >= b
    BY <2>1
  <2>2. CASE b >= a
    BY <2>2
  <2>3. QED
    BY <2>1, <2>2
<1>2. QED
    BY <1>1 DEF Max

\* HKSetThreadPriority asks for a number that is not below normal, nor below what
\* it read.
LEMMA NewPriorityBounds ==
    ASSUME TypeOK, NEW t \in Threads
    PROVE  /\ NewPriority(call[t]) \in Int
           /\ NewPriority(call[t]) >= Normal
           /\ NewPriority(call[t]) >= call[t].old
<1>1. call[t].old \in Int /\ call[t].asked \in Int /\ Normal \in Int
    BY ThreadsAssumption DEF TypeOK, Normal
<1>2. /\ Max({call[t].old, call[t].asked}) \in Int
      /\ Max({call[t].old, call[t].asked}) >= call[t].old
    BY <1>1, MaxOfTwo
<1> DEFINE m == Max({call[t].old, call[t].asked})
<1>3. m \in Int /\ m >= call[t].old
    BY <1>2
<1> HIDE DEF m
<1>4. /\ Max({Normal, m}) \in Int /\ Max({Normal, m}) >= Normal
      /\ Max({Normal, m}) >= m
    BY <1>1, <1>3, MaxOfTwo
<1>5. /\ Max({Normal, m}) >= call[t].old
    BY <1>1, <1>3, <1>4
<1>6. QED
    BY <1>4, <1>5 DEF NewPriority, m

\* A system call leaves the priorities, or gives one thread the one asked for.
LEMMA SystemCall ==
    ASSUME TypeOK, NEW on \in Threads, NEW p, SetThreadPriority(on, p)
    PROVE  /\ priority' \in [Threads -> Levels]
           /\ \A t \in Threads : priority'[t] # priority[t] => t = on /\ priority'[t] = p
    BY DEF TypeOK, SetThreadPriority

\* In every initial state the invariant holds.
LEMMA InitInv == Init => IInv
<1> SUFFICES ASSUME Init PROVE IInv
    OBVIOUS
<1>1. TypeOK
    BY ThreadsAssumption DEF Init, TypeOK, NoCall, Normal
<1>2. InstallInv
    BY DEF Init, InstallInv, NoCall, NullCallOnlyInWindow
<1>3. QED
    BY <1>1, <1>2 DEF IInv

\* Every step of the installation and of the game's calls keeps the invariant.
LEMMA StepInv == IInv /\ [Next]_vars => IInv'
<1> SUFFICES ASSUME IInv, [Next]_vars PROVE IInv'
    OBVIOUS
<1> USE DEF IInv, InstallInv, NullCallOnlyInWindow
<1>1. CASE RaiseMain
  <2>1. priority' \in [Threads -> Levels]
    BY <1>1, SystemCall, ThreadsAssumption DEF RaiseMain
  <2>2. QED
    BY <1>1, <2>1 DEF RaiseMain, TypeOK
<1>2. CASE DetourTask
    BY <1>2 DEF DetourTask, TypeOK
<1>3. CASE StoreOriginal
  <2>1. ~crashed /\ crashed' = crashed
    BY <1>3 DEF StoreOriginal, Next, vars
  <2>2. QED
    BY <1>3, <2>1 DEF StoreOriginal, TypeOK
<1>4. CASE HookSetThreadPriority
    BY <1>4 DEF HookSetThreadPriority, TypeOK
<1>5. ASSUME NEW t \in Threads, CallSetThreadPriority(t) PROVE IInv'
    BY <1>5, ThreadsAssumption DEF CallSetThreadPriority, TypeOK, Normal
<1>6. ASSUME NEW t \in Threads, CallSystem(t) PROVE IInv'
  <2>1. priority' \in [Threads -> Levels]
    BY <1>6, SystemCall DEF CallSystem, TypeOK
  <2>2. QED
    BY <1>6, <2>1, ThreadsAssumption DEF CallSystem, Return, NoCall, TypeOK, Normal
<1>7. ASSUME NEW t \in Threads, ReadOldPriority(t) PROVE IInv'
  <2>1. PICK old \in {priority[call[t].on], ErrorReturn} :
            call' = [call EXCEPT ![t] = [at |-> "set", on |-> @.on, asked |-> @.asked, old |-> old]]
    BY <1>7 DEF ReadOldPriority
  <2>2. old \in Levels \cup {ErrorReturn}
    BY <2>1 DEF TypeOK
  <2>3. TypeOK'
    BY <1>7, <2>1, <2>2 DEF ReadOldPriority, TypeOK
  <2>4. \A u \in Threads : call'[u].at = "created" => call'[u].asked = TimeCritical
    BY <2>1 DEF TypeOK
  <2>5. QED
    BY <1>7, <2>3, <2>4 DEF ReadOldPriority
<1>8. ASSUME NEW t \in Threads, SetNewPriority(t) PROVE IInv'
  <2>1. priority' \in [Threads -> Levels]
    BY <1>8, SystemCall DEF SetNewPriority, TypeOK
  <2>2. QED
    BY <1>8, <2>1, ThreadsAssumption DEF SetNewPriority, Return, NoCall, TypeOK, Normal
<1>9. ASSUME NEW t \in Threads, CreateTask(t) PROVE IInv'
  <2>1. CASE detoured /\ ~original
    BY <1>9, <2>1 DEF CreateTask, TypeOK
  <2>2. CASE ~(detoured /\ ~original)
    BY <1>9, <2>2, ThreadsAssumption DEF CreateTask, TypeOK, Normal
  <2>3. QED
    BY <2>1, <2>2
<1>10. ASSUME NEW t \in Threads, RaiseTask(t) PROVE IInv'
  <2>1. priority' \in [Threads -> Levels]
    BY <1>10, SystemCall DEF RaiseTask, TypeOK
  <2>2. QED
    BY <1>10, <2>1, ThreadsAssumption DEF RaiseTask, Return, NoCall, TypeOK, Normal
<1>11. ASSUME NEW t \in Threads, End(t) PROVE IInv'
    BY <1>11 DEF End, TypeOK
<1>12. CASE UNCHANGED vars
    BY <1>12 DEF vars, TypeOK
<1>13. QED
    BY <1>1, <1>2, <1>3, <1>4, <1>5, <1>6, <1>7, <1>8, <1>9, <1>10, <1>11, <1>12 DEF Next

\* The inductive invariant holds in every reachable state.
THEOREM ThreadHooksInvariant == Spec => []IInv
<1>1. QED
    BY InitInv, StepInv, PTL DEF Spec

\* Every variable keeps its type.
THEOREM ThreadHooksTypeCorrect == Spec => []TypeOK
<1>1. IInv => TypeOK
    BY DEF IInv
<1>2. QED
    BY <1>1, ThreadHooksInvariant, PTL

\* The null pointer of TThreads.cpp:173 is called only between jump and store.
THEOREM NullCallsOnlyInWindow == Spec => []NullCallOnlyInWindow
<1>1. IInv => NullCallOnlyInWindow
    BY DEF IInv, InstallInv
<1>2. QED
    BY <1>1, ThreadHooksInvariant, PTL

-----------------------------------------------------------------------------
(* What a step does to priorities once the hook is there *)

\* A step that changes a priority is a call that began before, the raise or the
\* creation of a task, or a call of the hook.
LEMMA PriorityStep ==
    ASSUME IInv, [Next]_vars, hooked, NEW t \in Threads, priority'[t] # priority[t]
    PROVE  \/ BeganBefore(t)
           \/ priority'[t] = TimeCritical
           \/ t \notin alive /\ priority'[t] = Normal
           \/ \E u \in Threads : /\ call[u].at = "set" /\ call[u].on = t
                                 /\ priority'[t] = NewPriority(call[u])
<1> USE DEF IInv, InstallInv
<1>1. CASE RaiseMain \/ DetourTask \/ StoreOriginal \/ HookSetThreadPriority
    BY <1>1 DEF RaiseMain, DetourTask, StoreOriginal, HookSetThreadPriority
<1>2. ASSUME NEW u \in Threads,
             CallSetThreadPriority(u) \/ ReadOldPriority(u) \/ End(u)
      PROVE  FALSE
    BY <1>2 DEF CallSetThreadPriority, ReadOldPriority, End
<1>3. ASSUME NEW u \in Threads, CallSystem(u) PROVE BeganBefore(t)
  <2>1. call[u].on = t
    BY <1>3, SystemCall DEF CallSystem, TypeOK
  <2>2. QED
    BY <1>3, <2>1 DEF CallSystem, BeganBefore
<1>4. ASSUME NEW u \in Threads, SetNewPriority(u)
      PROVE  /\ call[u].at = "set" /\ call[u].on = t
             /\ priority'[t] = NewPriority(call[u])
    BY <1>4, SystemCall DEF SetNewPriority, TypeOK
<1>5. ASSUME NEW u \in Threads, CreateTask(u)
      PROVE  t \notin alive /\ priority'[t] = Normal
    BY <1>5 DEF CreateTask, TypeOK
<1>6. ASSUME NEW u \in Threads, RaiseTask(u) PROVE priority'[t] = TimeCritical
    BY <1>6, SystemCall DEF RaiseTask, TypeOK
<1>7. CASE UNCHANGED vars
    BY <1>7 DEF vars
<1>8. QED
    BY <1>1, <1>2, <1>3, <1>4, <1>5, <1>6, <1>7 DEF Next

\* No priority below normal once the hook is installed (TThreads.cpp:92).
THEOREM PrioritiesNotBelowNormal == Spec => NeverBelowNormal
<1> DEFINE A == \A t \in Threads :
        hooked /\ priority'[t] < Normal => priority'[t] = priority[t] \/ BeganBefore(t)
<1>1. IInv /\ [Next]_vars => [A]_vars
  <2> SUFFICES ASSUME IInv, [Next]_vars, NEW t \in Threads, hooked,
                      priority'[t] < Normal, priority'[t] # priority[t]
               PROVE  BeganBefore(t)
    OBVIOUS
  <2>1. ~(TimeCritical < Normal) /\ ~(Normal < Normal)
    <3>1. Normal \in Levels /\ Normal \in Int /\ TimeCritical \in Int
      BY ThreadsAssumption
    <3>2. Normal <= TimeCritical
      BY <3>1, ThreadsAssumption
    <3>3. QED
      BY <3>1, <3>2
  <2>2. \A u \in Threads : ~(NewPriority(call[u]) < Normal)
    BY NewPriorityBounds DEF IInv, Normal
  <2>3. QED
    BY <2>1, <2>2, PriorityStep
<1>2. QED
    BY <1>1, ThreadHooksInvariant, PTL DEF Spec, NeverBelowNormal

\* The hook lowers a priority only in a race.
THEOREM PrioritiesLoweredOnlyByRace == Spec => LoweredOnlyByRace
<1> DEFINE A == \A t \in Threads :
        priority'[t] < priority[t] =>
            \/ t \notin alive \/ ~hooked \/ BeganBefore(t)
            \/ \E u \in Threads :
                  call[u].at = "set" /\ call[u].on = t /\ call[u].old # priority[t]
<1>1. IInv /\ [Next]_vars => [A]_vars
  <2> SUFFICES ASSUME IInv, [Next]_vars, NEW t \in Threads,
                      priority'[t] < priority[t], t \in alive, hooked, ~BeganBefore(t)
               PROVE  \E u \in Threads : /\ call[u].at = "set" /\ call[u].on = t
                                         /\ call[u].old # priority[t]
    OBVIOUS
  <2>1. priority[t] \in Int /\ priority[t] <= TimeCritical /\ TimeCritical \in Int
    BY ThreadsAssumption DEF IInv, TypeOK
  <2>2. priority'[t] # priority[t] /\ priority'[t] # TimeCritical
    BY <2>1
  <2>3. PICK u \in Threads : /\ call[u].at = "set" /\ call[u].on = t
                             /\ priority'[t] = NewPriority(call[u])
    BY <2>2, PriorityStep
  <2>4. priority'[t] >= call[u].old /\ priority'[t] \in Int /\ call[u].old \in Int
    BY <2>3, NewPriorityBounds, ThreadsAssumption DEF IInv, TypeOK
  <2>5. QED
    BY <2>1, <2>3, <2>4
<1>2. QED
    BY <1>1, ThreadHooksInvariant, PTL DEF Spec, LoweredOnlyByRace
===============================================================================
