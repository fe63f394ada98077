----------------------------- MODULE ThreadHooks ------------------------------
(***************************************************************************)
(* Thread priorities as Turpentine changes them (core/TThreads.cpp): the   *)
(* hook for SetThreadPriority, which lets no priority below normal, the    *)
(* hook for the game's function that creates task threads, which makes     *)
(* them time critical, and their installation while the game runs.         *)
(*                                                                         *)
(* Calls of the system are single steps, and each may fail, which changes  *)
(* nothing.  Between two of them other threads go on.  What is done about  *)
(* the class of the process and about processors is left out, it touches   *)
(* no priority of a thread; so is background mode, which nobody asks for.  *)
(***************************************************************************)
EXTENDS Integers, FiniteSetsExt

CONSTANTS
    Threads,        \* the game's threads, those still to be created included
    Main,           \* the one that starts Turpentine
    Levels,         \* priorities
    Highest, TimeCritical,  \* THREAD_PRIORITY_HIGHEST, _TIME_CRITICAL
    ErrorReturn     \* what GetThreadPriority returns when it fails (0x7fffffff)

Normal == 0 \* THREAD_PRIORITY_NORMAL

ASSUME ThreadsAssumption ==
    /\ Main \in Threads
    /\ Levels \subseteq Int /\ {Normal, Highest, TimeCritical} \subseteq Levels
    /\ Highest >= Normal /\ \A l \in Levels : l <= TimeCritical
    /\ ErrorReturn \in Int /\ \A l \in Levels : l < ErrorReturn

VARIABLES
    pc,         \* what Threads() does next: "main", "detour", "store", "hook" or "done"
    detoured,   \* the game's function that creates tasks jumps to CreateThreadTask
    original,   \* ptrCreateThreadTask is not null
    hooked,     \* the game's SetThreadPriority is HKSetThreadPriority
    alive,      \* the threads there are
    priority,   \* their priorities
    call,       \* what each thread is calling
    crashed     \* somebody called through the null pointer

vars == <<pc, detoured, original, hooked, alive, priority, call, crashed>>

\* A call: where it has come to, the thread it is about, the priority it asks for,
\* and what GetThreadPriority returned.
NoCall == [at |-> "none", on |-> Main, asked |-> Normal, old |-> Normal]

Init ==
    /\ pc = "main"
    /\ detoured = FALSE /\ original = FALSE /\ hooked = FALSE
    /\ alive \in {a \in SUBSET Threads : Main \in a}
    /\ priority \in [Threads -> Levels]
    /\ call = [t \in Threads |-> NoCall]
    /\ crashed = FALSE

-----------------------------------------------------------------------------
(* The system *)

\* It takes the priorities there are, or fails.
SetThreadPriority(t, p) ==
    priority' \in {priority} \cup
        {[priority EXCEPT ![t] = q] : q \in {p} \cap Levels}

-----------------------------------------------------------------------------
(* Threads() *)

RaiseMain ==
    /\ pc = "main" /\ pc' = "detour"
    /\ SetThreadPriority(Main, Highest)
    /\ UNCHANGED <<detoured, original, hooked, alive, call, crashed>>

\* The jump is in the game's code before its result, the way to the original
\* function, is stored.  When it cannot be written, both are as before.
DetourTask ==
    /\ pc = "detour" /\ pc' = "store"
    /\ detoured' \in BOOLEAN
    /\ UNCHANGED <<original, hooked, alive, priority, call, crashed>>

BugStoreOriginal ==
    /\ pc = "store" /\ pc' = "hook"
    /\ UNCHANGED <<detoured, original, hooked, alive, priority, call, crashed>>

StoreOriginal ==
    /\ pc = "store" /\ pc' = "hook"
    /\ original' = detoured
    /\ UNCHANGED <<detoured, hooked, alive, priority, call, crashed>>

HookSetThreadPriority ==
    /\ pc = "hook" /\ pc' = "done"
    /\ hooked' \in BOOLEAN
    /\ UNCHANGED <<detoured, original, alive, priority, call, crashed>>

-----------------------------------------------------------------------------
(* Calls of the game *)

\* The thread that starts Turpentine is busy with that.
Free(t) == t \in alive /\ call[t].at = "none" /\ (t = Main => pc = "done")

\* SetThreadPriority as the game's import table has it at this moment.
CallSetThreadPriority(t) ==
    /\ Free(t)
    /\ \E on \in alive, p \in Levels :
        call' = [call EXCEPT ![t] =
            [at |-> IF hooked THEN "read" ELSE "system", on |-> on, asked |-> p, old |-> Normal]]
    /\ UNCHANGED <<pc, detoured, original, hooked, alive, priority, crashed>>

Return(t) == call' = [call EXCEPT ![t] = NoCall]

CallSystem(t) ==
    /\ call[t].at = "system"
    /\ SetThreadPriority(call[t].on, call[t].asked)
    /\ Return(t)
    /\ UNCHANGED <<pc, detoured, original, hooked, alive, crashed>>

\* HKSetThreadPriority: GetThreadPriority ...
ReadOldPriority(t) ==
    /\ call[t].at = "read"
    /\ \E old \in {priority[call[t].on], ErrorReturn} :
        call' = [call EXCEPT ![t] =
            [at |-> "set", on |-> @.on, asked |-> @.asked, old |-> old]]
    /\ UNCHANGED <<pc, detoured, original, hooked, alive, priority, crashed>>

BugNewPriority(c) == Max({c.old, c.asked})
BugNewPriorityIgnoresOld(c) == Max({Normal, c.asked})

NewPriority(c) == Max({Normal, Max({c.old, c.asked})})

\* ... and SetThreadPriority.
SetNewPriority(t) ==
    /\ call[t].at = "set"
    /\ SetThreadPriority(call[t].on, NewPriority(call[t]))
    /\ Return(t)
    /\ UNCHANGED <<pc, detoured, original, hooked, alive, crashed>>

\* The game creates a task, and with it a thread.  Through the hook when the jump is
\* there, and then through the pointer.
CreateTask(t) ==
    /\ Free(t)
    /\ IF detoured /\ ~original
       THEN crashed' = TRUE /\ UNCHANGED <<alive, call, priority>>
       ELSE /\ UNCHANGED crashed
            /\ \E new \in Threads \ alive :
                /\ alive' = alive \cup {new}
                /\ priority' = [priority EXCEPT ![new] = Normal]
                /\ call' = IF detoured
                           THEN [call EXCEPT ![t] = [at |-> "created", on |-> new,
                                                     asked |-> TimeCritical, old |-> Normal]]
                           ELSE call
    /\ UNCHANGED <<pc, detoured, original, hooked>>

\* CreateThreadTask makes the new thread time critical.
RaiseTask(t) ==
    /\ call[t].at = "created"
    /\ SetThreadPriority(call[t].on, call[t].asked)
    /\ Return(t)
    /\ UNCHANGED <<pc, detoured, original, hooked, alive, crashed>>

\* A thread that calls nothing may end.
End(t) ==
    /\ t # Main /\ Free(t)
    /\ \A u \in Threads : call[u].at # "none" => call[u].on # t
    /\ alive' = alive \ {t}
    /\ UNCHANGED <<pc, detoured, original, hooked, priority, call, crashed>>

Next ==
    /\ ~crashed
    /\ \/ RaiseMain \/ DetourTask \/ StoreOriginal \/ HookSetThreadPriority
       \/ \E t \in Threads :
            \/ CallSetThreadPriority(t) \/ CallSystem(t)
            \/ ReadOldPriority(t) \/ SetNewPriority(t)
            \/ CreateTask(t) \/ RaiseTask(t) \/ End(t)

Spec == Init /\ [][Next]_vars

-----------------------------------------------------------------------------
(* Properties *)

TypeOK ==
    /\ pc \in {"main", "detour", "store", "hook", "done"}
    /\ detoured \in BOOLEAN /\ original \in BOOLEAN /\ hooked \in BOOLEAN
    /\ alive \in SUBSET Threads
    /\ priority \in [Threads -> Levels]
    /\ call \in [Threads -> [at : {"none", "system", "read", "set", "created"},
                             on : Threads, asked : Levels, old : Levels \cup {ErrorReturn}]]
    /\ crashed \in BOOLEAN

\* Calls that began before the hook was there go to the system.
BeganBefore(t) == \E u \in Threads : call[u].at = "system" /\ call[u].on = t

\* TThreads.cpp:92: once the hook is installed no thread gets a priority below normal,
\* not even by the plugin itself or for a new thread; only a call that the game
\* began before may still do so.
NeverBelowNormal == [][
    \A t \in Threads :
        hooked /\ priority'[t] < Normal => priority'[t] = priority[t] \/ BeganBefore(t)]_vars

\* The hook takes a priority away only that the thread got after the hook had read the
\* old one (TThreads.cpp:91 and 93 are two calls of the system), and a new
\* thread does not inherit the one of a thread that ended.
LoweredOnlyByRace == [][
    \A t \in Threads :
        priority'[t] < priority[t] =>
            \/ t \notin alive \/ ~hooked \/ BeganBefore(t)
            \/ \E u \in Threads :
                  call[u].at = "set" /\ call[u].on = t /\ call[u].old # priority[t]]_vars

\* The null pointer is called only between the jump and the storing of the pointer
\* (TThreads.cpp:173).
NullCallOnlyInWindow == crashed => pc = "store"
===============================================================================
