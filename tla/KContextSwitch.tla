---------------------------- MODULE KContextSwitch ----------------------------
(***************************************************************************)
(* What a core does between two threads: the guest loop with its           *)
(* interrupts, the scheduler's switch of the context, and the guard of a   *)
(* thread's context that cores compete for.  The scheduler's choice is     *)
(* made under its lock by a thread in a system call or by a host thread;   *)
(* here it is any choice that gives no thread to two cores (KScheduler has *)
(* the choice itself).  The core's switching takes no lock: it clears      *)
(* needs_scheduling, reads the choice and looks at needs_scheduling again. *)
(*                                                                         *)
(* A core's idle thread is NoThread.  The emulation of a single core by    *)
(* turns, the debugger and pinned threads are left out.                    *)
(***************************************************************************)
EXTENDS Integers, FiniteSets

CONSTANTS
    Threads,
    Cores,
    Host,       \* a host thread that changes the choice, such as the preemption timer
    Choosers,   \* the cores whose threads change the choice in system calls, and the host
    NoThread,
    NoCore

ASSUME SwitchAssumption == NoThread \notin Threads /\ NoCore \notin Cores /\ Host \notin Cores

Actors == Cores \cup {Host}

VARIABLES
    highest,      \* highest_priority_thread of each core
    needs,        \* needs_scheduling
    interrupted,  \* m_is_interrupted of the physical core
    halt,         \* the guest code of the core is asked to break its loop
    running,      \* the core's current thread
    next,         \* highest_priority_thread of ScheduleImplFiber, until the switch
    pc,           \* what a core, or the host thread, is about to do
    ipis,         \* the cores whose choice an actor changed, and that it is to interrupt
    guard,        \* m_context_guard: the core that has locked it
    regs,         \* the core that has newer registers of a thread than its context
    svc,          \* the threads that are in a system call
    dead          \* the threads with DpcFlag::Terminated

vars == <<highest, needs, interrupted, halt, running, next, pc, ipis, guard, regs, svc, dead>>

Init ==
    /\ highest = [c \in Cores |-> NoThread]
    /\ needs = [c \in Cores |-> TRUE]
    /\ interrupted = [c \in Cores |-> FALSE]
    /\ halt = [c \in Cores |-> FALSE]
    /\ running = [c \in Cores |-> NoThread]
    /\ next = [c \in Cores |-> NoThread]
    /\ pc = [a \in Actors |-> IF a = Host THEN "idle" ELSE "schedule"]
    /\ ipis = [a \in Actors |-> {}]
    /\ guard = [t \in Threads |-> NoCore]
    /\ regs = [t \in Threads |-> NoCore]
    /\ svc = {}
    /\ dead = {}

Go(a, there) == pc' = [pc EXCEPT ![a] = there]

-----------------------------------------------------------------------------
(* The scheduler's choice, and how the cores are told of it.               *)

Choices(D) ==
    {h \in [Cores -> (Threads \ D) \cup {NoThread}] :
        \A c, d \in Cores : c # d /\ h[c] = h[d] => h[c] = NoThread}

\* The first half of UpdateHighestPriorityThread for the cores, with the lock; D is to be
\* the threads that have terminated
Choose(a, D) ==
    /\ \A b \in Actors : pc[b] # "mark"
    /\ dead' = D
    /\ \E h \in Choices(D) :
          /\ highest' = h
          /\ ipis' = [ipis EXCEPT ![a] = {c \in Cores : h[c] # highest[c]}]
    /\ Go(a, "mark")
    /\ UNCHANGED <<needs, interrupted, halt, running, next, guard, regs, svc>>

\* Mutant: the core that makes the choice does not mark itself.
MarkOthers(a) ==
    /\ pc[a] = "mark"
    /\ needs' = [c \in Cores |-> needs[c] \/ c \in ipis[a] \ {a}]
    /\ ipis' = [ipis EXCEPT ![a] = @ \ {a}]
    /\ Go(a, "ipi")
    /\ UNCHANGED <<highest, interrupted, halt, running, next, guard, regs, svc, dead>>

\* Its second half, and the unlock
Mark(a) ==
    /\ pc[a] = "mark"
    /\ needs' = [c \in Cores |-> needs[c] \/ c \in ipis[a]]
    /\ ipis' = [ipis EXCEPT ![a] = @ \ {a}]
    /\ Go(a, "ipi")
    /\ UNCHANGED <<highest, interrupted, halt, running, next, guard, regs, svc, dead>>

InGuest(d) == pc[d] \in {"guest", "exit"}

\* Mutant: a core that runs no guest code is not interrupted.
SendInterruptToGuest(a, d) ==
    /\ pc[a] = "ipi" /\ d \in ipis[a]
    /\ ipis' = [ipis EXCEPT ![a] = @ \ {d}]
    /\ interrupted' = [interrupted EXCEPT ![d] = @ \/ InGuest(d)]
    /\ halt' = [halt EXCEPT ![d] = @ \/ InGuest(d)]
    /\ UNCHANGED <<highest, needs, running, next, pc, guard, regs, svc, dead>>

\* RescheduleCores: PhysicalCore::Interrupt
SendInterrupt(a, d) ==
    /\ pc[a] = "ipi" /\ d \in ipis[a]
    /\ ipis' = [ipis EXCEPT ![a] = @ \ {d}]
    /\ interrupted' = [interrupted EXCEPT ![d] = TRUE]
    /\ halt' = [halt EXCEPT ![d] = @ \/ InGuest(d)]
    /\ UNCHANGED <<highest, needs, running, next, pc, guard, regs, svc, dead>>

\* EnableScheduling of the host's thread, and RescheduleCurrentCore
Interrupted(a) ==
    /\ pc[a] = "ipi" /\ ipis[a] = {}
    /\ Go(a, IF a = Host THEN "idle" ELSE IF needs[a] THEN "schedule" ELSE "svc")
    /\ UNCHANGED <<highest, needs, interrupted, halt, running, next, ipis, guard, regs, svc, dead>>

HostChoose == Host \in Choosers /\ pc[Host] = "idle" /\ Choose(Host, dead)

-----------------------------------------------------------------------------
(* The guest loop.                                                         *)

\* MultiCoreRunGuestThread and MultiCoreRunIdleThread
Loop(c) ==
    /\ pc[c] = "loop"
    /\ Go(c, IF interrupted[c] THEN "handle" ELSE IF running[c] = NoThread THEN "idle" ELSE "enter")
    /\ UNCHANGED <<highest, needs, interrupted, halt, running, next, ipis, guard, regs, svc, dead>>

Idle(c) ==
    /\ pc[c] = "idle" /\ interrupted[c]
    /\ Go(c, "handle")
    /\ UNCHANGED <<highest, needs, interrupted, halt, running, next, ipis, guard, regs, svc, dead>>

\* Mutant: the interrupt that came before is not looked at.
EnterContextAlways(c) ==
    /\ pc[c] = "enter"
    /\ Go(c, "guest")
    /\ regs' = [regs EXCEPT ![running[c]] = c]
    /\ UNCHANGED <<highest, needs, interrupted, halt, running, next, ipis, guard, svc, dead>>

EnterContext(c) ==
    /\ pc[c] = "enter"
    /\ Go(c, IF interrupted[c] THEN "loop" ELSE "guest")
    /\ regs' = IF interrupted[c] THEN regs ELSE [regs EXCEPT ![running[c]] = c]
    /\ UNCHANGED <<highest, needs, interrupted, halt, running, next, ipis, guard, svc, dead>>

\* The guest code stops, for an interrupt or for a system call.
Stop(c) ==
    /\ pc[c] = "guest"
    /\ \/ halt[c] /\ UNCHANGED svc
       \/ svc' = svc \cup {running[c]}
    /\ halt' = [halt EXCEPT ![c] = FALSE]
    /\ Go(c, "exit")
    /\ UNCHANGED <<highest, needs, interrupted, running, next, ipis, guard, regs, dead>>

ExitContext(c) ==
    /\ pc[c] = "exit"
    /\ Go(c, IF running[c] \in svc THEN "svc" ELSE "loop")
    /\ UNCHANGED <<highest, needs, interrupted, halt, running, next, ipis, guard, regs, svc, dead>>

\* A part of a system call that changes the choice
SvcChoose(c) == c \in Choosers /\ pc[c] = "svc" /\ Choose(c, dead)

SvcReturn(c) ==
    /\ pc[c] = "svc"
    /\ svc' = svc \ {running[c]}
    /\ Go(c, "loop")
    /\ UNCHANGED <<highest, needs, interrupted, halt, running, next, ipis, guard, regs, dead>>

\* KThread::Exit, called by the thread or because its termination was requested
Exit(c) ==
    /\ pc[c] \in {"svc", "enter"}
    /\ Choose(c, dead \cup {running[c]})

\* KInterruptManager::HandleInterrupt, RequestScheduleOnInterrupt
HandleInterrupt(c) ==
    /\ pc[c] = "handle"
    /\ interrupted' = [interrupted EXCEPT ![c] = FALSE]
    /\ needs' = [needs EXCEPT ![c] = TRUE]
    /\ Go(c, "schedule")
    /\ UNCHANGED <<highest, halt, running, next, ipis, guard, regs, svc, dead>>

-----------------------------------------------------------------------------
(* The switch.                                                             *)

Resumed(t) == IF t \in svc THEN "svc" ELSE "loop"

\* ScheduleImpl clears needs_scheduling,
ScheduleImpl(c) ==
    /\ pc[c] = "schedule"
    /\ needs' = [needs EXCEPT ![c] = FALSE]
    /\ Go(c, "read")
    /\ UNCHANGED <<highest, interrupted, halt, running, next, ipis, guard, regs, svc, dead>>

\* and reads the choice.
ReadHighest(c) ==
    /\ pc[c] = "read"
    /\ LET t == running[c]
       IN  IF t # NoThread /\ highest[c] = t
           THEN Go(c, Resumed(t)) /\ UNCHANGED next
           ELSE /\ Go(c, IF t = NoThread THEN "lock" ELSE "unload")
                /\ next' = [next EXCEPT ![c] = highest[c]]
    /\ UNCHANGED <<highest, needs, interrupted, halt, running, ipis, guard, regs, svc, dead>>

\* Mutant: the registers are not saved.
UnloadUnsaved(c) ==
    /\ pc[c] = "unload"
    /\ guard' = IF running[c] \in dead THEN guard ELSE [guard EXCEPT ![running[c]] = NoCore]
    /\ Go(c, "lock")
    /\ UNCHANGED <<highest, needs, interrupted, halt, running, next, ipis, regs, svc, dead>>

\* The registers are saved and, unless the thread has terminated, its guard is unlocked.
Unload(c) ==
    /\ pc[c] = "unload"
    /\ regs' = [regs EXCEPT ![running[c]] = IF @ = c THEN NoCore ELSE @]
    /\ guard' = IF running[c] \in dead THEN guard ELSE [guard EXCEPT ![running[c]] = NoCore]
    /\ Go(c, "lock")
    /\ UNCHANGED <<highest, needs, interrupted, halt, running, next, ipis, svc, dead>>

\* Mutant: the guard is taken while it is locked.
TryLockAlways(c) ==
    /\ pc[c] = "lock"
    /\ guard' = IF next[c] = NoThread THEN guard ELSE [guard EXCEPT ![next[c]] = c]
    /\ Go(c, "switch")
    /\ UNCHANGED <<highest, needs, interrupted, halt, running, next, ipis, regs, svc, dead>>

\* One try_lock of the guard of the next thread
TryLock(c) ==
    /\ pc[c] = "lock"
    /\ IF next[c] = NoThread THEN Go(c, "switch") /\ UNCHANGED guard
       ELSE IF guard[next[c]] = NoCore
       THEN Go(c, "switch") /\ guard' = [guard EXCEPT ![next[c]] = c]
       ELSE needs[c] /\ Go(c, "retry") /\ UNCHANGED guard
    /\ UNCHANGED <<highest, needs, interrupted, halt, running, next, ipis, regs, svc, dead>>

\* SwitchThread, and the second look at needs_scheduling
SwitchThread(c) ==
    /\ pc[c] = "switch"
    /\ running' = [running EXCEPT ![c] = next[c]]
    /\ next' = [next EXCEPT ![c] = NoThread]
    /\ Go(c, IF needs[c] THEN "retry" ELSE "load")
    /\ guard' = IF needs[c] /\ next[c] # NoThread THEN [guard EXCEPT ![next[c]] = NoCore] ELSE guard
    /\ UNCHANGED <<highest, needs, interrupted, halt, ipis, regs, svc, dead>>

\* The label retry of ScheduleImplFiber clears needs_scheduling,
Retry(c) ==
    /\ pc[c] = "retry"
    /\ needs' = [needs EXCEPT ![c] = FALSE]
    /\ Go(c, "refresh")
    /\ UNCHANGED <<highest, interrupted, halt, running, next, ipis, guard, regs, svc, dead>>

\* and reads the choice.
Refresh(c) ==
    /\ pc[c] = "refresh"
    /\ next' = [next EXCEPT ![c] = highest[c]]
    /\ Go(c, "lock")
    /\ UNCHANGED <<highest, needs, interrupted, halt, running, ipis, guard, regs, svc, dead>>

\* Reload
Reload(c) ==
    /\ pc[c] = "load"
    /\ Go(c, Resumed(running[c]))
    /\ UNCHANGED <<highest, needs, interrupted, halt, running, next, ipis, guard, regs, svc, dead>>

-----------------------------------------------------------------------------

CoreStep(c) ==
    \/ Mark(c) \/ Interrupted(c) \/ \E d \in Cores : SendInterrupt(c, d)
    \/ Loop(c) \/ Idle(c) \/ EnterContext(c) \/ ExitContext(c) \/ SvcReturn(c)
    \/ HandleInterrupt(c)
    \/ ScheduleImpl(c) \/ ReadHighest(c) \/ Unload(c) \/ TryLock(c)
    \/ SwitchThread(c) \/ Retry(c) \/ Refresh(c) \/ Reload(c)

HostStep == Mark(Host) \/ Interrupted(Host) \/ \E d \in Cores : SendInterrupt(Host, d)

Next ==
    \/ HostChoose \/ HostStep
    \/ \E c \in Cores : CoreStep(c) \/ Stop(c) \/ SvcChoose(c) \/ Exit(c)

Spec == Init /\ [][Next]_vars

\* The host runs the threads of all cores; guest code stops when it is asked to.
Fairness ==
    /\ WF_vars(HostStep)
    /\ \A c \in Cores : WF_vars(CoreStep(c) \/ (halt[c] /\ Stop(c)))

FairSpec == Spec /\ Fairness

-----------------------------------------------------------------------------
(* Properties.                                                             *)

TypeOK ==
    /\ highest \in [Cores -> Threads \cup {NoThread}]
    /\ needs \in [Cores -> BOOLEAN]
    /\ interrupted \in [Cores -> BOOLEAN]
    /\ halt \in [Cores -> BOOLEAN]
    /\ running \in [Cores -> Threads \cup {NoThread}]
    /\ next \in [Cores -> Threads \cup {NoThread}]
    /\ pc \in [Actors -> {"idle", "mark", "ipi", "loop", "enter", "guest", "exit", "svc", "handle",
                          "schedule", "read", "unload", "lock", "switch",
                          "retry", "refresh", "load"}]
    /\ ipis \in [Actors -> SUBSET Cores]
    /\ guard \in [Threads -> Cores \cup {NoCore}]
    /\ regs \in [Threads -> Cores \cup {NoCore}]
    /\ svc \subseteq Threads
    /\ dead \subseteq Threads

\* The core executes its current thread, or its registers are still to be saved or
\* have just been loaded.
Between == {"lock", "switch", "retry", "refresh"}

Executes(c, t) == running[c] = t /\ pc[c] \notin Between

\* No two cores execute a thread.
OneCore ==
    \A c, d \in Cores : \A t \in Threads : Executes(c, t) /\ Executes(d, t) => c = d

\* The registers that a core loads are the thread's last: no other core has newer ones.
ContextCurrent ==
    \A c \in Cores : pc[c] = "load" /\ running[c] # NoThread => regs[running[c]] = NoCore

\* KThread::Exit does not return, and no core resumes a thread that has terminated.
ExitFinal ==
    \A c \in Cores : running[c] \in dead =>
        pc[c] \in Between \cup {"mark", "ipi", "schedule", "read", "unload"}

\* No interrupt is lost: a core that sleeps, or runs guest code that nobody has asked to
\* stop, has the thread that is chosen for it, or is about to be interrupted.
NoLostInterrupt ==
    \A c \in Cores :
        \/ pc[c] = "idle" /\ ~interrupted[c]
        \/ pc[c] = "guest" /\ ~halt[c]
        => highest[c] = running[c] \/ \E a \in Actors : c \in ipis[a]

\* A choice that stays comes to be executed.
ChosenExecutes ==
    \A c \in Cores : \A t \in Threads :
        <>[](highest[c] = t) => <>[](Executes(c, t))

===============================================================================
