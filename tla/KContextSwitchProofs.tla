------------------------- MODULE KContextSwitchProofs -------------------------
(***************************************************************************)
(* For every set of threads and of cores: no two cores execute a thread,   *)
(* the registers that a core loads are the thread's last, and a thread     *)
(* that has exited is never resumed; and no interrupt that tells a core of *)
(* a new choice is lost.                                                   *)
(***************************************************************************)
EXTENDS KContextSwitch, TLAPS

\* Where a core is only with a thread of its own.
PlaceInv ==
    \A c \in Cores :
        pc[c] \in {"mark", "ipi", "enter", "guest", "exit", "svc", "unload"} => running[c] \in Threads

\* A core has the guard of the thread that it executes or is about to switch to.
GuardInv ==
    \A c \in Cores : \A t \in Threads :
        Executes(c, t) \/ (pc[c] = "switch" /\ next[c] = t) => guard[t] = c

\* Registers are outside a thread's context only while its guard is locked.
RegsInv ==
    /\ \A t \in Threads : regs[t] # NoCore => guard[t] = regs[t]
    /\ \A c \in Cores : pc[c] = "switch" /\ next[c] \in Threads => regs[next[c]] = NoCore
    /\ ContextCurrent

\* An actor that has changed the choice of the core is about to set needs_scheduling.
Marked(c) == \E b \in Actors : pc[b] = "mark" /\ c \in ipis[b]

\* A core that has, or is about to switch to, a thread other than the one chosen will
\* look at the choice again.
ChoiceInv ==
    \A c \in Cores :
        /\ pc[c] \in {"mark", "ipi", "loop", "idle", "enter", "guest", "exit", "svc", "handle", "load"} =>
              highest[c] = running[c] \/ needs[c] \/ Marked(c)
        /\ pc[c] \in {"unload", "lock", "switch"} =>
              highest[c] = next[c] \/ needs[c] \/ Marked(c)

\* A thread that has terminated keeps its guard, so that no core takes it, is not chosen,
\* and the core that it exits on will schedule.
DeadInv ==
    /\ \A t \in dead : guard[t] # NoCore
    /\ \A c \in Cores : highest[c] \notin dead
    /\ \A c \in Cores : pc[c] = "switch" => next[c] \notin dead
    /\ \A c \in Cores : running[c] \in dead =>
          /\ pc[c] = "mark" => needs[c] \/ c \in ipis[c]
          /\ pc[c] = "ipi" => needs[c]
    /\ ExitFinal

Inv == TypeOK /\ PlaceInv /\ GuardInv /\ RegsInv /\ ChoiceInv /\ DeadInv

-----------------------------------------------------------------------------
(* The steps.                                                              *)

\* The unlock of the scheduler: the flags of the cores whose choice was changed are set.
LEMMA MarkPreserves ==
    ASSUME Inv, NEW a \in Actors, Mark(a)
    PROVE  Inv'
<1>. USE SwitchAssumption DEF Inv, TypeOK, Actors, Mark, Go
<1>1. TypeOK'
    OBVIOUS
<1>2. PlaceInv'
    BY DEF PlaceInv
<1>3. GuardInv'
    BY DEF PlaceInv, GuardInv, Executes, Between
<1>4. RegsInv'
    BY DEF PlaceInv, GuardInv, RegsInv, ContextCurrent, Executes, Between
<1>5. ChoiceInv'
    BY Zenon DEF ChoiceInv, Marked
<1>6. DeadInv'
    BY Zenon DEF PlaceInv, GuardInv, ChoiceInv, DeadInv, ExitFinal, Executes, Between
<1>. QED
    BY <1>1, <1>2, <1>3, <1>4, <1>5, <1>6, Zenon

\* PhysicalCore::Interrupt touches only the core's flags.
LEMMA SendInterruptPreserves ==
    ASSUME Inv, NEW a \in Actors, NEW d \in Cores, SendInterrupt(a, d)
    PROVE  Inv'
<1>. USE SwitchAssumption DEF Inv, TypeOK, Actors, SendInterrupt, Go, InGuest
<1>1. TypeOK'
    OBVIOUS
<1>2. PlaceInv'
    BY DEF PlaceInv
<1>3. GuardInv'
    BY DEF PlaceInv, GuardInv, Executes, Between
<1>4. RegsInv'
    BY DEF PlaceInv, GuardInv, RegsInv, ContextCurrent, Executes, Between
<1>5. ChoiceInv'
    BY DEF ChoiceInv, Marked
<1>6. DeadInv'
    BY DEF PlaceInv, GuardInv, ChoiceInv, DeadInv, ExitFinal, Executes, Between
<1>. QED
    BY <1>1, <1>2, <1>3, <1>4, <1>5, <1>6, Zenon

\* EnableScheduling: a thread that has exited finds needs_scheduling set.
LEMMA InterruptedPreserves ==
    ASSUME Inv, NEW a \in Actors, Interrupted(a)
    PROVE  Inv'
<1>. USE SwitchAssumption DEF Inv, TypeOK, Actors, Interrupted, Go
<1>1. TypeOK'
    OBVIOUS
<1>2. PlaceInv'
    BY DEF PlaceInv
<1>3. GuardInv'
    BY DEF PlaceInv, GuardInv, Executes, Between
<1>4. RegsInv'
    BY DEF PlaceInv, GuardInv, RegsInv, ContextCurrent, Executes, Between
<1>5. ChoiceInv'
    BY DEF ChoiceInv, Marked
<1>6. DeadInv'
    BY DEF PlaceInv, GuardInv, ChoiceInv, DeadInv, ExitFinal, Executes, Between
<1>. QED
    BY <1>1, <1>2, <1>3, <1>4, <1>5, <1>6, Zenon

\* The guest loop looks for an interrupt.
LEMMA LoopPreserves ==
    ASSUME Inv, NEW c \in Cores, Loop(c)
    PROVE  Inv'
<1>. USE SwitchAssumption DEF Inv, TypeOK, Actors, Loop, Go
<1>1. TypeOK'
    OBVIOUS
<1>2. PlaceInv'
    BY DEF PlaceInv
<1>3. GuardInv'
    BY DEF PlaceInv, GuardInv, Executes, Between
<1>4. RegsInv'
    BY DEF PlaceInv, GuardInv, RegsInv, ContextCurrent, Executes, Between
<1>5. ChoiceInv'
    BY DEF ChoiceInv, Marked
<1>6. DeadInv'
    BY DEF PlaceInv, GuardInv, ChoiceInv, DeadInv, ExitFinal, Executes, Between
<1>. QED
    BY <1>1, <1>2, <1>3, <1>4, <1>5, <1>6, Zenon

\* An idle core is woken.
LEMMA IdlePreserves ==
    ASSUME Inv, NEW c \in Cores, Idle(c)
    PROVE  Inv'
<1>. USE SwitchAssumption DEF Inv, TypeOK, Actors, Idle, Go
<1>1. TypeOK'
    OBVIOUS
<1>2. PlaceInv'
    BY DEF PlaceInv
<1>3. GuardInv'
    BY DEF PlaceInv, GuardInv, Executes, Between
<1>4. RegsInv'
    BY DEF PlaceInv, GuardInv, RegsInv, ContextCurrent, Executes, Between
<1>5. ChoiceInv'
    BY DEF ChoiceInv, Marked
<1>6. DeadInv'
    BY DEF PlaceInv, GuardInv, ChoiceInv, DeadInv, ExitFinal, Executes, Between
<1>. QED
    BY <1>1, <1>2, <1>3, <1>4, <1>5, <1>6, Zenon

\* The registers change on the core that has the guard.
LEMMA EnterContextPreserves ==
    ASSUME Inv, NEW c \in Cores, EnterContext(c)
    PROVE  Inv'
<1>. USE SwitchAssumption DEF Inv, TypeOK, Actors, EnterContext, Go
<1>1. TypeOK'
    BY Zenon
<1>2. PlaceInv'
    BY DEF PlaceInv
<1>3. GuardInv'
    BY DEF PlaceInv, GuardInv, Executes, Between
<1>4. RegsInv'
    BY DEF PlaceInv, GuardInv, RegsInv, ContextCurrent, Executes, Between
<1>5. ChoiceInv'
    BY DEF ChoiceInv, Marked
<1>6. DeadInv'
    BY DEF PlaceInv, GuardInv, ChoiceInv, DeadInv, ExitFinal, Executes, Between
<1>. QED
    BY <1>1, <1>2, <1>3, <1>4, <1>5, <1>6, Zenon

\* Guest code stops, and may go on to a system call.
LEMMA StopPreserves ==
    ASSUME Inv, NEW c \in Cores, Stop(c)
    PROVE  Inv'
<1>. USE SwitchAssumption DEF Inv, TypeOK, Actors, Stop, Go
<1>1. TypeOK'
    BY DEF PlaceInv
<1>2. PlaceInv'
    BY DEF PlaceInv
<1>3. GuardInv'
    BY DEF PlaceInv, GuardInv, Executes, Between
<1>4. RegsInv'
    BY DEF PlaceInv, GuardInv, RegsInv, ContextCurrent, Executes, Between
<1>5. ChoiceInv'
    BY DEF ChoiceInv, Marked
<1>6. DeadInv'
    BY DEF PlaceInv, GuardInv, ChoiceInv, DeadInv, ExitFinal, Executes, Between
<1>. QED
    BY <1>1, <1>2, <1>3, <1>4, <1>5, <1>6, Zenon

\* The guest code has been left.
LEMMA ExitContextPreserves ==
    ASSUME Inv, NEW c \in Cores, ExitContext(c)
    PROVE  Inv'
<1>. USE SwitchAssumption DEF Inv, TypeOK, Actors, ExitContext, Go
<1>1. TypeOK'
    OBVIOUS
<1>2. PlaceInv'
    BY DEF PlaceInv
<1>3. GuardInv'
    BY DEF PlaceInv, GuardInv, Executes, Between
<1>4. RegsInv'
    BY DEF PlaceInv, GuardInv, RegsInv, ContextCurrent, Executes, Between
<1>5. ChoiceInv'
    BY DEF ChoiceInv, Marked
<1>6. DeadInv'
    BY DEF PlaceInv, GuardInv, ChoiceInv, DeadInv, ExitFinal, Executes, Between
<1>. QED
    BY <1>1, <1>2, <1>3, <1>4, <1>5, <1>6, Zenon

\* A system call returns.
LEMMA SvcReturnPreserves ==
    ASSUME Inv, NEW c \in Cores, SvcReturn(c)
    PROVE  Inv'
<1>. USE SwitchAssumption DEF Inv, TypeOK, Actors, SvcReturn, Go
<1>1. TypeOK'
    OBVIOUS
<1>2. PlaceInv'
    BY DEF PlaceInv
<1>3. GuardInv'
    BY DEF PlaceInv, GuardInv, Executes, Between
<1>4. RegsInv'
    BY DEF PlaceInv, GuardInv, RegsInv, ContextCurrent, Executes, Between
<1>5. ChoiceInv'
    BY DEF ChoiceInv, Marked
<1>6. DeadInv'
    BY DEF PlaceInv, GuardInv, ChoiceInv, DeadInv, ExitFinal, Executes, Between
<1>. QED
    BY <1>1, <1>2, <1>3, <1>4, <1>5, <1>6, Zenon

\* An interrupt is acknowledged.
LEMMA HandleInterruptPreserves ==
    ASSUME Inv, NEW c \in Cores, HandleInterrupt(c)
    PROVE  Inv'
<1>. USE SwitchAssumption DEF Inv, TypeOK, Actors, HandleInterrupt, Go
<1>1. TypeOK'
    OBVIOUS
<1>2. PlaceInv'
    BY DEF PlaceInv
<1>3. GuardInv'
    BY DEF PlaceInv, GuardInv, Executes, Between
<1>4. RegsInv'
    BY DEF PlaceInv, GuardInv, RegsInv, ContextCurrent, Executes, Between
<1>5. ChoiceInv'
    BY DEF ChoiceInv, Marked
<1>6. DeadInv'
    BY DEF PlaceInv, GuardInv, ChoiceInv, DeadInv, ExitFinal, Executes, Between
<1>. QED
    BY <1>1, <1>2, <1>3, <1>4, <1>5, <1>6, Zenon

\* needs_scheduling is cleared, before the choice is read.
LEMMA ScheduleImplPreserves ==
    ASSUME Inv, NEW c \in Cores, ScheduleImpl(c)
    PROVE  Inv'
<1>. USE SwitchAssumption DEF Inv, TypeOK, Actors, ScheduleImpl, Go
<1>1. TypeOK'
    OBVIOUS
<1>2. PlaceInv'
    BY DEF PlaceInv
<1>3. GuardInv'
    BY DEF PlaceInv, GuardInv, Executes, Between
<1>4. RegsInv'
    BY DEF PlaceInv, GuardInv, RegsInv, ContextCurrent, Executes, Between
<1>5. ChoiceInv'
    BY DEF ChoiceInv, Marked
<1>6. DeadInv'
    BY DEF PlaceInv, GuardInv, ChoiceInv, DeadInv, ExitFinal, Executes, Between
<1>. QED
    BY <1>1, <1>2, <1>3, <1>4, <1>5, <1>6, Zenon

\* The thread goes on if it is the one chosen, which one that has exited is not.
LEMMA ReadHighestPreserves ==
    ASSUME Inv, NEW c \in Cores, ReadHighest(c)
    PROVE  Inv'
<1>. USE SwitchAssumption DEF Inv, TypeOK, Actors, ReadHighest, Go, Resumed
<1>1. TypeOK'
    OBVIOUS
<1>2. PlaceInv'
    BY DEF PlaceInv
<1>3. GuardInv'
    BY DEF PlaceInv, GuardInv, Executes, Between
<1>4. RegsInv'
    BY DEF PlaceInv, GuardInv, RegsInv, ContextCurrent, Executes, Between
<1>5. ChoiceInv'
    BY DEF ChoiceInv, Marked
<1>6. DeadInv'
    BY SMTT(20) DEF PlaceInv, GuardInv, ChoiceInv, DeadInv, ExitFinal, Executes, Between
<1>. QED
    BY <1>1, <1>2, <1>3, <1>4, <1>5, <1>6, Zenon

\* The guard is unlocked after the registers are saved, and kept if the thread exited.
LEMMA UnloadPreserves ==
    ASSUME Inv, NEW c \in Cores, Unload(c)
    PROVE  Inv'
<1>. USE SwitchAssumption DEF Inv, TypeOK, Actors, Unload, Go
<1>1. TypeOK'
    BY Zenon
<1>2. PlaceInv'
    BY DEF PlaceInv
<1>3. GuardInv'
    BY DEF PlaceInv, GuardInv, Executes, Between
<1>4. RegsInv'
    BY DEF PlaceInv, GuardInv, RegsInv, ContextCurrent, Executes, Between
<1>5. ChoiceInv'
    BY DEF ChoiceInv, Marked
<1>6. DeadInv'
    BY DEF PlaceInv, GuardInv, ChoiceInv, DeadInv, ExitFinal, Executes, Between
<1>. QED
    BY <1>1, <1>2, <1>3, <1>4, <1>5, <1>6, Zenon

\* A guard that is free belongs to a thread whose registers are saved, and that lives.
LEMMA TryLockPreserves ==
    ASSUME Inv, NEW c \in Cores, TryLock(c)
    PROVE  Inv'
<1>. USE SwitchAssumption DEF Inv, TypeOK, Actors, TryLock, Go
<1>1. TypeOK'
    OBVIOUS
<1>2. PlaceInv'
    BY DEF PlaceInv
<1>3. GuardInv'
    BY DEF PlaceInv, GuardInv, Executes, Between
<1>4. RegsInv'
    BY DEF PlaceInv, GuardInv, RegsInv, ContextCurrent, Executes, Between
<1>5. ChoiceInv'
    BY DEF ChoiceInv, Marked
<1>6. DeadInv'
    BY DEF PlaceInv, GuardInv, ChoiceInv, DeadInv, ExitFinal, Executes, Between
<1>. QED
    BY <1>1, <1>2, <1>3, <1>4, <1>5, <1>6, Zenon

\* The thread whose guard was taken becomes the current one, or the guard is unlocked.
LEMMA SwitchThreadPreserves ==
    ASSUME Inv, NEW c \in Cores, SwitchThread(c)
    PROVE  Inv'
<1>. USE SwitchAssumption DEF Inv, TypeOK, Actors, SwitchThread, Go
<1>1. TypeOK'
    OBVIOUS
<1>2. PlaceInv'
    BY DEF PlaceInv
<1>3. GuardInv'
    BY DEF PlaceInv, GuardInv, Executes, Between
<1>4. RegsInv'
    BY DEF PlaceInv, GuardInv, RegsInv, ContextCurrent, Executes, Between
<1>5. ChoiceInv'
    BY DEF ChoiceInv, Marked
<1>6. DeadInv'
    BY DEF PlaceInv, GuardInv, ChoiceInv, DeadInv, ExitFinal, Executes, Between
<1>. QED
    BY <1>1, <1>2, <1>3, <1>4, <1>5, <1>6, Zenon

\* needs_scheduling is cleared again.
LEMMA RetryPreserves ==
    ASSUME Inv, NEW c \in Cores, Retry(c)
    PROVE  Inv'
<1>. USE SwitchAssumption DEF Inv, TypeOK, Actors, Retry, Go
<1>1. TypeOK'
    OBVIOUS
<1>2. PlaceInv'
    BY DEF PlaceInv
<1>3. GuardInv'
    BY DEF PlaceInv, GuardInv, Executes, Between
<1>4. RegsInv'
    BY DEF PlaceInv, GuardInv, RegsInv, ContextCurrent, Executes, Between
<1>5. ChoiceInv'
    BY DEF ChoiceInv, Marked
<1>6. DeadInv'
    BY DEF PlaceInv, GuardInv, ChoiceInv, DeadInv, ExitFinal, Executes, Between
<1>. QED
    BY <1>1, <1>2, <1>3, <1>4, <1>5, <1>6, Zenon

\* The choice is read again.
LEMMA RefreshPreserves ==
    ASSUME Inv, NEW c \in Cores, Refresh(c)
    PROVE  Inv'
<1>. USE SwitchAssumption DEF Inv, TypeOK, Actors, Refresh, Go
<1>1. TypeOK'
    OBVIOUS
<1>2. PlaceInv'
    BY DEF PlaceInv
<1>3. GuardInv'
    BY DEF PlaceInv, GuardInv, Executes, Between
<1>4. RegsInv'
    BY DEF PlaceInv, GuardInv, RegsInv, ContextCurrent, Executes, Between
<1>5. ChoiceInv'
    BY DEF ChoiceInv, Marked
<1>6. DeadInv'
    BY DEF PlaceInv, GuardInv, ChoiceInv, DeadInv, ExitFinal, Executes, Between
<1>. QED
    BY <1>1, <1>2, <1>3, <1>4, <1>5, <1>6, Zenon

\* The thread that was switched to goes on.
LEMMA ReloadPreserves ==
    ASSUME Inv, NEW c \in Cores, Reload(c)
    PROVE  Inv'
<1>. USE SwitchAssumption DEF Inv, TypeOK, Actors, Reload, Go, Resumed
<1>1. TypeOK'
    OBVIOUS
<1>2. PlaceInv'
    BY DEF PlaceInv
<1>3. GuardInv'
    BY DEF PlaceInv, GuardInv, Executes, Between
<1>4. RegsInv'
    BY DEF PlaceInv, GuardInv, RegsInv, ContextCurrent, Executes, Between
<1>5. ChoiceInv'
    BY DEF ChoiceInv, Marked
<1>6. DeadInv'
    BY DEF PlaceInv, GuardInv, ChoiceInv, DeadInv, ExitFinal, Executes, Between
<1>. QED
    BY <1>1, <1>2, <1>3, <1>4, <1>5, <1>6, Zenon

\* The first half of UpdateHighestPriorityThread, by the host, in a system call or by a
\* thread that exits: what it changes is marked, and no thread that has exited is chosen.
LEMMA ChoosePreserves ==
    ASSUME Inv, NEW a \in Actors, NEW D \in SUBSET Threads, Choose(a, D),
           \/ a = Host /\ D = dead
           \/ a \in Cores /\ pc[a] = "svc" /\ D = dead
           \/ a \in Cores /\ pc[a] \in {"svc", "enter"} /\ D = dead \cup {running[a]}
    PROVE  Inv'
<1>. USE SwitchAssumption DEF Inv, TypeOK, Actors, Go
<1>1. PICK h \in Choices(D) :
          /\ highest' = h
          /\ ipis' = [ipis EXCEPT ![a] = {c \in Cores : h[c] # highest[c]}]
    BY Zenon DEF Choose
<1>2. /\ h \in [Cores -> Threads \cup {NoThread}]
      /\ \A c \in Cores : h[c] \notin D
    BY <1>1 DEF Choices
<1>3. /\ \A b \in Actors : pc[b] # "mark"
      /\ pc' = [pc EXCEPT ![a] = "mark"]
      /\ dead' = D
      /\ UNCHANGED <<needs, interrupted, halt, running, next, guard, regs, svc>>
    BY DEF Choose
<1>4. dead \subseteq D
    OBVIOUS
<1>5. TypeOK'
    BY <1>1, <1>2, <1>3
<1>6. PlaceInv'
    BY <1>3 DEF PlaceInv
<1>7. GuardInv'
    BY <1>3 DEF GuardInv, Executes, Between
<1>8. RegsInv'
    BY <1>3 DEF RegsInv, ContextCurrent
<1>9. ChoiceInv'
    BY <1>1, <1>2, <1>3 DEF PlaceInv, ChoiceInv, Marked
<1>10. DeadInv'
    BY <1>1, <1>2, <1>3 DEF PlaceInv, GuardInv, ChoiceInv, Marked, DeadInv, ExitFinal, Executes, Between
<1>. QED
    BY <1>5, <1>6, <1>7, <1>8, <1>9, <1>10, Zenon

-----------------------------------------------------------------------------
(* The theorems.                                                           *)

\* The cores start in ScheduleImpl, with no thread.
LEMMA InitInv == Init => Inv
BY SwitchAssumption
   DEF Init, Inv, TypeOK, PlaceInv, GuardInv, RegsInv, ContextCurrent, ChoiceInv, Marked,
       DeadInv, ExitFinal, Executes, Between, Actors

\* Every step of a core, of its guest code and of the host preserves the invariant.
LEMMA NextInv == Inv /\ [Next]_vars => Inv'
<1>. SUFFICES ASSUME Inv, [Next]_vars
              PROVE  Inv'
    OBVIOUS
<1>1. CASE HostChoose
    BY <1>1, ChoosePreserves DEF HostChoose, Actors, Inv, TypeOK
<1>2. CASE HostStep
    BY <1>2, MarkPreserves, InterruptedPreserves, SendInterruptPreserves DEF HostStep, Actors
<1>3. ASSUME NEW c \in Cores, CoreStep(c)
      PROVE  Inv'
    BY <1>3, MarkPreserves, InterruptedPreserves, SendInterruptPreserves, LoopPreserves,
       IdlePreserves, EnterContextPreserves, ExitContextPreserves, SvcReturnPreserves,
       HandleInterruptPreserves, ScheduleImplPreserves, ReadHighestPreserves,
       UnloadPreserves, TryLockPreserves, SwitchThreadPreserves, RetryPreserves,
       RefreshPreserves, ReloadPreserves
       DEF CoreStep, Actors
<1>4. ASSUME NEW c \in Cores, Stop(c)
      PROVE  Inv'
    BY <1>4, StopPreserves
<1>5. ASSUME NEW c \in Cores, SvcChoose(c)
      PROVE  Inv'
    BY <1>5, ChoosePreserves DEF SvcChoose, Actors, Inv, TypeOK
<1>6. ASSUME NEW c \in Cores, Exit(c)
      PROVE  Inv'
    <2>1. running[c] \in Threads
        BY <1>6 DEF Exit, Inv, PlaceInv
    <2>. QED
        BY <1>6, <2>1, ChoosePreserves, SMTT(20) DEF Exit, Actors, Inv, TypeOK
<1>7. CASE UNCHANGED vars
    BY <1>7 DEF vars, Inv, TypeOK, PlaceInv, GuardInv, RegsInv, ContextCurrent, ChoiceInv, Marked,
                DeadInv, ExitFinal, Executes, Between
<1>. QED
    BY <1>1, <1>2, <1>3, <1>4, <1>5, <1>6, <1>7 DEF Next

\* The inductive invariant holds in every state.
THEOREM Invariance == Spec => []Inv
<1>. QED
    BY InitInv, NextInv, PTL DEF Spec

\* The variables of the cores, their physical cores and the threads keep their types.
THEOREM TypeCorrect == Spec => []TypeOK
<1>1. Inv => TypeOK
    BY Zenon DEF Inv
<1>. QED
    BY Invariance, <1>1, PTL

\* No two cores execute a thread: the guard of its context has one owner.
THEOREM Exclusive == Spec => []OneCore
<1>1. Inv => OneCore
    BY DEF Inv, GuardInv, OneCore
<1>. QED
    BY Invariance, <1>1, PTL

\* Reload finds in the thread's context what the last core that ran it has saved.
THEOREM LoadsLast == Spec => []ContextCurrent
<1>1. Inv => ContextCurrent
    BY DEF Inv, RegsInv
<1>. QED
    BY Invariance, <1>1, PTL

\* KThread::Exit does not return, and no core resumes a thread that has terminated.
THEOREM ExitIsFinal == Spec => []ExitFinal
<1>1. Inv => ExitFinal
    BY DEF Inv, DeadInv
<1>. QED
    BY Invariance, <1>1, PTL

-----------------------------------------------------------------------------
(* Interrupts.                                                             *)

\* An actor that changed the choice of the core is still to interrupt it.
Told(c) == \E a \in Actors : c \in ipis[a]

\* Only an actor that has changed the choice has cores to interrupt, and once the choice is
\* marked itself is not among them.
IpiInv ==
    \A a \in Actors :
        /\ pc[a] \notin {"mark", "ipi"} => ipis[a] = {}
        /\ pc[a] = "ipi" => a \notin ipis[a]

\* A core that goes on with a thread, or is about to switch to one, has the one that is chosen
\* unless it is to be interrupted, is interrupted, or is about to look at needs_scheduling;
\* guest code that runs on an interrupted core is asked to stop.
InterruptInv ==
    \A c \in Cores :
        /\ pc[c] \in {"loop", "idle", "enter", "guest", "exit", "svc", "handle", "load"} =>
              highest[c] = running[c] \/ interrupted[c] \/ Told(c)
        /\ pc[c] \in {"mark", "ipi"} =>
              highest[c] = running[c] \/ interrupted[c] \/ Told(c) \/ needs[c]
        /\ pc[c] \in {"unload", "lock", "switch"} =>
              highest[c] = next[c] \/ interrupted[c] \/ Told(c)
        /\ pc[c] = "guest" /\ interrupted[c] => halt[c]

TellInv == IpiInv /\ InterruptInv

\* The unlock marks the core itself, which has no interrupt to wait for.
LEMMA MarkTells ==
    ASSUME Inv, TellInv, NEW a \in Actors, Mark(a)
    PROVE  TellInv'
<1>. USE SwitchAssumption DEF Inv, TypeOK, TellInv, Actors, Mark, Go
<1>1. IpiInv'
    BY DEF IpiInv
<1>2. InterruptInv'
    BY Zenon DEF InterruptInv, Told
<1>. QED
    BY <1>1, <1>2, Zenon

\* PhysicalCore::Interrupt sets m_is_interrupted whatever the core does, and stops guest code.
LEMMA SendInterruptTells ==
    ASSUME Inv, TellInv, NEW a \in Actors, NEW d \in Cores, SendInterrupt(a, d)
    PROVE  TellInv'
<1>. USE SwitchAssumption DEF Inv, TypeOK, TellInv, Actors, SendInterrupt, InGuest
<1>1. IpiInv'
    BY DEF IpiInv
<1>2. InterruptInv'
    BY ZenonT(20) DEF InterruptInv, Told
<1>. QED
    BY <1>1, <1>2, Zenon

\* A core that finds needs_scheduling cleared has the thread that is chosen, or is told otherwise.
LEMMA InterruptedTells ==
    ASSUME Inv, TellInv, NEW a \in Actors, Interrupted(a)
    PROVE  TellInv'
<1>. USE SwitchAssumption DEF Inv, TypeOK, TellInv, Actors, Interrupted, Go
<1>1. IpiInv'
    BY DEF IpiInv
<1>2. InterruptInv'
    BY DEF InterruptInv, Told
<1>. QED
    BY <1>1, <1>2, Zenon

\* Every core whose choice is changed is to be interrupted, or marks itself.
LEMMA ChooseTells ==
    ASSUME Inv, TellInv, NEW a \in Actors, NEW D \in SUBSET Threads, Choose(a, D),
           pc[a] \in {"idle", "svc", "enter"}
    PROVE  TellInv'
<1>. USE SwitchAssumption DEF Inv, TypeOK, TellInv, Actors
<1>1. PICK h \in Choices(D) :
          /\ highest' = h
          /\ ipis' = [ipis EXCEPT ![a] = {c \in Cores : h[c] # highest[c]}]
    BY Zenon DEF Choose
<1>2. /\ pc' = [pc EXCEPT ![a] = "mark"]
      /\ UNCHANGED <<needs, interrupted, halt, running, next, guard, regs, svc>>
    BY DEF Choose, Go
<1>3. ipis[a] = {}
    BY DEF IpiInv
<1>4. \A c \in Cores : (highest'[c] = highest[c] \/ Told(c)') /\ (Told(c) => Told(c)')
    BY <1>1, <1>3 DEF Told
<1>5. IpiInv'
    BY <1>1, <1>2, SMTT(20) DEF IpiInv
<1>6. InterruptInv'
    BY <1>2, <1>4 DEF InterruptInv
<1>. QED
    BY <1>5, <1>6, Zenon

\* Every step of a core, of its guest code and of the host.
LEMMA NextTells == Inv /\ TellInv /\ [Next]_vars => TellInv'
<1>. SUFFICES ASSUME Inv, TellInv, [Next]_vars
              PROVE  TellInv'
    OBVIOUS
<1>. USE SwitchAssumption
<1>1. CASE HostChoose
    BY <1>1, ChooseTells DEF HostChoose, Actors, Inv, TypeOK
<1>2. CASE HostStep
    BY <1>2, MarkTells, InterruptedTells, SendInterruptTells, Zenon DEF HostStep, Actors
<1>3. ASSUME NEW c \in Cores, CoreStep(c)
      PROVE  TellInv'
    <2>1. CASE Mark(c) \/ Interrupted(c) \/ \E d \in Cores : SendInterrupt(c, d)
        BY <2>1, MarkTells, InterruptedTells, SendInterruptTells DEF Actors
    <2>. USE DEF Inv, TypeOK, TellInv, IpiInv, InterruptInv, Told, Actors, Go
    <2>2. CASE Loop(c)
        BY <2>2 DEF Loop
    <2>3. CASE Idle(c)
        BY <2>3 DEF Idle
    <2>4. CASE EnterContext(c)
        BY <2>4 DEF EnterContext
    <2>5. CASE ExitContext(c)
        BY <2>5 DEF ExitContext
    <2>6. CASE SvcReturn(c)
        BY <2>6 DEF SvcReturn
    <2>7. CASE HandleInterrupt(c)
        BY <2>7 DEF HandleInterrupt
    <2>8. CASE ScheduleImpl(c)
        BY <2>8 DEF ScheduleImpl
    <2>9. CASE ReadHighest(c)
        BY <2>9 DEF ReadHighest, Resumed
    <2>10. CASE Unload(c)
        BY <2>10 DEF Unload
    <2>11. CASE TryLock(c)
        BY <2>11 DEF TryLock
    <2>12. CASE SwitchThread(c)
        BY <2>12 DEF SwitchThread
    <2>13. CASE Retry(c)
        BY <2>13 DEF Retry
    <2>14. CASE Refresh(c)
        BY <2>14 DEF Refresh
    <2>15. CASE Reload(c)
        BY <2>15 DEF Reload, Resumed
    <2>. QED
        BY <1>3, <2>1, <2>2, <2>3, <2>4, <2>5, <2>6, <2>7, <2>8, <2>9, <2>10, <2>11, <2>12,
           <2>13, <2>14, <2>15, Zenon DEF CoreStep
<1>4. ASSUME NEW c \in Cores, Stop(c)
      PROVE  TellInv'
    BY <1>4 DEF Stop, Inv, TypeOK, TellInv, IpiInv, InterruptInv, Told, Actors, Go
<1>5. ASSUME NEW c \in Cores, SvcChoose(c)
      PROVE  TellInv'
    BY <1>5, ChooseTells DEF SvcChoose, Actors, Inv, TypeOK
<1>6. ASSUME NEW c \in Cores, Exit(c)
      PROVE  TellInv'
    <2>1. running[c] \in Threads
        BY <1>6 DEF Exit, Inv, PlaceInv
    <2>. QED
        BY <1>6, <2>1, ChooseTells DEF Exit, Actors, Inv, TypeOK
<1>7. CASE UNCHANGED vars
    BY <1>7 DEF vars, TellInv, IpiInv, InterruptInv, Told
<1>. QED
    BY <1>1, <1>2, <1>3, <1>4, <1>5, <1>6, <1>7 DEF Next

\* No interrupt is lost: RescheduleCores sends it after the choice is made and marked, a core
\* that is about to sleep or to enter guest code looks at it, and guest code is stopped by it,
\* so that none sleeps or runs on with a thread that is no longer its choice.
THEOREM InterruptsArrive == Spec => []NoLostInterrupt
<1>1. Init => TellInv
    BY SwitchAssumption DEF Init, TellInv, IpiInv, InterruptInv, Told, Actors
<1>2. Inv /\ TellInv => NoLostInterrupt
    BY DEF Inv, TypeOK, TellInv, InterruptInv, Told, NoLostInterrupt
<1>. QED
    BY Invariance, NextTells, <1>1, <1>2, PTL DEF Spec

===============================================================================
