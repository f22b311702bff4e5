------------------------------ MODULE KScheduler ------------------------------
(***************************************************************************)
(* The scheduler: the priority queue with the threads that are scheduled   *)
(* on a core or suggested to it, the choice of each core's thread with the *)
(* migration of threads to idle cores, the changes of a thread's state,    *)
(* priority and affinity, the yields and the preemption every 10 ms.       *)
(*                                                                         *)
(* All that is under the scheduler lock is the record sched, and an action *)
(* changes it from the lock to the unlock, where the choice is made again  *)
(* if some part of it asked for it.  The queues of a core for the          *)
(* priorities are one sequence, in the order of the priorities (a small    *)
(* number is a high priority).  A core's switch of its thread is one step  *)
(* (KContextSwitch models it in detail).  The threads of several processes *)
(* share the cores; threads that are pinned to a core, and host threads,   *)
(* are left out.                                                           *)
(***************************************************************************)
EXTENDS Integers, Sequences, SequencesExt, FiniteSets

CONSTANTS
    Threads,
    Owner,              \* the process of each thread
    NumCores,
    Priorities,         \* the priorities that each thread may be given
    Masks,              \* the affinity masks that each thread may be given
    MigrationPriority,  \* HighestCoreMigrationAllowedPriority
    PreemptPriority,    \* at which threads are preempted; one for all cores here
    NoThread

Cores == 0 .. NumCores - 1

ASSUME SchedulerAssumption ==
    /\ NumCores \in Nat \ {0} /\ NoThread \notin Threads /\ DOMAIN Owner = Threads
    /\ Priorities \in [Threads -> SUBSET Nat] /\ {MigrationPriority, PreemptPriority} \subseteq Nat
    /\ \A t \in Threads : Masks[t] \subseteq SUBSET Cores \ {{}}

VARIABLES
    sched,    \* what the scheduler lock protects
    current,  \* the thread whose context a core has loaded
    phase,    \* "run", or "switch" while a core changes its thread
    beat      \* flips with every preemption

vars == <<sched, current, phase, beat>>

\* The fields of sched: the threads that can run, their priorities, affinity masks
\* and active cores (-1 for none); the queues; each core's highest priority thread
\* and needs_scheduling; the threads whose yield count is the scheduled count of their
\* process; the threads in the order of their last scheduled ticks.
Init ==
    /\ \E p \in [Threads -> UNION Range(Priorities)], m \in [Threads -> SUBSET Cores], a \in [Threads -> Cores] :
             /\ \A t \in Threads : p[t] \in Priorities[t] /\ m[t] \in Masks[t] /\ a[t] \in m[t]
             /\ sched = [runnable |-> {}, priority |-> p, affinity |-> m, active |-> a,
                         scheduled |-> [c \in Cores |-> <<>>],
                         suggested |-> [c \in Cores |-> <<>>],
                         highest |-> [c \in Cores |-> NoThread],
                         needs |-> [c \in Cores |-> TRUE],
                         fresh |-> {}, ticks |-> <<>>]
    /\ current = [c \in Cores |-> NoThread]
    /\ phase = [c \in Cores |-> "run"]
    /\ beat = FALSE

-----------------------------------------------------------------------------
(* KPriorityQueue.                                                         *)

First(q) == IF q = <<>> THEN NoThread ELSE Head(q)

\* Mutant: a thread is added behind those of lower priority.
BehindAll(s, q, t) == Append(q, t)

Behind(s, q, t) ==
    SelectSeq(q, LAMBDA u : s.priority[u] <= s.priority[t]) \o <<t>>
        \o SelectSeq(q, LAMBDA u : s.priority[u] > s.priority[t])

InFront(s, q, t) ==
    SelectSeq(q, LAMBDA u : s.priority[u] < s.priority[t]) \o <<t>>
        \o SelectSeq(q, LAMBDA u : s.priority[u] >= s.priority[t])

\* KPriorityQueue::Remove
Dequeue(s, t) ==
    [s EXCEPT !.scheduled = [c \in Cores |-> IF c = s.active[t] THEN Remove(@[c], t) ELSE @[c]],
              !.suggested = [c \in Cores |-> IF c \in s.affinity[t] \ {s.active[t]}
                                             THEN Remove(@[c], t) ELSE @[c]]]

\* KPriorityQueue::PushBack and PushFront
Enqueue(s, t, toFront) ==
    [s EXCEPT
        !.scheduled = [c \in Cores |-> IF c # s.active[t] THEN @[c]
                                       ELSE IF toFront THEN InFront(s, @[c], t)
                                       ELSE Behind(s, @[c], t)],
        !.suggested = [c \in Cores |-> IF c \in s.affinity[t] \ {s.active[t]}
                                       THEN Behind(s, @[c], t) ELSE @[c]]]

\* SetActiveCore with KPriorityQueue::ChangeCore
ChangeCore(s, t, core, toFront) ==
    LET prev == s.active[t]
    IN  IF prev = core THEN s
        ELSE [s EXCEPT
                !.active[t] = core,
                !.scheduled = [c \in Cores |->
                    IF c = prev THEN Remove(@[c], t)
                    ELSE IF c # core THEN @[c]
                    ELSE IF toFront THEN InFront(s, @[c], t) ELSE Behind(s, @[c], t)],
                !.suggested = [c \in Cores |->
                    IF c = core THEN Remove(@[c], t)
                    ELSE IF c = prev THEN Behind(s, @[c], t) ELSE @[c]]]

SamePriority(s, c, p) == SelectSeq(s.scheduled[c], LAMBDA u : s.priority[u] = p)

MoveToScheduledBack(s, t) ==
    [s EXCEPT !.scheduled = [c \in Cores |->
        IF c = s.active[t] THEN Behind(s, Remove(@[c], t), t) ELSE @[c]]]

\* The first thread of a queue for which Test holds
Find(q, Test(_)) ==
    LET i == SelectInSeq(q, Test) IN IF i = 0 THEN NoThread ELSE q[i]

\* GetLastScheduledTick of t is less than that of u.
WaitsLonger(s, t, u) ==
    SelectInSeq(s.ticks, LAMBDA v : v = t) < SelectInSeq(s.ticks, LAMBDA v : v = u)

-----------------------------------------------------------------------------
(* The choice of the threads to run.                                       *)

\* Mutant: the scheduled count of the process is not incremented.
ScheduledNever(s, t) == s

\* IncrementScheduledCount, of the process of t alone: no yield count of its threads is
\* that of the process any more, and the other processes keep theirs.
Scheduled(s, t) == [s EXCEPT !.fresh = {u \in @ : Owner[u] # Owner[t]}]

\* Mutant: needs_scheduling is not set if the core becomes idle.
UpdateHighestUnlessIdle(s, c, t) ==
    IF s.highest[c] = t THEN s
    ELSE [s EXCEPT !.highest[c] = t, !.needs[c] = @ \/ t # NoThread]

\* KScheduler::UpdateHighestPriorityThread
UpdateHighestPriorityThread(s, c, t) ==
    LET prev == s.highest[c]
        counted == IF prev = NoThread THEN s ELSE Scheduled(s, prev)
    IN  IF prev = t THEN s
        ELSE [counted EXCEPT
                !.highest[c] = t,
                !.needs[c] = TRUE,
                !.ticks = IF prev = NoThread THEN @ ELSE Append(Remove(@, prev), prev)]

\* The thread that runs, or is to run, on the core of t
TopOf(s, tops, t) == IF s.active[t] >= 0 THEN tops[s.active[t]] ELSE NoThread

Fronts(s) == [c \in Cores |-> First(s.scheduled[c])]

MayMigrateFrom(s, top) == top = NoThread \/ s.priority[top] >= MigrationPriority

\* One round of the loop over the idle cores: the first thread suggested to c that is
\* not the one to run on its core is migrated, or, if all are, the first whose core has
\* some other thread.
FillIdleCore(s, c) ==
    LET u == Find(s.suggested[c], LAMBDA t : TopOf(s, s.highest, t) # t)
        v == Find(s.suggested[c], LAMBDA t : Len(s.scheduled[s.active[t]]) > 1)
        Migrate(r, t) == UpdateHighestPriorityThread(ChangeCore(r, t, c, FALSE), c, t)
    IN  IF u # NoThread
        THEN IF MayMigrateFrom(s, TopOf(s, s.highest, u)) THEN Migrate(s, u) ELSE s
        ELSE IF v # NoThread
        THEN Migrate(UpdateHighestPriorityThread(s, s.active[v], s.scheduled[s.active[v]][2]), v)
        ELSE s

\* Mutant: idle cores stay idle.
UpdateWithoutMigration(s) ==
    LET step[n \in 0 .. NumCores] ==
            IF n = 0 THEN s
            ELSE UpdateHighestPriorityThread(step[n - 1], n - 1, First(s.scheduled[n - 1]))
    IN  step[NumCores]

\* KScheduler::UpdateHighestPriorityThreadsImpl
UpdateHighestPriorityThreads(s) ==
    LET front == Fronts(s)
        chosen[n \in 0 .. NumCores] ==
            IF n = 0 THEN s ELSE UpdateHighestPriorityThread(chosen[n - 1], n - 1, front[n - 1])
        filled[n \in 0 .. NumCores] ==
            IF n = 0 THEN chosen[NumCores]
            ELSE IF front[n - 1] = NoThread THEN FillIdleCore(filled[n - 1], n - 1)
            ELSE filled[n - 1]
    IN  filled[NumCores]

-----------------------------------------------------------------------------
(* Changes of a thread's state, priority and affinity.                     *)

\* The unlock by a thread that is not the current one of a core, or is it and goes on
Unlock(s) == sched' = s /\ UNCHANGED <<current, phase, beat>>

\* The unlock by the thread of core c, which has to reschedule if that is needed
UnlockOn(c, s) ==
    /\ sched' = s
    /\ phase' = [phase EXCEPT ![c] = IF s.needs[c] THEN "switch" ELSE "run"]
    /\ current' = [current EXCEPT ![c] = IF s.needs[c] THEN NoThread ELSE @]
    /\ UNCHANGED beat

Runs(c) == phase[c] = "run" /\ current[c] # NoThread

\* OnThreadStateChanged
Stopped(t) ==
    UpdateHighestPriorityThreads(
        Scheduled([Dequeue(sched, t) EXCEPT !.runnable = @ \ {t}], t))

\* The thread of core c waits.
BeginWait(c) ==
    /\ Runs(c) /\ current[c] \in sched.runnable
    /\ UnlockOn(c, Stopped(current[c]))

\* A thread is suspended, on whichever core it runs.
Suspend(t) ==
    /\ t \in sched.runnable
    /\ Unlock(Stopped(t))

\* A thread's wait or suspension ends.
EndWait(t) ==
    /\ t \notin sched.runnable
    /\ Unlock(UpdateHighestPriorityThreads(
           Scheduled(Enqueue([sched EXCEPT !.runnable = @ \cup {t}], t, FALSE), t)))

\* OnThreadPriorityChanged, by the thread itself or by another
SetPriority(t, p) ==
    /\ sched.priority[t] # p
    /\ LET removed == [Dequeue(sched, t) EXCEPT !.priority[t] = p]
           requeued(own) == UpdateHighestPriorityThreads(Scheduled(Enqueue(removed, t, own), t))
       IN  IF t \notin sched.runnable THEN Unlock([sched EXCEPT !.priority[t] = p])
           ELSE \/ Unlock(requeued(FALSE))
                \/ \E c \in Cores : Runs(c) /\ current[c] = t /\ UnlockOn(c, requeued(TRUE))

\* The active core after a change of the mask: the ideal core or the last of the mask
NewCore(t, mask) ==
    IF sched.active[t] >= 0 /\ sched.active[t] \notin mask THEN mask ELSE {sched.active[t]}

\* KThread::SetCoreMask, OnThreadAffinityMaskChanged
SetCoreMask(t, mask) ==
    /\ sched.affinity[t] # mask
    /\ \E core \in NewCore(t, mask) :
          LET changed(s) == [s EXCEPT !.affinity[t] = mask, !.active[t] = core]
          IN  IF t \notin sched.runnable THEN Unlock(changed(sched))
              ELSE Unlock(UpdateHighestPriorityThreads(
                              Scheduled(Enqueue(changed(Dequeue(sched, t)), t, FALSE), t)))

-----------------------------------------------------------------------------
(* Yields.                                                                 *)

\* A yield of the thread of core c, which does something
Yields(c) == Runs(c) /\ current[c] \in sched.runnable \ sched.fresh

YieldWithoutCoreMigration(c) ==
    /\ Yields(c)
    /\ LET t == current[c]
           s == Scheduled(MoveToScheduledBack(sched, t), t)
       IN  IF Len(SamePriority(s, s.active[t], s.priority[t])) > 1
           THEN UnlockOn(c, UpdateHighestPriorityThreads(s))
           ELSE UnlockOn(c, [s EXCEPT !.fresh = @ \cup {t}])

\* The suggested thread that takes the place of t, if it is not better to take next, and
\* whether some thread was found that may not be migrated
YieldWithCoreMigration(c) ==
    /\ Yields(c)
    /\ LET t == current[c]
           s == Scheduled(MoveToScheduledBack(sched, t), t)
           core == s.active[t]
           next == First(SamePriority(s, core, s.priority[t]))
           Top(u) == TopOf(s, s.highest, u)
           PrefersNext(u) == \/ s.priority[u] > s.priority[t]
                             \/ /\ s.priority[u] = s.priority[t] /\ next # t
                                /\ WaitsLonger(s, next, u)
           u == Find(s.suggested[core],
                     LAMBDA v : Top(v) # v /\ (PrefersNext(v) \/ MayMigrateFrom(s, Top(v))))
           before == IF u = NoThread THEN ToSet(s.suggested[core])
                     ELSE ToSet(SubSeq(s.suggested[core], 1,
                                       SelectInSeq(s.suggested[core], LAMBDA v : v = u) - 1))
           recheck == \E v \in before : Top(v) # v
       IN  IF u # NoThread /\ ~PrefersNext(u)
           THEN UnlockOn(c, UpdateHighestPriorityThreads(Scheduled(ChangeCore(s, u, core, TRUE), u)))
           ELSE IF next # t THEN UnlockOn(c, UpdateHighestPriorityThreads(s))
           ELSE UnlockOn(c, IF recheck THEN s ELSE [s EXCEPT !.fresh = @ \cup {t}])

YieldToAnyThread(c) ==
    /\ Yields(c)
    /\ LET t == current[c]
           core == sched.active[t]
           s == Scheduled(ChangeCore(sched, t, -1, FALSE), t)
           u == Find(s.suggested[core], LAMBDA v : TopOf(s, Fronts(s), v) # v)
           migrated == IF u # NoThread /\ MayMigrateFrom(s, TopOf(s, Fronts(s), u))
                       THEN Scheduled(ChangeCore(s, u, core, FALSE), u) ELSE s
       IN  IF s.scheduled[core] # <<>> THEN UnlockOn(c, UpdateHighestPriorityThreads(s))
           ELSE IF u # t THEN UnlockOn(c, UpdateHighestPriorityThreads(migrated))
           ELSE UnlockOn(c, [migrated EXCEPT !.fresh = @ \cup {t}])

-----------------------------------------------------------------------------
(* Preemption.                                                             *)

\* Mutant: the queue is not rotated.
RotateNever(s, c) == s

\* KScheduler::RotateScheduledQueue
RotateScheduledQueue(s, c) ==
    LET p == PreemptPriority
        top == First(SamePriority(s, c, p))
        moved == IF top = NoThread THEN s ELSE MoveToScheduledBack(s, top)
        next == First(SamePriority(moved, c, p))
        rotated == IF next = top THEN moved ELSE Scheduled(Scheduled(moved, top), next)
        May(r, u) == MayMigrateFrom(r, TopOf(r, Fronts(r), u))
        PrefersNext(u) == top # next /\ WaitsLonger(s, next, u)
        Same == SelectSeq(rotated.suggested[c], LAMBDA u : s.priority[u] = p)
        u == Find(Same, LAMBDA v : /\ TopOf(rotated, Fronts(rotated), v) # v
                                   /\ PrefersNext(v) \/ May(rotated, v))
        r == IF u = NoThread \/ PrefersNext(u) THEN rotated
             ELSE Scheduled(ChangeCore(rotated, u, c, TRUE), u)
        best == First(r.scheduled[c])
        w == Find(r.suggested[c], LAMBDA v : /\ r.priority[v] < r.priority[best]
                                             /\ TopOf(r, Fronts(r), v) # v /\ May(r, v))
    IN  IF best = NoThread \/ r.priority[best] < p \/ w = NoThread THEN r
        ELSE Scheduled(ChangeCore(r, w, c, TRUE), w)

\* GlobalSchedulerContext::PreemptThreads
PreemptThreads ==
    LET rotated[n \in 0 .. NumCores] ==
            IF n = 0 THEN sched ELSE RotateScheduledQueue(rotated[n - 1], n - 1)
    IN  /\ sched' = UpdateHighestPriorityThreads(rotated[NumCores])
        /\ beat' = ~beat
        /\ UNCHANGED <<current, phase>>

-----------------------------------------------------------------------------
(* The cores.                                                              *)

\* The core is interrupted, and saves the context of its thread.
Interrupt(c) ==
    /\ phase[c] = "run" /\ sched.needs[c]
    /\ phase' = [phase EXCEPT ![c] = "switch"]
    /\ current' = [current EXCEPT ![c] = NoThread]
    /\ UNCHANGED <<sched, beat>>

\* The core loads its highest priority thread, when no other core has its context.
Switch(c) ==
    /\ phase[c] = "switch"
    /\ sched.highest[c] = NoThread \/ \A d \in Cores : current[d] # sched.highest[c]
    /\ current' = [current EXCEPT ![c] = sched.highest[c]]
    /\ sched' = [sched EXCEPT !.needs[c] = FALSE]
    /\ phase' = [phase EXCEPT ![c] = "run"]
    /\ UNCHANGED beat

Next ==
    \/ \E t \in Threads : \/ Suspend(t) \/ EndWait(t)
                          \/ \E p \in Priorities[t] : SetPriority(t, p)
                          \/ \E mask \in Masks[t] : SetCoreMask(t, mask)
    \/ \E c \in Cores : \/ BeginWait(c) \/ Interrupt(c) \/ Switch(c)
                        \/ YieldWithoutCoreMigration(c)
                        \/ YieldWithCoreMigration(c) \/ YieldToAnyThread(c)
    \/ PreemptThreads

Spec == Init /\ [][Next]_vars

\* The preemption comes every 10 ms.
Fairness == []<>beat /\ []<>~beat

FairSpec == Spec /\ Fairness

-----------------------------------------------------------------------------
(* Properties.                                                             *)

TypeOK ==
    /\ sched.runnable \subseteq Threads
    /\ \A t \in Threads : sched.priority[t] \in Priorities[t] /\ sched.affinity[t] \in Masks[t]
    /\ sched.active \in [Threads -> Cores \cup {-1}]
    /\ sched.highest \in [Cores -> Threads \cup {NoThread}]
    /\ sched.needs \in [Cores -> BOOLEAN]
    /\ current \in [Cores -> Threads \cup {NoThread}]
    /\ phase \in [Cores -> {"run", "switch"}]
    /\ beat \in BOOLEAN

\* A thread that can run is scheduled on its active core and suggested to the other
\* cores of its mask, once each and in the order of the priorities; no other thread is
\* in the queues.
QueuesExact == TypeOK /\
    \A c \in Cores :
        LET a == sched.scheduled[c]
            b == sched.suggested[c]
            InOrder(q) == \A i \in 1 .. Len(q) - 1 : sched.priority[q[i]] <= sched.priority[q[i + 1]]
        IN  /\ ToSet(a) = {t \in sched.runnable : sched.active[t] = c}
            /\ ToSet(b) = {t \in sched.runnable : c \in sched.affinity[t] /\ sched.active[t] # c}
            /\ Len(a) = Cardinality(ToSet(a)) /\ Len(b) = Cardinality(ToSet(b))
            /\ InOrder(a) /\ InOrder(b)

\* The thread chosen for a core can run, there and on no other core, and none with a
\* higher priority is scheduled there; the queues it comes from are exact.
ChosenRightly == QueuesExact /\
    \A c \in Cores :
        LET t == sched.highest[c]
            S == {u \in sched.runnable : sched.active[u] = c}
        IN  IF t = NoThread THEN S = {}
            ELSE /\ t \in S /\ c \in sched.affinity[t]
                 /\ \A u \in S : sched.priority[t] <= sched.priority[u]

\* Whatever migrates threads between the cores: a core is idle, while some thread that
\* may run on it waits for its turn, only if a thread of a priority too high for
\* migrations runs on the core of such a thread.
NoCoreIdleInVain ==
    \A c \in Cores : sched.highest[c] = NoThread =>
        \/ \A t \in sched.runnable : c \in sched.affinity[t] =>
              sched.active[t] >= 0 /\ sched.scheduled[sched.active[t]] = <<t>>
        \/ \E t \in ToSet(sched.suggested[c]) :
              TopOf(sched, sched.highest, t) \notin {t, NoThread}
              /\ sched.priority[TopOf(sched, sched.highest, t)] < MigrationPriority

\* No choice is lost: a core that runs a thread other than the one chosen for it has
\* been told to schedule.
NoLostReschedule ==
    \A c \in Cores : phase[c] = "run" /\ ~sched.needs[c] => current[c] = sched.highest[c]

\* A thread's yield that is skipped, because no thread of its process was scheduled since
\* its last one, would not have let another thread of the process run: however threads
\* migrate, none with its priority is on its core.  Threads of other processes may be,
\* and do not get the turn: their own process's count is incremented, not this one's.
YieldSkippedRightly ==
    \A t \in sched.fresh \cap sched.runnable :
        /\ sched.active[t] >= 0
        /\ \A u \in ToSet(SamePriority(sched, sched.active[t], sched.priority[t])) \ {t} :
              Owner[u] # Owner[t]

\* No thread starves among threads of the priority at which they are preempted: one
\* that can run comes to be chosen, whatever the others do, unless it is stopped or
\* given another priority or a thread of a higher priority can run.
NoStarvation ==
    \A t \in Threads :
        t \in sched.runnable ~>
            \/ t \notin sched.runnable \/ sched.priority[t] # PreemptPriority
            \/ \E u \in sched.runnable : sched.priority[u] < sched.priority[t]
            \/ \E c \in Cores : sched.highest[c] = t

===============================================================================
