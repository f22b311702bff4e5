----------------------------- MODULE KLightLock -----------------------------
(***************************************************************************)
(* The kernel's light lock: a tag word that is taken and released by       *)
(* compare-and-swap and, under contention, handed from owner to waiter     *)
(* under the scheduler lock.  The module carries the part of KThread that  *)
(* the slow paths touch: the masked state, the suspend flags, the count of *)
(* kernel waiters and the lock a thread waits for.  Every critical section *)
(* of the scheduler lock is one step; the compare-and-swaps are steps of   *)
(* their own.                                                              *)
(*                                                                         *)
(* Which waiter inherits the lock is decided by priority; here any waiter  *)
(* may be the one (KThreadLocks models the priorities).                    *)
(***************************************************************************)
EXTENDS Integers, FiniteSets

CONSTANTS
    Threads,        \* the guest and service threads that run kernel code
    Locks,          \* the light locks, numbered in the order they are nested
    SuspendTypes,   \* the suspend types that are requested
    Terminable,     \* the threads that another thread may terminate
    NoThread        \* the null thread pointer

ASSUME ThreadsAssumption == IsFiniteSet(Threads) /\ NoThread \notin Threads
ASSUME LocksAssumption == Locks \subseteq Nat

VARIABLES
    tag,                  \* m_tag: the owner and the low "has waiters" bit
    state,                \* m_thread_state without the suspend flags
    suspended,            \* the suspend flags in m_thread_state
    suspendRequest,       \* m_suspend_request_flags
    suspendAllowed,       \* m_suspend_allowed_flags
    terminationRequested, \* m_termination_requested
    numKernelWaiters,     \* m_num_kernel_waiters
    waitingLock,          \* m_waiting_lock_info: the key and its owner
    running,              \* the thread's fiber is executing on some core
    pc,                   \* where the thread is in Lock and Unlock
    lock,                 \* the lock that call is about
    seen,                 \* the owner LockSlowPath was called with
    held                  \* the locks whose Lock() returned and Unlock() did not

threadVars == <<state, suspended, suspendRequest, suspendAllowed,
                terminationRequested, numKernelWaiters, waitingLock, running>>
vars == <<tag, threadVars, pc, lock, seen, held>>

Free == [owner |-> NoThread, waiters |-> FALSE]
NotWaiting == [owner |-> NoThread, key |-> 0]

Init ==
    /\ tag = [l \in Locks |-> Free]
    /\ state = [t \in Threads |-> "Runnable"]
    /\ suspended = [t \in Threads |-> {}]
    /\ suspendRequest = [t \in Threads |-> {}]
    /\ suspendAllowed = [t \in Threads |-> SuspendTypes]
    /\ terminationRequested = [t \in Threads |-> FALSE]
    /\ numKernelWaiters = [t \in Threads |-> 0]
    /\ waitingLock = [t \in Threads |-> NotWaiting]
    /\ running = [t \in Threads |-> FALSE]
    /\ pc = [t \in Threads |-> "run"]
    /\ lock = [t \in Threads |-> 0]
    /\ seen = [t \in Threads |-> NoThread]
    /\ held = [t \in Threads |-> {}]

-----------------------------------------------------------------------------
(* KThread.                                                                *)

\* KThread::GetSuspendFlags and IsSuspended
SuspendFlags(t) == suspendAllowed[t] \cap suspendRequest[t]
IsSuspended(t) == SuspendFlags(t) # {}

\* The waiters of the lock info that FindHeldLock finds
Waiters(owner, l) == {t \in Threads : waitingLock[t] = [owner |-> owner, key |-> l]}

\* The threads that wait for any lock of an owner
AllWaiters(owner) == {t \in Threads : waitingLock[t].owner = owner}

\* Mutant: Unlock forgets to suspend again.
TrySuspendsNever(t, n) == suspended[t]

\* KThread::TrySuspend, with UpdateState, of a thread with n kernel waiters
TrySuspends(t, n) == IF IsSuspended(t) /\ n = 0 THEN SuspendFlags(t) ELSE suspended[t]

\* Mutant: a suspended owner is left suspended when a waiter arrives.
ContinuesNever(t, n) == suspended[t]

\* KThread::ContinueIfHasKernelWaiters of a thread with n kernel waiters
ContinuesIfWaiters(t, n) == IF IsSuspended(t) /\ n > 0 THEN {} ELSE suspended[t]

Schedulable(t) == state[t] = "Runnable" /\ suspended[t] = {}

\* The end of a scheduler critical section that thread t ran: EnableScheduling
\* leaves t on its core exactly if it may still run.
Reschedules(t) == running' = [running EXCEPT ![t] = Schedulable(t)']

\* A core leaves a thread that may not run any more, or picks one that may.
SwitchThread(t) ==
    /\ running[t] # Schedulable(t)
    /\ running' = [running EXCEPT ![t] = ~running[t]]
    /\ UNCHANGED <<tag, state, suspended, suspendRequest, suspendAllowed,
                   terminationRequested, numKernelWaiters, waitingLock, pc, lock, seen, held>>

\* KThread::RequestSuspend, with TrySuspend and UpdateState
RequestSuspend(t, type) ==
    /\ type \notin suspendRequest[t]
    /\ suspendRequest' = [suspendRequest EXCEPT ![t] = @ \cup {type}]
    /\ suspended' = [suspended EXCEPT ![t] =
           IF numKernelWaiters[t] > 0 THEN @ ELSE suspendAllowed[t] \cap suspendRequest'[t]]
    /\ UNCHANGED <<tag, state, suspendAllowed, terminationRequested, numKernelWaiters,
                   waitingLock, running, pc, lock, seen, held>>

\* KThread::Resume, with UpdateState.  The callers resume what they suspended.
Resume(t, type) ==
    /\ type \in suspendRequest[t]
    /\ suspendRequest' = [suspendRequest EXCEPT ![t] = @ \ {type}]
    /\ suspended' = [suspended EXCEPT ![t] = suspendAllowed[t] \cap suspendRequest'[t]]
    /\ UNCHANGED <<tag, state, suspendAllowed, terminationRequested, numKernelWaiters,
                   waitingLock, running, pc, lock, seen, held>>

\* KThread::RequestTerminate on a thread that was started; a waiting thread is
\* woken by ThreadQueueImplForKLightLock::CancelWait, which takes it off the
\* owner's waiters.
RequestTerminate(t) ==
    /\ t \in Terminable /\ ~terminationRequested[t]
    /\ terminationRequested' = [terminationRequested EXCEPT ![t] = TRUE]
    /\ IF IsSuspended(t)
       THEN /\ suspendAllowed' = [suspendAllowed EXCEPT ![t] = {}]
            /\ suspended' = [suspended EXCEPT ![t] = {}]
       ELSE UNCHANGED <<suspendAllowed, suspended>>
    /\ IF state[t] = "Waiting"
       THEN /\ numKernelWaiters' = [numKernelWaiters EXCEPT ![waitingLock[t].owner] = @ - 1]
            /\ waitingLock' = [waitingLock EXCEPT ![t] = NotWaiting]
            /\ state' = [state EXCEPT ![t] = "Runnable"]
       ELSE UNCHANGED <<numKernelWaiters, waitingLock, state>>
    /\ UNCHANGED <<tag, suspendRequest, running, pc, lock, seen, held>>

\* KThread::Exit, which a thread runs on its way back to the guest
Exit(t) ==
    /\ running[t] /\ pc[t] = "run" /\ held[t] = {} /\ state[t] # "Terminated"
    /\ terminationRequested[t]
    /\ suspendAllowed' = [suspendAllowed EXCEPT ![t] = {}]
    /\ suspended' = [suspended EXCEPT ![t] = {}]
    /\ state' = [state EXCEPT ![t] = "Terminated"]
    /\ running' = [running EXCEPT ![t] = FALSE]
    /\ UNCHANGED <<tag, suspendRequest, terminationRequested, numKernelWaiters, waitingLock,
                   pc, lock, seen, held>>

-----------------------------------------------------------------------------
(* KLightLock.                                                             *)

\* KLightLock::Lock: the compare-and-swap.  Locks nest in ascending order.
Lock(t, l) ==
    /\ running[t]
    /\ \/ pc[t] = "run" /\ \A k \in held[t] : k < l
       \/ pc[t] = "lock" /\ lock[t] = l
    /\ IF tag[l] = Free
       THEN /\ tag' = [tag EXCEPT ![l] = [owner |-> t, waiters |-> FALSE]]
            /\ pc' = [pc EXCEPT ![t] = "run"]
            /\ lock' = [lock EXCEPT ![t] = 0]
            /\ held' = [held EXCEPT ![t] = @ \cup {l}]
            /\ UNCHANGED seen
       ELSE /\ tag' = [tag EXCEPT ![l] = [owner |-> @.owner, waiters |-> TRUE]]
            /\ pc' = [pc EXCEPT ![t] = "lock_slow"]
            /\ lock' = [lock EXCEPT ![t] = l]
            /\ seen' = [seen EXCEPT ![t] = tag[l].owner]
            /\ UNCHANGED held
    /\ UNCHANGED threadVars

\* Mutant: LockSlowPath does not look at the tag again.
AlwaysLocking(t) == TRUE

\* The tag, read again under the scheduler lock, is the one the caller saw.
HasLockingToDo(t) == tag[lock[t]] = [owner |-> seen[t], waiters |-> TRUE]

\* KLightLock::LockSlowPath: the critical section
LockSlowPath(t) ==
    LET l == lock[t]
        owner == seen[t]
    IN  /\ running[t] /\ pc[t] = "lock_slow"
        /\ seen' = [seen EXCEPT ![t] = NoThread]
        /\ IF ~HasLockingToDo(t)
           THEN /\ pc' = [pc EXCEPT ![t] = "lock"]
                /\ UNCHANGED <<state, suspended, numKernelWaiters, waitingLock>>
           ELSE /\ pc' = [pc EXCEPT ![t] = "lock_wait"]
                /\ waitingLock' = [waitingLock EXCEPT ![t] = [owner |-> owner, key |-> l]]
                /\ numKernelWaiters' = [numKernelWaiters EXCEPT ![owner] = @ + 1]
                /\ state' = [state EXCEPT ![t] = "Waiting"]
                /\ suspended' = [suspended EXCEPT
                       ![owner] = ContinuesIfWaiters(owner, numKernelWaiters'[owner])]
        /\ Reschedules(t)
        /\ UNCHANGED <<tag, suspendRequest, suspendAllowed, terminationRequested, lock, held>>

\* KLightLock::LockSlowPath returns true after the wait, and Lock returns
LockReturn(t) ==
    /\ running[t] /\ pc[t] = "lock_wait" /\ state[t] = "Runnable"
    /\ pc' = [pc EXCEPT ![t] = "run"]
    /\ lock' = [lock EXCEPT ![t] = 0]
    /\ held' = [held EXCEPT ![t] = @ \cup {lock[t]}]
    /\ UNCHANGED <<tag, threadVars, seen>>

\* KLightLock::Unlock: the compare-and-swap.  Scoped locks are released in the
\* reverse order.
Unlock(t, l) ==
    /\ running[t] /\ pc[t] = "run"
    /\ l \in held[t] /\ \A k \in held[t] : k <= l
    /\ IF tag[l] = [owner |-> t, waiters |-> FALSE]
       THEN /\ tag' = [tag EXCEPT ![l] = Free]
            /\ held' = [held EXCEPT ![t] = @ \ {l}]
            /\ UNCHANGED <<pc, lock>>
       ELSE /\ pc' = [pc EXCEPT ![t] = "unlock_slow"]
            /\ lock' = [lock EXCEPT ![t] = l]
            /\ UNCHANGED <<tag, held>>
    /\ UNCHANGED <<threadVars, seen>>

\* KLightLock::UnlockSlowPath when RemoveKernelWaiterByKey finds no lock info
UnlockSlowPathNoWaiter(t) ==
    LET l == lock[t]
    IN  /\ running[t] /\ pc[t] = "unlock_slow"
        /\ Waiters(t, l) = {}
        /\ tag' = [tag EXCEPT ![l] = Free]
        /\ suspended' = [suspended EXCEPT ![t] = TrySuspends(t, numKernelWaiters[t])]
        /\ pc' = [pc EXCEPT ![t] = "run"]
        /\ lock' = [lock EXCEPT ![t] = 0]
        /\ held' = [held EXCEPT ![t] = @ \ {l}]
        /\ UNCHANGED <<state, suspendRequest, suspendAllowed, terminationRequested,
                       numKernelWaiters, waitingLock, seen>>
        /\ Reschedules(t)

\* The counters of kernel waiters after RemoveWaiterByKey
MoveWaiters(t, next, l) ==
    [numKernelWaiters EXCEPT ![t] = @ - Cardinality(Waiters(t, l)),
                             ![next] = @ + Cardinality(Waiters(t, l) \ {next})]

\* Mutant: the hand-over frees the tag.
NextTagFree(next, hasWaiters) == Free

NextTag(next, hasWaiters) == [owner |-> next, waiters |-> hasWaiters]

\* KLightLock::UnlockSlowPath when it hands the lock to the waiter next:
\* RemoveWaiterByKey moves the remaining waiters to next.
UnlockSlowPath(t, next) ==
    LET l == lock[t]
        rest == Waiters(t, l) \ {next}
    IN  /\ running[t] /\ pc[t] = "unlock_slow"
        /\ next \in Waiters(t, l)
        /\ waitingLock' = [w \in Threads |->
               IF w = next THEN NotWaiting
               ELSE IF w \in rest THEN [owner |-> next, key |-> l]
               ELSE waitingLock[w]]
        /\ numKernelWaiters' = MoveWaiters(t, next, l)
        /\ state' = [state EXCEPT ![next] = "Runnable"]
        /\ suspended' = [suspended EXCEPT
               ![next] = ContinuesIfWaiters(next, numKernelWaiters'[next]),
               ![t] = TrySuspends(t, numKernelWaiters'[t])]
        /\ tag' = [tag EXCEPT ![l] = NextTag(next, rest # {})]
        /\ pc' = [pc EXCEPT ![t] = "run"]
        /\ lock' = [lock EXCEPT ![t] = 0]
        /\ held' = [held EXCEPT ![t] = @ \ {l}]
        /\ Reschedules(t)
        /\ UNCHANGED <<suspendRequest, suspendAllowed, terminationRequested, seen>>

-----------------------------------------------------------------------------
ThreadStep(t) ==
    \/ \E l \in Locks : Lock(t, l)
    \/ LockSlowPath(t)
    \/ LockReturn(t)
    \/ \E l \in Locks : Unlock(t, l)
    \/ UnlockSlowPathNoWaiter(t)
    \/ \E next \in Threads : UnlockSlowPath(t, next)
    \/ Exit(t)

OtherStep(t) ==
    \/ SwitchThread(t)
    \/ \E type \in SuspendTypes : RequestSuspend(t, type) \/ Resume(t, type)

\* Termination reaches only threads that do not wait for a light lock.
Next ==
    \E t \in Threads :
        \/ ThreadStep(t)
        \/ OtherStep(t)
        \/ state[t] # "Waiting" /\ RequestTerminate(t)

Spec == Init /\ [][Next]_vars

\* Termination reaches any thread, as KProcess::TerminateChildren's does.
NextWithCancel == \E t \in Threads : ThreadStep(t) \/ OtherStep(t) \/ RequestTerminate(t)

SpecWithCancel == Init /\ [][NextWithCancel]_vars

\* A runnable thread is eventually given a core, and a thread on a core goes on:
\* a scoped lock is released after finitely many instructions.
Release(t) == \E l \in Locks : Unlock(t, l)
Finish(t) ==
    \/ LockSlowPath(t) \/ LockReturn(t)
    \/ \E l \in Locks : pc[t] = "lock" /\ Lock(t, l)
    \/ UnlockSlowPathNoWaiter(t)
    \/ \E next \in Threads : UnlockSlowPath(t, next)

FairSpec ==
    /\ Spec
    /\ \A t \in Threads : WF_vars(SwitchThread(t)) /\ WF_vars(Finish(t)) /\ WF_vars(Release(t))

-----------------------------------------------------------------------------
(* Properties.                                                             *)

TypeOK ==
    /\ tag \in [Locks -> [owner : Threads \cup {NoThread}, waiters : BOOLEAN]]
    /\ state \in [Threads -> {"Runnable", "Waiting", "Terminated"}]
    /\ suspended \in [Threads -> SUBSET SuspendTypes]
    /\ suspendRequest \in [Threads -> SUBSET SuspendTypes]
    /\ suspendAllowed \in [Threads -> SUBSET SuspendTypes]
    /\ terminationRequested \in [Threads -> BOOLEAN]
    /\ numKernelWaiters \in [Threads -> Nat]
    /\ waitingLock \in [Threads -> [owner : Threads \cup {NoThread}, key : Locks \cup {0}]]
    /\ running \in [Threads -> BOOLEAN]
    /\ pc \in [Threads -> {"run", "lock", "lock_slow", "lock_wait", "unlock_slow"}]
    /\ lock \in [Threads -> Locks \cup {0}]
    /\ seen \in [Threads -> Threads \cup {NoThread}]
    /\ held \in [Threads -> SUBSET Locks]

\* A thread between Lock() and Unlock() is the one the tag names, which is what
\* IsLockedByCurrentThread asserts throughout the kernel; so two threads are
\* never inside the same lock, whichever of the fast path, the retry and the
\* hand-over admitted them.
HolderOwnsTag == \A t \in Threads : \A l \in held[t] : tag[l].owner = t

\* A thread parked by LockSlowPath waits on the thread that owns the lock now and
\* the tag says that there are waiters, so the owner's Unlock cannot take the
\* fast path past it.
NoLostWaiter ==
    \A t \in Threads : state[t] = "Waiting" =>
        /\ waitingLock[t].key = lock[t]
        /\ tag[lock[t]] = [owner |-> waitingLock[t].owner, waiters |-> TRUE]

\* m_num_kernel_waiters, which AddWaiter and RemoveWaiterByKey update by
\* increments and by whole lock infos, is the number of threads waiting on the
\* thread for any lock.
WaitersCounted == \A o \in Threads : numKernelWaiters[o] = Cardinality(AllWaiters(o))

\* A suspension is in force exactly while it is requested and no thread waits for
\* a lock the suspended thread owns: TrySuspend, ContinueIfHasKernelWaiters and
\* the re-suspension in UnlockSlowPath together neither lose nor anticipate one.
SuspensionExact ==
    \A t \in Threads :
        suspended[t] = IF numKernelWaiters[t] > 0 THEN {} ELSE SuspendFlags(t)

\* TrySuspend performs a suspension only after it made sure that no thread waits
\* for a lock the suspended thread owns; no step may suspend an owner that others
\* wait for.
NeverSuspendedUnderWaiters ==
    \A t \in Threads : numKernelWaiters[t] > 0 => suspended[t] = {}

\* The tag stops naming an owner only in that owner's own Unlock.
OnlyHolderReleases ==
    [][\A l \in Locks : \A t \in Threads :
           tag[l].owner = t /\ tag'[l].owner # t => l \in held[t] /\ l \notin held'[t]]_vars

\* A lock that others wait for is eventually passed on, however often its owner
\* is suspended while it is inside.
ContendedLockPassedOn ==
    \A l \in Locks : \A t \in Threads :
        (tag[l].owner = t /\ Waiters(t, l) # {}) ~> (tag[l].owner # t)

=============================================================================
