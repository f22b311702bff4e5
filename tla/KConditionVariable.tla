------------------------- MODULE KConditionVariable -------------------------
(***************************************************************************)
(* Guest mutexes and condition variables: the four system calls            *)
(* ArbitrateLock, ArbitrateUnlock, WaitProcessWideKeyAtomic and            *)
(* SignalProcessWideKey, the guest code around them, and the timer and     *)
(* termination that cancel a wait.                                         *)
(*                                                                         *)
(* A mutex is a word of guest memory (the owner's handle and the wait      *)
(* mask), a condition variable is a word that says whether it has waiters. *)
(* Guest threads read and compare-and-swap these words without entering    *)
(* the kernel, so a critical section of the scheduler lock is one step     *)
(* only as far as it stores to one word: WaitProcessWideKeyAtomic and      *)
(* SignalProcessWideKey keep the scheduler lock over several steps.        *)
(*                                                                         *)
(* Any waiter may be the next one (KThreadLocks models the priorities).    *)
(***************************************************************************)
EXTENDS Integers, FiniteSets

CONSTANTS
    Threads,
    Mutexes,        \* the addresses of the mutexes
    CondVars,       \* the keys of the condition variables
    MutexOf,        \* the mutex that protects a condition variable's predicate
    Timeouts,       \* the timeouts of waits, of "zero", "finite" and "infinite"
    Counts,         \* the numbers of threads to signal; 0 and less is all
    Terminable,     \* the threads that another thread may terminate
    Closable,       \* the threads whose handle the guest may close
    NoThread, NoMutex, NoKey

ASSUME CondVarAssumption ==
    /\ NoThread \notin Threads /\ NoMutex \notin Mutexes /\ NoKey \notin CondVars
    /\ MutexOf \in [CondVars -> Mutexes]
    /\ Counts \subseteq Int

VARIABLES
    word,                 \* the mutex words
    flag,                 \* the condition variables' words
    schedLock,            \* the thread that keeps the scheduler lock over a step
    state,                \* m_thread_state
    waitingLock,          \* m_waiting_lock_info: the mutex and its owner
    cvKey,                \* m_condvar_key of a thread in the condition variable tree
    timer,                \* the thread has a task in the hardware timer
    terminationRequested, \* m_termination_requested
    result,               \* m_wait_result
    handles,              \* the threads the handle table knows
    pc,                   \* where the thread is in the guest's or the kernel's code
    addr,                 \* the mutex its call is about; m_address_key in a wait
    key,                  \* the condition variable its call is about
    owner,                \* the owner's handle passed to ArbitrateLock
    count,                \* the number of threads left to signal
    held,                 \* the mutexes the guest code of the thread has locked
    ready,                \* the guest's predicate of a condition variable
    pending               \* the predicates a thread has set and not yet signalled

kernelVars == <<state, waitingLock, cvKey, timer, result>>
callVars == <<pc, addr, key, owner, count>>
vars == <<word, flag, schedLock, kernelVars, terminationRequested, handles, callVars,
          held, ready, pending>>

Unlocked == [owner |-> NoThread, wait |-> FALSE]
NotWaiting == [owner |-> NoThread, key |-> NoMutex]

Init ==
    /\ word = [a \in Mutexes |-> Unlocked]
    /\ flag = [k \in CondVars |-> 0]
    /\ schedLock = NoThread
    /\ state = [t \in Threads |-> "Runnable"]
    /\ waitingLock = [t \in Threads |-> NotWaiting]
    /\ cvKey = [t \in Threads |-> NoKey]
    /\ timer = [t \in Threads |-> FALSE]
    /\ terminationRequested = [t \in Threads |-> FALSE]
    /\ result = [t \in Threads |-> "Success"]
    /\ handles = Threads
    /\ pc = [t \in Threads |-> "run"]
    /\ addr = [t \in Threads |-> NoMutex]
    /\ key = [t \in Threads |-> NoKey]
    /\ owner = [t \in Threads |-> NoThread]
    /\ count = [t \in Threads |-> 0]
    /\ held = [t \in Threads |-> {}]
    /\ ready = [k \in CondVars |-> FALSE]
    /\ pending = [t \in Threads |-> {}]

-----------------------------------------------------------------------------
(* What the calls share.                                                   *)

\* A thread that runs guest code: its instructions need no lock.
InGuest(t, where) == state[t] = "Runnable" /\ pc[t] = where

\* A thread that enters a critical section of the scheduler lock.
InKernel(t, where) == state[t] = "Runnable" /\ pc[t] = where /\ schedLock = NoThread

\* Back from a system call: PhysicalCore::RunThread exits a terminating thread.
Return(t, where) == IF terminationRequested[t] THEN "exiting" ELSE where

\* The waiters of the lock info that FindHeldLock finds
Waiters(o, a) == {t \in Threads : waitingLock[t] = [owner |-> o, key |-> a]}

\* Mutant: the wait mask is lost at a hand-over.
NextValueNoMask(next, rest) == [owner |-> next, wait |-> FALSE]

\* The tag that the next owner's mutex word gets
NextValue(next, rest) == [owner |-> next, wait |-> rest # {}]

\* KThread::RemoveUserWaiterByKey by thread t for mutex a, the EndWait of the
\* next owner and the store of the tag; without a waiter the word becomes zero.
PassOn(t, a, next) ==
    LET rest == Waiters(t, a) \ {next}
    IN  IF Waiters(t, a) = {}
        THEN /\ next = NoThread
             /\ word' = [word EXCEPT ![a] = Unlocked]
             /\ UNCHANGED waitingLock
        ELSE /\ next \in Waiters(t, a)
             /\ word' = [word EXCEPT ![a] = NextValue(next, rest)]
             /\ waitingLock' = [w \in Threads |->
                    IF w = next THEN NotWaiting
                    ELSE IF w \in rest THEN [owner |-> next, key |-> a]
                    ELSE waitingLock[w]]

\* KThreadQueue::EndWait and CancelWait: the timer tasks after a wait ended
EndTimer(w) == [t \in Threads |-> IF t = w THEN FALSE ELSE timer[t]]

-----------------------------------------------------------------------------
(* The guest's mutex, and ArbitrateLock and ArbitrateUnlock.               *)

\* The guest locks a mutex: zero becomes its handle, otherwise the wait mask is
\* set and the kernel is asked to wait for the owner.
GuestLock(t, a) ==
    /\ \/ InGuest(t, "run") /\ a \notin held[t]
       \/ InGuest(t, "lock") /\ addr[t] = a
    /\ IF word[a] = Unlocked
       THEN /\ word' = [word EXCEPT ![a] = [owner |-> t, wait |-> FALSE]]
            /\ held' = [held EXCEPT ![t] = @ \cup {a}]
            /\ pc' = [pc EXCEPT ![t] = "run"]
            /\ addr' = [addr EXCEPT ![t] = NoMutex]
            /\ UNCHANGED owner
       ELSE /\ word' = [word EXCEPT ![a] = [owner |-> @.owner, wait |-> TRUE]]
            /\ pc' = [pc EXCEPT ![t] = "svc_lock"]
            /\ addr' = [addr EXCEPT ![t] = a]
            /\ owner' = [owner EXCEPT ![t] = word[a].owner]
            /\ UNCHANGED held
    /\ UNCHANGED <<flag, schedLock, kernelVars, terminationRequested, handles, key, count,
                   ready, pending>>

\* Mutant: the tag is not read again under the scheduler lock.
TagStaleUnchecked(t) == FALSE

\* The tag read under the scheduler lock is not the handle with the wait mask.
TagStale(t) == word[addr[t]] # [owner |-> owner[t], wait |-> TRUE]

\* KConditionVariable::WaitForAddress up to the wait
WaitForAddress(t) ==
    /\ InKernel(t, "svc_lock")
    /\ owner' = [owner EXCEPT ![t] = NoThread]
    /\ \/ /\ terminationRequested[t]
          /\ pc' = [pc EXCEPT ![t] = "exiting"]
          /\ UNCHANGED <<waitingLock, state, result>>
       \/ /\ ~terminationRequested[t] /\ TagStale(t)
          /\ result' = [result EXCEPT ![t] = "Success"]
          /\ pc' = [pc EXCEPT ![t] = "lock_check"]
          /\ UNCHANGED <<waitingLock, state>>
       \/ /\ ~terminationRequested[t] /\ ~TagStale(t) /\ owner[t] \notin handles
          /\ result' = [result EXCEPT ![t] = "InvalidHandle"]
          /\ pc' = [pc EXCEPT ![t] = "aborted"]
          /\ UNCHANGED <<waitingLock, state>>
       \/ /\ ~terminationRequested[t] /\ ~TagStale(t) /\ owner[t] \in handles
          /\ waitingLock' = [waitingLock EXCEPT ![t] = [owner |-> owner[t], key |-> addr[t]]]
          /\ state' = [state EXCEPT ![t] = "Waiting"]
          /\ pc' = [pc EXCEPT ![t] = "wait_lock"]
          /\ UNCHANGED result
    /\ UNCHANGED <<word, flag, schedLock, cvKey, timer, terminationRequested, handles,
                   addr, key, count, held, ready, pending>>

\* WaitForAddress returns the wait's result to the guest.
WaitForAddressReturn(t) ==
    /\ InKernel(t, "wait_lock")
    /\ pc' = [pc EXCEPT ![t] =
           Return(t, IF result[t] = "Success" THEN "lock_check" ELSE "aborted")]
    /\ result' = [result EXCEPT ![t] = "Success"]
    /\ UNCHANGED <<word, flag, schedLock, state, waitingLock, cvKey, timer,
                   terminationRequested, handles, addr, key, owner, count, held, ready, pending>>

\* The guest reads the mutex word after ArbitrateLock: it owns it, or tries again.
GuestLockCheck(t) ==
    /\ InGuest(t, "lock_check")
    /\ IF word[addr[t]].owner = t
       THEN /\ held' = [held EXCEPT ![t] = @ \cup {addr[t]}]
            /\ pc' = [pc EXCEPT ![t] = "run"]
            /\ addr' = [addr EXCEPT ![t] = NoMutex]
       ELSE /\ pc' = [pc EXCEPT ![t] = "lock"]
            /\ UNCHANGED <<held, addr>>
    /\ UNCHANGED <<word, flag, schedLock, kernelVars, terminationRequested, handles,
                   key, owner, count, ready, pending>>

\* The guest unlocks a mutex nobody waits for.
GuestUnlock(t, a) ==
    /\ InGuest(t, "run") /\ a \in held[t]
    /\ word[a] = [owner |-> t, wait |-> FALSE]
    /\ word' = [word EXCEPT ![a] = Unlocked]
    /\ held' = [held EXCEPT ![t] = @ \ {a}]
    /\ UNCHANGED <<flag, schedLock, kernelVars, terminationRequested, handles, callVars,
                   ready, pending>>

\* KConditionVariable::SignalToAddress, which the guest calls to unlock a mutex
\* whose word has the wait mask
SignalToAddress(t, a) ==
    /\ InKernel(t, "run") /\ a \in held[t]
    /\ word[a] # [owner |-> t, wait |-> FALSE]
    /\ \E next \in Waiters(t, a) \cup {NoThread} :
          /\ PassOn(t, a, next)
          /\ state' = [w \in Threads |-> IF w = next THEN "Runnable" ELSE state[w]]
          /\ result' = [w \in Threads |-> IF w = next THEN "Success" ELSE result[w]]
          /\ timer' = EndTimer(next)
    /\ held' = [held EXCEPT ![t] = @ \ {a}]
    /\ pc' = [pc EXCEPT ![t] = Return(t, "run")]
    /\ UNCHANGED <<flag, schedLock, cvKey, terminationRequested, handles, addr, key, owner,
                   count, ready, pending>>

-----------------------------------------------------------------------------
(* WaitProcessWideKeyAtomic.                                               *)

\* Mutant: the condition variable's word is not set before the mutex is released.
FlagUnset(k) == flag

FlagSet(k) == [flag EXCEPT ![k] = 1]

\* KConditionVariable::Wait up to the store of HasWaiterFlag.  The guest waits
\* with the mutex held, because its predicate does not hold.
WaitBegin(t, k) ==
    /\ InKernel(t, "run") /\ MutexOf[k] \in held[t] /\ ~ready[k]
    /\ IF terminationRequested[t]
       THEN /\ pc' = [pc EXCEPT ![t] = "exiting"]
            /\ UNCHANGED <<schedLock, flag, addr, key>>
       ELSE /\ schedLock' = t
            /\ flag' = FlagSet(k)
            /\ addr' = [addr EXCEPT ![t] = MutexOf[k]]
            /\ key' = [key EXCEPT ![t] = k]
            /\ pc' = [pc EXCEPT ![t] = "wait_release"]
    /\ UNCHANGED <<word, kernelVars, terminationRequested, handles,
                   owner, count, held, ready, pending>>

\* The rest of the critical section: the mutex goes to the next owner, and the
\* thread enters the tree.  A timeout of zero releases the mutex and returns.
WaitRelease(t, timeout) ==
    /\ schedLock = t /\ pc[t] = "wait_release"
    /\ \E next \in Waiters(t, addr[t]) \cup {NoThread} :
          /\ PassOn(t, addr[t], next)
          /\ state' = [w \in Threads |->
                 IF w = t /\ timeout # "zero" THEN "Waiting"
                 ELSE IF w = next THEN "Runnable" ELSE state[w]]
          /\ result' = [w \in Threads |->
                 IF w = t /\ timeout = "zero" THEN "TimedOut"
                 ELSE IF w = next THEN "Success" ELSE result[w]]
          /\ timer' = [EndTimer(next) EXCEPT ![t] = timeout = "finite"]
    /\ cvKey' = [cvKey EXCEPT ![t] = IF timeout = "zero" THEN NoKey ELSE key[t]]
    /\ held' = [held EXCEPT ![t] = @ \ {addr[t]}]
    /\ pc' = [pc EXCEPT ![t] = "wait_cv"]
    /\ key' = [key EXCEPT ![t] = NoKey]
    /\ schedLock' = NoThread
    /\ UNCHANGED <<flag, terminationRequested, handles, addr, owner, count, ready, pending>>

\* Wait returns: with the mutex after a signal, without it after a timeout.
WaitReturn(t) ==
    /\ InKernel(t, "wait_cv")
    /\ LET locked == result[t] = "Success" /\ ~terminationRequested[t]
       IN  /\ held' = [held EXCEPT ![t] = IF locked THEN @ \cup {addr[t]} ELSE @]
           /\ addr' = [addr EXCEPT ![t] = IF locked THEN NoMutex ELSE @]
    /\ pc' = [pc EXCEPT ![t] =
           Return(t, CASE result[t] = "Success" -> "run"
                       [] result[t] = "TimedOut" -> "lock"
                       [] OTHER -> "aborted")]
    /\ result' = [result EXCEPT ![t] = "Success"]
    /\ UNCHANGED <<word, flag, schedLock, state, waitingLock, cvKey, timer,
                   terminationRequested, handles, key, owner, count, ready, pending>>

-----------------------------------------------------------------------------
(* SignalProcessWideKey.                                                   *)

\* The guest changes a condition variable's predicate under its mutex; one that
\* makes it true owes a signal to all.
GuestSetReady(t, k) ==
    /\ InGuest(t, "run") /\ MutexOf[k] \in held[t]
    /\ ready' = [ready EXCEPT ![k] = ~@]
    /\ pending' = [pending EXCEPT ![t] = IF ready[k] THEN @ ELSE @ \cup {k}]
    /\ UNCHANGED <<word, flag, schedLock, kernelVars, terminationRequested, handles,
                   callVars, held>>

\* The guest reads the condition variable's word and calls the kernel only if
\* it has waiters.
GuestSignal(t, k, n) ==
    /\ InGuest(t, "run")
    /\ IF flag[k] = 0
       THEN /\ pending' = [pending EXCEPT ![t] = @ \ {k}]
            /\ UNCHANGED <<pc, key, count>>
       ELSE /\ pc' = [pc EXCEPT ![t] = "svc_signal"]
            /\ key' = [key EXCEPT ![t] = k]
            /\ count' = [count EXCEPT ![t] = n]
            /\ UNCHANGED pending
    /\ UNCHANGED <<word, flag, schedLock, kernelVars, terminationRequested, handles, addr,
                   owner, held, ready>>

Tree(k) == {t \in Threads : cvKey[t] = k}

\* KConditionVariable::Signal takes the scheduler lock.  A broadcast settles the
\* caller's debt, a signal for some threads does not.
SignalBegin(t) ==
    /\ InKernel(t, "svc_signal")
    /\ schedLock' = t
    /\ pc' = [pc EXCEPT ![t] = IF count[t] <= 0 THEN "signal_all" ELSE "signal"]
    /\ UNCHANGED <<word, flag, kernelVars, terminationRequested, handles, addr, key, owner,
                   count, held, ready, pending>>

\* Mutant: a free mutex stays free.
LeftFree(old, w) == IF old = Unlocked THEN old ELSE [owner |-> old.owner, wait |-> TRUE]

\* UpdateLockAtomic with the thread's own tag and the wait mask
UpdateLockAtomic(old, w) ==
    IF old = Unlocked THEN [owner |-> w, wait |-> FALSE] ELSE [owner |-> old.owner, wait |-> TRUE]

ClearConditionVariable(w) == [cvKey EXCEPT ![w] = NoKey]

\* One round of Signal's loop, with SignalImpl: the thread leaves the tree and is
\* given the mutex, is queued behind its owner, or is told that there is none.
SignalOne(t, w) ==
    LET a == addr[w]
        prev == word[a].owner
    IN  /\ schedLock = t /\ pc[t] \in {"signal", "signal_all"}
        /\ pc[t] = "signal" => count[t] > 0
        /\ w \in Tree(key[t])
        /\ count' = [count EXCEPT ![t] = IF pc[t] = "signal" THEN @ - 1 ELSE @]
        /\ cvKey' = ClearConditionVariable(w)
        /\ word' = [word EXCEPT ![a] = UpdateLockAtomic(@, w)]
        /\ IF prev # NoThread /\ prev \in handles
           THEN /\ waitingLock' = [waitingLock EXCEPT ![w] = [owner |-> prev, key |-> a]]
                /\ UNCHANGED <<state, result, timer>>
           ELSE /\ state' = [state EXCEPT ![w] = "Runnable"]
                /\ result' = [result EXCEPT ![w] =
                       IF prev = NoThread THEN "Success" ELSE "InvalidState"]
                /\ timer' = EndTimer(w)
                /\ UNCHANGED waitingLock
        /\ UNCHANGED <<flag, schedLock, terminationRequested, handles, pc, addr, key, owner,
                       held, ready, pending>>

FlagClearedIfNone(k) == IF Tree(k) = {} THEN [flag EXCEPT ![k] = 0] ELSE flag

\* The end of Signal: the word is cleared if no waiter is left.
SignalEnd(t) ==
    /\ schedLock = t
    /\ \/ pc[t] = "signal_all" /\ Tree(key[t]) = {}
       \/ pc[t] = "signal" /\ (count[t] <= 0 \/ Tree(key[t]) = {})
    /\ flag' = FlagClearedIfNone(key[t])
    /\ pending' = [pending EXCEPT ![t] = IF pc[t] = "signal_all" THEN @ \ {key[t]} ELSE @]
    /\ schedLock' = NoThread
    /\ pc' = [pc EXCEPT ![t] = Return(t, "run")]
    /\ key' = [key EXCEPT ![t] = NoKey]
    /\ count' = [count EXCEPT ![t] = 0]
    /\ UNCHANGED <<word, kernelVars, terminationRequested, handles, addr, owner, held, ready>>

-----------------------------------------------------------------------------
(* Timeouts, termination, handles.                                         *)

\* The wait queues' CancelWait: off the owner's waiters, off the tree, runnable
CancelWait(t, reason) ==
    /\ waitingLock' = [waitingLock EXCEPT ![t] = NotWaiting]
    /\ cvKey' = [cvKey EXCEPT ![t] = NoKey]
    /\ result' = [result EXCEPT ![t] = reason]
    /\ state' = [state EXCEPT ![t] = "Runnable"]

\* KHardwareTimer::DoTask with KThread::OnTimer
OnTimer(t) ==
    /\ timer[t] /\ schedLock = NoThread
    /\ timer' = [timer EXCEPT ![t] = FALSE]
    /\ IF state[t] = "Waiting" THEN CancelWait(t, "TimedOut")
       ELSE UNCHANGED <<state, waitingLock, cvKey, result>>
    /\ UNCHANGED <<word, flag, schedLock, terminationRequested, handles, callVars, held,
                   ready, pending>>

\* KThread::RequestTerminate
RequestTerminate(t) ==
    /\ t \in Terminable /\ ~terminationRequested[t] /\ schedLock = NoThread
    /\ terminationRequested' = [terminationRequested EXCEPT ![t] = TRUE]
    /\ IF state[t] = "Waiting"
       THEN CancelWait(t, "TerminationRequested") /\ timer' = EndTimer(t)
       ELSE UNCHANGED kernelVars
    /\ UNCHANGED <<word, flag, schedLock, handles, callVars, held, ready, pending>>

\* KThread::Exit of a terminating thread that runs guest code or returns to it
Exit(t) ==
    /\ terminationRequested[t] /\ state[t] = "Runnable" /\ schedLock = NoThread
    /\ pc[t] \in {"run", "lock", "lock_check", "svc_lock", "svc_signal", "exiting"}
    /\ state' = [state EXCEPT ![t] = "Terminated"]
    /\ pc' = [pc EXCEPT ![t] = "exiting"]
    /\ addr' = [addr EXCEPT ![t] = NoMutex]
    /\ key' = [key EXCEPT ![t] = NoKey]
    /\ owner' = [owner EXCEPT ![t] = NoThread]
    /\ count' = [count EXCEPT ![t] = 0]
    /\ UNCHANGED <<word, flag, schedLock, waitingLock, cvKey, timer, result,
                   terminationRequested, handles, held, ready, pending>>

\* The guest closes the handle of a thread that other threads may still name.
CloseHandle(t) ==
    /\ t \in Closable /\ t \in handles /\ schedLock = NoThread
    /\ handles' = handles \ {t}
    /\ UNCHANGED <<word, flag, schedLock, kernelVars, terminationRequested, callVars, held,
                   ready, pending>>

-----------------------------------------------------------------------------
MutexStep(t) ==
    \/ \E a \in Mutexes : GuestLock(t, a) \/ GuestUnlock(t, a) \/ SignalToAddress(t, a)
    \/ WaitForAddress(t) \/ WaitForAddressReturn(t) \/ GuestLockCheck(t)

WaitStep(t) ==
    \/ \E k \in CondVars : WaitBegin(t, k)
    \/ \E timeout \in Timeouts : WaitRelease(t, timeout)
    \/ WaitReturn(t)

SignalStep(t) ==
    \/ \E k \in CondVars : GuestSetReady(t, k)
    \/ \E k \in CondVars, n \in Counts : GuestSignal(t, k, n)
    \/ SignalBegin(t)
    \/ \E w \in Threads : SignalOne(t, w)
    \/ SignalEnd(t)

Next ==
    \E t \in Threads :
        \/ MutexStep(t) \/ WaitStep(t) \/ SignalStep(t)
        \/ OnTimer(t) \/ RequestTerminate(t) \/ Exit(t) \/ CloseHandle(t)

Spec == Init /\ [][Next]_vars

Stopped(t) == state[t] = "Terminated" \/ pc[t] = "aborted"

\* A thread that is back from a wait, or has begun a step of a call
InCall(t) ==
    state[t] = "Runnable" /\ pc[t] \in {"wait_lock", "lock_check", "wait_release", "wait_cv",
                                       "svc_signal", "signal", "signal_all", "exiting"}

\* A runnable thread gets the scheduler lock and finishes the call it is in, and the
\* guest's critical sections end.
FairSpec ==
    /\ Spec
    /\ \A t \in Threads : []<>~InCall(t) /\ []<>(held[t] = {} \/ Stopped(t))

\* What the guest sees: held mutexes, and the sleepers in the tree.
M == INSTANCE Monitor WITH locked <- held, sleeping <- [k \in CondVars |-> Tree(k)]

-----------------------------------------------------------------------------
(* Properties.                                                             *)

TypeOK ==
    /\ word \in [Mutexes -> [owner : Threads \cup {NoThread}, wait : BOOLEAN]]
    /\ flag \in [CondVars -> {0, 1}]
    /\ schedLock \in Threads \cup {NoThread}
    /\ state \in [Threads -> {"Runnable", "Waiting", "Terminated"}]
    /\ waitingLock \in [Threads -> [owner : Threads \cup {NoThread}, key : Mutexes \cup {NoMutex}]]
    /\ cvKey \in [Threads -> CondVars \cup {NoKey}]
    /\ timer \in [Threads -> BOOLEAN]
    /\ terminationRequested \in [Threads -> BOOLEAN]
    /\ result \in [Threads -> {"Success", "TimedOut", "TerminationRequested",
                               "InvalidHandle", "InvalidState"}]
    /\ handles \subseteq Threads
    /\ pc \in [Threads -> {"run", "lock", "svc_lock", "wait_lock", "lock_check", "wait_release",
                           "wait_cv", "svc_signal", "signal", "signal_all", "exiting", "aborted"}]
    /\ addr \in [Threads -> Mutexes \cup {NoMutex}]
    /\ key \in [Threads -> CondVars \cup {NoKey}]
    /\ owner \in [Threads -> Threads \cup {NoThread}]
    /\ count \in [Threads -> Int]
    /\ held \in [Threads -> SUBSET Mutexes]
    /\ ready \in [CondVars -> BOOLEAN]
    /\ pending \in [Threads -> SUBSET CondVars]

\* Mutual exclusion of the guest's mutexes: a thread that locked one by its own
\* compare-and-swap, and a thread that was woken from a mutex wait or by a signal and
\* was told that it succeeded, is the thread the word names.
SuccessMeansOwner ==
    \A t \in Threads :
        /\ \A a \in held[t] : word[a].owner = t
        /\ pc[t] \in {"wait_lock", "wait_cv"} /\ state[t] = "Runnable" /\ result[t] = "Success"
               => word[addr[t]].owner = t

\* The condition variable's word says so whenever a thread is in the tree: the
\* guest, which skips the system call on zero, never skips a waiter.
FlagCoversWaiters == \A t \in Threads : cvKey[t] # NoKey => flag[cvKey[t]] = 1

\* A timer task belongs to the wait that registered it: a thread that is not in
\* a condition variable wait has none, so that a late timer never cancels
\* another wait.
TimerOnlyInWait ==
    \A t \in Threads : timer[t] => state[t] = "Waiting" /\ pc[t] = "wait_cv"

\* A thread is in at most one of the trees that share its tree node, and only
\* while it waits.
OneTree ==
    \A t \in Threads :
        /\ cvKey[t] # NoKey => state[t] = "Waiting" /\ waitingLock[t] = NotWaiting
        /\ state[t] = "Waiting" => cvKey[t] # NoKey \/ waitingLock[t] # NotWaiting

\* However a wait ends, nothing of it is left behind in the trees, in the timer or in
\* the condition variable's word, and nothing of a wait that goes on is missing there.
WaitExact == TypeOK /\ FlagCoversWaiters /\ TimerOnlyInWait /\ OneTree

\* A thread that the kernel keeps waiting for a mutex, because it asked for it or
\* because it was signalled while the mutex was locked, waits on the thread the
\* word names and the word has the wait mask, so the owner cannot unlock the mutex
\* without entering the kernel; and whoever has been given a mutex owns it.
NoLostMutexWaiter ==
    /\ SuccessMeansOwner
    /\ \A t \in Threads : \A a \in Mutexes :
           waitingLock[t].key = a =>
               state[t] = "Waiting" /\ word[a] = [owner |-> waitingLock[t].owner, wait |-> TRUE]

\* No lost wake-up: once the predicate was made true under the mutex and everyone
\* who made it true has signalled (or has read the word and found no waiter), no
\* thread sleeps on the condition variable.  It rests on Wait storing the word
\* before it releases the mutex and on its doing both, and entering the tree,
\* under one scheduler lock, and nothing is left of a wait that ended.
NoLostSignal ==
    /\ WaitExact
    /\ \A k \in CondVars :
           ready[k] /\ (\A t \in Threads : k \notin pending[t]) => Tree(k) = {}

\* The guest's view is that of a monitor: mutual exclusion, and waiting that
\* releases and sleeps in one step, although the kernel stores the two words one
\* after the other and hands mutexes over behind the guest's back.
ImplementsMonitor == M!Spec

\* The threads that wait for a mutex do not wait on the same owner for ever, unless
\* that one ends with the mutex: each unlock finds its waiters, and hands the mutex
\* and the other waiters on.
MutexWaiterMovesOn ==
    \A a \in Mutexes : \A t \in Threads :
        (Waiters(t, a) # {}) ~> (Waiters(t, a) = {} \/ Stopped(t))

=============================================================================
