----------------------- MODULE KConditionVariableProofs -----------------------
(***************************************************************************)
(* Guest mutexes and condition variables are correct for every set of      *)
(* threads, of mutexes and of condition variables, whatever the timeouts   *)
(* and counts of the calls and whoever is terminated or closed: no signal  *)
(* and no mutex waiter is lost, and the guest sees a monitor.              *)
(***************************************************************************)
EXTENDS KConditionVariable, TLAPS

\* The scheduler lock is kept over a step only by a thread in the middle of Wait or of
\* Signal, and such a thread runs; only a thread in a wait does not.
LockInv ==
    \A t \in Threads :
        /\ pc[t] \in {"wait_release", "signal", "signal_all"} <=> schedLock = t
        /\ schedLock = t => state[t] = "Runnable"
        /\ state[t] = "Waiting" => pc[t] \in {"wait_lock", "wait_cv"}

\* The arguments of the call a thread is in.
CallInv ==
    \A t \in Threads :
        /\ pc[t] \in {"lock", "svc_lock", "wait_lock", "lock_check", "wait_release", "wait_cv"}
               => addr[t] \in Mutexes
        /\ pc[t] \in {"wait_release", "svc_signal", "signal", "signal_all"}
               => key[t] \in CondVars

\* Between the two stores of Wait the thread has its mutex, the condition variable's
\* word is set, and the predicate that the guest looked at does not hold.
ReleaseInv ==
    \A t \in Threads :
        pc[t] = "wait_release" =>
            /\ addr[t] = MutexOf[key[t]] /\ addr[t] \in held[t]
            /\ flag[key[t]] = 1 /\ ~ready[key[t]]

\* A word without an owner is zero.
WordInv == \A a \in Mutexes : word[a].owner = NoThread => word[a] = Unlocked

\* A thread that waits for a mutex waits for the one its call is about, on the thread the
\* word names, and the word has the wait mask.
WaiterInv ==
    \A t \in Threads :
        waitingLock[t] # NotWaiting =>
            /\ state[t] = "Waiting"
            /\ addr[t] \in Mutexes /\ waitingLock[t].key = addr[t]
            /\ waitingLock[t].owner \in Threads
            /\ word[addr[t]] = [owner |-> waitingLock[t].owner, wait |-> TRUE]

\* Nobody sleeps on a condition variable whose predicate holds and was signalled.
SleepInv ==
    \A k \in CondVars :
        ready[k] /\ (\A t \in Threads : k \notin pending[t]) => \A t \in Threads : cvKey[t] # k

Inv ==
    /\ TypeOK /\ LockInv /\ CallInv /\ ReleaseInv
    /\ WordInv /\ WaiterInv /\ SuccessMeansOwner
    /\ FlagCoversWaiters /\ TimerOnlyInWait /\ OneTree /\ SleepInv

\* Nobody waits and no mutex is held at first.
LEMMA InitInv == Init => Inv
<1>. SUFFICES ASSUME Init PROVE Inv
    BY Zenon
<1>. USE CondVarAssumption DEF Init, NotWaiting, Unlocked
<1>1. TypeOK
    BY DEF TypeOK
<1>2. LockInv /\ CallInv /\ ReleaseInv
    BY Zenon DEF LockInv, CallInv, ReleaseInv
<1>3. WordInv /\ WaiterInv /\ SuccessMeansOwner
    BY Zenon DEF WordInv, WaiterInv, SuccessMeansOwner
<1>4. FlagCoversWaiters /\ TimerOnlyInWait /\ OneTree /\ SleepInv
    BY Zenon DEF FlagCoversWaiters, TimerOnlyInWait, OneTree, SleepInv
<1>. QED
    BY <1>1, <1>2, <1>3, <1>4, Zenon DEF Inv

\* The invariant is strong enough for the properties of the module.
LEMMA InvImplies == Inv => NoLostMutexWaiter /\ NoLostSignal
<1>. SUFFICES ASSUME Inv PROVE NoLostMutexWaiter /\ NoLostSignal
    BY Zenon
<1>1. ASSUME NEW t \in Threads, NEW a \in Mutexes, waitingLock[t].key = a
      PROVE  state[t] = "Waiting" /\ word[a] = [owner |-> waitingLock[t].owner, wait |-> TRUE]
    <2>1. waitingLock[t] # NotWaiting
        BY <1>1, CondVarAssumption DEF NotWaiting
    <2>. QED
        BY <1>1, <2>1, Zenon DEF Inv, WaiterInv
<1>2. NoLostMutexWaiter
    BY <1>1, Zenon DEF Inv, NoLostMutexWaiter
<1>3. ASSUME NEW k \in CondVars, ready[k], \A t \in Threads : k \notin pending[t]
      PROVE  Tree(k) = {}
    BY <1>3, Zenon DEF Inv, SleepInv, Tree
<1>4. NoLostSignal
    BY <1>3, Zenon DEF Inv, NoLostSignal, WaitExact
<1>. QED
    BY <1>2, <1>4, Zenon

-----------------------------------------------------------------------------
(* What the steps share.                                                   *)

\* A thread that runs has left nothing behind in the trees and in the timer.
LEMMA RunningThread ==
    ASSUME Inv, NEW t \in Threads, state[t] # "Waiting"
    PROVE  waitingLock[t] = NotWaiting /\ cvKey[t] = NoKey /\ ~timer[t]
BY Zenon DEF Inv, WaiterInv, OneTree, TimerOnlyInWait

\* RemoveUserWaiterByKey and the store of the tag, by the thread the word names: every
\* waiter of the mutex waits on that thread, so that one of them owns the mutex after
\* it and the others wait on that one, with the wait mask set.
LEMMA PassOnStep ==
    ASSUME Inv, NEW t \in Threads, NEW a \in Mutexes, word[a].owner = t, state[t] = "Runnable",
           NEW next \in Waiters(t, a) \cup {NoThread}, PassOn(t, a, next)
    PROVE  /\ word' \in [Mutexes -> [owner : Threads \cup {NoThread}, wait : BOOLEAN]]
           /\ waitingLock' \in [Threads -> [owner : Threads \cup {NoThread},
                                            key : Mutexes \cup {NoMutex}]]
           /\ \A m \in Mutexes \ {a} : word'[m] = word[m]
           /\ WordInv' /\ word'[a].owner = next
           /\ next \in Threads => /\ next # t /\ state[next] = "Waiting" /\ addr[next] = a
                                  /\ waitingLock'[next] = NotWaiting /\ cvKey[next] = NoKey
           /\ \A u \in Threads \ {next} :
                 /\ waitingLock'[u] = NotWaiting <=> waitingLock[u] = NotWaiting
                 /\ waitingLock'[u] # NotWaiting =>
                        /\ waitingLock'[u].key = addr[u] /\ waitingLock'[u].owner \in Threads
                        /\ word'[addr[u]] = [owner |-> waitingLock'[u].owner, wait |-> TRUE]
<1>1. TypeOK
    BY Zenon DEF Inv
<1>2. \A u \in Threads : waitingLock[u] # NotWaiting /\ addr[u] = a => u \in Waiters(t, a)
    <2>. SUFFICES ASSUME NEW u \in Threads, waitingLock[u] # NotWaiting, addr[u] = a
                  PROVE  waitingLock[u] = [owner |-> t, key |-> a]
        BY Zenon DEF Waiters
    <2>1. waitingLock[u].key = a /\ word[a] = [owner |-> waitingLock[u].owner, wait |-> TRUE]
        BY Zenon DEF Inv, WaiterInv
    <2>2. waitingLock[u].owner = t
        BY <2>1
    <2>3. waitingLock[u] \in [owner : Threads \cup {NoThread}, key : Mutexes \cup {NoMutex}]
        BY <1>1, Zenon DEF TypeOK
    <2>. QED
        BY <2>1, <2>2, <2>3, Zenon
<1>3. CASE Waiters(t, a) = {}
    <2>1. /\ next = NoThread /\ next \notin Threads
          /\ word' = [word EXCEPT ![a] = Unlocked] /\ waitingLock' = waitingLock
        BY <1>3, CondVarAssumption, Zenon DEF PassOn
    <2>2. \A u \in Threads : waitingLock[u] # NotWaiting => addr[u] # a
        BY <1>2, <1>3, Zenon
    <2>3. word' \in [Mutexes -> [owner : Threads \cup {NoThread}, wait : BOOLEAN]]
        BY <1>1, <2>1, Zenon DEF TypeOK, Unlocked
    <2>4. word'[a] = Unlocked /\ \A m \in Mutexes \ {a} : word'[m] = word[m]
        BY <1>1, <2>1, Zenon DEF TypeOK
    <2>5. WordInv' /\ word'[a].owner = next
        <3>1. WordInv'
            BY <2>4, Zenon DEF Inv, WordInv
        <3>. QED
            BY <2>1, <2>4, <3>1 DEF Unlocked
    <2>6. \A u \in Threads : waitingLock'[u] # NotWaiting =>
              /\ waitingLock'[u].key = addr[u] /\ waitingLock'[u].owner \in Threads
              /\ word'[addr[u]] = [owner |-> waitingLock'[u].owner, wait |-> TRUE]
        <3>. SUFFICES ASSUME NEW u \in Threads, waitingLock[u] # NotWaiting
                      PROVE  /\ waitingLock[u].key = addr[u] /\ waitingLock[u].owner \in Threads
                             /\ word'[addr[u]] = [owner |-> waitingLock[u].owner, wait |-> TRUE]
            BY <2>1, Zenon
        <3>1. word'[addr[u]] = word[addr[u]]
            BY <2>2, <2>4, Zenon DEF Inv, WaiterInv
        <3>. QED
            BY <3>1, Zenon DEF Inv, WaiterInv
    <2>. QED
        BY <1>1, <2>1, <2>3, <2>4, <2>5, <2>6, Zenon DEF TypeOK
<1>4. CASE Waiters(t, a) # {}
    <2>. DEFINE rest == Waiters(t, a) \ {next}
    <2>1. /\ next \in Waiters(t, a) /\ next \in Threads
          /\ word' = [word EXCEPT ![a] = [owner |-> next, wait |-> rest # {}]]
          /\ waitingLock' = [w \in Threads |->
                    IF w = next THEN NotWaiting
                    ELSE IF w \in rest THEN [owner |-> next, key |-> a]
                    ELSE waitingLock[w]]
        BY <1>4, Zenon DEF PassOn, NextValue, Waiters
    <2>2. \A u \in Waiters(t, a) : /\ waitingLock[u] = [owner |-> t, key |-> a]
                                   /\ waitingLock[u] # NotWaiting /\ addr[u] = a
        <3>1. \A u \in Waiters(t, a) : u \in Threads /\ waitingLock[u] = [owner |-> t, key |-> a]
            BY Zenon DEF Waiters
        <3>2. [owner |-> t, key |-> a].key # NotWaiting.key
            BY CondVarAssumption, Zenon DEF NotWaiting
        <3>. QED
            <4>1. \A u \in Waiters(t, a) : waitingLock[u].key = a /\ waitingLock[u] # NotWaiting
                BY <3>1, <3>2
            <4>. QED
                BY <3>1, <4>1, Zenon DEF Inv, WaiterInv
    <2>3. state[next] = "Waiting" /\ next # t /\ cvKey[next] = NoKey /\ waitingLock'[next] = NotWaiting
        BY <2>1, <2>2, Zenon DEF Inv, WaiterInv, OneTree
    <2>4. word' \in [Mutexes -> [owner : Threads \cup {NoThread}, wait : BOOLEAN]]
        BY <1>1, <2>1, Zenon DEF TypeOK
    <2>5. waitingLock' \in [Threads -> [owner : Threads \cup {NoThread},
                                        key : Mutexes \cup {NoMutex}]]
        BY <1>1, <2>1, Zenon DEF TypeOK, NotWaiting
    <2>6. /\ word'[a] = [owner |-> next, wait |-> rest # {}]
          /\ \A m \in Mutexes \ {a} : word'[m] = word[m]
        BY <1>1, <2>1, Zenon DEF TypeOK
    <2>7. WordInv' /\ word'[a].owner = next
        BY <2>1, <2>6, CondVarAssumption DEF Inv, WordInv
    <2>8. ASSUME NEW u \in Threads \ {next}
          PROVE  /\ waitingLock'[u] = NotWaiting <=> waitingLock[u] = NotWaiting
                 /\ waitingLock'[u] # NotWaiting =>
                        /\ waitingLock'[u].key = addr[u] /\ waitingLock'[u].owner \in Threads
                        /\ word'[addr[u]] = [owner |-> waitingLock'[u].owner, wait |-> TRUE]
        <3>1. CASE u \in rest
            <4>1. waitingLock'[u] = [owner |-> next, key |-> a] /\ rest # {}
                BY <2>1, <3>1, Zenon
            <4>2. waitingLock[u] # NotWaiting /\ addr[u] = a
                BY <2>2, <3>1, Zenon
            <4>3. /\ waitingLock'[u].key = a /\ waitingLock'[u].owner = next
                  /\ a # NotWaiting.key
                BY <4>1, CondVarAssumption DEF NotWaiting
            <4>4. word'[a] = [owner |-> next, wait |-> TRUE] /\ next \in Threads
                BY <2>1, <2>6, <4>1, Zenon
            <4>. QED
                BY <4>2, <4>3, <4>4, Zenon
        <3>2. CASE u \notin rest
            <4>1. waitingLock'[u] = waitingLock[u]
                BY <2>1, <3>2, Zenon
            <4>2. waitingLock[u] # NotWaiting => addr[u] # a
                BY <1>2, <3>2, Zenon
            <4>. QED
                BY <2>6, <4>1, <4>2, ZenonT(30) DEF Inv, WaiterInv
        <3>. QED
            BY <3>1, <3>2, Zenon
    <2>. QED
        BY <2>1, <2>2, <2>3, <2>4, <2>5, <2>6, <2>7, <2>8, Zenon
<1>. QED
    BY <1>3, <1>4, Zenon

-----------------------------------------------------------------------------
(* Lock and unlock.                                                        *)

\* GuestLock: a free mutex is taken, otherwise only the wait mask is set.
LEMMA GuestLockPreserves ==
    ASSUME Inv, NEW t \in Threads, NEW a \in Mutexes, GuestLock(t, a)
    PROVE  Inv'
<1>. USE CondVarAssumption DEF Inv, GuestLock, InGuest, kernelVars
<1>1. waitingLock[t] = NotWaiting
    BY RunningThread, Zenon
<1>2. FlagCoversWaiters' /\ OneTree' /\ SleepInv'
    BY Zenon DEF FlagCoversWaiters, OneTree, SleepInv
<1>3. CASE word[a] = Unlocked
    <2>1. /\ word' = [word EXCEPT ![a] = [owner |-> t, wait |-> FALSE]]
          /\ held' = [held EXCEPT ![t] = @ \cup {a}]
          /\ pc' = [pc EXCEPT ![t] = "run"] /\ addr' = [addr EXCEPT ![t] = NoMutex]
          /\ UNCHANGED <<owner, state, waitingLock, result>>
        BY <1>3, Zenon
    <2>2. /\ word'[a] = [owner |-> t, wait |-> FALSE]
          /\ \A m \in Mutexes \ {a} : word'[m] = word[m]
        BY <2>1, Zenon DEF TypeOK
    <2>3. TypeOK'
        BY <1>3, <2>1, Zenon DEF TypeOK
    <2>4. LockInv' /\ CallInv' /\ ReleaseInv' /\ TimerOnlyInWait'
        BY <2>1 DEF TypeOK, LockInv, CallInv, ReleaseInv, TimerOnlyInWait
    <2>5. WordInv'
        BY <2>2 DEF WordInv
    <2>6. WaiterInv'
        BY <1>1, <1>3, <2>1, <2>2 DEF TypeOK, WaiterInv, Unlocked
    <2>7. SuccessMeansOwner'
        BY <1>3, <2>1, <2>2 DEF TypeOK, SuccessMeansOwner, CallInv, Unlocked
    <2>. QED
        BY <1>2, <2>3, <2>4, <2>5, <2>6, <2>7, Zenon
<1>4. CASE word[a] # Unlocked
    <2>1. /\ word' = [word EXCEPT ![a] = [owner |-> word[a].owner, wait |-> TRUE]]
          /\ pc' = [pc EXCEPT ![t] = "svc_lock"] /\ addr' = [addr EXCEPT ![t] = a]
          /\ owner' = [owner EXCEPT ![t] = word[a].owner]
          /\ UNCHANGED <<held, state, waitingLock, result>>
        BY <1>4, Zenon
    <2>2. /\ word'[a] = [owner |-> word[a].owner, wait |-> TRUE]
          /\ \A m \in Mutexes \ {a} : word'[m] = word[m]
        BY <2>1, Zenon DEF TypeOK
    <2>3. TypeOK'
        BY <1>4, <2>1, Zenon DEF TypeOK
    <2>4. LockInv' /\ CallInv' /\ ReleaseInv' /\ TimerOnlyInWait'
        BY <2>1 DEF TypeOK, LockInv, CallInv, ReleaseInv, TimerOnlyInWait
    <2>5. WordInv'
        BY <1>4, <2>2 DEF WordInv
    <2>6. WaiterInv'
        BY <1>1, <2>1, <2>2 DEF TypeOK, WaiterInv
    <2>7. SuccessMeansOwner'
        BY <2>1, <2>2 DEF TypeOK, SuccessMeansOwner, CallInv
    <2>. QED
        BY <1>2, <2>3, <2>4, <2>5, <2>6, <2>7, Zenon
<1>. QED
    BY <1>3, <1>4, Zenon

\* WaitForAddress: the thread waits only if the word still names the owner, with the mask.
LEMMA WaitForAddressPreserves ==
    ASSUME Inv, NEW t \in Threads, WaitForAddress(t)
    PROVE  Inv'
<1>. USE CondVarAssumption DEF Inv, WaitForAddress, InKernel
<1>1. waitingLock[t] = NotWaiting /\ cvKey[t] = NoKey /\ addr[t] \in Mutexes
    BY RunningThread, Zenon DEF CallInv
<1>2. WordInv' /\ FlagCoversWaiters' /\ SleepInv'
    BY Zenon DEF WordInv, FlagCoversWaiters, SleepInv
<1>3. CASE UNCHANGED <<waitingLock, state>>
    <2>1. PICK there \in {"exiting", "lock_check", "aborted"},
               res \in {result[t], "Success", "InvalidHandle"} :
              pc' = [pc EXCEPT ![t] = there] /\ result' = [result EXCEPT ![t] = res]
        BY <1>3 DEF TypeOK
    <2>2. TypeOK'
        BY <1>3, <2>1, Zenon DEF TypeOK
    <2>3. LockInv' /\ CallInv' /\ ReleaseInv' /\ TimerOnlyInWait'
        BY <1>3, <2>1 DEF TypeOK, LockInv, CallInv, ReleaseInv, TimerOnlyInWait
    <2>4. WaiterInv' /\ OneTree'
        BY <1>3, Zenon DEF WaiterInv, OneTree
    <2>5. SuccessMeansOwner'
        BY <1>3, <2>1 DEF TypeOK, SuccessMeansOwner
    <2>. QED
        BY <1>2, <2>2, <2>3, <2>4, <2>5, Zenon
<1>4. CASE /\ ~TagStale(t) /\ owner[t] \in handles
           /\ waitingLock' = [waitingLock EXCEPT ![t] = [owner |-> owner[t], key |-> addr[t]]]
           /\ state' = [state EXCEPT ![t] = "Waiting"]
           /\ pc' = [pc EXCEPT ![t] = "wait_lock"]
           /\ UNCHANGED result
    <2>1. waitingLock'[t] = [owner |-> owner[t], key |-> addr[t]] /\ state'[t] = "Waiting"
        BY <1>4, Zenon DEF TypeOK
    <2>2. waitingLock'[t] # NotWaiting
        <3>1. waitingLock'[t].key # NotWaiting.key
            BY <1>1, <2>1 DEF NotWaiting
        <3>. QED
            BY <3>1, Zenon
    <2>3. word[addr[t]] = [owner |-> owner[t], wait |-> TRUE] /\ owner[t] \in Threads
        BY <1>4, Zenon DEF TypeOK, TagStale
    <2>4. \A u \in Threads \ {t} : waitingLock'[u] = waitingLock[u] /\ state'[u] = state[u]
        BY <1>4, Zenon DEF TypeOK
    <2>5. TypeOK'
        BY <1>1, <1>4, <2>3, Zenon DEF TypeOK
    <2>6. LockInv' /\ CallInv' /\ ReleaseInv'
        BY <1>1, <1>4 DEF TypeOK, LockInv, CallInv, ReleaseInv
    <2>7. WaiterInv'
        <3>1. /\ waitingLock'[t].key = addr[t] /\ waitingLock'[t].owner = owner[t]
              /\ UNCHANGED <<word, addr>>
            BY <2>1
        <3>. QED
            BY <1>1, <2>1, <2>3, <2>4, <3>1, ZenonT(30) DEF WaiterInv
    <2>8. SuccessMeansOwner' /\ TimerOnlyInWait'
        BY <1>4 DEF TypeOK, SuccessMeansOwner, TimerOnlyInWait
    <2>9. OneTree'
        BY <1>1, <2>1, <2>2, <2>4, Zenon DEF OneTree
    <2>. QED
        BY <1>2, <2>5, <2>6, <2>7, <2>8, <2>9, Zenon
<1>. QED
    BY <1>3, <1>4, Zenon

\* WaitForAddress returns to the guest.
LEMMA WaitForAddressReturnPreserves ==
    ASSUME Inv, NEW t \in Threads, WaitForAddressReturn(t)
    PROVE  Inv'
<1>. USE CondVarAssumption DEF Inv, WaitForAddressReturn, InKernel, Return
<1>1. TypeOK'
    BY Zenon DEF TypeOK
<1>2. LockInv' /\ CallInv' /\ ReleaseInv'
    BY DEF TypeOK, LockInv, CallInv, ReleaseInv
<1>3. WordInv' /\ WaiterInv' /\ FlagCoversWaiters' /\ OneTree' /\ SleepInv'
    BY Zenon DEF WordInv, WaiterInv, FlagCoversWaiters, OneTree, SleepInv
<1>4. SuccessMeansOwner'
    BY Zenon DEF TypeOK, SuccessMeansOwner
<1>5. TimerOnlyInWait'
    BY Zenon DEF TypeOK, TimerOnlyInWait
<1>. QED
    BY <1>1, <1>2, <1>3, <1>4, <1>5, Zenon

\* The guest has the mutex only if the word names it.
LEMMA GuestLockCheckPreserves ==
    ASSUME Inv, NEW t \in Threads, GuestLockCheck(t)
    PROVE  Inv'
<1>. USE CondVarAssumption DEF Inv, GuestLockCheck, InGuest, kernelVars
<1>1. addr[t] \in Mutexes /\ state[t] # "Waiting" /\ waitingLock[t] = NotWaiting
    BY RunningThread, Zenon DEF CallInv
<1>2. WordInv' /\ FlagCoversWaiters' /\ OneTree' /\ SleepInv'
    BY Zenon DEF WordInv, FlagCoversWaiters, OneTree, SleepInv
<1>3. CASE word[addr[t]].owner = t
    <2>1. PICK h \in SUBSET Mutexes : held' = [held EXCEPT ![t] = h] /\ h = held[t] \cup {addr[t]}
        BY <1>1, <1>3 DEF TypeOK
    <2>2. /\ pc' = [pc EXCEPT ![t] = "run"]
          /\ addr' = [addr EXCEPT ![t] = NoMutex]
        BY <1>3, Zenon
    <2>3. TypeOK'
        BY <2>1, <2>2, Zenon DEF TypeOK
    <2>4. LockInv' /\ CallInv' /\ ReleaseInv' /\ TimerOnlyInWait'
        BY <1>1, <2>1, <2>2 DEF TypeOK, LockInv, CallInv, ReleaseInv, TimerOnlyInWait
    <2>5. WaiterInv'
        BY <1>1, <2>2 DEF TypeOK, WaiterInv
    <2>6. SuccessMeansOwner'
        <3>1. \A a \in h : word[a].owner = t
            BY <1>3, <2>1, Zenon DEF SuccessMeansOwner
        <3>. QED
            BY <2>1, <2>2, <3>1, ZenonT(30) DEF TypeOK, SuccessMeansOwner
    <2>. QED
        BY <1>2, <2>3, <2>4, <2>5, <2>6, Zenon
<1>4. CASE word[addr[t]].owner # t
    <2>. USE <1>1, <1>4
    <2>1. TypeOK'
        BY Zenon DEF TypeOK
    <2>2. LockInv' /\ CallInv' /\ ReleaseInv' /\ TimerOnlyInWait'
        BY DEF TypeOK, LockInv, CallInv, ReleaseInv, TimerOnlyInWait
    <2>3. WaiterInv'
        BY Zenon DEF TypeOK, WaiterInv
    <2>4. SuccessMeansOwner'
        BY DEF TypeOK, SuccessMeansOwner
    <2>. QED
        BY <1>2, <2>1, <2>2, <2>3, <2>4, Zenon
<1>. QED
    BY <1>3, <1>4, Zenon

\* The guest unlocks without the kernel: nobody waits for the mutex.
LEMMA GuestUnlockPreserves ==
    ASSUME Inv, NEW t \in Threads, NEW a \in Mutexes, GuestUnlock(t, a)
    PROVE  Inv'
<1>. USE CondVarAssumption DEF Inv, GuestUnlock, InGuest, kernelVars, callVars
<1>1. word'[a] = Unlocked /\ \A m \in Mutexes \ {a} : word'[m] = word[m]
    BY Zenon DEF TypeOK
<1>2. TypeOK'
    BY Zenon DEF TypeOK, Unlocked
<1>3. LockInv' /\ CallInv' /\ FlagCoversWaiters' /\ TimerOnlyInWait' /\ OneTree' /\ SleepInv'
    BY DEF LockInv, CallInv, FlagCoversWaiters, TimerOnlyInWait, OneTree, SleepInv
<1>4. ReleaseInv'
    BY Zenon DEF TypeOK, ReleaseInv
<1>5. WordInv'
    BY <1>1, Zenon DEF WordInv
<1>6. WaiterInv'
    BY <1>1 DEF WaiterInv
<1>7. SuccessMeansOwner'
    BY <1>1 DEF TypeOK, SuccessMeansOwner, CallInv
<1>. QED
    BY <1>2, <1>3, <1>4, <1>5, <1>6, <1>7, Zenon

\* SignalToAddress: the next owner's wait ends with the mutex.
LEMMA SignalToAddressPreserves ==
    ASSUME Inv, NEW t \in Threads, NEW a \in Mutexes, SignalToAddress(t, a)
    PROVE  Inv'
<1>. USE CondVarAssumption DEF Inv, SignalToAddress, InKernel
<1>1. word[a].owner = t /\ state[t] = "Runnable"
    BY Zenon DEF SuccessMeansOwner
<1>2. PICK next \in Waiters(t, a) \cup {NoThread} :
          /\ PassOn(t, a, next)
          /\ state' = [w \in Threads |-> IF w = next THEN "Runnable" ELSE state[w]]
          /\ result' = [w \in Threads |-> IF w = next THEN "Success" ELSE result[w]]
          /\ timer' = EndTimer(next)
    BY Zenon
<1>3. /\ word' \in [Mutexes -> [owner : Threads \cup {NoThread}, wait : BOOLEAN]]
      /\ waitingLock' \in [Threads -> [owner : Threads \cup {NoThread},
                                       key : Mutexes \cup {NoMutex}]]
      /\ \A m \in Mutexes \ {a} : word'[m] = word[m]
      /\ WordInv' /\ word'[a].owner = next
      /\ next \in Threads => /\ next # t /\ state[next] = "Waiting" /\ addr[next] = a
                             /\ waitingLock'[next] = NotWaiting /\ cvKey[next] = NoKey
      /\ \A u \in Threads \ {next} :
            /\ waitingLock'[u] = NotWaiting <=> waitingLock[u] = NotWaiting
            /\ waitingLock'[u] # NotWaiting =>
                   /\ waitingLock'[u].key = addr[u] /\ waitingLock'[u].owner \in Threads
                   /\ word'[addr[u]] = [owner |-> waitingLock'[u].owner, wait |-> TRUE]
    BY <1>1, <1>2, PassOnStep
<1>4. TypeOK'
    BY <1>2, <1>3, ZenonT(30) DEF TypeOK, EndTimer, Return
<1>5. LockInv' /\ CallInv' /\ ReleaseInv'
    BY <1>2, <1>3 DEF TypeOK, LockInv, CallInv, ReleaseInv, Return
<1>6. WaiterInv'
    BY <1>2, <1>3, ZenonT(30) DEF WaiterInv
<1>7. SuccessMeansOwner'
    BY <1>1, <1>2, <1>3 DEF TypeOK, SuccessMeansOwner, CallInv, Return
<1>8. FlagCoversWaiters' /\ SleepInv'
    BY Zenon DEF FlagCoversWaiters, SleepInv
<1>9. TimerOnlyInWait'
    BY <1>2, <1>3 DEF TypeOK, TimerOnlyInWait, EndTimer
<1>10. OneTree'
    BY <1>2, <1>3, ZenonT(30) DEF TypeOK, OneTree
<1>. QED
    BY <1>3, <1>4, <1>5, <1>6, <1>7, <1>8, <1>9, <1>10, Zenon

-----------------------------------------------------------------------------
(* Wait, signal and the ends of a wait.                                    *)

\* Wait stores the condition variable's word with the mutex held and the predicate false.
LEMMA WaitBeginPreserves ==
    ASSUME Inv, NEW t \in Threads, NEW k \in CondVars, WaitBegin(t, k)
    PROVE  Inv'
<1>. USE CondVarAssumption DEF Inv
<1>1. /\ state[t] = "Runnable" /\ pc[t] = "run" /\ schedLock = NoThread
      /\ MutexOf[k] \in held[t] /\ ~ready[k] /\ MutexOf[k] \in Mutexes
      /\ UNCHANGED <<word, state, waitingLock, cvKey, timer, result, terminationRequested, handles,
                     owner, count, held, ready, pending>>
      /\ waitingLock[t] = NotWaiting
    BY RunningThread, Zenon DEF WaitBegin, InKernel, kernelVars
<1>2. WordInv' /\ OneTree' /\ SleepInv'
    BY <1>1, Zenon DEF WordInv, OneTree, SleepInv
<1>3. CASE terminationRequested[t]
    <2>1. pc' = [pc EXCEPT ![t] = "exiting"] /\ UNCHANGED <<schedLock, flag, addr, key>>
        BY <1>3, Zenon DEF WaitBegin
    <2>2. TypeOK'
        BY <1>1, <2>1, Zenon DEF TypeOK
    <2>3. LockInv' /\ CallInv' /\ ReleaseInv' /\ TimerOnlyInWait'
        BY <1>1, <2>1 DEF TypeOK, LockInv, CallInv, ReleaseInv, TimerOnlyInWait
    <2>4. WaiterInv' /\ SuccessMeansOwner' /\ FlagCoversWaiters'
        BY <1>1, <2>1, Zenon DEF TypeOK, WaiterInv, SuccessMeansOwner, FlagCoversWaiters
    <2>. QED
        BY <1>2, <2>2, <2>3, <2>4, Zenon
<1>4. CASE ~terminationRequested[t]
    <2>1. /\ schedLock' = t /\ flag' = [flag EXCEPT ![k] = 1]
          /\ addr' = [addr EXCEPT ![t] = MutexOf[k]] /\ key' = [key EXCEPT ![t] = k]
          /\ pc' = [pc EXCEPT ![t] = "wait_release"]
        BY <1>4, Zenon DEF WaitBegin, FlagSet
    <2>2. TypeOK'
        BY <1>1, <2>1, Zenon DEF TypeOK
    <2>3. LockInv' /\ CallInv' /\ TimerOnlyInWait'
        BY <1>1, <2>1 DEF TypeOK, LockInv, CallInv, TimerOnlyInWait
    <2>4. ReleaseInv'
        BY <1>1, <2>1 DEF TypeOK, LockInv, ReleaseInv
    <2>5. WaiterInv'
        BY <1>1, <2>1, ZenonT(30) DEF TypeOK, WaiterInv
    <2>6. SuccessMeansOwner' /\ FlagCoversWaiters'
        BY <1>1, <2>1, ZenonT(30) DEF TypeOK, SuccessMeansOwner, FlagCoversWaiters
    <2>. QED
        BY <1>2, <2>2, <2>3, <2>4, <2>5, <2>6, Zenon
<1>. QED
    BY <1>3, <1>4, Zenon

\* Wait hands the mutex over and enters the tree: the predicate still does not hold.
LEMMA WaitReleasePreserves ==
    ASSUME Inv, NEW t \in Threads, NEW timeout \in Timeouts, WaitRelease(t, timeout)
    PROVE  Inv'
<1>. USE CondVarAssumption DEF Inv, WaitRelease
<1>. DEFINE a == addr[t]
            k == key[t]
<1>1. /\ state[t] = "Runnable" /\ a \in Mutexes /\ a \in held[t] /\ word[a].owner = t
      /\ k \in CondVars /\ flag[k] = 1 /\ ~ready[k]
    BY DEF LockInv, CallInv, ReleaseInv, SuccessMeansOwner
<1>2. waitingLock[t] = NotWaiting /\ cvKey[t] = NoKey /\ ~timer[t]
    BY <1>1, RunningThread, Zenon
<1>3. PICK next \in Waiters(t, a) \cup {NoThread} :
          /\ PassOn(t, a, next)
          /\ state' = [w \in Threads |->
                 IF w = t /\ timeout # "zero" THEN "Waiting"
                 ELSE IF w = next THEN "Runnable" ELSE state[w]]
          /\ result' = [w \in Threads |->
                 IF w = t /\ timeout = "zero" THEN "TimedOut"
                 ELSE IF w = next THEN "Success" ELSE result[w]]
          /\ timer' = [EndTimer(next) EXCEPT ![t] = timeout = "finite"]
    BY Zenon
<1>4. /\ word' \in [Mutexes -> [owner : Threads \cup {NoThread}, wait : BOOLEAN]]
      /\ waitingLock' \in [Threads -> [owner : Threads \cup {NoThread},
                                       key : Mutexes \cup {NoMutex}]]
      /\ \A m \in Mutexes \ {a} : word'[m] = word[m]
      /\ WordInv' /\ word'[a].owner = next
      /\ next \in Threads => /\ next # t /\ state[next] = "Waiting" /\ addr[next] = a
                             /\ waitingLock'[next] = NotWaiting /\ cvKey[next] = NoKey
      /\ \A u \in Threads \ {next} :
            /\ waitingLock'[u] = NotWaiting <=> waitingLock[u] = NotWaiting
            /\ waitingLock'[u] # NotWaiting =>
                   /\ waitingLock'[u].key = addr[u] /\ waitingLock'[u].owner \in Threads
                   /\ word'[addr[u]] = [owner |-> waitingLock'[u].owner, wait |-> TRUE]
    BY <1>1, <1>3, PassOnStep, Zenon
<1>5. next \in Threads \cup {NoThread} /\ next # t
    BY <1>4, Zenon DEF Waiters
<1>6. /\ pc' = [pc EXCEPT ![t] = "wait_cv"] /\ key' = [key EXCEPT ![t] = NoKey]
      /\ schedLock' = NoThread /\ held' = [held EXCEPT ![t] = @ \ {a}]
      /\ UNCHANGED <<flag, addr, ready, pending>>
    BY Zenon
<1>7. cvKey' = [cvKey EXCEPT ![t] = IF timeout = "zero" THEN NoKey ELSE k]
    BY Zenon
<1>. HIDE DEF WaitRelease, a, k
<1>8. TypeOK'
    <2>1. timer' \in [Threads -> BOOLEAN]
        BY <1>3, Zenon DEF TypeOK, EndTimer
    <2>2. cvKey' \in [Threads -> CondVars \cup {NoKey}]
        BY <1>1, <1>7, Zenon DEF TypeOK
    <2>3. /\ state' \in [Threads -> {"Runnable", "Waiting", "Terminated"}]
          /\ result' \in [Threads -> {"Success", "TimedOut", "TerminationRequested",
                                      "InvalidHandle", "InvalidState"}]
        BY <1>3, Zenon DEF TypeOK
    <2>. QED
        BY <1>4, <1>6, <2>1, <2>2, <2>3 DEF TypeOK, WaitRelease
<1>9. LockInv' /\ CallInv' /\ ReleaseInv'
    <2>1. schedLock = t
        BY Zenon DEF WaitRelease
    <2>2. LockInv'
        BY <1>1, <1>3, <1>5, <1>6, <2>1 DEF TypeOK, LockInv
    <2>3. CallInv'
        BY <1>1, <1>6, Zenon DEF TypeOK, CallInv, a
    <2>4. ReleaseInv'
        BY <1>6, <2>1 DEF TypeOK, LockInv, ReleaseInv
    <2>. QED
        BY <2>2, <2>3, <2>4, Zenon
<1>10. WaiterInv'
    BY <1>2, <1>3, <1>4, <1>5, <1>6, ZenonT(30) DEF TypeOK, WaiterInv
<1>11. SuccessMeansOwner'
    <2>1. ASSUME NEW u \in Threads, NEW m \in held'[u]
          PROVE  word'[m].owner = u
        <3>1. m \in held[u] /\ m \in Mutexes /\ m # a
            BY <1>1, <1>6 DEF TypeOK, SuccessMeansOwner
        <3>. QED
            BY <1>4, <3>1 DEF SuccessMeansOwner
    <2>2. ASSUME NEW u \in Threads, pc'[u] \in {"wait_lock", "wait_cv"},
                 state'[u] = "Runnable", result'[u] = "Success"
          PROVE  word'[addr'[u]].owner = u
        <3>1. CASE u = next
            BY <1>4, <1>6, <3>1, Zenon
        <3>2. CASE u # next
            <4>1. u # t
                BY <1>3, <2>2, <3>2, Zenon
            <4>2. word[addr[u]].owner = u /\ addr[u] \in Mutexes
                BY <1>3, <1>6, <2>2, <3>2, <4>1, Zenon DEF TypeOK, SuccessMeansOwner, CallInv
            <4>. QED
                BY <1>1, <1>4, <1>6, <4>1, <4>2, Zenon
        <3>. QED
            BY <3>1, <3>2, Zenon
    <2>. QED
        BY <2>1, <2>2, Zenon DEF SuccessMeansOwner
<1>12. FlagCoversWaiters' /\ SleepInv'
    BY <1>1, <1>6, <1>7 DEF TypeOK, FlagCoversWaiters, SleepInv
<1>13. TimerOnlyInWait'
    BY <1>3, <1>4, <1>5, <1>6, Zenon DEF TypeOK, TimerOnlyInWait, EndTimer
<1>14. OneTree'
    <2>1. ASSUME NEW u \in Threads
          PROVE  /\ cvKey'[u] # NoKey => state'[u] = "Waiting" /\ waitingLock'[u] = NotWaiting
                 /\ state'[u] = "Waiting" => cvKey'[u] # NoKey \/ waitingLock'[u] # NotWaiting
        <3>1. CASE u = t
            BY <1>1, <1>2, <1>3, <1>4, <1>5, <1>7, <3>1, ZenonT(30) DEF TypeOK
        <3>2. CASE u = next
            BY <1>3, <1>4, <1>5, <1>7, <3>2, Zenon DEF TypeOK
        <3>3. CASE u # t /\ u # next
            BY <1>3, <1>4, <1>7, <3>3, ZenonT(30) DEF TypeOK, OneTree
        <3>. QED
            BY <3>1, <3>2, <3>3, Zenon
    <2>. QED
        BY <2>1, Zenon DEF OneTree
<1>. QED
    BY <1>4, <1>8, <1>9, <1>10, <1>11, <1>12, <1>13, <1>14, Zenon

\* Wait returns with the mutex only if it was given it.
LEMMA WaitReturnPreserves ==
    ASSUME Inv, NEW t \in Threads, WaitReturn(t)
    PROVE  Inv'
<1>. USE CondVarAssumption DEF Inv, WaitReturn, InKernel, Return
<1>1. addr[t] \in Mutexes /\ waitingLock[t] = NotWaiting /\ ~timer[t]
    BY RunningThread, Zenon DEF CallInv
<1>2. WordInv' /\ FlagCoversWaiters' /\ OneTree' /\ SleepInv'
    BY Zenon DEF WordInv, FlagCoversWaiters, OneTree, SleepInv
<1>3. TypeOK'
    BY <1>1, Zenon DEF TypeOK
<1>4. LockInv' /\ TimerOnlyInWait'
    BY <1>1 DEF TypeOK, LockInv, TimerOnlyInWait
<1>5. CallInv' /\ ReleaseInv'
    BY <1>1 DEF TypeOK, CallInv, ReleaseInv
<1>6. WaiterInv'
    BY <1>1 DEF TypeOK, WaiterInv
<1>7. SuccessMeansOwner'
    BY <1>1 DEF TypeOK, SuccessMeansOwner
<1>. QED
    BY <1>2, <1>3, <1>4, <1>5, <1>6, <1>7, Zenon

\* The guest changes a predicate under its mutex: no thread is between looking at it and sleeping.
LEMMA GuestSetReadyPreserves ==
    ASSUME Inv, NEW t \in Threads, NEW k \in CondVars, GuestSetReady(t, k)
    PROVE  Inv'
<1>. USE CondVarAssumption DEF Inv, GuestSetReady, InGuest, kernelVars, callVars
<1>1. /\ ready' = [ready EXCEPT ![k] = ~ready[k]] /\ ready' \in [CondVars -> BOOLEAN]
      /\ pending' \in [Threads -> SUBSET CondVars]
    BY Zenon DEF TypeOK
<1>2. TypeOK'
    BY <1>1, Zenon DEF TypeOK
<1>3. LockInv' /\ CallInv' /\ WordInv' /\ WaiterInv' /\ SuccessMeansOwner'
    BY Zenon DEF LockInv, CallInv, WordInv, WaiterInv, SuccessMeansOwner
<1>4. FlagCoversWaiters' /\ TimerOnlyInWait' /\ OneTree'
    BY Zenon DEF FlagCoversWaiters, TimerOnlyInWait, OneTree
<1>5. ReleaseInv'
    BY DEF TypeOK, CallInv, ReleaseInv, SuccessMeansOwner
<1>6. SleepInv'
    <2>. SUFFICES ASSUME NEW j \in CondVars, ready'[j], \A u \in Threads : j \notin pending'[u]
                  PROVE  \A u \in Threads : cvKey[u] # j
        BY Zenon DEF SleepInv
    <2>1. j # k
        BY Zenon DEF TypeOK
    <2>2. ready[j] /\ \A u \in Threads : j \notin pending[u]
        BY <2>1 DEF TypeOK
    <2>. QED
        BY <2>2, Zenon DEF SleepInv
<1>. QED
    BY <1>2, <1>3, <1>4, <1>5, <1>6, Zenon

\* The guest skips the system call only if the word says that nobody waits.
LEMMA GuestSignalPreserves ==
    ASSUME Inv, NEW t \in Threads, NEW k \in CondVars, NEW n \in Counts, GuestSignal(t, k, n)
    PROVE  Inv'
<1>. USE CondVarAssumption DEF Inv, GuestSignal, InGuest, kernelVars
<1>1. WordInv' /\ FlagCoversWaiters' /\ OneTree'
    BY Zenon DEF WordInv, FlagCoversWaiters, OneTree
<1>2. WaiterInv' /\ TimerOnlyInWait'
    BY DEF TypeOK, WaiterInv, TimerOnlyInWait
<1>3. CASE flag[k] = 0
    <2>1. /\ pending' = [pending EXCEPT ![t] = pending[t] \ {k}]
          /\ UNCHANGED <<pc, key, count>>
        BY <1>3, Zenon
    <2>2. pending[t] \ {k} \in SUBSET CondVars
        BY Zenon DEF TypeOK
    <2>3. TypeOK'
        BY <2>1, <2>2, Zenon DEF TypeOK
    <2>4. LockInv' /\ CallInv' /\ ReleaseInv' /\ SuccessMeansOwner'
        BY <2>1, Zenon DEF LockInv, CallInv, ReleaseInv, SuccessMeansOwner
    <2>5. \A u \in Threads : cvKey[u] # k
        BY <1>3 DEF FlagCoversWaiters
    <2>6. SleepInv'
        <3>1. \A j \in CondVars : (\A u \in Threads : j \notin pending'[u])
                                      => j = k \/ \A u \in Threads : j \notin pending[u]
            BY <2>1, Zenon DEF TypeOK
        <3>. QED
            BY <2>5, <3>1, Zenon DEF SleepInv
    <2>. QED
        BY <1>1, <1>2, <2>3, <2>4, <2>6, Zenon
<1>4. CASE flag[k] # 0
    <2>1. /\ pc' = [pc EXCEPT ![t] = "svc_signal"] /\ key' = [key EXCEPT ![t] = k]
          /\ count' = [count EXCEPT ![t] = n] /\ n \in Int /\ UNCHANGED pending
        BY <1>4, Zenon
    <2>2. TypeOK'
        BY <2>1, Zenon DEF TypeOK
    <2>3. LockInv' /\ CallInv' /\ ReleaseInv' /\ SuccessMeansOwner'
        BY <2>1 DEF TypeOK, LockInv, CallInv, ReleaseInv, SuccessMeansOwner
    <2>4. SleepInv'
        BY <2>1, Zenon DEF SleepInv
    <2>. QED
        BY <1>1, <1>2, <2>2, <2>3, <2>4, Zenon
<1>. QED
    BY <1>3, <1>4, Zenon

\* Signal takes the scheduler lock.
LEMMA SignalBeginPreserves ==
    ASSUME Inv, NEW t \in Threads, SignalBegin(t)
    PROVE  Inv'
<1>. USE CondVarAssumption DEF Inv, SignalBegin, InKernel, kernelVars
<1>1. TypeOK'
    BY Zenon DEF TypeOK
<1>2. LockInv' /\ CallInv' /\ ReleaseInv'
    BY DEF TypeOK, LockInv, CallInv, ReleaseInv
<1>3. WordInv' /\ WaiterInv' /\ FlagCoversWaiters' /\ OneTree' /\ SleepInv'
    BY Zenon DEF WordInv, WaiterInv, FlagCoversWaiters, OneTree, SleepInv
<1>4. SuccessMeansOwner' /\ TimerOnlyInWait'
    BY DEF TypeOK, SuccessMeansOwner, TimerOnlyInWait
<1>. QED
    BY <1>1, <1>2, <1>3, <1>4, Zenon

\* SignalImpl: the thread owns the mutex, waits for its owner or is told that it has none.
LEMMA SignalOnePreserves ==
    ASSUME Inv, NEW t \in Threads, NEW w \in Threads, SignalOne(t, w)
    PROVE  Inv'
<1>. USE CondVarAssumption DEF Inv
<1>. DEFINE a == addr[w]
            prev == word[a].owner
<1>1. /\ schedLock = t /\ key[t] \in CondVars /\ cvKey[w] = key[t] /\ cvKey[w] # NoKey
      /\ state[w] = "Waiting" /\ waitingLock[w] = NotWaiting
      /\ pc[w] \in {"wait_lock", "wait_cv"} /\ a \in Mutexes /\ w # t
    BY Zenon DEF SignalOne, Tree, LockInv, CallInv, OneTree
<1>2. /\ count' = [count EXCEPT ![t] = IF pc[t] = "signal" THEN @ - 1 ELSE @]
      /\ cvKey' = [cvKey EXCEPT ![w] = NoKey]
      /\ word' = [word EXCEPT ![a] = UpdateLockAtomic(word[a], w)]
      /\ UNCHANGED <<flag, schedLock, terminationRequested, handles, pc, addr, key, owner,
                     held, ready, pending>>
    BY Zenon DEF SignalOne, ClearConditionVariable
<1>3. /\ count' \in [Threads -> Int] /\ cvKey' \in [Threads -> CondVars \cup {NoKey}]
    BY <1>2 DEF TypeOK
<1>4. /\ word'[a] = UpdateLockAtomic(word[a], w)
      /\ \A m \in Mutexes \ {a} : word'[m] = word[m]
    BY <1>1, <1>2, Zenon DEF TypeOK
<1>5. CASE prev = NoThread
    <2>1. word[a] = Unlocked
        BY <1>1, <1>5, Zenon DEF WordInv
    <2>2. word'[a] = [owner |-> w, wait |-> FALSE]
        BY <1>4, <2>1, Zenon DEF UpdateLockAtomic
    <2>3. /\ state' = [state EXCEPT ![w] = "Runnable"]
          /\ result' = [result EXCEPT ![w] = "Success"]
          /\ timer' = EndTimer(w) /\ UNCHANGED waitingLock
        BY <1>5, Zenon DEF SignalOne
    <2>4. TypeOK'
        <3>1. word' \in [Mutexes -> [owner : Threads \cup {NoThread}, wait : BOOLEAN]]
            BY <1>1, <1>2, <2>1, Zenon DEF TypeOK, UpdateLockAtomic
        <3>2. timer' \in [Threads -> BOOLEAN]
            BY <2>3, Zenon DEF TypeOK, EndTimer
        <3>. QED
            BY <1>2, <1>3, <2>3, <3>1, <3>2, Zenon DEF TypeOK
    <2>5. LockInv' /\ CallInv' /\ ReleaseInv'
        BY <1>2, <2>3, SMTT(20) DEF TypeOK, LockInv, CallInv, ReleaseInv
    <2>6. WordInv'
        BY <1>4, <2>2, SMTT(20) DEF WordInv
    <2>7. WaiterInv'
        BY <1>1, <1>2, <1>4, <1>5, <2>3, SMTT(20) DEF TypeOK, WaiterInv
    <2>8. SuccessMeansOwner'
        BY <1>1, <1>2, <1>4, <1>5, <2>2, <2>3 DEF TypeOK, SuccessMeansOwner, CallInv
    <2>9. FlagCoversWaiters' /\ SleepInv'
        BY <1>2, Zenon DEF TypeOK, FlagCoversWaiters, SleepInv
    <2>10. TimerOnlyInWait' /\ OneTree'
        BY <1>1, <1>2, <2>3, ZenonT(20) DEF TypeOK, TimerOnlyInWait, OneTree, EndTimer
    <2>. QED
        BY <2>4, <2>5, <2>6, <2>7, <2>8, <2>9, <2>10, Zenon
<1>6. CASE prev # NoThread
    <2>1. UpdateLockAtomic(word[a], w) = [owner |-> prev, wait |-> TRUE]
        <3>1. word[a] # Unlocked
            BY <1>6 DEF Unlocked
        <3>. QED
            BY <3>1, Zenon DEF UpdateLockAtomic
    <2>2. prev \in Threads /\ word' \in [Mutexes -> [owner : Threads \cup {NoThread}, wait : BOOLEAN]]
        <3>1. word' = [word EXCEPT ![a] = [owner |-> prev, wait |-> TRUE]]
            BY <1>2, <2>1, Zenon
        <3>2. prev \in Threads
            BY <1>1, <1>6, Zenon DEF TypeOK
        <3>. QED
            BY <3>1, <3>2, Zenon DEF TypeOK
    <2>3. CallInv' /\ ReleaseInv' /\ FlagCoversWaiters' /\ SleepInv'
        BY <1>2, SMTT(20) DEF TypeOK, CallInv, ReleaseInv, FlagCoversWaiters, SleepInv
    <2>4. WordInv'
        BY <1>4, <1>6, <2>1 DEF WordInv
    <2>5. CASE prev \in handles
        <3>1. /\ waitingLock' = [waitingLock EXCEPT ![w] = [owner |-> prev, key |-> a]]
              /\ UNCHANGED <<state, result, timer>>
            BY <1>6, <2>5, Zenon DEF SignalOne
        <3>2. waitingLock'[w].owner = prev /\ waitingLock'[w].key = a /\ waitingLock'[w] # NotWaiting
            <4>1. waitingLock'[w] = [owner |-> prev, key |-> a]
                BY <3>1, Zenon DEF TypeOK
            <4>2. waitingLock'[w].key # NotWaiting.key
                BY <1>1, <4>1 DEF NotWaiting
            <4>. QED
                BY <4>1, <4>2
        <3>3. \A u \in Threads \ {w} : waitingLock'[u] = waitingLock[u] /\ cvKey'[u] = cvKey[u]
            BY <1>2, <3>1, Zenon DEF TypeOK
        <3>4. TypeOK'
            BY <1>1, <1>2, <1>3, <2>2, <3>1, Zenon DEF TypeOK
        <3>5. LockInv'
            BY <1>2, <3>1, Zenon DEF LockInv
        <3>6. WaiterInv'
            <4>1. ASSUME NEW u \in Threads \ {w}, waitingLock[u] # NotWaiting, addr[u] = a
                  PROVE  word'[a] = word[a]
                <5>1. word[a] = [owner |-> waitingLock[u].owner, wait |-> TRUE]
                    BY <4>1, Zenon DEF WaiterInv
                <5>2. word[a] = [owner |-> prev, wait |-> TRUE]
                    BY <5>1
                <5>. QED
                    BY <1>4, <2>1, <5>2, Zenon
            <4>2. \A u \in Threads \ {w} :
                      waitingLock[u] # NotWaiting => word'[addr[u]] = word[addr[u]]
                BY <1>4, <4>1, Zenon DEF WaiterInv
            <4>3. word'[a] = [owner |-> prev, wait |-> TRUE]
                BY <1>4, <2>1, Zenon
            <4>4. ASSUME NEW u \in Threads, waitingLock'[u] # NotWaiting
                  PROVE  /\ state[u] = "Waiting"
                         /\ addr[u] \in Mutexes /\ waitingLock'[u].key = addr[u]
                         /\ waitingLock'[u].owner \in Threads
                         /\ word'[addr[u]] = [owner |-> waitingLock'[u].owner, wait |-> TRUE]
                <5>1. CASE u = w
                    BY <1>1, <2>2, <3>2, <4>3, <5>1, Zenon
                <5>2. CASE u # w
                    BY <3>3, <4>2, <4>4, <5>2, Zenon DEF WaiterInv
                <5>. QED
                    BY <5>1, <5>2, Zenon
            <4>. QED
                BY <1>2, <3>1, <4>4, Zenon DEF WaiterInv
        <3>7. SuccessMeansOwner'
            BY <1>2, <1>4, <2>1, <3>1, SMTT(20) DEF TypeOK, SuccessMeansOwner, CallInv
        <3>8. TimerOnlyInWait' /\ OneTree'
            BY <1>1, <1>2, <3>1, <3>2, <3>3 DEF TypeOK, TimerOnlyInWait, OneTree
        <3>. QED
            BY <2>3, <2>4, <3>4, <3>5, <3>6, <3>7, <3>8, Zenon
    <2>6. CASE prev \notin handles
        <3>1. /\ state' = [state EXCEPT ![w] = "Runnable"]
              /\ result' = [result EXCEPT ![w] = "InvalidState"]
              /\ timer' = EndTimer(w) /\ UNCHANGED waitingLock
            BY <1>6, <2>6, Zenon DEF SignalOne
        <3>2. TypeOK'
            <4>1. timer' \in [Threads -> BOOLEAN]
                BY <3>1, Zenon DEF TypeOK, EndTimer
            <4>. QED
                BY <1>2, <1>3, <2>2, <3>1, <4>1, Zenon DEF TypeOK
        <3>3. LockInv'
            BY <1>2, <3>1, Zenon DEF TypeOK, LockInv
        <3>4. WaiterInv'
            BY <1>1, <1>2, <1>4, <2>1, <3>1, SMTT(20) DEF TypeOK, WaiterInv
        <3>5. SuccessMeansOwner'
            BY <1>2, <1>4, <2>1, <3>1 DEF TypeOK, SuccessMeansOwner, CallInv
        <3>6. TimerOnlyInWait' /\ OneTree'
            BY <1>1, <1>2, <3>1 DEF TypeOK, TimerOnlyInWait, OneTree, EndTimer
        <3>. QED
            BY <2>3, <2>4, <3>2, <3>3, <3>4, <3>5, <3>6, Zenon
    <2>. QED
        BY <2>5, <2>6, Zenon
<1>. QED
    BY <1>5, <1>6, Zenon

\* Signal ends: the word is cleared only if the tree is empty, and a broadcast has emptied it.
LEMMA SignalEndPreserves ==
    ASSUME Inv, NEW t \in Threads, SignalEnd(t)
    PROVE  Inv'
<1>. USE CondVarAssumption DEF Inv, SignalEnd, Return, kernelVars
<1>1. pc[t] \in {"signal", "signal_all"} /\ key[t] \in CondVars
    BY Zenon DEF CallInv
<1>2. /\ flag' \in [CondVars -> {0, 1}]
      /\ \A u \in Threads : cvKey[u] = key[t] => flag' = flag
      /\ \A k \in CondVars : k # key[t] => flag'[k] = flag[k]
    BY <1>1, Zenon DEF TypeOK, FlagClearedIfNone, Tree
<1>3. pc[t] = "signal_all" => \A u \in Threads : cvKey[u] # key[t]
    BY Zenon DEF Tree
<1>4. TypeOK'
    BY <1>2, SMTT(20) DEF TypeOK
<1>5. LockInv' /\ CallInv' /\ ReleaseInv'
    BY <1>1 DEF TypeOK, LockInv, CallInv, ReleaseInv
<1>6. WordInv' /\ WaiterInv' /\ OneTree'
    BY Zenon DEF WordInv, WaiterInv, OneTree
<1>7. SuccessMeansOwner' /\ TimerOnlyInWait'
    BY <1>1 DEF TypeOK, SuccessMeansOwner, TimerOnlyInWait
<1>8. FlagCoversWaiters'
    BY <1>2 DEF TypeOK, FlagCoversWaiters
<1>9. SleepInv'
    BY <1>3, Zenon DEF TypeOK, SleepInv
<1>. QED
    BY <1>4, <1>5, <1>6, <1>7, <1>8, <1>9, Zenon

\* CancelWait, as the timer and RequestTerminate call it, with the timer's task gone.
LEMMA CancelWaitPreserves ==
    ASSUME Inv, NEW t \in Threads, NEW reason \in {"TimedOut", "TerminationRequested"},
           state[t] = "Waiting", CancelWait(t, reason), timer' = [timer EXCEPT ![t] = FALSE],
           NEW req \in [Threads -> BOOLEAN], terminationRequested' = req,
           UNCHANGED <<word, flag, schedLock, handles, callVars, held, ready, pending>>
    PROVE  Inv'
<1>. USE CondVarAssumption DEF Inv, CancelWait, callVars
<1>1. TypeOK'
    BY Zenon DEF TypeOK, NotWaiting
<1>2. LockInv' /\ CallInv' /\ ReleaseInv' /\ WordInv'
    BY DEF TypeOK, LockInv, CallInv, ReleaseInv, WordInv
<1>3. WaiterInv'
    BY DEF TypeOK, WaiterInv
<1>4. SuccessMeansOwner'
    BY Zenon DEF TypeOK, SuccessMeansOwner
<1>5. FlagCoversWaiters' /\ SleepInv'
    BY ZenonT(30) DEF TypeOK, FlagCoversWaiters, SleepInv
<1>6. TimerOnlyInWait' /\ OneTree'
    BY DEF TypeOK, TimerOnlyInWait, OneTree
<1>. QED
    BY <1>1, <1>2, <1>3, <1>4, <1>5, <1>6, Zenon

\* A timer task ends the wait that registered it.
LEMMA OnTimerPreserves ==
    ASSUME Inv, NEW t \in Threads, OnTimer(t)
    PROVE  Inv'
<1>1. state[t] = "Waiting" /\ terminationRequested \in [Threads -> BOOLEAN]
    BY Zenon DEF Inv, OnTimer, TimerOnlyInWait, TypeOK
<1>. QED
    BY <1>1, CancelWaitPreserves, Zenon DEF OnTimer

\* RequestTerminate ends the wait of a thread that waits.
LEMMA RequestTerminatePreserves ==
    ASSUME Inv, NEW t \in Threads, RequestTerminate(t)
    PROVE  Inv'
<1>1. terminationRequested' \in [Threads -> BOOLEAN]
    BY Zenon DEF Inv, TypeOK, RequestTerminate
<1>2. CASE state[t] = "Waiting"
    <2>1. timer' = [timer EXCEPT ![t] = FALSE]
        BY <1>2, Zenon DEF Inv, TypeOK, RequestTerminate, EndTimer
    <2>. QED
        BY <1>1, <1>2, <2>1, CancelWaitPreserves, Zenon DEF RequestTerminate
<1>3. CASE state[t] # "Waiting"
    <2>. USE <1>1, <1>3 DEF Inv, RequestTerminate, kernelVars, callVars
    <2>1. TypeOK' /\ LockInv' /\ CallInv' /\ ReleaseInv' /\ WordInv' /\ WaiterInv' /\ SuccessMeansOwner'
        BY SMTT(20) DEF TypeOK, LockInv, CallInv, ReleaseInv, WordInv, WaiterInv, SuccessMeansOwner
    <2>2. FlagCoversWaiters' /\ TimerOnlyInWait' /\ OneTree' /\ SleepInv'
        BY DEF FlagCoversWaiters, TimerOnlyInWait, OneTree, SleepInv
    <2>. QED
        BY <2>1, <2>2, ZenonT(20)
<1>. QED
    BY <1>2, <1>3, Zenon

\* A thread exits with its mutexes locked, and out of every wait.
LEMMA ExitPreserves ==
    ASSUME Inv, NEW t \in Threads, Exit(t)
    PROVE  Inv'
<1>. USE CondVarAssumption DEF Inv, Exit
<1>1. waitingLock[t] = NotWaiting /\ cvKey[t] = NoKey /\ ~timer[t]
    BY RunningThread, Zenon
<1>2. TypeOK'
    BY SMTT(20) DEF TypeOK
<1>3. LockInv' /\ CallInv' /\ ReleaseInv' /\ WordInv'
    BY SMTT(20) DEF TypeOK, LockInv, CallInv, ReleaseInv, WordInv
<1>4. WaiterInv'
    BY <1>1 DEF TypeOK, WaiterInv
<1>5. SuccessMeansOwner'
    BY Zenon DEF TypeOK, SuccessMeansOwner
<1>6. FlagCoversWaiters' /\ SleepInv'
    BY Zenon DEF FlagCoversWaiters, SleepInv
<1>7. TimerOnlyInWait' /\ OneTree'
    BY <1>1 DEF TypeOK, TimerOnlyInWait, OneTree
<1>. QED
    BY <1>2, <1>3, <1>4, <1>5, <1>6, <1>7, Zenon

\* A handle is closed.
LEMMA CloseHandlePreserves ==
    ASSUME Inv, NEW t \in Threads, CloseHandle(t)
    PROVE  Inv'
<1>. USE DEF Inv, CloseHandle, kernelVars, callVars
<1>1. TypeOK' /\ LockInv' /\ CallInv' /\ ReleaseInv' /\ WordInv' /\ WaiterInv' /\ SuccessMeansOwner'
    BY ZenonT(30) DEF TypeOK, LockInv, CallInv, ReleaseInv, WordInv, WaiterInv, SuccessMeansOwner
<1>2. FlagCoversWaiters' /\ TimerOnlyInWait' /\ OneTree' /\ SleepInv'
    BY Zenon DEF FlagCoversWaiters, TimerOnlyInWait, OneTree, SleepInv
<1>. QED
    BY <1>1, <1>2, Zenon

\* Every step keeps the invariant.
LEMMA NextInv == Inv /\ [Next]_vars => Inv'
<1>. SUFFICES ASSUME Inv, [Next]_vars PROVE Inv'
    BY Zenon
<1>1. CASE UNCHANGED vars
    <2>. USE <1>1 DEF Inv, vars, kernelVars, callVars
    <2>1. TypeOK' /\ LockInv' /\ CallInv' /\ ReleaseInv' /\ WordInv' /\ WaiterInv' /\ SuccessMeansOwner'
        BY DEF TypeOK, LockInv, CallInv, ReleaseInv, WordInv, WaiterInv, SuccessMeansOwner
    <2>2. FlagCoversWaiters' /\ TimerOnlyInWait' /\ OneTree' /\ SleepInv'
        BY Zenon DEF FlagCoversWaiters, TimerOnlyInWait, OneTree, SleepInv
    <2>. QED
        BY <2>1, <2>2, Zenon
<1>2. ASSUME NEW t \in Threads, MutexStep(t)
      PROVE  Inv'
    BY <1>2, GuestLockPreserves, GuestUnlockPreserves, SignalToAddressPreserves,
       WaitForAddressPreserves, WaitForAddressReturnPreserves, GuestLockCheckPreserves, Zenon
       DEF MutexStep
<1>3. ASSUME NEW t \in Threads, WaitStep(t)
      PROVE  Inv'
    BY <1>3, WaitBeginPreserves, WaitReleasePreserves, WaitReturnPreserves, Zenon DEF WaitStep
<1>4. ASSUME NEW t \in Threads, SignalStep(t)
      PROVE  Inv'
    BY <1>4, GuestSetReadyPreserves, GuestSignalPreserves, SignalBeginPreserves,
       SignalOnePreserves, SignalEndPreserves, Zenon DEF SignalStep
<1>5. ASSUME NEW t \in Threads, OnTimer(t) \/ RequestTerminate(t) \/ Exit(t) \/ CloseHandle(t)
      PROVE  Inv'
    BY <1>5, OnTimerPreserves, RequestTerminatePreserves, ExitPreserves, CloseHandlePreserves, Zenon
<1>. QED
    BY <1>1, <1>2, <1>3, <1>4, <1>5, Zenon DEF Next

\* The inductive invariant holds in every reachable state.
THEOREM CondVarInv == Spec => []Inv
<1>. QED
    BY InitInv, NextInv, PTL DEF Spec

\* WaitProcessWideKeyAtomic and SignalProcessWideKey lose no wake-up: once a predicate was
\* made true under its mutex and everyone who made it true has signalled, or has read the
\* condition variable's word and skipped the call, no thread sleeps on it.
THEOREM CondVarNoLostSignal == Spec => []NoLostSignal
<1>. QED
    BY CondVarInv, InvImplies, PTL

\* ArbitrateLock and ArbitrateUnlock lose no waiter: a thread that the kernel keeps waiting
\* for a mutex waits on the thread that the mutex word names, and the word's wait mask
\* makes that thread enter the kernel to unlock it.
THEOREM CondVarNoLostMutexWaiter == Spec => []NoLostMutexWaiter
<1>. QED
    BY CondVarInv, InvImplies, PTL

-----------------------------------------------------------------------------
(* The guest sees a monitor.                                               *)

sleeping == [k \in CondVars |-> Tree(k)]

MonitorStep == [M!Next]_<<held, sleeping>>

\* The trees depend on the threads' keys only.
LEMMA TreesUnchanged ==
    ASSUME UNCHANGED cvKey
    PROVE  UNCHANGED sleeping
BY Zenon DEF sleeping, Tree

\* A step that changes neither the mutexes nor the trees stutters.
LEMMA StutterStep ==
    ASSUME UNCHANGED <<held, cvKey>>
    PROVE  MonitorStep
BY TreesUnchanged, Zenon DEF MonitorStep

\* A thread whose handle a mutex word has takes the mutex: nobody else has it.
LEMMA AcquireStep ==
    ASSUME Inv, NEW t \in Threads, NEW a \in Mutexes,
           word[a].owner = t \/ word[a].owner = NoThread,
           held' = [held EXCEPT ![t] = @ \cup {a}], UNCHANGED cvKey
    PROVE  MonitorStep
<1>1. \A u \in Threads \ {t} : a \notin held[u]
    BY CondVarAssumption, Zenon DEF Inv, SuccessMeansOwner
<1>2. CASE a \in held[t]
    <2>1. held' = held
        BY <1>2 DEF Inv, TypeOK
    <2>. QED
        BY <2>1, StutterStep, Zenon
<1>3. CASE a \notin held[t]
    <2>1. M!Acquire(t, a)
        BY <1>1, <1>3, TreesUnchanged, Zenon DEF M!Acquire, sleeping
    <2>. QED
        BY <2>1, Zenon DEF MonitorStep, M!Next
<1>. QED
    BY <1>2, <1>3, Zenon

\* A step that only gives up a mutex is a release of the monitor.
LEMMA ReleaseStep ==
    ASSUME NEW t \in Threads, NEW a \in Mutexes, a \in held[t],
           held' = [held EXCEPT ![t] = @ \ {a}], UNCHANGED cvKey
    PROVE  MonitorStep
<1>1. M!Release(t, a)
    BY TreesUnchanged, Zenon DEF M!Release, sleeping
<1>. QED
    BY <1>1, Zenon DEF MonitorStep, M!Next

\* A thread leaves the tree it is in.
LEMMA WakeStep ==
    ASSUME Inv, NEW w \in Threads, cvKey' = [cvKey EXCEPT ![w] = NoKey], UNCHANGED held
    PROVE  MonitorStep
<1>1. CASE cvKey[w] = NoKey
    <2>1. UNCHANGED cvKey
        BY <1>1, Zenon DEF Inv, TypeOK
    <2>. QED
        BY <2>1, StutterStep, Zenon
<1>2. CASE cvKey[w] # NoKey
    <2>1. PICK k \in CondVars : k = cvKey[w] /\ w \in Tree(k)
        BY <1>2, Zenon DEF Inv, TypeOK, Tree
    <2>2. Tree(k)' = Tree(k) \ {w} /\ \A j \in CondVars \ {k} : Tree(j)' = Tree(j)
        BY <2>1, CondVarAssumption DEF Inv, TypeOK, Tree
    <2>3. sleeping' = [sleeping EXCEPT ![k] = @ \ {w}] /\ w \in sleeping[k]
        BY <2>1, <2>2, Zenon DEF sleeping
    <2>4. M!Wake(w, k)
        BY <2>3, Zenon DEF M!Wake, sleeping
    <2>. QED
        BY <2>1, <2>4, Zenon DEF MonitorStep, M!Next
<1>. QED
    BY <1>1, <1>2, Zenon

\* WaitProcessWideKeyAtomic releases the mutex and sleeps in one step of the monitor.
LEMMA WaitReleaseStep ==
    ASSUME Inv, NEW t \in Threads, NEW timeout \in Timeouts, WaitRelease(t, timeout)
    PROVE  MonitorStep
<1>1. PICK k \in CondVars : /\ k = key[t] /\ cvKey[t] = NoKey
                            /\ addr[t] = MutexOf[k] /\ MutexOf[k] \in held[t] /\ MutexOf[k] \in Mutexes
    BY RunningThread, CondVarAssumption, Zenon DEF Inv, WaitRelease, LockInv, CallInv, ReleaseInv
<1>2. held' = [held EXCEPT ![t] = @ \ {MutexOf[k]}]
    BY <1>1, Zenon DEF WaitRelease
<1>3. CASE timeout = "zero"
    <2>1. UNCHANGED cvKey
        BY <1>1, <1>3, Zenon DEF WaitRelease, Inv, TypeOK
    <2>. QED
        BY <1>1, <1>2, <2>1, ReleaseStep, Zenon
<1>4. CASE timeout # "zero"
    <2>1. cvKey' = [cvKey EXCEPT ![t] = k]
        BY <1>1, <1>4, Zenon DEF WaitRelease
    <2>2. Tree(k)' = Tree(k) \cup {t} /\ \A j \in CondVars \ {k} : Tree(j)' = Tree(j)
        BY <1>1, <2>1, CondVarAssumption DEF Inv, TypeOK, Tree
    <2>3. sleeping' = [sleeping EXCEPT ![k] = @ \cup {t}]
        BY <1>1, <2>2, Zenon DEF sleeping
    <2>4. M!Sleep(t, k)
        BY <1>1, <1>2, <2>3, Zenon DEF M!Sleep, sleeping
    <2>. QED
        BY <1>1, <2>4, Zenon DEF MonitorStep, M!Next
<1>. QED
    BY <1>3, <1>4, Zenon

\* Every step is one of the monitor or stutters.
LEMMA NextRefines == Inv /\ [Next]_vars => MonitorStep
<1>. SUFFICES ASSUME Inv, [Next]_vars PROVE MonitorStep
    BY Zenon
<1>. USE CondVarAssumption
<1>1. CASE UNCHANGED vars
    BY <1>1, StutterStep, Zenon DEF vars, kernelVars
<1>2. ASSUME NEW t \in Threads, NEW a \in Mutexes, GuestLock(t, a)
      PROVE  MonitorStep
    <2>1. CASE word[a] = Unlocked
        <3>1. word[a].owner = NoThread /\ held' = [held EXCEPT ![t] = @ \cup {a}] /\ UNCHANGED cvKey
            BY <1>2, <2>1 DEF GuestLock, Unlocked, kernelVars
        <3>. QED
            BY <3>1, AcquireStep, Zenon
    <2>2. CASE word[a] # Unlocked
        BY <1>2, <2>2, StutterStep, Zenon DEF GuestLock, kernelVars
    <2>. QED
        BY <2>1, <2>2, Zenon
<1>3. ASSUME NEW t \in Threads, NEW a \in Mutexes, GuestUnlock(t, a)
      PROVE  MonitorStep
    BY <1>3, ReleaseStep, Zenon DEF GuestUnlock, kernelVars
<1>4. ASSUME NEW t \in Threads, NEW a \in Mutexes, SignalToAddress(t, a)
      PROVE  MonitorStep
    BY <1>4, ReleaseStep, Zenon DEF SignalToAddress
<1>5. ASSUME NEW t \in Threads, WaitForAddress(t) \/ WaitForAddressReturn(t)
      PROVE  MonitorStep
    BY <1>5, StutterStep, Zenon DEF WaitForAddress, WaitForAddressReturn
<1>6. ASSUME NEW t \in Threads, GuestLockCheck(t)
      PROVE  MonitorStep
    <2>1. addr[t] \in Mutexes
        BY <1>6, Zenon DEF Inv, CallInv, GuestLockCheck, InGuest
    <2>2. CASE word[addr[t]].owner = t
        BY <1>6, <2>1, <2>2, AcquireStep, Zenon DEF GuestLockCheck, kernelVars
    <2>3. CASE word[addr[t]].owner # t
        BY <1>6, <2>3, StutterStep, Zenon DEF GuestLockCheck, kernelVars
    <2>. QED
        BY <2>2, <2>3, Zenon
<1>7. ASSUME NEW t \in Threads, NEW k \in CondVars, WaitBegin(t, k) \/ GuestSetReady(t, k)
      PROVE  MonitorStep
    BY <1>7, StutterStep, Zenon DEF WaitBegin, GuestSetReady, kernelVars
<1>8. ASSUME NEW t \in Threads, WaitReturn(t)
      PROVE  MonitorStep
    <2>. DEFINE locked == result[t] = "Success" /\ ~terminationRequested[t]
    <2>1. addr[t] \in Mutexes /\ UNCHANGED cvKey
        BY <1>8, Zenon DEF Inv, CallInv, WaitReturn, InKernel
    <2>2. CASE locked
        <3>1. word[addr[t]].owner = t
            BY <1>8, <2>2, Zenon DEF Inv, SuccessMeansOwner, WaitReturn, InKernel
        <3>2. held' = [held EXCEPT ![t] = @ \cup {addr[t]}]
            BY <1>8, <2>2, Zenon DEF WaitReturn
        <3>. QED
            BY <2>1, <3>1, <3>2, AcquireStep, Zenon
    <2>3. CASE ~locked
        <3>1. held' = held
            BY <1>8, <2>3, Zenon DEF WaitReturn, Inv, TypeOK
        <3>. QED
            BY <2>1, <3>1, StutterStep, Zenon
    <2>. QED
        BY <2>2, <2>3, Zenon
<1>9. ASSUME NEW t \in Threads, NEW k \in CondVars, NEW n \in Counts, GuestSignal(t, k, n)
      PROVE  MonitorStep
    BY <1>9, StutterStep, Zenon DEF GuestSignal, kernelVars
<1>10. ASSUME NEW t \in Threads, SignalBegin(t) \/ SignalEnd(t) \/ Exit(t) \/ CloseHandle(t)
      PROVE  MonitorStep
    BY <1>10, StutterStep, Zenon DEF SignalBegin, SignalEnd, Exit, CloseHandle, kernelVars
<1>11. ASSUME NEW t \in Threads, NEW w \in Threads, SignalOne(t, w)
      PROVE  MonitorStep
    BY <1>11, WakeStep, Zenon DEF SignalOne, ClearConditionVariable
<1>12. ASSUME NEW t \in Threads, OnTimer(t) \/ RequestTerminate(t)
      PROVE  MonitorStep
    <2>1. CASE state[t] = "Waiting"
        BY <1>12, <2>1, WakeStep, Zenon DEF OnTimer, RequestTerminate, CancelWait
    <2>2. CASE state[t] # "Waiting"
        BY <1>12, <2>2, StutterStep, Zenon DEF OnTimer, RequestTerminate, kernelVars
    <2>. QED
        BY <2>1, <2>2, Zenon
<1>13. ASSUME NEW t \in Threads, MutexStep(t) \/ WaitStep(t) \/ SignalStep(t)
      PROVE  MonitorStep
    BY <1>2, <1>3, <1>4, <1>5, <1>6, <1>7, <1>8, <1>9, <1>10, <1>11, <1>13, WaitReleaseStep, Zenon
       DEF MutexStep, WaitStep, SignalStep
<1>. QED
    BY <1>1, <1>10, <1>12, <1>13, Zenon DEF Next

\* The guest's view of the system calls is that of a monitor, for every number of threads,
\* mutexes and condition variables: a mutex has one holder at a time, although the kernel
\* hands it over behind the guest's back, and a wait releases and sleeps in one step,
\* although the kernel stores the two words one after the other.
THEOREM CondVarImplementsMonitor == Spec => ImplementsMonitor
<1>1. Init => M!Init
    <2>. SUFFICES ASSUME Init PROVE M!Init
        BY Zenon
    <2>1. \A k \in CondVars : Tree(k) = {}
        BY CondVarAssumption, Zenon DEF Init, Tree
    <2>. QED
        BY <2>1, Zenon DEF Init, M!Init
<1>2. Inv /\ [Next]_vars => [M!Next]_<<held, [k \in CondVars |-> Tree(k)]>>
    BY NextRefines, Zenon DEF MonitorStep, sleeping
<1>. QED
    BY <1>1, <1>2, CondVarInv, PTL DEF Spec, ImplementsMonitor, M!Spec

===============================================================================
