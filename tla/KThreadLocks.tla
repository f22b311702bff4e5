---------------------------- MODULE KThreadLocks ----------------------------
(***************************************************************************)
(* The lock infos of KThread: which thread waits for which lock of which   *)
(* owner, the priorities owners inherit from their waiters, and the order  *)
(* of the waiters in the trees of locks and of condition variables.        *)
(*                                                                         *)
(* All of it happens under the scheduler lock.  One operation is one step, *)
(* except that RestorePriority is a loop along the owners: `restoring' is  *)
(* the thread its next round is about, and no other operation starts       *)
(* before it has ended.                                                    *)
(*                                                                         *)
(* A tree is sorted by the priority its threads had when they were         *)
(* inserted (`rank'), and threads of one rank may be in any order.  Who    *)
(* owns a mutex is up to the guest, so that a thread may wait for any      *)
(* thread, for itself and in a cycle too.  A smaller number is a higher    *)
(* priority.                                                               *)
(***************************************************************************)
EXTENDS Integers

CONSTANTS
    Threads,
    Locks,                  \* the address keys of light locks and guest mutexes
    CondVars,               \* the keys in the trees of condition variables and arbiters
    Priorities,             \* the priorities that threads are given
    TerminatingPriority,    \* TerminatingThreadPriority
    NoThread, NoLock, NoKey

ASSUME NullAssumption == NoThread \notin Threads /\ NoLock \notin Locks /\ NoKey \notin CondVars
ASSUME PrioritiesAssumption == Priorities \subseteq Int /\ TerminatingPriority \in Priorities
\* Of some priorities, one is the highest: there are finitely many of them.
ASSUME HighestAssumption ==
    \A S \in SUBSET Priorities : S # {} => \E p \in S : \A q \in S : p <= q

VARIABLES
    base,           \* m_base_priority
    prio,           \* m_priority
    waiting,        \* m_waiting_lock_info: its owner and its address key
    cvKey,          \* m_condvar_key, while m_condvar_tree is set
    rank,           \* the priority the thread's tree node was inserted with
    restoring,      \* the thread of RestorePriority's next round
    cancelling      \* the thread whose wait RequestTerminate has yet to cancel

vars == <<base, prio, waiting, cvKey, rank, restoring, cancelling>>

NotWaiting == [owner |-> NoThread, lock |-> NoLock]

Init ==
    /\ base \in [Threads -> Priorities]
    /\ prio = base
    /\ waiting = [t \in Threads |-> NotWaiting]
    /\ cvKey = [t \in Threads |-> NoKey]
    /\ rank = base
    /\ restoring = NoThread
    /\ cancelling = NoThread

-----------------------------------------------------------------------------
(* The lists and trees.                                                    *)

\* No other operation holds the scheduler lock.
Idle == restoring = NoThread /\ cancelling = NoThread

\* The lock info of owner o for lock l, by its waiters
Waiters(o, l) == {t \in Threads : waiting[t] = [owner |-> o, lock |-> l]}

WaitersOf(o) == {t \in Threads : waiting[t].owner = o}

\* GetHighestPriorityWaiter: a thread at the front of the tree
Front(tree) == {t \in tree : \A u \in tree : rank[t] <= rank[u]}

\* The tree of the threads on condition variable or arbiter key k
Tree(k) == {t \in Threads : cvKey[t] = k}

-----------------------------------------------------------------------------
(* RestorePriority.                                                        *)

\* p is what t inherits: the minimum of its base priority and of the priorities
\* of the threads at the front of its locks.
Inherits(t, p) ==
    LET fronts == UNION {Front(Waiters(t, l)) : l \in Locks}
    IN  /\ p = base[t] \/ \E w \in fronts : p = prio[w]
        /\ p <= base[t] /\ \A w \in fronts : p <= prio[w]

\* Mutant: the condition variable's tree is not sorted again.
RankLockOnly(t, p) == [rank EXCEPT ![t] = IF waiting[t] # NotWaiting THEN p ELSE @]

\* The thread is removed from its tree and inserted again with its new priority.
Rank(t, p) == [rank EXCEPT ![t] = p]

\* The loop goes on with the owner the thread waits for.
LockOwner(t) == waiting[t].owner

\* Mutant: the loop goes on although nothing changed.
SettledNever(t, p) == FALSE

\* The priority the thread would inherit is not different from its own.
Settled(t, p) == p = prio[t]

\* One round of the loop
RestorePriority ==
    /\ restoring # NoThread
    /\ \E p \in Priorities :
          /\ Inherits(restoring, p)
          /\ IF Settled(restoring, p)
             THEN /\ restoring' = NoThread
                  /\ UNCHANGED <<prio, rank>>
             ELSE /\ prio' = [prio EXCEPT ![restoring] = p]
                  /\ rank' = Rank(restoring, p)
                  /\ restoring' = LockOwner(restoring)
    /\ UNCHANGED <<base, waiting, cvKey, cancelling>>

-----------------------------------------------------------------------------
(* The operations.                                                         *)

\* The part AddWaiter of owner o and its waiter t: o inherits t's priority.
AddWaiter(o, t, l) ==
    /\ waiting' = [waiting EXCEPT ![t] = [owner |-> o, lock |-> l]]
    /\ rank' = [rank EXCEPT ![t] = prio[t]]
    /\ restoring' = IF prio[t] < prio[o] THEN o ELSE NoThread

\* Mutant: only a thread that was boosted above its waiter is restored.
RestoresIfHigher(o, t) == prio[o] < prio[t] /\ prio[o] < base[o]

\* The test before an owner that lost waiter t restores its priority
RestoresAfter(o, t) == prio[o] = prio[t] /\ prio[o] < base[o]

\* KLightLock::LockSlowPath and KConditionVariable::WaitForAddress
BeginWait(o, t, l) ==
    /\ Idle /\ waiting[t] = NotWaiting /\ cvKey[t] = NoKey
    /\ AddWaiter(o, t, l)
    /\ UNCHANGED <<base, prio, cvKey, cancelling>>

\* KConditionVariable::Wait and the waits of KAddressArbiter: into the tree
SetConditionVariable(t, k) ==
    /\ Idle /\ waiting[t] = NotWaiting /\ cvKey[t] = NoKey
    /\ cvKey' = [cvKey EXCEPT ![t] = k]
    /\ rank' = [rank EXCEPT ![t] = prio[t]]
    /\ UNCHANGED <<base, prio, waiting, restoring, cancelling>>

\* Signal takes the front of the key's tree.  It wakes the thread, or SignalImpl
\* makes it a waiter of the thread that owns its mutex.
Signal(t, o, l) ==
    /\ Idle /\ cvKey[t] # NoKey /\ t \in Front(Tree(cvKey[t]))
    /\ cvKey' = [cvKey EXCEPT ![t] = NoKey]
    /\ IF o = NoThread THEN UNCHANGED <<waiting, rank, restoring>> ELSE AddWaiter(o, t, l)
    /\ UNCHANGED <<base, prio, cancelling>>

\* RemoveWaiter and the removal from the tree, by the wait queues' CancelWait
CancelWait(t) ==
    LET o == waiting[t].owner
    IN  /\ waiting' = [waiting EXCEPT ![t] = NotWaiting]
        /\ cvKey' = [cvKey EXCEPT ![t] = NoKey]
        /\ restoring' = IF o # NoThread /\ RestoresAfter(o, t) THEN o ELSE NoThread

\* KThread::OnTimer of a thread that waits
OnTimer(t) ==
    /\ Idle /\ (waiting[t] # NotWaiting \/ cvKey[t] # NoKey)
    /\ CancelWait(t)
    /\ UNCHANGED <<base, prio, rank, cancelling>>

\* Mutant: the next owner is any waiter.
AnyWaiter(o, l) == Waiters(o, l)

\* The waiters that RemoveWaiterByKey may make the next owner
NextOwners(o, l) == Front(Waiters(o, l))

\* RemoveWaiterByKey: the next owner takes the other waiters over.
RemoveWaiterByKey(o, l, next) ==
    /\ Idle /\ next \in NextOwners(o, l)
    /\ waiting' = [t \in Threads |->
           IF t = next THEN NotWaiting
           ELSE IF t \in Waiters(o, l) THEN [owner |-> next, lock |-> l]
           ELSE waiting[t]]
    /\ restoring' = IF RestoresAfter(o, next) THEN o ELSE NoThread
    /\ UNCHANGED <<base, prio, cvKey, rank, cancelling>>

SetBasePriority(t, p) ==
    /\ Idle
    /\ base' = [base EXCEPT ![t] = p]
    /\ restoring' = t
    /\ UNCHANGED <<prio, waiting, cvKey, rank, cancelling>>

\* RequestTerminate up to IncreaseBasePriority
RequestTerminate(t) ==
    /\ Idle
    /\ IF base[t] > TerminatingPriority
       THEN base' = [base EXCEPT ![t] = TerminatingPriority] /\ restoring' = t
       ELSE UNCHANGED <<base, restoring>>
    /\ cancelling' = t
    /\ UNCHANGED <<prio, waiting, cvKey, rank>>

\* The rest of RequestTerminate: the thread's wait is cancelled.
RequestTerminateEnd ==
    /\ cancelling # NoThread /\ restoring = NoThread
    /\ CancelWait(cancelling)
    /\ cancelling' = NoThread
    /\ UNCHANGED <<base, prio, rank>>

Next ==
    \/ RestorePriority
    \/ \E o, t \in Threads, l \in Locks : BeginWait(o, t, l) \/ Signal(t, o, l)
    \/ \E t \in Threads : Signal(t, NoThread, NoLock) \/ OnTimer(t) \/ RequestTerminate(t)
    \/ \E t \in Threads, k \in CondVars : SetConditionVariable(t, k)
    \/ \E o, next \in Threads, l \in Locks : RemoveWaiterByKey(o, l, next)
    \/ \E t \in Threads, p \in Priorities : SetBasePriority(t, p)
    \/ RequestTerminateEnd

Spec == Init /\ [][Next]_vars

\* The loop runs in one thread that holds the scheduler lock.
FairSpec == Spec /\ WF_vars(RestorePriority)

-----------------------------------------------------------------------------
(* Properties.                                                             *)

TypeOK ==
    /\ base \in [Threads -> Priorities]
    /\ prio \in [Threads -> Priorities]
    /\ waiting \in [Threads -> [owner : Threads \cup {NoThread}, lock : Locks \cup {NoLock}]]
    /\ cvKey \in [Threads -> CondVars \cup {NoKey}]
    /\ rank \in [Threads -> Priorities]
    /\ restoring \in Threads \cup {NoThread}
    /\ cancelling \in Threads \cup {NoThread}

\* The priority a thread should have: the highest of its base priority and of the
\* priorities of all threads that wait for it
Exact(t) ==
    /\ prio[t] = base[t] \/ \E w \in WaitersOf(t) : prio[t] = prio[w]
    /\ prio[t] <= base[t] /\ \A w \in WaitersOf(t) : prio[t] <= prio[w]

\* Whenever the scheduler lock is free, every thread has the priority it should:
\* no owner runs below a thread that waits for it, and no thread keeps a boost
\* that nobody gives it.  The shortcuts of AddWaiter, RemoveWaiter and
\* RemoveWaiterByKey, which restore the priority of one thread only and only if
\* the priorities compare so, and the early end of RestorePriority's loop are
\* enough.
InheritanceExact == restoring = NoThread => \A t \in Threads : Exact(t)

\* Every tree stays sorted: no priority changes under a thread that is in a
\* tree, so that the front of a tree is a thread of the highest priority.
TreesSorted ==
    \A t \in Threads : waiting[t] # NotWaiting \/ cvKey[t] # NoKey => rank[t] = prio[t]

\* A lock goes to a waiter of the highest priority: the threads it leaves
\* waiting, which now wait for that waiter, do not have a higher one, which is why
\* RemoveWaiterByKey need not restore the next owner's priority.
HandOverToHighest ==
    [][\A t, next \in Threads :
          waiting[t] # NotWaiting /\ waiting'[t].owner = next /\ waiting'[t] # waiting[t]
              => prio[next] <= prio[t]]_vars

\* RestorePriority's loop ends, for threads that wait in a cycle too, where it
\* comes back to the thread it started with.
RestoreEnds == restoring # NoThread ~> restoring = NoThread

=============================================================================
