------------------------- MODULE KThreadLocksProofs -------------------------
(***************************************************************************)
(* Priority inheritance is exact and the trees stay sorted, for every set  *)
(* of threads, locks and priorities.                                       *)
(***************************************************************************)
EXTENDS KThreadLocks, TLAPS

\* A lock info has an owner and a key, and a thread is in one tree at most.
WaitWellFormed ==
    \A t \in Threads :
        waiting[t] # NotWaiting =>
            waiting[t].owner \in Threads /\ waiting[t].lock \in Locks /\ cvKey[t] = NoKey

\* While RestorePriority is at work, the thread it is about is the only one whose
\* priority may be wrong.
ExactElsewhere == \A t \in Threads : t # restoring => Exact(t)

LocksInv == TypeOK /\ WaitWellFormed /\ TreesSorted /\ ExactElsewhere

-----------------------------------------------------------------------------
\* A tree that is not empty has a front.
LEMMA FrontExists ==
    ASSUME TypeOK, NEW S \in SUBSET Threads, S # {}
    PROVE  Front(S) # {}
<1>. DEFINE Ranks == {rank[t] : t \in S}
<1>1. Ranks \in SUBSET Priorities /\ Ranks # {}
    BY DEF TypeOK
<1>2. PICK p \in Ranks : \A q \in Ranks : p <= q
    BY <1>1, HighestAssumption, ZenonT(60)
<1>3. PICK t \in S : p = rank[t]
    BY <1>2
<1>. QED
    BY <1>2, <1>3 DEF Front

\* What RestorePriority computes from the fronts of a thread's locks is the highest
\* priority of all its waiters.
LEMMA InheritsAll ==
    ASSUME LocksInv, NEW t \in Threads, NEW p \in Priorities, Inherits(t, p)
    PROVE  /\ p = base[t] \/ \E w \in WaitersOf(t) : p = prio[w]
           /\ p <= base[t] /\ \A w \in WaitersOf(t) : p <= prio[w]
<1>. DEFINE fronts == UNION {Front(Waiters(t, l)) : l \in Locks}
<1>1. ASSUME NEW l \in Locks, NEW w \in Front(Waiters(t, l))
      PROVE  w \in WaitersOf(t)
    BY <1>1 DEF Front, Waiters, WaitersOf
<1>2. ASSUME NEW w \in WaitersOf(t)
      PROVE  p <= prio[w]
    <2>. DEFINE l == waiting[w].lock
                S == Waiters(t, l)
    <2>1. /\ w \in Threads /\ waiting[w] # NotWaiting /\ l \in Locks
          /\ waiting[w] = [owner |-> t, lock |-> l]
        BY <1>2, NullAssumption DEF LocksInv, WaitWellFormed, WaitersOf, NotWaiting, TypeOK
    <2>2. w \in S /\ S \in SUBSET Threads
        BY <2>1 DEF Waiters
    <2>3. PICK f \in Front(S) : TRUE
        BY <2>2, FrontExists DEF LocksInv
    <2>4. f \in S /\ rank[f] <= rank[w]
        BY <2>2, <2>3 DEF Front
    <2>5. f \in Threads /\ waiting[f].owner = t
        BY <2>4 DEF Waiters
    <2>6. waiting[f] # NotWaiting
        BY <2>5, NullAssumption DEF NotWaiting
    <2>7. prio[f] <= prio[w]
        BY <2>1, <2>4, <2>5, <2>6 DEF LocksInv, TreesSorted
    <2>8. p <= prio[f]
        BY <2>1, <2>3 DEF Inherits
    <2>9. p \in Int /\ prio[f] \in Int /\ prio[w] \in Int
        BY <2>1, <2>5, PrioritiesAssumption, ZenonT(60) DEF LocksInv, TypeOK
    <2>. QED
        BY <2>7, <2>8, <2>9
<1>3. fronts \subseteq WaitersOf(t)
    BY <1>1
<1>. QED
    BY <1>2, <1>3 DEF Inherits

-----------------------------------------------------------------------------
(* The steps.                                                              *)

\* A thread whose priorities and waiters do not change keeps an exact priority.
LEMMA ExactKept ==
    ASSUME NEW x \in Threads, Exact(x),
           base'[x] = base[x], prio'[x] = prio[x],
           WaitersOf(x)' = WaitersOf(x), \A w \in WaitersOf(x) : prio'[w] = prio[w]
    PROVE  Exact(x)'
BY DEF Exact

\* Initially nobody waits, and every thread has its base priority.
LEMMA InitLocksInv == Init => LocksInv
<1>. SUFFICES ASSUME Init PROVE LocksInv
    OBVIOUS
<1>1. TypeOK
    BY DEF Init, TypeOK, NotWaiting
<1>2. WaitWellFormed /\ TreesSorted
    BY DEF Init, WaitWellFormed, TreesSorted
<1>3. ASSUME NEW t \in Threads PROVE Exact(t)
    <2>1. WaitersOf(t) = {}
        BY <1>3, NullAssumption DEF Init, WaitersOf, NotWaiting
    <2>2. prio[t] = base[t] /\ base[t] \in Int
        BY <1>3, PrioritiesAssumption, ZenonT(60) DEF Init
    <2>. QED
        BY <2>1, <2>2 DEF Exact
<1>. QED
    BY <1>1, <1>2, <1>3 DEF LocksInv, ExactElsewhere

\* A round of RestorePriority makes its thread exact and passes the doubt on to the
\* owner that the thread waits for.
LEMMA RestoreStep == LocksInv /\ RestorePriority => LocksInv'
<1>. SUFFICES ASSUME LocksInv, RestorePriority PROVE LocksInv'
    OBVIOUS
<1>. DEFINE r == restoring
<1>1. r \in Threads
    BY DEF RestorePriority, LocksInv, TypeOK
<1>2. PICK p \in Priorities :
          /\ Inherits(r, p)
          /\ IF p = prio[r]
             THEN restoring' = NoThread /\ UNCHANGED <<prio, rank>>
             ELSE /\ prio' = [prio EXCEPT ![r] = p]
                  /\ rank' = [rank EXCEPT ![r] = p]
                  /\ restoring' = waiting[r].owner
    BY DEF RestorePriority, Settled, Rank, LockOwner
<1>3. UNCHANGED <<base, waiting, cvKey, cancelling>>
    BY DEF RestorePriority
<1>4. /\ p = base[r] \/ \E w \in WaitersOf(r) : p = prio[w]
      /\ p <= base[r] /\ \A w \in WaitersOf(r) : p <= prio[w]
    BY <1>1, <1>2, InheritsAll
<1>5. \A x : WaitersOf(x)' = WaitersOf(x)
    BY <1>3 DEF WaitersOf
<1>6. CASE p = prio[r]
    <2>1. restoring' = NoThread /\ prio' = prio /\ rank' = rank
        BY <1>2, <1>6
    <2>2. Exact(r)
        BY <1>4, <1>6 DEF Exact
    <2>3. \A x \in Threads : Exact(x)
        BY <2>2 DEF LocksInv, ExactElsewhere
    <2>4. \A x \in Threads : Exact(x)'
        BY <1>3, <1>5, <2>1, <2>3 DEF Exact
    <2>. QED
        BY <1>3, <2>1, <2>4
           DEF LocksInv, TypeOK, WaitWellFormed, TreesSorted, ExactElsewhere
<1>7. CASE p # prio[r]
    <2>1. /\ prio' = [prio EXCEPT ![r] = p] /\ rank' = [rank EXCEPT ![r] = p]
          /\ restoring' = waiting[r].owner
        BY <1>2, <1>7
    <2>2. TypeOK'
        BY <1>1, <1>3, <2>1 DEF LocksInv, TypeOK
    <2>3. WaitWellFormed' /\ TreesSorted'
        BY <1>1, <1>3, <2>1 DEF LocksInv, TypeOK, WaitWellFormed, TreesSorted
    <2>4. ASSUME NEW x \in Threads, x # restoring'
          PROVE  Exact(x)'
        <3>1. r \notin WaitersOf(x)
            BY <2>1, <2>4 DEF WaitersOf
        <3>2. \A w \in WaitersOf(x) : prio'[w] = prio[w]
            BY <1>1, <2>1, <3>1 DEF WaitersOf, LocksInv, TypeOK
        <3>3. CASE x = r
            <4>1. prio'[x] = p /\ base'[x] = base[r]
                BY <1>1, <1>3, <2>1, <3>3 DEF LocksInv, TypeOK
            <4>. QED
                BY <1>4, <1>5, <3>2, <3>3, <4>1 DEF Exact
        <3>4. CASE x # r
            <4>1. prio'[x] = prio[x] /\ base'[x] = base[x]
                BY <1>1, <1>3, <2>1, <3>4 DEF LocksInv, TypeOK
            <4>2. Exact(x)
                BY <3>4 DEF LocksInv, ExactElsewhere
            <4>. QED
                BY <1>5, <3>2, <4>1, <4>2, ExactKept
        <3>. QED
            BY <3>3, <3>4
    <2>. QED
        BY <2>2, <2>3, <2>4 DEF LocksInv, ExactElsewhere
<1>. QED
    BY <1>6, <1>7

\* AddWaiter: the owner of the new waiter needs no new priority, or restores it.
LEMMA AddWaiterStep ==
    ASSUME LocksInv, Idle, NEW o \in Threads, NEW t \in Threads, NEW l \in Locks,
           waiting[t] = NotWaiting, AddWaiter(o, t, l),
           cvKey' = [cvKey EXCEPT ![t] = NoKey],
           UNCHANGED <<base, prio, cancelling>>
    PROVE  LocksInv'
<1>1. /\ waiting' = [waiting EXCEPT ![t] = [owner |-> o, lock |-> l]]
      /\ rank' = [rank EXCEPT ![t] = prio[t]]
      /\ restoring' = IF prio[t] < prio[o] THEN o ELSE NoThread
    BY DEF AddWaiter
<1>2. TypeOK'
    BY <1>1 DEF LocksInv, TypeOK
<1>3. WaitWellFormed'
    BY <1>1 DEF LocksInv, TypeOK, WaitWellFormed
<1>4. TreesSorted'
    BY <1>1 DEF LocksInv, TypeOK, TreesSorted
<1>5. ASSUME NEW x \in Threads, x # restoring'
      PROVE  Exact(x)'
    <2>1. Exact(x)
        BY NullAssumption DEF LocksInv, ExactElsewhere, Idle
    <2>2. t \notin WaitersOf(x)
        BY NullAssumption DEF WaitersOf, NotWaiting
    <2>3. CASE x = o
        <3>1. WaitersOf(x)' = WaitersOf(x) \cup {t}
            BY <1>1, <2>3 DEF WaitersOf, LocksInv, TypeOK
        <3>2. prio[x] <= prio[t]
            <4>1. ~(prio[t] < prio[o])
                BY <1>1, <1>5, <2>3
            <4>2. prio[t] \in Int /\ prio[o] \in Int
                BY PrioritiesAssumption, ZenonT(60) DEF LocksInv, TypeOK
            <4>. QED
                BY <2>3, <4>1, <4>2
        <3>. QED
            BY <2>1, <3>1, <3>2 DEF Exact
    <2>4. CASE x # o
        <3>1. WaitersOf(x)' = WaitersOf(x)
            BY <1>1, <2>2, <2>4 DEF WaitersOf, LocksInv, TypeOK
        <3>. QED
            BY <2>1, <3>1, ExactKept
    <2>. QED
        BY <2>3, <2>4
<1>. QED
    BY <1>2, <1>3, <1>4, <1>5 DEF LocksInv, ExactElsewhere

\* CancelWait: the owner that lost a waiter had its priority from it only if the
\* two priorities are equal, and then it restores it.
LEMMA CancelWaitStep ==
    ASSUME LocksInv, restoring = NoThread, NEW t \in Threads, CancelWait(t),
           cancelling' \in Threads \cup {NoThread}, UNCHANGED <<base, prio, rank>>
    PROVE  LocksInv'
<1>. DEFINE o == waiting[t].owner
<1>1. /\ waiting' = [waiting EXCEPT ![t] = NotWaiting]
      /\ cvKey' = [cvKey EXCEPT ![t] = NoKey]
      /\ restoring' = IF o # NoThread /\ RestoresAfter(o, t) THEN o ELSE NoThread
    BY DEF CancelWait
<1>2. TypeOK'
    BY <1>1 DEF LocksInv, TypeOK, NotWaiting
<1>3. WaitWellFormed'
    BY <1>1 DEF LocksInv, TypeOK, WaitWellFormed
<1>4. TreesSorted'
    BY <1>1 DEF LocksInv, TypeOK, TreesSorted
<1>5. ASSUME NEW x \in Threads, x # restoring'
      PROVE  Exact(x)'
    <2>1. Exact(x)
        BY NullAssumption DEF LocksInv, ExactElsewhere
    <2>2. CASE x = o
        <3>1. WaitersOf(x)' = WaitersOf(x) \ {t}
            BY <1>1, <2>2, NullAssumption DEF WaitersOf, LocksInv, TypeOK, NotWaiting
        <3>2. ~RestoresAfter(x, t)
            BY <1>1, <1>5, <2>2, NullAssumption
        <3>3. prio[x] = prio[t] => prio[x] = base[x]
            <4>1. prio[x] \in Int /\ base[x] \in Int
                BY PrioritiesAssumption, ZenonT(60) DEF LocksInv, TypeOK
            <4>2. prio[x] <= base[x]
                BY <2>1 DEF Exact
            <4>. QED
                BY <3>2, <4>1, <4>2 DEF RestoresAfter
        <3>. QED
            BY <2>1, <3>1, <3>3 DEF Exact
    <2>3. CASE x # o
        <3>1. WaitersOf(x)' = WaitersOf(x)
            BY <1>1, <2>3, NullAssumption DEF WaitersOf, LocksInv, TypeOK, NotWaiting
        <3>. QED
            BY <2>1, <3>1, ExactKept
    <2>. QED
        BY <2>2, <2>3
<1>. QED
    BY <1>2, <1>3, <1>4, <1>5 DEF LocksInv, ExactElsewhere

\* A waiter in the front of a lock's tree has the highest priority of the lock's
\* waiters.
LEMMA FrontHighest ==
    ASSUME LocksInv, NEW o \in Threads, NEW l \in Locks,
           NEW next \in Front(Waiters(o, l)), NEW w \in Waiters(o, l)
    PROVE  prio[next] <= prio[w]
<1>1. next \in Waiters(o, l) /\ rank[next] <= rank[w]
    BY DEF Front
<1>2. \A v \in Waiters(o, l) : v \in Threads /\ waiting[v].owner = o
    BY DEF Waiters
<1>3. \A v \in Waiters(o, l) : rank[v] = prio[v]
    BY <1>2, NullAssumption DEF LocksInv, TreesSorted, NotWaiting
<1>. QED
    BY <1>1, <1>3

\* RemoveWaiterByKey: the waiters it leaves go to a next owner whose priority is
\* as high as theirs, and the old owner keeps a priority its other waiters give it.
LEMMA HandOverStep ==
    ASSUME LocksInv, NEW o \in Threads, NEW l \in Locks, NEW next \in Threads,
           RemoveWaiterByKey(o, l, next)
    PROVE  LocksInv'
<1>. DEFINE given == Waiters(o, l)
<1>1. /\ waiting' = [t \in Threads |->
              IF t = next THEN NotWaiting
              ELSE IF t \in given THEN [owner |-> next, lock |-> l]
              ELSE waiting[t]]
      /\ restoring' = IF RestoresAfter(o, next) THEN o ELSE NoThread
      /\ UNCHANGED <<base, prio, cvKey, rank, cancelling>>
      /\ next \in Front(given) /\ restoring = NoThread
    BY DEF RemoveWaiterByKey, NextOwners, Idle
<1>2. /\ next \in given
      /\ \A t \in given : t \in Threads /\ waiting[t] = [owner |-> o, lock |-> l]
    BY <1>1 DEF Front, Waiters
<1>3. \A t \in given : waiting[t] # NotWaiting
    BY <1>2, NullAssumption DEF NotWaiting
<1>4. TypeOK'
    <2>1. waiting' \in [Threads ->
                            [owner : Threads \cup {NoThread}, lock : Locks \cup {NoLock}]]
        BY <1>1 DEF LocksInv, TypeOK, NotWaiting
    <2>2. restoring' \in Threads \cup {NoThread}
        BY <1>1
    <2>. QED
        BY <1>1, <2>1, <2>2 DEF LocksInv, TypeOK
<1>5. WaitWellFormed'
    <2>. SUFFICES ASSUME NEW t \in Threads, waiting'[t] # NotWaiting
                  PROVE  waiting'[t].owner \in Threads /\ waiting'[t].lock \in Locks /\ cvKey'[t] = NoKey
        BY DEF WaitWellFormed, NotWaiting
    <2>1. CASE t \in given
        BY <1>1, <1>3, <2>1 DEF LocksInv, WaitWellFormed
    <2>2. CASE t \notin given
        BY <1>1, <2>2 DEF LocksInv, WaitWellFormed
    <2>. QED
        BY <2>1, <2>2
<1>6. TreesSorted'
    <2>1. \A t \in Threads : waiting'[t] # NotWaiting => waiting[t] # NotWaiting
        BY <1>1, <1>3
    <2>. QED
        BY <1>1, <2>1 DEF LocksInv, TreesSorted, NotWaiting
<1>7. \A w \in given : prio[next] <= prio[w]
    BY <1>1, FrontHighest
<1>8. \A w \in Threads : prio[w] \in Int /\ base[w] \in Int
    BY PrioritiesAssumption, ZenonT(60) DEF LocksInv, TypeOK
<1>9. ASSUME NEW x \in Threads, x # restoring'
      PROVE  Exact(x)'
    <2>. DEFINE kept == WaitersOf(x) \ given
    <2>1. Exact(x) /\ \A y \in Threads : Exact(y)
        BY <1>1, NullAssumption DEF LocksInv, ExactElsewhere
    <2>2. WaitersOf(x) \subseteq Threads /\ next \in WaitersOf(o)
        BY <1>2 DEF WaitersOf
    <2>3. x # o => kept = WaitersOf(x)
        BY <1>2, NullAssumption DEF WaitersOf
    <2>4. kept \subseteq WaitersOf(x)'
        BY <1>1, <1>2 DEF WaitersOf
    <2>5. WaitersOf(x)' \subseteq kept \cup (IF x = next THEN given ELSE {})
        BY <1>1, NullAssumption DEF WaitersOf, NotWaiting
    <2>6. \A w \in WaitersOf(x)' : prio[x] <= prio[w]
        BY <1>7, <2>1, <2>5 DEF Exact
    <2>7. prio[x] = base[x] \/ \E w \in kept : prio[x] = prio[w]
        <3>1. CASE x # o
            BY <2>1, <2>3, <3>1 DEF Exact
        <3>2. CASE x = o
            <4>1. prio[x] = prio[next] => prio[x] = base[x]
                <5>1. ~RestoresAfter(x, next)
                    BY <1>1, <1>9, <3>2, NullAssumption
                <5>2. prio[x] <= base[x]
                    BY <2>1 DEF Exact
                <5>. QED
                    BY <1>8, <5>1, <5>2 DEF RestoresAfter
            <4>2. prio[x] <= prio[next]
                BY <2>1, <2>2, <3>2 DEF Exact
            <4>3. ASSUME NEW w \in given, prio[x] = prio[w]
                  PROVE  prio[x] = base[x]
                <5>1. prio[next] <= prio[w]
                    BY <1>7, <4>3
                <5>. QED
                    BY <1>2, <1>8, <4>1, <4>2, <4>3, <5>1
            <4>. QED
                BY <2>1, <4>3 DEF Exact
        <3>. QED
            BY <3>1, <3>2
    <2>8. prio[x] <= base[x]
        BY <2>1 DEF Exact
    <2>. QED
        BY <1>1, <2>4, <2>6, <2>7, <2>8 DEF Exact
<1>. QED
    BY <1>4, <1>5, <1>6, <1>9 DEF LocksInv, ExactElsewhere

\* A thread whose base priority changes is the one that is restored.
LEMMA BaseStep ==
    ASSUME LocksInv, restoring = NoThread, NEW t \in Threads,
           \/ base' \in [Threads -> Priorities] /\ restoring' = t
              /\ \A x \in Threads : x # t => base'[x] = base[x]
           \/ UNCHANGED <<base, restoring>>,
           cancelling' \in Threads \cup {NoThread},
           UNCHANGED <<prio, waiting, cvKey, rank>>
    PROVE  LocksInv'
<1>1. TypeOK'
    BY DEF LocksInv, TypeOK
<1>2. WaitWellFormed' /\ TreesSorted'
    BY DEF LocksInv, WaitWellFormed, TreesSorted, NotWaiting
<1>3. ASSUME NEW x \in Threads, x # restoring' PROVE Exact(x)'
    <2>1. Exact(x) /\ base'[x] = base[x]
        BY <1>3, NullAssumption DEF LocksInv, ExactElsewhere
    <2>2. WaitersOf(x)' = WaitersOf(x)
        BY DEF WaitersOf
    <2>. QED
        BY <2>1, <2>2, ExactKept
<1>. QED
    BY <1>1, <1>2, <1>3 DEF LocksInv, ExactElsewhere

LEMMA NextLocksInv == LocksInv /\ [Next]_vars => LocksInv'
<1>. SUFFICES ASSUME LocksInv, [Next]_vars PROVE LocksInv'
    OBVIOUS
<1>1. CASE RestorePriority
    BY <1>1, RestoreStep
<1>2. ASSUME NEW o \in Threads, NEW t \in Threads, NEW l \in Locks, BeginWait(o, t, l)
      PROVE  LocksInv'
    <2>1. cvKey' = [cvKey EXCEPT ![t] = NoKey]
        BY <1>2 DEF BeginWait, LocksInv, TypeOK
    <2>. QED
        BY <1>2, <2>1, AddWaiterStep, ZenonT(60) DEF BeginWait
<1>3. ASSUME NEW o \in Threads, NEW t \in Threads, NEW l \in Locks, Signal(t, o, l)
      PROVE  LocksInv'
    <2>1. waiting[t] = NotWaiting
        BY <1>3 DEF Signal, LocksInv, WaitWellFormed
    <2>2. AddWaiter(o, t, l)
        BY <1>3, NullAssumption DEF Signal
    <2>. QED
        BY <1>3, <2>1, <2>2, AddWaiterStep, ZenonT(60) DEF Signal
<1>4. ASSUME NEW t \in Threads, Signal(t, NoThread, NoLock)
      PROVE  LocksInv'
    <2>1. /\ cvKey' = [cvKey EXCEPT ![t] = NoKey]
          /\ UNCHANGED <<base, prio, waiting, rank, restoring, cancelling>>
        BY <1>4 DEF Signal
    <2>2. TypeOK' /\ WaitWellFormed' /\ TreesSorted'
        BY <2>1 DEF LocksInv, TypeOK, WaitWellFormed, TreesSorted
    <2>3. ExactElsewhere'
        BY <2>1 DEF LocksInv, ExactElsewhere, Exact, WaitersOf
    <2>. QED
        BY <2>2, <2>3 DEF LocksInv
<1>5. ASSUME NEW t \in Threads, OnTimer(t)
      PROVE  LocksInv'
    <2>1. cancelling' \in Threads \cup {NoThread}
        BY <1>5 DEF OnTimer, LocksInv, TypeOK
    <2>. QED
        BY <1>5, <2>1, CancelWaitStep DEF OnTimer, Idle
<1>6. ASSUME NEW t \in Threads, RequestTerminate(t)
      PROVE  LocksInv'
    <2>1. \/ /\ base' \in [Threads -> Priorities] /\ restoring' = t
             /\ \A x \in Threads : x # t => base'[x] = base[x]
          \/ UNCHANGED <<base, restoring>>
        BY <1>6, PrioritiesAssumption DEF RequestTerminate, LocksInv, TypeOK
    <2>. QED
        BY <1>6, <2>1, BaseStep DEF RequestTerminate, Idle
<1>7. ASSUME NEW t \in Threads, NEW k \in CondVars, SetConditionVariable(t, k)
      PROVE  LocksInv'
    <2>1. /\ cvKey' = [cvKey EXCEPT ![t] = k]
          /\ rank' = [rank EXCEPT ![t] = prio[t]]
          /\ UNCHANGED <<base, prio, waiting, restoring, cancelling>>
          /\ waiting[t] = NotWaiting
        BY <1>7 DEF SetConditionVariable
    <2>2. TypeOK' /\ WaitWellFormed' /\ TreesSorted'
        BY <2>1 DEF LocksInv, TypeOK, WaitWellFormed, TreesSorted
    <2>3. ExactElsewhere'
        BY <2>1 DEF LocksInv, ExactElsewhere, Exact, WaitersOf
    <2>. QED
        BY <2>2, <2>3 DEF LocksInv
<1>8. ASSUME NEW o \in Threads, NEW next \in Threads, NEW l \in Locks,
             RemoveWaiterByKey(o, l, next)
      PROVE  LocksInv'
    BY <1>8, HandOverStep
<1>9. ASSUME NEW t \in Threads, NEW p \in Priorities, SetBasePriority(t, p)
      PROVE  LocksInv'
    <2>1. /\ base' \in [Threads -> Priorities] /\ restoring' = t
          /\ \A x \in Threads : x # t => base'[x] = base[x]
          /\ cancelling' \in Threads \cup {NoThread}
        BY <1>9 DEF SetBasePriority, LocksInv, TypeOK
    <2>. QED
        BY <1>9, <2>1, BaseStep DEF SetBasePriority, Idle
<1>10. CASE RequestTerminateEnd
    <2>1. cancelling \in Threads
        BY <1>10 DEF RequestTerminateEnd, LocksInv, TypeOK
    <2>. QED
        BY <1>10, <2>1, CancelWaitStep DEF RequestTerminateEnd
<1>11. CASE UNCHANGED vars
    BY <1>11 DEF vars, LocksInv, TypeOK, WaitWellFormed, TreesSorted, ExactElsewhere,
                 Exact, WaitersOf, NotWaiting
<1>. QED
    BY <1>1, <1>2, <1>3, <1>4, <1>5, <1>6, <1>7, <1>8, <1>9, <1>10, <1>11 DEF Next

-----------------------------------------------------------------------------
(* The theorems.                                                           *)

\* The lock infos are well formed, the trees sorted, and at most one priority is
\* in doubt, in every reachable state.
THEOREM ThreadLocksInvariant == Spec => []LocksInv
BY InitLocksInv, NextLocksInv, PTL DEF Spec

\* Every variable keeps its type.
THEOREM ThreadLocksTyped == Spec => []TypeOK
<1>1. LocksInv => TypeOK
    BY DEF LocksInv
<1>. QED
    BY <1>1, ThreadLocksInvariant, PTL

\* Whenever no RestorePriority is at work, every thread has the highest of its base
\* priority and of its waiters' priorities, and no other one.
THEOREM InheritanceIsExact == Spec => []InheritanceExact
<1>1. LocksInv => InheritanceExact
    BY NullAssumption DEF LocksInv, ExactElsewhere, InheritanceExact
<1>. QED
    BY <1>1, ThreadLocksInvariant, PTL

\* A thread in a tree has the priority it was inserted with.
THEOREM TreesStaySorted == Spec => []TreesSorted
<1>1. LocksInv => TreesSorted
    BY DEF LocksInv
<1>. QED
    BY <1>1, ThreadLocksInvariant, PTL

\* RemoveWaiterByKey leaves no waiter with a higher priority than the next owner's.
THEOREM HandsOverToHighest == Spec => HandOverToHighest
<1>. DEFINE Given(t, next) ==
         waiting[t] # NotWaiting /\ waiting'[t].owner = next /\ waiting'[t] # waiting[t]
<1>1. ASSUME LocksInv, [Next]_vars, NEW t \in Threads, NEW next \in Threads, Given(t, next)
      PROVE  prio[next] <= prio[t]
    <2>1. t \in Threads /\ NotWaiting.owner = NoThread /\ cvKey[t] = NoKey
        BY <1>1 DEF NotWaiting, LocksInv, WaitWellFormed
    <2>2. ASSUME NEW o \in Threads, NEW x \in Threads, NEW l \in Locks, BeginWait(o, x, l)
          PROVE  FALSE
        BY <1>1, <2>2 DEF BeginWait, AddWaiter, LocksInv, TypeOK
    <2>3. ASSUME NEW o \in Threads \cup {NoThread}, NEW x \in Threads,
                 NEW l \in Locks \cup {NoLock}, Signal(x, o, l)
          PROVE  FALSE
        BY <1>1, <2>1, <2>3 DEF Signal, AddWaiter, LocksInv, TypeOK
    <2>4. ASSUME NEW x \in Threads, CancelWait(x)
          PROVE  FALSE
        BY <1>1, <2>1, <2>4, NullAssumption DEF CancelWait, LocksInv, TypeOK
    <2>5. ASSUME NEW o \in Threads, NEW n \in Threads, NEW l \in Locks,
                 RemoveWaiterByKey(o, l, n)
          PROVE  prio[next] <= prio[t]
        <3>1. n \in Front(Waiters(o, l)) /\ waiting' = [x \in Threads |->
                  IF x = n THEN NotWaiting
                  ELSE IF x \in Waiters(o, l) THEN [owner |-> n, lock |-> l]
                  ELSE waiting[x]]
            BY <2>5 DEF RemoveWaiterByKey, NextOwners
        <3>2. t \in Waiters(o, l) /\ next = n
            BY <1>1, <2>1, <3>1, NullAssumption
        <3>. QED
            BY <1>1, <3>1, <3>2, FrontHighest
    <2>6. CASE UNCHANGED waiting
        BY <1>1, <2>6
    <2>7. CASE RequestTerminateEnd
        BY <1>1, <2>4, <2>7 DEF RequestTerminateEnd, LocksInv, TypeOK
    <2>8. CASE \E x \in Threads : OnTimer(x)
        BY <2>4, <2>8 DEF OnTimer
    <2>. QED
        BY <1>1, <2>2, <2>3, <2>5, <2>6, <2>7, <2>8
           DEF Next, vars, RestorePriority, SetConditionVariable, SetBasePriority, RequestTerminate
<1>2. LocksInv /\ [Next]_vars =>
          [\A t, next \in Threads :
              waiting[t] # NotWaiting /\ waiting'[t].owner = next /\ waiting'[t] # waiting[t]
                  => prio[next] <= prio[t]]_vars
    BY <1>1
<1>. QED
    BY <1>2, ThreadLocksInvariant, PTL DEF Spec, HandOverToHighest

=============================================================================
