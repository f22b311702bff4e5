-------------------------- MODULE KLightLockProofs --------------------------
(***************************************************************************)
(* The light lock is correct for every set of threads, of locks and of     *)
(* suspend types, as long as no thread is terminated while it waits for    *)
(* the lock.                                                               *)
(***************************************************************************)
EXTENDS KLightLock, FiniteSetTheorems, TLAPS

\* A tag without an owner is the free tag.
TagWellFormed == \A l \in Locks : tag[l].owner = NoThread => tag[l] = Free

\* Each thread's place in Lock and Unlock: what it has seen, what it waits for
\* and, once its wait is over, that the lock was handed to it.
PlaceInv ==
    \A t \in Threads :
        /\ pc[t] # "run" => lock[t] \in Locks
        /\ pc[t] = "lock_slow" => seen[t] \in Threads
        /\ pc[t] = "unlock_slow" => lock[t] \in held[t]
        /\ pc[t] = "lock_wait" /\ state[t] # "Waiting" => tag[lock[t]].owner = t
        /\ state[t] = "Waiting" => pc[t] = "lock_wait" /\ waitingLock[t].owner \in Threads
        /\ state[t] # "Waiting" => waitingLock[t] = NotWaiting

LockInv ==
    /\ TypeOK
    /\ TagWellFormed
    /\ PlaceInv
    /\ HolderOwnsTag
    /\ NoLostWaiter
    /\ WaitersCounted

-----------------------------------------------------------------------------
(* Counting waiters.                                                       *)

\* The threads waiting on an owner are finitely many.
LEMMA WaitersFinite ==
    ASSUME NEW o
    PROVE  IsFiniteSet(AllWaiters(o)) /\ Cardinality(AllWaiters(o)) \in Nat
<1>1. AllWaiters(o) \in SUBSET Threads
    BY DEF AllWaiters
<1>2. IsFiniteSet(AllWaiters(o))
    BY <1>1, FS_Subset, ThreadsAssumption
<1>. QED
    BY <1>2, FS_CardinalityType

\* LockSlowPath: when a thread that waited for nothing starts to wait on owner, the
\* count of waiters of owner grows by one and the others' stay.
LEMMA AddedWaiterCounted ==
    ASSUME TypeOK, WaitersCounted,
           NEW t \in Threads, NEW owner \in Threads, NEW l \in Locks,
           waitingLock[t] = NotWaiting,
           waitingLock' = [waitingLock EXCEPT ![t] = [owner |-> owner, key |-> l]],
           numKernelWaiters' = [numKernelWaiters EXCEPT ![owner] = @ + 1]
    PROVE  /\ WaitersCounted'
           /\ numKernelWaiters' \in [Threads -> Nat]
<1>1. AllWaiters(owner)' = AllWaiters(owner) \cup {t}
    BY DEF AllWaiters, TypeOK
<1>2. t \notin AllWaiters(owner)
    BY ThreadsAssumption DEF AllWaiters, NotWaiting
<1>3. \A o \in Threads \ {owner} : AllWaiters(o)' = AllWaiters(o)
    BY ThreadsAssumption DEF AllWaiters, TypeOK, NotWaiting
<1>4. Cardinality(AllWaiters(owner)') = Cardinality(AllWaiters(owner)) + 1
    BY <1>1, <1>2, WaitersFinite, FS_AddElement, ZenonT(60)
<1>. QED
    BY <1>3, <1>4 DEF TypeOK, WaitersCounted

\* UnlockSlowPath: RemoveWaiterByKey takes the waiters of one lock from its owner
\* and gives all but one of them to that one.
LEMMA MovedWaitersCounted ==
    ASSUME TypeOK, WaitersCounted,
           NEW t \in Threads, NEW l \in Locks, NEW next \in Waiters(t, l),
           waitingLock[t].owner # t,
           waitingLock' = [w \in Threads |->
               IF w = next THEN NotWaiting
               ELSE IF w \in Waiters(t, l) \ {next} THEN [owner |-> next, key |-> l]
               ELSE waitingLock[w]],
           numKernelWaiters' = MoveWaiters(t, next, l)
    PROVE  /\ WaitersCounted'
           /\ numKernelWaiters' \in [Threads -> Nat]
<1>. DEFINE W == Waiters(t, l)
            rest == W \ {next}
<1>1. next \in Threads /\ W \subseteq AllWaiters(t) /\ next # t
    BY DEF Waiters, AllWaiters
<1>2. IsFiniteSet(W) /\ Cardinality(W) \in Nat
    BY <1>1, WaitersFinite, FS_Subset, FS_CardinalityType
<1>3. IsFiniteSet(rest) /\ Cardinality(rest) = Cardinality(W) - 1 /\ Cardinality(rest) \in Nat
    BY <1>2, FS_RemoveElement, FS_CardinalityType
<1>4. AllWaiters(t)' = AllWaiters(t) \ W
    BY <1>1, ThreadsAssumption DEF AllWaiters, Waiters, TypeOK, NotWaiting
<1>5. Cardinality(AllWaiters(t)') = Cardinality(AllWaiters(t)) - Cardinality(W)
    <2>1. AllWaiters(t) \cap W = W
        BY <1>1
    <2>. QED
        BY <1>4, <2>1, WaitersFinite, FS_Difference, ZenonT(60)
<1>6. AllWaiters(next)' = AllWaiters(next) \cup rest
    BY <1>1, ThreadsAssumption DEF AllWaiters, Waiters, TypeOK, NotWaiting
<1>7. Cardinality(AllWaiters(next)') = Cardinality(AllWaiters(next)) + Cardinality(rest)
    <2>1. AllWaiters(next) \cap rest = {}
        BY <1>1 DEF AllWaiters, Waiters
    <2>2. Cardinality(AllWaiters(next) \cap rest) = 0
        BY <2>1, FS_EmptySet
    <2>3. Cardinality(AllWaiters(next) \cup rest)
          = Cardinality(AllWaiters(next)) + Cardinality(rest)
            - Cardinality(AllWaiters(next) \cap rest)
        BY <1>3, WaitersFinite, FS_Union
    <2>. QED
        BY <1>3, <1>6, <2>2, <2>3, WaitersFinite
<1>8. \A o \in Threads \ {t, next} : AllWaiters(o)' = AllWaiters(o)
    BY <1>1, ThreadsAssumption DEF AllWaiters, Waiters, TypeOK, NotWaiting
<1>9. Cardinality(AllWaiters(t)) - Cardinality(W) \in Nat
    BY <1>1, <1>2, WaitersFinite, FS_Subset
<1>10. /\ numKernelWaiters'[t] = Cardinality(AllWaiters(t)')
       /\ numKernelWaiters'[next] = Cardinality(AllWaiters(next)')
       /\ numKernelWaiters'[t] \in Nat /\ numKernelWaiters'[next] \in Nat
    BY <1>1, <1>2, <1>3, <1>5, <1>7, <1>9 DEF TypeOK, WaitersCounted, MoveWaiters
<1>11. \A o \in Threads \ {t, next} : numKernelWaiters'[o] = numKernelWaiters[o]
    BY DEF TypeOK, MoveWaiters
<1>12. numKernelWaiters' \in [Threads -> Nat]
    BY <1>10, <1>11, ZenonT(60) DEF TypeOK, MoveWaiters
<1>. QED
    BY <1>8, <1>10, <1>11, <1>12 DEF WaitersCounted

-----------------------------------------------------------------------------
(* The invariant.                                                          *)

LEMMA InitLockInv == Init => LockInv
<1>. SUFFICES ASSUME Init PROVE LockInv
    OBVIOUS
<1>1. TypeOK
    BY DEF Init, TypeOK, Free, NotWaiting
<1>2. WaitersCounted
    <2>1. \A o \in Threads : AllWaiters(o) = {}
        BY ThreadsAssumption DEF Init, AllWaiters, NotWaiting
    <2>. QED
        BY <2>1, FS_EmptySet DEF Init, WaitersCounted
<1>. QED
    BY <1>1, <1>2 DEF Init, LockInv, TagWellFormed, PlaceInv, HolderOwnsTag, NoLostWaiter, Free

\* Steps that leave the tags, the waiting relation and each thread's place alone
LEMMA ThreadOnlyStep ==
    ASSUME LockInv, TypeOK',
           UNCHANGED <<tag, numKernelWaiters, waitingLock, pc, lock, seen, held>>,
           \A t \in Threads :
               /\ state'[t] = "Waiting" <=> state[t] = "Waiting"
    PROVE  LockInv'
<1>1. WaitersCounted'
    BY DEF LockInv, WaitersCounted, AllWaiters
<1>. QED
    BY <1>1, ZenonT(60) DEF LockInv, TagWellFormed, PlaceInv, HolderOwnsTag, NoLostWaiter, Free, NotWaiting

LEMMA LockStep ==
    ASSUME LockInv, NEW t \in Threads, NEW l \in Locks, Lock(t, l)
    PROVE  LockInv'
<1>. USE DEF LockInv
<1>1. WaitersCounted'
    BY DEF Lock, threadVars, WaitersCounted, AllWaiters
<1>2. /\ state[t] # "Waiting"
      /\ UNCHANGED <<state, waitingLock, numKernelWaiters>>
    BY DEF Lock, PlaceInv, threadVars
<1>3. CASE tag[l] = Free
    <2>0. /\ tag' = [tag EXCEPT ![l] = [owner |-> t, waiters |-> FALSE]]
          /\ pc' = [pc EXCEPT ![t] = "run"]
          /\ lock' = [lock EXCEPT ![t] = 0]
          /\ held' = [held EXCEPT ![t] = held[t] \cup {l}]
          /\ seen' = seen
        BY <1>3 DEF Lock
    <2>1. TypeOK'
        BY <2>0 DEF TypeOK, Lock, threadVars
    <2>2. TagWellFormed'
        BY <2>0, ThreadsAssumption DEF TagWellFormed, TypeOK
    <2>3. HolderOwnsTag'
        BY <1>3, <2>0, ThreadsAssumption DEF HolderOwnsTag, TypeOK, Free
    <2>4. PlaceInv'
        BY <1>2, <1>3, <2>0, ThreadsAssumption DEF PlaceInv, TypeOK, Free
    <2>5. NoLostWaiter'
        BY <1>2, <1>3, <2>0, ThreadsAssumption DEF PlaceInv, NoLostWaiter, TypeOK, Free
    <2>. QED
        BY <1>1, <2>1, <2>2, <2>3, <2>4, <2>5
<1>4. CASE tag[l] # Free
    <2>0. /\ tag' = [tag EXCEPT ![l] = [owner |-> tag[l].owner, waiters |-> TRUE]]
          /\ pc' = [pc EXCEPT ![t] = "lock_slow"]
          /\ lock' = [lock EXCEPT ![t] = l]
          /\ seen' = [seen EXCEPT ![t] = tag[l].owner]
          /\ held' = held
        BY <1>4 DEF Lock
    <2>1. tag[l].owner \in Threads
        BY <1>4 DEF TagWellFormed, TypeOK
    <2>2. TypeOK'
        BY <2>0, <2>1 DEF TypeOK, Lock, threadVars
    <2>3. \A k \in Locks : tag'[k].owner = tag[k].owner
        BY <2>0 DEF TypeOK
    <2>4. TagWellFormed'
        BY <2>0, <2>1, ThreadsAssumption DEF TagWellFormed, TypeOK
    <2>5. HolderOwnsTag'
        BY <2>0, <2>3 DEF HolderOwnsTag, TypeOK
    <2>6. PlaceInv'
        BY <1>2, <2>0, <2>1, <2>3 DEF PlaceInv, TypeOK
    <2>7. NoLostWaiter'
        BY <1>2, <2>0 DEF PlaceInv, NoLostWaiter, TypeOK
    <2>. QED
        BY <1>1, <2>2, <2>4, <2>5, <2>6, <2>7
<1>. QED
    BY <1>3, <1>4

LEMMA LockSlowPathStep ==
    ASSUME LockInv, NEW t \in Threads, LockSlowPath(t)
    PROVE  LockInv'
<1>. USE DEF LockInv
<1>0. /\ lock[t] \in Locks /\ seen[t] \in Threads
      /\ state[t] # "Waiting" /\ waitingLock[t] = NotWaiting
    BY DEF LockSlowPath, PlaceInv
<1>1. CASE ~HasLockingToDo(t)
    <2>1. TypeOK'
        BY <1>1 DEF TypeOK, LockSlowPath, Reschedules, Schedulable
    <2>2. WaitersCounted'
        BY <1>1 DEF LockSlowPath, WaitersCounted, AllWaiters
    <2>. QED
        BY <1>0, <1>1, <2>1, <2>2
        DEF LockSlowPath, TagWellFormed, PlaceInv, HolderOwnsTag, NoLostWaiter, TypeOK, Free,
            NotWaiting
<1>2. CASE HasLockingToDo(t)
    <2>1. WaitersCounted' /\ numKernelWaiters' \in [Threads -> Nat]
        BY <1>0, <1>2, AddedWaiterCounted DEF LockSlowPath
    <2>2. TypeOK'
        BY <1>0, <1>2, <2>1, SMTT(60)
        DEF TypeOK, LockSlowPath, Reschedules, Schedulable, ContinuesIfWaiters
    <2>3. HolderOwnsTag' /\ TagWellFormed'
        BY <1>2, ZenonT(60) DEF LockSlowPath, HolderOwnsTag, TagWellFormed, Free
    <2>4. PlaceInv'
        BY <1>0, <1>2 DEF LockSlowPath, PlaceInv, TypeOK, NotWaiting
    <2>5. NoLostWaiter'
        <3>1. /\ tag' = tag /\ lock' = lock
              /\ state' = [state EXCEPT ![t] = "Waiting"]
              /\ waitingLock' = [waitingLock EXCEPT ![t] = [owner |-> seen[t], key |-> lock[t]]]
            BY <1>2 DEF LockSlowPath
        <3>2. tag[lock[t]] = [owner |-> seen[t], waiters |-> TRUE]
            BY <1>2 DEF HasLockingToDo
        <3>. QED
            BY <3>1, <3>2, ZenonT(60) DEF NoLostWaiter, TypeOK
    <2>. QED
        BY <2>1, <2>2, <2>3, <2>4, <2>5
<1>. QED
    BY <1>1, <1>2

LEMMA LockReturnStep ==
    ASSUME LockInv, NEW t \in Threads, LockReturn(t)
    PROVE  LockInv'
<1>. USE DEF LockInv
<1>1. TypeOK'
    BY DEF TypeOK, LockReturn, threadVars, PlaceInv
<1>2. WaitersCounted'
    BY DEF LockReturn, threadVars, WaitersCounted, AllWaiters
<1>3. HolderOwnsTag'
    BY DEF LockReturn, PlaceInv, HolderOwnsTag, TypeOK
<1>4. PlaceInv'
    BY DEF LockReturn, PlaceInv, TypeOK, threadVars, NotWaiting
<1>. QED
    BY <1>1, <1>2, <1>3, <1>4
    DEF LockReturn, NoLostWaiter, TypeOK, threadVars, TagWellFormed, Free

\* Once the lock's tag names t, t's waiters for it are the threads parked on it.
LEMMA WaitersOfHolder ==
    ASSUME TypeOK, PlaceInv, NoLostWaiter,
           NEW t \in Threads, NEW l \in Locks, tag[l].owner = t, NEW w \in Threads
    PROVE  w \in Waiters(t, l) <=> state[w] = "Waiting" /\ lock[w] = l
<1>1. ASSUME w \in Waiters(t, l)
      PROVE  state[w] = "Waiting" /\ lock[w] = l
    <2>1. waitingLock[w].owner = t /\ waitingLock[w].key = l
        BY <1>1 DEF Waiters
    <2>2. NotWaiting.owner # t
        BY ThreadsAssumption DEF NotWaiting
    <2>3. state[w] = "Waiting"
        BY <2>1, <2>2 DEF PlaceInv
    <2>. QED
        BY <2>1, <2>3, ZenonT(60) DEF NoLostWaiter
<1>2. ASSUME state[w] = "Waiting", lock[w] = l
      PROVE  w \in Waiters(t, l)
    <2>1. waitingLock[w].key = l /\ tag[l] = [owner |-> waitingLock[w].owner, waiters |-> TRUE]
        BY <1>2 DEF NoLostWaiter
    <2>2. waitingLock[w].owner = t
        BY <2>1
    <2>3. waitingLock[w] = [owner |-> t, key |-> l]
        BY <2>1, <2>2 DEF TypeOK
    <2>. QED
        BY <2>3 DEF Waiters
<1>. QED
    BY <1>1, <1>2

LEMMA UnlockStep ==
    ASSUME LockInv, NEW t \in Threads, NEW l \in Locks, Unlock(t, l)
    PROVE  LockInv'
<1>. USE DEF LockInv
<1>1. WaitersCounted'
    BY DEF Unlock, threadVars, WaitersCounted, AllWaiters
<1>2. /\ state[t] # "Waiting" /\ l \in held[t] /\ pc[t] = "run"
      /\ tag[l].owner = t
      /\ UNCHANGED <<state, waitingLock, numKernelWaiters, seen>>
    BY DEF Unlock, PlaceInv, HolderOwnsTag, threadVars
<1>3. CASE tag[l] = [owner |-> t, waiters |-> FALSE]
    <2>0. /\ tag' = [tag EXCEPT ![l] = Free]
          /\ held' = [held EXCEPT ![t] = held[t] \ {l}]
          /\ pc' = pc /\ lock' = lock
        BY <1>3 DEF Unlock
    <2>1. TypeOK'
        BY <2>0 DEF TypeOK, Unlock, threadVars, Free
    <2>2. TagWellFormed'
        BY <2>0 DEF TagWellFormed, TypeOK
    <2>3. HolderOwnsTag'
        BY <1>2, <2>0 DEF HolderOwnsTag, TypeOK
    <2>4. PlaceInv'
        BY <1>2, <2>0 DEF PlaceInv, TypeOK
    <2>5. NoLostWaiter'
        BY <1>2, <1>3, <2>0 DEF PlaceInv, NoLostWaiter, TypeOK
    <2>. QED
        BY <1>1, <2>1, <2>2, <2>3, <2>4, <2>5
<1>4. CASE tag[l] # [owner |-> t, waiters |-> FALSE]
    <2>0. /\ pc' = [pc EXCEPT ![t] = "unlock_slow"]
          /\ lock' = [lock EXCEPT ![t] = l]
          /\ tag' = tag /\ held' = held
        BY <1>4 DEF Unlock
    <2>1. TypeOK'
        BY <2>0 DEF TypeOK, Unlock, threadVars
    <2>. QED
        BY <1>1, <1>2, <2>0, <2>1
        DEF TagWellFormed, PlaceInv, HolderOwnsTag, NoLostWaiter, TypeOK, Free
<1>. QED
    BY <1>3, <1>4

LEMMA UnlockSlowPathNoWaiterStep ==
    ASSUME LockInv, NEW t \in Threads, UnlockSlowPathNoWaiter(t)
    PROVE  LockInv'
<1>. USE DEF LockInv
<1>. DEFINE l == lock[t]
<1>1. WaitersCounted'
    BY DEF UnlockSlowPathNoWaiter, WaitersCounted, AllWaiters
<1>2. /\ state[t] # "Waiting" /\ l \in Locks /\ l \in held[t] /\ pc[t] = "unlock_slow"
      /\ tag[l].owner = t
      /\ UNCHANGED <<state, waitingLock, numKernelWaiters, seen>>
      /\ tag' = [tag EXCEPT ![l] = Free]
      /\ pc' = [pc EXCEPT ![t] = "run"]
      /\ lock' = [lock EXCEPT ![t] = 0]
      /\ held' = [held EXCEPT ![t] = held[t] \ {l}]
    BY DEF UnlockSlowPathNoWaiter, PlaceInv, HolderOwnsTag
<1>3. TypeOK'
    BY <1>2
    DEF TypeOK, UnlockSlowPathNoWaiter, Free, Reschedules, Schedulable, TrySuspends, SuspendFlags
<1>4. TagWellFormed'
    BY <1>2 DEF TagWellFormed, TypeOK
<1>5. HolderOwnsTag'
    BY <1>2 DEF HolderOwnsTag, TypeOK
<1>6. PlaceInv'
    BY <1>2 DEF PlaceInv, TypeOK
<1>7. NoLostWaiter'
    <2>1. \A w \in Threads : state[w] = "Waiting" => lock[w] # l
        BY <1>2, WaitersOfHolder DEF UnlockSlowPathNoWaiter
    <2>. QED
        BY <1>2, <2>1 DEF PlaceInv, NoLostWaiter, TypeOK
<1>. QED
    BY <1>1, <1>3, <1>4, <1>5, <1>6, <1>7

LEMMA UnlockSlowPathStep ==
    ASSUME LockInv, NEW t \in Threads, NEW next \in Threads, UnlockSlowPath(t, next)
    PROVE  LockInv'
<1>. USE DEF LockInv
<1>. DEFINE l == lock[t]
            rest == Waiters(t, l) \ {next}
<1>1. /\ state[t] # "Waiting" /\ waitingLock[t] = NotWaiting
      /\ l \in Locks /\ l \in held[t] /\ pc[t] = "unlock_slow"
      /\ tag[l].owner = t
    BY DEF UnlockSlowPath, PlaceInv, HolderOwnsTag
<1>2. /\ next \in Waiters(t, l) /\ seen' = seen
      /\ tag' = [tag EXCEPT ![l] = [owner |-> next, waiters |-> rest # {}]]
      /\ state' = [state EXCEPT ![next] = "Runnable"]
      /\ waitingLock' = [w \in Threads |->
             IF w = next THEN NotWaiting
             ELSE IF w \in rest THEN [owner |-> next, key |-> l]
             ELSE waitingLock[w]]
      /\ pc' = [pc EXCEPT ![t] = "run"]
      /\ lock' = [lock EXCEPT ![t] = 0]
      /\ held' = [held EXCEPT ![t] = held[t] \ {l}]
    BY DEF UnlockSlowPath, NextTag
<1>3. WaitersCounted' /\ numKernelWaiters' \in [Threads -> Nat]
    <2>1. waitingLock[t].owner # t
        BY <1>1, ThreadsAssumption DEF NotWaiting
    <2>2. numKernelWaiters' = MoveWaiters(t, next, l)
        BY DEF UnlockSlowPath
    <2>3. TypeOK /\ WaitersCounted /\ l \in Locks /\ next \in Waiters(t, l)
        BY <1>1, <1>2
    <2>4. waitingLock' = [w \in Threads |->
              IF w = next THEN NotWaiting
              ELSE IF w \in Waiters(t, l) \ {next} THEN [owner |-> next, key |-> l]
              ELSE waitingLock[w]]
        BY <1>2
    <2>. HIDE DEF LockInv, l
    <2>. QED
        BY <2>1, <2>2, <2>3, <2>4, MovedWaitersCounted
<1>4. \A w \in Threads : w \in Waiters(t, l) <=> state[w] = "Waiting" /\ lock[w] = l
    BY <1>1, WaitersOfHolder
<1>5. /\ next # t /\ state[next] = "Waiting" /\ pc[next] = "lock_wait" /\ lock[next] = l
    BY <1>1, <1>2, <1>4 DEF PlaceInv
<1>6. TypeOK'
    <2>1. waitingLock' \in [Threads -> [owner : Threads \cup {NoThread}, key : Locks \cup {0}]]
        BY <1>1, <1>2 DEF TypeOK, NotWaiting
    <2>2. suspended' \in [Threads -> SUBSET SuspendTypes]
        BY SMTT(60) DEF TypeOK, UnlockSlowPath, TrySuspends, ContinuesIfWaiters, SuspendFlags
    <2>3. tag' \in [Locks -> [owner : Threads \cup {NoThread}, waiters : BOOLEAN]]
        BY <1>1, <1>2, ZenonT(60) DEF TypeOK
    <2>4. running' \in [Threads -> BOOLEAN]
        BY SMTT(60) DEF TypeOK, UnlockSlowPath, Reschedules, Schedulable
    <2>5. /\ state' \in [Threads -> {"Runnable", "Waiting", "Terminated"}]
          /\ pc' \in [Threads -> {"run", "lock", "lock_slow", "lock_wait", "unlock_slow"}]
          /\ lock' \in [Threads -> Locks \cup {0}]
          /\ held' \in [Threads -> SUBSET Locks]
        BY <1>2, ZenonT(60) DEF TypeOK
    <2>6. UNCHANGED <<suspendRequest, suspendAllowed, terminationRequested, seen>>
        BY DEF UnlockSlowPath
    <2>. QED
        BY <1>3, <2>1, <2>2, <2>3, <2>4, <2>5, <2>6 DEF TypeOK
<1>7. TagWellFormed'
    BY <1>1, <1>2, ThreadsAssumption DEF TagWellFormed, TypeOK
<1>8. HolderOwnsTag'
    BY <1>1, <1>2, SMTT(60) DEF HolderOwnsTag, TypeOK
<1>9. PlaceInv'
    <2>1. ASSUME NEW w \in Threads, w = next
          PROVE  PlaceInv!(w)'
        BY <1>1, <1>2, <1>4, <2>1, ZenonT(60) DEF PlaceInv, TypeOK
    <2>2. ASSUME NEW w \in Threads, w = t
          PROVE  PlaceInv!(w)'
        <3>1. /\ pc'[w] = "run" /\ state'[w] = state[w] /\ state[w] # "Waiting"
              /\ waitingLock'[w] = NotWaiting
            BY <1>1, <1>2, <1>4, <1>5, <2>2 DEF TypeOK
        <3>. QED
            BY <3>1
    <2>3. ASSUME NEW w \in Threads, w # next, w # t
          PROVE  PlaceInv!(w)'
        <3>1. /\ pc'[w] = pc[w] /\ lock'[w] = lock[w] /\ seen'[w] = seen[w]
              /\ held'[w] = held[w] /\ state'[w] = state[w]
            BY <1>2, <2>3 DEF TypeOK
        <3>2. PlaceInv!(w)
            BY DEF PlaceInv
        <3>3. pc[w] = "lock_wait" /\ state[w] # "Waiting" => tag'[lock[w]] = tag[lock[w]]
            BY <1>1, <1>2, <2>3, <3>2 DEF TypeOK
        <3>4. /\ state[w] # "Waiting" => waitingLock'[w] = waitingLock[w]
              /\ state[w] = "Waiting" => waitingLock'[w].owner \in Threads
            BY <1>2, <1>4, <2>3, <3>2
        <3>. QED
            BY <3>1, <3>2, <3>3, <3>4, ZenonT(30)
    <2>. QED
        BY <2>1, <2>2, <2>3, SMTT(60) DEF PlaceInv
<1>10. NoLostWaiter'
    BY <1>1, <1>2, <1>4, <1>5, ZenonT(60) DEF NoLostWaiter, PlaceInv, TypeOK
<1>. QED
    BY <1>3, <1>6, <1>7, <1>8, <1>9, <1>10

LEMMA OtherSteps ==
    ASSUME LockInv, NEW t \in Threads,
           \/ OtherStep(t)
           \/ Exit(t)
           \/ state[t] # "Waiting" /\ RequestTerminate(t)
    PROVE  LockInv'
<1>. USE DEF LockInv
<1>1. CASE SwitchThread(t)
    <2>1. TypeOK'
        BY <1>1 DEF TypeOK, SwitchThread
    <2>. QED
        BY <1>1, <2>1, ThreadOnlyStep DEF SwitchThread
<1>2. ASSUME NEW type \in SuspendTypes, RequestSuspend(t, type) \/ Resume(t, type)
      PROVE  LockInv'
    <2>1. TypeOK'
        BY <1>2, SMTT(60) DEF TypeOK, RequestSuspend, Resume
    <2>. QED
        BY <1>2, <2>1, ThreadOnlyStep DEF RequestSuspend, Resume
<1>3. CASE Exit(t)
    <2>1. TypeOK'
        BY <1>3 DEF TypeOK, Exit
    <2>2. state[t] # "Waiting"
        BY <1>3, SMTT(60) DEF Exit, PlaceInv
    <2>3. /\ UNCHANGED <<tag, numKernelWaiters, waitingLock, pc, lock, seen, held>>
          /\ \A w \in Threads : state'[w] = "Waiting" <=> state[w] = "Waiting"
        BY <1>3, <2>2 DEF Exit, TypeOK
    <2>. HIDE DEF LockInv
    <2>. QED
        BY <2>1, <2>3, ThreadOnlyStep
<1>4. CASE state[t] # "Waiting" /\ RequestTerminate(t)
    <2>1. TypeOK'
        BY <1>4, SMTT(60) DEF TypeOK, RequestTerminate
    <2>. QED
        BY <1>4, <2>1, ThreadOnlyStep DEF RequestTerminate
<1>. QED
    BY <1>1, <1>2, <1>3, <1>4 DEF OtherStep

LEMMA NextLockInv == LockInv /\ [Next]_vars => LockInv'
<1>. SUFFICES ASSUME LockInv, [Next]_vars PROVE LockInv'
    OBVIOUS
<1>1. CASE UNCHANGED vars
    <2>1. TypeOK'
        BY <1>1 DEF vars, threadVars, LockInv, TypeOK
    <2>. QED
        BY <1>1, <2>1, ThreadOnlyStep DEF vars, threadVars
<1>2. ASSUME NEW t \in Threads, ThreadStep(t)
      PROVE  LockInv'
    BY <1>2, LockStep, LockSlowPathStep, LockReturnStep, UnlockStep,
       UnlockSlowPathNoWaiterStep, UnlockSlowPathStep, OtherSteps DEF ThreadStep
<1>. QED
    BY <1>1, <1>2, OtherSteps DEF Next

\* Type correctness and the invariant that carries the others: every tag is free
\* or owned, every parked thread is on its owner's list and every thread whose
\* wait ended was handed the lock.
THEOREM LightLockInvariant == Spec => []LockInv
    BY InitLockInv, NextLockInv, PTL DEF Spec

\* Mutual exclusion: a thread between Lock() and Unlock() is the one its lock's
\* tag names, for any number of threads, locks and suspensions.
THEOREM LightLockMutualExclusion == Spec => []HolderOwnsTag
<1>1. LockInv => HolderOwnsTag
    BY DEF LockInv
<1>. QED
    BY <1>1, LightLockInvariant, PTL

\* No lost wake-up: the tag of a lock that a thread is parked on names the thread
\* it waits on and has the waiters bit, so Unlock enters its slow path.
THEOREM LightLockNoLostWaiter == Spec => []NoLostWaiter
<1>1. LockInv => NoLostWaiter
    BY DEF LockInv
<1>. QED
    BY <1>1, LightLockInvariant, PTL

\* The count of kernel waiters that suspension looks at is exact.
THEOREM LightLockWaitersCounted == Spec => []WaitersCounted
<1>1. LockInv => WaitersCounted
    BY DEF LockInv
<1>. QED
    BY <1>1, LightLockInvariant, PTL

\* Only its owner's Unlock takes a lock away from a thread: neither a competing
\* compare-and-swap nor a hand-over by another thread does.
THEOREM LightLockOnlyHolderReleases == Spec => OnlyHolderReleases
<1>. DEFINE Passes == \A l \in Locks : \A t \in Threads :
                tag[l].owner = t /\ tag'[l].owner # t => l \in held[t] /\ l \notin held'[t]
<1>1. ASSUME LockInv, [Next]_vars
      PROVE  Passes
    <2>1. CASE tag' = tag
        BY <2>1
    <2>2. ASSUME NEW u \in Threads, NEW k \in Locks, Lock(u, k)
          PROVE  Passes
        BY <1>1, <2>2, ThreadsAssumption DEF Lock, LockInv, TypeOK, Free
    <2>3. ASSUME NEW u \in Threads, NEW k \in Locks, Unlock(u, k)
          PROVE  Passes
        BY <1>1, <2>3, ThreadsAssumption DEF Unlock, LockInv, TypeOK, HolderOwnsTag, Free
    <2>4. ASSUME NEW u \in Threads, pc[u] = "unlock_slow",
                 NEW v, tag' = [tag EXCEPT ![lock[u]] = v],
                 held' = [held EXCEPT ![u] = @ \ {lock[u]}]
          PROVE  Passes
        <3>1. lock[u] \in held[u] /\ tag[lock[u]].owner = u
            BY <1>1, <2>4 DEF LockInv, PlaceInv, HolderOwnsTag
        <3>2. tag \in [Locks -> [owner : Threads \cup {NoThread}, waiters : BOOLEAN]]
              /\ held \in [Threads -> SUBSET Locks]
            BY <1>1 DEF LockInv, TypeOK
        <3>. QED
            BY <2>4, <3>1, <3>2
    <2>5. ASSUME NEW u \in Threads, UnlockSlowPathNoWaiter(u)
          PROVE  Passes
        BY <2>4, <2>5, Zenon DEF UnlockSlowPathNoWaiter
    <2>6. ASSUME NEW u \in Threads, NEW next \in Threads, UnlockSlowPath(u, next)
          PROVE  Passes
        BY <2>4, <2>6, Zenon DEF UnlockSlowPath
    <2>. QED
        BY <1>1, <2>1, <2>2, <2>3, <2>5, <2>6, ZenonT(60)
        DEF Next, vars, ThreadStep, OtherStep, LockSlowPath, LockReturn, Exit, SwitchThread,
            RequestSuspend, Resume, RequestTerminate
<1>. QED
    BY <1>1, LightLockInvariant, PTL DEF Spec, OnlyHolderReleases

=============================================================================
