------------------------ MODULE KAddressArbiterProofs -------------------------
(***************************************************************************)
(* The address arbiter loses no wake-up, and the word that a signal stores *)
(* tells the guest what became of the waiters, for every number of threads *)
(* and of addresses and every width of the words.                          *)
(***************************************************************************)
EXTENDS KAddressArbiter, FiniteSetTheorems, TLAPS

-----------------------------------------------------------------------------
(* The words.                                                              *)

\* A word wraps around to a word.
LEMMA WrapType ==
    ASSUME NEW n \in Int
    PROVE  Wrap(n) \in Words
<1>1. (n + Half) % (2 * Half) \in 0 .. 2 * Half - 1
    BY ArbiterAssumption
<1>. QED
    BY <1>1, ArbiterAssumption DEF Wrap, Words

\* One more, one less and two less than a word, at the two ends of the range.
LEMMA WrapNear ==
    ASSUME NEW v \in Words
    PROVE  /\ Wrap(v + 1) = IF v = Half - 1 THEN -Half ELSE v + 1
           /\ Wrap(v - 1) = IF v = -Half THEN Half - 1 ELSE v - 1
           /\ Wrap(v - 2) = IF v = -Half THEN Half - 2 ELSE IF v = 1 - Half THEN Half - 1 ELSE v - 2
BY ArbiterAssumption DEF Wrap, Words

-----------------------------------------------------------------------------
(* No lost wake-up.  The property is inductive as it stands: a step that   *)
(* makes the condition of a waiter false changes the word, and owes.       *)

\* How a wait that is not t's, or none, comes through a step in which t stores to word a:
\* the word is the same, or t owes the waiters.
LEMMA StoreKeeps ==
    ASSUME NoLostWakeup, NEW t \in Threads, NEW a \in Addresses, NEW v \in Words,
           word' = [word EXCEPT ![a] = v], v = word[a] \/ a \in debt'[t],
           \A u \in Threads : debt[u] \subseteq debt'[u],
           NEW u \in Threads, NEW b \in Addresses,
           arbKey[u] = b, arbKey'[u] = b, wait'[u] = wait[u],
           \A w \in Threads : b \notin debt'[w]
    PROVE  IF wait'[u].type = "WaitIfEqual" THEN word'[b] = wait'[u].value
           ELSE word'[b] < wait'[u].value
<1>1. word'[b] = word[b]
    BY DEF NoLostWakeup, WaitExact, TypeOK
<1>. QED
    BY <1>1 DEF NoLostWakeup

\* The guest stores to a word, and owes its waiters a signal.
LEMMA GuestStorePreserves ==
    ASSUME NoLostWakeup, NEW t \in Threads, NEW a \in Addresses, NEW v \in Words,
           GuestStore(t, a, v)
    PROVE  NoLostWakeup'
<1>. USE DEF GuestStore, waitVars, Owes
<1>1. WaitExact'
    BY DEF NoLostWakeup, WaitExact, TypeOK, TreeExact, TimerOnlyInWait
<1>2. a \in debt'[t] /\ \A u \in Threads : debt[u] \subseteq debt'[u]
    BY DEF NoLostWakeup, WaitExact, TypeOK
<1>. QED
    BY <1>1, <1>2, StoreKeeps DEF NoLostWakeup

\* WaitIfLessThan and WaitIfEqual: the thread that begins to wait has compared the word.
LEMMA WaitForAddressPreserves ==
    ASSUME NoLostWakeup, NEW t \in Threads, NEW a \in Addresses, NEW type \in WaitTypes,
           NEW v \in Words, NEW timeout \in Timeouts, WaitForAddress(t, a, type, v, timeout)
    PROVE  NoLostWakeup'
<1>. DEFINE w == Decremented(type, v, word[a])
<1>1. w \in Words /\ word' = [word EXCEPT ![a] = w]
    BY WrapType, ArbiterAssumption
       DEF NoLostWakeup, WaitExact, TypeOK, WaitForAddress, Decremented, Words
<1>2. /\ word' \in [Addresses -> Words] /\ word'[a] = w
      /\ debt' = IF w = word[a] THEN debt ELSE Owes(t, a)
      /\ terminationRequested' = terminationRequested
      /\ state[t] = "Runnable" /\ Holds(type, v, word[a])
    BY <1>1 DEF NoLostWakeup, WaitExact, TypeOK, WaitForAddress, Runs
<1>3. /\ debt' \in [Threads -> SUBSET Addresses] /\ (w = word[a] \/ a \in debt'[t])
      /\ \A u \in Threads : debt[u] \subseteq debt'[u]
    BY <1>2 DEF NoLostWakeup, WaitExact, TypeOK, Owes
<1>. HIDE DEF w
<1>4. CASE timeout = "zero"
    <2>1. UNCHANGED <<arbKey, wait, state, timer, pc>>
        BY <1>4 DEF WaitForAddress, waitVars
    <2>2. WaitExact'
        BY <1>2, <1>3, <2>1 DEF NoLostWakeup, WaitExact, TypeOK, TreeExact, TimerOnlyInWait
    <2>. QED
        BY <1>1, <1>3, <2>1, <2>2, StoreKeeps DEF NoLostWakeup
<1>5. CASE timeout # "zero"
    <2>1. /\ arbKey' = [arbKey EXCEPT ![t] = a]
          /\ wait' = [wait EXCEPT ![t] = [type |-> type, value |-> v]]
          /\ state' = [state EXCEPT ![t] = "Waiting"]
          /\ timer' = [timer EXCEPT ![t] = timeout = "finite"]
          /\ pc' = [pc EXCEPT ![t] = "wait"]
        BY <1>5 DEF WaitForAddress
    <2>2. timer' \in [Threads -> BOOLEAN]
        BY <2>1 DEF NoLostWakeup, WaitExact, TypeOK
    <2>3. TypeOK'
        BY <1>2, <1>3, <2>1, <2>2 DEF NoLostWakeup, WaitExact, TypeOK
    <2>4. TreeExact' /\ TimerOnlyInWait'
        BY <2>1, ArbiterAssumption DEF NoLostWakeup, WaitExact, TypeOK, TreeExact, TimerOnlyInWait
    <2>5. ASSUME NEW u \in Threads, NEW b \in Addresses, arbKey'[u] = b,
                 \A x \in Threads : b \notin debt'[x]
          PROVE  IF wait'[u].type = "WaitIfEqual" THEN word'[b] = wait'[u].value
                 ELSE word'[b] < wait'[u].value
        <3>1. CASE u = t
            <4>1. b = a /\ wait'[t] = [type |-> type, value |-> v] /\ word'[b] = word[a]
                BY <1>2, <1>3, <2>1, <2>5, <3>1 DEF NoLostWakeup, WaitExact, TypeOK
            <4>. QED
                BY <1>2, <3>1, <4>1 DEF Holds
        <3>2. CASE u # t
            <4>1. arbKey[u] = b /\ wait'[u] = wait[u]
                BY <2>1, <2>5, <3>2 DEF NoLostWakeup, WaitExact, TypeOK
            <4>. QED
                BY <1>1, <1>3, <2>5, <4>1, StoreKeeps, Zenon
        <3>. QED
            BY <3>1, <3>2
    <2>. QED
        BY <2>3, <2>4, <2>5 DEF NoLostWakeup, WaitExact
<1>. QED
    BY <1>4, <1>5

\* The loop of a signal over the waiters: whoever leaves the tree does so with its wait and
\* its timer, and the debt is settled only when nobody is left.
LEMMA WakePreserves ==
    ASSUME NoLostWakeup, NEW t \in Threads, NEW a \in Addresses, NEW v \in Words,
           NEW S \in SUBSET Waiters(a), NEW changed \in BOOLEAN, Wake(t, a, S, changed),
           word' = [word EXCEPT ![a] = v], v # word[a] => changed
    PROVE  NoLostWakeup'
<1>1. S \subseteq Threads /\ \A u \in S : arbKey[u] = a /\ state[u] = "Waiting"
    BY ArbiterAssumption DEF NoLostWakeup, WaitExact, TreeExact, Waiters
<1>2. /\ arbKey' = [u \in Threads |-> IF u \in S THEN NoAddress ELSE arbKey[u]]
      /\ state' = [u \in Threads |-> IF u \in S THEN "Runnable" ELSE state[u]]
      /\ wait' = [u \in Threads |-> IF u \in S THEN NoWait ELSE wait[u]]
      /\ timer' = [u \in Threads |-> IF u \in S THEN FALSE ELSE timer[u]]
      /\ UNCHANGED <<pc, terminationRequested>>
    BY DEF Wake, LeavesTree, CancelTask
<1>3. \E D \in SUBSET Addresses :
          /\ debt' = [debt EXCEPT ![t] = D] /\ debt[t] \ {a} \subseteq D
          /\ S # Waiters(a) => debt[t] \subseteq D /\ (changed => a \in D)
    <2>1. CASE S = Waiters(a)
        <3>1. debt' = [debt EXCEPT ![t] = debt[t] \ {a}] /\ debt[t] \ {a} \in SUBSET Addresses
            BY <2>1 DEF Wake, NoLostWakeup, WaitExact, TypeOK
        <3>. QED
            BY <2>1, <3>1, Zenon
    <2>2. CASE S # Waiters(a) /\ changed
        <3>1. debt' = [debt EXCEPT ![t] = debt[t] \cup {a}] /\ debt[t] \cup {a} \in SUBSET Addresses
            BY <2>2 DEF Wake, NoLostWakeup, WaitExact, TypeOK
        <3>. QED
            BY <2>2, <3>1, Zenon
    <2>3. CASE S # Waiters(a) /\ ~changed
        BY <2>3, Zenon DEF Wake, NoLostWakeup, WaitExact, TypeOK
    <2>. QED
        BY <2>1, <2>2, <2>3
<1>4. PICK D \in SUBSET Addresses :
          /\ debt' = [debt EXCEPT ![t] = D] /\ debt[t] \ {a} \subseteq D
          /\ S # Waiters(a) => debt[t] \subseteq D /\ (changed => a \in D)
    BY <1>3, Zenon
<1>5. /\ word' \in [Addresses -> Words] /\ debt' \in [Threads -> SUBSET Addresses]
      /\ arbKey' \in [Threads -> Addresses \cup {NoAddress}]
      /\ wait' \in [Threads -> [type : WaitTypes, value : Words] \cup {NoWait}]
      /\ state' \in [Threads -> {"Runnable", "Waiting", "Terminated"}]
    BY <1>2, <1>4 DEF NoLostWakeup, WaitExact, TypeOK
<1>6. timer' \in [Threads -> BOOLEAN]
    BY <1>2, Zenon DEF NoLostWakeup, WaitExact, TypeOK
<1>7. TypeOK'
    BY <1>2, <1>5, <1>6, Zenon DEF NoLostWakeup, WaitExact, TypeOK
<1>8. TreeExact' /\ TimerOnlyInWait'
    BY <1>1, <1>2 DEF NoLostWakeup, WaitExact, TreeExact, TimerOnlyInWait
<1>9. ASSUME NEW u \in Threads, NEW b \in Addresses, arbKey'[u] = b,
             \A x \in Threads : b \notin debt'[x]
      PROVE  IF wait'[u].type = "WaitIfEqual" THEN word'[b] = wait'[u].value
             ELSE word'[b] < wait'[u].value
    <2>1. u \notin S /\ arbKey[u] = b /\ wait'[u] = wait[u]
        BY <1>2, <1>9, ArbiterAssumption
    <2>2. b # a \/ S # Waiters(a)
        BY <2>1 DEF Waiters
    <2>3. word'[b] = word[b]
        BY <1>4, <1>9, <2>2 DEF NoLostWakeup, WaitExact, TypeOK
    <2>4. \A x \in Threads : b \notin debt[x]
        BY <1>4, <1>9, <2>2 DEF NoLostWakeup, WaitExact, TypeOK
    <2>. QED
        BY <2>1, <2>3, <2>4 DEF NoLostWakeup
<1>. QED
    BY <1>7, <1>8, <1>9 DEF NoLostWakeup, WaitExact

\* CancelWait, by the timer or by a termination
LEMMA CancelWaitPreserves ==
    ASSUME NoLostWakeup, NEW t \in Threads, CancelWait(t),
           timer' = [timer EXCEPT ![t] = FALSE],
           terminationRequested' \in [Threads -> BOOLEAN], UNCHANGED <<word, pc, debt>>
    PROVE  NoLostWakeup'
<1>. USE DEF CancelWait
<1>1. timer' \in [Threads -> BOOLEAN]
    BY Zenon DEF NoLostWakeup, WaitExact, TypeOK
<1>2. TypeOK'
    BY <1>1 DEF NoLostWakeup, WaitExact, TypeOK
<1>3. TreeExact' /\ TimerOnlyInWait'
    BY DEF NoLostWakeup, WaitExact, TypeOK, TreeExact, TimerOnlyInWait
<1>4. \A u \in Threads : \A b \in Addresses :
          arbKey'[u] = b => arbKey[u] = b /\ wait'[u] = wait[u]
    BY ArbiterAssumption DEF NoLostWakeup, WaitExact, TypeOK
<1>. QED
    BY <1>2, <1>3, <1>4 DEF NoLostWakeup, WaitExact

\* A step that touches neither a wait nor a word
LEMMA OtherPreserves ==
    ASSUME NoLostWakeup, UNCHANGED <<word, arbKey, wait, timer, debt>>,
           pc' \in [Threads -> {"run", "wait", "exiting"}],
           terminationRequested' \in [Threads -> BOOLEAN],
           state' \in [Threads -> {"Runnable", "Waiting", "Terminated"}],
           \A t \in Threads : state'[t] = "Waiting" <=> state[t] = "Waiting"
    PROVE  NoLostWakeup'
BY Zenon DEF NoLostWakeup, WaitExact, TypeOK, TreeExact, TimerOnlyInWait

\* The three kinds of signal, which differ in what they write to the word.
LEMMA SignalPreserves ==
    ASSUME NoLostWakeup, NEW t \in Threads, NEW a \in Addresses, SignalStep(t, a)
    PROVE  NoLostWakeup'
<1>1. word \in [Addresses -> Words]
    BY DEF NoLostWakeup, WaitExact, TypeOK
<1>2. PICK count \in Counts :
          \/ Signal(t, a, count)
          \/ \E v \in Words : \/ SignalAndIncrementIfEqual(t, a, v, count)
                              \/ SignalAndModifyByWaitingCountIfEqual(t, a, v, count)
    BY Zenon DEF SignalStep
<1>3. CASE Signal(t, a, count)
    <2>1. PICK S \in Woken(a, count) : Wake(t, a, S, FALSE)
        BY <1>3, Zenon DEF Signal
    <2>2. S \in SUBSET Waiters(a) /\ word' = [word EXCEPT ![a] = word[a]] /\ word[a] \in Words
        BY <1>1, <1>3, <2>1 DEF Signal, Woken
    <2>. QED
        BY <2>1, <2>2, WakePreserves, Zenon
<1>4. ASSUME NEW v \in Words, SignalAndIncrementIfEqual(t, a, v, count)
      PROVE  NoLostWakeup'
    <2>1. PICK S \in Woken(a, count) : Wake(t, a, S, TRUE)
        BY <1>4, Zenon DEF SignalAndIncrementIfEqual
    <2>2. S \in SUBSET Waiters(a) /\ word' = [word EXCEPT ![a] = Wrap(v + 1)]
        BY <1>4, <2>1, Zenon DEF SignalAndIncrementIfEqual, Woken
    <2>3. Wrap(v + 1) \in Words
        BY WrapType, ArbiterAssumption DEF Words
    <2>. QED
        BY <2>1, <2>2, <2>3, WakePreserves, Zenon
<1>5. ASSUME NEW v \in Words, SignalAndModifyByWaitingCountIfEqual(t, a, v, count)
      PROVE  NoLostWakeup'
    <2>1. PICK S \in Woken(a, count) : Wake(t, a, S, word'[a] # v)
        BY <1>5, Zenon DEF SignalAndModifyByWaitingCountIfEqual
    <2>2. S \in SUBSET Waiters(a) /\ word[a] = v /\ word' = [word EXCEPT ![a] = Modified(a, v, count)]
        BY <1>5, <2>1, Zenon DEF SignalAndModifyByWaitingCountIfEqual, Woken
    <2>3. Modified(a, v, count) \in Words
        <3>1. Wrap(v + 1) \in Words /\ Wrap(v - 1) \in Words /\ Wrap(v - 2) \in Words
            BY WrapType, ArbiterAssumption DEF Words
        <3>. QED
            BY <3>1, Zenon DEF Modified
    <2>4. word'[a] = Modified(a, v, count)
        BY <1>1, <2>2
    <2>. QED
        BY <2>1, <2>2, <2>3, <2>4, WakePreserves, Zenon
<1>. QED
    BY <1>2, <1>3, <1>4, <1>5

\* Nobody waits at first.
LEMMA InitNoLostWakeup == Init => NoLostWakeup
BY ArbiterAssumption
   DEF Init, NoLostWakeup, WaitExact, TypeOK, TreeExact, TimerOnlyInWait, Words, NoWait

\* Every step of a thread, of a timer and of the guest.
LEMMA NextNoLostWakeup == NoLostWakeup /\ [Next]_vars => NoLostWakeup'
<1>. SUFFICES ASSUME NoLostWakeup, [Next]_vars
              PROVE  NoLostWakeup'
    OBVIOUS
<1>1. ASSUME NEW t \in Threads, NEW a \in Addresses, NEW v \in Words,
             GuestStore(t, a, v) \/ SignalRefused(t, a, v)
      PROVE  NoLostWakeup'
    <2>1. CASE SignalRefused(t, a, v)
        BY <2>1, OtherPreserves
           DEF SignalRefused, vars, waitVars, NoLostWakeup, WaitExact, TypeOK
    <2>. QED
        BY <1>1, <2>1, GuestStorePreserves
<1>2. ASSUME NEW t \in Threads, NEW a \in Addresses, NEW type \in WaitTypes, NEW v \in Words,
             WaitRefused(t, a, type, v)
      PROVE  NoLostWakeup'
    <2>1. UNCHANGED <<word, arbKey, wait, state, timer, debt, terminationRequested>>
        BY <1>2, Zenon DEF WaitRefused, waitVars
    <2>2. pc' \in [Threads -> {"run", "wait", "exiting"}]
        BY <1>2 DEF WaitRefused, NoLostWakeup, WaitExact, TypeOK
    <2>. QED
        BY <2>1, <2>2, OtherPreserves, Zenon DEF NoLostWakeup, WaitExact, TypeOK
<1>3. ASSUME NEW t \in Threads, WaitReturn(t)
      PROVE  NoLostWakeup'
    <2>1. UNCHANGED <<word, arbKey, wait, state, timer, debt, terminationRequested>>
        BY <1>3, Zenon DEF WaitReturn, waitVars
    <2>2. pc' \in [Threads -> {"run", "wait", "exiting"}]
        BY <1>3 DEF WaitReturn, NoLostWakeup, WaitExact, TypeOK
    <2>. QED
        BY <2>1, <2>2, OtherPreserves, Zenon DEF NoLostWakeup, WaitExact, TypeOK
<1>4. ASSUME NEW t \in Threads, OnTimer(t)
      PROVE  NoLostWakeup'
    <2>1. state[t] = "Waiting"
        BY <1>4, Zenon DEF OnTimer, NoLostWakeup, WaitExact, TimerOnlyInWait
    <2>. QED
        BY <1>4, <2>1, CancelWaitPreserves, Zenon DEF OnTimer, NoLostWakeup, WaitExact, TypeOK
<1>5. ASSUME NEW t \in Threads, RequestTerminate(t)
      PROVE  NoLostWakeup'
    <2>1. /\ terminationRequested' \in [Threads -> BOOLEAN]
          /\ UNCHANGED <<word, pc, debt>>
        BY <1>5, Zenon DEF RequestTerminate, NoLostWakeup, WaitExact, TypeOK
    <2>2. CASE state[t] = "Waiting"
        <3>1. CancelWait(t) /\ timer' = [timer EXCEPT ![t] = FALSE]
            BY <1>5, <2>2, Zenon DEF RequestTerminate, CancelTask, NoLostWakeup, WaitExact, TypeOK
        <3>. QED
            BY <2>1, <3>1, CancelWaitPreserves, Zenon
    <2>3. CASE state[t] # "Waiting"
        BY <1>5, <2>1, <2>3, OtherPreserves, Zenon
           DEF RequestTerminate, waitVars, NoLostWakeup, WaitExact, TypeOK
    <2>. QED
        BY <2>2, <2>3, Zenon
<1>6. ASSUME NEW t \in Threads, Exit(t)
      PROVE  NoLostWakeup'
    <2>1. /\ UNCHANGED <<word, arbKey, wait, timer, debt, pc, terminationRequested>>
          /\ state[t] = "Runnable" /\ state' = [state EXCEPT ![t] = "Terminated"]
        BY <1>6, Zenon DEF Exit
    <2>2. /\ state' \in [Threads -> {"Runnable", "Waiting", "Terminated"}]
          /\ \A u \in Threads : state'[u] = "Waiting" <=> state[u] = "Waiting"
        BY <2>1 DEF NoLostWakeup, WaitExact, TypeOK
    <2>. QED
        BY <2>1, <2>2, OtherPreserves, Zenon DEF NoLostWakeup, WaitExact, TypeOK
<1>7. CASE UNCHANGED vars
    BY <1>7, OtherPreserves, Zenon DEF vars, waitVars, NoLostWakeup, WaitExact, TypeOK
<1>. QED
    BY <1>1, <1>2, <1>3, <1>4, <1>5, <1>6, <1>7, SignalPreserves, WaitForAddressPreserves
       DEF Next

\* A waiter of WaitForAddress whose condition no longer holds waits only while a thread that
\* changed the word is still to signal it; and however a wait ends, nothing of it is left in
\* the arbiter's tree or in the timer.
THEOREM ArbiterNoLostWakeup == Spec => []NoLostWakeup
<1>. QED
    BY InitNoLostWakeup, NextNoLostWakeup, PTL DEF Spec

-----------------------------------------------------------------------------
(* What the word tells.                                                    *)

\* How many waiters a signal leaves, compared with how many it counted
LEMMA LeftWaiting ==
    ASSUME NEW a \in Addresses, NEW count \in Counts, NEW S \in Woken(a, count)
    PROVE  LET n == Cardinality(Waiters(a))
           IN  /\ n \in Nat /\ (n = 0 <=> Waiters(a) = {})
               /\ S = Waiters(a) <=> n = 0 \/ count <= 0 \/ n <= count
<1>. DEFINE n == Cardinality(Waiters(a))
<1>1. Waiters(a) \subseteq Threads /\ IsFiniteSet(Threads) /\ count \in Int
    BY ArbiterAssumption DEF Waiters
<1>2. IsFiniteSet(Waiters(a))
    BY <1>1, FS_Subset
<1>3. n \in Nat /\ (n = 0 <=> Waiters(a) = {})
    BY <1>2, FS_CardinalityType, FS_EmptySet
<1>4. S \in SUBSET Waiters(a)
    BY Zenon DEF Woken
<1>5. Cardinality(S) \in Nat /\ Cardinality(S) <= n /\ (Cardinality(S) = n => S = Waiters(a))
    BY <1>2, <1>4, FS_Subset, FS_CardinalityType
<1>6. /\ count > 0 => Cardinality(S) <= count
      /\ S = Waiters(a) \/ (count > 0 /\ Cardinality(S) = count)
    BY Zenon DEF Woken
<1>. QED
    BY <1>1, <1>3, <1>4, <1>5, <1>6

\* The value that SignalAndModifyByWaitingCountIfEqual stores: one more than the value it
\* compared if and only if nobody waited, that value if and only if somebody still waits.
THEOREM ArbiterWordTellsWaiters == Spec => WordTellsWaiters
<1>1. ASSUME NoLostWakeup, NEW t \in Threads, NEW a \in Addresses, NEW v \in Words,
             NEW count \in Counts, SignalAndModifyByWaitingCountIfEqual(t, a, v, count)
      PROVE  /\ Waiters(a) = {} <=> word'[a] = Wrap(v + 1)
             /\ Waiters(a)' # {} <=> word'[a] = v
    <2>. DEFINE n == Cardinality(Waiters(a))
    <2>1. PICK S \in Woken(a, count) : Wake(t, a, S, word'[a] # v)
        BY <1>1, Zenon DEF SignalAndModifyByWaitingCountIfEqual
    <2>2. /\ n \in Nat /\ (n = 0 <=> Waiters(a) = {})
          /\ S = Waiters(a) <=> n = 0 \/ count <= 0 \/ n <= count
        BY <2>1, LeftWaiting
    <2>3. Waiters(a)' # {} <=> S # Waiters(a)
        BY <2>1, ArbiterAssumption DEF Woken, Wake, LeavesTree, Waiters
    <2>4. word'[a] = Modified(a, v, count)
        BY <1>1 DEF SignalAndModifyByWaitingCountIfEqual, NoLostWakeup, WaitExact, TypeOK
    <2>5. /\ Wrap(v + 1) # v /\ Wrap(v - 1) # v /\ Wrap(v - 2) # v
          /\ Wrap(v - 1) # Wrap(v + 1) /\ Wrap(v - 2) # Wrap(v + 1)
        BY WrapNear, ArbiterAssumption DEF Words
    <2>6. count \in Int
        BY ArbiterAssumption
    <2>. HIDE DEF n
    <2>7. word'[a] = IF n = 0 THEN Wrap(v + 1) ELSE IF count <= 0 THEN Wrap(v - 2)
                     ELSE IF n <= count THEN Wrap(v - 1) ELSE v
        BY <2>2, <2>4, <2>6 DEF n, Modified, OtherWaiters
    <2>8. word'[a] = v <=> S # Waiters(a)
        BY <2>2, <2>5, <2>6, <2>7
    <2>9. word'[a] = Wrap(v + 1) <=> n = 0
        BY <2>5, <2>7
    <2>. QED
        BY <2>2, <2>3, <2>8, <2>9
<1>2. NoLostWakeup /\ [Next]_vars =>
          [\A t \in Threads : \A a \in Addresses : \A v \in Words : \A count \in Counts :
              SignalAndModifyByWaitingCountIfEqual(t, a, v, count) =>
                  /\ Waiters(a) = {} <=> word'[a] = Wrap(v + 1)
                  /\ Waiters(a)' # {} <=> word'[a] = v]_vars
    BY <1>1
<1>. QED
    BY <1>2, ArbiterNoLostWakeup, PTL DEF Spec, WordTellsWaiters

===============================================================================
