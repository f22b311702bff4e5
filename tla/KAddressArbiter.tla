--------------------------- MODULE KAddressArbiter ---------------------------
(***************************************************************************)
(* The address arbiter: the system calls WaitForAddress and                *)
(* SignalToAddress with all their types, the guest's stores to the words   *)
(* they are about, the timer and termination.                              *)
(*                                                                         *)
(* The kernel reads and updates a word once in a call, by compare-and-swap *)
(* against the guest's stores, and keeps the scheduler lock over the whole *)
(* call, so that a call is one step.  Words are signed numbers that wrap   *)
(* around.  Any waiter of an address may be the next one to be woken       *)
(* (KThreadLocks models the order of the tree).  What a call returns is    *)
(* left out.                                                               *)
(***************************************************************************)
EXTENDS Integers, FiniteSets

CONSTANTS
    Threads,
    Addresses,
    Half,           \* the words less than zero, as many as the others; 2^31 in the code
    Timeouts,       \* of "zero", "finite" and "infinite"
    Counts,         \* the numbers of threads to wake; 0 and less is all
    Terminable,     \* the threads that may be terminated
    NoAddress

ASSUME ArbiterAssumption ==
    /\ IsFiniteSet(Threads) /\ Terminable \subseteq Threads
    /\ NoAddress \notin Addresses
    /\ Half \in Nat \ {0, 1} /\ Counts \subseteq Int

Words == -Half .. Half - 1

VARIABLES
    word,                 \* the guest's words
    arbKey,               \* m_condvar_key of a thread in the arbiter's tree
    wait,                 \* the type and the value of the thread's WaitForAddress
    state,                \* m_thread_state
    pc,                   \* the call the thread is in
    timer,                \* the thread has a task in the hardware timer
    terminationRequested, \* m_termination_requested
    debt                  \* the words a thread changed without waking all waiters

waitVars == <<arbKey, wait, state, timer>>
vars == <<word, waitVars, pc, terminationRequested, debt>>

NoWait == [type |-> "None", value |-> 0]

Init ==
    /\ word = [a \in Addresses |-> 0]
    /\ arbKey = [t \in Threads |-> NoAddress]
    /\ wait = [t \in Threads |-> NoWait]
    /\ state = [t \in Threads |-> "Runnable"]
    /\ pc = [t \in Threads |-> "run"]
    /\ timer = [t \in Threads |-> FALSE]
    /\ terminationRequested = [t \in Threads |-> FALSE]
    /\ debt = [t \in Threads |-> {}]

-----------------------------------------------------------------------------
\* Two's complement arithmetic
Wrap(n) == ((n + Half) % (2 * Half)) - Half

Waiters(a) == {t \in Threads : arbKey[t] = a}

Runs(t) == state[t] = "Runnable" /\ pc[t] = "run"

\* A thread that changed a word owes its waiters a signal to all.
Owes(t, a) == [debt EXCEPT ![t] = @ \cup {a}]

\* The guest stores to a word.
GuestStore(t, a, v) ==
    /\ Runs(t) /\ word[a] # v
    /\ word' = [word EXCEPT ![a] = v]
    /\ debt' = Owes(t, a)
    /\ UNCHANGED <<waitVars, pc, terminationRequested>>

-----------------------------------------------------------------------------
(* WaitForAddress.                                                         *)

\* Mutant: the word is not compared.
HoldsAlways(type, v, w) == TRUE

\* The condition to wait, for a word w
Holds(type, v, w) == IF type = "WaitIfEqual" THEN w = v ELSE w < v

\* The word after DecrementIfLessThan, or after it was only read
Decremented(type, v, w) ==
    IF type = "DecrementAndWaitIfLessThan" /\ w < v THEN Wrap(w - 1) ELSE w

\* KAddressArbiter::WaitIfLessThan and WaitIfEqual.  A timeout of zero decrements
\* and does not wait.
WaitForAddress(t, a, type, v, timeout) ==
    /\ Runs(t) /\ ~terminationRequested[t] /\ Holds(type, v, word[a])
    /\ word' = [word EXCEPT ![a] = Decremented(type, v, @)]
    /\ debt' = IF word'[a] = word[a] THEN debt ELSE Owes(t, a)
    /\ IF timeout = "zero"
       THEN UNCHANGED <<waitVars, pc>>
       ELSE /\ arbKey' = [arbKey EXCEPT ![t] = a]
            /\ wait' = [wait EXCEPT ![t] = [type |-> type, value |-> v]]
            /\ state' = [state EXCEPT ![t] = "Waiting"]
            /\ timer' = [timer EXCEPT ![t] = timeout = "finite"]
            /\ pc' = [pc EXCEPT ![t] = "wait"]
    /\ UNCHANGED terminationRequested

\* The condition to wait does not hold (InvalidState), or the thread is to be
\* terminated (TerminationRequested).
WaitRefused(t, a, type, v) ==
    /\ Runs(t)
    /\ terminationRequested[t] \/ ~Holds(type, v, word[a])
    /\ pc' = [pc EXCEPT ![t] = IF terminationRequested[t] THEN "exiting" ELSE @]
    /\ UNCHANGED <<word, waitVars, terminationRequested, debt>>

\* The wait is over, and the call returns.
WaitReturn(t) ==
    /\ state[t] = "Runnable" /\ pc[t] = "wait"
    /\ pc' = [pc EXCEPT ![t] = IF terminationRequested[t] THEN "exiting" ELSE "run"]
    /\ UNCHANGED <<word, waitVars, terminationRequested, debt>>

-----------------------------------------------------------------------------
(* SignalToAddress.                                                        *)

\* The sets of waiters that the loops of the three Signal functions may wake
Woken(a, count) ==
    {S \in SUBSET Waiters(a) :
        /\ count > 0 => Cardinality(S) <= count
        /\ S = Waiters(a) \/ (count > 0 /\ Cardinality(S) = count)}

\* ClearAddressArbiter and the removal from the tree
LeavesTree(S) == [t \in Threads |-> IF t \in S THEN NoAddress ELSE arbKey[t]]

CancelTask(S) == [t \in Threads |-> IF t \in S THEN FALSE ELSE timer[t]]

\* EndWait of the threads of S by t, whose debt is settled if it woke all
Wake(t, a, S, changed) ==
    /\ arbKey' = LeavesTree(S)
    /\ state' = [u \in Threads |-> IF u \in S THEN "Runnable" ELSE state[u]]
    /\ wait' = [u \in Threads |-> IF u \in S THEN NoWait ELSE wait[u]]
    /\ timer' = CancelTask(S)
    /\ debt' = [debt EXCEPT ![t] =
           IF S = Waiters(a) THEN @ \ {a} ELSE IF changed THEN @ \cup {a} ELSE @]
    /\ UNCHANGED <<pc, terminationRequested>>

Signal(t, a, count) ==
    /\ Runs(t)
    /\ \E S \in Woken(a, count) : Wake(t, a, S, FALSE)
    /\ UNCHANGED word

\* The word was not the value: nothing happens.
SignalRefused(t, a, v) ==
    /\ Runs(t) /\ word[a] # v
    /\ UNCHANGED vars

SignalAndIncrementIfEqual(t, a, v, count) ==
    /\ Runs(t) /\ word[a] = v
    /\ word' = [word EXCEPT ![a] = Wrap(v + 1)]
    /\ \E S \in Woken(a, count) : Wake(t, a, S, TRUE)

\* Mutant: the first waiter is counted with the others.
OtherWaitersAll(n, count) == IF n <= count THEN n ELSE count + 1

\* What the loop over the waiters after the first of n counts: it gives up when
\* it has counted more than count.
OtherWaiters(n, count) == IF n - 1 <= count THEN n - 1 ELSE count + 1

\* The value that SignalAndModifyByWaitingCountIfEqual stores
Modified(a, v, count) ==
    LET n == Cardinality(Waiters(a))
    IN  IF n = 0 THEN Wrap(v + 1)
        ELSE IF count <= 0 THEN Wrap(v - 2)
        ELSE IF OtherWaiters(n, count) < count THEN Wrap(v - 1)
        ELSE v

SignalAndModifyByWaitingCountIfEqual(t, a, v, count) ==
    /\ Runs(t) /\ word[a] = v
    /\ word' = [word EXCEPT ![a] = Modified(a, v, count)]
    /\ \E S \in Woken(a, count) : Wake(t, a, S, word'[a] # v)

-----------------------------------------------------------------------------
(* Timeouts, termination.                                                  *)

\* ThreadQueueImplForKAddressArbiter::CancelWait
CancelWait(t) ==
    /\ arbKey' = [arbKey EXCEPT ![t] = NoAddress]
    /\ state' = [state EXCEPT ![t] = "Runnable"]
    /\ wait' = [wait EXCEPT ![t] = NoWait]

\* KHardwareTimer::DoTask with KThread::OnTimer
OnTimer(t) ==
    /\ timer[t]
    /\ timer' = [timer EXCEPT ![t] = FALSE]
    /\ IF state[t] = "Waiting" THEN CancelWait(t)
       ELSE UNCHANGED <<arbKey, wait, state>>
    /\ UNCHANGED <<word, pc, terminationRequested, debt>>

\* KThread::RequestTerminate
RequestTerminate(t) ==
    /\ t \in Terminable /\ ~terminationRequested[t]
    /\ terminationRequested' = [terminationRequested EXCEPT ![t] = TRUE]
    /\ IF state[t] = "Waiting"
       THEN CancelWait(t) /\ timer' = CancelTask({t})
       ELSE UNCHANGED waitVars
    /\ UNCHANGED <<word, pc, debt>>

\* KThread::Exit
Exit(t) ==
    /\ terminationRequested[t] /\ state[t] = "Runnable" /\ pc[t] \in {"run", "exiting"}
    /\ state' = [state EXCEPT ![t] = "Terminated"]
    /\ UNCHANGED <<word, arbKey, wait, pc, timer, terminationRequested, debt>>

WaitTypes == {"WaitIfEqual", "WaitIfLessThan", "DecrementAndWaitIfLessThan"}

SignalStep(t, a) ==
    \E count \in Counts :
        \/ Signal(t, a, count)
        \/ \E v \in Words : \/ SignalAndIncrementIfEqual(t, a, v, count)
                            \/ SignalAndModifyByWaitingCountIfEqual(t, a, v, count)

Next ==
    \/ \E t \in Threads, a \in Addresses :
          \/ \E v \in Words : GuestStore(t, a, v) \/ SignalRefused(t, a, v)
          \/ SignalStep(t, a)
          \/ \E type \in WaitTypes, v \in Words :
                \/ WaitRefused(t, a, type, v)
                \/ \E timeout \in Timeouts : WaitForAddress(t, a, type, v, timeout)
    \/ \E t \in Threads : WaitReturn(t) \/ OnTimer(t) \/ RequestTerminate(t) \/ Exit(t)

Spec == Init /\ [][Next]_vars

-----------------------------------------------------------------------------
(* Properties.                                                             *)

TypeOK ==
    /\ word \in [Addresses -> Words]
    /\ arbKey \in [Threads -> Addresses \cup {NoAddress}]
    /\ wait \in [Threads -> [type : WaitTypes, value : Words] \cup {NoWait}]
    /\ state \in [Threads -> {"Runnable", "Waiting", "Terminated"}]
    /\ pc \in [Threads -> {"run", "wait", "exiting"}]
    /\ timer \in [Threads -> BOOLEAN]
    /\ terminationRequested \in [Threads -> BOOLEAN]
    /\ debt \in [Threads -> SUBSET Addresses]

\* The tree holds exactly the threads that wait: however a wait ends, by a signal, a
\* timeout or a termination, the thread leaves the tree in the same step.
TreeExact == \A t \in Threads : arbKey[t] # NoAddress <=> state[t] = "Waiting"

\* Only a thread that waits has a task in the timer, so that a timeout never ends
\* a wait other than its own.
TimerOnlyInWait == \A t \in Threads : timer[t] => state[t] = "Waiting"

\* However a wait ends, nothing of it is left in the tree or in the timer.
WaitExact == TypeOK /\ TreeExact /\ TimerOnlyInWait

\* No lost wake-up: a thread whose condition to wait no longer holds is still
\* waiting only if some thread changed the word and has not yet woken all waiters
\* of the address.  It rests on the comparison and the insertion into the tree
\* being under one scheduler lock with the wake-ups, and on the exactness of waits.
NoLostWakeup ==
    /\ WaitExact
    /\ \A t \in Threads : \A a \in Addresses :
           arbKey[t] = a /\ (\A u \in Threads : a \notin debt[u])
               => IF wait[t].type = "WaitIfEqual" THEN word[a] = wait[t].value
                  ELSE word[a] < wait[t].value

\* The word that SignalAndModifyByWaitingCountIfEqual stores tells the guest what
\* became of the waiters: one more if there were none, the same if some are still
\* waiting, less if the last ones were woken.
WordTellsWaiters ==
    [][\A t \in Threads : \A a \in Addresses : \A v \in Words : \A count \in Counts :
          SignalAndModifyByWaitingCountIfEqual(t, a, v, count) =>
              /\ Waiters(a) = {} <=> word'[a] = Wrap(v + 1)
              /\ Waiters(a)' # {} <=> word'[a] = v]_vars

=============================================================================
