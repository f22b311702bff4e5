----------------------- MODULE KSynchronizationObject -----------------------
(***************************************************************************)
(* Waiting for one of several kernel objects: WaitSynchronization, the     *)
(* events, sessions and threads that are waited for, CancelSynchronization,*)
(* the timer, and the termination of threads, which waits for a thread.    *)
(*                                                                         *)
(* An object's waiters are a linked list whose nodes are on the stacks of  *)
(* the waiting threads, one node for each place the object has in a wait.  *)
(* NotifyAvailable walks along the list while each thread it wakes takes   *)
(* its nodes out of it; that walk is modelled node by node.  Everything    *)
(* else that happens under one scheduler lock is one step.                 *)
(***************************************************************************)
EXTENDS Integers, Sequences, SequencesExt

CONSTANTS
    Threads,
    Events,         \* KReadableEvent
    Sessions,       \* KServerSession, as far as its client's end is closed
    Timeouts,       \* of "zero", "finite" and "infinite"
    MaxObjects,     \* ArgumentHandleCountMax
    Terminable,     \* the threads that may be terminated
    Cancellable,    \* the threads that CancelSynchronization is called for
    Null

ASSUME SyncAssumption ==
    /\ Null \notin Threads \cup Events \cup Sessions
    /\ MaxObjects \in Nat /\ Terminable \subseteq Threads /\ Cancellable \subseteq Threads

Objects == Events \cup Sessions \cup Terminable
Nodes == Threads \X (1 .. MaxObjects)

VARIABLES
    signaled,             \* m_is_signaled, m_signaled, and a closed client session
    head, tail,           \* m_thread_list_head and m_thread_list_tail of an object
    next,                 \* the link of a node
    objects,              \* the objects of a thread's Wait
    state,                \* m_thread_state
    pc,                   \* the call the thread is in
    target,               \* the thread that a Terminate waits for
    cancellable,          \* m_cancellable
    waitCancelled,        \* m_wait_cancelled
    timer,                \* the thread has a task in the hardware timer
    terminationRequested, \* m_termination_requested
    result,               \* m_wait_result
    syncedIndex,          \* m_synced_index
    closing,              \* the sessions that are closed, their waiters not yet notified
    notifying             \* the object, the node and the result of NotifyAvailable

listVars == <<head, tail, next>>
waitVars == <<objects, state, cancellable, timer, result, syncedIndex>>
vars == <<signaled, listVars, waitVars, pc, target, waitCancelled, terminationRequested,
          closing, notifying>>

NotNotifying == [object |-> Null, node |-> Null, result |-> "Success"]

Init ==
    /\ signaled = [o \in Objects |-> FALSE]
    /\ head = [o \in Objects |-> Null]
    /\ tail = [o \in Objects |-> Null]
    /\ next = [n \in Nodes |-> Null]
    /\ objects = [t \in Threads |-> <<>>]
    /\ state = [t \in Threads |-> "Runnable"]
    /\ pc = [t \in Threads |-> "run"]
    /\ target = [t \in Threads |-> Null]
    /\ cancellable = [t \in Threads |-> FALSE]
    /\ waitCancelled = [t \in Threads |-> FALSE]
    /\ timer = [t \in Threads |-> FALSE]
    /\ terminationRequested = [t \in Threads |-> FALSE]
    /\ result = [t \in Threads |-> "Success"]
    /\ syncedIndex = [t \in Threads |-> -1]
    /\ closing = {}
    /\ notifying = NotNotifying

-----------------------------------------------------------------------------
(* The lists.                                                              *)

Lists == [head |-> head, tail |-> tail, next |-> next]

\* LinkNode, with the node's link cleared before
LinkNode(l, o, n) ==
    [l EXCEPT !.next = IF l.tail[o] = Null THEN [@ EXCEPT ![n] = Null]
                       ELSE [@ EXCEPT ![n] = Null, ![l.tail[o]] = n],
              !.head[o] = IF l.tail[o] = Null THEN n ELSE @,
              !.tail[o] = n]

\* The nodes of an object, in the order of the list
Walk(l, o) ==
    LET from[n \in Nodes \cup {Null}] == IF n = Null THEN <<>> ELSE <<n>> \o from[l.next[n]]
    IN  from[l.head[o]]

\* The node before n in the list of o, found by walking it from its head
Before(l, o, n) ==
    LET walk == Walk(l, o)
        i == CHOOSE j \in DOMAIN walk : walk[j] = n
    IN  IF i = 1 THEN Null ELSE walk[i - 1]

\* Mutant: the tail stays at the node that is taken out.
UnlinkKeepingTail(l, o, n) ==
    LET prev == Before(l, o, n)
    IN  IF prev = Null THEN [l EXCEPT !.head[o] = l.next[n]]
        ELSE [l EXCEPT !.next[prev] = l.next[n]]

\* UnlinkNode; the node keeps its link.
UnlinkNode(l, o, n) ==
    LET prev == Before(l, o, n)
        cut == [l EXCEPT !.tail[o] = IF @ = n THEN prev ELSE @]
    IN  IF prev = Null THEN [cut EXCEPT !.head[o] = l.next[n]]
        ELSE [cut EXCEPT !.next[prev] = l.next[n]]

SetLists(l) == head' = l.head /\ tail' = l.tail /\ next' = l.next

\* The nodes of a thread's wait, linked to or unlinked from their objects in order
LinkAll(t, os) ==
    FoldLeftDomain(LAMBDA l, i : LinkNode(l, os[i], <<t, i>>), Lists, os)

UnlinkAll(t) ==
    FoldLeftDomain(LAMBDA l, i : UnlinkNode(l, objects[t][i], <<t, i>>), Lists, objects[t])

-----------------------------------------------------------------------------
(* Waits and how they end.                                                 *)

SchedulerUnlocked == notifying = NotNotifying

\* A thread that makes a call, or goes on with one
Runs(t, where) == state[t] = "Runnable" /\ pc[t] = where /\ SchedulerUnlocked

\* Mutant: the objects are not looked at before the wait.
NoneSignaled(os) == FALSE

AnySignaled(os) == \E i \in DOMAIN os : signaled[os[i]]

IsWaitCancelled(t) == waitCancelled[t]

\* KSynchronizationObject::Wait by t, which returns at once with pc `back'.  A
\* terminating thread returns in order to exit.
Wait(t, os, timeout, back) ==
    /\ \/ /\ terminationRequested[t]
          /\ pc' = [pc EXCEPT ![t] = "exiting"]
          /\ UNCHANGED <<listVars, waitVars, waitCancelled>>
       \/ /\ ~terminationRequested[t] /\ (AnySignaled(os) \/ timeout = "zero")
          /\ pc' = [pc EXCEPT ![t] = back]
          /\ UNCHANGED <<listVars, waitVars, waitCancelled>>
       \/ /\ ~terminationRequested[t] /\ ~AnySignaled(os) /\ timeout # "zero"
          /\ IsWaitCancelled(t)
          /\ waitCancelled' = [waitCancelled EXCEPT ![t] = FALSE]
          /\ pc' = [pc EXCEPT ![t] = back]
          /\ UNCHANGED <<listVars, waitVars>>
       \/ /\ ~terminationRequested[t] /\ ~AnySignaled(os) /\ timeout # "zero"
          /\ ~IsWaitCancelled(t)
          /\ SetLists(LinkAll(t, os))
          /\ objects' = [objects EXCEPT ![t] = os]
          /\ cancellable' = [cancellable EXCEPT ![t] = TRUE]
          /\ syncedIndex' = [syncedIndex EXCEPT ![t] = -1]
          /\ state' = [state EXCEPT ![t] = "Waiting"]
          /\ timer' = [timer EXCEPT ![t] = timeout = "finite"]
          /\ pc' = [pc EXCEPT ![t] = "wait"]
          /\ UNCHANGED <<result, waitCancelled>>
    /\ UNCHANGED <<signaled, terminationRequested, closing, notifying>>

\* WaitSynchronization
WaitSynchronization(t, os, timeout) ==
    /\ Runs(t, "run")
    /\ Wait(t, os, timeout, "run")
    /\ UNCHANGED target

\* The wait is over: the thread's stack frame, with the nodes in it, is gone.
WaitReturn(t) ==
    /\ Runs(t, "wait")
    /\ pc' = [pc EXCEPT ![t] = IF terminationRequested[t] THEN "exiting" ELSE "run"]
    /\ next' = [n \in Nodes |-> IF n[1] = t THEN Null ELSE next[n]]
    /\ objects' = [objects EXCEPT ![t] = <<>>]
    /\ result' = [result EXCEPT ![t] = "Success"]
    /\ syncedIndex' = [syncedIndex EXCEPT ![t] = -1]
    /\ target' = [target EXCEPT ![t] = Null]
    /\ UNCHANGED <<signaled, head, tail, state, cancellable, timer, waitCancelled,
                   terminationRequested, closing, notifying>>

\* KThread::Sleep: a wait that cannot be cancelled by WaitCancel
Sleep(t) ==
    /\ Runs(t, "run")
    /\ IF terminationRequested[t]
       THEN pc' = [pc EXCEPT ![t] = "exiting"] /\ UNCHANGED <<state, timer>>
       ELSE /\ state' = [state EXCEPT ![t] = "Waiting"]
            /\ timer' = [timer EXCEPT ![t] = TRUE]
            /\ pc' = [pc EXCEPT ![t] = "wait"]
    /\ UNCHANGED <<signaled, listVars, objects, cancellable, result, syncedIndex, target,
                   waitCancelled, terminationRequested, closing, notifying>>

\* The wait queues' CancelWait: a thread that sleeps has no nodes.
CancelWait(t, reason) ==
    /\ SetLists(UnlinkAll(t))
    /\ cancellable' = [cancellable EXCEPT ![t] = FALSE]
    /\ result' = [result EXCEPT ![t] = reason]
    /\ state' = [state EXCEPT ![t] = "Runnable"]
    /\ UNCHANGED <<objects, syncedIndex>>

CancelTask(t) == [timer EXCEPT ![t] = FALSE]

-----------------------------------------------------------------------------
(* Signals.                                                                *)

\* Mutant: the walk begins after the head of the list.
NotifyFromSecond(o, res) ==
    notifying' = IF head[o] = Null \/ next[head[o]] = Null THEN NotNotifying
                 ELSE [object |-> o, node |-> next[head[o]], result |-> res]

\* NotifyAvailable begins at the head of the list.
NotifyFrom(o, res) ==
    notifying' = IF head[o] = Null THEN NotNotifying
                 ELSE [object |-> o, node |-> head[o], result |-> res]

\* Mutant: the last of an object's places in the wait is reported.
LastPlace(os, o) == CHOOSE i \in DOMAIN os : os[i] = o /\ \A j \in DOMAIN os : os[j] = o => j <= i

\* The place of the signaled object among the wait's objects
SyncIndex(os, o) == CHOOSE i \in DOMAIN os : os[i] = o /\ \A j \in DOMAIN os : os[j] = o => i <= j

\* One round of NotifyAvailable: the thread of the node is woken, unless an
\* earlier node of its already woke it, and the walk goes on along the node's link.
NotifyAvailable ==
    LET n == notifying.node
        t == n[1]
    IN  /\ ~SchedulerUnlocked
        /\ IF state[t] = "Waiting"
           THEN /\ SetLists(UnlinkAll(t))
                /\ syncedIndex' = [syncedIndex EXCEPT ![t] =
                       SyncIndex(objects[t], notifying.object) - 1]
                /\ cancellable' = [cancellable EXCEPT ![t] = FALSE]
                /\ result' = [result EXCEPT ![t] = notifying.result]
                /\ state' = [state EXCEPT ![t] = "Runnable"]
                /\ timer' = CancelTask(t)
                /\ UNCHANGED objects
           ELSE UNCHANGED <<listVars, waitVars>>
        /\ notifying' = IF next'[n] = Null THEN NotNotifying
                        ELSE [notifying EXCEPT !.node = next'[n]]
        /\ UNCHANGED <<signaled, pc, target, waitCancelled, terminationRequested, closing>>

\* KReadableEvent::Signal
Signal(e) ==
    /\ SchedulerUnlocked /\ ~signaled[e]
    /\ signaled' = [signaled EXCEPT ![e] = TRUE]
    /\ NotifyFrom(e, "Success")
    /\ UNCHANGED <<listVars, waitVars, pc, target, waitCancelled, terminationRequested, closing>>

\* KReadableEvent::Reset
Reset(e) ==
    /\ SchedulerUnlocked /\ signaled[e]
    /\ signaled' = [signaled EXCEPT ![e] = FALSE]
    /\ UNCHANGED <<listVars, waitVars, pc, target, waitCancelled, terminationRequested,
                   closing, notifying>>

\* KSession::OnClientClosed: the state changes without the scheduler lock, the
\* waiters are notified later.
CloseSession(s) ==
    /\ ~signaled[s]
    /\ signaled' = [signaled EXCEPT ![s] = TRUE]
    /\ closing' = closing \cup {s}
    /\ UNCHANGED <<listVars, waitVars, pc, target, waitCancelled, terminationRequested, notifying>>

NotifyClosed(s) ==
    /\ SchedulerUnlocked /\ s \in closing
    /\ closing' = closing \ {s}
    /\ NotifyFrom(s, "SessionClosed")
    /\ UNCHANGED <<signaled, listVars, waitVars, pc, target, waitCancelled, terminationRequested>>

-----------------------------------------------------------------------------
(* Cancellation, timeouts, termination.                                    *)

\* KThread::WaitCancel, which CancelSynchronization calls
WaitCancel(t) ==
    /\ SchedulerUnlocked /\ t \in Cancellable /\ state[t] # "Terminated"
    /\ IF state[t] = "Waiting" /\ cancellable[t]
       THEN /\ CancelWait(t, "Cancelled")
            /\ timer' = CancelTask(t)
            /\ waitCancelled' = [waitCancelled EXCEPT ![t] = FALSE]
       ELSE /\ waitCancelled' = [waitCancelled EXCEPT ![t] = TRUE]
            /\ UNCHANGED <<listVars, waitVars>>
    /\ UNCHANGED <<signaled, pc, target, terminationRequested, closing, notifying>>

\* KHardwareTimer::DoTask with KThread::OnTimer
OnTimer(t) ==
    /\ SchedulerUnlocked /\ timer[t]
    /\ timer' = [timer EXCEPT ![t] = FALSE]
    /\ IF state[t] = "Waiting" THEN CancelWait(t, "TimedOut")
       ELSE UNCHANGED <<listVars, objects, state, cancellable, result, syncedIndex>>
    /\ UNCHANGED <<signaled, pc, target, waitCancelled, terminationRequested, closing, notifying>>

\* KThread::RequestTerminate, which ends the thread's wait
RequestTerminate(t) ==
    /\ terminationRequested' = [terminationRequested EXCEPT ![t] = TRUE]
    /\ IF ~terminationRequested[t] /\ state[t] = "Waiting"
       THEN CancelWait(t, "TerminationRequested") /\ timer' = CancelTask(t)
       ELSE UNCHANGED <<listVars, waitVars>>

\* KThread::Terminate of t by u: the request, and then the wait for t
Terminate(u, t) ==
    /\ Runs(u, "run") /\ u # t /\ t \in Terminable
    /\ RequestTerminate(t)
    /\ IF state[t] = "Terminated" THEN UNCHANGED <<pc, target>>
       ELSE /\ pc' = [pc EXCEPT ![u] = "terminate"]
            /\ target' = [target EXCEPT ![u] = t]
    /\ UNCHANGED <<signaled, waitCancelled, closing, notifying>>

TerminateWait(u) ==
    /\ Runs(u, "terminate")
    /\ Wait(u, <<target[u]>>, "infinite", "run")
    /\ target' = [target EXCEPT ![u] = IF pc'[u] = "wait" THEN @ ELSE Null]

\* KThread::Exit, which ends in StartTermination
Exit(t) ==
    /\ terminationRequested[t]
    /\ Runs(t, "run") \/ Runs(t, "exiting")
    /\ state' = [state EXCEPT ![t] = "Terminated"]
    /\ pc' = [pc EXCEPT ![t] = "exited"]
    /\ UNCHANGED <<signaled, listVars, objects, cancellable, timer, result, syncedIndex, target,
                   waitCancelled, terminationRequested, closing, notifying>>

\* KThread::FinishTermination by the worker thread: the thread object is signaled.
FinishTermination(t) ==
    /\ SchedulerUnlocked /\ state[t] = "Terminated" /\ ~signaled[t]
    /\ signaled' = [signaled EXCEPT ![t] = TRUE]
    /\ NotifyFrom(t, "Success")
    /\ UNCHANGED <<listVars, waitVars, pc, target, waitCancelled, terminationRequested, closing>>

-----------------------------------------------------------------------------
ThreadStep(t) ==
    \/ \E n \in 0 .. MaxObjects : \E os \in [1 .. n -> Objects], timeout \in Timeouts :
          WaitSynchronization(t, os, timeout)
    \/ WaitReturn(t) \/ Sleep(t) \/ Exit(t) \/ TerminateWait(t)
    \/ \E u \in Threads : Terminate(t, u)

Next ==
    \/ \E t \in Threads : ThreadStep(t) \/ WaitCancel(t) \/ OnTimer(t) \/ FinishTermination(t)
    \/ \E e \in Events : Signal(e) \/ Reset(e)
    \/ \E s \in Sessions : CloseSession(s) \/ NotifyClosed(s)
    \/ NotifyAvailable

Spec == Init /\ [][Next]_vars

\* The rest of a call that t made, or of its end, can be done.
Pending(t) ==
    \/ state[t] = "Runnable" /\ (pc[t] \in {"wait", "terminate", "exiting"} \/ terminationRequested[t])
    \/ state[t] = "Terminated" /\ ~signaled[t]

\* A walk ends, a runnable thread gets the scheduler lock and goes on with its call,
\* the worker thread and the closing of a session finish what was begun.
FairSpec ==
    /\ Spec
    /\ []<>SchedulerUnlocked /\ []<>(closing = {})
    /\ \A t \in Threads : []<>~Pending(t)

-----------------------------------------------------------------------------
(* Properties.                                                             *)

TypeOK ==
    /\ signaled \in [Objects -> BOOLEAN]
    /\ head \in [Objects -> Nodes \cup {Null}]
    /\ tail \in [Objects -> Nodes \cup {Null}]
    /\ next \in [Nodes -> Nodes \cup {Null}]
    /\ \A t \in Threads : objects[t] \in Seq(Objects) /\ Len(objects[t]) <= MaxObjects
    /\ state \in [Threads -> {"Runnable", "Waiting", "Terminated"}]
    /\ pc \in [Threads -> {"run", "wait", "terminate", "exiting", "exited"}]
    /\ target \in [Threads -> Threads \cup {Null}]
    /\ cancellable \in [Threads -> BOOLEAN]
    /\ waitCancelled \in [Threads -> BOOLEAN]
    /\ timer \in [Threads -> BOOLEAN]
    /\ terminationRequested \in [Threads -> BOOLEAN]
    /\ result \in [Threads -> {"Success", "SessionClosed", "TimedOut", "Cancelled",
                               "TerminationRequested"}]
    /\ syncedIndex \in [Threads -> -1 .. MaxObjects - 1]
    /\ closing \subseteq Sessions
    /\ notifying \in [object : Objects \cup {Null}, node : Nodes \cup {Null},
                      result : {"Success", "SessionClosed"}]

\* The nodes that a list should have: those of the threads that wait
NodesOf(o) ==
    {n \in Nodes : /\ state[n[1]] = "Waiting" /\ n[2] \in DOMAIN objects[n[1]]
                   /\ objects[n[1]][n[2]] = o}

\* The linked lists are exactly the places of the waiting threads, each once, with
\* the tail at the end: no node of a stack frame that is gone is left in a list, and
\* no waiter is unreachable, whatever order the waits ended in.
ListsExact ==
    \A o \in Objects :
        LET walk == Walk(Lists, o)
        IN  /\ ToSet(walk) = NodesOf(o)
            /\ IsInjective(walk)
            /\ tail[o] = IF walk = <<>> THEN Null ELSE Last(walk)

\* The walk of NotifyAvailable, which goes on along the link of a node that was just
\* taken out of the list, still comes to every thread that waits for the object and
\* never to a stack frame that is gone.
WalkComplete ==
    ~SchedulerUnlocked =>
        LET from[n \in Nodes \cup {Null}] == IF n = Null THEN {} ELSE {n} \cup from[next[n]]
            ahead == from[notifying.node]
        IN  /\ NodesOf(notifying.object) \subseteq ahead
            /\ \A n \in ahead : pc[n[1]] = "wait" /\ n[2] \in DOMAIN objects[n[1]]

\* No lost wake-up: the walk is complete, and while nobody is notifying, no thread waits
\* for an object that is signaled, except for a session whose closing is about to notify.
NoLostWakeup ==
    WalkComplete /\ (SchedulerUnlocked =>
        \A t \in Threads : \A i \in DOMAIN objects[t] :
            state[t] = "Waiting" /\ signaled[objects[t][i]] => objects[t][i] \in closing)

\* A cancellation that came before a wait ends that wait at once, it is not kept for a
\* later one: no thread waits, cancellably, with a cancellation pending.
NoPendingCancel ==
    \A t \in Threads : state[t] = "Waiting" /\ cancellable[t] => ~waitCancelled[t]

\* Only a thread that waits has a task in the timer, so that a timeout never ends
\* a wait other than its own.
TimerOnlyInWait == \A t \in Threads : timer[t] => state[t] = "Waiting"

\* However a wait ends, no node of it is left in a list, no task in the timer and no
\* cancellation for the next wait.
WaitExact == TypeOK /\ ListsExact /\ TimerOnlyInWait /\ NoPendingCancel

\* A wait that a signal ends reports the first place of an object that is signaled
\* at that moment; a wait that ends otherwise reports no place.
WakeReported ==
    [][\A t \in Threads :
          state[t] = "Waiting" /\ state'[t] = "Runnable" =>
              LET i == syncedIndex'[t] + 1
              IN  IF result'[t] \in {"Success", "SessionClosed"}
                  THEN /\ i \in DOMAIN objects[t] /\ signaled[objects[t][i]]
                       /\ \A j \in 1 .. i - 1 : objects[t][j] # objects[t][i]
                  ELSE i = 0]_vars

\* A thread that waits for the end of another, in KThread::Terminate, gets to run
\* again, also when threads terminate each other.
TerminateReturns ==
    \A u, t \in Threads : (pc[u] = "wait" /\ target[u] = t) ~> (state[u] # "Waiting")

=============================================================================
