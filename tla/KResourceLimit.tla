---------------------------- MODULE KResourceLimit ----------------------------
(***************************************************************************)
(* One resource of a KResourceLimit with the KLightConditionVariable its   *)
(* reservations wait on, and the objects that are accounted to it: they    *)
(* are reserved (KScopedResourceReservation), committed or given back,     *)
(* release their hint when they are about to end (KThread::Exit) and the   *)
(* resource itself when they are destroyed (KThread::PostDestroy).         *)
(*                                                                         *)
(* The methods hold m_lock from beginning to end and give it up only in    *)
(* the condition variable, so that the lock is a guard of the steps, and a *)
(* variable for the one case in which a reservation keeps it while it      *)
(* waits: Wait returns at once to a thread that is to be terminated.       *)
(***************************************************************************)
EXTENDS Integers, FiniteSets, Functions

CONSTANTS
    Threads,
    Objects,
    Values,         \* the amounts that are reserved
    Limits,         \* the limits that are set
    MaxValue,       \* 2^63 - 1 in the code
    Terminable,     \* the threads that may be terminated
    NoThread

ASSUME ResourceAssumption ==
    /\ NoThread \notin Threads /\ Terminable \subseteq Threads
    /\ MaxValue \in Nat /\ Values \subseteq 1 .. MaxValue
    /\ Limits \subseteq 0 .. MaxValue /\ Limits # {}

VARIABLES
    limit,        \* m_limit_values
    current,      \* m_current_values
    hints,        \* m_current_hints
    peak,         \* m_peak_values
    waiterCount,  \* m_waiter_count
    lock,         \* the owner of m_lock between two steps
    waitList,     \* the threads in the condition variable
    limitSeen,    \* the limit when the thread began to wait
    pc,           \* where the thread is in Reserve or behind it
    request,      \* the amount a thread reserves or has reserved
    late,         \* the timeout of a thread's reservation has passed
    terminationRequested,
    object        \* the amount of the resource an object has, and its hint

limitVars == <<limit, current, hints, peak>>
waitVars == <<waiterCount, lock, waitList, limitSeen>>
vars == <<limitVars, waitVars, pc, request, late, terminationRequested, object>>

None == [state |-> "none", value |-> 0]

Init ==
    /\ limit \in Limits
    /\ current = 0 /\ hints = 0 /\ peak = 0 /\ waiterCount = 0
    /\ lock = NoThread /\ waitList = {}
    /\ limitSeen = [t \in Threads |-> 0]
    /\ pc = [t \in Threads |-> "idle"]
    /\ request = [t \in Threads |-> 0]
    /\ late = [t \in Threads |-> FALSE]
    /\ terminationRequested = [t \in Threads |-> FALSE]
    /\ object = [o \in Objects |-> None]

-----------------------------------------------------------------------------
(* Reserve.                                                                *)

\* Common::WrappingAdd
WrappingAdd(a, b) == ((a + b + MaxValue + 1) % (2 * (MaxValue + 1))) - MaxValue - 1

Overflows(value) == WrappingAdd(current, value) <= current

Fits(value) == WrappingAdd(current, value) <= limit

\* Mutant: a reservation waits although its time is over.
MayWaitLate(t) == hints + request[t] <= limit

\* What is about to be released will do.
MayWait(t) == hints + request[t] <= limit /\ ~late[t]

Return(t, succeeded) ==
    /\ pc' = [pc EXCEPT ![t] = IF succeeded THEN "reserved" ELSE "idle"]
    /\ request' = IF succeeded THEN request ELSE [request EXCEPT ![t] = 0]
    /\ late' = [late EXCEPT ![t] = FALSE]

\* One round of the loop in Reserve by a thread that has the lock.  The thread has
\* the lock afterwards only if it does not return and does not sleep.
Round(t, count) ==
    \/ /\ ~Overflows(request[t]) /\ Fits(request[t])
       /\ current' = WrappingAdd(current, request[t])
       /\ hints' = WrappingAdd(hints, request[t])
       /\ peak' = IF current' > peak THEN current' ELSE peak
       /\ waiterCount' = count /\ lock' = NoThread
       /\ Return(t, TRUE)
       /\ UNCHANGED <<limit, waitList, limitSeen>>
    \/ /\ Overflows(request[t]) \/ (~Fits(request[t]) /\ ~MayWait(t))
       /\ waiterCount' = count /\ lock' = NoThread
       /\ Return(t, FALSE)
       /\ UNCHANGED <<limitVars, waitList, limitSeen>>
    \/ /\ ~Overflows(request[t]) /\ ~Fits(request[t]) /\ MayWait(t)
       /\ waiterCount' = count + 1
       /\ IF terminationRequested[t]
          THEN /\ lock' = t
               /\ pc' = [pc EXCEPT ![t] = "again"]
               /\ UNCHANGED <<waitList, limitSeen>>
          ELSE /\ lock' = NoThread
               /\ waitList' = waitList \cup {t}
               /\ limitSeen' = [limitSeen EXCEPT ![t] = limit]
               /\ pc' = [pc EXCEPT ![t] = "waiting"]
       /\ UNCHANGED <<limitVars, request, late>>

\* The call, which has to wait for the lock
Reserve(t, value) ==
    /\ pc[t] = "idle" /\ ~terminationRequested[t]
    /\ request' = [request EXCEPT ![t] = value]
    /\ pc' = [pc EXCEPT ![t] = "reserve"]
    /\ UNCHANGED <<limitVars, waitVars, late, terminationRequested, object>>

\* The test before the loop, and its first round
ReserveFirst(t) ==
    /\ pc[t] = "reserve" /\ lock = NoThread
    /\ \/ /\ hints >= limit
          /\ Return(t, FALSE)
          /\ UNCHANGED <<limitVars, waitVars>>
       \/ hints < limit /\ Round(t, waiterCount)
    /\ UNCHANGED <<terminationRequested, object>>

\* The wait is over, and the thread has the lock again.
ReserveAgain(t) ==
    /\ pc[t] = "again" /\ lock \in {NoThread, t}
    /\ Round(t, waiterCount - 1)
    /\ UNCHANGED <<terminationRequested, object>>

-----------------------------------------------------------------------------
(* The condition variable.                                                 *)

\* Mutant: Broadcast wakes one thread.
WokenOne == {{t} : t \in waitList} \cup {S \in {waitList} : S = {}}

\* The set of threads that Broadcast wakes
Woken == {waitList}

\* The threads of S go on in Reserve, the others as in p.
Leave(S, p) ==
    /\ waitList' = waitList \ S
    /\ pc' = [t \in Threads |-> IF t \in S THEN "again" ELSE p[t]]

\* The time of a reservation is over: also KThread::OnTimer, if it waits.
Timeout(t) ==
    /\ pc[t] \in {"reserve", "waiting", "again"} /\ ~late[t]
    /\ late' = [late EXCEPT ![t] = TRUE]
    /\ Leave({t} \cap waitList, pc)
    /\ UNCHANGED <<limitVars, waiterCount, lock, limitSeen, request,
                   terminationRequested, object>>

\* KThread::RequestTerminate, with CancelWait of the condition variable's queue
RequestTerminate(t) ==
    /\ t \in Terminable /\ ~terminationRequested[t]
    /\ terminationRequested' = [terminationRequested EXCEPT ![t] = TRUE]
    /\ Leave({t} \cap waitList, pc)
    /\ UNCHANGED <<limitVars, waiterCount, lock, limitSeen, request, late, object>>

-----------------------------------------------------------------------------
(* Release, and the objects.                                               *)

\* With Broadcast, if there are waiters
Release(value, hint, p) ==
    /\ lock = NoThread
    /\ current' = current - value
    /\ hints' = hints - hint
    /\ \E S \in IF waiterCount # 0 THEN Woken ELSE {{}} : Leave(S, p)
    /\ UNCHANGED <<limit, peak, waiterCount, lock, limitSeen>>

\* The reservation is committed: the object exists.
Commit(t, o) ==
    /\ pc[t] = "reserved" /\ object[o] = None
    /\ object' = [object EXCEPT ![o] = [state |-> "live", value |-> request[t]]]
    /\ request' = [request EXCEPT ![t] = 0]
    /\ pc' = [pc EXCEPT ![t] = "idle"]
    /\ UNCHANGED <<limitVars, waitVars, late, terminationRequested>>

\* The creation failed: the destructor of the reservation releases it.
Abandon(t) ==
    /\ pc[t] = "reserved"
    /\ Release(request[t], request[t], [pc EXCEPT ![t] = "idle"])
    /\ request' = [request EXCEPT ![t] = 0]
    /\ UNCHANGED <<late, terminationRequested, object>>

\* KThread::Exit
ReleaseHint(o) ==
    /\ object[o].state = "live"
    /\ Release(0, object[o].value, pc)
    /\ object' = [object EXCEPT ![o].state = "ending"]
    /\ UNCHANGED <<request, late, terminationRequested>>

\* Mutant: the hint is released again.
HintLeftAll(o) == object[o].value

\* What PostDestroy has still to release of the hint
HintLeft(o) == IF object[o].state = "ending" THEN 0 ELSE object[o].value

\* KThread::PostDestroy
PostDestroy(o) ==
    /\ object[o].state # "none"
    /\ Release(object[o].value, HintLeft(o), pc)
    /\ object' = [object EXCEPT ![o] = None]
    /\ UNCHANGED <<request, late, terminationRequested>>

MaySet(value) == current <= value

\* It does not wake the threads that wait.
SetLimitValue(value) ==
    /\ lock = NoThread /\ MaySet(value)
    /\ limit' = value
    /\ peak' = current
    /\ UNCHANGED <<current, hints, waitVars, pc, request, late, terminationRequested, object>>

Next ==
    \/ \E t \in Threads :
          \/ \E value \in Values : Reserve(t, value)
          \/ \E o \in Objects : Commit(t, o)
          \/ ReserveFirst(t) \/ ReserveAgain(t) \/ Abandon(t)
          \/ Timeout(t) \/ RequestTerminate(t)
    \/ \E o \in Objects : ReleaseHint(o) \/ PostDestroy(o)
    \/ \E value \in Limits : SetLimitValue(value)

Spec == Init /\ [][Next]_vars

\* Threads run, the lock is handed on to those that wait for it, and time passes.
Fairness == \A t \in Threads :
    /\ SF_vars(ReserveFirst(t) \/ ReserveAgain(t))
    /\ []<>(pc[t] \in {"idle", "reserved"} \/ late[t])

FairSpec == Spec /\ Fairness

-----------------------------------------------------------------------------
(* Properties.                                                             *)

TypeOK ==
    /\ {limit, current, hints, peak} \subseteq 0 .. MaxValue
    /\ waiterCount \in 0 .. Cardinality(Threads)
    /\ lock \in Threads \cup {NoThread}
    /\ waitList \subseteq Threads
    /\ limitSeen \in [Threads -> 0 .. MaxValue]
    /\ pc \in [Threads -> {"idle", "reserve", "waiting", "again", "reserved"}]
    /\ request \in [Threads -> Values \cup {0}]
    /\ late \in [Threads -> BOOLEAN]
    /\ terminationRequested \in [Threads -> BOOLEAN]
    /\ object \in [Objects -> [state : {"none", "live", "ending"}, value : Values \cup {0}]]

\* What the methods assert: the hint is at most what is in use, and that at most the limit
\* and the peak.
WithinLimit == hints <= current /\ current <= limit /\ current <= peak

\* m_waiter_count, which decides whether Release wakes anybody, counts every thread
\* that waits.
WaitersCounted ==
    waiterCount = Cardinality({t \in Threads : pc[t] \in {"waiting", "again"}})

\* Nothing leaks and nothing is released twice, whichever way a reservation, a wait or
\* an object ends: the value in use is that of the reservations and the objects, the
\* hint leaves out the objects that are about to end, and the waiters are counted.  So
\* the limit is kept, with reservations that compete and objects that end meanwhile.
Accounted ==
    LET Reserved == {t \in Threads : pc[t] = "reserved"}
        Sum(S) == SumFunctionOnSet([o \in Objects |-> object[o].value], S)
        reserved == SumFunctionOnSet(request, Reserved)
    IN  /\ TypeOK /\ WaitersCounted /\ WithinLimit
        /\ current = reserved + Sum(Objects)
        /\ hints = reserved + Sum({o \in Objects : object[o].state = "live"})

\* No release is missed: a reservation that would fit waits on only if the limit was
\* raised since it began to wait, which SetLimitValue does not tell the waiters.
NoMissedRelease ==
    \A t \in waitList : ~Overflows(request[t]) /\ Fits(request[t]) => limit > limitSeen[t]

\* A reservation returns, in time or when its time is over: also for a thread that
\* is to be terminated, which keeps the lock and goes round the loop meanwhile.
ReserveReturns == \A t \in Threads : pc[t] = "reserve" ~> pc[t] \in {"idle", "reserved"}

===============================================================================
