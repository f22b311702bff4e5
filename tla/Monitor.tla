------------------------------ MODULE Monitor -------------------------------
(***************************************************************************)
(* What a guest program may rely on when it uses mutexes and condition     *)
(* variables: a mutex is locked by one thread at a time, and a thread that *)
(* waits on a condition variable releases its mutex and falls asleep in    *)
(* one step.  How threads queue, and who is woken by what, is left open.   *)
(***************************************************************************)
CONSTANTS Threads, Mutexes, CondVars, MutexOf

VARIABLES
    locked,     \* the mutexes each thread has locked
    sleeping    \* the threads asleep on each condition variable

Init ==
    /\ locked = [t \in Threads |-> {}]
    /\ sleeping = [k \in CondVars |-> {}]

Acquire(t, a) ==
    /\ \A u \in Threads : a \notin locked[u]
    /\ locked' = [locked EXCEPT ![t] = @ \cup {a}]
    /\ UNCHANGED sleeping

Release(t, a) ==
    /\ a \in locked[t]
    /\ locked' = [locked EXCEPT ![t] = @ \ {a}]
    /\ UNCHANGED sleeping

Sleep(t, k) ==
    /\ MutexOf[k] \in locked[t]
    /\ locked' = [locked EXCEPT ![t] = @ \ {MutexOf[k]}]
    /\ sleeping' = [sleeping EXCEPT ![k] = @ \cup {t}]

Wake(t, k) ==
    /\ t \in sleeping[k]
    /\ sleeping' = [sleeping EXCEPT ![k] = @ \ {t}]
    /\ UNCHANGED locked

Next ==
    \E t \in Threads :
        \/ \E a \in Mutexes : Acquire(t, a) \/ Release(t, a)
        \/ \E k \in CondVars : Sleep(t, k) \/ Wake(t, k)

Spec == Init /\ [][Next]_<<locked, sleeping>>

=============================================================================
