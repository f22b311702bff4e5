\* Two threads that may be terminated, one of them cancelled; an event and a session.
SPECIFICATION FairSpec
CONSTANTS
    Threads = {t1, t2}
    Events = {e1}
    Sessions = {s1}
    Timeouts = {"zero", "finite"}
    MaxObjects = 2
    Terminable = {t1, t2}
    Cancellable = {t1}
    Null = Null
\* All threads may have terminated.
CHECK_DEADLOCK FALSE
INVARIANTS WaitExact NoLostWakeup
PROPERTIES WakeReported TerminateReturns
