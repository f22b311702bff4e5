SPECIFICATION Spec
CONSTANTS
    Threads = {t1, t2}
    NoThread = NoThread
    Locks = {1}
    Terminable = {}
    SuspendTypes = {Process, Thread}
INVARIANT
    NeverSuspendedUnderWaiters
