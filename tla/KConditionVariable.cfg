\* Every timeout but an infinite one, which a finite one that does not go off subsumes; one thread is terminated and closed.
SPECIFICATION FairSpec
CONSTANTS
    Threads = {t1, t2, t3}
    m1 = m1
    Mutexes = {m1}
    CondVars = {c1}
    MutexOf <- OneMutex
    Timeouts = {"zero", "finite"}
    Counts = {0, 1}
    Terminable = {t1}
    Closable = {t1}
    NoThread = NoThread
    NoMutex = NoMutex
    NoKey = NoKey
CHECK_DEADLOCK FALSE
INVARIANTS NoLostSignal NoLostMutexWaiter
PROPERTY MutexWaiterMovesOn ImplementsMonitor
