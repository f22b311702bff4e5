\* Three threads and two locks: chains and cycles of waiting threads.
SPECIFICATION FairSpec
CONSTANTS
    Threads = {t1, t2, t3}
    Locks = {l1, l2}
    CondVars = {k1}
    Priorities = {1, 2, 3}
    TerminatingPriority = 1
    NoThread = NoThread
    NoLock = NoLock
    NoKey = NoKey
INVARIANTS InheritanceExact TreesSorted
PROPERTIES HandOverToHighest RestoreEnds
