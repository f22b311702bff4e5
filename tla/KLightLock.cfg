\* Three threads on one lock; one of them may be terminated, and any suspended.
SPECIFICATION FairSpec
CONSTANTS
    Threads = {t1, t2, t3}
    NoThread = NoThread
    Locks = {1}
    Terminable = {t1}
    SuspendTypes = {Process}
INVARIANTS HolderOwnsTag NoLostWaiter SuspensionExact
PROPERTY ContendedLockPassedOn
