\* Three threads that compete for a limit of one or two, below and at the largest number.
SPECIFICATION FairSpec
CONSTANTS
    Threads = {t1, t2, t3}
    Objects = {o1}
    Values = {1, 2}
    Limits = {1, 2}
    MaxValue = 2
    Terminable = {t2}
    NoThread = NoThread
INVARIANTS Accounted NoMissedRelease
PROPERTY ReserveReturns
