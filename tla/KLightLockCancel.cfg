SPECIFICATION SpecWithCancel
CHECK_DEADLOCK FALSE
CONSTANTS
    Threads = {t1, t2}
    NoThread = NoThread
    Locks = {1}
    Terminable = {t1, t2}
    SuspendTypes = {}
INVARIANT
    HolderOwnsTag
