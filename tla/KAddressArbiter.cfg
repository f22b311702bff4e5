\* Three threads on one word of two bits.
SPECIFICATION Spec
SYMMETRY Symmetry
CONSTANTS
    Threads = {t1, t2, t3}
    Addresses = {a1}
    Half = 2
    Timeouts = {"zero", "finite", "infinite"}
    Counts = {0, 1, 2}
    Terminable = {t3}
    NoAddress = NoAddress
\* All threads may wait without a timeout.
CHECK_DEADLOCK FALSE
INVARIANTS NoLostWakeup
PROPERTY WordTellsWaiters
