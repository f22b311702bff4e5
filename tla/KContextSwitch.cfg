\* A thread that the host and one of the two cores choose for either core.
SPECIFICATION FairSpec
CONSTANTS
    Threads = {t1}
    Cores = {c1, c2}
    Host = Host
    Choosers = {Host, c1}
    NoThread = NoThread
    NoCore = NoCore
INVARIANTS OneCore ContextCurrent ExitFinal NoLostInterrupt
PROPERTY ChosenExecutes
