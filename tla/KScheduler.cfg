\* Two priorities, of which threads of the lower may be migrated and are preempted.
SPECIFICATION FairSpec
CONSTANTS
    t1 = t1
    t2 = t2
    t3 = t3
    application = application
    service = service
    Threads = {t1, t2, t3}
    Owner <- MCOwner
    NumCores = 2
    Priorities <- MCPriorities
    Masks <- MCMasks
    MigrationPriority = 2
    PreemptPriority = 2
    NoThread = NoThread
INVARIANTS ChosenRightly NoLostReschedule YieldSkippedRightly NoCoreIdleInVain
PROPERTY NoStarvation
