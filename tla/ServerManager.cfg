\* Two threads of the process and one session; the emulation may be shut down, and every thread may end.
SPECIFICATION FairSpec
CONSTANTS
    Threads = {T1, T2}
    MainThread = T1
    Client = Client
    Server = Server
    Host = Host
    Null = Null
INVARIANTS
    ReferencesExact
    RequestTracked
    NothingMissed
    TerminationComplete
PROPERTIES
    TerminationEnds
CHECK_DEADLOCK FALSE
