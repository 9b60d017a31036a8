\* The process ends, or waits for a heartbeat that never started.
CHECK_DEADLOCK FALSE
SPECIFICATION LifecycleSpec
CONSTANTS
    r1 = r1
    r2 = r2
    depositWatcher = depositWatcher
    exitWatcher = exitWatcher
    Watchers <- MCWatchers
    Requests <- MCRequests
INVARIANTS
    AnsweredBeforeExit
    PingsDeliver
    ChannelsClosedOnce
PROPERTIES
    ShutdownEnds
