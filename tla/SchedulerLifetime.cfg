SPECIFICATION UsageSpec
CONSTANTS
    t1 = t1
    t2 = t2
    a = a
    schedulerThread = schedulerThread
    DumpData = DumpData
    Threads <- TwoThreads
    Once <- OneOnce
    Every <- NodeTasks
    MaxDelay = 2
INVARIANTS
    ExactlyOnce
    FirstTaskWatched
    DrainRunsAll
    
PROPERTIES
    TasksRun
    StopEndsThreads
CHECK_DEADLOCK FALSE
