\* Three connections, a pool of one to two threads, at most three ever created.
CONSTANTS
    MaxJobs = 3
    MaxWorkers = 3
    TargetSize = 1
    MaxSize = 2
SPECIFICATION FairSpec
INVARIANTS
    TypeOK
    EachJobOnce
    LimitKept
    NobodyLeft
PROPERTIES
    AddedIsRun
\* The server rests when there are no connections, and after it has stopped.
CHECK_DEADLOCK FALSE
