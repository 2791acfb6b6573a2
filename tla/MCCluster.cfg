\* Two servers of one thread and two addresses each, two clients, one reload.
CONSTANTS
    NumNodes = 2
    NumNames = 4
    BadNames = {}
    Dropping = {3}
    Early = {4}
    MaxClients = 2
    MaxStreams = 2
    Threads = 1
    Addresses = 2
    Configs = {{1}}
    MaxReloads = 1
SPECIFICATION FairSpec
INVARIANTS
    TypeOK
    RecordedOnce
    RecordedByOwner
    SuccessMeansRecorded
PROPERTIES
    AllAnswered
\* The servers rest when all requests are answered.
CHECK_DEADLOCK FALSE
