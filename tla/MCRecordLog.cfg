\* One variable with two numbers, two timestamps, two records, two rotations,
\* one crash or shutdown, one failing operation.
CONSTANTS
    a = a
    Vars = {a}
    Inputs <- MCInputs
    Numbers = {1, 2}
    MaxTime = 2
    MaxRecords = 2
    MaxRotations = 2
    MaxCrashes = 1
    MaxErrors = 1
SPECIFICATION FairSpec
INVARIANTS
    TypeOK
    ReplayComplete
PROPERTIES
    ImplementsDurableStore
    AddedIsFlushed
    EveryFileIndexed
\* A process that has died need not be restarted.
CHECK_DEADLOCK FALSE
