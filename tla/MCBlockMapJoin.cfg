\* No crash: only Writers, Flush and the ticker.
CONSTANTS
    MaxKey = 2
    Copies = {1, 2}
    MaxIds = 3
    SplitPoint = 2
    MaxCrashes = 0
    MaxErrors = 0
SPECIFICATION Spec
INVARIANT FlushedAlwaysKept
CHECK_DEADLOCK FALSE
