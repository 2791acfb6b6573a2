\* No crash and no error: only two concurrent /add requests.
CONSTANTS
    Values = {a, b}
    Writers = {w1, w2}
    Compactor = ticker
    None = none
    MaxCrashes = 0
    MaxIOErrors = 0
    MaxShortWrites = 0
SPECIFICATION Spec
INVARIANT WrittenReachesDisk
CHECK_DEADLOCK FALSE
