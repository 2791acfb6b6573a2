\* No crash and no error: only /add requests and the ticker.
CONSTANTS
    Values = {a, b}
    Writers = {w1, w2}
    Compactor = ticker
    None = none
    MaxCrashes = 0
    MaxIOErrors = 0
    MaxShortWrites = 0
SPECIFICATION Spec
INVARIANT FlushedServed
CHECK_DEADLOCK FALSE
