\* Two clients with two streams between them, two crashes, two I/O errors.
CONSTANTS
    Values = {a, b}
    Writers = {w1, w2}
    Compactor = ticker
    None = none
    MaxCrashes = 2
    MaxIOErrors = 2
    MaxShortWrites = 1
SPECIFICATION FairSpec
INVARIANTS
    TypeOK
    Durable
PROPERTIES
    KeptStays
    ImplementsDurableStore
    FlushReturns
\* The server rests once the clients have nothing left to send.
CHECK_DEADLOCK FALSE
