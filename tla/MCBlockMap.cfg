\* Four variables, up to five blocks, splits above two streams, one crash, one error.
CONSTANTS
    MaxKey = 4
    Copies = {1}
    MaxIds = 5
    SplitPoint = 2
    MaxCrashes = 1
    MaxErrors = 1
SPECIFICATION Spec
INVARIANTS
    TypeOK
    FlushedKept
    FlushedServed
    OneOwner
    RoutesKnown
PROPERTIES
    ImplementsDurableStore
\* The server rests once the clients have nothing left to send.
CHECK_DEADLOCK FALSE
