\* Two blocks and two clients.
CONSTANTS
    Blocks = {b1, b2}
    Writers = {w1, w2}
    Ticker = ticker
    None = none
    MaxRequests = 2
    MaxErrors = 1
SPECIFICATION FairSpec
PROPERTY FlushReturns
CHECK_DEADLOCK FALSE
