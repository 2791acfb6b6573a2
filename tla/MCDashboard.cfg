\* Two hosts, three events of the user, one failing request.
CONSTANTS
    Hosts = {h1, h2}
    Ports = {p1}
    Variables = {v1, v2}
    Types = {t1, t2}
    Ranges = {r1, r2}
    Typed <- MCTyped
    None = None
    MaxClicks = 3
    MaxFailures = 1
SPECIFICATION FairSpec
INVARIANTS
    TypeOK
    AlwaysPolling
    OnePoller
    MatchedInterface
PROPERTIES
    IncreaseGrows
    SettlesOnSelection
    PollersMerge
\* A page that lost its polling rests.
CHECK_DEADLOCK FALSE
