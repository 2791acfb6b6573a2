\* Two streams of up to two values, three together, in any order and with ends,
\* with and without aggregation, mutation, filter and limit.
CONSTANTS
    MaxTime = 3
    MaxLength = 2
    MaxStored = 3
    NumStreams = 2
    Ends = {0, 2}
    Numbers = {1, 2}
    Strings = {}
    Labels = {"a"}
    MinTimes = {0, 3}
    MaxTimes = {2, 3}
    Limits = {2}
    Durations = {0, 1}
SPECIFICATION FairSpec
INVARIANTS
    TypeOK
    AnswerSorted
    ConsecutiveMerged
    RunsCoverValues
    PeaksShown
    LimitKept
PROPERTIES
    Answered
\* The request has been answered.
CHECK_DEADLOCK FALSE
