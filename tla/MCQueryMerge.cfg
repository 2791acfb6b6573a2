\* Two streams of up to two values, merged by a plain request.
CONSTANTS
    MaxTime = 3
    MaxLength = 2
    MaxStored = 4
    NumStreams = 2
    Ends = {0}
    Numbers = {1, 2}
    Strings = {}
    Labels = {"a"}
    MinTimes = {0}
    MaxTimes = {3}
    Limits = {}
    Durations = {0}
SPECIFICATION Spec
INVARIANT AllMerged
CHECK_DEADLOCK FALSE
