CONSTANTS
    short = short
    long = long
    Lines <- LinesValue
    Size <- SizeValue
    Garbage = Garbage
    Skip = Skip
    Limits = {7}
    MaxBatch = 2
    CompactBelow = 2
    Faults = {"restart", "save"}
    MaxCalls = 4
    MaxFaults = 2
SPECIFICATION SpecNoClear
CHECK_DEADLOCK FALSE
PROPERTIES FailedWriteLosesNothing
