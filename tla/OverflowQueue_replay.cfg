CONSTANTS
    short = short
    long = long
    Lines <- LinesValue
    Size <- SizeValue
    Garbage = Garbage
    Skip = Skip
    Limits = {7}
    MaxBatch = 2
    CompactBelow = 2
    Faults = {"restart"}
    MaxCalls = 3
    MaxFaults = 2
SPECIFICATION Spec
CHECK_DEADLOCK FALSE
INVARIANTS NoReplay
