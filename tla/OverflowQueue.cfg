CONSTANTS
    short = short
    long = long
    Lines <- LinesValue
    Size <- SizeValue
    Garbage = Garbage
    Skip = Skip
    Limits = {5, 7}
    MaxBatch = 2
    CompactBelow = 2
    Faults = {"restart", "write", "save", "io"}
    MaxCalls = 3
    MaxFaults = 2
SPECIFICATION FairSpec
CHECK_DEADLOCK FALSE
INVARIANTS IInv CrashSafe PendingExact SpaceReclaimed DamageBounded
PROPERTIES ImplementsSpillLog CompactionKeepsUnread ReaderCatchesUp
