CONSTANTS
    s1 = s1
    s2 = s2
    Senders <- SendersValue
    BufferSize = 1
    BatchSize = 2
    MaxEntries <- TwoAndOne
    MaxClears = 1
SPECIFICATION FairSpec
CHECK_DEADLOCK FALSE
INVARIANTS TypeOK EveryEntryOnce OrderKept BacklogNeverHidden BufferedExact DroppedExact ClearReachesAll CloseFlushes
PROPERTIES SendersReturn MemoryEmpties ClearReturns
