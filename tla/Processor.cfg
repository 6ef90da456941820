CONSTANTS
    Lines = {1, 2}
    Updates = {1, 2}
    Configs <- OnOffOrWorkers
    QueueSize = 1
    SpillCap = 1
    StopCap = 1
    DrainBatch = 1
    MaxClears = 1
SPECIFICATION BoundedFairSpec
CHECK_DEADLOCK FALSE
INVARIANTS TypeOK EveryLineOnce WorkersMatchConfig
PROPERTIES AcceptedArrive WorkersSettle StopCompletes
