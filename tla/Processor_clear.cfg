CONSTANTS
    Lines = {l1, l2}
    Updates = {}
    Configs <- OneOrTwo
    QueueSize = 1
    SpillCap = 1
    StopCap = 1
    DrainBatch = 1
    MaxClears = 1
SPECIFICATION Spec
CHECK_DEADLOCK FALSE
PROPERTIES ClearDropsBacklog
