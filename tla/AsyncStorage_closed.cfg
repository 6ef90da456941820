CONSTANTS
    s1 = s1
    s2 = s2
    Senders <- SendersValue
    BufferSize = 1
    BatchSize = 2
    MaxEntries <- TwoAndOne
    MaxClears = 1
SPECIFICATION Spec
CHECK_DEADLOCK FALSE
INVARIANTS NoSendOnClosed
