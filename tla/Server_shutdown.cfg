CONSTANTS
    MaxGen = 2
    Sessions = {s1}
    Posts <- OnePost
    MaxConnections = 1
    RateLimit = 1
    MaxLines = 2
    Stoppers <- Stopping
    Requests = {r1, r2}
    Payloads <- Bodies
    MaxCalls = 1
    InitialConfig <- First_Config
    Defaults <- Zeroes
SPECIFICATION Spec
CHECK_DEADLOCK FALSE
INVARIANTS ShutdownStopsReceivers
