CONSTANTS
    MaxGen = 3
    Sessions = {s1}
    Posts <- OnePost
    MaxConnections = 1
    RateLimit = 1
    MaxLines = 2
    Stoppers <- Stopping
    Requests = {r1, r2}
    Payloads <- Bodies
    MaxCalls = 2
    InitialConfig <- First_Config
    Defaults <- Zeroes
SPECIFICATION FairSpec
CHECK_DEADLOCK FALSE
INVARIANTS TypeOK RunningAgrees StoppedIsQuiet LateLines FileMatchesStored UpdatesCompose RuntimeFollows SilentMeansMissed
PROPERTIES RequestsReturn
