CONSTANTS
    w1 = w1
    w2 = w2
    NoOne = NoOne
    Workers = {w1, w2}
    MaxAttempts = 2
    JobTimeout = 1
    LeaseTTL = 2
    TTL = 1
    RowRetention = 2
    StalePartAge = 3
    MaxFaults = 1
SPECIFICATION Spec
INVARIANT RestartIsFree
