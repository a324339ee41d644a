CONSTANTS
    w1 = w1
    w2 = w2
    NoOne = NoOne
    Workers = {w1, w2}
    MaxAttempts = 2
    JobTimeout = 1
    LeaseTTL = 2
    TTL = 1
    RowRetention = 2
    StalePartAge = 3
    MaxFaults = 2
SPECIFICATION Spec
INVARIANT TypeOK
INVARIANT DoneHasFile
INVARIANT OneMail
PROPERTY VerdictIsFinal
PROPERTY JobEnds
PROPERTY FilesGo
