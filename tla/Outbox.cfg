CONSTANTS
    j1 = j1
    j2 = j2
    k1 = k1
    NoKey = NoKey
    Jobs = {j1, j2}
    Workers = {w1, w2}
    Keys = {k1}
    KeyOf <- MCKeyOf
    BatchSize = 2
    Concurrency = 1
    ClaimLease = 2
    BackoffDelays <- MCBackoff
    MarkSentRetries = 2
    Retention = 0
    MaxOverdue = 0
    MaxFaults = 1
SPECIFICATION Spec
INVARIANT TypeOK
INVARIANT DuplicateOnlyAfterLoss
INVARIANT AttemptsBeyondLimitAreLosses
PROPERTY ContractSpec
CHECK_DEADLOCK FALSE
