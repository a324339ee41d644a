CONSTANTS
    w1 = w1
    p1 = p1
    h1 = h1
    Regions = {"loc", "eu"}
    LocalRegion = "loc"
    Runners = {w1}
    Probes = {p1}
    ProbeRegion <- MCProbeRegion
    Handlers = {h1}
    Interval = 1
    Lease = 2
    FailThreshold = 2
    RecoveryThreshold = 1
    MaxBatch = 2
    MaxJobs = 2
    MaxEdits = 1
    MaxFaults = 1
SPECIFICATION Spec
CHECK_DEADLOCK FALSE
INVARIANT TypeOK
INVARIANT AppliedOnce
INVARIANT LastLeaseWins
INVARIANT NewestResultWins
INVARIANT DownIsEarned
PROPERTY JobsSettle
