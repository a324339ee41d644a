CONSTANTS
    r1 = r1
    r2 = r2
    Regions = {r1, r2}
    Channels = {1, 2}
    Consensus = "all"
    Parents = {"none", "up", "down"}
    MaxAttempts = 2
    MaxUpsets = 1
SPECIFICATION Spec
INVARIANT NoStrayRecovery
INVARIANT AlarmedIsTold
PROPERTY IncidentFollowsStates
PROPERTY DownIsAlarmed
