CONSTANTS
    gw = gw
    app = app
    box = box
    Hosts = {gw, app}
    Edges <- RingEdges
    Rank <- RingRank
    Incidents <- RingIncidents
    MaxBusy = 2
    MaxFaults = 0
SPECIFICATION Spec
INVARIANT SomebodySpeaks
CHECK_DEADLOCK FALSE
