CONSTANTS
    gw = gw
    app = app
    box = box
    Hosts = {gw, app, box}
    Edges <- MCEdges
    Rank <- MCRank
    Incidents <- MCIncidents
    MaxBusy = 2
    MaxFaults = 1
SPECIFICATION Spec
INVARIANT GroupIsComplete
INVARIANT NoVolley
PROPERTY MembersAreReleased
CHECK_DEADLOCK FALSE
