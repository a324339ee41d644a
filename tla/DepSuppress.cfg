CONSTANTS
    h1 = h1
    h2 = h2
    m1 = m1
    Nodes = {h1, h2, m1}
    Rank <- MCRank
SPECIFICATION Spec
INVARIANT TypeOK
INVARIANT ParentDownIsRight
INVARIANT DownRootIsRight
PROPERTY WalkEnds
CHECK_DEADLOCK FALSE
