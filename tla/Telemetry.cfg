CONSTANTS
    p1 = p1
    p2 = p2
    w1 = w1
    w2 = w2
    Nobody = Nobody
    Projects = {p1, p2}
    Workers = {w1, w2}
    Feeds <- MCFeeds
    MaxBuf = 3
    MaxBytes = 3
    BatchSize = 3
    PoisonThreshold = 2
    MaxUpsets = 1
SPECIFICATION Spec
INVARIANT Accounted
INVARIANT DropsAddUp
INVARIANT BufferInOrder
INVARIANT PurgeIsExact
PROPERTY BufferDrains
PROPERTY DeletedIsGone
