CONSTANTS
    c1 = c1
    c2 = c2
    Schedulers = {s1, s2}
    Evaluators = {e1}
    Channels = {c1, c2}
    Ladder <- MCLadder
    SettleGrace = 1
    Gates <- Ungated
    MaxElapsed = 1
    MaxFaults = 1
SPECIFICATION Spec
SYMMETRY Replicas
INVARIANT ReleasedIsRepeated
CHECK_DEADLOCK FALSE
