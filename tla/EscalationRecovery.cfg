CONSTANTS
    c1 = c1
    c2 = c2
    Schedulers = {s1, s2}
    Evaluators = {e1}
    Channels = {c1, c2}
    Ladder <- MCLadder
    SettleGrace = 1
    Gates <- Ungated
    MaxElapsed = 1
    MaxFaults = 0
SPECIFICATION Spec
SYMMETRY Replicas
INVARIANT RecoveryNeverFirst
CHECK_DEADLOCK FALSE
