CONSTANTS
    c1 = c1
    c2 = c2
    Schedulers = {s1}
    Evaluators = {e1}
    Channels = {c1, c2}
    Ladder <- MCLadder
    SettleGrace = 1
    Gates <- Gated
    MaxElapsed = 1
    MaxFaults = 2
SPECIFICATION Spec
INVARIANT TypeOK
INVARIANT NoDoubleAlarm
INVARIANT AlarmedCanRecover
INVARIANT NoStepSkipped
INVARIANT AckStopsLadder
PROPERTY LadderCompletes
CHECK_DEADLOCK FALSE
