\* Process: a server from its start to its end, of either edition
SPECIFICATION FairSpec
CONSTANTS
    Requests = {r1}
    MaxQueued = 2
    MaxBytes = 2
    MaxBackups = 1
    MaxLines = 2
    MaxFaults = 1
INVARIANTS LoggedLinesReachTheDisk RotationKeepsTheNewest CompleteMeansDone
PROPERTIES SignalEndsTheProcess
CHECK_DEADLOCK FALSE
