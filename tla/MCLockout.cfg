SPECIFICATION Spec
CONSTANTS
    Requests = {r1, r2}
    r1 = r1
    r2 = r2
    Threshold = 2
    MaxFailed = 5
    MaxLost = 1
    MaxSessions = 1
SYMMETRY Symmetry
INVARIANTS
    GuessBound
    RefusalsCostTheSame
    RecoverySpentOnce
