SPECIFICATION Spec
CONSTANTS
    MaxEntries = 2
    Titles = {t1, t2}
    t1 = t1
    t2 = t2
    Domains = {d1}
    d1 = d1
    Projects = {p1}
    p1 = p1
    NoProject = NoProject
    Kinds = {0, 1}
    Limits = {0, 1}
    Width = 4
    DefaultListLimit = 2
    MaxListLimit = 3
    MaxBatchGet = 1
    MaxRepeatedField = 1
    MaxTime = 3
CHECK_DEADLOCK FALSE

INVARIANT WalkReachesAll
