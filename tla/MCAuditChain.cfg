SPECIFICATION MCSpec
CONSTANTS
    Events <- MCEvents
    u1 = u1
    u2 = u2
    m1 = m1
    Null = Null
    Nil = Nil
    EmptyMap = EmptyMap
    Writers = {w1, w2}
    Verifiers = {v1}
    Anchorers = {a1}
    None = None
    MaxId = 3
    MaxAnchors = 1
    MaxKeys = 2
    ActionNames = {"login"}
    Filters <- MCFilters
    Unspecified = Unspecified
    AuditLimits = {1, 9}
    Width = 4
    DefaultAuditLimit = 2
    MaxAuditLimit = 3
SYMMETRY Symmetry
INVARIANTS
    ChainIntact
    AnchorsAreHistory
    FirstBadIsReal
    ComputedExtendsHead
    AnchorAlarmIsReal
    EditDetected
    PagesAreComplete
PROPERTIES
    ImplementsLog
