SPECIFICATION Spec
CONSTANTS
    Addresses = {"a"}
    Emails = {}
    NoHeader = "none"
    NoEmail = "none"
    Proxies = {"proxy"}
    AuthLoginPerIPPerMin = 2
    AuthLoginPerEmailPerMin = 0
    KDFParamsPerIPPerMin = 0
    RegisterPerIPPerHour = 59
    CompleteMFAPerIPPerMin = 0
    TicksPerMinute = 2
    Stale = 2
    MaxAge = 2
    MaxDebt = 1
    Procedures = {"Authorize", "RefreshToken"}
    Hashing = {"Authorize"}
    Anonymous = {l1}
    Mutations = {m1}
    Confirmed = {c1}
    PoolSize = 2
    Permits = 1
    maxReplayBody = 2
    Chunks = {1, 2}
INVARIANTS
    WindowBound
    
    ReplayedAsSent
PROPERTIES
    RequestsReturn
