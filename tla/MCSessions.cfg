SPECIFICATION Spec
CONSTANTS
    Devices = {d1, d2}
    Requests = {r1, r2}
    NoDevice = NoDevice
    MaxPairs = 3
    MaxPw = 2
    MaxRows = 2
SYMMETRY Symmetry
CONSTRAINT Explored
VIEW Seen
INVARIANTS
    OnePairPerIssuer
    ExchangedIsDead
    LiveMeansOpen
    ValidIsStamped
    
