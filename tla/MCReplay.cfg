SPECIFICATION Spec
CONSTANTS
    Devices = {d1, d2}
    Requests = {r1}
    NoDevice = NoDevice
    MaxPairs = 3
    MaxPw = 3
    MaxRows = 2
INVARIANTS
    ReplayRevokesSession
