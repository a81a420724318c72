SPECIFICATION Spec
CONSTANTS
    Pages = {g1}
    Codes = {c1, c2}
    Code = c1
    Profiles = {desktop, lowmem}
    RecoveryDefault = recovery
    ServerParams = {a1, a2}
    None = None
    MaxRotations = 2
INVARIANT
    RightCodeRecovers
