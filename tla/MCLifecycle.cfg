SPECIFICATION LifeSpec
CONSTANTS
    p1 = p1
    p2 = p2
    Processes = {p1, p2}
    ReleaseOf <- MCRelease
    RiverSteps = 1
INVARIANTS
    ServesOnItsSchema
    KeysAreDurable
PROPERTY
    Settles
