SPECIFICATION Spec
CONSTANTS
    Entries = {e1}
    Projects = {p1, p2}
    e1 = e1
    p1 = p1
    p2 = p2
    NoRow = NoRow
    NoProject = NoProject
    Handlers = {h1, h2}
    h1 = h1
    h2 = h2
    MaxRequests = 3
SYMMETRY Symmetry
CONSTRAINT OneColumn
INVARIANTS
    BlobOpens
    CachedWasApplied
PROPERTIES
    NoLostEdit
    AppliedOnce
    ImplementsStore
