SPECIFICATION Spec
CONSTANTS
    Tabs = {t1, t2}
    Topics = {"entries"}
    None = None
    Slots = 1
    PoolSize = 1
    MaxFailures = 2
    MaxChanges = 1
INVARIANTS
    RegistryNamesLive
    
PROPERTIES
    
    EvictedLetsGo
