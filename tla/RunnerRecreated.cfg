SPECIFICATION Spec
CONSTANTS
    MaxUid = 2
    MaxRegistrations = 0
    EvictionPolicy = "IfNotActive"
    Faults = {"call", "crash", "expiry", "evict", "pod"}
INVARIANTS
    IncarnationOrder
    QuiescentStatus
PROPERTIES
    SparesLiveRunner
    ImplementsLife
    TeardownBeforeRelease
CHECK_DEADLOCK FALSE
