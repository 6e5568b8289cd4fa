SPECIFICATION Spec
CONSTANTS
    MaxUid = 1
    MaxRegistrations = 1
    EvictionPolicy = "IfNotActive"
    Faults = {"crash", "expiry"}
INVARIANTS
    TypeOK
    QuiescentStatus
PROPERTIES
    TeardownBeforeRelease
    PodStartsWithUsableToken
    ActiveIsProtected
    CompleteIsFinal
    ImplementsLife
CHECK_DEADLOCK FALSE
