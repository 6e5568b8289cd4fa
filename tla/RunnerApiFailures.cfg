SPECIFICATION Spec
CONSTANTS
    MaxUid = 1
    MaxRegistrations = 1
    EvictionPolicy = "IfNotActive"
    Faults = {"call", "denied", "hook"}
INVARIANTS
    ReleaseOrder
PROPERTIES
    TeardownBeforeRelease
CHECK_DEADLOCK FALSE
