SPECIFICATION Spec
CONSTANTS
    MaxUid = 1
    MaxRegistrations = 1
    EvictionPolicy = "IfNotActive"
    Faults = {}
PROPERTIES
    PatchKeepsStatus
CHECK_DEADLOCK FALSE
