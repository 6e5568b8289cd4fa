SPECIFICATION Spec
CONSTANTS
    MaxUid = 1
    MaxRegistrations = 1
    EvictionPolicy = "IfNotActive"
    Faults = {}
PROPERTIES
    ActiveWaitsForJob
CHECK_DEADLOCK FALSE
