SPECIFICATION Spec
CONSTANTS
    MaxUid = 1
    MaxRegistrations = 2
    EvictionPolicy = "Never"
    Faults = {"container", "hook"}
INVARIANTS
    LostDeliveryHidesJobOnly
CHECK_DEADLOCK FALSE
