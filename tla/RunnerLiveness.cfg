SPECIFICATION FairSpec
CONSTANTS
    MaxUid = 1
    MaxRegistrations = 1
    EvictionPolicy = "Never"
    Faults = {"expiry", "hook"}
PROPERTIES
    DeletionCompletes
    RunnerComesUp
    ExpiredTokenIsReplaced
CHECK_DEADLOCK FALSE
