SPECIFICATION FirstFairSpec
CONSTANTS
    Names = {r1, r2}
    Templates <- LivenessTemplates
    Counts = {0, 2}
    Strategies = {"RollingUpdate"}
    Limits = {0}
    Selector = {"runnerset"}
    Hash <- Distinct
    Events = {"template", "scale", "delete", "phase", "lag", "call", "crash"}
    MaxEvents = 2
    RoleDeletesRevisions = FALSE
PROPERTIES
    Converges
    SetDeletionCompletes
CHECK_DEADLOCK FALSE
