SPECIFICATION Spec
CONSTANTS
    Names = {r1, r2, r3}
    Templates <- RelabelledTemplates
    Counts = {2}
    Strategies = {"RollingUpdate"}
    Limits = {0}
    Selector = {"runnerset", "app"}
    Hash <- Distinct
    Events = {"template", "phase"}
    MaxEvents = 2
    RoleDeletesRevisions = FALSE
INVARIANTS
    NoOvershoot
CHECK_DEADLOCK FALSE
