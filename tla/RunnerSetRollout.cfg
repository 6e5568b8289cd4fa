SPECIFICATION Spec
CONSTANTS
    Names = {r1, r2}
    Templates <- RolloutTemplates
    Counts = {1}
    Strategies = {"OnDelete", "RollingUpdate"}
    Limits = {0}
    Selector = {"runnerset", "app"}
    Hash <- Colliding
    Events = {"template", "strategy", "v1alpha1", "phase"}
    MaxEvents = 3
    RoleDeletesRevisions = TRUE
SYMMETRY NameSymmetry
INVARIANTS
    RollbackIsNewest
    NoOvershoot
    UniqueRevisions
    NeverPanics
    RatioSane
PROPERTIES
    TruncationKeepsUsed
CHECK_DEADLOCK FALSE
