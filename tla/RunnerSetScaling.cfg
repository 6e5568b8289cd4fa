SPECIFICATION Spec
CONSTANTS
    Names = {r1, r2}
    Templates <- OneTemplate
    Counts = {1, 2}
    Strategies = {"OnDelete"}
    Limits = {0}
    Selector = {"runnerset"}
    Hash <- Distinct
    Events = {"scale", "phase", "remove", "orphan", "adopt", "delete", "lag", "call", "crash"}
    MaxEvents = 3
    RoleDeletesRevisions = FALSE
SYMMETRY NameSymmetry
INVARIANTS
    SetTypeOK
    QuiescentSet
PROPERTIES
    ActiveScaledDownLast
CHECK_DEADLOCK FALSE
