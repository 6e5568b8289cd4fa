SPECIFICATION FairSpec
CONSTANTS
    Names = {r1}
    Templates <- RolloutTemplates
    Counts = {1}
    Strategies = {"OnDelete"}
    Limits = {0}
    Selector = {"runnerset", "app"}
    Hash <- Colliding
    Events = {"template"}
    MaxEvents = 2
    RoleDeletesRevisions = FALSE
PROPERTIES
    CollisionIsAvoided
CHECK_DEADLOCK FALSE
