SPECIFICATION LaneSpec
CONSTANTS
    Keys <- Prefixes
    Roles = {"stable", "active", "memory", "tools"}
    PinRoles = {"memory", "tools"}
    MaxSequences = 3
    MaxBytes = 3
    RequestedReserve = None
    None = None
    AdmitRoles = {"memory", "tools"}
    Sizes = {1}
    TrimTargets <- SomeTargets
    MaxHits = 2
INVARIANTS
    BaselineIsIncumbents
    PinQuota
PROPERTIES
    PromotionNeedsQuietIncumbent
