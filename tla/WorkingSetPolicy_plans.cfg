SPECIFICATION Spec
CONSTANTS
    Keys <- Lineages
    Roles = {"stable", "active", "assistant", "memory"}
    PinRoles = {"memory"}
    MaxSequences = 3
    MaxBytes = 4
    RequestedReserve = 3
    None = None
    AdmitRoles = {"stable", "active", "assistant", "memory"}
    Sizes = {1, 3, 4, 5}
    TrimTargets <- AllTargets
    MaxHits = 0
INVARIANTS
    SoundPolicy
    EvictionSucceeds
    EvictionOrder
    NoNeedlessEviction
    TrimReachesTarget
    ReserveDelivered
    WorkingPairSurvives
