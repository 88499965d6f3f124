SPECIFICATION StaleSpec
CONSTANTS
    Keys <- ThreeKeys
    Roles = {"stable", "active"}
    PinRoles = {}
    MaxSequences = 1
    MaxBytes = 2
    RequestedReserve = None
    None = None
    Payloads = {p}
    AdmitRoles = {"active"}
    Sizes = {1}
    TrimTargets <- OneTarget
    UndoMayFail = TRUE
    MaxHits = 0
    MaxSightings = 0
INVARIANTS
    StalePlansKeepBooks
PROPERTIES
    DamageConfined
    LockReleased
