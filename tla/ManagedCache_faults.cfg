SPECIFICATION Spec
CONSTANTS
    Keys <- TwoKeys
    Roles = {"stable", "active"}
    PinRoles = {}
    MaxSequences = 1
    MaxBytes = 2
    RequestedReserve = None
    StateBytes <- ByTokens
    CheckpointBytes <- NoCheckpoint
    RamLimit = 3
    ReadMayFail = FALSE
    AdmitRoles = {"active"}
    TrimTargets <- SomeTargets
    SplitCalls = FALSE
    LateActions = {"drop"}
    MaxFaults = 2
    MaxHandle = 3
    MaxEpoch = 2
    MaxHits = 1
    MaxSightings = 2
    None = None
INVARIANTS
    TypeOK
    BindingsLive
    PhysicalBudget
    LeaksNeedTwoFaults
    SlotIsSelected
PROPERTIES
    SweepSettles
    CallsReturn
    CallsShorten
