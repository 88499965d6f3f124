SPECIFICATION Spec
CONSTANTS
    Keys <- TwoKeys
    Roles = {"stable", "active"}
    PinRoles = {}
    MaxSequences = 1
    MaxBytes = 2
    RequestedReserve = None
    StateBytes <- OneByte
    CheckpointBytes <- NoCheckpoint
    RamLimit = 2
    ReadMayFail = TRUE
    AdmitRoles = {"active"}
    TrimTargets <- SomeTargets
    SplitCalls = TRUE
    LateActions = {"clear", "capture", "restore", "drop"}
    MaxFaults = 1
    MaxHandle = 3
    MaxEpoch = 2
    MaxHits = 1
    MaxSightings = 2
    None = None
INVARIANTS
    AuthenticBindings
    SingleOwner
    StaleFacadeHarmless
