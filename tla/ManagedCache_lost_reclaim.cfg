SPECIFICATION Spec
CONSTANTS
    Keys <- TwoKeys
    Roles = {"stable", "active"}
    PinRoles = {}
    MaxSequences = 1
    MaxBytes = 2
    RequestedReserve = None
    StateBytes <- OneByte
    CheckpointBytes <- NoCheckpoint
    RamLimit = 1
    ReadMayFail = FALSE
    AdmitRoles = {"active"}
    TrimTargets <- SomeTargets
    SplitCalls = FALSE
    LateActions = {}
    MaxFaults = 1
    MaxHandle = 4
    MaxEpoch = 1
    MaxHits = 1
    MaxSightings = 2
    None = None
PROPERTIES
    SweepMatchesRegistry
