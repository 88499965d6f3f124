SPECIFICATION Spec
CONSTANTS
    Prompts <- TwoPrompts
    StateBytes <- Sequence
    CheckpointBytes <- Checkpoint
    RamLimit = 4
    ReadMayFail = TRUE
    None = None
    MaxHandle = 4
    MaxEpoch = 2
    MaxDeferred = 1
INVARIANTS
    StoreSound
PROPERTIES
    ReclaimsOldestUnused
    KeepsItsPromise
