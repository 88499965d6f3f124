SPECIFICATION Spec
CONSTANTS
    Prompts <- TwoPrompts
    StateBytes <- Sequence
    CheckpointBytes <- Checkpoint
    RamLimit = 4
    ReadMayFail = FALSE
    None = None
    MaxHandle = 4
    MaxEpoch = 2
    MaxDeferred = 1
INVARIANT
    BudgetBoundsManagedRam
