SPECIFICATION LoopSpec
CONSTANTS
    Keys <- Lineages
    Roles = {"stable", "active", "memory"}
    PinRoles = {"memory"}
    MaxSequences = 2
    MaxBytes = 3
    RequestedReserve = 1
    None = None
    AdmitRoles = {"active", "memory"}
    Sizes = {1, 3}
    TrimTargets <- Targets
    MaxHits = 1
INVARIANTS
    LoopsAgree
PROPERTIES
    ImplementsAtomicPlans
    LoopsEnd
