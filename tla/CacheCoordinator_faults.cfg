SPECIFICATION Spec
CONSTANTS
    Keys <- ThreeKeys
    Roles = {"stable", "active"}
    PinRoles = {}
    MaxSequences = 2
    MaxBytes = 2
    RequestedReserve = None
    None = None
    Payloads = {p, q}
    AdmitRoles = {"active"}
    Sizes = {1}
    TrimTargets <- SomeTargets
    UndoMayFail = FALSE
    MaxHits = 0
    MaxSightings = 3
INVARIANTS
    Agreement
    PolicySound
    PhysicalBudget
PROPERTIES
    AllOrNothing
    Transactional
