\* Three requests of two tenants, with room for three caches.
SPECIFICATION Spec
CONSTANTS
    None = None
    Keys <- SomeKeys
    Roles = {"stable", "active", "system", "user", "assistant"}
    PinRoles = {}
    MaxSequences = 3
    MaxBytes = 9
    RequestedReserve = None
    Requests = {r1, r2, r3}
    Labels <- SomeLabels
    Prompts <- SomePrompts
    Generated = {9}
INVARIANTS
    StorageMirrorsPolicy
    ReuseIsExact
    OneTailPerLineage
SYMMETRY Symmetric
CHECK_DEADLOCK FALSE
