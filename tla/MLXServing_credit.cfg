\* An exact repetition on a model whose caches cannot be trimmed.
SPECIFICATION Spec
CONSTANTS
    None = None
    Keys <- SomeKeys
    Roles = {"stable", "active", "system", "user", "assistant"}
    PinRoles = {}
    MaxSequences = 3
    MaxBytes = 9
    RequestedReserve = None
    Requests = {r1, r2}
    Labels <- SomeLabels
    Prompts <- SomePrompts
    Generated = {9}
PROPERTIES
    CreditedIsServed
CHECK_DEADLOCK FALSE
