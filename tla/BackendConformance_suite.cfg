SPECIFICATION Spec
CHECK_DEADLOCK FALSE
CONSTANTS
    Keys <- SuiteKeys
    Roles = {"stable", "active", "user"}
    PinRoles = {}
    RequestedReserve = None
    Faults = {"one_identity", "exact_only", "wrong_payload", "credits_prompt", "credits_twice", "no_limits", "no_rollback", "swallows_failure", "empty_generation_input"}
    None = None
INVARIANTS
    FailuresAreDeserved
    FaultsAreFound
