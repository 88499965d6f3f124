SPECIFICATION Spec
CHECK_DEADLOCK FALSE
CONSTANTS
    Keys <- SuiteKeys
    Roles = {"stable", "active", "user"}
    PinRoles = {}
    RequestedReserve = None
    Faults = {"no_sequence_limit", "no_byte_limit"}
    None = None
INVARIANTS
    LimitsTestedApart
