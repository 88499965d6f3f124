\* A server that lists an id twice: doctor and adapter differ.
CONSTANTS
    None = None
    Surfaces <- SomeSurfaces
    IdSlots <- SomeSlots
    Domains <- SomeDomains
    Namespaces <- OwnAndOther
    Prompts <- SomePrompts
    Claims <- SomeClaims
    MaxReplacements = 0
SPECIFICATION Spec
INVARIANTS
    CompatibleIsServed
