\* A lookup's three requests, other clients, a probe, and two replacements.
CONSTANTS
    None = None
    Surfaces <- SomeSurfaces
    IdSlots <- SomeSlots
    Domains <- SomeDomains
    Namespaces <- OwnAndOther
    Prompts <- SomePrompts
    Claims <- SomeClaims
    MaxReplacements = 2
SPECIFICATION Spec
INVARIANTS
    RequestsAreQualified
    EvidenceServed
    DoctorAgrees
