---------------------------- MODULE BackendContract ----------------------------
(***************************************************************************)
(* What an adapter declares and how it reports reuse: descriptors and      *)
(* lookup observations (src/statebraid/backend/contract.py), namespaces    *)
(* (cache/namespace.py) and generation safety (cache/generation.py). All   *)
(* of it is pure; the modules of the adapters are built from it.           *)
(***************************************************************************)
EXTENDS Integers, Sequences

CONSTANT None  \* Python's None

-----------------------------------------------------------------------------
(* Capabilities and descriptors.                                           *)

Capabilities ==
    {"namespace_isolation", "prefix_lookup", "admission_residency",
     "transactional_mutation", "rollback", "hit_attribution", "generation_safety"}

DependsOn(capability) ==
    CASE capability \in {"admission_residency", "rollback"} -> {"transactional_mutation"}
      [] capability \in {"hit_attribution", "generation_safety"} -> {"prefix_lookup"}
      [] OTHER -> {}

ObservationModes == {"passive", "execution_coupled"}

ASSUME NoneAssumption == None \notin ObservationModes /\ None \notin BOOLEAN

\* A BackendDescriptor: the observation profile is its mode, the qualification
\* profile whether the runtime is qualified; None when there is no profile.
Descriptors ==
    [capabilities : SUBSET Capabilities,
     observation : ObservationModes \cup {None},
     runtimeQualified : BOOLEAN \cup {None}]

\* The descriptors whose constructor does not raise.
Declarable(descriptor) ==
    LET declared == descriptor.capabilities
    IN  /\ \A c \in declared : DependsOn(c) \subseteq declared
        /\ "prefix_lookup" \in declared => descriptor.observation # None
        /\ "generation_safety" \in declared => descriptor.runtimeQualified # None

Observing == {"namespace_isolation", "prefix_lookup", "hit_attribution"}

Managing ==
    Observing \cup {"admission_residency", "transactional_mutation", "rollback"}

IntegrationLevel(declared) ==
    IF Managing \cup {"generation_safety"} \subseteq declared
    THEN "generation-safe-managed"
    ELSE IF Managing \subseteq declared THEN "managed"
    ELSE IF Observing \subseteq declared THEN "observe"
    ELSE IF "namespace_isolation" \in declared THEN "identity-only"
    ELSE "partial"

MLXDescriptor ==
    [capabilities |-> Capabilities, observation |-> "passive",
     runtimeQualified |-> TRUE]

LlamaCppDescriptor ==
    [capabilities |-> {"prefix_lookup", "hit_attribution", "generation_safety"},
     observation |-> "execution_coupled", runtimeQualified |-> FALSE]

ManagedStorageDescriptor ==
    [capabilities |-> {"transactional_mutation"},
     observation |-> None, runtimeQualified |-> FALSE]

ManagedDescriptor ==
    [capabilities |-> {"prefix_lookup", "admission_residency",
                       "transactional_mutation", "hit_attribution",
                       "generation_safety"},
     observation |-> "execution_coupled", runtimeQualified |-> FALSE]

-----------------------------------------------------------------------------
(* Namespaces.                                                             *)

DefaultDomain == "local-default"

MaxTrustDomainBytes == 128

\* A trust-domain label as far as its validation looks: is it a string, is it
\* ASCII, how long is it, and do its characters match the pattern?
ValidDomain(label) ==
    /\ label.string
    /\ label.ascii
    /\ label.bytes \in 1 .. MaxTrustDomainBytes
    /\ label.pattern

\* The label is kept as it is; a request that names none gets the default.
CacheNamespace(identity, domain) == <<identity, domain>>

-----------------------------------------------------------------------------
(* Lookup observations.                                                    *)

Refused == [refused |-> TRUE]

Suffix(prompt, matched) == SubSeq(prompt, matched + 1, Len(prompt))

\* from_backend_result: what a backend said of a prompt, or a refusal.
FromBackendResult(namespace, prompt, payload, remaining) ==
    LET matched == Len(prompt) - Len(remaining)
    IN  IF /\ matched >= 0
           /\ remaining = Suffix(prompt, matched)
           /\ payload = None <=> matched = 0
        THEN [refused |-> FALSE, namespace |-> namespace, prompt |-> prompt,
              remaining |-> remaining, payload |-> payload,
              matched |-> SubSeq(prompt, 1, matched)]
        ELSE Refused

Hit(observation) == observation.matched # <<>>

-----------------------------------------------------------------------------
(* Generation safety.                                                      *)

\* Mutant: only caches that can be trimmed are made safe.
EnsureTrimmableSafe(cache, rest, prompt, canTrim, shorter) ==
    IF cache = None \/ rest # <<>> \/ prompt = <<>> \/ ~canTrim
    THEN [cache |-> cache, rest |-> rest, trimmed |-> FALSE]
    ELSE [cache |-> cache, rest |-> <<prompt[Len(prompt)]>>, trimmed |-> TRUE]

\* ensure_generation_safe_exact_hit. shorter is what fetch_shorter answers
\* for the prompt without its last token; trimmed tells that trim_one ran.
EnsureGenerationSafe(cache, rest, prompt, canTrim, shorter) ==
    LET last == <<prompt[Len(prompt)]>>
    IN  IF cache = None \/ rest # <<>> \/ prompt = <<>>
        THEN [cache |-> cache, rest |-> rest, trimmed |-> FALSE]
        ELSE IF canTrim
        THEN [cache |-> cache, rest |-> last, trimmed |-> TRUE]
        ELSE IF shorter.cache = None
        THEN [cache |-> None, rest |-> prompt, trimmed |-> FALSE]
        ELSE [cache |-> shorter.cache, rest |-> shorter.rest \o last,
              trimmed |-> FALSE]

\* is_generation_safe_hybrid_checkpoint
HybridCheckpoint(tokens, prompt) == Len(tokens) + 1 = Len(prompt)
=============================================================================
