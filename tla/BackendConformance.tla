--------------------------- MODULE BackendConformance ---------------------------
(***************************************************************************)
(* run_backend_conformance (src/statebraid/backend/conformance.py): the    *)
(* seven cases of the suite, run one call after another against a driver   *)
(* that declares some capabilities and has at most one fault. The driver   *)
(* is the fixture of the repository's tests, the MLX facade over a         *)
(* dictionary. Byte counts are in units of five.                           *)
(***************************************************************************)
EXTENDS Integers, Sequences, FiniteSets

CONSTANTS
    Keys,             \* the keys the cases can form
    Roles,
    PinRoles,
    RequestedReserve,
    Faults,           \* the faults of the drivers under test, see Breaks
    None

\* The roles that the cases admit exist and are no pin roles: the fixture
\* creates its policy without pin_roles (policy.py:119). None is no prompt.
ASSUME SuiteAssumption ==
    /\ IsFiniteSet(Roles)
    /\ {"stable", "active", "user"} \subseteq Roles \ PinRoles
    /\ None \notin Seq(Nat)

INSTANCE BackendContract

\* The working-set policy of a driver created with these limits.
Policy(MaxSequences, MaxBytes) == INSTANCE PolicyOps

VARIABLES
    declared,  \* the capabilities the driver declares
    fault,     \* what is wrong with it, None for nothing
    case,      \* the number of the case that runs, or runs next
    script,    \* the calls and checks it has left; None between cases
    driver,    \* the driver of the case
    report     \* the verdicts so far

vars == <<declared, fault, case, script, driver, report>>

-----------------------------------------------------------------------------
(* The cases: what each requires, the limits it asks the factory for, and  *)
(* its calls with what they must show.                                     *)

Identity == [call |-> "identity"]

Seed(domain, tokens, role, nbytes) ==
    [call |-> "seed", domain |-> domain, tokens |-> tokens, role |-> role,
     nbytes |-> nbytes, predecessor |-> None]

Admit(tokens, role, nbytes, predecessor) ==
    [Seed("tenant-a", tokens, role, nbytes)
        EXCEPT !.call = "admit", !.predecessor = predecessor]

FailNextInsert == [call |-> "fail_next_insert"]

AdmitRaises(tokens, role, nbytes, predecessor) ==
    [Admit(tokens, role, nbytes, predecessor) EXCEPT !.call = "admit_raises"]

\* A lookup must match these tokens and, if it checks, yield the payload
\* that was seeded for them.
Lookup(domain, tokens, matched, samePayload) ==
    [call |-> "lookup", domain |-> domain, tokens |-> tokens,
     matched |-> matched, samePayload |-> samePayload]

Credited(domain, tokens, hits) ==
    [call |-> "entry_hits", domain |-> domain, tokens |-> tokens, hits |-> hits]

Contains(tokens, resident) ==
    [call |-> "contains", domain |-> "tenant-a", tokens |-> tokens,
     resident |-> resident]

Measures(counts, nbytes) ==
    [call |-> "resident_stats", counts |-> counts, nbytes |-> nbytes]

GenerationSafeExact(domain, tokens) ==
    [call |-> "generation_safe_exact", domain |-> domain, tokens |-> tokens]

NamespaceIdentity ==
    [requires |-> {"namespace_isolation"},
     limits |-> <<4, 200>>,
     script |-> <<Identity>>]

NamespaceIsolation ==
    [requires |-> {"namespace_isolation", "prefix_lookup"},
     limits |-> <<4, 200>>,
     script |-> <<
        Seed("tenant-a", <<1, 2, 3>>, "stable", 8),
        Lookup("tenant-b", <<1, 2, 3>>, <<>>, FALSE),
        Lookup("tenant-a", <<1, 2, 3>>, <<1, 2, 3>>, TRUE)>>]

\* Mutant: nobody asks what the entry was credited with.
HitAttributionUnchecked ==
    [requires |-> {"prefix_lookup", "hit_attribution"},
     limits |-> <<4, 200>>,
     script |-> <<
        Seed(DefaultDomain, <<2, 3>>, "stable", 8),
        Lookup(DefaultDomain, <<2, 3, 4, 5>>, <<2, 3>>, FALSE),
        Credited(DefaultDomain, <<2, 3, 4, 5>>, None)>>]

HitAttribution ==
    [requires |-> {"prefix_lookup", "hit_attribution"},
     limits |-> <<4, 200>>,
     script |-> <<
        Seed(DefaultDomain, <<2, 3>>, "stable", 8),
        Lookup(DefaultDomain, <<2, 3, 4, 5>>, <<2, 3>>, FALSE),
        Credited(DefaultDomain, <<2, 3>>, 1),
        Credited(DefaultDomain, <<2, 3, 4, 5>>, None)>>]

StableActiveLineage ==
    [requires |-> {"admission_residency"},
     limits |-> <<2, 200>>,
     script |-> <<
        Admit(<<5, 6>>, "stable", 8, None),
        Admit(<<5, 6, 7>>, "active", 10, None),
        Admit(<<5, 6, 7, 8>>, "active", 12, <<5, 6, 7>>),
        Contains(<<5, 6>>, TRUE),
        Contains(<<5, 6, 7>>, FALSE),
        Contains(<<5, 6, 7, 8>>, TRUE),
        Measures({2}, {20})>>]

Capacity ==
    [requires |-> {"admission_residency"},
     limits |-> <<1, 9>>,
     script |-> <<
        Admit(<<10>>, "user", 6, None),
        Admit(<<11>>, "user", 6, None),
        Measures(0 .. 1, 0 .. 9),
        Contains(<<11>>, TRUE)>>]

Rollback ==
    [requires |-> {"admission_residency", "transactional_mutation", "rollback"},
     limits |-> <<2, 200>>,
     script |-> <<
        Admit(<<20, 21>>, "active", 8, None),
        FailNextInsert,
        AdmitRaises(<<20, 21, 22>>, "active", 10, <<20, 21>>),
        Contains(<<20, 21>>, TRUE),
        Contains(<<20, 21, 22>>, FALSE),
        Measures({1}, {8})>>]

GenerationSafety ==
    [requires |-> {"prefix_lookup", "generation_safety"},
     limits |-> <<3, 200>>,
     script |-> <<
        Seed(DefaultDomain, <<30, 31>>, "stable", 8),
        Seed(DefaultDomain, <<30, 31, 32>>, "active", 10),
        GenerationSafeExact(DefaultDomain, <<30, 31, 32>>)>>]

Cases ==
    <<NamespaceIdentity, NamespaceIsolation, HitAttribution, StableActiveLineage,
      Capacity, Rollback, GenerationSafety>>

\* None is no script either, nor what is left of one.
ASSUME ScriptAssumption ==
    \A i \in 1 .. 7 : \A j \in 1 .. Len(Cases[i].script) :
        SubSeq(Cases[i].script, j, Len(Cases[i].script)) # None

-----------------------------------------------------------------------------
(* The driver: a policy, and the payload stored for each key. A payload is *)
(* named by the tokens it was made for.                                    *)

Enforced(limits) ==
    IF fault = "no_limits" THEN <<100, 200>>
    ELSE IF fault = "no_sequence_limit" THEN <<100, limits[2]>>
    ELSE IF fault = "no_byte_limit" THEN <<limits[1], 200>>
    ELSE limits

NewDriver(limits) ==
    [limits |-> Enforced(limits),
     policy |-> Policy(limits[1], limits[2])!EmptyPolicy,
     rows   |-> [k \in {} |-> None],
     armed  |-> FALSE]

KeyOf(domain, tokens) ==
    [namespace |-> CacheNamespace("model",
         IF fault = "one_identity" THEN DefaultDomain ELSE domain),
     tokens |-> tokens]

\* insert_cache or insert_active_successor in one transaction: what the caller
\* gets and the driver it leaves. A planned admission meets the armed failure.
Admission(d, step) ==
    LET key  == KeyOf(step.domain, step.tokens)
        plan == Policy(d.limits[1], d.limits[2])!PlanAdmission(
                    d.policy, key, step.role, step.nbytes,
                    IF step.predecessor = None \/ fault = "keeps_predecessor"
                    THEN None ELSE KeyOf(step.domain, step.predecessor))
        gone == DOMAIN plan.evictions \cup {key}
        committed ==
            [d EXCEPT !.policy = Policy(d.limits[1], d.limits[2])!Commit(@, plan),
                      !.rows = [k \in (DOMAIN @ \ gone) \cup {key} |->
                                   IF k = key THEN step.tokens ELSE @[k]]]
        aborted ==
            IF fault = "no_rollback"
            THEN [d EXCEPT !.policy = Policy(d.limits[1], d.limits[2])!CommitTrim(@, gone),
                           !.rows = [k \in DOMAIN @ \ gone |-> @[k]],
                           !.armed = FALSE]
            ELSE [d EXCEPT !.armed = FALSE]
    IN  IF ~plan.accepted THEN [result |-> "refused", driver |-> d]
        ELSE IF ~d.armed THEN [result |-> "admitted", driver |-> committed]
        ELSE IF fault = "swallows_failure"
        THEN [result |-> "refused", driver |-> aborted]
        ELSE [result |-> "raised", driver |-> aborted]

\* fetch_nearest_cache of the fixture: the longest stored prefix.
Nearest(d, domain, tokens) ==
    LET stored == {n \in 1 .. Len(tokens) :
            /\ fault = "exact_only" => n = Len(tokens)
            /\ KeyOf(domain, SubSeq(tokens, 1, n)) \in DOMAIN d.rows}
        longest == CHOOSE n \in stored : \A m \in stored : m <= n
    IN  IF stored = {} THEN [cache |-> None, rest |-> tokens]
        ELSE [cache |-> IF fault = "wrong_payload" THEN <<>>
                        ELSE d.rows[KeyOf(domain, SubSeq(tokens, 1, longest))],
              rest |-> Suffix(tokens, longest)]

Observed(domain, tokens, found) ==
    FromBackendResult(CacheNamespace("model", domain), tokens, found.cache, found.rest)

\* The facade credits the key it was served from.
AfterLookup(d, domain, observation) ==
    LET credited == IF fault = "credits_prompt" THEN observation.prompt
                    ELSE observation.matched
        AddHit(p) == Policy(d.limits[1], d.limits[2])!AddHit(p, KeyOf(domain, credited))
    IN  IF ~Hit(observation) THEN d
        ELSE [d EXCEPT !.policy =
                 IF fault = "credits_twice" THEN AddHit(AddHit(@)) ELSE AddHit(@)]

\* generation_safe_exact: payloads of the fixture cannot be trimmed.
Safe(d, domain, tokens) ==
    LET found == Nearest(d, domain, tokens)
    IN  Observed(domain, tokens,
            IF fault = "empty_generation_input" THEN found
            ELSE EnsureGenerationSafe(found.cache, found.rest, tokens, FALSE,
                     Nearest(d, domain, SubSeq(tokens, 1, Len(tokens) - 1))))

-----------------------------------------------------------------------------
(* Running a step of a case: did it show what it must, and what is left of *)
(* the driver.                                                             *)

Shown(ok, d) == [ok |-> ok, driver |-> d]

Perform(d, step) ==
    CASE step.call = "identity" ->
            Shown(KeyOf("tenant-a", <<1, 2, 3>>) # KeyOf("tenant-b", <<1, 2, 3>>), d)
      [] step.call \in {"seed", "admit"} ->
            LET outcome == Admission(d, step)
            IN  Shown(outcome.result = "admitted", outcome.driver)
      [] step.call = "admit_raises" ->
            LET outcome == Admission(d, step)
            IN  Shown(outcome.result = "raised", outcome.driver)
      [] step.call = "fail_next_insert" -> Shown(TRUE, [d EXCEPT !.armed = TRUE])
      [] step.call = "lookup" ->
            LET seen == Observed(step.domain, step.tokens,
                                 Nearest(d, step.domain, step.tokens))
            IN  IF seen.refused THEN Shown(FALSE, d)
                ELSE Shown(/\ seen.matched = step.matched
                           /\ step.samePayload => seen.payload = step.matched,
                           AfterLookup(d, step.domain, seen))
      [] step.call = "entry_hits" ->
            LET key == KeyOf(step.domain, step.tokens)
            IN  Shown(step.hits = IF key \in DOMAIN d.policy.entries
                                  THEN d.policy.entries[key].hits ELSE None, d)
      [] step.call = "contains" ->
            Shown(step.resident =
                      (KeyOf(step.domain, step.tokens) \in DOMAIN d.policy.entries), d)
      [] step.call = "resident_stats" ->
            Shown(/\ Cardinality(DOMAIN d.policy.entries) \in step.counts
                  /\ d.policy.nbytes \in step.nbytes, d)
      [] step.call = "generation_safe_exact" ->
            LET seen == Safe(d, step.domain, step.tokens)
            IN  Shown(~seen.refused /\ seen.remaining # <<>>, d)

-----------------------------------------------------------------------------
(* The runner.                                                             *)

Init ==
    /\ declared \in {c \in SUBSET Capabilities :
           Declarable([capabilities |-> c, observation |-> "passive",
                       runtimeQualified |-> FALSE])}
    /\ fault \in Faults \cup {None}
    /\ case = 1
    /\ script = None
    /\ driver = None
    /\ report = <<>>

Required == Cases[case].requires

Finish(status) ==
    /\ report' = Append(report, status)
    /\ case' = case + 1
    /\ script' = None
    /\ driver' = None

Skip ==
    /\ case <= Len(Cases)
    /\ script = None
    /\ ~(Required \subseteq declared)
    /\ Finish("skip")
    /\ UNCHANGED <<declared, fault>>

\* Mutant: a case runs as soon as one capability it requires is declared.
BeginIfAny ==
    /\ case <= Len(Cases)
    /\ script = None
    /\ Required \cap declared # {}
    /\ script' = Cases[case].script
    /\ driver' = NewDriver(Cases[case].limits)
    /\ UNCHANGED <<declared, fault, case, report>>

Begin ==
    /\ case <= Len(Cases)
    /\ script = None
    /\ Required \subseteq declared
    /\ script' = Cases[case].script
    /\ driver' = NewDriver(Cases[case].limits)
    /\ UNCHANGED <<declared, fault, case, report>>

\* An exception or a check that fails ends the case, the last step passes it.
Step ==
    /\ script # None
    /\ LET outcome == Perform(driver, Head(script))
       IN  IF ~outcome.ok THEN Finish("fail")
           ELSE IF Len(script) = 1 THEN Finish("pass")
           ELSE /\ script' = Tail(script)
                /\ driver' = outcome.driver
                /\ UNCHANGED <<case, report>>
    /\ UNCHANGED <<declared, fault>>

Next == Skip \/ Begin \/ Step

Spec == Init /\ [][Next]_vars

-----------------------------------------------------------------------------
(* Properties.                                                             *)

\* The capability that a driver with this fault does not really have.
Breaks(f) ==
    CASE f \in {"one_identity"} -> {"namespace_isolation"}
      [] f \in {"exact_only", "wrong_payload"} -> {"prefix_lookup"}
      [] f \in {"credits_prompt", "credits_twice"} -> {"hit_attribution"}
      [] f \in {"keeps_predecessor", "no_limits", "no_sequence_limit",
                "no_byte_limit"} -> {"admission_residency"}
      [] f \in {"no_rollback", "swallows_failure"} -> {"rollback"}
      [] f = "empty_generation_input" -> {"generation_safety"}
      [] OTHER -> {}

FailedCases == {i \in DOMAIN report : report[i] = "fail"}

(* A failure tells the truth: a case fails only when the driver is broken  *)
(* in a capability the case requires and the descriptor declares; a driver *)
(* without a fault passes or skips whatever it declares.                   *)
FailuresAreDeserved ==
    \A i \in FailedCases :
        /\ Cases[i].requires \subseteq declared
        /\ Breaks(fault) \cap Cases[i].requires # {}

\* What the cases that exercise a broken capability require beside it.
Exposes(f) ==
    CASE f = "wrong_payload" -> {"namespace_isolation", "prefix_lookup"}
      [] f = "exact_only" -> {"prefix_lookup", "hit_attribution"}
      [] f \in {"no_rollback", "swallows_failure"} ->
            {"rollback", "admission_residency"}
      [] OTHER -> Breaks(f)

(* docs: "A capability that is declared but fails its case is a            *)
(* conformance failure". Each fault is found as soon as the capabilities   *)
(* that expose it are declared.                                            *)
FaultsAreFound ==
    case > Len(Cases) /\ fault # None /\ Exposes(fault) \subseteq declared
        => FailedCases # {}

(* docs: the suite covers "independent sequence/byte capacity              *)
(* enforcement". A driver that enforces only one of the two limits fails.  *)
LimitsTestedApart ==
    /\ case > Len(Cases)
    /\ fault \in {"no_sequence_limit", "no_byte_limit"}
    /\ "admission_residency" \in declared
    => FailedCases # {}
=============================================================================
