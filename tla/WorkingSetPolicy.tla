-------------------------- MODULE WorkingSetPolicy --------------------------
(***************************************************************************)
(* A WorkingSetPolicy driven by one caller that commits every plan it      *)
(* makes, the way CacheCoordinator does when the backend does not fail:    *)
(* plan and commit are one step. CacheCoordinator.tla takes them apart.    *)
(***************************************************************************)
EXTENDS PolicyOps

CONSTANTS
    AdmitRoles,   \* the roles callers pass to admit_entry
    Sizes,        \* the payload sizes callers pass
    TrimTargets,  \* the <<n_sequences, n_bytes>> targets callers pass
    MaxHits       \* bound: hits counted per entry

ASSUME InputsAssumption ==
    /\ AdmitRoles \subseteq Roles
    /\ Sizes \subseteq Nat
    /\ TrimTargets \subseteq Nat \X Nat
    /\ MaxHits \in Nat

VARIABLE policy

Init == policy = EmptyPolicy

\* plan_admission, then commit.
AdmitEntry(key, role, nbytes, predecessor) ==
    policy' = Commit(policy, PlanAdmission(policy, key, role, nbytes, predecessor))

\* plan_stable_candidate, then commit.
AdmitStableCandidate(key, nbytes) ==
    LET result == PlanStableCandidate(policy, key, nbytes)
    IN  policy' = Commit(result.policy, result.plan)

\* plan_trim, then commit_trim.
TrimTo(targetSequences, targetBytes) ==
    policy' = CommitTrim(policy, PlanTrim(policy, targetSequences, targetBytes))

\* MaxHits bounds the counter.
ObserveHit(key) ==
    /\ key \in Resident(policy) => policy.entries[key].hits < MaxHits
    /\ policy' = AddHit(policy, key)

\* Only an active entry's predecessor is ever looked at.
Next ==
    \/ \E key \in Keys, role \in AdmitRoles, nbytes \in Sizes :
          \E predecessor \in IF role = "active" THEN Keys \cup {None} ELSE {None} :
            AdmitEntry(key, role, nbytes, predecessor)
    \/ \E key \in Keys, nbytes \in Sizes : AdmitStableCandidate(key, nbytes)
    \/ \E target \in TrimTargets : TrimTo(target[1], target[2])
    \/ \E key \in Keys : ObserveHit(key)

Spec == Init /\ [][Next]_policy

-----------------------------------------------------------------------------
(* What every reachable policy value is.                                   *)

(* Every policy value the machine reaches is well typed.                   *)
TypeOK == WellTyped(policy)

(* The role buckets and the entries are two structures that every removal  *)
(* and insertion must change together: each resident key is filed under    *)
(* the role of its entry, nowhere else, and no bucket holds a ghost; and   *)
(* the insertion order is a strict total order of each bucket, so that     *)
(* `the oldest key of a bucket' always means one key.                      *)
IndexConsistent == Filed(policy) /\ Ordered(policy)

(* The running byte counter equals the sum over the resident entries after *)
(* any run of admissions, replacements, role changes, evictions and trims. *)
AccountingExact == Accounted(policy)

(* Neither hard limit is ever exceeded, however replacements, rotations,   *)
(* compactions and capacity evictions combine.                             *)
WithinBudget == WithinLimits(policy)

(* The stable lane never holds two prefixes: every way in rotates it.      *)
OneStable == SingleStable(policy)

(* The five together, which is what every operation may rely on.           *)
SoundPolicy ==
    TypeOK /\ IndexConsistent /\ AccountingExact /\ WithinBudget /\ OneStable

-----------------------------------------------------------------------------
(* What every plan promises, in every reachable state and for every input. *)

Plans ==
    {PlanAdmission(policy, key, role, nbytes, None) :
        key \in Keys, role \in Roles, nbytes \in Sizes}
    \cup {PlanAdmission(policy, key, "active", nbytes, predecessor) :
        key \in Keys, nbytes \in Sizes, predecessor \in Keys \cap policy.buckets["active"]}

(* Planning refuses a payload only for its size or for a disabled cache:   *)
(* the "cannot_fit" exit of the eviction loop is dead, since evicting      *)
(* everything else always makes room.                                      *)
EvictionSucceeds ==
    \A plan \in Plans : plan.accepted <=> ~ZeroCapacity /\ plan.nbytes <= MaxBytes

(* The residents a plan keeps beside the admitted key.                     *)
Survivors(plan) == Resident(policy) \ (DOMAIN plan.evictions \cup {plan.key})

(* The residents a plan evicts for a reason.                               *)
EvictedFor(plan, reason) ==
    {k \in DOMAIN plan.evictions : plan.evictions[k] = reason}

(* The working set a plan may keep: neither rotated nor compacted away.    *)
RemainingPair(plan) ==
    WorkingKeys(policy) \ (EvictedFor(plan, "stable_rotate")
        \cup EvictedFor(plan, "active_successor") \cup {plan.key})

\* No transient entry goes for room while an entry of a strictly lower rank
\* stays. (Working entries may be spared out of order, and then survive.)
LowestRankFirst(plan) ==
    \A gone \in EvictedFor(plan, "capacity"), kept \in Survivors(plan) :
        Rank(policy.entries[kept].role) < Rank(policy.entries[gone].role)
            => kept \in WorkingKeys(policy)

\* Nothing goes for room or for the pin quota while an older entry of its role
\* stays.
OldestFirst(plan) ==
    \A gone \in EvictedFor(plan, "capacity") \cup EvictedFor(plan, "pin_quota"),
       kept \in Survivors(plan) :
        policy.entries[kept].role = policy.entries[gone].role
            => <<gone, kept>> \in policy.older

(* Eviction goes by rank, and within a role it is first in, first out.     *)
EvictionOrder == \A plan \in Plans : LowestRankFirst(plan) /\ OldestFirst(plan)

(* A resident working set that fits beside a newcomer of the working set   *)
(* survives its admission: the stable prefix and the active tail lose      *)
(* transient entries, never each other, unless compacted or rotated.       *)
WorkingPairSurvives ==
    \A plan \in Plans :
        LET pair == RemainingPair(plan)
        IN  /\ plan.accepted
            /\ plan.role \in WorkingRoles
            /\ Cardinality(pair) + 1 <= MaxSequences
            /\ Bytes(policy, pair) + plan.nbytes <= MaxBytes
            => pair \subseteq Survivors(plan)

(* A plan evicts nothing it could have kept: putting back the most         *)
(* valuable entry evicted for capacity would break a limit.                *)
NoNeedlessEviction ==
    \A plan \in Plans :
        LET capacity == EvictedFor(plan, "capacity")
        IN  plan.accepted /\ capacity # {} =>
            \E k \in capacity :
                LET back == Survivors(plan) \cup {k}
                IN  \/ Cardinality(back) + 1 > MaxSequences
                    \/ Bytes(policy, back) + plan.nbytes > MaxBytes

(* A trim reaches its target, and it touches the working set only when the *)
(* working set alone is over the target.                                   *)
TrimReachesTarget ==
    \A target \in TrimTargets :
        LET evicted == PlanTrim(policy, target[1], target[2])
            kept    == Resident(policy) \ evicted
            working == WorkingKeys(policy)
        IN  /\ Cardinality(kept) <= target[1]
            /\ Bytes(policy, kept) <= target[2]
            /\ \/ evicted \cap working = {}
               \/ Cardinality(working) > target[1]
               \/ Bytes(policy, working) > target[2]

(* Pin roles without a rank of their own never hold more than their limit  *)
(* of the cache. A limit of zero still lets one pin in: the quota evicts   *)
(* another pin and there is none.                                          *)
PinQuota ==
    Cardinality(Pinned(policy)) <= (IF PinLimit = 0 THEN 1 ELSE PinLimit)

(* The reserve reaches the transient entries: when the bytes do not bind,  *)
(* admitting a new transient entry never leaves fewer of them than there   *)
(* were, plus itself, up to the reserve.                                   *)
ReserveDelivered ==
    \A plan \in Plans :
        /\ plan.accepted
        /\ plan.role \notin PinRoles \cup WorkingRoles
        /\ plan.key \notin Resident(policy)
        /\ Bytes(policy, Resident(policy)) + plan.nbytes <= MaxBytes
        => LET before == Cardinality(Resident(policy) \ Pinned(policy))
               after  == Cardinality(Survivors(plan) \ Pinned(policy)) + 1
           IN  after >= before + 1 \/ after >= TransientReserve

=============================================================================
