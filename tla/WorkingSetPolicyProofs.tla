----------------------- MODULE WorkingSetPolicyProofs -----------------------
(***************************************************************************)
(* Safety of WorkingSetPolicy and of its stable lane for every set of keys *)
(* and roles and every capacity. The conjunction of the invariants is      *)
(* inductive: every step commits an executable plan or removes entries.    *)
(* At the end, that EvictionLoop implements WorkingSetPolicy.              *)
(***************************************************************************)
EXTENDS StableLane, EvictionLoop, PolicyOpsProofs

PolicyInv ==
    /\ Coherent(policy)
    /\ WithinLimits(policy)
    /\ SingleStable(policy)

(* A new policy is empty, and an empty policy satisfies the invariant.     *)
LEMMA InitInv == Init => PolicyInv
BY EmptySafe DEF Init, PolicyInv

(* Every operation preserves the invariant.                                *)
LEMMA NextInv == PolicyInv /\ [Next]_policy => PolicyInv'
<1> SUFFICES ASSUME PolicyInv, [Next]_policy PROVE PolicyInv'
  OBVIOUS
<1> USE DEF PolicyInv
<1>1. ASSUME NEW key \in Keys, NEW role \in AdmitRoles, NEW nbytes \in Sizes,
             NEW predecessor \in Keys \cup {None},
             AdmitEntry(key, role, nbytes, predecessor)
      PROVE  PolicyInv'
  <2> DEFINE plan == PlanAdmission(policy, key, role, nbytes, predecessor)
  <2>1. role \in Roles /\ nbytes \in Nat
    BY InputsAssumption
  <2>2. plan.accepted => Executable(policy, plan)
    BY <2>1, AdmissionPlan
  <2>3. policy' = Commit(policy, plan)
    BY <1>1 DEF AdmitEntry
  <2> HIDE DEF plan
  <2>4. QED
    BY <2>2, <2>3, CommitSafe
<1>2. ASSUME NEW key \in Keys, NEW nbytes \in Sizes, AdmitStableCandidate(key, nbytes)
      PROVE  PolicyInv'
  <2> DEFINE result == PlanStableCandidate(policy, key, nbytes)
  <2>1. nbytes \in Nat
    BY InputsAssumption
  <2>2. /\ Coherent(result.policy)
        /\ WithinLimits(result.policy)
        /\ SingleStable(result.policy)
        /\ result.plan.accepted => Executable(result.policy, result.plan)
    BY <2>1, StableCandidatePlan
  <2>3. policy' = Commit(result.policy, result.plan)
    BY <1>2 DEF AdmitStableCandidate
  <2> HIDE DEF result
  <2>4. QED
    BY <2>2, <2>3, CommitSafe
<1>3. ASSUME NEW target \in TrimTargets, TrimTo(target[1], target[2])
      PROVE  PolicyInv'
  BY <1>3, TrimSafe DEF TrimTo
<1>4. ASSUME NEW key \in Keys, ObserveHit(key)
      PROVE  PolicyInv'
  BY <1>4, HitCoherent DEF ObserveHit
<1>5. CASE UNCHANGED policy
  BY <1>5
<1>6. QED
  BY <1>1, <1>2, <1>3, <1>4, <1>5 DEF Next

(* The invariant holds throughout.                                         *)
THEOREM PolicyInvariant == Spec => []PolicyInv
<1>1. QED
  BY InitInv, NextInv, PTL DEF Spec

(* The bookkeeping, the limits and the stable lane are right in every      *)
(* reachable state, whatever the keys, the roles and the capacity are.     *)
THEOREM PolicySoundness == Spec => []SoundPolicy
<1>1. PolicyInv => SoundPolicy
  BY DEF PolicyInv, Coherent, SoundPolicy, TypeOK, IndexConsistent,
         AccountingExact, WithinBudget, OneStable
<1>2. QED
  BY <1>1, PolicyInvariant, PTL

(* Every reachable policy value is well typed.                             *)
THEOREM TypeCorrect == Spec => []TypeOK
<1>1. PolicyInv => TypeOK
  BY DEF PolicyInv, Coherent, TypeOK
<1>2. QED
  BY <1>1, PolicyInvariant, PTL

(* The role buckets file exactly the resident entries, each under its own  *)
(* role, and the order within every bucket is total.                       *)
THEOREM IndexCorrect == Spec => []IndexConsistent
<1>1. PolicyInv => IndexConsistent
  BY DEF PolicyInv, Coherent, IndexConsistent
<1>2. QED
  BY <1>1, PolicyInvariant, PTL

(* The byte counter never drifts from the sum over the entries.            *)
THEOREM AccountingCorrect == Spec => []AccountingExact
<1>1. PolicyInv => AccountingExact
  BY DEF PolicyInv, Coherent, AccountingExact
<1>2. QED
  BY <1>1, PolicyInvariant, PTL

(* Neither max_sequences nor max_bytes is ever exceeded.                   *)
THEOREM BudgetRespected == Spec => []WithinBudget
<1>1. PolicyInv => WithinBudget
  BY DEF PolicyInv, WithinBudget
<1>2. QED
  BY <1>1, PolicyInvariant, PTL

(* The stable lane holds at most one prefix.                               *)
THEOREM StableLaneSingle == Spec => []OneStable
<1>1. PolicyInv => OneStable
  BY DEF PolicyInv, OneStable
<1>2. QED
  BY <1>1, PolicyInvariant, PTL

(* In every reachable state, for every input, a plan is refused only for a *)
(* disabled cache or a payload over the byte limit: "cannot_fit" is dead.  *)
THEOREM CannotFitUnreachable == Spec => []EvictionSucceeds
<1>1. PolicyInv => EvictionSucceeds
  <2> SUFFICES ASSUME PolicyInv, NEW plan \in Plans
               PROVE  plan.accepted <=> ~ZeroCapacity /\ plan.nbytes <= MaxBytes
    BY DEF EvictionSucceeds
  <2>1. \E key \in Keys, role \in Roles, nbytes \in Sizes, predecessor \in Keys \cup {None} :
            plan = PlanAdmission(policy, key, role, nbytes, predecessor)
    BY RolesAssumption DEF Plans
  <2>2. PICK key \in Keys, role \in Roles, nbytes \in Sizes, predecessor \in Keys \cup {None} :
            plan = PlanAdmission(policy, key, role, nbytes, predecessor)
    BY <2>1
  <2>3. nbytes \in Nat
    BY InputsAssumption
  <2>4. QED
    BY <2>2, <2>3, AdmissionPlan DEF PolicyInv
<1>2. QED
  BY <1>1, PolicyInvariant, PTL

-----------------------------------------------------------------------------
(* What the plans evict. The two passes of the eviction loop are an order, *)
(* TakenBefore, and what the loop takes is closed under it: a victim was   *)
(* needed although all that go before it had gone, so these went as well.  *)

(* The buckets hold the residents and nothing else.                        *)
LEMMA IndexedResident ==
    ASSUME NEW p, Coherent(p)
    PROVE  Indexed(p) = Resident(p)
BY DEF Coherent, WellTyped, EntryState, Filed, Indexed

(* What goes before a victim is a victim.                                  *)
LEMMA VictimsClosed ==
    ASSUME NEW p, Coherent(p), NEW key, NEW nbytes \in Nat, NEW forced, NEW protected,
           NEW v \in CapacityVictims(p, key, nbytes, forced, protected),
           NEW u \in Resident(p) \ (forced \cup {key}),
           TakenBefore(p, protected, u, v)
    PROVE  u \in CapacityVictims(p, key, nbytes, forced, protected)
<1> DEFINE candidates == Indexed(p) \ (forced \cup {key})
           Earlier(w) == {x \in candidates : TakenBefore(p, protected, x, w)}
<1>1. candidates = Resident(p) \ (forced \cup {key})
  BY IndexedResident
<1>2. v \in candidates /\ ProjectedOverLimit(p, key, nbytes, forced \cup Earlier(v))
  BY DEF CapacityVictims
<1>3. Earlier(u) \subseteq Earlier(v)
  BY <1>1, <1>2, TakenOrder
<1>4. (forced \cup Earlier(u)) \subseteq (forced \cup Earlier(v))
  BY <1>3
<1>5. ProjectedOverLimit(p, key, nbytes, forced \cup Earlier(u))
  <2> HIDE DEF Earlier
  <2>1. QED
    BY <1>2, <1>4, OverLimitMonotone
<1>6. QED
  BY <1>1, <1>5 DEF CapacityVictims

-----------------------------------------------------------------------------
(* The parts of a plan.                                                    *)

Compacted(p, key, role, predecessor) == ActivePredecessor(p, key, role, predecessor)

Quota(p, key, role, predecessor) ==
    PinQuotaVictim(p, key, role,
        StableRotation(p, key, role) \cup Compacted(p, key, role, predecessor))

Forced(p, key, role, predecessor) ==
    StableRotation(p, key, role) \cup Compacted(p, key, role, predecessor)
        \cup Quota(p, key, role, predecessor)

Spared(p, key, role, nbytes, predecessor) ==
    ProtectedKeys(p, key, role, nbytes, Forced(p, key, role, predecessor))

Taken(p, key, role, nbytes, predecessor) ==
    CapacityVictims(p, key, nbytes, Forced(p, key, role, predecessor),
                    Spared(p, key, role, nbytes, predecessor))

(* Each eviction has the reason of the part it comes from.                 *)
LEMMA PlanParts ==
    ASSUME NEW p, NEW key, NEW role, NEW nbytes, NEW predecessor, NEW plan,
           plan = PlanAdmission(p, key, role, nbytes, predecessor)
    PROVE  /\ plan.key = key /\ plan.role = role /\ plan.nbytes = nbytes
           /\ \/ ~plan.accepted /\ DOMAIN plan.evictions = {}
              \/ LET rotated   == StableRotation(p, key, role)
                     compacted == Compacted(p, key, role, predecessor)
                     quota     == Quota(p, key, role, predecessor)
                     taken     == Taken(p, key, role, nbytes, predecessor)
                 IN  /\ DOMAIN plan.evictions = rotated \cup compacted \cup quota \cup taken
                     /\ EvictedFor(plan, "stable_rotate") = rotated
                     /\ EvictedFor(plan, "active_successor") = compacted \ rotated
                     /\ EvictedFor(plan, "pin_quota") = quota \ (rotated \cup compacted)
                     /\ EvictedFor(plan, "capacity")
                           = taken \ (rotated \cup compacted \cup quota)
<1> DEFINE rotated   == StableRotation(p, key, role)
           compacted == Compacted(p, key, role, predecessor)
           quota     == Quota(p, key, role, predecessor)
           taken     == Taken(p, key, role, nbytes, predecessor)
           evicted   == rotated \cup compacted \cup quota \cup taken
           reason(k) == IF k \in rotated THEN "stable_rotate"
                        ELSE IF k \in compacted THEN "active_successor"
                        ELSE IF k \in quota THEN "pin_quota" ELSE "capacity"
<1>1. CASE ZeroCapacity \/ nbytes > MaxBytes
  BY <1>1 DEF PlanAdmission, Refusal
<1>2. CASE ~(ZeroCapacity \/ nbytes > MaxBytes)
  <2>1. /\ plan.key = key /\ plan.role = role /\ plan.nbytes = nbytes
        /\ plan.evictions = [k \in evicted |-> reason(k)]
    BY <1>2, Zenon DEF PlanAdmission, Compacted, Quota, Forced, Spared, Taken
  <2> HIDE DEF rotated, compacted, quota, taken
  <2>2. /\ DOMAIN plan.evictions = evicted
        /\ \A k \in evicted : plan.evictions[k] = reason(k)
    BY <2>1
  <2>3. /\ EvictedFor(plan, "stable_rotate") = rotated
        /\ EvictedFor(plan, "active_successor") = compacted \ rotated
        /\ EvictedFor(plan, "pin_quota") = quota \ (rotated \cup compacted)
        /\ EvictedFor(plan, "capacity") = taken \ (rotated \cup compacted \cup quota)
    BY <2>2 DEF EvictedFor
  <2>4. QED
    BY <2>1, <2>2, <2>3 DEF rotated, compacted, quota, taken
<1>3. QED
  BY <1>1, <1>2

(* A plan that is made has such parts; its key and size are those of a     *)
(* caller.                                                                 *)
LEMMA PlansParts ==
    ASSUME NEW plan \in Plans
    PROVE  \E key \in Keys, role \in Roles, nbytes \in Nat,
              predecessor \in Keys \cup {None} :
               plan = PlanAdmission(policy, key, role, nbytes, predecessor)
BY RolesAssumption, InputsAssumption DEF Plans

(* Two candidates of one role are spared together or not at all.           *)
LEMMA SparedByRole ==
    ASSUME NEW p, Coherent(p), NEW key, NEW role, NEW nbytes, NEW predecessor,
           NEW j \in Resident(p) \ (Forced(p, key, role, predecessor) \cup {key}),
           NEW k \in Resident(p) \ (Forced(p, key, role, predecessor) \cup {key})
    PROVE  LET spared == Spared(p, key, role, nbytes, predecessor)
           IN  /\ j \in spared => j \in WorkingKeys(p)
               /\ p.entries[j].role = p.entries[k].role =>
                     (j \in spared <=> k \in spared)
<1> DEFINE forced == Forced(p, key, role, predecessor)
           spared == Spared(p, key, role, nbytes, predecessor)
<1>1. \/ spared = {}
      \/ spared = (WorkingKeys(p) \ forced) \cup (IF role \in WorkingRoles THEN {key} ELSE {})
  BY DEF Spared, ProtectedKeys
<1>2. \A i \in {j, k} : i \in WorkingKeys(p) <=> p.entries[i].role \in WorkingRoles
  BY RolesAssumption DEF Coherent, Filed, WorkingKeys, WorkingRoles
<1> HIDE DEF forced, spared
<1>3. \A i \in {j, k} : i \in spared <=> spared # {} /\ i \in WorkingKeys(p)
  BY <1>1 DEF forced
<1>4. QED
  BY <1>2, <1>3 DEF spared

(* Eviction for room takes the lower ranks first, but for the working set. *)
LEMMA CapacityByRank ==
    ASSUME NEW p, Coherent(p), NEW key \in Keys, NEW role \in Roles, NEW nbytes \in Nat,
           NEW predecessor,
           NEW gone \in Taken(p, key, role, nbytes, predecessor),
           gone \in Resident(p) \ (Forced(p, key, role, predecessor) \cup {key}),
           NEW kept \in Resident(p) \ (Forced(p, key, role, predecessor)
                            \cup Taken(p, key, role, nbytes, predecessor) \cup {key})
    PROVE  /\ Rank(p.entries[kept].role) < Rank(p.entries[gone].role) =>
                 kept \in WorkingKeys(p)
           /\ p.entries[kept].role = p.entries[gone].role => <<gone, kept>> \in p.older
<1> DEFINE forced == Forced(p, key, role, predecessor)
           spared == Spared(p, key, role, nbytes, predecessor)
           taken  == Taken(p, key, role, nbytes, predecessor)
<1>1. /\ kept \in Resident(p) \ (forced \cup {key})
      /\ gone \in Resident(p) \ (forced \cup {key}) /\ kept \notin taken
  OBVIOUS
<1>2. ~TakenBefore(p, spared, kept, gone)
  <2> HIDE DEF forced, spared
  <2>1. taken = CapacityVictims(p, key, nbytes, forced, spared)
    BY DEF Taken, forced, spared
  <2> HIDE DEF taken
  <2>2. gone \in CapacityVictims(p, key, nbytes, forced, spared)
    BY <2>1 DEF taken
  <2>3. QED
    BY <1>1, <2>1, <2>2, VictimsClosed
<1>3. /\ kept \in spared => kept \in WorkingKeys(p)
      /\ p.entries[kept].role = p.entries[gone].role => (kept \in spared <=> gone \in spared)
  BY <1>1, SparedByRole
<1>4. EvictedBefore(p, kept, gone) <=>
         LET r == p.entries[kept].role
             s == p.entries[gone].role
         IN  \/ Rank(r) < Rank(s)
             \/ Rank(r) = Rank(s) /\ p.opened[r] < p.opened[s]
             \/ r = s /\ <<kept, gone>> \in p.older
  BY <1>1, EvictedBeforeByRole
<1> HIDE DEF forced, spared, taken
<1>5. ASSUME Rank(p.entries[kept].role) < Rank(p.entries[gone].role)
      PROVE  kept \in WorkingKeys(p)
  BY <1>2, <1>3, <1>4, <1>5 DEF TakenBefore
<1>6. ASSUME p.entries[kept].role = p.entries[gone].role
      PROVE  <<gone, kept>> \in p.older
  <2>1. <<kept, gone>> \notin p.older
    BY <1>2, <1>3, <1>4, <1>6 DEF TakenBefore
  <2>2. /\ p.entries[gone].role \in Roles
        /\ gone \in p.buckets[p.entries[gone].role]
        /\ kept \in p.buckets[p.entries[gone].role]
    BY <1>1, <1>6, EvictedBeforeByRole DEF Coherent, Filed
  <2>3. gone # kept
    BY <1>1 DEF taken
  <2>4. QED
    BY <2>1, <2>2, <2>3 DEF Coherent, Ordered
<1>7. QED
  BY <1>5, <1>6

(* The pin that makes room is the oldest of its role.                      *)
LEMMA QuotaByAge ==
    ASSUME NEW p, Coherent(p), NEW key, NEW role, NEW predecessor,
           NEW gone \in Quota(p, key, role, predecessor),
           NEW kept \in Resident(p) \ Forced(p, key, role, predecessor),
           p.entries[kept].role = p.entries[gone].role
    PROVE  <<gone, kept>> \in p.older
<1> DEFINE excluded == StableRotation(p, key, role) \cup Compacted(p, key, role, predecessor)
           pins == (UNION {p.buckets[r] : r \in {q \in Roles : Rank(q) >= PinRankMin}})
                   \ excluded
<1>1. gone \in OldestPin(p, excluded)
  BY DEF Quota, PinQuotaVictim
<1>2. gone \in pins /\ \A j \in pins \ {gone} : EvictedBefore(p, gone, j)
  BY <1>1 DEF OldestPin
<1>3. gone \in Resident(p) /\ Rank(p.entries[gone].role) >= PinRankMin
  <2>1. PICK r \in Roles : Rank(r) >= PinRankMin /\ gone \in p.buckets[r]
    BY <1>2
  <2>2. QED
    BY <2>1 DEF Coherent, Filed
<1>4. p.entries[kept].role \in Roles /\ kept \in p.buckets[p.entries[kept].role]
  BY EvictedBeforeByRole DEF Coherent, Filed
<1>5. kept \notin excluded /\ kept # gone
  BY DEF Forced
<1>6. kept \in pins
  <2> HIDE DEF excluded
  <2>1. QED
    BY <1>3, <1>4, <1>5
<1>7. EvictedBefore(p, gone, kept)
  <2> HIDE DEF pins
  <2>1. QED
    BY <1>2, <1>5, <1>6
<1>8. /\ Rank(p.entries[kept].role) \in Int
      /\ p.opened[p.entries[kept].role] \in Nat
  BY <1>4, RankType DEF Coherent, WellTyped
<1>9. QED
  BY <1>3, <1>7, <1>8, EvictedBeforeByRole

(* In every reachable state, for every input, eviction for room goes by    *)
(* rank, but for the working set, and within a role by age, as does the    *)
(* eviction of pins for their quota.                                       *)
THEOREM EvictionOrdered == Spec => []EvictionOrder
<1>1. ASSUME PolicyInv, NEW plan \in Plans, NEW kept \in Survivors(plan)
      PROVE  /\ \A gone \in EvictedFor(plan, "capacity") :
                   /\ Rank(policy.entries[kept].role) < Rank(policy.entries[gone].role)
                         => kept \in WorkingKeys(policy)
                   /\ policy.entries[kept].role = policy.entries[gone].role
                         => <<gone, kept>> \in policy.older
             /\ \A gone \in EvictedFor(plan, "pin_quota") :
                   policy.entries[kept].role = policy.entries[gone].role
                         => <<gone, kept>> \in policy.older
  <2>0. Coherent(policy)
    BY <1>1 DEF PolicyInv
  <2>1. PICK key \in Keys, role \in Roles, nbytes \in Nat,
               predecessor \in Keys \cup {None} :
            plan = PlanAdmission(policy, key, role, nbytes, predecessor)
    BY PlansParts
  <2> DEFINE rotated   == StableRotation(policy, key, role)
             compacted == Compacted(policy, key, role, predecessor)
             quota     == Quota(policy, key, role, predecessor)
             taken     == Taken(policy, key, role, nbytes, predecessor)
             forced    == Forced(policy, key, role, predecessor)
  <2>2. CASE DOMAIN plan.evictions = {}
    BY <2>2 DEF EvictedFor
  <2>3. CASE DOMAIN plan.evictions # {}
    <3>1. /\ plan.key = key
          /\ DOMAIN plan.evictions = rotated \cup compacted \cup quota \cup taken
          /\ EvictedFor(plan, "pin_quota") = quota \ (rotated \cup compacted)
          /\ EvictedFor(plan, "capacity") = taken \ (rotated \cup compacted \cup quota)
      BY <2>1, <2>3, PlanParts
    <3>2. forced = rotated \cup compacted \cup quota
      BY DEF Forced
    <3>3. taken \subseteq Resident(policy) \ (forced \cup {key})
      BY <2>0, IndexedResident DEF Taken, CapacityVictims
    <3> HIDE DEF rotated, compacted, quota, taken, forced
    <3>4. kept \in Resident(policy) \ (forced \cup taken \cup {key})
      BY <3>1, <3>2 DEF Survivors
    <3>5. ASSUME NEW gone \in EvictedFor(plan, "capacity")
          PROVE  /\ Rank(policy.entries[kept].role) < Rank(policy.entries[gone].role)
                       => kept \in WorkingKeys(policy)
                 /\ policy.entries[kept].role = policy.entries[gone].role
                       => <<gone, kept>> \in policy.older
      <4>1. gone \in taken /\ gone \in Resident(policy) \ (forced \cup {key})
        BY <3>1, <3>3, <3>5
      <4>2. QED
        BY <2>0, <3>4, <4>1, CapacityByRank DEF taken, forced
    <3>6. ASSUME NEW gone \in EvictedFor(plan, "pin_quota"),
                 policy.entries[kept].role = policy.entries[gone].role
          PROVE  <<gone, kept>> \in policy.older
      <4>1. gone \in quota /\ kept \in Resident(policy) \ forced
        BY <3>1, <3>4, <3>6
      <4>2. QED
        BY <2>0, <3>6, <4>1, QuotaByAge DEF quota, forced
    <3>7. QED
      BY <3>5, <3>6
  <2>4. QED
    BY <2>2, <2>3
<1>2. PolicyInv => EvictionOrder
  BY <1>1 DEF EvictionOrder, LowestRankFirst, OldestFirst
<1>3. QED
  BY <1>2, PolicyInvariant, PTL

-----------------------------------------------------------------------------
(* The last victim. The victim order is total, for the buckets of a rank   *)
(* are numbered, so what goes before the last victim is all the rest.      *)

LEMMA TakenTotal ==
    ASSUME NEW p, Coherent(p), Numbered(p), NEW protected, NEW u \in Resident(p),
           NEW v \in Resident(p), u # v
    PROVE  TakenBefore(p, protected, u, v) \/ TakenBefore(p, protected, v, u)
BY EvictedBeforeTotal DEF TakenBefore

LEMMA LastVictim ==
    ASSUME NEW p, Coherent(p), Numbered(p), NEW key, NEW nbytes \in Nat, NEW forced,
           NEW protected, NEW victims,
           victims = CapacityVictims(p, key, nbytes, forced, protected), victims # {}
    PROVE  \E v \in victims : ProjectedOverLimit(p, key, nbytes, forced \cup (victims \ {v}))
<1> DEFINE Earlier(v) == {u \in Indexed(p) \ (forced \cup {key}) :
                             TakenBefore(p, protected, u, v)}
<1>1. /\ victims \subseteq Resident(p) \ (forced \cup {key})
      /\ \A v \in victims : ProjectedOverLimit(p, key, nbytes, forced \cup Earlier(v))
  BY IndexedResident DEF CapacityVictims
<1>2. PICK v \in victims : \A u \in victims : ~TakenBefore(p, protected, v, u)
  BY <1>1, TakenExtremes
<1>3. \A u \in victims \ {v} : TakenBefore(p, protected, u, v)
  BY <1>1, <1>2, TakenTotal
<1>4. victims \ {v} \subseteq Earlier(v)
  BY <1>1, <1>3, IndexedResident
<1> HIDE DEF Earlier
<1>5. (forced \cup (victims \ {v})) \subseteq (forced \cup Earlier(v))
  BY <1>4
<1>6. QED
  BY <1>1, <1>5, OverLimitMonotone

(* No bucket of a rank has a number at first.                              *)
LEMMA NumberedInit == Init => Numbered(policy)
<1>1. ASSUME Init, NEW r \in Roles
      PROVE  /\ policy.buckets[r] = {} /\ policy.opened[r] = 0
             /\ Cardinality(Peers(policy, r)) = 0
  <2>1. policy.buckets[r] = {} /\ \A s \in Roles : policy.opened[s] = 0
    BY <1>1 DEF Init, EmptyPolicy
  <2>2. Peers(policy, r) = {}
    BY <2>1 DEF Peers
  <2>3. QED
    BY <2>1, <2>2, FS_EmptySet
<1>2. QED
  BY <1>1 DEF Numbered

(* Every step keeps the buckets of a rank numbered.                        *)
LEMMA NumberedNext == PolicyInv /\ Numbered(policy) /\ [Next]_policy => Numbered(policy)'
<1> SUFFICES ASSUME PolicyInv, Numbered(policy), [Next]_policy PROVE Numbered(policy)'
  OBVIOUS
<1>0. Coherent(policy) /\ WithinLimits(policy) /\ SingleStable(policy)
  BY DEF PolicyInv
<1>1. ASSUME NEW key \in Keys, NEW role \in AdmitRoles, NEW nbytes \in Sizes,
             NEW predecessor \in Keys \cup {None},
             AdmitEntry(key, role, nbytes, predecessor)
      PROVE  Numbered(policy)'
  <2> DEFINE plan == PlanAdmission(policy, key, role, nbytes, predecessor)
  <2>1. plan.accepted => plan.role \in Roles
    BY <1>0, InputsAssumption, AdmissionPlan DEF Executable
  <2>2. policy' = Commit(policy, plan)
    BY <1>1 DEF AdmitEntry
  <2> HIDE DEF plan
  <2>3. QED
    BY <1>0, <2>1, <2>2, NumberedKept
<1>2. ASSUME NEW key \in Keys, NEW nbytes \in Sizes, AdmitStableCandidate(key, nbytes)
      PROVE  Numbered(policy)'
  <2> DEFINE result == PlanStableCandidate(policy, key, nbytes)
  <2>1. nbytes \in Nat
    BY InputsAssumption
  <2>2. /\ Coherent(result.policy)
        /\ result.plan.accepted => Executable(result.policy, result.plan)
    BY <1>0, <2>1, StableCandidatePlan
  <2>3. CandidateOutcome(policy, key, nbytes, result)
    BY <1>0, <2>1, StableCandidateShape
  <2>4. policy' = Commit(result.policy, result.plan)
    BY <1>2 DEF AdmitStableCandidate
  <2> HIDE DEF result
  <2>5. Numbered(result.policy)
    BY <1>0, <2>3, NumberedKept DEF CandidateOutcome
  <2>6. QED
    BY <2>2, <2>4, <2>5, NumberedKept DEF Executable
<1>3. ASSUME NEW target \in TrimTargets, TrimTo(target[1], target[2])
      PROVE  Numbered(policy)'
  BY <1>0, <1>3, NumberedKept DEF TrimTo
<1>4. ASSUME NEW key \in Keys, ObserveHit(key)
      PROVE  Numbered(policy)'
  BY <1>0, <1>4, NumberedKept DEF ObserveHit
<1>5. CASE UNCHANGED policy
  BY <1>5 DEF Numbered, Peers
<1>6. QED
  BY <1>1, <1>2, <1>3, <1>4, <1>5 DEF Next

(* In every reachable state the buckets of a rank are numbered.            *)
LEMMA BucketsNumbered == Spec => [](PolicyInv /\ Numbered(policy))
<1>1. QED
  BY NumberedInit, NumberedNext, PolicyInvariant, PTL DEF Spec

(* In every reachable state, for every input, putting back the last entry  *)
(* a plan evicts for room would break a limit.                             *)
THEOREM EvictionNeeded == Spec => []NoNeedlessEviction
<1>1. ASSUME PolicyInv, Numbered(policy), NEW plan \in Plans,
             EvictedFor(plan, "capacity") # {}
      PROVE  \E k \in EvictedFor(plan, "capacity") :
                LET back == Survivors(plan) \cup {k}
                IN  \/ Cardinality(back) + 1 > MaxSequences
                    \/ Bytes(policy, back) + plan.nbytes > MaxBytes
  <2>0. Coherent(policy)
    BY <1>1 DEF PolicyInv
  <2>1. PICK key \in Keys, role \in Roles, nbytes \in Nat,
               predecessor \in Keys \cup {None} :
            plan = PlanAdmission(policy, key, role, nbytes, predecessor)
    BY PlansParts
  <2> DEFINE rotated   == StableRotation(policy, key, role)
             compacted == Compacted(policy, key, role, predecessor)
             quota     == Quota(policy, key, role, predecessor)
             taken     == Taken(policy, key, role, nbytes, predecessor)
             forced    == Forced(policy, key, role, predecessor)
             spared    == Spared(policy, key, role, nbytes, predecessor)
  <2>2. DOMAIN plan.evictions # {}
    BY <1>1 DEF EvictedFor
  <2>3. /\ plan.key = key /\ plan.nbytes = nbytes
        /\ DOMAIN plan.evictions = rotated \cup compacted \cup quota \cup taken
        /\ EvictedFor(plan, "capacity") = taken \ (rotated \cup compacted \cup quota)
    BY <2>1, <2>2, PlanParts
  <2>4. forced = rotated \cup compacted \cup quota
    BY DEF Forced
  <2>5. /\ taken = CapacityVictims(policy, key, nbytes, forced, spared)
        /\ taken \subseteq Resident(policy) \ (forced \cup {key})
    BY <2>0, IndexedResident DEF Taken, CapacityVictims
  <2> HIDE DEF rotated, compacted, quota, taken, forced, spared
  <2>6. EvictedFor(plan, "capacity") = taken
    BY <2>3, <2>4, <2>5
  <2>7. PICK k \in taken : ProjectedOverLimit(policy, key, nbytes, forced \cup (taken \ {k}))
    BY <1>1, <2>0, <2>5, <2>6, LastVictim
  <2>8. Resident(policy) \ ((forced \cup (taken \ {k})) \cup {key}) = Survivors(plan) \cup {k}
    BY <2>3, <2>4, <2>5 DEF Survivors
  <2>9. QED
    BY <2>3, <2>6, <2>7, <2>8 DEF ProjectedOverLimit
<1>2. PolicyInv /\ Numbered(policy) => NoNeedlessEviction
  BY <1>1 DEF NoNeedlessEviction
<1>3. QED
  BY <1>2, BucketsNumbered, PTL

-----------------------------------------------------------------------------
(* The working set.                                                        *)

(* A pin that makes room is never of the working set: only roles ranked as *)
(* pins are looked at, and the working roles have ranks of their own.      *)
LEMMA QuotaSparesWorkingSet ==
    ASSUME NEW p, Coherent(p), NEW key, NEW role, NEW predecessor
    PROVE  Quota(p, key, role, predecessor) \cap WorkingKeys(p) = {}
<1>1. SUFFICES ASSUME NEW k \in Quota(p, key, role, predecessor), k \in WorkingKeys(p)
               PROVE  FALSE
  OBVIOUS
<1>2. PICK r \in Roles : Rank(r) >= PinRankMin /\ k \in p.buckets[r]
  BY <1>1 DEF Quota, PinQuotaVictim, OldestPin
<1>3. p.entries[k].role = r /\ p.entries[k].role \in WorkingRoles
  BY <1>1, <1>2, RolesAssumption DEF Coherent, Filed, WorkingKeys, WorkingRoles
<1>4. QED
  BY <1>2, <1>3 DEF Rank, PinRankMin, WorkingRoles

(* A working set that fits beside a newcomer of the working set is spared, *)
(* and the eviction loop then ends before it reaches any of it: once the   *)
(* rest has gone, what is left is the working set, which fits.             *)
LEMMA PairKept ==
    ASSUME NEW p, Coherent(p), NEW key, NEW role \in WorkingRoles, NEW nbytes \in Nat,
           NEW predecessor,
           NEW pair, pair = WorkingKeys(p) \ (Forced(p, key, role, predecessor) \cup {key}),
           Cardinality(pair) + 1 <= MaxSequences,
           Bytes(p, pair) + nbytes <= MaxBytes
    PROVE  Taken(p, key, role, nbytes, predecessor) \cap pair = {}
<1> DEFINE forced  == Forced(p, key, role, predecessor)
           spared  == Spared(p, key, role, nbytes, predecessor)
           working == (WorkingKeys(p) \ forced) \cup {key}
<1>1. pair \subseteq Resident(p) /\ IsFiniteSet(pair) /\ Cardinality(pair) \in Nat
  <2>1. WorkingKeys(p) \subseteq Resident(p)
    BY RolesAssumption DEF Coherent, Filed, WorkingKeys
  <2>2. pair \subseteq Resident(p)
    BY <2>1
  <2>3. QED
    BY <2>2, FS_Subset, FS_CardinalityType DEF Coherent
<1>2. working = pair \cup {key} /\ working \ {key} = pair /\ key \notin pair
  OBVIOUS
<1>3. Cardinality(working) = Cardinality(pair) + 1
  <2> HIDE DEF working
  <2>1. QED
    BY <1>1, <1>2, FS_AddElement
<1>4. spared = working
  <2> HIDE DEF working
  <2>1. WorkingSetFits(p, working, key, nbytes)
    BY <1>2, <1>3 DEF WorkingSetFits
  <2>2. QED
    BY <2>1 DEF Spared, ProtectedKeys, working
<1>5. SUFFICES ASSUME NEW v \in Taken(p, key, role, nbytes, predecessor), v \in pair
               PROVE  FALSE
  OBVIOUS
<1> DEFINE candidates == Indexed(p) \ (forced \cup {key})
           earlier    == {u \in candidates : TakenBefore(p, spared, u, v)}
           kept       == Resident(p) \ ((forced \cup earlier) \cup {key})
<1>6. ProjectedOverLimit(p, key, nbytes, forced \cup earlier)
  BY <1>5 DEF Taken, CapacityVictims
<1>7. kept \in SUBSET pair
  <2>1. SUFFICES ASSUME NEW x \in kept PROVE x \in pair
    OBVIOUS
  <2>2. x \in candidates
    BY IndexedResident
  <2>3. ~TakenBefore(p, spared, x, v)
    BY <2>1, <2>2
  <2>4. x \in spared
    BY <1>2, <1>4, <1>5, <2>3 DEF TakenBefore
  <2>5. QED
    BY <1>2, <1>4, <2>1, <2>4
<1> HIDE DEF kept
<1>8. /\ Cardinality(kept) <= Cardinality(pair) /\ Cardinality(kept) \in Nat
      /\ Bytes(p, kept) <= Bytes(p, pair) /\ Bytes(p, kept) \in Nat
  BY <1>1, <1>7, FS_Subset, FS_CardinalityType, BytesMonotone, BytesFinite
<1>9. Bytes(p, pair) \in Nat
  BY <1>1, BytesFinite
<1>10. Cardinality(kept) + 1 > MaxSequences \/ Bytes(p, kept) + nbytes > MaxBytes
  BY <1>6 DEF ProjectedOverLimit, kept
<1>11. QED
  BY <1>1, <1>8, <1>9, <1>10, CapacityAssumption

(* In every reachable state, a resident working set that fits beside a     *)
(* newcomer of the working set survives its admission.                     *)
THEOREM WorkingSetSurvives == Spec => []WorkingPairSurvives
<1>1. ASSUME PolicyInv, NEW plan \in Plans, plan.accepted,
             plan.role \in WorkingRoles,
             Cardinality(RemainingPair(plan)) + 1 <= MaxSequences,
             Bytes(policy, RemainingPair(plan)) + plan.nbytes <= MaxBytes
      PROVE  RemainingPair(plan) \subseteq Survivors(plan)
  <2>0. Coherent(policy)
    BY <1>1 DEF PolicyInv
  <2>1. PICK key \in Keys, role \in Roles, nbytes \in Nat,
               predecessor \in Keys \cup {None} :
            plan = PlanAdmission(policy, key, role, nbytes, predecessor)
    BY PlansParts
  <2> DEFINE rotated   == StableRotation(policy, key, role)
             compacted == Compacted(policy, key, role, predecessor)
             quota     == Quota(policy, key, role, predecessor)
             taken     == Taken(policy, key, role, nbytes, predecessor)
             forced    == Forced(policy, key, role, predecessor)
             pair      == WorkingKeys(policy) \ (forced \cup {key})
  <2>2. plan.key = key /\ plan.role = role /\ plan.nbytes = nbytes
    BY <2>1, PlanParts
  <2>3. WorkingKeys(policy) \subseteq Resident(policy)
    BY <2>0, RolesAssumption DEF Coherent, Filed, WorkingKeys
  <2>4. CASE DOMAIN plan.evictions = {}
    BY <2>3, <2>4 DEF RemainingPair, Survivors
  <2>5. CASE DOMAIN plan.evictions # {}
    <3>1. /\ DOMAIN plan.evictions = rotated \cup compacted \cup quota \cup taken
          /\ EvictedFor(plan, "stable_rotate") = rotated
          /\ EvictedFor(plan, "active_successor") = compacted \ rotated
      BY <2>1, <2>5, PlanParts
    <3>2. forced = rotated \cup compacted \cup quota
      BY DEF Forced
    <3>3. quota \cap WorkingKeys(policy) = {}
      BY <2>0, QuotaSparesWorkingSet
    <3> HIDE DEF rotated, compacted, quota, taken, forced
    <3>4. RemainingPair(plan) = pair
      BY <2>2, <3>1, <3>2, <3>3 DEF RemainingPair
    <3>5. taken \cap pair = {}
      BY <1>1, <2>0, <2>2, <3>4, PairKept DEF taken, forced
    <3>6. QED
      BY <2>2, <2>3, <3>1, <3>2, <3>4, <3>5 DEF Survivors
  <2>6. QED
    BY <2>4, <2>5
<1>2. PolicyInv => WorkingPairSurvives
  BY <1>1 DEF WorkingPairSurvives
<1>3. QED
  BY <1>2, PolicyInvariant, PTL

-----------------------------------------------------------------------------
(* Pins. A pin role that has a rank of its own is a pin that _oldest_pin   *)
(* does not see; what follows is about configurations without one.         *)

OrdinaryPins == \A r \in PinRoles : Rank(r) = PinRankMin

LEMMA ReserveType ==
    /\ TransientReserve \in Nat /\ TransientReserve <= MaxSequences
    /\ PinLimit \in Nat
<1> DEFINE reserve == IF RequestedReserve # None THEN RequestedReserve
                      ELSE IF MaxSequences >= 4 THEN 2
                      ELSE IF MaxSequences >= 2 THEN 1 ELSE 0
<1>1. reserve \in Int
  BY ReserveAssumption
<1>2. TransientReserve = IF reserve < 0 THEN 0
                         ELSE IF reserve > MaxSequences THEN MaxSequences ELSE reserve
  BY DEF TransientReserve
<1> HIDE DEF reserve
<1>3. QED
  BY <1>1, <1>2, CapacityAssumption DEF PinLimit

LEMMA PinRank ==
    ASSUME OrdinaryPins, NEW r \in Roles
    PROVE  /\ Rank(r) >= PinRankMin <=> r \in PinRoles
           /\ r \in WorkingRoles => r \notin PinRoles
BY DEF OrdinaryPins, Rank, PinRankMin, WorkingRoles

(* _oldest_pin finds a pin whenever there is one.                          *)
LEMMA OldestPinFound ==
    ASSUME OrdinaryPins, NEW p, Coherent(p), Numbered(p), Pinned(p) # {}
    PROVE  \E k \in Pinned(p) : k \in OldestPin(p, {})
<1> DEFINE pins == (UNION {p.buckets[r] : r \in {q \in Roles : Rank(q) >= PinRankMin}}) \ {}
<1>1. pins = Pinned(p)
  <2>1. \A k : k \in pins <=> \E r \in PinRoles : k \in p.buckets[r]
    BY PinRank, RolesAssumption
  <2>2. \A k : k \in Pinned(p) <=> \E r \in PinRoles : k \in p.buckets[r]
    BY RolesAssumption DEF Pinned, Coherent, Filed
  <2>3. QED
    BY <2>1, <2>2
<1>2. OldestPin(p, {}) = {k \in pins : \A j \in pins \ {k} : EvictedBefore(p, k, j)}
  BY DEF OldestPin
<1> HIDE DEF pins
<1>3. pins \subseteq Resident(p) /\ pins # {}
  BY <1>1 DEF Pinned
<1>4. PICK k \in pins : \A j \in pins : ~TakenBefore(p, {}, j, k)
  BY <1>3, TakenExtremes
<1>5. \A j \in pins \ {k} : EvictedBefore(p, k, j)
  BY <1>3, <1>4, EvictedBeforeTotal DEF TakenBefore
<1>6. QED
  BY <1>1, <1>2, <1>5

(* The pins after a commit.                                                *)
LEMMA CommitPins ==
    ASSUME NEW p, Coherent(p), NEW plan, plan.accepted, Executable(p, plan)
    PROVE  /\ Pinned(Commit(p, plan))
                 \subseteq (Pinned(p) \ DOMAIN plan.evictions) \cup {plan.key}
           /\ plan.role \notin PinRoles => plan.key \notin Pinned(Commit(p, plan))
<1> DEFINE q == Commit(p, plan)
<1>1. Resident(q) = (Resident(p) \ DOMAIN plan.evictions) \cup {plan.key}
  BY CommitResident
<1>2. /\ q.entries[plan.key] = [role |-> plan.role, nbytes |-> plan.nbytes, hits |-> 0]
      /\ \A k \in Resident(p) \ (DOMAIN plan.evictions \cup {plan.key}) :
            q.entries[k] = p.entries[k]
  BY CommitEntries
<1> HIDE DEF q
<1>3. q.entries[plan.key].role = plan.role
  BY <1>2
<1>4. Pinned(q) \subseteq (Pinned(p) \ DOMAIN plan.evictions) \cup {plan.key}
  BY <1>1, <1>2 DEF Pinned
<1>5. plan.role \notin PinRoles => plan.key \notin Pinned(q)
  BY <1>3 DEF Pinned
<1>6. QED
  BY <1>4, <1>5 DEF q

PinBound == IF PinLimit = 0 THEN 1 ELSE PinLimit

LEMMA PinsFinite ==
    ASSUME NEW p, Coherent(p)
    PROVE  IsFiniteSet(Pinned(p)) /\ Cardinality(Pinned(p)) \in Nat
<1>1. Pinned(p) \in SUBSET Resident(p)
  BY DEF Pinned
<1>2. QED
  BY <1>1, FS_Subset, FS_CardinalityType DEF Coherent

LEMMA FewerPins ==
    ASSUME NEW p, Coherent(p), Cardinality(Pinned(p)) <= PinBound,
           NEW S, S \subseteq Pinned(p)
    PROVE  Cardinality(S) <= PinBound
<1>1. S \in SUBSET Pinned(p)
  OBVIOUS
<1>2. Cardinality(S) \in Nat /\ Cardinality(S) <= Cardinality(Pinned(p))
  BY <1>1, PinsFinite, FS_Subset, FS_CardinalityType
<1>3. PinBound \in Nat
  BY ReserveType DEF PinBound
<1>4. QED
  BY <1>2, <1>3, PinsFinite

(* An admission respects the quota: it finds a pin to evict when the pins  *)
(* have reached their limit, unless there is none.                         *)
LEMMA AdmissionKeepsQuota ==
    ASSUME OrdinaryPins, NEW p, Coherent(p), Numbered(p),
           Cardinality(Pinned(p)) <= PinBound,
           NEW key \in Keys, NEW role \in Roles, NEW nbytes \in Nat, NEW predecessor
    PROVE  Cardinality(Pinned(Commit(p, PlanAdmission(p, key, role, nbytes, predecessor))))
               <= PinBound
<1> DEFINE plan  == PlanAdmission(p, key, role, nbytes, predecessor)
           q     == Commit(p, plan)
           quota == Quota(p, key, role, predecessor)
<1>1. CASE ~plan.accepted
  BY <1>1 DEF Commit
<1>2. CASE plan.accepted
  <2>1. Executable(p, plan)
    BY <1>2, AdmissionPlan
  <2>2. plan.key = key /\ plan.role = role
    BY PlanParts
  <2>3. quota \subseteq DOMAIN plan.evictions
    BY <1>2, PlanParts
  <2> HIDE DEF plan, quota
  <2>4. /\ Pinned(q) \subseteq (Pinned(p) \ DOMAIN plan.evictions) \cup {key}
        /\ role \notin PinRoles => key \notin Pinned(q)
    BY <1>2, <2>1, <2>2, CommitPins
  <2> HIDE DEF q
  <2>5. CASE role \notin PinRoles \/ key \in Pinned(p)
    <3>1. Pinned(q) \subseteq Pinned(p)
      BY <2>4, <2>5
    <3>2. QED
      BY <3>1, FewerPins DEF q, plan
  <2>6. CASE role \in PinRoles /\ key \notin Pinned(p)
    <3>1. /\ IsFiniteSet(Pinned(p)) /\ Cardinality(Pinned(p)) \in Nat
          /\ PinLimit \in Nat
      BY PinsFinite, ReserveType
    <3>2. CASE Cardinality(Pinned(p)) < PinLimit
      <4>1. Pinned(q) \in SUBSET (Pinned(p) \cup {key})
        BY <2>4
      <4>2. /\ IsFiniteSet(Pinned(p) \cup {key})
            /\ Cardinality(Pinned(p) \cup {key}) = Cardinality(Pinned(p)) + 1
        BY <2>6, <3>1, FS_AddElement
      <4>3. Cardinality(Pinned(q)) \in Nat
            /\ Cardinality(Pinned(q)) <= Cardinality(Pinned(p)) + 1
        BY <4>1, <4>2, FS_Subset, FS_CardinalityType
      <4>4. QED
        BY <3>1, <3>2, <4>3 DEF PinBound, q, plan
    <3>3. CASE Cardinality(Pinned(p)) >= PinLimit /\ Pinned(p) # {}
      <4>1. quota = OldestPin(p, {}) \ {key}
        <5>1. role # "stable" /\ role # "active"
          BY <2>6, PinRank DEF WorkingRoles
        <5>2. StableRotation(p, key, role) \cup Compacted(p, key, role, predecessor) = {}
          BY <5>1 DEF StableRotation, Compacted, ActivePredecessor
        <5>3. QED
          BY <2>6, <3>3, <5>2 DEF Quota, PinQuotaVictim, quota
      <4>2. PICK k \in Pinned(p) : k \in OldestPin(p, {})
        BY <3>3, OldestPinFound
      <4>3. Pinned(q) \in SUBSET ((Pinned(p) \ {k}) \cup {key})
        BY <2>3, <2>4, <2>6, <4>1, <4>2
      <4>4. /\ IsFiniteSet(Pinned(p) \ {k})
            /\ Cardinality(Pinned(p) \ {k}) = Cardinality(Pinned(p)) - 1
        BY <3>1, <4>2, FS_RemoveElement
      <4>5. /\ IsFiniteSet((Pinned(p) \ {k}) \cup {key})
            /\ Cardinality((Pinned(p) \ {k}) \cup {key}) = Cardinality(Pinned(p) \ {k}) + 1
        BY <2>6, <4>4, FS_AddElement
      <4>6. Cardinality(Pinned(q)) \in Nat
            /\ Cardinality(Pinned(q)) <= Cardinality((Pinned(p) \ {k}) \cup {key})
        BY <4>3, <4>5, FS_Subset, FS_CardinalityType
      <4>7. Cardinality(Pinned(q)) <= Cardinality(Pinned(p))
        BY <3>1, <4>4, <4>5, <4>6
      <4>8. PinBound \in Nat
        BY <3>1 DEF PinBound
      <4>9. QED
        BY <3>1, <4>6, <4>7, <4>8 DEF q, plan
    <3>4. CASE Cardinality(Pinned(p)) >= PinLimit /\ Pinned(p) = {}
      <4>1. Cardinality(Pinned(p)) = 0
        BY <3>4, FS_EmptySet
      <4>2. PinBound = 1
        BY <3>1, <3>4, <4>1 DEF PinBound
      <4>3. Pinned(q) \in SUBSET {key}
        BY <2>4, <3>4
      <4>4. IsFiniteSet({key}) /\ Cardinality({key}) = 1
        BY FS_Singleton
      <4>5. Cardinality(Pinned(q)) <= 1
        BY <4>3, <4>4, FS_Subset
      <4>6. QED
        BY <4>2, <4>5 DEF q, plan
    <3>5. QED
      BY <3>1, <3>2, <3>3, <3>4
  <2>7. QED
    BY <2>5, <2>6
<1>3. QED
  BY <1>1, <1>2

(* The pins never exceed their limit of the cache by more than the one pin *)
(* that a limit of zero lets in, unless a pin role has a rank of its own.  *)
THEOREM PinsWithinQuota == OrdinaryPins => (Spec => []PinQuota)
<1> DEFINE Q == Cardinality(Pinned(policy)) <= PinBound
<1>1. Init => Q
  <2>1. ASSUME Init PROVE Pinned(policy) = {}
    BY <2>1 DEF Init, EmptyPolicy, Pinned, Resident
  <2>2. PinBound \in Nat
    BY ReserveType DEF PinBound
  <2>3. QED
    BY <2>1, <2>2, FS_EmptySet
<1>2. ASSUME OrdinaryPins, PolicyInv, Numbered(policy), Q, [Next]_policy
      PROVE  Q'
  <2>0. Coherent(policy) /\ WithinLimits(policy) /\ SingleStable(policy)
    BY <1>2 DEF PolicyInv
  <2>1. ASSUME NEW key \in Keys, NEW role \in AdmitRoles, NEW nbytes \in Sizes,
               NEW predecessor \in Keys \cup {None},
               AdmitEntry(key, role, nbytes, predecessor)
        PROVE  Q'
    <3>1. role \in Roles /\ nbytes \in Nat
      BY InputsAssumption
    <3>2. policy' = Commit(policy, PlanAdmission(policy, key, role, nbytes, predecessor))
      BY <2>1 DEF AdmitEntry
    <3>3. QED
      BY <1>2, <2>0, <3>1, <3>2, AdmissionKeepsQuota
  <2>2. ASSUME NEW key \in Keys, NEW nbytes \in Sizes, AdmitStableCandidate(key, nbytes)
        PROVE  Q'
    <3> DEFINE result == PlanStableCandidate(policy, key, nbytes)
    <3>1. nbytes \in Nat
      BY InputsAssumption
    <3>2. /\ Coherent(result.policy)
          /\ result.plan.accepted => Executable(result.policy, result.plan)
      BY <2>0, <3>1, StableCandidatePlan
    <3>3. /\ result.policy.entries = policy.entries
          /\ result.plan.accepted => result.plan.role = "stable"
      BY <2>0, <3>1, CandidateAdmission
    <3>4. policy' = Commit(result.policy, result.plan)
      BY <2>2 DEF AdmitStableCandidate
    <3> HIDE DEF result
    <3>5. "stable" \notin PinRoles
      BY <1>2, PinRank, RolesAssumption DEF WorkingRoles
    <3>6. Pinned(result.policy) = Pinned(policy)
      BY <3>3 DEF Pinned, Resident
    <3>7. Pinned(policy') \subseteq Pinned(policy)
      <4>1. CASE ~result.plan.accepted
        BY <3>4, <3>6, <4>1 DEF Commit
      <4>2. CASE result.plan.accepted
        <5>1. /\ Pinned(policy') \subseteq Pinned(policy) \cup {result.plan.key}
              /\ result.plan.key \notin Pinned(policy')
          BY <3>2, <3>3, <3>4, <3>5, <3>6, <4>2, CommitPins
        <5>2. QED
          BY <5>1
      <4>3. QED
        BY <4>1, <4>2
    <3>8. QED
      BY <1>2, <2>0, <3>7, FewerPins
  <2>3. ASSUME NEW target \in TrimTargets, TrimTo(target[1], target[2])
        PROVE  Q'
    <3> DEFINE gone == PlanTrim(policy, target[1], target[2])
               q    == RemoveEntries(policy, gone)
    <3>1. policy' = q
      BY <2>3 DEF TrimTo, CommitTrim
    <3>2. /\ Resident(q) = Resident(policy) \ gone
          /\ \A k \in Resident(q) : q.entries[k] = policy.entries[k]
      BY <2>0, RemoveCoherent
    <3> HIDE DEF gone, q
    <3>3. Pinned(policy') \subseteq Pinned(policy)
      BY <3>1, <3>2 DEF Pinned
    <3>4. QED
      BY <1>2, <2>0, <3>3, FewerPins
  <2>4. ASSUME NEW key \in Keys, ObserveHit(key)
        PROVE  Q'
    <3>1. /\ policy' = AddHit(policy, key)
          /\ policy.entries \in [Resident(policy) -> EntryState]
          /\ DOMAIN policy = {"entries", "buckets", "older", "opened", "nbytes", "cand"}
      BY <2>0, <2>4 DEF ObserveHit, Coherent, WellTyped
    <3>2. CASE key \notin Resident(policy)
      BY <1>2, <3>1, <3>2 DEF AddHit
    <3>3. CASE key \in Resident(policy)
      <4>1. policy'.entries = [policy.entries EXCEPT ![key].hits = @ + 1]
        BY <3>1, <3>3 DEF AddHit
      <4>2. /\ DOMAIN policy'.entries = Resident(policy)
            /\ \A k \in Resident(policy) : policy'.entries[k].role = policy.entries[k].role
        BY <3>1, <4>1 DEF EntryState, Resident
      <4>3. Pinned(policy') \subseteq Pinned(policy)
        BY <4>2 DEF Pinned, Resident
      <4>4. QED
        BY <1>2, <2>0, <4>3, FewerPins
    <3>4. QED
      BY <3>2, <3>3
  <2>5. CASE UNCHANGED policy
    BY <1>2, <2>5
  <2>6. QED
    BY <1>2, <2>1, <2>2, <2>3, <2>4, <2>5 DEF Next
<1>3. Q => PinQuota
  BY DEF PinBound, PinQuota
<1> HIDE DEF Q
<1>4. ASSUME OrdinaryPins PROVE Spec => []PinQuota
  <2>1. PolicyInv /\ Numbered(policy) /\ Q /\ [Next]_policy => Q'
    BY <1>2, <1>4
  <2>2. QED
    BY <1>1, <1>3, <2>1, BucketsNumbered, PTL DEF Spec
<1>5. QED
  BY <1>4

(* What is left without an element is smaller.                             *)
LEMMA WithoutOne ==
    ASSUME NEW S, IsFiniteSet(S), NEW T, NEW k \in S, T \subseteq S \ {k}
    PROVE  /\ Cardinality(S) \in Nat /\ Cardinality(T) \in Nat
           /\ Cardinality(T) < Cardinality(S)
<1>1. /\ IsFiniteSet(S \ {k}) /\ Cardinality(S \ {k}) = Cardinality(S) - 1
      /\ Cardinality(S) \in Nat
  BY FS_RemoveElement, FS_CardinalityType
<1>2. T \in SUBSET (S \ {k})
  OBVIOUS
<1>3. IsFiniteSet(T) /\ Cardinality(T) <= Cardinality(S \ {k})
  BY <1>1, <1>2, FS_Subset
<1>4. Cardinality(T) \in Nat
  BY <1>3, FS_CardinalityType
<1>5. QED
  BY <1>1, <1>3, <1>4

(* When the bytes do not bind, a newcomer is over the limits only for want *)
(* of a place: then nothing has been evicted and every place is taken.     *)
LEMMA NoPlaceLeft ==
    ASSUME NEW p, Coherent(p), WithinLimits(p), NEW key, key \notin Resident(p),
           NEW nbytes \in Nat, Bytes(p, Resident(p)) + nbytes <= MaxBytes,
           NEW evicted, ProjectedOverLimit(p, key, nbytes, evicted)
    PROVE  /\ evicted \cap Resident(p) = {}
           /\ Cardinality(Resident(p)) = MaxSequences
<1> DEFINE all  == Resident(p)
           kept == Resident(p) \ (evicted \cup {key})
<1>1. /\ IsFiniteSet(all) /\ Cardinality(all) \in Nat /\ Cardinality(all) <= MaxSequences
      /\ kept \in SUBSET all
  BY FS_CardinalityType DEF Coherent, WithinLimits
<1>2. Cardinality(kept) + 1 > MaxSequences \/ Bytes(p, kept) + nbytes > MaxBytes
  BY DEF ProjectedOverLimit
<1>3. kept = all \ evicted
  OBVIOUS
<1> HIDE DEF kept, all
<1>4. /\ IsFiniteSet(kept) /\ Bytes(p, kept) <= Bytes(p, all)
      /\ Cardinality(kept) <= Cardinality(all)
      /\ Cardinality(kept) \in Nat
      /\ Bytes(p, kept) \in Nat /\ Bytes(p, all) \in Nat
  BY <1>1, BytesMonotone, BytesFinite, FS_Subset, FS_CardinalityType
<1>5. Cardinality(kept) + 1 > MaxSequences
  BY <1>2, <1>4, CapacityAssumption DEF all
<1>6. Cardinality(all) = MaxSequences
  BY <1>1, <1>4, <1>5, CapacityAssumption
<1>7. ASSUME NEW k \in evicted, k \in all PROVE FALSE
  <2>1. kept \subseteq all \ {k}
    BY <1>3, <1>7
  <2>2. Cardinality(kept) < Cardinality(all)
    BY <1>1, <1>7, <2>1, WithoutOne
  <2>3. QED
    BY <1>1, <1>4, <1>5, <2>2, CapacityAssumption
<1>8. QED
  BY <1>6, <1>7 DEF all

(* Then no more than one entry is evicted for room.                        *)
LEMMA OnePlaceIsEnough ==
    ASSUME NEW p, Coherent(p), Numbered(p), WithinLimits(p), NEW key, key \notin Resident(p),
           NEW nbytes \in Nat, Bytes(p, Resident(p)) + nbytes <= MaxBytes,
           NEW forced, NEW protected,
           NEW u \in CapacityVictims(p, key, nbytes, forced, protected),
           NEW v \in CapacityVictims(p, key, nbytes, forced, protected)
    PROVE  u = v
<1> DEFINE Earlier(w) == {x \in Indexed(p) \ (forced \cup {key}) :
                             TakenBefore(p, protected, x, w)}
<1>1. \A w \in {u, v} : /\ w \in Resident(p) \ (forced \cup {key})
                        /\ ProjectedOverLimit(p, key, nbytes, forced \cup Earlier(w))
  BY IndexedResident DEF CapacityVictims
<1>2. \A w \in {u, v} : Earlier(w) \cap Resident(p) = {}
  <2> HIDE DEF Earlier
  <2>1. QED
    BY <1>1, NoPlaceLeft
<1>3. ~TakenBefore(p, protected, u, v) /\ ~TakenBefore(p, protected, v, u)
  BY <1>1, <1>2, IndexedResident
<1>4. QED
  BY <1>1, <1>3, TakenTotal

(* In every reachable state, for every input, a new transient entry whose  *)
(* bytes fit leaves as many transient entries as there were and itself, or *)
(* as many as the reserve, unless a pin role has a rank of its own.        *)
THEOREM ReserveIsDelivered == OrdinaryPins => (Spec => []ReserveDelivered)
<1>1. ASSUME OrdinaryPins, PolicyInv, Numbered(policy), NEW plan \in Plans,
             plan.role \notin PinRoles \cup WorkingRoles,
             plan.key \notin Resident(policy),
             Bytes(policy, Resident(policy)) + plan.nbytes <= MaxBytes
      PROVE  LET before == Cardinality(Resident(policy) \ Pinned(policy))
                 after  == Cardinality(Survivors(plan) \ Pinned(policy)) + 1
             IN  after >= before + 1 \/ after >= TransientReserve
  <2>0. Coherent(policy) /\ WithinLimits(policy)
    BY <1>1 DEF PolicyInv
  <2>1. PICK key \in Keys, role \in Roles, nbytes \in Nat,
               predecessor \in Keys \cup {None} :
            plan = PlanAdmission(policy, key, role, nbytes, predecessor)
    BY PlansParts
  <2> DEFINE all       == Resident(policy)
             pins      == Pinned(policy)
             transient == all \ pins
             left      == Survivors(plan) \ pins
             quota     == Quota(policy, key, role, predecessor)
             taken     == Taken(policy, key, role, nbytes, predecessor)
             forced    == Forced(policy, key, role, predecessor)
             spared    == Spared(policy, key, role, nbytes, predecessor)
  <2>2. /\ plan.key = key /\ plan.role = role /\ plan.nbytes = nbytes
        /\ role \notin PinRoles /\ role \notin WorkingRoles /\ key \notin all
        /\ Bytes(policy, all) + nbytes <= MaxBytes
    BY <1>1, <2>1, PlanParts
  <2>3. StableRotation(policy, key, role) = {} /\ Compacted(policy, key, role, predecessor) = {}
    BY <2>2 DEF StableRotation, Compacted, ActivePredecessor, WorkingRoles
  <2>4. forced = quota
    BY <2>3 DEF Forced
  <2>5. quota \subseteq pins
    <3>1. quota \subseteq OldestPin(policy, {})
      BY <2>3 DEF Quota, PinQuotaVictim
    <3>2. \A k \in OldestPin(policy, {}) :
             \E r \in Roles : Rank(r) >= PinRankMin /\ k \in policy.buckets[r]
      BY DEF OldestPin
    <3>3. \A k \in OldestPin(policy, {}) : k \in pins
      BY <1>1, <2>0, <3>2, PinRank DEF Coherent, Filed, Pinned
    <3>4. QED
      BY <3>1, <3>3
  <2>6. /\ taken = CapacityVictims(policy, key, nbytes, forced, spared)
        /\ taken \subseteq all \ (forced \cup {key})
    BY <2>0, IndexedResident DEF Taken, CapacityVictims
  <2>7. DOMAIN plan.evictions = {} \/ DOMAIN plan.evictions = quota \cup taken
    BY <2>1, <2>3, PlanParts
  <2>8. /\ pins \subseteq all /\ IsFiniteSet(all) /\ IsFiniteSet(transient)
        /\ Cardinality(transient) \in Nat
    BY <2>0, FS_Subset, FS_CardinalityType DEF Coherent, Pinned
  <2>9. left = transient \/ left = transient \ taken
    <3>1. Survivors(plan) = all \ DOMAIN plan.evictions
      BY <2>2 DEF Survivors
    <3>2. QED
      BY <2>5, <2>7, <3>1
  <2>10. TransientReserve \in Nat /\ TransientReserve <= MaxSequences
    BY ReserveType
  <2> SUFFICES Cardinality(left) >= Cardinality(transient)
               \/ Cardinality(left) + 1 >= TransientReserve
    BY <2>8, <2>9, FS_Subset, FS_CardinalityType
  <2> HIDE DEF all, pins, transient, left, quota, taken, forced, spared
  <2>11. CASE taken = {}
    BY <2>8, <2>9, <2>11
  <2>12. CASE taken # {}
    <3>1. PICK v \in taken : TRUE
      BY <2>12
    <3>2. taken = {v}
      BY <1>1, <2>0, <2>2, <2>6, <3>1, OnePlaceIsEnough DEF all
    <3>3. Cardinality(left) \in Nat /\ Cardinality(left) + 1 >= Cardinality(transient)
      <4>1. CASE left = transient
        BY <2>8, <4>1
      <4>2. CASE left = transient \ {v}
        <5>1. Cardinality(transient \ {v})
                = IF v \in transient THEN Cardinality(transient) - 1
                                     ELSE Cardinality(transient)
          BY <2>8, FS_RemoveElement
        <5>2. Cardinality(transient \ {v}) \in Nat
          <6>1. IsFiniteSet(transient \ {v})
            BY <2>8, FS_Subset
          <6>2. QED
            BY <6>1, FS_CardinalityType
        <5>3. QED
          BY <2>8, <4>2, <5>1, <5>2
      <4>3. QED
        BY <2>9, <3>2, <4>1, <4>2
    <3>4. forced = {} /\ Cardinality(all) = MaxSequences
      <4>1. ProjectedOverLimit(policy, key, nbytes, forced)
        <5> DEFINE earlier == {u \in Indexed(policy) \ (forced \cup {key}) :
                                 TakenBefore(policy, spared, u, v)}
        <5>1. ProjectedOverLimit(policy, key, nbytes, forced \cup earlier)
          BY <2>6, <3>1 DEF CapacityVictims
        <5> HIDE DEF earlier
        <5>2. forced \subseteq forced \cup earlier
          OBVIOUS
        <5>3. QED
          BY <2>0, <5>1, <5>2, OverLimitMonotone
      <4>2. forced \cap all = {} /\ Cardinality(all) = MaxSequences
        BY <2>0, <2>2, <4>1, NoPlaceLeft DEF all
      <4>3. QED
        BY <2>4, <2>5, <2>8, <4>2
    <3>5. Cardinality(transient) >= TransientReserve \/ pins = {}
      <4>1. SUFFICES ASSUME Cardinality(transient) < TransientReserve, pins # {}
                     PROVE  FALSE
        BY <2>8, <2>10
      <4>2. quota = OldestPin(policy, {}) \ {key}
        <5>1. Cardinality(Resident(policy)) >= MaxSequences
          BY <3>4, CapacityAssumption DEF all
        <5>2. QED
          BY <2>2, <2>3, <4>1, <5>1 DEF Quota, PinQuotaVictim, quota, transient, all, pins
      <4>3. PICK k \in pins : k \in OldestPin(policy, {})
        BY <1>1, <2>0, <4>1, OldestPinFound DEF pins
      <4>4. k # key
        BY <2>2, <2>8, <4>3
      <4>5. QED
        BY <2>4, <3>4, <4>2, <4>3, <4>4
    <3>6. pins = {} => transient = all
      BY DEF transient
    <3>7. QED
      BY <2>8, <2>10, <3>3, <3>4, <3>5, <3>6, CapacityAssumption
  <2>13. QED
    BY <2>11, <2>12
<1>2. ASSUME OrdinaryPins PROVE PolicyInv /\ Numbered(policy) => ReserveDelivered
  BY <1>1, <1>2 DEF ReserveDelivered
<1>3. ASSUME OrdinaryPins PROVE Spec => []ReserveDelivered
  <2>1. PolicyInv /\ Numbered(policy) => ReserveDelivered
    BY <1>2, <1>3
  <2>2. QED
    BY <2>1, BucketsNumbered, PTL
<1>4. QED
  BY <1>3

-----------------------------------------------------------------------------
(* Trims.                                                                  *)

(* Fewer entries are never over a target that more entries meet.           *)
LEMMA OverTargetMonotone ==
    ASSUME NEW p, NEW S, IsFiniteSet(S), NEW T \in SUBSET S,
           NEW sequences \in Nat, NEW bytes \in Nat,
           OverTarget(p, T, sequences, bytes)
    PROVE  OverTarget(p, S, sequences, bytes)
<1>1. /\ IsFiniteSet(T) /\ Bytes(p, T) <= Bytes(p, S)
      /\ Cardinality(T) <= Cardinality(S)
      /\ Cardinality(T) \in Nat /\ Cardinality(S) \in Nat
  BY FS_Subset, FS_CardinalityType, BytesMonotone
<1>2. Bytes(p, T) \in Nat /\ Bytes(p, S) \in Nat
  BY <1>1, BytesFinite
<1>3. QED
  BY <1>1, <1>2 DEF OverTarget

(* The loop of plan_trim ends at its target. Were all that go before the   *)
(* first spared entry not enough, that entry would go too; so none would   *)
(* be spared, and an empty cache meets every target.                       *)
LEMMA TrimEnds ==
    ASSUME NEW p, Coherent(p), NEW sequences \in Nat, NEW bytes \in Nat
    PROVE  ~OverTarget(p, Resident(p) \ PlanTrim(p, sequences, bytes), sequences, bytes)
<1> DEFINE protected  == IF OverTarget(p, WorkingKeys(p), sequences, bytes)
                         THEN {} ELSE WorkingKeys(p)
           Earlier(v) == {u \in Indexed(p) : TakenBefore(p, protected, u, v)}
           victims    == PlanTrim(p, sequences, bytes)
           spared     == Resident(p) \ victims
<1>1. Indexed(p) = Resident(p) /\ IsFiniteSet(Resident(p))
  BY IndexedResident DEF Coherent
<1>2. victims = {v \in Indexed(p) :
                    OverTarget(p, Resident(p) \ Earlier(v), sequences, bytes)}
  BY DEF PlanTrim
<1> HIDE DEF protected, victims
<1>3. SUFFICES ASSUME OverTarget(p, spared, sequences, bytes)
               PROVE  FALSE
  BY DEF victims
<1>4. CASE spared = {}
  <2>1. Cells(p, {}) = {}
    BY DEF Cells
  <2>2. Cardinality({}) = 0 /\ Bytes(p, {}) = 0
    BY <2>1, FS_EmptySet, BytesFinite
  <2> HIDE DEF spared
  <2>3. QED
    BY <1>3, <1>4, <2>2 DEF OverTarget
<1>5. CASE spared # {}
  <2>1. PICK v \in spared : \A u \in spared : ~TakenBefore(p, protected, u, v)
    <3>1. spared \subseteq Resident(p)
      OBVIOUS
    <3> HIDE DEF spared
    <3>2. QED
      BY <1>5, <3>1, TakenExtremes
  <2>2. spared \in SUBSET (Resident(p) \ Earlier(v))
    BY <2>1
  <2>3. IsFiniteSet(Resident(p) \ Earlier(v))
    BY <1>1, FS_Subset
  <2>4. OverTarget(p, Resident(p) \ Earlier(v), sequences, bytes)
    <3> HIDE DEF Earlier, spared
    <3>1. QED
      BY <1>3, <2>2, <2>3, OverTargetMonotone
  <2>5. QED
    BY <1>1, <1>2, <2>1, <2>4
<1>6. QED
  BY <1>4, <1>5

(* A working set that meets the target is not trimmed: what would be left  *)
(* when the loop reaches it is part of it.                                 *)
LEMMA TrimSparesWorkingSet ==
    ASSUME NEW p, Coherent(p), NEW sequences \in Nat, NEW bytes \in Nat,
           ~OverTarget(p, WorkingKeys(p), sequences, bytes)
    PROVE  PlanTrim(p, sequences, bytes) \cap WorkingKeys(p) = {}
<1>1. SUFFICES ASSUME NEW v \in PlanTrim(p, sequences, bytes), v \in WorkingKeys(p)
               PROVE  FALSE
  OBVIOUS
<1> DEFINE earlier == {u \in Indexed(p) : TakenBefore(p, WorkingKeys(p), u, v)}
           kept    == Resident(p) \ earlier
<1>2. OverTarget(p, kept, sequences, bytes)
  BY <1>1 DEF PlanTrim
<1>3. kept \in SUBSET WorkingKeys(p)
  BY <1>1, IndexedResident DEF TakenBefore
<1>4. IsFiniteSet(WorkingKeys(p))
  <2>1. WorkingKeys(p) \subseteq Resident(p)
    BY RolesAssumption DEF Coherent, Filed, WorkingKeys
  <2>2. QED
    BY <2>1, FS_Subset DEF Coherent
<1> HIDE DEF kept
<1>5. QED
  BY <1>2, <1>3, <1>4, OverTargetMonotone

(* In every reachable state and for every target, a trim reaches its       *)
(* target and touches the working set only when that alone is over it.     *)
THEOREM TrimMeetsTarget == Spec => []TrimReachesTarget
<1>1. ASSUME PolicyInv, NEW target \in TrimTargets
      PROVE  LET evicted == PlanTrim(policy, target[1], target[2])
                 kept    == Resident(policy) \ evicted
                 working == WorkingKeys(policy)
             IN  /\ Cardinality(kept) <= target[1]
                 /\ Bytes(policy, kept) <= target[2]
                 /\ \/ evicted \cap working = {}
                    \/ Cardinality(working) > target[1]
                    \/ Bytes(policy, working) > target[2]
  <2> DEFINE evicted == PlanTrim(policy, target[1], target[2])
             kept    == Resident(policy) \ evicted
  <2>1. Coherent(policy) /\ target[1] \in Nat /\ target[2] \in Nat
    BY <1>1, InputsAssumption DEF PolicyInv
  <2>2. ~OverTarget(policy, kept, target[1], target[2])
    BY <2>1, TrimEnds
  <2>3. \/ evicted \cap WorkingKeys(policy) = {}
        \/ OverTarget(policy, WorkingKeys(policy), target[1], target[2])
    BY <2>1, TrimSparesWorkingSet
  <2>4. /\ IsFiniteSet(kept) /\ Cardinality(kept) \in Nat
        /\ Bytes(policy, kept) \in Nat
    BY <2>1, FS_Subset, FS_CardinalityType, BytesFinite DEF Coherent
  <2> HIDE DEF evicted, kept
  <2>5. Cardinality(kept) <= target[1] /\ Bytes(policy, kept) <= target[2]
    BY <2>1, <2>2, <2>4 DEF OverTarget
  <2>6. QED
    BY <2>3, <2>5 DEF OverTarget, evicted, kept
<1>2. PolicyInv => TrimReachesTarget
  BY <1>1 DEF TrimReachesTarget
<1>3. QED
  BY <1>2, PolicyInvariant, PTL

-----------------------------------------------------------------------------
(* The stable lane. Planning moves the probation state outside any commit, *)
(* so the two structures a promotion reads, the candidate and the hits of  *)
(* the incumbent, change in different calls. What ties them together is    *)
(* Probation, which the lane keeps as long as nothing enters it but stable *)
(* candidates.                                                             *)

\* The hits a probation started from are hits of the present incumbent, and
\* when that has served none since, the candidate was sighted since.
Probation(p, sightings) ==
    \A k \in p.buckets["stable"] :
        p.cand.key # None =>
            /\ p.cand.baseHits <= p.entries[k].hits
            /\ p.entries[k].hits <= p.cand.baseHits => p.cand.key \in sightings

\* Stable entries arrive as candidates only.
LaneIsProtected == "stable" \notin AdmitRoles

(* The machine with the history variable is the policy machine.            *)
LEMMA LaneIsPolicy == LaneSpec => []PolicyInv
<1>1. LaneInit => Init
  BY DEF LaneInit
<1>2. [LaneNext]_vars => [Next]_policy
  <2> SUFFICES ASSUME [LaneNext]_vars PROVE [Next]_policy
    OBVIOUS
  <2>1. ASSUME NEW key \in Keys, NEW role \in AdmitRoles, NEW nbytes \in Sizes,
               AdmitEntry(key, role, nbytes, None)
        PROVE  Next
    <3>1. None \in IF role = "active" THEN Keys \cup {None} ELSE {None}
      OBVIOUS
    <3>2. QED
      BY <2>1, <3>1 DEF Next
  <2>2. QED
    BY <2>1 DEF LaneNext, Next, vars
<1>3. QED
  BY <1>1, <1>2, PolicyInvariant, PTL DEF LaneSpec, Spec

(* Fewer stable entries with the hits they had, more sightings, and a      *)
(* candidate that is kept or dropped: the probation stays what it was.     *)
LEMMA ProbationKept ==
    ASSUME NEW p, NEW q, NEW before, NEW after, before \subseteq after,
           Probation(p, before),
           q.cand = p.cand \/ q.cand = NoCandidate,
           \A k \in q.buckets["stable"] :
               k \in p.buckets["stable"] /\ q.entries[k] = p.entries[k]
    PROVE  Probation(q, after)
BY DEF Probation, NoCandidate

(* A commit keeps the candidate or drops it; the commit of a stable        *)
(* candidate drops it.                                                     *)
LEMMA CommitCandidate ==
    ASSUME NEW p, Coherent(p), NEW plan, plan.accepted, Executable(p, plan)
    PROVE  LET q == Commit(p, plan)
           IN  /\ q.cand = p.cand \/ q.cand = NoCandidate
               /\ plan.role = "stable" /\ plan.reason \in StableReasons
                     => q.cand = NoCandidate
<1> DEFINE removed == RemoveEntries(p, DOMAIN plan.evictions \cup {plan.key})
           stored  == InsertEntry(removed, plan.key, plan.role, plan.nbytes)
           cleared == [stored EXCEPT !.cand = NoCandidate]
<1>1. stored.cand = p.cand
  BY DEF InsertEntry, RemoveEntries
<1>2. WellTyped(stored)
  <2>1. /\ Coherent(removed)
        /\ Resident(removed) = Resident(p) \ (DOMAIN plan.evictions \cup {plan.key})
    BY RemoveCoherent
  <2> HIDE DEF removed
  <2>2. plan.key \in Keys /\ plan.role \in Roles /\ plan.nbytes \in 0 .. MaxBytes
    BY DEF Executable
  <2>3. Coherent(stored)
    BY <2>1, <2>2, InsertCoherent
  <2>4. QED
    BY <2>3 DEF Coherent
<1>3. Commit(p, plan) = IF plan.role = "stable" /\ plan.reason \in StableReasons
                        THEN cleared ELSE stored
  BY DEF Commit
<1> HIDE DEF stored
<1>4. cleared.cand = NoCandidate
  BY <1>2, CandidateFields
<1> HIDE DEF cleared
<1>5. QED
  BY <1>1, <1>3, <1>4

(* What planning a stable candidate decides: it leaves the candidate alone *)
(* or sights key against the incumbent, and unless key is the incumbent or *)
(* the incumbent is cold and shorter, it admits the second sighting only.  *)
LEMMA CandidateDecision ==
    ASSUME NEW p, Coherent(p), NEW key \in Keys, NEW nbytes \in Nat
    PROVE  LET result  == PlanStableCandidate(p, key, nbytes)
               current == p.entries[Incumbent(p)]
               sighted == Sighted(p.cand, key, current.hits)
           IN  /\ \/ result.policy.cand = p.cand
                  \/ p.buckets["stable"] # {} /\ result.policy.cand = sighted
               /\ \/ ~result.plan.accepted
                  \/ p.buckets["stable"] = {}
                  \/ Incumbent(p) = key
                  \/ current.hits = 0 /\ Length(key) > Length(Incumbent(p))
                  \/ sighted.count >= 2
<1> DEFINE result  == PlanStableCandidate(p, key, nbytes)
           current == p.entries[Incumbent(p)]
           sighted == Sighted(p.cand, key, current.hits)
           state(cand) == [p EXCEPT !.cand = cand]
           refused(reason) == Refusal(key, "stable", nbytes, reason)
           settled == \/ p.buckets["stable"] = {}
                      \/ Incumbent(p) = key
                      \/ current.hits = 0 /\ Length(key) > Length(Incumbent(p))
<1>1. \A cand : state(cand).cand = cand
  BY CandidateFields DEF Coherent
<1>2. \A reason : ~refused(reason).accepted
  BY DEF Refusal
<1>3. CASE ZeroCapacity \/ nbytes > MaxBytes
  <2>1. result.policy = state(p.cand) /\ result.plan = refused("oversized_or_disabled")
    BY <1>3, Zenon DEF PlanStableCandidate
  <2>2. result.policy.cand = p.cand /\ ~result.plan.accepted
    BY <1>1, <1>2, <2>1, Zenon
  <2>3. QED
    BY <2>2, Zenon
<1>4. CASE ~(ZeroCapacity \/ nbytes > MaxBytes) /\ settled
  <2>1. result.policy = state(p.cand)
    BY <1>4, Zenon DEF PlanStableCandidate
  <2>2. result.policy.cand = p.cand
    BY <1>1, <2>1, Zenon
  <2>3. QED
    BY <1>4, <2>2, Zenon
<1>5. CASE ~(ZeroCapacity \/ nbytes > MaxBytes) /\ ~settled
  <2>1. /\ result.policy = state(sighted)
        /\ sighted.count >= 2 \/ result.plan = refused("stable_probation")
    BY <1>5, Zenon DEF PlanStableCandidate
  <2>2. /\ result.policy.cand = sighted
        /\ sighted.count >= 2 \/ ~result.plan.accepted
    BY <1>1, <1>2, <2>1, Zenon
  <2>3. QED
    BY <1>5, <2>2, Zenon
<1>6. QED
  BY <1>3, <1>4, <1>5, Zenon

(* A sighting that does not restart the probation was of the candidate,    *)
(* against an incumbent with no more hits than the probation started from. *)
LEMMA SightedTwice ==
    ASSUME NEW cand, NEW key, NEW hits, Sighted(cand, key, hits).count >= 2
    PROVE  cand.key = key /\ hits <= cand.baseHits
BY DEF Sighted

(* A sighting starts a probation at the hits of the incumbent, or goes on  *)
(* with one that started from them.                                        *)
LEMMA SightedBaseline ==
    ASSUME NEW cand \in CandidateState, NEW key, NEW hits \in Nat,
           cand.key = key => cand.baseHits <= hits
    PROVE  Sighted(cand, key, hits).key = key /\ Sighted(cand, key, hits).baseHits = hits
BY DEF Sighted, CandidateState

(* Every step of the lane keeps the probation tied to the incumbent.       *)
LEMMA ProbationNext ==
    LaneIsProtected /\ PolicyInv /\ Probation(policy, quiet) /\ [LaneNext]_vars
        => Probation(policy, quiet)'
<1> SUFFICES ASSUME LaneIsProtected, PolicyInv, Probation(policy, quiet), [LaneNext]_vars
             PROVE  Probation(policy', quiet')
  OBVIOUS
<1>0. /\ Coherent(policy) /\ WithinLimits(policy) /\ SingleStable(policy)
      /\ policy.cand \in CandidateState
  BY DEF PolicyInv, Coherent, WellTyped, CandidateState
<1>1. ASSUME NEW key \in Keys, NEW nbytes \in Sizes, AdmitStableCandidate(key, nbytes),
             quiet' = quiet \cup {key}
      PROVE  Probation(policy', quiet')
  <2> DEFINE result  == PlanStableCandidate(policy, key, nbytes)
             hits    == policy.entries[Incumbent(policy)].hits
             sighted == Sighted(policy.cand, key, hits)
  <2>1. nbytes \in Nat
    BY InputsAssumption
  <2>2. /\ Coherent(result.policy)
        /\ result.plan.accepted => Executable(result.policy, result.plan)
    BY <1>0, <2>1, StableCandidatePlan
  <2>3. /\ result.policy.entries = policy.entries
        /\ result.policy.buckets = policy.buckets
        /\ result.plan.accepted =>
              result.plan.role = "stable" /\ result.plan.reason \in StableReasons
    BY <1>0, <2>1, CandidateAdmission
  <2>4. policy' = Commit(result.policy, result.plan)
    BY <1>1 DEF AdmitStableCandidate
  <2>5. \/ result.policy.cand = policy.cand
        \/ policy.buckets["stable"] # {} /\ result.policy.cand = sighted
    BY <1>0, <2>1, CandidateDecision
  <2> HIDE DEF result
  <2>6. CASE result.plan.accepted
    <3>1. policy'.cand = NoCandidate
      BY <2>2, <2>3, <2>4, <2>6, CommitCandidate
    <3>2. QED
      BY <3>1 DEF Probation, NoCandidate
  <2>7. CASE ~result.plan.accepted /\ result.policy.cand = policy.cand
    <3>1. policy' = result.policy
      BY <2>4, <2>7 DEF Commit
    <3>2. QED
      BY <1>1, <2>3, <2>7, <3>1, ProbationKept
  <2>8. CASE /\ ~result.plan.accepted
             /\ policy.buckets["stable"] # {} /\ result.policy.cand = sighted
    <3>1. policy' = result.policy
      BY <2>4, <2>8 DEF Commit
    <3>2. /\ Incumbent(policy) \in policy.buckets["stable"]
          /\ hits \in Nat
      BY <1>0, <2>8, IncumbentResides DEF Coherent, WellTyped, EntryState
    <3>3. policy.cand.key = key => policy.cand.baseHits <= hits
      BY <3>2, KeysAssumption DEF Probation
    <3>4. sighted.key = key /\ sighted.baseHits = hits
      <4> HIDE DEF hits
      <4>1. QED
        BY <1>0, <3>2, <3>3, SightedBaseline
    <3>5. \A k \in policy'.buckets["stable"] : policy'.entries[k].hits = hits
      BY <1>0, <2>3, <3>1, <3>2 DEF SingleStable
    <3> HIDE DEF hits, sighted
    <3>6. QED
      BY <1>1, <2>8, <3>1, <3>2, <3>4, <3>5 DEF Probation
  <2>9. QED
    BY <2>5, <2>6, <2>7, <2>8
<1>2. ASSUME NEW key \in Keys, NEW role \in AdmitRoles, NEW nbytes \in Sizes,
             AdmitEntry(key, role, nbytes, None), UNCHANGED quiet
      PROVE  Probation(policy', quiet')
  <2> DEFINE plan == PlanAdmission(policy, key, role, nbytes, None)
  <2>1. role \in Roles /\ nbytes \in Nat /\ role # "stable"
    BY InputsAssumption DEF LaneIsProtected
  <2>2. plan.accepted => Executable(policy, plan)
    BY <1>0, <2>1, AdmissionPlan
  <2>3. plan.role = role
    BY PlanParts
  <2>4. policy' = Commit(policy, plan)
    BY <1>2 DEF AdmitEntry
  <2> HIDE DEF plan
  <2>5. CASE ~plan.accepted
    BY <1>2, <2>4, <2>5 DEF Commit
  <2>6. CASE plan.accepted
    <3>1. policy'.cand = policy.cand \/ policy'.cand = NoCandidate
      BY <1>0, <2>2, <2>4, <2>6, CommitCandidate
    <3>2. \A k \in policy'.buckets["stable"] :
             k \in policy.buckets["stable"] /\ policy'.entries[k] = policy.entries[k]
      BY <1>0, <2>1, <2>2, <2>3, <2>4, <2>6, CommitBucket, RolesAssumption
    <3>3. QED
      BY <1>2, <3>1, <3>2, ProbationKept
  <2>7. QED
    BY <2>5, <2>6
<1>3. ASSUME NEW target \in TrimTargets, TrimTo(target[1], target[2]), UNCHANGED quiet
      PROVE  Probation(policy', quiet')
  <2> DEFINE gone == PlanTrim(policy, target[1], target[2])
             q    == RemoveEntries(policy, gone)
  <2>1. policy' = q
    BY <1>3 DEF TrimTo, CommitTrim
  <2>2. /\ Coherent(q)
        /\ Resident(q) = Resident(policy) \ gone
        /\ \A k \in Resident(q) : q.entries[k] = policy.entries[k]
    BY <1>0, RemoveCoherent
  <2>3. q.cand = policy.cand /\ q.buckets["stable"] \subseteq policy.buckets["stable"]
    BY RolesAssumption DEF RemoveEntries
  <2> HIDE DEF gone, q
  <2>4. \A k \in q.buckets["stable"] : k \in Resident(q)
    BY <2>2, RolesAssumption DEF Coherent, Filed
  <2>5. QED
    BY <1>3, <2>1, <2>2, <2>3, <2>4, ProbationKept
<1>4. ASSUME NEW key \in Keys, ObserveHit(key),
             quiet' = (IF key \in StableKeys THEN {} ELSE quiet)
      PROVE  Probation(policy', quiet')
  <2>1. /\ policy' = AddHit(policy, key)
        /\ policy.entries \in [Resident(policy) -> EntryState]
        /\ DOMAIN policy = {"entries", "buckets", "older", "opened", "nbytes", "cand"}
    BY <1>0, <1>4 DEF ObserveHit, Coherent, WellTyped
  <2>2. CASE key \notin Resident(policy)
    <3>1. policy' = policy /\ key \notin StableKeys
      BY <1>0, <2>1, <2>2, RolesAssumption DEF AddHit, StableKeys, Coherent, Filed
    <3>2. QED
      BY <1>4, <3>1
  <2>3. CASE key \in Resident(policy)
    <3>1. /\ policy'.entries = [policy.entries EXCEPT ![key].hits = @ + 1]
          /\ policy'.buckets = policy.buckets
          /\ policy'.cand = policy.cand
      BY <2>1, <2>3 DEF AddHit
    <3>2. /\ policy'.entries[key].hits = policy.entries[key].hits + 1
          /\ policy.entries[key].hits \in Nat
          /\ \A k \in Resident(policy) \ {key} : policy'.entries[k] = policy.entries[k]
      BY <2>1, <2>3, <3>1 DEF EntryState
    <3>3. CASE key \in StableKeys
      <4>1. \A k \in policy.buckets["stable"] : k = key
        BY <1>0, <3>3 DEF SingleStable, StableKeys
      <4>2. ASSUME policy.cand.key # None
            PROVE  policy.cand.baseHits <= policy.entries[key].hits
        BY <3>3, <4>2 DEF Probation, StableKeys
      <4>3. policy.cand.baseHits \in Nat
        BY <1>0 DEF CandidateState
      <4>4. QED
        BY <3>1, <3>2, <4>1, <4>2, <4>3 DEF Probation
    <3>4. CASE key \notin StableKeys
      <4>1. \A k \in policy'.buckets["stable"] :
               k \in policy.buckets["stable"] /\ policy'.entries[k] = policy.entries[k]
        BY <1>0, <3>1, <3>2, <3>4, RolesAssumption DEF StableKeys, Coherent, Filed
      <4>2. QED
        BY <1>4, <3>1, <3>4, <4>1, ProbationKept
    <3>5. QED
      BY <3>3, <3>4
  <2>4. QED
    BY <2>2, <2>3
<1>5. CASE UNCHANGED vars
  BY <1>5 DEF vars
<1>6. QED
  BY <1>1, <1>2, <1>3, <1>4, <1>5 DEF LaneNext

(* The probation stays tied to the incumbent in every reachable state.     *)
LEMMA ProbationHolds ==
    LaneIsProtected => (LaneSpec => [](PolicyInv /\ Probation(policy, quiet)))
<1> DEFINE P == Probation(policy, quiet)
<1>1. LaneInit => P
  BY RolesAssumption DEF LaneInit, Init, EmptyPolicy, Probation
<1>2. LaneIsProtected /\ PolicyInv /\ P /\ [LaneNext]_vars => P'
  BY ProbationNext
<1> HIDE DEF P
<1>3. ASSUME LaneIsProtected
      PROVE  LaneSpec => [](PolicyInv /\ P)
  <2>1. PolicyInv /\ P /\ [LaneNext]_vars => P'
    BY <1>2, <1>3
  <2>2. QED
    BY <1>1, <2>1, LaneIsPolicy, PTL DEF LaneSpec
<1>4. QED
  BY <1>3 DEF P

(* The hit count a probation is measured from never runs ahead of the      *)
(* incumbent's own counter, whatever the keys, the roles and the capacity: *)
(* no hit of the incumbent is hidden from a probation.                     *)
THEOREM BaselineTracksIncumbent == LaneIsProtected => (LaneSpec => []BaselineIsIncumbents)
<1>1. PolicyInv /\ Probation(policy, quiet) => BaselineIsIncumbents
  <2> SUFFICES ASSUME PolicyInv, Probation(policy, quiet),
                      policy.cand.key # None, StableKeys # {}
               PROVE  policy.cand.baseHits <= policy.entries[Incumbent(policy)].hits
    BY DEF BaselineIsIncumbents
  <2>1. Incumbent(policy) \in policy.buckets["stable"]
    BY IncumbentResides DEF PolicyInv, StableKeys
  <2>2. QED
    BY <2>1 DEF Probation
<1>2. ASSUME LaneIsProtected PROVE LaneSpec => []BaselineIsIncumbents
  <2>1. LaneSpec => [](PolicyInv /\ Probation(policy, quiet))
    BY <1>2, ProbationHolds
  <2>2. QED
    BY <1>1, <2>1, PTL
<1>3. QED
  BY <1>2

(* A step that gives the lane to another prefix, the incumbent neither     *)
(* cold nor shorter, promotes one that was sighted since that incumbent    *)
(* last served a hit: one sighting never displaces it, and neither do two  *)
(* with a hit between them.                                                *)
THEOREM PromotionsAreEarned == LaneIsProtected => (LaneSpec => PromotionNeedsQuietIncumbent)
<1>1. ASSUME PolicyInv, Probation(policy, quiet), NEW key \in Keys, Promoted(key)
      PROVE  key \in quiet
  <2>1. PICK nbytes \in Sizes : AdmitStableCandidate(key, nbytes)
    BY <1>1 DEF Promoted
  <2> DEFINE result  == PlanStableCandidate(policy, key, nbytes)
             hits    == policy.entries[Incumbent(policy)].hits
             sighted == Sighted(policy.cand, key, hits)
  <2>2. Coherent(policy) /\ nbytes \in Nat
    BY <1>1, InputsAssumption DEF PolicyInv
  <2>3. /\ policy.buckets["stable"] # {}
        /\ key \notin policy.buckets["stable"]
        /\ ~(hits = 0 /\ Length(key) > Length(Incumbent(policy)))
        /\ key \in policy'.buckets["stable"]
    BY <1>1 DEF Promoted, StableKeys
  <2>4. Incumbent(policy) \in policy.buckets["stable"]
    BY <2>2, <2>3, IncumbentResides
  <2>5. /\ policy' = Commit(result.policy, result.plan)
        /\ result.policy.buckets = policy.buckets
    BY <2>1, <2>2, CandidateAdmission DEF AdmitStableCandidate
  <2>6. ~result.plan.accepted \/ sighted.count >= 2
    BY <2>2, <2>3, <2>4, CandidateDecision
  <2> HIDE DEF result
  <2>7. result.plan.accepted
    BY <2>3, <2>5 DEF Commit
  <2> HIDE DEF hits
  <2>8. policy.cand.key = key /\ hits <= policy.cand.baseHits
    BY <2>6, <2>7, SightedTwice
  <2>9. QED
    BY <1>1, <2>4, <2>8, KeysAssumption DEF Probation, hits
<1>2. PolicyInv /\ Probation(policy, quiet) /\ [LaneNext]_vars
         => [\A key \in Keys : Promoted(key) => key \in quiet]_vars
  BY <1>1
<1>3. ASSUME LaneIsProtected PROVE LaneSpec => PromotionNeedsQuietIncumbent
  <2>1. LaneSpec => [](PolicyInv /\ Probation(policy, quiet))
    BY <1>3, ProbationHolds
  <2>2. QED
    BY <1>2, <2>1, PTL DEF LaneSpec, PromotionNeedsQuietIncumbent
<1>4. QED
  BY <1>3

-----------------------------------------------------------------------------
(* The loops. A loop takes the first of what is left, in the order of the  *)
(* two passes, as long as it is over its limit. So what it has taken is    *)
(* closed under that order and part of the closed form, which it reaches   *)
(* when it ends.                                                           *)

\* B is a strict total order of the candidates C.
TotalOrder(C, B) ==
    /\ \A u \in C : <<u, u>> \notin B
    /\ \A u, v, w \in C : <<u, v>> \in B /\ <<v, w>> \in B => <<u, w>> \in B
    /\ \A u, v \in C : u # v => <<u, v>> \in B \/ <<v, u>> \in B

\* O has the sets of victims that are not enough: with a set all of its parts.
Antitone(C, O) == \A A, D \in SUBSET C : A \subseteq D /\ D \in O => A \in O

\* V is the closed form: v goes when those that go before it are not enough.
IsClosedForm(C, B, O, V) == V = {v \in C : {u \in C : <<u, v>> \in B} \in O}

\* The loop has taken T: part of the closed form, the first ones in the order.
Initial(C, B, V, T) == T \subseteq V /\ \A v \in T, u \in C : <<u, v>> \in B => u \in T

(* The first candidate left belongs to the closed form if T is not enough. *)
LEMMA LoopTurn ==
    ASSUME NEW C, NEW B, NEW O, NEW V, NEW T,
           TotalOrder(C, B), IsClosedForm(C, B, O, V), Initial(C, B, V, T), T \in O,
           NEW v \in C \ T, \A u \in C \ (T \cup {v}) : <<v, u>> \in B
    PROVE  Initial(C, B, V, T \cup {v})
<1>1. T \subseteq C
  BY DEF Initial, IsClosedForm
<1>2. \A u \in T : <<u, v>> \in B
  BY <1>1 DEF TotalOrder, Initial
<1>3. \A u \in C : <<u, v>> \in B => u \in T
  BY DEF TotalOrder
<1>4. {u \in C : <<u, v>> \in B} = T
  BY <1>1, <1>2, <1>3
<1>5. v \in V
  BY <1>4 DEF IsClosedForm
<1>6. QED
  BY <1>3, <1>5 DEF Initial

(* A loop that has taken enough, or everything, has taken the closed form. *)
LEMMA LoopEnd ==
    ASSUME NEW C, NEW B, NEW O, NEW V, NEW T,
           TotalOrder(C, B), Antitone(C, O), IsClosedForm(C, B, O, V),
           Initial(C, B, V, T), T \notin O \/ T = C
    PROVE  T = V
<1>1. T \subseteq C /\ T \subseteq V
  BY DEF Initial, IsClosedForm
<1>2. SUFFICES ASSUME NEW v \in V, v \notin T, T \notin O PROVE FALSE
  BY <1>1 DEF IsClosedForm
<1> DEFINE earlier == {u \in C : <<u, v>> \in B}
<1>3. v \in C /\ earlier \in O /\ earlier \in SUBSET C
  BY DEF IsClosedForm
<1>4. \A u \in T : <<u, v>> \in B
  BY <1>1, <1>2, <1>3 DEF TotalOrder, Initial
<1>5. T \subseteq earlier
  BY <1>1, <1>4
<1> HIDE DEF earlier
<1>6. QED
  BY <1>1, <1>2, <1>3, <1>5 DEF Antitone

(* _next_victim finds a victim when there is one.                          *)
LEMMA NextVictimFound ==
    ASSUME NEW p, Coherent(p), Numbered(p), NEW excluding
    PROVE  LET left == Resident(p) \ excluding
           IN  /\ NextVictim(p, excluding) \subseteq left
               /\ \A v \in NextVictim(p, excluding), u \in left :
                     u # v => EvictedBefore(p, v, u)
               /\ left # {} => NextVictim(p, excluding) # {}
<1> DEFINE left == Resident(p) \ excluding
<1>1. NextVictim(p, excluding)
         = {v \in left : \A u \in left \ {v} : EvictedBefore(p, v, u)}
  BY IndexedResident DEF NextVictim
<1>2. ASSUME left # {} PROVE NextVictim(p, excluding) # {}
  <2>1. left \subseteq Resident(p)
    OBVIOUS
  <2> HIDE DEF left
  <2>2. PICK v \in left : \A u \in left : ~TakenBefore(p, {}, u, v)
    BY <1>2, <2>1, TakenExtremes
  <2>3. \A u \in left \ {v} : EvictedBefore(p, v, u)
    BY <2>1, <2>2, EvictedBeforeTotal DEF TakenBefore
  <2>4. QED
    BY <1>1, <2>3
<1>3. QED
  BY <1>1, <1>2

(* So each turn takes the first of what is left, if anything is.           *)
LEMMA VictimIsFirst ==
    ASSUME NEW p, Coherent(p), Numbered(p), NEW excluding
    PROVE  LET left == Resident(p) \ excluding
           IN  /\ Victim(p, excluding) \subseteq left
               /\ \A v \in Victim(p, excluding), u \in left :
                     u # v => TakenBefore(p, call.protected, v, u)
               /\ left # {} => Victim(p, excluding) # {}
<1> DEFINE spared == NextVictim(p, excluding \cup call.protected)
           open   == Resident(p) \ (excluding \cup call.protected)
<1>1. /\ spared \subseteq open
      /\ \A v \in spared, u \in open : u # v => EvictedBefore(p, v, u)
      /\ open # {} => spared # {}
  BY NextVictimFound
<1>2. CASE spared # {}
  <2>1. Victim(p, excluding) = spared
    BY <1>2 DEF Victim
  <2> HIDE DEF spared
  <2>2. QED
    BY <1>1, <1>2, <2>1 DEF TakenBefore
<1>3. CASE spared = {}
  <2>1. Victim(p, excluding) = NextVictim(p, excluding)
    BY <1>3 DEF Victim
  <2>2. \A u \in Resident(p) \ excluding : u \in call.protected
    BY <1>1, <1>3
  <2>3. QED
    BY <2>1, <2>2, NextVictimFound DEF TakenBefore
<1>4. QED
  BY <1>2, <1>3

\* What a loop with these candidates has taken so far.
Partial(p, candidates, protected, victims, taken) ==
    /\ taken \subseteq victims
    /\ \A v \in taken, u \in candidates : TakenBefore(p, protected, u, v) => u \in taken

\* The closed form, when the sets of O are the ones that are not enough.
Needed(p, C, O) == {v \in C : {u \in C : TakenBefore(p, call.protected, u, v)} \in O}

\* The loop that has taken these excludes them and what it must not take.
LeftIs(p, C, taken, excluding) ==
    C \subseteq Resident(p) /\ Resident(p) \ excluding = C \ taken

\* What a turn with these candidates takes, and what the loop has at its end.
TurnTakes(p, C, O, V, taken, turn) ==
    /\ taken \in O => \A v \in turn :
          v \in C \ taken /\ Partial(p, C, call.protected, V, taken \cup {v})
    /\ (taken \in O => turn = {}) => taken = V

(* A turn of either loop, and its end.                                     *)
LEMMA VictimTurn ==
    ASSUME NEW p, Coherent(p), Numbered(p), NEW C,
           NEW O, Antitone(C, O), NEW V, V = Needed(p, C, O),
           NEW taken, Partial(p, C, call.protected, V, taken),
           NEW excluding, LeftIs(p, C, taken, excluding)
    PROVE  TurnTakes(p, C, O, V, taken, Victim(p, excluding))
<1> DEFINE B == {pair \in C \X C : TakenBefore(p, call.protected, pair[1], pair[2])}
           turn == Victim(p, excluding)
<1>0. C \subseteq Resident(p) /\ Resident(p) \ excluding = C \ taken
  BY DEF LeftIs
<1>1. \A u, v \in C : <<u, v>> \in B <=> TakenBefore(p, call.protected, u, v)
  OBVIOUS
<1>2. /\ turn \subseteq C \ taken
      /\ \A v \in turn, u \in C \ taken : u # v => TakenBefore(p, call.protected, v, u)
      /\ C \ taken # {} => turn # {}
  <2> HIDE DEF turn
  <2>1. QED
    BY <1>0, VictimIsFirst DEF turn
<1>3. /\ taken \subseteq V
      /\ \A v \in taken, u \in C : TakenBefore(p, call.protected, u, v) => u \in taken
  BY DEF Partial
<1> HIDE DEF B, turn
<1>4. taken \subseteq C
  BY <1>3 DEF Needed
<1>5. TotalOrder(C, B)
  <2>1. \A u \in C : <<u, u>> \notin B
    BY <1>0, <1>1, EvictedBeforeIrreflexive DEF TakenBefore
  <2>2. \A u, v, w \in C : <<u, v>> \in B /\ <<v, w>> \in B => <<u, w>> \in B
    BY <1>0, <1>1, TakenOrder
  <2>3. \A u, v \in C : u # v => <<u, v>> \in B \/ <<v, u>> \in B
    BY <1>0, <1>1, TakenTotal
  <2>4. QED
    BY <2>1, <2>2, <2>3 DEF TotalOrder
<1>6. IsClosedForm(C, B, O, V)
  <2>1. \A v \in C : {u \in C : TakenBefore(p, call.protected, u, v)}
                        = {u \in C : <<u, v>> \in B}
    BY <1>1
  <2>2. QED
    BY <2>1 DEF IsClosedForm, Needed
<1>7. Initial(C, B, V, taken)
  BY <1>1, <1>3, <1>4 DEF Initial
<1>8. ASSUME taken \in O, NEW v \in turn
      PROVE  v \in C \ taken /\ Partial(p, C, call.protected, V, taken \cup {v})
  <2>1. v \in C \ taken
    BY <1>2, <1>8
  <2>2. \A u \in C \ (taken \cup {v}) : <<v, u>> \in B
    BY <1>1, <1>2, <1>8, <2>1
  <2>3. Initial(C, B, V, taken \cup {v})
    BY <1>5, <1>6, <1>7, <1>8, <2>1, <2>2, LoopTurn
  <2>4. \A w \in taken \cup {v} : w \in C
    BY <1>4, <2>1
  <2>5. \A w \in taken \cup {v}, u \in C :
           TakenBefore(p, call.protected, u, w) => u \in taken \cup {v}
    BY <1>1, <2>3, <2>4 DEF Initial
  <2>6. QED
    BY <2>1, <2>3, <2>5 DEF Initial, Partial
<1>9. ASSUME taken \in O => turn = {}
      PROVE  taken = V
  <2>1. taken \notin O \/ taken = C
    BY <1>2, <1>4, <1>9
  <2>2. QED
    BY <1>5, <1>6, <1>7, <2>1, LoopEnd
<1>10. QED
  BY <1>8, <1>9 DEF turn, TurnTakes

\* The keys plan_admission's loop may take.
Candidates(p, key, forced) == Resident(p) \ (forced \cup {key})

\* What it has taken so far.
AdmissionLoop(p, key, nbytes, forced, taken) ==
    Partial(p, Candidates(p, key, forced), call.protected,
            CapacityVictims(p, key, nbytes, forced, call.protected), taken)

\* A turn takes a key of the closed form, and the loop ends with all of them.
AdmissionLoopTurns(p, key, nbytes, forced, taken) ==
    LET over == ProjectedOverLimit(p, key, nbytes, forced \cup taken)
        turn == Victim(p, (forced \cup taken) \cup {key})
    IN  /\ over => \A v \in turn :
              /\ v \in Candidates(p, key, forced) \ taken
              /\ AdmissionLoop(p, key, nbytes, forced, taken \cup {v})
        /\ (over => turn = {}) =>
              taken = CapacityVictims(p, key, nbytes, forced, call.protected)

(* plan_admission's loop takes the closed form.                            *)
LEMMA AdmissionTurn ==
    ASSUME NEW p, Coherent(p), Numbered(p), NEW key, NEW nbytes \in Nat, NEW forced,
           NEW taken, AdmissionLoop(p, key, nbytes, forced, taken)
    PROVE  AdmissionLoopTurns(p, key, nbytes, forced, taken)
<1> DEFINE candidates == Candidates(p, key, forced)
           victims == CapacityVictims(p, key, nbytes, forced, call.protected)
<1>1. Partial(p, candidates, call.protected, victims, taken)
  BY DEF AdmissionLoop
<1>2. candidates = Resident(p) \ (forced \cup {key})
  BY DEF Candidates
<1> DEFINE O == {A \in SUBSET candidates : ProjectedOverLimit(p, key, nbytes, forced \cup A)}
<1>3. \A A \in SUBSET candidates : A \in O <=> ProjectedOverLimit(p, key, nbytes, forced \cup A)
  OBVIOUS
<1>4. victims = Needed(p, candidates, O)
  <2>1. victims = {v \in candidates : ProjectedOverLimit(p, key, nbytes,
                     forced \cup {u \in candidates : TakenBefore(p, call.protected, u, v)})}
    BY <1>2, IndexedResident DEF CapacityVictims
  <2> HIDE DEF O
  <2>2. \A v \in candidates :
           {u \in candidates : TakenBefore(p, call.protected, u, v)} \in SUBSET candidates
    OBVIOUS
  <2>3. QED
    BY <1>3, <2>1, <2>2 DEF Needed
<1> HIDE DEF O
<1>5. Antitone(candidates, O)
  <2>1. ASSUME NEW A \in SUBSET candidates, NEW D \in SUBSET candidates,
               A \subseteq D, D \in O
        PROVE  A \in O
    <3>1. (forced \cup A) \subseteq (forced \cup D)
      BY <2>1
    <3>2. QED
      BY <1>3, <2>1, <3>1, OverLimitMonotone
  <2>2. QED
    BY <2>1 DEF Antitone
<1>6. candidates \subseteq Resident(p)
      /\ Resident(p) \ ((forced \cup taken) \cup {key}) = candidates \ taken
  BY <1>2
<1>7. taken \subseteq candidates
  BY <1>1, <1>4 DEF Needed, Partial
<1> HIDE DEF candidates, victims
<1> DEFINE excluding == (forced \cup taken) \cup {key}
<1> HIDE DEF excluding
<1>8. LeftIs(p, candidates, taken, excluding)
  BY <1>6 DEF excluding, LeftIs
<1>9. TurnTakes(p, candidates, O, victims, taken, Victim(p, excluding))
  BY <1>1, <1>4, <1>5, <1>8, VictimTurn
<1>10. QED
  BY <1>3, <1>7, <1>9
  DEF excluding, TurnTakes, candidates, victims, AdmissionLoop, AdmissionLoopTurns

\* What plan_trim's loop has taken so far.
TrimLoop(p, sequences, bytes, taken) ==
    /\ call.protected = IF OverTarget(p, WorkingKeys(p), sequences, bytes)
                        THEN {} ELSE WorkingKeys(p)
    /\ Partial(p, Resident(p), call.protected, PlanTrim(p, sequences, bytes), taken)

\* A turn takes a key of the closed form, and the loop ends with all of them.
TrimLoopTurns(p, sequences, bytes, taken) ==
    LET over == OverTarget(p, Resident(p) \ taken, sequences, bytes)
        turn == Victim(p, taken)
    IN  /\ over => \A v \in turn : TrimLoop(p, sequences, bytes, taken \cup {v})
        /\ (over => turn = {}) => taken = PlanTrim(p, sequences, bytes)

(* And so does plan_trim's loop.                                           *)
LEMMA TrimTurn ==
    ASSUME NEW p, Coherent(p), Numbered(p), NEW sequences \in Nat, NEW bytes \in Nat,
           NEW taken, TrimLoop(p, sequences, bytes, taken)
    PROVE  TrimLoopTurns(p, sequences, bytes, taken)
<1> DEFINE victims == PlanTrim(p, sequences, bytes)
<1>0. /\ Partial(p, Resident(p), call.protected, victims, taken)
      /\ call.protected = IF OverTarget(p, WorkingKeys(p), sequences, bytes)
                          THEN {} ELSE WorkingKeys(p)
  BY DEF TrimLoop
<1> DEFINE all == Resident(p)
           O   == {A \in SUBSET all : OverTarget(p, all \ A, sequences, bytes)}
<1>1. \A A \in SUBSET all : A \in O <=> OverTarget(p, all \ A, sequences, bytes)
  OBVIOUS
<1>2. victims = Needed(p, all, O)
  <2>1. victims = {v \in all : OverTarget(p,
                     all \ {u \in all : TakenBefore(p, call.protected, u, v)},
                     sequences, bytes)}
    BY <1>0, IndexedResident DEF PlanTrim
  <2> HIDE DEF O, all
  <2>2. \A v \in all : {u \in all : TakenBefore(p, call.protected, u, v)} \in SUBSET all
    OBVIOUS
  <2>3. QED
    BY <1>1, <2>1, <2>2 DEF Needed
<1> HIDE DEF O
<1>3. Antitone(all, O)
  <2>1. ASSUME NEW A \in SUBSET all, NEW D \in SUBSET all, A \subseteq D, D \in O
        PROVE  A \in O
    <3>1. all \ D \in SUBSET (all \ A) /\ IsFiniteSet(all \ A)
      BY <2>1, FS_Subset DEF Coherent
    <3>2. OverTarget(p, all \ D, sequences, bytes)
      BY <1>1, <2>1
    <3> HIDE DEF all
    <3>3. OverTarget(p, all \ A, sequences, bytes)
      BY <3>1, <3>2, OverTargetMonotone
    <3>4. QED
      BY <1>1, <2>1, <3>3
  <2>2. QED
    BY <2>1 DEF Antitone
<1>4. taken \subseteq all
  BY <1>0, <1>2 DEF Needed, Partial
<1>5. LeftIs(p, all, taken, taken)
  BY DEF LeftIs
<1> HIDE DEF all, victims
<1>6. TurnTakes(p, all, O, victims, taken, Victim(p, taken))
  BY <1>0, <1>2, <1>3, <1>5, VictimTurn DEF all
<1>7. QED
  BY <1>0, <1>1, <1>4, <1>6 DEF TurnTakes, TrimLoop, TrimLoopTurns, all, victims

\* The reason an admission evicts k for.
ReasonFor(p, key, role, predecessor, k) ==
    IF k \in StableRotation(p, key, role) THEN "stable_rotate"
    ELSE IF k \in Compacted(p, key, role, predecessor) THEN "active_successor"
    ELSE IF k \in Quota(p, key, role, predecessor) THEN "pin_quota" ELSE "capacity"

\* The evictions of an admission whose loop has taken these.
EvictionsWith(p, key, role, predecessor, taken) ==
    [k \in Forced(p, key, role, predecessor) \cup taken |->
        ReasonFor(p, key, role, predecessor, k)]

(* The plan of a payload that is not refused at once.                      *)
LEMMA PlanForm ==
    ASSUME NEW p, Coherent(p), NEW key, NEW role, NEW nbytes \in 0 .. MaxBytes,
           NEW predecessor, ~ZeroCapacity
    PROVE  PlanAdmission(p, key, role, nbytes, predecessor)
              = [accepted |-> TRUE, key |-> key, role |-> role, nbytes |-> nbytes,
                 evictions |-> EvictionsWith(p, key, role, predecessor,
                                             Taken(p, key, role, nbytes, predecessor)),
                 reason |-> "admit"]
<1> DEFINE plan      == PlanAdmission(p, key, role, nbytes, predecessor)
           rotated   == StableRotation(p, key, role)
           compacted == Compacted(p, key, role, predecessor)
           quota     == Quota(p, key, role, predecessor)
           forced    == rotated \cup compacted \cup quota
           taken     == Taken(p, key, role, nbytes, predecessor)
           evicted   == forced \cup taken
           fits      == ~ProjectedOverLimit(p, key, nbytes, evicted)
           reason(k) == IF k \in rotated THEN "stable_rotate"
                        ELSE IF k \in compacted THEN "active_successor"
                        ELSE IF k \in quota THEN "pin_quota" ELSE "capacity"
<1>1. ~(ZeroCapacity \/ nbytes > MaxBytes)
  BY CapacityAssumption
<1>2. plan = [accepted |-> fits, key |-> key, role |-> role, nbytes |-> nbytes,
              evictions |-> [k \in evicted |-> reason(k)],
              reason |-> IF fits THEN "admit" ELSE "cannot_fit"]
  BY <1>1, Zenon DEF PlanAdmission, Compacted, Quota, Forced, Spared, Taken
<1>3. forced = Forced(p, key, role, predecessor)
  BY DEF Forced
<1>4. fits = TRUE
  <2>1. fits
    BY <1>3, EvictionMakesRoom DEF Taken
  <2> HIDE DEF fits
  <2>2. fits \in BOOLEAN
    BY DEF fits
  <2>3. QED
    BY <2>1, <2>2
<1>5. [k \in evicted |-> reason(k)] = EvictionsWith(p, key, role, predecessor, taken)
  BY <1>3, Zenon DEF EvictionsWith, ReasonFor
<1> HIDE DEF plan, fits, taken
<1>6. plan = [accepted |-> TRUE, key |-> key, role |-> role, nbytes |-> nbytes,
              evictions |-> EvictionsWith(p, key, role, predecessor, taken),
              reason |-> "admit"]
  BY <1>2, <1>4, <1>5
<1>7. QED
  BY <1>6 DEF plan, taken

(* Planning an admission does not look at the candidate on probation.      *)
LEMMA PlanIgnoresCandidate ==
    ASSUME NEW p, NEW q, q.entries = p.entries, q.buckets = p.buckets,
           q.older = p.older, q.opened = p.opened,
           NEW key, NEW role, NEW nbytes, NEW predecessor
    PROVE  PlanAdmission(q, key, role, nbytes, predecessor)
              = PlanAdmission(p, key, role, nbytes, predecessor)
<1>1. /\ Resident(q) = Resident(p)
      /\ Pinned(q) = Pinned(p)
      /\ WorkingKeys(q) = WorkingKeys(p)
      /\ Indexed(q) = Indexed(p)
  BY DEF Resident, Pinned, WorkingKeys, Indexed
<1>2. \A S : Bytes(q, S) = Bytes(p, S)
  BY BytesSame
<1>3. \A u, v : EvictedBefore(q, u, v) = EvictedBefore(p, u, v)
  BY Zenon DEF EvictedBefore
<1>4. \A excluding : OldestPin(q, excluding) = OldestPin(p, excluding)
  BY <1>3, Zenon DEF OldestPin
<1>5. \A evicted : ProjectedOverLimit(q, key, nbytes, evicted)
                      = ProjectedOverLimit(p, key, nbytes, evicted)
  BY <1>1, <1>2, Zenon DEF ProjectedOverLimit
<1>6. \A protected : WorkingSetFits(q, protected, key, nbytes)
                        = WorkingSetFits(p, protected, key, nbytes)
  <2> TAKE protected
  <2> DEFINE added == IF key \in protected THEN nbytes ELSE 0
             fits(bytes) == /\ Cardinality(protected) <= MaxSequences
                            /\ bytes + added <= MaxBytes
  <2>1. /\ WorkingSetFits(q, protected, key, nbytes) = fits(Bytes(q, protected \ {key}))
        /\ WorkingSetFits(p, protected, key, nbytes) = fits(Bytes(p, protected \ {key}))
    BY Zenon DEF WorkingSetFits
  <2> HIDE DEF fits
  <2>2. QED
    BY <1>2, <2>1
<1>7. \A protected, u, v : TakenBefore(q, protected, u, v) = TakenBefore(p, protected, u, v)
  BY <1>3, Zenon DEF TakenBefore
<1>8. /\ StableRotation(q, key, role) = StableRotation(p, key, role)
      /\ ActivePredecessor(q, key, role, predecessor)
            = ActivePredecessor(p, key, role, predecessor)
  BY <1>1, Zenon DEF StableRotation, ActivePredecessor
<1>9. \A evicted : PinQuotaVictim(q, key, role, evicted) = PinQuotaVictim(p, key, role, evicted)
  BY <1>1, <1>4, Zenon DEF PinQuotaVictim
<1>10. \A evicted : ProtectedKeys(q, key, role, nbytes, evicted)
                       = ProtectedKeys(p, key, role, nbytes, evicted)
  BY <1>1, <1>6, Zenon DEF ProtectedKeys
<1>11. \A evicted, protected : CapacityVictims(q, key, nbytes, evicted, protected)
                                  = CapacityVictims(p, key, nbytes, evicted, protected)
  BY <1>1, <1>5, <1>7, Zenon DEF CapacityVictims
<1>12. QED
  BY <1>5, <1>8, <1>9, <1>10, <1>11, Zenon DEF PlanAdmission

(* A stable candidate that is not refused is planned like any admission,   *)
(* with the reason of its promotion.                                       *)
LEMMA CandidatePlan ==
    ASSUME NEW p, Coherent(p), NEW key \in Keys, NEW nbytes \in Nat,
           PlanStableCandidate(p, key, nbytes).plan.reason \in StableReasons
    PROVE  LET result == PlanStableCandidate(p, key, nbytes)
           IN  /\ ~ZeroCapacity /\ nbytes \in 0 .. MaxBytes
               /\ result.plan = [PlanAdmission(result.policy, key, "stable", nbytes, None)
                                    EXCEPT !.reason = result.plan.reason]
<1> DEFINE plain  == PlanAdmission(p, key, "stable", nbytes, None)
           result == PlanStableCandidate(p, key, nbytes)
           refused(reason) == Refusal(key, "stable", nbytes, reason)
           admission(reason) == [plain EXCEPT !.reason = reason]
<1>1. \/ result.plan = refused("oversized_or_disabled")
      \/ result.plan = refused("stable_probation")
      \/ /\ ~(ZeroCapacity \/ nbytes > MaxBytes)
         /\ \E reason \in StableReasons : result.plan = admission(reason)
  <2>1. {"stable_empty", "stable_refresh", "stable_cold_larger", "stable_repeated_miss"}
            = StableReasons
    BY DEF StableReasons
  <2>2. QED
    BY <2>1, Zenon DEF PlanStableCandidate
<1>2. \A reason : refused(reason).reason = reason
  BY DEF Refusal
<1>3. "oversized_or_disabled" \notin StableReasons /\ "stable_probation" \notin StableReasons
  BY DEF StableReasons
<1>4. PICK reason \in StableReasons : result.plan = admission(reason)
  BY <1>1, <1>2, <1>3, Zenon
<1>5. ~(ZeroCapacity \/ nbytes > MaxBytes)
  BY <1>1, <1>2, <1>3, Zenon
<1>6. result.plan.reason = reason
  <2>1. "reason" \in DOMAIN plain
    BY PlanFields
  <2> HIDE DEF plain, result
  <2>2. QED
    BY <1>4, <2>1
<1>7. PlanAdmission(result.policy, key, "stable", nbytes, None) = plain
  <2>1. CandidateOutcome(p, key, nbytes, result)
    BY StableCandidateShape
  <2> HIDE DEF result
  <2>2. /\ result.policy.entries = p.entries
        /\ result.policy.buckets = p.buckets
        /\ result.policy.older = p.older
        /\ result.policy.opened = p.opened
    BY <2>1, CandidateFields DEF CandidateOutcome, Coherent
  <2>3. QED
    BY <2>2, PlanIgnoresCandidate
<1>8. nbytes \in 0 .. MaxBytes
  BY <1>5, CapacityAssumption
<1> HIDE DEF plain, result
<1>9. QED
  BY <1>4, <1>5, <1>6, <1>7, <1>8 DEF result

\* plan_admission of the stored policy, or plan_stable_candidate, gets as far as
\* the loop with these.
Enters(planned, key, role, nbytes, predecessor, reason, stored) ==
    /\ ~ZeroCapacity
    /\ key \in Keys /\ nbytes \in Sizes /\ nbytes <= MaxBytes
    /\ \/ /\ planned = stored /\ reason = "admit" /\ role \in AdmitRoles
          /\ predecessor \in IF role = "active" THEN Keys \cup {None} ELSE {None}
       \/ LET result == PlanStableCandidate(stored, key, nbytes)
          IN  /\ planned = result.policy
              /\ reason = result.plan.reason /\ reason \in StableReasons
              /\ role = "stable" /\ predecessor = None

\* A call that got there.
Entered(c, stored) ==
    Enters(c.planned, c.key, c.role, c.nbytes, c.predecessor, c.reason, stored)

\* What its loop has taken, the forced evictions apart.
TakenBy(c) == DOMAIN c.evictions \ Forced(c.planned, c.key, c.role, c.predecessor)

AdmissionUnderWay(c, stored) ==
    LET forced == Forced(c.planned, c.key, c.role, c.predecessor)
    IN  /\ DOMAIN c = {"loop", "planned", "key", "role", "nbytes", "predecessor",
                       "reason", "evictions", "protected"}
        /\ c.loop = "admission"
        /\ Entered(c, stored)
        /\ c.protected = Spared(c.planned, c.key, c.role, c.nbytes, c.predecessor)
        /\ c.evictions = EvictionsWith(c.planned, c.key, c.role, c.predecessor, TakenBy(c))
        /\ Partial(c.planned, Candidates(c.planned, c.key, forced), c.protected,
                   CapacityVictims(c.planned, c.key, c.nbytes, forced, c.protected),
                   TakenBy(c))

TrimUnderWay(c, stored) ==
    /\ DOMAIN c = {"loop", "target", "evictions", "protected"}
    /\ c.loop = "trim"
    /\ c.target \in TrimTargets
    /\ c.protected = IF OverTarget(stored, WorkingKeys(stored), c.target[1], c.target[2])
                     THEN {} ELSE WorkingKeys(stored)
    /\ Partial(stored, Resident(stored), c.protected,
               PlanTrim(stored, c.target[1], c.target[2]), DOMAIN c.evictions)

(* The inductive invariant: a loop has taken a part of the closed form,    *)
(* the first ones in the order, of a policy that no one changes meanwhile. *)
LoopInv ==
    /\ PolicyInv /\ Numbered(policy)
    /\ call = Idle \/ AdmissionUnderWay(call, policy) \/ TrimUnderWay(call, policy)

(* What planning makes of a sound policy is sound.                         *)
LEMMA EnteredSound ==
    ASSUME PolicyInv, Numbered(policy), NEW c, Entered(c, policy)
    PROVE  /\ Coherent(c.planned) /\ Numbered(c.planned)
           /\ c.role \in Roles /\ c.nbytes \in Nat /\ c.nbytes \in 0 .. MaxBytes
<1>1. Coherent(policy) /\ WithinLimits(policy) /\ SingleStable(policy)
  BY DEF PolicyInv
<1>2. c.key \in Keys /\ c.nbytes \in Nat /\ c.nbytes <= MaxBytes
  BY InputsAssumption DEF Entered, Enters
<1>3. c.nbytes \in 0 .. MaxBytes
  BY <1>2, CapacityAssumption
<1>4. CASE c.planned = policy /\ c.role \in AdmitRoles
  BY <1>1, <1>2, <1>3, <1>4, InputsAssumption
<1>5. CASE c.planned = PlanStableCandidate(policy, c.key, c.nbytes).policy /\ c.role = "stable"
  <2>1. CandidateOutcome(policy, c.key, c.nbytes, PlanStableCandidate(policy, c.key, c.nbytes))
    BY <1>1, <1>2, StableCandidateShape
  <2>2. PICK cand \in CandidateState : c.planned = [policy EXCEPT !.cand = cand]
    BY <1>5, <2>1 DEF CandidateOutcome
  <2>3. Coherent(c.planned) /\ Numbered(c.planned)
    BY <1>1, <2>2, CandidateCoherent, NumberedKept
  <2>4. QED
    BY <1>2, <1>3, <1>5, <2>3, RolesAssumption
<1>6. QED
  BY <1>4, <1>5 DEF Entered, Enters

(* plan_admission enters its loop with its forced evictions, and has taken *)
(* nothing for room yet.                                                   *)
LEMMA LoopEntered ==
    ASSUME NEW planned, NEW key, NEW role, NEW nbytes, NEW predecessor, NEW reason,
           NEW stored, Enters(planned, key, role, nbytes, predecessor, reason, stored)
    PROVE  AdmissionUnderWay(Planning(planned, key, role, nbytes, predecessor, reason), stored)
<1> DEFINE c == Planning(planned, key, role, nbytes, predecessor, reason)
           rotated   == StableRotation(planned, key, role)
           compacted == Compacted(planned, key, role, predecessor)
           quota     == Quota(planned, key, role, predecessor)
           forced    == rotated \cup compacted \cup quota
           evictions == [k \in forced |->
                           IF k \in rotated THEN "stable_rotate"
                           ELSE IF k \in compacted THEN "active_successor"
                           ELSE "pin_quota"]
           spared    == Spared(planned, key, role, nbytes, predecessor)
<1>1. Forced(planned, key, role, predecessor) = forced
  BY DEF Forced
<1>2. c = [loop |-> "admission", planned |-> planned, key |-> key,
           role |-> role, nbytes |-> nbytes, predecessor |-> predecessor,
           reason |-> reason, evictions |-> evictions, protected |-> spared]
  BY <1>1, Zenon DEF Planning, Compacted, Quota, Spared
<1>3. evictions = EvictionsWith(planned, key, role, predecessor, {})
  BY <1>1 DEF EvictionsWith, ReasonFor
<1>4. DOMAIN evictions = forced
  OBVIOUS
<1> HIDE DEF evictions, spared, forced
<1> HIDE DEF c
<1>5. TakenBy(c) = {}
  BY <1>1, <1>2, <1>4 DEF TakenBy
<1>6. Entered(c, stored)
  BY <1>2 DEF Entered
<1>7. QED
  BY <1>2, <1>3, <1>5, <1>6 DEF AdmissionUnderWay, Partial, spared, c

(* A turn of its loop takes the next key of the closed form.               *)
LEMMA AdmissionGoesOn ==
    ASSUME PolicyInv, Numbered(policy), AdmissionUnderWay(call, policy), EvictForRoom
    PROVE  AdmissionUnderWay(call', policy)
<1> DEFINE p       == call.planned
           forced  == Forced(p, call.key, call.role, call.predecessor)
           taken   == TakenBy(call)
           victims == CapacityVictims(p, call.key, call.nbytes, forced, call.protected)
           candidates == Candidates(p, call.key, forced)
           turn    == Victim(p, (forced \cup taken) \cup {call.key})
<1>1. Coherent(p) /\ Numbered(p) /\ call.nbytes \in Nat
  BY EnteredSound DEF AdmissionUnderWay
<1>2. /\ call.evictions = EvictionsWith(p, call.key, call.role, call.predecessor, taken)
      /\ AdmissionLoop(p, call.key, call.nbytes, forced, taken)
  BY DEF AdmissionUnderWay, AdmissionLoop
<1>3. Evicted = forced \cup taken
  BY <1>2 DEF Evicted, EvictionsWith
<1>4. PICK v \in turn : call' = [call EXCEPT !.evictions = Recorded(v, "capacity")]
  BY <1>3 DEF EvictForRoom
<1>5. ProjectedOverLimit(p, call.key, call.nbytes, forced \cup taken)
  BY <1>3 DEF EvictForRoom, OverLimit
<1>6. AdmissionLoopTurns(p, call.key, call.nbytes, forced, taken)
  <2> HIDE DEF p, forced, taken
  <2>1. QED
    BY <1>1, <1>2, AdmissionTurn
<1>7. /\ v \in candidates \ taken
      /\ Partial(p, candidates, call.protected, victims, taken \cup {v})
  <2> HIDE DEF p, forced, taken
  <2>1. QED
    BY <1>4, <1>5, <1>6 DEF AdmissionLoopTurns, AdmissionLoop
<1> HIDE DEF p, forced, taken, victims, candidates, turn
<1>8. Recorded(v, "capacity")
         = EvictionsWith(p, call.key, call.role, call.predecessor, taken \cup {v})
  <2>1. ReasonFor(p, call.key, call.role, call.predecessor, v) = "capacity"
    BY <1>7 DEF ReasonFor, candidates, forced, Forced, Candidates
  <2>2. forced = Forced(p, call.key, call.role, call.predecessor)
    BY DEF forced, p
  <2>3. QED
    BY <1>2, <1>3, <2>1, <2>2 DEF Recorded, EvictionsWith
<1>9. /\ DOMAIN call' = DOMAIN call
      /\ call'.evictions
            = EvictionsWith(p, call.key, call.role, call.predecessor, taken \cup {v})
      /\ call'.loop = call.loop /\ call'.planned = p /\ call'.key = call.key
      /\ call'.role = call.role /\ call'.nbytes = call.nbytes
      /\ call'.predecessor = call.predecessor /\ call'.reason = call.reason
      /\ call'.protected = call.protected
  BY <1>4, <1>8 DEF AdmissionUnderWay, p
<1>10. TakenBy(call') = taken \cup {v}
  <2>1. DOMAIN call'.evictions = forced \cup (taken \cup {v})
    BY <1>9 DEF EvictionsWith, forced, p
  <2>2. taken \cap forced = {}
    BY DEF taken, TakenBy, forced, p
  <2>3. v \notin forced
    BY <1>7 DEF candidates, Candidates
  <2>4. Forced(call'.planned, call'.key, call'.role, call'.predecessor) = forced
    BY <1>9 DEF forced, p
  <2>5. QED
    BY <2>1, <2>2, <2>3, <2>4 DEF TakenBy
<1>11. Entered(call', policy)
  BY <1>9 DEF AdmissionUnderWay, Entered, p
<1>12. QED
  BY <1>7, <1>9, <1>10, <1>11 DEF AdmissionUnderWay, forced, victims, candidates, p

\* A plan that is carried out.
Accepting(key, role, nbytes, evictions, reason) ==
    [accepted |-> TRUE, key |-> key, role |-> role, nbytes |-> nbytes,
     evictions |-> evictions, reason |-> reason]

(* It may be given another reason.                                         *)
LEMMA ReasonGiven ==
    ASSUME NEW key, NEW role, NEW nbytes, NEW evictions, NEW reason, NEW given
    PROVE  [Accepting(key, role, nbytes, evictions, reason) EXCEPT !.reason = given]
              = Accepting(key, role, nbytes, evictions, given)
<1> DEFINE plan   == Accepting(key, role, nbytes, evictions, reason)
           result == [plan EXCEPT !.reason = given]
           fields == {"accepted", "key", "role", "nbytes", "evictions", "reason"}
<1>1. /\ DOMAIN plan = fields
      /\ plan.accepted = TRUE /\ plan.key = key /\ plan.role = role
      /\ plan.nbytes = nbytes /\ plan.evictions = evictions
  BY DEF Accepting
<1> HIDE DEF plan
<1>2. /\ result = [field \in fields |-> result[field]]
      /\ result.accepted = TRUE /\ result.key = key /\ result.role = role
      /\ result.nbytes = nbytes /\ result.evictions = evictions /\ result.reason = given
  BY <1>1
<1> HIDE DEF result
<1>3. result = Accepting(key, role, nbytes, evictions, given)
  BY <1>2 DEF Accepting
<1>4. QED
  BY <1>3 DEF plan, result

(* When its loop ends the plan is the one of the closed form.              *)
LEMMA AdmissionEnds ==
    ASSUME PolicyInv, Numbered(policy), AdmissionUnderWay(call, policy), AdmissionPlanned
    PROVE  /\ PlanMade.accepted
           /\ PlanMade = Accepting(call.key, call.role, call.nbytes, call.evictions,
                                   call.reason)
           /\ PlanAdmission(call.planned, call.key, call.role, call.nbytes, call.predecessor)
                 = Accepting(call.key, call.role, call.nbytes, call.evictions, "admit")
<1> DEFINE p       == call.planned
           forced  == Forced(p, call.key, call.role, call.predecessor)
           taken   == TakenBy(call)
           victims == Taken(p, call.key, call.role, call.nbytes, call.predecessor)
<1>1. /\ Coherent(p) /\ Numbered(p) /\ call.nbytes \in Nat /\ call.nbytes \in 0 .. MaxBytes
      /\ ~ZeroCapacity
  BY EnteredSound DEF AdmissionUnderWay, Entered, Enters
<1>2. /\ call.evictions = EvictionsWith(p, call.key, call.role, call.predecessor, taken)
      /\ AdmissionLoop(p, call.key, call.nbytes, forced, taken)
      /\ victims = CapacityVictims(p, call.key, call.nbytes, forced, call.protected)
  BY DEF AdmissionUnderWay, AdmissionLoop, Taken
<1>3. Evicted = forced \cup taken
  BY <1>2 DEF Evicted, EvictionsWith
<1>4. ProjectedOverLimit(p, call.key, call.nbytes, forced \cup taken)
        => Victim(p, (forced \cup taken) \cup {call.key}) = {}
  BY <1>3 DEF AdmissionPlanned, OverLimit
<1>5. PlanAdmission(p, call.key, call.role, call.nbytes, call.predecessor)
         = [accepted |-> TRUE, key |-> call.key, role |-> call.role, nbytes |-> call.nbytes,
            evictions |-> EvictionsWith(p, call.key, call.role, call.predecessor, victims),
            reason |-> "admit"]
  <2> HIDE DEF p
  <2>1. QED
    BY <1>1, PlanForm DEF victims
<1>6. PlanMade = [accepted |-> ~OverLimit, key |-> call.key, role |-> call.role,
                  nbytes |-> call.nbytes, evictions |-> call.evictions,
                  reason |-> IF OverLimit /\ call.reason = "admit" THEN "cannot_fit"
                             ELSE call.reason]
  BY DEF PlanMade
<1>7. taken = victims
  <2> HIDE DEF p, forced, taken, victims
  <2>1. AdmissionLoopTurns(p, call.key, call.nbytes, forced, taken)
    BY <1>1, <1>2, AdmissionTurn
  <2>2. QED
    BY <1>2, <1>4, <2>1 DEF AdmissionLoopTurns
<1> HIDE DEF p, forced, taken, victims
<1>8. ~OverLimit
  BY <1>1, <1>2, <1>3, <1>7, EvictionMakesRoom DEF OverLimit, p
<1>9. OverLimit \in BOOLEAN
  BY DEF OverLimit, ProjectedOverLimit
<1> HIDE DEF p
<1>10. PlanMade = [accepted |-> TRUE, key |-> call.key, role |-> call.role,
                   nbytes |-> call.nbytes, evictions |-> call.evictions,
                   reason |-> call.reason]
  BY <1>6, <1>8, <1>9
<1>11. PlanAdmission(call.planned, call.key, call.role, call.nbytes, call.predecessor)
          = Accepting(call.key, call.role, call.nbytes, call.evictions, "admit")
  BY <1>2, <1>5, <1>7, Zenon DEF p, Accepting
<1>12. PlanMade.accepted /\ PlanMade = Accepting(call.key, call.role, call.nbytes,
                                                 call.evictions, call.reason)
  BY <1>10 DEF Accepting
<1>13. QED
  BY <1>11, <1>12

(* A turn of a trim's loop takes the next key of the closed form.          *)
LEMMA TrimGoesOn ==
    ASSUME PolicyInv, Numbered(policy), TrimUnderWay(call, policy), EvictForTrim
    PROVE  TrimUnderWay(call', policy)
<1> DEFINE taken   == DOMAIN call.evictions
           victims == PlanTrim(policy, call.target[1], call.target[2])
<1>1. /\ Coherent(policy)
      /\ call.target[1] \in Nat /\ call.target[2] \in Nat
  BY InputsAssumption DEF PolicyInv, TrimUnderWay
<1>2. PICK v \in Victim(policy, taken) :
         call' = [call EXCEPT !.evictions = Recorded(v, "trim")]
  BY DEF EvictForTrim, Evicted
<1>3. OverTarget(policy, Resident(policy) \ taken, call.target[1], call.target[2])
  BY DEF EvictForTrim, OverTrimTarget, Evicted
<1>4. /\ call.protected = IF OverTarget(policy, WorkingKeys(policy),
                                        call.target[1], call.target[2])
                          THEN {} ELSE WorkingKeys(policy)
      /\ Partial(policy, Resident(policy), call.protected, victims, taken)
  BY DEF TrimUnderWay
<1> HIDE DEF taken, victims
<1>5. Partial(policy, Resident(policy), call.protected, victims, taken \cup {v})
  <2>1. TrimLoopTurns(policy, call.target[1], call.target[2], taken)
    BY <1>1, <1>4, TrimTurn DEF TrimLoop, victims
  <2>2. QED
    BY <1>2, <1>3, <2>1 DEF TrimLoopTurns, TrimLoop, victims
<1>6. DOMAIN Recorded(v, "trim") = taken \cup {v}
  BY DEF Recorded, Evicted, taken
<1>7. /\ DOMAIN call' = DOMAIN call /\ DOMAIN call'.evictions = taken \cup {v}
      /\ call'.loop = call.loop /\ call'.target = call.target
      /\ call'.protected = call.protected
  BY <1>2, <1>6 DEF TrimUnderWay
<1>8. QED
  BY <1>4, <1>5, <1>7 DEF TrimUnderWay, victims

(* When its loop ends it has taken all of them.                            *)
LEMMA TrimLoopEnds ==
    ASSUME PolicyInv, Numbered(policy), TrimUnderWay(call, policy), TrimPlanned
    PROVE  Evicted = PlanTrim(policy, call.target[1], call.target[2])
<1> DEFINE taken   == DOMAIN call.evictions
           victims == PlanTrim(policy, call.target[1], call.target[2])
<1>1. /\ Coherent(policy)
      /\ call.target[1] \in Nat /\ call.target[2] \in Nat
  BY InputsAssumption DEF PolicyInv, TrimUnderWay
<1>2. OverTarget(policy, Resident(policy) \ taken, call.target[1], call.target[2])
         => Victim(policy, taken) = {}
  BY DEF TrimPlanned, OverTrimTarget, Evicted
<1>3. /\ call.protected = IF OverTarget(policy, WorkingKeys(policy),
                                        call.target[1], call.target[2])
                          THEN {} ELSE WorkingKeys(policy)
      /\ Partial(policy, Resident(policy), call.protected, victims, taken)
  BY DEF TrimUnderWay
<1> HIDE DEF taken, victims
<1>4. TrimLoopTurns(policy, call.target[1], call.target[2], taken)
  BY <1>1, <1>3, TrimTurn DEF TrimLoop, victims
<1>5. QED
  BY <1>2, <1>4 DEF TrimLoopTurns, Evicted, taken

(* Which call is under way.                                                *)
LEMMA UnderWay ==
    ASSUME LoopInv
    PROVE  /\ call.loop = "admission" => AdmissionUnderWay(call, policy)
           /\ call.loop = "trim" => TrimUnderWay(call, policy)
BY DEF LoopInv, Idle, AdmissionUnderWay, TrimUnderWay

(* For other callers every step of a call is a step of the atomic policy,  *)
(* or none.                                                                *)
LEMMA LoopStep == LoopInv /\ [LoopNext]_loopVars => [Next]_policy
<1> SUFFICES ASSUME LoopInv, [LoopNext]_loopVars PROVE [Next]_policy
  OBVIOUS
<1>0. PolicyInv /\ Numbered(policy)
  BY DEF LoopInv
<1>1. ASSUME CommitAdmission PROVE Next
  <2> DEFINE plan == PlanAdmission(call.planned, call.key, call.role, call.nbytes,
                                   call.predecessor)
  <2>1. AdmissionUnderWay(call, policy) /\ AdmissionPlanned
    BY <1>1, UnderWay DEF CommitAdmission, AdmissionPlanned
  <2>2. /\ PlanMade = Accepting(call.key, call.role, call.nbytes, call.evictions, call.reason)
        /\ plan = Accepting(call.key, call.role, call.nbytes, call.evictions, "admit")
    BY <1>0, <2>1, AdmissionEnds
  <2>3. policy' = Commit(call.planned, PlanMade)
    BY <1>1 DEF CommitAdmission
  <2>4. Entered(call, policy)
    BY <2>1 DEF AdmissionUnderWay
  <2>5. CASE call.planned = policy /\ call.reason = "admit" /\ call.role \in AdmitRoles
             /\ call.predecessor \in IF call.role = "active" THEN Keys \cup {None} ELSE {None}
    <3>1. PlanMade = PlanAdmission(policy, call.key, call.role, call.nbytes, call.predecessor)
      BY <2>2, <2>5
    <3>2. AdmitEntry(call.key, call.role, call.nbytes, call.predecessor)
      BY <2>3, <2>5, <3>1 DEF AdmitEntry
    <3>3. QED
      BY <2>4, <2>5, <3>2 DEF Next, Entered, Enters
  <2>6. CASE LET result == PlanStableCandidate(policy, call.key, call.nbytes)
             IN  /\ call.planned = result.policy
                 /\ call.reason = result.plan.reason /\ call.reason \in StableReasons
                 /\ call.role = "stable" /\ call.predecessor = None
    <3> DEFINE result == PlanStableCandidate(policy, call.key, call.nbytes)
    <3>1. call.key \in Keys /\ call.nbytes \in Sizes /\ call.nbytes \in Nat
      BY <2>4, InputsAssumption DEF Entered, Enters
    <3>2. result.plan = [PlanAdmission(result.policy, call.key, "stable", call.nbytes, None)
                            EXCEPT !.reason = result.plan.reason]
      BY <1>0, <2>6, <3>1, CandidatePlan DEF PolicyInv
    <3> HIDE DEF result
    <3>3. PlanMade = result.plan
      <4>1. [plan EXCEPT !.reason = call.reason] = PlanMade
        BY <2>2, ReasonGiven
      <4>2. QED
        BY <2>6, <3>2, <4>1 DEF result
    <3>4. AdmitStableCandidate(call.key, call.nbytes)
      BY <2>3, <2>6, <3>3 DEF AdmitStableCandidate, result
    <3>5. QED
      BY <3>1, <3>4 DEF Next
  <2>7. QED
    BY <2>4, <2>5, <2>6 DEF Entered, Enters
<1>2. ASSUME FinishTrim PROVE Next
  <2>1. TrimUnderWay(call, policy) /\ TrimPlanned
    BY <1>2, UnderWay DEF FinishTrim, TrimPlanned
  <2>2. Evicted = PlanTrim(policy, call.target[1], call.target[2])
    BY <1>0, <2>1, TrimLoopEnds
  <2>3. TrimTo(call.target[1], call.target[2])
    BY <1>2, <2>2 DEF FinishTrim, TrimTo
  <2>4. QED
    BY <2>1, <2>3 DEF Next, TrimUnderWay
<1>3. ASSUME NEW key \in Keys, NEW nbytes \in Sizes, RefuseCandidate(key, nbytes)
      PROVE  Next
  BY <1>3 DEF RefuseCandidate, Next
<1>4. ASSUME NEW key \in Keys, HitBetweenCalls(key)
      PROVE  Next
  BY <1>4 DEF HitBetweenCalls, Next
<1>5. QED
  BY <1>1, <1>2, <1>3, <1>4
  DEF LoopNext, loopVars, BeginAdmission, BeginCandidate, BeginTrim, EvictForRoom,
      EvictForTrim, Advance

(* Every step keeps the invariant.                                         *)
LEMMA LoopNextInv == LoopInv /\ [LoopNext]_loopVars => LoopInv'
<1> SUFFICES ASSUME LoopInv, [LoopNext]_loopVars PROVE LoopInv'
  OBVIOUS
<1>0. PolicyInv /\ Numbered(policy)
  BY DEF LoopInv
<1>1. PolicyInv' /\ Numbered(policy)'
  BY <1>0, LoopStep, NextInv, NumberedNext
<1>2. ASSUME NEW key \in Keys, NEW role \in AdmitRoles, NEW nbytes \in Sizes,
             NEW predecessor \in IF role = "active" THEN Keys \cup {None} ELSE {None},
             BeginAdmission(key, role, nbytes, predecessor)
      PROVE  LoopInv'
  <2>1. Enters(policy, key, role, nbytes, predecessor, "admit", policy)
    BY <1>2 DEF BeginAdmission, Enters
  <2> DEFINE begun == Planning(policy, key, role, nbytes, predecessor, "admit")
  <2>2. AdmissionUnderWay(begun, policy)
    BY <2>1, LoopEntered
  <2>3. QED
    BY <1>1, <1>2, <2>2 DEF BeginAdmission, LoopInv
<1>3. ASSUME NEW key \in Keys, NEW nbytes \in Sizes, BeginCandidate(key, nbytes)
      PROVE  LoopInv'
  <2> DEFINE result == PlanStableCandidate(policy, key, nbytes)
  <2>1. /\ result.plan.reason \in StableReasons
        /\ call' = Planning(result.policy, key, "stable", nbytes, None, result.plan.reason)
        /\ UNCHANGED policy
    BY <1>3 DEF BeginCandidate
  <2>2. ~ZeroCapacity /\ nbytes <= MaxBytes
    <3>1. Coherent(policy) /\ nbytes \in Nat
      BY <1>0, InputsAssumption DEF PolicyInv
    <3>2. ~ZeroCapacity /\ nbytes \in 0 .. MaxBytes
      BY <2>1, <3>1, CandidatePlan
    <3>3. QED
      BY <3>1, <3>2, CapacityAssumption
  <2>3. Enters(result.policy, key, "stable", nbytes, None, result.plan.reason, policy)
    BY <2>1, <2>2 DEF Enters
  <2> HIDE DEF result
  <2> DEFINE begun == Planning(result.policy, key, "stable", nbytes, None, result.plan.reason)
  <2>4. AdmissionUnderWay(begun, policy)
    BY <2>3, LoopEntered
  <2>5. QED
    BY <1>1, <2>1, <2>4 DEF LoopInv
<1>4. ASSUME NEW target \in TrimTargets, BeginTrim(target[1], target[2])
      PROVE  LoopInv'
  <2>1. call' = [loop |-> "trim", target |-> target, evictions |-> [k \in {} |-> "trim"],
                 protected |->
                    IF OverTarget(policy, WorkingKeys(policy), target[1], target[2])
                    THEN {} ELSE WorkingKeys(policy)]
    <3>1. target = <<target[1], target[2]>>
      BY InputsAssumption
    <3>2. QED
      BY <1>4, <3>1, Zenon DEF BeginTrim
  <2>2. TrimUnderWay(call', policy)
    BY <2>1 DEF TrimUnderWay, Partial
  <2>3. QED
    BY <1>1, <1>4, <2>2 DEF BeginTrim, LoopInv
<1>5. ASSUME EvictForRoom PROVE LoopInv'
  <2>1. AdmissionUnderWay(call', policy)
    BY <1>0, <1>5, UnderWay, AdmissionGoesOn DEF EvictForRoom
  <2>2. QED
    BY <1>1, <1>5, <2>1 DEF EvictForRoom, LoopInv
<1>6. ASSUME EvictForTrim PROVE LoopInv'
  <2>1. TrimUnderWay(call', policy)
    BY <1>0, <1>6, UnderWay, TrimGoesOn DEF EvictForTrim
  <2>2. QED
    BY <1>1, <1>6, <2>1 DEF EvictForTrim, LoopInv
<1>7. ASSUME call' = Idle PROVE LoopInv'
  BY <1>1, <1>7 DEF LoopInv, Idle
<1>8. CASE UNCHANGED loopVars
  BY <1>1, <1>8 DEF loopVars, LoopInv, Idle
<1>9. QED
  BY <1>2, <1>3, <1>4, <1>5, <1>6, <1>7, <1>8
  DEF LoopNext, Advance, CommitAdmission, FinishTrim, RefuseCandidate, HitBetweenCalls

(* It holds throughout.                                                    *)
LEMMA LoopInvariant == LoopSpec => []LoopInv
<1>1. LoopInit => LoopInv
  BY InitInv, NumberedInit DEF LoopInit, LoopInv
<1>2. QED
  BY <1>1, LoopNextInv, PTL DEF LoopSpec

(* In every reachable state the loops that end have the closed form.       *)
THEOREM LoopsComputePlans == LoopSpec => []LoopsAgree
<1>1. LoopInv => LoopsAgree
  <2> SUFFICES ASSUME LoopInv PROVE LoopsAgree
    OBVIOUS
  <2>0. PolicyInv /\ Numbered(policy)
    BY DEF LoopInv
  <2>1. ASSUME AdmissionPlanned
        PROVE  /\ PlanMade.accepted
               /\ [PlanMade EXCEPT !.reason = "admit"]
                     = PlanAdmission(call.planned, call.key, call.role, call.nbytes,
                                     call.predecessor)
    <3>1. AdmissionUnderWay(call, policy)
      BY <2>1, UnderWay DEF AdmissionPlanned
    <3>2. QED
      BY <2>0, <2>1, <3>1, AdmissionEnds, ReasonGiven
  <2>2. ASSUME TrimPlanned
        PROVE  Evicted = PlanTrim(policy, call.target[1], call.target[2])
    BY <2>0, <2>2, UnderWay, TrimLoopEnds DEF TrimPlanned
  <2>3. QED
    BY <2>1, <2>2 DEF LoopsAgree
<1>2. QED
  BY <1>1, LoopInvariant, PTL

(* A call that plans one victim at a time and then commits implements the  *)
(* one step of the atomic policy.                                          *)
THEOREM LoopImplementsPlans == LoopSpec => ImplementsAtomicPlans
<1>1. LoopInit => Init
  BY DEF LoopInit
<1>2. QED
  BY <1>1, LoopStep, LoopInvariant, PTL DEF LoopSpec, Spec, ImplementsAtomicPlans
=============================================================================
