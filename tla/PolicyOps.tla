------------------------------ MODULE PolicyOps ------------------------------
(***************************************************************************)
(* The planning and commit functions of WorkingSetPolicy                   *)
(* (src/statebraid/cache/policy.py) as operators over a policy value p.    *)
(*                                                                         *)
(* A policy value is the mutable state of a WorkingSetPolicy object:       *)
(*   entries  _entries: a function from the resident keys to their         *)
(*            EntryState; `pinned' is Pinned(role), the pin roles never    *)
(*            change after construction                                    *)
(*   buckets  _buckets: the keys filed under each role                     *)
(*   older    the insertion order of those ordered dictionaries: <<j, k>>  *)
(*            when j stands before k in the bucket that holds both         *)
(*   opened   the creation order of the buckets: sorted() is stable, so it *)
(*            breaks ties, and only ties, between equally ranked roles.    *)
(*            0 while the bucket of a role does not exist, then its place  *)
(*            among the buckets of its rank                                *)
(*   nbytes   _nbytes, the running byte counter                            *)
(*   cand     the stable candidate on probation: key, count, baseHits      *)
(* The counters kept for telemetry alone are left out.                     *)
(***************************************************************************)
EXTENDS Integers, FiniteSets

CONSTANTS
    Keys,             \* cache identities that can occur
    Roles,            \* role names that can occur
    PinRoles,         \* pin_roles
    MaxSequences,     \* max_sequences, already clamped to a natural
    MaxBytes,         \* max_bytes, already clamped to a natural
    RequestedReserve, \* transient_reserve as passed, None for the default
    None              \* Python's None

\* A CacheKey is a namespace and a tuple of token ids.
ASSUME KeysAssumption ==
    /\ None \notin Keys
    /\ \A k \in Keys : /\ DOMAIN k = {"namespace", "tokens"}
                       /\ DOMAIN k.tokens = 1 .. Cardinality(DOMAIN k.tokens)

ASSUME RolesAssumption ==
    /\ IsFiniteSet(Roles)
    /\ {"stable", "active"} \subseteq Roles
    /\ PinRoles \subseteq Roles

ASSUME CapacityAssumption == MaxSequences \in Nat /\ MaxBytes \in Nat

ASSUME ReserveAssumption == RequestedReserve \in Int \/ RequestedReserve = None

-----------------------------------------------------------------------------
(* Keys, ranks and capacity.                                               *)

Length(key) == Cardinality(DOMAIN key.tokens)

\* pred is a proper token prefix of key in the same namespace.
Extends(key, pred) ==
    /\ pred.namespace = key.namespace
    /\ Length(pred) < Length(key)
    /\ \A i \in DOMAIN pred.tokens : key.tokens[i] = pred.tokens[i]

PinRankMin == 100

\* A role with a rank of its own keeps it even when it is a pin role.
Rank(role) ==
    CASE role = "assistant" -> 10
      [] role = "user"      -> 30
      [] role = "system"    -> 50
      [] role = "active"    -> 60
      [] role = "stable"    -> 70
      [] OTHER              -> IF role \in PinRoles THEN PinRankMin ELSE 20

TransientReserve ==
    LET reserve == IF RequestedReserve # None THEN RequestedReserve
                   ELSE IF MaxSequences >= 4 THEN 2
                   ELSE IF MaxSequences >= 2 THEN 1 ELSE 0
    IN  IF reserve < 0 THEN 0
        ELSE IF reserve > MaxSequences THEN MaxSequences ELSE reserve

PinLimit == MaxSequences - TransientReserve

ZeroCapacity == MaxSequences = 0 \/ MaxBytes = 0

-----------------------------------------------------------------------------
(* Reading a policy value.                                                 *)

Resident(p) == DOMAIN p.entries

\* The bytes of the entries in S, as the number of their (key, byte) cells:
\* a sum that needs no recursion. No entry is larger than MaxBytes.
Bytes(p, S) ==
    Cardinality({c \in S \X (1 .. MaxBytes) : c[2] <= p.entries[c[1]].nbytes})

Pinned(p) == {k \in Resident(p) : p.entries[k].role \in PinRoles}

Indexed(p) == UNION {p.buckets[r] : r \in Roles}

WorkingRoles == {"stable", "active"}

WorkingKeys(p) == p.buckets["stable"] \cup p.buckets["active"]

\* _ordered_keys: buckets by rank, ties in creation order, insertion order
\* within a bucket.
EvictedBefore(p, u, v) ==
    LET rolesOf(k) == {r \in Roles : k \in p.buckets[r]}
    IN  \E r \in rolesOf(u), s \in rolesOf(v) :
            \/ Rank(r) < Rank(s)
            \/ Rank(r) = Rank(s) /\ p.opened[r] < p.opened[s]
            \/ r = s /\ <<u, v>> \in p.older

\* Mutant: the pin rank taken as an exclusive bound.
OldestPinStrict(p, excluding) ==
    LET pins == (UNION {p.buckets[r] : r \in {q \in Roles : Rank(q) > PinRankMin}})
                \ excluding
    IN  {k \in pins : \A j \in pins \ {k} : EvictedBefore(p, k, j)}

\* _oldest_pin, as a set of at most one key: only roles ranked as pins count.
OldestPin(p, excluding) ==
    LET pins == (UNION {p.buckets[r] : r \in {q \in Roles : Rank(q) >= PinRankMin}})
                \ excluding
    IN  {k \in pins : \A j \in pins \ {k} : EvictedBefore(p, k, j)}

-----------------------------------------------------------------------------
(* plan_admission.                                                         *)

StableRotation(p, key, role) ==
    IF role = "stable" THEN p.buckets["stable"] \ {key} ELSE {}

ActivePredecessor(p, key, role, predecessor) ==
    {k \in Resident(p) : /\ role = "active"
                         /\ k = predecessor
                         /\ p.entries[k].role = "active"
                         /\ Extends(key, k)}

\* At most one pin makes room: for a new pin over the limit, or for a new
\* transient entry while the transient entries hold less than their reserve.
PinQuotaVictim(p, key, role, evicted) ==
    LET pinLimitHit ==
            /\ role \in PinRoles
            /\ key \notin Pinned(p)
            /\ Cardinality(Pinned(p)) >= PinLimit
        reserveOwed ==
            /\ role \notin PinRoles
            /\ key \notin Resident(p)
            /\ Cardinality(Resident(p)) >= MaxSequences
            /\ Cardinality(Resident(p) \ Pinned(p)) < TransientReserve
            /\ Pinned(p) # {}
    IN  IF pinLimitHit \/ reserveOwed
        THEN OldestPin(p, evicted) \ {key}
        ELSE {}

\* Mutant: the entry that is replaced is counted beside its replacement.
ProjectedOverLimitTwice(p, key, nbytes, evicted) ==
    LET kept == Resident(p) \ evicted
    IN  Cardinality(kept) + 1 > MaxSequences \/ Bytes(p, kept) + nbytes > MaxBytes

\* What _projected_over_limit says of the state after the admission.
ProjectedOverLimit(p, key, nbytes, evicted) ==
    LET kept == Resident(p) \ (evicted \cup {key})
    IN  \/ Cardinality(kept) + 1 > MaxSequences
        \/ Bytes(p, kept) + nbytes > MaxBytes

WorkingSetFits(p, protected, key, nbytes) ==
    LET others == protected \ {key}
    IN  /\ Cardinality(protected) <= MaxSequences
        /\ Bytes(p, others) + (IF key \in protected THEN nbytes ELSE 0) <= MaxBytes

\* Mutant: nothing is spared.
NoProtectedKeys(p, key, role, nbytes, evicted) == {}

\* The keys the capacity loop spares as long as it can.
ProtectedKeys(p, key, role, nbytes, evicted) ==
    LET protected == (WorkingKeys(p) \ evicted)
                     \cup (IF role \in WorkingRoles THEN {key} ELSE {})
    IN  IF WorkingSetFits(p, protected, key, nbytes) THEN protected ELSE {}

\* Mutant: each pass starts from the most valuable entry.
TakenBeforeReversed(p, protected, u, v) ==
    \/ u \notin protected /\ v \in protected
    \/ (u \in protected <=> v \in protected) /\ EvictedBefore(p, v, u)

\* The order the two passes of the loop take victims in: unprotected first.
TakenBefore(p, protected, u, v) ==
    \/ u \notin protected /\ v \in protected
    \/ (u \in protected <=> v \in protected) /\ EvictedBefore(p, u, v)

\* Mutant: no second pass over the protected keys.
CapacityVictimsOnePass(p, key, nbytes, evicted, protected) ==
    LET candidates == Indexed(p) \ (evicted \cup {key} \cup protected)
    IN  {v \in candidates :
            ProjectedOverLimit(p, key, nbytes,
                evicted \cup {u \in candidates : TakenBefore(p, protected, u, v)})}

\* The victims of the loop `while over limit: evict the next victim': v goes
\* when the eviction of all that go before it is not enough.
CapacityVictims(p, key, nbytes, evicted, protected) ==
    LET candidates == Indexed(p) \ (evicted \cup {key})
    IN  {v \in candidates :
            ProjectedOverLimit(p, key, nbytes,
                evicted \cup {u \in candidates : TakenBefore(p, protected, u, v)})}

Refusal(key, role, nbytes, reason) ==
    [accepted |-> FALSE, key |-> key, role |-> role, nbytes |-> nbytes,
     evictions |-> <<>>, reason |-> reason]

\* A plan maps each key it evicts to the reason; nothing depends on the order
\* in which a plan lists them.
PlanAdmission(p, key, role, nbytes, predecessor) ==
    LET rotated   == StableRotation(p, key, role)
        compacted == ActivePredecessor(p, key, role, predecessor)
        pins      == PinQuotaVictim(p, key, role, rotated \cup compacted)
        forced    == rotated \cup compacted \cup pins
        protected == ProtectedKeys(p, key, role, nbytes, forced)
        evicted   == forced \cup CapacityVictims(p, key, nbytes, forced, protected)
        fits      == ~ProjectedOverLimit(p, key, nbytes, evicted)
    IN  IF ZeroCapacity THEN Refusal(key, role, nbytes, "zero_capacity")
        ELSE IF nbytes > MaxBytes THEN Refusal(key, role, nbytes, "oversized")
        ELSE [accepted |-> fits, key |-> key, role |-> role, nbytes |-> nbytes,
              evictions |-> [k \in evicted |->
                  IF k \in rotated THEN "stable_rotate"
                  ELSE IF k \in compacted THEN "active_successor"
                  ELSE IF k \in pins THEN "pin_quota" ELSE "capacity"],
              reason |-> IF fits THEN "admit" ELSE "cannot_fit"]

-----------------------------------------------------------------------------
(* plan_stable_candidate: planning itself moves the probation state.       *)

NoCandidate == [key |-> None, count |-> 0, baseHits |-> 0]

\* stable_keys[0]
Incumbent(p) ==
    CHOOSE k \in p.buckets["stable"] :
        \A j \in p.buckets["stable"] \ {k} : <<k, j>> \in p.older

\* Mutant: hits on the incumbent do not restart the probation.
SightedIgnoringHits(cand, key, hits) ==
    IF cand.key = key
    THEN [cand EXCEPT !.count = @ + 1]
    ELSE [key |-> key, count |-> 1, baseHits |-> hits]

\* The probation state after a sighting of key against an incumbent with
\* `hits' hits.
Sighted(cand, key, hits) ==
    IF cand.key = key /\ hits <= cand.baseHits
    THEN [cand EXCEPT !.count = @ + 1]
    ELSE [key |-> key, count |-> 1, baseHits |-> hits]

\* The plan, and the policy value that planning leaves behind.
PlanStableCandidate(p, key, nbytes) ==
    LET admission(reason) ==
            [PlanAdmission(p, key, "stable", nbytes, None) EXCEPT !.reason = reason]
        current == p.entries[Incumbent(p)]
        sighted == Sighted(p.cand, key, current.hits)
        result(plan, cand) == [plan |-> plan, policy |-> [p EXCEPT !.cand = cand]]
    IN  IF ZeroCapacity \/ nbytes > MaxBytes
        THEN result(Refusal(key, "stable", nbytes, "oversized_or_disabled"), p.cand)
        ELSE IF p.buckets["stable"] = {}
        THEN result(admission("stable_empty"), p.cand)
        ELSE IF Incumbent(p) = key
        THEN result(admission("stable_refresh"), p.cand)
        ELSE IF current.hits = 0 /\ Length(key) > Length(Incumbent(p))
        THEN result(admission("stable_cold_larger"), p.cand)
        ELSE IF sighted.count >= 2
        THEN result(admission("stable_repeated_miss"), sighted)
        ELSE result(Refusal(key, "stable", nbytes, "stable_probation"), sighted)

\* Mutant: only promotions end the probation.
PromotionReasons == {"stable_cold_larger", "stable_repeated_miss"}

StableReasons ==
    {"stable_empty", "stable_refresh", "stable_cold_larger", "stable_repeated_miss"}

-----------------------------------------------------------------------------
(* plan_trim.                                                              *)

\* Mutant: over the target only when both targets are missed.
OverBothTargets(p, kept, targetSequences, targetBytes) ==
    Cardinality(kept) > targetSequences /\ Bytes(p, kept) > targetBytes

OverTarget(p, kept, targetSequences, targetBytes) ==
    Cardinality(kept) > targetSequences \/ Bytes(p, kept) > targetBytes

\* The set of keys a trim evicts.
PlanTrim(p, targetSequences, targetBytes) ==
    LET protected == IF OverTarget(p, WorkingKeys(p), targetSequences, targetBytes)
                     THEN {} ELSE WorkingKeys(p)
        taken(v) == {u \in Indexed(p) : TakenBefore(p, protected, u, v)}
    IN  {v \in Indexed(p) :
            OverTarget(p, Resident(p) \ taken(v), targetSequences, targetBytes)}

-----------------------------------------------------------------------------
(* commit, commit_trim, observe_hit.                                       *)

\* _remove_entry for every key of S; a key that is not resident is skipped.
RemoveEntries(p, S) ==
    LET gone == S \cap Resident(p)
    IN  [entries |-> [k \in Resident(p) \ S |-> p.entries[k]],
         buckets |-> [r \in Roles |->
             p.buckets[r] \ {k \in gone : p.entries[k].role = r}],
         older   |-> {pair \in p.older : pair[1] \notin gone /\ pair[2] \notin gone},
         opened  |-> p.opened,
         nbytes  |-> p.nbytes - Bytes(p, gone),
         cand    |-> p.cand]

\* The new entry goes to the end of its role's bucket, which setdefault
\* creates when it is missing. The key has been removed before.
InsertEntry(p, key, role, nbytes) ==
    LET peers == {r \in Roles : Rank(r) = Rank(role) /\ p.opened[r] # 0}
        entry == [role |-> role, nbytes |-> nbytes, hits |-> 0]
    IN  [entries |-> [k \in Resident(p) \cup {key} |->
             IF k = key THEN entry ELSE p.entries[k]],
         buckets |-> [p.buckets EXCEPT ![role] = @ \cup {key}],
         older   |-> p.older \cup (p.buckets[role] \X {key}),
         opened  |-> [p.opened EXCEPT
             ![role] = IF @ = 0 THEN Cardinality(peers) + 1 ELSE @],
         nbytes  |-> p.nbytes + nbytes,
         cand    |-> p.cand]

\* Mutant: an admitted key that is already resident is not taken out first.
CommitKeepsOld(p, plan) ==
    IF plan.accepted
    THEN InsertEntry(RemoveEntries(p, DOMAIN plan.evictions),
                     plan.key, plan.role, plan.nbytes)
    ELSE p

Commit(p, plan) ==
    LET removed == RemoveEntries(p, DOMAIN plan.evictions \cup {plan.key})
        stored  == InsertEntry(removed, plan.key, plan.role, plan.nbytes)
    IN  IF ~plan.accepted THEN p
        ELSE IF plan.role = "stable" /\ plan.reason \in StableReasons
        THEN [stored EXCEPT !.cand = NoCandidate]
        ELSE stored

\* Mutants of commit_trim: the bytes of the victims released twice, and the
\* victims left in their buckets.
CommitTrimTwice(p, evictions) ==
    [RemoveEntries(p, evictions) EXCEPT !.nbytes = @ - Bytes(p, evictions \cap Resident(p))]

CommitTrimKeepsIndex(p, evictions) ==
    [RemoveEntries(p, evictions) EXCEPT !.buckets = p.buckets]

CommitTrim(p, evictions) == RemoveEntries(p, evictions)

AddHit(p, key) ==
    IF key \in Resident(p) THEN [p EXCEPT !.entries[key].hits = @ + 1] ELSE p

EmptyPolicy ==
    [entries |-> [k \in {} |-> [role |-> "", nbytes |-> 0, hits |-> 0]],
     buckets |-> [r \in Roles |-> {}],
     older   |-> {},
     opened  |-> [r \in Roles |-> 0],
     nbytes  |-> 0,
     cand    |-> NoCandidate]

-----------------------------------------------------------------------------
(* What a policy value must be; the properties of the modules that hold    *)
(* one state these of it.                                                  *)

EntryState == [role : Roles, nbytes : 0 .. MaxBytes, hits : Nat]

WellTyped(p) ==
    /\ DOMAIN p = {"entries", "buckets", "older", "opened", "nbytes", "cand"}
    /\ Resident(p) \subseteq Keys
    /\ p.entries \in [Resident(p) -> EntryState]
    /\ p.buckets \in [Roles -> SUBSET Keys]
    /\ p.older \subseteq Keys \X Keys
    /\ p.opened \in [Roles -> Nat]
    /\ p.nbytes \in Nat
    /\ p.cand \in [key : Keys \cup {None}, count : Nat, baseHits : Nat]

\* Each resident key is filed under the role of its entry, and nothing else.
Filed(p) ==
    \A r \in Roles : p.buckets[r] = {k \in Resident(p) : p.entries[k].role = r}

\* older is a strict total order of each bucket and relates nothing else.
Ordered(p) ==
    /\ \A pair \in p.older :
          /\ pair[1] \in Resident(p)
          /\ pair[2] \in Resident(p)
          /\ pair[1] # pair[2]
          /\ p.entries[pair[1]].role = p.entries[pair[2]].role
    /\ \A j, k, l \in Keys :
          <<j, k>> \in p.older /\ <<k, l>> \in p.older => <<j, l>> \in p.older
    /\ \A r \in Roles : \A j, k \in p.buckets[r] :
          j # k => <<j, k>> \in p.older \/ <<k, j>> \in p.older

Accounted(p) == p.nbytes = Bytes(p, Resident(p))

WithinLimits(p) ==
    /\ Cardinality(Resident(p)) <= MaxSequences
    /\ Bytes(p, Resident(p)) <= MaxBytes

\* At most one key has the stable role.
SingleStable(p) == \A j, k \in p.buckets["stable"] : j = k
=============================================================================
