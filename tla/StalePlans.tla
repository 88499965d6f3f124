------------------------------ MODULE StalePlans ------------------------------
(***************************************************************************)
(* Plans made outside the coordinator's lock (src/statebraid/cache/        *)
(* policy.py): the policy is public and admit and trim take any plan, so a *)
(* plan may be applied to another policy than the one it was made from.    *)
(* In between that policy may have become any other, so that a plan may    *)
(* evict any keys that can once have been resident together.               *)
(***************************************************************************)
EXTENDS CacheCoordinator

FormerResidents(key) ==
    {S \in SUBSET (Keys \ {key}) : Cardinality(S) <= MaxSequences}

\* An accepted plan_admission, made for some earlier policy.
AdmitPrepared(key, role, nbytes, payload) ==
    \E evicted \in FormerResidents(key) :
        LET plan == [accepted |-> TRUE, key |-> key, role |-> role,
                     nbytes |-> nbytes, reason |-> "admit",
                     evictions |-> [k \in evicted |-> "capacity"]]
        IN  /\ txn = Free
            /\ ~ZeroCapacity /\ nbytes <= MaxBytes
            /\ Admit(plan, payload, policy)

\* A plan_trim with something to evict, made for some earlier policy.
TrimPrepared ==
    \E evicted \in FormerResidents(None) \ {{}} :
        /\ txn = Free
        /\ Enter("capture", NoPlan, None, evicted, policy)
        /\ UNCHANGED <<policy, backend>>

StaleNext ==
    \/ Next
    \/ \E key \in Keys, role \in Roles, nbytes \in Sizes, payload \in Payloads :
            AdmitPrepared(key, role, nbytes, payload)
    \/ TrimPrepared

StaleSpec == Init /\ [][StaleNext]_vars /\ Fairness

-----------------------------------------------------------------------------

(* The books stay right whatever plan is applied: the index, its order and *)
(* the byte count follow the entries even when a plan evicts keys that are *)
(* gone or admits one that came in meanwhile. What a stale plan can break  *)
(* are the limits and the single stable key.                               *)
StalePlansKeepBooks == Filed(policy) /\ Ordered(policy) /\ Accounted(policy)
=============================================================================
