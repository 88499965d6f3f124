----------------------------- MODULE StableLane -----------------------------
(***************************************************************************)
(* The stable candidate lane of WorkingSetPolicy with a history of what    *)
(* the incumbent has been through, to state when a promotion is deserved.  *)
(***************************************************************************)
EXTENDS WorkingSetPolicy

VARIABLE quiet  \* keys sighted as candidates since the lane last served a hit

vars == <<policy, quiet>>

StableKeys == policy.buckets["stable"]

LaneInit == Init /\ quiet = {}

LaneNext ==
    \/ \E key \in Keys, nbytes \in Sizes :
          AdmitStableCandidate(key, nbytes) /\ quiet' = quiet \cup {key}
    \/ \E key \in Keys, role \in AdmitRoles, nbytes \in Sizes :
          AdmitEntry(key, role, nbytes, None) /\ UNCHANGED quiet
    \/ \E target \in TrimTargets :
          TrimTo(target[1], target[2]) /\ UNCHANGED quiet
    \/ \E key \in Keys :
          ObserveHit(key) /\ quiet' = (IF key \in StableKeys THEN {} ELSE quiet)

LaneSpec == LaneInit /\ [][LaneNext]_vars

\* key takes the lane from another prefix and is not the cold, longer one.
Promoted(key) ==
    /\ StableKeys # {}
    /\ key \notin StableKeys
    /\ ~ /\ policy.entries[Incumbent(policy)].hits = 0
         /\ Length(key) > Length(Incumbent(policy))
    /\ \E nbytes \in Sizes : AdmitStableCandidate(key, nbytes)
    /\ key \in StableKeys'

(* docs: the incumbent is replaced on "repeated candidate observations     *)
(* without an intervening incumbent hit". A promoted candidate was seen    *)
(* before, and the incumbent has not served a hit since that sighting.     *)
PromotionNeedsQuietIncumbent ==
    [][\A key \in Keys : Promoted(key) => key \in quiet]_vars

(* The hit count a probation is measured from belongs to the incumbent it  *)
(* is compared with: it never runs ahead of that incumbent's own counter,  *)
(* which would hide later hits.                                            *)
BaselineIsIncumbents ==
    policy.cand.key # None /\ StableKeys # {}
        => policy.cand.baseHits <= policy.entries[Incumbent(policy)].hits
=============================================================================
