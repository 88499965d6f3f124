---------------------------- MODULE EvictionLoop ----------------------------
(***************************************************************************)
(* plan_admission and plan_trim with their eviction loops taken one victim *)
(* at a time, the way the code runs them, and each call's commit. It       *)
(* implements WorkingSetPolicy, where a plan is a closed form and one step.*)
(***************************************************************************)
EXTENDS WorkingSetPolicy

VARIABLE call  \* the call that plans, and what its loop has evicted so far

loopVars == <<policy, call>>

Idle == [loop |-> "none"]

LoopInit == Init /\ call = Idle

Evicted == DOMAIN call.evictions

\* evictions.append and evicted.add.
Recorded(victim, reason) ==
    [k \in Evicted \cup {victim} |->
        IF k = victim THEN reason ELSE call.evictions[k]]

\* _next_victim, as a set of at most one key: the first key in eviction order.
NextVictim(p, excluding) ==
    LET left == Indexed(p) \ excluding
    IN  {v \in left : \A u \in left \ {v} : EvictedBefore(p, v, u)}

\* The victim of one turn: what is protected goes when nothing else is left.
Victim(p, excluding) ==
    LET spared == NextVictim(p, excluding \cup call.protected)
    IN  IF spared # {} THEN spared ELSE NextVictim(p, excluding)

-----------------------------------------------------------------------------
(* Admissions. policy is what other callers see; what planning makes of it *)
(* (the candidate on probation) is kept in the call until it commits.      *)

\* plan_admission up to its loop, which has only its forced evictions.
Planning(planned, key, role, nbytes, predecessor, reason) ==
    LET rotated   == StableRotation(planned, key, role)
        compacted == ActivePredecessor(planned, key, role, predecessor)
        pins      == PinQuotaVictim(planned, key, role, rotated \cup compacted)
        forced    == rotated \cup compacted \cup pins
    IN  [loop |-> "admission", planned |-> planned, key |-> key, role |-> role,
         nbytes |-> nbytes, predecessor |-> predecessor, reason |-> reason,
         evictions |-> [k \in forced |->
             IF k \in rotated THEN "stable_rotate"
             ELSE IF k \in compacted THEN "active_successor" ELSE "pin_quota"],
         protected |-> ProtectedKeys(planned, key, role, nbytes, forced)]

BeginAdmission(key, role, nbytes, predecessor) ==
    /\ call = Idle
    /\ ~ZeroCapacity /\ nbytes <= MaxBytes
    /\ call' = Planning(policy, key, role, nbytes, predecessor, "admit")
    /\ UNCHANGED policy

\* plan_stable_candidate decides first, and plans an admission if it may.
BeginCandidate(key, nbytes) ==
    LET result == PlanStableCandidate(policy, key, nbytes)
    IN  /\ call = Idle
        /\ result.plan.reason \in StableReasons
        /\ call' = Planning(result.policy, key, "stable", nbytes, None, result.plan.reason)
        /\ UNCHANGED policy

RefuseCandidate(key, nbytes) ==
    /\ call = Idle
    /\ PlanStableCandidate(policy, key, nbytes).plan.reason \notin StableReasons
    /\ AdmitStableCandidate(key, nbytes)
    /\ UNCHANGED call

OverLimit == ProjectedOverLimit(call.planned, call.key, call.nbytes, Evicted)

EvictForRoom ==
    /\ call.loop = "admission"
    /\ OverLimit
    /\ \E victim \in Victim(call.planned, Evicted \cup {call.key}) :
          call' = [call EXCEPT !.evictions = Recorded(victim, "capacity")]
    /\ UNCHANGED policy

\* The loop has ended: within the limits, or with no victim left.
AdmissionPlanned ==
    /\ call.loop = "admission"
    /\ OverLimit => Victim(call.planned, Evicted \cup {call.key}) = {}

PlanMade ==
    [accepted |-> ~OverLimit, key |-> call.key, role |-> call.role,
     nbytes |-> call.nbytes, evictions |-> call.evictions,
     reason |-> IF OverLimit /\ call.reason = "admit" THEN "cannot_fit" ELSE call.reason]

CommitAdmission ==
    /\ AdmissionPlanned
    /\ policy' = Commit(call.planned, PlanMade)
    /\ call' = Idle

-----------------------------------------------------------------------------
(* Trims.                                                                  *)

BeginTrim(targetSequences, targetBytes) ==
    /\ call = Idle
    /\ call' = [loop |-> "trim", target |-> <<targetSequences, targetBytes>>,
                evictions |-> [k \in {} |-> "trim"],
                protected |->
                    IF OverTarget(policy, WorkingKeys(policy), targetSequences, targetBytes)
                    THEN {} ELSE WorkingKeys(policy)]
    /\ UNCHANGED policy

OverTrimTarget ==
    OverTarget(policy, Resident(policy) \ Evicted, call.target[1], call.target[2])

EvictForTrim ==
    /\ call.loop = "trim"
    /\ OverTrimTarget
    /\ \E victim \in Victim(policy, Evicted) :
          call' = [call EXCEPT !.evictions = Recorded(victim, "trim")]
    /\ UNCHANGED policy

TrimPlanned ==
    /\ call.loop = "trim"
    /\ OverTrimTarget => Victim(policy, Evicted) = {}

FinishTrim ==
    /\ TrimPlanned
    /\ policy' = CommitTrim(policy, Evicted)
    /\ call' = Idle

-----------------------------------------------------------------------------

HitBetweenCalls(key) == call = Idle /\ ObserveHit(key) /\ UNCHANGED call

\* One turn of a loop, or what comes after it.
Advance == EvictForRoom \/ CommitAdmission \/ EvictForTrim \/ FinishTrim

LoopNext ==
    \/ \E key \in Keys, role \in AdmitRoles, nbytes \in Sizes :
          \E predecessor \in IF role = "active" THEN Keys \cup {None} ELSE {None} :
            BeginAdmission(key, role, nbytes, predecessor)
    \/ \E key \in Keys, nbytes \in Sizes :
          BeginCandidate(key, nbytes) \/ RefuseCandidate(key, nbytes)
    \/ \E target \in TrimTargets : BeginTrim(target[1], target[2])
    \/ \E key \in Keys : HitBetweenCalls(key)
    \/ Advance

LoopSpec == LoopInit /\ [][LoopNext]_loopVars /\ WF_loopVars(Advance)

-----------------------------------------------------------------------------
(* Properties.                                                             *)

(* The loops compute the closed form: when an admission's loop ends it has *)
(* the very plan, victims and reasons, that PlanAdmission defines, and a   *)
(* trim's loop the victims of PlanTrim.                                    *)
LoopsAgree ==
    /\ AdmissionPlanned =>
          /\ PlanMade.accepted
          /\ [PlanMade EXCEPT !.reason = "admit"]
                = PlanAdmission(call.planned, call.key, call.role, call.nbytes,
                                call.predecessor)
    /\ TrimPlanned =>
          Evicted = PlanTrim(policy, call.target[1], call.target[2])

(* Planning one victim at a time and committing at the end is, for other   *)
(* callers, the one step that WorkingSetPolicy takes.                      *)
ImplementsAtomicPlans == Spec

(* A loop ends: every turn evicts another key.                             *)
LoopsEnd == call # Idle ~> call = Idle
=============================================================================
