-------------------------- MODULE CacheCoordinator --------------------------
(***************************************************************************)
(* CacheCoordinator (src/statebraid/cache/policy.py): planning, backend    *)
(* mutation and policy commit under one lock, with a backend whose calls   *)
(* may raise, before or after having taken effect.                         *)
(*                                                                         *)
(* The lock serializes the calls, so one record, txn, holds the call that  *)
(* is inside the lock, and waiting callers have no state. Each backend     *)
(* call is a step: what interleaves with a call is the failure of any of   *)
(* its steps, and readers of the policy that do not take the lock.         *)
(***************************************************************************)
EXTENDS PolicyOps

CONSTANTS
    Payloads,     \* opaque backend states
    AdmitRoles,   \* the roles callers pass to admit_entry
    Sizes,        \* the payload sizes callers pass
    TrimTargets,  \* the <<n_sequences, n_bytes>> targets callers pass
    UndoMayFail,  \* may backend calls also raise inside the rollback?
    MaxHits,      \* bound: hits counted per entry
    MaxSightings  \* bound: sightings counted per candidate

ASSUME CoordinatorAssumption ==
    /\ AdmitRoles \subseteq Roles
    /\ Sizes \subseteq Nat
    /\ TrimTargets \subseteq Nat \X Nat
    /\ UndoMayFail \in BOOLEAN
    /\ None \notin Payloads

VARIABLES
    policy,    \* the WorkingSetPolicy
    backend,   \* what the backend holds for each key, None if nothing
    txn        \* the call that holds the lock

vars == <<policy, backend, txn>>

Free == [phase |-> "free"]

Init ==
    /\ policy = EmptyPolicy
    /\ backend = [k \in Keys |-> None]
    /\ txn = Free

-----------------------------------------------------------------------------
(* Entering the lock: the plan is made and the policy captured.            *)

NoPlan == [key |-> None]

\* affected is what the call may touch; left is what its phase still has to
\* visit. startPolicy and startBackend are history: the state on entry.
Enter(phase, plan, payload, affected, planned) ==
    txn' = [phase |-> phase, plan |-> plan, payload |-> payload,
            affected |-> affected, left |-> affected,
            captured |-> [k \in affected |-> None], before |-> planned,
            startPolicy |-> policy, startBackend |-> backend]

\* admit(plan): a refused plan returns False.
Admit(plan, payload, planned) ==
    /\ policy' = planned
    /\ UNCHANGED backend
    /\ IF plan.accepted
       THEN Enter("capture", plan, payload, DOMAIN plan.evictions \cup {plan.key}, planned)
       ELSE UNCHANGED txn

AdmitEntry(key, role, nbytes, predecessor, payload) ==
    /\ txn = Free
    /\ Admit(PlanAdmission(policy, key, role, nbytes, predecessor), payload, policy)

\* The policy is captured after planning has moved the probation state.
AdmitStableCandidate(key, nbytes, payload) ==
    /\ txn = Free
    /\ policy.cand.count < MaxSightings
    /\ LET result == PlanStableCandidate(policy, key, nbytes)
       IN  Admit(result.plan, payload, result.policy)

\* trim_to, which returns False when there is nothing to evict.
TrimTo(targetSequences, targetBytes) ==
    LET evicted == PlanTrim(policy, targetSequences, targetBytes)
    IN  /\ txn = Free
        /\ evicted # {}
        /\ Enter("capture", NoPlan, None, evicted, policy)
        /\ UNCHANGED <<policy, backend>>

\* forget_remote holds the lock over all its keys.
ForgetRemote(keys) ==
    /\ txn = Free
    /\ Enter("forget", NoPlan, None, keys, policy)
    /\ UNCHANGED <<policy, backend>>

ObserveHit(key) ==
    /\ txn = Free
    /\ key \in Resident(policy) => policy.entries[key].hits < MaxHits
    /\ policy' = AddHit(policy, key)
    /\ UNCHANGED <<backend, txn>>

-----------------------------------------------------------------------------
(* admit and trim.                                                         *)

\* The captures change nothing, so they are one step.
Capture ==
    /\ txn.phase = "capture"
    /\ txn' = [txn EXCEPT !.phase = "remove",
                          !.captured = [k \in txn.affected |-> backend[k]]]
    /\ UNCHANGED <<policy, backend>>

\* A capture that raises leaves before the try block; forget_remote captures
\* key by key and keeps the keys it has already dropped.
CaptureFails ==
    /\ txn.phase \in {"capture", "forget"}
    /\ txn.left # {}
    /\ txn' = Free
    /\ UNCHANGED <<policy, backend>>

\* What a failing call may have done: nothing, or all it was asked to.
Effects(k, value) == {backend, [backend EXCEPT ![k] = value]}

Remove(k) ==
    /\ txn.phase = "remove"
    /\ k \in txn.left
    /\ backend' = [backend EXCEPT ![k] = None]
    /\ txn' = [txn EXCEPT !.left = @ \ {k}]
    /\ UNCHANGED policy

Insert ==
    /\ txn.phase = "remove"
    /\ txn.left = {}
    /\ txn.plan # NoPlan
    /\ backend' = [backend EXCEPT ![txn.plan.key] = txn.payload]
    /\ txn' = [txn EXCEPT !.phase = "commit"]
    /\ UNCHANGED policy

\* commit or commit_trim; the lock is released.
CommitPlan ==
    /\ \/ txn.phase = "commit" /\ policy' = Commit(policy, txn.plan)
       \/ /\ txn.phase = "remove"
          /\ txn.left = {}
          /\ txn.plan = NoPlan
          /\ policy' = CommitTrim(policy, txn.affected)
    /\ txn' = Free
    /\ UNCHANGED backend

-----------------------------------------------------------------------------
(* forget_remote, one key after another.                                   *)

ForgetKey(k) ==
    /\ txn.phase = "forget"
    /\ k \in txn.left
    /\ LET known == backend[k] # None
           after == [backend EXCEPT ![k] = None]
       IN  /\ backend' = after
           /\ policy' = IF known THEN CommitTrim(policy, {k}) ELSE policy
           /\ txn' = [txn EXCEPT !.left = @ \ {k}, !.before = policy',
                                 !.startPolicy = policy', !.startBackend = after]

ForgetDone ==
    /\ txn.phase = "forget"
    /\ txn.left = {}
    /\ txn' = Free
    /\ UNCHANGED <<policy, backend>>

-----------------------------------------------------------------------------
(* _restore_backend_and_policy.                                            *)

\* The last restore, or none to do, raises the original exception.
Undo(affected, captured) ==
    txn' = [txn EXCEPT !.phase = "undo_remove", !.affected = affected,
                       !.left = affected, !.captured = captured]

RemoveFails(k) ==
    /\ txn.phase = "remove"
    /\ k \in txn.left
    /\ backend' \in Effects(k, None)
    /\ policy' = txn.before
    /\ Undo(txn.affected, txn.captured)

InsertFails ==
    /\ txn.phase = "remove"
    /\ txn.left = {}
    /\ txn.plan # NoPlan
    /\ backend' \in Effects(txn.plan.key, txn.payload)
    /\ policy' = txn.before
    /\ Undo(txn.affected, txn.captured)

ForgetFails(k) ==
    /\ txn.phase = "forget"
    /\ k \in txn.left
    /\ backend[k] # None
    /\ backend' \in Effects(k, None)
    /\ policy' = txn.before
    /\ Undo({k}, [j \in {k} |-> backend[k]])

\* Mutants: the removal is repeated for ever, the inserted payload is not
\* taken out, and the whole backend is cleared.
UndoRemoveRepeats(k) ==
    /\ txn.phase = "undo_remove"
    /\ k \in txn.left
    /\ backend' = [backend EXCEPT ![k] = None]
    /\ UNCHANGED <<policy, txn>>

UndoRemoveSkipped(k) ==
    /\ txn.phase = "undo_remove"
    /\ k \in txn.left
    /\ txn' = [txn EXCEPT !.left = @ \ {k}]
    /\ UNCHANGED <<policy, backend>>

UndoRemoveClears(k) ==
    /\ txn.phase = "undo_remove"
    /\ k \in txn.left
    /\ backend' = [j \in Keys |-> None]
    /\ txn' = [txn EXCEPT !.left = @ \ {k}]
    /\ UNCHANGED policy

\* An exception of this remove is swallowed.
UndoRemove(k) ==
    /\ txn.phase = "undo_remove"
    /\ k \in txn.left
    /\ \/ backend' = [backend EXCEPT ![k] = None]
       \/ UndoMayFail /\ UNCHANGED backend
    /\ txn' = [txn EXCEPT !.left = @ \ {k}]
    /\ UNCHANGED policy

\* Mutants: nothing is restored, and the payload of the admitted key is not.
UndoTurnRestoresNothing ==
    /\ txn.phase = "undo_remove"
    /\ txn.left = {}
    /\ txn' = [txn EXCEPT !.phase = "undo_restore", !.left = {}]
    /\ UNCHANGED <<policy, backend>>

UndoTurnRestoresVictims ==
    /\ txn.phase = "undo_remove"
    /\ txn.left = {}
    /\ txn' = [txn EXCEPT !.phase = "undo_restore",
                          !.left = {k \in txn.affected \ {txn.plan.key} :
                                       txn.captured[k] # None}]
    /\ UNCHANGED <<policy, backend>>

UndoTurn ==
    /\ txn.phase = "undo_remove"
    /\ txn.left = {}
    /\ txn' = [txn EXCEPT !.phase = "undo_restore",
                          !.left = {k \in txn.affected : txn.captured[k] # None}]
    /\ UNCHANGED <<policy, backend>>

UndoRestore(k) ==
    /\ txn.phase = "undo_restore"
    /\ k \in txn.left
    /\ backend' = [backend EXCEPT ![k] = txn.captured[k]]
    /\ txn' = [txn EXCEPT !.left = @ \ {k}]
    /\ UNCHANGED policy

\* A restore that raises leaves the keys after it unrestored.
UndoRestoreFails(k) ==
    /\ UndoMayFail
    /\ txn.phase = "undo_restore"
    /\ k \in txn.left
    /\ backend' \in Effects(k, txn.captured[k])
    /\ txn' = Free
    /\ UNCHANGED policy

UndoDone ==
    /\ txn.phase = "undo_restore"
    /\ txn.left = {}
    /\ txn' = Free
    /\ UNCHANGED <<policy, backend>>

-----------------------------------------------------------------------------

Call ==
    \/ \E key \in Keys, role \in AdmitRoles, nbytes \in Sizes,
          predecessor \in Keys \cup {None}, payload \in Payloads :
            AdmitEntry(key, role, nbytes, predecessor, payload)
    \/ \E key \in Keys, nbytes \in Sizes, payload \in Payloads :
            AdmitStableCandidate(key, nbytes, payload)
    \/ \E target \in TrimTargets : TrimTo(target[1], target[2])
    \/ \E keys \in (SUBSET Keys) \ {{}} : ForgetRemote(keys)
    \/ \E key \in Keys : ObserveHit(key)

\* A step of the call inside the lock.
Advance ==
    \/ Capture
    \/ CaptureFails
    \/ \E k \in Keys : Remove(k) \/ RemoveFails(k)
    \/ Insert
    \/ InsertFails
    \/ CommitPlan
    \/ \E k \in Keys : ForgetKey(k) \/ ForgetFails(k)
    \/ ForgetDone
    \/ \E k \in Keys : UndoRemove(k) \/ UndoRestore(k) \/ UndoRestoreFails(k)
    \/ UndoTurn
    \/ UndoDone

Next == Call \/ Advance

\* A caller inside the lock keeps running: the backend calls return or raise.
Fairness == WF_vars(Advance)

Spec == Init /\ [][Next]_vars /\ Fairness

-----------------------------------------------------------------------------
(* Properties.                                                             *)

Held(contents) == {k \in Keys : contents[k] # None}

(* Types, and in every phase the policy value is well formed.              *)
TypeOK ==
    /\ WellTyped(policy)
    /\ backend \in [Keys -> Payloads \cup {None}]
    /\ txn.phase \in {"free", "capture", "remove", "commit", "forget",
                      "undo_remove", "undo_restore"}
    /\ txn # Free => /\ txn.left \subseteq txn.affected
                     /\ WellTyped(txn.before)

(* With the lock free, the policy lists exactly the keys the backend holds *)
(* whatever steps of whatever calls have raised before: no phantom entry   *)
(* and no payload the policy has forgotten.                                *)
Agreement == txn = Free => Held(backend) = Resident(policy)

(* The policy stays within its limits and its index consistent between and *)
(* inside calls, through commits and roll backs alike.                     *)
PolicySound ==
    /\ TypeOK
    /\ WithinLimits(policy)
    /\ Filed(policy)
    /\ Accounted(policy)
    /\ SingleStable(policy)

(* The backend never holds more payloads than the policy allows, also in   *)
(* the middle of an admission or of its roll back.                         *)
PhysicalBudget == Cardinality(Held(backend)) <= MaxSequences

Ends == txn # Free /\ txn' = Free

(* A call does all it was to do, or nothing that remains but a sighting:   *)
(* one that returns has stored its payload, evicted what it planned and    *)
(* touched no other payload; one that raises leaves the entries, their     *)
(* order and the payloads as they were on entry. The candidate under       *)
(* probation may have been sighted once more: AbortRestoresPolicy.         *)
AllOrNothing ==
    [][Ends =>
          IF CommitPlan
          THEN \A k \in Keys :
                 backend'[k] = IF txn.plan # NoPlan /\ k = txn.plan.key THEN txn.payload
                               ELSE IF k \in txn.affected THEN None
                               ELSE txn.startBackend[k]
          ELSE /\ backend' = txn.startBackend
               /\ policy' = [txn.startPolicy EXCEPT !.cand = policy'.cand]]_vars

(* Even when the roll back fails in turn, a call damages only the keys it  *)
(* was to touch: any other payload is where it was.                        *)
DamageConfined ==
    [][Ends => \A k \in Keys \ txn.affected : backend'[k] = txn.startBackend[k]]_vars

(* What other callers can see of the payloads: those of the last state in  *)
(* which no call was half done.                                            *)
Committed ==
    LET contents == IF txn = Free THEN backend ELSE txn.startBackend
    IN  [k \in Held(contents) |-> contents[k]]

Abstract == INSTANCE TransactionalCache WITH content <- Committed

(* The coordinated cache is the transactional cache.                       *)
Transactional == Abstract!Spec

(* Every call that gets the lock gives it back, also when it rolls back.   *)
LockReleased == txn # Free ~> txn = Free

(* docs: "Backend failure must restore both StateBraid policy state and    *)
(* the affected opaque backend references". The policy after a call that   *)
(* raises is the policy the call found.                                    *)
AbortRestoresPolicy ==
    [][Ends /\ ~CommitPlan => policy' = txn.startPolicy]_vars
=============================================================================
