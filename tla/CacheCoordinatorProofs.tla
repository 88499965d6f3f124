------------------------ MODULE CacheCoordinatorProofs ------------------------
(***************************************************************************)
(* Safety of CacheCoordinator for every set of keys and payloads, every    *)
(* capacity and every failing backend call. While a call holds the lock    *)
(* the policy is the one it would roll back to, and the backend differs    *)
(* from what the call found by what its phase has done so far. Then come   *)
(* the coordinator that is given stale plans, and, while no undo fails,    *)
(* agreement, atomicity and the refinement of TransactionalCache.          *)
(***************************************************************************)
EXTENDS StalePlans, PolicyOpsProofs

Safe(p) == Coherent(p) /\ WithinLimits(p) /\ SingleStable(p)

Contents == [Keys -> Payloads \cup {None}]

Fields ==
    {"phase", "plan", "payload", "affected", "left", "captured", "before",
     "startPolicy", "startBackend"}

\* What an admission may count on until it commits: its plan, made for the
\* policy as it still is.
Planned ==
    txn.phase \in {"capture", "remove", "commit"} /\ txn.plan # NoPlan =>
        /\ txn.plan.accepted
        /\ Executable(policy, txn.plan)
        /\ txn.affected = DOMAIN txn.plan.evictions \cup {txn.plan.key}
        /\ txn.payload \in Payloads

Inside ==
    /\ DOMAIN txn = Fields
    /\ txn.phase \in {"capture", "remove", "commit", "forget",
                      "undo_remove", "undo_restore"}
    /\ txn.affected \subseteq Keys
    /\ txn.left \subseteq txn.affected
    /\ txn.before = policy
    /\ txn.startBackend \in Contents
    /\ txn.phase \in {"remove", "undo_remove", "undo_restore"} =>
          \A k \in txn.affected : txn.captured[k] \in Payloads \cup {None}
    /\ txn.phase = "commit" => txn.plan # NoPlan
    /\ Planned
    /\ txn.phase \in {"capture", "forget"} => backend = txn.startBackend
    /\ \A k \in Keys \ txn.affected : backend[k] = txn.startBackend[k]

SafetyInv ==
    /\ Safe(policy)
    /\ backend \in Contents
    /\ txn = Free \/ Inside

-----------------------------------------------------------------------------
(* Records that hold a transaction.                                        *)

(* Visiting a key leaves the rest of the transaction as it is.             *)
LEMMA LeftFields ==
    ASSUME NEW t, DOMAIN t = Fields, NEW left
    PROVE  LET u == [t EXCEPT !.left = left]
           IN  /\ DOMAIN u = Fields /\ u.left = left
               /\ u.phase = t.phase /\ u.plan = t.plan /\ u.payload = t.payload
               /\ u.affected = t.affected /\ u.captured = t.captured
               /\ u.before = t.before /\ u.startPolicy = t.startPolicy
               /\ u.startBackend = t.startBackend
BY Zenon DEF Fields

(* So does passing to another phase.                                       *)
LEMMA PhaseFields ==
    ASSUME NEW t, DOMAIN t = Fields, NEW phase
    PROVE  LET u == [t EXCEPT !.phase = phase]
           IN  /\ DOMAIN u = Fields /\ u.phase = phase
               /\ u.left = t.left /\ u.plan = t.plan /\ u.payload = t.payload
               /\ u.affected = t.affected /\ u.captured = t.captured
               /\ u.before = t.before /\ u.startPolicy = t.startPolicy
               /\ u.startBackend = t.startBackend
BY Zenon DEF Fields

(* A new transaction.                                                      *)
LEMMA EnteredFields ==
    ASSUME NEW phase, NEW plan, NEW payload, NEW affected, NEW planned,
           Enter(phase, plan, payload, affected, planned)
    PROVE  /\ DOMAIN txn' = Fields /\ txn'.phase = phase /\ txn'.plan = plan
           /\ txn'.payload = payload /\ txn'.affected = affected
           /\ txn'.left = affected /\ txn'.before = planned
           /\ txn'.startPolicy = policy /\ txn'.startBackend = backend
BY DEF Enter, Fields

(* What Capture records before the first change to the backend.            *)
LEMMA CaptureFields ==
    ASSUME DOMAIN txn = Fields, Capture
    PROVE  /\ DOMAIN txn' = Fields /\ txn'.phase = "remove"
           /\ txn'.captured = [k \in txn.affected |-> backend[k]]
           /\ txn'.left = txn.left /\ txn'.plan = txn.plan
           /\ txn'.payload = txn.payload /\ txn'.affected = txn.affected
           /\ txn'.before = txn.before /\ txn'.startPolicy = txn.startPolicy
           /\ txn'.startBackend = txn.startBackend
BY Zenon DEF Fields, Capture

(* What a call that rolls back knows of what it is to undo.                *)
LEMMA UndoFields ==
    ASSUME DOMAIN txn = Fields, NEW affected, NEW captured, Undo(affected, captured)
    PROVE  /\ DOMAIN txn' = Fields /\ txn'.phase = "undo_remove"
           /\ txn'.affected = affected /\ txn'.left = affected
           /\ txn'.captured = captured /\ txn'.plan = txn.plan
           /\ txn'.payload = txn.payload
           /\ txn'.before = txn.before /\ txn'.startPolicy = txn.startPolicy
           /\ txn'.startBackend = txn.startBackend
BY Zenon DEF Fields, Undo

(* The second half of the roll back is to restore what was captured.       *)
LEMMA TurnFields ==
    ASSUME DOMAIN txn = Fields, UndoTurn
    PROVE  /\ DOMAIN txn' = Fields /\ txn'.phase = "undo_restore"
           /\ txn'.left = {k \in txn.affected : txn.captured[k] # None}
           /\ txn'.affected = txn.affected
           /\ txn'.captured = txn.captured /\ txn'.plan = txn.plan
           /\ txn'.payload = txn.payload
           /\ txn'.before = txn.before /\ txn'.startPolicy = txn.startPolicy
           /\ txn'.startBackend = txn.startBackend
BY Zenon DEF Fields, UndoTurn

(* What the removal of one key leaves of the call.                         *)
LEMMA ForgetFields ==
    ASSUME DOMAIN txn = Fields, NEW k, ForgetKey(k)
    PROVE  /\ DOMAIN txn' = Fields /\ txn'.phase = "forget"
           /\ txn'.left = txn.left \ {k}
           /\ txn'.affected = txn.affected
           /\ txn'.before = policy' /\ txn'.startPolicy = policy'
           /\ txn'.startBackend = backend'
BY Zenon DEF Fields, ForgetKey

-----------------------------------------------------------------------------
(* The safety invariant.                                                   *)

(* At the start the policy is empty and no call runs.                      *)
LEMMA SafetyInit == Init => SafetyInv
<1>1. ASSUME Init PROVE Safe(policy)
  BY <1>1, EmptySafe DEF Init, Safe
<1>2. ASSUME Init PROVE backend \in Contents /\ txn = Free
  BY <1>2 DEF Init, Contents
<1>3. QED
  BY <1>1, <1>2 DEF SafetyInv

(* The lock is held in every phase but "free".                             *)
LEMMA PhaseInside ==
    ASSUME SafetyInv, txn.phase # "free"
    PROVE  Inside
BY DEF SafetyInv, Free

(* A call that enters the lock has touched nothing yet.                    *)
LEMMA EnterSafe ==
    ASSUME NEW phase \in {"capture", "forget"}, NEW plan, NEW payload,
           NEW affected \in SUBSET Keys, backend \in Contents, Safe(policy'),
           UNCHANGED backend, Enter(phase, plan, payload, affected, policy'),
           phase = "capture" /\ plan # NoPlan =>
               /\ plan.accepted
               /\ Executable(policy', plan)
               /\ affected = DOMAIN plan.evictions \cup {plan.key}
               /\ payload \in Payloads
    PROVE  SafetyInv'
<1>1. /\ DOMAIN txn' = Fields /\ txn'.phase = phase /\ txn'.plan = plan
      /\ txn'.payload = payload /\ txn'.affected = affected
      /\ txn'.left = affected /\ txn'.before = policy'
      /\ txn'.startBackend = backend
  BY EnteredFields
<1>2. Planned'
  BY <1>1 DEF Planned
<1>3. Inside'
  BY <1>1, <1>2 DEF Inside
<1>4. QED
  BY <1>3 DEF SafetyInv

(* Entering a call, or counting a hit, keeps the invariant.                *)
LEMMA CallSafe == SafetyInv /\ Call => SafetyInv'
<1> SUFFICES ASSUME SafetyInv, Call PROVE SafetyInv'
  OBVIOUS
<1> USE DEF Safe
<1>0. Safe(policy) /\ backend \in Contents
  BY DEF SafetyInv
<1>1. ASSUME NEW key \in Keys, NEW role \in AdmitRoles, NEW nbytes \in Sizes,
             NEW predecessor \in Keys \cup {None}, NEW payload \in Payloads,
             AdmitEntry(key, role, nbytes, predecessor, payload)
      PROVE  SafetyInv'
  <2> DEFINE plan == PlanAdmission(policy, key, role, nbytes, predecessor)
  <2>1. role \in Roles /\ nbytes \in Nat
    BY CoordinatorAssumption
  <2>2. plan.accepted => Executable(policy, plan)
    BY <1>0, <2>1, AdmissionPlan
  <2>3. DOMAIN plan.evictions \subseteq Keys
    BY <1>0, EvictionsAreKeys
  <2>4. policy' = policy /\ UNCHANGED backend /\ txn = Free
    BY <1>1 DEF AdmitEntry, Admit
  <2>5. IF plan.accepted
        THEN Enter("capture", plan, payload, DOMAIN plan.evictions \cup {plan.key}, policy)
        ELSE UNCHANGED txn
    BY <1>1 DEF AdmitEntry, Admit
  <2> HIDE DEF plan
  <2>6. CASE plan.accepted
    <3>1. plan.key \in Keys
      BY <2>2, <2>6 DEF Executable
    <3>2. QED
      BY <1>0, <2>2, <2>3, <2>4, <2>5, <2>6, <3>1, EnterSafe
  <2>7. CASE ~plan.accepted
    BY <1>0, <2>4, <2>5, <2>7 DEF SafetyInv
  <2>8. QED
    BY <2>6, <2>7
<1>2. ASSUME NEW key \in Keys, NEW nbytes \in Sizes, NEW payload \in Payloads,
             AdmitStableCandidate(key, nbytes, payload)
      PROVE  SafetyInv'
  <2> DEFINE result == PlanStableCandidate(policy, key, nbytes)
  <2>1. nbytes \in Nat
    BY CoordinatorAssumption
  <2>2. /\ Safe(result.policy)
        /\ result.plan.accepted =>
              /\ Executable(result.policy, result.plan)
              /\ DOMAIN result.plan.evictions \subseteq Keys
    BY <1>0, <2>1, StableCandidatePlan
  <2>3. /\ policy' = result.policy /\ UNCHANGED backend /\ txn = Free
        /\ IF result.plan.accepted
           THEN Enter("capture", result.plan, payload,
                      DOMAIN result.plan.evictions \cup {result.plan.key}, policy')
           ELSE UNCHANGED txn
    BY <1>2 DEF AdmitStableCandidate, Admit
  <2> HIDE DEF result
  <2>4. CASE result.plan.accepted
    <3>1. result.plan.key \in Keys
      BY <2>2, <2>4 DEF Executable
    <3>2. QED
      BY <1>0, <2>2, <2>3, <2>4, <3>1, EnterSafe
  <2>5. CASE ~result.plan.accepted
    BY <1>0, <2>2, <2>3, <2>5 DEF SafetyInv
  <2>6. QED
    BY <2>4, <2>5
<1>3. ASSUME NEW target \in TrimTargets, TrimTo(target[1], target[2])
      PROVE  SafetyInv'
  <2> DEFINE evicted == PlanTrim(policy, target[1], target[2])
  <2>1. /\ Enter("capture", NoPlan, None, evicted, policy)
        /\ UNCHANGED <<policy, backend>>
    BY <1>3 DEF TrimTo
  <2>2. evicted \subseteq Keys
    BY <1>0 DEF PlanTrim, Indexed, Coherent, WellTyped
  <2> HIDE DEF evicted
  <2>3. QED
    BY <1>0, <2>1, <2>2, EnterSafe
<1>4. ASSUME NEW keys \in SUBSET Keys, ForgetRemote(keys)
      PROVE  SafetyInv'
  BY <1>0, <1>4, EnterSafe DEF ForgetRemote
<1>5. ASSUME NEW key \in Keys, ObserveHit(key)
      PROVE  SafetyInv'
  <2>1. Safe(policy')
    BY <1>0, <1>5, HitCoherent DEF ObserveHit
  <2>2. backend' = backend /\ txn' = Free
    BY <1>5 DEF ObserveHit
  <2>3. QED
    BY <1>0, <2>1, <2>2 DEF SafetyInv
<1>6. QED
  BY <1>1, <1>2, <1>3, <1>4, <1>5 DEF Call

(* Each step of the call inside the lock keeps the invariant.              *)
LEMMA AdvanceSafe == SafetyInv /\ Advance => SafetyInv'
<1> SUFFICES ASSUME SafetyInv, Advance PROVE SafetyInv'
  OBVIOUS
<1>0. Safe(policy) /\ backend \in Contents
  BY DEF SafetyInv
<1>1. CASE Capture
  <2>1. Inside
    BY <1>1, PhaseInside DEF Capture
  <2>2. /\ DOMAIN txn' = Fields /\ txn'.phase = "remove"
        /\ txn'.captured = [k \in txn.affected |-> backend[k]]
        /\ txn'.left = txn.left /\ txn'.plan = txn.plan
        /\ txn'.payload = txn.payload /\ txn'.affected = txn.affected
        /\ txn'.before = txn.before /\ txn'.startBackend = txn.startBackend
    BY <1>1, <2>1, CaptureFields DEF Inside
  <2>3. UNCHANGED <<policy, backend>> /\ txn.phase = "capture"
    BY <1>1 DEF Capture
  <2>4. \A k \in txn'.affected : txn'.captured[k] \in Payloads \cup {None}
    BY <1>0, <2>1, <2>2 DEF Inside, Contents
  <2>5. Planned'
    BY <2>1, <2>2, <2>3 DEF Inside, Planned
  <2>6. Inside'
    BY <2>1, <2>2, <2>3, <2>4, <2>5 DEF Inside
  <2>7. QED
    BY <1>0, <2>3, <2>6 DEF SafetyInv, Safe
<1>2. CASE CaptureFails \/ ForgetDone \/ UndoDone
  BY <1>0, <1>2 DEF CaptureFails, ForgetDone, UndoDone, SafetyInv
<1>3. ASSUME NEW k \in Keys, Remove(k) PROVE SafetyInv'
  <2>1. Inside
    BY <1>3, PhaseInside DEF Remove
  <2>2. /\ txn' = [txn EXCEPT !.left = txn.left \ {k}] /\ k \in txn.left
        /\ backend' = [backend EXCEPT ![k] = None] /\ policy' = policy
        /\ txn.phase = "remove"
    BY <1>3 DEF Remove
  <2>3. /\ DOMAIN txn' = Fields /\ txn'.left = txn.left \ {k}
        /\ txn'.phase = txn.phase /\ txn'.plan = txn.plan /\ txn'.payload = txn.payload
        /\ txn'.affected = txn.affected /\ txn'.captured = txn.captured
        /\ txn'.before = txn.before /\ txn'.startBackend = txn.startBackend
    BY <2>1, <2>2, LeftFields DEF Inside
  <2>4. Planned'
    BY <2>1, <2>2, <2>3 DEF Inside, Planned
  <2>5. backend' \in Contents
    BY <1>0, <2>2 DEF Contents
  <2>6. \A j \in Keys \ txn'.affected : backend'[j] = txn'.startBackend[j]
    BY <1>0, <2>1, <2>2, <2>3 DEF Inside, Contents
  <2>7. Inside'
    BY <2>1, <2>2, <2>3, <2>4, <2>6 DEF Inside
  <2>8. QED
    BY <1>0, <2>2, <2>5, <2>7 DEF SafetyInv, Safe
<1>4. CASE Insert
  <2>1. Inside
    BY <1>4, PhaseInside DEF Insert
  <2>2. /\ txn' = [txn EXCEPT !.phase = "commit"] /\ txn.plan # NoPlan
        /\ backend' = [backend EXCEPT ![txn.plan.key] = txn.payload]
        /\ policy' = policy /\ txn.phase = "remove"
    BY <1>4 DEF Insert
  <2>3. /\ DOMAIN txn' = Fields /\ txn'.left = txn.left
        /\ txn'.phase = "commit" /\ txn'.plan = txn.plan /\ txn'.payload = txn.payload
        /\ txn'.affected = txn.affected /\ txn'.captured = txn.captured
        /\ txn'.before = txn.before /\ txn'.startBackend = txn.startBackend
    BY <2>1, <2>2, PhaseFields DEF Inside
  <2>4. txn.plan.key \in txn.affected /\ txn.payload \in Payloads
    BY <2>1, <2>2 DEF Inside, Planned
  <2>5. Planned'
    BY <2>1, <2>2, <2>3 DEF Inside, Planned
  <2>6. backend' \in Contents
    BY <1>0, <2>2, <2>4 DEF Contents
  <2>7. \A j \in Keys \ txn'.affected : backend'[j] = txn'.startBackend[j]
    BY <1>0, <2>1, <2>2, <2>3, <2>4 DEF Inside, Contents
  <2>8. Inside'
    BY <2>1, <2>2, <2>3, <2>5, <2>7 DEF Inside
  <2>9. QED
    BY <1>0, <2>2, <2>6, <2>8 DEF SafetyInv, Safe
<1>5. CASE CommitPlan
  <2>1. Inside
    BY <1>5, PhaseInside DEF CommitPlan
  <2>2. Safe(policy')
    <3>1. CASE txn.phase = "commit" /\ policy' = Commit(policy, txn.plan)
      <4>1. Executable(policy, txn.plan)
        BY <2>1, <3>1 DEF Inside, Planned
      <4>2. QED
        BY <1>0, <3>1, <4>1, CommitSafe DEF Safe
    <3>2. CASE policy' = CommitTrim(policy, txn.affected)
      BY <1>0, <3>2, TrimSafe DEF Safe
    <3>3. QED
      BY <1>5, <3>1, <3>2 DEF CommitPlan
  <2>3. txn' = Free /\ backend' = backend
    BY <1>5 DEF CommitPlan
  <2>4. QED
    BY <1>0, <2>2, <2>3 DEF SafetyInv
<1>6. ASSUME NEW k \in Keys, RemoveFails(k) PROVE SafetyInv'
  <2>1. Inside
    BY <1>6, PhaseInside DEF RemoveFails
  <2>2. /\ k \in txn.left /\ backend' \in Effects(k, None)
        /\ policy' = txn.before /\ Undo(txn.affected, txn.captured)
        /\ txn.phase = "remove"
    BY <1>6 DEF RemoveFails
  <2>3. /\ DOMAIN txn' = Fields /\ txn'.phase = "undo_remove"
        /\ txn'.affected = txn.affected /\ txn'.left = txn.affected
        /\ txn'.captured = txn.captured
        /\ txn'.before = txn.before /\ txn'.startBackend = txn.startBackend
    BY <2>1, <2>2, UndoFields DEF Inside
  <2>4. /\ backend' \in Contents
        /\ \A j \in Keys \ txn'.affected : backend'[j] = txn'.startBackend[j]
    BY <1>0, <2>1, <2>2, <2>3 DEF Inside, Contents, Effects
  <2>5. policy' = policy
    BY <2>1, <2>2 DEF Inside
  <2>6. Inside'
    BY <2>1, <2>2, <2>3, <2>4, <2>5 DEF Inside, Planned
  <2>7. QED
    BY <1>0, <2>4, <2>5, <2>6 DEF SafetyInv, Safe
<1>7. CASE InsertFails
  <2>1. Inside
    BY <1>7, PhaseInside DEF InsertFails
  <2>2. /\ backend' \in Effects(txn.plan.key, txn.payload)
        /\ policy' = txn.before /\ Undo(txn.affected, txn.captured)
        /\ txn.phase = "remove" /\ txn.plan # NoPlan
    BY <1>7 DEF InsertFails
  <2>3. /\ DOMAIN txn' = Fields /\ txn'.phase = "undo_remove"
        /\ txn'.affected = txn.affected /\ txn'.left = txn.affected
        /\ txn'.captured = txn.captured
        /\ txn'.before = txn.before /\ txn'.startBackend = txn.startBackend
    BY <2>1, <2>2, UndoFields DEF Inside
  <2>4. txn.plan.key \in txn.affected /\ txn.payload \in Payloads
    BY <2>1, <2>2 DEF Inside, Planned
  <2>5. /\ backend' \in Contents
        /\ \A j \in Keys \ txn'.affected : backend'[j] = txn'.startBackend[j]
    BY <1>0, <2>1, <2>2, <2>3, <2>4 DEF Inside, Contents, Effects
  <2>6. policy' = policy
    BY <2>1, <2>2 DEF Inside
  <2>7. Inside'
    BY <2>1, <2>2, <2>3, <2>5, <2>6 DEF Inside, Planned
  <2>8. QED
    BY <1>0, <2>5, <2>6, <2>7 DEF SafetyInv, Safe
<1>8. ASSUME NEW k \in Keys, ForgetKey(k) PROVE SafetyInv'
  <2>1. Inside
    BY <1>8, PhaseInside DEF ForgetKey
  <2>2. /\ DOMAIN txn' = Fields /\ txn'.phase = "forget"
        /\ txn'.left = txn.left \ {k} /\ txn'.affected = txn.affected
        /\ txn'.before = policy' /\ txn'.startBackend = backend'
    BY <1>8, <2>1, ForgetFields DEF Inside
  <2>3. /\ backend' = [backend EXCEPT ![k] = None]
        /\ policy' \in {policy, CommitTrim(policy, {k})}
    BY <1>8 DEF ForgetKey
  <2>4. Safe(policy')
    BY <1>0, <2>3, TrimSafe DEF Safe
  <2>5. backend' \in Contents
    BY <1>0, <2>3 DEF Contents
  <2>6. Inside'
    BY <2>1, <2>2, <2>5 DEF Inside, Planned
  <2>7. QED
    BY <2>4, <2>5, <2>6 DEF SafetyInv
<1>9. ASSUME NEW k \in Keys, ForgetFails(k) PROVE SafetyInv'
  <2>1. Inside
    BY <1>9, PhaseInside DEF ForgetFails
  <2> DEFINE captured == [j \in {k} |-> backend[k]]
  <2>2. /\ backend' \in Effects(k, None)
        /\ policy' = txn.before /\ Undo({k}, captured)
        /\ txn.phase = "forget"
    BY <1>9 DEF ForgetFails
  <2>3. /\ DOMAIN txn' = Fields /\ txn'.phase = "undo_remove"
        /\ txn'.affected = {k} /\ txn'.left = {k}
        /\ txn'.captured = captured
        /\ txn'.before = txn.before /\ txn'.startBackend = txn.startBackend
    BY <2>1, <2>2, UndoFields DEF Inside
  <2>4. \A j \in txn'.affected : txn'.captured[j] \in Payloads \cup {None}
    BY <1>0, <2>3 DEF Contents
  <2>5. /\ backend' \in Contents
        /\ \A j \in Keys \ txn'.affected : backend'[j] = txn'.startBackend[j]
    BY <1>0, <2>1, <2>2, <2>3 DEF Inside, Contents, Effects
  <2>6. policy' = policy
    BY <2>1, <2>2 DEF Inside
  <2>7. Inside'
    BY <2>1, <2>3, <2>4, <2>5, <2>6 DEF Inside, Planned
  <2>8. QED
    BY <1>0, <2>5, <2>6, <2>7 DEF SafetyInv, Safe
<1>10. ASSUME NEW k \in Keys, UndoRemove(k) \/ UndoRestore(k) PROVE SafetyInv'
  <2>1. Inside
    BY <1>10, PhaseInside DEF UndoRemove, UndoRestore
  <2>2. /\ txn' = [txn EXCEPT !.left = txn.left \ {k}] /\ k \in txn.left
        /\ policy' = policy /\ txn.phase \in {"undo_remove", "undo_restore"}
        /\ backend' \in {backend, [backend EXCEPT ![k] = None],
                         [backend EXCEPT ![k] = txn.captured[k]]}
    BY <1>10 DEF UndoRemove, UndoRestore
  <2>3. /\ DOMAIN txn' = Fields /\ txn'.left = txn.left \ {k}
        /\ txn'.phase = txn.phase /\ txn'.plan = txn.plan
        /\ txn'.affected = txn.affected /\ txn'.captured = txn.captured
        /\ txn'.before = txn.before /\ txn'.startBackend = txn.startBackend
    BY <2>1, <2>2, LeftFields DEF Inside
  <2>4. /\ k \in txn.affected
        /\ \A j \in txn.affected : txn.captured[j] \in Payloads \cup {None}
    BY <2>1, <2>2 DEF Inside
  <2>5. /\ backend' \in Contents
        /\ \A j \in Keys \ txn'.affected : backend'[j] = txn'.startBackend[j]
    BY <1>0, <2>1, <2>2, <2>3, <2>4 DEF Inside, Contents
  <2>6. Inside'
    BY <2>1, <2>2, <2>3, <2>4, <2>5 DEF Inside, Planned
  <2>7. QED
    BY <1>0, <2>2, <2>5, <2>6 DEF SafetyInv, Safe
<1>11. ASSUME NEW k \in Keys, UndoRestoreFails(k) PROVE SafetyInv'
  <2>1. Inside
    BY <1>11, PhaseInside DEF UndoRestoreFails
  <2>2. /\ policy' = policy /\ txn' = Free /\ backend' \in Effects(k, txn.captured[k])
        /\ k \in txn.left /\ txn.phase = "undo_restore"
    BY <1>11 DEF UndoRestoreFails
  <2>3. txn.captured[k] \in Payloads \cup {None}
    BY <2>1, <2>2 DEF Inside
  <2>4. backend' \in Contents
    BY <1>0, <2>2, <2>3 DEF Contents, Effects
  <2>5. QED
    BY <1>0, <2>2, <2>4 DEF SafetyInv
<1>12. CASE UndoTurn
  <2>1. Inside
    BY <1>12, PhaseInside DEF UndoTurn
  <2>2. /\ DOMAIN txn' = Fields /\ txn'.phase = "undo_restore"
        /\ txn'.left = {k \in txn.affected : txn.captured[k] # None}
        /\ txn'.affected = txn.affected
        /\ txn'.captured = txn.captured
        /\ txn'.before = txn.before /\ txn'.startBackend = txn.startBackend
    BY <1>12, <2>1, TurnFields DEF Inside
  <2>3. UNCHANGED <<policy, backend>> /\ txn.phase = "undo_remove"
    BY <1>12 DEF UndoTurn
  <2>4. Inside'
    BY <2>1, <2>2, <2>3 DEF Inside, Planned
  <2>5. QED
    BY <1>0, <2>3, <2>4 DEF SafetyInv, Safe
<1>13. QED
  BY <1>1, <1>2, <1>3, <1>4, <1>5, <1>6, <1>7, <1>8, <1>9, <1>10, <1>11, <1>12 DEF Advance

(* Every step preserves the safety invariant.                              *)
LEMMA SafetyNext == SafetyInv /\ [Next]_vars => SafetyInv'
<1>1. SafetyInv /\ UNCHANGED vars => SafetyInv'
  BY DEF SafetyInv, vars, Safe, Inside, Planned
<1>2. QED
  BY <1>1, CallSafe, AdvanceSafe DEF Next

(* The safety invariant holds throughout, whichever backend calls raise    *)
(* and whichever undo steps fail.                                          *)
THEOREM SafetyInvariant == Spec => []SafetyInv
<1>1. QED
  BY SafetyInit, SafetyNext, PTL DEF Spec

(* The policy is within its limits and its index, order and byte count are *)
(* those of its entries in every state of every call, committed or rolled  *)
(* back, whatever the backend calls do and the rollback fails to do.       *)
THEOREM PolicySoundness == Spec => []PolicySound
<1>1. SafetyInv => PolicySound
  <2> SUFFICES ASSUME SafetyInv PROVE PolicySound
    OBVIOUS
  <2>1. WellTyped(policy) /\ Filed(policy) /\ Accounted(policy)
        /\ WithinLimits(policy) /\ SingleStable(policy)
    BY DEF SafetyInv, Safe, Coherent
  <2>2. TypeOK
    <3>1. CASE txn = Free
      BY <2>1, <3>1 DEF SafetyInv, TypeOK, Free, Contents
    <3>2. CASE Inside
      BY <2>1, <3>2 DEF SafetyInv, TypeOK, Inside, Contents
    <3>3. QED
      BY <3>1, <3>2 DEF SafetyInv
  <2>3. QED
    BY <2>1, <2>2 DEF PolicySound
<1>2. QED
  BY <1>1, SafetyInvariant, PTL

(* A call that ends, even one whose rollback failed, leaves the payload of *)
(* every key it was not to touch where it found it.                        *)
THEOREM DamageIsConfined == Spec => DamageConfined
<1> DEFINE Confined == Ends => \A k \in Keys \ txn.affected : backend'[k] = txn.startBackend[k]
<1>1. SafetyInv /\ [Next]_vars => Confined
  <2> SUFFICES ASSUME SafetyInv, [Next]_vars, Ends, NEW k \in Keys \ txn.affected
               PROVE  backend'[k] = txn.startBackend[k]
    OBVIOUS
  <2>1. Inside
    BY DEF Ends, SafetyInv
  <2>2. CASE backend' = backend
    BY <2>1, <2>2 DEF Inside
  <2>3. ASSUME NEW j \in Keys, UndoRestoreFails(j)
        PROVE  backend'[k] = txn.startBackend[k]
    <3>1. j \in txn.affected /\ backend' \in {backend, [backend EXCEPT ![j] = txn.captured[j]]}
      BY <2>1, <2>3 DEF Inside, UndoRestoreFails, Effects
    <3>2. QED
      BY <2>1, <3>1 DEF Inside, SafetyInv, Contents
  <2>4. backend' = backend \/ \E j \in Keys : UndoRestoreFails(j)
    <3>1. Fields # DOMAIN Free
      BY DEF Fields, Free
    <3>2. DOMAIN txn' # Fields
      BY <3>1 DEF Ends
    <3>3. ~UNCHANGED vars
      BY DEF Ends, vars
    <3>4. ~Call
      BY DEF Call, AdmitEntry, AdmitStableCandidate, TrimTo, ForgetRemote, ObserveHit, Ends
    <3>5. ASSUME NEW j \in Keys, Remove(j) \/ UndoRemove(j) \/ UndoRestore(j)
          PROVE  FALSE
      <4>1. txn' = [txn EXCEPT !.left = txn.left \ {j}]
        BY <3>5 DEF Remove, UndoRemove, UndoRestore
      <4>2. QED
        BY <2>1, <3>2, <4>1, LeftFields DEF Inside
    <3>6. ~Insert
      BY <2>1, <3>2, PhaseFields DEF Inside, Insert
    <3>7. ASSUME NEW j \in Keys, RemoveFails(j) \/ ForgetKey(j) \/ ForgetFails(j)
          PROVE  FALSE
      BY <2>1, <3>2, <3>7, UndoFields, ForgetFields DEF Inside, RemoveFails, ForgetFails
    <3>8. ~InsertFails /\ ~UndoTurn /\ ~Capture
      BY <2>1, <3>2, UndoFields, TurnFields, CaptureFields DEF Inside, InsertFails
    <3>9. QED
      BY <3>3, <3>4, <3>5, <3>6, <3>7, <3>8
      DEF Next, Advance, CaptureFails, CommitPlan, ForgetDone, UndoDone
  <2>5. QED
    BY <2>2, <2>3, <2>4
<1>2. QED
  BY <1>1, SafetyInvariant, PTL DEF Spec, DamageConfined

-----------------------------------------------------------------------------
(* Stale plans. One no longer fits, so that nothing of the limits can be   *)
(* kept; removing and inserting entries keeps the books by itself.         *)

\* What committing a plan needs for the books, whatever the policy is.
Storable(plan) ==
    /\ plan.accepted
    /\ plan.key \in Keys
    /\ plan.role \in Roles
    /\ plan.nbytes \in 0 .. MaxBytes

Calling ==
    /\ DOMAIN txn = Fields
    /\ txn.before = policy
    /\ txn.phase = "commit" => txn.plan # NoPlan
    /\ txn.phase \in {"capture", "remove", "commit"} /\ txn.plan # NoPlan =>
          Storable(txn.plan)

BooksInv == Coherent(policy) /\ (txn = Free \/ Calling)

(* A plan for a known key, role and size can be committed to any coherent  *)
(* policy value, whatever it evicts.                                       *)
LEMMA CommitBooks ==
    ASSUME NEW p, Coherent(p), NEW plan, Storable(plan)
    PROVE  Coherent(Commit(p, plan))
<1> DEFINE removed == RemoveEntries(p, DOMAIN plan.evictions \cup {plan.key})
           stored  == InsertEntry(removed, plan.key, plan.role, plan.nbytes)
<1>1. /\ Coherent(removed)
      /\ Resident(removed) = Resident(p) \ (DOMAIN plan.evictions \cup {plan.key})
  BY RemoveCoherent
<1> HIDE DEF removed
<1>2. plan.key \in Keys /\ plan.role \in Roles /\ plan.nbytes \in 0 .. MaxBytes
  BY DEF Storable
<1>3. Coherent(stored)
  BY <1>1, <1>2, InsertCoherent
<1> HIDE DEF stored
<1>4. NoCandidate \in CandidateState
  BY DEF NoCandidate, CandidateState
<1>5. Coherent([stored EXCEPT !.cand = NoCandidate])
  BY <1>3, <1>4, CandidateCoherent
<1>6. Commit(p, plan) \in {stored, [stored EXCEPT !.cand = NoCandidate]}
  BY DEF Commit, removed, stored, Storable
<1>7. QED
  BY <1>3, <1>5, <1>6

(* So can the removal of any set of keys.                                  *)
LEMMA TrimBooks ==
    ASSUME NEW p, Coherent(p), NEW S
    PROVE  Coherent(CommitTrim(p, S))
BY RemoveCoherent DEF CommitTrim

(* A call enters the lock with a plan that can be stored.                  *)
LEMMA EnterBooks ==
    ASSUME NEW phase \in {"capture", "forget"}, NEW plan, NEW payload, NEW affected,
           Coherent(policy'), Enter(phase, plan, payload, affected, policy'),
           plan # NoPlan => Storable(plan)
    PROVE  BooksInv'
<1>1. /\ DOMAIN txn' = Fields /\ txn'.phase = phase /\ txn'.plan = plan
      /\ txn'.before = policy'
  BY EnteredFields
<1>2. QED
  BY <1>1 DEF BooksInv, Calling

(* So does an admission, and a refused one leaves the lock free.           *)
LEMMA AdmitBooks ==
    ASSUME NEW plan, NEW payload, NEW planned, Coherent(planned), txn = Free,
           plan.accepted => Storable(plan), Admit(plan, payload, planned)
    PROVE  BooksInv'
<1>1. policy' = planned
  BY DEF Admit
<1>2. CASE plan.accepted
  <2>1. Enter("capture", plan, payload, DOMAIN plan.evictions \cup {plan.key}, policy')
    BY <1>1, <1>2 DEF Admit
  <2>2. QED
    BY <1>1, <1>2, <2>1, EnterBooks
<1>3. CASE ~plan.accepted
  BY <1>1, <1>3 DEF Admit, BooksInv
<1>4. QED
  BY <1>2, <1>3

(* The plans of plan_admission can be stored.                              *)
LEMMA AdmissionStorable ==
    ASSUME NEW p, Coherent(p), NEW key \in Keys, NEW role \in Roles,
           NEW nbytes \in Nat, NEW predecessor,
           PlanAdmission(p, key, role, nbytes, predecessor).accepted
    PROVE  Storable(PlanAdmission(p, key, role, nbytes, predecessor))
BY AdmissionPlan DEF Storable, Executable

(* And those of plan_stable_candidate, which leaves a coherent policy.     *)
LEMMA CandidateStorable ==
    ASSUME NEW p, Coherent(p), NEW key \in Keys, NEW nbytes \in Nat
    PROVE  LET result == PlanStableCandidate(p, key, nbytes)
           IN  /\ Coherent(result.policy)
               /\ result.plan.accepted => Storable(result.plan)
<1> DEFINE plain  == PlanAdmission(p, key, "stable", nbytes, None)
           result == PlanStableCandidate(p, key, nbytes)
<1>1. CandidateOutcome(p, key, nbytes, result)
  BY StableCandidateShape
<1> HIDE DEF result
<1>2. /\ \/ ~result.plan.accepted
         \/ \E reason \in StableReasons :
               result.plan = [plain EXCEPT !.reason = reason]
      /\ \E cand \in CandidateState : result.policy = [p EXCEPT !.cand = cand]
  BY <1>1, Zenon DEF CandidateOutcome
<1>3. Coherent(result.policy)
  BY <1>2, CandidateCoherent
<1>4. ASSUME result.plan.accepted PROVE Storable(result.plan)
  <2>1. PICK reason \in StableReasons : result.plan = [plain EXCEPT !.reason = reason]
    BY <1>2, <1>4
  <2>2. /\ result.plan.accepted = plain.accepted
        /\ result.plan.key = plain.key
        /\ result.plan.role = plain.role
        /\ result.plan.nbytes = plain.nbytes
    BY <2>1, Zenon DEF PlanAdmission, Refusal
  <2>3. Storable(plain)
    BY <1>4, <2>2, AdmissionStorable, RolesAssumption
  <2> HIDE DEF plain
  <2>4. QED
    BY <2>2, <2>3 DEF Storable
<1>5. QED
  BY <1>3, <1>4 DEF result

-----------------------------------------------------------------------------
(* The inductive invariant.                                                *)

(* A call with a current plan enters the lock with one that can be stored. *)
LEMMA CallBooks == BooksInv /\ Call => BooksInv'
<1> SUFFICES ASSUME BooksInv, Call PROVE BooksInv'
  OBVIOUS
<1>0. Coherent(policy)
  BY DEF BooksInv
<1>1. ASSUME NEW key \in Keys, NEW role \in AdmitRoles, NEW nbytes \in Sizes,
             NEW predecessor \in Keys \cup {None}, NEW payload \in Payloads,
             AdmitEntry(key, role, nbytes, predecessor, payload)
      PROVE  BooksInv'
  <2> DEFINE plan == PlanAdmission(policy, key, role, nbytes, predecessor)
  <2>1. role \in Roles /\ nbytes \in Nat
    BY CoordinatorAssumption
  <2>2. plan.accepted => Storable(plan)
    BY <1>0, <2>1, AdmissionStorable
  <2>3. txn = Free /\ Admit(plan, payload, policy)
    BY <1>1 DEF AdmitEntry
  <2> HIDE DEF plan
  <2>4. QED
    BY <1>0, <2>2, <2>3, AdmitBooks
<1>2. ASSUME NEW key \in Keys, NEW nbytes \in Sizes, NEW payload \in Payloads,
             AdmitStableCandidate(key, nbytes, payload)
      PROVE  BooksInv'
  <2> DEFINE result == PlanStableCandidate(policy, key, nbytes)
  <2>1. nbytes \in Nat
    BY CoordinatorAssumption
  <2>2. /\ Coherent(result.policy)
        /\ result.plan.accepted => Storable(result.plan)
    BY <1>0, <2>1, CandidateStorable
  <2>3. txn = Free /\ Admit(result.plan, payload, result.policy)
    BY <1>2 DEF AdmitStableCandidate
  <2> HIDE DEF result
  <2>4. QED
    BY <2>2, <2>3, AdmitBooks
<1>3. ASSUME NEW target \in TrimTargets, TrimTo(target[1], target[2])
      PROVE  BooksInv'
  <2>1. /\ policy' = policy
        /\ Enter("capture", NoPlan, None, PlanTrim(policy, target[1], target[2]), policy)
    BY <1>3 DEF TrimTo
  <2>2. QED
    BY <1>0, <2>1, EnterBooks
<1>4. ASSUME NEW keys, ForgetRemote(keys) PROVE BooksInv'
  <2>1. policy' = policy /\ Enter("forget", NoPlan, None, keys, policy)
    BY <1>4 DEF ForgetRemote
  <2>2. QED
    BY <1>0, <2>1, EnterBooks
<1>5. ASSUME NEW key \in Keys, ObserveHit(key) PROVE BooksInv'
  BY <1>0, <1>5, HitCoherent DEF ObserveHit, BooksInv
<1>6. QED
  BY <1>1, <1>2, <1>3, <1>4, <1>5 DEF Call

(* So does a call with a plan made earlier.                                *)
LEMMA PreparedBooks ==
    ASSUME BooksInv,
           \/ TrimPrepared
           \/ \E key \in Keys, role \in Roles, nbytes \in Sizes, payload \in Payloads :
                 AdmitPrepared(key, role, nbytes, payload)
    PROVE  BooksInv'
<1>0. Coherent(policy)
  BY DEF BooksInv
<1>1. CASE TrimPrepared
  <2>1. PICK evicted \in FormerResidents(None) :
            policy' = policy /\ Enter("capture", NoPlan, None, evicted, policy)
    BY <1>1 DEF TrimPrepared
  <2>2. QED
    BY <1>0, <2>1, EnterBooks
<1>2. ASSUME NEW key \in Keys, NEW role \in Roles, NEW nbytes \in Sizes,
             NEW payload \in Payloads, AdmitPrepared(key, role, nbytes, payload)
      PROVE  BooksInv'
  <2> DEFINE prepared(evicted) ==
          [accepted |-> TRUE, key |-> key, role |-> role,
           nbytes |-> nbytes, reason |-> "admit",
           evictions |-> [k \in evicted |-> "capacity"]]
  <2>1. PICK evicted \in FormerResidents(key) :
            /\ txn = Free
            /\ nbytes <= MaxBytes
            /\ Admit(prepared(evicted), payload, policy)
    BY <1>2 DEF AdmitPrepared
  <2>2. nbytes \in 0 .. MaxBytes
    BY <2>1, CoordinatorAssumption, CapacityAssumption
  <2>3. Storable(prepared(evicted))
    BY <2>2 DEF Storable
  <2> HIDE DEF prepared
  <2>4. QED
    BY <1>0, <2>1, <2>3, AdmitBooks
<1>3. QED
  BY <1>1, <1>2

(* The lock is held in every phase but "free".                             *)
LEMMA PhaseCalling ==
    ASSUME BooksInv, txn.phase # "free"
    PROVE  Calling
BY DEF BooksInv, Free

(* Every step of a call keeps the books: only commits change the entries,  *)
(* and a roll back puts back a value that was coherent.                    *)
LEMMA AdvanceBooks == BooksInv /\ Advance => BooksInv'
<1> SUFFICES ASSUME BooksInv, Advance PROVE BooksInv'
  OBVIOUS
<1>0. Coherent(policy)
  BY DEF BooksInv
<1>1. CASE Capture
  <2>1. Calling /\ policy' = policy /\ txn.phase = "capture"
    BY <1>1, PhaseCalling DEF Capture
  <2>2. /\ DOMAIN txn' = Fields /\ txn'.phase = "remove"
        /\ txn'.plan = txn.plan /\ txn'.before = txn.before
    BY <1>1, <2>1, CaptureFields DEF Calling
  <2>3. QED
    BY <1>0, <2>1, <2>2 DEF BooksInv, Calling
<1>2. CASE CaptureFails \/ ForgetDone \/ UndoDone
  BY <1>0, <1>2 DEF CaptureFails, ForgetDone, UndoDone, BooksInv
<1>3. ASSUME NEW k,
             /\ txn.phase \in {"remove", "undo_remove", "undo_restore"}
             /\ txn' = [txn EXCEPT !.left = txn.left \ {k}]
             /\ policy' = policy
      PROVE  BooksInv'
  <2>1. Calling
    BY <1>3, PhaseCalling
  <2>2. /\ DOMAIN txn' = Fields /\ txn'.phase = txn.phase
        /\ txn'.plan = txn.plan /\ txn'.before = txn.before
    BY <1>3, <2>1, LeftFields DEF Calling
  <2>3. QED
    BY <1>0, <1>3, <2>1, <2>2 DEF BooksInv, Calling
<1>4. ASSUME NEW k, Remove(k) \/ UndoRemove(k) \/ UndoRestore(k) PROVE BooksInv'
  <2>1. /\ txn.phase \in {"remove", "undo_remove", "undo_restore"}
        /\ txn' = [txn EXCEPT !.left = txn.left \ {k}]
        /\ policy' = policy
    BY <1>4 DEF Remove, UndoRemove, UndoRestore
  <2>2. QED
    BY <1>3, <2>1
<1>5. CASE Insert
  <2>1. Calling /\ policy' = policy /\ txn.phase = "remove" /\ txn.plan # NoPlan
    BY <1>5, PhaseCalling DEF Insert
  <2>2. txn' = [txn EXCEPT !.phase = "commit"]
    BY <1>5 DEF Insert
  <2>3. /\ DOMAIN txn' = Fields /\ txn'.phase = "commit"
        /\ txn'.plan = txn.plan /\ txn'.before = txn.before
    BY <2>1, <2>2, PhaseFields DEF Calling
  <2>4. QED
    BY <1>0, <2>1, <2>3 DEF BooksInv, Calling
<1>6. CASE CommitPlan
  <2>1. Calling /\ txn' = Free
    BY <1>6, PhaseCalling DEF CommitPlan
  <2>2. Coherent(policy')
    <3>1. CASE txn.phase = "commit" /\ policy' = Commit(policy, txn.plan)
      BY <1>0, <2>1, <3>1, CommitBooks DEF Calling
    <3>2. CASE policy' = CommitTrim(policy, txn.affected)
      BY <1>0, <3>2, TrimBooks
    <3>3. QED
      BY <1>6, <3>1, <3>2 DEF CommitPlan
  <2>3. QED
    BY <2>1, <2>2 DEF BooksInv
<1>7. ASSUME NEW affected, NEW captured,
             /\ txn.phase # "free"
             /\ Undo(affected, captured)
             /\ policy' = txn.before
      PROVE  BooksInv'
  <2>1. Calling
    BY <1>7, PhaseCalling
  <2>2. /\ DOMAIN txn' = Fields /\ txn'.phase = "undo_remove"
        /\ txn'.before = txn.before
    BY <1>7, <2>1, UndoFields DEF Calling
  <2>3. QED
    BY <1>0, <1>7, <2>1, <2>2 DEF BooksInv, Calling
<1>8. ASSUME NEW k, RemoveFails(k) \/ ForgetFails(k) PROVE BooksInv'
  <2>1. txn.phase # "free" /\ policy' = txn.before
    BY <1>8 DEF RemoveFails, ForgetFails
  <2>2. \E affected, captured : Undo(affected, captured)
    BY <1>8 DEF RemoveFails, ForgetFails
  <2>3. QED
    BY <1>7, <2>1, <2>2
<1>9. CASE InsertFails
  <2>1. txn.phase # "free" /\ policy' = txn.before /\ Undo(txn.affected, txn.captured)
    BY <1>9 DEF InsertFails
  <2>2. QED
    BY <1>7, <2>1
<1>10. ASSUME NEW k, ForgetKey(k) PROVE BooksInv'
  <2>1. Calling /\ policy' \in {policy, CommitTrim(policy, {k})}
    BY <1>10, PhaseCalling DEF ForgetKey
  <2>2. Coherent(policy')
    BY <1>0, <2>1, TrimBooks
  <2>3. DOMAIN txn' = Fields /\ txn'.phase = "forget" /\ txn'.before = policy'
    <3>1. DOMAIN txn = Fields
      BY <2>1 DEF Calling
    <3>2. QED
      BY <1>10, <3>1, Zenon DEF Fields, ForgetKey
  <2>4. QED
    BY <2>2, <2>3 DEF BooksInv, Calling
<1>11. CASE UndoTurn
  <2>1. Calling /\ policy' = policy
    BY <1>11, PhaseCalling DEF UndoTurn
  <2>2. /\ DOMAIN txn' = Fields /\ txn'.phase = "undo_restore"
        /\ txn'.before = txn.before
    BY <1>11, <2>1, TurnFields DEF Calling
  <2>3. QED
    BY <1>0, <2>1, <2>2 DEF BooksInv, Calling
<1>12. ASSUME NEW k, UndoRestoreFails(k) PROVE BooksInv'
  BY <1>0, <1>12 DEF UndoRestoreFails, BooksInv
<1>13. QED
  BY <1>1, <1>2, <1>4, <1>5, <1>6, <1>8, <1>9, <1>10, <1>11, <1>12 DEF Advance

(* An empty cache has its books in order.                                  *)
LEMMA BooksInit == Init => BooksInv
BY EmptySafe DEF Init, BooksInv

(* Every step preserves the invariant.                                     *)
LEMMA BooksNext == BooksInv /\ [StaleNext]_vars => BooksInv'
<1> SUFFICES ASSUME BooksInv, [StaleNext]_vars PROVE BooksInv'
  OBVIOUS
<1>1. CASE UNCHANGED vars
  BY <1>1 DEF vars, BooksInv, Calling
<1>2. CASE Call
  BY <1>2, CallBooks
<1>3. CASE Advance
  BY <1>3, AdvanceBooks
<1>4. CASE \/ TrimPrepared
           \/ \E key \in Keys, role \in Roles, nbytes \in Sizes, payload \in Payloads :
                 AdmitPrepared(key, role, nbytes, payload)
  BY <1>4, PreparedBooks
<1>5. QED
  BY <1>1, <1>2, <1>3, <1>4 DEF StaleNext, Next

(* The index, its order and the byte counter survive every plan, current   *)
(* or stale, that admit and trim are given, and every failure: removing    *)
(* and inserting entries keeps them without any help from the planner.     *)
THEOREM StalePlansAreBooked == StaleSpec => []StalePlansKeepBooks
<1>1. BooksInv => StalePlansKeepBooks
  BY DEF BooksInv, Coherent, StalePlansKeepBooks
<1>2. QED
  BY <1>1, BooksInit, BooksNext, PTL DEF StaleSpec

-----------------------------------------------------------------------------
(* While no undo fails: what CacheCoordinator promises as long as the      *)
(* backend calls of a rollback do not raise: agreement of policy and       *)
(* backend, calls that happen altogether or not at all, and the            *)
(* transactional cache. The invariant says what each phase of a call has   *)
(* done to the payloads, and that the captured ones suffice to undo it.    *)

IsRecord(p) == p = [f \in DOMAIN p |-> p[f]]

Captured == \A k \in txn.affected : txn.captured[k] = txn.startBackend[k]

Restorable ==
    /\ Held(txn.startBackend) = Resident(policy)
    /\ policy = [txn.startPolicy EXCEPT !.cand = policy.cand]
    /\ txn.phase = "capture" => txn.left = txn.affected
    /\ txn.phase = "remove" =>
          /\ Captured
          /\ \A k \in txn.affected :
                backend[k] = IF k \in txn.left THEN txn.startBackend[k] ELSE None
    /\ txn.phase = "commit" =>
          \A k \in txn.affected :
                backend[k] = IF k = txn.plan.key THEN txn.payload ELSE None
    /\ txn.phase = "undo_remove" =>
          /\ Captured
          /\ \A k \in txn.affected \ txn.left : backend[k] = None
    /\ txn.phase = "undo_restore" =>
          /\ Captured
          /\ \A k \in txn.affected :
                backend[k] = IF k \in txn.left THEN None ELSE txn.startBackend[k]

WithinSequences(S) == IsFiniteSet(S) /\ Cardinality(S) <= MaxSequences

AtomicInv ==
    /\ IsRecord(policy)
    /\ WithinSequences(Held(backend))
    /\ Agreement
    /\ txn # Free => Restorable

-----------------------------------------------------------------------------
(* Record values of policies.                                              *)

(* A committed policy value has the fields of one and no others.           *)
LEMMA CommitRecord ==
    ASSUME NEW p, NEW plan, plan.accepted
    PROVE  IsRecord(Commit(p, plan))
<1> DEFINE removed == RemoveEntries(p, DOMAIN plan.evictions \cup {plan.key})
           stored  == InsertEntry(removed, plan.key, plan.role, plan.nbytes)
<1>1. IsRecord(stored)
  BY DEF InsertEntry, IsRecord
<1> HIDE DEF stored
<1>2. IsRecord([stored EXCEPT !.cand = NoCandidate])
  BY Zenon DEF IsRecord
<1>3. Commit(p, plan) \in {stored, [stored EXCEPT !.cand = NoCandidate]}
  BY DEF Commit, stored
<1>4. QED
  BY <1>1, <1>2, <1>3

(* So has a trimmed one.                                                   *)
LEMMA TrimRecord ==
    ASSUME NEW p, NEW S
    PROVE  IsRecord(CommitTrim(p, S))
BY DEF CommitTrim, RemoveEntries, IsRecord

(* Fewer payloads stay within the limit.                                   *)
LEMMA FewerHeld ==
    ASSUME NEW S, WithinSequences(S), NEW T \in SUBSET S
    PROVE  WithinSequences(T)
<1>1. IsFiniteSet(T) /\ Cardinality(T) <= Cardinality(S)
  BY FS_Subset DEF WithinSequences
<1>2. Cardinality(T) \in Nat /\ Cardinality(S) \in Nat /\ MaxSequences \in Nat
  BY <1>1, FS_CardinalityType, CapacityAssumption DEF WithinSequences
<1>3. QED
  BY <1>1, <1>2 DEF WithinSequences

(* A safe policy has no more entries than payloads may be held.            *)
LEMMA ResidentWithin ==
    ASSUME NEW p, Safe(p)
    PROVE  WithinSequences(Resident(p))
BY DEF Safe, Coherent, WithinLimits, WithinSequences

(* Once the victims are out and the payload in, the backend holds what the *)
(* policy will list.                                                       *)
LEMMA InsertedHeld ==
    ASSUME SafetyInv, AtomicInv, txn.phase = "remove", txn.left = {}, txn.plan # NoPlan
    PROVE  LET inserted == [backend EXCEPT ![txn.plan.key] = txn.payload]
           IN  /\ Held(inserted) = Resident(Commit(policy, txn.plan))
               /\ WithinSequences(Held(inserted))
<1> DEFINE inserted == [backend EXCEPT ![txn.plan.key] = txn.payload]
<1>1. Inside /\ Restorable
  BY DEF SafetyInv, AtomicInv, Free
<1>2. /\ txn.plan.accepted /\ Executable(policy, txn.plan)
      /\ txn.affected = DOMAIN txn.plan.evictions \cup {txn.plan.key}
      /\ txn.payload \in Payloads
  BY <1>1 DEF Inside, Planned
<1>3. Resident(Commit(policy, txn.plan))
         = (Resident(policy) \ DOMAIN txn.plan.evictions) \cup {txn.plan.key}
  BY <1>2, CommitResident DEF SafetyInv, Safe
<1>4. txn.plan.key \in Keys /\ txn.payload # None /\ txn.affected \subseteq Keys
  BY <1>1, <1>2, CoordinatorAssumption DEF Inside, Executable
<1>5. \A k \in Keys : inserted[k] =
         IF k = txn.plan.key THEN txn.payload
         ELSE IF k \in txn.affected THEN None ELSE txn.startBackend[k]
  BY <1>1, <1>4 DEF SafetyInv, Contents, Inside, Restorable
<1>6. Held(inserted) = (Held(txn.startBackend) \ txn.affected) \cup {txn.plan.key}
  BY <1>4, <1>5 DEF Held
<1>7. Held(txn.startBackend) = Resident(policy)
  BY <1>1 DEF Restorable
<1>8. Safe(Commit(policy, txn.plan))
  BY <1>2, CommitSafe DEF SafetyInv, Safe
<1> HIDE DEF inserted
<1>9. (Resident(policy) \ txn.affected) \cup {txn.plan.key}
         = (Resident(policy) \ DOMAIN txn.plan.evictions) \cup {txn.plan.key}
  BY <1>2
<1>10. Held(inserted) = Resident(Commit(policy, txn.plan))
  BY <1>3, <1>6, <1>7, <1>9
<1>11. WithinSequences(Held(inserted))
  BY <1>8, <1>10, ResidentWithin
<1>12. QED
  BY <1>10, <1>11 DEF inserted

-----------------------------------------------------------------------------
(* The invariant that makes calls atomic.                                  *)

(* Writing its own probation state back does not change a policy value.    *)
LEMMA SameRecord ==
    ASSUME NEW p, IsRecord(p), WellTyped(p)
    PROVE  p = [p EXCEPT !.cand = p.cand]
BY Zenon DEF IsRecord, WellTyped

(* At the start both sides are empty and no call runs.                     *)
LEMMA AtomicInit == Init => AtomicInv
<1> SUFFICES ASSUME Init PROVE AtomicInv
  OBVIOUS
<1>1. IsRecord(policy)
  BY DEF Init, EmptyPolicy, IsRecord
<1>2. Held(backend) = {} /\ txn = Free
  BY DEF Init, Held
<1>3. Resident(policy) = {}
  BY DEF Init, EmptyPolicy, Resident
<1>4. WithinSequences({})
  BY FS_EmptySet, CapacityAssumption DEF WithinSequences
<1>5. QED
  BY <1>1, <1>2, <1>3, <1>4 DEF AtomicInv, Agreement

(* A call that enters the lock can be undone: nothing has happened.        *)
LEMMA EnterAtomic ==
    ASSUME NEW phase \in {"capture", "forget"}, NEW plan, NEW payload, NEW affected,
           AtomicInv, txn = Free, UNCHANGED backend,
           IsRecord(policy'), policy' = [policy EXCEPT !.cand = policy'.cand],
           Resident(policy') = Resident(policy),
           Enter(phase, plan, payload, affected, policy')
    PROVE  AtomicInv'
<1>1. /\ DOMAIN txn' = Fields /\ txn'.phase = phase
      /\ txn'.affected = affected /\ txn'.left = affected
      /\ txn'.startPolicy = policy /\ txn'.startBackend = backend
  BY EnteredFields
<1>2. txn' # Free
  BY <1>1 DEF Fields, Free
<1>3. Restorable'
  BY <1>1 DEF Restorable, AtomicInv, Agreement, Held
<1>4. WithinSequences(Held(backend))'
  BY DEF AtomicInv, WithinSequences, Held
<1>5. QED
  BY <1>2, <1>3, <1>4 DEF AtomicInv, Agreement

(* Every call that enters the lock leaves both sides as they are but for   *)
(* the probation state, and so can be undone; one that is refused changes  *)
(* no more than that.                                                      *)
LEMMA CallAtomic == SafetyInv /\ AtomicInv /\ Call => AtomicInv'
<1> SUFFICES ASSUME SafetyInv, AtomicInv, Call PROVE AtomicInv'
  OBVIOUS
<1>0. /\ Coherent(policy) /\ WellTyped(policy) /\ IsRecord(policy)
      /\ WithinLimits(policy) /\ SingleStable(policy)
      /\ policy = [policy EXCEPT !.cand = policy.cand]
  BY SameRecord DEF SafetyInv, Safe, AtomicInv, Coherent
<1>1. ASSUME txn = Free, UNCHANGED <<backend, txn>>, IsRecord(policy'),
             Resident(policy') = Resident(policy)
      PROVE  AtomicInv'
  BY <1>1 DEF AtomicInv, Agreement, Held, WithinSequences
<1>2. ASSUME NEW key \in Keys, NEW role \in AdmitRoles, NEW nbytes \in Sizes,
             NEW predecessor \in Keys \cup {None}, NEW payload \in Payloads,
             AdmitEntry(key, role, nbytes, predecessor, payload)
      PROVE  AtomicInv'
  <2> DEFINE plan == PlanAdmission(policy, key, role, nbytes, predecessor)
  <2>1. /\ policy' = policy /\ UNCHANGED backend /\ txn = Free
        /\ IF plan.accepted
           THEN Enter("capture", plan, payload,
                      DOMAIN plan.evictions \cup {plan.key}, policy')
           ELSE UNCHANGED txn
    BY <1>2 DEF AdmitEntry, Admit
  <2> HIDE DEF plan
  <2>2. QED
    BY <1>0, <1>1, <2>1, EnterAtomic
<1>3. ASSUME NEW key \in Keys, NEW nbytes \in Sizes, NEW payload \in Payloads,
             AdmitStableCandidate(key, nbytes, payload)
      PROVE  AtomicInv'
  <2> DEFINE result == PlanStableCandidate(policy, key, nbytes)
  <2>1. /\ policy' = result.policy /\ UNCHANGED backend /\ txn = Free
        /\ IF result.plan.accepted
           THEN Enter("capture", result.plan, payload,
                      DOMAIN result.plan.evictions \cup {result.plan.key}, policy')
           ELSE UNCHANGED txn
    BY <1>3 DEF AdmitStableCandidate, Admit
  <2>2. nbytes \in Nat
    BY CoordinatorAssumption
  <2>3. \E cand \in CandidateState : result.policy = [policy EXCEPT !.cand = cand]
    <3>1. CandidateOutcome(policy, key, nbytes, result)
      BY <1>0, <2>2, StableCandidateShape
    <3>2. QED
      BY <3>1, Zenon DEF CandidateOutcome
  <2> HIDE DEF result
  <2>4. PICK cand \in CandidateState : policy' = [policy EXCEPT !.cand = cand]
    BY <2>1, <2>3
  <2>5. policy'.entries = policy.entries /\ policy'.cand = cand
    BY <1>0, <2>4, CandidateFields
  <2>6. policy' = [policy EXCEPT !.cand = policy'.cand] /\ IsRecord(policy')
    BY <2>4, <2>5, Zenon DEF IsRecord
  <2>7. Resident(policy') = Resident(policy)
    BY <2>5 DEF Resident
  <2>8. QED
    BY <1>1, <2>1, <2>6, <2>7, EnterAtomic
<1>4. ASSUME NEW target \in TrimTargets, TrimTo(target[1], target[2])
      PROVE  AtomicInv'
  BY <1>0, <1>4, EnterAtomic DEF TrimTo
<1>5. ASSUME NEW keys \in SUBSET Keys, ForgetRemote(keys)
      PROVE  AtomicInv'
  BY <1>0, <1>5, EnterAtomic DEF ForgetRemote
<1>6. ASSUME NEW key \in Keys, ObserveHit(key)
      PROVE  AtomicInv'
  <2>1. /\ policy' = AddHit(policy, key) /\ UNCHANGED <<backend, txn>> /\ txn = Free
    BY <1>6 DEF ObserveHit
  <2>2. IsRecord(policy')
    <3>1. CASE key \in Resident(policy)
      <4>1. policy' = [policy EXCEPT !.entries = [policy.entries EXCEPT ![key] =
                  [policy.entries[key] EXCEPT !.hits = policy.entries[key].hits + 1]]]
        BY <2>1, <3>1 DEF AddHit
      <4>2. QED
        BY <4>1, Zenon DEF IsRecord
    <3>2. QED
      BY <1>0, <2>1, <3>1 DEF AddHit
  <2>3. Resident(policy') = Resident(policy)
    <3>1. DOMAIN policy'.entries = DOMAIN policy.entries
      BY <1>0, <2>1 DEF AddHit, WellTyped
    <3>2. QED
      BY <3>1 DEF Resident
  <2>4. QED
    BY <1>1, <2>1, <2>2, <2>3
<1>7. QED
  BY <1>2, <1>3, <1>4, <1>5, <1>6 DEF Call

(* Inside the lock the transaction has all its fields.                     *)
LEMMA InsideAtomic ==
    ASSUME SafetyInv, AtomicInv, txn.phase # "free"
    PROVE  Inside /\ Restorable
BY PhaseInside DEF AtomicInv, Free

(* A step that stays inside and leaves the policy alone keeps the parts of *)
(* the invariant that are about the policy.                                *)
LEMMA StayAtomic ==
    ASSUME AtomicInv, policy' = policy, txn' # Free,
           WithinSequences(Held(backend')), Restorable'
    PROVE  AtomicInv'
BY DEF AtomicInv, Agreement, Held

(* A call that ends with what the policy lists in the backend.             *)
LEMMA EndAtomic ==
    ASSUME txn' = Free, IsRecord(policy'), Safe(policy'),
           Held(backend') = Resident(policy')
    PROVE  AtomicInv'
BY ResidentWithin DEF AtomicInv, Agreement, Held

\* What a step keeps of the transaction, as the Fields lemmas give it.
Kept ==
    /\ DOMAIN txn' = Fields
    /\ txn'.affected = txn.affected
    /\ txn'.startPolicy = txn.startPolicy
    /\ txn'.startBackend = txn.startBackend

(* Every forward step of a call does to the backend exactly what the phase *)
(* records, so that the captured payloads still undo it.                   *)
LEMMA ForwardAtomic ==
    ASSUME SafetyInv, AtomicInv,
           Capture \/ (\E k \in Keys : Remove(k)) \/ Insert
    PROVE  AtomicInv'
<1>1. Inside /\ Restorable
  BY InsideAtomic DEF Capture, Remove, Insert
<1>2. WithinSequences(Held(backend)) /\ backend \in Contents
  BY DEF AtomicInv, SafetyInv
<1>3. CASE Capture
  <2>1. /\ Kept /\ txn'.phase = "remove" /\ txn'.left = txn.left
        /\ txn'.captured = [k \in txn.affected |-> backend[k]]
    BY <1>1, <1>3, CaptureFields DEF Inside, Kept
  <2>2. UNCHANGED <<policy, backend>> /\ txn.phase = "capture"
    BY <1>3 DEF Capture
  <2>3. txn' # Free
    BY <2>1 DEF Kept, Fields, Free
  <2>4. Restorable'
    BY <1>1, <2>1, <2>2 DEF Inside, Restorable, Kept, Captured, Held
  <2>5. QED
    BY <1>2, <2>2, <2>3, <2>4, StayAtomic
<1>4. ASSUME NEW k \in Keys, Remove(k) PROVE AtomicInv'
  <2>1. /\ txn' = [txn EXCEPT !.left = txn.left \ {k}] /\ k \in txn.left
        /\ backend' = [backend EXCEPT ![k] = None] /\ policy' = policy
        /\ txn.phase = "remove"
    BY <1>4 DEF Remove
  <2>2. /\ Kept /\ txn'.phase = txn.phase /\ txn'.left = txn.left \ {k}
        /\ txn'.captured = txn.captured
    BY <1>1, <2>1, LeftFields DEF Inside, Kept
  <2>3. txn' # Free
    BY <2>2 DEF Kept, Fields, Free
  <2>4. \A j \in Keys : backend'[j] = IF j = k THEN None ELSE backend[j]
    BY <1>2, <2>1 DEF Contents
  <2>5. Held(backend') \subseteq Held(backend)
    BY <2>4 DEF Held
  <2>6. WithinSequences(Held(backend'))
    BY <1>2, <2>5, FewerHeld
  <2>7. Restorable'
    BY <1>1, <2>1, <2>2, <2>4 DEF Inside, Restorable, Kept, Captured, Held
  <2>8. QED
    BY <2>1, <2>3, <2>6, <2>7, StayAtomic
<1>5. CASE Insert
  <2>1. /\ txn' = [txn EXCEPT !.phase = "commit"] /\ txn.plan # NoPlan
        /\ backend' = [backend EXCEPT ![txn.plan.key] = txn.payload]
        /\ policy' = policy /\ txn.phase = "remove" /\ txn.left = {}
    BY <1>5 DEF Insert
  <2>2. /\ Kept /\ txn'.phase = "commit" /\ txn'.left = txn.left
        /\ txn'.plan = txn.plan /\ txn'.payload = txn.payload
    BY <1>1, <2>1, PhaseFields DEF Inside, Kept
  <2>3. txn' # Free
    BY <2>2 DEF Kept, Fields, Free
  <2>4. WithinSequences(Held(backend'))
    BY <2>1, InsertedHeld
  <2>5. \A j \in Keys : backend'[j] = IF j = txn.plan.key THEN txn.payload ELSE backend[j]
    BY <1>2, <2>1 DEF Contents
  <2>6. Restorable'
    BY <1>1, <2>1, <2>2, <2>5 DEF Inside, Restorable, Kept, Held
  <2>7. QED
    BY <2>1, <2>3, <2>4, <2>6, StayAtomic
<1>6. QED
  BY <1>3, <1>4, <1>5

(* At a commit the backend already holds what the policy will list.        *)
LEMMA CommitAtomic == ASSUME SafetyInv, SafetyInv', AtomicInv, CommitPlan PROVE AtomicInv'
<1>1. Inside /\ Restorable
  BY InsideAtomic DEF CommitPlan
<1>2. txn' = Free /\ backend' = backend /\ Safe(policy') /\ backend \in Contents
  BY DEF CommitPlan, SafetyInv
<1>3. Coherent(policy)
  BY DEF SafetyInv, Safe
<1>4. IsRecord(policy') /\ Held(backend) = Resident(policy')
  <2>1. CASE txn.phase = "commit" /\ policy' = Commit(policy, txn.plan)
    <3>1. /\ txn.plan.accepted /\ Executable(policy, txn.plan)
          /\ txn.affected = DOMAIN txn.plan.evictions \cup {txn.plan.key}
          /\ txn.payload \in Payloads /\ txn.plan.key \in Keys
      BY <1>1, <2>1 DEF Inside, Planned, Executable
    <3>2. Resident(policy') = (Resident(policy) \ DOMAIN txn.plan.evictions) \cup {txn.plan.key}
      BY <1>3, <2>1, <3>1, CommitResident
    <3>3. \A k \in Keys : backend[k] =
             IF k = txn.plan.key THEN txn.payload
             ELSE IF k \in txn.affected THEN None ELSE txn.startBackend[k]
      BY <1>1, <2>1, <3>1 DEF Inside, Restorable
    <3>4. Held(backend) = (Held(txn.startBackend) \ txn.affected) \cup {txn.plan.key}
      BY <3>1, <3>3, CoordinatorAssumption DEF Held
    <3>5. IsRecord(policy')
      BY <2>1, <3>1, CommitRecord
    <3>6. Held(txn.startBackend) = Resident(policy)
      BY <1>1 DEF Restorable
    <3>7. (Resident(policy) \ DOMAIN txn.plan.evictions) \cup {txn.plan.key}
             = (Resident(policy) \ txn.affected) \cup {txn.plan.key}
      BY <3>1
    <3>8. QED
      BY <3>2, <3>4, <3>5, <3>6, <3>7
  <2>2. CASE /\ txn.phase = "remove" /\ txn.left = {}
             /\ policy' = CommitTrim(policy, txn.affected)
    <3>1. Resident(policy') = Resident(policy) \ txn.affected
      BY <1>3, <2>2, TrimResident
    <3>2. \A k \in Keys : backend[k] = IF k \in txn.affected THEN None ELSE txn.startBackend[k]
      BY <1>1, <2>2 DEF Inside, Restorable
    <3>3. Held(backend) = Held(txn.startBackend) \ txn.affected
      BY <3>2 DEF Held
    <3>4. IsRecord(policy')
      BY <2>2, TrimRecord
    <3>5. Held(txn.startBackend) = Resident(policy)
      BY <1>1 DEF Restorable
    <3>6. QED
      BY <3>1, <3>3, <3>4, <3>5
  <2>3. QED
    BY <2>1, <2>2 DEF CommitPlan
<1>5. QED
  BY <1>2, <1>4, EndAtomic

(* forget_remote drops a key from both sides in one step.                  *)
LEMMA ForgetAtomic ==
    ASSUME SafetyInv, SafetyInv', AtomicInv, NEW k \in Keys, ForgetKey(k)
    PROVE  AtomicInv'
<1>1. Inside /\ Restorable
  BY InsideAtomic DEF ForgetKey
<1>2. /\ DOMAIN txn' = Fields /\ txn'.phase = "forget"
      /\ txn'.startPolicy = policy' /\ txn'.startBackend = backend'
      /\ txn'.before = policy'
  BY <1>1, ForgetFields DEF Inside
<1>3. /\ txn.phase = "forget"
      /\ backend' = [backend EXCEPT ![k] = None]
      /\ policy' = IF backend[k] # None THEN CommitTrim(policy, {k}) ELSE policy
  BY DEF ForgetKey
<1>4. backend \in Contents /\ Coherent(policy) /\ Safe(policy') /\ IsRecord(policy)
  <2>1. txn' # Free
    BY <1>2 DEF Fields, Free
  <2>2. QED
    BY <2>1 DEF SafetyInv, Safe, AtomicInv
<1>5. Held(backend') = Held(backend) \ {k}
  BY <1>3, <1>4 DEF Held, Contents
<1>6. Held(backend) = Resident(policy)
  BY <1>1, <1>3 DEF Inside, Restorable
<1>7. IsRecord(policy') /\ Held(backend') = Resident(policy')
  <2>1. CASE backend[k] # None
    <3>1. policy' = CommitTrim(policy, {k})
      BY <1>3, <2>1
    <3>2. Resident(policy') = Resident(policy) \ {k}
      BY <1>4, <3>1, RemoveCoherent DEF CommitTrim
    <3>3. IsRecord(policy')
      BY <3>1, TrimRecord
    <3>4. QED
      BY <1>5, <1>6, <3>2, <3>3
  <2>2. CASE backend[k] = None
    <3>1. k \notin Held(backend)
      BY <2>2 DEF Held
    <3>2. QED
      BY <1>3, <1>4, <1>5, <1>6, <2>2, <3>1
  <2>3. QED
    BY <2>1, <2>2
<1>8. policy' = [policy' EXCEPT !.cand = policy'.cand]
  <2>1. WellTyped(policy')
    BY <1>4 DEF Safe, Coherent
  <2>2. QED
    BY <1>7, <2>1, SameRecord
<1>9. Restorable'
  BY <1>2, <1>7, <1>8 DEF Restorable, Held
<1>10. txn' # Free
  BY <1>2 DEF Fields, Free
<1>11. WithinSequences(Held(backend'))
  BY <1>4, <1>7, ResidentWithin
<1>12. QED
  BY <1>7, <1>9, <1>10, <1>11 DEF AtomicInv, Agreement, Held

-----------------------------------------------------------------------------
(* Rolling back.                                                           *)

(* A backend call that raises leaves one affected key in doubt, and the    *)
(* roll back starts from the captured payloads of all of them.             *)
LEMMA FailAtomic ==
    ASSUME SafetyInv, AtomicInv,
           (\E k \in Keys : RemoveFails(k) \/ ForgetFails(k)) \/ InsertFails
    PROVE  AtomicInv'
<1>1. Inside /\ Restorable
  BY InsideAtomic DEF RemoveFails, ForgetFails, InsertFails
<1>2. WithinSequences(Held(backend)) /\ backend \in Contents /\ policy = txn.before
  BY <1>1 DEF AtomicInv, SafetyInv, Inside
<1>3. ASSUME NEW affected \in SUBSET Keys, NEW captured, Undo(affected, captured),
             policy' = policy, WithinSequences(Held(backend')),
             \A k \in affected : captured[k] = txn.startBackend[k]
      PROVE  AtomicInv'
  <2>1. /\ DOMAIN txn' = Fields /\ txn'.phase = "undo_remove"
        /\ txn'.affected = affected /\ txn'.left = affected
        /\ txn'.captured = captured /\ txn'.startPolicy = txn.startPolicy
        /\ txn'.startBackend = txn.startBackend
    BY <1>1, <1>3, UndoFields DEF Inside
  <2>2. txn' # Free
    BY <2>1 DEF Fields, Free
  <2>3. Restorable'
    BY <1>1, <1>3, <2>1 DEF Restorable, Captured, Held
  <2>4. QED
    BY <1>3, <2>2, <2>3, StayAtomic
<1>4. ASSUME NEW k \in Keys, backend' \in Effects(k, None)
      PROVE  WithinSequences(Held(backend'))
  <2>1. Held(backend') \subseteq Held(backend)
    BY <1>2, <1>4 DEF Effects, Held, Contents
  <2>2. QED
    BY <1>2, <2>1, FewerHeld
<1>5. ASSUME NEW k \in Keys, RemoveFails(k) PROVE AtomicInv'
  <2>1. /\ txn.phase = "remove" /\ backend' \in Effects(k, None)
        /\ policy' = policy /\ Undo(txn.affected, txn.captured)
    BY <1>2, <1>5 DEF RemoveFails
  <2>2. \A j \in txn.affected : txn.captured[j] = txn.startBackend[j]
    BY <1>1, <2>1 DEF Restorable, Captured
  <2>3. QED
    BY <1>1, <1>3, <1>4, <2>1, <2>2 DEF Inside
<1>6. CASE InsertFails
  <2>1. /\ txn.phase = "remove" /\ txn.left = {} /\ txn.plan # NoPlan
        /\ backend' \in Effects(txn.plan.key, txn.payload)
        /\ policy' = policy /\ Undo(txn.affected, txn.captured)
    BY <1>2, <1>6 DEF InsertFails
  <2>2. \A j \in txn.affected : txn.captured[j] = txn.startBackend[j]
    BY <1>1, <2>1 DEF Restorable, Captured
  <2>3. WithinSequences(Held(backend'))
    BY <1>2, <2>1, InsertedHeld DEF Effects
  <2>4. QED
    BY <1>1, <1>3, <2>1, <2>2, <2>3 DEF Inside
<1>7. ASSUME NEW k \in Keys, ForgetFails(k) PROVE AtomicInv'
  <2> DEFINE captured == [j \in {k} |-> backend[k]]
  <2>1. /\ txn.phase = "forget" /\ backend' \in Effects(k, None)
        /\ policy' = policy /\ Undo({k}, captured)
    BY <1>2, <1>7 DEF ForgetFails
  <2>2. \A j \in {k} : captured[j] = txn.startBackend[j]
    BY <1>1, <2>1 DEF Inside
  <2> HIDE DEF captured
  <2>3. QED
    BY <1>3, <1>4, <2>1, <2>2
<1>8. QED
  BY <1>5, <1>6, <1>7

(* While no undo fails, the roll back empties the affected keys, then puts *)
(* the captured payloads back, and never holds more than there were.       *)
LEMMA UndoAtomic ==
    ASSUME ~UndoMayFail, SafetyInv, AtomicInv,
           (\E k \in Keys : UndoRemove(k) \/ UndoRestore(k)) \/ UndoTurn
    PROVE  AtomicInv'
<1>1. Inside /\ Restorable
  BY InsideAtomic DEF UndoRemove, UndoRestore, UndoTurn
<1>2. WithinSequences(Held(backend)) /\ backend \in Contents
  BY DEF AtomicInv, SafetyInv
<1>3. ASSUME NEW k \in Keys, UndoRemove(k) PROVE AtomicInv'
  <2>1. /\ txn' = [txn EXCEPT !.left = txn.left \ {k}] /\ k \in txn.left
        /\ backend' = [backend EXCEPT ![k] = None] /\ policy' = policy
        /\ txn.phase = "undo_remove"
    BY <1>3 DEF UndoRemove
  <2>2. /\ Kept /\ txn'.phase = txn.phase /\ txn'.left = txn.left \ {k}
        /\ txn'.captured = txn.captured
    BY <1>1, <2>1, LeftFields DEF Inside, Kept
  <2>3. txn' # Free
    BY <2>2 DEF Kept, Fields, Free
  <2>4. \A j \in Keys : backend'[j] = IF j = k THEN None ELSE backend[j]
    BY <1>2, <2>1 DEF Contents
  <2>5. Held(backend') \subseteq Held(backend)
    BY <2>4 DEF Held
  <2>6. WithinSequences(Held(backend'))
    BY <1>2, <2>5, FewerHeld
  <2>7. Restorable'
    BY <1>1, <2>1, <2>2, <2>4 DEF Inside, Restorable, Kept, Captured, Held
  <2>8. QED
    BY <2>1, <2>3, <2>6, <2>7, StayAtomic
<1>4. CASE UndoTurn
  <2>1. /\ Kept /\ txn'.phase = "undo_restore" /\ txn'.captured = txn.captured
        /\ txn'.left = {k \in txn.affected : txn.captured[k] # None}
    BY <1>1, <1>4, TurnFields DEF Inside, Kept
  <2>2. UNCHANGED <<policy, backend>> /\ txn.phase = "undo_remove" /\ txn.left = {}
    BY <1>4 DEF UndoTurn
  <2>3. txn' # Free
    BY <2>1 DEF Kept, Fields, Free
  <2>4. Restorable'
    BY <1>1, <2>1, <2>2 DEF Inside, Restorable, Kept, Captured, Held
  <2>5. QED
    BY <1>2, <2>2, <2>3, <2>4, StayAtomic
<1>5. ASSUME NEW k \in Keys, UndoRestore(k) PROVE AtomicInv'
  <2>1. /\ txn' = [txn EXCEPT !.left = txn.left \ {k}] /\ k \in txn.left
        /\ backend' = [backend EXCEPT ![k] = txn.captured[k]] /\ policy' = policy
        /\ txn.phase = "undo_restore"
    BY <1>5 DEF UndoRestore
  <2>2. /\ Kept /\ txn'.phase = txn.phase /\ txn'.left = txn.left \ {k}
        /\ txn'.captured = txn.captured
    BY <1>1, <2>1, LeftFields DEF Inside, Kept
  <2>3. txn' # Free
    BY <2>2 DEF Kept, Fields, Free
  <2>4. \A j \in Keys : backend'[j] = IF j = k THEN txn.startBackend[k] ELSE backend[j]
    BY <1>1, <1>2, <2>1 DEF Contents, Inside, Restorable, Captured
  <2>5. Restorable'
    BY <1>1, <2>1, <2>2, <2>4 DEF Inside, Restorable, Kept, Captured, Held
  <2>6. \A j \in Keys : backend'[j] \in {None, txn.startBackend[j]}
    BY <1>1, <2>1, <2>4 DEF Inside, Restorable
  <2>7. Held(backend') \subseteq Resident(policy)
    BY <1>1, <2>6 DEF Held, Restorable
  <2>8. WithinSequences(Held(backend'))
    BY <2>7, FewerHeld, ResidentWithin DEF SafetyInv
  <2>9. QED
    BY <2>1, <2>3, <2>5, <2>8, StayAtomic
<1>6. QED
  BY <1>3, <1>4, <1>5

\* The ends of a call that does not commit.
Withdraw == CaptureFails \/ ForgetDone \/ UndoDone

(* Such a call leaves the payloads it found.                               *)
LEMMA WithdrawRestores ==
    ASSUME SafetyInv, AtomicInv, Withdraw
    PROVE  /\ Inside /\ Restorable
           /\ UNCHANGED <<policy, backend>> /\ txn' = Free
           /\ backend = txn.startBackend
<1>1. Inside /\ Restorable
  BY InsideAtomic DEF Withdraw, CaptureFails, ForgetDone, UndoDone
<1>2. \/ txn.phase \in {"capture", "forget"}
      \/ txn.phase = "undo_restore" /\ txn.left = {}
  BY DEF Withdraw, CaptureFails, ForgetDone, UndoDone
<1>3. backend \in Contents /\ txn.startBackend \in Contents
  BY <1>1 DEF SafetyInv, Inside
<1>4. \A k \in Keys : backend[k] = txn.startBackend[k]
  BY <1>1, <1>2 DEF Inside, Restorable
<1>5. backend = txn.startBackend
  BY <1>3, <1>4 DEF Contents
<1>6. QED
  BY <1>1, <1>5 DEF Withdraw, CaptureFails, ForgetDone, UndoDone

(* Every step of a call keeps it possible to undo the call.                *)
LEMMA AdvanceAtomic ==
    ASSUME ~UndoMayFail, SafetyInv, SafetyInv', AtomicInv, Advance
    PROVE  AtomicInv'
<1>1. ASSUME Withdraw PROVE AtomicInv'
  <2>1. Held(backend') = Resident(policy') /\ txn' = Free
    BY <1>1, WithdrawRestores DEF Restorable, Held
  <2>2. IsRecord(policy') /\ Safe(policy')
    BY <1>1, WithdrawRestores DEF AtomicInv, SafetyInv
  <2>3. QED
    BY <2>1, <2>2, EndAtomic
<1>2. ~ \E k \in Keys : UndoRestoreFails(k)
  BY DEF UndoRestoreFails
<1>3. QED
  BY <1>1, <1>2, ForwardAtomic, CommitAtomic, ForgetAtomic, FailAtomic, UndoAtomic
  DEF Advance, Withdraw

-----------------------------------------------------------------------------
(* The promises.                                                           *)

(* Every step keeps the safety invariant and that of atomicity.            *)
LEMMA AtomicNext ==
    ASSUME ~UndoMayFail, SafetyInv, AtomicInv, [Next]_vars
    PROVE  SafetyInv' /\ AtomicInv'
<1>1. SafetyInv'
  BY SafetyNext
<1>2. CASE UNCHANGED vars
  <2>1. policy' = policy /\ backend' = backend /\ txn' = txn
    BY <1>2 DEF vars
  <2>2. Held(backend') = Held(backend)
    BY <2>1 DEF Held
  <2>3. txn # Free => Restorable'
    BY <2>1 DEF AtomicInv, Restorable, Captured, Held
  <2>4. QED
    BY <1>1, <2>1, <2>2, <2>3 DEF AtomicInv, Agreement
<1>3. CASE Next
  BY <1>1, <1>3, CallAtomic, AdvanceAtomic DEF Next
<1>4. QED
  BY <1>1, <1>2, <1>3

(* While no undo fails, both invariants hold throughout.                   *)
THEOREM AtomicInvariant == ~UndoMayFail => (Spec => [](SafetyInv /\ AtomicInv))
<1> SUFFICES ASSUME ~UndoMayFail PROVE Spec => [](SafetyInv /\ AtomicInv)
  OBVIOUS
<1>1. Init => SafetyInv /\ AtomicInv
  BY SafetyInit, AtomicInit
<1>2. SafetyInv /\ AtomicInv /\ [Next]_vars => SafetyInv' /\ AtomicInv'
  BY AtomicNext
<1>3. QED
  BY <1>1, <1>2, PTL DEF Spec

(* Between calls the policy lists exactly the keys the backend holds,      *)
(* whatever backend calls have raised.                                     *)
THEOREM PolicyAgreesWithBackend == ~UndoMayFail => (Spec => []Agreement)
<1>1. SafetyInv /\ AtomicInv => Agreement
  BY DEF AtomicInv
<1>2. QED
  BY <1>1, AtomicInvariant, PTL

(* The backend never holds more payloads than the policy allows, not even  *)
(* in the middle of an admission or of its rollback.                       *)
THEOREM BackendWithinLimit == ~UndoMayFail => (Spec => []PhysicalBudget)
<1>1. SafetyInv /\ AtomicInv => PhysicalBudget
  BY DEF AtomicInv, WithinSequences, PhysicalBudget
<1>2. QED
  BY <1>1, AtomicInvariant, PTL

(* The steps that end a call are its commit and its withdrawals.           *)
LEMMA EndingSteps ==
    ASSUME ~UndoMayFail, SafetyInv, AtomicInv, [Next]_vars, Ends
    PROVE  CommitPlan \/ Withdraw
<1>1. Inside
  BY DEF Ends, SafetyInv
<1>2. DOMAIN txn' # Fields
  BY DEF Ends, Fields, Free
<1>3. ~UNCHANGED vars /\ ~Call
  BY DEF Ends, vars, Call, AdmitEntry, AdmitStableCandidate, TrimTo, ForgetRemote, ObserveHit
<1>4. ASSUME NEW k \in Keys, Remove(k) \/ UndoRemove(k) \/ UndoRestore(k)
      PROVE  FALSE
  <2>1. txn' = [txn EXCEPT !.left = txn.left \ {k}]
    BY <1>4 DEF Remove, UndoRemove, UndoRestore
  <2>2. QED
    BY <1>1, <1>2, <2>1, LeftFields DEF Inside
<1>5. ~Insert
  BY <1>1, <1>2, PhaseFields DEF Inside, Insert
<1>6. ASSUME NEW k \in Keys, RemoveFails(k) \/ ForgetKey(k) \/ ForgetFails(k)
      PROVE  FALSE
  BY <1>1, <1>2, <1>6, UndoFields, ForgetFields DEF Inside, RemoveFails, ForgetFails
<1>7. ~InsertFails /\ ~UndoTurn /\ ~Capture
  BY <1>1, <1>2, UndoFields, TurnFields, CaptureFields DEF Inside, InsertFails
<1>8. ~ \E k \in Keys : UndoRestoreFails(k)
  BY DEF UndoRestoreFails
<1>9. QED
  BY <1>3, <1>4, <1>5, <1>6, <1>7, <1>8 DEF Next, Advance, Withdraw

(* What a commit leaves in the backend.                                    *)
LEMMA CommittedPayloads ==
    ASSUME SafetyInv, AtomicInv, CommitPlan
    PROVE  /\ Inside /\ txn' = Free /\ backend' = backend
           /\ txn.plan # NoPlan => txn.plan.key \in txn.affected /\ txn.payload \in Payloads
           /\ \A k \in Keys :
                 backend[k] = IF txn.plan # NoPlan /\ k = txn.plan.key THEN txn.payload
                              ELSE IF k \in txn.affected THEN None
                              ELSE txn.startBackend[k]
<1>1. Inside /\ Restorable
  BY InsideAtomic DEF CommitPlan
<1>2. CASE txn.phase = "commit"
  BY <1>1, <1>2 DEF CommitPlan, Inside, Planned, Restorable
<1>3. CASE txn.phase = "remove" /\ txn.left = {} /\ txn.plan = NoPlan
  BY <1>1, <1>3 DEF CommitPlan, Inside, Restorable
<1>4. QED
  BY <1>2, <1>3 DEF CommitPlan

(* A call that returns has done all it planned and nothing else; one that  *)
(* raises leaves entries, order and payloads as they were on entry, and    *)
(* changes of the policy at most the candidate under probation.            *)
THEOREM CallsAreAtomic == ~UndoMayFail => (Spec => AllOrNothing)
<1> SUFFICES ASSUME ~UndoMayFail PROVE Spec => AllOrNothing
  OBVIOUS
<1> DEFINE Done ==
        \A k \in Keys :
            backend'[k] = IF txn.plan # NoPlan /\ k = txn.plan.key THEN txn.payload
                          ELSE IF k \in txn.affected THEN None
                          ELSE txn.startBackend[k]
           Undone ==
        /\ backend' = txn.startBackend
        /\ policy' = [txn.startPolicy EXCEPT !.cand = policy'.cand]
           Whole == Ends => IF CommitPlan THEN Done ELSE Undone
<1>1. SafetyInv /\ AtomicInv /\ CommitPlan => Done
  BY CommittedPayloads
<1>2. SafetyInv /\ AtomicInv /\ Withdraw => Undone
  BY WithdrawRestores DEF Restorable
<1>3. SafetyInv /\ AtomicInv /\ [Next]_vars => Whole
  <2> HIDE DEF Done, Undone
  <2>1. QED
    BY <1>1, <1>2, EndingSteps
<1>4. QED
  BY <1>3, AtomicInvariant, PTL DEF Spec, AllOrNothing

-----------------------------------------------------------------------------
(* The refinement.                                                         *)

View(contents) == [k \in Held(contents) |-> contents[k]]

Base == IF txn = Free THEN backend ELSE txn.startBackend

(* What other callers see is what the last call left, whatever the one     *)
(* that runs has done so far.                                              *)
LEMMA CommittedView == Committed = View(Base) /\ DOMAIN Committed = Held(Base)
BY DEF Committed, View, Base

(* The same of the next state.                                             *)
LEMMA CommittedViewNext == Committed' = View(Base') /\ DOMAIN Committed' = Held(Base')
BY DEF Committed, View, Base, Held

(* Only a commit, and the removal of one key by forget_remote, change what *)
(* other callers can see.                                                  *)
LEMMA VisibleSteps ==
    ASSUME ~UndoMayFail, SafetyInv, AtomicInv, [Next]_vars
    PROVE  CommitPlan \/ (\E k \in Keys : ForgetKey(k)) \/ Base' = Base
<1>1. CASE UNCHANGED vars
  BY <1>1 DEF vars, Base
<1>2. CASE Call
  <2>1. txn = Free /\ UNCHANGED backend
    BY <1>2 DEF Call, AdmitEntry, AdmitStableCandidate, TrimTo, ForgetRemote, ObserveHit, Admit
  <2>2. txn' = txn \/ (txn' # Free /\ txn'.startBackend = backend)
    <3>1. ASSUME NEW phase, NEW plan, NEW payload, NEW affected, NEW planned,
                 Enter(phase, plan, payload, affected, planned)
          PROVE  txn' # Free /\ txn'.startBackend = backend
      BY <3>1, EnteredFields DEF Fields, Free
    <3>2. QED
      BY <1>2, <3>1 DEF Call, AdmitEntry, AdmitStableCandidate, TrimTo, ForgetRemote, ObserveHit, Admit
  <2>3. QED
    BY <2>1, <2>2 DEF Base
<1>3. ASSUME txn # Free, DOMAIN txn' = Fields, txn'.startBackend = txn.startBackend
      PROVE  Base' = Base
  BY <1>3 DEF Base, Fields, Free
<1>4. ASSUME NEW k \in Keys, Remove(k) \/ UndoRemove(k) \/ UndoRestore(k)
      PROVE  Base' = Base
  <2>1. Inside /\ txn # Free
    BY <1>4, InsideAtomic DEF Remove, UndoRemove, UndoRestore, Free
  <2>2. txn' = [txn EXCEPT !.left = txn.left \ {k}]
    BY <1>4 DEF Remove, UndoRemove, UndoRestore
  <2>3. QED
    BY <1>3, <2>1, <2>2, LeftFields DEF Inside
<1>5. CASE Insert
  <2>1. Inside /\ txn # Free
    BY <1>5, InsideAtomic DEF Insert, Free
  <2>2. QED
    BY <1>3, <1>5, <2>1, PhaseFields DEF Inside, Insert
<1>6. ASSUME NEW k \in Keys, RemoveFails(k) \/ ForgetFails(k)
      PROVE  Base' = Base
  <2>1. Inside /\ txn # Free
    BY <1>6, InsideAtomic DEF RemoveFails, ForgetFails, Free
  <2>2. QED
    BY <1>3, <1>6, <2>1, UndoFields DEF Inside, RemoveFails, ForgetFails
<1>7. CASE InsertFails \/ UndoTurn \/ Capture
  <2>1. Inside /\ txn # Free
    BY <1>7, InsideAtomic DEF InsertFails, UndoTurn, Capture, Free
  <2>2. QED
    BY <1>3, <1>7, <2>1, UndoFields, TurnFields, CaptureFields DEF Inside, InsertFails
<1>8. CASE Withdraw
  <2>1. /\ DOMAIN txn = Fields
        /\ txn' = Free /\ backend' = backend /\ backend = txn.startBackend
    BY <1>8, WithdrawRestores DEF Inside
  <2>2. QED
    BY <2>1 DEF Base, Fields, Free
<1>9. ~ \E k \in Keys : UndoRestoreFails(k)
  BY DEF UndoRestoreFails
<1>10. QED
  BY <1>1, <1>2, <1>4, <1>5, <1>6, <1>7, <1>8, <1>9 DEF Next, Advance, Withdraw

(* Dropping payloads from a view.                                          *)
LEMMA DropFromView ==
    ASSUME Base \in Contents, NEW gone \in SUBSET Keys,
           \A k \in Keys : Base'[k] = IF k \in gone THEN None ELSE Base[k]
    PROVE  Abstract!Next
<1> DEFINE evicted == gone \cap Held(Base)
<1>1. Held(Base') = Held(Base) \ evicted
  BY DEF Held
<1>2. View(Base') = [k \in Held(Base) \ evicted |-> View(Base)[k]]
  BY <1>1 DEF View, Held
<1>3. Abstract!Drop(evicted)
  BY <1>2, CommittedView, CommittedViewNext DEF Abstract!Drop
<1>4. evicted \in SUBSET DOMAIN Committed
  BY CommittedView
<1>5. QED
  BY <1>3, <1>4 DEF Abstract!Next

(* Storing a payload in a view.                                            *)
LEMMA StoreInView ==
    ASSUME Base \in Contents, NEW gone \in SUBSET Keys, NEW key \in gone,
           NEW payload \in Payloads, WithinSequences(Held(Base')),
           \A k \in Keys : Base'[k] = IF k = key THEN payload
                                      ELSE IF k \in gone THEN None ELSE Base[k]
    PROVE  Abstract!Next
<1> DEFINE evicted == gone \cap Held(Base)
<1>1. payload # None /\ key \in Keys
  BY CoordinatorAssumption
<1>2. Held(Base') = (Held(Base) \ evicted) \cup {key}
  BY <1>1 DEF Held
<1>3. View(Base') = [k \in (Held(Base) \ evicted) \cup {key} |->
                        IF k = key THEN payload ELSE View(Base)[k]]
  BY <1>1, <1>2 DEF View, Held
<1>4. Abstract!Cardinality(DOMAIN Committed') <= MaxSequences
  <2>1. \A S : Abstract!Cardinality(S) = Cardinality(S)
    BY Zenon DEF Cardinality, Abstract!Cardinality
  <2>2. QED
    BY <2>1, CommittedViewNext DEF WithinSequences
<1>5. Abstract!Store(key, payload, evicted)
  BY <1>3, <1>4, CommittedView, CommittedViewNext DEF Abstract!Store
<1>6. evicted \in SUBSET DOMAIN Committed
  BY CommittedView
<1>7. QED
  BY <1>1, <1>5, <1>6 DEF Abstract!Next

(* Every step is one of the transactional cache or is invisible to it.     *)
LEMMA StepRefines ==
    ASSUME ~UndoMayFail, SafetyInv, AtomicInv, [Next]_vars
    PROVE  Abstract!Next \/ UNCHANGED Committed
<1>1. Base \in Contents
  BY DEF Base, SafetyInv, Inside
<1>2. CASE Base' = Base
  BY <1>2, CommittedView, CommittedViewNext
<1>3. ASSUME NEW k \in Keys, ForgetKey(k) PROVE Abstract!Next
  <2>1. Inside /\ txn.phase = "forget"
    BY <1>3, InsideAtomic DEF ForgetKey
  <2>2. DOMAIN txn' = Fields /\ txn'.startBackend = backend'
    BY <1>3, <2>1, ForgetFields DEF Inside
  <2>3. backend' = [backend EXCEPT ![k] = None] /\ backend = txn.startBackend
    BY <1>3, <2>1 DEF ForgetKey, Inside
  <2>4. Base = backend /\ Base' = backend'
    BY <2>1, <2>2, <2>3 DEF Base, Inside, Fields, Free
  <2>5. \A j \in Keys : Base'[j] = IF j \in {k} THEN None ELSE Base[j]
    BY <1>1, <2>3, <2>4 DEF Contents
  <2>6. QED
    BY <1>1, <2>5, DropFromView
<1>4. CASE CommitPlan
  <2>1. /\ Inside /\ txn' = Free /\ backend' = backend
        /\ txn.plan # NoPlan => txn.plan.key \in txn.affected /\ txn.payload \in Payloads
        /\ \A k \in Keys :
              backend[k] = IF txn.plan # NoPlan /\ k = txn.plan.key THEN txn.payload
                           ELSE IF k \in txn.affected THEN None
                           ELSE txn.startBackend[k]
    BY <1>4, CommittedPayloads
  <2>2. Base = txn.startBackend /\ Base' = backend
    BY <2>1 DEF Base, Inside, Fields, Free
  <2>3. txn.affected \in SUBSET Keys
    BY <2>1 DEF Inside
  <2>4. CASE txn.plan # NoPlan
    <3>1. WithinSequences(Held(Base'))
      BY <2>2 DEF AtomicInv
    <3>2. \A k \in Keys : Base'[k] = IF k = txn.plan.key THEN txn.payload
                                     ELSE IF k \in txn.affected THEN None ELSE Base[k]
      BY <2>1, <2>2, <2>4
    <3>3. QED
      BY <1>1, <2>1, <2>3, <2>4, <3>1, <3>2, StoreInView
  <2>5. CASE txn.plan = NoPlan
    BY <1>1, <2>1, <2>2, <2>3, <2>5, DropFromView
  <2>6. QED
    BY <2>4, <2>5
<1>5. QED
  BY <1>2, <1>3, <1>4, VisibleSteps

(* The coordinator implements the transactional cache: what other callers  *)
(* can see changes in one step per call, or not at all.                    *)
THEOREM ImplementsTransactionalCache == ~UndoMayFail => (Spec => Transactional)
<1> SUFFICES ASSUME ~UndoMayFail PROVE Spec => Transactional
  OBVIOUS
<1>1. Init => Abstract!Init
  <2>1. Init => Held(Base) = {}
    BY DEF Init, Base, Held
  <2>2. QED
    BY <2>1, CommittedView DEF View, Abstract!Init, Abstract!Empty
<1>2. SafetyInv /\ AtomicInv /\ [Next]_vars => [Abstract!Next]_Committed
  BY StepRefines
<1>3. QED
  BY <1>1, <1>2, AtomicInvariant, PTL DEF Spec, Transactional, Abstract!Spec
=============================================================================
