---------------------------- MODULE ManagedCache ----------------------------
(***************************************************************************)
(* LlamaCppStateBraidPromptCache (src/statebraid/adapters/                 *)
(* llama_cpp_managed.py): the working-set policy, the registry that binds  *)
(* keys to handles, and the managed store of a llama.cpp server behind a   *)
(* transport that loses requests and responses.                            *)
(*                                                                         *)
(* The facade is driven by one caller, so one record, call, holds the call *)
(* that runs. The coordinator's transaction touches only local bindings    *)
(* here and is one step; every HTTP exchange is a step of its own. Between *)
(* two exchanges the server may be reloaded, and a request whose client    *)
(* has timed out may still be executed.                                    *)
(***************************************************************************)
EXTENDS PolicyOps

CONSTANTS
    StateBytes, CheckpointBytes, RamLimit, ReadMayFail, \* of the server
    AdmitRoles,   \* the roles callers pass to admit_captured
    TrimTargets,  \* the targets callers pass to trim_to
    SplitCalls,   \* do callers use capture_current and admit_captured apart?
    LateActions,  \* the actions a server may execute after the client gave up
    MaxFaults,    \* bound: exchanges that fail
    MaxHandle,    \* bound: handles given out in an epoch
    MaxEpoch,     \* bound: model loads
    MaxHits,      \* bound: hits counted per entry
    MaxSightings  \* bound: sightings counted per candidate

INSTANCE ManagedServerOps WITH Prompts <- Keys

\* Handles are numbers, and the callers' roles are known to the policy.
ASSUME ManagedAssumption ==
    /\ None \notin Nat
    /\ StateBytes \in [Keys -> Nat \ {0}]
    /\ CheckpointBytes \in [Keys -> Nat]
    /\ AdmitRoles \subseteq Roles
    /\ SplitCalls \in BOOLEAN
    /\ MaxFaults \in Nat
    /\ MaxHandle \in Nat \ {0}

VARIABLES
    server,   \* the managed store
    policy,   \* the WorkingSetPolicy
    pinned,   \* managed_epoch of the adapter
    records,  \* the handle bound to each key, None if none
    pending,  \* _pending_drops
    held,     \* the handle the caller holds for each key, None if none
    call,     \* the call that runs
    late,     \* requests that were given up and may still be executed
    faults,   \* failed exchanges so far
    missed    \* history: handles reclaimed by captures that got no reply

vars == <<server, policy, pinned, records, pending, held, call, late, faults, missed>>

transport == <<late, faults, missed>>

registry == <<policy, pinned, records, pending, held>>

Idle == [phase |-> "idle", key |-> None, stable |-> FALSE, done |-> FALSE,
         handle |-> None, sweeping |-> FALSE, orphans |-> {}, chosen |-> None]

NoBindings == [k \in Keys |-> None]

Init ==
    /\ server = Loaded(1)
    /\ policy = EmptyPolicy
    /\ pinned = 1
    /\ records = NoBindings
    /\ pending = {}
    /\ held = NoBindings
    /\ call = Idle
    /\ late = {}
    /\ faults = 0
    /\ missed = {}

Bound == {records[k] : k \in {j \in Keys : records[j] # None}}

-----------------------------------------------------------------------------
(* The transport.                                                          *)

NoReply == [ok |-> FALSE]

Heard(s, reply, unserved, failures, unknown) ==
    [server |-> s, reply |-> reply, late |-> unserved, faults |-> failures,
     missed |-> missed \cup unknown]

\* _post_managed: the reply, or an exception when the request or the response
\* is lost, the server refuses or reports another epoch.
Exchanges(request) ==
    LET outcomes == Execute(server, request)
        reclaimed(o) == IF request.action # "capture" THEN {}
                        ELSE Handles(server) \ Handles(o.server)
        untold(o) == IF o.reply.ok THEN {} ELSE reclaimed(o)
        unserved == IF request.action \in LateActions THEN {late \cup {request}} ELSE {}
    IN  {Heard(o.server, o.reply, late, faults, untold(o)) : o \in outcomes}
        \cup (IF faults = MaxFaults THEN {}
              ELSE {Heard(server, NoReply, l, faults + 1, {}) : l \in {late} \cup unserved}
                   \cup {Heard(o.server, NoReply, late, faults + 1, reclaimed(o)) :
                            o \in outcomes})

Take(heard) ==
    /\ server' = heard.server
    /\ late' = heard.late
    /\ faults' = heard.faults
    /\ missed' = heard.missed

\* _read_store: whether the store could be read under the pinned epoch.
Readings ==
    {[ok |-> server.epoch = pinned, faults |-> faults]}
    \cup (IF faults = MaxFaults THEN {} ELSE {[ok |-> FALSE, faults |-> faults + 1]})

-----------------------------------------------------------------------------
(* drop_state and flush_drops.                                             *)

\* Mutant: a drop is repeated until the server accepts it.
DropHandleRetries(h) ==
    \E heard \in Exchanges([action |-> "drop", epoch |-> pinned, handle |-> h]) :
        /\ Take(heard)
        /\ IF heard.reply.ok
           THEN /\ pending' = pending \ {h}
                /\ call' = [call EXCEPT !.orphans = @ \ {h}]
           ELSE UNCHANGED <<pending, call>>

\* drop_state raises in a flush, or in a sweep: either way the call ends.
DropHandle(h) ==
    \E heard \in Exchanges([action |-> "drop", epoch |-> pinned, handle |-> h]) :
        /\ Take(heard)
        /\ IF heard.reply.ok
           THEN /\ pending' = pending \ {h}
                /\ call' = [call EXCEPT !.orphans = @ \ {h}]
           ELSE /\ call' = [call EXCEPT !.phase = "confirm", !.handle = h]
                /\ UNCHANGED pending

FlushDrop(h) ==
    /\ call.phase = "flush"
    /\ h \in pending
    /\ IF h \in Bound
       THEN pending' = pending \ {h} /\ UNCHANGED <<server, call, transport>>
       ELSE DropHandle(h)
    /\ UNCHANGED <<policy, pinned, records, held>>

\* A drop whose handle is gone from the store has succeeded.
Confirm ==
    /\ call.phase = "confirm"
    /\ \E reading \in Readings :
          /\ faults' = reading.faults
          /\ IF reading.ok /\ call.handle \notin Handles(server)
             THEN /\ pending' = pending \ {call.handle}
                  /\ call' = [call EXCEPT !.orphans = @ \ {call.handle}, !.handle = None,
                                          !.phase = IF call.sweeping THEN "sweep" ELSE "flush"]
             ELSE call' = Idle /\ UNCHANGED pending
    /\ UNCHANGED <<server, policy, pinned, records, held, late, missed>>

FlushDone ==
    /\ call.phase = "flush"
    /\ pending = {}
    /\ call' = IF call.done THEN Idle ELSE [call EXCEPT !.phase = "capture"]
    /\ UNCHANGED <<server, transport, registry>>

-----------------------------------------------------------------------------
(* capture_current and reconcile_orphaned_handles.                         *)

\* Mutant: unresolved drops do not stop a capture.
StartCaptureAnyway(key, stable) ==
    /\ call = Idle
    /\ held[key] = None
    /\ server.next <= MaxHandle
    /\ call' = [Idle EXCEPT !.key = key, !.stable = stable, !.phase = "capture"]
    /\ UNCHANGED <<server, transport, registry>>

\* Unresolved drops are flushed before anything is captured. Callers admit a
\* handle before they capture its key again.
StartCapture(key, stable) ==
    /\ call = Idle
    /\ held[key] = None
    /\ server.next <= MaxHandle
    /\ call' = [Idle EXCEPT !.key = key, !.stable = stable,
                            !.phase = IF pending = {} THEN "capture" ELSE "flush"]
    /\ UNCHANGED <<server, transport, registry>>

\* Mutant: the eviction notices are not read.
NoneForgotten(evicted) == {}

\* The keys whose handles the server reclaimed.
Forgotten(evicted) == {k \in Keys : records[k] \in evicted}

\* What the server reclaimed is forgotten at once, with nothing to flush.
CaptureSlot ==
    /\ call.phase = "capture"
    /\ \E heard \in Exchanges([action |-> "capture", epoch |-> pinned, prompt |-> call.key]) :
          /\ Take(heard)
          /\ IF heard.reply.ok
             THEN LET gone == Forgotten(heard.reply.evicted)
                  IN  /\ policy' = CommitTrim(policy, gone)
                      /\ records' = [k \in Keys |-> IF k \in gone THEN None ELSE records[k]]
                      /\ held' = [held EXCEPT ![call.key] = heard.reply.handle]
                      /\ call' = IF SplitCalls /\ ~call.stable THEN Idle
                                 ELSE [call EXCEPT !.phase = "admit"]
             ELSE /\ call' = [call EXCEPT !.phase = "reconcile"]
                  /\ UNCHANGED <<policy, records, held>>
    /\ UNCHANGED <<pinned, pending>>

ReconcileOrphans ==
    /\ call = Idle
    /\ call' = [Idle EXCEPT !.phase = "reconcile"]
    /\ UNCHANGED <<server, transport, registry>>

\* Mutants: bound handles count as unknown, and nothing new does.
UnknownToPending == Handles(server) \ pending

UnknownAwaitingDrop == Handles(server) \cap pending

\* The handles of the store that the registry does not know.
Unknown == Handles(server) \ (Bound \cup pending)

Reconcile ==
    /\ call.phase = "reconcile"
    /\ \E reading \in Readings :
          /\ faults' = reading.faults
          /\ call' = IF reading.ok
                     THEN [call EXCEPT !.phase = "sweep", !.sweeping = TRUE, !.orphans = Unknown]
                     ELSE Idle
    /\ UNCHANGED <<server, late, missed, registry>>

SweepDrop(h) ==
    /\ call.phase = "sweep"
    /\ h \in call.orphans
    /\ DropHandle(h)
    /\ UNCHANGED <<policy, pinned, records, held>>

SweepDone ==
    /\ call.phase = "sweep"
    /\ call.orphans = {}
    /\ call' = Idle
    /\ UNCHANGED <<server, transport, registry>>

-----------------------------------------------------------------------------
(* Admission and trim: one local transaction, then the flush in `finally'. *)

\* Mutant: the bindings stay.
UnbindLazily(S) ==
    /\ pending' = pending \cup {records[k] : k \in {j \in S : records[j] # None}}
    /\ UNCHANGED records

\* remove unbinds a handle and queues its drop, for every key of S.
Unbind(S) ==
    /\ pending' = pending \cup {records[k] : k \in {j \in S : records[j] # None}}
    /\ records' = [k \in Keys |-> IF k \in S THEN None ELSE records[k]]

ThenFlush == call' = [Idle EXCEPT !.phase = "flush", !.done = TRUE]

\* The coordinator's admit on the registry; discard_unbound when it refuses.
Bind(key, plan, planned) ==
    LET handle == held[key]
        victims == DOMAIN plan.evictions \cup {key}
        released == {records[k] : k \in {j \in victims : records[j] # None}}
    IN  /\ policy' = Commit(planned, plan)
        /\ IF plan.accepted
           THEN /\ records' = [k \in Keys |-> IF k = key THEN handle
                                              ELSE IF k \in victims THEN None ELSE records[k]]
                /\ pending' = (pending \cup released) \ {handle}
           ELSE /\ pending' = pending \cup {handle}
                /\ UNCHANGED records
        /\ held' = [held EXCEPT ![key] = None]
        /\ ThenFlush
        /\ UNCHANGED <<server, pinned, transport>>

\* The second half of capture_and_admit, or a call of its own.
AdmitCaptured(key, role, predecessor) ==
    /\ held[key] # None
    /\ \/ SplitCalls /\ call = Idle
       \/ call.phase = "admit" /\ call.key = key /\ ~call.stable
    /\ Bind(key, PlanAdmission(policy, key, role, PayloadBytes(key), predecessor), policy)

\* The second half of capture_stable_candidate.
AdmitStableCandidate ==
    /\ call.phase = "admit"
    /\ call.stable
    /\ LET result == PlanStableCandidate(policy, call.key, PayloadBytes(call.key))
       IN  Bind(call.key, result.plan, result.policy)

TrimTo(targetSequences, targetBytes) ==
    LET evicted == PlanTrim(policy, targetSequences, targetBytes)
    IN  /\ call = Idle
        /\ policy' = CommitTrim(policy, evicted)
        /\ Unbind(evicted)
        /\ ThenFlush
        /\ UNCHANGED <<server, pinned, held, transport>>

-----------------------------------------------------------------------------
(* lookup.                                                                 *)

\* _token_lcp
Lcp(left, right) ==
    Cardinality({n \in DOMAIN left.tokens \cap DOMAIN right.tokens :
                    \A i \in 1 .. n : left.tokens[i] = right.tokens[i]})

Lookup(prompt) ==
    /\ call = Idle
    /\ \A k \in Resident(policy) : policy.entries[k].hits < MaxHits
    /\ call' = [Idle EXCEPT !.phase = "clear", !.key = prompt]
    /\ UNCHANGED <<server, transport, registry>>

\* Mutant: the live slot is left as it is.
LeaveLiveSlot ==
    /\ call.phase = "clear"
    /\ call' = [call EXCEPT !.phase = "select"]
    /\ UNCHANGED <<server, transport, registry>>

ClearLiveSlot ==
    /\ call.phase = "clear"
    /\ \E heard \in Exchanges([action |-> "clear", epoch |-> pinned]) :
          /\ Take(heard)
          /\ call' = IF heard.reply.ok THEN [call EXCEPT !.phase = "select"] ELSE Idle
    /\ UNCHANGED registry

\* The longest common prefix wins, then a key that is wholly a prefix, then
\* the smaller state; ties fall to the order of a dictionary.
Better(j, k) ==
    LET whole(key) == Lcp(key, call.key) = Length(key)
        bytes(key) == policy.entries[key].nbytes
    IN  \/ Lcp(j, call.key) > Lcp(k, call.key)
        \/ /\ Lcp(j, call.key) = Lcp(k, call.key)
           /\ \/ whole(j) /\ ~whole(k)
              \/ (whole(j) <=> whole(k)) /\ bytes(j) < bytes(k)

Candidates ==
    {k \in Resident(policy) : k.namespace = call.key.namespace /\ Lcp(k, call.key) > 0}

Select ==
    /\ call.phase = "select"
    /\ \/ /\ Candidates = {}
          /\ call' = [call EXCEPT !.phase = "probe"]
       \/ \E k \in Candidates :
             /\ \A j \in Candidates : ~Better(j, k)
             /\ call' = [call EXCEPT !.phase = "restore", !.chosen = k]
    /\ UNCHANGED <<server, transport, registry>>

RestoreLive ==
    /\ call.phase = "restore"
    /\ \E heard \in Exchanges([action |-> "restore", epoch |-> pinned,
                               handle |-> records[call.chosen]]) :
          /\ Take(heard)
          /\ call' = IF heard.reply.ok THEN [call EXCEPT !.phase = "probe"] ELSE Idle
    /\ UNCHANGED registry

\* external: a completion reuses any part of what its prompt shares with the
\* slot, but always evaluates its last token.
Reuses ==
    {n \in 0 .. Length(call.key) - 1 : server.slot # None /\ n <= Lcp(server.slot, call.key)}
    \cup {0}

\* Reuse without a selection, or beyond it, raises and is not credited.
Probe ==
    /\ call.phase = "probe"
    /\ \E reused \in Reuses :
          /\ server' = Completed(server, call.key)
          /\ policy' = IF call.chosen # None /\ reused \in 1 .. Lcp(call.chosen, call.key)
                       THEN AddHit(policy, call.chosen) ELSE policy
    /\ call' = Idle
    /\ UNCHANGED <<pinned, records, pending, held, transport>>

ProbeFails ==
    /\ call.phase = "probe"
    /\ faults < MaxFaults
    /\ faults' = faults + 1
    /\ server' \in {server, Completed(server, call.key)}
    /\ call' = Idle
    /\ UNCHANGED <<late, missed, registry>>

-----------------------------------------------------------------------------
(* The environment.                                                        *)

\* external: the application generates on the slot.
Generate(prompt) ==
    /\ call = Idle
    /\ server' = Completed(server, prompt)
    /\ UNCHANGED <<call, transport, registry>>

Load ==
    /\ server.epoch < MaxEpoch
    /\ server' = Loaded(server.epoch + 1)
    /\ missed' = {}
    /\ UNCHANGED <<call, late, faults, registry>>

RunLate(request) ==
    /\ request.action = "capture" => server.next < MaxHandle
    /\ late' = late \ {request}
    /\ \E outcome \in Execute(server, request) :
          /\ server' = outcome.server
          /\ missed' = IF request.action = "capture"
                       THEN missed \cup (Handles(server) \ Handles(outcome.server))
                       ELSE missed
    /\ UNCHANGED <<call, faults, registry>>

\* A new facade, which refuses a store that is not empty.
Connect ==
    /\ call = Idle
    /\ Handles(server) = {}
    /\ policy' = EmptyPolicy
    /\ pinned' = server.epoch
    /\ records' = NoBindings
    /\ pending' = {}
    /\ held' = NoBindings
    /\ UNCHANGED <<server, call, transport>>

-----------------------------------------------------------------------------

Start ==
    \/ \E key \in Keys, stable \in BOOLEAN :
          /\ stable => policy.cand.count < MaxSightings
          /\ StartCapture(key, stable)
    \/ ReconcileOrphans
    \/ \E target \in TrimTargets : TrimTo(target[1], target[2])
    \/ \E prompt \in Keys : Lookup(prompt)

Admission ==
    \E key \in Keys, role \in AdmitRoles, predecessor \in Keys \cup {None} :
        AdmitCaptured(key, role, predecessor)

\* A step of the call that runs.
Advance ==
    \/ \E h \in pending : FlushDrop(h)
    \/ Confirm
    \/ FlushDone
    \/ CaptureSlot
    \/ Reconcile
    \/ \E h \in call.orphans : SweepDrop(h)
    \/ SweepDone
    \/ call.phase = "admit" /\ Admission
    \/ AdmitStableCandidate
    \/ ClearLiveSlot
    \/ Select
    \/ RestoreLive
    \/ Probe
    \/ ProbeFails

Environment ==
    \/ \E prompt \in Keys : Generate(prompt)
    \/ Load
    \/ \E request \in late : RunLate(request)
    \/ Connect

Next == Start \/ (call = Idle /\ Admission) \/ Advance \/ Environment

\* A call that runs keeps running: every exchange ends, by a reply or by the
\* client's timeout.
Fairness == WF_vars(Advance)

Spec == Init /\ [][Next]_vars /\ Fairness

-----------------------------------------------------------------------------
(* Properties.                                                             *)

Ids == 1 .. MaxHandle

(* Types, and a well-formed policy value in every phase of a call.         *)
TypeOK ==
    /\ WellTyped(policy)
    /\ Handles(server) \subseteq Ids
    /\ pinned \in 1 .. server.epoch
    /\ records \in [Keys -> Ids \cup {None}]
    /\ pending \subseteq Ids
    /\ held \in [Keys -> Ids \cup {None}]
    /\ call.orphans \subseteq Ids
    /\ call.chosen \in Resident(policy) \cup {None}
    /\ faults \in 0 .. MaxFaults

(* The registry binds exactly the keys the policy lists, and the policy    *)
(* charges each of them what the server charges.                           *)
Agreement ==
    \A k \in Keys :
        /\ records[k] # None <=> k \in Resident(policy)
        /\ k \in Resident(policy) => policy.entries[k].nbytes = PayloadBytes(k)

HeldHandles == {held[k] : k \in {j \in Keys : held[j] # None}}

(* A handle has one owner: it is bound to one key, which the policy lists, *)
(* or held by the caller, or awaits its drop, so that no flush can drop a  *)
(* state in use.                                                           *)
SingleOwner ==
    /\ Agreement
    /\ \A j, k \in Keys : records[j] = records[k] /\ records[j] # None => j = k
    /\ \A j, k \in Keys : held[j] = held[k] /\ held[j] # None => j = k
    /\ Bound \cap pending = {}
    /\ Bound \cap HeldHandles = {}
    /\ HeldHandles \cap pending = {}

(* Every bound handle is in the store and holds the very prompt of its     *)
(* key: a restore finds its state, and never another key's. What the       *)
(* server reclaimed is forgotten at once, unless the capture that took it  *)
(* got no reply.                                                           *)
BindingsLive ==
    pinned = server.epoch =>
        \A k \in Keys : records[k] \notin missed \cup {None} =>
            /\ records[k] \in Handles(server)
            /\ server.states[records[k]].prompt = k

(* Whatever is lost, delayed, reclaimed or reloaded, a bound handle never  *)
(* comes to mean another prompt: a restore fails, or restores the key's    *)
(* own state.                                                              *)
AuthenticBindings ==
    pinned = server.epoch =>
        \A k \in Keys : records[k] \in Handles(server) =>
            server.states[records[k]].prompt = k

Owned == Bound \cup pending \cup HeldHandles

(* The states in the store stay within the working set and the one being   *)
(* admitted: drops that fail are made up for before anything else is       *)
(* captured. Each state beyond that has cost two failures, a capture that  *)
(* got no reply and the clean-up after it.                                 *)
PhysicalBudget ==
    pinned = server.epoch =>
        2 * Cardinality(Handles(server)) <= 2 * (MaxSequences + 1) + faults

(* No single failure leaks a state: behind every handle nobody accounts    *)
(* for there is a lost capture and a clean-up that failed as well.         *)
LeaksNeedTwoFaults ==
    call = Idle /\ pinned = server.epoch =>
        2 * Cardinality(Handles(server) \ Owned) <= faults

(* What completes on the slot is what was selected: at the probe the slot  *)
(* holds the chosen key's state or nothing, never a left-over prompt.      *)
SlotIsSelected == call.phase = "probe" => server.slot \in {None, call.chosen}

(* After a reload a facade pinned to an earlier epoch leaves nothing in    *)
(* the new store, nor does any of its requests that arrives late.          *)
StaleFacadeHarmless == pinned # server.epoch => Handles(server) = {}

Promised ==
    INSTANCE HandleStore WITH
        Prompts <- Keys,
        epoch   <- server.epoch,
        kept    <- [h \in Handles(server) |-> server.states[h].prompt],
        given   <- 1 .. server.next - 1,
        slot    <- server.slot

(* The store under the facade is the store its clients are promised, with  *)
(* exchanges lost, requests executed late and the server reloaded.         *)
ServedByHandleStore == Promised!Spec

(* A sweep that ends leaves the store with the registry's handles, and at  *)
(* most those that await their drop; what the registry binds beyond the    *)
(* store is what it was never told of.                                     *)
SweepSettles ==
    [][SweepDone /\ pinned = server.epoch
          => /\ Bound' \subseteq Handles(server') \cup missed'
             /\ Handles(server') \subseteq Bound' \cup pending']_vars

\* The exchanges and local steps a call may still take; more of them follow
\* what is left to drop than what comes after it.
StepsLeft ==
    LET drops == 2 * Cardinality(IF call.sweeping THEN call.orphans ELSE pending)
    IN  CASE call = Idle               -> 0
          [] call.phase = "probe"      -> 1
          [] call.phase = "restore"    -> 2
          [] call.phase = "select"     -> 3
          [] call.phase = "clear"      -> 4
          [] call.phase = "sweep"      -> 1 + drops
          [] call.phase = "reconcile"  -> 2 + 2 * MaxHandle
          [] call.phase = "admit"      -> 2 + 2 * MaxHandle
          [] call.phase = "capture"    -> 3 + 2 * MaxHandle
          [] call.phase = "flush"      ->
                 1 + drops + (IF call.done THEN 0 ELSE 3 + 2 * MaxHandle)
          [] call.phase = "confirm"    ->
                 drops + (IF call.sweeping \/ call.done THEN 0 ELSE 3 + 2 * MaxHandle)

(* No call goes round in circles: whatever fails in it, each of its steps  *)
(* leaves it fewer to take, and nothing else touches what it has left. A   *)
(* call has at most 4 steps for each handle there can be, and 4 more.      *)
CallsShorten ==
    [][call # Idle =>
          /\ StepsLeft <= 4 * MaxHandle + 4
          /\ Advance => StepsLeft' < StepsLeft
          /\ ~Advance => UNCHANGED <<call, pending>>]_vars

(* Every call ends, whatever exchanges fail in it and whenever the server  *)
(* is reloaded.                                                            *)
CallsReturn == call # Idle ~> call = Idle

-----------------------------------------------------------------------------
(* Assertions the code does not live up to.                                *)

(* test_lost_capture_response_retires_orphan_automatically asserts after   *)
(* the clean-up that follows a lost response:                              *)
(* "cache.backend.assert_physical_matches_registry()". A sweep that ends   *)
(* with no drop left leaves the very handles of the registry.              *)
SweepMatchesRegistry ==
    [][SweepDone /\ pinned = server.epoch /\ pending = {}
          => Handles(server') = Bound']_vars

(* capture_current says of its flush: "This keeps a cleanup failure from   *)
(* silently expanding the backend beyond the logical working-set budget."  *)
(* It keeps failed drops from doing so, which stay in the queue; of a      *)
(* failed clean-up after a lost capture nothing stays.                     *)
CleanupKeepsBudget ==
    pinned = server.epoch => Cardinality(Handles(server)) <= MaxSequences + 1
=============================================================================
