-------------------------- MODULE ManagedCacheProofs --------------------------
(***************************************************************************)
(* The managed cache of ManagedCache, for every set of keys, every         *)
(* capacity and every size of states: types, ownership of handles, what a  *)
(* bound handle holds, the physical budget, leaks, the live slot and stale *)
(* facades, whatever exchanges are lost, however late requests arrive and  *)
(* whenever the server is reloaded.                                        *)
(***************************************************************************)
EXTENDS ManagedCache, PolicyOpsProofs

-----------------------------------------------------------------------------
(* Server values.                                                          *)

State == [prompt : Keys, restored : BOOLEAN]

Proper(s) ==
    /\ DOMAIN s = {"epoch", "states", "next", "slot"}
    /\ s.epoch \in Nat
    /\ s.next \in Nat \ {0}
    /\ Handles(s) \subseteq 1 .. s.next - 1
    /\ s.states \in [Handles(s) -> State]
    /\ s.slot \in Keys \cup {None}

\* What an exchange may make of a server value, answered or not.
Effect(s, t, request) ==
    /\ Proper(t)
    /\ t.epoch = s.epoch
    /\ request.epoch # s.epoch => t = s
    /\ t.next \in {s.next, s.next + 1}
    /\ t.next # s.next =>
          /\ request.action = "capture"
          /\ s.next \in Handles(t)
          /\ t.states[s.next].prompt = request.prompt
          /\ request.prompt = s.slot /\ s.slot # None
    /\ Handles(t) \subseteq Handles(s) \cup {h \in {s.next} : t.next # s.next}
    /\ \A h \in Handles(s) \cap Handles(t) : t.states[h].prompt = s.states[h].prompt
    /\ request.action = "drop" => Handles(s) \ {request.handle} \subseteq Handles(t)
    /\ request.action \in {"clear", "restore"} => Handles(t) = Handles(s)
    /\ request.action \in {"capture", "drop"} => t.slot = s.slot
    /\ request.action = "clear" => t.slot \in {s.slot, None}

\* What an answer tells.
Answered(s, t, request, reply) ==
    /\ request.epoch = s.epoch
    /\ request.action = "clear" => t.slot = None
    /\ request.action = "drop" => request.handle \notin Handles(t)
    /\ request.action = "capture" =>
          /\ reply.handle = s.next
          /\ t.next = s.next + 1
          /\ reply.evicted = Handles(s) \ Handles(t)
    /\ request.action = "restore" =>
          request.handle \in Handles(s) /\ t.slot = s.states[request.handle].prompt

\* What a refusal of a request of the same epoch tells.
Declined(s, t, request) ==
    /\ request.action = "capture" => t.next = s.next
    /\ request.action = "drop" => request.handle \notin Handles(t)

(* A store that does not change is a possible effect of any request.       *)
LEMMA SameEffect ==
    ASSUME NEW s, Proper(s), NEW request
    PROVE  Effect(s, s, request)
BY DEF Effect, Proper

(* A change of the slot alone.                                             *)
LEMMA SlotFields ==
    ASSUME NEW s, Proper(s), NEW slot \in Keys \cup {None}
    PROVE  LET t == [s EXCEPT !.slot = slot]
           IN  /\ Proper(t)
               /\ t.epoch = s.epoch /\ t.next = s.next
               /\ t.states = s.states /\ Handles(t) = Handles(s)
               /\ t.slot = slot
<1> DEFINE t == [s EXCEPT !.slot = slot]
<1>1. /\ DOMAIN t = {"epoch", "states", "next", "slot"}
      /\ t.epoch = s.epoch /\ t.states = s.states /\ t.next = s.next /\ t.slot = slot
  BY DEF Proper
<1> HIDE DEF t
<1>2. Handles(t) = Handles(s)
  BY <1>1 DEF Handles
<1>3. Proper(t)
  BY <1>1, <1>2 DEF Proper
<1>4. QED
  BY <1>1, <1>2, <1>3 DEF t

(* Handles taken out, and nothing else.                                    *)
LEMMA WithoutFields ==
    ASSUME NEW s, Proper(s), NEW H
    PROVE  LET t == Without(s, H)
           IN  /\ Proper(t)
               /\ t.epoch = s.epoch /\ t.next = s.next /\ t.slot = s.slot
               /\ Handles(t) = Handles(s) \ H
               /\ \A h \in Handles(t) : t.states[h] = s.states[h]
<1> DEFINE t == Without(s, H)
<1>1. /\ DOMAIN t = {"epoch", "states", "next", "slot"}
      /\ t.states = [h \in Handles(s) \ H |-> s.states[h]]
      /\ t.epoch = s.epoch /\ t.next = s.next /\ t.slot = s.slot
  BY DEF Without, Proper
<1> HIDE DEF t
<1>2. Handles(t) = Handles(s) \ H /\ \A h \in Handles(t) : t.states[h] = s.states[h]
  BY <1>1 DEF Handles
<1>3. t.states \in [Handles(t) -> State]
  BY <1>1, <1>2 DEF Proper
<1>4. Proper(t)
  BY <1>1, <1>2, <1>3 DEF Proper
<1>5. QED
  BY <1>1, <1>2, <1>4 DEF t

(* A new state goes under the next handle.                                 *)
LEMMA StoredFields ==
    ASSUME NEW s, Proper(s), NEW prompt \in Keys
    PROVE  LET t == Stored(s, prompt)
           IN  /\ Proper(t)
               /\ t.epoch = s.epoch /\ t.next = s.next + 1 /\ t.slot = s.slot
               /\ Handles(t) = Handles(s) \cup {s.next} /\ s.next \notin Handles(s)
               /\ \A h \in Handles(s) : t.states[h] = s.states[h]
               /\ t.states[s.next].prompt = prompt
<1> DEFINE t   == Stored(s, prompt)
           new == [prompt |-> prompt, restored |-> FALSE]
<1>1. s.next \in Nat /\ s.next \notin Handles(s)
  BY DEF Proper
<1>2. /\ DOMAIN t = {"epoch", "states", "next", "slot"}
      /\ t.epoch = s.epoch /\ t.next = s.next + 1 /\ t.slot = s.slot
      /\ t.states = [h \in Handles(s) \cup {s.next} |->
                        IF h = s.next THEN new ELSE s.states[h]]
  BY DEF Stored, Proper
<1> HIDE DEF t
<1>3. /\ Handles(t) = Handles(s) \cup {s.next}
      /\ \A h \in Handles(s) : t.states[h] = s.states[h]
      /\ t.states[s.next] = new
  BY <1>1, <1>2 DEF Handles
<1>4. t.states \in [Handles(t) -> State]
  <2>1. new \in State
    BY DEF State
  <2> HIDE DEF new
  <2>2. t.states = [h \in Handles(t) |-> IF h = s.next THEN new ELSE s.states[h]]
    BY <1>2, <1>3
  <2>3. \A h \in Handles(s) : s.states[h] \in State
    BY DEF Proper
  <2>4. \A h \in Handles(t) : (IF h = s.next THEN new ELSE s.states[h]) \in State
    BY <1>3, <2>1, <2>3
  <2>5. QED
    BY <2>2, <2>4
<1>5. Handles(t) \subseteq 1 .. t.next - 1 /\ t.next \in Nat \ {0}
  BY <1>1, <1>2, <1>3 DEF Proper
<1>6. Proper(t)
  BY <1>2, <1>4, <1>5 DEF Proper
<1>7. QED
  BY <1>1, <1>2, <1>3, <1>6 DEF t

(* A clear empties the slot.                                               *)
LEMMA ClearEffect ==
    ASSUME NEW s, Proper(s), NEW request, request.action = "clear",
           request.epoch = s.epoch, NEW outcome \in ClearOutcomes(s)
    PROVE  /\ Effect(s, outcome.server, request)
           /\ outcome.reply.ok = TRUE
           /\ Answered(s, outcome.server, request, outcome.reply)
<1> DEFINE t == [s EXCEPT !.slot = None]
<1>1. outcome.server = t /\ outcome.reply.ok = TRUE
  BY DEF ClearOutcomes, Accept
<1>2. /\ Proper(t) /\ t.epoch = s.epoch /\ t.next = s.next
      /\ t.states = s.states /\ Handles(t) = Handles(s) /\ t.slot = None
  BY SlotFields
<1> HIDE DEF t
<1>3. QED
  BY <1>1, <1>2 DEF Effect, Answered

(* A drop takes its handle out, or is refused since it is not there.       *)
LEMMA DropEffect ==
    ASSUME NEW s, Proper(s), NEW request, request.action = "drop",
           request.epoch = s.epoch, NEW outcome \in DropOutcomes(s, request.handle)
    PROVE  /\ Effect(s, outcome.server, request)
           /\ outcome.reply.ok \in BOOLEAN
           /\ outcome.reply.ok => Answered(s, outcome.server, request, outcome.reply)
           /\ ~outcome.reply.ok => Declined(s, outcome.server, request)
<1> DEFINE t == Without(s, {request.handle})
<1>1. CASE request.handle \in Handles(s)
  <2>1. outcome.server = t /\ outcome.reply.ok = TRUE
    BY <1>1 DEF DropOutcomes, Accept
  <2>2. /\ Proper(t)
        /\ t.epoch = s.epoch /\ t.next = s.next /\ t.slot = s.slot
        /\ Handles(t) = Handles(s) \ {request.handle}
        /\ \A h \in Handles(t) : t.states[h] = s.states[h]
    BY WithoutFields
  <2> HIDE DEF t
  <2>3. QED
    BY <2>1, <2>2 DEF Effect, Answered
<1>2. CASE request.handle \notin Handles(s)
  <2>1. outcome.server = s /\ outcome.reply.ok = FALSE
    BY <1>2 DEF DropOutcomes, Refuse
  <2>2. QED
    BY <1>2, <2>1, SameEffect DEF Declined
<1>3. QED
  BY <1>1, <1>2

(* A restore fills the slot from its handle, or leaves it cleared when the *)
(* state could not be read.                                                *)
LEMMA RestoreEffect ==
    ASSUME NEW s, Proper(s), NEW request, request.action = "restore",
           request.epoch = s.epoch, NEW outcome \in RestoreOutcomes(s, request.handle)
    PROVE  /\ Effect(s, outcome.server, request)
           /\ outcome.reply.ok \in BOOLEAN
           /\ outcome.reply.ok => Answered(s, outcome.server, request, outcome.reply)
           /\ ~outcome.reply.ok => Declined(s, outcome.server, request)
<1> DEFINE handle == request.handle
           t == [s EXCEPT !.slot = s.states[handle].prompt,
                          !.states[handle].restored = TRUE]
           cleared == [s EXCEPT !.slot = None]
<1>1. \/ outcome.server = s /\ outcome.reply.ok = FALSE
      \/ /\ handle \in Handles(s)
         /\ outcome.server = t /\ outcome.reply.ok = TRUE
      \/ outcome.server = cleared /\ outcome.reply.ok = FALSE
  BY DEF RestoreOutcomes, Accept, Refuse
<1>2. ASSUME handle \in Handles(s)
      PROVE  /\ Effect(s, t, request)
             /\ \A reply : Answered(s, t, request, reply)
  <2>1. s.states[handle] \in State /\ s.states[handle].prompt \in Keys
    BY <1>2 DEF Proper, State
  <2>2. /\ DOMAIN t = {"epoch", "states", "next", "slot"}
        /\ t.epoch = s.epoch /\ t.next = s.next
        /\ t.slot = s.states[handle].prompt
        /\ t.states = [s.states EXCEPT ![handle].restored = TRUE]
    BY DEF Proper
  <2> HIDE DEF t
  <2>3. Handles(t) = Handles(s)
    BY <2>2 DEF Handles
  <2>4. t.states \in [Handles(t) -> State]
    <3>1. [s.states[handle] EXCEPT !.restored = TRUE] \in State
      BY <2>1 DEF State
    <3>2. QED
      BY <2>2, <2>3, <3>1 DEF Proper
  <2>5. \A h \in Handles(s) : t.states[h].prompt = s.states[h].prompt
    BY <2>1, <2>2 DEF Proper, State
  <2>6. Proper(t)
    BY <2>1, <2>2, <2>3, <2>4 DEF Proper
  <2>7. QED
    BY <1>2, <2>2, <2>3, <2>5, <2>6 DEF Effect, Answered
<1>3. Effect(s, cleared, request)
  <2>1. /\ Proper(cleared) /\ cleared.epoch = s.epoch /\ cleared.next = s.next
        /\ cleared.states = s.states /\ Handles(cleared) = Handles(s)
    BY SlotFields
  <2> HIDE DEF cleared
  <2>2. QED
    BY <2>1 DEF Effect
<1>4. \A u : Declined(s, u, request)
  BY DEF Declined
<1> HIDE DEF t, cleared
<1>5. QED
  BY <1>1, <1>2, <1>3, <1>4, SameEffect

(* A capture stores the slot under the next handle, or nothing new.        *)
LEMMA CaptureEffect ==
    ASSUME NEW s, Proper(s), NEW request, request.action = "capture",
           request.epoch = s.epoch, NEW outcome \in CaptureOutcomes(s, request.prompt)
    PROVE  /\ Effect(s, outcome.server, request)
           /\ outcome.reply.ok \in BOOLEAN
           /\ outcome.reply.ok => Answered(s, outcome.server, request, outcome.reply)
           /\ ~outcome.reply.ok => Declined(s, outcome.server, request)
<1> DEFINE gone  == Reclaimed(s)
           kept  == Without(s, gone)
           taken == Stored(kept, s.slot)
<1>1. \/ outcome.server = s /\ outcome.reply.ok = FALSE
      \/ /\ s.slot = request.prompt /\ s.slot # None
         /\ outcome.server = kept /\ outcome.reply.ok = FALSE
      \/ /\ s.slot = request.prompt /\ s.slot # None
         /\ outcome.server = taken /\ outcome.reply.ok = TRUE
         /\ outcome.reply.handle = s.next /\ outcome.reply.evicted = gone
  BY DEF CaptureOutcomes, Accept, Refuse
<1>2. gone \subseteq Handles(s)
  BY DEF Reclaimed, Unused
<1>3. /\ Proper(kept)
      /\ kept.epoch = s.epoch /\ kept.next = s.next /\ kept.slot = s.slot
      /\ Handles(kept) = Handles(s) \ gone
      /\ \A h \in Handles(kept) : kept.states[h] = s.states[h]
  <2> HIDE DEF gone
  <2>1. QED
    BY WithoutFields
<1> HIDE DEF kept, gone
<1>4. Effect(s, kept, request) /\ Declined(s, kept, request)
  BY <1>3 DEF Effect, Declined
<1>5. ASSUME s.slot = request.prompt, s.slot # None
      PROVE  /\ Effect(s, taken, request)
             /\ taken.next = s.next + 1
             /\ gone = Handles(s) \ Handles(taken)
  <2>1. s.slot \in Keys
    BY <1>5 DEF Proper
  <2>2. /\ Proper(taken)
        /\ taken.epoch = kept.epoch /\ taken.next = kept.next + 1
        /\ taken.slot = kept.slot
        /\ Handles(taken) = Handles(kept) \cup {kept.next}
        /\ kept.next \notin Handles(kept)
        /\ \A h \in Handles(kept) : taken.states[h] = kept.states[h]
        /\ taken.states[kept.next].prompt = s.slot
    BY <1>3, <2>1, StoredFields
  <2> HIDE DEF taken
  <2>3. s.next \in Nat /\ s.next \notin Handles(s) /\ s.next + 1 # s.next
    BY DEF Proper
  <2>4. gone = Handles(s) \ Handles(taken)
    BY <1>2, <1>3, <2>2, <2>3
  <2>5. Effect(s, taken, request)
    BY <1>3, <1>5, <2>2, <2>3 DEF Effect
  <2>6. QED
    BY <1>3, <2>2, <2>4, <2>5
<1> HIDE DEF taken
<1>6. Declined(s, s, request)
  BY DEF Declined
<1>7. QED
  BY <1>1, <1>4, <1>5, <1>6, SameEffect DEF Answered

(* The outcomes of any request of the client, whatever its epoch.          *)
Actions == {"clear", "drop", "capture", "restore"}

LEMMA ExecuteEffect ==
    ASSUME NEW s, Proper(s), NEW request, request.action \in Actions,
           NEW outcome \in Execute(s, request)
    PROVE  /\ Effect(s, outcome.server, request)
           /\ outcome.reply.ok \in BOOLEAN
           /\ outcome.reply.ok => Answered(s, outcome.server, request, outcome.reply)
           /\ ~outcome.reply.ok /\ request.epoch = s.epoch
                 => Declined(s, outcome.server, request)
<1>1. CASE request.epoch # s.epoch
  <2>1. outcome = Refuse(s)
    BY <1>1 DEF Execute
  <2>2. outcome.server = s /\ outcome.reply.ok = FALSE
    BY <2>1 DEF Refuse
  <2>3. QED
    BY <1>1, <2>2, SameEffect
<1>2. CASE request.epoch = s.epoch /\ request.action = "clear"
  <2>1. outcome \in ClearOutcomes(s)
    BY <1>2 DEF Execute
  <2>2. QED
    BY <1>2, <2>1, ClearEffect
<1>3. CASE request.epoch = s.epoch /\ request.action = "drop"
  <2>1. outcome \in DropOutcomes(s, request.handle)
    BY <1>3 DEF Execute
  <2>2. QED
    BY <1>3, <2>1, DropEffect
<1>4. CASE request.epoch = s.epoch /\ request.action = "capture"
  <2>1. outcome \in CaptureOutcomes(s, request.prompt)
    BY <1>4 DEF Execute
  <2>2. QED
    BY <1>4, <2>1, CaptureEffect
<1>5. CASE request.epoch = s.epoch /\ request.action = "restore"
  <2>1. outcome \in RestoreOutcomes(s, request.handle)
    BY <1>5 DEF Execute
  <2>2. QED
    BY <1>5, <2>1, RestoreEffect
<1>6. QED
  BY <1>1, <1>2, <1>3, <1>4, <1>5 DEF Actions

\* What the client learns of an exchange, and what may have happened unheard.
Exchanged(request, heard) ==
    /\ Effect(server, heard.server, request)
    /\ heard.reply.ok \in BOOLEAN
    /\ heard.reply.ok => /\ Answered(server, heard.server, request, heard.reply)
                         /\ heard.faults = faults
                         /\ heard.late = late
    /\ \/ /\ heard.faults = faults
          /\ heard.late = late
          /\ request.epoch = server.epoch /\ ~heard.reply.ok
                => Declined(server, heard.server, request)
       \/ heard.faults = faults + 1
    /\ heard.faults \in 0 .. MaxFaults
    /\ \/ heard.late = late
       \/ request.action \in LateActions /\ heard.late = late \cup {request}
    /\ missed \subseteq heard.missed
    /\ request.action = "capture" /\ ~heard.reply.ok
          => Handles(server) \ Handles(heard.server) \subseteq heard.missed

(* Every exchange is one of these.                                         *)
LEMMA ExchangeEffect ==
    ASSUME Proper(server), faults \in 0 .. MaxFaults,
           NEW request, request.action \in Actions,
           NEW heard \in Exchanges(request)
    PROVE  Exchanged(request, heard)
<1> DEFINE outcomes == Execute(server, request)
           reclaimed(o) == IF request.action # "capture" THEN {}
                           ELSE Handles(server) \ Handles(o.server)
           untold(o) == IF o.reply.ok THEN {} ELSE reclaimed(o)
<1>1. ASSUME NEW o \in outcomes
      PROVE  /\ Effect(server, o.server, request)
             /\ o.reply.ok \in BOOLEAN
             /\ o.reply.ok => Answered(server, o.server, request, o.reply)
             /\ ~o.reply.ok /\ request.epoch = server.epoch
                   => Declined(server, o.server, request)
  BY ExecuteEffect
<1>2. \/ \E o \in outcomes : heard = Heard(o.server, o.reply, late, faults, untold(o))
      \/ /\ faults # MaxFaults
         /\ \/ heard = Heard(server, NoReply, late, faults + 1, {})
            \/ /\ request.action \in LateActions
               /\ heard = Heard(server, NoReply, late \cup {request}, faults + 1, {})
            \/ \E o \in outcomes :
                  heard = Heard(o.server, NoReply, late, faults + 1, reclaimed(o))
  BY DEF Exchanges
<1> HIDE DEF outcomes
<1>3. ASSUME NEW o \in outcomes,
             heard = Heard(o.server, o.reply, late, faults, untold(o))
      PROVE  Exchanged(request, heard)
  <2>1. /\ heard.server = o.server /\ heard.reply = o.reply
        /\ heard.late = late /\ heard.faults = faults
        /\ heard.missed = missed \cup untold(o)
    BY <1>3 DEF Heard
  <2>2. QED
    BY <1>1, <2>1 DEF Exchanged
<1>4. ASSUME faults # MaxFaults PROVE faults + 1 \in 0 .. MaxFaults
  BY <1>4, ManagedAssumption
<1>5. ASSUME faults # MaxFaults, NEW l,
             l = late \/ (request.action \in LateActions /\ l = late \cup {request}),
             heard = Heard(server, NoReply, l, faults + 1, {})
      PROVE  Exchanged(request, heard)
  <2>1. /\ heard.server = server /\ heard.reply.ok = FALSE
        /\ heard.late = l /\ heard.faults = faults + 1
        /\ heard.missed = missed
    BY <1>5 DEF Heard, NoReply
  <2>2. Effect(server, server, request)
    BY SameEffect
  <2>3. QED
    BY <1>4, <1>5, <2>1, <2>2 DEF Exchanged
<1>6. ASSUME faults # MaxFaults, NEW o \in outcomes,
             heard = Heard(o.server, NoReply, late, faults + 1, reclaimed(o))
      PROVE  Exchanged(request, heard)
  <2>1. /\ heard.server = o.server /\ heard.reply.ok = FALSE
        /\ heard.late = late /\ heard.faults = faults + 1
        /\ heard.missed = missed \cup reclaimed(o)
    BY <1>6 DEF Heard, NoReply
  <2>2. QED
    BY <1>1, <1>4, <1>6, <2>1 DEF Exchanged
<1>7. QED
  BY <1>2, <1>3, <1>5, <1>6

-----------------------------------------------------------------------------
(* Admissions.                                                             *)

PolicyInv == Coherent(policy) /\ WithinLimits(policy) /\ SingleStable(policy)

(* A plan is for the entry that was asked for.                             *)
LEMMA PlanSubject ==
    ASSUME NEW p, NEW key, NEW role, NEW nbytes, NEW predecessor
    PROVE  LET plan == PlanAdmission(p, key, role, nbytes, predecessor)
           IN  plan.key = key /\ plan.nbytes = nbytes
BY Zenon DEF PlanAdmission, Refusal

(* States weigh something.                                                 *)
LEMMA PayloadType ==
    ASSUME NEW key \in Keys
    PROVE  PayloadBytes(key) \in Nat
<1>1. StateBytes[key] \in Nat /\ CheckpointBytes[key] \in Nat
  BY ManagedAssumption
<1>2. QED
  BY <1>1 DEF PayloadBytes

\* A plan for key that can be bound, and the policy value it was made on.
Bindable(key, plan, planned) ==
    /\ Coherent(planned) /\ WithinLimits(planned) /\ SingleStable(planned)
    /\ planned.entries = policy.entries
    /\ plan.accepted =>
          /\ Executable(planned, plan)
          /\ plan.key = key
          /\ plan.nbytes = PayloadBytes(key)
          /\ DOMAIN plan.evictions \subseteq Keys

(* The plans of admit_captured.                                            *)
LEMMA AdmitBindable ==
    ASSUME PolicyInv, NEW key \in Keys, NEW role \in Roles, NEW predecessor
    PROVE  Bindable(key, PlanAdmission(policy, key, role, PayloadBytes(key), predecessor),
                    policy)
<1> DEFINE plan == PlanAdmission(policy, key, role, PayloadBytes(key), predecessor)
<1>1. plan.accepted => Executable(policy, plan)
  BY PayloadType, AdmissionPlan DEF PolicyInv
<1>2. plan.key = key /\ plan.nbytes = PayloadBytes(key)
  BY PlanSubject
<1>3. DOMAIN plan.evictions \subseteq Keys
  BY EvictionsAreKeys DEF PolicyInv
<1> HIDE DEF plan
<1>4. Bindable(key, plan, policy)
  BY <1>1, <1>2, <1>3 DEF Bindable, PolicyInv
<1>5. QED
  BY <1>4 DEF plan

(* The plans of capture_stable_candidate.                                  *)
LEMMA CandidateBindable ==
    ASSUME PolicyInv, NEW key \in Keys
    PROVE  LET result == PlanStableCandidate(policy, key, PayloadBytes(key))
           IN  Bindable(key, result.plan, result.policy)
<1> DEFINE nbytes == PayloadBytes(key)
           result == PlanStableCandidate(policy, key, nbytes)
           plain  == PlanAdmission(policy, key, "stable", nbytes, None)
<1>1. /\ Coherent(result.policy)
      /\ WithinLimits(result.policy)
      /\ SingleStable(result.policy)
      /\ result.plan.accepted => Executable(result.policy, result.plan)
      /\ result.plan.accepted => DOMAIN result.plan.evictions \subseteq Keys
  BY PayloadType, StableCandidatePlan DEF PolicyInv
<1>2. CandidateOutcome(policy, key, nbytes, result)
  BY PayloadType, StableCandidateShape DEF PolicyInv
<1> HIDE DEF result
<1>3. result.policy.entries = policy.entries
  BY <1>2, CandidateFields DEF CandidateOutcome, PolicyInv, Coherent
<1>4. result.plan.accepted => result.plan.key = key /\ result.plan.nbytes = nbytes
  <2>1. plain.key = key /\ plain.nbytes = nbytes
    BY PlanSubject
  <2>2. ASSUME NEW reason, result.plan = [plain EXCEPT !.reason = reason]
        PROVE  result.plan.key = plain.key /\ result.plan.nbytes = plain.nbytes
    BY <2>2, Zenon DEF PlanAdmission, Refusal
  <2> HIDE DEF plain
  <2>3. QED
    BY <1>2, <2>1, <2>2 DEF CandidateOutcome, plain
<1>5. Bindable(key, result.plan, result.policy)
  BY <1>1, <1>3, <1>4 DEF Bindable
<1>6. QED
  BY <1>5 DEF result

\* What binding the captured handle of key does to the registry: it takes the
\* place of the victims, or is queued to be dropped.
Admits(key, victims) ==
    /\ records' = [k \in Keys |-> IF k = key THEN held[key]
                                  ELSE IF k \in victims THEN None ELSE records[k]]
    /\ pending' = (pending \cup {records[k] : k \in {j \in victims : records[j] # None}})
                      \ {held[key]}
    /\ key \in victims
    /\ Resident(policy') = (Resident(policy) \ victims) \cup {key}
    /\ policy'.entries[key].nbytes = PayloadBytes(key)
    /\ \A k \in Resident(policy) \ victims : policy'.entries[k] = policy.entries[k]

Declines(key) ==
    /\ pending' = pending \cup {held[key]}
    /\ UNCHANGED records
    /\ Resident(policy') = Resident(policy)
    /\ policy'.entries = policy.entries

BindStep ==
    \E key \in Keys :
        /\ held[key] # None
        /\ call.phase = "admit" => call.key = key
        /\ call.phase # "admit" => SplitCalls /\ call = Idle
        /\ held' = [held EXCEPT ![key] = None]
        /\ ThenFlush
        /\ UNCHANGED <<server, pinned, transport>>
        /\ PolicyInv'
        /\ Declines(key) \/ \E victims \in SUBSET Keys : Admits(key, victims)

(* A bindable plan is committed, or its handle queued.                     *)
LEMMA BindOutcome ==
    ASSUME PolicyInv, NEW key \in Keys, NEW plan, NEW planned,
           Bindable(key, plan, planned), Bind(key, plan, planned)
    PROVE  /\ PolicyInv'
           /\ Declines(key) \/ \E victims \in SUBSET Keys : Admits(key, victims)
<1>1. Resident(planned) = Resident(policy) /\ Coherent(planned)
  BY DEF Bindable, Resident
<1>2. PolicyInv'
  <2>1. plan.accepted => Executable(planned, plan)
    BY DEF Bindable
  <2>2. LET q == Commit(planned, plan)
        IN  Coherent(q) /\ WithinLimits(q) /\ SingleStable(q)
    BY <2>1, CommitSafe DEF Bindable
  <2>3. policy' = Commit(planned, plan)
    BY DEF Bind
  <2>4. Coherent(policy') /\ WithinLimits(policy') /\ SingleStable(policy')
    BY <2>2, <2>3
  <2>5. QED
    BY <2>4 DEF PolicyInv
<1>3. CASE ~plan.accepted
  <2>1. policy' = planned
    BY <1>3 DEF Bind, Commit
  <2>2. pending' = pending \cup {held[key]} /\ records' = records
    BY <1>3 DEF Bind
  <2>3. Declines(key)
    BY <1>1, <2>1, <2>2 DEF Declines, Bindable
  <2>4. QED
    BY <1>2, <2>3
<1>4. CASE plan.accepted
  <2> DEFINE victims == DOMAIN plan.evictions \cup {key}
  <2>1. /\ Executable(planned, plan)
        /\ plan.key = key /\ plan.nbytes = PayloadBytes(key)
        /\ victims \in SUBSET Keys
    BY <1>4 DEF Bindable
  <2>2. policy' = Commit(planned, plan)
    BY DEF Bind
  <2>3. Resident(policy') = (Resident(policy) \ victims) \cup {key}
    BY <1>1, <1>4, <2>1, <2>2, CommitResident
  <2>4. /\ policy'.entries[key].nbytes = PayloadBytes(key)
        /\ \A k \in Resident(policy) \ victims : policy'.entries[k] = policy.entries[k]
    <3>1. /\ policy'.entries[key]
                = [role |-> plan.role, nbytes |-> plan.nbytes, hits |-> 0]
          /\ \A k \in Resident(planned) \ victims : policy'.entries[k] = planned.entries[k]
      BY <1>1, <1>4, <2>1, <2>2, CommitEntries
    <3>2. QED
      BY <1>1, <2>1, <3>1 DEF Bindable
  <2>5. /\ records' = [k \in Keys |-> IF k = key THEN held[key]
                                      ELSE IF k \in victims THEN None ELSE records[k]]
        /\ pending' = (pending \cup {records[k] : k \in {j \in victims : records[j] # None}})
                          \ {held[key]}
    BY <1>4 DEF Bind
  <2>6. Admits(key, victims)
    BY <2>3, <2>4, <2>5 DEF Admits
  <2>7. QED
    BY <1>2, <2>1, <2>6
<1>5. QED
  BY <1>3, <1>4

(* Both kinds of admission take such a step.                               *)
LEMMA AdmissionBinds ==
    ASSUME PolicyInv,
           call.phase = "admit" => call.key \in Keys /\ held[call.key] # None,
           \/ (call = Idle \/ call.phase = "admit") /\ Admission
           \/ AdmitStableCandidate
    PROVE  BindStep
<1>1. CASE (call = Idle \/ call.phase = "admit") /\ Admission
  <2>1. PICK key \in Keys, role \in AdmitRoles, predecessor \in Keys \cup {None} :
            AdmitCaptured(key, role, predecessor)
    BY <1>1 DEF Admission
  <2> DEFINE plan == PlanAdmission(policy, key, role, PayloadBytes(key), predecessor)
  <2>2. /\ held[key] # None
        /\ \/ SplitCalls /\ call = Idle
           \/ call.phase = "admit" /\ call.key = key
        /\ Bind(key, plan, policy)
    BY <2>1 DEF AdmitCaptured
  <2>3. Bindable(key, plan, policy)
    BY AdmitBindable, ManagedAssumption
  <2> HIDE DEF plan
  <2>4. /\ PolicyInv'
        /\ Declines(key) \/ \E victims \in SUBSET Keys : Admits(key, victims)
    BY <2>2, <2>3, BindOutcome
  <2>5. /\ held' = [held EXCEPT ![key] = None]
        /\ ThenFlush
        /\ UNCHANGED <<server, pinned, transport>>
    BY <2>2 DEF Bind
  <2>6. call = Idle => call.phase # "admit"
    BY DEF Idle
  <2>7. QED
    BY <2>2, <2>4, <2>5, <2>6 DEF BindStep
<1>2. CASE AdmitStableCandidate
  <2> DEFINE key == call.key
             result == PlanStableCandidate(policy, key, PayloadBytes(key))
  <2>1. /\ call.phase = "admit"
        /\ Bind(key, result.plan, result.policy)
    BY <1>2 DEF AdmitStableCandidate
  <2>2. key \in Keys /\ held[key] # None
    BY <2>1
  <2>3. Bindable(key, result.plan, result.policy)
    BY <2>2, CandidateBindable
  <2> HIDE DEF result
  <2>4. /\ PolicyInv'
        /\ Declines(key) \/ \E victims \in SUBSET Keys : Admits(key, victims)
    BY <2>1, <2>2, <2>3, BindOutcome
  <2>5. /\ held' = [held EXCEPT ![key] = None]
        /\ ThenFlush
        /\ UNCHANGED <<server, pinned, transport>>
    BY <2>1 DEF Bind
  <2>6. QED
    BY <2>1, <2>2, <2>4, <2>5 DEF BindStep
<1>3. QED
  BY <1>1, <1>2

-----------------------------------------------------------------------------
(* Types.                                                                  *)

\* What may still be executed is of an epoch up to the facade's, and a drop of
\* this epoch names a handle that was given out.
Waiting ==
    \A request \in late :
        /\ request.action \in Actions \cap LateActions
        /\ request.epoch \in 1 .. pinned
        /\ request.action = "drop" /\ request.epoch = server.epoch
              => request.handle \in 1 .. server.next - 1

ServerInv ==
    /\ Proper(server)
    /\ server.next <= MaxHandle + 1
    /\ pinned \in 1 .. server.epoch
    /\ pinned # server.epoch => Handles(server) = {}
    /\ faults \in 0 .. MaxFaults
    /\ Waiting

\* The handles the registry and the call know were given out in their epoch.
RegistryInv ==
    /\ records \in [Keys -> Ids \cup {None}]
    /\ held \in [Keys -> Ids \cup {None}]
    /\ pending \subseteq Ids
    /\ pinned = server.epoch => Owned \cup call.orphans \subseteq 1 .. server.next - 1

Phases == {"idle", "flush", "confirm", "capture", "reconcile", "sweep", "admit",
           "clear", "select", "restore", "probe"}

CallState == [phase : Phases, key : Keys \cup {None}, stable : BOOLEAN,
              done : BOOLEAN, handle : Ids \cup {None}, sweeping : BOOLEAN,
              orphans : SUBSET Ids, chosen : Keys \cup {None}]

\* A capture that is still to be made.
Capturing ==
    call.phase \in {"flush", "confirm", "capture"} /\ ~call.done /\ ~call.sweeping

CallInv ==
    /\ call \in CallState
    /\ call.orphans # {} => call.sweeping
    /\ call.sweeping => call.phase \in {"sweep", "confirm"}
    /\ call.phase = "sweep" => call.sweeping
    /\ Capturing => call.key \in Keys /\ held[call.key] = None /\ server.next <= MaxHandle
    /\ call.phase = "capture" => ~call.done /\ pending = {}
    /\ call.phase = "admit" => call.key \in Keys /\ held[call.key] # None
    /\ call.phase \in {"clear", "select", "restore", "probe"} => call.key \in Keys
    /\ call.phase = "restore" => call.chosen # None
    /\ call.chosen # None =>
          call.phase \in {"restore", "probe"} /\ call.chosen \in Resident(policy)

TypeInv == PolicyInv /\ ServerInv /\ RegistryInv /\ CallInv

(* Handles are not None, nor are keys.                                     *)
LEMMA NoneIsNothing == None \notin Ids /\ None \notin Keys
BY ManagedAssumption, KeysAssumption DEF Ids

(* A call that is over, or that starts with a flush or a reconciliation.   *)
LEMMA IdleCall ==
    /\ Idle \in CallState
    /\ Idle.phase = "idle" /\ Idle.key = None /\ Idle.done = FALSE
    /\ Idle.sweeping = FALSE /\ Idle.orphans = {} /\ Idle.chosen = None
BY DEF Idle, CallState, Phases

LEMMA QuietCall ==
    ASSUME NEW phase \in {"idle", "flush", "reconcile"}, NEW done \in BOOLEAN,
           phase = "flush" => done,
           call' = [Idle EXCEPT !.phase = phase, !.done = done]
    PROVE  CallInv' /\ call'.orphans = {}
<1>1. /\ call' \in CallState
      /\ call'.phase = phase /\ call'.done = done
      /\ call'.sweeping = FALSE /\ call'.orphans = {} /\ call'.chosen = None
  BY DEF Idle, CallState, Phases
<1>2. QED
  BY <1>1 DEF CallInv, Capturing

LEMMA IdleInv ==
    ASSUME call' = Idle
    PROVE  CallInv' /\ call'.orphans = {}
<1>1. CallInv'
  BY IdleCall DEF CallInv, Capturing
<1>2. QED
  BY <1>1, IdleCall

(* A request executed, or left waiting, keeps the store in order.          *)
LEMMA EffectServer ==
    ASSUME ServerInv, NEW request, request.action \in Actions,
           request.epoch \in 1 .. pinned,
           request.action = "drop" /\ request.epoch = server.epoch
              => request.handle \in 1 .. server.next - 1,
           request.action = "capture" => server.next <= MaxHandle,
           Effect(server, server', request), pinned' = pinned,
           faults' \in 0 .. MaxFaults,
           \/ late' \subseteq late
           \/ request.action \in LateActions /\ late' = late \cup {request}
    PROVE  ServerInv' /\ server'.epoch = server.epoch /\ server'.next >= server.next
<1>1. /\ Proper(server') /\ server'.epoch = server.epoch
      /\ server'.next \in {server.next, server.next + 1}
      /\ server'.next # server.next => request.action = "capture"
  BY DEF Effect
<1>2. server.next \in Nat \ {0} /\ server.epoch \in Nat /\ MaxHandle \in Nat
  BY ManagedAssumption DEF ServerInv, Proper
<1>3. server'.next >= server.next /\ server'.next <= MaxHandle + 1
  BY <1>1, <1>2 DEF ServerInv
<1>4. pinned' # server'.epoch => Handles(server') = {}
  <2>1. SUFFICES ASSUME pinned # server.epoch PROVE Handles(server') = {}
    BY <1>1
  <2>2. Handles(server) = {}
    BY <2>1 DEF ServerInv
  <2>3. request.epoch # server.epoch
    BY <1>2, <2>1 DEF ServerInv
  <2>4. QED
    BY <2>2, <2>3 DEF Effect
<1>5. Waiting'
  <2>1. SUFFICES ASSUME NEW r \in late'
                 PROVE  /\ r.action \in Actions \cap LateActions
                        /\ r.epoch \in 1 .. pinned'
                        /\ r.action = "drop" /\ r.epoch = server'.epoch
                              => r.handle \in 1 .. server'.next - 1
    BY DEF Waiting
  <2>2. \/ r \in late
        \/ r = request /\ request.action \in LateActions
    BY <2>1
  <2>3. /\ r.action \in Actions \cap LateActions
        /\ r.epoch \in 1 .. pinned
        /\ r.action = "drop" /\ r.epoch = server.epoch => r.handle \in 1 .. server.next - 1
    BY <2>2 DEF ServerInv, Waiting
  <2>4. QED
    BY <1>1, <1>2, <2>3
<1>6. QED
  BY <1>1, <1>3, <1>4, <1>5 DEF ServerInv

(* The requests of the facade are such requests.                           *)
LEMMA FacadeExchange ==
    ASSUME ServerInv, NEW request, request.action \in Actions, request.epoch = pinned,
           request.action = "drop" /\ request.epoch = server.epoch
              => request.handle \in 1 .. server.next - 1,
           request.action = "capture" => server.next <= MaxHandle,
           pinned' = pinned, NEW heard \in Exchanges(request), Take(heard)
    PROVE  /\ Exchanged(request, heard)
           /\ ServerInv'
           /\ server' = heard.server /\ late' = heard.late
           /\ faults' = heard.faults /\ missed' = heard.missed
           /\ server'.epoch = server.epoch /\ server'.next >= server.next
<1>1. Exchanged(request, heard)
  BY ExchangeEffect DEF ServerInv
<1>2. /\ server' = heard.server /\ late' = heard.late
      /\ faults' = heard.faults /\ missed' = heard.missed
  BY DEF Take
<1>3. request.epoch \in 1 .. pinned
  BY DEF ServerInv, Proper
<1>4. ServerInv' /\ server'.epoch = server.epoch /\ server'.next >= server.next
  BY <1>1, <1>2, <1>3, EffectServer DEF Exchanged
<1>5. QED
  BY <1>1, <1>2, <1>4

(* The registry stays typed while the facade only drops what it knows of.  *)
LEMMA RegistryKept ==
    ASSUME ServerInv, RegistryInv, UNCHANGED <<pinned, records, held>>,
           pending' \subseteq pending, call'.orphans \subseteq call.orphans,
           server'.epoch = server.epoch, server'.next \in Nat,
           server'.next >= server.next
    PROVE  RegistryInv'
<1>1. Owned' \cup call'.orphans \subseteq Owned \cup call.orphans
  BY DEF Owned, Bound, HeldHandles
<1>2. pinned = server.epoch => 1 .. server.next - 1 \subseteq 1 .. server'.next - 1
  BY DEF ServerInv, Proper
<1>3. QED
  BY <1>1, <1>2 DEF RegistryInv

(* Steps of a call that leave store and registry as they are.              *)
LEMMA TypeLocal ==
    ASSUME TypeInv, UNCHANGED <<server, late, registry>>, faults' \in 0 .. MaxFaults,
           CallInv', pinned = server.epoch => call'.orphans \subseteq call.orphans \cup Handles(server),
           call'.orphans \subseteq Ids
    PROVE  TypeInv'
<1>1. PolicyInv'
  BY DEF TypeInv, PolicyInv, registry
<1>2. ServerInv'
  BY DEF TypeInv, ServerInv, Waiting, registry
<1>3. RegistryInv'
  <2>1. Owned' = Owned
    BY DEF Owned, Bound, HeldHandles, registry
  <2>2. Handles(server) \subseteq 1 .. server.next - 1
    BY DEF TypeInv, ServerInv, Proper
  <2>3. QED
    BY <2>1, <2>2 DEF TypeInv, RegistryInv, registry
<1>4. QED
  BY <1>1, <1>2, <1>3 DEF TypeInv

LEMMA TypeStart ==
    ASSUME TypeInv,
           \/ \E key \in Keys, stable \in BOOLEAN : StartCapture(key, stable)
           \/ ReconcileOrphans
           \/ \E prompt \in Keys : Lookup(prompt)
    PROVE  TypeInv'
<1>1. UNCHANGED <<server, late, registry>> /\ faults' \in 0 .. MaxFaults
  BY DEF StartCapture, ReconcileOrphans, Lookup, transport, TypeInv, ServerInv
<1>2. CallInv' /\ call'.orphans = {}
  <2>1. ASSUME NEW key \in Keys, NEW stable \in BOOLEAN, StartCapture(key, stable)
        PROVE  CallInv' /\ call'.orphans = {}
    <3>1. /\ held'[key] = None /\ server'.next <= MaxHandle /\ pending' = pending
      BY <2>1 DEF StartCapture, registry
    <3>2. /\ call' \in CallState
          /\ call'.phase = IF pending = {} THEN "capture" ELSE "flush"
          /\ call'.key = key /\ call'.done = FALSE
          /\ call'.sweeping = FALSE /\ call'.orphans = {} /\ call'.chosen = None
      BY <2>1 DEF StartCapture, Idle, CallState, Phases
    <3>3. QED
      BY <3>1, <3>2 DEF CallInv, Capturing
  <2>2. ASSUME ReconcileOrphans
        PROVE  CallInv' /\ call'.orphans = {}
    <3>1. /\ call' \in CallState
          /\ call'.phase = "reconcile"
          /\ call'.sweeping = FALSE /\ call'.orphans = {} /\ call'.chosen = None
      BY <2>2 DEF ReconcileOrphans, Idle, CallState, Phases
    <3>2. QED
      BY <3>1 DEF CallInv, Capturing
  <2>3. ASSUME NEW prompt \in Keys, Lookup(prompt)
        PROVE  CallInv' /\ call'.orphans = {}
    <3>1. /\ call' \in CallState
          /\ call'.phase = "clear" /\ call'.key = prompt
          /\ call'.sweeping = FALSE /\ call'.orphans = {} /\ call'.chosen = None
      BY <2>3 DEF Lookup, Idle, CallState, Phases
    <3>2. QED
      BY <3>1 DEF CallInv, Capturing
  <2>4. QED
    BY <2>1, <2>2, <2>3
<1>3. QED
  BY <1>1, <1>2, TypeLocal

LEMMA TypeAdvance ==
    ASSUME TypeInv, FlushDone \/ Reconcile \/ SweepDone \/ Select
    PROVE  TypeInv'
<1>0. CallInv /\ call \in CallState
  BY DEF TypeInv, CallInv
<1>1. UNCHANGED <<server, late, registry>> /\ faults' \in 0 .. MaxFaults
  <2>1. \A reading \in Readings : reading.faults \in 0 .. MaxFaults
    BY ManagedAssumption DEF TypeInv, ServerInv, Readings
  <2>2. QED
    BY <2>1 DEF FlushDone, Reconcile, SweepDone, Select, transport, TypeInv, ServerInv
<1>2. Unknown \subseteq Handles(server) /\ Unknown \subseteq Ids
  <2>1. Handles(server) \subseteq 1 .. server.next - 1 /\ server.next <= MaxHandle + 1
        /\ server.next \in Nat /\ MaxHandle \in Nat
    BY ManagedAssumption DEF TypeInv, ServerInv, Proper
  <2>2. QED
    BY <2>1 DEF Unknown, Ids
<1>3. /\ CallInv'
      /\ call'.orphans \subseteq call.orphans \cup Handles(server)
      /\ call'.orphans \subseteq Ids
  <2>1. ASSUME call' = Idle
        PROVE  /\ CallInv'
               /\ call'.orphans \subseteq call.orphans \cup Handles(server)
               /\ call'.orphans \subseteq Ids
    BY <2>1, IdleInv
  <2>2. CASE FlushDone /\ ~call.done
    <3>1. call' = [call EXCEPT !.phase = "capture"] /\ call.phase = "flush"
          /\ pending' = {}
      BY <2>2 DEF FlushDone, registry
    <3>2. /\ call' \in CallState /\ call'.phase = "capture" /\ call'.done = call.done
          /\ call'.key = call.key /\ call'.sweeping = call.sweeping
          /\ call'.orphans = call.orphans /\ call'.chosen = call.chosen
      BY <1>0, <3>1 DEF CallState, Phases
    <3>3. CallInv'
      BY <1>0, <1>1, <2>2, <3>1, <3>2 DEF CallInv, Capturing, registry
    <3>4. QED
      BY <1>0, <3>2, <3>3 DEF CallState
  <2>3. CASE FlushDone /\ call.done
    BY <2>1, <2>3 DEF FlushDone
  <2>4. CASE Reconcile
    <3>1. \/ call' = Idle
          \/ call' = [call EXCEPT !.phase = "sweep", !.sweeping = TRUE, !.orphans = Unknown]
      BY <2>4 DEF Reconcile
    <3>2. CASE call' = [call EXCEPT !.phase = "sweep", !.sweeping = TRUE, !.orphans = Unknown]
      <4>1. /\ call' \in CallState /\ call'.phase = "sweep" /\ call'.sweeping = TRUE
            /\ call'.orphans = Unknown /\ call'.chosen = call.chosen
        BY <1>0, <1>2, <3>2 DEF CallState, Phases
      <4>2. call.phase = "reconcile"
        BY <2>4 DEF Reconcile
      <4>3. CallInv'
        BY <1>0, <4>1, <4>2 DEF CallInv, Capturing
      <4>4. QED
        BY <1>2, <4>1, <4>3
    <3>3. QED
      BY <2>1, <3>1, <3>2
  <2>5. CASE SweepDone
    BY <2>1, <2>5 DEF SweepDone
  <2>6. CASE Select
    <3>1. /\ call.phase = "select"
          /\ \/ call' = [call EXCEPT !.phase = "probe"]
             \/ \E k \in Resident(policy) :
                   call' = [call EXCEPT !.phase = "restore", !.chosen = k]
      BY <2>6 DEF Select, Candidates
    <3>2. Resident(policy) \subseteq Keys /\ policy' = policy
      BY <1>1 DEF TypeInv, PolicyInv, Coherent, WellTyped, registry
    <3>3. /\ call' \in CallState /\ call'.phase \in {"probe", "restore"}
          /\ call'.key = call.key /\ call'.sweeping = call.sweeping
          /\ call'.orphans = call.orphans
          /\ call'.chosen \in Resident(policy) \/ call'.chosen = call.chosen
          /\ call'.phase = "restore" => call'.chosen \in Resident(policy)
      BY <1>0, <3>1, <3>2 DEF CallState, Phases
    <3>4. call.chosen = None /\ call.key \in Keys
      BY <1>0, <3>1 DEF CallInv
    <3>5. CallInv'
      BY <1>0, <3>1, <3>2, <3>3, <3>4, NoneIsNothing DEF CallInv, Capturing
    <3>6. QED
      BY <1>0, <3>3, <3>5 DEF CallState
  <2>7. QED
    BY <2>2, <2>3, <2>4, <2>5, <2>6
<1>4. QED
  BY <1>1, <1>3, TypeLocal

(* Drops.                                                                  *)
LEMMA TypeDrop ==
    ASSUME TypeInv, NEW h,
           \/ FlushDrop(h)
           \/ SweepDrop(h)
    PROVE  TypeInv'
<1> DEFINE request == [action |-> "drop", epoch |-> pinned, handle |-> h]
<1>0. CallInv /\ call \in CallState /\ ServerInv /\ RegistryInv
  BY DEF TypeInv, CallInv
<1>1. /\ UNCHANGED <<policy, pinned, records, held>>
      /\ \/ /\ call.phase = "flush" /\ h \in pending
            /\ pending' = pending \ {h} /\ UNCHANGED <<server, call, transport>>
         \/ /\ \/ call.phase = "flush" /\ h \in pending
               \/ call.phase = "sweep" /\ h \in call.orphans
            /\ DropHandle(h)
  BY DEF FlushDrop, SweepDrop
<1>2. PolicyInv'
  BY <1>1 DEF TypeInv, PolicyInv
<1>3. CASE pending' = pending \ {h} /\ UNCHANGED <<server, call, transport>>
  <2>1. ServerInv' /\ server'.epoch = server.epoch /\ server'.next >= server.next
        /\ server'.next \in Nat
    BY <1>0, <1>1, <1>3 DEF ServerInv, Waiting, Proper, transport
  <2>2. CallInv'
    BY <1>0, <1>1, <1>3 DEF CallInv, Capturing
  <2>3. RegistryInv'
    BY <1>0, <1>1, <1>3, <2>1, RegistryKept
  <2>4. QED
    BY <1>2, <2>1, <2>2, <2>3 DEF TypeInv
<1>4. CASE /\ \/ call.phase = "flush" /\ h \in pending
              \/ call.phase = "sweep" /\ h \in call.orphans
           /\ DropHandle(h)
  <2>1. PICK heard \in Exchanges(request) :
            /\ Take(heard)
            /\ \/ /\ pending' = pending \ {h}
                  /\ call' = [call EXCEPT !.orphans = @ \ {h}]
               \/ /\ call' = [call EXCEPT !.phase = "confirm", !.handle = h]
                  /\ UNCHANGED pending
    BY <1>4 DEF DropHandle
  <2>2. request.action = "drop" /\ request.epoch = pinned /\ request.handle = h
    OBVIOUS
  <2>3. h \in Ids /\ (pinned = server.epoch => h \in 1 .. server.next - 1)
    BY <1>0, <1>4 DEF RegistryInv, Owned, CallInv, CallState
  <2> HIDE DEF request
  <2>4. ServerInv' /\ server'.epoch = server.epoch /\ server'.next >= server.next
    BY <1>0, <1>1, <2>1, <2>2, <2>3, FacadeExchange DEF Actions
  <2>5. /\ Exchanged(request, heard) /\ server' = heard.server
    BY <1>0, <1>1, <2>1, <2>2, <2>3, FacadeExchange DEF Actions
  <2>6. server'.next = server.next
    BY <2>2, <2>5 DEF Exchanged, Effect
  <2>7. CallInv' /\ call'.orphans \subseteq call.orphans
    <3>1. /\ call' \in CallState /\ call'.phase \in {call.phase, "confirm"}
          /\ call'.key = call.key /\ call'.sweeping = call.sweeping
          /\ call'.orphans \subseteq call.orphans
          /\ call'.chosen = call.chosen /\ call'.done = call.done
      <4>1. CASE call' = [call EXCEPT !.orphans = @ \ {h}]
        BY <1>0, <4>1 DEF CallState
      <4>2. CASE call' = [call EXCEPT !.phase = "confirm", !.handle = h]
        BY <1>0, <2>3, <4>2 DEF CallState, Phases
      <4>3. QED
        BY <2>1, <4>1, <4>2
    <3>2. pending' \subseteq pending
      BY <2>1
    <3>3. CallInv'
      BY <1>0, <1>1, <1>4, <2>6, <3>1, <3>2 DEF CallInv, Capturing
    <3>4. QED
      BY <3>1, <3>3
  <2>8. RegistryInv'
    <3>1. pending' \subseteq pending /\ server'.next \in Nat
      BY <2>1, <2>4 DEF ServerInv, Proper
    <3>2. QED
      BY <1>0, <1>1, <2>4, <2>7, <3>1, RegistryKept
  <2>9. QED
    BY <1>2, <2>4, <2>7, <2>8 DEF TypeInv
<1>5. QED
  BY <1>1, <1>3, <1>4

LEMMA TypeConfirm ==
    ASSUME TypeInv, Confirm
    PROVE  TypeInv'
<1>0. CallInv /\ call \in CallState /\ ServerInv /\ RegistryInv
  BY DEF TypeInv, CallInv
<1>1. /\ UNCHANGED <<server, policy, pinned, records, held, late, missed>>
      /\ call.phase = "confirm"
      /\ \E reading \in Readings : faults' = reading.faults
      /\ \/ /\ pending' = pending \ {call.handle}
            /\ call' = [call EXCEPT !.orphans = @ \ {call.handle}, !.handle = None,
                                    !.phase = IF call.sweeping THEN "sweep" ELSE "flush"]
         \/ call' = Idle /\ UNCHANGED pending
  BY DEF Confirm
<1>2. PolicyInv'
  BY <1>1 DEF TypeInv, PolicyInv
<1>3. ServerInv' /\ server'.next \in Nat
  <2>1. faults' \in 0 .. MaxFaults
    BY <1>1, ManagedAssumption DEF TypeInv, ServerInv, Readings
  <2>2. QED
    BY <1>0, <1>1, <2>1 DEF ServerInv, Waiting, Proper
<1>4. CallInv' /\ call'.orphans \subseteq call.orphans
  <2>1. CASE call' = Idle
    BY <2>1, IdleInv
  <2>2. CASE call' = [call EXCEPT !.orphans = @ \ {call.handle}, !.handle = None,
                                  !.phase = IF call.sweeping THEN "sweep" ELSE "flush"]
    <3>1. /\ call' \in CallState
          /\ call'.phase = IF call.sweeping THEN "sweep" ELSE "flush"
          /\ call'.key = call.key /\ call'.sweeping = call.sweeping
          /\ call'.orphans \subseteq call.orphans
          /\ call'.chosen = call.chosen /\ call'.done = call.done
      BY <1>0, <2>2 DEF CallState, Phases
    <3>2. CallInv'
      BY <1>0, <1>1, <3>1 DEF CallInv, Capturing
    <3>3. QED
      BY <3>1, <3>2
  <2>3. QED
    BY <1>1, <2>1, <2>2
<1>5. RegistryInv'
  BY <1>0, <1>1, <1>3, <1>4, RegistryKept DEF ServerInv, Proper
<1>6. QED
  BY <1>2, <1>3, <1>4, <1>5 DEF TypeInv

(* A capture.                                                              *)
LEMMA TypeCapture ==
    ASSUME TypeInv, CaptureSlot
    PROVE  TypeInv'
<1> DEFINE request == [action |-> "capture", epoch |-> pinned, prompt |-> call.key]
<1>0. CallInv /\ call \in CallState /\ ServerInv /\ RegistryInv /\ PolicyInv
  BY DEF TypeInv, CallInv
<1>1. PICK heard \in Exchanges(request) :
          /\ Take(heard)
          /\ IF heard.reply.ok
             THEN LET gone == Forgotten(heard.reply.evicted)
                  IN  /\ policy' = CommitTrim(policy, gone)
                      /\ records' = [k \in Keys |-> IF k \in gone THEN None ELSE records[k]]
                      /\ held' = [held EXCEPT ![call.key] = heard.reply.handle]
                      /\ call' = IF SplitCalls /\ ~call.stable THEN Idle
                                 ELSE [call EXCEPT !.phase = "admit"]
             ELSE /\ call' = [call EXCEPT !.phase = "reconcile"]
                  /\ UNCHANGED <<policy, records, held>>
  BY DEF CaptureSlot
<1>2. call.phase = "capture" /\ UNCHANGED <<pinned, pending>>
  BY DEF CaptureSlot
<1>3. /\ call.key \in Keys /\ server.next <= MaxHandle
      /\ ~call.sweeping /\ call.orphans = {} /\ call.chosen = None /\ ~call.done
  BY <1>0, <1>2 DEF CallInv, Capturing
<1>4. request.action = "capture" /\ request.epoch = pinned
  OBVIOUS
<1> HIDE DEF request
<1>5. /\ Exchanged(request, heard) /\ ServerInv' /\ server' = heard.server
      /\ server'.epoch = server.epoch /\ server'.next >= server.next
      /\ server'.next \in Nat
  <2>1. Take(heard)
    BY <1>1
  <2>2. ServerInv' => server'.next \in Nat
    BY DEF ServerInv, Proper
  <2>3. QED
    BY <1>0, <1>2, <1>3, <1>4, <2>1, <2>2, FacadeExchange DEF Actions
<1>6. CASE heard.reply.ok
  <2> DEFINE gone == Forgotten(heard.reply.evicted)
  <2>1. /\ policy' = CommitTrim(policy, gone)
        /\ records' = [k \in Keys |-> IF k \in gone THEN None ELSE records[k]]
        /\ held' = [held EXCEPT ![call.key] = heard.reply.handle]
        /\ call' = Idle \/ call' = [call EXCEPT !.phase = "admit"]
    BY <1>1, <1>6
  <2> HIDE DEF gone
  <2>2. PolicyInv'
    <3>1. Coherent(policy') /\ WithinLimits(policy') /\ SingleStable(policy')
      BY <1>0, <2>1, TrimSafe DEF PolicyInv
    <3>2. QED
      BY <3>1 DEF PolicyInv
  <2>3. /\ heard.reply.handle = server.next /\ server'.next = server.next + 1
        /\ pinned = server.epoch
    BY <1>4, <1>5, <1>6 DEF Exchanged, Answered
  <2>4. server.next \in Ids
    BY <1>0, <1>3 DEF ServerInv, Proper, Ids
  <2>5. call' \in CallState /\ call'.orphans = {}
    BY <1>0, <1>3, <2>1, IdleCall DEF CallState, Phases
  <2>6. RegistryInv'
    <3>1. /\ records' \in [Keys -> Ids \cup {None}]
          /\ held' \in [Keys -> Ids \cup {None}]
      BY <1>0, <2>1, <2>3, <2>4 DEF RegistryInv
    <3>2. Owned' \subseteq Owned \cup {server.next}
      BY <1>0, <1>2, <1>3, <2>1, <2>3 DEF Owned, Bound, HeldHandles, RegistryInv
    <3>3. Owned \subseteq 1 .. server.next - 1 /\ server.next \in Nat \ {0}
      BY <1>0, <2>3 DEF RegistryInv, ServerInv, Proper
    <3>4. Owned' \cup call'.orphans \subseteq 1 .. server'.next - 1
      BY <2>3, <2>5, <3>2, <3>3
    <3>5. QED
      BY <1>0, <1>2, <3>1, <3>4 DEF RegistryInv
  <2>7. CallInv'
    <3>1. CASE call' = Idle
      BY <3>1, IdleInv
    <3>2. CASE call' = [call EXCEPT !.phase = "admit"]
      <4>1. /\ call'.phase = "admit" /\ call'.key = call.key
            /\ call'.sweeping = call.sweeping /\ call'.chosen = call.chosen
        BY <1>0, <3>2 DEF CallState
      <4>2. held'[call.key] # None
        BY <1>0, <1>3, <2>1, <2>3, <2>4, NoneIsNothing DEF RegistryInv
      <4>3. QED
        BY <1>3, <2>5, <4>1, <4>2 DEF CallInv, Capturing
    <3>3. QED
      BY <2>1, <3>1, <3>2
  <2>8. QED
    BY <1>5, <2>2, <2>6, <2>7 DEF TypeInv
<1>7. CASE ~heard.reply.ok
  <2>1. /\ call' = [call EXCEPT !.phase = "reconcile"]
        /\ UNCHANGED <<policy, records, held>>
    BY <1>1, <1>7
  <2>2. PolicyInv'
    BY <1>0, <2>1 DEF PolicyInv
  <2>3. /\ call' \in CallState /\ call'.phase = "reconcile"
        /\ call'.sweeping = call.sweeping /\ call'.chosen = call.chosen
        /\ call'.orphans = call.orphans
    BY <1>0, <2>1 DEF CallState, Phases
  <2>4. RegistryInv'
    BY <1>0, <1>2, <1>5, <2>1, <2>3, RegistryKept
  <2>5. CallInv'
    BY <1>3, <2>3 DEF CallInv, Capturing
  <2>6. QED
    BY <1>5, <2>2, <2>4, <2>5 DEF TypeInv
<1>8. QED
  BY <1>6, <1>7

(* Admissions and trims.                                                   *)
LEMMA TypeBinding ==
    ASSUME TypeInv,
           \/ BindStep
           \/ \E targetSequences, targetBytes : TrimTo(targetSequences, targetBytes)
    PROVE  TypeInv'
<1>0. CallInv /\ call \in CallState /\ ServerInv /\ RegistryInv /\ PolicyInv
  BY DEF TypeInv, CallInv
<1>1. UNCHANGED <<server, pinned, late, faults>> /\ ThenFlush
  BY DEF BindStep, TrimTo, transport
<1>2. ServerInv'
  BY <1>0, <1>1 DEF ServerInv, Waiting
<1>3. CallInv' /\ call'.orphans = {}
  <2>1. call' = [Idle EXCEPT !.phase = "flush", !.done = TRUE]
    BY <1>1 DEF ThenFlush
  <2>2. QED
    BY <2>1, QuietCall
<1>4. /\ PolicyInv'
      /\ records' \in [Keys -> Ids \cup {None}]
      /\ held' \in [Keys -> Ids \cup {None}]
      /\ pending' \subseteq Owned
      /\ Owned' \subseteq Owned
  <2>1. CASE BindStep
    <3>1. PICK key \in Keys :
              /\ held[key] # None
              /\ held' = [held EXCEPT ![key] = None]
              /\ PolicyInv'
              /\ Declines(key) \/ \E victims \in SUBSET Keys : Admits(key, victims)
      BY <2>1 DEF BindStep
    <3>2. held' \in [Keys -> Ids \cup {None}] /\ HeldHandles' \subseteq HeldHandles
      BY <1>0, <3>1 DEF RegistryInv, HeldHandles
    <3>3. held[key] \in HeldHandles /\ held[key] \in Ids
      BY <1>0, <3>1 DEF RegistryInv, HeldHandles
    <3>4. CASE Declines(key)
      <4>1. records' = records /\ pending' = pending \cup {held[key]}
        BY <3>4 DEF Declines
      <4>2. Bound' = Bound
        BY <4>1 DEF Bound
      <4>3. QED
        BY <1>0, <3>1, <3>2, <3>3, <4>1, <4>2 DEF RegistryInv, Owned
    <3>5. ASSUME NEW victims \in SUBSET Keys, Admits(key, victims)
          PROVE  /\ records' \in [Keys -> Ids \cup {None}]
                 /\ pending' \subseteq Owned
                 /\ Owned' \subseteq Owned
      <4>1. /\ records' = [k \in Keys |-> IF k = key THEN held[key]
                                          ELSE IF k \in victims THEN None ELSE records[k]]
            /\ pending' = (pending \cup {records[k] : k \in {j \in victims : records[j] # None}})
                              \ {held[key]}
        BY <3>5 DEF Admits
      <4>2. records' \in [Keys -> Ids \cup {None}]
        BY <1>0, <3>3, <4>1 DEF RegistryInv
      <4>3. Bound' \subseteq Bound \cup HeldHandles
        BY <3>3, <4>1 DEF Bound
      <4>4. pending' \subseteq pending \cup Bound
        BY <4>1 DEF Bound
      <4>5. QED
        BY <3>2, <4>2, <4>3, <4>4 DEF Owned
    <3>6. QED
      BY <3>1, <3>2, <3>4, <3>5
  <2>2. ASSUME NEW targetSequences, NEW targetBytes, TrimTo(targetSequences, targetBytes)
        PROVE  /\ PolicyInv'
               /\ records' \in [Keys -> Ids \cup {None}]
               /\ held' \in [Keys -> Ids \cup {None}]
               /\ pending' \subseteq Owned
               /\ Owned' \subseteq Owned
    <3> DEFINE evicted == PlanTrim(policy, targetSequences, targetBytes)
    <3>1. policy' = CommitTrim(policy, evicted) /\ Unbind(evicted) /\ held' = held
      BY <2>2 DEF TrimTo
    <3>2. evicted \subseteq Keys
      BY <1>0 DEF PlanTrim, Indexed, PolicyInv, Coherent, WellTyped
    <3> HIDE DEF evicted
    <3>3. PolicyInv'
      <4>1. Coherent(policy') /\ WithinLimits(policy') /\ SingleStable(policy')
        BY <1>0, <3>1, TrimSafe DEF PolicyInv
      <4>2. QED
        BY <4>1 DEF PolicyInv
    <3>4. /\ pending' = pending \cup {records[k] : k \in {j \in evicted : records[j] # None}}
          /\ records' = [k \in Keys |-> IF k \in evicted THEN None ELSE records[k]]
      BY <3>1 DEF Unbind
    <3>5. records' \in [Keys -> Ids \cup {None}]
      BY <1>0, <3>4 DEF RegistryInv
    <3>6. pending' \subseteq pending \cup Bound /\ Bound' \subseteq Bound
      BY <3>2, <3>4 DEF Bound
    <3>7. HeldHandles' = HeldHandles
      BY <3>1 DEF HeldHandles
    <3>8. QED
      BY <1>0, <3>1, <3>3, <3>5, <3>6, <3>7 DEF RegistryInv, Owned
  <2>3. QED
    BY <2>1, <2>2
<1>5. Owned \subseteq Ids
  BY <1>0 DEF RegistryInv, Owned, Bound, HeldHandles
<1>6. RegistryInv'
  BY <1>0, <1>1, <1>3, <1>4, <1>5 DEF RegistryInv
<1>7. QED
  BY <1>2, <1>3, <1>4, <1>6 DEF TypeInv

(* Lookups.                                                                *)
LEMMA TypeLookup ==
    ASSUME TypeInv, ClearLiveSlot \/ RestoreLive
    PROVE  TypeInv'
<1>0. CallInv /\ call \in CallState /\ ServerInv /\ RegistryInv /\ PolicyInv
  BY DEF TypeInv, CallInv
<1>1. /\ UNCHANGED registry
      /\ \/ /\ call.phase = "clear"
            /\ call' = [call EXCEPT !.phase = "select"] \/ call' = Idle
         \/ /\ call.phase = "restore"
            /\ call' = [call EXCEPT !.phase = "probe"] \/ call' = Idle
  BY DEF ClearLiveSlot, RestoreLive
<1>2. PICK request :
          /\ request.action \in {"clear", "restore"} /\ request.epoch = pinned
          /\ \E heard \in Exchanges(request) : Take(heard)
  <2>1. CASE ClearLiveSlot
    <3> DEFINE clear == [action |-> "clear", epoch |-> pinned]
    <3>1. \E heard \in Exchanges(clear) : Take(heard)
      BY <2>1 DEF ClearLiveSlot
    <3>2. clear.action = "clear" /\ clear.epoch = pinned
      OBVIOUS
    <3>3. QED
      BY <3>1, <3>2
  <2>2. CASE RestoreLive
    <3> DEFINE restore == [action |-> "restore", epoch |-> pinned,
                           handle |-> records[call.chosen]]
    <3>1. \E heard \in Exchanges(restore) : Take(heard)
      BY <2>2 DEF RestoreLive
    <3>2. restore.action = "restore" /\ restore.epoch = pinned
      OBVIOUS
    <3>3. QED
      BY <3>1, <3>2
  <2>3. QED
    BY <2>1, <2>2
<1>3. /\ ServerInv' /\ server'.epoch = server.epoch /\ server'.next >= server.next
      /\ server'.next \in Nat
  <2>1. ServerInv' /\ server'.epoch = server.epoch /\ server'.next >= server.next
    BY <1>0, <1>1, <1>2, FacadeExchange DEF Actions, registry
  <2>2. QED
    BY <2>1 DEF ServerInv, Proper
<1>4. CallInv' /\ call'.orphans \subseteq call.orphans
  <2>1. CASE call' = Idle
    BY <2>1, IdleInv
  <2>2. CASE call' # Idle
    <3>1. /\ call' \in CallState
          /\ \/ call.phase = "clear" /\ call'.phase = "select"
             \/ call.phase = "restore" /\ call'.phase = "probe"
          /\ call'.key = call.key /\ call'.sweeping = call.sweeping
          /\ call'.orphans = call.orphans /\ call'.chosen = call.chosen
      BY <1>0, <1>1, <2>2 DEF CallState, Phases
    <3>2. CallInv'
      BY <1>0, <1>1, <3>1 DEF CallInv, Capturing, registry
    <3>3. QED
      BY <3>1, <3>2
  <2>3. QED
    BY <2>1, <2>2
<1>5. RegistryInv' /\ PolicyInv'
  <2>1. PolicyInv'
    BY <1>0, <1>1 DEF PolicyInv, registry
  <2>2. QED
    BY <1>0, <1>1, <1>3, <1>4, <2>1, RegistryKept DEF registry
<1>6. QED
  BY <1>3, <1>4, <1>5 DEF TypeInv

(* A completion on the slot.                                               *)
LEMMA CompletedFields ==
    ASSUME Proper(server), NEW prompt \in Keys,
           server' \in {server, Completed(server, prompt)}
    PROVE  /\ Proper(server')
           /\ server'.epoch = server.epoch /\ server'.next = server.next
           /\ server'.states = server.states /\ Handles(server') = Handles(server)
           /\ server'.slot \in {server.slot, prompt}
<1>1. CASE server' = server
  BY <1>1
<1>2. CASE server' = Completed(server, prompt)
  <2> DEFINE t == [server EXCEPT !.slot = prompt]
  <2>1. server' = t
    BY <1>2 DEF Completed
  <2>2. /\ Proper(t)
        /\ t.epoch = server.epoch /\ t.next = server.next
        /\ t.states = server.states /\ Handles(t) = Handles(server)
        /\ t.slot = prompt
    BY SlotFields
  <2> HIDE DEF t
  <2>3. QED
    BY <2>1, <2>2
<1>3. QED
  BY <1>1, <1>2

LEMMA TypeCompletion ==
    ASSUME TypeInv, Probe \/ ProbeFails \/ \E prompt \in Keys : Generate(prompt)
    PROVE  TypeInv'
<1>0. CallInv /\ call \in CallState /\ ServerInv /\ RegistryInv /\ PolicyInv
  BY DEF TypeInv, CallInv
<1>1. /\ UNCHANGED <<pinned, records, pending, held, late, missed>>
      /\ call' = Idle
      /\ faults' = faults \/ (faults < MaxFaults /\ faults' = faults + 1)
      /\ policy' = policy \/ policy' = AddHit(policy, call.chosen)
      /\ \E prompt \in Keys : server' \in {server, Completed(server, prompt)}
  <2>1. call.phase = "probe" => call.key \in Keys
    BY <1>0 DEF CallInv
  <2>2. QED
    BY <2>1 DEF Probe, ProbeFails, Generate, transport, registry
<1>2. /\ Proper(server')
      /\ server'.epoch = server.epoch /\ server'.next = server.next
      /\ Handles(server') = Handles(server)
  BY <1>0, <1>1, CompletedFields DEF ServerInv
<1>3. ServerInv'
  <2>1. faults' \in 0 .. MaxFaults
    BY <1>0, <1>1, ManagedAssumption DEF ServerInv
  <2>2. QED
    BY <1>0, <1>1, <1>2, <2>1 DEF ServerInv, Waiting
<1>4. CallInv' /\ call'.orphans = {}
  BY <1>1, IdleInv
<1>5. RegistryInv'
  BY <1>0, <1>1, <1>2, <1>3, <1>4, RegistryKept DEF ServerInv, Proper
<1>6. PolicyInv'
  <2>1. CASE policy' = policy
    BY <1>0, <2>1 DEF PolicyInv
  <2>2. CASE policy' = AddHit(policy, call.chosen)
    <3>1. Coherent(policy') /\ WithinLimits(policy') /\ SingleStable(policy')
      BY <1>0, <2>2, HitCoherent DEF PolicyInv
    <3>2. QED
      BY <3>1 DEF PolicyInv
  <2>3. QED
    BY <1>1, <2>1, <2>2
<1>7. QED
  BY <1>3, <1>4, <1>5, <1>6 DEF TypeInv

(* Reloads, late requests and new facades.                                 *)
LEMMA LoadedProper ==
    ASSUME NEW epoch \in Nat
    PROVE  /\ Proper(Loaded(epoch)) /\ Handles(Loaded(epoch)) = {}
           /\ Loaded(epoch).epoch = epoch /\ Loaded(epoch).next = 1
           /\ Loaded(epoch).slot = None
<1> DEFINE t == Loaded(epoch)
<1>1. /\ DOMAIN t = {"epoch", "states", "next", "slot"}
      /\ t.epoch = epoch /\ t.states = <<>> /\ t.next = 1 /\ t.slot = None
  BY DEF Loaded
<1> HIDE DEF t
<1>2. Handles(t) = {}
  BY <1>1 DEF Handles
<1>3. t.states \in [Handles(t) -> State]
  BY <1>1, <1>2
<1>4. Proper(t)
  BY <1>1, <1>2, <1>3 DEF Proper
<1>5. QED
  BY <1>1, <1>2, <1>4 DEF t

LEMMA TypeLoad ==
    ASSUME TypeInv, Load
    PROVE  TypeInv' /\ pinned' # server'.epoch
<1>0. CallInv /\ call \in CallState /\ ServerInv /\ RegistryInv /\ PolicyInv
  BY DEF TypeInv, CallInv
<1>1. /\ server' = Loaded(server.epoch + 1)
      /\ UNCHANGED <<call, late, faults, registry>>
  BY DEF Load
<1>2. server.epoch \in Nat
  BY <1>0 DEF ServerInv, Proper
<1>3. /\ Proper(server') /\ server'.epoch = server.epoch + 1 /\ server'.next = 1
      /\ Handles(server') = {}
  BY <1>1, <1>2, LoadedProper
<1>4. pinned' \in 1 .. server'.epoch /\ pinned' # server'.epoch
  BY <1>0, <1>1, <1>2, <1>3 DEF ServerInv, registry
<1>5. server'.next <= MaxHandle /\ server'.next <= MaxHandle + 1
  BY <1>3, ManagedAssumption
<1>6. Waiting'
  BY <1>0, <1>1, <1>2, <1>3 DEF ServerInv, Waiting, registry
<1>7. ServerInv'
  BY <1>0, <1>1, <1>3, <1>4, <1>5, <1>6 DEF ServerInv
<1>8. CallInv'
  BY <1>0, <1>1, <1>5 DEF CallInv, Capturing, registry
<1>9. RegistryInv' /\ PolicyInv'
  BY <1>0, <1>1, <1>4 DEF RegistryInv, PolicyInv, registry
<1>10. QED
  BY <1>4, <1>7, <1>8, <1>9 DEF TypeInv

LEMMA TypeLate ==
    ASSUME TypeInv, NEW request \in late, RunLate(request)
    PROVE  /\ TypeInv'
           /\ request.action \in Actions \cap LateActions
           /\ request.action = "drop" /\ request.epoch = server.epoch
                 => request.handle \in 1 .. server.next - 1
           /\ Effect(server, server', request)
           /\ late' \subseteq late /\ missed \subseteq missed'
           /\ request.action = "capture" => Handles(server) \ Handles(server') \subseteq missed'
           /\ UNCHANGED <<call, faults, registry>>
           /\ server'.epoch = server.epoch /\ server'.next >= server.next
<1>0. CallInv /\ call \in CallState /\ ServerInv /\ RegistryInv /\ PolicyInv
  BY DEF TypeInv, CallInv
<1>1. PICK outcome \in Execute(server, request) :
          /\ server' = outcome.server
          /\ missed' = IF request.action = "capture"
                       THEN missed \cup (Handles(server) \ Handles(outcome.server))
                       ELSE missed
  BY DEF RunLate
<1>2. /\ late' \subseteq late
      /\ UNCHANGED <<call, faults, registry>>
      /\ request.action = "capture" => server.next < MaxHandle
  BY DEF RunLate
<1>3. /\ request.action \in Actions \cap LateActions
      /\ request.epoch \in 1 .. pinned
      /\ request.action = "drop" /\ request.epoch = server.epoch
            => request.handle \in 1 .. server.next - 1
  BY <1>0 DEF ServerInv, Waiting
<1>4. Proper(server) /\ server.next \in Nat /\ server.next <= MaxHandle + 1
  BY <1>0 DEF ServerInv, Proper
<1>5. Effect(server, server', request)
  BY <1>1, <1>3, <1>4, ExecuteEffect
<1>6. ServerInv' /\ server'.epoch = server.epoch /\ server'.next >= server.next
  <2>1. request.action = "capture" => server.next <= MaxHandle
    BY <1>2, <1>4, ManagedAssumption
  <2>2. pinned' = pinned /\ faults' \in 0 .. MaxFaults
    BY <1>0, <1>2 DEF ServerInv, registry
  <2>3. QED
    BY <1>0, <1>2, <1>3, <1>5, <2>1, <2>2, EffectServer
<1>7. CallInv'
  <2>1. Capturing => server'.next <= MaxHandle
    <3>1. server'.next = server.next
             \/ (request.action = "capture" /\ server'.next = server.next + 1)
      BY <1>5 DEF Effect
    <3>2. QED
      BY <1>0, <1>2, <1>4, <3>1, ManagedAssumption DEF CallInv
  <2>2. QED
    BY <1>0, <1>2, <2>1 DEF CallInv, Capturing, registry
<1>8. RegistryInv' /\ PolicyInv'
  <2>1. server'.next \in Nat
    BY <1>6 DEF ServerInv, Proper
  <2>2. RegistryInv'
    BY <1>0, <1>2, <1>6, <2>1, RegistryKept DEF registry
  <2>3. PolicyInv'
    BY <1>0, <1>2 DEF PolicyInv, registry
  <2>4. QED
    BY <2>2, <2>3
<1>9. QED
  BY <1>1, <1>2, <1>3, <1>5, <1>6, <1>7, <1>8 DEF TypeInv

\* The registry of a new facade.
Blank ==
    /\ policy = EmptyPolicy
    /\ pinned = server.epoch
    /\ records = NoBindings
    /\ pending = {}
    /\ held = NoBindings
    /\ call = Idle
    /\ Handles(server) = {}

LEMMA BlankRegistry ==
    ASSUME Blank
    PROVE  /\ PolicyInv /\ RegistryInv /\ CallInv
           /\ Bound = {} /\ HeldHandles = {} /\ Owned = {} /\ Resident(policy) = {}
<1>1. Bound = {} /\ HeldHandles = {} /\ Owned = {}
  BY DEF Blank, NoBindings, Bound, HeldHandles, Owned
<1>2. RegistryInv
  BY <1>1, IdleCall DEF Blank, NoBindings, RegistryInv
<1>3. PolicyInv
  BY EmptySafe DEF Blank, PolicyInv
<1>4. CallInv
  BY IdleCall DEF Blank, CallInv, Capturing
<1>5. Resident(policy) = {}
  BY DEF Blank, EmptyPolicy, Resident
<1>6. QED
  BY <1>1, <1>2, <1>3, <1>4, <1>5

LEMMA TypeConnect ==
    ASSUME TypeInv, Connect
    PROVE  TypeInv' /\ Blank' /\ UNCHANGED <<server, late>>
<1>1. /\ UNCHANGED <<server, call, late, faults>> /\ pinned' = server.epoch
      /\ Blank'
  BY DEF Connect, Blank, transport
<1>2. PolicyInv' /\ RegistryInv' /\ CallInv'
  BY <1>1, BlankRegistry, PTL
<1>3. ServerInv'
  <2>1. server.epoch \in Nat /\ pinned \in 1 .. server.epoch
    BY DEF TypeInv, ServerInv, Proper
  <2>2. QED
    BY <1>1, <2>1 DEF TypeInv, ServerInv, Waiting
<1>4. QED
  BY <1>1, <1>2, <1>3 DEF TypeInv

\* The kinds of steps there are.
Step ==
    \/ \E key \in Keys, stable \in BOOLEAN : StartCapture(key, stable)
    \/ ReconcileOrphans
    \/ \E prompt \in Keys : Lookup(prompt)
    \/ BindStep
    \/ \E targetSequences, targetBytes : TrimTo(targetSequences, targetBytes)
    \/ \E h : FlushDrop(h) \/ SweepDrop(h)
    \/ Confirm
    \/ CaptureSlot
    \/ FlushDone \/ Reconcile \/ SweepDone \/ Select
    \/ ClearLiveSlot
    \/ RestoreLive
    \/ Probe \/ ProbeFails \/ \E prompt \in Keys : Generate(prompt)
    \/ Load
    \/ \E request \in late : RunLate(request)
    \/ Connect

LEMMA NextSteps ==
    ASSUME TypeInv, Next
    PROVE  Step
<1>1. PolicyInv /\ (call.phase = "admit" => call.key \in Keys /\ held[call.key] # None)
  BY DEF TypeInv, CallInv
<1>2. CASE Start
  BY <1>2 DEF Start, Step
<1>3. CASE \/ call = Idle /\ Admission
           \/ call.phase = "admit" /\ Admission
           \/ AdmitStableCandidate
  BY <1>1, <1>3, AdmissionBinds DEF Step
<1>4. CASE Advance /\ ~(call.phase = "admit" /\ Admission) /\ ~AdmitStableCandidate
  BY <1>4 DEF Advance, Step
<1>5. CASE Environment
  BY <1>5 DEF Environment, Step
<1>6. QED
  BY <1>2, <1>3, <1>4, <1>5 DEF Next

LEMMA TypeStep ==
    ASSUME TypeInv, Step
    PROVE  TypeInv'
BY TypeStart, TypeBinding, TypeDrop, TypeConfirm, TypeCapture, TypeAdvance,
   TypeLookup, TypeCompletion, TypeLoad, TypeLate, TypeConnect DEF Step

LEMMA TypeStutter ==
    ASSUME TypeInv, UNCHANGED vars
    PROVE  TypeInv'
BY DEF vars, TypeInv, PolicyInv, ServerInv, Waiting, RegistryInv, Owned, Bound,
       HeldHandles, CallInv, Capturing

LEMMA InitBlank ==
    ASSUME Init
    PROVE  /\ Blank /\ TypeInv
           /\ server.slot = None /\ late = {} /\ faults = 0 /\ missed = {}
<1>1. /\ Proper(server) /\ Handles(server) = {}
      /\ server.epoch = 1 /\ server.next = 1 /\ server.slot = None
  <2>1. server = Loaded(1) /\ 1 \in Nat
    BY DEF Init
  <2>2. QED
    BY <2>1, LoadedProper
<1>2. Blank
  BY <1>1 DEF Init, Blank
<1>3. PolicyInv /\ RegistryInv /\ CallInv
  BY <1>2, BlankRegistry
<1>4. ServerInv
  BY <1>1, ManagedAssumption DEF Init, ServerInv, Waiting
<1>5. QED
  BY <1>1, <1>2, <1>3, <1>4 DEF Init, TypeInv

(* The types are an inductive invariant.                                   *)
LEMMA TypesHold == Spec => []TypeInv
<1>1. Init => TypeInv
  BY InitBlank
<1>2. TypeInv /\ [Next]_vars => TypeInv'
  BY NextSteps, TypeStep, TypeStutter
<1>3. QED
  BY <1>1, <1>2, PTL DEF Spec

LEMMA TypesFollow ==
    ASSUME TypeInv
    PROVE  TypeOK
<1>1. Handles(server) \subseteq Ids
  <2>1. Handles(server) \subseteq 1 .. server.next - 1 /\ server.next \in Nat
        /\ server.next <= MaxHandle + 1 /\ MaxHandle \in Nat
    BY ManagedAssumption DEF TypeInv, ServerInv, Proper
  <2>2. QED
    BY <2>1 DEF Ids
<1>2. call.orphans \subseteq Ids /\ call.chosen \in Resident(policy) \cup {None}
  BY DEF TypeInv, CallInv, CallState
<1>3. QED
  BY <1>1, <1>2 DEF TypeOK, TypeInv, PolicyInv, Coherent, ServerInv, RegistryInv

(* Every variable of the managed cache keeps its type, and the policy of   *)
(* the facade stays well-formed, in every phase of every call.             *)
THEOREM ManagedTypes == Spec => []TypeOK
<1>1. TypeInv => TypeOK
  BY TypesFollow
<1>2. QED
  BY <1>1, TypesHold, PTL

(* A facade whose epoch is over leaves no state in the new store: not one  *)
(* of its requests takes effect there, however late it is executed.        *)
THEOREM StaleFacadeIsHarmless == Spec => []StaleFacadeHarmless
<1>1. TypeInv => StaleFacadeHarmless
  BY DEF TypeInv, ServerInv, StaleFacadeHarmless
<1>2. QED
  BY <1>1, TypesHold, PTL

-----------------------------------------------------------------------------
(* What the steps that call the server do.                                 *)

Heeded(request, heard) ==
    /\ Exchanged(request, heard)
    /\ server' = heard.server /\ late' = heard.late
    /\ faults' = heard.faults /\ missed' = heard.missed

ClearRequest == [action |-> "clear", epoch |-> pinned]
DropRequest(h) == [action |-> "drop", epoch |-> pinned, handle |-> h]
CaptureRequest == [action |-> "capture", epoch |-> pinned, prompt |-> call.key]
RestoreRequest == [action |-> "restore", epoch |-> pinned, handle |-> records[call.chosen]]

LEMMA RequestFields ==
    /\ ClearRequest.action = "clear" /\ ClearRequest.epoch = pinned
    /\ \A h : /\ DropRequest(h).action = "drop" /\ DropRequest(h).epoch = pinned
              /\ DropRequest(h).handle = h
    /\ CaptureRequest.action = "capture" /\ CaptureRequest.epoch = pinned
    /\ CaptureRequest.prompt = call.key
    /\ RestoreRequest.action = "restore" /\ RestoreRequest.epoch = pinned
    /\ RestoreRequest.handle = records[call.chosen]
BY DEF ClearRequest, DropRequest, CaptureRequest, RestoreRequest

LEMMA DropFacts ==
    ASSUME TypeInv, NEW h, FlushDrop(h) \/ SweepDrop(h)
    PROVE  /\ UNCHANGED <<policy, pinned, records, held>>
           /\ \/ call.phase = "flush" /\ h \in pending
              \/ call.phase = "sweep" /\ h \in call.orphans
           /\ \/ /\ h \in Bound /\ h \in pending /\ pending' = pending \ {h}
                 /\ UNCHANGED <<server, call, transport>>
              \/ /\ call.phase = "flush" => h \notin Bound
                 /\ \E heard :
                    /\ Heeded(DropRequest(h), heard)
                    /\ IF heard.reply.ok
                       THEN /\ pending' = pending \ {h}
                            /\ call' = [call EXCEPT !.orphans = @ \ {h}]
                       ELSE /\ call' = [call EXCEPT !.phase = "confirm", !.handle = h]
                            /\ UNCHANGED pending
<1>1. /\ UNCHANGED <<policy, pinned, records, held>>
      /\ \/ call.phase = "flush" /\ h \in pending
         \/ call.phase = "sweep" /\ h \in call.orphans
      /\ \/ /\ h \in Bound /\ h \in pending /\ pending' = pending \ {h}
            /\ UNCHANGED <<server, call, transport>>
         \/ /\ call.phase = "flush" => h \notin Bound
            /\ DropHandle(h)
  BY DEF FlushDrop, SweepDrop
<1>2. CASE DropHandle(h)
  <2>1. PICK heard \in Exchanges(DropRequest(h)) :
            /\ Take(heard)
            /\ IF heard.reply.ok
               THEN /\ pending' = pending \ {h}
                    /\ call' = [call EXCEPT !.orphans = @ \ {h}]
               ELSE /\ call' = [call EXCEPT !.phase = "confirm", !.handle = h]
                    /\ UNCHANGED pending
    BY <1>2 DEF DropHandle, DropRequest
  <2>2. pinned = server.epoch => h \in 1 .. server.next - 1
    BY <1>1 DEF TypeInv, RegistryInv, Owned
  <2>3. DropRequest(h).action \in Actions /\ DropRequest(h).action # "capture"
    BY RequestFields DEF Actions
  <2>4. Heeded(DropRequest(h), heard)
    BY <1>1, <2>1, <2>2, <2>3, RequestFields, FacadeExchange DEF TypeInv, Heeded
  <2>5. QED
    BY <1>1, <2>1, <2>4
<1>3. QED
  BY <1>1, <1>2

LEMMA CaptureFacts ==
    ASSUME TypeInv, CaptureSlot
    PROVE  /\ call.phase = "capture" /\ UNCHANGED <<pinned, pending>>
           /\ call.key \in Keys /\ held[call.key] = None
           /\ pending = {} /\ call.orphans = {} /\ ~call.sweeping
           /\ \E heard :
                 /\ Heeded(CaptureRequest, heard)
                 /\ IF heard.reply.ok
                    THEN LET gone == Forgotten(heard.reply.evicted)
                         IN  /\ policy' = CommitTrim(policy, gone)
                             /\ records' = [k \in Keys |-> IF k \in gone THEN None ELSE records[k]]
                             /\ held' = [held EXCEPT ![call.key] = heard.reply.handle]
                             /\ call' = IF SplitCalls /\ ~call.stable THEN Idle
                                        ELSE [call EXCEPT !.phase = "admit"]
                    ELSE /\ call' = [call EXCEPT !.phase = "reconcile"]
                         /\ UNCHANGED <<policy, records, held>>
<1>1. PICK heard \in Exchanges(CaptureRequest) :
          /\ Take(heard)
          /\ IF heard.reply.ok
             THEN LET gone == Forgotten(heard.reply.evicted)
                  IN  /\ policy' = CommitTrim(policy, gone)
                      /\ records' = [k \in Keys |-> IF k \in gone THEN None ELSE records[k]]
                      /\ held' = [held EXCEPT ![call.key] = heard.reply.handle]
                      /\ call' = IF SplitCalls /\ ~call.stable THEN Idle
                                 ELSE [call EXCEPT !.phase = "admit"]
             ELSE /\ call' = [call EXCEPT !.phase = "reconcile"]
                  /\ UNCHANGED <<policy, records, held>>
  BY DEF CaptureSlot, CaptureRequest
<1>2. call.phase = "capture" /\ UNCHANGED <<pinned, pending>>
  BY DEF CaptureSlot
<1>3. /\ call.key \in Keys /\ held[call.key] = None /\ server.next <= MaxHandle
      /\ pending = {} /\ call.orphans = {} /\ ~call.sweeping
  BY <1>2 DEF TypeInv, CallInv, Capturing
<1>4. CaptureRequest.action \in Actions /\ CaptureRequest.action # "drop"
  BY RequestFields DEF Actions
<1>5. Heeded(CaptureRequest, heard)
  BY <1>1, <1>2, <1>3, <1>4, RequestFields, FacadeExchange DEF TypeInv, Heeded
<1>6. QED
  BY <1>1, <1>2, <1>3, <1>5

LEMMA ClearFacts ==
    ASSUME TypeInv, ClearLiveSlot
    PROVE  /\ call.phase = "clear" /\ UNCHANGED registry
           /\ \E heard :
                 /\ Heeded(ClearRequest, heard)
                 /\ call' = IF heard.reply.ok THEN [call EXCEPT !.phase = "select"] ELSE Idle
<1>1. PICK heard \in Exchanges(ClearRequest) :
          /\ Take(heard)
          /\ call' = IF heard.reply.ok THEN [call EXCEPT !.phase = "select"] ELSE Idle
  BY DEF ClearLiveSlot, ClearRequest
<1>2. call.phase = "clear" /\ UNCHANGED registry
  BY DEF ClearLiveSlot
<1>3. /\ ClearRequest.action \in Actions
      /\ ClearRequest.action # "drop" /\ ClearRequest.action # "capture"
  BY RequestFields DEF Actions
<1>4. Heeded(ClearRequest, heard)
  BY <1>1, <1>2, <1>3, RequestFields, FacadeExchange DEF TypeInv, Heeded, registry
<1>5. QED
  BY <1>1, <1>2, <1>4

LEMMA RestoreFacts ==
    ASSUME TypeInv, RestoreLive
    PROVE  /\ call.phase = "restore" /\ UNCHANGED registry
           /\ \E heard :
                 /\ Heeded(RestoreRequest, heard)
                 /\ call' = IF heard.reply.ok THEN [call EXCEPT !.phase = "probe"] ELSE Idle
<1>1. PICK heard \in Exchanges(RestoreRequest) :
          /\ Take(heard)
          /\ call' = IF heard.reply.ok THEN [call EXCEPT !.phase = "probe"] ELSE Idle
  BY DEF RestoreLive, RestoreRequest
<1>2. call.phase = "restore" /\ UNCHANGED registry
  BY DEF RestoreLive
<1>3. /\ RestoreRequest.action \in Actions
      /\ RestoreRequest.action # "drop" /\ RestoreRequest.action # "capture"
  BY RequestFields DEF Actions
<1>4. Heeded(RestoreRequest, heard)
  BY <1>1, <1>2, <1>3, RequestFields, FacadeExchange DEF TypeInv, Heeded, registry
<1>5. QED
  BY <1>1, <1>2, <1>4

\* Steps of a call on the facade's own state.
LocalStep ==
    \/ \E key \in Keys, stable \in BOOLEAN : StartCapture(key, stable)
    \/ ReconcileOrphans
    \/ \E prompt \in Keys : Lookup(prompt)
    \/ FlushDone \/ Reconcile \/ SweepDone \/ Select

LEMMA LocalFacts ==
    ASSUME LocalStep
    PROVE  UNCHANGED <<server, late, missed, registry>>
BY DEF LocalStep, StartCapture, ReconcileOrphans, Lookup, FlushDone, Reconcile,
       SweepDone, Select, transport

LEMMA CompletionFacts ==
    ASSUME TypeInv, Probe \/ ProbeFails \/ \E prompt \in Keys : Generate(prompt)
    PROVE  /\ UNCHANGED <<pinned, records, pending, held, late, missed>>
           /\ call' = Idle /\ faults' \in {faults, faults + 1}
           /\ server'.epoch = server.epoch /\ server'.next = server.next
           /\ server'.states = server.states /\ Handles(server') = Handles(server)
           /\ Resident(policy') = Resident(policy)
           /\ \A k \in Resident(policy) :
                 policy'.entries[k].nbytes = policy.entries[k].nbytes
<1>1. /\ UNCHANGED <<pinned, records, pending, held, late, missed>>
      /\ call' = Idle /\ faults' \in {faults, faults + 1}
      /\ policy' = policy \/ policy' = AddHit(policy, call.chosen)
      /\ \E prompt \in Keys : server' \in {server, Completed(server, prompt)}
  <2>1. call.phase = "probe" => call.key \in Keys
    BY DEF TypeInv, CallInv
  <2>2. QED
    BY <2>1 DEF Probe, ProbeFails, Generate, transport, registry
<1>2. Proper(server)
  BY DEF TypeInv, ServerInv
<1>3. /\ Resident(policy') = Resident(policy)
      /\ \A k \in Resident(policy) : policy'.entries[k].nbytes = policy.entries[k].nbytes
  <2>1. CASE policy' = policy
    BY <2>1
  <2>2. CASE policy' = AddHit(policy, call.chosen) /\ call.chosen \in Resident(policy)
    <3>1. policy' = [policy EXCEPT !.entries[call.chosen].hits = @ + 1]
      BY <2>2 DEF AddHit
    <3>2. policy.entries \in [Resident(policy) -> EntryState] /\ "entries" \in DOMAIN policy
      BY DEF TypeInv, PolicyInv, Coherent, WellTyped
    <3>3. policy'.entries = [policy.entries EXCEPT ![call.chosen].hits = @ + 1]
      BY <3>1, <3>2
    <3>4. QED
      BY <3>2, <3>3 DEF Resident, EntryState
  <2>3. CASE policy' = AddHit(policy, call.chosen) /\ call.chosen \notin Resident(policy)
    BY <2>3 DEF AddHit
  <2>4. QED
    BY <1>1, <2>1, <2>2, <2>3
<1>4. QED
  BY <1>1, <1>2, <1>3, CompletedFields

-----------------------------------------------------------------------------
(* Ownership.                                                              *)

\* A handle the facade or its caller knows means the prompt of its key.
Authentic ==
    pinned = server.epoch =>
        \A k \in Keys :
            /\ records[k] \in Handles(server) => server.states[records[k]].prompt = k
            /\ held[k] \in Handles(server) => server.states[held[k]].prompt = k

OwnerInv == SingleOwner /\ Authentic

(* Fewer pending drops disturb no owner.                                   *)
LEMMA OwnersKept ==
    ASSUME SingleOwner, UNCHANGED <<records, held>>, pending' \subseteq pending,
           Resident(policy') = Resident(policy),
           \A k \in Resident(policy) : policy'.entries[k].nbytes = policy.entries[k].nbytes
    PROVE  SingleOwner'
<1>1. Bound' = Bound /\ HeldHandles' = HeldHandles
  BY DEF Bound, HeldHandles
<1>2. Agreement'
  BY DEF SingleOwner, Agreement
<1>3. QED
  BY <1>1, <1>2 DEF SingleOwner

(* No request that is executed changes what a known handle means.          *)
LEMMA AuthenticKept ==
    ASSUME TypeInv, Authentic, NEW request, Effect(server, server', request),
           UNCHANGED <<pinned, records, held>>
    PROVE  Authentic'
<1>1. SUFFICES ASSUME pinned = server.epoch, NEW k \in Keys, NEW h \in {records[k], held[k]},
                      h \in Handles(server')
               PROVE  h \in Handles(server) /\ server'.states[h].prompt = server.states[h].prompt
  BY DEF Authentic, Effect
<1>2. h \in Owned
  <2>1. h # None
    BY <1>1, NoneIsNothing, ManagedAssumption DEF Effect, Proper
  <2>2. QED
    BY <1>1, <2>1 DEF Owned, Bound, HeldHandles
<1>3. h \in 1 .. server.next - 1 /\ server.next \in Nat
  BY <1>1, <1>2 DEF TypeInv, RegistryInv, ServerInv, Proper
<1>4. h \in Handles(server)
  BY <1>1, <1>3 DEF Effect
<1>5. QED
  BY <1>1, <1>4 DEF Effect

LEMMA AuthenticSame ==
    ASSUME Authentic, server'.epoch = server.epoch, server'.states = server.states,
           UNCHANGED <<pinned, records, held>>
    PROVE  Authentic'
BY DEF Authentic, Handles

(* A trim takes out what it evicts and leaves the rest as it was.          *)
LEMMA TrimKeeps ==
    ASSUME Coherent(policy), NEW S, policy' = CommitTrim(policy, S)
    PROVE  /\ Resident(policy') = Resident(policy) \ S
           /\ \A k \in Resident(policy') : policy'.entries[k] = policy.entries[k]
<1> DEFINE q == RemoveEntries(policy, S)
<1>1. policy' = q
  BY DEF CommitTrim
<1>2. /\ Resident(q) = Resident(policy) \ S
      /\ \A k \in Resident(q) : q.entries[k] = policy.entries[k]
  BY RemoveCoherent
<1> HIDE DEF q
<1>3. QED
  BY <1>1, <1>2

(* A capture gives the caller a new handle, for the prompt of its key.     *)
LEMMA OwnerCapture ==
    ASSUME TypeInv, OwnerInv, CaptureSlot
    PROVE  OwnerInv'
<1> DEFINE key == call.key
<1>1. PICK heard :
          /\ Heeded(CaptureRequest, heard)
          /\ IF heard.reply.ok
             THEN LET gone == Forgotten(heard.reply.evicted)
                  IN  /\ policy' = CommitTrim(policy, gone)
                      /\ records' = [k \in Keys |-> IF k \in gone THEN None ELSE records[k]]
                      /\ held' = [held EXCEPT ![key] = heard.reply.handle]
             ELSE UNCHANGED <<policy, records, held>>
  BY CaptureFacts
<1>2. UNCHANGED <<pinned, pending>> /\ key \in Keys /\ pending = {}
  BY CaptureFacts
<1>3. Effect(server, server', CaptureRequest)
  BY <1>1 DEF Heeded, Exchanged
<1>4. CASE ~heard.reply.ok
  <2>1. UNCHANGED <<policy, records, held>>
    BY <1>1, <1>4
  <2>2. QED
    BY <1>2, <1>3, <2>1, OwnersKept, AuthenticKept DEF OwnerInv
<1>5. CASE heard.reply.ok
  <2> DEFINE gone == Forgotten(heard.reply.evicted)
             new  == server.next
  <2>1. /\ policy' = CommitTrim(policy, gone)
        /\ records' = [k \in Keys |-> IF k \in gone THEN None ELSE records[k]]
        /\ held' = [held EXCEPT ![key] = heard.reply.handle]
    BY <1>1, <1>5
  <2>2. /\ heard.reply.handle = new /\ server'.next = new + 1 /\ pinned = server.epoch
        /\ heard.reply.evicted = Handles(server) \ Handles(server')
    BY <1>1, <1>5, RequestFields DEF Heeded, Exchanged, Answered
  <2>3. /\ held \in [Keys -> Ids \cup {None}] /\ records \in [Keys -> Ids \cup {None}]
        /\ \A k \in Keys : records[k] # new /\ held[k] # new
        /\ new \in Nat \ {0} /\ new # None
    <3>1. Owned \subseteq 1 .. new - 1 /\ new \in Nat \ {0}
      BY <2>2 DEF TypeInv, RegistryInv, ServerInv, Proper
    <3>2. new # None
      BY <3>1, ManagedAssumption
    <3>3. \A k \in Keys : records[k] # new /\ held[k] # new
      BY <3>1, <3>2 DEF Owned, Bound, HeldHandles
    <3>4. QED
      BY <3>1, <3>2, <3>3 DEF TypeInv, RegistryInv
  <2>4. held' = [held EXCEPT ![key] = new]
    BY <2>1, <2>2
  <2>5. /\ Resident(policy') = Resident(policy) \ gone
        /\ \A k \in Resident(policy') : policy'.entries[k] = policy.entries[k]
    BY <2>1, TrimKeeps DEF TypeInv, PolicyInv
  <2> HIDE DEF gone, new
  <2>6. Agreement'
    BY <2>1, <2>5 DEF OwnerInv, SingleOwner, Agreement
  <2>7. Bound' \subseteq Bound /\ HeldHandles' \subseteq HeldHandles \cup {new}
        /\ new \notin Bound
    BY <1>2, <2>1, <2>3, <2>4 DEF Bound, HeldHandles
  <2>8. SingleOwner'
    <3>1. \A j, k \in Keys : records'[j] = records'[k] /\ records'[j] # None => j = k
      BY <2>1 DEF OwnerInv, SingleOwner
    <3>2. \A j, k \in Keys : held'[j] = held'[k] /\ held'[j] # None => j = k
      BY <2>3, <2>4 DEF OwnerInv, SingleOwner
    <3>3. /\ Bound' \cap pending' = {}
          /\ Bound' \cap HeldHandles' = {}
          /\ HeldHandles' \cap pending' = {}
      BY <1>2, <2>7 DEF OwnerInv, SingleOwner
    <3>4. QED
      BY <2>6, <3>1, <3>2, <3>3 DEF SingleOwner
  <2>9. Authentic'
    <3>1. \A h \in Handles(server') \ {new} :
              h \in Handles(server) /\ server'.states[h].prompt = server.states[h].prompt
      BY <1>3 DEF Effect, new
    <3>2. None \notin Handles(server')
      BY <1>3, ManagedAssumption DEF Effect, Proper
    <3>3. server'.states[new].prompt = key
      <4>1. server'.next # server.next
        BY <2>2, <2>3 DEF new
      <4>2. QED
        BY <1>3, <4>1, RequestFields DEF Effect, new
    <3>4. ASSUME NEW k \in Keys
          PROVE  /\ records'[k] \in Handles(server') => server'.states[records'[k]].prompt = k
                 /\ held'[k] \in Handles(server') => server'.states[held'[k]].prompt = k
      <4>1. records'[k] \in {None, records[k]}
        BY <2>1
      <4>2. held'[k] = held[k] \/ (k = key /\ held'[k] = new)
        BY <2>3, <2>4
      <4>3. QED
        BY <2>2, <2>3, <3>1, <3>2, <3>3, <4>1, <4>2 DEF OwnerInv, Authentic
    <3>5. QED
      BY <3>4 DEF Authentic
  <2>10. QED
    BY <2>8, <2>9 DEF OwnerInv
<1>6. QED
  BY <1>4, <1>5

(* An admission hands the caller's handle to the registry, or has it       *)
(* dropped.                                                                *)
LEMMA OwnerBind ==
    ASSUME TypeInv, OwnerInv, BindStep
    PROVE  OwnerInv'
<1>1. PICK key \in Keys :
          /\ held[key] # None
          /\ held' = [held EXCEPT ![key] = None]
          /\ UNCHANGED <<server, pinned>>
          /\ Declines(key) \/ \E victims \in SUBSET Keys : Admits(key, victims)
  BY DEF BindStep
<1> DEFINE handle == held[key]
<1>2. /\ held \in [Keys -> Ids \cup {None}]
      /\ \A k \in Keys : held'[k] = IF k = key THEN None ELSE held[k]
  BY <1>1 DEF TypeInv, RegistryInv
<1>3. HeldHandles' = HeldHandles \ {handle} /\ handle \in HeldHandles
  <2>1. \A k \in Keys : k # key /\ held[k] # None => held[k] # handle
    BY <1>1 DEF OwnerInv, SingleOwner
  <2>2. QED
    BY <1>1, <1>2, <2>1 DEF HeldHandles
<1>4. \A j, k \in Keys : held'[j] = held'[k] /\ held'[j] # None => j = k
  BY <1>2 DEF OwnerInv, SingleOwner
<1>5. None \notin Handles(server)
  BY ManagedAssumption DEF TypeInv, ServerInv, Proper
<1> HIDE DEF handle
<1>6. CASE Declines(key)
  <2>1. /\ records' = records /\ pending' = pending \cup {handle}
        /\ Resident(policy') = Resident(policy)
        /\ policy'.entries = policy.entries
    BY <1>6 DEF Declines, handle
  <2>2. Bound' = Bound /\ Agreement'
    BY <2>1 DEF Bound, OwnerInv, SingleOwner, Agreement
  <2>3. SingleOwner'
    BY <1>3, <1>4, <2>1, <2>2 DEF OwnerInv, SingleOwner
  <2>4. Authentic'
    BY <1>1, <1>2, <1>5, <2>1 DEF OwnerInv, Authentic
  <2>5. QED
    BY <2>3, <2>4 DEF OwnerInv
<1>7. ASSUME NEW victims \in SUBSET Keys, Admits(key, victims)
      PROVE  OwnerInv'
  <2>1. /\ \A k \in Keys : records'[k] = IF k = key THEN handle
                                         ELSE IF k \in victims THEN None ELSE records[k]
        /\ pending' = (pending \cup {records[k] : k \in {j \in victims : records[j] # None}})
                          \ {handle}
        /\ key \in victims
        /\ Resident(policy') = (Resident(policy) \ victims) \cup {key}
        /\ policy'.entries[key].nbytes = PayloadBytes(key)
        /\ \A k \in Resident(policy) \ victims : policy'.entries[k] = policy.entries[k]
    BY <1>7 DEF Admits, handle
  <2>2. handle # None /\ handle \notin Bound
    BY <1>1, <1>3 DEF OwnerInv, SingleOwner, handle
  <2>3. \A k \in Keys : records[k] # handle
    BY <2>2 DEF Bound
  <2>4. Agreement'
    BY <2>1, <2>2 DEF OwnerInv, SingleOwner, Agreement
  <2>5. \A j, k \in Keys : records'[j] = records'[k] /\ records'[j] # None => j = k
    BY <2>1, <2>3 DEF OwnerInv, SingleOwner
  <2>6. Bound' \cap pending' = {}
    <3>1. SUFFICES ASSUME NEW k \in Keys, records'[k] # None, records'[k] \in pending'
                   PROVE  FALSE
      BY DEF Bound
    <3>2. k # key /\ k \notin victims /\ records'[k] = records[k]
      BY <2>1, <3>1
    <3>3. records[k] \notin pending
      BY <3>1, <3>2 DEF OwnerInv, SingleOwner, Bound
    <3>4. \A j \in victims : records[j] # None => records[j] # records[k]
      BY <3>1, <3>2 DEF OwnerInv, SingleOwner
    <3>5. QED
      BY <2>1, <3>1, <3>2, <3>3, <3>4
  <2>7. Bound' \subseteq Bound \cup {handle} /\ pending' \subseteq pending \cup Bound
    BY <2>1 DEF Bound
  <2>8. Bound' \cap HeldHandles' = {} /\ HeldHandles' \cap pending' = {}
    BY <1>3, <2>7 DEF OwnerInv, SingleOwner
  <2>9. SingleOwner'
    BY <1>4, <2>4, <2>5, <2>6, <2>8 DEF SingleOwner
  <2>10. Authentic'
    BY <1>1, <1>2, <1>5, <2>1 DEF OwnerInv, Authentic, handle
  <2>11. QED
    BY <2>9, <2>10 DEF OwnerInv
<1>8. QED
  BY <1>1, <1>6, <1>7

(* A trim unbinds what it evicts.                                          *)
LEMMA OwnerTrim ==
    ASSUME TypeInv, OwnerInv, NEW targetSequences, NEW targetBytes,
           TrimTo(targetSequences, targetBytes)
    PROVE  OwnerInv'
<1> DEFINE evicted == PlanTrim(policy, targetSequences, targetBytes)
<1>1. /\ policy' = CommitTrim(policy, evicted) /\ Unbind(evicted)
      /\ UNCHANGED <<server, pinned, held>>
  BY DEF TrimTo
<1>2. evicted \subseteq Keys
  BY DEF PlanTrim, Indexed, TypeInv, PolicyInv, Coherent, WellTyped
<1> HIDE DEF evicted
<1>3. /\ Resident(policy') = Resident(policy) \ evicted
      /\ \A k \in Resident(policy') : policy'.entries[k] = policy.entries[k]
  BY <1>1, TrimKeeps DEF TypeInv, PolicyInv
<1>4. /\ pending' = pending \cup {records[k] : k \in {j \in evicted : records[j] # None}}
      /\ \A k \in Keys : records'[k] = IF k \in evicted THEN None ELSE records[k]
  BY <1>1 DEF Unbind
<1>5. Agreement'
  BY <1>3, <1>4 DEF OwnerInv, SingleOwner, Agreement
<1>6. HeldHandles' = HeldHandles /\ Bound' \subseteq Bound
      /\ pending' \subseteq pending \cup Bound
  BY <1>1, <1>2, <1>4 DEF HeldHandles, Bound
<1>7. Bound' \cap pending' = {}
  <2>1. SUFFICES ASSUME NEW k \in Keys, records'[k] # None, records'[k] \in pending'
                 PROVE  FALSE
    BY DEF Bound
  <2>2. k \notin evicted /\ records'[k] = records[k]
    BY <1>4, <2>1
  <2>3. records[k] \notin pending
    BY <2>1, <2>2 DEF OwnerInv, SingleOwner, Bound
  <2>4. \A j \in evicted : records[j] # None => records[j] # records[k]
    BY <1>2, <2>1, <2>2 DEF OwnerInv, SingleOwner
  <2>5. QED
    BY <1>4, <2>1, <2>2, <2>3, <2>4
<1>8. SingleOwner'
  <2>1. \A j, k \in Keys : records'[j] = records'[k] /\ records'[j] # None => j = k
    BY <1>4 DEF OwnerInv, SingleOwner
  <2>2. QED
    BY <1>1, <1>5, <1>6, <1>7, <2>1 DEF OwnerInv, SingleOwner
<1>9. Authentic'
  <2>1. None \notin Handles(server)
    BY ManagedAssumption DEF TypeInv, ServerInv, Proper
  <2>2. QED
    BY <1>1, <1>4, <2>1 DEF OwnerInv, Authentic
<1>10. QED
  BY <1>8, <1>9 DEF OwnerInv

LEMMA OwnerBlank ==
    ASSUME Blank, TypeInv
    PROVE  OwnerInv
<1>1. /\ Bound = {} /\ HeldHandles = {} /\ pending = {} /\ Resident(policy) = {}
      /\ records = NoBindings /\ held = NoBindings
  BY BlankRegistry DEF Blank
<1>2. \A k \in Keys : records[k] = None /\ held[k] = None
  BY <1>1 DEF NoBindings
<1>3. QED
  BY <1>1, <1>2 DEF OwnerInv, SingleOwner, Agreement, Authentic, Blank

(* Every step keeps owners apart and handles authentic.                    *)
LEMMA OwnerStep ==
    ASSUME TypeInv, OwnerInv, Step
    PROVE  OwnerInv'
<1>1. CASE LocalStep
  <2>1. UNCHANGED <<server, registry>>
    BY <1>1, LocalFacts
  <2>2. QED
    BY <2>1, OwnersKept, AuthenticSame DEF OwnerInv, registry
<1>2. CASE BindStep
  BY <1>2, OwnerBind
<1>3. CASE \E targetSequences, targetBytes : TrimTo(targetSequences, targetBytes)
  BY <1>3, OwnerTrim
<1>4. ASSUME NEW h, FlushDrop(h) \/ SweepDrop(h)
      PROVE  OwnerInv'
  <2>1. /\ UNCHANGED <<policy, pinned, records, held>>
        /\ pending' \subseteq pending
        /\ server' = server \/ Effect(server, server', DropRequest(h))
    <3>1. UNCHANGED <<policy, pinned, records, held>>
      BY <1>4, DropFacts
    <3>2. CASE pending' = pending \ {h} /\ UNCHANGED <<server, call, transport>>
      BY <3>1, <3>2
    <3>3. ASSUME NEW heard, Heeded(DropRequest(h), heard),
                 pending' = pending \ {h} \/ UNCHANGED pending
          PROVE  pending' \subseteq pending /\ Effect(server, server', DropRequest(h))
      BY <3>3 DEF Heeded, Exchanged
    <3>4. \/ pending' = pending \ {h} /\ UNCHANGED <<server, call, transport>>
          \/ \E heard : Heeded(DropRequest(h), heard)
                          /\ (pending' = pending \ {h} \/ UNCHANGED pending)
      BY <1>4, DropFacts
    <3>5. QED
      BY <3>1, <3>2, <3>3, <3>4
  <2>2. QED
    BY <2>1, OwnersKept, AuthenticSame, AuthenticKept DEF OwnerInv
<1>5. CASE Confirm
  <2>1. /\ UNCHANGED <<server, policy, pinned, records, held>>
        /\ pending' \subseteq pending
    BY <1>5 DEF Confirm
  <2>2. QED
    BY <2>1, OwnersKept, AuthenticSame DEF OwnerInv
<1>6. CASE CaptureSlot
  BY <1>6, OwnerCapture
<1>7. CASE ClearLiveSlot \/ RestoreLive
  <2>1. /\ UNCHANGED registry
        /\ \E request : Effect(server, server', request)
    BY <1>7, ClearFacts, RestoreFacts DEF Heeded, Exchanged
  <2>2. QED
    BY <2>1, OwnersKept, AuthenticKept DEF OwnerInv, registry
<1>8. CASE Probe \/ ProbeFails \/ \E prompt \in Keys : Generate(prompt)
  BY <1>8, CompletionFacts, OwnersKept, AuthenticSame DEF OwnerInv
<1>9. CASE Load
  <2>1. UNCHANGED registry /\ pinned' # server'.epoch
    BY <1>9, TypeLoad DEF Load
  <2>2. QED
    BY <2>1, OwnersKept DEF OwnerInv, Authentic, registry
<1>10. CASE \E request \in late : RunLate(request)
  BY <1>10, TypeLate, OwnersKept, AuthenticKept DEF OwnerInv, registry
<1>11. CASE Connect
  <2>1. Blank' /\ TypeInv'
    BY <1>11, TypeConnect
  <2>2. QED
    BY <2>1, OwnerBlank, PTL
<1>12. QED
  BY <1>1, <1>2, <1>3, <1>4, <1>5, <1>6, <1>7, <1>8, <1>9, <1>10, <1>11
     DEF Step, LocalStep

LEMMA OwnersHold == Spec => [](TypeInv /\ OwnerInv)
<1>1. Init => TypeInv /\ OwnerInv
  BY InitBlank, OwnerBlank
<1>2. TypeInv /\ OwnerInv /\ [Next]_vars => OwnerInv'
  <2>1. SUFFICES ASSUME TypeInv, OwnerInv, [Next]_vars PROVE OwnerInv'
    OBVIOUS
  <2>2. CASE Next
    BY <2>1, <2>2, NextSteps, OwnerStep
  <2>3. CASE UNCHANGED vars
    BY <2>1, <2>3, OwnersKept, AuthenticSame DEF OwnerInv, vars
  <2>4. QED
    BY <2>1, <2>2, <2>3
<1>3. QED
  BY <1>1, <1>2, TypesHold, PTL DEF Spec

(* No handle has two owners: it is bound to the one key the policy lists   *)
(* for it, or held by the caller, or waits to be dropped.                  *)
THEOREM OneOwner == Spec => []SingleOwner
<1>1. OwnerInv => SingleOwner
  BY DEF OwnerInv
<1>2. QED
  BY <1>1, OwnersHold, PTL

(* A bound handle never comes to mean another prompt, whatever is lost,    *)
(* late, reclaimed or reloaded, and however callers split a capture from   *)
(* its admission.                                                          *)
THEOREM BindingsAreAuthentic == Spec => []AuthenticBindings
<1>1. OwnerInv => AuthenticBindings
  BY DEF OwnerInv, Authentic, AuthenticBindings
<1>2. QED
  BY <1>1, OwnersHold, PTL

-----------------------------------------------------------------------------
(* Accounting, for callers that admit what they capture.                   *)

\* Handles that may be dropped without another look at the registry.
Doomed ==
    pending \cup call.orphans
        \cup {request.handle : request \in
                 {r \in late : r.action = "drop" /\ r.epoch = server.epoch}}

HeldBriefly == \A k \in Keys : held[k] # None => call.phase = "admit" /\ call.key = k

InStore ==
    pinned = server.epoch =>
        Bound \cup HeldHandles \subseteq Handles(server) \cup missed

LiveInv ==
    /\ HeldBriefly
    /\ Doomed \cap (Bound \cup HeldHandles) = {}
    /\ InStore

(* Outside an admission nothing is held.                                   *)
LEMMA NothingHeld ==
    ASSUME HeldBriefly, call.phase # "admit"
    PROVE  HeldHandles = {} /\ \A k \in Keys : held[k] = None
BY DEF HeldBriefly, HeldHandles

(* No request takes a state in use out of the store unheard of.            *)
LEMMA InStoreKept ==
    ASSUME TypeInv, InStore, NEW request, Effect(server, server', request),
           missed \subseteq missed',
           request.action = "capture" => Handles(server) \ Handles(server') \subseteq missed',
           request.action \in Actions,
           request.action = "drop" /\ request.epoch = server.epoch
              => request.handle \notin Bound \cup HeldHandles,
           UNCHANGED <<pinned, records, held>>
    PROVE  InStore'
<1>1. Bound' = Bound /\ HeldHandles' = HeldHandles /\ server'.epoch = server.epoch
  BY DEF Bound, HeldHandles, Effect
<1>2. ASSUME NEW h \in (Bound \cup HeldHandles) \cap Handles(server), h \notin Handles(server')
      PROVE  h \in missed'
  <2>1. request.epoch = server.epoch
    BY <1>2 DEF Effect
  <2>2. request.action \notin {"clear", "restore", "drop"}
    BY <1>2, <2>1 DEF Effect
  <2>3. QED
    BY <1>2, <2>2 DEF Actions
<1>3. QED
  BY <1>1, <1>2 DEF InStore

\* What a step dooms it has doomed before, unless it is a new request.
DoomsNothingNew ==
    /\ pending' \subseteq pending /\ call'.orphans \subseteq call.orphans
    /\ server'.epoch = server.epoch
    /\ UNCHANGED <<records, held>>
    /\ \/ late' \subseteq late
       \/ \E request : /\ late' = late \cup {request}
                       /\ request.action = "drop" => request.handle \in Doomed

LEMMA DoomedKept ==
    ASSUME Doomed \cap (Bound \cup HeldHandles) = {}, DoomsNothingNew
    PROVE  Doomed' \cap (Bound' \cup HeldHandles') = {}
<1>1. Bound' = Bound /\ HeldHandles' = HeldHandles
  BY DEF DoomsNothingNew, Bound, HeldHandles
<1>2. Doomed' \subseteq Doomed
  <2>1. SUFFICES ASSUME NEW r \in late', r.action = "drop", r.epoch = server'.epoch
                 PROVE  r.handle \in Doomed
    BY DEF Doomed, DoomsNothingNew
  <2>2. r \in late \/ r.handle \in Doomed
    BY <2>1 DEF DoomsNothingNew
  <2>3. QED
    BY <2>1, <2>2 DEF Doomed, DoomsNothingNew
<1>3. QED
  BY <1>1, <1>2

LEMMA LiveLocal ==
    ASSUME TypeInv, LiveInv, LocalStep
    PROVE  LiveInv'
<1>1. UNCHANGED <<server, late, missed, registry>>
  BY LocalFacts
<1>2. /\ Bound' = Bound /\ HeldHandles' = HeldHandles /\ Owned' = Owned
      /\ pending' = pending /\ held' = held /\ records' = records
  BY <1>1 DEF Bound, HeldHandles, Owned, registry
<1>3. call.phase # "admit"
  BY IdleCall DEF LocalStep, StartCapture, ReconcileOrphans, Lookup, FlushDone,
     Reconcile, SweepDone, Select
<1>4. HeldHandles = {} /\ \A k \in Keys : held[k] = None
  BY <1>3, NothingHeld DEF LiveInv
<1>5. call'.orphans \subseteq call.orphans \cup (Handles(server) \ Bound)
  <2>1. CASE call' = Idle
    BY <2>1, IdleCall
  <2>2. CASE \/ \E key \in Keys, stable \in BOOLEAN : StartCapture(key, stable)
             \/ ReconcileOrphans
             \/ \E prompt \in Keys : Lookup(prompt)
    BY <2>2 DEF StartCapture, ReconcileOrphans, Lookup, Idle
  <2>3. CASE FlushDone \/ Select
    <3>1. \/ call' = Idle
          \/ call' = [call EXCEPT !.phase = "capture"]
          \/ call' = [call EXCEPT !.phase = "probe"]
          \/ \E k : call' = [call EXCEPT !.phase = "restore", !.chosen = k]
      BY <2>3 DEF FlushDone, Select
    <3>2. call \in CallState
      BY DEF TypeInv, CallInv
    <3>3. QED
      BY <2>1, <3>1, <3>2 DEF CallState
  <2>4. CASE Reconcile
    <3>1. \/ call' = Idle
          \/ call' = [call EXCEPT !.phase = "sweep", !.sweeping = TRUE, !.orphans = Unknown]
      BY <2>4 DEF Reconcile
    <3>2. call \in CallState
      BY DEF TypeInv, CallInv
    <3>3. call' = Idle \/ call'.orphans = Unknown
      BY <3>1, <3>2 DEF CallState
    <3>4. QED
      BY <2>1, <3>3 DEF Unknown
  <2>5. CASE SweepDone
    BY <2>1, <2>5 DEF SweepDone
  <2>6. QED
    BY <2>2, <2>3, <2>4, <2>5 DEF LocalStep
<1>6. Doomed' \cap (Bound' \cup HeldHandles') = {}
  BY <1>1, <1>2, <1>4, <1>5 DEF LiveInv, Doomed
<1>7. InStore'
  BY <1>1, <1>2 DEF LiveInv, InStore, registry
<1>8. QED
  BY <1>2, <1>4, <1>6, <1>7 DEF LiveInv, HeldBriefly

(* Admissions and trims pass handles on, and lose none.                    *)
LEMMA BindingPasses ==
    ASSUME TypeInv, SingleOwner,
           \/ BindStep
           \/ \E targetSequences, targetBytes : TrimTo(targetSequences, targetBytes)
    PROVE  /\ Owned' = Owned /\ Bound' \cup HeldHandles' \subseteq Bound \cup HeldHandles
           /\ call'.orphans = {} /\ call'.phase = "flush" /\ call'.sweeping = FALSE
           /\ UNCHANGED <<server, pinned, transport>>
           /\ pending' \subseteq pending \cup Bound \cup HeldHandles
<1>1. /\ call'.orphans = {} /\ call'.phase = "flush" /\ call'.sweeping = FALSE
      /\ UNCHANGED <<server, pinned, transport>>
  <2>1. ThenFlush /\ UNCHANGED <<server, pinned, transport>>
    BY DEF BindStep, TrimTo
  <2>2. QED
    BY <2>1 DEF ThenFlush, Idle
<1>2. CASE BindStep
  <2>1. PICK key \in Keys :
            /\ held[key] # None
            /\ held' = [held EXCEPT ![key] = None]
            /\ Declines(key) \/ \E victims \in SUBSET Keys : Admits(key, victims)
    BY <1>2 DEF BindStep
  <2> DEFINE handle == held[key]
  <2>2. HeldHandles' = HeldHandles \ {handle} /\ handle \in HeldHandles
    <3>1. /\ held \in [Keys -> Ids \cup {None}]
          /\ \A k \in Keys : held'[k] = IF k = key THEN None ELSE held[k]
      BY <2>1 DEF TypeInv, RegistryInv
    <3>2. \A k \in Keys : k # key /\ held[k] # None => held[k] # handle
      BY <2>1 DEF SingleOwner
    <3>3. QED
      BY <2>1, <3>1, <3>2 DEF HeldHandles
  <2> HIDE DEF handle
  <2>3. CASE Declines(key)
    <3>1. records' = records /\ pending' = pending \cup {handle}
      BY <2>3 DEF Declines, handle
    <3>2. Bound' = Bound
      BY <3>1 DEF Bound
    <3>3. QED
      BY <1>1, <2>2, <3>1, <3>2 DEF Owned
  <2>4. ASSUME NEW victims \in SUBSET Keys, Admits(key, victims)
        PROVE  /\ Owned' = Owned
               /\ Bound' \cup HeldHandles' \subseteq Bound \cup HeldHandles
               /\ pending' \subseteq pending \cup Bound \cup HeldHandles
    <3>1. /\ \A k \in Keys : records'[k] = IF k = key THEN handle
                                           ELSE IF k \in victims THEN None ELSE records[k]
          /\ pending' = (pending \cup {records[k] : k \in {j \in victims : records[j] # None}})
                            \ {handle}
          /\ key \in victims
      BY <2>4 DEF Admits, handle
    <3>2. Bound' \subseteq Bound \cup {handle} /\ pending' \subseteq pending \cup Bound
      BY <3>1 DEF Bound
    <3>3. handle \in Bound'
      BY <2>1, <3>1 DEF Bound, handle
    <3>4. Bound \subseteq Bound' \cup pending'
      <4>1. SUFFICES ASSUME NEW k \in Keys, records[k] # None
                     PROVE  records[k] \in Bound' \cup pending'
        BY DEF Bound
      <4>2. CASE k \in victims
        <5>1. records[k] # handle
          BY <2>2, <4>1 DEF SingleOwner, Bound
        <5>2. QED
          BY <3>1, <4>1, <4>2, <5>1
      <4>3. CASE k \notin victims
        BY <3>1, <4>1, <4>3 DEF Bound
      <4>4. QED
        BY <4>2, <4>3
    <3>5. pending \subseteq pending'
      BY <2>2, <3>1 DEF SingleOwner
    <3>6. QED
      BY <2>2, <3>2, <3>3, <3>4, <3>5 DEF Owned
  <2>5. QED
    BY <1>1, <2>1, <2>3, <2>4
<1>3. ASSUME NEW targetSequences, NEW targetBytes, TrimTo(targetSequences, targetBytes)
      PROVE  /\ Owned' = Owned
             /\ Bound' \cup HeldHandles' \subseteq Bound \cup HeldHandles
             /\ pending' \subseteq pending \cup Bound \cup HeldHandles
  <2> DEFINE evicted == PlanTrim(policy, targetSequences, targetBytes)
  <2>1. Unbind(evicted) /\ held' = held
    BY <1>3 DEF TrimTo
  <2>2. evicted \subseteq Keys
    BY DEF PlanTrim, Indexed, TypeInv, PolicyInv, Coherent, WellTyped
  <2> HIDE DEF evicted
  <2>3. /\ pending' = pending \cup {records[k] : k \in {j \in evicted : records[j] # None}}
        /\ \A k \in Keys : records'[k] = IF k \in evicted THEN None ELSE records[k]
    BY <2>1 DEF Unbind
  <2>4. HeldHandles' = HeldHandles /\ Bound' \subseteq Bound
        /\ pending' \subseteq pending \cup Bound /\ pending \subseteq pending'
    BY <2>1, <2>2, <2>3 DEF HeldHandles, Bound
  <2>5. Bound \subseteq Bound' \cup pending'
    BY <2>3 DEF Bound
  <2>6. QED
    BY <2>4, <2>5 DEF Owned
<1>4. QED
  BY <1>1, <1>2, <1>3

LEMMA LiveBinding ==
    ASSUME TypeInv, OwnerInv, OwnerInv', LiveInv, ~SplitCalls,
           \/ BindStep
           \/ \E targetSequences, targetBytes : TrimTo(targetSequences, targetBytes)
    PROVE  LiveInv'
<1>1. /\ Owned' = Owned /\ Bound' \cup HeldHandles' \subseteq Bound \cup HeldHandles
      /\ call'.orphans = {} /\ UNCHANGED <<server, pinned, transport>>
  BY BindingPasses DEF OwnerInv
<1>2. \A k \in Keys : held'[k] = None
  <2>1. CASE BindStep
    <3>1. PICK key \in Keys :
              /\ call.phase = "admit" => call.key = key
              /\ call.phase # "admit" => SplitCalls
              /\ held' = [held EXCEPT ![key] = None]
      BY <2>1 DEF BindStep
    <3>2. call.phase = "admit" /\ call.key = key
      BY <3>1
    <3>3. \A k \in Keys \ {key} : held[k] = None
      BY <3>2 DEF LiveInv, HeldBriefly
    <3>4. held \in [Keys -> Ids \cup {None}]
      BY DEF TypeInv, RegistryInv
    <3>5. QED
      BY <3>1, <3>3, <3>4
  <2>2. CASE \E targetSequences, targetBytes : TrimTo(targetSequences, targetBytes)
    <3>1. held' = held /\ call.phase # "admit"
      BY <2>2, IdleCall DEF TrimTo
    <3>2. QED
      BY <3>1, NothingHeld DEF LiveInv
  <2>3. QED
    BY <2>1, <2>2
<1>3. HeldHandles' = {}
  BY <1>2 DEF HeldHandles
<1>4. Doomed' \cap (Bound' \cup HeldHandles') = {}
  <2>1. Bound' \cap pending' = {}
    BY DEF OwnerInv, SingleOwner
  <2>2. Doomed' \subseteq pending' \cup Doomed
    BY <1>1 DEF Doomed, transport
  <2>3. QED
    BY <1>1, <1>3, <2>1, <2>2 DEF LiveInv
<1>5. InStore'
  BY <1>1 DEF LiveInv, InStore, transport
<1>6. QED
  BY <1>2, <1>4, <1>5 DEF LiveInv, HeldBriefly

\* A step that drops, or forgets drops, and leaves the bindings alone.
LEMMA LiveDrop ==
    ASSUME TypeInv, LiveInv, NEW h, FlushDrop(h) \/ SweepDrop(h)
    PROVE  LiveInv'
<1>1. /\ UNCHANGED <<policy, pinned, records, held>>
      /\ h \in Doomed /\ call.phase # "admit"
  BY DropFacts DEF Doomed
<1>2. call \in CallState
  BY DEF TypeInv, CallInv
<1>3. Bound' = Bound /\ HeldHandles' = HeldHandles
      /\ \A k \in Keys : held'[k] = None
  BY <1>1, NothingHeld DEF LiveInv, Bound, HeldHandles
<1>4. /\ pending' \subseteq pending
      /\ call'.orphans \subseteq call.orphans
      /\ InStore'
      /\ DoomsNothingNew
  <2>1. CASE pending' = pending \ {h} /\ UNCHANGED <<server, call, transport>>
    BY <1>1, <1>3, <2>1 DEF LiveInv, InStore, DoomsNothingNew, transport
  <2>2. ASSUME NEW heard, Heeded(DropRequest(h), heard),
               \/ /\ pending' = pending \ {h}
                  /\ call' = [call EXCEPT !.orphans = @ \ {h}]
               \/ /\ call' = [call EXCEPT !.phase = "confirm", !.handle = h]
                  /\ UNCHANGED pending
        PROVE  /\ pending' \subseteq pending
               /\ call'.orphans \subseteq call.orphans
               /\ InStore'
               /\ DoomsNothingNew
    <3>1. pending' \subseteq pending /\ call'.orphans \subseteq call.orphans
      BY <1>2, <2>2 DEF CallState
    <3>2. /\ Effect(server, server', DropRequest(h)) /\ missed \subseteq missed'
          /\ late' = late \/ late' = late \cup {DropRequest(h)}
      BY <2>2 DEF Heeded, Exchanged
    <3>3. /\ DropRequest(h).action = "drop" /\ DropRequest(h).handle = h
      BY RequestFields
    <3>4. h \notin Bound \cup HeldHandles
      BY <1>1 DEF LiveInv
    <3>5. InStore'
      BY <1>1, <3>2, <3>3, <3>4, InStoreKept DEF LiveInv, Actions
    <3>6. DoomsNothingNew
      BY <1>1, <3>1, <3>2, <3>3 DEF DoomsNothingNew, Effect
    <3>7. QED
      BY <3>1, <3>5, <3>6
  <2>3. \/ pending' = pending \ {h} /\ UNCHANGED <<server, call, transport>>
        \/ \E heard :
              /\ Heeded(DropRequest(h), heard)
              /\ \/ /\ pending' = pending \ {h}
                    /\ call' = [call EXCEPT !.orphans = @ \ {h}]
                 \/ /\ call' = [call EXCEPT !.phase = "confirm", !.handle = h]
                    /\ UNCHANGED pending
    BY DropFacts
  <2>4. QED
    BY <2>1, <2>2, <2>3
<1>5. Doomed' \cap (Bound' \cup HeldHandles') = {}
  BY <1>4, DoomedKept DEF LiveInv
<1>6. QED
  BY <1>3, <1>4, <1>5 DEF LiveInv, HeldBriefly

LEMMA LiveConfirm ==
    ASSUME TypeInv, LiveInv, Confirm
    PROVE  LiveInv'
<1>1. /\ UNCHANGED <<server, policy, pinned, records, held, late, missed>>
      /\ call.phase = "confirm" /\ pending' \subseteq pending
      /\ \/ call' = [call EXCEPT !.orphans = @ \ {call.handle}, !.handle = None,
                                 !.phase = IF call.sweeping THEN "sweep" ELSE "flush"]
         \/ call' = Idle
  BY DEF Confirm
<1>2. call'.orphans \subseteq call.orphans
  <2>1. call \in CallState
    BY DEF TypeInv, CallInv
  <2>2. CASE call' = Idle
    BY <2>2, IdleCall
  <2>3. CASE call' = [call EXCEPT !.orphans = @ \ {call.handle}, !.handle = None,
                                  !.phase = IF call.sweeping THEN "sweep" ELSE "flush"]
    BY <2>1, <2>3 DEF CallState
  <2>4. QED
    BY <1>1, <2>2, <2>3
<1>3. Bound' = Bound /\ HeldHandles' = HeldHandles
      /\ \A k \in Keys : held'[k] = None
  BY <1>1, NothingHeld DEF LiveInv, Bound, HeldHandles
<1>4. Doomed' \cap (Bound' \cup HeldHandles') = {}
  BY <1>1, <1>2, DoomedKept DEF LiveInv, DoomsNothingNew
<1>5. QED
  BY <1>1, <1>3, <1>4 DEF LiveInv, HeldBriefly, InStore

(* A capture adds one handle to those that are bound, and waits for none.  *)
LEMMA LiveCapture ==
    ASSUME TypeInv, OwnerInv, LiveInv, ~SplitCalls, CaptureSlot
    PROVE  LiveInv'
<1> DEFINE key == call.key
<1>1. PICK heard :
          /\ Heeded(CaptureRequest, heard)
          /\ IF heard.reply.ok
             THEN LET gone == Forgotten(heard.reply.evicted)
                  IN  /\ records' = [k \in Keys |-> IF k \in gone THEN None ELSE records[k]]
                      /\ held' = [held EXCEPT ![key] = heard.reply.handle]
                      /\ call' = [call EXCEPT !.phase = "admit"]
             ELSE /\ call' = [call EXCEPT !.phase = "reconcile"]
                  /\ UNCHANGED <<records, held>>
  BY CaptureFacts
<1>2. /\ UNCHANGED <<pinned, pending>> /\ key \in Keys /\ pending = {}
      /\ call.orphans = {} /\ call.phase = "capture"
  BY CaptureFacts
<1>3. /\ Effect(server, server', CaptureRequest) /\ missed \subseteq missed'
      /\ late' = late \/ late' = late \cup {CaptureRequest}
      /\ heard.reply.ok => late' = late
      /\ ~heard.reply.ok => Handles(server) \ Handles(server') \subseteq missed'
  BY <1>1, RequestFields DEF Heeded, Exchanged
<1>4. HeldHandles = {} /\ \A k \in Keys : held[k] = None
  BY <1>2, NothingHeld DEF LiveInv
<1>5. call \in CallState
  BY DEF TypeInv, CallInv
<1>6. CASE ~heard.reply.ok
  <2>1. UNCHANGED <<records, held>> /\ call' = [call EXCEPT !.phase = "reconcile"]
    BY <1>1, <1>6
  <2>2. call'.orphans = call.orphans
    BY <1>5, <2>1 DEF CallState
  <2>3. InStore'
    BY <1>2, <1>3, <1>6, <2>1, RequestFields, InStoreKept DEF LiveInv, Actions
  <2>4. DoomsNothingNew
    BY <1>2, <1>3, <2>1, <2>2, RequestFields DEF DoomsNothingNew, Effect
  <2>5. Doomed' \cap (Bound' \cup HeldHandles') = {}
    BY <2>4, DoomedKept DEF LiveInv
  <2>6. QED
    BY <1>4, <2>1, <2>3, <2>5 DEF LiveInv, HeldBriefly
<1>7. CASE heard.reply.ok
  <2> DEFINE gone == Forgotten(heard.reply.evicted)
             new  == server.next
  <2>1. /\ records' = [k \in Keys |-> IF k \in gone THEN None ELSE records[k]]
        /\ held' = [held EXCEPT ![key] = heard.reply.handle]
        /\ call' = [call EXCEPT !.phase = "admit"]
    BY <1>1, <1>7
  <2>2. /\ heard.reply.handle = new /\ server'.next = new + 1 /\ pinned = server.epoch
        /\ heard.reply.evicted = Handles(server) \ Handles(server')
        /\ server'.epoch = server.epoch
    BY <1>1, <1>7, RequestFields DEF Heeded, Exchanged, Answered, Effect
  <2>3. held \in [Keys -> Ids \cup {None}] /\ new \in Nat \ {0} /\ new # None
        /\ Owned \subseteq 1 .. new - 1
    BY <2>2, ManagedAssumption DEF TypeInv, RegistryInv, ServerInv, Proper
  <2>4. new \in Handles(server')
    BY <1>3, <2>2, <2>3 DEF Effect
  <2>5. /\ call'.phase = "admit" /\ call'.key = key /\ call'.orphans = {}
    BY <1>2, <1>5, <2>1 DEF CallState
  <2>6. \A k \in Keys : held'[k] = IF k = key THEN new ELSE None
    BY <1>4, <2>1, <2>2, <2>3
  <2>7. HeldHandles' = {new}
    BY <1>2, <2>3, <2>6 DEF HeldHandles
  <2>8. Bound' \subseteq Bound
    BY <2>1 DEF Bound
  <2>9. HeldBriefly'
    BY <2>5, <2>6 DEF HeldBriefly
  <2>10. Doomed' \cap (Bound' \cup HeldHandles') = {}
    <3>1. Doomed' \subseteq Doomed
      BY <1>2, <1>3, <1>7, <2>2, <2>5 DEF Doomed
    <3>2. new \notin Doomed
      <4>1. \A r \in late : r.action = "drop" /\ r.epoch = server.epoch
                               => r.handle \in 1 .. new - 1
        BY DEF TypeInv, ServerInv, Waiting
      <4>2. new \notin 1 .. new - 1
        BY <2>3
      <4>3. QED
        BY <1>2, <4>1, <4>2 DEF Doomed
    <3>3. QED
      BY <2>7, <2>8, <3>1, <3>2 DEF LiveInv
  <2>11. InStore'
    <3>1. ASSUME NEW k \in Keys, records'[k] # None
          PROVE  records'[k] \in Handles(server') \cup missed'
      <4>1. records'[k] = records[k] /\ k \notin gone
        BY <2>1, <3>1
      <4>2. records[k] \in Handles(server) \cup missed
        BY <2>2, <3>1, <4>1 DEF LiveInv, InStore, Bound
      <4>3. records[k] \notin heard.reply.evicted
        BY <4>1 DEF Forgotten
      <4>4. QED
        BY <1>3, <2>2, <4>1, <4>2, <4>3
    <3>2. QED
      BY <2>4, <2>7, <3>1 DEF InStore, Bound
  <2>12. QED
    BY <2>9, <2>10, <2>11 DEF LiveInv
<1>8. QED
  BY <1>6, <1>7

LEMMA LiveLookup ==
    ASSUME TypeInv, LiveInv, ClearLiveSlot \/ RestoreLive
    PROVE  LiveInv'
<1>1. /\ UNCHANGED registry /\ call.phase # "admit"
      /\ call' = Idle \/ call'.orphans = call.orphans
      /\ \E request, heard : /\ request.action \in {"clear", "restore"}
                             /\ Heeded(request, heard)
  <2>1. call \in CallState
    BY DEF TypeInv, CallInv
  <2>2. CASE ClearLiveSlot
    <3>1. /\ UNCHANGED registry /\ call.phase = "clear"
          /\ \/ call' = Idle
             \/ call' = [call EXCEPT !.phase = "select"]
          /\ \E heard : Heeded(ClearRequest, heard)
      BY <2>2, ClearFacts
    <3>2. call' = Idle \/ call'.orphans = call.orphans
      BY <2>1, <3>1 DEF CallState
    <3>3. ClearRequest.action = "clear"
      BY RequestFields
    <3>4. QED
      BY <3>1, <3>2, <3>3
  <2>3. CASE RestoreLive
    <3>1. /\ UNCHANGED registry /\ call.phase = "restore"
          /\ \/ call' = Idle
             \/ call' = [call EXCEPT !.phase = "probe"]
          /\ \E heard : Heeded(RestoreRequest, heard)
      BY <2>3, RestoreFacts
    <3>2. call' = Idle \/ call'.orphans = call.orphans
      BY <2>1, <3>1 DEF CallState
    <3>3. RestoreRequest.action = "restore"
      BY RequestFields
    <3>4. QED
      BY <3>1, <3>2, <3>3
  <2>4. QED
    BY <2>2, <2>3
<1>2. PICK request, heard : /\ request.action \in {"clear", "restore"}
                            /\ Heeded(request, heard)
  BY <1>1
<1>3. /\ Effect(server, server', request) /\ missed \subseteq missed'
      /\ late' = late \/ late' = late \cup {request}
  BY <1>2 DEF Heeded, Exchanged
<1>4. call'.orphans \subseteq call.orphans
  BY <1>1, IdleCall
<1>5. Doomed' \cap (Bound' \cup HeldHandles') = {}
  <2>1. DoomsNothingNew
    BY <1>1, <1>2, <1>3, <1>4 DEF DoomsNothingNew, registry, Effect
  <2>2. QED
    BY <2>1, DoomedKept DEF LiveInv
<1>6. InStore'
  BY <1>1, <1>2, <1>3, InStoreKept DEF LiveInv, registry, Actions
<1>7. Owned' = Owned /\ \A k \in Keys : held'[k] = None
  BY <1>1, NothingHeld DEF LiveInv, Owned, Bound, HeldHandles, registry
<1>8. QED
  BY <1>5, <1>6, <1>7 DEF LiveInv, HeldBriefly

LEMMA LiveCompletion ==
    ASSUME TypeInv, LiveInv, Probe \/ ProbeFails \/ \E prompt \in Keys : Generate(prompt)
    PROVE  LiveInv'
<1>1. /\ UNCHANGED <<pinned, records, pending, held, late, missed>>
      /\ call' = Idle
      /\ server'.epoch = server.epoch
      /\ Handles(server') = Handles(server)
  BY CompletionFacts
<1>2. call.phase # "admit"
  BY IdleCall DEF Probe, ProbeFails, Generate
<1>3. Owned' = Owned /\ Bound' = Bound /\ HeldHandles' = HeldHandles
      /\ \A k \in Keys : held'[k] = None
  BY <1>1, <1>2, NothingHeld DEF LiveInv, Owned, Bound, HeldHandles
<1>4. Doomed' \cap (Bound' \cup HeldHandles') = {}
  BY <1>1, IdleCall, DoomedKept DEF LiveInv, DoomsNothingNew
<1>5. QED
  BY <1>1, <1>3, <1>4 DEF LiveInv, HeldBriefly, InStore

LEMMA LiveEnvironment ==
    ASSUME TypeInv, LiveInv, Load \/ \E request \in late : RunLate(request)
    PROVE  LiveInv'
<1>1. UNCHANGED <<call, registry>>
  BY DEF Load, RunLate
<1>2. /\ Owned' = Owned /\ Bound' = Bound /\ HeldHandles' = HeldHandles
      /\ held' = held /\ call' = call
  BY <1>1 DEF Owned, Bound, HeldHandles, registry
<1>3. CASE Load
  <2>1. pinned' # server'.epoch
    BY <1>3, TypeLoad
  <2>2. Doomed' \subseteq Doomed
    <3>1. \A r \in late : r.epoch \in 1 .. pinned
      BY DEF TypeInv, ServerInv, Waiting
    <3>2. server'.epoch = server.epoch + 1 /\ pinned \in 1 .. server.epoch
          /\ server.epoch \in Nat /\ late' = late /\ pending' = pending
      BY <1>3, LoadedProper DEF Load, TypeInv, ServerInv, Proper, registry
    <3>3. \A r \in late' : r.epoch # server'.epoch
      BY <3>1, <3>2
    <3>4. QED
      BY <1>2, <3>2, <3>3 DEF Doomed
  <2>3. QED
    BY <1>2, <2>1, <2>2 DEF LiveInv, HeldBriefly, InStore
<1>4. ASSUME NEW request \in late, RunLate(request)
      PROVE  LiveInv'
  <2>1. /\ request.action \in Actions
        /\ Effect(server, server', request)
        /\ late' \subseteq late /\ missed \subseteq missed'
        /\ request.action = "capture" => Handles(server) \ Handles(server') \subseteq missed'
        /\ server'.epoch = server.epoch
    BY <1>4, TypeLate
  <2>2. request.action = "drop" /\ request.epoch = server.epoch
           => request.handle \notin Bound \cup HeldHandles
    BY DEF LiveInv, Doomed
  <2>3. InStore'
    BY <1>1, <2>1, <2>2, InStoreKept DEF LiveInv, registry
  <2>4. Doomed' \cap (Bound' \cup HeldHandles') = {}
    BY <1>1, <2>1, DoomedKept DEF LiveInv, DoomsNothingNew, registry
  <2>5. QED
    BY <1>2, <2>3, <2>4 DEF LiveInv, HeldBriefly
<1>5. QED
  BY <1>3, <1>4

LEMMA LiveBlank ==
    ASSUME Blank
    PROVE  LiveInv
<1>1. Bound = {} /\ HeldHandles = {} /\ Owned = {} /\ held = NoBindings
  BY BlankRegistry DEF Blank
<1>2. QED
  BY <1>1 DEF LiveInv, HeldBriefly, InStore, NoBindings

LEMMA LiveStep ==
    ASSUME TypeInv, OwnerInv, OwnerInv', LiveInv, ~SplitCalls, Step
    PROVE  LiveInv'
<1>1. CASE LocalStep
  BY <1>1, LiveLocal
<1>2. CASE Connect
  BY <1>2, TypeConnect, LiveBlank, PTL
<1>3. QED
  BY <1>1, <1>2, LiveBinding, LiveDrop, LiveConfirm, LiveCapture, LiveLookup,
     LiveCompletion, LiveEnvironment DEF Step, LocalStep

LEMMA LiveHolds == ~SplitCalls => (Spec => [](TypeInv /\ OwnerInv /\ LiveInv))
<1>1. Init => LiveInv
  BY InitBlank, LiveBlank
<1>2. ~SplitCalls /\ TypeInv /\ OwnerInv /\ OwnerInv' /\ LiveInv /\ [Next]_vars => LiveInv'
  <2>1. SUFFICES ASSUME ~SplitCalls, TypeInv, OwnerInv, OwnerInv', LiveInv, [Next]_vars
                 PROVE  LiveInv'
    OBVIOUS
  <2>2. CASE Next
    BY <2>1, <2>2, NextSteps, LiveStep
  <2>3. CASE UNCHANGED vars
    BY <2>1, <2>3 DEF LiveInv, HeldBriefly, Doomed, InStore, Owned, Bound,
       HeldHandles, vars
  <2>4. QED
    BY <2>1, <2>2, <2>3
<1>3. QED
  <2>1. SUFFICES ASSUME ~SplitCalls PROVE Spec => [](TypeInv /\ OwnerInv /\ LiveInv)
    OBVIOUS
  <2>2. TypeInv /\ OwnerInv /\ OwnerInv' /\ LiveInv /\ [Next]_vars => LiveInv'
    BY <1>2, <2>1
  <2>3. QED
    BY <1>1, <2>2, OwnersHold, PTL DEF Spec

(* When captures are admitted by the call that makes them, every bound     *)
(* handle is in the store and holds the prompt of its key, or was          *)
(* reclaimed by a capture whose reply never came.                          *)
THEOREM BoundStatesLive == ~SplitCalls => (Spec => []BindingsLive)
<1>1. OwnerInv /\ LiveInv => BindingsLive
  BY DEF OwnerInv, Authentic, LiveInv, InStore, Bound, BindingsLive
<1>2. QED
  BY <1>1, LiveHolds, PTL

-----------------------------------------------------------------------------
(* The live slot, while no restore is executed late.                       *)

SlotInv ==
    /\ call.phase \in {"select", "restore"} => server.slot = None
    /\ SlotIsSelected

LEMMA SlotElsewhere ==
    ASSUME call'.phase \notin {"select", "restore", "probe"}
    PROVE  SlotInv'
BY DEF SlotInv, SlotIsSelected

LEMMA SlotLocal ==
    ASSUME TypeInv, SlotInv, LocalStep
    PROVE  SlotInv'
<1>1. server' = server
  BY LocalFacts
<1>2. call \in CallState
  BY DEF TypeInv, CallInv
<1>3. CASE call' = Idle
  BY <1>3, IdleCall, SlotElsewhere
<1>4. CASE \/ \E key \in Keys, stable \in BOOLEAN : StartCapture(key, stable)
           \/ ReconcileOrphans
           \/ \E prompt \in Keys : Lookup(prompt)
  <2>1. call'.phase \in {"capture", "flush", "reconcile", "clear"}
    BY <1>4 DEF StartCapture, ReconcileOrphans, Lookup, Idle
  <2>2. QED
    BY <2>1, SlotElsewhere
<1>5. CASE FlushDone
  <2>1. call' = Idle \/ call' = [call EXCEPT !.phase = "capture"]
    BY <1>5 DEF FlushDone
  <2>2. call' = Idle \/ call'.phase = "capture"
    BY <1>2, <2>1 DEF CallState
  <2>3. QED
    BY <1>3, <2>2, SlotElsewhere
<1>6. CASE Reconcile
  <2>1. \/ call' = Idle
        \/ call' = [call EXCEPT !.phase = "sweep", !.sweeping = TRUE, !.orphans = Unknown]
    BY <1>6 DEF Reconcile
  <2>2. call' = Idle \/ call'.phase = "sweep"
    BY <1>2, <2>1 DEF CallState
  <2>3. QED
    BY <1>3, <2>2, SlotElsewhere
<1>7. CASE SweepDone
  BY <1>3, <1>7 DEF SweepDone
<1>8. CASE Select
  <2>1. call.phase = "select"
    BY <1>8 DEF Select
  <2>2. server'.slot = None
    BY <1>1, <2>1 DEF SlotInv
  <2>3. QED
    BY <2>2 DEF SlotInv, SlotIsSelected
<1>9. QED
  BY <1>4, <1>5, <1>6, <1>7, <1>8 DEF LocalStep

(* A clear that is answered leaves nothing on the slot, and a restore that *)
(* is answered the prompt of the key that was chosen.                      *)
LEMMA SlotLookup ==
    ASSUME TypeInv, OwnerInv, ClearLiveSlot \/ RestoreLive
    PROVE  SlotInv'
<1>1. call \in CallState /\ Idle.phase = "idle"
  BY IdleCall DEF TypeInv, CallInv
<1>2. CASE ClearLiveSlot
  <2>1. PICK heard :
            /\ Heeded(ClearRequest, heard)
            /\ call' = IF heard.reply.ok THEN [call EXCEPT !.phase = "select"] ELSE Idle
    BY <1>2, ClearFacts
  <2>2. CASE ~heard.reply.ok
    BY <1>1, <2>1, <2>2, SlotElsewhere
  <2>3. CASE heard.reply.ok
    <3>1. server'.slot = None
      BY <2>1, <2>3, RequestFields DEF Heeded, Exchanged, Answered
    <3>2. QED
      BY <3>1 DEF SlotInv, SlotIsSelected
  <2>4. QED
    BY <2>2, <2>3
<1>3. CASE RestoreLive
  <2>1. PICK heard :
            /\ Heeded(RestoreRequest, heard)
            /\ call' = IF heard.reply.ok THEN [call EXCEPT !.phase = "probe"] ELSE Idle
    BY <1>3, RestoreFacts
  <2>2. CASE ~heard.reply.ok
    BY <1>1, <2>1, <2>2, SlotElsewhere
  <2>3. CASE heard.reply.ok
    <3>1. /\ pinned = server.epoch /\ records[call.chosen] \in Handles(server)
          /\ server'.slot = server.states[records[call.chosen]].prompt
      BY <2>1, <2>3, RequestFields DEF Heeded, Exchanged, Answered
    <3>2. call.chosen \in Keys
      <4>1. call.phase = "restore"
        BY <1>3, RestoreFacts
      <4>2. QED
        BY <4>1 DEF TypeInv, CallInv, PolicyInv, Coherent, WellTyped
    <3>3. server'.slot = call.chosen
      BY <3>1, <3>2 DEF OwnerInv, Authentic
    <3>4. call'.phase = "probe" /\ call'.chosen = call.chosen
      BY <1>1, <2>1, <2>3 DEF CallState, Phases
    <3>5. QED
      BY <3>3, <3>4 DEF SlotInv, SlotIsSelected
  <2>4. QED
    BY <2>2, <2>3
<1>4. QED
  BY <1>2, <1>3

LEMMA SlotStep ==
    ASSUME TypeInv, OwnerInv, SlotInv, "restore" \notin LateActions, Step
    PROVE  SlotInv'
<1>0. call \in CallState
  BY DEF TypeInv, CallInv
<1>1. CASE LocalStep
  BY <1>1, SlotLocal
<1>2. CASE BindStep \/ \E targetSequences, targetBytes : TrimTo(targetSequences, targetBytes)
  BY <1>2, BindingPasses, SlotElsewhere DEF OwnerInv
<1>3. ASSUME NEW h, FlushDrop(h) \/ SweepDrop(h)
      PROVE  SlotInv'
  <2>1. call.phase \in {"flush", "sweep"}
    BY <1>3 DEF FlushDrop, SweepDrop
  <2>2. \/ call' = call
        \/ call' = [call EXCEPT !.orphans = @ \ {h}]
        \/ call' = [call EXCEPT !.phase = "confirm", !.handle = h]
    BY <1>3, DropFacts
  <2>3. call'.phase \in {"flush", "sweep", "confirm"}
    <3>1. CASE call' = [call EXCEPT !.orphans = @ \ {h}]
      BY <1>0, <2>1, <3>1 DEF CallState
    <3>2. CASE call' = [call EXCEPT !.phase = "confirm", !.handle = h]
      BY <1>0, <3>2 DEF CallState
    <3>3. QED
      BY <2>1, <2>2, <3>1, <3>2
  <2>4. QED
    BY <2>3, SlotElsewhere
<1>4. CASE Confirm
  <2>1. CASE call' = Idle
    BY <2>1, IdleCall, SlotElsewhere
  <2>2. CASE call' = [call EXCEPT !.orphans = @ \ {call.handle}, !.handle = None,
                                  !.phase = IF call.sweeping THEN "sweep" ELSE "flush"]
    <3>1. call'.phase \in {"sweep", "flush"}
      BY <1>0, <2>2 DEF CallState
    <3>2. QED
      BY <3>1, SlotElsewhere
  <2>3. QED
    BY <1>4, <2>1, <2>2 DEF Confirm
<1>5. CASE CaptureSlot
  <2>1. \/ call' = Idle
        \/ call' = [call EXCEPT !.phase = "admit"]
        \/ call' = [call EXCEPT !.phase = "reconcile"]
    BY <1>5, CaptureFacts
  <2>2. call'.phase \in {"idle", "admit", "reconcile"}
    BY <1>0, <2>1, IdleCall DEF CallState
  <2>3. QED
    BY <2>2, SlotElsewhere
<1>6. CASE ClearLiveSlot \/ RestoreLive
  BY <1>6, SlotLookup
<1>7. CASE Probe \/ ProbeFails \/ \E prompt \in Keys : Generate(prompt)
  BY <1>7, CompletionFacts, IdleCall, SlotElsewhere
<1>8. CASE Load
  <2>1. call' = call /\ server'.slot = None
    BY <1>8, LoadedProper DEF Load, TypeInv, ServerInv, Proper
  <2>2. QED
    BY <2>1 DEF SlotInv, SlotIsSelected
<1>9. ASSUME NEW request \in late, RunLate(request)
      PROVE  SlotInv'
  <2>1. /\ request.action \in Actions \ {"restore"}
        /\ Effect(server, server', request) /\ call' = call
    BY <1>9, TypeLate
  <2>2. server'.slot \in {server.slot, None}
    BY <2>1 DEF Effect, Actions
  <2>3. QED
    BY <2>1, <2>2 DEF SlotInv, SlotIsSelected
<1>10. CASE Connect
  <2>1. call' = Idle
    BY <1>10 DEF Connect
  <2>2. QED
    BY <2>1, IdleCall, SlotElsewhere
<1>11. QED
  BY <1>1, <1>2, <1>3, <1>4, <1>5, <1>6, <1>7, <1>8, <1>9, <1>10 DEF Step, LocalStep

(* While no restore is executed late, what completes on the slot is what   *)
(* was selected: the slot holds the chosen state or nothing.               *)
THEOREM SlotHoldsSelection == "restore" \notin LateActions => (Spec => []SlotIsSelected)
<1>1. Init => SlotInv
  BY InitBlank, IdleCall DEF Blank, SlotInv, SlotIsSelected
<1>2. ASSUME "restore" \notin LateActions
      PROVE  TypeInv /\ OwnerInv /\ SlotInv /\ [Next]_vars => SlotInv'
  <2>1. SUFFICES ASSUME TypeInv, OwnerInv, SlotInv, [Next]_vars PROVE SlotInv'
    OBVIOUS
  <2>2. CASE Next
    BY <1>2, <2>1, <2>2, NextSteps, SlotStep
  <2>3. CASE UNCHANGED vars
    BY <2>1, <2>3 DEF SlotInv, SlotIsSelected, vars
  <2>4. QED
    BY <2>1, <2>2, <2>3
<1>3. SlotInv => SlotIsSelected
  BY DEF SlotInv
<1>4. QED
  <2>1. SUFFICES ASSUME "restore" \notin LateActions PROVE Spec => []SlotIsSelected
    OBVIOUS
  <2>2. TypeInv /\ OwnerInv /\ SlotInv /\ [Next]_vars => SlotInv'
    BY <1>2, <2>1
  <2>3. QED
    BY <1>1, <1>3, <2>2, OwnersHold, PTL DEF Spec

-----------------------------------------------------------------------------
(* Leaks, while no capture is executed late.                               *)

Leaked == Handles(server) \ Owned

LeakCount == Cardinality(Leaked)

\* A clean-up that is under way may still make up for the last failure.
Allowed == IF call.phase = "reconcile" \/ call.sweeping THEN faults + 1 ELSE faults

LeakInv ==
    pinned = server.epoch =>
        /\ 2 * LeakCount <= Allowed
        /\ call.sweeping => Leaked \subseteq call.orphans
        /\ call.phase = "confirm" /\ call.handle \in Handles(server)
              => 2 * LeakCount <= faults

LEMMA LeaksFinite ==
    ASSUME TypeInv
    PROVE  IsFiniteSet(Leaked) /\ LeakCount \in Nat
<1>1. Leaked \subseteq 1 .. server.next - 1 /\ server.next - 1 \in Int
  BY DEF TypeInv, ServerInv, Proper, Leaked
<1>2. IsFiniteSet(1 .. server.next - 1)
  BY <1>1, FS_Interval
<1>3. IsFiniteSet(Leaked)
  BY <1>1, <1>2, FS_Subset
<1>4. QED
  BY <1>3, FS_CardinalityType DEF LeakCount

\* The arithmetic of leaks and failures.
LEMMA LeakArithmetic ==
    ASSUME NEW c \in Nat, NEW d \in Nat, NEW a \in Nat, NEW b \in Nat, 2 * c <= a
    PROVE  /\ d <= c /\ a <= b => 2 * d <= b
           /\ d <= c + 1 /\ b = a + 2 => 2 * d <= b
  OBVIOUS

(* A reading fails only by a fault, unless the store has another epoch.    *)
LEMMA ReadingFacts ==
    ASSUME NEW reading \in Readings
    PROVE  /\ reading.faults \in {faults, faults + 1}
           /\ ~reading.ok /\ pinned = server.epoch => reading.faults = faults + 1
<1>1. CASE reading = [ok |-> server.epoch = pinned, faults |-> faults]
  BY <1>1
<1>2. CASE reading = [ok |-> FALSE, faults |-> faults + 1]
  BY <1>2
<1>3. QED
  BY <1>1, <1>2 DEF Readings

LEMMA AllowedFacts ==
    ASSUME faults \in Nat
    PROVE  /\ Allowed \in Nat /\ faults <= Allowed /\ Allowed <= faults + 1
           /\ call.phase # "reconcile" /\ ~call.sweeping => Allowed = faults
           /\ call.phase = "reconcile" \/ call.sweeping => Allowed = faults + 1
BY DEF Allowed

LEMMA FewerLeaks ==
    ASSUME TypeInv, Leaked' \subseteq Leaked
    PROVE  LeakCount \in Nat /\ LeakCount' \in Nat /\ LeakCount' <= LeakCount
<1>1. IsFiniteSet(Leaked) /\ LeakCount \in Nat
  BY LeaksFinite
<1>2. Leaked' \in SUBSET Leaked
  OBVIOUS
<1>3. IsFiniteSet(Leaked') /\ Cardinality(Leaked') <= Cardinality(Leaked)
  BY <1>1, <1>2, FS_Subset
<1>4. QED
  BY <1>1, <1>3, FS_CardinalityType DEF LeakCount

LEMMA OneMoreLeak ==
    ASSUME TypeInv, NEW h, Leaked' \subseteq Leaked \cup {h}
    PROVE  LeakCount \in Nat /\ LeakCount' \in Nat /\ LeakCount' <= LeakCount + 1
<1>1. IsFiniteSet(Leaked) /\ LeakCount \in Nat
  BY LeaksFinite
<1>2. /\ IsFiniteSet(Leaked \cup {h})
      /\ Cardinality(Leaked \cup {h})
            = IF h \in Leaked THEN Cardinality(Leaked) ELSE Cardinality(Leaked) + 1
  BY <1>1, FS_AddElement
<1>3. Leaked' \in SUBSET (Leaked \cup {h})
  OBVIOUS
<1>4. IsFiniteSet(Leaked') /\ Cardinality(Leaked') <= Cardinality(Leaked \cup {h})
  BY <1>2, <1>3, FS_Subset
<1>5. Cardinality(Leaked') \in Nat /\ Cardinality(Leaked \cup {h}) \in Nat
  BY <1>2, <1>4, FS_CardinalityType
<1>6. LeakCount = Cardinality(Leaked) /\ LeakCount' = Cardinality(Leaked')
  BY DEF LeakCount
<1>7. QED
  BY <1>1, <1>2, <1>4, <1>5, <1>6

(* No new leak, no failure taken back, and no clean-up begun or confirmed. *)
LEMMA LeaksKept ==
    ASSUME TypeInv, LeakInv, Leaked' \subseteq Leaked,
           faults' \in {faults, faults + 1},
           UNCHANGED pinned, server'.epoch = server.epoch,
           call.phase # "reconcile" /\ ~call.sweeping,
           call'.sweeping = FALSE, call'.phase # "confirm"
    PROVE  LeakInv'
<1>1. LeakCount \in Nat /\ LeakCount' \in Nat /\ LeakCount' <= LeakCount
  BY FewerLeaks
<1>2. faults \in Nat
  BY ManagedAssumption DEF TypeInv, ServerInv
<1>3. pinned = server.epoch => 2 * LeakCount <= faults
  BY DEF LeakInv, Allowed
<1>4. faults' \in Nat /\ faults <= faults'
  BY <1>2
<1>5. Allowed' \in Nat /\ faults' <= Allowed'
  <2>1. CASE call'.phase = "reconcile"
    <3>1. call'.phase = "reconcile" \/ call'.sweeping
      BY <2>1
    <3>2. Allowed' = faults' + 1
      BY <3>1, Zenon DEF Allowed
    <3>3. \A a \in Nat : a + 1 \in Nat /\ a <= a + 1
      OBVIOUS
    <3>4. QED
      BY <1>4, <3>2, <3>3, Zenon
  <2>2. CASE call'.phase # "reconcile"
    <3>1. Allowed' = faults'
      BY <2>2 DEF Allowed
    <3>2. QED
      BY <1>4, <3>1
  <2>3. QED
    BY <2>1, <2>2
<1>6. faults <= Allowed'
  BY <1>2, <1>4, <1>5
<1>7. pinned' = server'.epoch => 2 * LeakCount' <= Allowed'
  BY <1>1, <1>2, <1>3, <1>5, <1>6, LeakArithmetic
<1>8. QED
  BY <1>7 DEF LeakInv

LEMMA LeakLocal ==
    ASSUME TypeInv, LeakInv, LocalStep
    PROVE  LeakInv'
<1>1. /\ UNCHANGED <<server, pending, records, held, pinned>>
      /\ Leaked' = Leaked /\ server'.epoch = server.epoch
  BY LocalFacts DEF Leaked, Owned, Bound, HeldHandles, registry
<1>2. call \in CallState /\ LeakCount \in Nat /\ faults \in Nat
  BY LeaksFinite, ManagedAssumption DEF TypeInv, CallInv, ServerInv
<1>3. CASE \/ \E key \in Keys, stable \in BOOLEAN : StartCapture(key, stable)
           \/ ReconcileOrphans
           \/ \E prompt \in Keys : Lookup(prompt)
  <2>1. call = Idle /\ faults' = faults
    BY <1>3 DEF StartCapture, ReconcileOrphans, Lookup, transport
  <2>2. call'.sweeping = FALSE /\ call'.phase # "confirm"
    BY <1>3 DEF StartCapture, ReconcileOrphans, Lookup, Idle
  <2>3. call.phase # "reconcile" /\ ~call.sweeping
    BY <2>1, IdleCall
  <2>4. QED
    BY <1>1, <2>1, <2>2, <2>3, LeaksKept
<1>4. CASE FlushDone \/ Select
  <2>1. /\ call.phase \in {"flush", "select"} /\ faults' = faults
        /\ \/ call' = Idle
           \/ call' = [call EXCEPT !.phase = "capture"]
           \/ call' = [call EXCEPT !.phase = "probe"]
           \/ \E k : call' = [call EXCEPT !.phase = "restore", !.chosen = k]
    BY <1>4 DEF FlushDone, Select, transport
  <2>2. ~call.sweeping
    BY <2>1 DEF TypeInv, CallInv
  <2>3. call' # Idle => call'.sweeping = call.sweeping /\ call'.phase # "confirm"
    BY <1>2, <2>1 DEF CallState
  <2>4. call'.sweeping = FALSE /\ call'.phase # "confirm"
    BY <1>2, <2>2, <2>3, IdleCall DEF CallState
  <2>5. QED
    BY <1>1, <2>1, <2>2, <2>4, LeaksKept
<1>5. CASE Reconcile
  <2>1. PICK reading \in Readings :
            /\ faults' = reading.faults
            /\ call' = IF reading.ok
                       THEN [call EXCEPT !.phase = "sweep", !.sweeping = TRUE, !.orphans = Unknown]
                       ELSE Idle
    BY <1>5 DEF Reconcile
  <2>2. /\ reading.faults \in {faults, faults + 1}
        /\ ~reading.ok /\ pinned = server.epoch => reading.faults = faults + 1
    BY ReadingFacts
  <2>3. LeakInv => (pinned = server.epoch => 2 * LeakCount <= faults + 1)
    BY <1>5 DEF LeakInv, Allowed, Reconcile
  <2>4. LeakCount' = LeakCount
    BY <1>1 DEF LeakCount
  <2>5. CASE reading.ok
    <3>1. call'.phase = "sweep" /\ call'.sweeping = TRUE /\ call'.orphans = Unknown
      BY <1>2, <2>1, <2>5 DEF CallState
    <3>2. Leaked \subseteq Unknown
      BY DEF Leaked, Owned, Unknown
    <3>3. Allowed' \in {faults + 1, faults + 2}
      BY <1>2, <2>1, <2>2, <3>1 DEF Allowed
    <3>4. pinned = server.epoch => 2 * LeakCount' <= Allowed'
      BY <1>2, <2>3, <2>4, <3>3
    <3>5. QED
      BY <1>1, <3>1, <3>2, <3>4 DEF LeakInv
  <2>6. CASE ~reading.ok
    <3>1. call' = Idle
      BY <2>1, <2>6
    <3>2. pinned = server.epoch => Allowed' = faults + 1
      BY <2>1, <2>2, <2>6, <3>1, IdleCall DEF Allowed
    <3>3. QED
      BY <1>1, <2>3, <2>4, <3>1, <3>2, IdleCall DEF LeakInv
  <2>7. QED
    BY <2>5, <2>6
<1>6. CASE SweepDone
  <2>1. call.phase = "sweep" /\ call.orphans = {} /\ call' = Idle /\ faults' = faults
    BY <1>6 DEF SweepDone, transport
  <2>2. call.sweeping
    BY <2>1 DEF TypeInv, CallInv
  <2>3. pinned = server.epoch => Leaked' = {}
    BY <1>1, <2>1, <2>2 DEF LeakInv
  <2>4. pinned = server.epoch => LeakCount' = 0
    BY <2>3, FS_EmptySet DEF LeakCount
  <2>5. Allowed' = faults
    BY <2>1, IdleCall DEF Allowed
  <2>6. QED
    BY <1>1, <1>2, <2>1, <2>4, <2>5, IdleCall DEF LeakInv
<1>7. QED
  BY <1>3, <1>4, <1>5, <1>6 DEF LocalStep

(* What a failure costs: one of the failures that may occur.               *)
LEMMA HeededFaults ==
    ASSUME NEW request, NEW heard, Heeded(request, heard)
    PROVE  /\ Effect(server, server', request)
           /\ heard.reply.ok \in BOOLEAN
           /\ heard.reply.ok => Answered(server, server', request, heard.reply)
                               /\ faults' = faults
           /\ \/ faults' = faults + 1
              \/ /\ faults' = faults
                 /\ request.epoch = server.epoch /\ ~heard.reply.ok
                       => Declined(server, server', request)
<1>1. Exchanged(request, heard) /\ server' = heard.server /\ faults' = heard.faults
  BY DEF Heeded
<1>2. /\ Effect(server, heard.server, request)
      /\ heard.reply.ok \in BOOLEAN
      /\ heard.reply.ok => Answered(server, heard.server, request, heard.reply)
                          /\ heard.faults = faults
      /\ \/ heard.faults = faults + 1
         \/ /\ heard.faults = faults
            /\ request.epoch = server.epoch /\ ~heard.reply.ok
                  => Declined(server, heard.server, request)
  BY <1>1, Zenon DEF Exchanged
<1>3. QED
  BY <1>1, <1>2

(* A drop that is answered takes its handle off the leaks and the orphans, *)
(* and one that is refused is of a handle that is gone.                    *)
LEMMA LeakDrop ==
    ASSUME TypeInv, LeakInv, NEW h, FlushDrop(h) \/ SweepDrop(h)
    PROVE  LeakInv'
<1>1. UNCHANGED <<policy, pinned, records, held>> /\ call.phase \in {"flush", "sweep"}
  BY DropFacts
<1>2. call \in CallState /\ LeakCount \in Nat /\ faults \in Nat
  BY LeaksFinite, ManagedAssumption DEF TypeInv, CallInv, ServerInv
<1>3. Bound' = Bound /\ HeldHandles' = HeldHandles
  BY <1>1 DEF Bound, HeldHandles
<1>4. CASE /\ h \in Bound /\ pending' = pending \ {h}
           /\ UNCHANGED <<server, call, transport>>
  <2>1. Leaked' = Leaked /\ faults' = faults
    BY <1>3, <1>4 DEF Leaked, Owned, transport
  <2>2. LeakCount' = LeakCount
    BY <2>1 DEF LeakCount
  <2>3. QED
    BY <1>1, <1>4, <2>1, <2>2 DEF LeakInv, Allowed
<1>5. ASSUME NEW heard, Heeded(DropRequest(h), heard),
             IF heard.reply.ok
             THEN /\ pending' = pending \ {h}
                  /\ call' = [call EXCEPT !.orphans = @ \ {h}]
             ELSE /\ call' = [call EXCEPT !.phase = "confirm", !.handle = h]
                  /\ UNCHANGED pending
      PROVE  LeakInv'
  <2>1. /\ Effect(server, server', DropRequest(h))
        /\ heard.reply.ok => h \notin Handles(server') /\ faults' = faults
        /\ \/ faults' = faults + 1
           \/ /\ faults' = faults
              /\ pinned = server.epoch /\ ~heard.reply.ok => h \notin Handles(server')
    <3>1. DropRequest(h).action = "drop" /\ DropRequest(h).handle = h
          /\ DropRequest(h).epoch = pinned
      BY RequestFields
    <3>2. QED
      BY <1>5, <3>1, HeededFaults DEF Answered, Declined
  <2>2. Handles(server') \subseteq Handles(server) /\ server'.epoch = server.epoch
    BY <2>1, RequestFields DEF Effect
  <2>3. Leaked' \subseteq Leaked
    BY <1>3, <1>5, <2>1, <2>2 DEF Leaked, Owned
  <2>4. LeakCount' \in Nat /\ LeakCount' <= LeakCount
    BY <2>3, FewerLeaks
  <2>5. /\ call'.sweeping = call.sweeping
        /\ heard.reply.ok => call'.phase = call.phase /\ call'.orphans = call.orphans \ {h}
        /\ ~heard.reply.ok => /\ call'.phase = "confirm" /\ call'.handle = h
                              /\ call'.orphans = call.orphans
    <3>1. CASE heard.reply.ok
      BY <1>2, <1>5, <3>1 DEF CallState
    <3>2. CASE ~heard.reply.ok
      BY <1>2, <1>5, <3>2 DEF CallState
    <3>3. QED
      BY <3>1, <3>2
  <2>6. SUFFICES ASSUME pinned = server.epoch
                 PROVE  /\ 2 * LeakCount' <= Allowed'
                        /\ call'.sweeping => Leaked' \subseteq call'.orphans
                        /\ call'.phase = "confirm" /\ call'.handle \in Handles(server')
                              => 2 * LeakCount' <= faults'
    BY <1>1, <2>2 DEF LeakInv
  <2>7. 2 * LeakCount <= Allowed /\ Allowed \in Nat /\ Allowed <= faults + 1
    BY <1>2, <2>6 DEF LeakInv, Allowed
  <2>8. Allowed <= Allowed' /\ Allowed' \in Nat
    BY <1>1, <1>2, <2>1, <2>5 DEF Allowed
  <2>9. 2 * LeakCount' <= Allowed'
    BY <1>2, <2>4, <2>7, <2>8, LeakArithmetic
  <2>10. call'.sweeping => Leaked' \subseteq call'.orphans
    <3>1. heard.reply.ok => h \notin Leaked'
      BY <2>1 DEF Leaked
    <3>2. call.sweeping => Leaked \subseteq call.orphans
      BY <2>6 DEF LeakInv
    <3>3. QED
      BY <2>3, <2>5, <3>1, <3>2
  <2>11. ASSUME call'.phase = "confirm", call'.handle \in Handles(server')
         PROVE  2 * LeakCount' <= faults'
    <3>1. ~heard.reply.ok /\ h \in Handles(server')
      BY <1>1, <2>5, <2>11
    <3>2. faults' = faults + 1 /\ faults' \in Nat /\ Allowed <= faults'
      BY <1>2, <2>1, <2>6, <2>7, <3>1
    <3>3. QED
      BY <1>2, <2>4, <2>7, <3>2, LeakArithmetic
  <2>12. QED
    BY <2>9, <2>10, <2>11
<1>6. QED
  BY <1>4, <1>5, DropFacts

LEMMA LeakConfirm ==
    ASSUME TypeInv, LeakInv, Confirm
    PROVE  LeakInv'
<1>1. PICK reading \in Readings :
          /\ faults' = reading.faults
          /\ IF reading.ok /\ call.handle \notin Handles(server)
             THEN /\ pending' = pending \ {call.handle}
                  /\ call' = [call EXCEPT !.orphans = @ \ {call.handle}, !.handle = None,
                                          !.phase = IF call.sweeping THEN "sweep" ELSE "flush"]
             ELSE call' = Idle /\ UNCHANGED pending
  BY DEF Confirm
<1>2. /\ UNCHANGED <<server, policy, pinned, records, held>> /\ call.phase = "confirm"
  BY DEF Confirm
<1>3. call \in CallState /\ LeakCount \in Nat /\ faults \in Nat
  BY LeaksFinite, ManagedAssumption DEF TypeInv, CallInv, ServerInv
<1>4. /\ reading.faults \in {faults, faults + 1}
      /\ ~reading.ok /\ pinned = server.epoch => reading.faults = faults + 1
  BY ReadingFacts
<1>5. Bound' = Bound /\ HeldHandles' = HeldHandles
  BY <1>2 DEF Bound, HeldHandles
<1>6. SUFFICES ASSUME pinned = server.epoch
               PROVE  /\ 2 * LeakCount' <= Allowed'
                      /\ call'.sweeping => Leaked' \subseteq call'.orphans
                      /\ call'.phase # "confirm"
  BY <1>2 DEF LeakInv
<1>7. 2 * LeakCount <= Allowed
  BY <1>6 DEF LeakInv
<1>8. CASE reading.ok /\ call.handle \notin Handles(server)
  <2>1. /\ pending' = pending \ {call.handle}
        /\ call' = [call EXCEPT !.orphans = @ \ {call.handle}, !.handle = None,
                                !.phase = IF call.sweeping THEN "sweep" ELSE "flush"]
    BY <1>1, <1>8
  <2>2. Leaked' = Leaked /\ call.handle \notin Leaked
    BY <1>2, <1>5, <1>8, <2>1 DEF Leaked, Owned
  <2>3. LeakCount' = LeakCount
    BY <2>2 DEF LeakCount
  <2>4. /\ call'.sweeping = call.sweeping
        /\ call'.orphans = call.orphans \ {call.handle}
        /\ call'.phase \in {"sweep", "flush"}
    BY <1>3, <2>1 DEF CallState
  <2>5. Allowed' \in {Allowed, Allowed + 1} /\ Allowed \in Nat
    BY <1>1, <1>2, <1>3, <1>4, <2>4 DEF Allowed
  <2>6. call.sweeping => Leaked \subseteq call.orphans
    BY <1>6 DEF LeakInv
  <2>7. 2 * LeakCount' <= Allowed'
    BY <1>3, <1>7, <2>3, <2>5
  <2>8. QED
    BY <2>2, <2>4, <2>6, <2>7
<1>9. CASE ~(reading.ok /\ call.handle \notin Handles(server))
  <2>1. call' = Idle /\ UNCHANGED pending
    BY <1>1, <1>9
  <2>2. Leaked' = Leaked
    BY <1>2, <1>5, <2>1 DEF Leaked, Owned
  <2>3. LeakCount' = LeakCount
    BY <2>2 DEF LeakCount
  <2>4. Allowed' = faults'
    BY <2>1, IdleCall DEF Allowed
  <2>5. 2 * LeakCount <= faults'
    <3>1. CASE reading.ok
      <4>1. 2 * LeakCount <= faults
        BY <1>2, <1>6, <1>9, <3>1 DEF LeakInv
      <4>2. QED
        BY <1>1, <1>3, <1>4, <4>1
    <3>2. CASE ~reading.ok
      <4>1. faults' = faults + 1
        BY <1>1, <1>4, <1>6, <3>2
      <4>2. Allowed <= faults + 1 /\ Allowed \in Nat
        BY <1>3 DEF Allowed
      <4>3. QED
        BY <1>3, <1>7, <4>1, <4>2
    <3>3. QED
      BY <3>1, <3>2
  <2>6. QED
    BY <2>1, <2>3, <2>4, <2>5, IdleCall
<1>10. QED
  BY <1>8, <1>9

(* A capture leaks one handle at most, and then by a failed exchange.      *)
LEMMA LeakCapture ==
    ASSUME TypeInv, LeakInv, CaptureSlot
    PROVE  LeakInv'
<1> DEFINE key == call.key
<1>1. PICK heard :
          /\ Heeded(CaptureRequest, heard)
          /\ IF heard.reply.ok
             THEN LET gone == Forgotten(heard.reply.evicted)
                  IN  /\ records' = [k \in Keys |-> IF k \in gone THEN None ELSE records[k]]
                      /\ held' = [held EXCEPT ![key] = heard.reply.handle]
                      /\ call' = Idle \/ call' = [call EXCEPT !.phase = "admit"]
             ELSE /\ call' = [call EXCEPT !.phase = "reconcile"]
                  /\ UNCHANGED <<records, held>>
  BY CaptureFacts
<1>2. /\ UNCHANGED <<pinned, pending>> /\ key \in Keys /\ held[key] = None
      /\ call.phase = "capture" /\ ~call.sweeping
  BY CaptureFacts
<1>3. call \in CallState /\ LeakCount \in Nat /\ faults \in Nat
  BY LeaksFinite, ManagedAssumption DEF TypeInv, CallInv, ServerInv
<1>4. /\ Effect(server, server', CaptureRequest) /\ server'.epoch = server.epoch
      /\ Handles(server') \subseteq Handles(server) \cup {server.next}
  BY <1>1 DEF Heeded, Exchanged, Effect
<1>5. CASE heard.reply.ok
  <2> DEFINE gone == Forgotten(heard.reply.evicted)
             new  == server.next
  <2>1. /\ records' = [k \in Keys |-> IF k \in gone THEN None ELSE records[k]]
        /\ held' = [held EXCEPT ![key] = heard.reply.handle]
        /\ call' = Idle \/ call' = [call EXCEPT !.phase = "admit"]
    BY <1>1, <1>5
  <2>2. /\ heard.reply.handle = new /\ faults' = faults
        /\ heard.reply.evicted = Handles(server) \ Handles(server')
    BY <1>1, <1>5, RequestFields DEF Heeded, Exchanged, Answered
  <2>3. new # None /\ held \in [Keys -> Ids \cup {None}]
    BY ManagedAssumption DEF TypeInv, RegistryInv, ServerInv, Proper
  <2>4. HeldHandles \subseteq HeldHandles' /\ new \in HeldHandles'
    BY <1>2, <2>1, <2>2, <2>3 DEF HeldHandles
  <2>5. ASSUME NEW h \in Bound \cap Handles(server') PROVE h \in Bound'
    <3>1. PICK k \in Keys : h = records[k] /\ records[k] # None
      BY DEF Bound
    <3>2. k \notin gone
      BY <2>2, <3>1 DEF Forgotten
    <3>3. QED
      BY <2>1, <3>1, <3>2 DEF Bound
  <2>6. Leaked' \subseteq Leaked
    BY <1>2, <1>4, <2>4, <2>5 DEF Leaked, Owned
  <2>7. call'.sweeping = FALSE /\ call'.phase # "confirm"
    <3>1. CASE call' = Idle
      BY <3>1, IdleCall
    <3>2. CASE call' = [call EXCEPT !.phase = "admit"]
      BY <1>2, <1>3, <3>2 DEF CallState
    <3>3. QED
      BY <2>1, <3>1, <3>2
  <2>8. QED
    BY <1>2, <1>4, <2>2, <2>6, <2>7, LeaksKept
<1>6. CASE ~heard.reply.ok
  <2>1. call' = [call EXCEPT !.phase = "reconcile"] /\ UNCHANGED <<records, held>>
    BY <1>1, <1>6
  <2>2. call'.phase = "reconcile" /\ call'.sweeping = FALSE
    BY <1>2, <1>3, <2>1 DEF CallState
  <2>3. Owned' = Owned
    BY <1>2, <2>1 DEF Owned, Bound, HeldHandles
  <2>4. \/ faults' = faults + 1
        \/ faults' = faults /\ (pinned = server.epoch => server'.next = server.next)
    <3>1. CaptureRequest.action = "capture" /\ CaptureRequest.epoch = pinned
      BY RequestFields
    <3>2. QED
      BY <1>1, <1>6, <3>1, HeededFaults DEF Declined
  <2>5. SUFFICES ASSUME pinned = server.epoch PROVE 2 * LeakCount' <= faults' + 1
    BY <1>2, <1>4, <2>2 DEF LeakInv, Allowed
  <2>6. 2 * LeakCount <= faults
    BY <1>2, <1>3, <2>5, AllowedFacts DEF LeakInv
  <2>7. CASE faults' = faults + 1
    <3>1. Leaked' \subseteq Leaked \cup {server.next}
      BY <1>4, <2>3 DEF Leaked
    <3>2. LeakCount' \in Nat /\ LeakCount' <= LeakCount + 1
      BY <3>1, OneMoreLeak
    <3>3. faults' + 1 = faults + 2 /\ faults' + 1 \in Nat
      BY <1>3, <2>7
    <3>4. QED
      BY <1>3, <2>6, <3>2, <3>3, LeakArithmetic
  <2>8. CASE faults' = faults /\ server'.next = server.next
    <3>1. Leaked' \subseteq Leaked
      BY <1>4, <2>3, <2>8 DEF Leaked, Effect
    <3>2. LeakCount' \in Nat /\ LeakCount' <= LeakCount
      BY <3>1, FewerLeaks
    <3>3. faults <= faults' + 1 /\ faults' + 1 \in Nat
      BY <1>3, <2>8
    <3>4. QED
      BY <1>3, <2>6, <3>2, <3>3, LeakArithmetic
  <2>9. QED
    BY <2>4, <2>5, <2>7, <2>8
<1>7. QED
  BY <1>5, <1>6

LEMMA LeakLookup ==
    ASSUME TypeInv, LeakInv,
           \/ ClearLiveSlot
           \/ RestoreLive
           \/ Probe \/ ProbeFails \/ \E prompt \in Keys : Generate(prompt)
    PROVE  LeakInv'
<1>1. call \in CallState
  BY DEF TypeInv, CallInv
<1>2. /\ UNCHANGED <<pinned, records, pending, held>>
      /\ Handles(server') = Handles(server) /\ server'.epoch = server.epoch
      /\ faults' \in {faults, faults + 1}
      /\ call' = Idle \/ (call'.sweeping = call.sweeping /\ call'.phase # "confirm")
      /\ call.phase \in {"clear", "restore", "probe", "idle"}
  <2>1. CASE ClearLiveSlot
    <3>1. PICK heard :
              /\ Heeded(ClearRequest, heard)
              /\ call' = IF heard.reply.ok THEN [call EXCEPT !.phase = "select"] ELSE Idle
      BY <2>1, ClearFacts
    <3>2. UNCHANGED registry /\ call.phase = "clear"
      BY <2>1, ClearFacts
    <3>3. call' = Idle \/ (call'.sweeping = call.sweeping /\ call'.phase # "confirm")
      BY <1>1, <3>1 DEF CallState
    <3>4. /\ Handles(server') = Handles(server) /\ server'.epoch = server.epoch
          /\ faults' \in {faults, faults + 1}
      BY <3>1, RequestFields, HeededFaults DEF Effect
    <3>5. QED
      BY <3>2, <3>3, <3>4 DEF registry
  <2>2. CASE RestoreLive
    <3>1. PICK heard :
              /\ Heeded(RestoreRequest, heard)
              /\ call' = IF heard.reply.ok THEN [call EXCEPT !.phase = "probe"] ELSE Idle
      BY <2>2, RestoreFacts
    <3>2. UNCHANGED registry /\ call.phase = "restore"
      BY <2>2, RestoreFacts
    <3>3. call' = Idle \/ (call'.sweeping = call.sweeping /\ call'.phase # "confirm")
      BY <1>1, <3>1 DEF CallState
    <3>4. /\ Handles(server') = Handles(server) /\ server'.epoch = server.epoch
          /\ faults' \in {faults, faults + 1}
      BY <3>1, RequestFields, HeededFaults DEF Effect
    <3>5. QED
      BY <3>2, <3>3, <3>4 DEF registry
  <2>3. CASE Probe \/ ProbeFails \/ \E prompt \in Keys : Generate(prompt)
    <3>1. call.phase \in {"probe", "idle"}
      BY <2>3, IdleCall DEF Probe, ProbeFails, Generate
    <3>2. QED
      BY <2>3, <3>1, CompletionFacts
  <2>4. QED
    BY <2>1, <2>2, <2>3
<1>3. ~call.sweeping
  BY <1>2 DEF TypeInv, CallInv
<1>4. call'.sweeping = FALSE /\ call'.phase # "confirm"
  BY <1>1, <1>2, <1>3, IdleCall DEF CallState
<1>5. Leaked' = Leaked
  BY <1>2 DEF Leaked, Owned, Bound, HeldHandles
<1>6. QED
  BY <1>2, <1>3, <1>4, <1>5, LeaksKept

LEMMA LeakBlank ==
    ASSUME Blank, faults \in Nat
    PROVE  LeakInv
<1>1. Leaked = {}
  BY DEF Blank, Leaked
<1>2. LeakCount = 0
  BY <1>1, FS_EmptySet DEF LeakCount
<1>3. QED
  BY <1>2, IdleCall DEF Blank, LeakInv, Allowed

LEMMA LeakStep ==
    ASSUME TypeInv, OwnerInv, LeakInv, "capture" \notin LateActions, Step
    PROVE  LeakInv'
<1>1. CASE LocalStep
  BY <1>1, LeakLocal
<1>2. CASE BindStep \/ \E targetSequences, targetBytes : TrimTo(targetSequences, targetBytes)
  <2>1. /\ Owned' = Owned /\ UNCHANGED <<server, pinned, faults>>
        /\ call'.phase = "flush" /\ call'.sweeping = FALSE
    BY <1>2, BindingPasses DEF OwnerInv, transport
  <2>2. Leaked' = Leaked
    BY <2>1 DEF Leaked
  <2>3. call.phase \in {"admit", "idle"}
    BY <1>2, IdleCall DEF BindStep, TrimTo
  <2>4. ~call.sweeping
    BY <2>3 DEF TypeInv, CallInv
  <2>5. QED
    BY <2>1, <2>2, <2>3, <2>4, LeaksKept
<1>3. CASE Load
  <2>1. pinned' # server'.epoch
    BY <1>3, TypeLoad
  <2>2. QED
    BY <2>1 DEF LeakInv
<1>4. ASSUME NEW request \in late, RunLate(request)
      PROVE  LeakInv'
  <2>1. /\ request.action \in Actions \ {"capture"}
        /\ Effect(server, server', request)
        /\ UNCHANGED <<call, faults, registry>>
        /\ server'.epoch = server.epoch
    BY <1>4, TypeLate
  <2>2. Handles(server') \subseteq Handles(server)
    BY <2>1 DEF Effect
  <2>3. Leaked' \subseteq Leaked
    BY <2>1, <2>2 DEF Leaked, Owned, Bound, HeldHandles, registry
  <2>4. LeakCount \in Nat /\ LeakCount' \in Nat /\ LeakCount' <= LeakCount
    BY <2>3, FewerLeaks
  <2>5. faults \in Nat
    BY ManagedAssumption DEF TypeInv, ServerInv
  <2>6. Allowed' = Allowed /\ Allowed \in Nat
    BY <2>1, <2>5 DEF Allowed
  <2>7. SUFFICES ASSUME pinned = server.epoch
                 PROVE  /\ 2 * LeakCount' <= Allowed'
                        /\ call'.sweeping => Leaked' \subseteq call'.orphans
                        /\ call'.phase = "confirm" /\ call'.handle \in Handles(server')
                              => 2 * LeakCount' <= faults'
    BY <2>1 DEF LeakInv, registry
  <2>8. 2 * LeakCount' <= Allowed'
    <3>1. 2 * LeakCount <= Allowed /\ Allowed <= Allowed
      BY <2>6, <2>7 DEF LeakInv
    <3>2. 2 * LeakCount' <= Allowed
      BY <2>4, <2>6, <3>1, LeakArithmetic
    <3>3. QED
      BY <2>6, <3>2
  <2>9. call'.sweeping => Leaked' \subseteq call'.orphans
    BY <2>1, <2>3, <2>7 DEF LeakInv
  <2>10. ASSUME call'.phase = "confirm", call'.handle \in Handles(server')
         PROVE  2 * LeakCount' <= faults'
    <3>1. 2 * LeakCount <= faults /\ faults <= faults
      BY <2>1, <2>2, <2>5, <2>7, <2>10 DEF LeakInv
    <3>2. 2 * LeakCount' <= faults
      BY <2>4, <2>5, <3>1, LeakArithmetic
    <3>3. QED
      BY <2>1, <3>2
  <2>11. QED
    BY <2>8, <2>9, <2>10
<1>5. CASE Connect
  <2>1. Blank' /\ faults' \in Nat
    BY <1>5, TypeConnect, ManagedAssumption DEF TypeInv, ServerInv
  <2>2. (Blank /\ faults \in Nat)' => LeakInv'
    BY LeakBlank, PTL
  <2>3. QED
    BY <2>1, <2>2
<1>6. QED
  BY <1>1, <1>2, <1>3, <1>4, <1>5, LeakDrop, LeakConfirm, LeakCapture, LeakLookup
     DEF Step, LocalStep

LEMMA LeaksHold ==
    "capture" \notin LateActions => (Spec => [](TypeInv /\ OwnerInv /\ LeakInv))
<1>1. Init => LeakInv
  <2>1. Init => Blank /\ faults \in Nat
    BY InitBlank
  <2>2. QED
    BY <2>1, LeakBlank
<1>2. ASSUME "capture" \notin LateActions
      PROVE  TypeInv /\ OwnerInv /\ LeakInv /\ [Next]_vars => LeakInv'
  <2>1. SUFFICES ASSUME TypeInv, OwnerInv, LeakInv, [Next]_vars PROVE LeakInv'
    OBVIOUS
  <2>2. CASE Next
    BY <1>2, <2>1, <2>2, NextSteps, LeakStep
  <2>3. CASE UNCHANGED vars
    BY <2>1, <2>3 DEF LeakInv, LeakCount, Leaked, Allowed, Owned, Bound, HeldHandles, vars
  <2>4. QED
    BY <2>1, <2>2, <2>3
<1>3. QED
  <2>1. SUFFICES ASSUME "capture" \notin LateActions
                 PROVE  Spec => [](TypeInv /\ OwnerInv /\ LeakInv)
    OBVIOUS
  <2>2. TypeInv /\ OwnerInv /\ LeakInv /\ [Next]_vars => LeakInv'
    BY <1>2, <2>1
  <2>3. QED
    BY <1>1, <2>2, OwnersHold, PTL DEF Spec

(* While no capture is executed late, there are two failed exchanges       *)
(* behind every state of the store that nobody answers for.                *)
THEOREM LeaksTakeTwoFaults ==
    "capture" \notin LateActions => (Spec => []LeaksNeedTwoFaults)
<1>1. LeakInv => LeaksNeedTwoFaults
  BY IdleCall DEF LeakInv, LeakCount, Leaked, Allowed, LeaksNeedTwoFaults
<1>2. QED
  BY <1>1, LeaksHold, PTL

(* A sweep that ends leaves nothing in the store but what the registry     *)
(* binds or is about to drop; and all it binds is there, save what it was  *)
(* never told of.                                                          *)
THEOREM SweepsSettle ==
    ~SplitCalls /\ "capture" \notin LateActions => (Spec => SweepSettles)
<1>1. ASSUME ~SplitCalls, "capture" \notin LateActions
      PROVE  TypeInv /\ LiveInv /\ LeakInv /\ [Next]_vars
                => [SweepDone /\ pinned = server.epoch
                       => /\ Bound' \subseteq Handles(server') \cup missed'
                          /\ Handles(server') \subseteq Bound' \cup pending']_vars
  <2>1. SUFFICES ASSUME TypeInv, LiveInv, LeakInv, SweepDone, pinned = server.epoch
                 PROVE  /\ Bound' \subseteq Handles(server') \cup missed'
                        /\ Handles(server') \subseteq Bound' \cup pending'
    OBVIOUS
  <2>2. /\ call.phase = "sweep" /\ call.orphans = {}
        /\ UNCHANGED <<server, missed, records, pending>>
    BY <2>1 DEF SweepDone, transport, registry
  <2>3. Bound' = Bound /\ HeldHandles = {}
    BY <2>1, <2>2, NothingHeld DEF LiveInv, Bound
  <2>4. Leaked = {}
    BY <2>1, <2>2 DEF TypeInv, CallInv, LeakInv
  <2>5. QED
    BY <2>1, <2>2, <2>3, <2>4 DEF LiveInv, InStore, Leaked, Owned
<1>2. QED
  <2>1. SUFFICES ASSUME ~SplitCalls, "capture" \notin LateActions
                 PROVE  Spec => SweepSettles
    OBVIOUS
  <2>2. TypeInv /\ LiveInv /\ LeakInv /\ [Next]_vars
           => [SweepDone /\ pinned = server.epoch
                  => /\ Bound' \subseteq Handles(server') \cup missed'
                     /\ Handles(server') \subseteq Bound' \cup pending']_vars
    BY <1>1, <2>1
  <2>3. Spec => [](TypeInv /\ OwnerInv /\ LeakInv)
    BY <2>1, LeaksHold
  <2>4. Spec => [](TypeInv /\ OwnerInv /\ LiveInv)
    BY <2>1, LiveHolds
  <2>5. QED
    BY <2>2, <2>3, <2>4, PTL DEF Spec, SweepSettles
-----------------------------------------------------------------------------
(* The states in the store.                                                *)

(* The registry binds no more handles than the policy lists keys.          *)
LEMMA BoundFinite ==
    ASSUME TypeInv, SingleOwner
    PROVE  IsFiniteSet(Bound) /\ Cardinality(Bound) <= MaxSequences
<1> DEFINE f == [k \in Resident(policy) |-> records[k]]
<1>1. IsFiniteSet(Resident(policy)) /\ Cardinality(Resident(policy)) <= MaxSequences
      /\ Resident(policy) \subseteq Keys
  BY DEF TypeInv, PolicyInv, Coherent, WellTyped, WithinLimits
<1>2. Bound = {records[k] : k \in Resident(policy)}
  BY <1>1 DEF SingleOwner, Agreement, Bound
<1>3. f \in Surjection(Resident(policy), Bound)
  BY <1>2 DEF Surjection
<1> HIDE DEF f
<1>4. IsFiniteSet(Bound) /\ Cardinality(Bound) <= Cardinality(Resident(policy))
  BY <1>1, <1>3, FS_Surjection
<1>5. Cardinality(Bound) \in Nat /\ Cardinality(Resident(policy)) \in Nat
  BY <1>1, <1>4, FS_CardinalityType
<1>6. QED
  BY <1>1, <1>4, <1>5, CapacityAssumption

(* The states in the store are bound, or pending, or held, or leaked.      *)
LEMMA StoreFinite ==
    ASSUME TypeInv
    PROVE  IsFiniteSet(Handles(server)) /\ Cardinality(Handles(server)) \in Nat
<1>1. Handles(server) \in SUBSET (1 .. server.next - 1) /\ server.next - 1 \in Int
  BY DEF TypeInv, ServerInv, Proper
<1>2. IsFiniteSet(1 .. server.next - 1)
  BY <1>1, FS_Interval
<1>3. IsFiniteSet(Handles(server))
  BY <1>1, <1>2, FS_Subset
<1>4. QED
  BY <1>3, FS_CardinalityType

(* A step that brings no state into the store keeps the budget.            *)
LEMMA BudgetKept ==
    ASSUME TypeInv, PhysicalBudget,
           Handles(server') \subseteq Handles(server),
           pinned' = server'.epoch => pinned = server.epoch,
           faults' \in {faults, faults + 1}
    PROVE  PhysicalBudget'
<1>1. Handles(server') \in SUBSET Handles(server)
  OBVIOUS
<1>2. /\ IsFiniteSet(Handles(server'))
      /\ Cardinality(Handles(server')) <= Cardinality(Handles(server))
  BY <1>1, StoreFinite, FS_Subset
<1>3. /\ Cardinality(Handles(server')) \in Nat /\ Cardinality(Handles(server)) \in Nat
      /\ faults \in Nat /\ MaxSequences \in Nat
  BY <1>2, StoreFinite, FS_CardinalityType, CapacityAssumption, ManagedAssumption
     DEF TypeInv, ServerInv
<1>4. pinned' = server'.epoch =>
         2 * Cardinality(Handles(server')) <= 2 * (MaxSequences + 1) + faults'
  BY <1>2, <1>3 DEF PhysicalBudget
<1>5. QED
  BY <1>4 DEF PhysicalBudget

(* A capture starts with nothing to drop and nothing held: the store has   *)
(* what is bound and what is leaked, and room for one state more.          *)
LEMMA BudgetCapture ==
    ASSUME TypeInv, OwnerInv, LiveInv, LeakInv, CaptureSlot
    PROVE  PhysicalBudget'
<1>1. PICK heard : Heeded(CaptureRequest, heard)
  BY CaptureFacts
<1>2. /\ pinned' = pinned /\ pending = {} /\ call.phase = "capture" /\ ~call.sweeping
  BY CaptureFacts
<1>3. /\ server'.epoch = server.epoch
      /\ Handles(server') \subseteq Handles(server) \cup {server.next}
      /\ faults' \in {faults, faults + 1}
  BY <1>1, HeededFaults DEF Effect
<1>4. SUFFICES ASSUME pinned = server.epoch
               PROVE  2 * Cardinality(Handles(server')) <= 2 * (MaxSequences + 1) + faults'
  BY <1>2, <1>3 DEF PhysicalBudget
<1>5. Handles(server) \in SUBSET (Bound \cup Leaked)
  BY <1>2, NothingHeld DEF LiveInv, Leaked, Owned
<1>6. /\ IsFiniteSet(Bound) /\ Cardinality(Bound) <= MaxSequences
      /\ IsFiniteSet(Leaked) /\ LeakCount \in Nat /\ LeakCount = Cardinality(Leaked)
      /\ 2 * LeakCount <= faults
      /\ faults \in Nat /\ MaxSequences \in Nat
  BY <1>2, <1>4, BoundFinite, LeaksFinite, CapacityAssumption, ManagedAssumption
     DEF OwnerInv, LeakInv, Allowed, LeakCount, TypeInv, ServerInv
<1>7. /\ IsFiniteSet(Bound \cup Leaked) /\ Cardinality(Bound) \in Nat
      /\ Cardinality(Bound \cup Leaked) \in Nat
      /\ Cardinality(Bound \cup Leaked) <= Cardinality(Bound) + LeakCount
  <2>1. /\ IsFiniteSet(Bound \cup Leaked)
        /\ Cardinality(Bound \cup Leaked)
              = Cardinality(Bound) + Cardinality(Leaked) - Cardinality(Bound \cap Leaked)
    BY <1>6, FS_Union
  <2>2. IsFiniteSet(Bound \cap Leaked)
    BY <1>6, FS_Intersection
  <2>3. /\ Cardinality(Bound) \in Nat /\ Cardinality(Bound \cup Leaked) \in Nat
        /\ Cardinality(Bound \cap Leaked) \in Nat
    BY <1>6, <2>1, <2>2, FS_CardinalityType
  <2>4. QED
    BY <1>6, <2>1, <2>3
<1>8. /\ IsFiniteSet(Handles(server)) /\ Cardinality(Handles(server)) \in Nat
      /\ Cardinality(Handles(server)) <= Cardinality(Bound \cup Leaked)
  BY <1>5, <1>7, StoreFinite, FS_Subset
<1>9. /\ Cardinality(Handles(server')) \in Nat
      /\ Cardinality(Handles(server')) <= Cardinality(Handles(server)) + 1
  <2> DEFINE new == server.next
  <2> HIDE DEF new
  <2>1. /\ IsFiniteSet(Handles(server) \cup {new})
        /\ Cardinality(Handles(server) \cup {new})
              \in {Cardinality(Handles(server)), Cardinality(Handles(server)) + 1}
    BY <1>8, FS_AddElement
  <2>2. Handles(server') \in SUBSET (Handles(server) \cup {new})
    BY <1>3 DEF new
  <2>3. /\ IsFiniteSet(Handles(server'))
        /\ Cardinality(Handles(server')) <= Cardinality(Handles(server) \cup {new})
    BY <2>1, <2>2, FS_Subset
  <2>4. Cardinality(Handles(server')) \in Nat
    BY <2>3, FS_CardinalityType
  <2>5. QED
    BY <1>8, <2>1, <2>3, <2>4
<1>10. 2 * Cardinality(Handles(server)) <= 2 * MaxSequences + faults
  BY <1>6, <1>7, <1>8
<1>11. QED
  BY <1>3, <1>6, <1>8, <1>9, <1>10

(* An empty store is within any budget.                                    *)
LEMMA BudgetEmpty ==
    ASSUME Handles(server) = {}, faults \in Nat
    PROVE  PhysicalBudget
BY FS_EmptySet, CapacityAssumption DEF PhysicalBudget

LEMMA BudgetStep ==
    ASSUME TypeInv, OwnerInv, LiveInv, LeakInv, PhysicalBudget,
           "capture" \notin LateActions, Step
    PROVE  PhysicalBudget'
<1>1. CASE LocalStep
  <2>1. /\ UNCHANGED <<server, registry>>
        /\ faults' \in {faults, faults + 1}
    BY <1>1, LocalFacts, ReadingFacts
       DEF LocalStep, StartCapture, ReconcileOrphans, Lookup, FlushDone, Reconcile,
           SweepDone, Select, transport
  <2>2. QED
    BY <2>1, BudgetKept DEF registry
<1>2. CASE BindStep \/ \E targetSequences, targetBytes : TrimTo(targetSequences, targetBytes)
  <2>1. UNCHANGED <<server, pinned, faults>>
    BY <1>2, BindingPasses DEF OwnerInv, transport
  <2>2. QED
    BY <2>1, BudgetKept
<1>3. ASSUME NEW h, FlushDrop(h) \/ SweepDrop(h)
      PROVE  PhysicalBudget'
  <2>1. /\ pinned' = pinned
        /\ \/ UNCHANGED <<server, transport>>
           \/ \E heard : Heeded(DropRequest(h), heard)
    BY <1>3, DropFacts
  <2>2. CASE UNCHANGED <<server, transport>>
    BY <2>1, <2>2, BudgetKept DEF transport
  <2>3. CASE \E heard : Heeded(DropRequest(h), heard)
    <3>1. DropRequest(h).action = "drop"
      BY RequestFields
    <3>2. /\ Effect(server, server', DropRequest(h)) /\ faults' \in {faults, faults + 1}
      BY <2>3, HeededFaults
    <3>3. Handles(server') \subseteq Handles(server) /\ server'.epoch = server.epoch
      BY <3>1, <3>2 DEF Effect
    <3>4. QED
      BY <2>1, <3>2, <3>3, BudgetKept
  <2>4. QED
    BY <2>1, <2>2, <2>3
<1>4. CASE Confirm
  <2>1. /\ UNCHANGED <<server, pinned>> /\ faults' \in {faults, faults + 1}
    BY <1>4, ReadingFacts DEF Confirm
  <2>2. QED
    BY <2>1, BudgetKept
<1>5. CASE ClearLiveSlot \/ RestoreLive
  <2>1. /\ pinned' = pinned
        /\ \E request, heard : /\ request.action \in {"clear", "restore"}
                               /\ Heeded(request, heard)
    BY <1>5, ClearFacts, RestoreFacts, RequestFields DEF registry
  <2>2. /\ Handles(server') = Handles(server) /\ server'.epoch = server.epoch
        /\ faults' \in {faults, faults + 1}
    BY <2>1, HeededFaults DEF Effect
  <2>3. QED
    BY <2>1, <2>2, BudgetKept
<1>6. CASE Probe \/ ProbeFails \/ \E prompt \in Keys : Generate(prompt)
  BY <1>6, CompletionFacts, BudgetKept
<1>7. CASE Load
  BY <1>7, TypeLoad DEF PhysicalBudget
<1>8. ASSUME NEW request \in late, RunLate(request)
      PROVE  PhysicalBudget'
  <2>1. /\ request.action \in Actions \ {"capture"}
        /\ Effect(server, server', request)
        /\ UNCHANGED <<faults, registry>>
        /\ server'.epoch = server.epoch
    BY <1>8, TypeLate
  <2>2. Handles(server') \subseteq Handles(server)
    BY <2>1 DEF Effect
  <2>3. QED
    BY <2>1, <2>2, BudgetKept DEF registry
<1>9. CASE Connect
  <2>1. Handles(server)' = {} /\ faults' \in Nat
    BY <1>9, ManagedAssumption DEF Connect, transport, TypeInv, ServerInv
  <2>2. (Handles(server) = {} /\ faults \in Nat)' => PhysicalBudget'
    BY BudgetEmpty, PTL
  <2>3. QED
    BY <2>1, <2>2
<1>10. QED
  BY <1>1, <1>2, <1>3, <1>4, <1>5, <1>6, <1>7, <1>8, <1>9, BudgetCapture
     DEF Step, LocalStep

(* The states in the store never outnumber the working set and the one     *)
(* being admitted by more than half the failed exchanges.                  *)
THEOREM StoreWithinBudget ==
    ~SplitCalls /\ "capture" \notin LateActions => (Spec => []PhysicalBudget)
<1>1. Init => PhysicalBudget
  <2>1. Init => Blank /\ faults \in Nat
    BY InitBlank
  <2>2. QED
    BY <2>1, BudgetEmpty DEF Blank
<1>2. ASSUME ~SplitCalls, "capture" \notin LateActions
      PROVE  TypeInv /\ OwnerInv /\ LiveInv /\ LeakInv /\ PhysicalBudget /\ [Next]_vars
                => PhysicalBudget'
  <2>1. SUFFICES ASSUME TypeInv, OwnerInv, LiveInv, LeakInv, PhysicalBudget, [Next]_vars
                 PROVE  PhysicalBudget'
    OBVIOUS
  <2>2. CASE Next
    BY <1>2, <2>1, <2>2, NextSteps, BudgetStep
  <2>3. CASE UNCHANGED vars
    BY <2>1, <2>3 DEF PhysicalBudget, vars
  <2>4. QED
    BY <2>1, <2>2, <2>3
<1>3. QED
  <2>1. SUFFICES ASSUME ~SplitCalls, "capture" \notin LateActions
                 PROVE  Spec => []PhysicalBudget
    OBVIOUS
  <2>2. TypeInv /\ OwnerInv /\ LiveInv /\ LeakInv /\ PhysicalBudget /\ [Next]_vars
           => PhysicalBudget'
    BY <1>2, <2>1
  <2>3. Spec => [](TypeInv /\ OwnerInv /\ LeakInv)
    BY <2>1, LeaksHold
  <2>4. Spec => [](TypeInv /\ OwnerInv /\ LiveInv)
    BY <2>1, LiveHolds
  <2>5. QED
    BY <1>1, <2>2, <2>3, <2>4, PTL DEF Spec

-----------------------------------------------------------------------------
(* The promised store.                                                     *)

(* An exchange is a step of the store the facade is promised, or none.     *)
LEMMA EffectPromise ==
    ASSUME ServerInv, ServerInv', NEW request, request.action \in Actions,
           Effect(server, server', request)
    PROVE  [Promised!Next]_Promised!Contents
<1> DEFINE given    == 1 .. server.next - 1
           kept     == [h \in Handles(server) |-> server.states[h].prompt]
           keptNext == [h \in Handles(server') |-> server'.states[h].prompt]
<1>1. /\ Proper(server) /\ Proper(server') /\ MaxHandle \in Nat
      /\ server'.next <= MaxHandle + 1
      /\ Handles(server) \subseteq given
      /\ server'.slot \in Keys \cup {None}
      /\ server'.epoch = server.epoch
      /\ server'.next # server.next => request.action = "capture"
      /\ \A h \in Handles(server) \cap Handles(server') :
            server'.states[h].prompt = server.states[h].prompt
  BY ManagedAssumption DEF Effect, ServerInv, Proper
<1>2. CASE request.action \in {"clear", "restore"}
  <2>1. server'.next = server.next /\ Handles(server') = Handles(server)
    BY <1>2 DEF Effect
  <2>2. keptNext = kept
    BY <1>1, <2>1
  <2>3. Promised!Fill
    BY <1>1, <2>1, <2>2 DEF Promised!Fill
  <2>4. QED
    BY <2>3 DEF Promised!Next
<1>3. CASE request.action \in {"drop", "capture"} /\ server'.next = server.next
  <2>0. PICK gone : gone = Handles(server) \ Handles(server')
    OBVIOUS
  <2>1. server'.slot = server.slot /\ Handles(server') \subseteq Handles(server)
    BY <1>3 DEF Effect
  <2>2. DOMAIN kept \ gone = Handles(server') /\ gone \in SUBSET DOMAIN kept
    BY <2>0, <2>1
  <2>3. keptNext = [h \in DOMAIN kept \ gone |-> kept[h]]
    BY <1>1, <2>1, <2>2
  <2>4. Promised!Lose(gone)
    BY <1>1, <1>3, <2>1, <2>3 DEF Promised!Lose
  <2>5. QED
    BY <2>2, <2>4 DEF Promised!Next
<1>4. CASE request.action = "capture" /\ server'.next # server.next
  <2> DEFINE id == server.next
  <2>0. PICK gone : gone = Handles(server) \ Handles(server')
    OBVIOUS
  <2>1. /\ server'.next = id + 1 /\ id \in Handles(server')
        /\ Handles(server') \subseteq Handles(server) \cup {id}
        /\ server'.states[id].prompt = server.slot
        /\ server.slot # None /\ server'.slot = server.slot
    BY <1>4 DEF Effect
  <2>2. /\ id \in Ids /\ id \notin given /\ id \notin Handles(server)
        /\ 1 .. server'.next - 1 = given \cup {id}
    BY <1>1, <2>1 DEF Proper, Ids
  <2>3. (DOMAIN kept \ gone) \cup {id} = Handles(server') /\ gone \in SUBSET DOMAIN kept
    BY <2>0, <2>1
  <2>4. keptNext = [h \in (DOMAIN kept \ gone) \cup {id} |->
                       IF h = id THEN server.slot ELSE kept[h]]
    BY <1>1, <2>1, <2>2, <2>3
  <2>5. Promised!Keep(id, gone)
    BY <1>1, <2>1, <2>2, <2>4 DEF Promised!Keep
  <2>6. QED
    BY <2>2, <2>3, <2>5 DEF Promised!Next
<1>5. QED
  BY <1>1, <1>2, <1>3, <1>4 DEF Actions

LEMMA PromiseStep ==
    ASSUME TypeInv, Step
    PROVE  [Promised!Next]_Promised!Contents
<1>1. ServerInv /\ ServerInv'
  BY TypeStep DEF TypeInv
<1>2. ASSUME UNCHANGED server
      PROVE  UNCHANGED Promised!Contents
  BY <1>2 DEF Promised!Contents, Handles
<1>3. CASE \/ LocalStep \/ BindStep \/ Confirm \/ Connect
           \/ \E targetSequences, targetBytes : TrimTo(targetSequences, targetBytes)
  BY <1>2, <1>3, LocalFacts DEF BindStep, Confirm, Connect, TrimTo
<1>4. CASE \/ \E h : FlushDrop(h) \/ SweepDrop(h)
           \/ CaptureSlot \/ ClearLiveSlot \/ RestoreLive
  <2>1. \/ UNCHANGED server
        \/ \E request : request.action \in Actions /\ Effect(server, server', request)
    <3>1. ASSUME NEW h, FlushDrop(h) \/ SweepDrop(h)
          PROVE  \/ UNCHANGED server
                 \/ \E request : request.action \in Actions /\ Effect(server, server', request)
      <4>1. \/ UNCHANGED server
            \/ \E heard : Heeded(DropRequest(h), heard)
        BY <3>1, DropFacts
      <4>2. DropRequest(h).action \in Actions
        BY RequestFields DEF Actions
      <4>3. QED
        BY <4>1, <4>2 DEF Heeded, Exchanged
    <3>2. ASSUME CaptureSlot
          PROVE  \E request : request.action \in Actions /\ Effect(server, server', request)
      BY <3>2, CaptureFacts, RequestFields DEF Heeded, Exchanged, Actions
    <3>3. ASSUME ClearLiveSlot
          PROVE  \E request : request.action \in Actions /\ Effect(server, server', request)
      BY <3>3, ClearFacts, RequestFields DEF Heeded, Exchanged, Actions
    <3>4. ASSUME RestoreLive
          PROVE  \E request : request.action \in Actions /\ Effect(server, server', request)
      BY <3>4, RestoreFacts, RequestFields DEF Heeded, Exchanged, Actions
    <3>5. QED
      BY <1>4, <3>1, <3>2, <3>3, <3>4
  <2>2. QED
    BY <1>1, <1>2, <2>1, EffectPromise
<1>5. CASE Probe \/ ProbeFails \/ \E prompt \in Keys : Generate(prompt)
  <2>1. /\ server'.epoch = server.epoch /\ server'.next = server.next
        /\ server'.states = server.states /\ Handles(server') = Handles(server)
    BY <1>5, CompletionFacts
  <2>2. server'.slot \in Keys \cup {None}
    BY <1>1 DEF ServerInv, Proper
  <2>3. Promised!Fill
    BY <2>1, <2>2 DEF Promised!Fill
  <2>4. QED
    BY <2>3 DEF Promised!Next
<1>6. CASE Load
  <2>1. server' = Loaded(server.epoch + 1)
    BY <1>6 DEF Load
  <2>2. /\ server'.epoch = server.epoch + 1 /\ server'.slot = None
        /\ [h \in Handles(server') |-> server'.states[h].prompt] = [h \in {} |-> None]
        /\ 1 .. server'.next - 1 = {}
    BY <2>1 DEF Loaded, Handles
  <2>3. Promised!Load
    BY <2>2 DEF Promised!Load, Promised!Contents, Promised!Empty
  <2>4. QED
    BY <2>3 DEF Promised!Next
<1>7. ASSUME NEW request \in late, RunLate(request)
      PROVE  [Promised!Next]_Promised!Contents
  BY <1>1, <1>7, TypeLate, EffectPromise
<1>8. QED
  BY <1>3, <1>4, <1>5, <1>6, <1>7 DEF Step, LocalStep

(* Lost exchanges, late requests and reloads are all within what the store *)
(* promises: to the facade a handle means one prompt for a whole epoch.    *)
THEOREM FacadeSeesHandleStore == Spec => ServedByHandleStore
<1>1. Init => Promised!Init
  <2>1. ASSUME Init
        PROVE  /\ server.epoch = 1 /\ server.slot = None
               /\ [h \in Handles(server) |-> server.states[h].prompt] = [h \in {} |-> None]
               /\ 1 .. server.next - 1 = {}
    BY <2>1 DEF Init, Loaded, Handles
  <2>2. QED
    BY <2>1 DEF Promised!Init, Promised!Contents, Promised!Empty
<1>2. TypeInv /\ [Next]_vars => [Promised!Next]_Promised!Contents
  <2>1. ASSUME UNCHANGED vars
        PROVE  UNCHANGED Promised!Contents
    BY <2>1 DEF vars, Promised!Contents, Handles
  <2>2. QED
    BY <2>1, NextSteps, PromiseStep
<1>3. QED
  BY <1>1, <1>2, TypesHold, PTL DEF Spec, ServedByHandleStore, Promised!Spec
-----------------------------------------------------------------------------
(* Calls shorten.                                                          *)

\* What the call that runs has left to drop, and what follows the flush.
Queue == IF call.sweeping THEN call.orphans ELSE pending

ToDrop == Cardinality(Queue)

After == IF call.sweeping \/ call.done THEN 0 ELSE 3 + 2 * MaxHandle

\* A drop is confirmed while its handle is still queued, and only a call that
\* is over is idle.
QueueInv ==
    /\ call.phase = "confirm" => call.handle \in Queue
    /\ call.phase = "idle" => call = Idle

StepsTable ==
    /\ ToDrop \in 0 .. MaxHandle
    /\ After \in {0, 3 + 2 * MaxHandle}
    /\ call = Idle => StepsLeft = 0
    /\ call.phase = "probe" => StepsLeft = 1
    /\ call.phase = "restore" => StepsLeft = 2
    /\ call.phase = "select" => StepsLeft = 3
    /\ call.phase = "clear" => StepsLeft = 4
    /\ call.phase = "sweep" => StepsLeft = 1 + 2 * ToDrop
    /\ call.phase \in {"reconcile", "admit"} => StepsLeft = 2 + 2 * MaxHandle
    /\ call.phase = "capture" => StepsLeft = 3 + 2 * MaxHandle
    /\ call.phase = "flush" => StepsLeft = 1 + 2 * ToDrop + After
    /\ call.phase = "confirm" => StepsLeft = 2 * ToDrop + After

(* Handles there can be, and so handles to drop, are bounded.              *)
LEMMA QueueFinite ==
    ASSUME TypeInv
    PROVE  IsFiniteSet(Queue) /\ ToDrop \in 0 .. MaxHandle
<1>1. Queue \in SUBSET Ids
  BY DEF TypeInv, RegistryInv, CallInv, CallState, Queue
<1>2. MaxHandle \in Nat
  BY ManagedAssumption
<1>3. IsFiniteSet(Ids) /\ Cardinality(Ids) = MaxHandle
  BY <1>2, FS_Interval DEF Ids
<1>4. IsFiniteSet(Queue) /\ Cardinality(Queue) <= MaxHandle
  BY <1>1, <1>3, FS_Subset
<1>5. QED
  BY <1>2, <1>4, FS_CardinalityType DEF ToDrop

LEMMA StepsTabled == TypeInv => StepsTable
<1> SUFFICES ASSUME TypeInv PROVE StepsTable
  OBVIOUS
<1>1. ToDrop \in 0 .. MaxHandle
  BY QueueFinite
<1>2. After \in {0, 3 + 2 * MaxHandle}
  BY DEF After
<1>3. /\ call.sweeping => call.phase \in {"sweep", "confirm"}
      /\ call.phase = "sweep" => call.sweeping
  BY DEF TypeInv, CallInv
<1>4. Idle.phase = "idle"
  BY IdleCall
<1>5. 2 * Cardinality(IF call.sweeping THEN call.orphans ELSE pending) = 2 * ToDrop
  BY DEF ToDrop, Queue
<1>6. call = Idle => StepsLeft = 0
  BY <1>4 DEF StepsLeft
<1>7. /\ call.phase = "probe" => StepsLeft = 1
      /\ call.phase = "restore" => StepsLeft = 2
      /\ call.phase = "select" => StepsLeft = 3
      /\ call.phase = "clear" => StepsLeft = 4
      /\ call.phase \in {"reconcile", "admit"} => StepsLeft = 2 + 2 * MaxHandle
      /\ call.phase = "capture" => StepsLeft = 3 + 2 * MaxHandle
  BY <1>4 DEF StepsLeft
<1>8. call.phase = "sweep" => StepsLeft = 1 + 2 * ToDrop
  BY <1>4, <1>5 DEF StepsLeft
<1>9. call.phase = "flush" => StepsLeft = 1 + 2 * ToDrop + After
  BY <1>3, <1>4, <1>5 DEF StepsLeft, After
<1>10. call.phase = "confirm" => StepsLeft = 2 * ToDrop + After
  BY <1>4, <1>5 DEF StepsLeft, After
<1>11. QED
  BY <1>1, <1>2, <1>6, <1>7, <1>8, <1>9, <1>10 DEF StepsTable

(* A handle that leaves the queue makes it shorter by one.                 *)
LEMMA QueueShrinks ==
    ASSUME TypeInv, NEW h \in Queue, Queue' = Queue \ {h}
    PROVE  ToDrop \in Nat /\ ToDrop > 0 /\ ToDrop' = ToDrop - 1
<1>1. IsFiniteSet(Queue) /\ ToDrop \in Nat
  BY QueueFinite, ManagedAssumption
<1>2. Cardinality(Queue \ {h}) = Cardinality(Queue) - 1 /\ IsFiniteSet(Queue \ {h})
  BY <1>1, FS_RemoveElement
<1>3. Cardinality(Queue \ {h}) \in Nat
  BY <1>2, FS_CardinalityType
<1>4. QED
  BY <1>1, <1>2, <1>3 DEF ToDrop

(* A drop, made or tried.                                                  *)
LEMMA DropShortens ==
    ASSUME TypeInv, StepsTable, StepsTable', NEW h, FlushDrop(h) \/ SweepDrop(h)
    PROVE  StepsLeft' < StepsLeft /\ QueueInv'
<1>0. call \in CallState
  BY DEF TypeInv, CallInv
<1>1. /\ \/ call.phase = "flush" /\ h \in pending
         \/ call.phase = "sweep" /\ h \in call.orphans
      /\ \/ /\ h \in pending /\ pending' = pending \ {h} /\ call' = call
            /\ call.phase = "flush"
         \/ /\ pending' = pending \ {h}
            /\ call' = [call EXCEPT !.orphans = @ \ {h}]
         \/ /\ call' = [call EXCEPT !.phase = "confirm", !.handle = h]
            /\ UNCHANGED pending
  BY DEF FlushDrop, SweepDrop, DropHandle
<1>2. /\ call.phase = "flush" => ~call.sweeping /\ call.orphans = {}
      /\ call.phase = "sweep" => call.sweeping
      /\ h \in Queue
  BY <1>1 DEF TypeInv, CallInv, Queue
<1>3. call.phase \notin {"confirm", "idle"}
  BY <1>1
<1>4. CASE Queue' = Queue \ {h} /\ call'.phase = call.phase /\ After' = After
  <2>1. ToDrop \in Nat /\ ToDrop > 0 /\ ToDrop' = ToDrop - 1
    BY <1>2, <1>4, QueueShrinks
  <2>2. After \in Nat
    BY ManagedAssumption DEF StepsTable
  <2>3. StepsLeft' < StepsLeft
    BY <1>1, <1>4, <2>1, <2>2 DEF StepsTable
  <2>4. QED
    BY <1>3, <1>4, <2>3 DEF QueueInv
<1>5. CASE call' = [call EXCEPT !.phase = "confirm", !.handle = h] /\ UNCHANGED pending
  <2>1. /\ call'.phase = "confirm" /\ call'.handle = h
        /\ Queue' = Queue /\ After' = After
    BY <1>0, <1>5 DEF CallState, Queue, After
  <2>2. ToDrop' = ToDrop /\ ToDrop \in Nat /\ After \in Nat
    BY <2>1, ManagedAssumption DEF ToDrop, StepsTable
  <2>3. call.phase = "sweep" => After = 0
    BY <1>2 DEF After
  <2>4. StepsLeft' < StepsLeft
    BY <1>1, <2>1, <2>2, <2>3 DEF StepsTable
  <2>5. QED
    BY <1>2, <2>1, <2>4 DEF QueueInv
<1>6. QED
  <2>1. ASSUME pending' = pending \ {h}, call' = [call EXCEPT !.orphans = @ \ {h}]
        PROVE  Queue' = Queue \ {h} /\ call'.phase = call.phase /\ After' = After
    BY <1>0, <2>1 DEF CallState, Queue, After
  <2>2. ASSUME pending' = pending \ {h}, call' = call, call.phase = "flush"
        PROVE  Queue' = Queue \ {h} /\ call'.phase = call.phase /\ After' = After
    BY <1>2, <2>2 DEF Queue, After
  <2>3. QED
    BY <1>1, <1>4, <1>5, <2>1, <2>2

(* A drop confirmed, or given up.                                          *)
LEMMA ConfirmShortens ==
    ASSUME TypeInv, QueueInv, StepsTable, StepsTable', Confirm
    PROVE  StepsLeft' < StepsLeft /\ QueueInv'
<1> DEFINE h == call.handle
<1>0. call \in CallState
  BY DEF TypeInv, CallInv
<1>1. /\ call.phase = "confirm"
      /\ \/ /\ pending' = pending \ {h}
            /\ call' = [call EXCEPT !.orphans = @ \ {h}, !.handle = None,
                                    !.phase = IF call.sweeping THEN "sweep" ELSE "flush"]
         \/ call' = Idle
  BY DEF Confirm
<1>2. h \in Queue
  BY <1>1 DEF QueueInv
<1>3. ToDrop \in Nat /\ ToDrop > 0 /\ After \in Nat
  <2>1. Cardinality(Queue) # 0 /\ ToDrop \in Nat
    BY <1>2, QueueFinite, FS_EmptySet, ManagedAssumption DEF ToDrop
  <2>2. QED
    BY <2>1, ManagedAssumption DEF ToDrop, StepsTable
<1>4. CASE call' = Idle
  <2>1. StepsLeft' = 0 /\ StepsLeft > 0
    BY <1>1, <1>3, <1>4 DEF StepsTable
  <2>2. QED
    BY <1>4, <2>1, IdleCall DEF QueueInv
<1>5. CASE /\ pending' = pending \ {h}
           /\ call' = [call EXCEPT !.orphans = @ \ {h}, !.handle = None,
                                   !.phase = IF call.sweeping THEN "sweep" ELSE "flush"]
  <2>1. /\ Queue' = Queue \ {h} /\ After' = After
        /\ call'.phase = IF call.sweeping THEN "sweep" ELSE "flush"
    BY <1>0, <1>5 DEF CallState, Queue, After
  <2>2. ToDrop' = ToDrop - 1
    BY <1>2, <2>1, QueueShrinks
  <2>3. call.sweeping => After = 0
    BY DEF After
  <2>4. StepsLeft' < StepsLeft
    BY <1>1, <1>3, <2>1, <2>2, <2>3 DEF StepsTable
  <2>5. QED
    BY <2>1, <2>4 DEF QueueInv
<1>6. QED
  BY <1>1, <1>4, <1>5

(* The other steps of a call.                                              *)
LEMMA OthersShorten ==
    ASSUME TypeInv, StepsTable, StepsTable',
           \/ FlushDone \/ Reconcile \/ SweepDone \/ Select
           \/ CaptureSlot \/ ClearLiveSlot \/ RestoreLive \/ Probe \/ ProbeFails
           \/ call.phase = "admit" /\ BindStep
    PROVE  StepsLeft' < StepsLeft /\ QueueInv'
<1>0. call \in CallState /\ MaxHandle \in Nat /\ ToDrop \in Nat /\ ToDrop' \in Nat
  BY ManagedAssumption DEF TypeInv, CallInv, StepsTable
<1>1. \/ call' = Idle
      \/ /\ call' # Idle /\ call.phase = "flush" /\ ~call.done
         /\ call' = [call EXCEPT !.phase = "capture"]
      \/ /\ call.phase = "capture"
         /\ \/ call' = [call EXCEPT !.phase = "admit"]
            \/ call' = [call EXCEPT !.phase = "reconcile"]
      \/ /\ call.phase = "reconcile"
         /\ call' = [call EXCEPT !.phase = "sweep", !.sweeping = TRUE, !.orphans = Unknown]
      \/ call.phase = "admit" /\ ThenFlush
      \/ call.phase = "clear" /\ call' = [call EXCEPT !.phase = "select"]
      \/ /\ call.phase = "select"
         /\ \/ call' = [call EXCEPT !.phase = "probe"]
            \/ \E k : call' = [call EXCEPT !.phase = "restore", !.chosen = k]
      \/ call.phase = "restore" /\ call' = [call EXCEPT !.phase = "probe"]
  BY DEF FlushDone, Reconcile, SweepDone, Select, CaptureSlot, ClearLiveSlot,
         RestoreLive, Probe, ProbeFails, BindStep
<1>2. /\ call.phase \in {"flush", "reconcile", "sweep", "select", "capture", "clear",
                         "restore", "probe", "admit"}
      /\ call.phase = "flush" => ~call.sweeping
      /\ ToDrop <= MaxHandle /\ ToDrop' <= MaxHandle
  <2>1. ToDrop <= MaxHandle /\ ToDrop' <= MaxHandle
    BY <1>0 DEF StepsTable
  <2>2. call.phase \in {"flush", "reconcile", "sweep", "select", "capture", "clear",
                        "restore", "probe", "admit"}
    BY DEF FlushDone, Reconcile, SweepDone, Select, CaptureSlot, ClearLiveSlot,
           RestoreLive, Probe, ProbeFails
  <2>3. QED
    BY <2>1, <2>2 DEF TypeInv, CallInv
<1>3. CASE call' = Idle
  <2>1. StepsLeft' = 0
    BY <1>3 DEF StepsTable
  <2>2. StepsLeft > 0
    BY <1>0, <1>2 DEF StepsTable
  <2>3. QED
    BY <1>3, <2>1, <2>2, IdleCall DEF QueueInv
<1>4. CASE call.phase = "admit" /\ ThenFlush
  <2>1. call'.phase = "flush" /\ call'.done = TRUE
    BY <1>4 DEF ThenFlush, Idle
  <2>2. After' = 0
    BY <2>1 DEF After
  <2>3. StepsLeft' = 1 + 2 * ToDrop' /\ StepsLeft = 2 + 2 * MaxHandle
    BY <1>0, <1>4, <2>1, <2>2 DEF StepsTable
  <2>4. StepsLeft' < StepsLeft
    <3>1. \A n, m \in Nat : n <= m => 1 + 2 * n < 2 + 2 * m
      OBVIOUS
    <3>2. 1 + 2 * ToDrop' < 2 + 2 * MaxHandle
      BY <1>0, <1>2, <3>1
    <3>3. QED
      BY <2>3, <3>2
  <2>5. QED
    BY <2>1, <2>4 DEF QueueInv
<1>5. CASE ~(call' = Idle) /\ ~(call.phase = "admit" /\ ThenFlush)
  <2>1. \/ call.phase = "flush" /\ call'.phase = "capture" /\ ~call.done
        \/ call.phase = "capture" /\ call'.phase \in {"admit", "reconcile"}
        \/ call.phase = "reconcile" /\ call'.phase = "sweep"
        \/ call.phase = "clear" /\ call'.phase = "select"
        \/ call.phase = "select" /\ call'.phase \in {"probe", "restore"}
        \/ call.phase = "restore" /\ call'.phase = "probe"
    BY <1>0, <1>1, <1>5 DEF CallState
  <2>2. call.phase = "flush" /\ ~call.done => After = 3 + 2 * MaxHandle
    BY <1>2 DEF After
  <2>3. StepsLeft' < StepsLeft
    BY <1>0, <1>2, <2>1, <2>2 DEF StepsTable
  <2>4. QED
    BY <2>1, <2>3 DEF QueueInv
<1>6. QED
  BY <1>3, <1>4, <1>5

LEMMA AdvanceShortens ==
    ASSUME TypeInv, QueueInv, TypeInv', Advance
    PROVE  StepsLeft' < StepsLeft /\ QueueInv'
<1>1. StepsTable
  BY StepsTabled
<1>2. StepsTable'
  <2>1. TypeInv' => StepsTable'
    BY StepsTabled, PTL
  <2>2. QED
    BY <2>1
<1>3. CASE \E h : FlushDrop(h) \/ SweepDrop(h)
  BY <1>1, <1>2, <1>3, DropShortens
<1>4. CASE (call.phase = "admit" /\ Admission) \/ AdmitStableCandidate
  <2>1. BindStep
    BY <1>4, AdmissionBinds DEF TypeInv, CallInv
  <2>2. call.phase = "admit"
    BY <1>4 DEF AdmitStableCandidate
  <2>3. QED
    BY <1>1, <1>2, <2>1, <2>2, OthersShorten
<1>5. QED
  BY <1>1, <1>2, <1>3, <1>4, ConfirmShortens, OthersShorten DEF Advance

(* Whatever else happens leaves the call that runs as it is.               *)
LEMMA OnlyAdvanceMoves ==
    ASSUME QueueInv, [Next]_vars, ~Advance
    PROVE  (call # Idle => UNCHANGED <<call, pending>>) /\ QueueInv'
<1>1. CASE UNCHANGED <<call, pending>>
  BY <1>1 DEF QueueInv, Queue
<1>2. CASE call = Idle /\ (Start \/ Admission \/ Connect)
  <2>1. \/ call'.phase \notin {"confirm", "idle"}
        \/ call' = Idle
    BY <1>2 DEF Start, StartCapture, ReconcileOrphans, TrimTo, Lookup, Admission,
            AdmitCaptured, Bind, ThenFlush, Connect, Idle
  <2>2. QED
    BY <1>2, <2>1, IdleCall DEF QueueInv
<1>3. ASSUME ~UNCHANGED <<call, pending>>
      PROVE  call = Idle /\ (Start \/ Admission \/ Connect)
  BY <1>3 DEF Next, Start, StartCapture, ReconcileOrphans, TrimTo, Lookup, Environment,
          Generate, Load, RunLate, Connect, registry, vars
<1>4. QED
  BY <1>1, <1>2, <1>3

(* Each step of a call leaves it fewer steps to take, and nothing else     *)
(* lengthens it, whatever fails: no call takes more than four steps for    *)
(* each handle there can be, and four more.                                *)
THEOREM CallsShortenStepwise == Spec => CallsShorten
<1>1. Init => TypeInv /\ QueueInv
  BY InitBlank, IdleCall DEF QueueInv, Blank
<1>2. TypeInv /\ QueueInv /\ [Next]_vars => TypeInv' /\ QueueInv'
  <2>1. TypeInv /\ [Next]_vars => TypeInv'
    BY NextSteps, TypeStep, TypeStutter
  <2>2. QED
    BY <2>1, AdvanceShortens, OnlyAdvanceMoves
<1>3. ASSUME TypeInv, QueueInv, TypeInv', [Next]_vars, call # Idle
      PROVE  /\ StepsLeft <= 4 * MaxHandle + 4
             /\ Advance => StepsLeft' < StepsLeft
             /\ ~Advance => UNCHANGED <<call, pending>>
  <2>1. StepsLeft <= 4 * MaxHandle + 4
    <3>1. StepsTable /\ MaxHandle \in Nat
      BY <1>3, StepsTabled, ManagedAssumption
    <3>2. call.phase \in Phases \ {"idle"}
      BY <1>3 DEF TypeInv, CallInv, CallState, QueueInv
    <3>3. QED
      BY <3>1, <3>2 DEF StepsTable, Phases
  <2>2. QED
    BY <1>3, <2>1, AdvanceShortens, OnlyAdvanceMoves
<1>4. QED
  <2>1. TypeInv /\ QueueInv /\ TypeInv' /\ [Next]_vars
           => [call # Idle =>
                  /\ StepsLeft <= 4 * MaxHandle + 4
                  /\ Advance => StepsLeft' < StepsLeft
                  /\ ~Advance => UNCHANGED <<call, pending>>]_vars
    BY <1>3
  <2>2. QED
    BY <1>1, <1>2, <2>1, PTL DEF Spec, CallsShorten
=============================================================================
