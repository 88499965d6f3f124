-------------------------- MODULE ManagedServerOps --------------------------
(***************************************************************************)
(* The StateBraid cache task of the patched llama.cpp server               *)
(* (src/statebraid/integrations/llama_cpp_managed/*.patch) as operators    *)
(* over a server value s:                                                  *)
(*   epoch   statebraid_managed_epoch, numbered in the order of loads      *)
(*   states  statebraid_managed_states: from the handles, numbered in the  *)
(*           order of the map's keys, to the prompt they hold and whether  *)
(*           they were ever restored                                       *)
(*   next    statebraid_managed_next_handle                                *)
(*   slot    the prompt in the one slot, None when it is clear             *)
(* A request is a record; executing one gives an outcome: the server value *)
(* after it and the reply. Slot numbers, field validation and the token by *)
(* token comparison of prompts are left out: one slot, valid requests.     *)
(***************************************************************************)
EXTENDS Integers, FiniteSets

CONSTANTS
    Prompts,         \* the token sequences a slot may hold
    StateBytes,      \* external: bytes of the sequence state of a prompt
    CheckpointBytes, \* external: bytes of the checkpoints a prompt carries
    RamLimit,        \* the managed RAM limit, None for no limit
    ReadMayFail,     \* external: may llama_state_seq_{get,set}_data fall short?
    None

ASSUME ServerAssumption ==
    /\ None \notin Prompts
    /\ StateBytes \in [Prompts -> Nat \ {0}]
    /\ CheckpointBytes \in [Prompts -> Nat]
    /\ RamLimit \in Nat \cup {None}
    /\ ReadMayFail \in BOOLEAN

\* A model load: restart, or resume after sleep.
Loaded(epoch) == [epoch |-> epoch, states |-> <<>>, next |-> 1, slot |-> None]

Handles(s) == DOMAIN s.states

\* n_bytes of a handle: sequence state and checkpoints.
PayloadBytes(prompt) == StateBytes[prompt] + CheckpointBytes[prompt]

\* The bytes of the handles in H, as the number of their <<handle, byte>> cells.
HandleBytes(s, H) ==
    Cardinality(UNION {{h} \X (1 .. PayloadBytes(s.states[h].prompt)) : h \in H})

Without(s, H) == [s EXCEPT !.states = [h \in Handles(s) \ H |-> s.states[h]]]

Accept(s, handle, evicted) ==
    [server |-> s,
     reply |-> [ok |-> TRUE, epoch |-> s.epoch, handle |-> handle, evicted |-> evicted]]

Refuse(s) ==
    [server |-> s,
     reply |-> [ok |-> FALSE, epoch |-> s.epoch, handle |-> None, evicted |-> {}]]

-----------------------------------------------------------------------------

ClearOutcomes(s) == {Accept([s EXCEPT !.slot = None], None, {})}

DropOutcomes(s, handle) ==
    {IF handle \in Handles(s) THEN Accept(Without(s, {handle}), handle, {}) ELSE Refuse(s)}

\* The handles nobody has restored may be reclaimed.
Unused(s) == {h \in Handles(s) : ~s.states[h].restored}

\* Mutant: restored handles are not charged.
DeficitOfUnused(s) ==
    IF RamLimit = None THEN 0
    ELSE HandleBytes(s, Unused(s)) + StateBytes[s.slot] - RamLimit

\* How far a capture of the slot is over the limit.
Deficit(s) ==
    IF RamLimit = None THEN 0
    ELSE HandleBytes(s, Handles(s)) + StateBytes[s.slot] - RamLimit

\* Mutant: the newest go first.
ReclaimedNewest(s) ==
    {h \in Unused(s) : HandleBytes(s, {u \in Unused(s) : u > h}) < Deficit(s)}

\* Exactly enough of the oldest unused handles.
Reclaimed(s) ==
    {h \in Unused(s) : HandleBytes(s, {u \in Unused(s) : u < h}) < Deficit(s)}

\* Mutant: handles are numbered by the size of the store.
StoredInFreePlace(s, prompt) ==
    [s EXCEPT !.states = [h \in Handles(s) \cup {Cardinality(Handles(s)) + 1} |->
                             IF h = Cardinality(Handles(s)) + 1
                             THEN [prompt |-> prompt, restored |-> FALSE] ELSE s.states[h]]]

Stored(s, prompt) ==
    [s EXCEPT !.states = [h \in Handles(s) \cup {s.next} |->
                             IF h = s.next THEN [prompt |-> prompt, restored |-> FALSE]
                             ELSE s.states[h]],
              !.next = @ + 1]

\* The oldest unused handles are erased before the state is read: a read that
\* falls short refuses the capture after them.
CaptureOutcomes(s, expected) ==
    IF s.slot = None \/ s.slot # expected THEN {Refuse(s)}
    ELSE IF HandleBytes(s, Unused(s)) < Deficit(s) THEN {Refuse(s)}
    ELSE LET reclaimed == Without(s, Reclaimed(s))
         IN  {Accept(Stored(reclaimed, s.slot), s.next, Reclaimed(s))}
             \cup (IF ReadMayFail THEN {Refuse(reclaimed)} ELSE {})

RestoreOutcomes(s, handle) ==
    IF handle \notin Handles(s) THEN {Refuse(s)}
    ELSE {Accept([s EXCEPT !.slot = s.states[handle].prompt,
                           !.states[handle].restored = TRUE], handle, {})}
         \cup (IF ReadMayFail THEN {Refuse([s EXCEPT !.slot = None])} ELSE {})

\* Mutant: no epoch check.
ExecuteAnyEpoch(s, request) ==
    CASE request.action = "clear"   -> ClearOutcomes(s)
      [] request.action = "drop"    -> DropOutcomes(s, request.handle)
      [] request.action = "capture" -> CaptureOutcomes(s, request.prompt)
      [] request.action = "restore" -> RestoreOutcomes(s, request.handle)

\* Every mutation requires the current epoch.
Execute(s, request) ==
    IF request.epoch # s.epoch THEN {Refuse(s)}
    ELSE CASE request.action = "clear"   -> ClearOutcomes(s)
           [] request.action = "drop"    -> DropOutcomes(s, request.handle)
           [] request.action = "capture" -> CaptureOutcomes(s, request.prompt)
           [] request.action = "restore" -> RestoreOutcomes(s, request.handle)

\* external: a completion leaves its prompt in the slot.
Completed(s, prompt) == [s EXCEPT !.slot = prompt]
=============================================================================
