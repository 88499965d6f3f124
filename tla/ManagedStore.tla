---------------------------- MODULE ManagedStore ----------------------------
(***************************************************************************)
(* The managed store of the patched llama.cpp server under any sequence of *)
(* requests, completions and model loads. A request that needs the slot    *)
(* while a completion occupies it is deferred.                             *)
(***************************************************************************)
EXTENDS ManagedServerOps

CONSTANTS
    MaxHandle,   \* bound: handles given out in an epoch
    MaxEpoch,    \* bound: model loads
    MaxDeferred  \* bound: deferred requests

ASSUME BoundsAssumption == MaxHandle \in Nat /\ MaxEpoch \in Nat \ {0}

VARIABLES
    server,    \* the server value
    busy,      \* is the slot processing a completion?
    deferred,  \* the deferred requests
    last       \* the last executed request and its reply

vars == <<server, busy, deferred, last>>

Epochs == 1 .. MaxEpoch

Request ==
    [action : {"clear"}, epoch : Epochs]
    \cup [action : {"capture"}, epoch : Epochs, prompt : Prompts]
    \cup [action : {"restore", "drop"}, epoch : Epochs, handle : 1 .. MaxHandle]

Nothing == [request |-> [action |-> "none"], reply |-> Refuse([epoch |-> 0]).reply]

Init ==
    /\ server = Loaded(1)
    /\ busy = FALSE
    /\ deferred = {}
    /\ last = Nothing

Run(request) ==
    \E outcome \in Execute(server, request) :
        /\ server' = outcome.server
        /\ last' = [request |-> request, reply |-> outcome.reply]

NeedsSlot(request) == request.action \in {"clear", "capture", "restore"}

\* The epoch is checked before a request is deferred and again when it runs.
Post(request) ==
    /\ request.action = "capture" => server.next <= MaxHandle
    /\ UNCHANGED busy
    /\ IF busy /\ NeedsSlot(request) /\ request.epoch = server.epoch
       THEN /\ Cardinality(deferred \cup {request}) <= MaxDeferred
            /\ deferred' = deferred \cup {request}
            /\ UNCHANGED <<server, last>>
       ELSE Run(request) /\ UNCHANGED deferred

StartCompletion ==
    /\ ~busy
    /\ busy' = TRUE
    /\ UNCHANGED <<server, deferred, last>>

FinishCompletion(prompt) ==
    /\ busy
    /\ busy' = FALSE
    /\ server' = Completed(server, prompt)
    /\ UNCHANGED <<deferred, last>>

RunDeferred(request) ==
    /\ ~busy
    /\ request \in deferred
    /\ request.action = "capture" => server.next <= MaxHandle
    /\ deferred' = deferred \ {request}
    /\ Run(request)
    /\ UNCHANGED busy

\* Restart of the process: its queues go with it.
Load ==
    /\ server.epoch < MaxEpoch
    /\ server' = Loaded(server.epoch + 1)
    /\ busy' = FALSE
    /\ deferred' = {}
    /\ last' = Nothing

Next ==
    \/ \E request \in Request : Post(request)
    \/ StartCompletion
    \/ \E prompt \in Prompts : FinishCompletion(prompt)
    \/ \E request \in deferred : RunDeferred(request)
    \/ Load

Spec == Init /\ [][Next]_vars

-----------------------------------------------------------------------------
(* Properties.                                                             *)

(* Types; handles are given out in order.                                  *)
TypeOK ==
    /\ server.epoch \in Epochs
    /\ server.next \in 1 .. MaxHandle + 1
    /\ Handles(server) \subseteq 1 .. server.next - 1
    /\ server.states \in [Handles(server) -> [prompt : Prompts, restored : BOOLEAN]]
    /\ server.slot \in Prompts \cup {None}
    /\ busy \in BOOLEAN
    /\ deferred \subseteq Request

StoreBytes == HandleBytes(server, Handles(server))

(* The limit holds but for the checkpoints of one state the store holds,   *)
(* which the check before its capture did not count, however many captures *)
(* came before it and whatever was dropped since.                          *)
RamWithinOneOverrun ==
    RamLimit # None =>
        \/ StoreBytes <= RamLimit
        \/ \E h \in Handles(server) :
              StoreBytes <= RamLimit + CheckpointBytes[server.states[h].prompt]

(* What a request leaves is well typed and within that limit.              *)
StoreSound == TypeOK /\ RamWithinOneOverrun

Gone == Handles(server) \ Handles(server')

SameLoad == server'.epoch = server.epoch

(* The budget takes only states nobody has restored, the oldest first, and *)
(* no more of them than the capture needs.                                 *)
ReclaimsOldestUnused ==
    [][SameLoad /\ last'.request.action = "capture" =>
          \A h \in Gone :
              /\ ~server.states[h].restored
              /\ \A u \in Unused(server) : u < h => u \in Gone
              /\ (\A f \in Gone : f <= h)
                    => HandleBytes(server, (Handles(server) \ Gone) \cup {h})
                         + StateBytes[server.slot] > RamLimit]_vars

Promised ==
    INSTANCE HandleStore WITH
        Ids   <- 1 .. MaxHandle,
        epoch <- server.epoch,
        kept  <- [h \in Handles(server) |-> server.states[h].prompt],
        given <- 1 .. server.next - 1,
        slot  <- server.slot

(* Whatever is requested, deferred, refused or half done, clients have a   *)
(* store of named prompts: while the model stays loaded a handle means one *)
(* prompt for ever, and one that was dropped or reclaimed never comes back.*)
KeepsItsPromise == Promised!Spec

-----------------------------------------------------------------------------
(* A comment of the patch the code does not live up to.                    *)

(* patch: "reject before allocating so the budget bounds total managed     *)
(* RAM".                                                                   *)
BudgetBoundsManagedRam == RamLimit # None => StoreBytes <= RamLimit
=============================================================================
