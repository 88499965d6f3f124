----------------------------- MODULE LlamaCppHTTP -----------------------------
(***************************************************************************)
(* The llama.cpp HTTP adapter (src/statebraid/adapters/llama_cpp.py): a    *)
(* lookup is three requests, /props, /slots and /completion, to a server   *)
(* that may be replaced by another between any two of them, beside other   *)
(* clients and the doctor's probe (compat/llama_cpp.py).                   *)
(***************************************************************************)
EXTENDS BackendContract, SequencesExt

CONSTANTS
    Surfaces,        \* [props, slots] of the servers that may run
    IdSlots,         \* the slot an adapter may be created for
    Domains,         \* and the trust-domain label
    Namespaces,      \* the namespaces callers ask for
    Prompts,         \* their prompts, and the other clients'
    Claims,          \* the timings an unaudited server may report
    MaxReplacements  \* bound: how often the server is replaced

\* A server lists its slots, if it lists them at all, under any ids.
ASSUME ServerAssumption ==
    /\ None \notin Int
    /\ IdSlots \subseteq Int
    /\ Prompts \subseteq Seq(Int)
    /\ \A s \in Surfaces : s.slots # None => s.slots \in Seq(Int \cup {None})

VARIABLES
    idSlot,   \* the adapter's slot
    server,   \* the server that runs: its surface, and what it has evaluated
    epoch,    \* counts the replacements of the server
    call,     \* the lookup in flight, or the last one
    doctor    \* the doctor's probe

vars == <<idSlot, server, epoch, call, doctor>>

Start(surface) == [surface |-> surface, evaluated |-> {}]

Namespace == CacheNamespace("http://127.0.0.1:8080", DefaultDomain)

\* LlamaCppHTTPAdapter(id_slot, trust_domain) does not raise.
Constructs(id, domain) ==
    id >= 0 /\ ValidDomain(domain) /\ domain.label = DefaultDomain

-----------------------------------------------------------------------------
(* What the adapter makes of the answers.                                  *)

SourceMatches(props) == props # None /\ props.build = "reference"

TotalSlots(props) ==
    IF props.total \in Int /\ props.total > 0 THEN props.total ELSE None

\* Mutant: a server that reports its slots is trusted, whatever its source.
RequireReportedSlots(props) == IF props = None THEN None ELSE TotalSlots(props)

\* _require_reference_source: total_slots, or None when it raises.
RequireReferenceSource(props) ==
    IF SourceMatches(props) THEN TotalSlots(props) ELSE None

\* The slots with an integer id, and these ids.
ValidIds(slots) == {i \in DOMAIN slots : slots[i] \in Int}

ListedIds(slots) == {slots[i] : i \in ValidIds(slots)}

\* Mutant: a slot the server does not have is left to its modulo wrapping.
RequireAnySlot(slots, total, id) ==
    /\ slots # None
    /\ Cardinality(ListedIds(slots)) = Len(slots)
    /\ Cardinality(ListedIds(slots)) = total

RequireExactSlot(slots, total, id) ==
    /\ slots # None
    /\ Cardinality(ListedIds(slots)) = Len(slots)
    /\ Cardinality(ListedIds(slots)) = total
    /\ id \in ListedIds(slots)

\* LlamaCppReuseStats.from_response does not raise.
Consistent(timings, length) ==
    /\ timings # None
    /\ {timings.cache_n, timings.prompt_n} \subseteq Nat
    /\ timings.cache_n + timings.prompt_n = length

NormalizeReuse(prompt, id, timings) ==
    IF ~Consistent(timings, Len(prompt)) THEN Refused
    ELSE FromBackendResult(Namespace, prompt,
             IF timings.cache_n = 0 THEN None
             ELSE [id_slot |-> id, cache_n |-> timings.cache_n],
             Suffix(prompt, timings.cache_n))

-----------------------------------------------------------------------------
(* The server.                                                             *)

Props == server.surface.props

Slots == server.surface.slots

\* The slot a completion for this id runs in: an id that the server does not
\* have wraps modulo the number of its slots.
ServedSlot(id) ==
    IF Slots \in {None, <<>>} \/ id \in ListedIds(Slots)
    THEN id ELSE Slots[(id % Len(Slots)) + 1]

\* The tokens the server can take from its cache for a prompt: it always
\* evaluates one, and may recompute more than it has to.
Reusable(prompt) ==
    {n \in 0 .. Len(prompt) - 1 :
        n = 0 \/ \E p \in server.evaluated : n <= Len(LongestCommonPrefix({prompt, p}))}

\* The audited source reports what it reused; another may report anything.
Reports(prompt, reused) ==
    IF SourceMatches(Props)
    THEN {[cache_n |-> reused, prompt_n |-> Len(prompt) - reused]}
    ELSE Claims

-----------------------------------------------------------------------------
(* A lookup.                                                               *)

NoCall ==
    [pc |-> "idle", kind |-> None, tokens |-> <<>>, total |-> None,
     propsEpoch |-> None, slotsEpoch |-> None, sent |-> None,
     timings |-> None, reused |-> 0, observation |-> None]

Resting == call.pc \in {"idle", "observed", "refused", "failed"}

End(pc) == call' = [call EXCEPT !.pc = pc]

Init ==
    /\ idSlot \in {id \in IdSlots : \E d \in Domains : Constructs(id, d)}
    /\ \E s \in Surfaces : server = Start(s)
    /\ epoch = 0
    /\ call = NoCall
    /\ doctor = [pc |-> "idle", props |-> None, epoch |-> 0, compatible |-> None]

\* lookup or generation_safe_exact; another namespace is refused at once.
Call(kind, namespace, tokens) ==
    /\ Resting
    /\ call' = [NoCall EXCEPT
                  !.pc = IF namespace = Namespace THEN "props" ELSE "refused",
                  !.kind = kind, !.tokens = tokens]
    /\ UNCHANGED <<idSlot, server, epoch, doctor>>

ReadProps ==
    /\ call.pc = "props"
    /\ LET total == RequireReferenceSource(Props)
       IN  call' = [call EXCEPT !.pc = IF total = None THEN "refused" ELSE "slots",
                                !.total = total, !.propsEpoch = epoch]
    /\ UNCHANGED <<idSlot, server, epoch, doctor>>

ReadSlots ==
    /\ call.pc = "slots"
    /\ call' = [call EXCEPT
                  !.pc = IF ~RequireExactSlot(Slots, call.total, idSlot)
                         THEN "refused"
                         ELSE IF call.tokens = <<>> THEN "failed" ELSE "post",
                  !.slotsEpoch = epoch]
    /\ UNCHANGED <<idSlot, server, epoch, doctor>>

\* The server evaluates the prompt, whether or not its answer arrives.
Complete ==
    /\ call.pc = "post"
    /\ \E reused \in Reusable(call.tokens) :
       \E timings \in Reports(call.tokens, reused) :
          call' = [call EXCEPT
                     !.pc = "answered", !.timings = timings, !.reused = reused,
                     !.sent = [epoch |-> epoch, slot |-> ServedSlot(idSlot),
                               audited |-> SourceMatches(Props)]]
    /\ server' = [server EXCEPT !.evaluated = @ \cup {call.tokens}]
    /\ UNCHANGED <<idSlot, epoch, doctor>>

Return ==
    /\ call.pc = "answered"
    /\ LET seen == NormalizeReuse(call.tokens, idSlot, call.timings)
       IN  IF seen.refused \/ (call.kind = "generation_safe_exact"
                               /\ seen.remaining = <<>>)
           THEN End("failed")
           ELSE call' = [call EXCEPT !.pc = "observed", !.observation = seen]
    /\ UNCHANGED <<idSlot, server, epoch, doctor>>

\* The transport raises: no connection, an error status, a timeout, no JSON.
TransportFails ==
    /\ call.pc \in {"props", "slots", "post", "answered"}
    /\ End("failed")
    /\ UNCHANGED <<idSlot, server, epoch, doctor>>

-----------------------------------------------------------------------------
(* The doctor.                                                             *)

\* Mutant: the doctor looks at the shape of the API alone.
CompatibleShape(props, slots) ==
    /\ props # None /\ slots # None
    /\ ValidIds(slots) = DOMAIN slots /\ slots # <<>>
    /\ TotalSlots(props) = Len(slots)

Compatible(props, slots) ==
    /\ props # None /\ slots # None
    /\ ValidIds(slots) = DOMAIN slots /\ slots # <<>>
    /\ SourceMatches(props)
    /\ TotalSlots(props) = Len(slots)

Probe ==
    /\ doctor.pc = "idle"
    /\ doctor' = [doctor EXCEPT !.pc = "slots", !.props = Props, !.epoch = epoch]
    /\ UNCHANGED <<idSlot, server, epoch, call>>

\* An unreachable server is incompatible, and says nothing of the surface.
Diagnose(answered) ==
    /\ doctor.pc = "slots"
    /\ doctor' = [doctor EXCEPT
                    !.pc = IF answered THEN "done" ELSE "unreachable",
                    !.compatible = answered /\ Compatible(doctor.props, Slots)]
    /\ UNCHANGED <<idSlot, server, epoch, call>>

-----------------------------------------------------------------------------
(* The rest of the world.                                                  *)

OtherCompletion(prompt) ==
    /\ prompt # <<>>
    /\ server' = [server EXCEPT !.evaluated = @ \cup {prompt}]
    /\ UNCHANGED <<idSlot, epoch, call, doctor>>

Replace(surface) ==
    /\ epoch < MaxReplacements
    /\ server' = Start(surface)
    /\ epoch' = epoch + 1
    /\ UNCHANGED <<idSlot, call, doctor>>

Next ==
    \/ \E kind \in {"lookup", "generation_safe_exact"}, ns \in Namespaces,
          tokens \in Prompts : Call(kind, ns, tokens)
    \/ ReadProps \/ ReadSlots \/ Complete \/ Return \/ TransportFails
    \/ Probe \/ \E answered \in BOOLEAN : Diagnose(answered)
    \/ \E prompt \in Prompts : OtherCompletion(prompt)
    \/ \E surface \in Surfaces : Replace(surface)

Spec == Init /\ [][Next]_vars

-----------------------------------------------------------------------------
(* Properties.                                                             *)

(* docs: "Only after those checks pass may a model request be sent", so    *)
(* that neither unaudited source nor the modulo wrapping of slot ids is    *)
(* relied on. Every completion runs on audited source and in the selected  *)
(* slot, unless the server was replaced after the read that checked it.    *)
RequestsAreQualified ==
    call.sent # None =>
        /\ call.sent.epoch = call.propsEpoch => call.sent.audited
        /\ call.sent.epoch = call.slotsEpoch => call.sent.slot = idSlot

(* The evidence is real: a match the adapter reports was reused by the     *)
(* server that answered, and leaves a token to evaluate, unless that       *)
(* server took over after /props was read.                                 *)
EvidenceServed ==
    call.pc = "observed" /\ call.sent.epoch = call.propsEpoch =>
        /\ Len(call.observation.matched) = call.reused
        /\ call.observation.remaining # <<>>

\* The server both looked at still runs.
SameServer == doctor.epoch = epoch /\ call.propsEpoch = epoch

(* Doctor and adapter agree: while the server both looked at runs, one     *)
(* that lets a lookup through is found compatible, and one that is found   *)
(* compatible refuses a lookup only for a slot it does not list, or if it  *)
(* lists an id twice. There they differ: the doctor counts slots, the      *)
(* adapter their ids.                                                      *)
DoctorAgrees ==
    doctor.pc = "done" /\ SameServer =>
        /\ doctor.compatible /\ call.pc = "refused" =>
              idSlot \notin ListedIds(Slots) \/ ~IsInjective(Slots)
        /\ call.pc \in {"post", "answered", "observed"} => doctor.compatible

-----------------------------------------------------------------------------
(* What does not hold for every server.                                    *)

(* The change log says of the source check and of total_slots that they    *)
(* "bind both llama.cpp doctor and direct execution adapter". A server     *)
(* that lists an id twice is compatible all the same, and refused.         *)
CompatibleIsServed ==
    doctor.pc = "done" /\ SameServer /\ doctor.compatible /\ idSlot \in ListedIds(Slots)
        => call.pc # "refused"
=============================================================================
