------------------------- MODULE LlamaCppHTTPProofs -------------------------
(***************************************************************************)
(* The lookups of LlamaCppHTTP, for every set of servers, prompts and      *)
(* claims and any number of replacements. What an answer said of a server  *)
(* stays true until that server is replaced; epochs only grow, so that an  *)
(* answer read in the present epoch is one of the server that runs.        *)
(***************************************************************************)
EXTENDS LlamaCppHTTP, FiniteSetTheorems, TLAPS

CallFields ==
    {"pc", "kind", "tokens", "total", "propsEpoch", "slotsEpoch", "sent",
     "timings", "reused", "observation"}

DoctorFields == {"pc", "props", "epoch", "compatible"}

Past == 0 .. epoch

Shapes ==
    /\ idSlot \in Nat
    /\ epoch \in Nat
    /\ DOMAIN server = {"surface", "evaluated"}
    /\ server.surface \in Surfaces
    /\ DOMAIN call = CallFields
    /\ DOMAIN doctor = DoctorFields

\* What the lookup knows after /props and after /slots.
Qualified ==
    LET passed == call.pc \in {"slots", "post", "answered", "observed"}
        exact  == call.pc \in {"post", "answered", "observed"}
    IN  /\ call.pc \in {"idle", "props", "slots", "post", "answered",
                        "observed", "refused", "failed"}
        /\ call.propsEpoch \in Past \cup {None}
        /\ call.slotsEpoch \in Past \cup {None}
        /\ call.pc = "props" => call.propsEpoch = None
        /\ passed => call.propsEpoch \in Past
        /\ exact => call.slotsEpoch \in Past /\ call.propsEpoch <= call.slotsEpoch
        /\ passed => call.total # None
        /\ passed /\ call.propsEpoch = epoch =>
              call.total = RequireReferenceSource(Props)
        /\ exact /\ call.slotsEpoch = epoch =>
              RequireExactSlot(Slots, call.total, idSlot)
        /\ call.pc = "refused" /\ call.propsEpoch = epoch =>
              LET total == RequireReferenceSource(Props)
              IN  total = None \/ ~RequireExactSlot(Slots, total, idSlot)

\* What it knows of the completion it has sent.
Answered ==
    /\ RequestsAreQualified
    /\ call.pc \in {"props", "slots", "post", "answered"} => call.tokens \in Prompts
    /\ call.pc \in {"post", "answered"} => call.tokens # <<>>
    /\ call.pc \in {"props", "slots", "post"} => call.sent = None
    /\ call.pc = "answered" =>
          /\ call.reused \in 0 .. Len(call.tokens) - 1
          /\ call.sent.epoch = call.propsEpoch =>
                call.timings = [cache_n |-> call.reused,
                                prompt_n |-> Len(call.tokens) - call.reused]
    /\ EvidenceServed

\* What the doctor has read.
Examined ==
    /\ doctor.epoch \in Past
    /\ doctor.pc \in {"slots", "done"} /\ doctor.epoch = epoch =>
          doctor.props = Props
    /\ doctor.pc = "done" /\ doctor.epoch = epoch =>
          doctor.compatible = Compatible(Props, Slots)

LookupInv == Shapes /\ Qualified /\ Answered /\ Examined

-----------------------------------------------------------------------------
(* The checks.                                                             *)

(* A total is only taken from audited source.                              *)
LEMMA SourceChecked ==
    ASSUME NEW props, RequireReferenceSource(props) # None
    PROVE  /\ SourceMatches(props)
           /\ RequireReferenceSource(props) = TotalSlots(props)
           /\ TotalSlots(props) # None
BY DEF RequireReferenceSource

(* A server that may run lists its slots, if at all.                       *)
LEMMA SlotsListed ==
    ASSUME server.surface \in Surfaces, Slots # None
    PROVE  Slots \in Seq(Int \cup {None})
BY ServerAssumption DEF Slots

(* There are at most as many ids as slots. There are as many only if every *)
(* slot has one, and then if no two have the same.                         *)
LEMMA IdsCounted ==
    ASSUME NEW slots \in Seq(Int \cup {None})
    PROVE  /\ Cardinality(ListedIds(slots)) = Len(slots)
                 => ValidIds(slots) = DOMAIN slots
           /\ ValidIds(slots) = DOMAIN slots /\ IsInjective(slots)
                 => Cardinality(ListedIds(slots)) = Len(slots)
<1> DEFINE n   == Len(slots)
           ids == ListedIds(slots)
           f   == [i \in ValidIds(slots) |-> slots[i]]
<1>1. n \in Nat /\ DOMAIN slots = 1 .. n /\ ValidIds(slots) \in SUBSET (1 .. n)
  BY DEF ValidIds
<1>2. IsFiniteSet(1 .. n) /\ Cardinality(1 .. n) = n
  <2> HIDE DEF n
  <2>1. 1 \in Int /\ n \in Int
    BY <1>1
  <2>2. IsFiniteSet(1 .. n) /\ Cardinality(1 .. n) = IF 1 > n THEN 0 ELSE n - 1 + 1
    BY <2>1, FS_Interval
  <2>3. QED
    BY <1>1, <2>2
<1>3. /\ IsFiniteSet(ValidIds(slots)) /\ Cardinality(ValidIds(slots)) <= n
      /\ Cardinality(ValidIds(slots)) = n => ValidIds(slots) = DOMAIN slots
  <2> HIDE DEF n
  <2>1. QED
    BY <1>1, <1>2, FS_Subset
<1>4. f \in Surjection(ValidIds(slots), ids)
  BY DEF Surjection, ListedIds
<1>5. /\ IsFiniteSet(ids) /\ Cardinality(ids) <= Cardinality(ValidIds(slots))
      /\ Cardinality(ids) = Cardinality(ValidIds(slots))
            <=> f \in Injection(ValidIds(slots), ids)
  <2> HIDE DEF f, ids
  <2>1. QED
    BY <1>3, <1>4, FS_Surjection
<1>6. Cardinality(ids) \in Nat /\ Cardinality(ValidIds(slots)) \in Nat
  <2> HIDE DEF ids
  <2>1. QED
    BY <1>3, <1>5, FS_CardinalityType
<1>7. ASSUME Cardinality(ids) = n PROVE ValidIds(slots) = DOMAIN slots
  <2> HIDE DEF ids, n
  <2>1. QED
    BY <1>1, <1>3, <1>5, <1>6, <1>7
<1>8. ASSUME ValidIds(slots) = DOMAIN slots, IsInjective(slots)
      PROVE  Cardinality(ids) = n
  <2>1. f \in Injection(ValidIds(slots), ids)
    <3>1. IsInjective(f)
      BY <1>8 DEF IsInjective
    <3>2. f \in [ValidIds(slots) -> ids]
      BY DEF ListedIds
    <3> HIDE DEF f, ids
    <3>3. QED
      BY <3>1, <3>2 DEF Injection
  <2> HIDE DEF f, ids, n
  <2>2. QED
    BY <1>1, <1>2, <1>5, <1>8, <2>1
<1>9. QED
  BY <1>7, <1>8

(* The check of the slot keeps the completion away from modulo wrapping.   *)
LEMMA SlotChecked ==
    ASSUME server.surface \in Surfaces, NEW total, NEW id,
           RequireExactSlot(Slots, total, id)
    PROVE  /\ ServedSlot(id) = id
           /\ Slots # None /\ Slots # <<>>
           /\ ValidIds(Slots) = DOMAIN Slots
           /\ Len(Slots) = total
<1>1. /\ Slots # None /\ id \in ListedIds(Slots)
      /\ Cardinality(ListedIds(Slots)) = Len(Slots) /\ Len(Slots) = total
  BY DEF RequireExactSlot
<1>2. ValidIds(Slots) = DOMAIN Slots
  BY <1>1, SlotsListed, IdsCounted
<1>3. Slots # <<>>
  BY <1>1 DEF ListedIds, ValidIds
<1>4. QED
  BY <1>1, <1>2, <1>3 DEF ServedSlot

(* A listed slot of a server the doctor finds compatible passes the check, *)
(* if no id is listed twice.                                               *)
LEMMA CompatiblePasses ==
    ASSUME server.surface \in Surfaces, Compatible(Props, Slots),
           idSlot \in ListedIds(Slots), IsInjective(Slots)
    PROVE  /\ RequireReferenceSource(Props) # None
           /\ RequireExactSlot(Slots, RequireReferenceSource(Props), idSlot)
<1>1. /\ Slots # None /\ ValidIds(Slots) = DOMAIN Slots
      /\ RequireReferenceSource(Props) = Len(Slots)
  BY DEF Compatible, RequireReferenceSource
<1>2. Cardinality(ListedIds(Slots)) = Len(Slots) /\ Len(Slots) \in Nat
  BY <1>1, SlotsListed, IdsCounted
<1>3. Len(Slots) # None
  BY <1>2, ServerAssumption
<1>4. QED
  BY <1>1, <1>2, <1>3 DEF RequireExactSlot

(* And what passes both checks is compatible.                              *)
LEMMA PassesCompatible ==
    ASSUME server.surface \in Surfaces, RequireReferenceSource(Props) # None,
           RequireExactSlot(Slots, RequireReferenceSource(Props), idSlot)
    PROVE  Compatible(Props, Slots)
BY SourceChecked, SlotChecked DEF Compatible, SourceMatches

(* What remains of a prompt once its first n tokens are matched.           *)
LEMMA SuffixLength ==
    ASSUME NEW prompt \in Seq(Int), NEW n \in 0 .. Len(prompt) - 1
    PROVE  Suffix(prompt, n) \in Seq(Int) /\ Len(Suffix(prompt, n)) = Len(prompt) - n
<1>1. Suffix(prompt, n) = SubSeq(prompt, n + 1, Len(prompt))
  BY DEF Suffix
<1>2. SubSeq(prompt, n + 1, Len(prompt)) \in Seq(Int)
  OBVIOUS
<1>3. Len(SubSeq(prompt, n + 1, Len(prompt))) = Len(prompt) - n
  OBVIOUS
<1>4. QED
  BY <1>1, <1>2, <1>3

(* What the adapter makes of honest timings.                               *)
LEMMA HonestTimings ==
    ASSUME call.tokens \in Seq(Int), call.reused \in 0 .. Len(call.tokens) - 1,
           call.timings = [cache_n |-> call.reused,
                           prompt_n |-> Len(call.tokens) - call.reused],
           NEW seen, seen = NormalizeReuse(call.tokens, idSlot, call.timings),
           ~seen.refused
    PROVE  Len(seen.matched) = call.reused /\ seen.remaining # <<>>
<1> DEFINE prompt == call.tokens
           reused == call.reused
           payload == IF reused = 0 THEN None
                      ELSE [id_slot |-> idSlot, cache_n |-> reused]
           rest == Suffix(prompt, reused)
           result == FromBackendResult(Namespace, prompt, payload, rest)
<1>0. call.timings.cache_n = reused
  OBVIOUS
<1>1. seen \in {result, Refused}
  BY <1>0 DEF NormalizeReuse
<1>2. seen = result /\ ~result.refused
  BY <1>1 DEF Refused
<1>3. rest \in Seq(Int) /\ Len(rest) = Len(prompt) - reused
  BY SuffixLength
<1>4. /\ seen.remaining = rest
      /\ seen.matched = SubSeq(prompt, 1, Len(prompt) - Len(rest))
  <2> HIDE DEF payload, rest, prompt
  <2>1. QED
    BY <1>2 DEF FromBackendResult, Refused
<1>5. Len(prompt) - Len(rest) = reused
  BY <1>3
<1>6. Len(SubSeq(prompt, 1, reused)) = reused
  OBVIOUS
<1>7. rest # <<>>
  BY <1>3
<1>8. QED
  BY <1>2, <1>4, <1>5, <1>6, <1>7
-----------------------------------------------------------------------------
(* The fields of a lookup.                                                 *)

(* A lookup that ends keeps what it learnt.                                *)
LEMMA EndFields ==
    ASSUME DOMAIN call = CallFields, NEW pc, End(pc)
    PROVE  /\ DOMAIN call' = CallFields /\ call'.pc = pc
           /\ call'.tokens = call.tokens /\ call'.total = call.total
           /\ call'.propsEpoch = call.propsEpoch
           /\ call'.slotsEpoch = call.slotsEpoch /\ call'.sent = call.sent
           /\ call'.timings = call.timings /\ call'.reused = call.reused
BY Zenon DEF CallFields, End

(* What a new call records.                                                *)
LEMMA CallStarts ==
    ASSUME NEW kind, NEW namespace, NEW tokens, Call(kind, namespace, tokens)
    PROVE  /\ DOMAIN call' = CallFields
           /\ call'.pc = IF namespace = Namespace THEN "props" ELSE "refused"
           /\ call'.tokens = tokens /\ call'.propsEpoch = None
           /\ call'.slotsEpoch = None /\ call'.sent = None
BY DEF CallFields, Call, NoCall

(* What the read of /props adds to the record of the call.                 *)
LEMMA PropsFields ==
    ASSUME DOMAIN call = CallFields, ReadProps
    PROVE  LET total == RequireReferenceSource(Props)
           IN  /\ DOMAIN call' = CallFields
               /\ call'.pc = IF total = None THEN "refused" ELSE "slots"
               /\ call'.total = total /\ call'.propsEpoch = epoch
               /\ call'.tokens = call.tokens
               /\ call'.slotsEpoch = call.slotsEpoch /\ call'.sent = call.sent
<1> DEFINE total == RequireReferenceSource(Props)
           pc    == IF total = None THEN "refused" ELSE "slots"
<1>1. call' = [call EXCEPT !.pc = pc, !.total = total, !.propsEpoch = epoch]
  BY DEF ReadProps
<1> HIDE DEF pc, total
<1>2. QED
  BY <1>1, Zenon DEF CallFields, pc, total

(* What the read of /slots adds to it.                                     *)
LEMMA SlotsFields ==
    ASSUME DOMAIN call = CallFields, ReadSlots
    PROVE  /\ DOMAIN call' = CallFields
           /\ call'.pc = IF ~RequireExactSlot(Slots, call.total, idSlot) THEN "refused"
                         ELSE IF call.tokens = <<>> THEN "failed" ELSE "post"
           /\ call'.total = call.total /\ call'.propsEpoch = call.propsEpoch
           /\ call'.tokens = call.tokens
           /\ call'.slotsEpoch = epoch /\ call'.sent = call.sent
<1> DEFINE pc == IF ~RequireExactSlot(Slots, call.total, idSlot) THEN "refused"
                 ELSE IF call.tokens = <<>> THEN "failed" ELSE "post"
<1>1. call' = [call EXCEPT !.pc = pc, !.slotsEpoch = epoch]
  BY DEF ReadSlots
<1> HIDE DEF pc
<1>2. QED
  BY <1>1, Zenon DEF CallFields, pc

(* What the answer to the completion adds to it.                           *)
LEMMA CompleteFields ==
    ASSUME DOMAIN call = CallFields, Complete
    PROVE  \E reused \in Reusable(call.tokens) :
           \E timings \in Reports(call.tokens, reused) :
               /\ DOMAIN call' = CallFields /\ call'.pc = "answered"
               /\ call'.total = call.total /\ call'.propsEpoch = call.propsEpoch
               /\ call'.tokens = call.tokens /\ call'.slotsEpoch = call.slotsEpoch
               /\ call'.timings = timings /\ call'.reused = reused
               /\ call'.sent.epoch = epoch
               /\ call'.sent.slot = ServedSlot(idSlot)
               /\ call'.sent.audited = SourceMatches(Props)
<1> DEFINE sent == [epoch |-> epoch, slot |-> ServedSlot(idSlot),
                    audited |-> SourceMatches(Props)]
<1>0. PICK reused \in Reusable(call.tokens) :
          \E timings \in Reports(call.tokens, reused) :
              call' = [call EXCEPT !.pc = "answered", !.timings = timings,
                                   !.reused = reused, !.sent = sent]
  BY DEF Complete
<1>1. PICK timings \in Reports(call.tokens, reused) :
          call' = [call EXCEPT !.pc = "answered", !.timings = timings,
                               !.reused = reused, !.sent = sent]
  BY <1>0
<1>2. /\ sent.epoch = epoch /\ sent.slot = ServedSlot(idSlot)
      /\ sent.audited = SourceMatches(Props)
  BY Zenon
<1> HIDE DEF sent
<1>3. /\ DOMAIN call' = CallFields /\ call'.pc = "answered"
      /\ call'.total = call.total /\ call'.propsEpoch = call.propsEpoch
      /\ call'.tokens = call.tokens /\ call'.slotsEpoch = call.slotsEpoch
      /\ call'.timings = timings /\ call'.reused = reused /\ call'.sent = sent
  BY <1>1, Zenon DEF CallFields
<1>4. QED
  BY <1>2, <1>3

(* What the call returns, or refuses.                                      *)
LEMMA ReturnFields ==
    ASSUME DOMAIN call = CallFields, Return
    PROVE  LET seen == NormalizeReuse(call.tokens, idSlot, call.timings)
           IN  /\ DOMAIN call' = CallFields
               /\ call'.total = call.total /\ call'.propsEpoch = call.propsEpoch
               /\ call'.tokens = call.tokens /\ call'.slotsEpoch = call.slotsEpoch
               /\ call'.sent = call.sent /\ call'.reused = call.reused
               /\ \/ call'.pc = "failed"
                  \/ ~seen.refused /\ call'.pc = "observed" /\ call'.observation = seen
<1> DEFINE seen == NormalizeReuse(call.tokens, idSlot, call.timings)
<1>1. CASE End("failed")
  BY <1>1, EndFields
<1>2. CASE ~seen.refused /\ call' = [call EXCEPT !.pc = "observed", !.observation = seen]
  <2> HIDE DEF seen
  <2>1. /\ DOMAIN call' = CallFields /\ call'.pc = "observed"
        /\ call'.observation = seen
        /\ call'.total = call.total /\ call'.propsEpoch = call.propsEpoch
        /\ call'.tokens = call.tokens /\ call'.slotsEpoch = call.slotsEpoch
        /\ call'.sent = call.sent /\ call'.reused = call.reused
    BY <1>2, Zenon DEF CallFields
  <2>2. QED
    BY <1>2, <2>1 DEF seen
<1>3. QED
  BY <1>1, <1>2 DEF Return

(* The server that runs keeps its surface until it is replaced.            *)
LEMMA EvaluateFields ==
    ASSUME DOMAIN server = {"surface", "evaluated"}, NEW tokens,
           server' = [server EXCEPT !.evaluated = server.evaluated \cup {tokens}]
    PROVE  DOMAIN server' = DOMAIN server /\ server'.surface = server.surface
BY Zenon

-----------------------------------------------------------------------------
(* The invariant.                                                          *)

(* At the start no call runs and the server has evaluated nothing.         *)
LEMMA LookupInit == Init => LookupInv
<1> SUFFICES ASSUME Init PROVE LookupInv
  OBVIOUS
<1>1. /\ idSlot \in Nat /\ epoch = 0
      /\ DOMAIN server = {"surface", "evaluated"} /\ server.surface \in Surfaces
  <2>1. idSlot \in IdSlots /\ idSlot >= 0 /\ epoch = 0
    BY DEF Init, Constructs
  <2>2. IdSlots \subseteq Int
    BY ServerAssumption
  <2>3. PICK s \in Surfaces : server = [surface |-> s, evaluated |-> {}]
    BY DEF Init, Start
  <2>4. idSlot \in Nat
    BY <2>1, <2>2
  <2>5. QED
    BY <2>1, <2>3, <2>4
<1>2. /\ DOMAIN call = CallFields /\ call.pc = "idle" /\ call.propsEpoch = None
      /\ call.slotsEpoch = None /\ call.sent = None
  BY DEF Init, NoCall, CallFields
<1>3. DOMAIN doctor = DoctorFields /\ doctor.pc = "idle" /\ doctor.epoch = 0
  BY DEF Init, DoctorFields
<1>4. Shapes /\ Qualified /\ Examined
  BY <1>1, <1>2, <1>3 DEF Shapes, Qualified, Examined, Past
<1>5. Answered
  BY <1>2 DEF Answered, RequestsAreQualified, EvidenceServed
<1>6. QED
  BY <1>4, <1>5 DEF LookupInv

(* Whatever leaves the lookup and its server's surface alone, and starts   *)
(* no older epoch, keeps what the lookup knows.                            *)
LEMMA LookupKept ==
    ASSUME LookupInv, call' = call, idSlot' = idSlot,
           \/ epoch' = epoch /\ server'.surface = server.surface
           \/ epoch' = epoch + 1
    PROVE  Qualified' /\ Answered'
<1>1. epoch \in Nat /\ epoch' \in Nat /\ Past \subseteq Past'
  BY DEF LookupInv, Shapes, Past
<1>2. None \notin Int
  BY ServerAssumption
<1>3. Answered'
  BY DEF LookupInv, Answered, RequestsAreQualified, EvidenceServed
<1>4. CASE epoch' = epoch + 1
  <2>1. call.propsEpoch # epoch' /\ call.slotsEpoch # epoch'
    BY <1>1, <1>2, <1>4 DEF LookupInv, Qualified, Past
  <2>2. QED
    BY <1>1, <1>3, <2>1 DEF LookupInv, Qualified
<1>5. CASE epoch' = epoch /\ server'.surface = server.surface
  <2>1. Props' = Props /\ Slots' = Slots
    BY <1>5 DEF Props, Slots
  <2>2. RequireReferenceSource(Props)' = RequireReferenceSource(Props)
    BY <2>1 DEF RequireReferenceSource, SourceMatches, TotalSlots
  <2>3. \A total, id : RequireExactSlot(Slots, total, id)'
                            <=> RequireExactSlot(Slots, total, id)
    BY <2>1 DEF RequireExactSlot, ListedIds, ValidIds
  <2>4. QED
    BY <1>1, <1>3, <1>5, <2>2, <2>3 DEF LookupInv, Qualified
<1>6. QED
  BY <1>4, <1>5

(* What the doctor knows is kept by everything but its own steps and the   *)
(* replacement of the server, which makes it past.                         *)
LEMMA DoctorKept ==
    ASSUME LookupInv, doctor' = doctor,
           \/ epoch' = epoch /\ server'.surface = server.surface
           \/ epoch' = epoch + 1
    PROVE  Examined'
<1>1. epoch \in Nat /\ doctor.epoch \in 0 .. epoch
  BY DEF LookupInv, Shapes, Examined, Past
<1>2. CASE epoch' = epoch + 1
  BY <1>1, <1>2 DEF Examined, Past
<1>3. CASE epoch' = epoch /\ server'.surface = server.surface
  <2>1. Props' = Props /\ Slots' = Slots
    BY <1>3 DEF Props, Slots
  <2>2. Compatible(Props, Slots)' = Compatible(Props, Slots)
    BY <2>1 DEF Compatible, SourceMatches, TotalSlots, ValidIds
  <2>3. QED
    BY <1>3, <2>1, <2>2 DEF LookupInv, Examined, Past
<1>4. QED
  BY <1>2, <1>3

(* A new call has read nothing it could be wrong about.                    *)
LEMMA CallNext ==
    ASSUME LookupInv, NEW kind, NEW namespace, NEW tokens \in Prompts,
           Call(kind, namespace, tokens)
    PROVE  LookupInv'
<1>1. /\ DOMAIN call' = CallFields
      /\ call'.pc = IF namespace = Namespace THEN "props" ELSE "refused"
      /\ call'.tokens = tokens /\ call'.propsEpoch = None
      /\ call'.slotsEpoch = None /\ call'.sent = None
  BY CallStarts
<1>2. UNCHANGED <<idSlot, server, epoch, doctor>>
  BY DEF Call
<1>3. Shapes' /\ Examined'
  BY <1>1, <1>2, DoctorKept DEF LookupInv, Shapes
<1>4. None \notin Int /\ epoch \in Nat
  BY ServerAssumption DEF LookupInv, Shapes
<1>5. Qualified'
  BY <1>1, <1>2, <1>4 DEF Qualified
<1>6. Answered'
  BY <1>1, <1>2 DEF Answered, RequestsAreQualified, EvidenceServed
<1>7. QED
  BY <1>3, <1>5, <1>6 DEF LookupInv

(* What /props says is recorded with the epoch of the server it is true    *)
(* of.                                                                     *)
LEMMA PropsNext ==
    ASSUME LookupInv, ReadProps
    PROVE  LookupInv'
<1> DEFINE total == RequireReferenceSource(Props)
<1>1. /\ DOMAIN call' = CallFields
      /\ call'.pc = IF total = None THEN "refused" ELSE "slots"
      /\ call'.total = total /\ call'.propsEpoch = epoch
      /\ call'.tokens = call.tokens
      /\ call'.slotsEpoch = call.slotsEpoch /\ call'.sent = call.sent
  BY PropsFields DEF LookupInv, Shapes
<1>2. UNCHANGED <<idSlot, server, epoch, doctor>> /\ call.pc = "props"
  BY DEF ReadProps
<1>3. Shapes' /\ Examined'
  BY <1>1, <1>2, DoctorKept DEF LookupInv, Shapes
<1>4. None \notin Int /\ epoch \in Nat
  BY ServerAssumption DEF LookupInv, Shapes
<1>5. Past' = Past /\ total' = total /\ epoch \in Past
  BY <1>2, <1>4 DEF Past, Props
<1>6. Qualified'
  <2> HIDE DEF total
  <2>1. call.slotsEpoch \in Past \cup {None}
    BY DEF LookupInv, Qualified
  <2>2. QED
    BY <1>1, <1>2, <1>5, <2>1 DEF Qualified, total
<1>7. Answered'
  BY <1>1, <1>2 DEF LookupInv, Answered, RequestsAreQualified, EvidenceServed
<1>8. QED
  BY <1>3, <1>6, <1>7 DEF LookupInv

(* So is what /slots says, and only an exact slot of an audited server     *)
(* lets the call go on.                                                    *)
LEMMA SlotsNext ==
    ASSUME LookupInv, ReadSlots
    PROVE  LookupInv'
<1> DEFINE exact == RequireExactSlot(Slots, call.total, idSlot)
<1>1. /\ DOMAIN call' = CallFields
      /\ call'.pc = IF ~exact THEN "refused"
                    ELSE IF call.tokens = <<>> THEN "failed" ELSE "post"
      /\ call'.total = call.total /\ call'.propsEpoch = call.propsEpoch
      /\ call'.tokens = call.tokens
      /\ call'.slotsEpoch = epoch /\ call'.sent = call.sent
  BY SlotsFields DEF LookupInv, Shapes
<1>2. UNCHANGED <<idSlot, server, epoch, doctor>> /\ call.pc = "slots"
  BY DEF ReadSlots
<1>3. Shapes' /\ Examined'
  BY <1>1, <1>2, DoctorKept DEF LookupInv, Shapes
<1>4. None \notin Int /\ epoch \in Nat
  BY ServerAssumption DEF LookupInv, Shapes
<1>5. /\ Past' = Past /\ epoch \in Past
      /\ RequireReferenceSource(Props)' = RequireReferenceSource(Props)
      /\ \A total, id : RequireExactSlot(Slots, total, id)'
                            <=> RequireExactSlot(Slots, total, id)
  BY <1>2, <1>4 DEF Past, Props, Slots, RequireReferenceSource, SourceMatches,
                    TotalSlots, RequireExactSlot, ListedIds, ValidIds
<1>6. /\ call.propsEpoch \in Past /\ call.total # None
      /\ call.propsEpoch = epoch => call.total = RequireReferenceSource(Props)
  BY <1>2 DEF LookupInv, Qualified
<1>7. Qualified'
  <2>1. call.propsEpoch <= epoch
    BY <1>4, <1>6 DEF Past
  <2>2. QED
    BY <1>1, <1>2, <1>5, <1>6, <2>1 DEF Qualified
<1>8. Answered'
  BY <1>1, <1>2 DEF LookupInv, Answered, RequestsAreQualified, EvidenceServed
<1>9. QED
  BY <1>3, <1>7, <1>8 DEF LookupInv

(* A completion is sent to the server that runs.                           *)
LEMMA CompleteNext ==
    ASSUME LookupInv, Complete
    PROVE  LookupInv'
<1>0. PICK reused \in Reusable(call.tokens) :
      \E timings \in Reports(call.tokens, reused) :
          /\ DOMAIN call' = CallFields /\ call'.pc = "answered"
          /\ call'.total = call.total /\ call'.propsEpoch = call.propsEpoch
          /\ call'.tokens = call.tokens /\ call'.slotsEpoch = call.slotsEpoch
          /\ call'.timings = timings /\ call'.reused = reused
          /\ call'.sent.epoch = epoch
          /\ call'.sent.slot = ServedSlot(idSlot)
          /\ call'.sent.audited = SourceMatches(Props)
  BY CompleteFields DEF LookupInv, Shapes
<1>1. PICK timings \in Reports(call.tokens, reused) :
          /\ DOMAIN call' = CallFields /\ call'.pc = "answered"
          /\ call'.total = call.total /\ call'.propsEpoch = call.propsEpoch
          /\ call'.tokens = call.tokens /\ call'.slotsEpoch = call.slotsEpoch
          /\ call'.timings = timings /\ call'.reused = reused
          /\ call'.sent.epoch = epoch
          /\ call'.sent.slot = ServedSlot(idSlot)
          /\ call'.sent.audited = SourceMatches(Props)
  BY <1>0
<1>2. /\ UNCHANGED <<idSlot, epoch, doctor>> /\ call.pc = "post"
      /\ server' = [server EXCEPT !.evaluated = server.evaluated \cup {call.tokens}]
  BY DEF Complete
<1>3. DOMAIN server' = DOMAIN server /\ server'.surface = server.surface
  BY <1>2, EvaluateFields DEF LookupInv, Shapes
<1>4. Shapes' /\ Examined'
  BY <1>1, <1>2, <1>3, DoctorKept DEF LookupInv, Shapes
<1>5. Past' = Past /\ Props' = Props /\ Slots' = Slots
  BY <1>2, <1>3 DEF Past, Props, Slots
<1>6. /\ RequireReferenceSource(Props)' = RequireReferenceSource(Props)
      /\ \A total, id : RequireExactSlot(Slots, total, id)'
                            <=> RequireExactSlot(Slots, total, id)
  BY <1>5 DEF RequireReferenceSource, SourceMatches, TotalSlots, RequireExactSlot,
              ListedIds, ValidIds
<1>7. Qualified'
  BY <1>1, <1>2, <1>5, <1>6 DEF LookupInv, Qualified
<1>8. call.propsEpoch = epoch => SourceMatches(Props)
  BY <1>2, SourceChecked DEF LookupInv, Qualified
<1>9. call.slotsEpoch = epoch => ServedSlot(idSlot) = idSlot
  BY <1>2, SlotChecked DEF LookupInv, Qualified, Shapes
<1>10. RequestsAreQualified'
  BY <1>1, <1>2, <1>8, <1>9 DEF RequestsAreQualified
<1>11. call.tokens \in Prompts /\ call.tokens # <<>>
  BY <1>2 DEF LookupInv, Answered
<1>12. reused \in 0 .. Len(call.tokens) - 1
  BY DEF Reusable
<1>13. call.propsEpoch = epoch =>
          timings = [cache_n |-> reused, prompt_n |-> Len(call.tokens) - reused]
  BY <1>8 DEF Reports
<1>14. Answered'
  BY <1>1, <1>2, <1>10, <1>11, <1>12, <1>13 DEF Answered, EvidenceServed
<1>15. QED
  BY <1>4, <1>7, <1>14 DEF LookupInv

(* A match is reported only for what the answer says was reused.           *)
LEMMA ReturnNext ==
    ASSUME LookupInv, Return
    PROVE  LookupInv'
<1> DEFINE seen == NormalizeReuse(call.tokens, idSlot, call.timings)
<1>1. /\ DOMAIN call' = CallFields
      /\ call'.total = call.total /\ call'.propsEpoch = call.propsEpoch
      /\ call'.tokens = call.tokens /\ call'.slotsEpoch = call.slotsEpoch
      /\ call'.sent = call.sent /\ call'.reused = call.reused
      /\ \/ call'.pc = "failed"
         \/ ~seen.refused /\ call'.pc = "observed" /\ call'.observation = seen
  BY ReturnFields DEF LookupInv, Shapes
<1>2. UNCHANGED <<idSlot, server, epoch, doctor>> /\ call.pc = "answered"
  BY DEF Return
<1>3. Shapes' /\ Examined'
  BY <1>1, <1>2, DoctorKept DEF LookupInv, Shapes
<1>4. /\ Past' = Past
      /\ RequireReferenceSource(Props)' = RequireReferenceSource(Props)
      /\ \A total, id : RequireExactSlot(Slots, total, id)'
                            <=> RequireExactSlot(Slots, total, id)
  BY <1>2 DEF Past, Props, Slots, RequireReferenceSource, SourceMatches,
              TotalSlots, RequireExactSlot, ListedIds, ValidIds
<1>5. Qualified'
  <2> HIDE DEF seen
  <2>1. call'.pc \in {"failed", "observed"}
    BY <1>1
  <2>2. QED
    BY <1>1, <1>2, <1>4, <2>1 DEF LookupInv, Qualified
<1>6. RequestsAreQualified'
  BY <1>1, <1>2 DEF LookupInv, Answered, RequestsAreQualified
<1>7. EvidenceServed'
  <2>1. SUFFICES ASSUME call'.pc = "observed", call.sent.epoch = call.propsEpoch
                 PROVE  Len(seen.matched) = call.reused /\ seen.remaining # <<>>
    BY <1>1 DEF EvidenceServed
  <2>2. /\ call.tokens \in Seq(Int)
        /\ call.reused \in 0 .. Len(call.tokens) - 1
        /\ call.timings = [cache_n |-> call.reused,
                           prompt_n |-> Len(call.tokens) - call.reused]
    BY <1>2, <2>1, ServerAssumption DEF LookupInv, Answered
  <2>3. ~seen.refused
    <3> HIDE DEF seen
    <3>1. QED
      BY <1>1, <2>1
  <2>4. seen = NormalizeReuse(call.tokens, idSlot, call.timings)
    OBVIOUS
  <2> HIDE DEF seen
  <2>5. QED
    BY <2>2, <2>3, <2>4, HonestTimings
<1>8. Answered'
  <2> HIDE DEF seen
  <2>1. call'.pc \in {"failed", "observed"}
    BY <1>1
  <2>2. QED
    BY <1>6, <1>7, <2>1 DEF Answered
<1>9. QED
  BY <1>3, <1>5, <1>8 DEF LookupInv

(* A transport error ends the lookup.                                      *)
LEMMA FailureNext ==
    ASSUME LookupInv, TransportFails
    PROVE  LookupInv'
<1>1. /\ DOMAIN call' = CallFields /\ call'.pc = "failed"
      /\ call'.tokens = call.tokens /\ call'.total = call.total
      /\ call'.propsEpoch = call.propsEpoch
      /\ call'.slotsEpoch = call.slotsEpoch /\ call'.sent = call.sent
  BY EndFields DEF TransportFails, LookupInv, Shapes
<1>2. UNCHANGED <<idSlot, server, epoch, doctor>>
  BY DEF TransportFails
<1>3. Shapes' /\ Examined'
  BY <1>1, <1>2, DoctorKept DEF LookupInv, Shapes
<1>4. Past' = Past
  BY <1>2 DEF Past
<1>5. Qualified'
  BY <1>1, <1>4 DEF LookupInv, Qualified
<1>6. Answered'
  BY <1>1, <1>2 DEF LookupInv, Answered, RequestsAreQualified, EvidenceServed
<1>7. QED
  BY <1>3, <1>5, <1>6 DEF LookupInv

(* The doctor records the properties of the server it reads them from.     *)
LEMMA ProbeNext ==
    ASSUME LookupInv, Probe
    PROVE  LookupInv'
<1>1. /\ doctor' = [doctor EXCEPT !.pc = "slots", !.props = Props, !.epoch = epoch]
      /\ UNCHANGED <<idSlot, server, epoch, call>>
  BY DEF Probe
<1>2. /\ DOMAIN doctor' = DoctorFields /\ doctor'.pc = "slots"
      /\ doctor'.props = Props /\ doctor'.epoch = epoch
  <2>1. DOMAIN doctor = DoctorFields
    BY DEF LookupInv, Shapes
  <2>2. QED
    BY <1>1, <2>1, Zenon DEF DoctorFields
<1>3. Qualified' /\ Answered'
  BY <1>1, LookupKept
<1>4. Shapes' /\ Props' = Props /\ epoch \in Past'
  BY <1>1, <1>2 DEF LookupInv, Shapes, Props, Past
<1>5. Examined'
  BY <1>2, <1>4 DEF Examined
<1>6. QED
  BY <1>3, <1>4, <1>5 DEF LookupInv

(* Its verdict is about those properties and the slots of the server that  *)
(* answers now.                                                            *)
LEMMA DiagnoseNext ==
    ASSUME LookupInv, NEW answered \in BOOLEAN, Diagnose(answered)
    PROVE  LookupInv'
<1> DEFINE pc == IF answered THEN "done" ELSE "unreachable"
           verdict == answered /\ Compatible(doctor.props, Slots)
<1>1. /\ doctor' = [doctor EXCEPT !.pc = pc, !.compatible = verdict]
      /\ doctor.pc = "slots"
      /\ UNCHANGED <<idSlot, server, epoch, call>>
  BY DEF Diagnose
<1>2. /\ DOMAIN doctor' = DoctorFields /\ doctor'.pc = pc
      /\ doctor'.compatible = verdict
      /\ doctor'.props = doctor.props /\ doctor'.epoch = doctor.epoch
  <2>1. DOMAIN doctor = DoctorFields
    BY DEF LookupInv, Shapes
  <2> HIDE DEF pc, verdict
  <2>2. QED
    BY <1>1, <2>1, Zenon DEF DoctorFields
<1>3. Qualified' /\ Answered'
  BY <1>1, LookupKept
<1>4. /\ Shapes' /\ Past' = Past /\ Props' = Props
      /\ Compatible(Props, Slots)' = Compatible(Props, Slots)
  BY <1>1, <1>2 DEF LookupInv, Shapes, Props, Slots, Past, Compatible,
                    SourceMatches, TotalSlots, ValidIds
<1>5. doctor.epoch \in Past /\ (doctor.epoch = epoch => doctor.props = Props)
  BY <1>1 DEF LookupInv, Examined
<1>6. ASSUME pc = "done", doctor.epoch = epoch
      PROVE  verdict = Compatible(Props, Slots)
  <2>1. answered /\ doctor.props = Props
    BY <1>5, <1>6
  <2>2. Compatible(Props, Slots) \in BOOLEAN
    BY DEF Compatible
  <2>3. Compatible(doctor.props, Slots) = Compatible(Props, Slots)
    BY <2>1
  <2>4. QED
    BY <2>1, <2>2, <2>3
<1>7. pc \in {"done", "unreachable"}
  OBVIOUS
<1>8. Examined'
  <2> HIDE DEF pc, verdict
  <2>1. QED
    BY <1>1, <1>2, <1>4, <1>5, <1>6, <1>7 DEF Examined
<1>9. QED
  BY <1>3, <1>4, <1>8 DEF LookupInv

(* A server that takes over makes every recorded epoch an older one.       *)
LEMMA ReplaceNext ==
    ASSUME LookupInv, NEW surface \in Surfaces, Replace(surface)
    PROVE  LookupInv'
<1>1. /\ server' = [surface |-> surface, evaluated |-> {}]
      /\ epoch' = epoch + 1 /\ UNCHANGED <<idSlot, call, doctor>>
  BY DEF Replace, Start
<1>2. Shapes'
  BY <1>1 DEF LookupInv, Shapes
<1>3. QED
  BY <1>1, <1>2, LookupKept, DoctorKept DEF LookupInv

(* Completions of other clients only add to what the server may reuse.     *)
LEMMA OtherNext ==
    ASSUME LookupInv, NEW prompt, OtherCompletion(prompt)
    PROVE  LookupInv'
<1>1. /\ server' = [server EXCEPT !.evaluated = server.evaluated \cup {prompt}]
      /\ UNCHANGED <<idSlot, epoch, call, doctor>>
  BY DEF OtherCompletion
<1>2. DOMAIN server' = DOMAIN server /\ server'.surface = server.surface
  BY <1>1, EvaluateFields DEF LookupInv, Shapes
<1>3. Shapes'
  BY <1>1, <1>2 DEF LookupInv, Shapes
<1>4. QED
  BY <1>1, <1>2, <1>3, LookupKept, DoctorKept DEF LookupInv

(* Every step preserves the invariant.                                     *)
LEMMA LookupNext == LookupInv /\ [Next]_vars => LookupInv'
<1> SUFFICES ASSUME LookupInv, [Next]_vars PROVE LookupInv'
  OBVIOUS
<1>1. CASE UNCHANGED vars
  <2>1. UNCHANGED <<idSlot, server, epoch, call, doctor>>
    BY <1>1 DEF vars
  <2>2. Shapes'
    BY <2>1 DEF LookupInv, Shapes
  <2>3. QED
    BY <2>1, <2>2, LookupKept, DoctorKept DEF LookupInv
<1>2. CASE Next
  BY <1>2, CallNext, PropsNext, SlotsNext, CompleteNext, ReturnNext, FailureNext,
     ProbeNext, DiagnoseNext, OtherNext, ReplaceNext DEF Next
<1>3. QED
  BY <1>1, <1>2

(* What a call and the doctor have recorded is true of the server they     *)
(* read it from, in every reachable state.                                 *)
THEOREM LookupInvariant == Spec => []LookupInv
BY LookupInit, LookupNext, PTL DEF Spec

-----------------------------------------------------------------------------
(* What follows for the lookups.                                           *)

(* Every completion runs on audited source and in the selected slot, but   *)
(* for one that a server takes which came in after the check.              *)
THEOREM QualifiedRequests == Spec => []RequestsAreQualified
<1>1. LookupInv => RequestsAreQualified
  BY DEF LookupInv, Answered
<1>2. QED
  BY <1>1, LookupInvariant, PTL

(* A match the adapter reports was reused, and leaves a token to evaluate. *)
THEOREM ServedEvidence == Spec => []EvidenceServed
<1>1. LookupInv => EvidenceServed
  BY DEF LookupInv, Answered
<1>2. QED
  BY <1>1, LookupInvariant, PTL

(* The doctor and the adapter judge the same server alike, but for one     *)
(* that lists an id twice.                                                 *)
THEOREM DoctorAgreement == Spec => []DoctorAgrees
<1>1. LookupInv => DoctorAgrees
  <2>1. SUFFICES ASSUME LookupInv, doctor.pc = "done", doctor.epoch = epoch,
                        call.propsEpoch = epoch
                 PROVE  /\ doctor.compatible /\ call.pc = "refused" =>
                              idSlot \notin ListedIds(Slots) \/ ~IsInjective(Slots)
                        /\ call.pc \in {"post", "answered", "observed"} =>
                              doctor.compatible
    BY DEF DoctorAgrees, SameServer
  <2>2. server.surface \in Surfaces /\ epoch \in Nat
    BY <2>1 DEF LookupInv, Shapes
  <2>3. doctor.compatible = Compatible(Props, Slots)
    BY <2>1 DEF LookupInv, Examined
  <2>4. ASSUME doctor.compatible, call.pc = "refused"
        PROVE  idSlot \notin ListedIds(Slots) \/ ~IsInjective(Slots)
    BY <2>1, <2>2, <2>3, <2>4, CompatiblePasses DEF LookupInv, Qualified
  <2>5. ASSUME call.pc \in {"post", "answered", "observed"} PROVE doctor.compatible
    <3>1. call.slotsEpoch = epoch
      BY <2>1, <2>2, <2>5 DEF LookupInv, Qualified, Past
    <3>2. /\ call.total # None /\ call.total = RequireReferenceSource(Props)
          /\ RequireExactSlot(Slots, call.total, idSlot)
      BY <2>1, <2>5, <3>1 DEF LookupInv, Qualified
    <3>3. QED
      BY <2>2, <2>3, <3>2, PassesCompatible
  <2>6. QED
    BY <2>4, <2>5
<1>2. QED
  BY <1>1, LookupInvariant, PTL

-----------------------------------------------------------------------------
(* What the adapters declare.                                              *)

(* A generation-safe managed backend is a managed one, and a managed one   *)
(* observes: declaring a capability more never lowers the level.           *)
LEMMA LevelsAreNested ==
    ASSUME NEW few, NEW many, few \subseteq many
    PROVE  /\ IntegrationLevel(few) = "observe" =>
                 IntegrationLevel(many) \in {"observe", "managed", "generation-safe-managed"}
           /\ IntegrationLevel(few) = "managed" =>
                 IntegrationLevel(many) \in {"managed", "generation-safe-managed"}
           /\ IntegrationLevel(few) = "generation-safe-managed" =>
                 IntegrationLevel(many) = "generation-safe-managed"
BY DEF IntegrationLevel

(* Every adapter's declaration is one the descriptor accepts. Only MLX     *)
(* reaches a level: without namespace isolation the llama.cpp adapters     *)
(* stay partial, whatever else they declare.                               *)
THEOREM AdaptersDeclare ==
    /\ \A descriptor \in {MLXDescriptor, LlamaCppDescriptor,
                           ManagedStorageDescriptor, ManagedDescriptor} :
          descriptor \in Descriptors /\ Declarable(descriptor)
    /\ IntegrationLevel(MLXDescriptor.capabilities) = "generation-safe-managed"
    /\ \A descriptor \in {LlamaCppDescriptor, ManagedStorageDescriptor, ManagedDescriptor} :
          IntegrationLevel(descriptor.capabilities) = "partial"
<1>1. MLXDescriptor \in Descriptors /\ Declarable(MLXDescriptor)
  BY NoneAssumption
     DEF Descriptors, Declarable, Capabilities, ObservationModes, MLXDescriptor, DependsOn
<1>2. LlamaCppDescriptor \in Descriptors /\ Declarable(LlamaCppDescriptor)
  BY NoneAssumption
     DEF Descriptors, Declarable, Capabilities, ObservationModes, LlamaCppDescriptor,
         DependsOn
<1>3. ManagedStorageDescriptor \in Descriptors /\ Declarable(ManagedStorageDescriptor)
  BY DEF Descriptors, Declarable, Capabilities, ManagedStorageDescriptor, DependsOn
<1>4. ManagedDescriptor \in Descriptors /\ Declarable(ManagedDescriptor)
  BY NoneAssumption
     DEF Descriptors, Declarable, Capabilities, ObservationModes, ManagedDescriptor,
         DependsOn
<1>5. IntegrationLevel(MLXDescriptor.capabilities) = "generation-safe-managed"
  BY DEF IntegrationLevel, Managing, Observing, Capabilities, MLXDescriptor
<1>6. \A descriptor \in {LlamaCppDescriptor, ManagedStorageDescriptor, ManagedDescriptor} :
         IntegrationLevel(descriptor.capabilities) = "partial"
  BY DEF IntegrationLevel, Managing, Observing, LlamaCppDescriptor,
         ManagedStorageDescriptor, ManagedDescriptor
<1>7. QED
  BY <1>1, <1>2, <1>3, <1>4, <1>5, <1>6
=============================================================================
