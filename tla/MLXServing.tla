------------------------------ MODULE MLXServing ------------------------------
(***************************************************************************)
(* The MLX facade (src/statebraid/adapters/mlx.py) under the batch path of *)
(* the patched MLX-LM server: interleaved requests that fetch a cache,     *)
(* make it generation safe, save caches at segment ends and at their end.  *)
(* One thread takes all these steps; each storage transaction is atomic    *)
(* here and taken apart in CacheCoordinator.tla.                           *)
(***************************************************************************)
EXTENDS PolicyOps, SequencesExt

CONSTANTS
    Requests,  \* the requests clients send
    Labels,    \* trust-domain labels they carry, None for no label
    Prompts,   \* [tokens, ends, types]: a prompt and its segments
    Generated  \* the tokens that may be generated

INSTANCE BackendContract

VARIABLES
    trimmable,  \* can the caches of the loaded model be trimmed?
    policy,     \* the WorkingSetPolicy of the facade
    rows,       \* the storage: a function from the stored keys to rows
    requests,   \* what the server knows of each request
    disturbed   \* history: did requests overlap, or ask for less than is held?

vars == <<trimmable, policy, rows, requests, disturbed>>

Waiting == [pc |-> "waiting"]

Init ==
    /\ trimmable \in BOOLEAN
    /\ policy = EmptyPolicy
    /\ rows = [k \in {} |-> None]
    /\ requests = [r \in Requests |-> Waiting]
    /\ disturbed = FALSE

Running == {r \in Requests : requests[r].pc = "running"}

-----------------------------------------------------------------------------
(* The storage and the facade. A payload is what its state was computed    *)
(* for: a trust domain and the tokens evaluated.                           *)

KeyOf(namespace, tokens) == [namespace |-> namespace, tokens |-> tokens]

NBytes(payload) == Len(payload.tokens)

\* Mutant: the transaction does not remove the victims from the storage.
StoredBesideVictims(evictions, key, row) ==
    [k \in DOMAIN rows \cup {key} |-> IF k = key THEN row ELSE rows[k]]

\* remove for each victim and for the key itself, then insert.
StoredAfter(evictions, key, row) ==
    [k \in (DOMAIN rows \ DOMAIN evictions) \cup {key} |->
        IF k = key THEN row ELSE rows[k]]

\* A planned admission is committed, a refused one leaves what planning left.
Admit(plan, planned, payload) ==
    IF plan.accepted
    THEN /\ policy' = Commit(planned, plan)
         /\ rows' = StoredAfter(plan.evictions, plan.key,
                        [payload |-> payload, role |-> plan.role,
                         nbytes |-> NBytes(payload)])
    ELSE policy' = planned /\ UNCHANGED rows

InsertCache(key, payload, role) ==
    Admit(PlanAdmission(policy, key, role, NBytes(payload), None), policy, payload)

InsertStableCandidate(key, payload) ==
    LET result == PlanStableCandidate(policy, key, NBytes(payload))
    IN  Admit(result.plan, result.policy, payload)

\* Mutant: the predecessor is not passed on.
InsertSuccessorBeside(key, payload, predecessor) ==
    Admit(PlanAdmission(policy, key, "active", NBytes(payload), None), policy, payload)

InsertActiveSuccessor(key, payload, predecessor) ==
    Admit(PlanAdmission(policy, key, "active", NBytes(payload), predecessor),
          policy, payload)

\* fetch_nearest_cache of the storage: a copy of the exact entry, else of a
\* longer one trimmed to what it shares with the tokens, else of the longest
\* stored prefix.
Nearest(namespace, tokens) ==
    LET stored   == {k \in DOMAIN rows : k.namespace = namespace}
        shared(k) == Len(LongestCommonPrefix({k.tokens, tokens}))
        shorter  == {k \in stored : IsStrictPrefix(k.tokens, tokens)}
        deepest  == Max({0} \cup {Len(k.tokens) : k \in shorter})
        longer   == {k \in stored : trimmable /\ Len(k.tokens) > shared(k)
                                              /\ shared(k) > deepest}
        served(k, n) ==
            [cache |-> [rows[k].payload EXCEPT !.tokens = SubSeq(@, 1, n)],
             rest |-> Suffix(tokens, n)]
    IN  IF \E k \in stored : k.tokens = tokens
        THEN served(KeyOf(namespace, tokens), Len(tokens))
        ELSE IF longer # {}
        THEN LET k == CHOOSE k \in longer : \A j \in longer : shared(j) <= shared(k)
             IN  served(k, Min({Len(tokens) - 1, shared(k)}))
        ELSE IF shorter # {}
        THEN served(KeyOf(namespace, SubSeq(tokens, 1, deepest)), deepest)
        ELSE [cache |-> None, rest |-> tokens]

\* The facade's fetch_nearest_cache credits the key of the matched prefix.
Credit(p, namespace, tokens, found) ==
    LET seen == FromBackendResult(namespace, tokens, found.cache, found.rest)
    IN  IF Hit(seen) THEN AddHit(p, KeyOf(namespace, seen.matched)) ELSE p

-----------------------------------------------------------------------------
(* A request.                                                              *)

Domain(label) == IF label = None THEN DefaultDomain ELSE label.label

Tokens == Generated \cup UNION {Range(prompt.tokens) : prompt \in Prompts}

Payloads == [domain : {Domain(label) : label \in Labels}, tokens : Seq(Tokens)]

\* Chat prompts: at least two tokens in segments that end one after the other;
\* a prompt that does not end with a user's turn is one active segment.
ASSUME PromptsAssumption ==
    \A prompt \in Prompts :
        LET tokens == prompt.tokens
            ends   == prompt.ends
        IN  /\ tokens \in Seq(Range(tokens)) /\ Len(tokens) >= 2
            /\ ends \in Seq(1 .. Len(tokens)) /\ ends # <<>>
            /\ ends[Len(ends)] = Len(tokens)
            /\ \A i, j \in DOMAIN ends : i < j => ends[i] < ends[j]
            /\ prompt.types \in [DOMAIN ends -> Roles \ {"stable"}]
            /\ \A i \in DOMAIN ends : prompt.types[i] = "active" => Len(ends) = 1

\* Keys holds the keys of what is saved; None is neither a label nor a payload.
ASSUME InputsAssumption ==
    /\ \A label \in Labels, prompt \in Prompts :
          label = None \/ ValidDomain(label) =>
              LET key(tokens) ==
                      KeyOf(CacheNamespace("model", Domain(label)), tokens)
              IN  /\ \A n \in 1 .. Len(prompt.tokens) :
                        key(SubSeq(prompt.tokens, 1, n)) \in Keys
                  /\ \A token \in Generated : key(Append(prompt.tokens, token)) \in Keys
    /\ None \notin Payloads
    /\ "assistant" \in Roles

\* An invalid label or a request off the batch path gets an error.
Refuse(r, label, batchable) ==
    /\ requests[r] = Waiting
    /\ ~batchable \/ (label # None /\ ~ValidDomain(label))
    /\ requests' = [requests EXCEPT ![r] = [pc |-> "refused"]]
    /\ UNCHANGED <<trimmable, policy, rows, disturbed>>

\* Fetch, make generation safe (which may fetch again), join the batch.
Begin(r, label, prompt) ==
    LET namespace == CacheNamespace("model", Domain(label))
        tokens  == prompt.tokens
        found   == Nearest(namespace, tokens)
        front   == SubSeq(tokens, 1, Len(tokens) - 1)
        shorter == Nearest(namespace, front)
        safe    == EnsureGenerationSafe(found.cache, found.rest, tokens,
                                        trimmable, shorter)
        again   == found.cache # None /\ found.rest = <<>> /\ ~trimmable
        fetched == Credit(policy, namespace, tokens, found)
        cached  == Len(tokens) - Len(safe.rest)
    IN  /\ requests[r] = Waiting
        /\ label # None => ValidDomain(label)
        /\ policy' = IF again THEN Credit(fetched, namespace, front, shorter)
                     ELSE fetched
        /\ requests' = [requests EXCEPT ![r] =
               [pc |-> "running", domain |-> Domain(label), prompt |-> prompt,
                payload |->
                    IF safe.cache = None
                    THEN [domain |-> Domain(label), tokens |-> <<>>]
                    ELSE IF safe.trimmed
                    THEN [safe.cache EXCEPT !.tokens = SubSeq(@, 1, Len(@) - 1)]
                    ELSE safe.cache,
                rest   |-> safe.rest,
                cached |-> cached,
                left   |-> {i \in DOMAIN prompt.ends : prompt.ends[i] > cached},
                saved  |-> FALSE]]
        /\ disturbed' = (\/ disturbed
                         \/ Running # {}
                         \/ \E k \in Resident(policy) :
                               /\ k.namespace = namespace
                               /\ IsStrictPrefix(front, k.tokens))
        /\ UNCHANGED <<trimmable, rows>>

\* What the request has evaluated when its first n tokens are in.
Evaluated(request, n) ==
    [request.payload EXCEPT !.tokens =
        @ \o SubSeq(request.prompt.tokens, request.cached + 1, n)]

\* The cache of a model that is not trimmable is saved as one stable prefix
\* of a cold prompt and one active tail, one token short of the prompt.
SaveHybrid(request, key, payload, type, last) ==
    LET cold == request.cached = 0 /\ ~request.saved
        tail == last /\ HybridCheckpoint(key.tokens, request.prompt.tokens)
        predecessor == KeyOf(key.namespace,
                             SubSeq(request.prompt.tokens, 1, request.cached))
    IN  IF cold /\ type # "system" THEN InsertCache(key, payload, type)
        ELSE IF cold
        THEN \* a stable candidate that is refused may yet be the tail
             IF PlanStableCandidate(policy, key, NBytes(payload)).plan.accepted
                \/ ~tail
             THEN InsertStableCandidate(key, payload)
             ELSE LET tried == PlanStableCandidate(policy, key, NBytes(payload)).policy
                  IN  Admit(PlanAdmission(tried, key, "active", NBytes(payload),
                                          predecessor), tried, payload)
        ELSE IF tail THEN InsertActiveSuccessor(key, payload, predecessor)
        ELSE UNCHANGED <<policy, rows>>

\* A segment ends; the last one short of the token the generation needs.
EndSegment(r) ==
    LET request == requests[r]
        i    == Min(request.left)
        last == request.left = {i}
        n    == IF last THEN Len(request.prompt.tokens) - 1
                ELSE request.prompt.ends[i]
        key  == KeyOf(CacheNamespace("model", request.domain),
                      SubSeq(request.prompt.tokens, 1, n))
        payload == Evaluated(request, n)
    IN  /\ r \in Running
        /\ request.left # {}
        /\ IF trimmable THEN InsertCache(key, payload, request.prompt.types[i])
           ELSE SaveHybrid(request, key, payload, request.prompt.types[i], last)
        /\ requests' = [requests EXCEPT ![r].left = @ \ {i},
                                        ![r].saved = ~trimmable \/ @]
        /\ UNCHANGED <<trimmable, disturbed>>

Finish(r, token) ==
    LET request == requests[r]
        tokens  == Append(request.prompt.tokens, token)
        payload == [Evaluated(request, Len(request.prompt.tokens))
                        EXCEPT !.tokens = Append(@, token)]
    IN  /\ r \in Running
        /\ request.left = {}
        /\ IF trimmable
           THEN InsertCache(KeyOf(CacheNamespace("model", request.domain), tokens),
                            payload, "assistant")
           ELSE UNCHANGED <<policy, rows>>
        /\ requests' = [requests EXCEPT ![r] = [pc |-> "done"]]
        /\ UNCHANGED <<trimmable, disturbed>>

\* The client goes away: the request leaves the batch and saves no more.
Stop(r) ==
    /\ r \in Running
    /\ requests' = [requests EXCEPT ![r] = [pc |-> "done"]]
    /\ UNCHANGED <<trimmable, policy, rows, disturbed>>

Next ==
    \E r \in Requests :
        \/ \E label \in Labels, batchable \in BOOLEAN : Refuse(r, label, batchable)
        \/ \E label \in Labels, prompt \in Prompts : Begin(r, label, prompt)
        \/ EndSegment(r)
        \/ \E token \in Generated : Finish(r, token)
        \/ Stop(r)

Spec == Init /\ [][Next]_vars

-----------------------------------------------------------------------------
(* Properties.                                                             *)

(* The storage holds what the policy lists, under the same role and bytes, *)
(* however requests interleave.                                            *)
StorageMirrorsPolicy ==
    /\ WellTyped(policy) /\ Accounted(policy) /\ WithinLimits(policy)
    /\ DOMAIN rows = Resident(policy)
    /\ \A k \in Resident(policy) :
          /\ rows[k].role = policy.entries[k].role
          /\ rows[k].nbytes = policy.entries[k].nbytes

(* Reuse is exact: what is stored under a key is the state of its tokens   *)
(* in its domain, and a request goes on from a prefix of its own prompt in *)
(* its own domain with at least one token left to evaluate.                *)
ReuseIsExact ==
    /\ \A k \in DOMAIN rows :
          /\ rows[k].payload.tokens = k.tokens
          /\ k.namespace = CacheNamespace("model", rows[k].payload.domain)
    /\ \A r \in Running :
          LET request == requests[r]
          IN  /\ request.payload.domain = request.domain
              /\ request.payload.tokens \o request.rest = request.prompt.tokens
              /\ request.rest # <<>>

(* A hybrid model keeps one active tail per lineage: of two active entries *)
(* none continues the other, unless requests overlapped or a prompt asked  *)
(* for no more than what was already held.                                 *)
OneTailPerLineage ==
    ~trimmable /\ ~disturbed =>
        \A j, k \in policy.buckets["active"] : ~Extends(j, k)

(* docs: "StateBraid may match and credit only the prefix actually         *)
(* served". A key that is credited is served, but for the one token that   *)
(* is replayed.                                                            *)
CreditedIsServed ==
    [][\A k \in Resident(policy) \cap Resident(policy)' :
          policy'.entries[k].hits > policy.entries[k].hits =>
              \E r \in Running' \ Running :
                  Len(requests'[r].payload.tokens) >= Length(k) - 1]_vars
=============================================================================
