# StateBraid: a TLA+ verification project

StateBraid keeps the reusable state of language model prompts (KV and SSM
caches) in a small working set. A policy decides which prompts stay resident, a
coordinator applies its decisions to a storage backend without losing the
agreement between the two, and adapters connect it to MLX (in process) and to a
patched llama.cpp server (over HTTP). This directory holds TLA+ models of that
code, TLC configurations that check them, and TLAPS proofs about the core.

    tlc -config WorkingSetPolicy_plans.cfg MCWorkingSetPolicy     check a run
    tlapm WorkingSetPolicyProofs.tla                              check proofs

`PROJECT.json` lists every run, the source lines each definition stands for,
the hazards, the findings and, per property, a plausible bug (a definition
commented "Mutant") that makes the property fail.

## 1. The system

Paths are relative to `src/src/statebraid` of the repository.

| component | state it keeps | operations | talks to |
|---|---|---|---|
| Working-set policy, `cache/policy.py` | entries (role, bytes, hits), role buckets in insertion order, byte counter, one stable candidate on probation | `plan_admission`, `plan_stable_candidate`, `plan_trim`, `commit`, `commit_trim`, `observe_hit`, `capture_state`, `restore_state` | nobody |
| Cache coordinator, `cache/policy.py` | a lock | `admit_entry`, `admit_stable_candidate`, `trim_to`, `forget_remote`, `observe_hit`, `admit(plan)`, `trim(plan)` | policy; a backend with `capture`, `restore`, `remove`, `insert` |
| Managed llama.cpp adapter and facade, `adapters/llama_cpp_managed.py` | pinned epoch, key-to-handle registry, queue of drops | capture, admit, stable candidate, trim, lookup (clear, select, restore, probe), orphan reconciliation | coordinator; the server by HTTP |
| Managed llama.cpp store, `integrations/llama_cpp_managed/*.patch` | epoch, states by handle, handle counter, the slots | `clear`, `capture`, `restore`, `drop`, `list` | the server's task queue, completions |
| llama.cpp HTTP adapter, `adapters/llama_cpp.py` | none | bounded probe of one slot, validation of replies | the server by HTTP |
| MLX adapter, `adapters/mlx.py` | none of its own | storage backend over an `LRUPromptCache` trie; facade with fetch, three inserts; generation-safe hit | coordinator, mlx-lm |
| Generation safety and namespaces, `cache/generation.py`, `cache/namespace.py` | none | pure functions | MLX adapter |
| Backend contract and conformance, `backend/` | none | descriptors, capability gating, conformance cases | any backend |
| Compatibility checks and doctor, `compat/`, `doctor.py` | none | inspection of an installed backend | backends |
| Reference data, `reference.py`, `support.py`, `integrations/*/__init__.py` | none | version tables, packaged patches | nobody |
| MLX reference patch, `integrations/mlx` | | how mlx-lm's server calls the adapter | mlx-lm |
| Qualification and release scripts | | drivers and gates | all of the above |

What is hard, and what makes each part correct:

- **Policy.** Three structures (entries, buckets, counter) change together
  through replacement, role change, stable rotation, compaction of the active
  tail, pin quota, capacity eviction and trim. They must agree after any run of
  calls, both limits must hold, victims must come in the documented order, the
  working pair (stable and active) must be spared while it fits, the reserve
  must reach transient entries, and a stable incumbent must lose its lane only
  to a candidate that deserves it.
- **Coordinator.** Any backend call may raise, before or after it took effect,
  also inside the rollback. Policy and backend must agree afterwards, an
  aborted call must leave no trace, and the lock must come back.
- **Managed store.** A RAM limit that reclaims states behind the client's back,
  tasks deferred behind a completion, reloads that void all handles. The limit
  must bound the memory, the reclaim order must hold, a handle must never come
  to mean another state.
- **Managed facade.** Requests and responses are lost, late or refused; the
  server reclaims and reloads between any two exchanges. Every bound handle
  must be the right state, nothing may leak or outgrow the budget, the slot
  must hold what was selected, and every call must end.
- **HTTP adapter and doctor.** A lookup is three requests to a server that may
  be replaced between them and serves others too. No completion may run on
  unaudited source or in another slot, no reuse may be reported that did not
  happen, and doctor and adapter, which check the same surface in two places,
  must agree.
- **MLX serving.** Requests of one batch interleave at segment ends; each saves
  under keys and beside a predecessor it learned when it began. What is reused
  must be the state of exactly that prefix in the same trust domain, at least
  one token must be left to evaluate, storage and policy must agree, and a
  model whose caches cannot be trimmed must keep one active tail per lineage.
- **Contract and conformance.** The suite is itself a program that can be
  wrong: it must find the faults it is for, and blame nobody else.

## 2. Modules

| module | models | extends / instances |
|---|---|---|
| `PolicyOps` | the policy as operators over a policy value | |
| `WorkingSetPolicy` | the policy as a machine: plan and commit in one step; what plans promise | `PolicyOps` |
| `StableLane` | the machine with the history of the stable lane | `WorkingSetPolicy` |
| `EvictionLoop` | planning with the code's loops, one victim a step; implements `WorkingSetPolicy` | `WorkingSetPolicy` |
| `TransactionalCache` | abstract: a bounded map whose calls are atomic | |
| `CacheCoordinator` | plan, capture, backend calls, commit and rollback as steps; implements `TransactionalCache` | `PolicyOps` |
| `StalePlans` | the coordinator with plans made outside its lock | `CacheCoordinator` |
| `HandleStore` | abstract: a store whose handles each mean one prompt for ever | |
| `ManagedServerOps` | the server's cache task as operators over a server value | |
| `ManagedStore` | the server under any requests, with deferral and reloads; implements `HandleStore` | `ManagedServerOps` |
| `ManagedCache` | facade, policy, registry and server together, over a lossy transport; implements `HandleStore` | `PolicyOps`, `ManagedServerOps` |
| `BackendContract` | descriptors, lookup observations, namespaces and generation safety as pure operators | |
| `BackendConformance` | the runner of the conformance suite and its seven cases, against a driver with at most one fault | `BackendContract`, `PolicyOps` |
| `LlamaCppHTTP` | the HTTP adapter, the doctor's probe, and servers that are replaced | `BackendContract` |
| `MLXServing` | facade, storage and the batch path of the patched MLX-LM server | `PolicyOps`, `BackendContract` |
| `PolicyOpsProofs` | lemmas about the operators of the policy | `PolicyOps` |
| `WorkingSetPolicyProofs` | theorems about the policy, what its plans evict, pins, reserve, the stable lane and the eviction loops | `StableLane`, `EvictionLoop`, `PolicyOpsProofs` |
| `CacheCoordinatorProofs` | theorems about the coordinator: under any failure, under stale plans, and while no undo fails | `StalePlans`, `PolicyOpsProofs` |
| `ManagedStoreProofs` | theorems about the server's store | `ManagedStore` |
| `ManagedCacheProofs` | theorems about the facade, its registry and the server together | `ManagedCache`, `PolicyOpsProofs` |
| `MLXServingProofs` | theorems about interleaved MLX requests | `MLXServing`, `PolicyOpsProofs` |
| `BackendConformanceProofs` | theorems about the verdicts of the conformance suite | `BackendConformance` |
| `LlamaCppHTTPProofs` | theorems about the HTTP adapter, the doctor and the descriptors | `LlamaCppHTTP` |
| `MC...` | values for TLC | |

**From code to model.** A `WorkingSetPolicy` object is a record: `entries` is a
function from the resident keys to role, bytes and hits; `_by_role`, whose
`OrderedDict`s are iterated from the oldest, is `buckets` (a set per role) with
`older`, the insertion order as a relation, and `opened`, which numbers the
buckets in the order the code's dict of buckets holds them, the tie-break
between roles of one rank; `_nbytes` is `nbytes` and the `_stable_candidate_*`
fields are `cand`. The eviction loops
are not in it: `CapacityVictims` and `PlanTrim` say which keys they take,
in a closed form, which is what every other module uses and what proofs need.
`EvictionLoop` has the loops themselves: `call` is the call that plans, with the
keys it spares (`protected`) and what it has evicted so far (`evictions`, the
code's list and set in one); a turn of a loop is a step, the commit another, and
nobody else acts between them, since the coordinator holds its lock. Telemetry
counters are left out. Byte sums are cardinalities of sets of (key, byte)
cells, so that proofs need no recursion.

`CacheCoordinator.txn` is the call that holds the lock, with the plan, what was
captured and what is left to do; each backend call is a step, and each has a
twin that raises, with or without effect. `startPolicy` and `startBackend` are
history. `observe_hit` waits for the lock like any other call. `StalePlans` adds
`admit(plan)` and `trim(plan)`: instead of keeping old policies, a prepared plan
may evict any keys that can once have been resident together, which is more
than any real delay can produce.

The server value of `ManagedServerOps` has the epoch (numbered by load), the
states by handle (numbered; the map's key order is their order), the handle
counter and the prompt in the slot. `Execute` gives the set of outcomes of a
request; more than one when `llama_state_seq_get_data` or its counterpart may
fall short.

`ManagedCache.call` is the facade call that runs and its phase: `flush` and
`confirm` are `flush_drops` and `drop_state` with its re-read of the store,
`capture`, `reconcile` and `sweep` are `capture_current` with the clean-up
after a failure, `admit` is the rest of `capture_and_admit` or
`capture_stable_candidate`, and `clear`, `select`, `restore`, `probe` are
`lookup`. Each HTTP exchange is one step whose outcomes are: answered; refused;
request lost; response lost; given up and executed later (`late`, for the
actions in `LateActions`). The
coordinator's transaction on the registry touches local dictionaries only, and
is one step (its own failures are the subject of `CacheCoordinator`).
`pinned` is the epoch the adapter was created with; `held` are the handles the
caller holds between `capture_current` and `admit_captured`.

`LlamaCppHTTP.call` is the lookup in flight, `doctor` the probe of
`compat/llama_cpp.py`; each of their requests is a step. `epoch` counts how
often the server was replaced by another; nothing in the code knows it, and the
properties use it to say which server an answer was about. A server is its
surface (what `/props` and `/slots` say) and the set of prompts it has
evaluated, from which a completion may reuse any common prefix that leaves a
token to evaluate. Build strings and JSON shapes are reduced to what the checks
tell apart.

`MLXServing` has the facade's policy, the storage as a function from keys to
rows, and per request what the server keeps of it: the payload it grows, its
segment ends left, what was served from the cache. The patched server takes
these steps in one thread, so a fetch, a save and a whole storage transaction
are one step each; `CacheCoordinator` takes the transaction apart. A payload is
the trust domain and the tokens it was computed for, which is what "exact
reuse" is about; its size is its number of tokens. `Nearest` is the trie of
mlx-lm as used, an external part.

`BackendConformance` writes each case as the calls it makes and what they must
show; `Perform` runs one against the fixture of the repository's tests, the
MLX facade over a dictionary, with one `fault` put in. `Breaks` says which
declared capability a fault belies.

## 3. Runs

| run | question | bounds |
|---|---|---|
| `policy_plans` | is the policy value sound, and does every plan keep its promises, beside pins and under a reserve of the whole capacity? | 4 keys, 4 roles of which one is a pin role, any of them admitted directly, 3 sequences, 4 bytes, sizes 1, 3, 4 and 5, reserve 3 (so pin limit 0) |
| `lane_candidates` | when is the stable lane handed over, with candidates only? do pin roles of one rank respect their quota? | 3 keys, 2 pin roles, pin limit 2, 3 sequences, 2 hits |
| `coordinator_faults` | does a failing backend ever separate policy and payloads? is the coordinator a transactional cache? | 3 keys, 2 payloads, 2 sequences, 3 sightings |
| `coordinator_double_fault` | what can a stale plan, and a failure inside the rollback, damage? | 3 keys, 1 payload, 1 sequence |
| `store_requests` | the server's budget and reclaim order; does it implement `HandleStore`? | 2 prompts (one with a checkpoint), limit 4, 4 handles, 2 loads, 1 deferred |
| `managed_faults` | lost requests and responses, late drops, reclaim, a reload | 2 keys, 1 sequence, states of 1 and 2 bytes, limit 3, 2 failures, 2 loads, 3 handles |
| `managed_split` | capture and admission apart, failed reads, any late request, reclaim, a reload | 2 keys, limit 2, 1 failure, 2 loads, 3 handles |
| `managed_lost_reclaim` | *violation*: the registry after a lost capture response | 2 keys, limit 1, 1 failure |
| `conformance_suite` | does the suite find the faults it is for, and only these? | every declarable set of capabilities, 9 faults one at a time |
| `http_lookup` | qualified requests, real evidence, doctor and adapter in agreement | 13 surfaces, 2 replacements, 3 prompts, slots -1 to 2 |
| `mlx_requests` | exact reuse, storage against policy, one tail per lineage | 3 requests, 4 prompts, 3 labels, 3 sequences, 9 bytes, both kinds of model |
| `mlx_credit` | *violation*: the entry credited with a hit | 2 requests, otherwise the same |

**Why the bounds are enough to be of use.** Four keys in three slots are the
least that let a plan rotate the stable prefix, compact the active tail, meet
the pin quota and evict in both passes, with one key left to be spared; sizes
one and three make the byte and the sequence limit bind separately, a
payload of four bytes fills the cache and one of five is refused. The reserve is
the whole capacity, so the pin limit is zero; `lane_candidates` has a limit of
two. The policy depends
on hits only through a comparison of two counters, so two hits show it. In the
coordinator an admission touches at most the whole cache of two plus the new
key; a stale plan needs one key more than the cache holds. In the managed cache
two keys with one a prefix of the other give lookups
a partial and a full match, one slot forces an eviction at every admission, and
two failures are a lost capture and a failed clean-up. `MaxHandle` and
`MaxEpoch` cut off histories, not behaviours within them: three handles let a
capture leak and a later one reclaim, two loads let a stale facade meet a new
store. In `managed_faults` a state has a byte per token, and the limit of three
holds the states of both keys, so that a state nobody accounts for can stay beside
those in use. With two keys, one a prefix of the other, the choice of the smaller
state between equal matches is not exercised. A
lookup has three requests, so two replacements put a different server behind
each; the surfaces are audited servers whose slots are numbered from zero, with
a gap, twice alike, in part or not at all, with a total that fits and one that
does not, and one for every other way a check can fail. Three MLX requests are
two that overlap and one that comes after, their
prompts a conversation in three turns and a branch of it; nine bytes hold
three short caches, or the longest and one short one.

**Deadlock** is checked in every run but those of `MLXServing` and
`BackendConformance`, where the requests are all answered and the suite ends.

**Fairness.** `CacheCoordinator`, `StalePlans`, `ManagedCache` and
`EvictionLoop` assume weak fairness of `Advance` and nothing else: a call that
runs takes its next step. The code justifies it: a call is a straight line or a
loop over a finite dict in one thread, and every HTTP exchange ends, by a reply
or by the timeout of `UrllibJSONTransport`. No fairness is assumed of callers,
of the server's reloads or of late requests, and failures are never assumed to
stop (`CallsReturn` bounds them only by `MaxFaults`, and a refused drop ends its
call without a failure of the transport). The other modules state safety only.

### What the runs show

*Policy.* The three structures agree, both limits hold and the stable lane is
single after any run of calls (`SoundPolicy`, of five named parts). A plan is
refused only for its
size or a disabled cache (`EvictionSucceeds`: the `cannot_fit` exit is dead
code). Victims come by rank, first in first out within a role
(`EvictionOrder`), none needlessly (`NoNeedlessEviction`); a
trim reaches its target and spares the working pair while it can
(`TrimReachesTarget`). The working pair outlives any working-set arrival beside
which it fits (`WorkingPairSurvives`), the reserve reaches the transient
entries (`ReserveDelivered`), and pins without a built-in rank respect their
quota (`PinQuota`). A candidate takes the stable lane from another prefix only
after two sightings with no hit on the incumbent between them
(`PromotionNeedsQuietIncumbent`, `BaselineIsIncumbents`), as long as nobody
admits a stable prefix directly.

The eviction loops, one victim at a time, end with the victims and reasons of
the closed form (`LoopsAgree`), so that planning is the one step of
`WorkingSetPolicy` (`ImplementsAtomicPlans`). Both are proved; the configuration
`EvictionLoop_turns.cfg` with `MCEvictionLoop`, which is not among the runs,
checks them on an instance of three keys, two sequences and three bytes, where a
loop takes up to two victims, and with them that a loop ends (`LoopsEnd`).

*Coordinator.* Whatever raises, policy and backend agree when the lock is free
(`Agreement`), a call happens altogether or leaves entries, order and payloads
as it found them, and of the policy changes only the candidate under probation
(`AllOrNothing`); policy and backend stay within their limits
at every step (`PolicySound`, `PhysicalBudget`), and the coordinator implements
`TransactionalCache` (`Transactional`). If the rollback fails too, `Agreement`
is lost, but only for keys of the failed call (`DamageConfined`), and the lock
still comes back (`LockReleased`). A plan made for an earlier policy keeps the
books exact (`StalePlansKeepBooks`), but may exceed the limits or leave two
stable prefixes: `admit(plan)` checks neither.

*Store.* The limit is exceeded by at most the checkpoints of one state the
store holds, however long the history (`StoreSound`); reclaim takes the oldest
never-restored states and no more than needed (`ReclaimsOldestUnused`). What
the facade relies on is stated as an abstract store, `HandleStore`: a handle is
given out once in a load and means, as long as its state is there, the prompt
that was in the slot then. The server implements it under any requests
(`KeepsItsPromise`), and so does the server under the facade
(`ServedByHandleStore`, which is proved and is no property of a run).

*Managed cache.* `AuthenticBindings` and `SingleOwner` hold under everything
modelled: a restore yields the key's own state or fails, and no flush can drop
a state in use. When captures are admitted at once, every binding is live
except those to handles that a capture without a reply reclaimed
(`BindingsLive`; the history variable `missed` holds those handles). One
failure leaks nothing (`LeaksNeedTwoFaults`), the slot at the probe holds what
was selected (`SlotIsSelected`), a sweep leaves no unknown handle behind
(`SweepSettles`), a facade of an earlier load cannot harm a new store
(`StaleFacadeHarmless`), and every call ends (`CallsReturn`): no step of a call,
whatever fails in it, leaves it as many to take as it had (`CallsShorten`, with
`StepsLeft` for the number; a call has at most four steps per handle and four
more).
The states in the store stay within the working set and the one being admitted,
but for one state for every two failures, a capture that got no reply and the
clean-up after it (`PhysicalBudget`): drops that fail hold captures back, a
clean-up that fails does not.
`LeaksNeedTwoFaults`, `PhysicalBudget` and `SlotIsSelected` are checked with late
drops only: a capture executed late leaks by itself, and a restore executed late may replace
what a later lookup has selected.

*HTTP adapter.* Every completion runs on audited source and in the selected
slot, and every reported match was reused by the server that answered, unless
that server took over after the read that checked it (`RequestsAreQualified`,
`EvidenceServed`): the three requests are not one, and the code cannot make
them so. A server that lets a lookup through is one the doctor finds compatible,
and one it finds compatible refuses only a slot it does not list, unless it lists
an id twice (`DoctorAgrees`): the doctor counts slots, the adapter their ids.
Nothing is assumed of how a server numbers its slots.

*MLX.* The storage holds what the policy lists, with the same role and bytes,
however requests interleave (`StorageMirrorsPolicy`); a request goes on from a
prefix of its own prompt in its own domain with a token left to evaluate, and
no stored payload is changed by being used (`ReuseIsExact`). A model whose
caches cannot be trimmed keeps one active tail per lineage
(`OneTailPerLineage`), except after requests that overlapped, or one that asks
for no more than is already held; there two tails do occur.

*Conformance.* A case fails only when a capability it requires is declared and
broken (`FailuresAreDeserved`), and each fault is found as soon as the
capabilities that expose it are declared (`FaultsAreFound`). What exposes a
fault can be more than the capability it breaks: a driver that matches exact
prompts only is found by the hit attribution case, and a wrong payload by the
isolation case, so a driver that does not declare those passes.

### Where code and documentation disagree

| run or configuration | disagreement |
|---|---|
| run `managed_lost_reclaim` | a lost capture response also loses the eviction notice: after the clean-up the registry keeps a dead binding |
| run `mlx_credit` | a hit is credited before generation safety decides what is served, so an exact entry is credited while a shorter one, or none, is served |
| `CacheCoordinator_rollback.cfg` with `MCCacheCoordinator` | `AbortRestoresPolicy`: the policy is captured after the candidate was counted (`policy.py:551`), so a failed call leaves a sighting behind |
| `ManagedStore_budget.cfg` with `MCManagedStore` | `BudgetBoundsManagedRam`: the RAM check does not count the checkpoints a capture stores |
| `ManagedCache_budget.cfg` with `MCManagedCache` | `CleanupKeepsBudget`: the comment at `llama_cpp_managed.py:471` says of the flush before a capture that it keeps a cleanup failure from expanding the backend beyond the budget; a clean-up that fails after a lost capture is forgotten (`:490`), and captures go on over what it left |
| `LlamaCppHTTP_twice.cfg` with `MCLlamaCppHTTP` | `CompatibleIsServed`: the changelog of the slot check says that it binds both the doctor and direct execution; the doctor counts a list of slots (`compat/llama_cpp.py:123`), the adapter a set of ids (`adapters/llama_cpp.py:291`), so two slots under one id are compatible and refused |
| `BackendConformance_limits.cfg` with `MCBackendConformance` | `LimitsTestedApart`: `docs/BACKEND_CONTRACT_V0_2.md` lists "independent sequence/byte capacity enforcement"; the capacity case asks for one sequence and 45 bytes and admits twice 30, so a driver that enforces only one of them passes (`conformance.py:305`) |

The last five are kept as configurations to reproduce a counterexample; they
are not among the runs.

Met on the way, and visible in the models' guards: the lineage case has room
for two sequences only, so that a driver that ignores the predecessor evicts it
all the same and passes (`conformance.py:290`);
the pin quota does not see pin roles that also have a built-in rank
(`policy.py:446`); a transient arrival too large to stand beside the working
pair evicts a pair that fits (`policy.py:294`); a direct stable admission
resets the incumbent's hits but not a candidate's probation (`policy.py:404`),
which is why `lane_candidates` admits no stable prefix directly; a capture
refused for a short read has already reclaimed (patch, line 319); and a handle held
between `capture_current` and `admit_captured` can be reclaimed and is then
bound although it is gone (`llama_cpp_managed.py:645`), which is why
`BindingsLive` is not checked by `managed_split`.

## 4. Proofs

| module | theorem | states |
|---|---|---|
| `WorkingSetPolicyProofs` | `PolicyInvariant` | the inductive invariant `PolicyInv` |
| | `PolicySoundness` | `[]SoundPolicy`; part by part `TypeCorrect`, `IndexCorrect`, `AccountingCorrect`, `BudgetRespected`, `StableLaneSingle` |
| | `CannotFitUnreachable` | `[]EvictionSucceeds` |
| | `EvictionOrdered`, `EvictionNeeded` | `[]EvictionOrder`, `[]NoNeedlessEviction` |
| | `WorkingSetSurvives`, `TrimMeetsTarget` | `[]WorkingPairSurvives`, `[]TrimReachesTarget` |
| | `PinsWithinQuota`, `ReserveIsDelivered` | `[]PinQuota`, `[]ReserveDelivered`, if `OrdinaryPins` |
| | `BaselineTracksIncumbent`, `PromotionsAreEarned` | `[]BaselineIsIncumbents`, `PromotionNeedsQuietIncumbent`, if `LaneIsProtected` |
| | `LoopsComputePlans`, `LoopImplementsPlans` | `[]LoopsAgree`; `ImplementsAtomicPlans`: the refinement |
| `CacheCoordinatorProofs` | `PolicySoundness` | `[]PolicySound`, also when the rollback fails |
| | `DamageIsConfined` | `DamageConfined`, also when the rollback fails |
| | `StalePlansAreBooked` | `[]StalePlansKeepBooks` |
| | `PolicyAgreesWithBackend` | `[]Agreement` while no undo fails |
| | `BackendWithinLimit` | `[]PhysicalBudget` while no undo fails |
| | `CallsAreAtomic` | `AllOrNothing` while no undo fails |
| | `ImplementsTransactionalCache` | `Transactional` while no undo fails: the refinement |
| `ManagedStoreProofs` | `StoreSoundness` | `[]StoreSound` |
| | `ReclaimGoesByAge` | `ReclaimsOldestUnused` |
| | `StoreKeepsItsPromise` | `KeepsItsPromise`: the refinement of `HandleStore` |
| `ManagedCacheProofs` | `ManagedTypes` | `[]TypeOK` |
| | `OneOwner`, `BindingsAreAuthentic` | `[]SingleOwner`, `[]AuthenticBindings` |
| | `StaleFacadeIsHarmless` | `[]StaleFacadeHarmless` |
| | `BoundStatesLive` | `[]BindingsLive`, if `~SplitCalls` |
| | `SlotHoldsSelection` | `[]SlotIsSelected`, if no restore is executed late |
| | `LeaksTakeTwoFaults` | `[]LeaksNeedTwoFaults`, if no capture is executed late |
| | `SweepsSettle`, `StoreWithinBudget` | `SweepSettles`, `[]PhysicalBudget`, if `~SplitCalls` and no capture is executed late |
| | `CallsShortenStepwise` | `CallsShorten` |
| | `FacadeSeesHandleStore` | `ServedByHandleStore`: the refinement of `HandleStore` |
| `BackendConformanceProofs` | `FailuresDeserved` | `[]FailuresAreDeserved` |
| | `FaultsFound` | `[]FaultsAreFound`, if every fault is one that a case is made for |
| `LlamaCppHTTPProofs` | `QualifiedRequests` | `[]RequestsAreQualified` |
| | `ServedEvidence` | `[]EvidenceServed` |
| | `DoctorAgreement` | `[]DoctorAgrees` |
| | `AdaptersDeclare` | every adapter's descriptor is one the constructor accepts, and its integration level |
| `MLXServingProofs` | `StorageIsMirrored` | `[]StorageMirrorsPolicy` |
| | `ReuseStaysExact` | `[]ReuseIsExact` |
| | `TailsStayApart` | `[]OneTailPerLineage` |

They hold for every value of the constants that meets the assumptions:
`KeysAssumption`, `RolesAssumption`, `CapacityAssumption` and
`ReserveAssumption` of `PolicyOps`, `InputsAssumption` of `WorkingSetPolicy`,
`CoordinatorAssumption` of `CacheCoordinator`, `ServerAssumption` of
`ManagedServerOps`, `BoundsAssumption` of `ManagedStore`, `ManagedAssumption` of
`ManagedCache`, `ServerAssumption` of `LlamaCppHTTP`, `NoneAssumption` of
`BackendContract`, `SuiteAssumption` and `ScriptAssumption` of
`BackendConformance`, and `PromptsAssumption` and `InputsAssumption` of
`MLXServing`. They say that keys, roles, sizes, limits and handles are what the
code takes, and of a server only that it lists slots with integer ids or without a
valid one, in any order and number; any keys (also infinitely many), any capacity with zero, any
reserve, and any pin roles are allowed. `SuiteAssumption` says that the roles
the cases admit exist and are no pin roles, since the fixture creates its policy
without `pin_roles` (`policy.py:119`), and `ScriptAssumption` that None is no
script. `PromptsAssumption` says how the server
cuts a chat prompt: segments end one after the other, the last with the prompt,
which has at least two tokens; the label `active` marks a prompt of one segment
(a tail that is not a user's turn), and no segment is labelled `stable`.

Some theorems have a hypothesis on the constants; each is what the property
needs, and a run checks the property where it holds:

- `OrdinaryPins`, no pin role has a rank of its own: `_oldest_pin` looks only
  at entries of rank `PinRankMin`, so a pin role such as `active` escapes the
  quota (`policy.py:446`).
- `LaneIsProtected`, no call admits a stable prefix directly: such an admission
  resets the incumbent's hits, not the probation (`policy.py:404`).
- `~SplitCalls`, captures are admitted by the call that made them: a handle
  held by a caller can be reclaimed and is bound all the same
  (`llama_cpp_managed.py:645`).
- `LateActions` without `restore` or `capture`: a request that the client gave
  up and the server executes later changes the slot, or adds a state that one
  failure is enough for.
- `Faults \subseteq Findable`, every fault is one that a case is made for: a
  driver that keeps predecessors (`conformance.py:290`) or enforces one of the
  two limits only (`conformance.py:305`) is not found. `FailuresDeserved` has no
  such hypothesis.

*The policy.* None of its invariants is inductive alone. The counter stays
right under removal only if each removed key is charged once, which needs the
buckets to file exactly the residents; the limits are preserved by a commit
only because the plan was computed from a counter that is right; and a single
stable key needs the rotation to see every key of the stable bucket.
`PolicyInv` is their conjunction. `RemoveCoherent` and `InsertCoherent` show
that the two primitive updates keep it, `AdmissionPlan` and
`StableCandidatePlan` that every accepted plan is *executable* (it fits after
its evictions, and rotates the stable lane), and `CommitSafe` that committing
an executable plan keeps the invariant. The one hard lemma is
`EvictionMakesRoom`: the closed form of the eviction loop always ends within
the limits, if the payload alone does. If it did not, the first key in the eviction
order that the loop spares (which exists, since the candidates are finite) is
one the loop would have taken, so every candidate was taken; and the payload
alone fits.

*What plans evict.* The two passes of the loop are one order, `TakenBefore`:
first the unprotected, then the protected, each by rank and age. The victims
are closed under it (`VictimsClosed`), since a victim was needed although all
that go before it had gone, so these went as well. Order by rank and age
follows at once. A protected victim would need all unprotected ones to have
gone, and then the working pair and the newcomer alone are over a limit: so the
pair survives where it fits, and a trim touches it only when it alone is over
the target. `NoNeedlessEviction` takes the last victim in this order. That there
is one needs the order to be total, which it is only because no two roles of a
rank have the same number in `opened`: `Numbered`, a second inductive invariant.

*Pins, reserve and lane.* An admission adds at most one pin, and when the quota
is full it has evicted one first; removals and the rest of the plan only lower
the number. For the reserve: when the bytes do not bind, one entry evicted
for room is enough (`OnePlaceIsEnough`), and none is once a pin was evicted; so
the transient entries lose at most one, and below the reserve a pin goes
instead. `Probation` relates
the candidate under probation to the incumbent: its `baseHits` are hits the
incumbent has had, and if there were none since, the candidate was sighted
since, which is what a promotion has to show.

*The loops.* `LoopInv` says of a call that plans that what its loop has taken is
part of the closed form (`Partial`), and the first ones in the order: with a key
all that go before it. A turn takes the first key that is left
(`VictimIsFirst`); what goes before that is exactly what was taken, and was not
enough, so the key is in the closed form (`LoopTurn`). A loop that ends has
taken enough, or everything; a key of the closed form that it left would need
what goes before it, which includes all that was taken, not to be enough
(`LoopEnd`). This needs the order to be total (`Numbered`), and that taking more
is never worse (`OverLimitMonotone`, `OverTargetMonotone`). A candidate's plan is
made on the policy with its sighting counted, which `PlanIgnoresCandidate` shows
to be no difference to the plan. So a commit is the step of the atomic policy,
and every turn before it a stutter (`LoopStep`).

*The coordinator.* `SafetyInv` holds under all failures: while a call holds the
lock, the policy is still the one it would roll back to, the plan is executable
for that very policy, and the backend differs from what the call found only at
the keys it touches. `AtomicInv` adds, while no undo fails, what each phase has
done to those keys (removed so far, inserted, put back so far), and that what
was captured is what was there. Then a rollback that ends has put everything
back, a commit has done all of its plan, and the only steps that change what
other callers see are a commit and the removal of one key by `forget_remote`,
each of which is a step of `TransactionalCache` (`StepRefines`). A stale plan is
not executable, so `SafetyInv` fails for it; `BooksInv` is what is left, and
needs of a plan only that its key, role and size are possible ones.

*The store.* A request makes of a proper server value another proper one, with
no handle reused, and never takes it further over the limit than the
checkpoints of one state (`Follows`). Dropping a state that carries the overrun
takes its checkpoints along, so the rest is within the limit. For a capture,
`ReclaimSuffices` shows that what is reclaimed covers the deficit: of the
unused handles it leaves, take one with the fewest older ones; these all went,
and it is left because they were enough. A step of the server is one of
`HandleStore`: a clear or a restore fills the slot, a drop loses a state, a
reload voids all, and a capture keeps the slot under the handle of the counter,
which is fresh because every handle given out is below it; what it reclaims is
lost in the same step, and when the read falls short that is all that happens.

*The managed cache.* `TypeInv` says of every handle the client knows, bound,
held, queued or named in a late request, that it was given out in its epoch
(`RegistryInv`, `Waiting`), and which phase of a call has which of its fields
(`CallInv`). A request that is executed makes of the server value one that still
means the same by every old handle (`Effect`), so that `OwnerInv`, single owners
and authentic bindings, survives everything, late, lost or repeated. `LiveInv`
adds what a call that admits its own capture can rely on: nothing is held across
calls, no drop that is under way or late names a bound handle, and what is bound
is in the store or reclaimed without notice. `LeakInv` counts: two failures for
every state nobody accounts for, but one for the state a clean-up still has to
find; a sweep has listed all of them. Given these two, `PhysicalBudget` is
inductive: a capture by a call that admits it starts with nothing queued or
held, so what is in the store then is bound, at most `max_sequences` states, or
leaked. `SlotInv` says that between the clear
and the restore the slot is empty. For the refinement, `EffectPromise` maps each
outcome of a request to steps of `HandleStore`, also when it is executed late;
the mapping is that of `ManagedStore`, since both use the same server.

*Calls end.* `StepsLeft` is a number of steps that a running call may still
take. `CallsShorten` is the safety half of `CallsReturn`; the other half is that
a call takes its next step, which is the fairness assumed. The queue of drops is
what a call loops over, and a drop that is refused and not found done ends the
call, so a flush has two steps for every handle in the queue. `QueueInv` says
that the handle a confirmation is about is still queued, so that each pass takes
one out; there are at most `MaxHandle` of them. Nobody but the call touches its
queue (`OnlyAdvanceMoves`).

*MLX serving.* `ServingInv` has no exception for overlapping requests. A row
holds the state of the tokens and the domain of its key (`StorageInv`), a
running request the state of the part of its prompt it was served, and its open
segments end beyond that (`SessionsInv`); so what a segment saves is the state of
the key it is saved under. The lemma that carries it is about `Nearest`: each
of its three cases yields a prefix of the prompt, and for the first and the
second because a trimmed payload keeps its domain. `TailInv` is for caches that
cannot be trimmed, and requests one at a time: no resident key continues an
active one (`Tails`), no stored key continues what the running request asks for,
and of the active tails only the one it was served is a prefix of its prompt
(`Fresh`). The last tail a request saves takes the place of that one.

*The HTTP adapter.* `LookupInv` says what an answer still means: epochs only
grow, so what was read in the present epoch is true of the server that runs,
and a lookup that has passed a check in this epoch passed it against this
server. There are as many ids as slots only if all differ (`IdsCounted`), which is
where the two counts of doctor and adapter meet.

*The conformance suite.* The run tries the default reserve and no pin roles; the
theorems hold for every reserve, all pin roles but those of the cases, and every
declaration. `SuiteInv` says that the verdicts given mean what they say, and
that a driver is where the calls of its case so far leave it (`At`: which
entries, bytes and hits before each step), unless its fault spoils the case,
that is, makes it fail although another case is there to find it (`Spoils`).
There is one lemma per case (`IsolationRun`, `AttributionRun`, `LineageRun`,
`CapacityRun`, `RollbackRun`, `SafetyRun`; `StepRuns` combines them): a step
fails only for a fault the case finds, and the last one passes only without it.
They rest on what one call does. An admission with room beside what stays is
accepted and evicts what it must and no more (`PlanFits`), a commit leaves the
newcomer beside the rest (`CommitStores`, `AdmissionHolds`), in the capacity
case the second entry evicts the first (`CapacityPlan`), and a lookup finds the
longest stored prefix (`NearestFinds`, `NearestMisses`).

Every invariant and action property of a passing run, and every refinement, is
also proved. *Out of the prover's reach:* the liveness properties
(`LockReleased`, `CallsReturn`, `LoopsEnd`) and their fairness (`ENABLED`). No
module has a recursive definition, so nothing is left out for that reason.

## 5. What is not modelled, and why

- MLX: `trim_to` and the two statistics of the facade, which the patched server
  does not call (`CacheCoordinator` models the trim); the start-up checks of
  the storage object; how the server cuts a prompt into segments (taken as an
  input); the single-request path, which StateBraid refuses; the probe of
  `compat/mlx.py`, which inspects installed modules once and keeps no state.
- Managed adapter: validation of malformed server replies, HTTP field
  validation, start-up checks and loopback gates: pure input checks.
- Server patch: several slots, several backends behind one store, and the draft
  context.
- Threads of one facade: the M1 documents make a single owner the rule.
  `prepare` reads the policy without the coordinator's lock
  (`llama_cpp_managed.py:752`); the hazard is listed and no property covers it.
- Contract: dictionary renderings of descriptors and reports.
- Packaged patches, version tables, qualification and release scripts: I/O
  without state.

## 6. Plan

Done, in this order: the policy and its proofs; the coordinator, its refinement
and their proofs; stale plans; the store and its proofs; the managed cache; the
contract and the conformance suite; the HTTP adapter with the doctor, and its
proofs; MLX serving; the proofs about pins, reserve and the stable lane, about
the managed cache and about MLX serving; the eviction loops as a machine, and
the proof that it implements the closed form; the promise of the store, which
both machines with a server are proved to keep; the proof that no call of the
facade goes round in circles; the proofs about the verdicts of the conformance
suite.

Left, most important first:

1. Concurrent readers: `prepare` against a trim of another thread.
2. `MLXServing` with the coordinator's transactions taken apart, a fault in
   the storage under interleaved requests.
