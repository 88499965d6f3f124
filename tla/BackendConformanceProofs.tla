----------------------- MODULE BackendConformanceProofs -----------------------
(***************************************************************************)
(* The conformance suite, for every set of keys and faults, every set of   *)
(* roles and pin roles and every requested reserve. It blames no driver    *)
(* wrongly, and it finds the faults its cases are made for. The invariant  *)
(* says where the driver is before each step of its case; there is one     *)
(* lemma per case that runs it step by step.                               *)
(***************************************************************************)
EXTENDS BackendConformance, FiniteSetTheorems, TLAPS

-----------------------------------------------------------------------------
(* Sequences and scripts.                                                  *)

(* Sequences of one length with the same members are the same.             *)
LEMMA EqualSequences ==
    ASSUME NEW S, NEW T, NEW s \in Seq(S), NEW t \in Seq(T), Len(s) = Len(t),
           \A i \in 1 .. Len(s) : s[i] = t[i]
    PROVE  s = t
  OBVIOUS

From(s, j) == SubSeq(s, j, Len(s))

(* From its first step on, a script is itself.                             *)
LEMMA FromWhole ==
    ASSUME NEW S, NEW s \in Seq(S)
    PROVE  From(s, 1) = s
<1>1. From(s, 1) \in Seq(S) /\ Len(From(s, 1)) = Len(s)
  BY DEF From
<1>2. \A i \in 1 .. Len(s) : From(s, 1)[i] = s[i]
  BY DEF From
<1>3. QED
  BY <1>1, <1>2, EqualSequences

(* The head of the rest of a script is its step, the tail the next rest.   *)
LEMMA FromNext ==
    ASSUME NEW S, NEW s \in Seq(S), NEW j \in 1 .. Len(s)
    PROVE  /\ Head(From(s, j)) = s[j]
           /\ Len(From(s, j)) = Len(s) - j + 1
           /\ j < Len(s) => Tail(From(s, j)) = From(s, j + 1)
<1>1. From(s, j) \in Seq(S) /\ Len(From(s, j)) = Len(s) - j + 1
  BY DEF From
<1>2. Head(From(s, j)) = s[j]
  BY <1>1 DEF From
<1>3. ASSUME j < Len(s)
      PROVE  Tail(From(s, j)) = From(s, j + 1)
  <2>1. Tail(From(s, j)) \in Seq(S) /\ Len(Tail(From(s, j))) = Len(s) - j
    BY <1>1, <1>3
  <2>3. From(s, j + 1) \in Seq(S) /\ Len(From(s, j + 1)) = Len(s) - j
    BY <1>3 DEF From
  <2>2. \A i \in 1 .. Len(s) - j : Tail(From(s, j))[i] = From(s, j + 1)[i]
    BY <1>1, <1>3 DEF From
  <2> DEFINE tail == Tail(From(s, j))
             next == From(s, j + 1)
  <2>4. tail \in Seq(S) /\ next \in Seq(S) /\ Len(tail) = Len(next)
        /\ \A i \in 1 .. Len(tail) : tail[i] = next[i]
    BY <2>1, <2>2, <2>3
  <2> HIDE DEF tail, next
  <2>5. tail = next
    BY <2>4, EqualSequences
  <2>6. QED
    BY <2>5 DEF tail, next
<1>4. QED
  BY <1>1, <1>2, <1>3

(* A short sequence, spelled out.                                          *)
LEMMA Spelled ==
    ASSUME NEW q \in Seq(Nat)
    PROVE  /\ Len(q) = 1 => q = <<q[1]>>
           /\ Len(q) = 2 => q = <<q[1], q[2]>>
           /\ Len(q) = 3 => q = <<q[1], q[2], q[3]>>
  OBVIOUS

(* The pieces of prompts that the cases look up.                           *)
LEMMA Pieces ==
    /\ SubSeq(<<2, 3, 4, 5>>, 1, 2) = <<2, 3>>
    /\ SubSeq(<<2, 3, 4, 5>>, 3, 4) = <<4, 5>>
    /\ SubSeq(<<1, 2, 3>>, 1, 3) = <<1, 2, 3>>
    /\ SubSeq(<<30, 31, 32>>, 1, 2) = <<30, 31>>
    /\ SubSeq(<<30, 31, 32>>, 1, 3) = <<30, 31, 32>>
    /\ SubSeq(<<30, 31, 32>>, 3, 3) = <<32>>
    /\ SubSeq(<<30, 31>>, 1, 2) = <<30, 31>>
<1>1. SubSeq(<<2, 3, 4, 5>>, 1, 2) = <<2, 3>>
  <2> DEFINE q == SubSeq(<<2, 3, 4, 5>>, 1, 2)
  <2>1. q \in Seq(Nat) /\ Len(q) = 2
    OBVIOUS
  <2>2. q[1] = 2 /\ q[2] = 3
    OBVIOUS
  <2> HIDE DEF q
  <2>3. q = <<2, 3>>
    BY <2>1, <2>2, Spelled
  <2>4. QED
    BY <2>3 DEF q
<1>2. SubSeq(<<2, 3, 4, 5>>, 3, 4) = <<4, 5>>
  <2> DEFINE q == SubSeq(<<2, 3, 4, 5>>, 3, 4)
  <2>1. q \in Seq(Nat) /\ Len(q) = 2
    OBVIOUS
  <2>2. q[1] = 4 /\ q[2] = 5
    OBVIOUS
  <2> HIDE DEF q
  <2>3. q = <<4, 5>>
    BY <2>1, <2>2, Spelled
  <2>4. QED
    BY <2>3 DEF q
<1>3. SubSeq(<<1, 2, 3>>, 1, 3) = <<1, 2, 3>>
  <2> DEFINE q == SubSeq(<<1, 2, 3>>, 1, 3)
  <2>1. q \in Seq(Nat) /\ Len(q) = 3
    OBVIOUS
  <2>2. q[1] = 1 /\ q[2] = 2 /\ q[3] = 3
    OBVIOUS
  <2> HIDE DEF q
  <2>3. q = <<1, 2, 3>>
    BY <2>1, <2>2, Spelled
  <2>4. QED
    BY <2>3 DEF q
<1>4. SubSeq(<<30, 31, 32>>, 1, 2) = <<30, 31>>
  <2> DEFINE q == SubSeq(<<30, 31, 32>>, 1, 2)
  <2>1. q \in Seq(Nat) /\ Len(q) = 2
    OBVIOUS
  <2>2. q[1] = 30 /\ q[2] = 31
    OBVIOUS
  <2> HIDE DEF q
  <2>3. q = <<30, 31>>
    BY <2>1, <2>2, Spelled
  <2>4. QED
    BY <2>3 DEF q
<1>5. SubSeq(<<30, 31, 32>>, 1, 3) = <<30, 31, 32>>
  <2> DEFINE q == SubSeq(<<30, 31, 32>>, 1, 3)
  <2>1. q \in Seq(Nat) /\ Len(q) = 3
    OBVIOUS
  <2>2. q[1] = 30 /\ q[2] = 31 /\ q[3] = 32
    OBVIOUS
  <2> HIDE DEF q
  <2>3. q = <<30, 31, 32>>
    BY <2>1, <2>2, Spelled
  <2>4. QED
    BY <2>3 DEF q
<1>6. SubSeq(<<30, 31, 32>>, 3, 3) = <<32>>
  <2> DEFINE q == SubSeq(<<30, 31, 32>>, 3, 3)
  <2>1. q \in Seq(Nat) /\ Len(q) = 1
    OBVIOUS
  <2>2. q[1] = 32
    OBVIOUS
  <2> HIDE DEF q
  <2>3. q = <<32>>
    BY <2>1, <2>2, Spelled
  <2>4. QED
    BY <2>3 DEF q
<1>7. SubSeq(<<30, 31>>, 1, 2) = <<30, 31>>
  <2> DEFINE q == SubSeq(<<30, 31>>, 1, 2)
  <2>1. q \in Seq(Nat) /\ Len(q) = 2
    OBVIOUS
  <2>2. q[1] = 30 /\ q[2] = 31
    OBVIOUS
  <2> HIDE DEF q
  <2>3. q = <<30, 31>>
    BY <2>1, <2>2, Spelled
  <2>4. QED
    BY <2>3 DEF q
<1>8. QED
  BY <1>1, <1>2, <1>3, <1>4, <1>5, <1>6, <1>7

-----------------------------------------------------------------------------
(* The policy of a driver under the admissions and hits of the cases.      *)

SuiteRoles == {"stable", "active", "user"}

EntryStates == [role : SuiteRoles, nbytes : Nat, hits : Nat]

PolicyFields == {"entries", "buckets", "older", "opened", "nbytes", "cand"}

\* A policy value of the suite: entries filed under their roles.
Proper(p) ==
    /\ DOMAIN p = PolicyFields
    /\ p.entries \in [DOMAIN p.entries -> EntryStates]
    /\ p.buckets = [r \in Roles |-> {k \in DOMAIN p.entries : p.entries[k].role = r}]
    /\ \A pair \in p.older : pair[1] # pair[2]
    /\ p.opened \in [Roles -> Nat]

Limits(ms, mb) == ms \in Nat /\ ms > 0 /\ mb \in Nat

(* The policy counts as FiniteSets does.                                   *)
LEMMA SameCardinality ==
    ASSUME NEW ms, NEW mb, NEW S
    PROVE  Policy(ms, mb)!Cardinality(S) = Cardinality(S)
  BY DEF Policy!Cardinality, Cardinality

(* There are n numbers from 1 to n.                                        *)
LEMMA UpTo ==
    ASSUME NEW n \in Nat
    PROVE  IsFiniteSet(1 .. n) /\ Cardinality(1 .. n) = n
<1>1. 1 \in Int /\ n \in Int
  OBVIOUS
<1>2. IsFiniteSet(1 .. n) /\ Cardinality(1 .. n) = IF 1 > n THEN 0 ELSE n - 1 + 1
  BY <1>1, FS_Interval
<1>3. QED
  BY <1>2

(* Cardinalities of the empty set and of a singleton.                      *)
LEMMA OfOne ==
    ASSUME NEW x
    PROVE  /\ Cardinality({}) = 0
           /\ Cardinality({x}) = 1
  BY FS_EmptySet, FS_Singleton

(* No entries have no bytes.                                               *)
LEMMA NoBytes ==
    ASSUME NEW ms, NEW mb, NEW p
    PROVE  Policy(ms, mb)!Bytes(p, {}) = 0
<1>1. {c \in {} \X (1 .. mb) : c[2] <= p.entries[c[1]].nbytes} = {}
  OBVIOUS
<1>2. QED
  BY <1>1, FS_EmptySet, SameCardinality DEF Policy!Bytes

(* One entry has the bytes of its size.                                    *)
LEMMA BytesOf ==
    ASSUME NEW ms, NEW mb, Limits(ms, mb), NEW p, NEW k, p.entries[k].nbytes \in 0 .. mb
    PROVE  Policy(ms, mb)!Bytes(p, {k}) = p.entries[k].nbytes
<1> DEFINE n == p.entries[k].nbytes
           cells == {c \in {k} \X (1 .. mb) : c[2] <= p.entries[c[1]].nbytes}
           f == [i \in 1 .. n |-> <<k, i>>]
<1>1. ExistsBijection(1 .. n, cells)
  <2>1. f \in [1 .. n -> cells]
    BY DEF Limits
  <2>2. \A c \in cells : \E i \in 1 .. n : f[i] = c
    OBVIOUS
  <2>3. \A i, j \in 1 .. n : f[i] = f[j] => i = j
    OBVIOUS
  <2>4. f \in Bijection(1 .. n, cells)
    BY <2>1, <2>2, <2>3 DEF Bijection, Injection, Surjection, IsInjective
  <2>5. QED
    BY <2>4 DEF ExistsBijection
<1>2. IsFiniteSet(1 .. n) /\ Cardinality(1 .. n) = n
  <2>1. n \in Nat
    OBVIOUS
  <2> HIDE DEF n
  <2>2. QED
    BY <2>1, UpTo
<1>3. Cardinality(cells) = n
  BY <1>1, <1>2, FS_Bijection
<1>4. Policy(ms, mb)!Bytes(p, {k}) = Cardinality(cells)
  BY SameCardinality DEF Policy!Bytes
<1>5. QED
  BY <1>3, <1>4

\* What stays beside a newcomer: nothing, or one entry with room for both.
Beside(p, ms, mb, kept, nbytes) ==
    \/ kept = {}
    \/ \E k \in DOMAIN p.entries : /\ kept = {k}
                                   /\ ms >= 2
                                   /\ p.entries[k].nbytes + nbytes <= mb

(* An admission that leaves nothing, or one entry with room for both, fits.*)
LEMMA RoomBeside ==
    ASSUME NEW ms, NEW mb, Limits(ms, mb), NEW p, Proper(p), NEW key,
           NEW nbytes \in 0 .. mb, NEW evicted,
           NEW kept \in SUBSET DOMAIN p.entries, Beside(p, ms, mb, kept, nbytes),
           DOMAIN p.entries \ (evicted \cup {key}) \subseteq kept
    PROVE  ~Policy(ms, mb)!ProjectedOverLimit(p, key, nbytes, evicted)
<1> DEFINE left == DOMAIN p.entries \ (evicted \cup {key})
<1>1. CASE left = {}
  <2>1. Policy(ms, mb)!Bytes(p, {}) = 0
    BY NoBytes
  <2>2. Cardinality({}) = 0
    BY FS_EmptySet
  <2>3. QED
    BY <1>1, <2>1, <2>2, SameCardinality
    DEF Policy!ProjectedOverLimit, Policy!Resident, Limits
<1>2. CASE left # {}
  <2>1. PICK k \in DOMAIN p.entries : /\ kept = {k}
                                      /\ ms >= 2
                                      /\ p.entries[k].nbytes + nbytes <= mb
    BY <1>2 DEF Beside
  <2>2. left = {k}
    BY <1>2, <2>1
  <2>3. p.entries[k].nbytes \in 0 .. mb
    BY <2>1 DEF Proper, EntryStates, Limits
  <2>4. Cardinality(left) = 1 /\ Policy(ms, mb)!Bytes(p, left) = p.entries[k].nbytes
    <3>1. Cardinality({k}) = 1
      BY OfOne
    <3>2. Policy(ms, mb)!Bytes(p, {k}) = p.entries[k].nbytes
      BY <2>3, BytesOf
    <3>3. QED
      BY <2>2, <3>1, <3>2
  <2>5. QED
    BY <2>1, <2>3, <2>4, SameCardinality
    DEF Policy!ProjectedOverLimit, Policy!Resident, Limits
<1>3. QED
  BY <1>1, <1>2

(* No case meets the pin quota: its roles are no pin roles.                *)
LEMMA NoPins ==
    ASSUME NEW ms, NEW mb, Limits(ms, mb), NEW p, Proper(p), NEW key,
           NEW role \in SuiteRoles, NEW evicted
    PROVE  Policy(ms, mb)!PinQuotaVictim(p, key, role, evicted) = {}
<1>1. Policy(ms, mb)!Pinned(p) = {}
  BY SuiteAssumption DEF Proper, EntryStates, SuiteRoles, Policy!Pinned, Policy!Resident
<1>2. QED
  BY <1>1, SuiteAssumption DEF SuiteRoles, Policy!PinQuotaVictim

\* Of an accepted admission: what its plan says, and whom it evicts.
Accepts(plan, key, role, nbytes, gone) ==
    /\ role \in SuiteRoles /\ nbytes \in Nat
    /\ plan.accepted
    /\ plan.key = key /\ plan.role = role /\ plan.nbytes = nbytes
    /\ plan.reason = "admit"
    /\ DOMAIN plan.evictions = gone

(* Where that is so, a plan is accepted and evicts what it must and no more.*)
LEMMA PlanFits ==
    ASSUME NEW ms, NEW mb, Limits(ms, mb), NEW p, Proper(p), NEW key,
           NEW role \in SuiteRoles, NEW nbytes \in 1 .. mb, NEW predecessor,
           NEW forced,
           forced = Policy(ms, mb)!StableRotation(p, key, role)
               \cup Policy(ms, mb)!ActivePredecessor(p, key, role, predecessor),
           Beside(p, ms, mb, DOMAIN p.entries \ (forced \cup {key}), nbytes)
    PROVE  Accepts(Policy(ms, mb)!PlanAdmission(p, key, role, nbytes, predecessor),
                   key, role, nbytes, forced)
<1> DEFINE kept == DOMAIN p.entries \ (forced \cup {key})
           protected == Policy(ms, mb)!ProtectedKeys(p, key, role, nbytes, forced)
           pins == Policy(ms, mb)!PinQuotaVictim(p, key, role, forced)
<1>1. \A S : ~Policy(ms, mb)!ProjectedOverLimit(p, key, nbytes, forced \cup S)
  BY RoomBeside
<1>2. Policy(ms, mb)!CapacityVictims(p, key, nbytes, forced, protected) = {}
  BY <1>1 DEF Policy!CapacityVictims
<1>3. pins = {}
  BY NoPins
<1>4. ~Policy(ms, mb)!ProjectedOverLimit(p, key, nbytes, forced)
  BY <1>1, forced \cup {} = forced
<1>5. ~Policy(ms, mb)!ZeroCapacity /\ ~(nbytes > mb)
  BY DEF Policy!ZeroCapacity, Limits
<1>6. nbytes \in Nat
  OBVIOUS
<1>7. QED
  BY <1>2, <1>3, <1>4, <1>5, <1>6 DEF Policy!PlanAdmission, Accepts

\* The entries after an admission.
Joined(entries, key, role, nbytes, gone) ==
    [k \in (DOMAIN entries \ gone) \cup {key} |->
        IF k = key THEN [role |-> role, nbytes |-> nbytes, hits |-> 0] ELSE entries[k]]

(* Committing an accepted plan stores the newcomer beside what stays.      *)
LEMMA CommitStores ==
    ASSUME NEW ms, NEW mb, Limits(ms, mb), NEW p, Proper(p), NEW key,
           NEW role, NEW nbytes, NEW gone, NEW plan,
           Accepts(plan, key, role, nbytes, gone)
    PROVE  LET q == Policy(ms, mb)!Commit(p, plan)
           IN  /\ Proper(q)
               /\ q.entries = Joined(p.entries, key, role, nbytes, gone)
               /\ q.nbytes = p.nbytes
                      - Policy(ms, mb)!Bytes(p, (gone \cup {key}) \cap DOMAIN p.entries)
                      + plan.nbytes
<1> role \in SuiteRoles /\ nbytes \in Nat
  BY DEF Accepts
<1> DEFINE q == Policy(ms, mb)!Commit(p, plan)
           r == Policy(ms, mb)!RemoveEntries(p, gone \cup {key})
<1>1. q = Policy(ms, mb)!InsertEntry(r, key, role, nbytes)
  BY DEF Policy!Commit, Accepts, Policy!StableReasons
<1> HIDE DEF q
<1>2. /\ r.entries = [k \in DOMAIN p.entries \ (gone \cup {key}) |-> p.entries[k]]
      /\ r.buckets = [s \in Roles |->
             p.buckets[s] \ {k \in (gone \cup {key}) \cap DOMAIN p.entries :
                                p.entries[k].role = s}]
      /\ r.older \subseteq p.older
      /\ r.opened = p.opened
      /\ r.nbytes = p.nbytes
             - Policy(ms, mb)!Bytes(p, (gone \cup {key}) \cap DOMAIN p.entries)
  BY DEF Policy!RemoveEntries, Policy!Resident
<1> HIDE DEF r
<1>3. /\ r.buckets = [s \in Roles |-> r.buckets[s]]
      /\ \A s \in Roles : r.buckets[s] =
             {k \in DOMAIN p.entries \ (gone \cup {key}) : p.entries[k].role = s}
  <2>1. \A s \in Roles : p.buckets[s] = {k \in DOMAIN p.entries : p.entries[k].role = s}
    BY DEF Proper
  <2>2. \A s \in Roles : r.buckets[s] =
            p.buckets[s] \ {k \in (gone \cup {key}) \cap DOMAIN p.entries :
                                p.entries[k].role = s}
    BY <1>2
  <2>3. r.buckets = [s \in Roles |-> r.buckets[s]]
    BY <1>2
  <2>4. QED
    BY <2>1, <2>2, <2>3
<1>4. /\ q.entries = Joined(p.entries, key, role, nbytes, gone)
      /\ q.nbytes = r.nbytes + plan.nbytes
  <2>1. q.entries = Joined(p.entries, key, role, nbytes, gone)
    BY <1>1, <1>2 DEF Policy!InsertEntry, Policy!Resident, Joined
  <2>2. q.nbytes = r.nbytes + plan.nbytes
    BY <1>1 DEF Policy!InsertEntry, Accepts
  <2>3. QED
    BY <2>1, <2>2
<1>5. role \in Roles
  BY SuiteAssumption DEF SuiteRoles
<1>6. Proper(q)
  <2>1. DOMAIN q = PolicyFields
    BY <1>1 DEF Policy!InsertEntry, PolicyFields
  <2>2. q.entries \in [DOMAIN q.entries -> EntryStates]
    BY <1>4 DEF Joined, Proper, EntryStates
  <2>3. q.buckets = [s \in Roles |-> {k \in DOMAIN q.entries : q.entries[k].role = s}]
    <3>1. q.buckets = [r.buckets EXCEPT ![role] = @ \cup {key}]
      BY <1>1 DEF Policy!InsertEntry
    <3>3. \A s \in Roles : q.buckets[s] = IF s = role THEN r.buckets[s] \cup {key}
                                                      ELSE r.buckets[s]
      BY <3>1, <1>3, <1>5
    <3>2. /\ DOMAIN q.entries = (DOMAIN p.entries \ gone) \cup {key}
          /\ q.entries[key].role = role
          /\ \A k \in DOMAIN p.entries \ (gone \cup {key}) :
                 q.entries[k].role = p.entries[k].role
      BY <1>4 DEF Joined
    <3>4. \A s \in Roles : q.buckets[s] = {k \in DOMAIN q.entries : q.entries[k].role = s}
      <4>1. TAKE s \in Roles
      <4>2. r.buckets[s] =
                {k \in DOMAIN p.entries \ (gone \cup {key}) : p.entries[k].role = s}
        BY <1>3
      <4>3. CASE s = role
        BY <3>2, <3>3, <4>2, <4>3
      <4>4. CASE s # role
        <5>1. q.buckets[s] = r.buckets[s]
          BY <3>3, <4>4
        <5>2. \A k : k \in DOMAIN q.entries /\ q.entries[k].role = s
                        => k \in DOMAIN p.entries \ (gone \cup {key})
          BY <3>2, <4>4
        <5>3. \A k : k \in r.buckets[s] <=> k \in DOMAIN q.entries /\ q.entries[k].role = s
          BY <3>2, <4>2, <5>2
        <5>4. QED
          BY <5>1, <5>3
      <4>5. QED
        BY <4>3, <4>4
    <3>5. q.buckets = [s \in Roles |-> q.buckets[s]]
      BY <3>1, <1>3
    <3>6. QED
      BY <3>4, <3>5
  <2>4. \A pair \in q.older : pair[1] # pair[2]
    <3>1. q.older = r.older \cup (r.buckets[role] \X {key})
      BY <1>1 DEF Policy!InsertEntry
    <3>2. key \notin r.buckets[role]
      BY <1>2, <1>3, <1>5
    <3>3. QED
      BY <3>1, <3>2, <1>2 DEF Proper
  <2>5. q.opened \in [Roles -> Nat]
    <3> DEFINE peers == {s \in Roles : /\ Policy(ms, mb)!Rank(s) = Policy(ms, mb)!Rank(role)
                                       /\ r.opened[s] # 0}
    <3>1. q.opened = [r.opened EXCEPT
              ![role] = IF @ = 0 THEN Policy(ms, mb)!Cardinality(peers) + 1 ELSE @]
      BY <1>1 DEF Policy!InsertEntry
    <3>2. Cardinality(peers) \in Nat
      BY SuiteAssumption, FS_Subset, FS_CardinalityType
    <3>3. Policy(ms, mb)!Cardinality(peers) \in Nat
      BY <3>2, SameCardinality
    <3> HIDE DEF peers
    <3>4. QED
      BY <3>1, <3>3, <1>2, <1>5 DEF Proper
  <2>6. QED
    BY <2>1, <2>2, <2>3, <2>4, <2>5 DEF Proper
<1>7. QED
  BY <1>2, <1>4, <1>6 DEF q

\* The entries after a hit on key.
Bumped(entries, key) ==
    IF key \in DOMAIN entries THEN [entries EXCEPT ![key].hits = @ + 1] ELSE entries

(* A hit is credited to its key alone.                                     *)
LEMMA HitCounts ==
    ASSUME NEW ms, NEW mb, Limits(ms, mb), NEW p, Proper(p), NEW key,
           NEW q, q = Policy(ms, mb)!AddHit(p, key)
    PROVE  /\ Proper(q)
           /\ q.entries = Bumped(p.entries, key)
           /\ q.nbytes = p.nbytes
<1>1. CASE key \notin DOMAIN p.entries
  BY <1>1 DEF Policy!AddHit, Policy!Resident, Bumped
<1>2. CASE key \in DOMAIN p.entries
  <2>1. q = [p EXCEPT !.entries[key].hits = @ + 1]
    BY <1>2 DEF Policy!AddHit, Policy!Resident
  <2>2. /\ DOMAIN q = PolicyFields
        /\ q.entries = [p.entries EXCEPT ![key].hits = @ + 1]
        /\ q.buckets = p.buckets /\ q.older = p.older /\ q.opened = p.opened
        /\ q.nbytes = p.nbytes
    BY <2>1 DEF Proper, PolicyFields
  <2>3. /\ DOMAIN q.entries = DOMAIN p.entries
        /\ \A k \in DOMAIN p.entries : /\ q.entries[k] \in EntryStates
                                       /\ q.entries[k].role = p.entries[k].role
    BY <2>2 DEF Proper, EntryStates
  <2>4. q.entries \in [DOMAIN q.entries -> EntryStates]
    BY <2>2, <2>3
  <2>5. q.buckets = [r \in Roles |-> {k \in DOMAIN q.entries : q.entries[k].role = r}]
    BY <2>2, <2>3 DEF Proper
  <2>6. QED
    BY <1>2, <2>2, <2>4, <2>5 DEF Proper, Bumped
<1>3. QED
  BY <1>1, <1>2

-----------------------------------------------------------------------------
(* The driver.                                                             *)

DriverFields == {"limits", "policy", "rows", "armed"}

\* It stores what its policy lists, each key with the payload of its tokens.
Able(d, ms, mb) ==
    /\ DOMAIN d = DriverFields
    /\ d.limits = <<ms, mb>>
    /\ Proper(d.policy)
    /\ d.rows = [k \in DOMAIN d.policy.entries |-> k.tokens]

\* What a call must be to be an admission that is not to fail.
Admits(step) == step.call \in {"seed", "admit"}

Sized(step, mb) == step.role \in SuiteRoles /\ step.nbytes \in 1 .. mb

Unarmed(d) == d.armed = FALSE

StepKey(step) == KeyOf(step.domain, step.tokens)

Predecessor(step) ==
    IF step.predecessor = None \/ fault = "keeps_predecessor"
    THEN None ELSE KeyOf(step.domain, step.predecessor)

Planned(d, ms, mb, step) ==
    Policy(ms, mb)!PlanAdmission(d.policy, StepKey(step), step.role, step.nbytes,
                                 Predecessor(step))

\* What an admission evicts whatever there is room for.
Forced(d, ms, mb, step) ==
    Policy(ms, mb)!StableRotation(d.policy, StepKey(step), step.role)
    \cup Policy(ms, mb)!ActivePredecessor(d.policy, StepKey(step), step.role,
                                          Predecessor(step))

(* A seed or an admission shows that it was admitted.                      *)
LEMMA PerformAdmission ==
    ASSUME NEW d, NEW step, step.call \in {"seed", "admit"}
    PROVE  /\ Perform(d, step).ok <=> Admission(d, step).result = "admitted"
           /\ Perform(d, step).driver = Admission(d, step).driver
  BY DEF Perform, Shown

(* An accepted plan is carried out, in the policy and in the storage.      *)
LEMMA AdmissionStores ==
    ASSUME NEW ms, NEW mb, Limits(ms, mb), NEW d, Able(d, ms, mb), Unarmed(d),
           NEW step, Admits(step), NEW gone,
           Accepts(Planned(d, ms, mb, step), StepKey(step),
                   step.role, step.nbytes, gone),
           NEW e, e = Perform(d, step).driver
    PROVE  /\ Perform(d, step).ok
           /\ Able(e, ms, mb) /\ Unarmed(e)
           /\ e.policy.entries = Joined(d.policy.entries, StepKey(step),
                                        step.role, step.nbytes, gone)
           /\ e.policy.nbytes = d.policy.nbytes
                  - Policy(ms, mb)!Bytes(d.policy,
                        (gone \cup {StepKey(step)})
                            \cap DOMAIN d.policy.entries)
                  + step.nbytes
<1> DEFINE key == StepKey(step)
           plan == Planned(d, ms, mb, step)
           q == Policy(ms, mb)!Commit(d.policy, plan)
           rows == [k \in (DOMAIN d.rows \ (gone \cup {key})) \cup {key} |->
                       IF k = key THEN step.tokens ELSE d.rows[k]]
<1>1. Admission(d, step) = [result |-> "admitted",
                            driver |-> [d EXCEPT !.policy = q, !.rows = rows]]
  <2>1. d.limits[1] = ms /\ d.limits[2] = mb
    BY DEF Able
  <2>2. plan.accepted /\ DOMAIN plan.evictions = gone
    BY DEF Accepts
  <2>3. QED
    BY <2>1, <2>2 DEF Admission, Planned, Predecessor, StepKey, Unarmed
<1> HIDE DEF key, plan, q, rows
<1>2. Perform(d, step).ok /\ e = [d EXCEPT !.policy = q, !.rows = rows]
  <2>1. /\ Admission(d, step).result = "admitted"
        /\ Admission(d, step).driver = [d EXCEPT !.policy = q, !.rows = rows]
    BY <1>1
  <2>2. QED
    BY <2>1, PerformAdmission DEF Admits
<1>3. /\ e.policy = q /\ e.rows = rows /\ Unarmed(e) /\ e.limits = d.limits
      /\ DOMAIN e = DriverFields
  <2>1. DOMAIN d = DriverFields
    BY DEF Able
  <2>2. QED
    BY <1>2, <2>1 DEF DriverFields, Unarmed
<1>4. /\ Proper(q)
      /\ q.entries = Joined(d.policy.entries, key, step.role, step.nbytes, gone)
      /\ q.nbytes = d.policy.nbytes
             - Policy(ms, mb)!Bytes(d.policy, (gone \cup {key}) \cap DOMAIN d.policy.entries)
             + step.nbytes
  <2>1. Proper(d.policy)
    BY DEF Able
  <2>2. Accepts(plan, key, step.role, step.nbytes, gone)
    BY DEF plan, key
  <2>3. q = Policy(ms, mb)!Commit(d.policy, plan)
    BY DEF q
  <2>4. QED
    <3>1. plan.nbytes = step.nbytes
      BY <2>2 DEF Accepts
    <3>2. QED
      BY <2>1, <2>2, <3>1, CommitStores DEF q
<1>5. rows = [k \in DOMAIN q.entries |-> k.tokens]
  <2>1. key.tokens = step.tokens
    BY DEF key, StepKey, KeyOf
  <2>2. DOMAIN d.rows = DOMAIN d.policy.entries
        /\ \A k \in DOMAIN d.policy.entries : d.rows[k] = k.tokens
    BY DEF Able
  <2>3. DOMAIN q.entries = (DOMAIN d.policy.entries \ gone) \cup {key}
    BY <1>4 DEF Joined
  <2>4. QED
    BY <2>1, <2>2, <2>3 DEF rows
<1>6. Able(e, ms, mb)
  BY <1>3, <1>4, <1>5 DEF Able
<1>7. QED
  BY <1>2, <1>3, <1>4, <1>6 DEF key

\* The driver has no failure armed and holds these keys and bytes.
Holds(d, ms, mb, keys, total) ==
    /\ Able(d, ms, mb)
    /\ Unarmed(d)
    /\ DOMAIN d.policy.entries = keys
    /\ d.policy.nbytes = total
    /\ total \in Int

\* It holds an entry of this key, role and size, with no hit yet.
Fresh(d, key, role, nbytes) ==
    d.policy.entries[key] = [role |-> role, nbytes |-> nbytes, hits |-> 0]

\* It still holds these entries as they were.
Kept(d, e, keys) == \A k \in keys : e.policy.entries[k] = d.policy.entries[k]

(* A new driver holds nothing.                                             *)
LEMMA NewDrivers ==
    ASSUME NEW limits, NEW ms, NEW mb, Limits(ms, mb), Enforced(limits) = <<ms, mb>>
    PROVE  Holds(NewDriver(limits), ms, mb, {}, 0)
<1> DEFINE d == NewDriver(limits)
<1>1. /\ DOMAIN d = DriverFields
      /\ d.limits = <<ms, mb>> /\ Unarmed(d)
      /\ d.policy = Policy(limits[1], limits[2])!EmptyPolicy
      /\ d.rows = [k \in {} |-> None]
  BY DEF NewDriver, DriverFields, Unarmed
<1> HIDE DEF d
<1>2. /\ DOMAIN d.policy = PolicyFields
      /\ d.policy.entries = [k \in {} |-> [role |-> "", nbytes |-> 0, hits |-> 0]]
      /\ d.policy.buckets = [r \in Roles |-> {}]
      /\ d.policy.older = {} /\ d.policy.nbytes = 0
      /\ d.policy.opened = [r \in Roles |-> 0]
  BY <1>1 DEF Policy!EmptyPolicy, PolicyFields
<1>3. DOMAIN d.policy.entries = {}
  BY <1>2
<1>4. d.policy.entries \in [DOMAIN d.policy.entries -> EntryStates]
  BY <1>2
<1>5. d.policy.buckets =
          [r \in Roles |-> {k \in DOMAIN d.policy.entries : d.policy.entries[k].role = r}]
  BY <1>2, <1>3
<1>6. Proper(d.policy)
  BY <1>2, <1>4, <1>5 DEF Proper
<1>7. d.rows = [k \in DOMAIN d.policy.entries |-> k.tokens]
  BY <1>1, <1>3
<1>8. QED
  BY <1>1, <1>2, <1>3, <1>6, <1>7 DEF Holds, Able, d

(* PlanFits, for the plan of a step.                                       *)
LEMMA AdmissionPlanned ==
    ASSUME NEW ms, NEW mb, Limits(ms, mb), NEW d, Able(d, ms, mb),
           NEW step, Sized(step, mb), NEW forced, forced = Forced(d, ms, mb, step),
           Beside(d.policy, ms, mb,
                  DOMAIN d.policy.entries \ (forced \cup {StepKey(step)}), step.nbytes)
    PROVE  Accepts(Planned(d, ms, mb, step), StepKey(step), step.role, step.nbytes, forced)
<1> DEFINE p == d.policy
           key == StepKey(step)
           pred == Predecessor(step)
           nb == step.nbytes
<1>1. Proper(p)
  BY DEF Able
<1>2. nb \in 1 .. mb /\ step.role \in SuiteRoles
  BY DEF Sized
<1>3. forced = Policy(ms, mb)!StableRotation(p, key, step.role)
               \cup Policy(ms, mb)!ActivePredecessor(p, key, step.role, pred)
  BY DEF Forced
<1>4. Beside(p, ms, mb, DOMAIN p.entries \ (forced \cup {key}), nb)
  OBVIOUS
<1> HIDE DEF p, key, pred, nb
<1>5. Accepts(Policy(ms, mb)!PlanAdmission(p, key, step.role, nb, pred),
              key, step.role, nb, forced)
  BY <1>1, <1>2, <1>3, <1>4, PlanFits
<1>6. QED
  BY <1>5 DEF Planned, p, key, pred, nb

\* The bytes that go with the entries an admission evicts, at most one.
Frees(d, mb, gone, freed) ==
    /\ gone \subseteq DOMAIN d.policy.entries
    /\ \/ gone = {} /\ freed = 0
       \/ \E k : /\ gone = {k}
                 /\ d.policy.entries[k].nbytes = freed
                 /\ freed \in 0 .. mb

(* After an admission the driver holds the newcomer and what was not evicted.*)
LEMMA AdmissionHolds ==
    ASSUME NEW ms, NEW mb, Limits(ms, mb), NEW d, NEW keys, NEW total,
           Holds(d, ms, mb, keys, total), NEW step, Admits(step), Sized(step, mb),
           NEW gone, Accepts(Planned(d, ms, mb, step), StepKey(step), step.role,
                             step.nbytes, gone),
           StepKey(step) \notin keys, NEW freed, Frees(d, mb, gone, freed),
           NEW e, e = Perform(d, step).driver
    PROVE  /\ Perform(d, step).ok
           /\ Holds(e, ms, mb, (keys \ gone) \cup {StepKey(step)},
                    total - freed + step.nbytes)
           /\ Fresh(e, StepKey(step), step.role, step.nbytes)
           /\ Kept(d, e, keys \ gone)
<1>1. Able(d, ms, mb) /\ Unarmed(d)
  BY DEF Holds
<1>2. DOMAIN d.policy.entries = keys /\ d.policy.nbytes = total
  BY DEF Holds
<1>3. /\ Perform(d, step).ok
      /\ Able(e, ms, mb) /\ Unarmed(e)
      /\ e.policy.entries =
             Joined(d.policy.entries, StepKey(step), step.role, step.nbytes, gone)
      /\ e.policy.nbytes = d.policy.nbytes
             - Policy(ms, mb)!Bytes(d.policy,
                   (gone \cup {StepKey(step)}) \cap DOMAIN d.policy.entries)
             + step.nbytes
  BY <1>1, AdmissionStores
<1>4. Policy(ms, mb)!Bytes(d.policy,
          (gone \cup {StepKey(step)}) \cap DOMAIN d.policy.entries) = freed
  <2>1. (gone \cup {StepKey(step)}) \cap DOMAIN d.policy.entries = gone
    BY <1>2 DEF Frees
  <2>2. CASE gone = {} /\ freed = 0
    BY <2>1, <2>2, NoBytes
  <2>3. CASE \E k : /\ gone = {k}
                    /\ d.policy.entries[k].nbytes = freed
                    /\ freed \in 0 .. mb
    <3>1. PICK k : /\ gone = {k}
                   /\ d.policy.entries[k].nbytes = freed
                   /\ freed \in 0 .. mb
      BY <2>3
    <3>2. Policy(ms, mb)!Bytes(d.policy, {k}) = freed
      <4> DEFINE p == d.policy
      <4>1. p.entries[k].nbytes \in 0 .. mb
        BY <3>1
      <4> HIDE DEF p
      <4>2. Policy(ms, mb)!Bytes(p, {k}) = p.entries[k].nbytes
        BY <4>1, BytesOf
      <4>3. QED
        BY <3>1, <4>2 DEF p
    <3>3. QED
      BY <2>1, <3>1, <3>2
  <2>4. QED
    BY <2>2, <2>3 DEF Frees
<1>5. e.policy.nbytes = total - freed + step.nbytes /\ total - freed + step.nbytes \in Int
  <2>1. e.policy.nbytes = total - freed + step.nbytes
    BY <1>2, <1>3, <1>4
  <2>2. total \in Int /\ freed \in Int /\ step.nbytes \in Int
    BY DEF Holds, Frees, Sized, Limits
  <2>3. QED
    BY <2>1, <2>2
<1>6. /\ DOMAIN e.policy.entries = (keys \ gone) \cup {StepKey(step)}
      /\ Fresh(e, StepKey(step), step.role, step.nbytes)
      /\ Kept(d, e, keys \ gone)
  BY <1>2, <1>3 DEF Fresh, Joined, Kept
<1>7. QED
  BY <1>3, <1>5, <1>6 DEF Holds

(* The first admission of a case.                                          *)
LEMMA FirstAdmission ==
    ASSUME NEW ms, NEW mb, Limits(ms, mb), NEW d, Holds(d, ms, mb, {}, 0),
           NEW step, Admits(step), Sized(step, mb), NEW e, e = Perform(d, step).driver
    PROVE  /\ Perform(d, step).ok
           /\ Holds(e, ms, mb, {StepKey(step)}, step.nbytes)
           /\ Fresh(e, StepKey(step), step.role, step.nbytes)
<1> DEFINE none == {}
<1>1. Able(d, ms, mb) /\ DOMAIN d.policy.entries = none
  BY DEF Holds
<1>2. none = Forced(d, ms, mb, step)
  <2>1. "stable" \in Roles
    BY SuiteAssumption
  <2>2. d.policy.buckets["stable"] = {}
    BY <1>1, <2>1 DEF Able, Proper
  <2>3. QED
    BY <1>1, <2>2
    DEF Forced, Policy!StableRotation, Policy!ActivePredecessor, Policy!Resident
<1>3. Beside(d.policy, ms, mb, DOMAIN d.policy.entries \ (none \cup {StepKey(step)}),
             step.nbytes)
  BY <1>1 DEF Beside
<1>4. Frees(d, mb, none, 0) /\ StepKey(step) \notin none
  BY DEF Frees
<1>5. step.nbytes \in Nat
  BY DEF Sized, Limits
<1>6. Holds(d, ms, mb, none, 0)
  OBVIOUS
<1>7. none \ none = none /\ none \cup {StepKey(step)} = {StepKey(step)}
  OBVIOUS
<1> HIDE DEF none
<1>8. Accepts(Planned(d, ms, mb, step), StepKey(step), step.role, step.nbytes, none)
  BY <1>1, <1>2, <1>3, AdmissionPlanned
<1>9. /\ Perform(d, step).ok
      /\ Holds(e, ms, mb, (none \ none) \cup {StepKey(step)}, 0 - 0 + step.nbytes)
      /\ Fresh(e, StepKey(step), step.role, step.nbytes)
  BY <1>4, <1>6, <1>8, AdmissionHolds
<1>10. QED
  BY <1>5, <1>7, <1>9

(* The second one, beside the first.                                       *)
LEMMA SecondAdmission ==
    ASSUME NEW ms, NEW mb, Limits(ms, mb), NEW d, NEW k1, NEW total,
           Holds(d, ms, mb, {k1}, total), NEW role1, NEW size1, Fresh(d, k1, role1, size1),
           NEW step, Admits(step), Sized(step, mb), StepKey(step) # k1,
           step.role # "stable", role1 # "active",
           Beside(d.policy, ms, mb, {k1}, step.nbytes),
           NEW e, e = Perform(d, step).driver
    PROVE  /\ Perform(d, step).ok
           /\ Holds(e, ms, mb, {k1, StepKey(step)}, total + step.nbytes)
           /\ Fresh(e, k1, role1, size1)
           /\ Fresh(e, StepKey(step), step.role, step.nbytes)
<1> DEFINE none == {}
           one == {k1}
<1>1. Able(d, ms, mb) /\ DOMAIN d.policy.entries = one
  BY DEF Holds
<1>2. none = Forced(d, ms, mb, step)
  BY <1>1 DEF Fresh, Forced, Policy!StableRotation, Policy!ActivePredecessor,
              Policy!Resident
<1>3. Beside(d.policy, ms, mb, DOMAIN d.policy.entries \ (none \cup {StepKey(step)}),
             step.nbytes)
  <2>1. DOMAIN d.policy.entries \ (none \cup {StepKey(step)}) = {k1}
    BY <1>1
  <2>2. QED
    BY <2>1
<1>4. Frees(d, mb, none, 0) /\ StepKey(step) \notin one
  BY DEF Frees
<1>6. Holds(d, ms, mb, one, total)
  OBVIOUS
<1>7. one \ none = one /\ one \cup {StepKey(step)} = {k1, StepKey(step)} /\ k1 \in one
  OBVIOUS
<1>11. total \in Int
  BY DEF Holds
<1> HIDE DEF none, one
<1>8. Accepts(Planned(d, ms, mb, step), StepKey(step), step.role, step.nbytes, none)
  BY <1>1, <1>2, <1>3, AdmissionPlanned
<1>9. /\ Perform(d, step).ok
      /\ Holds(e, ms, mb, (one \ none) \cup {StepKey(step)}, total - 0 + step.nbytes)
      /\ Fresh(e, StepKey(step), step.role, step.nbytes)
      /\ Kept(d, e, one \ none)
  BY <1>4, <1>6, <1>8, AdmissionHolds
<1>10. total - 0 + step.nbytes = total + step.nbytes
  BY <1>11
<1>12. Fresh(e, k1, role1, size1)
  BY <1>7, <1>9 DEF Fresh, Kept
<1>13. QED
  BY <1>7, <1>9, <1>10, <1>12

-----------------------------------------------------------------------------
(* Keys, and an active successor beside a third entry.                     *)

(* Keys differ by their tokens, and by their domains in a sound driver.    *)
LEMMA KeysOf ==
    ASSUME NEW domain, NEW tokens
    PROVE  /\ KeyOf(domain, tokens).tokens = tokens
           /\ \A other : KeyOf(other, tokens).namespace = KeyOf(domain, tokens).namespace
                  => fault = "one_identity" \/ other = domain
  BY DEF KeyOf, CacheNamespace

(* Keys extend each other as their tokens do.                              *)
LEMMA KeyExtends ==
    ASSUME NEW ms, NEW mb, NEW domain, NEW short \in Seq(Nat), NEW long \in Seq(Nat),
           Len(short) < Len(long), \A i \in 1 .. Len(short) : long[i] = short[i]
    PROVE  Policy(ms, mb)!Extends(KeyOf(domain, long), KeyOf(domain, short))
<1>1. DOMAIN short = 1 .. Len(short) /\ DOMAIN long = 1 .. Len(long)
  OBVIOUS
<1>2. /\ Cardinality(DOMAIN short) = Len(short)
      /\ Cardinality(DOMAIN long) = Len(long)
  <2> DEFINE n == Len(short)
             m == Len(long)
  <2>1. n \in Nat /\ m \in Nat
    OBVIOUS
  <2>2. DOMAIN short = 1 .. n /\ DOMAIN long = 1 .. m
    BY <1>1
  <2> HIDE DEF n, m
  <2>3. Cardinality(DOMAIN short) = n /\ Cardinality(DOMAIN long) = m
    BY <2>1, <2>2, UpTo
  <2>4. QED
    BY <2>3 DEF n, m
<1>3. /\ Policy(ms, mb)!Length(KeyOf(domain, short)) = Len(short)
      /\ Policy(ms, mb)!Length(KeyOf(domain, long)) = Len(long)
  BY <1>2, SameCardinality DEF Policy!Length, KeyOf
<1>4. QED
  BY <1>1, <1>3 DEF Policy!Extends, KeyOf

\* The entry that step succeeds.
Succeeds(ms, mb, step, key) ==
    /\ step.role = "active"
    /\ Predecessor(step) = key
    /\ Policy(ms, mb)!Extends(StepKey(step), key)

(* An active successor evicts its predecessor, and that alone.             *)
LEMMA ForcedOut ==
    ASSUME NEW ms, NEW mb, NEW d, NEW k1, k1 \in DOMAIN d.policy.entries,
           NEW size1, Fresh(d, k1, "active", size1),
           NEW step, Succeeds(ms, mb, step, k1)
    PROVE  Forced(d, ms, mb, step) = {k1}
  BY DEF Fresh, Succeeds, Forced, Policy!StableRotation, Policy!ActivePredecessor,
         Policy!Resident

Within(nbytes, mb) == nbytes \in 0 .. mb

(* It takes the place of its predecessor beside a third entry.             *)
LEMMA SuccessorStays ==
    ASSUME NEW ms, NEW mb, Limits(ms, mb), NEW d, NEW k1, NEW k2, k1 # k2, NEW total,
           Holds(d, ms, mb, {k1, k2}, total),
           NEW size2, Fresh(d, k2, "active", size2), Within(size2, mb),
           NEW step, Admits(step), Sized(step, mb), Succeeds(ms, mb, step, k2),
           StepKey(step) # k1, StepKey(step) # k2,
           Beside(d.policy, ms, mb, {k1}, step.nbytes),
           NEW e, e = Perform(d, step).driver
    PROVE  /\ Perform(d, step).ok
           /\ Holds(e, ms, mb, {k1, StepKey(step)}, total - size2 + step.nbytes)
<1> DEFINE gone == {k2}
           both == {k1, k2}
<1>1. Able(d, ms, mb) /\ DOMAIN d.policy.entries = both
  BY DEF Holds
<1>2. gone = Forced(d, ms, mb, step)
  BY <1>1, ForcedOut
<1>3. Beside(d.policy, ms, mb, DOMAIN d.policy.entries \ (gone \cup {StepKey(step)}),
             step.nbytes)
  <2>1. DOMAIN d.policy.entries \ (gone \cup {StepKey(step)}) = {k1}
    BY <1>1
  <2>2. QED
    BY <2>1
<1>4. Frees(d, mb, gone, size2) /\ StepKey(step) \notin both
  BY <1>1 DEF Frees, Fresh, Within
<1>6. Holds(d, ms, mb, both, total)
  OBVIOUS
<1>7. (both \ gone) \cup {StepKey(step)} = {k1, StepKey(step)}
  OBVIOUS
<1> HIDE DEF gone, both
<1>8. Accepts(Planned(d, ms, mb, step), StepKey(step), step.role, step.nbytes, gone)
  BY <1>1, <1>2, <1>3, AdmissionPlanned
<1>9. /\ Perform(d, step).ok
      /\ Holds(e, ms, mb, (both \ gone) \cup {StepKey(step)}, total - size2 + step.nbytes)
  BY <1>4, <1>6, <1>8, AdmissionHolds
<1>10. QED
  BY <1>7, <1>9

-----------------------------------------------------------------------------
(* Lookups.                                                                *)

\* The prompt of a lookup, and a length at which it can be cut.
Prompt(tokens) == tokens \in Seq(Nat)

Cut(tokens, n) == n \in 1 .. Len(tokens)

Prefix(tokens, n) == SubSeq(tokens, 1, n)

(* A cut of a prompt is a prompt.                                          *)
LEMMA Prefixes ==
    ASSUME NEW tokens, Prompt(tokens), NEW n, Cut(tokens, n)
    PROVE  /\ SubSeq(tokens, 1, n) \in Seq(Nat)
           /\ Len(SubSeq(tokens, 1, n)) = n
           /\ Suffix(tokens, n) \in Seq(Nat)
           /\ Len(Suffix(tokens, n)) = Len(tokens) - n
           /\ SubSeq(tokens, 1, n) # None
<1>1. /\ SubSeq(tokens, 1, n) \in Seq(Nat)
      /\ Len(SubSeq(tokens, 1, n)) = n
      /\ Suffix(tokens, n) \in Seq(Nat)
      /\ Len(Suffix(tokens, n)) = Len(tokens) - n
  BY DEF Prompt, Cut, Suffix
<1>2. QED
  BY <1>1, SuiteAssumption

\* What a lookup finds when the longest stored prefix has length n.
Found(tokens, n) ==
    [cache |-> IF fault = "wrong_payload" THEN <<>> ELSE SubSeq(tokens, 1, n),
     rest |-> Suffix(tokens, n)]

\* The entries of domain are no longer than n.
NoLonger(d, n) ==
    \A k \in DOMAIN d.policy.entries : k.tokens \in Seq(Nat) /\ Len(k.tokens) <= n

\* Nothing stored is a longer prefix of tokens.
Longest(d, tokens, n) ==
    n = Len(tokens) \/ (fault # "exact_only" /\ NoLonger(d, n))

(* A lookup finds the longest stored prefix.                               *)
LEMMA NearestFinds ==
    ASSUME NEW ms, NEW mb, NEW d, Able(d, ms, mb), NEW domain,
           NEW tokens, Prompt(tokens), NEW n, Cut(tokens, n),
           KeyOf(domain, Prefix(tokens, n)) \in DOMAIN d.policy.entries,
           Longest(d, tokens, n)
    PROVE  Nearest(d, domain, tokens) = Found(tokens, n)
<1> DEFINE stored == {m \in 1 .. Len(tokens) :
               /\ fault = "exact_only" => m = Len(tokens)
               /\ KeyOf(domain, SubSeq(tokens, 1, m)) \in DOMAIN d.rows}
           longest == CHOOSE m \in stored : \A i \in stored : i <= m
<1>1. DOMAIN d.rows = DOMAIN d.policy.entries
      /\ \A k \in DOMAIN d.policy.entries : d.rows[k] = k.tokens
  BY DEF Able
<1>2. n \in stored
  BY <1>1 DEF Cut, Longest, Prefix
<1>3. \A m \in stored : m <= n
  <2>1. TAKE m \in stored
  <2>2. Cut(tokens, m)
    BY DEF Cut
  <2>3. Len(SubSeq(tokens, 1, m)) = m
    BY <2>2, Prefixes
  <2>6. CASE n = Len(tokens)
    BY <2>1, <2>6
  <2>4. ASSUME NoLonger(d, n)
        PROVE  Len(SubSeq(tokens, 1, m)) <= n
    <3> DEFINE prefix == SubSeq(tokens, 1, m)
    <3>1. KeyOf(domain, prefix) \in DOMAIN d.policy.entries
      BY <1>1
    <3> HIDE DEF prefix
    <3>2. KeyOf(domain, prefix).tokens = prefix
      BY KeysOf
    <3>3. Len(prefix) <= n
      BY <2>4, <3>1, <3>2 DEF NoLonger
    <3>4. QED
      BY <3>3 DEF prefix
  <2>5. QED
    BY <2>3, <2>4, <2>6 DEF Longest
<1>4. longest = n
  <2>1. longest \in stored /\ \A i \in stored : i <= longest
    BY <1>2, <1>3
  <2>2. longest <= n /\ n <= longest
    BY <1>2, <1>3, <2>1
  <2>3. longest \in Nat /\ n \in Nat
    BY <1>2, <2>1
  <2>4. QED
    BY <2>2, <2>3
<1>5. stored # {}
  BY <1>2
<1>6. d.rows[KeyOf(domain, SubSeq(tokens, 1, n))] = SubSeq(tokens, 1, n)
  BY <1>1, KeysOf DEF Prefix
<1>7. Nearest(d, domain, tokens) =
          [cache |-> IF fault = "wrong_payload" THEN <<>>
                     ELSE d.rows[KeyOf(domain, SubSeq(tokens, 1, longest))],
           rest |-> Suffix(tokens, longest)]
  BY <1>5 DEF Nearest
<1> HIDE DEF longest
<1>8. QED
  BY <1>4, <1>6, <1>7 DEF Found

Missed(tokens) == [cache |-> None, rest |-> tokens]

(* A lookup misses when no prefix is stored.                               *)
LEMMA NearestMisses ==
    ASSUME NEW ms, NEW mb, NEW d, Able(d, ms, mb), NEW domain, NEW tokens,
           \A n \in 1 .. Len(tokens) :
               \/ fault = "exact_only" /\ n # Len(tokens)
               \/ KeyOf(domain, SubSeq(tokens, 1, n)) \notin DOMAIN d.policy.entries
    PROVE  Nearest(d, domain, tokens) = Missed(tokens)
<1>1. DOMAIN d.rows = DOMAIN d.policy.entries
  BY DEF Able
<1>2. {n \in 1 .. Len(tokens) :
            /\ fault = "exact_only" => n = Len(tokens)
            /\ KeyOf(domain, SubSeq(tokens, 1, n)) \in DOMAIN d.rows} = {}
  BY <1>1
<1>3. QED
  BY <1>2 DEF Nearest, Missed

(* A miss is observed as one.                                              *)
LEMMA ObservedMiss ==
    ASSUME NEW domain, NEW tokens, Prompt(tokens),
           NEW found, found = Missed(tokens)
    PROVE  /\ ~Observed(domain, tokens, found).refused
           /\ Observed(domain, tokens, found).matched = <<>>
           /\ ~Hit(Observed(domain, tokens, found))
<1>1. Len(tokens) \in Nat /\ tokens \in Seq(Nat)
  BY DEF Prompt
<1>2. Suffix(tokens, 0) = tokens
  <2> DEFINE all == Suffix(tokens, 0)
  <2>1. all \in Seq(Nat) /\ Len(all) = Len(tokens) /\ \A i \in 1 .. Len(all) : all[i] = tokens[i]
    BY <1>1 DEF Suffix
  <2> HIDE DEF all
  <2>2. all = tokens
    BY <1>1, <2>1, EqualSequences
  <2>3. QED
    BY <2>2 DEF all
<1>3. SubSeq(tokens, 1, 0) = <<>>
  BY <1>1
<1>4. Len(tokens) - Len(tokens) = 0
  BY <1>1
<1>5. QED
  BY <1>2, <1>3, <1>4 DEF Missed, Observed, FromBackendResult, Hit

Seen(domain, tokens, n, payload) ==
    [refused |-> FALSE, namespace |-> CacheNamespace("model", domain),
     prompt |-> tokens, remaining |-> Suffix(tokens, n), payload |-> payload,
     matched |-> SubSeq(tokens, 1, n)]

(* A stored prefix is observed with its payload, and refused without one.  *)
LEMMA ObservedPrefix ==
    ASSUME NEW domain, NEW tokens, Prompt(tokens), NEW n, Cut(tokens, n), NEW payload
    PROVE  Observed(domain, tokens, [cache |-> payload, rest |-> Suffix(tokens, n)])
               = IF payload = None THEN Refused ELSE Seen(domain, tokens, n, payload)
<1>1. Len(tokens) - Len(Suffix(tokens, n)) = n /\ n >= 0 /\ n # 0
  <2>1. Len(Suffix(tokens, n)) = Len(tokens) - n
    BY Prefixes
  <2>2. QED
    BY <2>1 DEF Prompt, Cut
<1>2. QED
  BY <1>1 DEF Observed, FromBackendResult, Seen

-----------------------------------------------------------------------------
(* What each call shows.                                                   *)

(* Two domains give two keys in a sound driver.                            *)
LEMMA PerformIdentity ==
    ASSUME NEW d, fault # "one_identity"
    PROVE  Perform(d, Identity).ok
<1>1. KeyOf("tenant-a", <<1, 2, 3>>) # KeyOf("tenant-b", <<1, 2, 3>>)
  BY DEF KeyOf, CacheNamespace
<1>2. QED
  BY <1>1 DEF Perform, Identity, Shown

(* They give one key with the fault.                                       *)
LEMMA PerformIdentityFails ==
    ASSUME NEW d, fault = "one_identity"
    PROVE  ~Perform(d, Identity).ok
<1>1. KeyOf("tenant-a", <<1, 2, 3>>) = KeyOf("tenant-b", <<1, 2, 3>>)
  BY DEF KeyOf
<1>2. QED
  BY <1>1 DEF Perform, Identity, Shown

\* The two ways to look for an entry.
Present(tokens) == Contains(tokens, TRUE)
Absent(tokens) == Contains(tokens, FALSE)

(* Asking for an entry changes nothing and shows what the policy lists.    *)
LEMMA PerformContains ==
    ASSUME NEW d, NEW tokens
    PROVE  /\ Perform(d, Present(tokens)).driver = d
           /\ Perform(d, Absent(tokens)).driver = d
           /\ Perform(d, Present(tokens)).ok
                  <=> KeyOf("tenant-a", tokens) \in DOMAIN d.policy.entries
           /\ Perform(d, Absent(tokens)).ok
                  <=> KeyOf("tenant-a", tokens) \notin DOMAIN d.policy.entries
<1>1. ASSUME NEW resident
      PROVE  /\ Perform(d, Contains(tokens, resident)).driver = d
             /\ Perform(d, Contains(tokens, resident)).ok
                    = (resident = (KeyOf("tenant-a", tokens) \in DOMAIN d.policy.entries))
  BY DEF Perform, Contains, Shown
<1> DEFINE member == KeyOf("tenant-a", tokens) \in DOMAIN d.policy.entries
<1>2. /\ Perform(d, Present(tokens)).ok = (TRUE = member)
      /\ Perform(d, Absent(tokens)).ok = (FALSE = member)
  BY <1>1 DEF Present, Absent
<1>3. member \in BOOLEAN
  OBVIOUS
<1> HIDE DEF member
<1>4. /\ (TRUE = member) = member
      /\ (FALSE = member) = ~member
  BY <1>3
<1>5. /\ Perform(d, Present(tokens)).ok <=> member
      /\ Perform(d, Absent(tokens)).ok <=> ~member
  BY <1>2, <1>4
<1>6. QED
  BY <1>1, <1>5 DEF member, Present, Absent

(* So does measuring the residents.                                        *)
LEMMA PerformMeasures ==
    ASSUME NEW d, NEW counts, NEW nbytes
    PROVE  /\ Perform(d, Measures(counts, nbytes)).driver = d
           /\ Perform(d, Measures(counts, nbytes)).ok
                  <=> /\ Cardinality(DOMAIN d.policy.entries) \in counts
                      /\ d.policy.nbytes \in nbytes
  BY DEF Perform, Measures, Shown

(* So does asking for the hits of an entry.                                *)
LEMMA PerformCredited ==
    ASSUME NEW d, NEW domain, NEW tokens, NEW hits
    PROVE  /\ Perform(d, Credited(domain, tokens, hits)).driver = d
           /\ Perform(d, Credited(domain, tokens, hits)).ok
                  <=> hits = IF KeyOf(domain, tokens) \in DOMAIN d.policy.entries
                             THEN d.policy.entries[KeyOf(domain, tokens)].hits ELSE None
  BY DEF Perform, Credited, Shown

(* Arming a failure always works.                                          *)
LEMMA PerformArm ==
    ASSUME NEW d
    PROVE  /\ Perform(d, FailNextInsert).ok
           /\ Perform(d, FailNextInsert).driver = [d EXCEPT !.armed = TRUE]
  BY DEF Perform, FailNextInsert, Shown

(* An admission that is to raise shows that it did.                        *)
LEMMA PerformRaises ==
    ASSUME NEW d, NEW step, step.call = "admit_raises"
    PROVE  /\ Perform(d, step).ok <=> Admission(d, step).result = "raised"
           /\ Perform(d, step).driver = Admission(d, step).driver
  BY DEF Perform, Shown

\* What a lookup reports.
LookedUp(d, domain, tokens) == Observed(domain, tokens, Nearest(d, domain, tokens))

\* A lookup that does not look at the payload, and one that does.
Peek(domain, tokens, matched) == Lookup(domain, tokens, matched, FALSE)
Fetch(domain, tokens, matched) == Lookup(domain, tokens, matched, TRUE)

(* A lookup shows what is observed, and credits it.                        *)
LEMMA PerformLookup ==
    ASSUME NEW d, NEW domain, NEW tokens, NEW matched
    PROVE  LET seen == LookedUp(d, domain, tokens)
           IN
           /\ Perform(d, Peek(domain, tokens, matched)).ok
                  <=> ~seen.refused /\ seen.matched = matched
           /\ Perform(d, Fetch(domain, tokens, matched)).ok
                  <=> ~seen.refused /\ seen.matched = matched /\ seen.payload = matched
           /\ ~seen.refused =>
                  Perform(d, Peek(domain, tokens, matched)).driver
                      = AfterLookup(d, domain, seen)
  BY DEF Perform, Lookup, Peek, Fetch, Shown, LookedUp

(* A generation-safe lookup shows that there is a token left.              *)
LEMMA PerformSafe ==
    ASSUME NEW d, NEW domain, NEW tokens, NEW seen, seen = Safe(d, domain, tokens)
    PROVE  Perform(d, GenerationSafeExact(domain, tokens)).ok
               <=> ~seen.refused /\ seen.remaining # <<>>
  BY DEF Perform, GenerationSafeExact, Shown

-----------------------------------------------------------------------------
(* The calls of the cases.                                                 *)

(* The admission that a seed asks for.                                     *)
LEMMA Seeds ==
    ASSUME NEW domain, NEW tokens, NEW role, NEW nbytes
    PROVE  /\ Admits(Seed(domain, tokens, role, nbytes))
           /\ StepKey(Seed(domain, tokens, role, nbytes)) = KeyOf(domain, tokens)
           /\ Seed(domain, tokens, role, nbytes).role = role
           /\ Seed(domain, tokens, role, nbytes).nbytes = nbytes
  BY DEF Admits, StepKey, Seed

(* The admission that an insertion asks for.                               *)
LEMMA Admissions ==
    ASSUME NEW tokens, NEW role, NEW nbytes, NEW predecessor
    PROVE  /\ Admits(Admit(tokens, role, nbytes, predecessor))
           /\ StepKey(Admit(tokens, role, nbytes, predecessor)) = KeyOf("tenant-a", tokens)
           /\ Admit(tokens, role, nbytes, predecessor).role = role
           /\ Admit(tokens, role, nbytes, predecessor).nbytes = nbytes
           /\ predecessor # None /\ fault # "keeps_predecessor" =>
                  Predecessor(Admit(tokens, role, nbytes, predecessor))
                      = KeyOf("tenant-a", predecessor)
  BY DEF Admits, StepKey, Seed, Admit, Predecessor

(* The admission that is to raise.                                         *)
LEMMA RaisingAdmissions ==
    ASSUME NEW tokens, NEW role, NEW nbytes, NEW predecessor
    PROVE  /\ AdmitRaises(tokens, role, nbytes, predecessor).call = "admit_raises"
           /\ StepKey(AdmitRaises(tokens, role, nbytes, predecessor))
                  = KeyOf("tenant-a", tokens)
           /\ AdmitRaises(tokens, role, nbytes, predecessor).role = role
           /\ AdmitRaises(tokens, role, nbytes, predecessor).nbytes = nbytes
           /\ predecessor # None /\ fault # "keeps_predecessor" =>
                  Predecessor(AdmitRaises(tokens, role, nbytes, predecessor))
                      = KeyOf("tenant-a", predecessor)
  BY DEF StepKey, Seed, Admit, AdmitRaises, Predecessor

\* A driver without a limit that a case could meet.
Roomy(ms, mb) == ms \in Nat /\ ms >= 2 /\ mb = 200

Empty(d) == \E ms, mb : Roomy(ms, mb) /\ Holds(d, ms, mb, {}, 0)

HoldsOne(d, key, role, nbytes) ==
    \E ms, mb : /\ Roomy(ms, mb)
                /\ Holds(d, ms, mb, {key}, nbytes)
                /\ Fresh(d, key, role, nbytes)

HoldsTwo(d, first, role1, nbytes1, second, role2, nbytes2) ==
    \E ms, mb : /\ Roomy(ms, mb)
                /\ Holds(d, ms, mb, {first, second}, nbytes1 + nbytes2)
                /\ Fresh(d, first, role1, nbytes1)
                /\ Fresh(d, second, role2, nbytes2)

(* FirstAdmission, for a case without tight limits.                        *)
LEMMA FirstIn ==
    ASSUME NEW d, Empty(d), NEW step, Admits(step), Sized(step, 200)
    PROVE  /\ Perform(d, step).ok
           /\ HoldsOne(Perform(d, step).driver, StepKey(step), step.role, step.nbytes)
<1>1. PICK ms, mb : Roomy(ms, mb) /\ Holds(d, ms, mb, {}, 0)
  BY DEF Empty
<1>2. Limits(ms, mb) /\ Sized(step, mb)
  BY <1>1 DEF Roomy, Limits
<1>3. QED
  BY <1>1, <1>2, FirstAdmission DEF HoldsOne

(* SecondAdmission, for a case without tight limits.                       *)
LEMMA SecondIn ==
    ASSUME NEW d, NEW key, NEW role, NEW nbytes, HoldsOne(d, key, role, nbytes),
           NEW step, Admits(step), Sized(step, 200), StepKey(step) # key,
           step.role # "stable", role # "active", nbytes + step.nbytes <= 200
    PROVE  /\ Perform(d, step).ok
           /\ HoldsTwo(Perform(d, step).driver, key, role, nbytes,
                       StepKey(step), step.role, step.nbytes)
<1>1. PICK ms, mb : /\ Roomy(ms, mb)
                    /\ Holds(d, ms, mb, {key}, nbytes)
                    /\ Fresh(d, key, role, nbytes)
  BY DEF HoldsOne
<1>2. Limits(ms, mb) /\ Sized(step, mb)
  BY <1>1 DEF Roomy, Limits
<1>3. Beside(d.policy, ms, mb, {key}, step.nbytes)
  BY <1>1 DEF Beside, Roomy, Fresh, Holds
<1>4. QED
  BY <1>1, <1>2, <1>3, SecondAdmission DEF HoldsTwo

(* A new driver of such a case, whatever its fault does to the limits.     *)
LEMMA RoomyLimits ==
    ASSUME NEW n, n \in {2, 3, 4}
    PROVE  Empty(NewDriver(<<n, 200>>))
<1> DEFINE limits == <<n, 200>>
<1>1. PICK ms : Roomy(ms, 200) /\ Enforced(limits) = <<ms, 200>>
  <2>1. limits[1] = n /\ limits[2] = 200
    OBVIOUS
  <2>2. Enforced(limits) = <<100, 200>> \/ Enforced(limits) = <<n, 200>>
    BY <2>1 DEF Enforced
  <2>3. Roomy(100, 200) /\ Roomy(n, 200)
    BY DEF Roomy
  <2>4. QED
    BY <2>2, <2>3
<1>2. Limits(ms, 200)
  BY <1>1 DEF Roomy, Limits
<1> HIDE DEF limits
<1>3. Holds(NewDriver(limits), ms, 200, {}, 0)
  BY <1>1, <1>2, NewDrivers
<1>4. QED
  BY <1>1, <1>3 DEF Empty, limits

-----------------------------------------------------------------------------
(* Namespace isolation.                                                    *)

KeyA == KeyOf("tenant-a", <<1, 2, 3>>)

\* The driver before step j of the case, for a fault that does not spoil it.
AtIsolation(j, d) ==
    /\ fault \notin {"one_identity", "exact_only"}
    /\ IF j = 1 THEN Empty(d) ELSE HoldsOne(d, KeyA, "stable", 8)

(* A driver of one entry.                                                  *)
LEMMA HeldAlone ==
    ASSUME NEW d, NEW key, NEW role, NEW nbytes, HoldsOne(d, key, role, nbytes)
    PROVE  \E ms, mb : Able(d, ms, mb) /\ DOMAIN d.policy.entries = {key}
  BY DEF HoldsOne, Holds

(* The isolation case fails for a wrong payload and for nothing else here. *)
LEMMA IsolationRun ==
    ASSUME NEW d, NEW j, j \in {1, 2, 3}, AtIsolation(j, d),
           NEW o, o = Perform(d, NamespaceIsolation.script[j])
    PROVE  /\ ~o.ok => fault = "wrong_payload"
           /\ o.ok /\ j = 3 => fault # "wrong_payload"
           /\ o.ok /\ j # 3 => AtIsolation(j + 1, o.driver)
<1>1. CASE j = 1
  <2> DEFINE step == Seed("tenant-a", <<1, 2, 3>>, "stable", 8)
  <2>1. o = Perform(d, step)
    BY <1>1 DEF NamespaceIsolation, Peek, Fetch
  <2>2. /\ Admits(step) /\ StepKey(step) = KeyA
        /\ step.role = "stable" /\ step.nbytes = 8
    BY Seeds DEF KeyA
  <2> HIDE DEF step
  <2>3. Sized(step, 200)
    BY <2>2 DEF Sized, SuiteRoles
  <2>4. Empty(d)
    BY <1>1 DEF AtIsolation
  <2>5. o.ok /\ HoldsOne(o.driver, KeyA, "stable", 8)
    BY <2>1, <2>2, <2>3, <2>4, FirstIn
  <2>6. QED
    BY <1>1, <2>5 DEF AtIsolation
<1>2. CASE j = 2
  <2> DEFINE tokens == <<1, 2, 3>>
  <2>11. PICK seen : seen = LookedUp(d, "tenant-b", tokens)
    OBVIOUS
  <2>1. o = Perform(d, Peek("tenant-b", tokens, <<>>))
    BY <1>2 DEF NamespaceIsolation, Peek, Fetch
  <2>2. HoldsOne(d, KeyA, "stable", 8)
    BY <1>2 DEF AtIsolation
  <2>3. PICK ms, mb : Able(d, ms, mb) /\ DOMAIN d.policy.entries = {KeyA}
    BY <2>2, HeldAlone
  <2>4. \A other : KeyOf("tenant-b", other) # KeyA
    BY DEF AtIsolation, KeyA, KeyOf, CacheNamespace
  <2>5. Prompt(tokens)
    BY DEF Prompt
  <2> HIDE DEF tokens
  <2>6. Nearest(d, "tenant-b", tokens) = Missed(tokens)
    BY <2>3, <2>4, NearestMisses
  <2>7. ~seen.refused /\ seen.matched = <<>> /\ ~Hit(seen)
    BY <2>5, <2>6, <2>11, ObservedMiss DEF LookedUp
  <2>8. AfterLookup(d, "tenant-b", seen) = d
    BY <2>7 DEF AfterLookup
  <2>9. o.ok /\ o.driver = d
    <3>1. /\ Perform(d, Peek("tenant-b", tokens, <<>>)).ok
                 <=> ~seen.refused /\ seen.matched = <<>>
          /\ ~seen.refused =>
                 Perform(d, Peek("tenant-b", tokens, <<>>)).driver
                     = AfterLookup(d, "tenant-b", seen)
      BY <2>11, PerformLookup
    <3>2. QED
      BY <2>1, <2>7, <2>8, <3>1
  <2>10. QED
    BY <1>2, <2>2, <2>9 DEF AtIsolation
<1>3. CASE j = 3
  <2> DEFINE tokens == <<1, 2, 3>>
  <2>13. PICK seen : seen = LookedUp(d, "tenant-a", tokens)
    OBVIOUS
  <2>1. o = Perform(d, Fetch("tenant-a", tokens, tokens))
    BY <1>3 DEF NamespaceIsolation, Peek, Fetch
  <2>2. HoldsOne(d, KeyA, "stable", 8)
    BY <1>3 DEF AtIsolation
  <2>3. PICK ms, mb : Able(d, ms, mb) /\ DOMAIN d.policy.entries = {KeyA}
    BY <2>2, HeldAlone
  <2>4. /\ Prompt(tokens) /\ Cut(tokens, 3) /\ SubSeq(tokens, 1, 3) = tokens
        /\ Prefix(tokens, 3) = tokens
        /\ Len(tokens) = 3 /\ tokens \in Seq(Nat) /\ tokens # <<>>
    BY Pieces DEF Prompt, Cut, Prefix
  <2>5. KeyA = KeyOf("tenant-a", tokens)
    BY DEF KeyA
  <2> HIDE DEF tokens
  <2>6. Longest(d, tokens, 3)
    BY <2>4 DEF Longest
  <2>7. Nearest(d, "tenant-a", tokens) = Found(tokens, 3)
    BY <2>3, <2>4, <2>5, <2>6, NearestFinds
  <2> DEFINE payload == IF fault = "wrong_payload" THEN <<>> ELSE tokens
  <2>14. Found(tokens, 3) = [cache |-> payload, rest |-> Suffix(tokens, 3)]
    BY <2>4 DEF Found
  <2>15. payload = (IF fault = "wrong_payload" THEN <<>> ELSE tokens)
    OBVIOUS
  <2> HIDE DEF payload
  <2>8. seen = IF payload = None THEN Refused ELSE Seen("tenant-a", tokens, 3, payload)
    BY <2>4, <2>7, <2>13, <2>14, ObservedPrefix DEF LookedUp
  <2>9. fault # "wrong_payload" =>
            ~seen.refused /\ seen.matched = tokens /\ seen.payload = tokens
    BY <2>4, <2>8, <2>15, SuiteAssumption DEF Seen
  <2>10. fault = "wrong_payload" => seen.refused \/ seen.payload # tokens
    BY <2>4, <2>8, <2>15 DEF Seen, Refused
  <2>11. o.ok <=> ~seen.refused /\ seen.matched = tokens /\ seen.payload = tokens
    <3>1. Perform(d, Fetch("tenant-a", tokens, tokens)).ok
              <=> ~seen.refused /\ seen.matched = tokens /\ seen.payload = tokens
      BY <2>13, PerformLookup
    <3>2. QED
      BY <2>1, <3>1
  <2>12. QED
    BY <1>3, <2>9, <2>10, <2>11
<1>4. QED
  BY <1>1, <1>2, <1>3

-----------------------------------------------------------------------------
(* Generation safety.                                                      *)

KeyS == KeyOf(DefaultDomain, <<30, 31>>)
KeyT == KeyOf(DefaultDomain, <<30, 31, 32>>)

\* The driver before step j of the case, for a fault that does not spoil it.
AtSafety(j, d) ==
    /\ fault \notin {"exact_only", "wrong_payload"}
    /\ IF j = 1 THEN Empty(d)
       ELSE IF j = 2 THEN HoldsOne(d, KeyS, "stable", 8)
       ELSE HoldsTwo(d, KeyS, "stable", 8, KeyT, "active", 10)

(* Its two prompts have two keys.                                          *)
LEMMA SafetyKeys == KeyS # KeyT
<1>1. <<30, 31>> # <<30, 31, 32>>
  OBVIOUS
<1>2. QED
  BY <1>1 DEF KeyS, KeyT, KeyOf

(* The generation safety case fails for an empty generation input and for  *)
(* nothing else here.                                                      *)
LEMMA SafetyRun ==
    ASSUME NEW d, NEW j, j \in {1, 2, 3}, AtSafety(j, d),
           NEW o, o = Perform(d, GenerationSafety.script[j])
    PROVE  /\ ~o.ok => fault = "empty_generation_input"
           /\ o.ok /\ j = 3 => fault # "empty_generation_input"
           /\ o.ok /\ j # 3 => AtSafety(j + 1, o.driver)
<1>1. CASE j = 1
  <2> DEFINE step == Seed(DefaultDomain, <<30, 31>>, "stable", 8)
  <2>1. o = Perform(d, step)
    BY <1>1 DEF GenerationSafety
  <2>2. /\ Admits(step) /\ StepKey(step) = KeyS
        /\ step.role = "stable" /\ step.nbytes = 8
    BY Seeds DEF KeyS
  <2> HIDE DEF step
  <2>3. Sized(step, 200)
    BY <2>2 DEF Sized, SuiteRoles
  <2>4. Empty(d)
    BY <1>1 DEF AtSafety
  <2>5. o.ok /\ HoldsOne(o.driver, KeyS, "stable", 8)
    BY <2>1, <2>2, <2>3, <2>4, FirstIn
  <2>6. QED
    BY <1>1, <2>5 DEF AtSafety
<1>2. CASE j = 2
  <2> DEFINE step == Seed(DefaultDomain, <<30, 31, 32>>, "active", 10)
  <2>1. o = Perform(d, step)
    BY <1>2 DEF GenerationSafety
  <2>2. /\ Admits(step) /\ StepKey(step) = KeyT
        /\ step.role = "active" /\ step.nbytes = 10
    BY Seeds DEF KeyT
  <2> HIDE DEF step
  <2>3. Sized(step, 200) /\ step.role # "stable" /\ 8 + step.nbytes <= 200
    BY <2>2 DEF Sized, SuiteRoles
  <2>4. HoldsOne(d, KeyS, "stable", 8)
    BY <1>2 DEF AtSafety
  <2>5. o.ok /\ HoldsTwo(o.driver, KeyS, "stable", 8, KeyT, "active", 10)
    BY <2>1, <2>2, <2>3, <2>4, SecondIn, SafetyKeys
  <2>6. QED
    BY <1>2, <2>5 DEF AtSafety
<1>3. CASE j = 3
  <2> DEFINE tokens == <<30, 31, 32>>
             short == <<30, 31>>
  <2>16. PICK seen : seen = Safe(d, DefaultDomain, tokens)
    OBVIOUS
  <2>1. o = Perform(d, GenerationSafeExact(DefaultDomain, tokens))
    BY <1>3 DEF GenerationSafety
  <2>2. PICK ms, mb : Able(d, ms, mb) /\ DOMAIN d.policy.entries = {KeyS, KeyT}
    BY <1>3 DEF AtSafety, HoldsTwo, Holds
  <2>3. /\ Prompt(tokens) /\ Cut(tokens, 3) /\ SubSeq(tokens, 1, 3) = tokens
        /\ Prefix(tokens, 3) = tokens
        /\ Len(tokens) = 3 /\ tokens \in Seq(Nat) /\ tokens # <<>>
        /\ Cut(tokens, 2) /\ SubSeq(tokens, 1, 2) = short
        /\ tokens[3] = 32 /\ Suffix(tokens, 2) = <<32>>
    BY Pieces DEF Prompt, Cut, Prefix, Suffix
  <2>4. /\ Prompt(short) /\ Cut(short, 2) /\ SubSeq(short, 1, 2) = short
        /\ Prefix(short, 2) = short
        /\ Len(short) = 2 /\ short \in Seq(Nat)
    BY Pieces DEF Prompt, Cut, Prefix
  <2>5. Suffix(tokens, 3) = <<>> /\ Suffix(short, 2) = <<>>
    BY DEF Suffix
  <2>6. KeyS = KeyOf(DefaultDomain, short) /\ KeyT = KeyOf(DefaultDomain, tokens)
    BY DEF KeyS, KeyT
  <2>7. short # None /\ tokens # None
    BY <2>3, <2>4, SuiteAssumption
  <2> HIDE DEF tokens, short
  <2>8. Longest(d, tokens, 3) /\ Longest(d, short, 2)
    BY <2>3, <2>4 DEF Longest
  <2>9. Nearest(d, DefaultDomain, tokens) = [cache |-> tokens, rest |-> <<>>]
    <3>1. Nearest(d, DefaultDomain, tokens) = Found(tokens, 3)
      BY <2>2, <2>3, <2>6, <2>8, NearestFinds
    <3>2. QED
      BY <3>1, <2>3, <2>5 DEF Found, AtSafety
  <2>10. Nearest(d, DefaultDomain, short) = [cache |-> short, rest |-> <<>>]
    <3>1. Nearest(d, DefaultDomain, short) = Found(short, 2)
      BY <2>2, <2>4, <2>6, <2>8, NearestFinds
    <3>2. QED
      BY <3>1, <2>4, <2>5 DEF Found, AtSafety
  <2>13. <<>> \o <<32>> = <<32>> /\ SubSeq(tokens, 1, Len(tokens) - 1) = short
    BY <2>3
  <2>14. CASE fault = "empty_generation_input"
    <3>1. seen = Observed(DefaultDomain, tokens, [cache |-> tokens, rest |-> Suffix(tokens, 3)])
      BY <2>9, <2>5, <2>14, <2>16 DEF Safe
    <3>2. seen = Seen(DefaultDomain, tokens, 3, tokens)
      BY <3>1, <2>3, <2>7, ObservedPrefix
    <3>3. seen.remaining = <<>>
      BY <3>2, <2>5 DEF Seen
    <3>4. QED
      BY <1>3, <2>1, <2>14, <3>3, <2>16, PerformSafe
  <2>15. CASE fault # "empty_generation_input"
    <3>1. seen = Observed(DefaultDomain, tokens, [cache |-> short, rest |-> Suffix(tokens, 2)])
      <4>1. tokens[Len(tokens)] = 32
        BY <2>3
      <4>2. seen = Observed(DefaultDomain, tokens,
                       [cache |-> short, rest |-> <<32>>, trimmed |-> FALSE])
        <5>1. seen = Observed(DefaultDomain, tokens,
                  EnsureGenerationSafe(tokens, <<>>, tokens, FALSE,
                      [cache |-> short, rest |-> <<>>]))
          <6> DEFINE found == Nearest(d, DefaultDomain, tokens)
                     shorter == Nearest(d, DefaultDomain, SubSeq(tokens, 1, Len(tokens) - 1))
          <6>1. seen = Observed(DefaultDomain, tokens,
                    EnsureGenerationSafe(found.cache, found.rest, tokens, FALSE, shorter))
            BY <2>15, <2>16 DEF Safe
          <6>2. /\ found.cache = tokens /\ found.rest = <<>>
                /\ shorter = [cache |-> short, rest |-> <<>>]
            <7>1. found.cache = tokens /\ found.rest = <<>>
              BY <2>9
            <7>2. shorter = Nearest(d, DefaultDomain, short)
              <8> DEFINE cut == SubSeq(tokens, 1, Len(tokens) - 1)
              <8>1. cut = short
                BY <2>13
              <8> HIDE DEF cut
              <8>2. Nearest(d, DefaultDomain, cut) = Nearest(d, DefaultDomain, short)
                BY <8>1
              <8>3. QED
                BY <8>2 DEF cut
            <7>3. QED
              BY <7>1, <7>2, <2>10
          <6> HIDE DEF found, shorter
          <6>3. QED
            BY <6>1, <6>2
        <5>2. QED
          BY <5>1, <2>3, <2>7, <2>13, <4>1 DEF EnsureGenerationSafe
      <4>3. QED
        BY <4>2, <2>3 DEF Observed
    <3>2. seen = Seen(DefaultDomain, tokens, 2, short)
      BY <3>1, <2>3, <2>7, ObservedPrefix
    <3>3. ~seen.refused /\ seen.remaining # <<>>
      <4>1. <<32>> # <<>>
        OBVIOUS
      <4>2. Suffix(tokens, 2) = <<32>>
        BY <2>3
      <4>3. QED
        BY <3>2, <4>1, <4>2 DEF Seen
    <3>4. QED
      BY <1>3, <2>1, <2>15, <3>3, <2>16, PerformSafe
  <2>11. QED
    BY <2>14, <2>15
<1>4. QED
  BY <1>1, <1>2, <1>3

-----------------------------------------------------------------------------
(* Hit attribution.                                                        *)

KeyH == KeyOf(DefaultDomain, <<2, 3>>)
KeyQ == KeyOf(DefaultDomain, <<2, 3, 4, 5>>)

Hits(d, key) == d.policy.entries[key].hits

Only(d, key) == DOMAIN d.policy.entries = {key}

\* What the lookup of the attribution case leaves in the entry.
CreditLeft ==
    IF fault = "credits_prompt" THEN 0 ELSE IF fault = "credits_twice" THEN 2 ELSE 1

Miscredits == fault \in {"exact_only", "credits_prompt", "credits_twice"}

\* The driver before step j of the case, for a fault that does not spoil it.
AtAttribution(j, d) ==
    /\ fault # "wrong_payload"
    /\ IF j = 1 THEN Empty(d)
       ELSE IF j = 2 THEN HoldsOne(d, KeyH, "stable", 8)
       ELSE IF j = 3 THEN /\ Only(d, KeyH) /\ Hits(d, KeyH) = CreditLeft
                          /\ fault # "exact_only"
       ELSE Only(d, KeyH) /\ ~Miscredits

(* The entry and the prompt have two keys.                                 *)
LEMMA AttributionKeys == KeyH # KeyQ
<1>1. <<2, 3>> # <<2, 3, 4, 5>>
  OBVIOUS
<1>2. QED
  BY <1>1 DEF KeyH, KeyQ, KeyOf

(* What the lookup credits to the entry, with each fault.                  *)
LEMMA HitCredits ==
    ASSUME NEW d, HoldsOne(d, KeyH, "stable", 8), NEW seen,
           seen.matched = <<2, 3>>, seen.prompt = <<2, 3, 4, 5>>,
           NEW e, e = AfterLookup(d, DefaultDomain, seen)
    PROVE  Only(e, KeyH) /\ Hits(e, KeyH) = CreditLeft
<1>1. PICK ms, mb : /\ Roomy(ms, mb)
                    /\ Holds(d, ms, mb, {KeyH}, 8)
                    /\ Fresh(d, KeyH, "stable", 8)
  BY DEF HoldsOne
<1>2. Limits(ms, mb) /\ Able(d, ms, mb)
  BY <1>1 DEF Roomy, Limits, Holds
<1> DEFINE p == d.policy
           key == IF fault = "credits_prompt" THEN KeyQ ELSE KeyH
           once == Policy(ms, mb)!AddHit(p, key)
           twice == Policy(ms, mb)!AddHit(once, key)
<1>3. /\ Proper(p) /\ DOMAIN p.entries = {KeyH}
      /\ p.entries[KeyH] = [role |-> "stable", nbytes |-> 8, hits |-> 0]
  BY <1>1, <1>2 DEF Able, Holds, Fresh
<1>4. e.policy = IF fault = "credits_twice" THEN twice ELSE once
  <2>1. d.limits[1] = ms /\ d.limits[2] = mb /\ "policy" \in DOMAIN d
    BY <1>2 DEF Able, DriverFields
  <2>2. <<2, 3>> # <<>>
    OBVIOUS
  <2>3. KeyOf(DefaultDomain, IF fault = "credits_prompt" THEN seen.prompt ELSE seen.matched)
            = key
    BY DEF KeyH, KeyQ
  <2>4. Hit(seen)
    BY <2>2 DEF Hit
  <2> HIDE DEF key
  <2>5. QED
    BY <2>1, <2>3, <2>4 DEF AfterLookup
<1> HIDE DEF p, once, twice
<1>5. /\ Proper(once)
      /\ once.entries = Bumped(p.entries, key)
  <2> HIDE DEF key
  <2>1. QED
    BY <1>2, <1>3, HitCounts DEF once
<1>6. twice.entries = Bumped(once.entries, key)
  <2> HIDE DEF key
  <2>1. QED
    BY <1>2, <1>5, HitCounts DEF twice
<1>7. fault = "credits_prompt" =>
          once.entries[KeyH].hits = 0 /\ DOMAIN once.entries = {KeyH}
  BY <1>3, <1>5, AttributionKeys DEF Bumped
<1>8. fault # "credits_prompt" =>
          /\ once.entries[KeyH].hits = 1 /\ DOMAIN once.entries = {KeyH}
          /\ twice.entries[KeyH].hits = 2 /\ DOMAIN twice.entries = {KeyH}
  <2>1. SUFFICES ASSUME fault # "credits_prompt"
                 PROVE  /\ once.entries[KeyH].hits = 1 /\ DOMAIN once.entries = {KeyH}
                        /\ twice.entries[KeyH].hits = 2 /\ DOMAIN twice.entries = {KeyH}
    OBVIOUS
  <2>2. key = KeyH
    BY <2>1
  <2> HIDE DEF key
  <2>3. once.entries[KeyH].hits = 1 /\ DOMAIN once.entries = {KeyH}
        /\ once.entries[KeyH].role = "stable"
    BY <1>3, <1>5, <2>2 DEF Bumped
  <2>4. once.entries[KeyH] \in EntryStates
    BY <1>5, <2>3 DEF Proper
  <2>5. QED
    BY <1>6, <2>2, <2>3, <2>4 DEF EntryStates, Bumped
<1>9. QED
  BY <1>4, <1>7, <1>8 DEF Only, Hits, CreditLeft

(* The hit attribution case fails for a driver that matches exact prompts only*)
(* or credits wrongly, and for nothing else here.                          *)
LEMMA AttributionRun ==
    ASSUME NEW d, NEW j, j \in {1, 2, 3, 4}, AtAttribution(j, d),
           NEW o, o = Perform(d, HitAttribution.script[j])
    PROVE  /\ ~o.ok => Miscredits
           /\ o.ok /\ j = 4 => ~Miscredits
           /\ o.ok /\ j # 4 => AtAttribution(j + 1, o.driver)
<1>1. CASE j = 1
  <2> DEFINE step == Seed(DefaultDomain, <<2, 3>>, "stable", 8)
  <2>1. o = Perform(d, step)
    BY <1>1 DEF HitAttribution
  <2>2. /\ Admits(step) /\ StepKey(step) = KeyH
        /\ step.role = "stable" /\ step.nbytes = 8
    BY Seeds DEF KeyH
  <2> HIDE DEF step
  <2>3. Sized(step, 200)
    BY <2>2 DEF Sized, SuiteRoles
  <2>4. Empty(d)
    BY <1>1 DEF AtAttribution
  <2>5. o.ok /\ HoldsOne(o.driver, KeyH, "stable", 8)
    BY <2>1, <2>2, <2>3, <2>4, FirstIn
  <2>6. QED
    BY <1>1, <2>5 DEF AtAttribution
<1>2. CASE j = 2
  <2> DEFINE tokens == <<2, 3, 4, 5>>
             stored == <<2, 3>>
  <2>1. PICK seen : seen = LookedUp(d, DefaultDomain, tokens)
    OBVIOUS
  <2>2. HoldsOne(d, KeyH, "stable", 8)
    BY <1>2 DEF AtAttribution
  <2>3. PICK ms, mb : Able(d, ms, mb) /\ DOMAIN d.policy.entries = {KeyH}
    BY <2>2, HeldAlone
  <2>4. /\ Prompt(tokens) /\ Cut(tokens, 2) /\ Prefix(tokens, 2) = stored
        /\ Len(tokens) = 4 /\ tokens \in Seq(Nat) /\ SubSeq(tokens, 1, 2) = stored
    BY Pieces DEF Prompt, Cut, Prefix
  <2>5. stored \in Seq(Nat) /\ Len(stored) = 2 /\ stored # <<>> /\ stored # None
    <3>1. stored \in Seq(Nat) /\ Len(stored) = 2 /\ stored # <<>>
      OBVIOUS
    <3> HIDE DEF stored
    <3>2. QED
      BY <3>1, SuiteAssumption
  <2>6. KeyH = KeyOf(DefaultDomain, stored)
    BY DEF KeyH
  <2>7. o = Perform(d, Peek(DefaultDomain, tokens, stored))
    BY <1>2 DEF HitAttribution, Peek
  <2>8. /\ o.ok <=> ~seen.refused /\ seen.matched = stored
        /\ ~seen.refused => o.driver = AfterLookup(d, DefaultDomain, seen)
    <3> HIDE DEF tokens, stored
    <3>1. /\ Perform(d, Peek(DefaultDomain, tokens, stored)).ok
                 <=> ~seen.refused /\ seen.matched = stored
          /\ ~seen.refused =>
                 Perform(d, Peek(DefaultDomain, tokens, stored)).driver
                     = AfterLookup(d, DefaultDomain, seen)
      BY <2>1, PerformLookup
    <3>2. QED
      BY <2>7, <3>1
  <2>9. CASE fault = "exact_only"
    <3>1. KeyOf(DefaultDomain, SubSeq(tokens, 1, 4)) # KeyH
      <4> DEFINE cut == SubSeq(tokens, 1, 4)
      <4> HIDE DEF tokens, stored
      <4>1. Len(cut) = 4
        BY <2>4
      <4> HIDE DEF cut
      <4>2. KeyOf(DefaultDomain, cut).tokens = cut /\ KeyH.tokens = stored
        BY <2>6, KeysOf
      <4>3. KeyOf(DefaultDomain, cut) # KeyH
        <5>1. SUFFICES ASSUME KeyOf(DefaultDomain, cut) = KeyH PROVE FALSE
          OBVIOUS
        <5>2. cut = stored
          BY <4>2, <5>1
        <5>3. Len(cut) = Len(stored)
          BY <5>2
        <5>4. Len(stored) = 2
          BY <2>5
        <5>5. QED
          BY <4>1, <5>3, <5>4
      <4>4. QED
        BY <4>3 DEF cut
    <3> HIDE DEF tokens, stored
    <3>2. Nearest(d, DefaultDomain, tokens) = Missed(tokens)
      BY <2>3, <2>4, <2>9, <3>1, NearestMisses
    <3>3. seen.matched = <<>>
      BY <2>1, <2>4, <3>2, ObservedMiss DEF LookedUp
    <3>4. QED
      BY <1>2, <2>5, <2>8, <2>9, <3>3 DEF Miscredits
  <2>10. CASE fault # "exact_only"
    <3> HIDE DEF tokens, stored
    <3>1. NoLonger(d, 2)
      <4>1. KeyH.tokens = stored
        BY <2>6, KeysOf
      <4> USE DEF NoLonger
      <4>2. QED
        <5>1. TAKE k \in DOMAIN d.policy.entries
        <5>2. k.tokens = stored
          BY <2>3, <4>1
        <5>4. Len(k.tokens) = Len(stored) /\ k.tokens \in Seq(Nat)
          BY <2>5, <5>2
        <5>5. Len(k.tokens) = 2
          BY <2>5, <5>4
        <5>3. QED
          BY <5>4, <5>5
    <3>2. Longest(d, tokens, 2)
      BY <2>10, <3>1 DEF Longest
    <3>3. Nearest(d, DefaultDomain, tokens) = Found(tokens, 2)
      BY <2>3, <2>4, <2>6, <3>2, NearestFinds
    <3>4. Found(tokens, 2) = [cache |-> stored, rest |-> Suffix(tokens, 2)]
      BY <1>2, <2>4 DEF Found, AtAttribution
    <3>5. seen = Seen(DefaultDomain, tokens, 2, stored)
      BY <2>1, <2>4, <2>5, <3>3, <3>4, ObservedPrefix DEF LookedUp
    <3>6. ~seen.refused /\ seen.matched = stored /\ seen.prompt = tokens
      BY <2>4, <3>5 DEF Seen
    <3>7. o.ok /\ o.driver = AfterLookup(d, DefaultDomain, seen)
      BY <2>8, <3>6
    <3>8. Only(o.driver, KeyH) /\ Hits(o.driver, KeyH) = CreditLeft
      BY <2>2, <3>6, <3>7, HitCredits DEF tokens, stored
    <3>9. QED
      BY <1>2, <2>10, <3>7, <3>8 DEF AtAttribution
  <2>11. QED
    BY <2>9, <2>10
<1>3. CASE j = 3
  <2>1. o = Perform(d, Credited(DefaultDomain, <<2, 3>>, 1))
    BY <1>3 DEF HitAttribution
  <2>2. Only(d, KeyH) /\ Hits(d, KeyH) = CreditLeft /\ fault # "exact_only"
    BY <1>3 DEF AtAttribution
  <2>3. o.driver = d /\ (o.ok <=> 1 = CreditLeft)
    BY <2>1, <2>2, PerformCredited DEF KeyH, Only, Hits
  <2>4. QED
    BY <1>3, <2>2, <2>3 DEF CreditLeft, Miscredits, AtAttribution
<1>4. CASE j = 4
  <2>1. o = Perform(d, Credited(DefaultDomain, <<2, 3, 4, 5>>, None))
    BY <1>4 DEF HitAttribution
  <2>2. Only(d, KeyH) /\ ~Miscredits
    BY <1>4 DEF AtAttribution
  <2>3. KeyQ \notin DOMAIN d.policy.entries
    BY <2>2, AttributionKeys DEF Only
  <2>4. o.ok
    BY <2>1, <2>3, PerformCredited DEF KeyQ
  <2>5. QED
    BY <1>4, <2>2, <2>4
<1>5. QED
  BY <1>1, <1>2, <1>3, <1>4

-----------------------------------------------------------------------------
(* Stable and active lineage.                                              *)

Key5 == KeyOf("tenant-a", <<5, 6>>)
Key6 == KeyOf("tenant-a", <<5, 6, 7>>)
Key7 == KeyOf("tenant-a", <<5, 6, 7, 8>>)

Weighs(d, n) == d.policy.nbytes = n

Both(d, first, second) == DOMAIN d.policy.entries = {first, second}

\* The driver before step j of the case, for a fault that does not spoil it.
AtLineage(j, d) ==
    /\ fault # "keeps_predecessor"
    /\ IF j = 1 THEN Empty(d)
       ELSE IF j = 2 THEN HoldsOne(d, Key5, "stable", 8)
       ELSE IF j = 3 THEN HoldsTwo(d, Key5, "stable", 8, Key6, "active", 10)
       ELSE Both(d, Key5, Key7) /\ Weighs(d, 20)

(* Its three prompts have three keys, the last a successor of the second.  *)
LEMMA LineageKeys ==
    /\ Key5 # Key6 /\ Key5 # Key7 /\ Key6 # Key7
    /\ <<5, 6, 7>> # None
    /\ \A ms, mb : Policy(ms, mb)!Extends(Key7, Key6)
<1>1. /\ <<5, 6>> # <<5, 6, 7>> /\ <<5, 6>> # <<5, 6, 7, 8>>
      /\ <<5, 6, 7>> # <<5, 6, 7, 8>>
  OBVIOUS
<1>2. Key5 # Key6 /\ Key5 # Key7 /\ Key6 # Key7
  BY <1>1 DEF Key5, Key6, Key7, KeyOf
<1>3. <<5, 6, 7>> \in Seq(Nat) /\ <<5, 6, 7, 8>> \in Seq(Nat)
  OBVIOUS
<1>4. <<5, 6, 7>> # None
  BY <1>3, SuiteAssumption
<1>5. ASSUME NEW ms, NEW mb
      PROVE  Policy(ms, mb)!Extends(Key7, Key6)
  <2> DEFINE short == <<5, 6, 7>>
             long == <<5, 6, 7, 8>>
  <2>1. /\ Len(short) < Len(long)
        /\ \A i \in 1 .. Len(short) : long[i] = short[i]
    OBVIOUS
  <2>2. Key6 = KeyOf("tenant-a", short) /\ Key7 = KeyOf("tenant-a", long)
    BY DEF Key6, Key7
  <2>3. short \in Seq(Nat) /\ long \in Seq(Nat)
    BY <1>3
  <2> HIDE DEF short, long
  <2>4. QED
    BY <2>1, <2>2, <2>3, KeyExtends
<1>6. QED
  BY <1>2, <1>4, <1>5

(* Two members count two.                                                  *)
LEMMA TwoMembers ==
    ASSUME NEW x, NEW y, x # y
    PROVE  Cardinality({x, y}) = 2
<1>1. IsFiniteSet({x}) /\ y \notin {x} /\ {x} \cup {y} = {x, y} /\ Cardinality({x}) = 1
  BY FS_Singleton
<1>2. Cardinality({x} \cup {y}) = Cardinality({x}) + 1
  BY <1>1, FS_AddElement
<1>3. QED
  BY <1>1, <1>2

(* The lineage case fails for nothing here.                                *)
LEMMA LineageRun ==
    ASSUME NEW d, NEW j, j \in {1, 2, 3, 4, 5, 6, 7}, AtLineage(j, d),
           NEW o, o = Perform(d, StableActiveLineage.script[j])
    PROVE  /\ o.ok
           /\ j # 7 => AtLineage(j + 1, o.driver)
<1>1. CASE j = 1
  <2> DEFINE step == Admit(<<5, 6>>, "stable", 8, None)
  <2>1. o = Perform(d, step)
    BY <1>1 DEF StableActiveLineage
  <2>2. /\ Admits(step) /\ StepKey(step) = Key5
        /\ step.role = "stable" /\ step.nbytes = 8
    BY Admissions DEF Key5
  <2> HIDE DEF step
  <2>3. Sized(step, 200)
    BY <2>2 DEF Sized, SuiteRoles
  <2>4. Empty(d)
    BY <1>1 DEF AtLineage
  <2>5. o.ok /\ HoldsOne(o.driver, Key5, "stable", 8)
    BY <2>1, <2>2, <2>3, <2>4, FirstIn
  <2>6. QED
    BY <1>1, <2>5 DEF AtLineage
<1>2. CASE j = 2
  <2> DEFINE step == Admit(<<5, 6, 7>>, "active", 10, None)
  <2>1. o = Perform(d, step)
    BY <1>2 DEF StableActiveLineage
  <2>2. /\ Admits(step) /\ StepKey(step) = Key6
        /\ step.role = "active" /\ step.nbytes = 10
    BY Admissions DEF Key6
  <2> HIDE DEF step
  <2>3. Sized(step, 200) /\ step.role # "stable" /\ 8 + step.nbytes <= 200
    BY <2>2 DEF Sized, SuiteRoles
  <2>4. HoldsOne(d, Key5, "stable", 8)
    BY <1>2 DEF AtLineage
  <2>5. o.ok /\ HoldsTwo(o.driver, Key5, "stable", 8, Key6, "active", 10)
    BY <2>1, <2>2, <2>3, <2>4, SecondIn, LineageKeys
  <2>6. QED
    BY <1>2, <2>5 DEF AtLineage
<1>3. CASE j = 3
  <2> DEFINE step == Admit(<<5, 6, 7, 8>>, "active", 12, <<5, 6, 7>>)
  <2>1. o = Perform(d, step)
    BY <1>3 DEF StableActiveLineage
  <2>2. /\ Admits(step) /\ StepKey(step) = Key7
        /\ step.role = "active" /\ step.nbytes = 12
        /\ Predecessor(step) = Key6
    BY Admissions, LineageKeys DEF Key6, Key7, AtLineage
  <2> HIDE DEF step
  <2>3. PICK ms, mb : /\ Roomy(ms, mb)
                      /\ Holds(d, ms, mb, {Key5, Key6}, 8 + 10)
                      /\ Fresh(d, Key5, "stable", 8)
                      /\ Fresh(d, Key6, "active", 10)
    BY <1>3 DEF AtLineage, HoldsTwo
  <2>4. Limits(ms, mb) /\ Sized(step, mb) /\ Within(10, mb)
    BY <2>2, <2>3 DEF Sized, SuiteRoles, Roomy, Limits, Within
  <2>5. Succeeds(ms, mb, step, Key6)
    BY <2>2, LineageKeys DEF Succeeds
  <2>6. Beside(d.policy, ms, mb, {Key5}, step.nbytes)
    BY <2>2, <2>3 DEF Beside, Roomy, Fresh, Holds
  <2>7. StepKey(step) # Key5 /\ StepKey(step) # Key6 /\ Key5 # Key6
    BY <2>2, LineageKeys
  <2>8. /\ o.ok
        /\ Holds(o.driver, ms, mb, {Key5, StepKey(step)}, 8 + 10 - 10 + step.nbytes)
    <3> DEFINE total == 8 + 10
               size == 10
               e == o.driver
    <3>1. /\ Holds(d, ms, mb, {Key5, Key6}, total)
          /\ Fresh(d, Key6, "active", size)
          /\ Within(size, mb)
          /\ e = Perform(d, step).driver
      BY <2>1, <2>3, <2>4
    <3> HIDE DEF total, size, e
    <3>2. /\ Perform(d, step).ok
          /\ Holds(e, ms, mb, {Key5, StepKey(step)}, total - size + step.nbytes)
      BY <2>2, <2>4, <2>5, <2>6, <2>7, <3>1, SuccessorStays
    <3>3. QED
      BY <2>1, <3>2 DEF total, size, e
  <2>9. Both(o.driver, Key5, Key7) /\ Weighs(o.driver, 20)
    BY <2>2, <2>8 DEF Holds, Both, Weighs
  <2>10. QED
    BY <1>3, <2>8, <2>9 DEF AtLineage
<1>4. CASE j = 4
  <2>1. o = Perform(d, Present(<<5, 6>>))
    BY <1>4 DEF StableActiveLineage, Present
  <2>2. Both(d, Key5, Key7) /\ Weighs(d, 20) /\ fault # "keeps_predecessor"
    BY <1>4 DEF AtLineage
  <2>3. QED
    BY <1>4, <2>1, <2>2, PerformContains DEF Both, Key5, AtLineage
<1>5. CASE j = 5
  <2>1. o = Perform(d, Absent(<<5, 6, 7>>))
    BY <1>5 DEF StableActiveLineage, Absent
  <2>2. Both(d, Key5, Key7) /\ Weighs(d, 20) /\ fault # "keeps_predecessor"
    BY <1>5 DEF AtLineage
  <2>3. Key6 \notin DOMAIN d.policy.entries
    BY <2>2, LineageKeys DEF Both
  <2>4. QED
    BY <1>5, <2>1, <2>2, <2>3, PerformContains DEF Key6, AtLineage
<1>6. CASE j = 6
  <2>1. o = Perform(d, Present(<<5, 6, 7, 8>>))
    BY <1>6 DEF StableActiveLineage, Present
  <2>2. Both(d, Key5, Key7) /\ Weighs(d, 20) /\ fault # "keeps_predecessor"
    BY <1>6 DEF AtLineage
  <2>3. QED
    BY <1>6, <2>1, <2>2, PerformContains DEF Both, Key7, AtLineage
<1>7. CASE j = 7
  <2>1. o = Perform(d, Measures({2}, {20}))
    BY <1>7 DEF StableActiveLineage
  <2>2. Both(d, Key5, Key7) /\ Weighs(d, 20)
    BY <1>7 DEF AtLineage
  <2>3. Cardinality(DOMAIN d.policy.entries) = 2
    <3>1. Key5 # Key7
      BY LineageKeys
    <3>2. Cardinality({Key5, Key7}) = 2
      BY <3>1, TwoMembers
    <3>3. QED
      BY <2>2, <3>2 DEF Both
  <2>4. QED
    BY <1>7, <2>1, <2>2, <2>3, PerformMeasures DEF Weighs
<1>8. QED
  BY <1>1, <1>2, <1>3, <1>4, <1>5, <1>6, <1>7

-----------------------------------------------------------------------------
(* Rollback.                                                               *)

Key20 == KeyOf("tenant-a", <<20, 21>>)
Key22 == KeyOf("tenant-a", <<20, 21, 22>>)

Armed(d) == d.armed = TRUE

\* The driver before step j of the case, for a fault that does not spoil it.
AtRollback(j, d) ==
    /\ fault # "keeps_predecessor"
    /\ IF j = 1 THEN Empty(d)
       ELSE IF j = 2 THEN HoldsOne(d, Key20, "active", 8)
       ELSE IF j = 3 THEN \E ms, mb : /\ Roomy(ms, mb) /\ Able(d, ms, mb) /\ Armed(d)
                                      /\ Only(d, Key20) /\ Weighs(d, 8)
                                      /\ Fresh(d, Key20, "active", 8)
       ELSE /\ fault # "swallows_failure"
            /\ IF j = 4 /\ fault = "no_rollback" THEN DOMAIN d.policy.entries = {}
               ELSE fault # "no_rollback" /\ Only(d, Key20) /\ Weighs(d, 8)

(* Its two prompts have two keys, the second a successor of the first.     *)
LEMMA RollbackKeys ==
    /\ Key20 # Key22
    /\ <<20, 21>> # None
    /\ \A ms, mb : Policy(ms, mb)!Extends(Key22, Key20)
<1>1. <<20, 21>> # <<20, 21, 22>>
  OBVIOUS
<1>2. Key20 # Key22
  BY <1>1 DEF Key20, Key22, KeyOf
<1>3. <<20, 21>> \in Seq(Nat) /\ <<20, 21, 22>> \in Seq(Nat)
  OBVIOUS
<1>4. <<20, 21>> # None
  BY <1>3, SuiteAssumption
<1>5. ASSUME NEW ms, NEW mb
      PROVE  Policy(ms, mb)!Extends(Key22, Key20)
  <2> DEFINE short == <<20, 21>>
             long == <<20, 21, 22>>
  <2>1. /\ Len(short) < Len(long)
        /\ \A i \in 1 .. Len(short) : long[i] = short[i]
    OBVIOUS
  <2>2. Key20 = KeyOf("tenant-a", short) /\ Key22 = KeyOf("tenant-a", long)
    BY DEF Key20, Key22
  <2>3. short \in Seq(Nat) /\ long \in Seq(Nat)
    BY <1>3
  <2> HIDE DEF short, long
  <2>4. QED
    BY <2>1, <2>2, <2>3, KeyExtends
<1>6. QED
  BY <1>2, <1>4, <1>5

Raises(step) == step.call = "admit_raises"

(* What the admission that raises leaves, with each fault.                 *)
LEMMA RaisingRun ==
    ASSUME NEW ms, NEW mb, Roomy(ms, mb), NEW d, Able(d, ms, mb), Armed(d),
           Only(d, Key20), Fresh(d, Key20, "active", 8),
           NEW step, Raises(step), StepKey(step) = Key22, step.role = "active",
           Sized(step, mb), Predecessor(step) = Key20,
           NEW o, o = Perform(d, step)
    PROVE  /\ o.ok <=> fault # "swallows_failure"
           /\ fault = "no_rollback" => DOMAIN o.driver.policy.entries = {}
           /\ fault # "no_rollback" => o.driver.policy = d.policy
<1> DEFINE one == {Key20}
           plan == Planned(d, ms, mb, step)
<1>1. Limits(ms, mb)
  BY DEF Roomy, Limits
<1>2. one = Forced(d, ms, mb, step)
  <2>1. Succeeds(ms, mb, step, Key20)
    BY RollbackKeys DEF Succeeds
  <2>2. Key20 \in DOMAIN d.policy.entries
    BY DEF Only
  <2>3. QED
    BY <2>1, <2>2, ForcedOut
<1>3. Beside(d.policy, ms, mb, DOMAIN d.policy.entries \ (one \cup {StepKey(step)}),
             step.nbytes)
  BY DEF Only, Beside
<1>4. Accepts(plan, StepKey(step), step.role, step.nbytes, one)
  <2> HIDE DEF one
  <2>1. QED
    BY <1>1, <1>2, <1>3, AdmissionPlanned
<1>5. plan.accepted /\ DOMAIN plan.evictions = one
  BY <1>4 DEF Accepts
<1>6. /\ d.limits[1] = ms /\ d.limits[2] = mb
      /\ DOMAIN d = DriverFields /\ DOMAIN d.policy.entries = one
  BY DEF Able, Only
<1> DEFINE trimmed == Policy(ms, mb)!CommitTrim(d.policy, one \cup {StepKey(step)})
           rows == [k \in DOMAIN d.rows \ (one \cup {StepKey(step)}) |-> d.rows[k]]
           aborted == IF fault = "no_rollback"
                      THEN [d EXCEPT !.policy = trimmed, !.rows = rows, !.armed = FALSE]
                      ELSE [d EXCEPT !.armed = FALSE]
<1>7. Admission(d, step) =
          IF fault = "swallows_failure" THEN [result |-> "refused", driver |-> aborted]
          ELSE [result |-> "raised", driver |-> aborted]
  <2> HIDE DEF one
  <2>1. QED
    BY <1>5, <1>6 DEF Admission, Planned, Predecessor, StepKey, Armed
<1>8. DOMAIN trimmed.entries = {}
  BY <1>6 DEF Policy!CommitTrim, Policy!RemoveEntries, Policy!Resident
<1> HIDE DEF trimmed, rows, plan, one
<1>9. aborted.policy = IF fault = "no_rollback" THEN trimmed ELSE d.policy
  BY <1>6 DEF DriverFields
<1> HIDE DEF aborted
<1>10. /\ Admission(d, step).driver = aborted
       /\ Admission(d, step).result = "raised" <=> fault # "swallows_failure"
  BY <1>7
<1>11. /\ o.ok <=> fault # "swallows_failure"
       /\ o.driver = aborted
  BY <1>10, PerformRaises DEF Raises
<1>12. QED
  BY <1>8, <1>9, <1>11

(* The rollback case fails for a failure that is swallowed or not rolled back,*)
(* and for nothing else here.                                              *)
LEMMA RollbackRun ==
    ASSUME NEW d, NEW j, j \in {1, 2, 3, 4, 5, 6}, AtRollback(j, d),
           NEW o, o = Perform(d, Rollback.script[j])
    PROVE  /\ ~o.ok => fault \in {"no_rollback", "swallows_failure"}
           /\ o.ok /\ j = 6 => fault \notin {"no_rollback", "swallows_failure"}
           /\ o.ok /\ j # 6 => AtRollback(j + 1, o.driver)
<1>1. CASE j = 1
  <2> DEFINE step == Admit(<<20, 21>>, "active", 8, None)
  <2>1. o = Perform(d, step)
    BY <1>1 DEF Rollback
  <2>2. /\ Admits(step) /\ StepKey(step) = Key20
        /\ step.role = "active" /\ step.nbytes = 8
    BY Admissions DEF Key20
  <2> HIDE DEF step
  <2>3. Sized(step, 200)
    BY <2>2 DEF Sized, SuiteRoles
  <2>4. Empty(d)
    BY <1>1 DEF AtRollback
  <2>5. o.ok /\ HoldsOne(o.driver, Key20, "active", 8)
    BY <2>1, <2>2, <2>3, <2>4, FirstIn
  <2>6. QED
    BY <1>1, <2>5 DEF AtRollback
<1>2. CASE j = 2
  <2>1. o = Perform(d, FailNextInsert)
    BY <1>2 DEF Rollback
  <2>2. PICK ms, mb : /\ Roomy(ms, mb)
                      /\ Holds(d, ms, mb, {Key20}, 8)
                      /\ Fresh(d, Key20, "active", 8)
    BY <1>2 DEF AtRollback, HoldsOne
  <2>3. o.ok /\ o.driver = [d EXCEPT !.armed = TRUE]
    BY <2>1, PerformArm
  <2>4. Able(o.driver, ms, mb) /\ Armed(o.driver) /\ o.driver.policy = d.policy
    BY <2>2, <2>3 DEF Holds, Able, Armed, DriverFields
  <2>5. /\ Only(o.driver, Key20) /\ Weighs(o.driver, 8)
        /\ Fresh(o.driver, Key20, "active", 8)
    BY <2>2, <2>4 DEF Holds, Only, Weighs, Fresh
  <2>6. QED
    BY <1>2, <2>2, <2>3, <2>4, <2>5 DEF AtRollback
<1>3. CASE j = 3
  <2> DEFINE step == AdmitRaises(<<20, 21, 22>>, "active", 10, <<20, 21>>)
  <2>1. o = Perform(d, step)
    BY <1>3 DEF Rollback
  <2>2. /\ Raises(step) /\ StepKey(step) = Key22
        /\ step.role = "active" /\ step.nbytes = 10
        /\ Predecessor(step) = Key20
    BY RaisingAdmissions, RollbackKeys DEF Key20, Key22, AtRollback, Raises
  <2> HIDE DEF step
  <2>3. PICK ms, mb : /\ Roomy(ms, mb) /\ Able(d, ms, mb) /\ Armed(d)
                      /\ Only(d, Key20) /\ Weighs(d, 8)
                      /\ Fresh(d, Key20, "active", 8)
    BY <1>3 DEF AtRollback
  <2>4. Sized(step, mb)
    BY <2>2, <2>3 DEF Sized, SuiteRoles, Roomy
  <2>5. /\ o.ok <=> fault # "swallows_failure"
        /\ fault = "no_rollback" => DOMAIN o.driver.policy.entries = {}
        /\ fault # "no_rollback" => o.driver.policy = d.policy
    BY <2>1, <2>2, <2>3, <2>4, RaisingRun
  <2>6. fault # "no_rollback" => Only(o.driver, Key20) /\ Weighs(o.driver, 8)
    BY <2>3, <2>5 DEF Only, Weighs
  <2>7. QED
    BY <1>3, <2>5, <2>6 DEF AtRollback
<1>4. CASE j = 4
  <2>1. o = Perform(d, Present(<<20, 21>>))
    BY <1>4 DEF Rollback, Present
  <2>2. fault # "keeps_predecessor" /\ fault # "swallows_failure"
    BY <1>4 DEF AtRollback
  <2>3. CASE fault = "no_rollback"
    <3>1. ~o.ok
      BY <1>4, <2>1, <2>3, PerformContains DEF AtRollback
    <3>2. QED
      BY <1>4, <2>3, <3>1
  <2>4. CASE fault # "no_rollback"
    <3>1. Only(d, Key20) /\ Weighs(d, 8)
      BY <1>4, <2>4 DEF AtRollback
    <3>2. o.ok /\ o.driver = d
      BY <2>1, <3>1, PerformContains DEF Only, Key20
    <3>3. QED
      BY <1>4, <2>2, <2>4, <3>1, <3>2 DEF AtRollback
  <2>5. QED
    BY <2>3, <2>4
<1>5. CASE j = 5
  <2>1. o = Perform(d, Absent(<<20, 21, 22>>))
    BY <1>5 DEF Rollback, Absent
  <2>2. /\ fault \notin {"keeps_predecessor", "swallows_failure", "no_rollback"}
        /\ Only(d, Key20) /\ Weighs(d, 8)
    BY <1>5 DEF AtRollback
  <2>3. Key22 \notin DOMAIN d.policy.entries
    BY <2>2, RollbackKeys DEF Only
  <2>4. o.ok /\ o.driver = d
    BY <2>1, <2>3, PerformContains DEF Key22
  <2>5. QED
    BY <1>5, <2>2, <2>4 DEF AtRollback
<1>6. CASE j = 6
  <2>1. o = Perform(d, Measures({1}, {8}))
    BY <1>6 DEF Rollback
  <2>2. /\ fault \notin {"keeps_predecessor", "swallows_failure", "no_rollback"}
        /\ Only(d, Key20) /\ Weighs(d, 8)
    BY <1>6 DEF AtRollback
  <2>3. Cardinality(DOMAIN d.policy.entries) = 1
    BY <2>2, OfOne DEF Only
  <2>4. QED
    BY <1>6, <2>1, <2>2, <2>3, PerformMeasures DEF Weighs
<1>7. QED
  BY <1>1, <1>2, <1>3, <1>4, <1>5, <1>6

-----------------------------------------------------------------------------
(* Capacity.                                                               *)

Key10 == KeyOf("tenant-a", <<10>>)
Key11 == KeyOf("tenant-a", <<11>>)

\* Limits that have room for one entry of the case.
Tight(ms, mb) ==
    /\ ms \in Nat /\ ms >= 1
    /\ mb \in Nat /\ mb >= 9
    /\ ms = 1 \/ mb = 9

\* The driver before step j of the case.
AtCapacity(j, d) ==
    IF j = 1 THEN \E ms, mb : /\ IF fault = "no_limits" THEN Roomy(ms, mb)
                                                       ELSE Tight(ms, mb)
                              /\ Holds(d, ms, mb, {}, 0)
    ELSE IF fault = "no_limits"
    THEN IF j = 2 THEN HoldsOne(d, Key10, "user", 6)
         ELSE j = 3 /\ Both(d, Key10, Key11)
    ELSE IF j = 2
    THEN \E ms, mb : /\ Tight(ms, mb)
                     /\ Holds(d, ms, mb, {Key10}, 6)
                     /\ Fresh(d, Key10, "user", 6)
    ELSE Only(d, Key11) /\ Weighs(d, 6)

(* Its two prompts have two keys.                                          *)
LEMMA CapacityKeys == Key10 # Key11
<1>1. <<10>> # <<11>>
  OBVIOUS
<1>2. QED
  BY <1>1 DEF Key10, Key11, KeyOf

(* The second user entry of the case evicts the first.                     *)
LEMMA CapacityPlan ==
    ASSUME NEW ms, NEW mb, Tight(ms, mb), NEW p, Proper(p), NEW k1, NEW key, key # k1,
           DOMAIN p.entries = {k1},
           p.entries[k1] = [role |-> "user", nbytes |-> 6, hits |-> 0],
           NEW predecessor
    PROVE  Accepts(Policy(ms, mb)!PlanAdmission(p, key, "user", 6, predecessor),
                   key, "user", 6, {k1})
<1> DEFINE none == {}
           one == {k1}
           Over(evicted) == Policy(ms, mb)!ProjectedOverLimit(p, key, 6, evicted)
           protected == Policy(ms, mb)!ProtectedKeys(p, key, "user", 6, none)
<1>1. Limits(ms, mb)
  BY DEF Tight, Limits
<1>2. {"stable", "active", "user"} \subseteq Roles
  BY SuiteAssumption
<1>3. \A r \in Roles : p.buckets[r] = {k \in DOMAIN p.entries : p.entries[k].role = r}
  BY DEF Proper
<1>4. /\ p.buckets["stable"] = {} /\ p.buckets["active"] = {}
      /\ p.buckets["user"] = {k1}
      /\ \A r \in Roles : r # "user" => p.buckets[r] = {}
  BY <1>2, <1>3
<1>5. /\ Policy(ms, mb)!StableRotation(p, key, "user") = none
      /\ Policy(ms, mb)!ActivePredecessor(p, key, "user", predecessor) = none
      /\ Policy(ms, mb)!PinQuotaVictim(p, key, "user", none) = none
  BY <1>1, NoPins
  DEF Policy!StableRotation, Policy!ActivePredecessor, SuiteRoles
<1>6. protected = {}
  BY <1>4 DEF Policy!ProtectedKeys, Policy!WorkingKeys, Policy!WorkingRoles
<1>7. Over(none)
  <2>1. DOMAIN p.entries \ (none \cup {key}) = one
    OBVIOUS
  <2>2. Cardinality(one) = 1
    BY OfOne
  <2>3. Policy(ms, mb)!Bytes(p, one) = 6
    <3>1. p.entries[k1].nbytes = 6 /\ p.entries[k1].nbytes \in 0 .. mb
      BY DEF Tight
    <3>2. QED
      BY <1>1, <3>1, BytesOf
  <2> HIDE DEF one, none
  <2>4. QED
    BY <2>1, <2>2, <2>3, SameCardinality
    DEF Policy!ProjectedOverLimit, Policy!Resident, Tight
<1>8. ~Over(one)
  <2>1. DOMAIN p.entries \ (one \cup {key}) = none
    OBVIOUS
  <2>2. Cardinality(none) = 0 /\ Policy(ms, mb)!Bytes(p, none) = 0
    BY NoBytes, OfOne
  <2>3. Policy(ms, mb)!Cardinality(none) = 0
    BY <2>2, SameCardinality
  <2>4. ms \in Nat /\ ms >= 1 /\ mb \in Nat /\ mb >= 9
    BY DEF Tight
  <2>5. ~(0 + 1 > ms) /\ ~(0 + 6 > mb)
    BY <2>4
  <2>6. Over(one) <=> Policy(ms, mb)!Cardinality(none) + 1 > ms
                      \/ Policy(ms, mb)!Bytes(p, none) + 6 > mb
    BY <2>1 DEF Policy!ProjectedOverLimit, Policy!Resident
  <2> HIDE DEF one, none, Over
  <2>7. QED
    BY <2>2, <2>3, <2>5, <2>6
<1>9. Policy(ms, mb)!CapacityVictims(p, key, 6, none, protected) = one
  <2>1. Policy(ms, mb)!Indexed(p) \ (none \cup {key}) = one
    BY <1>2, <1>4 DEF Policy!Indexed
  <2>2. ~Policy(ms, mb)!TakenBefore(p, protected, k1, k1)
    <3>1. ~Policy(ms, mb)!EvictedBefore(p, k1, k1)
      <4>1. {r \in Roles : k1 \in p.buckets[r]} = {"user"}
        BY <1>2, <1>4
      <4>2. ~(Policy(ms, mb)!Rank("user") < Policy(ms, mb)!Rank("user"))
        BY DEF Policy!Rank
      <4>3. ~(p.opened["user"] < p.opened["user"])
        BY <1>2 DEF Proper
      <4>4. <<k1, k1>> \notin p.older
        BY DEF Proper
      <4>5. QED
        BY <4>1, <4>2, <4>3, <4>4 DEF Policy!EvictedBefore
    <3>2. QED
      BY <3>1 DEF Policy!TakenBefore
  <2>3. {u \in one : Policy(ms, mb)!TakenBefore(p, protected, u, k1)} = none
    BY <2>2
  <2>4. none \cup none = none
    OBVIOUS
  <2> DEFINE candidates == Policy(ms, mb)!Indexed(p) \ (none \cup {key})
  <2>5. Policy(ms, mb)!CapacityVictims(p, key, 6, none, protected) =
            {v \in candidates :
                Over(none \cup {u \in candidates :
                                    Policy(ms, mb)!TakenBefore(p, protected, u, v)})}
    BY DEF Policy!CapacityVictims
  <2>6. k1 \in one /\ \A v \in one : v = k1
    OBVIOUS
  <2>7. candidates = one
    BY <2>1
  <2> HIDE DEF candidates, none, one, Over, protected
  <2>8. \A v \in one :
            none \cup {u \in one : Policy(ms, mb)!TakenBefore(p, protected, u, v)} = none
    BY <2>3, <2>4, <2>6
  <2>9. \A v \in candidates :
            Over(none \cup {u \in candidates :
                                    Policy(ms, mb)!TakenBefore(p, protected, u, v)})
    BY <1>7, <2>7, <2>8
  <2>10. Policy(ms, mb)!CapacityVictims(p, key, 6, none, protected) = candidates
    BY <2>5, <2>9
  <2>11. QED
    BY <2>7, <2>10
<1>10. ~Policy(ms, mb)!ZeroCapacity /\ ~(6 > mb)
  BY DEF Policy!ZeroCapacity, Tight
<1>11. none \cup none = none /\ none \cup none \cup none = none /\ none \cup one = one
  OBVIOUS
<1> HIDE DEF none, one, protected
<1>12. Policy(ms, mb)!PlanAdmission(p, key, "user", 6, predecessor).accepted
       /\ DOMAIN Policy(ms, mb)!PlanAdmission(p, key, "user", 6, predecessor).evictions
              = one
  BY <1>5, <1>8, <1>9, <1>10, <1>11 DEF Policy!PlanAdmission, protected
<1>13. QED
  BY <1>5, <1>8, <1>9, <1>10, <1>11, <1>12
  DEF Policy!PlanAdmission, protected, Accepts, SuiteRoles, one

(* CapacityPlan, carried out.                                              *)
LEMMA SecondEvictsFirst ==
    ASSUME NEW ms, NEW mb, Tight(ms, mb), NEW d, Holds(d, ms, mb, {Key10}, 6),
           Fresh(d, Key10, "user", 6),
           NEW step, Admits(step), StepKey(step) = Key11, step.role = "user",
           step.nbytes = 6, NEW e, e = Perform(d, step).driver
    PROVE  Perform(d, step).ok /\ Only(e, Key11) /\ Weighs(e, 6)
<1> DEFINE one == {Key10}
           freed == 6
           total == 6
<1>1. Limits(ms, mb) /\ Sized(step, mb)
  BY DEF Tight, Limits, Sized, SuiteRoles
<1>2. /\ Proper(d.policy) /\ DOMAIN d.policy.entries = {Key10}
      /\ d.policy.entries[Key10] = [role |-> "user", nbytes |-> 6, hits |-> 0]
  BY DEF Holds, Able, Fresh
<1>3. Accepts(Planned(d, ms, mb, step), StepKey(step), step.role, step.nbytes, one)
  <2> DEFINE p == d.policy
             pred == Predecessor(step)
  <2> HIDE DEF p, pred
  <2>1. Accepts(Policy(ms, mb)!PlanAdmission(p, Key11, "user", 6, pred),
                Key11, "user", 6, {Key10})
    BY <1>2, CapacityPlan, CapacityKeys DEF p
  <2>2. QED
    BY <2>1 DEF Planned, p, pred
<1>4. Frees(d, mb, one, freed)
  BY <1>2 DEF Frees, Tight
<1>5. StepKey(step) \notin one /\ Holds(d, ms, mb, one, total)
  BY CapacityKeys
<1>6. (one \ one) \cup {StepKey(step)} = {Key11}
  OBVIOUS
<1> HIDE DEF one, freed, total
<1>7. /\ Perform(d, step).ok
      /\ Holds(e, ms, mb, (one \ one) \cup {StepKey(step)},
               total - freed + step.nbytes)
  BY <1>1, <1>3, <1>4, <1>5, AdmissionHolds
<1>8. total - freed + step.nbytes = 6
  BY DEF total, freed
<1>9. QED
  BY <1>6, <1>7, <1>8 DEF Holds, Only, Weighs

(* A new driver of the case has room for one entry, unless it has no limits.*)
LEMMA TightLimits ==
    \E ms, mb : /\ IF fault = "no_limits" THEN Roomy(ms, mb) ELSE Tight(ms, mb)
                /\ Holds(NewDriver(<<1, 9>>), ms, mb, {}, 0)
<1> DEFINE limits == <<1, 9>>
<1>1. PICK ms, mb : /\ Enforced(limits) = <<ms, mb>>
                    /\ IF fault = "no_limits" THEN Roomy(ms, mb) ELSE Tight(ms, mb)
  <2>1. limits[1] = 1 /\ limits[2] = 9
    OBVIOUS
  <2>2. /\ fault = "no_limits" => Enforced(limits) = <<100, 200>>
        /\ fault # "no_limits" => \/ Enforced(limits) = <<100, 9>>
                                  \/ Enforced(limits) = <<1, 200>>
                                  \/ Enforced(limits) = <<1, 9>>
    BY <2>1 DEF Enforced
  <2>3. Roomy(100, 200) /\ Tight(100, 9) /\ Tight(1, 200) /\ Tight(1, 9)
    BY DEF Roomy, Tight
  <2>4. QED
    BY <2>2, <2>3
<1>2. Limits(ms, mb)
  BY <1>1 DEF Roomy, Tight, Limits
<1> HIDE DEF limits
<1>3. Holds(NewDriver(limits), ms, mb, {}, 0)
  BY <1>1, <1>2, NewDrivers
<1>4. QED
  BY <1>1, <1>3 DEF limits

(* The capacity case fails for a driver without limits and for nothing else.*)
LEMMA CapacityRun ==
    ASSUME NEW d, NEW j, j \in {1, 2, 3, 4}, AtCapacity(j, d),
           NEW o, o = Perform(d, Capacity.script[j])
    PROVE  /\ ~o.ok => fault = "no_limits"
           /\ o.ok /\ j = 4 => fault # "no_limits"
           /\ o.ok /\ j # 4 => AtCapacity(j + 1, o.driver)
<1>1. CASE j = 1
  <2> DEFINE step == Admit(<<10>>, "user", 6, None)
  <2>1. o = Perform(d, step)
    BY <1>1 DEF Capacity
  <2>2. /\ Admits(step) /\ StepKey(step) = Key10
        /\ step.role = "user" /\ step.nbytes = 6
    BY Admissions DEF Key10
  <2> HIDE DEF step
  <2>3. PICK ms, mb : /\ IF fault = "no_limits" THEN Roomy(ms, mb) ELSE Tight(ms, mb)
                      /\ Holds(d, ms, mb, {}, 0)
    BY <1>1 DEF AtCapacity
  <2>4. Limits(ms, mb) /\ Sized(step, mb)
    BY <2>2, <2>3 DEF Sized, SuiteRoles, Roomy, Tight, Limits
  <2>5. /\ o.ok
        /\ Holds(o.driver, ms, mb, {Key10}, 6)
        /\ Fresh(o.driver, Key10, "user", 6)
    BY <2>1, <2>2, <2>3, <2>4, FirstAdmission
  <2>6. CASE fault = "no_limits"
    BY <1>1, <2>3, <2>5, <2>6 DEF AtCapacity, HoldsOne
  <2>7. CASE fault # "no_limits"
    BY <1>1, <2>3, <2>5, <2>7 DEF AtCapacity
  <2>8. QED
    BY <2>6, <2>7
<1>2. CASE j = 2
  <2> DEFINE step == Admit(<<11>>, "user", 6, None)
  <2>1. o = Perform(d, step)
    BY <1>2 DEF Capacity
  <2>2. /\ Admits(step) /\ StepKey(step) = Key11
        /\ step.role = "user" /\ step.nbytes = 6
    BY Admissions DEF Key11
  <2> HIDE DEF step
  <2>3. CASE fault = "no_limits"
    <3>1. HoldsOne(d, Key10, "user", 6)
      BY <1>2, <2>3 DEF AtCapacity
    <3>2. Sized(step, 200) /\ step.role # "stable" /\ 6 + step.nbytes <= 200
      BY <2>2 DEF Sized, SuiteRoles
    <3>3. o.ok /\ HoldsTwo(o.driver, Key10, "user", 6, Key11, "user", 6)
      BY <2>1, <2>2, <3>1, <3>2, SecondIn, CapacityKeys
    <3>4. Both(o.driver, Key10, Key11)
      BY <3>3 DEF HoldsTwo, Holds, Both
    <3>5. QED
      BY <1>2, <2>3, <3>3, <3>4 DEF AtCapacity
  <2>4. CASE fault # "no_limits"
    <3>1. PICK ms, mb : /\ Tight(ms, mb)
                        /\ Holds(d, ms, mb, {Key10}, 6)
                        /\ Fresh(d, Key10, "user", 6)
      BY <1>2, <2>4 DEF AtCapacity
    <3>2. o.ok /\ Only(o.driver, Key11) /\ Weighs(o.driver, 6)
      BY <2>1, <2>2, <3>1, SecondEvictsFirst
    <3>3. QED
      BY <1>2, <2>4, <3>2 DEF AtCapacity
  <2>5. QED
    BY <2>3, <2>4
<1>3. CASE j = 3
  <2>1. o = Perform(d, Measures(0 .. 1, 0 .. 9))
    BY <1>3 DEF Capacity
  <2>2. CASE fault = "no_limits"
    <3>1. Both(d, Key10, Key11)
      BY <1>3, <2>2 DEF AtCapacity
    <3>2. Cardinality({Key10, Key11}) = 2
      BY CapacityKeys, TwoMembers
    <3>3. Cardinality(DOMAIN d.policy.entries) = 2
      BY <3>1, <3>2 DEF Both
    <3>4. ~o.ok
      BY <2>1, <3>3, PerformMeasures
    <3>5. QED
      BY <1>3, <2>2, <3>4
  <2>3. CASE fault # "no_limits"
    <3>1. Only(d, Key11) /\ Weighs(d, 6)
      BY <1>3, <2>3 DEF AtCapacity
    <3>2. Cardinality(DOMAIN d.policy.entries) = 1
      BY <3>1, OfOne DEF Only
    <3>3. o.ok /\ o.driver = d
      BY <2>1, <3>1, <3>2, PerformMeasures DEF Weighs
    <3>4. QED
      BY <1>3, <2>3, <3>1, <3>3 DEF AtCapacity
  <2>4. QED
    BY <2>2, <2>3
<1>4. CASE j = 4
  <2>1. o = Perform(d, Present(<<11>>))
    BY <1>4 DEF Capacity, Present
  <2>2. fault # "no_limits" /\ Only(d, Key11)
    BY <1>4 DEF AtCapacity
  <2>3. o.ok
    BY <2>1, <2>2, PerformContains DEF Only, Key11
  <2>4. QED
    BY <1>4, <2>2, <2>3
<1>5. QED
  BY <1>1, <1>2, <1>3, <1>4

-----------------------------------------------------------------------------
(* Any case of the suite.                                                  *)

(* The cases by number.                                                    *)
LEMMA CaseList ==
    /\ Len(Cases) = 7
    /\ Cases[1] = NamespaceIdentity /\ Cases[2] = NamespaceIsolation
    /\ Cases[3] = HitAttribution /\ Cases[4] = StableActiveLineage
    /\ Cases[5] = Capacity /\ Cases[6] = Rollback /\ Cases[7] = GenerationSafety
  BY DEF Cases

(* Tuples are sequences over their members.                                *)
LEMMA Tuples ==
    ASSUME NEW a, NEW b, NEW c, NEW d, NEW e, NEW f, NEW g
    PROVE  LET S == {a, b, c, d, e, f, g}
           IN  /\ <<a>> \in Seq(S) /\ Len(<<a>>) = 1
               /\ <<a, b, c>> \in Seq(S) /\ Len(<<a, b, c>>) = 3
               /\ <<a, b, c, d>> \in Seq(S) /\ Len(<<a, b, c, d>>) = 4
               /\ <<a, b, c, d, e, f>> \in Seq(S) /\ Len(<<a, b, c, d, e, f>>) = 6
               /\ <<a, b, c, d, e, f, g>> \in Seq(S) /\ Len(<<a, b, c, d, e, f, g>>) = 7
  OBVIOUS

HasSteps(s, n) == Len(s) = n /\ \E S : s \in Seq(S)

(* The number of steps of each case.                                       *)
LEMMA Scripts ==
    /\ HasSteps(NamespaceIdentity.script, 1)
    /\ HasSteps(NamespaceIsolation.script, 3)
    /\ HasSteps(HitAttribution.script, 4)
    /\ HasSteps(StableActiveLineage.script, 7)
    /\ HasSteps(Capacity.script, 4)
    /\ HasSteps(Rollback.script, 6)
    /\ HasSteps(GenerationSafety.script, 3)
<1>1. ASSUME NEW a, NEW b, NEW c, NEW d, NEW e, NEW f, NEW g
      PROVE  /\ HasSteps(<<a>>, 1)
             /\ HasSteps(<<a, b, c>>, 3)
             /\ HasSteps(<<a, b, c, d>>, 4)
             /\ HasSteps(<<a, b, c, d, e, f>>, 6)
             /\ HasSteps(<<a, b, c, d, e, f, g>>, 7)
  BY Tuples DEF HasSteps
<1>2. HasSteps(NamespaceIdentity.script, 1)
  BY <1>1 DEF NamespaceIdentity
<1>3. HasSteps(NamespaceIsolation.script, 3)
  BY <1>1 DEF NamespaceIsolation
<1>4. HasSteps(HitAttribution.script, 4)
  BY <1>1 DEF HitAttribution
<1>5. HasSteps(StableActiveLineage.script, 7)
  BY <1>1 DEF StableActiveLineage
<1>6. HasSteps(Capacity.script, 4)
  BY <1>1 DEF Capacity
<1>7. HasSteps(Rollback.script, 6)
  BY <1>1 DEF Rollback
<1>8. HasSteps(GenerationSafety.script, 3)
  BY <1>1 DEF GenerationSafety
<1>9. QED
  BY <1>2, <1>3, <1>4, <1>5, <1>6, <1>7, <1>8

\* The fault is in a capability that case i requires.
Blames(i) == Breaks(fault) \cap Cases[i].requires # {}

\* The faults that case i is there to find.
Finds(i) ==
    CASE i = 1 -> {"one_identity"}
      [] i = 2 -> {"wrong_payload"}
      [] i = 3 -> {"exact_only", "credits_prompt", "credits_twice"}
      [] i = 5 -> {"no_limits"}
      [] i = 6 -> {"no_rollback", "swallows_failure"}
      [] i = 7 -> {"empty_generation_input"}
      [] OTHER -> {}

\* The faults that break a capability of case i, and that it may miss.
Spoils(i) ==
    CASE i = 2 -> {"one_identity", "exact_only"}
      [] i = 3 -> {"wrong_payload"}
      [] i \in {4, 6} -> {"keeps_predecessor"}
      [] i = 7 -> {"exact_only", "wrong_payload"}
      [] OTHER -> {}

(* Every fault that a case finds, or may find, is in what the case requires.*)
LEMMA Blaming ==
    ASSUME NEW i, i \in 1 .. 7, fault \in Finds(i) \cup Spoils(i)
    PROVE  Blames(i)
<1>1. CASE i = 1
  BY <1>1, CaseList DEF Finds, Spoils, Blames, Breaks, NamespaceIdentity
<1>2. CASE i = 2
  <2>1. Cases[i].requires = {"namespace_isolation", "prefix_lookup"}
    BY <1>2, CaseList DEF NamespaceIsolation
  <2>2. fault \in {"wrong_payload", "one_identity", "exact_only"}
    BY <1>2 DEF Finds, Spoils
  <2>3. Breaks(fault) = {"namespace_isolation"} \/ Breaks(fault) = {"prefix_lookup"}
    BY <2>2 DEF Breaks
  <2>4. QED
    BY <2>1, <2>3 DEF Blames
<1>3. CASE i = 3
  BY <1>3, CaseList DEF Finds, Spoils, Blames, Breaks, HitAttribution
<1>4. CASE i = 4
  BY <1>4, CaseList DEF Finds, Spoils, Blames, Breaks, StableActiveLineage
<1>5. CASE i = 5
  BY <1>5, CaseList DEF Finds, Spoils, Blames, Breaks, Capacity
<1>6. CASE i = 6
  BY <1>6, CaseList DEF Finds, Spoils, Blames, Breaks, Rollback
<1>7. CASE i = 7
  BY <1>7, CaseList DEF Finds, Spoils, Blames, Breaks, GenerationSafety
<1>8. QED
  BY <1>1, <1>2, <1>3, <1>4, <1>5, <1>6, <1>7

(* No fault is both.                                                       *)
LEMMA Apart ==
    ASSUME NEW i, i \in 1 .. 7, fault \in Spoils(i)
    PROVE  fault \notin Finds(i)
  BY DEF Spoils, Finds

\* The driver before step j of case i, for a fault that does not spoil it.
At(i, j, d) ==
    /\ i = 2 => AtIsolation(j, d)
    /\ i = 3 => AtAttribution(j, d)
    /\ i = 4 => AtLineage(j, d)
    /\ i = 5 => AtCapacity(j, d)
    /\ i = 6 => AtRollback(j, d)
    /\ i = 7 => AtSafety(j, d)

(* A case begins with a driver as its first step expects it.               *)
LEMMA CaseBegins ==
    ASSUME NEW i, i \in 1 .. 7, fault \notin Spoils(i)
    PROVE  At(i, 1, NewDriver(Cases[i].limits))
<1>1. CASE i = 1
  BY <1>1 DEF At
<1>2. CASE i = 2
  BY <1>2, CaseList, RoomyLimits DEF At, AtIsolation, Spoils, NamespaceIsolation
<1>3. CASE i = 3
  BY <1>3, CaseList, RoomyLimits DEF At, AtAttribution, Spoils, HitAttribution
<1>4. CASE i = 4
  BY <1>4, CaseList, RoomyLimits DEF At, AtLineage, Spoils, StableActiveLineage
<1>5. CASE i = 5
  BY <1>5, CaseList, TightLimits DEF At, AtCapacity, Capacity
<1>6. CASE i = 6
  BY <1>6, CaseList, RoomyLimits DEF At, AtRollback, Spoils, Rollback
<1>7. CASE i = 7
  BY <1>7, CaseList, RoomyLimits DEF At, AtSafety, Spoils, GenerationSafety
<1>8. QED
  BY <1>1, <1>2, <1>3, <1>4, <1>5, <1>6, <1>7

StepsOf(i) == Len(Cases[i].script)

(* A call fails only for a fault the case finds, and the last one shows what*)
(* it must only without it.                                                *)
LEMMA StepRuns ==
    ASSUME NEW i, i \in 1 .. 7, NEW j, j \in 1 .. StepsOf(i), fault \notin Spoils(i),
           NEW d, At(i, j, d), NEW o, o = Perform(d, Cases[i].script[j])
    PROVE  /\ ~o.ok => fault \in Finds(i)
           /\ o.ok /\ j = StepsOf(i) => fault \notin Finds(i)
           /\ o.ok /\ j # StepsOf(i) => At(i, j + 1, o.driver)
<1>1. CASE i = 1
  <2>1. StepsOf(i) = 1 /\ Cases[i].script[1] = Identity
    BY <1>1, CaseList, Scripts DEF StepsOf, HasSteps, NamespaceIdentity
  <2>2. o = Perform(d, Identity)
    BY <2>1
  <2>3. o.ok <=> fault # "one_identity"
    BY <2>2, PerformIdentity, PerformIdentityFails
  <2>4. QED
    BY <1>1, <2>1, <2>3 DEF Finds, At
<1>2. CASE i = 2
  <2>1. StepsOf(i) = 3 /\ Cases[i] = NamespaceIsolation
    BY <1>2, CaseList, Scripts DEF StepsOf, HasSteps
  <2>2. j \in {1, 2, 3} /\ AtIsolation(j, d)
    BY <1>2, <2>1 DEF At
  <2>3. QED
    BY <1>2, <2>1, <2>2, IsolationRun DEF Finds, At
<1>3. CASE i = 3
  <2>1. StepsOf(i) = 4 /\ Cases[i] = HitAttribution
    BY <1>3, CaseList, Scripts DEF StepsOf, HasSteps
  <2>2. j \in {1, 2, 3, 4} /\ AtAttribution(j, d)
    BY <1>3, <2>1 DEF At
  <2>3. QED
    BY <1>3, <2>1, <2>2, AttributionRun DEF Finds, At, Miscredits
<1>4. CASE i = 4
  <2>1. StepsOf(i) = 7 /\ Cases[i] = StableActiveLineage
    BY <1>4, CaseList, Scripts DEF StepsOf, HasSteps
  <2>2. j \in {1, 2, 3, 4, 5, 6, 7} /\ AtLineage(j, d)
    BY <1>4, <2>1 DEF At
  <2>3. QED
    BY <1>4, <2>1, <2>2, LineageRun DEF Finds, At
<1>5. CASE i = 5
  <2>1. StepsOf(i) = 4 /\ Cases[i] = Capacity
    BY <1>5, CaseList, Scripts DEF StepsOf, HasSteps
  <2>2. j \in {1, 2, 3, 4} /\ AtCapacity(j, d)
    BY <1>5, <2>1 DEF At
  <2>3. QED
    BY <1>5, <2>1, <2>2, CapacityRun DEF Finds, At
<1>6. CASE i = 6
  <2>1. StepsOf(i) = 6 /\ Cases[i] = Rollback
    BY <1>6, CaseList, Scripts DEF StepsOf, HasSteps
  <2>2. j \in {1, 2, 3, 4, 5, 6} /\ AtRollback(j, d)
    BY <1>6, <2>1 DEF At
  <2>3. QED
    BY <1>6, <2>1, <2>2, RollbackRun DEF Finds, At
<1>7. CASE i = 7
  <2>1. StepsOf(i) = 3 /\ Cases[i] = GenerationSafety
    BY <1>7, CaseList, Scripts DEF StepsOf, HasSteps
  <2>2. j \in {1, 2, 3} /\ AtSafety(j, d)
    BY <1>7, <2>1 DEF At
  <2>3. QED
    BY <1>7, <2>1, <2>2, SafetyRun DEF Finds, At
<1>8. QED
  BY <1>1, <1>2, <1>3, <1>4, <1>5, <1>6, <1>7

-----------------------------------------------------------------------------
(* The runner.                                                             *)

Statuses == {"pass", "fail", "skip"}

\* What the verdict of case i says.
Verdict(i, status) ==
    /\ status = "fail" => Cases[i].requires \subseteq declared /\ Blames(i)
    /\ Cases[i].requires \subseteq declared /\ fault \in Finds(i) => status = "fail"

\* A case that runs is one that the descriptor asks for, and its driver is
\* where the calls made so far leave it.
Running ==
    /\ case <= 7
    /\ Cases[case].requires \subseteq declared
    /\ \E j \in 1 .. StepsOf(case) :
          /\ script = From(Cases[case].script, j)
          /\ fault \notin Spoils(case) => At(case, j, driver)

SuiteInv ==
    /\ \A c \in declared : DependsOn(c) \subseteq declared
    /\ fault \in Faults \cup {None}
    /\ case \in 1 .. 8
    /\ report \in Seq(Statuses) /\ Len(report) = case - 1
    /\ \A i \in 1 .. Len(report) : Verdict(i, report[i])
    /\ script = None \/ Running

(* No case has run, and the capabilities are closed under what they need.  *)
LEMMA SuiteInit == Init => SuiteInv
<1>1. SUFFICES ASSUME Init PROVE SuiteInv
  OBVIOUS
<1>2. \A c \in declared : DependsOn(c) \subseteq declared
  BY <1>1 DEF Init, Declarable
<1>3. report \in Seq(Statuses) /\ Len(report) = 0
  BY <1>1 DEF Init
<1>4. QED
  BY <1>1, <1>2, <1>3 DEF Init, SuiteInv

(* Adding a true verdict ends a case.                                      *)
LEMMA Finishes ==
    ASSUME SuiteInv, case <= 7, NEW status \in Statuses, Verdict(case, status),
           Finish(status), UNCHANGED <<declared, fault>>
    PROVE  SuiteInv'
<1>1. case' = case + 1 /\ script' = None /\ report' = Append(report, status)
  BY DEF Finish
<1>2. case \in 1 .. 7 /\ report \in Seq(Statuses) /\ Len(report) = case - 1
  BY DEF SuiteInv
<1>3. /\ report' \in Seq(Statuses) /\ Len(report') = case
      /\ report'[case] = status
      /\ \A i \in 1 .. Len(report) : report'[i] = report[i]
  BY <1>1, <1>2
<1>4. \A i \in 1 .. Len(report') : Verdict(i, report'[i])
  <2>1. TAKE i \in 1 .. Len(report')
  <2>2. CASE i = case
    BY <1>3, <2>2
  <2>3. CASE i # case
    <3>1. i \in 1 .. Len(report)
      BY <1>2, <1>3, <2>1, <2>3
    <3>2. Verdict(i, report[i]) /\ report'[i] = report[i]
      BY <1>3, <3>1 DEF SuiteInv
    <3>3. QED
      BY <3>2
  <2>4. QED
    BY <2>2, <2>3
<1>5. (\A i \in 1 .. Len(report) : Verdict(i, report[i]))'
  BY <1>4 DEF Verdict, Blames
<1>6. QED
  BY <1>1, <1>2, <1>3, <1>5 DEF SuiteInv

(* A skipped case says nothing of a driver that does not declare it.       *)
LEMMA SuiteSkip ==
    ASSUME SuiteInv, Skip
    PROVE  SuiteInv'
<1>1. case <= 7
  BY CaseList DEF Skip
<1>2. Verdict(case, "skip")
  BY DEF Skip, Required, Verdict
<1>3. Finish("skip") /\ UNCHANGED <<declared, fault>> /\ "skip" \in Statuses
  BY DEF Skip, Statuses
<1>4. QED
  BY <1>1, <1>2, <1>3, Finishes

(* Every case has steps.                                                   *)
LEMMA CaseScripts ==
    ASSUME NEW i, i \in 1 .. 7
    PROVE  /\ StepsOf(i) \in 1 .. 7
           /\ \E S : Cases[i].script \in Seq(S)
<1>1. i = 1 \/ i = 2 \/ i = 3 \/ i = 4 \/ i = 5 \/ i = 6 \/ i = 7
  OBVIOUS
<1>2. QED
  BY <1>1, CaseList, Scripts DEF StepsOf, HasSteps

(* Where a driver is depends on nothing that a step of its case changes.   *)
LEMMA AtStays ==
    ASSUME UNCHANGED <<case, fault>>, NEW j, NEW d, At(case, j, d), driver' = d
    PROVE  At(case, j, driver)'
<1>1. case' = case /\ fault' = fault /\ driver' = d
  OBVIOUS
<1>2. ASSUME AtIsolation(j, d)
      PROVE  AtIsolation(j, driver)'
  BY <1>1, <1>2 DEF AtIsolation, KeyA, KeyOf
<1>3. ASSUME AtAttribution(j, d)
      PROVE  AtAttribution(j, driver)'
  BY <1>1, <1>3 DEF AtAttribution, KeyH, KeyOf, CreditLeft, Miscredits
<1>4. ASSUME AtLineage(j, d)
      PROVE  AtLineage(j, driver)'
  BY <1>1, <1>4 DEF AtLineage, Key5, Key6, Key7, KeyOf
<1>5. ASSUME AtCapacity(j, d)
      PROVE  AtCapacity(j, driver)'
  BY <1>1, <1>5 DEF AtCapacity, Key10, Key11, KeyOf
<1>6. ASSUME AtRollback(j, d)
      PROVE  AtRollback(j, driver)'
  BY <1>1, <1>6 DEF AtRollback, Key20, KeyOf
<1>7. ASSUME AtSafety(j, d)
      PROVE  AtSafety(j, driver)'
  BY <1>1, <1>7 DEF AtSafety, KeyS, KeyT, KeyOf
<1>8. QED
  BY <1>1, <1>2, <1>3, <1>4, <1>5, <1>6, <1>7 DEF At

(* A case begins at its first step.                                        *)
LEMMA SuiteBegin ==
    ASSUME SuiteInv, Begin
    PROVE  SuiteInv'
<1>1. case \in 1 .. 7
  BY CaseList DEF Begin, SuiteInv
<1>2. /\ Cases[case].requires \subseteq declared
      /\ script' = Cases[case].script
      /\ driver' = NewDriver(Cases[case].limits)
      /\ UNCHANGED <<declared, fault, case, report>>
  BY DEF Begin, Required
<1>3. From(Cases[case].script, 1) = Cases[case].script /\ 1 \in 1 .. StepsOf(case)
  BY <1>1, CaseScripts, FromWhole
<1>4. ASSUME fault \notin Spoils(case)
      PROVE  At(case, 1, driver)'
  <2>1. At(case, 1, NewDriver(Cases[case].limits))
    BY <1>1, <1>4, CaseBegins
  <2>2. PICK d : d = NewDriver(Cases[case].limits)
    OBVIOUS
  <2>3. QED
    BY <1>2, <2>1, <2>2, AtStays
<1>5. Running'
  BY <1>1, <1>2, <1>3, <1>4 DEF Running, StepsOf, From
<1>6. QED
  BY <1>2, <1>5 DEF SuiteInv, Verdict, Blames

(* A step fails, passes the case, or leads to the next one.                *)
LEMMA SuiteStep ==
    ASSUME SuiteInv, Step
    PROVE  SuiteInv'
<1>1. Running /\ case \in 1 .. 7
  BY DEF SuiteInv, Step, Running
<1>2. PICK j \in 1 .. StepsOf(case) :
          /\ script = From(Cases[case].script, j)
          /\ fault \notin Spoils(case) => At(case, j, driver)
  BY <1>1 DEF Running
<1>3. PICK outcome : outcome = Perform(driver, Cases[case].script[j])
  OBVIOUS
<1>4. /\ Head(script) = Cases[case].script[j]
      /\ Len(script) = StepsOf(case) - j + 1
      /\ j < StepsOf(case) => Tail(script) = From(Cases[case].script, j + 1)
  <2>1. PICK S : Cases[case].script \in Seq(S)
    BY <1>1, CaseScripts
  <2>2. QED
    BY <1>2, <2>1, FromNext DEF StepsOf
<1>5. StepsOf(case) \in Nat /\ j \in Nat /\ j <= StepsOf(case)
  BY <1>1, <1>2, CaseScripts
<1>6. CASE ~outcome.ok
  <2>1. Finish("fail") /\ UNCHANGED <<declared, fault>>
    BY <1>3, <1>4, <1>6 DEF Step
  <2>2. Blames(case)
    BY <1>1, <1>2, <1>3, <1>6, StepRuns, Blaming
  <2>3. Verdict(case, "fail")
    BY <1>1, <2>2 DEF Verdict, Running
  <2>4. QED
    BY <1>1, <2>1, <2>3, Finishes DEF Statuses
<1>7. CASE outcome.ok /\ j = StepsOf(case)
  <2>1. Finish("pass") /\ UNCHANGED <<declared, fault>>
    BY <1>3, <1>4, <1>5, <1>7 DEF Step
  <2>2. fault \notin Finds(case)
    BY <1>1, <1>2, <1>3, <1>7, StepRuns, Apart
  <2>3. Verdict(case, "pass")
    BY <2>2 DEF Verdict
  <2>4. QED
    BY <1>1, <2>1, <2>3, Finishes DEF Statuses
<1>8. CASE outcome.ok /\ j # StepsOf(case)
  <2>1. /\ script' = From(Cases[case].script, j + 1)
        /\ driver' = outcome.driver
        /\ UNCHANGED <<declared, fault, case, report>>
    BY <1>3, <1>4, <1>5, <1>8 DEF Step
  <2>2. ASSUME fault \notin Spoils(case)
        PROVE  At(case, j + 1, driver)'
    <3>1. At(case, j + 1, outcome.driver)
      BY <1>1, <1>2, <1>3, <1>8, <2>2, StepRuns
    <3>2. QED
      BY <2>1, <3>1, AtStays
  <2>3. j + 1 \in 1 .. StepsOf(case)
    BY <1>5, <1>8
  <2>4. Running'
    BY <1>1, <2>1, <2>2, <2>3 DEF Running, StepsOf, From
  <2>5. QED
    BY <2>1, <2>4 DEF SuiteInv, Verdict, Blames
<1>9. QED
  BY <1>6, <1>7, <1>8

(* run_backend_conformance records only verdicts that mean what they say, and*)
(* a driver is always where the calls of its case so far leave it.         *)
THEOREM SuiteInvariant == Spec => []SuiteInv
<1>1. Init => SuiteInv
  BY SuiteInit
<1>2. SuiteInv /\ [Next]_vars => SuiteInv'
  <2>1. SUFFICES ASSUME SuiteInv, [Next]_vars PROVE SuiteInv'
    OBVIOUS
  <2>2. CASE UNCHANGED vars
    <3>1. UNCHANGED <<declared, fault, case, script, driver, report>>
      BY <2>2 DEF vars
    <3>2. ASSUME NEW j, At(case, j, driver)
          PROVE  At(case, j, driver)'
      <4>1. PICK d : d = driver
        OBVIOUS
      <4>2. QED
        BY <3>1, <3>2, <4>1, AtStays
    <3>3. Running => Running'
      BY <3>1, <3>2 DEF Running, StepsOf, From
    <3>4. QED
      BY <2>1, <3>1, <3>3 DEF SuiteInv, Verdict, Blames
  <2>3. QED
    BY <2>1, <2>2, SuiteSkip, SuiteBegin, SuiteStep DEF Next
<1>3. QED
  BY <1>1, <1>2, PTL DEF Spec

(* run_backend_conformance never blames a driver wrongly: whatever the driver*)
(* declares and whatever is wrong with it, a case fails only if the driver is*)
(* broken in a capability that the case requires and the descriptor declares.*)
THEOREM FailuresDeserved == Spec => []FailuresAreDeserved
<1>1. SuiteInv => FailuresAreDeserved
  <2>1. SUFFICES ASSUME SuiteInv, NEW i \in FailedCases
                 PROVE  /\ Cases[i].requires \subseteq declared
                        /\ Breaks(fault) \cap Cases[i].requires # {}
    BY DEF FailuresAreDeserved
  <2>2. i \in 1 .. Len(report) /\ report[i] = "fail"
    BY <2>1 DEF FailedCases, SuiteInv
  <2>3. Verdict(i, report[i])
    BY <2>1, <2>2 DEF SuiteInv
  <2>4. QED
    BY <2>2, <2>3 DEF Verdict, Blames
<1>2. QED
  BY <1>1, SuiteInvariant, PTL

\* The faults that the cases are made to find.
Findable == UNION {Finds(i) : i \in 1 .. 7}

(* run_backend_conformance finds every fault its cases are made for, whatever*)
(* the driver declares, as soon as it declares what exposes the fault. A driver*)
(* that keeps predecessors, or enforces one limit only, is not found.      *)
THEOREM FaultsFound ==
    ASSUME Faults \subseteq Findable
    PROVE  Spec => []FaultsAreFound
<1>1. SuiteInv => FaultsAreFound
  <2>1. SUFFICES ASSUME SuiteInv, case > Len(Cases), fault # None,
                        Exposes(fault) \subseteq declared
                 PROVE  FailedCases # {}
    BY DEF FaultsAreFound
  <2>2. Len(report) = 7 /\ report \in Seq(Statuses)
    BY <2>1, CaseList DEF SuiteInv
  <2>3. PICK i \in 1 .. 7 : fault \in Finds(i)
    BY <2>1 DEF SuiteInv, Findable
  <2>4. Cases[i].requires \subseteq declared
    <3>1. \A c \in declared : DependsOn(c) \subseteq declared
      BY <2>1 DEF SuiteInv
    <3>2. CASE i = 1
      BY <2>1, <2>3, <3>2, CaseList DEF Finds, Exposes, Breaks, NamespaceIdentity
    <3>3. CASE i = 2
      BY <2>1, <2>3, <3>3, CaseList DEF Finds, Exposes, NamespaceIsolation
    <3>4. CASE i = 3
      BY <2>1, <2>3, <3>1, <3>4, CaseList
      DEF Finds, Exposes, Breaks, DependsOn, HitAttribution
    <3>5. CASE i = 4
      BY <2>3, <3>5 DEF Finds
    <3>6. CASE i = 5
      BY <2>1, <2>3, <3>6, CaseList DEF Finds, Exposes, Breaks, Capacity
    <3>7. CASE i = 6
      BY <2>1, <2>3, <3>1, <3>7, CaseList DEF Finds, Exposes, DependsOn, Rollback
    <3>8. CASE i = 7
      BY <2>1, <2>3, <3>1, <3>8, CaseList
      DEF Finds, Exposes, Breaks, DependsOn, GenerationSafety
    <3>9. QED
      BY <3>2, <3>3, <3>4, <3>5, <3>6, <3>7, <3>8
  <2>5. Verdict(i, report[i]) /\ i \in DOMAIN report
    <3>1. 1 .. Len(report) = 1 .. 7 /\ DOMAIN report = 1 .. 7
      BY <2>2
    <3>2. QED
      BY <2>1, <2>3, <3>1 DEF SuiteInv
  <2>6. report[i] = "fail"
    BY <2>3, <2>4, <2>5 DEF Verdict
  <2>7. QED
    BY <2>5, <2>6 DEF FailedCases
<1>2. QED
  BY <1>1, SuiteInvariant, PTL
=============================================================================
