--------------------------- MODULE PolicyOpsProofs ---------------------------
(***************************************************************************)
(* Facts about the operators of PolicyOps, for every policy value and      *)
(* every value of the constants.                                           *)
(***************************************************************************)
EXTENDS PolicyOps, TLAPS, FiniteSetTheorems

\* What every operator may assume of a policy value, and must re-establish.
Coherent(p) ==
    /\ WellTyped(p)
    /\ IsFiniteSet(Resident(p))
    /\ Filed(p)
    /\ Ordered(p)
    /\ Accounted(p)

-----------------------------------------------------------------------------
(* Orders.                                                                 *)

(* In a strict order of a finite set some element comes before every other *)
(* that it is compared with.                                               *)
LEMMA FiniteMinimal ==
    ASSUME NEW S, IsFiniteSet(S), S # {}, NEW R,
           \A u \in S : <<u, u>> \notin R,
           \A u, v, w \in S : <<u, v>> \in R /\ <<v, w>> \in R => <<u, w>> \in R
    PROVE  \E v \in S : \A u \in S : <<u, v>> \notin R
<1> DEFINE Below(v) == {u \in S : <<u, v>> \in R}
           below == {Below(v) : v \in S}
<1>1. ASSUME NEW u \in S, NEW v \in S, u \in Below(v)
      PROVE  Below(u) \subseteq Below(v) /\ Below(u) # Below(v)
  BY <1>1
<1>2. \A v \in S : Below(v) \in FiniteSubsetsOf(S)
  <2>1. \A v \in S : Below(v) \in SUBSET S
    OBVIOUS
  <2>2. \A v \in S : IsFiniteSet(Below(v))
    BY <2>1, FS_Subset
  <2>3. QED
    BY <2>1, <2>2 DEF FiniteSubsetsOf
<1>3. below \subseteq FiniteSubsetsOf(S) /\ below # {}
  <2> HIDE DEF Below
  <2>1. QED
    BY <1>2
<1>4. PICK least \in below :
          \A other \in below : <<other, least>> \notin StrictSubsetOrdering(S)
  <2> HIDE DEF below
  <2>1. QED
    BY <1>3, FS_StrictSubsetOrderingWellFounded, WFMin
<1>5. PICK v \in S : least = Below(v)
  BY <1>4
<1>6. ASSUME NEW u \in S PROVE <<u, v>> \notin R
  <2>1. SUFFICES ASSUME u \in Below(v) PROVE FALSE
    OBVIOUS
  <2>2. Below(u) \subseteq Below(v) /\ Below(u) # Below(v)
    <3> HIDE DEF Below
    <3>1. QED
      BY <1>1, <2>1
  <2>3. Below(u) \in below
    OBVIOUS
  <2>4. <<Below(u), Below(v)>> \in StrictSubsetOrdering(S)
    BY <2>2 DEF StrictSubsetOrdering
  <2>5. QED
    BY <1>4, <1>5, <2>3, <2>4
<1>7. QED
  BY <1>6

(* And some element comes after every other that it is compared with.      *)
LEMMA FiniteMaximal ==
    ASSUME NEW S, IsFiniteSet(S), S # {}, NEW R,
           \A u \in S : <<u, u>> \notin R,
           \A u, v, w \in S : <<u, v>> \in R /\ <<v, w>> \in R => <<u, w>> \in R
    PROVE  \E v \in S : \A u \in S : <<v, u>> \notin R
<1> DEFINE Q == {pair \in S \X S : <<pair[2], pair[1]>> \in R}
<1>1. \A u, v \in S : <<u, v>> \in Q <=> <<v, u>> \in R
  OBVIOUS
<1> HIDE DEF Q
<1>2. \A u \in S : <<u, u>> \notin Q
  BY <1>1
<1>3. \A u, v, w \in S : <<u, v>> \in Q /\ <<v, w>> \in Q => <<u, w>> \in Q
  BY <1>1
<1>4. PICK v \in S : \A u \in S : <<u, v>> \notin Q
  BY <1>2, <1>3, FiniteMinimal
<1>5. QED
  BY <1>1, <1>4

-----------------------------------------------------------------------------
(* Sums of bytes.                                                          *)

Cells(p, S) == {c \in S \X (1 .. MaxBytes) : c[2] <= p.entries[c[1]].nbytes}

(* A sum over finitely many entries is a natural number.                   *)
LEMMA BytesFinite ==
    ASSUME NEW p, NEW S, IsFiniteSet(S)
    PROVE  /\ IsFiniteSet(Cells(p, S))
           /\ Bytes(p, S) = Cardinality(Cells(p, S))
           /\ Bytes(p, S) \in Nat
<1>1. IsFiniteSet(1 .. MaxBytes)
  BY FS_Interval, CapacityAssumption
<1>2. IsFiniteSet(S \X (1 .. MaxBytes))
  BY <1>1, FS_Product
<1>3. Cells(p, S) \in SUBSET (S \X (1 .. MaxBytes))
  BY DEF Cells
<1>4. IsFiniteSet(Cells(p, S))
  BY <1>2, <1>3, FS_Subset
<1>5. Bytes(p, S) = Cardinality(Cells(p, S))
  BY DEF Bytes, Cells
<1>6. QED
  BY <1>4, <1>5, FS_CardinalityType

(* Fewer entries never weigh more.                                         *)
LEMMA BytesMonotone ==
    ASSUME NEW p, NEW S, IsFiniteSet(S), NEW T \in SUBSET S
    PROVE  IsFiniteSet(T) /\ Bytes(p, T) <= Bytes(p, S)
<1>1. IsFiniteSet(T)
  BY FS_Subset
<1>2. Cells(p, T) \in SUBSET Cells(p, S)
  BY DEF Cells
<1>3. QED
  BY <1>1, <1>2, BytesFinite, FS_Subset

(* A sum splits along any partition of its entries.                        *)
LEMMA BytesSplit ==
    ASSUME NEW p, NEW S, IsFiniteSet(S), NEW T \in SUBSET S
    PROVE  Bytes(p, S) = Bytes(p, T) + Bytes(p, S \ T)
<1>1. IsFiniteSet(T) /\ IsFiniteSet(S \ T)
  BY FS_Subset
<1>2. /\ Cells(p, S) = Cells(p, T) \cup Cells(p, S \ T)
      /\ Cells(p, T) \cap Cells(p, S \ T) = {}
  BY DEF Cells
<1>3. /\ IsFiniteSet(Cells(p, T)) /\ IsFiniteSet(Cells(p, S \ T))
      /\ Bytes(p, S) = Cardinality(Cells(p, S))
      /\ Bytes(p, T) = Cardinality(Cells(p, T))
      /\ Bytes(p, S \ T) = Cardinality(Cells(p, S \ T))
      /\ Bytes(p, T) \in Nat /\ Bytes(p, S \ T) \in Nat
  BY <1>1, BytesFinite
<1>4. Cardinality(Cells(p, S)) = Cardinality(Cells(p, T)) + Cardinality(Cells(p, S \ T))
                                 - Cardinality({})
  <2>1. Cardinality(Cells(p, T) \cup Cells(p, S \ T))
           = Cardinality(Cells(p, T)) + Cardinality(Cells(p, S \ T))
               - Cardinality(Cells(p, T) \cap Cells(p, S \ T))
    BY <1>3, FS_Union
  <2>2. QED
    BY <1>2, <2>1
<1>5. QED
  BY <1>3, <1>4, FS_EmptySet

(* A sum depends on the sizes of its entries alone.                        *)
LEMMA BytesSame ==
    ASSUME NEW p, NEW q, NEW S, \A k \in S : p.entries[k].nbytes = q.entries[k].nbytes
    PROVE  Bytes(p, S) = Bytes(q, S)
<1>1. Cells(p, S) = Cells(q, S)
  BY DEF Cells
<1>2. QED
  BY <1>1 DEF Bytes, Cells

(* The sum over one entry is its size.                                     *)
LEMMA BytesOne ==
    ASSUME NEW p, NEW k, p.entries[k].nbytes \in 0 .. MaxBytes
    PROVE  Bytes(p, {k}) = p.entries[k].nbytes
<1> DEFINE n == p.entries[k].nbytes
<1>0. n \in Nat
  BY CapacityAssumption
<1>1. Cells(p, {k}) = {k} \X (1 .. n)
  BY CapacityAssumption DEF Cells
<1> HIDE DEF n
<1>2. IsFiniteSet(1 .. n) /\ Cardinality(1 .. n) = n
  BY <1>0, FS_Interval
<1>3. IsFiniteSet({k}) /\ Cardinality({k}) = 1
  BY FS_Singleton
<1>4. Cardinality({k} \X (1 .. n)) = Cardinality({k}) * Cardinality(1 .. n)
  BY <1>2, <1>3, FS_Product
<1>5. Bytes(p, {k}) = Cardinality(Cells(p, {k}))
  BY <1>3, BytesFinite
<1>6. Bytes(p, {k}) = n
  <2>1. Cardinality({k}) * Cardinality(1 .. n) = 1 * n
    BY <1>2, <1>3
  <2>2. 1 * n = n
    BY <1>0
  <2>3. QED
    BY <1>1, <1>4, <1>5, <2>1, <2>2
<1>7. QED
  BY <1>6 DEF n

(* An empty policy is coherent, within its limits and has no stable key.   *)
LEMMA EmptySafe ==
    /\ Coherent(EmptyPolicy)
    /\ WithinLimits(EmptyPolicy)
    /\ SingleStable(EmptyPolicy)
<1> DEFINE p == EmptyPolicy
<1>1. /\ Resident(p) = {}
      /\ p.entries = [k \in {} |-> [role |-> "", nbytes |-> 0, hits |-> 0]]
      /\ p.buckets = [r \in Roles |-> {}]
      /\ p.older = {}
      /\ p.opened = [r \in Roles |-> 0]
      /\ p.nbytes = 0
      /\ p.cand = NoCandidate
      /\ DOMAIN p = {"entries", "buckets", "older", "opened", "nbytes", "cand"}
  BY DEF EmptyPolicy, Resident
<1> HIDE DEF p
<1>2. Cardinality({}) = 0 /\ IsFiniteSet({}) /\ Bytes(p, {}) = 0
  <2>1. Cells(p, {}) = {}
    BY DEF Cells
  <2>2. QED
    BY <2>1, FS_EmptySet, BytesFinite
<1>3. p.entries \in [Resident(p) -> EntryState]
  BY <1>1
<1>4. p.cand \in [key : Keys \cup {None}, count : Nat, baseHits : Nat]
  BY <1>1 DEF NoCandidate
<1>5. WellTyped(p)
  BY <1>1, <1>3, <1>4 DEF WellTyped
<1>6. Filed(p) /\ Ordered(p) /\ Accounted(p)
  BY <1>1, <1>2 DEF Filed, Ordered, Accounted
<1>7. WithinLimits(p) /\ SingleStable(p)
  BY <1>1, <1>2, CapacityAssumption, RolesAssumption DEF WithinLimits, SingleStable
<1>8. QED
  BY <1>1, <1>2, <1>5, <1>6, <1>7 DEF p, Coherent

-----------------------------------------------------------------------------
(* Removal and insertion.                                                  *)

(* Removing entries keeps a policy value coherent and only shrinks it.     *)
LEMMA RemoveCoherent ==
    ASSUME NEW p, Coherent(p), NEW S
    PROVE  LET q == RemoveEntries(p, S)
           IN  /\ Coherent(q)
               /\ Resident(q) = Resident(p) \ S
               /\ Bytes(q, Resident(q)) = Bytes(p, Resident(p) \ S)
               /\ \A k \in Resident(q) : q.entries[k] = p.entries[k]
               /\ q.cand = p.cand
               /\ q.opened = p.opened
<1> DEFINE q == RemoveEntries(p, S)
           gone == S \cap Resident(p)
<1>1. /\ Resident(q) = Resident(p) \ S
      /\ \A k \in Resident(q) : q.entries[k] = p.entries[k]
      /\ q.entries = [k \in Resident(p) \ S |-> p.entries[k]]
      /\ q.cand = p.cand
      /\ q.opened = p.opened
      /\ q.nbytes = p.nbytes - Bytes(p, gone)
  BY DEF RemoveEntries, Resident
<1>2. IsFiniteSet(Resident(q))
  BY <1>1, FS_Subset DEF Coherent
<1>3. Bytes(q, Resident(q)) = Bytes(p, Resident(p) \ S)
  BY <1>1, BytesSame
<1>4. Accounted(q) /\ q.nbytes \in Nat
  <2>1. Resident(p) \ gone = Resident(p) \ S
    OBVIOUS
  <2>2. Bytes(p, Resident(p)) = Bytes(p, gone) + Bytes(p, Resident(p) \ S)
    BY <2>1, BytesSplit DEF Coherent
  <2>3. IsFiniteSet(gone) /\ IsFiniteSet(Resident(p) \ S)
    BY FS_Subset DEF Coherent
  <2>4. Bytes(p, gone) \in Nat /\ Bytes(p, Resident(p) \ S) \in Nat
    BY <2>3, BytesFinite
  <2>5. QED
    BY <1>1, <1>3, <2>2, <2>4 DEF Accounted, Coherent
<1>5. WellTyped(q)
  <2>1. DOMAIN q = {"entries", "buckets", "older", "opened", "nbytes", "cand"}
    BY DEF RemoveEntries
  <2>2. q.entries \in [Resident(q) -> EntryState]
    BY <1>1 DEF Coherent, WellTyped
  <2>3. q.buckets \in [Roles -> SUBSET Keys] /\ q.older \subseteq Keys \X Keys
    BY DEF Coherent, WellTyped, RemoveEntries
  <2>4. QED
    BY <1>1, <1>4, <2>1, <2>2, <2>3 DEF Coherent, WellTyped
<1>6. Filed(q)
  BY <1>1 DEF Filed, Coherent, WellTyped, RemoveEntries
<1>7. Ordered(q)
  <2>1. q.older = {pair \in p.older : pair[1] \notin gone /\ pair[2] \notin gone}
    BY DEF RemoveEntries
  <2>2. ASSUME NEW pair \in q.older
        PROVE  /\ pair[1] \in Resident(q)
               /\ pair[2] \in Resident(q)
               /\ pair[1] # pair[2]
               /\ q.entries[pair[1]].role = q.entries[pair[2]].role
    BY <1>1, <2>1 DEF Coherent, Ordered
  <2>3. ASSUME NEW j \in Keys, NEW k \in Keys, NEW l \in Keys,
               <<j, k>> \in q.older, <<k, l>> \in q.older
        PROVE  <<j, l>> \in q.older
    BY <2>1, <2>3 DEF Coherent, Ordered
  <2>4. ASSUME NEW r \in Roles, NEW j \in q.buckets[r], NEW k \in q.buckets[r], j # k
        PROVE  <<j, k>> \in q.older \/ <<k, j>> \in q.older
    <3>1. q.buckets[r] = {i \in Resident(q) : q.entries[i].role = r}
      BY <1>6 DEF Filed
    <3>2. p.buckets[r] = {i \in Resident(p) : p.entries[i].role = r}
      BY DEF Coherent, Filed
    <3> HIDE DEF q
    <3>3. /\ j \in Resident(q) /\ k \in Resident(q)
          /\ j \in p.buckets[r] /\ k \in p.buckets[r]
      BY <1>1, <3>1, <3>2
    <3>4. <<j, k>> \in p.older \/ <<k, j>> \in p.older
      BY <2>4, <3>3 DEF Coherent, Ordered
    <3>5. QED
      BY <1>1, <2>1, <3>3, <3>4
  <2>5. QED
    BY <2>2, <2>3, <2>4 DEF Ordered
<1>8. QED
  BY <1>1, <1>2, <1>3, <1>4, <1>5, <1>6, <1>7 DEF Coherent

(* Inserting an absent key keeps a policy value coherent and adds exactly  *)
(* its size.                                                               *)
LEMMA InsertCoherent ==
    ASSUME NEW p, Coherent(p), NEW key \in Keys, key \notin Resident(p),
           NEW role \in Roles, NEW nbytes \in 0 .. MaxBytes
    PROVE  LET q == InsertEntry(p, key, role, nbytes)
           IN  /\ Coherent(q)
               /\ Resident(q) = Resident(p) \cup {key}
               /\ Cardinality(Resident(q)) = Cardinality(Resident(p)) + 1
               /\ Bytes(q, Resident(q)) = Bytes(p, Resident(p)) + nbytes
<1> DEFINE q == InsertEntry(p, key, role, nbytes)
           entry == [role |-> role, nbytes |-> nbytes, hits |-> 0]
<1>1. /\ Resident(q) = Resident(p) \cup {key}
      /\ \A k \in Resident(p) : q.entries[k] = p.entries[k]
      /\ q.entries[key] = entry
      /\ q.entries = [k \in Resident(p) \cup {key} |->
                          IF k = key THEN entry ELSE p.entries[k]]
      /\ q.cand = p.cand
      /\ q.nbytes = p.nbytes + nbytes
  BY DEF InsertEntry, Resident
<1>2. /\ IsFiniteSet(Resident(q))
      /\ Cardinality(Resident(q)) = Cardinality(Resident(p)) + 1
  BY <1>1, FS_AddElement DEF Coherent
<1>3. Bytes(q, Resident(q)) = Bytes(p, Resident(p)) + nbytes
  <2>1. Bytes(q, Resident(q)) = Bytes(q, {key}) + Bytes(q, Resident(q) \ {key})
    BY <1>1, <1>2, BytesSplit
  <2>2. Resident(q) \ {key} = Resident(p)
    BY <1>1
  <2>3. Bytes(q, Resident(p)) = Bytes(p, Resident(p))
    BY <1>1, BytesSame
  <2>4. Bytes(q, {key}) = nbytes
    BY <1>1, BytesOne
  <2>5. Bytes(p, Resident(p)) \in Nat
    BY BytesFinite DEF Coherent
  <2>6. QED
    BY <2>1, <2>2, <2>3, <2>4, <2>5, CapacityAssumption
<1>4. Accounted(q) /\ q.nbytes \in Nat
  BY <1>1, <1>3, CapacityAssumption DEF Accounted, Coherent, WellTyped
<1>5. q.opened \in [Roles -> Nat]
  <2> DEFINE peers == {r \in Roles : Rank(r) = Rank(role) /\ p.opened[r] # 0}
  <2>1. q.opened = [p.opened EXCEPT ![role] = IF @ = 0 THEN Cardinality(peers) + 1 ELSE @]
    BY DEF InsertEntry
  <2>2. IsFiniteSet(peers) => Cardinality(peers) + 1 \in Nat
    BY FS_CardinalityType
  <2>3. IsFiniteSet(peers)
    BY FS_Subset, RolesAssumption
  <2> HIDE DEF peers
  <2>4. QED
    BY <2>1, <2>2, <2>3 DEF Coherent, WellTyped
<1>6. WellTyped(q)
  <2>1. DOMAIN q = {"entries", "buckets", "older", "opened", "nbytes", "cand"}
    BY DEF InsertEntry
  <2>2. q.entries \in [Resident(q) -> EntryState]
    BY <1>1, CapacityAssumption DEF Coherent, WellTyped, EntryState
  <2>3. q.buckets \in [Roles -> SUBSET Keys] /\ q.older \subseteq Keys \X Keys
    BY DEF Coherent, WellTyped, InsertEntry
  <2>4. QED
    BY <1>1, <1>4, <1>5, <2>1, <2>2, <2>3 DEF Coherent, WellTyped
<1>7. Filed(q)
  <2>1. q.buckets = [p.buckets EXCEPT ![role] = @ \cup {key}]
    BY DEF InsertEntry
  <2>2. QED
    BY <1>1, <2>1 DEF Filed, Coherent, WellTyped
<1>8. Ordered(q)
  <2>1. /\ q.older = p.older \cup (p.buckets[role] \X {key})
        /\ q.buckets = [p.buckets EXCEPT ![role] = @ \cup {key}]
    BY DEF InsertEntry
  <2>2. ASSUME NEW pair \in q.older
        PROVE  /\ pair[1] \in Resident(q)
               /\ pair[2] \in Resident(q)
               /\ pair[1] # pair[2]
               /\ q.entries[pair[1]].role = q.entries[pair[2]].role
    <3>1. CASE pair \in p.older
      BY <1>1, <3>1 DEF Coherent, Ordered
    <3>2. CASE pair \in p.buckets[role] \X {key}
      BY <1>1, <3>2 DEF Coherent, Filed
    <3>3. QED
      BY <2>1, <3>1, <3>2
  <2>3. ASSUME NEW j \in Keys, NEW k \in Keys, NEW l \in Keys,
               <<j, k>> \in q.older, <<k, l>> \in q.older
        PROVE  <<j, l>> \in q.older
    <3>1. \A i \in Keys : <<key, i>> \notin p.older /\ <<i, key>> \notin p.older
      BY DEF Coherent, Ordered
    <3>2. key \notin p.buckets[role]
      BY DEF Coherent, Filed
    <3> HIDE DEF q
    <3>3. k # key /\ <<j, k>> \in p.older
      BY <2>1, <2>3, <3>1, <3>2
    <3>4. CASE <<k, l>> \in p.older
      BY <2>1, <3>3, <3>4 DEF Coherent, Ordered
    <3>5. CASE l = key /\ k \in p.buckets[role]
      <4>1. j \in Resident(p) /\ p.entries[j].role = p.entries[k].role
        BY <3>3 DEF Coherent, Ordered
      <4>2. j \in p.buckets[role]
        BY <3>5, <4>1 DEF Coherent, Filed
      <4>3. QED
        BY <2>1, <3>5, <4>2
    <3>6. QED
      BY <2>1, <2>3, <3>4, <3>5
  <2>4. ASSUME NEW r \in Roles, NEW j \in q.buckets[r], NEW k \in q.buckets[r], j # k
        PROVE  <<j, k>> \in q.older \/ <<k, j>> \in q.older
    <3>1. CASE j \in p.buckets[r] /\ k \in p.buckets[r]
      BY <2>1, <2>4, <3>1 DEF Coherent, Ordered
    <3>2. CASE r = role /\ (j = key \/ k = key)
      BY <2>1, <2>4, <3>2 DEF Coherent, WellTyped
    <3>3. QED
      BY <2>1, <3>1, <3>2 DEF Coherent, WellTyped
  <2>5. QED
    BY <2>2, <2>3, <2>4 DEF Ordered
<1>9. QED
  BY <1>1, <1>2, <1>3, <1>4, <1>6, <1>7, <1>8 DEF Coherent

CandidateState == [key : Keys \cup {None}, count : Nat, baseHits : Nat]

(* Moving the probation state touches nothing else.                        *)
LEMMA CandidateFields ==
    ASSUME NEW p, WellTyped(p), NEW c
    PROVE  LET q == [p EXCEPT !.cand = c]
           IN  /\ DOMAIN q = DOMAIN p
               /\ q.entries = p.entries
               /\ q.buckets = p.buckets
               /\ q.older = p.older
               /\ q.opened = p.opened
               /\ q.nbytes = p.nbytes
               /\ q.cand = c
BY Zenon DEF WellTyped

(* The probation state is no part of the bookkeeping: changing it keeps a  *)
(* policy value coherent.                                                  *)
LEMMA CandidateCoherent ==
    ASSUME NEW p, Coherent(p), NEW c \in CandidateState
    PROVE  LET q == [p EXCEPT !.cand = c]
           IN  /\ Coherent(q)
               /\ WithinLimits(p) => WithinLimits(q)
               /\ SingleStable(p) => SingleStable(q)
<1> DEFINE q == [p EXCEPT !.cand = c]
<1>1. /\ DOMAIN q = DOMAIN p
      /\ q.entries = p.entries
      /\ q.buckets = p.buckets
      /\ q.older = p.older
      /\ q.opened = p.opened
      /\ q.nbytes = p.nbytes
      /\ q.cand = c
  BY CandidateFields DEF Coherent
<1> HIDE DEF q
<1>2. Resident(q) = Resident(p)
  BY <1>1 DEF Resident
<1>3. Bytes(q, Resident(q)) = Bytes(p, Resident(p))
  BY <1>1, <1>2, BytesSame
<1>4. WellTyped(q)
  BY <1>1, <1>2 DEF Coherent, WellTyped, CandidateState
<1>5. Filed(q) /\ Ordered(q) /\ Accounted(q)
  BY <1>1, <1>2, <1>3 DEF Coherent, Filed, Ordered, Accounted
<1>6. /\ WithinLimits(p) => WithinLimits(q)
      /\ SingleStable(p) => SingleStable(q)
  BY <1>1, <1>2, <1>3 DEF WithinLimits, SingleStable
<1>7. Coherent(q)
  BY <1>2, <1>4, <1>5 DEF Coherent
<1>8. QED
  BY <1>6, <1>7 DEF q

(* A hit touches one counter.                                              *)
LEMMA HitCoherent ==
    ASSUME NEW p, Coherent(p), NEW key
    PROVE  LET q == AddHit(p, key)
           IN  /\ Coherent(q)
               /\ WithinLimits(p) => WithinLimits(q)
               /\ SingleStable(p) => SingleStable(q)
               /\ Resident(q) = Resident(p)
               /\ q.buckets = p.buckets
               /\ \A k \in Resident(p) : /\ q.entries[k].nbytes = p.entries[k].nbytes
                                         /\ q.entries[k].role = p.entries[k].role
<1> DEFINE q == AddHit(p, key)
           hit == [p.entries[key] EXCEPT !.hits = @ + 1]
<1>1. CASE key \notin Resident(p)
  BY <1>1 DEF AddHit
<1>2. CASE key \in Resident(p)
  <2>1. q = [p EXCEPT !.entries = [p.entries EXCEPT ![key] = hit]]
    BY <1>2, Zenon DEF AddHit
  <2>2. /\ DOMAIN q = DOMAIN p
        /\ q.entries = [p.entries EXCEPT ![key] = hit]
        /\ q.buckets = p.buckets
        /\ q.older = p.older
        /\ q.opened = p.opened
        /\ q.nbytes = p.nbytes
        /\ q.cand = p.cand
    BY <2>1, Zenon DEF Coherent, WellTyped
  <2> HIDE DEF q
  <2>3. p.entries[key] \in EntryState
    BY <1>2 DEF Coherent, WellTyped
  <2>4. hit \in EntryState /\ hit.nbytes = p.entries[key].nbytes /\ hit.role = p.entries[key].role
    BY <2>3 DEF EntryState
  <2> HIDE DEF hit
  <2>5. Resident(q) = Resident(p)
    BY <2>2 DEF Resident
  <2>6. p.entries \in [Resident(p) -> EntryState]
    BY DEF Coherent, WellTyped
  <2>7. /\ q.entries \in [Resident(q) -> EntryState]
        /\ \A k \in Resident(p) : /\ q.entries[k].nbytes = p.entries[k].nbytes
                                  /\ q.entries[k].role = p.entries[k].role
    BY <2>2, <2>4, <2>5, <2>6
  <2>8. Bytes(q, Resident(q)) = Bytes(p, Resident(p))
    BY <2>5, <2>7, BytesSame
  <2>9. WellTyped(q)
    BY <2>2, <2>5, <2>7 DEF Coherent, WellTyped
  <2>10. Filed(q)
    BY <2>2, <2>5, <2>7 DEF Coherent, Filed
  <2>11. Ordered(q)
    BY <2>2, <2>5, <2>7 DEF Coherent, Ordered
  <2>12. Accounted(q)
    BY <2>2, <2>5, <2>8 DEF Coherent, Accounted
  <2>13. /\ WithinLimits(p) => WithinLimits(q)
         /\ SingleStable(p) => SingleStable(q)
    BY <2>2, <2>5, <2>8 DEF WithinLimits, SingleStable
  <2>14. Coherent(q)
    BY <2>5, <2>9, <2>10, <2>11, <2>12 DEF Coherent
  <2>15. QED
    BY <2>2, <2>5, <2>7, <2>13, <2>14 DEF q
<1>3. QED
  BY <1>1, <1>2

-----------------------------------------------------------------------------
(* Plans.                                                                  *)

\* What committing a plan relies on: it names a storable entry, its
\* evictions make room for it, and a stable entry rotates the lane.
Executable(p, plan) ==
    /\ plan.key \in Keys
    /\ plan.role \in Roles
    /\ plan.nbytes \in 0 .. MaxBytes
    /\ ~ProjectedOverLimit(p, plan.key, plan.nbytes, DOMAIN plan.evictions)
    /\ plan.role = "stable" =>
          p.buckets["stable"] \subseteq DOMAIN plan.evictions \cup {plan.key}

(* Committing an executable plan keeps the policy coherent, within both    *)
(* limits and with one stable prefix.                                      *)
LEMMA CommitSafe ==
    ASSUME NEW p, Coherent(p), WithinLimits(p), SingleStable(p),
           NEW plan, plan.accepted => Executable(p, plan)
    PROVE  LET q == Commit(p, plan)
           IN  Coherent(q) /\ WithinLimits(q) /\ SingleStable(q)
<1>1. CASE ~plan.accepted
  BY <1>1 DEF Commit
<1>2. CASE plan.accepted
  <2> DEFINE removed == RemoveEntries(p, DOMAIN plan.evictions \cup {plan.key})
             stored  == InsertEntry(removed, plan.key, plan.role, plan.nbytes)
             kept    == Resident(p) \ (DOMAIN plan.evictions \cup {plan.key})
  <2>1. /\ plan.key \in Keys
        /\ plan.role \in Roles
        /\ plan.nbytes \in 0 .. MaxBytes
        /\ Cardinality(kept) + 1 <= MaxSequences
        /\ Bytes(p, kept) + plan.nbytes <= MaxBytes
    <3>1. IsFiniteSet(kept)
      BY FS_Subset DEF Coherent
    <3>2. Cardinality(kept) \in Nat /\ Bytes(p, kept) \in Nat
      BY <3>1, FS_CardinalityType, BytesFinite
    <3>3. QED
      BY <1>2, <3>2, CapacityAssumption DEF Executable, ProjectedOverLimit
  <2>2. /\ Coherent(removed)
        /\ Resident(removed) = kept
        /\ Bytes(removed, Resident(removed)) = Bytes(p, kept)
    BY RemoveCoherent
  <2> HIDE DEF removed
  <2>3. /\ Coherent(stored)
        /\ Resident(stored) = kept \cup {plan.key}
        /\ Cardinality(Resident(stored)) = Cardinality(kept) + 1
        /\ Bytes(stored, Resident(stored)) = Bytes(p, kept) + plan.nbytes
    <3>1. plan.key \notin Resident(removed)
      BY <2>2
    <3> HIDE DEF kept
    <3>2. ASSUME NEW key \in Keys, NEW role \in Roles, NEW nbytes \in 0 .. MaxBytes,
                 key \notin Resident(removed)
          PROVE  LET q == InsertEntry(removed, key, role, nbytes)
                 IN  /\ Coherent(q)
                     /\ Resident(q) = Resident(removed) \cup {key}
                     /\ Cardinality(Resident(q)) = Cardinality(Resident(removed)) + 1
                     /\ Bytes(q, Resident(q)) = Bytes(removed, Resident(removed)) + nbytes
      BY <2>2, <3>2, InsertCoherent
    <3>3. /\ Coherent(stored)
          /\ Resident(stored) = Resident(removed) \cup {plan.key}
          /\ Cardinality(Resident(stored)) = Cardinality(Resident(removed)) + 1
          /\ Bytes(stored, Resident(stored))
                = Bytes(removed, Resident(removed)) + plan.nbytes
      BY <2>1, <3>1, <3>2
    <3> HIDE DEF stored
    <3>4. QED
      BY <2>2, <3>3
  <2>4. WithinLimits(stored)
    BY <2>1, <2>3 DEF WithinLimits
  <2>5. SingleStable(stored)
    <3>1. /\ stored.buckets = [removed.buckets EXCEPT ![plan.role] = @ \cup {plan.key}]
          /\ removed.buckets \in [Roles -> SUBSET Keys]
          /\ removed.buckets["stable"] \subseteq p.buckets["stable"]
          /\ removed.buckets["stable"] \subseteq Resident(removed)
      <4>1. removed.buckets["stable"] \subseteq p.buckets["stable"]
        BY RolesAssumption DEF RemoveEntries, removed
      <4>2. removed.buckets["stable"] \subseteq Resident(removed)
        BY <2>2, RolesAssumption DEF Coherent, Filed
      <4>3. removed.buckets \in [Roles -> SUBSET Keys]
        BY <2>2 DEF Coherent, WellTyped
      <4>4. QED
        BY <4>1, <4>2, <4>3 DEF InsertEntry
    <3> HIDE DEF stored
    <3>2. CASE plan.role = "stable"
      <4>1. removed.buckets["stable"] = {}
        BY <1>2, <2>2, <3>1, <3>2 DEF Executable
      <4>2. stored.buckets["stable"] = {plan.key}
        BY <2>1, <3>1, <3>2, <4>1
      <4>3. QED
        BY <4>2 DEF SingleStable
    <3>3. CASE plan.role # "stable"
      <4>1. stored.buckets["stable"] = removed.buckets["stable"]
        BY <2>1, <3>1, <3>3, RolesAssumption
      <4>2. QED
        BY <3>1, <4>1 DEF SingleStable
    <3>4. QED
      BY <3>2, <3>3
  <2>6. NoCandidate \in CandidateState
    BY DEF NoCandidate, CandidateState
  <2> DEFINE cleared == [stored EXCEPT !.cand = NoCandidate]
  <2>7. Coherent(cleared) /\ WithinLimits(cleared) /\ SingleStable(cleared)
    BY <2>3, <2>4, <2>5, <2>6, CandidateCoherent
  <2>8. Commit(p, plan) = stored \/ Commit(p, plan) = cleared
    BY <1>2 DEF Commit, removed
  <2> HIDE DEF stored, cleared
  <2>9. QED
    BY <2>3, <2>4, <2>5, <2>7, <2>8
<1>3. QED
  BY <1>1, <1>2

(* Ranks are integers, so victims can be compared by them.                 *)
LEMMA RankType ==
    ASSUME NEW role \in Roles
    PROVE  Rank(role) \in Int
BY DEF Rank, PinRankMin

(* The victim order in terms of the entries' own roles.                    *)
LEMMA EvictedBeforeByRole ==
    ASSUME NEW p, Coherent(p), NEW u \in Resident(p), NEW v \in Resident(p)
    PROVE  /\ p.entries[u].role \in Roles
           /\ EvictedBefore(p, u, v) <=>
                LET r == p.entries[u].role
                    s == p.entries[v].role
                IN  \/ Rank(r) < Rank(s)
                    \/ Rank(r) = Rank(s) /\ p.opened[r] < p.opened[s]
                    \/ r = s /\ <<u, v>> \in p.older
<1>1. p.entries[u].role \in Roles /\ p.entries[v].role \in Roles
  BY DEF Coherent, WellTyped, EntryState
<1>2. \A q \in Roles : /\ u \in p.buckets[q] <=> q = p.entries[u].role
                       /\ v \in p.buckets[q] <=> q = p.entries[v].role
  BY DEF Coherent, Filed
<1>3. QED
  BY <1>1, <1>2 DEF EvictedBefore

(* The victim order never puts a key before itself.                        *)
LEMMA EvictedBeforeIrreflexive ==
    ASSUME NEW p, Coherent(p), NEW u \in Resident(p)
    PROVE  ~EvictedBefore(p, u, u)
<1>1. <<u, u>> \notin p.older
  BY DEF Coherent, Ordered
<1>2. p.entries[u].role \in Roles
  BY EvictedBeforeByRole
<1>3. Rank(p.entries[u].role) \in Int /\ p.opened[p.entries[u].role] \in Nat
  BY <1>2, RankType DEF Coherent, WellTyped
<1>4. QED
  BY <1>1, <1>3, EvictedBeforeByRole

(* The victim order is transitive: rank, then bucket, then age.            *)
LEMMA EvictedBeforeTransitive ==
    ASSUME NEW p, Coherent(p), NEW u \in Resident(p), NEW v \in Resident(p),
           NEW w \in Resident(p), EvictedBefore(p, u, v), EvictedBefore(p, v, w)
    PROVE  EvictedBefore(p, u, w)
<1> DEFINE ru == p.entries[u].role
           rv == p.entries[v].role
           rw == p.entries[w].role
<1>1. ru \in Roles /\ rv \in Roles /\ rw \in Roles
  BY EvictedBeforeByRole
<1>2. /\ Rank(ru) \in Int /\ Rank(rv) \in Int /\ Rank(rw) \in Int
      /\ p.opened[ru] \in Nat /\ p.opened[rv] \in Nat /\ p.opened[rw] \in Nat
  BY <1>1, RankType DEF Coherent, WellTyped
<1>3. \/ Rank(ru) < Rank(rv)
      \/ Rank(ru) = Rank(rv) /\ p.opened[ru] < p.opened[rv]
      \/ ru = rv /\ <<u, v>> \in p.older
  BY EvictedBeforeByRole
<1>4. \/ Rank(rv) < Rank(rw)
      \/ Rank(rv) = Rank(rw) /\ p.opened[rv] < p.opened[rw]
      \/ rv = rw /\ <<v, w>> \in p.older
  BY EvictedBeforeByRole
<1>5. <<u, v>> \in p.older /\ <<v, w>> \in p.older => <<u, w>> \in p.older
  BY DEF Coherent, WellTyped, Ordered
<1>6. EvictedBefore(p, u, w) <=>
        \/ Rank(ru) < Rank(rw)
        \/ Rank(ru) = Rank(rw) /\ p.opened[ru] < p.opened[rw]
        \/ ru = rw /\ <<u, w>> \in p.older
  BY EvictedBeforeByRole
<1> HIDE DEF ru, rv, rw
<1>7. QED
  BY <1>2, <1>3, <1>4, <1>5, <1>6

\* The buckets of one rank are numbered, so that no two of them tie.
Peers(p, role) == {r \in Roles : Rank(r) = Rank(role) /\ p.opened[r] # 0}

Numbered(p) ==
    /\ \A r \in Roles : p.buckets[r] # {} => p.opened[r] # 0
    /\ \A r \in Roles : p.opened[r] <= Cardinality(Peers(p, r))
    /\ \A r, s \in Roles :
          Rank(r) = Rank(s) /\ p.opened[r] = p.opened[s] /\ p.opened[r] # 0 => r = s

(* Buckets that only lose keys keep their numbers.                         *)
LEMMA NumberedShrinks ==
    ASSUME NEW p, Numbered(p), NEW q, q.opened = p.opened,
           \A r \in Roles : q.buckets[r] \subseteq p.buckets[r]
    PROVE  Numbered(q)
<1>1. \A r \in Roles : Peers(q, r) = Peers(p, r)
  BY DEF Peers
<1>2. QED
  BY <1>1 DEF Numbered

(* A new bucket gets the number after those of its rank.                   *)
LEMMA NumberedInsert ==
    ASSUME NEW p, WellTyped(p), Numbered(p), NEW key, NEW role \in Roles, NEW nbytes
    PROVE  Numbered(InsertEntry(p, key, role, nbytes))
<1> DEFINE q == InsertEntry(p, key, role, nbytes)
           n == Cardinality(Peers(p, role))
<1>1. /\ p.opened \in [Roles -> Nat] /\ p.buckets \in [Roles -> SUBSET Keys]
      /\ q.buckets = [p.buckets EXCEPT ![role] = @ \cup {key}]
      /\ q.opened = [p.opened EXCEPT ![role] = IF @ = 0 THEN n + 1 ELSE @]
  BY DEF WellTyped, InsertEntry, Peers
<1> SUFFICES Numbered(q)
  OBVIOUS
<1> HIDE DEF q
<1>2. \A r \in Roles : IsFiniteSet(Peers(p, r)) /\ Cardinality(Peers(p, r)) \in Nat
  <2>1. \A r \in Roles : Peers(p, r) \in SUBSET Roles
    BY DEF Peers
  <2>2. QED
    BY <2>1, RolesAssumption, FS_Subset, FS_CardinalityType
<1>3. CASE p.opened[role] # 0
  <2>1. q.opened = p.opened
    BY <1>1, <1>3
  <2>2. \A r \in Roles : Peers(q, r) = Peers(p, r)
    BY <2>1 DEF Peers
  <2>3. \A r \in Roles : q.buckets[r] # {} => p.buckets[r] # {} \/ r = role
    BY <1>1
  <2>4. QED
    BY <1>3, <2>1, <2>2, <2>3 DEF Numbered
<1>4. CASE p.opened[role] = 0
  <2>1. /\ q.opened[role] = n + 1
        /\ \A r \in Roles \ {role} : q.opened[r] = p.opened[r]
    BY <1>1, <1>4
  <2>2. n + 1 # 0 /\ n \in Nat
    BY <1>2
  <2>3. ASSUME NEW r \in Roles, Rank(r) # Rank(role)
        PROVE  Peers(q, r) = Peers(p, r)
    BY <2>1, <2>3 DEF Peers
  <2>4. ASSUME NEW r \in Roles, Rank(r) = Rank(role)
        PROVE  Cardinality(Peers(q, r)) = n + 1
    <3>1. Peers(q, r) = Peers(p, role) \cup {role}
      BY <2>1, <2>2, <2>4 DEF Peers
    <3>2. role \notin Peers(p, role)
      BY <1>4 DEF Peers
    <3>3. QED
      BY <1>2, <3>1, <3>2, FS_AddElement
  <2>5. \A r \in Roles : Rank(r) = Rank(role) => p.opened[r] <= n
    <3>1. \A r \in Roles : Rank(r) = Rank(role) => Peers(p, r) = Peers(p, role)
      BY DEF Peers
    <3>2. QED
      BY <3>1 DEF Numbered
  <2>6. \A r \in Roles : q.buckets[r] # {} => q.opened[r] # 0
    <3>1. \A r \in Roles \ {role} : q.buckets[r] = p.buckets[r]
      BY <1>1
    <3>2. QED
      BY <2>1, <2>2, <3>1 DEF Numbered
  <2>7. ASSUME NEW r \in Roles PROVE q.opened[r] <= Cardinality(Peers(q, r))
    <3>1. CASE Rank(r) # Rank(role)
      BY <2>1, <2>3, <3>1 DEF Numbered
    <3>2. CASE r = role
      BY <2>1, <2>2, <2>4, <3>2
    <3>3. CASE Rank(r) = Rank(role) /\ r # role
      <4>1. q.opened[r] <= n /\ q.opened[r] \in Nat
        BY <1>1, <2>1, <2>5, <3>3
      <4>2. Cardinality(Peers(q, r)) = n + 1
        BY <2>4, <3>3
      <4>3. QED
        BY <2>2, <4>1, <4>2
    <3>4. QED
      BY <3>1, <3>2, <3>3
  <2>8. ASSUME NEW r \in Roles, NEW s \in Roles, Rank(r) = Rank(s),
               q.opened[r] = q.opened[s], q.opened[r] # 0
        PROVE  r = s
    <3>1. ASSUME NEW t \in Roles \ {role}, Rank(t) = Rank(role) PROVE q.opened[t] # n + 1
      <4>1. q.opened[t] <= n /\ q.opened[t] \in Nat
        BY <1>1, <2>1, <2>5, <3>1
      <4>2. QED
        BY <2>2, <4>1
    <3>2. CASE r = role \/ s = role
      BY <2>1, <2>8, <3>1, <3>2
    <3>3. CASE r # role /\ s # role
      BY <2>1, <2>8, <3>3 DEF Numbered
    <3>4. QED
      BY <3>2, <3>3
  <2>9. QED
    BY <2>6, <2>7, <2>8 DEF Numbered
<1>5. QED
  BY <1>3, <1>4

(* Commits, trims, hits and sightings keep the buckets numbered.           *)
LEMMA NumberedKept ==
    ASSUME NEW p, Coherent(p), Numbered(p)
    PROVE  /\ \A S : Numbered(CommitTrim(p, S))
           /\ \A plan : (plan.accepted => plan.role \in Roles) => Numbered(Commit(p, plan))
           /\ \A key : Numbered(AddHit(p, key))
           /\ \A c : Numbered([p EXCEPT !.cand = c])
<1>1. ASSUME NEW S PROVE Numbered(RemoveEntries(p, S))
  <2> DEFINE q == RemoveEntries(p, S)
  <2>1. q.opened = p.opened /\ \A r \in Roles : q.buckets[r] \subseteq p.buckets[r]
    BY DEF RemoveEntries
  <2> HIDE DEF q
  <2>2. QED
    BY <2>1, NumberedShrinks DEF q
<1>2. ASSUME NEW q, WellTyped(q), Numbered(q), NEW c PROVE Numbered([q EXCEPT !.cand = c])
  <2> DEFINE t == [q EXCEPT !.cand = c]
  <2>1. t.opened = q.opened /\ t.buckets = q.buckets
    BY <1>2, CandidateFields
  <2> HIDE DEF t
  <2>2. QED
    BY <1>2, <2>1, NumberedShrinks DEF t
<1>3. ASSUME NEW plan, plan.accepted => plan.role \in Roles PROVE Numbered(Commit(p, plan))
  <2> DEFINE removed == RemoveEntries(p, DOMAIN plan.evictions \cup {plan.key})
             stored  == InsertEntry(removed, plan.key, plan.role, plan.nbytes)
  <2>1. CASE ~plan.accepted
    BY <2>1 DEF Commit
  <2>2. CASE plan.accepted
    <3>1. WellTyped(removed) /\ Numbered(removed)
      BY <1>1, RemoveCoherent DEF Coherent
    <3> HIDE DEF removed
    <3>2. Numbered(stored)
      BY <1>3, <2>2, <3>1, NumberedInsert
    <3>3. stored.opened = [stored EXCEPT !.cand = NoCandidate].opened
          /\ stored.buckets = [stored EXCEPT !.cand = NoCandidate].buckets
      BY DEF InsertEntry
    <3>4. Commit(p, plan) \in {stored, [stored EXCEPT !.cand = NoCandidate]}
      BY <2>2 DEF Commit, removed
    <3> HIDE DEF stored
    <3>5. QED
      BY <3>2, <3>3, <3>4, NumberedShrinks
  <2>3. QED
    BY <2>1, <2>2
<1>4. ASSUME NEW key PROVE Numbered(AddHit(p, key))
  <2> DEFINE q == AddHit(p, key)
  <2>1. q.opened = p.opened /\ q.buckets = p.buckets
    BY DEF AddHit, Coherent, WellTyped
  <2> HIDE DEF q
  <2>2. QED
    BY <2>1, NumberedShrinks DEF q
<1>5. QED
  BY <1>1, <1>2, <1>3, <1>4 DEF CommitTrim, Coherent

(* So the victim order is total: of two residents one goes first.          *)
LEMMA EvictedBeforeTotal ==
    ASSUME NEW p, Coherent(p), Numbered(p), NEW u \in Resident(p), NEW v \in Resident(p),
           u # v
    PROVE  EvictedBefore(p, u, v) \/ EvictedBefore(p, v, u)
<1> DEFINE r == p.entries[u].role
           s == p.entries[v].role
<1>1. /\ r \in Roles /\ s \in Roles
      /\ u \in p.buckets[r] /\ v \in p.buckets[s]
  BY EvictedBeforeByRole DEF Coherent, Filed
<1>2. CASE r = s
  <2>1. <<u, v>> \in p.older \/ <<v, u>> \in p.older
    BY <1>1, <1>2 DEF Coherent, Ordered
  <2>2. QED
    BY <1>2, <2>1, EvictedBeforeByRole
<1>3. CASE r # s
  <2>1. Rank(r) = Rank(s) => p.opened[r] # p.opened[s]
    BY <1>1, <1>3 DEF Numbered
  <2>2. /\ Rank(r) \in Int /\ Rank(s) \in Int
        /\ p.opened[r] \in Nat /\ p.opened[s] \in Nat
    BY <1>1, RankType DEF Coherent, WellTyped
  <2>3. \/ Rank(r) < Rank(s) \/ Rank(s) < Rank(r)
        \/ Rank(r) = Rank(s) /\ p.opened[r] < p.opened[s]
        \/ Rank(r) = Rank(s) /\ p.opened[s] < p.opened[r]
    BY <2>1, <2>2
  <2>4. QED
    BY <2>3, EvictedBeforeByRole
<1>4. QED
  BY <1>2, <1>3

(* The order of the two passes is irreflexive and transitive.              *)
LEMMA TakenOrder ==
    ASSUME NEW p, Coherent(p), NEW protected, NEW u \in Resident(p),
           NEW v \in Resident(p), TakenBefore(p, protected, u, v)
    PROVE  /\ ~TakenBefore(p, protected, u, u)
           /\ \A w \in Resident(p) :
                 TakenBefore(p, protected, w, u) => TakenBefore(p, protected, w, v)
BY EvictedBeforeIrreflexive, EvictedBeforeTransitive DEF TakenBefore

(* Of any resident keys one is taken before the others that are compared   *)
(* with it, and one after them.                                            *)
LEMMA TakenExtremes ==
    ASSUME NEW p, Coherent(p), NEW protected, NEW S, S \subseteq Resident(p), S # {}
    PROVE  /\ \E v \in S : \A u \in S : ~TakenBefore(p, protected, u, v)
           /\ \E v \in S : \A u \in S : ~TakenBefore(p, protected, v, u)
<1> DEFINE R == {pair \in S \X S : TakenBefore(p, protected, pair[1], pair[2])}
<1>1. \A u, v \in S : <<u, v>> \in R <=> TakenBefore(p, protected, u, v)
  OBVIOUS
<1> HIDE DEF R
<1>2. IsFiniteSet(S)
  BY FS_Subset DEF Coherent
<1>3. \A u \in S : <<u, u>> \notin R
  BY <1>1, EvictedBeforeIrreflexive DEF TakenBefore
<1>4. \A u, v, w \in S : <<u, v>> \in R /\ <<v, w>> \in R => <<u, w>> \in R
  BY <1>1, TakenOrder
<1>5. /\ \E v \in S : \A u \in S : <<u, v>> \notin R
      /\ \E v \in S : \A u \in S : <<v, u>> \notin R
  BY <1>2, <1>3, <1>4, FiniteMinimal, FiniteMaximal
<1>6. QED
  BY <1>1, <1>5

(* Evicting more never turns a fitting admission into one over the limit.  *)
LEMMA OverLimitMonotone ==
    ASSUME NEW p, Coherent(p), NEW key, NEW nbytes \in Nat,
           NEW few, NEW many, few \subseteq many,
           ProjectedOverLimit(p, key, nbytes, many)
    PROVE  ProjectedOverLimit(p, key, nbytes, few)
<1> DEFINE keptFew  == Resident(p) \ (few \cup {key})
           keptMany == Resident(p) \ (many \cup {key})
<1>1. keptMany \in SUBSET keptFew
  OBVIOUS
<1>2. IsFiniteSet(keptFew)
  BY FS_Subset DEF Coherent
<1>3. /\ IsFiniteSet(keptMany)
      /\ Cardinality(keptMany) <= Cardinality(keptFew)
      /\ Bytes(p, keptMany) <= Bytes(p, keptFew)
  BY <1>1, <1>2, FS_Subset, BytesMonotone
<1>4. /\ Cardinality(keptMany) \in Nat /\ Cardinality(keptFew) \in Nat
      /\ Bytes(p, keptMany) \in Nat /\ Bytes(p, keptFew) \in Nat
  BY <1>2, <1>3, FS_CardinalityType, BytesFinite
<1>5. Cardinality(keptMany) + 1 > MaxSequences \/ Bytes(p, keptMany) + nbytes > MaxBytes
  BY DEF ProjectedOverLimit
<1> HIDE DEF keptFew, keptMany
<1>6. Cardinality(keptFew) + 1 > MaxSequences \/ Bytes(p, keptFew) + nbytes > MaxBytes
  BY <1>3, <1>4, <1>5, CapacityAssumption
<1>7. QED
  BY <1>6 DEF ProjectedOverLimit, keptFew

(* The eviction loop of plan_admission always ends with room for the       *)
(* newcomer: its "cannot_fit" exit is unreachable.                         *)
LEMMA EvictionMakesRoom ==
    ASSUME NEW p, Coherent(p), NEW key, NEW nbytes \in 0 .. MaxBytes,
           NEW forced, NEW protected, ~ZeroCapacity
    PROVE  ~ProjectedOverLimit(p, key, nbytes,
                forced \cup CapacityVictims(p, key, nbytes, forced, protected))
<1> DEFINE candidates == Indexed(p) \ (forced \cup {key})
           Earlier(v) == {u \in candidates : TakenBefore(p, protected, u, v)}
           victims    == CapacityVictims(p, key, nbytes, forced, protected)
<1>1. nbytes \in Nat /\ MaxSequences >= 1
  BY CapacityAssumption DEF ZeroCapacity
<1>2. Indexed(p) = Resident(p)
  BY DEF Coherent, WellTyped, EntryState, Filed, Indexed
<1>3. victims = {v \in candidates :
                    ProjectedOverLimit(p, key, nbytes, forced \cup Earlier(v))}
  BY DEF CapacityVictims
<1>4. SUFFICES ASSUME ProjectedOverLimit(p, key, nbytes, forced \cup victims)
               PROVE  FALSE
  OBVIOUS
<1>5. candidates \subseteq victims
  <2> DEFINE spared == candidates \ victims
  <2>1. SUFFICES ASSUME spared # {} PROVE FALSE
    OBVIOUS
  <2>2. spared \subseteq Resident(p)
    BY <1>2
  <2> HIDE DEF spared
  <2>3. PICK v \in spared : \A u \in spared : ~TakenBefore(p, protected, u, v)
    BY <2>1, <2>2, TakenExtremes
  <2>4. Earlier(v) \subseteq victims
    BY <2>3 DEF spared
  <2>5. ProjectedOverLimit(p, key, nbytes, forced \cup Earlier(v))
    BY <1>1, <1>4, <2>4, OverLimitMonotone
  <2>6. QED
    BY <1>3, <2>3, <2>5 DEF spared
<1>6. Resident(p) \ ((forced \cup victims) \cup {key}) = {}
  BY <1>2, <1>5
<1>7. Cardinality({}) = 0 /\ Bytes(p, {}) = 0
  <2>1. Cells(p, {}) = {}
    BY DEF Cells
  <2>2. QED
    BY <2>1, FS_EmptySet, BytesFinite
<1> HIDE DEF victims
<1>8. QED
  BY <1>1, <1>4, <1>6, <1>7, CapacityAssumption DEF ProjectedOverLimit

(* Every plan of plan_admission that is accepted can be executed, and only *)
(* a disabled cache or a payload over the byte limit is refused.           *)
LEMMA AdmissionPlan ==
    ASSUME NEW p, Coherent(p), NEW key \in Keys, NEW role \in Roles,
           NEW nbytes \in Nat, NEW predecessor
    PROVE  LET plan == PlanAdmission(p, key, role, nbytes, predecessor)
           IN  /\ plan.accepted \in BOOLEAN
               /\ plan.accepted => Executable(p, plan)
               /\ plan.accepted <=> ~ZeroCapacity /\ nbytes <= MaxBytes
               /\ plan.nbytes = nbytes
<1> DEFINE plan      == PlanAdmission(p, key, role, nbytes, predecessor)
           rotated   == StableRotation(p, key, role)
           compacted == ActivePredecessor(p, key, role, predecessor)
           pins      == PinQuotaVictim(p, key, role, rotated \cup compacted)
           forced    == rotated \cup compacted \cup pins
           protected == ProtectedKeys(p, key, role, nbytes, forced)
           evicted   == forced \cup CapacityVictims(p, key, nbytes, forced, protected)
           fits      == ~ProjectedOverLimit(p, key, nbytes, evicted)
<1>1. CASE ZeroCapacity \/ nbytes > MaxBytes
  <2>1. plan.accepted = FALSE /\ plan.nbytes = nbytes
    BY <1>1 DEF PlanAdmission, Refusal
  <2> HIDE DEF plan
  <2>2. ~(~ZeroCapacity /\ nbytes <= MaxBytes)
    BY <1>1, CapacityAssumption
  <2>3. QED
    BY <2>1, <2>2 DEF plan
<1>2. CASE ~ZeroCapacity /\ ~(nbytes > MaxBytes)
  <2>1. /\ plan.accepted = fits
        /\ plan.key = key
        /\ plan.role = role
        /\ plan.nbytes = nbytes
        /\ DOMAIN plan.evictions = evicted
    BY <1>2 DEF PlanAdmission
  <2>2. nbytes \in 0 .. MaxBytes
    BY <1>2, CapacityAssumption
  <2>3. ~ProjectedOverLimit(p, key, nbytes, evicted)
    BY <1>2, <2>2, EvictionMakesRoom
  <2>4. role = "stable" => p.buckets["stable"] \subseteq evicted \cup {key}
    BY DEF StableRotation
  <2> HIDE DEF plan, evicted
  <2>5. Executable(p, plan)
    BY <2>1, <2>2, <2>3, <2>4 DEF Executable
  <2>6. plan.accepted = TRUE
    BY <2>1, <2>3
  <2>7. nbytes <= MaxBytes
    BY <2>2, CapacityAssumption
  <2>8. QED
    BY <1>2, <2>1, <2>5, <2>6, <2>7 DEF plan
<1>3. QED
  BY <1>1, <1>2

(* A plan is about the entry it was asked for, and one that is accepted    *)
(* evicts the active predecessor of that entry.                            *)
LEMMA PlanFields ==
    ASSUME NEW p, NEW key, NEW role, NEW nbytes, NEW predecessor
    PROVE  LET plan == PlanAdmission(p, key, role, nbytes, predecessor)
           IN  /\ DOMAIN plan = {"accepted", "key", "role", "nbytes", "evictions", "reason"}
               /\ plan.key = key /\ plan.role = role /\ plan.nbytes = nbytes
               /\ plan.accepted => ActivePredecessor(p, key, role, predecessor)
                                     \subseteq DOMAIN plan.evictions
<1>1. CASE ZeroCapacity \/ nbytes > MaxBytes
  BY <1>1 DEF PlanAdmission, Refusal
<1>2. CASE ~(ZeroCapacity \/ nbytes > MaxBytes)
  BY <1>2 DEF PlanAdmission
<1>3. QED
  BY <1>1, <1>2

(* A plan evicts keys that can occur.                                      *)
LEMMA EvictionsAreKeys ==
    ASSUME NEW p, Coherent(p), NEW key \in Keys, NEW role, NEW nbytes, NEW predecessor
    PROVE  DOMAIN PlanAdmission(p, key, role, nbytes, predecessor).evictions \subseteq Keys
<1> DEFINE rotated   == StableRotation(p, key, role)
           compacted == ActivePredecessor(p, key, role, predecessor)
           pins      == PinQuotaVictim(p, key, role, rotated \cup compacted)
           forced    == rotated \cup compacted \cup pins
           protected == ProtectedKeys(p, key, role, nbytes, forced)
           evicted   == forced \cup CapacityVictims(p, key, nbytes, forced, protected)
           plan      == PlanAdmission(p, key, role, nbytes, predecessor)
<1>1. /\ Resident(p) \subseteq Keys
      /\ \A r \in Roles : p.buckets[r] \subseteq Keys
  BY DEF Coherent, WellTyped
<1>2. rotated \subseteq Keys
  BY <1>1, RolesAssumption DEF StableRotation
<1>3. compacted \subseteq Keys
  BY <1>1 DEF ActivePredecessor
<1>4. pins \subseteq Keys
  BY <1>1 DEF PinQuotaVictim, OldestPin
<1> HIDE DEF rotated, compacted, pins
<1>5. CapacityVictims(p, key, nbytes, forced, protected) \subseteq Keys
  BY <1>1 DEF CapacityVictims, Indexed
<1>6. DOMAIN plan.evictions = {} \/ DOMAIN plan.evictions = evicted
  BY DEF PlanAdmission, Refusal, rotated, compacted, pins
<1>7. QED
  BY <1>2, <1>3, <1>4, <1>5, <1>6

(* A sighting leaves a probation state of the right type.                  *)
LEMMA SightedType ==
    ASSUME NEW cand \in CandidateState, NEW key \in Keys, NEW hits \in Nat
    PROVE  Sighted(cand, key, hits) \in CandidateState
BY DEF Sighted, CandidateState

(* The incumbent of the stable lane, its oldest key, is one of its keys.    *)
LEMMA IncumbentResides ==
    ASSUME NEW p, Coherent(p), p.buckets["stable"] # {}
    PROVE  Incumbent(p) \in p.buckets["stable"] /\ Incumbent(p) \in Resident(p)
<1> DEFINE lane == p.buckets["stable"]
<1>1. lane \subseteq Resident(p) /\ lane \subseteq Keys
  BY RolesAssumption DEF Coherent, WellTyped, Filed
<1>2. IsFiniteSet(lane)
  BY <1>1, FS_Subset DEF Coherent
<1>3. /\ \A u \in lane : <<u, u>> \notin p.older
      /\ \A u, v, w \in lane :
            <<u, v>> \in p.older /\ <<v, w>> \in p.older => <<u, w>> \in p.older
  BY <1>1 DEF Coherent, Ordered
<1> HIDE DEF lane
<1>4. PICK v \in lane : \A u \in lane : <<u, v>> \notin p.older
  BY <1>2, <1>3, FiniteMinimal DEF lane
<1>5. \A j \in lane \ {v} : <<v, j>> \in p.older
  BY <1>4, RolesAssumption DEF Coherent, Ordered, lane
<1>6. Incumbent(p) \in lane
  BY <1>5 DEF Incumbent, lane
<1>7. QED
  BY <1>1, <1>6 DEF lane

\* plan_stable_candidate refuses, or returns a plan for the stable role with
\* another reason; planning moves the probation state alone.
CandidateOutcome(p, key, nbytes, result) ==
    /\ \/ ~result.plan.accepted
       \/ \E reason \in StableReasons :
             result.plan = [PlanAdmission(p, key, "stable", nbytes, None)
                               EXCEPT !.reason = reason]
    /\ \E cand \in CandidateState : result.policy = [p EXCEPT !.cand = cand]

(* Every outcome of plan_stable_candidate is one of these.                 *)
LEMMA StableCandidateShape ==
    ASSUME NEW p, Coherent(p), NEW key \in Keys, NEW nbytes \in Nat
    PROVE  CandidateOutcome(p, key, nbytes, PlanStableCandidate(p, key, nbytes))
<1> DEFINE plain   == PlanAdmission(p, key, "stable", nbytes, None)
           result  == PlanStableCandidate(p, key, nbytes)
           current == p.entries[Incumbent(p)]
           sighted == Sighted(p.cand, key, current.hits)
<1>1. p.cand \in CandidateState
  BY DEF Coherent, WellTyped, CandidateState
<1>2. ASSUME p.buckets["stable"] # {} PROVE sighted \in CandidateState
  <2>1. current.hits \in Nat
    BY <1>2, IncumbentResides DEF Coherent, WellTyped, EntryState
  <2>2. QED
    BY <1>1, <2>1, SightedType
<1>3. /\ \/ ~result.plan.accepted
         \/ \E reason \in StableReasons :
               result.plan = [plain EXCEPT !.reason = reason]
      /\ \E cand \in CandidateState : result.policy = [p EXCEPT !.cand = cand]
  <2> DEFINE oversized == ZeroCapacity \/ nbytes > MaxBytes
             state(cand) == [p EXCEPT !.cand = cand]
             admission(reason) == [plain EXCEPT !.reason = reason]
             refused(reason) == Refusal(key, "stable", nbytes, reason)
  <2>1. \A reason : ~refused(reason).accepted
    BY DEF Refusal
  <2>2. {"stable_empty", "stable_refresh", "stable_cold_larger", "stable_repeated_miss"}
            = StableReasons
    BY DEF StableReasons
  <2>3. CASE oversized \/ p.buckets["stable"] = {} \/ Incumbent(p) = key
             \/ (current.hits = 0 /\ Length(key) > Length(Incumbent(p)))
    <3>1. /\ result.policy = state(p.cand)
          /\ \/ result.plan = refused("oversized_or_disabled")
             \/ \E reason \in StableReasons : result.plan = admission(reason)
      BY <2>2, <2>3, Zenon DEF PlanStableCandidate
    <3>2. QED
      BY <1>1, <2>1, <3>1, Zenon
  <2>4. CASE ~(oversized \/ p.buckets["stable"] = {} \/ Incumbent(p) = key
               \/ (current.hits = 0 /\ Length(key) > Length(Incumbent(p))))
    <3>1. /\ result.policy = state(sighted)
          /\ \/ result.plan = refused("stable_probation")
             \/ \E reason \in StableReasons : result.plan = admission(reason)
      BY <2>2, <2>4, Zenon DEF PlanStableCandidate
    <3>2. sighted \in CandidateState
      BY <1>2, <2>4
    <3>3. QED
      BY <2>1, <3>1, <3>2, Zenon
  <2>5. QED
    BY <2>3, <2>4, Zenon
<1>4. QED
  BY <1>3, Zenon DEF CandidateOutcome

(* It leaves a coherent policy, and a plan of it that is accepted can be   *)
(* executed on that policy.                                                *)
LEMMA StableCandidatePlan ==
    ASSUME NEW p, Coherent(p), WithinLimits(p), SingleStable(p),
           NEW key \in Keys, NEW nbytes \in Nat
    PROVE  LET result == PlanStableCandidate(p, key, nbytes)
           IN  /\ Coherent(result.policy)
               /\ WithinLimits(result.policy)
               /\ SingleStable(result.policy)
               /\ result.plan.accepted => Executable(result.policy, result.plan)
               /\ result.plan.accepted => DOMAIN result.plan.evictions \subseteq Keys
<1> DEFINE plain   == PlanAdmission(p, key, "stable", nbytes, None)
           result  == PlanStableCandidate(p, key, nbytes)
<1>0. CandidateOutcome(p, key, nbytes, result)
  BY StableCandidateShape
<1>1. /\ \/ ~result.plan.accepted
         \/ \E reason \in StableReasons :
               result.plan = [plain EXCEPT !.reason = reason]
      /\ \E cand \in CandidateState : result.policy = [p EXCEPT !.cand = cand]
  BY <1>0, Zenon DEF CandidateOutcome
<1> HIDE DEF result
<1>2. PICK cand \in CandidateState : result.policy = [p EXCEPT !.cand = cand]
  BY <1>1
<1> DEFINE q == [p EXCEPT !.cand = cand]
<1>3. Coherent(q) /\ WithinLimits(q) /\ SingleStable(q)
  BY CandidateCoherent
<1>4. q.buckets = p.buckets /\ q.entries = p.entries
  BY CandidateFields DEF Coherent
<1>5. ASSUME result.plan.accepted
      PROVE  /\ Executable(result.policy, result.plan)
             /\ DOMAIN result.plan.evictions \subseteq Keys
  <2>1. PICK reason \in StableReasons : result.plan = [plain EXCEPT !.reason = reason]
    BY <1>1, <1>5
  <2>2. /\ result.plan.accepted = plain.accepted
        /\ result.plan.key = plain.key
        /\ result.plan.role = plain.role
        /\ result.plan.nbytes = plain.nbytes
        /\ result.plan.evictions = plain.evictions
    BY <2>1, Zenon DEF PlanAdmission, Refusal
  <2> HIDE DEF plain
  <2>3. Executable(p, plain)
    BY <1>5, <2>2, AdmissionPlan, RolesAssumption DEF plain
  <2> HIDE DEF q
  <2>4. ProjectedOverLimit(q, plain.key, plain.nbytes, DOMAIN plain.evictions)
          <=> ProjectedOverLimit(p, plain.key, plain.nbytes, DOMAIN plain.evictions)
    <3> DEFINE kept == Resident(p) \ (DOMAIN plain.evictions \cup {plain.key})
    <3>1. Resident(q) = Resident(p)
      BY <1>4 DEF Resident
    <3>2. Bytes(q, kept) = Bytes(p, kept)
      BY <1>4, BytesSame
    <3>3. QED
      BY <3>1, <3>2 DEF ProjectedOverLimit
  <2>5. result.policy = q
    BY <1>2 DEF q
  <2>6. DOMAIN plain.evictions \subseteq Keys
    BY EvictionsAreKeys DEF plain
  <2>7. QED
    BY <1>4, <2>2, <2>3, <2>4, <2>5, <2>6 DEF Executable
<1>6. QED
  BY <1>2, <1>3, <1>5 DEF result

(* A stable candidate that is admitted is admitted as such, on the entries *)
(* there were.                                                             *)
LEMMA CandidateAdmission ==
    ASSUME NEW p, Coherent(p), NEW key \in Keys, NEW nbytes \in Nat
    PROVE  LET result == PlanStableCandidate(p, key, nbytes)
           IN  /\ result.policy.entries = p.entries
               /\ result.policy.buckets = p.buckets
               /\ result.plan.accepted =>
                     /\ result.plan.key = key /\ result.plan.role = "stable"
                     /\ result.plan.nbytes = nbytes
                     /\ result.plan.reason \in StableReasons
<1> DEFINE plain  == PlanAdmission(p, key, "stable", nbytes, None)
           result == PlanStableCandidate(p, key, nbytes)
<1>1. CandidateOutcome(p, key, nbytes, result)
  BY StableCandidateShape
<1>2. result.policy.entries = p.entries /\ result.policy.buckets = p.buckets
  <2>1. PICK cand \in CandidateState : result.policy = [p EXCEPT !.cand = cand]
    BY <1>1 DEF CandidateOutcome
  <2> HIDE DEF result
  <2>2. QED
    BY <2>1, CandidateFields DEF Coherent
<1>3. ASSUME result.plan.accepted
      PROVE  /\ result.plan.key = key /\ result.plan.role = "stable"
             /\ result.plan.nbytes = nbytes
             /\ result.plan.reason \in StableReasons
  <2>1. PICK reason \in StableReasons : result.plan = [plain EXCEPT !.reason = reason]
    BY <1>1, <1>3, Zenon DEF CandidateOutcome
  <2>2. /\ DOMAIN plain = {"accepted", "key", "role", "nbytes", "evictions", "reason"}
        /\ plain.key = key /\ plain.role = "stable" /\ plain.nbytes = nbytes
    BY PlanFields
  <2> HIDE DEF plain, result
  <2>3. QED
    BY <2>1, <2>2
<1>4. QED
  BY <1>2, <1>3

(* After the commit of an accepted plan the residents are those the plan   *)
(* keeps, and its key.                                                     *)
LEMMA CommitResident ==
    ASSUME NEW p, Coherent(p), NEW plan, plan.accepted, Executable(p, plan)
    PROVE  Resident(Commit(p, plan))
              = (Resident(p) \ DOMAIN plan.evictions) \cup {plan.key}
<1> DEFINE removed == RemoveEntries(p, DOMAIN plan.evictions \cup {plan.key})
           stored  == InsertEntry(removed, plan.key, plan.role, plan.nbytes)
<1>1. /\ Coherent(removed)
      /\ Resident(removed) = Resident(p) \ (DOMAIN plan.evictions \cup {plan.key})
  BY RemoveCoherent
<1> HIDE DEF removed
<1>2. plan.key \in Keys /\ plan.role \in Roles /\ plan.nbytes \in 0 .. MaxBytes
  BY DEF Executable
<1>3. /\ Coherent(stored)
      /\ Resident(stored) = Resident(removed) \cup {plan.key}
  BY <1>1, <1>2, InsertCoherent
<1> HIDE DEF stored
<1>4. Resident([stored EXCEPT !.cand = NoCandidate]) = Resident(stored)
  BY <1>3, CandidateFields DEF Coherent, Resident
<1>5. Commit(p, plan) \in {stored, [stored EXCEPT !.cand = NoCandidate]}
  BY DEF Commit, removed, stored
<1>6. QED
  BY <1>1, <1>3, <1>4, <1>5

(* A committed plan stores its entry and leaves the other survivors as     *)
(* they were.                                                              *)
LEMMA CommitEntries ==
    ASSUME NEW p, Coherent(p), NEW plan, plan.accepted, Executable(p, plan)
    PROVE  LET q == Commit(p, plan)
           IN  /\ q.entries[plan.key]
                     = [role |-> plan.role, nbytes |-> plan.nbytes, hits |-> 0]
               /\ \A k \in Resident(p) \ (DOMAIN plan.evictions \cup {plan.key}) :
                     q.entries[k] = p.entries[k]
<1> DEFINE removed == RemoveEntries(p, DOMAIN plan.evictions \cup {plan.key})
           stored  == InsertEntry(removed, plan.key, plan.role, plan.nbytes)
           entry   == [role |-> plan.role, nbytes |-> plan.nbytes, hits |-> 0]
<1>1. /\ Coherent(removed)
      /\ Resident(removed) = Resident(p) \ (DOMAIN plan.evictions \cup {plan.key})
      /\ \A k \in Resident(removed) : removed.entries[k] = p.entries[k]
  BY RemoveCoherent
<1> HIDE DEF removed
<1>2. plan.key \in Keys /\ plan.role \in Roles /\ plan.nbytes \in 0 .. MaxBytes
  BY DEF Executable
<1>3. /\ stored.entries[plan.key] = entry
      /\ \A k \in Resident(removed) : k # plan.key => stored.entries[k] = removed.entries[k]
  BY DEF InsertEntry
<1>4. Coherent(stored)
  BY <1>1, <1>2, InsertCoherent
<1> HIDE DEF stored, entry
<1>5. [stored EXCEPT !.cand = NoCandidate].entries = stored.entries
  BY <1>4, CandidateFields DEF Coherent
<1>6. Commit(p, plan) \in {stored, [stored EXCEPT !.cand = NoCandidate]}
  BY DEF Commit, removed, stored
<1>7. Commit(p, plan).entries = stored.entries
  BY <1>5, <1>6
<1>8. QED
  BY <1>1, <1>3, <1>7 DEF entry

(* What a commit leaves in a bucket was there, or it is the new entry.     *)
LEMMA CommitBucket ==
    ASSUME NEW p, Coherent(p), WithinLimits(p), SingleStable(p),
           NEW plan, plan.accepted, Executable(p, plan), NEW role \in Roles,
           NEW k \in Commit(p, plan).buckets[role]
    PROVE  \/ k = plan.key /\ role = plan.role
           \/ /\ k \in p.buckets[role] \ DOMAIN plan.evictions
              /\ k # plan.key
              /\ Commit(p, plan).entries[k] = p.entries[k]
<1> DEFINE q == Commit(p, plan)
<1>1. Coherent(q)
  BY CommitSafe
<1>2. Resident(q) = (Resident(p) \ DOMAIN plan.evictions) \cup {plan.key}
  BY CommitResident
<1>3. /\ q.entries[plan.key] = [role |-> plan.role, nbytes |-> plan.nbytes, hits |-> 0]
      /\ \A j \in Resident(p) \ (DOMAIN plan.evictions \cup {plan.key}) :
            q.entries[j] = p.entries[j]
  BY CommitEntries
<1> HIDE DEF q
<1>4. k \in Resident(q) /\ q.entries[k].role = role
  BY <1>1 DEF Coherent, Filed, q
<1>5. CASE k = plan.key
  BY <1>3, <1>4, <1>5
<1>6. CASE k # plan.key
  <2>1. /\ k \in Resident(p) \ DOMAIN plan.evictions
        /\ q.entries[k] = p.entries[k]
    BY <1>2, <1>3, <1>4, <1>6
  <2>2. k \in p.buckets[role]
    BY <1>4, <2>1 DEF Coherent, Filed
  <2>3. QED
    BY <1>6, <2>1, <2>2 DEF q
<1>7. QED
  BY <1>5, <1>6

(* A committed trim removes exactly the evicted keys.                      *)
LEMMA TrimResident ==
    ASSUME NEW p, Coherent(p), NEW S
    PROVE  Resident(CommitTrim(p, S)) = Resident(p) \ S
BY RemoveCoherent DEF CommitTrim

(* Committing a trim, or any other removal, keeps the policy safe.         *)
LEMMA TrimSafe ==
    ASSUME NEW p, Coherent(p), WithinLimits(p), SingleStable(p), NEW S
    PROVE  LET q == CommitTrim(p, S)
           IN  Coherent(q) /\ WithinLimits(q) /\ SingleStable(q)
<1> DEFINE q == RemoveEntries(p, S)
<1>1. /\ Coherent(q)
      /\ Resident(q) = Resident(p) \ S
      /\ Bytes(q, Resident(q)) = Bytes(p, Resident(p) \ S)
  BY RemoveCoherent
<1>2. q.buckets["stable"] \subseteq p.buckets["stable"]
  BY RolesAssumption DEF RemoveEntries
<1> HIDE DEF q
<1>3. /\ IsFiniteSet(Resident(p) \ S)
      /\ Cardinality(Resident(p) \ S) <= Cardinality(Resident(p))
      /\ Bytes(p, Resident(p) \ S) <= Bytes(p, Resident(p))
  BY FS_Subset, BytesMonotone DEF Coherent
<1>4. /\ Cardinality(Resident(p) \ S) \in Nat /\ Cardinality(Resident(p)) \in Nat
      /\ Bytes(p, Resident(p) \ S) \in Nat /\ Bytes(p, Resident(p)) \in Nat
  BY <1>3, FS_CardinalityType, BytesFinite DEF Coherent
<1>5. WithinLimits(q)
  BY <1>1, <1>3, <1>4, CapacityAssumption DEF WithinLimits
<1>6. SingleStable(q)
  BY <1>2 DEF SingleStable
<1>7. QED
  BY <1>1, <1>5, <1>6 DEF q, CommitTrim
=============================================================================
