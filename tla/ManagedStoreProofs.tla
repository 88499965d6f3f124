-------------------------- MODULE ManagedStoreProofs --------------------------
(***************************************************************************)
(* The managed store of ManagedStore, for every set of prompts, every size *)
(* of their states and checkpoints and every RAM limit. Handles stay below *)
(* the counter; the budget is exceeded by no more than the checkpoints of  *)
(* one stored state; reclaim goes by age and takes no more than it needs.  *)
(***************************************************************************)
EXTENDS ManagedStore, FiniteSetTheorems, TLAPS

-----------------------------------------------------------------------------
(* Sums of bytes.                                                          *)

Measured(s, H) ==
    IsFiniteSet(H) /\ \A h \in H : PayloadBytes(s.states[h].prompt) \in Nat

HandleCells(s, h) == {h} \X (1 .. PayloadBytes(s.states[h].prompt))

Cells(s, H) == UNION {HandleCells(s, h) : h \in H}

(* One handle has as many cells as its state has bytes.                    *)
LEMMA HandleCellsFinite ==
    ASSUME NEW s, NEW h, PayloadBytes(s.states[h].prompt) \in Nat
    PROVE  /\ IsFiniteSet(HandleCells(s, h))
           /\ Cardinality(HandleCells(s, h)) = PayloadBytes(s.states[h].prompt)
<1> DEFINE n == PayloadBytes(s.states[h].prompt)
<1>1. IsFiniteSet({h}) /\ Cardinality({h}) = 1
  BY FS_Singleton
<1> HIDE DEF n
<1>2. n \in Nat
  BY DEF n
<1>3. IsFiniteSet(1 .. n) /\ Cardinality(1 .. n) = n
  <2>1. 1 \in Int /\ n \in Int
    BY <1>2
  <2>2. IsFiniteSet(1 .. n) /\ Cardinality(1 .. n) = IF 1 > n THEN 0 ELSE n - 1 + 1
    BY <2>1, FS_Interval
  <2> DEFINE c == Cardinality(1 .. n)
  <2>3. IsFiniteSet(1 .. n) /\ c = IF 1 > n THEN 0 ELSE n - 1 + 1
    BY <2>2
  <2> HIDE DEF c
  <2>4. c = n
    BY <1>2, <2>3
  <2>5. QED
    BY <2>3, <2>4 DEF c
<1>4. IsFiniteSet({h} \X (1 .. n)) /\ Cardinality({h} \X (1 .. n)) = 1 * n
  <2>1. /\ IsFiniteSet({h} \X (1 .. n))
        /\ Cardinality({h} \X (1 .. n)) = Cardinality({h}) * Cardinality(1 .. n)
    BY <1>1, <1>3, FS_Product
  <2>2. Cardinality({h}) * Cardinality(1 .. n) = 1 * n
    BY <1>1, <1>3
  <2>3. QED
    BY <2>1, <2>2
<1>5. QED
  BY <1>2, <1>4 DEF HandleCells, n

(* A sum over finitely many handles is a natural number.                   *)
LEMMA CellsFinite ==
    ASSUME NEW s, NEW H, Measured(s, H)
    PROVE  /\ IsFiniteSet(Cells(s, H))
           /\ HandleBytes(s, H) = Cardinality(Cells(s, H))
           /\ HandleBytes(s, H) \in Nat
<1> DEFINE parts == {HandleCells(s, h) : h \in H}
           part  == [h \in H |-> HandleCells(s, h)]
<1>1. part \in Surjection(H, parts)
  BY DEF Surjection
<1>2. IsFiniteSet(parts)
  BY <1>1, FS_Surjection DEF Measured
<1>3. \A p \in parts : IsFiniteSet(p)
  BY HandleCellsFinite DEF Measured
<1> HIDE DEF parts
<1>4. IsFiniteSet(UNION parts)
  BY <1>2, <1>3, FS_UNION
<1>5. IsFiniteSet(Cells(s, H))
  BY <1>4 DEF Cells, parts
<1>6. HandleBytes(s, H) = Cardinality(Cells(s, H))
  BY DEF HandleBytes, Cells, HandleCells
<1>7. QED
  BY <1>5, <1>6, FS_CardinalityType

(* Fewer handles never weigh more.                                         *)
LEMMA BytesMonotone ==
    ASSUME NEW s, NEW H, Measured(s, H), NEW T \in SUBSET H
    PROVE  Measured(s, T) /\ HandleBytes(s, T) <= HandleBytes(s, H)
<1>1. Measured(s, T)
  BY FS_Subset DEF Measured
<1>2. Cells(s, T) \in SUBSET Cells(s, H)
  BY DEF Cells
<1>3. QED
  BY <1>1, <1>2, CellsFinite, FS_Subset

(* A sum splits along any partition of its handles.                        *)
LEMMA BytesSplit ==
    ASSUME NEW s, NEW H, Measured(s, H), NEW T \in SUBSET H
    PROVE  HandleBytes(s, H) = HandleBytes(s, T) + HandleBytes(s, H \ T)
<1>1. Measured(s, T) /\ Measured(s, H \ T)
  BY BytesMonotone
<1>2. /\ Cells(s, H) = Cells(s, T) \cup Cells(s, H \ T)
      /\ Cells(s, T) \cap Cells(s, H \ T) = {}
  BY DEF Cells, HandleCells
<1>3. Cardinality(Cells(s, H))
         = Cardinality(Cells(s, T)) + Cardinality(Cells(s, H \ T))
             - Cardinality(Cells(s, T) \cap Cells(s, H \ T))
  BY <1>1, <1>2, CellsFinite, FS_Union
<1>4. Cardinality(Cells(s, T) \cap Cells(s, H \ T)) = 0
  BY <1>2, FS_EmptySet
<1>5. /\ HandleBytes(s, H) = Cardinality(Cells(s, H))
      /\ HandleBytes(s, T) = Cardinality(Cells(s, T)) /\ HandleBytes(s, T) \in Nat
      /\ HandleBytes(s, H \ T) = Cardinality(Cells(s, H \ T))
      /\ HandleBytes(s, H \ T) \in Nat
  BY <1>1, CellsFinite
<1>6. QED
  BY <1>3, <1>4, <1>5

(* The sum over one handle is its size.                                    *)
LEMMA BytesOfOne ==
    ASSUME NEW s, NEW h, Measured(s, {h})
    PROVE  HandleBytes(s, {h}) = PayloadBytes(s.states[h].prompt)
<1>1. Cells(s, {h}) = HandleCells(s, h)
  BY DEF Cells
<1>2. QED
  BY <1>1, CellsFinite, HandleCellsFinite DEF Measured

(* Stores that hold the same prompts under some handles agree on the sum.  *)
LEMMA BytesSame ==
    ASSUME NEW s, NEW t, NEW H,
           \A h \in H : s.states[h].prompt = t.states[h].prompt
    PROVE  HandleBytes(s, H) = HandleBytes(t, H)
<1>1. Cells(s, H) = Cells(t, H)
  BY DEF Cells, HandleCells
<1>2. QED
  BY <1>1 DEF HandleBytes, Cells, HandleCells

-----------------------------------------------------------------------------
(* Server values.                                                          *)

State == [prompt : Prompts, restored : BOOLEAN]

Proper(s) ==
    /\ DOMAIN s = {"epoch", "states", "next", "slot"}
    /\ s.epoch \in Epochs
    /\ s.next \in 1 .. MaxHandle + 1
    /\ Handles(s) \subseteq 1 .. s.next - 1
    /\ s.states \in [Handles(s) -> State]
    /\ s.slot \in Prompts \cup {None}

Bounded(s) ==
    RamLimit # None =>
        \/ HandleBytes(s, Handles(s)) <= RamLimit
        \/ \E h \in Handles(s) :
              HandleBytes(s, Handles(s)) <= RamLimit + CheckpointBytes[s.states[h].prompt]

(* The sizes of stored states are natural numbers.                         *)
LEMMA ProperMeasured ==
    ASSUME NEW s, Proper(s), NEW H \in SUBSET Handles(s)
    PROVE  /\ Measured(s, H)
           /\ \A h \in Handles(s) :
                 /\ s.states[h].prompt \in Prompts
                 /\ StateBytes[s.states[h].prompt] \in Nat
                 /\ CheckpointBytes[s.states[h].prompt] \in Nat
                 /\ PayloadBytes(s.states[h].prompt)
                       = StateBytes[s.states[h].prompt] + CheckpointBytes[s.states[h].prompt]
<1>1. \A h \in Handles(s) :
         /\ s.states[h].prompt \in Prompts
         /\ StateBytes[s.states[h].prompt] \in Nat
         /\ CheckpointBytes[s.states[h].prompt] \in Nat
  BY ServerAssumption DEF Proper, State
<1>2. IsFiniteSet(Handles(s))
  <2>1. s.next - 1 \in Int
    BY BoundsAssumption DEF Proper
  <2>2. IsFiniteSet(1 .. s.next - 1)
    BY <2>1, FS_Interval
  <2>3. QED
    BY <2>2, FS_Subset DEF Proper
<1>3. QED
  BY <1>1, <1>2, FS_Subset DEF Measured, PayloadBytes

(* Removing handles keeps a server value proper and within the bound.      *)
LEMMA WithoutSafe ==
    ASSUME NEW s, Proper(s), NEW H
    PROVE  LET t == Without(s, H)
           IN  /\ Proper(t)
               /\ Handles(t) = Handles(s) \ H
               /\ \A h \in Handles(t) : t.states[h] = s.states[h]
               /\ t.epoch = s.epoch /\ t.next = s.next /\ t.slot = s.slot
               /\ HandleBytes(t, Handles(t)) = HandleBytes(s, Handles(s) \ H)
               /\ Bounded(s) => Bounded(t)
<1> DEFINE t == Without(s, H)
<1>1. /\ DOMAIN t = {"epoch", "states", "next", "slot"}
      /\ t.states = [h \in Handles(s) \ H |-> s.states[h]]
      /\ t.epoch = s.epoch /\ t.next = s.next /\ t.slot = s.slot
  BY DEF Without, Proper
<1> HIDE DEF t
<1>2. Handles(t) = Handles(s) \ H /\ \A h \in Handles(t) : t.states[h] = s.states[h]
  BY <1>1 DEF Handles
<1>3. Proper(t)
  <2>1. t.states \in [Handles(t) -> State]
    BY <1>1, <1>2 DEF Proper
  <2>2. QED
    BY <1>1, <1>2, <2>1 DEF Proper
<1>4. HandleBytes(t, Handles(t)) = HandleBytes(s, Handles(s) \ H)
  BY <1>2, BytesSame
<1>5. ASSUME Bounded(s), RamLimit # None
      PROVE  \/ HandleBytes(t, Handles(t)) <= RamLimit
             \/ \E h \in Handles(t) :
                   HandleBytes(t, Handles(t)) <= RamLimit + CheckpointBytes[t.states[h].prompt]
  <2> DEFINE gone == Handles(s) \cap H
  <2>1. HandleBytes(s, Handles(s))
            = HandleBytes(s, gone) + HandleBytes(s, Handles(s) \ H)
    <3>1. Handles(s) \ gone = Handles(s) \ H
      OBVIOUS
    <3>2. HandleBytes(s, Handles(s))
              = HandleBytes(s, gone) + HandleBytes(s, Handles(s) \ gone)
      BY ProperMeasured, BytesSplit
    <3>3. QED
      BY <3>1, <3>2
  <2>2. /\ HandleBytes(s, gone) \in Nat /\ HandleBytes(s, Handles(s) \ H) \in Nat
        /\ RamLimit \in Nat
    <3>1. Measured(s, gone) /\ Measured(s, Handles(s) \ H)
      BY ProperMeasured
    <3>2. QED
      BY <1>5, <3>1, CellsFinite, ServerAssumption
  <2>3. CASE HandleBytes(s, Handles(s)) <= RamLimit
    BY <1>4, <2>1, <2>2, <2>3
  <2>4. ASSUME NEW h \in Handles(s),
               HandleBytes(s, Handles(s)) <= RamLimit + CheckpointBytes[s.states[h].prompt]
        PROVE  \/ HandleBytes(t, Handles(t)) <= RamLimit
               \/ h \in Handles(t) /\ HandleBytes(t, Handles(t))
                                         <= RamLimit + CheckpointBytes[t.states[h].prompt]
    <3>1. CheckpointBytes[s.states[h].prompt] \in Nat
      BY ProperMeasured
    <3>2. CASE h \in Handles(t)
      BY <1>2, <1>4, <2>1, <2>2, <2>4, <3>1, <3>2
    <3>3. CASE h \in H
      <4>1. Measured(s, gone) /\ Measured(s, {h}) /\ {h} \in SUBSET gone
        BY <3>3, ProperMeasured
      <4> HIDE DEF gone
      <4>2. PayloadBytes(s.states[h].prompt) <= HandleBytes(s, gone)
        <5>1. HandleBytes(s, {h}) <= HandleBytes(s, gone)
          BY <4>1, BytesMonotone
        <5>2. QED
          BY <4>1, <5>1, BytesOfOne
      <4>3. /\ PayloadBytes(s.states[h].prompt)
                  = StateBytes[s.states[h].prompt] + CheckpointBytes[s.states[h].prompt]
            /\ StateBytes[s.states[h].prompt] \in Nat
        BY ProperMeasured
      <4>4. QED
        BY <1>4, <2>1, <2>2, <2>4, <3>1, <4>2, <4>3
    <3>4. QED
      BY <1>2, <3>2, <3>3
  <2>5. QED
    BY <1>5, <2>3, <2>4 DEF Bounded
<1>6. QED
  BY <1>1, <1>2, <1>3, <1>4, <1>5 DEF Bounded, t

-----------------------------------------------------------------------------
(* Reclaim.                                                                *)

Older(s, h) == {u \in Unused(s) : u < h}

(* What reclaim takes is enough. The oldest unused handle that it leaves   *)
(* is left because the older ones were enough, and all of these went.      *)
LEMMA ReclaimSuffices ==
    ASSUME NEW s, Proper(s), s.slot \in Prompts, RamLimit # None,
           ~(HandleBytes(s, Unused(s)) < Deficit(s))
    PROVE  HandleBytes(s, Handles(s) \ Reclaimed(s)) + StateBytes[s.slot] <= RamLimit
<1> DEFINE left   == Unused(s) \ Reclaimed(s)
           before == {Older(s, h) : h \in left}
<1>1. /\ Unused(s) \in SUBSET Handles(s) /\ Reclaimed(s) \in SUBSET Unused(s)
      /\ Handles(s) \subseteq Nat
  BY BoundsAssumption DEF Unused, Reclaimed, Proper
<1>2. /\ Measured(s, Handles(s)) /\ Measured(s, Unused(s)) /\ Measured(s, Reclaimed(s))
      /\ Measured(s, Handles(s) \ Reclaimed(s))
      /\ \A h : Measured(s, Older(s, h))
  <2>1. \A h : Older(s, h) \in SUBSET Handles(s)
    BY <1>1 DEF Older
  <2>2. QED
    BY <1>1, <2>1, ProperMeasured
<1>3. /\ HandleBytes(s, Handles(s)) \in Nat /\ HandleBytes(s, Reclaimed(s)) \in Nat
      /\ HandleBytes(s, Unused(s)) \in Nat
      /\ HandleBytes(s, Handles(s) \ Reclaimed(s)) \in Nat
      /\ \A h : HandleBytes(s, Older(s, h)) \in Nat
  BY <1>2, CellsFinite
<1>4. /\ RamLimit \in Nat /\ StateBytes[s.slot] \in Nat
      /\ Deficit(s) = HandleBytes(s, Handles(s)) + StateBytes[s.slot] - RamLimit
  BY ServerAssumption DEF Deficit
<1>5. HandleBytes(s, Reclaimed(s)) >= Deficit(s)
  <2>1. CASE left = {}
    <3>1. Reclaimed(s) = Unused(s)
      BY <1>1, <2>1
    <3> HIDE DEF left
    <3>2. QED
      BY <1>3, <1>4, <3>1
  <2>2. CASE left # {}
    <3>1. before \subseteq FiniteSubsetsOf(Unused(s)) /\ before # {}
      <4>1. \A h \in left : Older(s, h) \in FiniteSubsetsOf(Unused(s))
        BY <1>2 DEF Older, Measured, FiniteSubsetsOf
      <4> HIDE DEF left
      <4>2. QED
        BY <2>2, <4>1
    <3>2. PICK least \in before :
              \A other \in before : <<other, least>> \notin StrictSubsetOrdering(Unused(s))
      <4> HIDE DEF before
      <4>1. QED
        BY <3>1, FS_StrictSubsetOrderingWellFounded, WFMin
    <3>3. PICK h \in left : least = Older(s, h)
      BY <3>2
    <3>4. Older(s, h) \in SUBSET Reclaimed(s)
      <4>1. SUFFICES ASSUME NEW u \in Older(s, h), u \notin Reclaimed(s) PROVE FALSE
        OBVIOUS
      <4>2. u \in left /\ u \in Nat /\ h \in Nat /\ u < h
        BY <1>1, <3>3, <4>1 DEF Older
      <4>3. Older(s, u) \subseteq Older(s, h) /\ u \notin Older(s, u)
        BY <1>1, <4>2 DEF Older
      <4>4. <<Older(s, u), Older(s, h)>> \in StrictSubsetOrdering(Unused(s))
        BY <4>1, <4>3 DEF StrictSubsetOrdering, Older
      <4>5. Older(s, u) \in before
        BY <4>2
      <4>6. QED
        BY <3>2, <3>3, <4>4, <4>5
    <3>5. ~(HandleBytes(s, Older(s, h)) < Deficit(s))
      BY <3>3 DEF Reclaimed, Older
    <3>6. HandleBytes(s, Older(s, h)) <= HandleBytes(s, Reclaimed(s))
      BY <1>2, <3>4, BytesMonotone
    <3>7. QED
      BY <1>3, <1>4, <3>5, <3>6
  <2>3. QED
    BY <2>1, <2>2
<1>6. HandleBytes(s, Handles(s))
         = HandleBytes(s, Reclaimed(s)) + HandleBytes(s, Handles(s) \ Reclaimed(s))
  BY <1>1, <1>2, BytesSplit
<1>7. QED
  BY <1>3, <1>4, <1>5, <1>6

(* Reclaim takes unused handles, no handle without the older ones, and not *)
(* the last of them without need.                                          *)
LEMMA ReclaimInOrder ==
    ASSUME NEW s, Proper(s), s.slot \in Prompts, NEW h \in Reclaimed(s)
    PROVE  /\ h \in Handles(s) /\ ~s.states[h].restored
           /\ \A u \in Unused(s) : u < h => u \in Reclaimed(s)
           /\ (\A f \in Reclaimed(s) : f <= h)
                 => HandleBytes(s, (Handles(s) \ Reclaimed(s)) \cup {h})
                      + StateBytes[s.slot] > RamLimit
<1>1. /\ Unused(s) \in SUBSET Handles(s) /\ h \in Unused(s)
      /\ Handles(s) \subseteq Nat
  BY BoundsAssumption DEF Unused, Reclaimed, Proper
<1>2. /\ Measured(s, Handles(s)) /\ \A u : Measured(s, Older(s, u))
  <2>1. \A u : Older(s, u) \in SUBSET Handles(s)
    BY <1>1 DEF Older
  <2>2. QED
    BY <2>1, ProperMeasured
<1>3. HandleBytes(s, Handles(s)) \in Nat /\ \A u : HandleBytes(s, Older(s, u)) \in Nat
  BY <1>2, CellsFinite
<1>4. HandleBytes(s, Older(s, h)) < Deficit(s)
  BY DEF Reclaimed, Older
<1>5. /\ RamLimit \in Nat /\ StateBytes[s.slot] \in Nat
      /\ Deficit(s) = HandleBytes(s, Handles(s)) + StateBytes[s.slot] - RamLimit
  <2>1. RamLimit # None
    BY <1>3, <1>4 DEF Deficit
  <2>2. QED
    BY <2>1, ServerAssumption DEF Deficit
<1>6. ASSUME NEW u \in Unused(s), u < h PROVE u \in Reclaimed(s)
  <2>1. Older(s, u) \in SUBSET Older(s, h)
    BY <1>1, <1>6 DEF Older
  <2>2. HandleBytes(s, Older(s, u)) <= HandleBytes(s, Older(s, h))
    BY <1>2, <2>1, BytesMonotone
  <2>3. HandleBytes(s, Older(s, u)) < Deficit(s)
    BY <1>3, <1>4, <1>5, <2>2
  <2>4. QED
    BY <2>3 DEF Reclaimed, Older
<1>7. ASSUME \A f \in Reclaimed(s) : f <= h
      PROVE  HandleBytes(s, (Handles(s) \ Reclaimed(s)) \cup {h}) + StateBytes[s.slot] > RamLimit
  <2> DEFINE kept == (Handles(s) \ Reclaimed(s)) \cup {h}
  <2>1. Handles(s) \ Older(s, h) = kept
    <3>1. \A f \in Handles(s) : f \in Older(s, h) <=> f \in Reclaimed(s) \ {h}
      BY <1>1, <1>6, <1>7 DEF Older, Reclaimed
    <3>2. QED
      BY <1>1, <3>1
  <2>2. Older(s, h) \in SUBSET Handles(s)
    BY <1>1 DEF Older
  <2>3. HandleBytes(s, Handles(s)) = HandleBytes(s, Older(s, h)) + HandleBytes(s, kept)
    BY <1>2, <2>1, <2>2, BytesSplit
  <2>4. HandleBytes(s, kept) \in Nat
    <3>1. kept \in SUBSET Handles(s)
      BY <1>1
    <3>2. QED
      BY <3>1, ProperMeasured, CellsFinite
  <2> HIDE DEF kept
  <2>5. HandleBytes(s, kept) + StateBytes[s.slot] > RamLimit
    BY <1>3, <1>4, <1>5, <2>3, <2>4
  <2>6. QED
    BY <2>5 DEF kept
<1>8. QED
  BY <1>1, <1>6, <1>7 DEF Unused

-----------------------------------------------------------------------------
(* Requests.                                                               *)

\* What a request may make of the store.
Follows(s, t) ==
    /\ Proper(t) /\ (Bounded(s) => Bounded(t))
    /\ t.epoch = s.epoch
    /\ \/ t.next = s.next /\ Handles(t) = Handles(s)
       \/ t.next = s.next /\ Handles(t) \subseteq Handles(s) /\ t.slot = s.slot
       \/ /\ t.next = s.next + 1
          /\ s.next \in Handles(t) /\ Handles(t) \ {s.next} \subseteq Handles(s)
          /\ t.states[s.next].prompt = s.slot /\ s.slot # None /\ t.slot = s.slot
    /\ \A h \in Handles(t) \cap Handles(s) : t.states[h].prompt = s.states[h].prompt

\* What a capture may take from it.
TakesOldest(s, t) ==
    LET gone == Handles(s) \ Handles(t)
    IN  \A h \in gone :
            /\ ~s.states[h].restored
            /\ \A u \in Unused(s) : u < h => u \in gone
            /\ (\A f \in gone : f <= h)
                  => HandleBytes(s, (Handles(s) \ gone) \cup {h})
                       + StateBytes[s.slot] > RamLimit

(* A store that does not change is as good as it was.                      *)
LEMMA SameFollows ==
    ASSUME NEW s, Proper(s)
    PROVE  Follows(s, s) /\ TakesOldest(s, s)
BY DEF Follows, TakesOldest

(* A change of the slot alone is no change of the store.                   *)
LEMMA SlotFollows ==
    ASSUME NEW s, Proper(s), NEW slot \in Prompts \cup {None}
    PROVE  /\ Follows(s, [s EXCEPT !.slot = slot])
           /\ TakesOldest(s, [s EXCEPT !.slot = slot])
<1> DEFINE t == [s EXCEPT !.slot = slot]
<1>1. /\ DOMAIN t = {"epoch", "states", "next", "slot"}
      /\ t.epoch = s.epoch /\ t.states = s.states /\ t.next = s.next /\ t.slot = slot
  BY DEF Proper
<1> HIDE DEF t
<1>2. Handles(t) = Handles(s)
  BY <1>1 DEF Handles
<1>3. HandleBytes(t, Handles(t)) = HandleBytes(s, Handles(s))
  BY <1>1, <1>2, BytesSame
<1>4. Proper(t)
  BY <1>1, <1>2 DEF Proper
<1>5. Bounded(s) => Bounded(t)
  BY <1>1, <1>2, <1>3 DEF Bounded
<1>6. QED
  BY <1>1, <1>2, <1>4, <1>5 DEF Follows, TakesOldest, t

(* Dropping a handle removes it and nothing else.                          *)
LEMMA DropFollows ==
    ASSUME NEW s, Proper(s), NEW handle, NEW outcome \in DropOutcomes(s, handle)
    PROVE  Follows(s, outcome.server)
<1>1. outcome.server \in {s, Without(s, {handle})}
  BY DEF DropOutcomes, Accept, Refuse
<1>2. Follows(s, Without(s, {handle}))
  <2> DEFINE t == Without(s, {handle})
  <2>1. /\ Proper(t) /\ (Bounded(s) => Bounded(t))
        /\ t.epoch = s.epoch /\ t.next = s.next /\ t.slot = s.slot
        /\ Handles(t) = Handles(s) \ {handle}
        /\ \A h \in Handles(t) : t.states[h] = s.states[h]
    BY WithoutSafe
  <2> HIDE DEF t
  <2>2. Follows(s, t)
    BY <2>1 DEF Follows
  <2>3. QED
    BY <2>2 DEF t
<1>3. QED
  BY <1>1, <1>2, SameFollows

(* A restore marks its handle and fills the slot.                          *)
LEMMA RestoreFollows ==
    ASSUME NEW s, Proper(s), NEW handle, NEW outcome \in RestoreOutcomes(s, handle)
    PROVE  Follows(s, outcome.server)
<1> DEFINE t == [s EXCEPT !.slot = s.states[handle].prompt,
                          !.states[handle].restored = TRUE]
<1>1. \/ outcome.server = s
      \/ handle \in Handles(s) /\ outcome.server \in {t, [s EXCEPT !.slot = None]}
  BY DEF RestoreOutcomes, Accept, Refuse
<1>2. ASSUME handle \in Handles(s) PROVE Follows(s, t)
  <2>1. s.states[handle] \in State /\ s.states[handle].prompt \in Prompts
    BY <1>2 DEF Proper, State
  <2>2. /\ DOMAIN t = {"epoch", "states", "next", "slot"}
        /\ t.epoch = s.epoch /\ t.next = s.next
        /\ t.slot = s.states[handle].prompt
        /\ t.states = [s.states EXCEPT ![handle].restored = TRUE]
    BY DEF Proper
  <2> HIDE DEF t
  <2>3. Handles(t) = Handles(s)
    BY <2>2 DEF Handles
  <2>4. t.states \in [Handles(t) -> State]
    <3>1. [s.states[handle] EXCEPT !.restored = TRUE] \in State
      BY <2>1 DEF State
    <3>2. QED
      BY <2>2, <2>3, <3>1 DEF Proper
  <2>5. \A h \in Handles(s) : t.states[h].prompt = s.states[h].prompt
    BY <2>1, <2>2 DEF Proper, State
  <2>6. HandleBytes(t, Handles(t)) = HandleBytes(s, Handles(s))
    BY <2>3, <2>5, BytesSame
  <2>7. Proper(t)
    BY <2>1, <2>2, <2>3, <2>4 DEF Proper
  <2>8. Bounded(s) => Bounded(t)
    BY <2>3, <2>5, <2>6 DEF Bounded
  <2>9. QED
    BY <2>2, <2>3, <2>5, <2>7, <2>8 DEF Follows
<1> HIDE DEF t
<1>3. QED
  BY <1>1, <1>2, SameFollows, SlotFollows

(* A new state goes under the next handle.                                 *)
LEMMA StoredSafe ==
    ASSUME NEW s, Proper(s), s.next <= MaxHandle, NEW prompt \in Prompts
    PROVE  LET t == Stored(s, prompt)
           IN  /\ Proper(t)
               /\ Handles(t) = Handles(s) \cup {s.next} /\ s.next \notin Handles(s)
               /\ t.epoch = s.epoch /\ t.next = s.next + 1 /\ t.slot = s.slot
               /\ \A h \in Handles(s) : t.states[h] = s.states[h]
               /\ t.states[s.next].prompt = prompt
               /\ HandleBytes(t, Handles(t))
                     = HandleBytes(s, Handles(s)) + PayloadBytes(prompt)
<1> DEFINE t   == Stored(s, prompt)
           new == [prompt |-> prompt, restored |-> FALSE]
<1>0. s.next \in Nat /\ s.next \notin Handles(s) /\ MaxHandle \in Nat
  BY BoundsAssumption DEF Proper
<1>1. /\ DOMAIN t = {"epoch", "states", "next", "slot"}
      /\ t.epoch = s.epoch /\ t.next = s.next + 1 /\ t.slot = s.slot
      /\ t.states = [h \in Handles(s) \cup {s.next} |->
                        IF h = s.next THEN new ELSE s.states[h]]
  BY DEF Stored, Proper
<1> HIDE DEF t
<1>2. /\ Handles(t) = Handles(s) \cup {s.next}
      /\ \A h \in Handles(s) : t.states[h] = s.states[h]
      /\ t.states[s.next] = new
  BY <1>0, <1>1 DEF Handles
<1>3. Proper(t)
  <2>1. new \in State
    BY DEF State
  <2>2. t.states \in [Handles(t) -> State]
    <3> HIDE DEF new
    <3>1. t.states = [h \in Handles(t) |-> IF h = s.next THEN new ELSE s.states[h]]
      BY <1>1, <1>2
    <3>2. \A h \in Handles(s) : s.states[h] \in State
      BY DEF Proper
    <3>3. \A h \in Handles(t) : (IF h = s.next THEN new ELSE s.states[h]) \in State
      BY <1>2, <2>1, <3>2
    <3>4. QED
      BY <3>1, <3>3
  <2>3. Handles(t) \subseteq 1 .. t.next - 1 /\ t.next \in 1 .. MaxHandle + 1
    BY <1>0, <1>1, <1>2 DEF Proper
  <2>4. QED
    BY <1>1, <2>2, <2>3 DEF Proper
<1>4. HandleBytes(t, Handles(t)) = HandleBytes(s, Handles(s)) + PayloadBytes(prompt)
  <2>1. Handles(t) \ {s.next} = Handles(s) /\ {s.next} \in SUBSET Handles(t)
    BY <1>0, <1>2
  <2>2. Measured(t, Handles(t)) /\ Measured(t, {s.next})
    BY <1>3, <2>1, ProperMeasured
  <2>3. HandleBytes(t, Handles(t)) = HandleBytes(t, {s.next}) + HandleBytes(t, Handles(s))
    BY <2>1, <2>2, BytesSplit
  <2>4. HandleBytes(t, {s.next}) = PayloadBytes(prompt)
    BY <1>2, <2>2, BytesOfOne
  <2>5. HandleBytes(t, Handles(s)) = HandleBytes(s, Handles(s))
    BY <1>2, BytesSame
  <2>6. Measured(s, Handles(s))
    BY ProperMeasured
  <2>7. HandleBytes(s, Handles(s)) \in Nat /\ HandleBytes(t, {s.next}) \in Nat
    BY <2>2, <2>6, CellsFinite
  <2>8. QED
    BY <2>3, <2>4, <2>5, <2>7
<1>5. QED
  BY <1>0, <1>1, <1>2, <1>3, <1>4 DEF t

(* A capture reclaims in order, and what it then stores exceeds the limit  *)
(* by no more than its own checkpoints.                                    *)
LEMMA CaptureFollows ==
    ASSUME NEW s, Proper(s), s.next <= MaxHandle, NEW expected,
           NEW outcome \in CaptureOutcomes(s, expected)
    PROVE  Follows(s, outcome.server) /\ TakesOldest(s, outcome.server)
<1> DEFINE kept  == Without(s, Reclaimed(s))
           taken == Stored(kept, s.slot)
<1>1. \/ outcome.server = s
      \/ /\ s.slot # None /\ ~(HandleBytes(s, Unused(s)) < Deficit(s))
         /\ outcome.server \in {kept, taken}
  BY DEF CaptureOutcomes, Accept, Refuse
<1>2. CASE outcome.server = s
  BY <1>2, SameFollows
<1>3. CASE /\ s.slot # None /\ ~(HandleBytes(s, Unused(s)) < Deficit(s))
           /\ outcome.server \in {kept, taken}
  <2>1. s.slot \in Prompts
    BY <1>3 DEF Proper
  <2>2. Reclaimed(s) \in SUBSET Handles(s)
    BY DEF Reclaimed, Unused
  <2>3. /\ Proper(kept) /\ Handles(kept) = Handles(s) \ Reclaimed(s)
        /\ \A h \in Handles(kept) : kept.states[h] = s.states[h]
        /\ kept.epoch = s.epoch /\ kept.next = s.next /\ kept.slot = s.slot
        /\ HandleBytes(kept, Handles(kept)) = HandleBytes(s, Handles(s) \ Reclaimed(s))
        /\ Bounded(s) => Bounded(kept)
    BY WithoutSafe
  <2> HIDE DEF kept
  <2>4. /\ Proper(taken)
        /\ Handles(taken) = Handles(kept) \cup {s.next} /\ s.next \notin Handles(kept)
        /\ taken.epoch = s.epoch /\ taken.next = s.next + 1 /\ taken.slot = s.slot
        /\ \A h \in Handles(kept) : taken.states[h] = kept.states[h]
        /\ taken.states[s.next].prompt = s.slot
        /\ HandleBytes(taken, Handles(taken))
              = HandleBytes(kept, Handles(kept)) + PayloadBytes(s.slot)
    <3>1. kept.next <= MaxHandle
      BY <2>3
    <3>2. /\ Proper(taken)
          /\ Handles(taken) = Handles(kept) \cup {kept.next} /\ kept.next \notin Handles(kept)
          /\ taken.epoch = kept.epoch /\ taken.next = kept.next + 1
          /\ taken.slot = kept.slot
          /\ \A h \in Handles(kept) : taken.states[h] = kept.states[h]
          /\ taken.states[kept.next].prompt = s.slot
          /\ HandleBytes(taken, Handles(taken))
                = HandleBytes(kept, Handles(kept)) + PayloadBytes(s.slot)
      BY <2>1, <2>3, <3>1, StoredSafe
    <3> HIDE DEF taken
    <3>3. QED
      BY <2>3, <3>2
  <2> HIDE DEF taken
  <2>5. s.next \in Nat /\ s.next \notin Handles(s)
    BY BoundsAssumption DEF Proper
  <2>6. Bounded(taken)
    <3>1. SUFFICES ASSUME RamLimit # None
                   PROVE  HandleBytes(taken, Handles(taken))
                             <= RamLimit + CheckpointBytes[taken.states[s.next].prompt]
      BY <2>4 DEF Bounded
    <3>2. HandleBytes(kept, Handles(kept)) + StateBytes[s.slot] <= RamLimit
      BY <1>3, <2>1, <2>3, <3>1, ReclaimSuffices
    <3>3. /\ PayloadBytes(s.slot) = StateBytes[s.slot] + CheckpointBytes[s.slot]
          /\ StateBytes[s.slot] \in Nat /\ CheckpointBytes[s.slot] \in Nat
          /\ RamLimit \in Nat
      BY <2>1, <3>1, ServerAssumption DEF PayloadBytes
    <3>4. Measured(kept, Handles(kept))
      BY <2>3, ProperMeasured
    <3>5. HandleBytes(kept, Handles(kept)) \in Nat
      BY <3>4, CellsFinite
    <3>6. QED
      BY <2>4, <3>2, <3>3, <3>5
  <2>7. Follows(s, kept)
    BY <2>3 DEF Follows
  <2>8. Follows(s, taken)
    BY <1>3, <2>3, <2>4, <2>5, <2>6 DEF Follows
  <2>9. /\ Handles(s) \ Handles(kept) = Reclaimed(s)
        /\ Handles(s) \ Handles(taken) = Reclaimed(s)
    BY <2>2, <2>3, <2>4, <2>5
  <2>10. TakesOldest(s, kept) /\ TakesOldest(s, taken)
    BY <2>1, <2>9, ReclaimInOrder DEF TakesOldest
  <2>11. QED
    BY <1>3, <2>7, <2>8, <2>10
<1>4. QED
  BY <1>1, <1>2, <1>3

(* So does every request, in any epoch.                                    *)
LEMMA ExecuteFollows ==
    ASSUME NEW s, Proper(s), NEW request \in Request,
           request.action = "capture" => s.next <= MaxHandle,
           NEW outcome \in Execute(s, request)
    PROVE  /\ Follows(s, outcome.server)
           /\ request.action = "capture" => TakesOldest(s, outcome.server)
<1>1. CASE request.epoch # s.epoch
  BY <1>1, SameFollows DEF Execute, Refuse
<1>2. CASE request.epoch = s.epoch
  <2>1. request.action \in {"clear", "capture", "restore", "drop"}
    BY DEF Request
  <2>2. CASE request.action = "clear"
    <3>1. outcome.server = [s EXCEPT !.slot = None]
      BY <1>2, <2>2 DEF Execute, ClearOutcomes, Accept
    <3>2. QED
      BY <2>2, <3>1, SlotFollows
  <2>3. CASE request.action = "drop"
    <3>1. outcome \in DropOutcomes(s, request.handle)
      BY <1>2, <2>3 DEF Execute
    <3>2. QED
      BY <2>3, <3>1, DropFollows
  <2>4. CASE request.action = "capture"
    <3>1. outcome \in CaptureOutcomes(s, request.prompt)
      BY <1>2, <2>4 DEF Execute
    <3>2. QED
      BY <2>4, <3>1, CaptureFollows
  <2>5. CASE request.action = "restore"
    <3>1. outcome \in RestoreOutcomes(s, request.handle)
      BY <1>2, <2>5 DEF Execute
    <3>2. QED
      BY <2>5, <3>1, RestoreFollows
  <2>6. QED
    BY <2>1, <2>2, <2>3, <2>4, <2>5
<1>3. QED
  BY <1>1, <1>2

-----------------------------------------------------------------------------
(* The machine.                                                            *)

StoreInv ==
    /\ Proper(server)
    /\ Bounded(server)
    /\ busy \in BOOLEAN
    /\ deferred \subseteq Request

(* A model load starts with an empty store.                                *)
LEMMA LoadedSafe ==
    ASSUME NEW epoch \in Epochs
    PROVE  Proper(Loaded(epoch)) /\ Bounded(Loaded(epoch))
<1> DEFINE t == Loaded(epoch)
<1>1. /\ DOMAIN t = {"epoch", "states", "next", "slot"}
      /\ t.epoch = epoch /\ t.states = <<>> /\ t.next = 1 /\ t.slot = None
  BY DEF Loaded
<1> HIDE DEF t
<1>2. Handles(t) = {}
  BY <1>1 DEF Handles
<1>3. t.states \in [Handles(t) -> State]
  BY <1>1, <1>2
<1>4. Proper(t)
  BY <1>1, <1>2, <1>3, BoundsAssumption DEF Proper
<1>5. HandleBytes(t, Handles(t)) = 0
  <2>1. HandleBytes(t, {}) = Cardinality({})
    BY DEF HandleBytes
  <2>2. QED
    BY <1>2, <2>1, FS_EmptySet
<1>6. Bounded(t)
  BY <1>5, ServerAssumption DEF Bounded
<1>7. QED
  BY <1>4, <1>6 DEF t

(* A request that runs leaves a store that follows from the one before it. *)
LEMMA RunFollows ==
    ASSUME StoreInv, NEW request \in Request, Run(request),
           request.action = "capture" => server.next <= MaxHandle
    PROVE  /\ Follows(server, server')
           /\ last'.request.action = "capture" => TakesOldest(server, server')
<1>1. PICK outcome \in Execute(server, request) :
         /\ server' = outcome.server
         /\ last' = [request |-> request, reply |-> outcome.reply]
  BY DEF Run
<1>2. last'.request = request
  BY <1>1
<1>3. QED
  BY <1>1, <1>2, ExecuteFollows DEF StoreInv

(* Every step keeps the invariant, and unless it loads the model anew the  *)
(* store after it follows from the store before it.                        *)
LEMMA StepFollows ==
    ASSUME StoreInv, [Next]_vars
    PROVE  /\ StoreInv'
           /\ \/ Load
              \/ /\ Follows(server, server')
                 /\ last'.request.action = "capture" => TakesOldest(server, server')
<1> USE DEF StoreInv
<1>1. CASE UNCHANGED vars
  BY <1>1, SameFollows DEF vars, Proper, Bounded
<1>2. ASSUME NEW request \in Request, Post(request)
      PROVE  /\ StoreInv'
             /\ \/ Load
                \/ /\ Follows(server, server')
                   /\ last'.request.action = "capture" => TakesOldest(server, server')
  <2>1. CASE UNCHANGED server /\ deferred' = deferred \cup {request} /\ UNCHANGED busy
    BY <1>2, <2>1, SameFollows DEF Proper, Bounded
  <2>2. CASE Run(request) /\ UNCHANGED deferred /\ UNCHANGED busy
    <3>1. /\ Follows(server, server')
          /\ last'.request.action = "capture" => TakesOldest(server, server')
      BY <1>2, <2>2, RunFollows DEF Post
    <3>2. QED
      BY <2>2, <3>1 DEF Follows
  <2>3. QED
    BY <1>2, <2>1, <2>2 DEF Post
<1>3. CASE StartCompletion
  BY <1>3, SameFollows DEF StartCompletion, Proper, Bounded
<1>4. ASSUME NEW prompt \in Prompts, FinishCompletion(prompt)
      PROVE  /\ StoreInv'
             /\ \/ Load
                \/ /\ Follows(server, server')
                   /\ last'.request.action = "capture" => TakesOldest(server, server')
  <2>1. Follows(server, server') /\ TakesOldest(server, server')
    BY <1>4, SlotFollows DEF FinishCompletion, Completed
  <2>2. QED
    BY <1>4, <2>1 DEF FinishCompletion, Follows
<1>5. ASSUME NEW request \in deferred, RunDeferred(request)
      PROVE  /\ StoreInv'
             /\ \/ Load
                \/ /\ Follows(server, server')
                   /\ last'.request.action = "capture" => TakesOldest(server, server')
  <2>1. /\ Follows(server, server')
        /\ last'.request.action = "capture" => TakesOldest(server, server')
    BY <1>5, RunFollows DEF RunDeferred
  <2>2. QED
    BY <1>5, <2>1 DEF RunDeferred, Follows
<1>6. CASE Load
  <2>1. server.epoch + 1 \in Epochs /\ server.epoch + 1 # server.epoch
    BY <1>6, BoundsAssumption DEF Load, Epochs, Proper
  <2>2. Proper(server') /\ Bounded(server') /\ server'.epoch = server.epoch + 1
    BY <1>6, <2>1, LoadedSafe DEF Load, Loaded
  <2>3. QED
    BY <1>6, <2>1, <2>2 DEF Load
<1>7. QED
  BY <1>1, <1>2, <1>3, <1>4, <1>5, <1>6 DEF Next

(* The invariant holds in every reachable state.                           *)
LEMMA StoreInvariant == Spec => []StoreInv
<1>1. Init => StoreInv
  <2>1. 1 \in Epochs
    BY BoundsAssumption DEF Epochs
  <2>2. QED
    BY <2>1, LoadedSafe DEF Init, StoreInv
<1>2. StoreInv /\ [Next]_vars => StoreInv'
  BY StepFollows
<1>3. QED
  BY <1>1, <1>2, PTL DEF Spec

(* Whatever is requested, completed or deferred, the RAM limit is exceeded *)
(* by no more than the checkpoints of one state in the store.              *)
THEOREM StoreSoundness == Spec => []StoreSound
<1>1. StoreInv => StoreSound
  <2>1. StoreInv => TypeOK
    BY DEF StoreInv, Proper, State, TypeOK
  <2>2. StoreInv => RamWithinOneOverrun
    BY DEF StoreInv, Bounded, StoreBytes, RamWithinOneOverrun
  <2>3. QED
    BY <2>1, <2>2 DEF StoreSound
<1>2. QED
  BY <1>1, StoreInvariant, PTL

(* A capture takes only states nobody has restored, the oldest first, and  *)
(* none of them without need.                                              *)
THEOREM ReclaimGoesByAge == Spec => ReclaimsOldestUnused
<1>1. ASSUME StoreInv, [Next]_vars
      PROVE  SameLoad /\ last'.request.action = "capture" =>
                \A h \in Gone :
                    /\ ~server.states[h].restored
                    /\ \A u \in Unused(server) : u < h => u \in Gone
                    /\ (\A f \in Gone : f <= h)
                          => HandleBytes(server, (Handles(server) \ Gone) \cup {h})
                               + StateBytes[server.slot] > RamLimit
  <2>1. ~SameLoad \/ (last'.request.action = "capture" => TakesOldest(server, server'))
    <3>1. Load => ~SameLoad
      BY <1>1, BoundsAssumption DEF Load, Loaded, SameLoad, StoreInv, Proper, Epochs
    <3>2. QED
      BY <1>1, <3>1, StepFollows
  <2>2. QED
    BY <2>1 DEF TakesOldest, Gone
<1>2. QED
  BY <1>1, StoreInvariant, PTL DEF Spec, ReclaimsOldestUnused

(* A store that follows from another is a step of the promised store.      *)
LEMMA FollowsPromise ==
    ASSUME StoreInv, Follows(server, server')
    PROVE  [Promised!Next]_Promised!Contents
<1> DEFINE given    == 1 .. server.next - 1
           kept     == [h \in Handles(server) |-> server.states[h].prompt]
           keptNext == [h \in Handles(server') |-> server'.states[h].prompt]
<1>1. /\ Proper(server) /\ Proper(server')
      /\ server.next \in 1 .. MaxHandle + 1 /\ server'.next \in 1 .. MaxHandle + 1
      /\ Handles(server) \subseteq given /\ MaxHandle \in Nat
      /\ server'.slot \in Prompts \cup {None}
      /\ server'.epoch = server.epoch
      /\ \A h \in Handles(server') \cap Handles(server) :
            server'.states[h].prompt = server.states[h].prompt
  BY BoundsAssumption DEF Follows, StoreInv, Proper
<1>2. CASE server'.next = server.next /\ Handles(server') = Handles(server)
  <2>1. keptNext = kept
    BY <1>1, <1>2
  <2>2. Promised!Fill
    BY <1>1, <1>2, <2>1 DEF Promised!Fill
  <2>3. QED
    BY <2>2 DEF Promised!Next
<1>3. CASE /\ server'.next = server.next /\ Handles(server') \subseteq Handles(server)
           /\ server'.slot = server.slot
  <2>0. PICK gone : gone = Handles(server) \ Handles(server')
    OBVIOUS
  <2>1. DOMAIN kept \ gone = Handles(server') /\ gone \in SUBSET DOMAIN kept
    BY <1>3, <2>0
  <2>2. keptNext = [h \in DOMAIN kept \ gone |-> kept[h]]
    BY <1>1, <1>3, <2>1
  <2>3. Promised!Lose(gone)
    BY <1>1, <1>3, <2>2 DEF Promised!Lose
  <2>4. QED
    BY <2>1, <2>3 DEF Promised!Next
<1>4. CASE /\ server'.next = server.next + 1
           /\ server.next \in Handles(server')
           /\ Handles(server') \ {server.next} \subseteq Handles(server)
           /\ server'.states[server.next].prompt = server.slot
           /\ server.slot # None /\ server'.slot = server.slot
  <2> DEFINE id == server.next
  <2>0. PICK gone : gone = Handles(server) \ Handles(server')
    OBVIOUS
  <2>1. /\ id \in 1 .. MaxHandle /\ id \notin given /\ id \notin Handles(server)
        /\ 1 .. server'.next - 1 = given \cup {id}
    BY <1>1, <1>4
  <2>2. (DOMAIN kept \ gone) \cup {id} = Handles(server') /\ gone \in SUBSET DOMAIN kept
    BY <1>4, <2>0
  <2>3. keptNext = [h \in (DOMAIN kept \ gone) \cup {id} |->
                       IF h = id THEN server.slot ELSE kept[h]]
    BY <1>1, <1>4, <2>1, <2>2
  <2>4. Promised!Keep(id, gone)
    BY <1>1, <1>4, <2>1, <2>3 DEF Promised!Keep
  <2>5. QED
    BY <2>1, <2>2, <2>4 DEF Promised!Next
<1>5. QED
  BY <1>2, <1>3, <1>4 DEF Follows

(* The store implements the store its clients are promised: a handle means *)
(* one prompt while the model stays loaded, and is never given out twice.  *)
THEOREM StoreKeepsItsPromise == Spec => KeepsItsPromise
<1>1. Init => Promised!Init
  <2>1. ASSUME Init
        PROVE  /\ server.epoch = 1 /\ server.slot = None
               /\ [h \in Handles(server) |-> server.states[h].prompt] = [h \in {} |-> None]
               /\ 1 .. server.next - 1 = {}
    BY <2>1 DEF Init, Loaded, Handles
  <2>2. QED
    BY <2>1 DEF Promised!Init, Promised!Contents, Promised!Empty
<1>2. ASSUME StoreInv, [Next]_vars
      PROVE  [Promised!Next]_Promised!Contents
  <2>1. CASE Load
    <3>1. /\ server'.epoch = server.epoch + 1 /\ server'.slot = None
          /\ [h \in Handles(server') |-> server'.states[h].prompt] = [h \in {} |-> None]
          /\ 1 .. server'.next - 1 = {}
      BY <2>1 DEF Load, Loaded, Handles
    <3>2. Promised!Load
      BY <3>1 DEF Promised!Load, Promised!Contents, Promised!Empty
    <3>3. QED
      BY <3>2 DEF Promised!Next
  <2>2. QED
    BY <1>2, <2>1, StepFollows, FollowsPromise
<1>3. QED
  BY <1>1, <1>2, StoreInvariant, PTL DEF Spec, KeepsItsPromise, Promised!Spec
===============================================================================
