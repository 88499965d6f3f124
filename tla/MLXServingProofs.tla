--------------------------- MODULE MLXServingProofs ---------------------------
(***************************************************************************)
(* Safety of the MLX facade under interleaved requests, for every set of   *)
(* requests, labels and chat prompts and every capacity: the storage       *)
(* mirrors the policy, what is reused is the state of the very tokens it   *)
(* is reused for, and a hybrid model keeps one active tail per lineage.    *)
(***************************************************************************)
EXTENDS MLXServing, PolicyOpsProofs

Space(domain) == CacheNamespace("model", domain)

-----------------------------------------------------------------------------
(* Prefixes.                                                               *)

(* The first m elements and those that follow them, up to the n-th.        *)
LEMMA AdjacentParts ==
    ASSUME NEW T, NEW s \in Seq(T), NEW m \in 0 .. Len(s), NEW n \in m .. Len(s)
    PROVE  /\ SubSeq(s, 1, m) \o SubSeq(s, m + 1, n) = SubSeq(s, 1, n)
           /\ SubSeq(s, m + 1, n) \in Seq(T)
           /\ Len(SubSeq(s, m + 1, n)) = n - m
OBVIOUS

(* The whole of a sequence is its own part.                                *)
LEMMA WholePart ==
    ASSUME NEW T, NEW s \in Seq(T)
    PROVE  SubSeq(s, 1, Len(s)) = s /\ Len(s) \in Nat
OBVIOUS

(* The first n elements of a sequence, and the rest of it.                 *)
LEMMA FrontAndRest ==
    ASSUME NEW T, NEW s \in Seq(T), NEW n \in 0 .. Len(s)
    PROVE  /\ SubSeq(s, 1, n) \in Seq(T)
           /\ Len(SubSeq(s, 1, n)) = n
           /\ \A i \in 1 .. n : SubSeq(s, 1, n)[i] = s[i]
           /\ Suffix(s, n) \in Seq(T)
           /\ Len(Suffix(s, n)) = Len(s) - n
           /\ SubSeq(s, 1, n) \o Suffix(s, n) = s
<1>1. Len(s) \in n .. Len(s)
  OBVIOUS
<1>2. /\ SubSeq(s, 1, n) \in Seq(T)
      /\ Len(SubSeq(s, 1, n)) = n
      /\ \A i \in 1 .. n : SubSeq(s, 1, n)[i] = s[i]
  OBVIOUS
<1>3. /\ SubSeq(s, 1, n) \o SubSeq(s, n + 1, Len(s)) = SubSeq(s, 1, Len(s))
      /\ SubSeq(s, n + 1, Len(s)) \in Seq(T)
      /\ Len(SubSeq(s, n + 1, Len(s))) = Len(s) - n
  BY <1>1, AdjacentParts, Zenon
<1>4. SubSeq(s, 1, Len(s)) = s
  BY WholePart
<1>5. QED
  BY <1>2, <1>3, <1>4, Zenon DEF Suffix

(* Sequences with the same elements are the same.                          *)
LEMMA SameSeq ==
    ASSUME NEW T, NEW s \in Seq(T), NEW t \in Seq(T), Len(s) = Len(t),
           \A i \in 1 .. Len(s) : s[i] = t[i]
    PROVE  s = t
OBVIOUS

(* The elements of two sequences one after the other.                      *)
LEMMA Joined ==
    ASSUME NEW T, NEW s \in Seq(T), NEW t \in Seq(T)
    PROVE  /\ s \o t \in Seq(T) /\ Len(s \o t) = Len(s) + Len(t)
           /\ \A i \in 1 .. Len(s) + Len(t) :
                 (s \o t)[i] = IF i <= Len(s) THEN s[i] ELSE t[i - Len(s)]
OBVIOUS

(* The last element is what follows all the others.                        *)
LEMMA LastPart ==
    ASSUME NEW T, NEW s \in Seq(T), Len(s) >= 2
    PROVE  Suffix(s, Len(s) - 1) = <<s[Len(s)]>>
<1> DEFINE x == s[Len(s)]
           u == SubSeq(s, Len(s), Len(s))
<1>1. x \in T /\ Len(s) \in Nat
  OBVIOUS
<1>2. u \in Seq(T) /\ Len(u) = 1 /\ u[1] = x
  BY <1>1
<1>3. <<x>> \in Seq(T) /\ Len(<<x>>) = 1 /\ <<x>>[1] = x
  BY <1>1
<1>4. (Len(s) - 1) + 1 = Len(s)
  BY <1>1
<1>5. u = <<x>>
  <2> HIDE DEF x, u
  <2>1. QED
    BY <1>2, <1>3, SameSeq
<1>6. QED
  BY <1>4, <1>5, Zenon DEF Suffix
(* What follows a front of the sequence without its last element.           *)
LEMMA RestOfFront ==
    ASSUME NEW T, NEW s \in Seq(T), Len(s) >= 2, NEW n \in 0 .. Len(s) - 1
    PROVE  Suffix(SubSeq(s, 1, Len(s) - 1), n) \o <<s[Len(s)]>> = Suffix(s, n)
<1> DEFINE x == s[Len(s)]
           f == SubSeq(s, 1, Len(s) - 1)
           u == SubSeq(f, n + 1, Len(s) - 1)
           v == SubSeq(s, n + 1, Len(s))
<1>1. x \in T /\ Len(s) \in Nat /\ f \in Seq(T) /\ Len(f) = Len(s) - 1
      /\ \A i \in 1 .. Len(s) - 1 : f[i] = s[i]
  OBVIOUS
<1>2. v \in Seq(T) /\ Len(v) = Len(s) - n /\ \A i \in 1 .. Len(s) - n : v[i] = s[n + i]
  BY <1>1
<1>3. u \in Seq(T) /\ Len(u) = Len(s) - 1 - n /\ \A i \in 1 .. Len(s) - 1 - n : u[i] = s[n + i]
  <2> HIDE DEF f
  <2>1. QED
    BY <1>1
<1>6. x = s[Len(s)]
   OBVIOUS
<1> HIDE DEF x, u, v
<1>4. u \o <<x>> \in Seq(T) /\ Len(u \o <<x>>) = Len(s) - n
       /\ \A i \in 1 .. Len(s) - n : (u \o <<x>>)[i] = s[n + i]
  <2> DEFINE w == <<x>>
  <2>1. w \in Seq(T) /\ Len(w) = 1 /\ w[1] = s[Len(s)]
    BY <1>1, <1>6
  <2> HIDE DEF w, f
  <2>2. /\ u \o w \in Seq(T) /\ Len(u \o w) = Len(u) + 1
        /\ \A i \in 1 .. Len(u) + 1 : (u \o w)[i] = IF i <= Len(u) THEN u[i] ELSE w[i - Len(u)]
    <3>1. /\ u \o w \in Seq(T) /\ Len(u \o w) = Len(u) + Len(w)
          /\ \A i \in 1 .. Len(u) + Len(w) :
                 (u \o w)[i] = IF i <= Len(u) THEN u[i] ELSE w[i - Len(u)]
      <4>1. u \in Seq(T) /\ w \in Seq(T)
        BY <1>3, <2>1
      <4>2. QED
        BY <4>1, Joined, Zenon
    <3>2. Len(w) = 1
      BY <2>1
    <3>3. QED
      BY <3>1, <3>2, Zenon
  <2>3. Len(u) + 1 = Len(s) - n
    BY <1>1, <1>3
  <2>4. ASSUME NEW i \in 1 .. Len(s) - n PROVE (u \o w)[i] = s[n + i]
    <3>1. CASE i <= Len(u)
      BY <1>1, <1>3, <2>2, <2>3, <3>1
    <3>2. CASE ~(i <= Len(u))
      <4>1. i - Len(u) = 1 /\ n + i = Len(s)
        BY <1>1, <1>3, <2>3, <3>2
      <4>2. QED
        BY <2>1, <2>2, <2>3, <3>2, <4>1
    <3>3. QED
      BY <3>1, <3>2
  <2>5. QED
    BY <2>2, <2>3, <2>4 DEF w
<1>5. u \o <<x>> = v
  BY <1>2, <1>4, SameSeq
<1>7. Suffix(f, n) = u /\ Suffix(s, n) = v
  <2> HIDE DEF f
  <2>1. QED
    BY <1>1, Zenon DEF Suffix, u, v
<1>8. QED
  BY <1>5, <1>7, Zenon DEF x

(* A front of a front is a front.                                          *)
LEMMA FrontOfFront ==
    ASSUME NEW T, NEW s \in Seq(T), NEW n \in 0 .. Len(s), NEW m \in 0 .. n
    PROVE  SubSeq(SubSeq(s, 1, n), 1, m) = SubSeq(s, 1, m)
OBVIOUS

(* Two fronts of one sequence are told apart by their lengths.             *)
LEMMA StrictPrefixParts ==
    ASSUME NEW T, NEW s \in Seq(T), NEW t \in Seq(T)
    PROVE  IsStrictPrefix(s, t) <=> Len(s) < Len(t) /\ s = SubSeq(t, 1, Len(s))
<1>1. SubSeq(s, 1, Len(s)) = s /\ SubSeq(t, 1, Len(t)) = t
  BY WholePart
<1>2. Len(s) \in Nat /\ Len(t) \in Nat
  BY WholePart
<1>3. ASSUME IsStrictPrefix(s, t)
      PROVE  Len(s) < Len(t) /\ s = SubSeq(t, 1, Len(s))
  <2>1. Len(s) <= Len(t) /\ SubSeq(s, 1, Len(s)) = SubSeq(t, 1, Len(s)) /\ s # t
    BY <1>3 DEF IsStrictPrefix, IsPrefix
  <2>2. Len(s) # Len(t)
    BY <1>1, <2>1, Zenon
  <2>3. s = SubSeq(t, 1, Len(s))
    BY <1>1, <2>1, Zenon
  <2>4. \A m, n \in Nat : m <= n /\ m # n => m < n
    OBVIOUS
  <2>5. QED
    BY <1>2, <2>1, <2>2, <2>3, <2>4, Zenon
<1>4. ASSUME Len(s) < Len(t), s = SubSeq(t, 1, Len(s))
      PROVE  IsStrictPrefix(s, t)
  <2>1. Len(s) <= Len(t) /\ s # t
    BY <1>2, <1>4
  <2>2. QED
    BY <1>1, <1>4, <2>1 DEF IsStrictPrefix, IsPrefix
<1>5. QED
  BY <1>3, <1>4

(* Numbers below a bound are finitely many.                                *)
LEMMA NumbersBelow ==
    ASSUME NEW n \in Nat, NEW S \in SUBSET (0 .. n)
    PROVE  IsFiniteSet(S) /\ S \in SUBSET Nat
<1>1. IsFiniteSet(0 .. n)
  BY FS_Interval
<1>2. IsFiniteSet(S)
  BY <1>1, FS_Subset
<1>3. QED
  BY <1>2

(* The greatest of finitely many numbers.                                  *)
LEMMA GreatestNumber ==
    ASSUME NEW S \in SUBSET Nat, IsFiniteSet(S), S # {}
    PROVE  Max(S) \in S /\ \A n \in S : n <= Max(S)
<1> DEFINE R == {pair \in S \X S : pair[1] < pair[2]}
<1>1. /\ \A u \in S : <<u, u>> \notin R
      /\ \A u, v, w \in S : <<u, v>> \in R /\ <<v, w>> \in R => <<u, w>> \in R
  OBVIOUS
<1>2. \A u, v \in S : u < v => <<u, v>> \in R
  OBVIOUS
<1> HIDE DEF R
<1>3. PICK m \in S : \A u \in S : <<m, u>> \notin R
  BY <1>1, FiniteMaximal
<1>4. \A u \in S : m >= u
  <2>1. \A u \in S : ~(m < u)
    BY <1>2, <1>3
  <2>2. QED
    BY <2>1
<1>5. PICK g \in S : g = Max(S) /\ \A u \in S : g >= u
  BY <1>4 DEF Max
<1>6. QED
  BY <1>5

(* What the longest common prefix of two sequences is.                     *)
LEMMA CommonPrefix ==
    ASSUME NEW T, NEW s \in Seq(T), NEW t \in Seq(T)
    PROVE  LET n == Len(LongestCommonPrefix({s, t}))
           IN  /\ n \in Nat /\ n <= Len(s) /\ n <= Len(t)
               /\ SubSeq(s, 1, n) = SubSeq(t, 1, n)
<1> DEFINE C == CommonPrefixes({s, t})
           L == {Len(c) : c \in C}
<1>1. \A c \in C : /\ IsPrefix(c, s) /\ IsPrefix(c, t)
                   /\ Len(c) \in Nat
  <2>1. ASSUME NEW c \in C PROVE IsPrefix(c, s) /\ IsPrefix(c, t) /\ Len(c) \in Nat
    <3>1. PICK r \in {s, t} : c \in Prefixes(r)
      BY DEF CommonPrefixes
    <3>2. Len(c) \in Nat
      BY <3>1 DEF Prefixes
    <3>3. QED
      BY <3>2 DEF CommonPrefixes
  <2>2. QED
    BY <2>1
<1>2. C # {}
  <2>1. SubSeq(s, 1, 0) \in Prefixes(s)
    BY DEF Prefixes
  <2>2. IsPrefix(SubSeq(s, 1, 0), s) /\ IsPrefix(SubSeq(s, 1, 0), t)
    BY DEF IsPrefix
  <2>3. SubSeq(s, 1, 0) \in C
    BY <2>1, <2>2 DEF CommonPrefixes
  <2>4. QED
    BY <2>3
<1> HIDE DEF C
<1>3. L \in SUBSET (0 .. Len(s)) /\ L # {} /\ Len(s) \in Nat
  <2>1. \A c \in C : Len(c) \in 0 .. Len(s)
    BY <1>1, WholePart DEF IsPrefix
  <2>2. QED
    BY <1>2, <2>1, WholePart, Zenon
<1> HIDE DEF L
<1>4. IsFiniteSet(L) /\ L \in SUBSET Nat
  BY <1>3, NumbersBelow
<1>5. Max(L) \in L /\ \A n \in L : n <= Max(L)
  BY <1>3, <1>4, GreatestNumber
<1>6. PICK c \in C : Len(c) = Max(L)
  BY <1>5 DEF L
<1>7. \A other \in C : Len(other) <= Len(c)
  BY <1>5, <1>6 DEF L
<1>8. LongestCommonPrefix({s, t}) \in C
  BY <1>7 DEF LongestCommonPrefix, C
<1>9. QED
  BY <1>1, <1>8 DEF IsPrefix

-----------------------------------------------------------------------------
(* What the storage serves.                                                *)

\* Every row holds the state of its key: of its tokens, in its namespace.
Authentic ==
    \A k \in DOMAIN rows :
        /\ rows[k].payload \in Payloads
        /\ k = KeyOf(Space(rows[k].payload.domain), rows[k].payload.tokens)

State(domain, tokens) == [domain |-> domain, tokens |-> tokens]

Served(domain, tokens, n) ==
    [cache |-> State(domain, SubSeq(tokens, 1, n)), rest |-> Suffix(tokens, n)]

Missed(tokens) == [cache |-> None, rest |-> tokens]

StoredIn(domain) == {k \in DOMAIN rows : k.namespace = Space(domain)}

StoredBefore(domain, tokens) == {k \in StoredIn(domain) : IsStrictPrefix(k.tokens, tokens)}

(* A stored key holds a state of its own domain and tokens.                *)
LEMMA StoredState ==
    ASSUME Authentic, NEW domain, NEW k \in StoredIn(domain)
    PROVE  /\ k = KeyOf(Space(domain), k.tokens)
           /\ k.tokens \in Seq(Tokens)
           /\ rows[k].payload = State(domain, k.tokens)
           /\ \A t : [rows[k].payload EXCEPT !.tokens = t] = State(domain, t)
<1> DEFINE payload == rows[k].payload
<1>1. payload \in Payloads /\ k = KeyOf(Space(payload.domain), payload.tokens)
  BY DEF Authentic, StoredIn
<1> HIDE DEF payload
<1>2. k.namespace = Space(payload.domain) /\ k.tokens = payload.tokens
  BY <1>1 DEF KeyOf
<1>3. payload.domain = domain
  BY <1>2 DEF StoredIn, Space, CacheNamespace
<1>4. payload = State(domain, k.tokens) /\ k.tokens \in Seq(Tokens)
  BY <1>1, <1>2, <1>3 DEF Payloads, State
<1>5. \A t : [payload EXCEPT !.tokens = t] = State(domain, t)
  BY <1>4 DEF State
<1>6. QED
  BY <1>1, <1>3, <1>4, <1>5, <1>2 DEF payload

(* The deepest stored prefix is one of them, or there is none.             *)
LEMMA DeepestPrefix ==
    ASSUME Authentic, NEW domain, NEW tokens \in Seq(Tokens)
    PROVE  LET shorter == StoredBefore(domain, tokens)
               deepest == Max({0} \cup {Len(k.tokens) : k \in shorter})
           IN  /\ deepest \in Nat
               /\ \A k \in shorter : Len(k.tokens) <= deepest
               /\ shorter # {} => \E k \in shorter :
                     /\ k = KeyOf(Space(domain), SubSeq(tokens, 1, deepest))
                     /\ Len(k.tokens) = deepest
                     /\ deepest < Len(tokens)
<1> DEFINE shorter == StoredBefore(domain, tokens)
           lengths == {0} \cup {Len(k.tokens) : k \in shorter}
           deepest == Max(lengths)
<1>1. \A k \in shorter : /\ k \in StoredIn(domain)
                         /\ k = KeyOf(Space(domain), k.tokens)
                         /\ k.tokens \in Seq(Tokens)
                         /\ Len(k.tokens) \in Nat /\ Len(k.tokens) < Len(tokens)
                         /\ k.tokens = SubSeq(tokens, 1, Len(k.tokens))
  BY StoredState, StrictPrefixParts DEF StoredBefore
<1>2. lengths \in SUBSET (0 .. Len(tokens)) /\ lengths # {}
  BY <1>1
<1>3. Len(tokens) \in Nat
  OBVIOUS
<1> HIDE DEF shorter
<1>4. IsFiniteSet(lengths) /\ lengths \in SUBSET Nat
  <2> HIDE DEF lengths
  <2>1. QED
    BY <1>2, <1>3, NumbersBelow
<1>5. deepest \in lengths /\ \A n \in lengths : n <= deepest
  <2> HIDE DEF lengths
  <2>1. QED
    BY <1>2, <1>4, GreatestNumber
<1>6. ASSUME shorter # {}
      PROVE  \E k \in shorter : /\ k = KeyOf(Space(domain), SubSeq(tokens, 1, deepest))
                                /\ Len(k.tokens) = deepest
                                /\ deepest < Len(tokens)
  <2> HIDE DEF deepest
  <2>1. CASE deepest = 0
    <3>1. PICK k \in shorter : TRUE
      BY <1>6
    <3>2. Len(k.tokens) = 0
      BY <1>1, <1>5, <2>1
    <3>3. QED
      BY <1>1, <2>1, <3>2
  <2>2. CASE deepest # 0
    BY <1>1, <1>5, <2>2
  <2>3. QED
    BY <2>1, <2>2
<1>7. QED
  BY <1>4, <1>5, <1>6 DEF shorter

(* fetch_nearest_cache serves the state of a prefix of the tokens in the   *)
(* domain they were asked for in, and all of them only when their own key  *)
(* is stored. Without trimming it serves the longest stored prefix.        *)
LEMMA NearestServes ==
    ASSUME Authentic, NEW domain, NEW tokens \in Seq(Tokens)
    PROVE  LET found == Nearest(Space(domain), tokens)
           IN  \/ /\ found = Missed(tokens)
                  /\ StoredBefore(domain, tokens) = {}
               \/ /\ found = Served(domain, tokens, Len(tokens))
                  /\ KeyOf(Space(domain), tokens) \in DOMAIN rows
               \/ \E n \in 0 .. Len(tokens) - 1 :
                     /\ found = Served(domain, tokens, n)
                     /\ ~trimmable => \E k \in StoredBefore(domain, tokens) :
                           /\ Len(k.tokens) = n
                           /\ \A j \in StoredBefore(domain, tokens) : Len(j.tokens) <= n
<1> DEFINE stored    == StoredIn(domain)
           shared(k) == Len(LongestCommonPrefix({k.tokens, tokens}))
           shorter   == StoredBefore(domain, tokens)
           deepest   == Max({0} \cup {Len(k.tokens) : k \in shorter})
           longer    == {k \in stored : trimmable /\ Len(k.tokens) > shared(k)
                                                  /\ shared(k) > deepest}
           served(k, n) ==
               [cache |-> [rows[k].payload EXCEPT !.tokens = SubSeq(@, 1, n)],
                rest |-> Suffix(tokens, n)]
           best      == CHOOSE k \in longer : \A j \in longer : shared(j) <= shared(k)
           found     == Nearest(Space(domain), tokens)
<1>1. ASSUME NEW k \in stored, NEW n \in 0 .. Len(tokens),
             SubSeq(k.tokens, 1, n) = SubSeq(tokens, 1, n)
      PROVE  served(k, n) = Served(domain, tokens, n)
  <2>1. rows[k].payload = State(domain, k.tokens)
    BY StoredState
  <2>2. [State(domain, k.tokens) EXCEPT !.tokens = SubSeq(@, 1, n)]
           = State(domain, SubSeq(k.tokens, 1, n))
    BY DEF State
  <2>3. QED
    BY <1>1, <2>1, <2>2 DEF Served
<1>2. found = IF \E k \in stored : k.tokens = tokens
              THEN served(KeyOf(Space(domain), tokens), Len(tokens))
              ELSE IF longer # {} THEN served(best, Min({Len(tokens) - 1, shared(best)}))
              ELSE IF shorter # {}
              THEN served(KeyOf(Space(domain), SubSeq(tokens, 1, deepest)), deepest)
              ELSE Missed(tokens)
  BY Zenon DEF Nearest, StoredIn, StoredBefore, Missed
<1>3. CASE \E k \in stored : k.tokens = tokens
  <2>1. PICK k \in stored : k.tokens = tokens
    BY <1>3
  <2>2. k = KeyOf(Space(domain), tokens)
    BY <2>1, StoredState
  <2>3. found = served(k, Len(tokens))
    BY <1>2, <1>3, <2>2, Zenon
  <2>4. found = Served(domain, tokens, Len(tokens))
    <3> HIDE DEF found, served
    <3>1. QED
      BY <1>1, <2>1, <2>3
  <2>5. QED
    BY <2>1, <2>2, <2>4 DEF StoredIn
<1>4. CASE ~(\E k \in stored : k.tokens = tokens) /\ longer # {}
  <2>1. \A k \in stored : /\ k.tokens \in Seq(Tokens)
                          /\ shared(k) \in Nat /\ shared(k) <= Len(tokens)
                          /\ SubSeq(k.tokens, 1, shared(k)) = SubSeq(tokens, 1, shared(k))
                          /\ shared(k) <= Len(k.tokens)
    BY StoredState, CommonPrefix
  <2> HIDE DEF shared
  <2>2. best \in longer
    <3> DEFINE S == {shared(k) : k \in longer}
    <3>1. S \in SUBSET (0 .. Len(tokens)) /\ S # {}
      <4>1. \A k \in longer : shared(k) \in 0 .. Len(tokens)
        BY <2>1
      <4> HIDE DEF longer
      <4>2. QED
        BY <1>4, <4>1
    <3>2. Len(tokens) \in Nat
      OBVIOUS
    <3>3. Max(S) \in S /\ \A n \in S : n <= Max(S)
      <4> HIDE DEF S
      <4>1. QED
        BY <3>1, <3>2, NumbersBelow, GreatestNumber
    <3> HIDE DEF longer
    <3>4. PICK k \in longer : \A j \in longer : shared(j) <= shared(k)
      BY <3>3
    <3>5. QED
      BY <3>4
  <2>3. best \in stored /\ trimmable
    BY <2>2
  <2> HIDE DEF best
  <2> DEFINE n == Min({Len(tokens) - 1, shared(best)})
  <2>4. /\ shared(best) \in Nat /\ shared(best) > deepest
        /\ shared(best) <= Len(tokens)
    BY <2>1, <2>2
  <2>5. Len(tokens) - 1 \in Nat
    <3>1. deepest \in Nat
      BY DeepestPrefix
    <3>2. QED
      BY <2>4, <3>1
  <2>6. n \in 0 .. Len(tokens) - 1 /\ n <= shared(best)
    <3>1. CASE Len(tokens) - 1 <= shared(best)
      <4>1. n = Len(tokens) - 1
        BY <2>4, <2>5, <3>1 DEF Min
      <4>2. QED
        BY <2>5, <3>1, <4>1
    <3>2. CASE ~(Len(tokens) - 1 <= shared(best))
      <4>1. n = shared(best)
        BY <2>4, <2>5, <3>2 DEF Min
      <4>2. QED
        BY <2>4, <2>5, <3>2, <4>1
    <3>3. QED
      BY <3>1, <3>2
  <2> HIDE DEF n
  <2>7. SubSeq(best.tokens, 1, n) = SubSeq(tokens, 1, n)
    <3> DEFINE m == shared(best)
    <3>1. /\ best.tokens \in Seq(Tokens) /\ m \in 0 .. Len(best.tokens) /\ m \in 0 .. Len(tokens)
          /\ SubSeq(best.tokens, 1, m) = SubSeq(tokens, 1, m)
          /\ n \in 0 .. m
      BY <2>1, <2>3, <2>6
    <3> HIDE DEF m
    <3>2. QED
      BY <3>1, FrontOfFront
  <2>8. found = served(best, n)
    BY <1>2, <1>4, Zenon DEF n, best
  <2>9. found = Served(domain, tokens, n)
    <3> HIDE DEF found, served
    <3>1. n \in 0 .. Len(tokens)
      BY <2>6
    <3>2. QED
      BY <1>1, <2>3, <2>7, <2>8, <3>1
  <2>10. QED
    BY <2>3, <2>6, <2>9
<1>5. CASE /\ ~(\E k \in stored : k.tokens = tokens) /\ longer = {}
           /\ shorter # {}
  <2>1. /\ deepest \in Nat
        /\ \A k \in shorter : Len(k.tokens) <= deepest
    BY DeepestPrefix
  <2>2. PICK k \in shorter : /\ k = KeyOf(Space(domain), SubSeq(tokens, 1, deepest))
                             /\ Len(k.tokens) = deepest
                             /\ deepest < Len(tokens)
    BY <1>5, DeepestPrefix
  <2>3. k.tokens = SubSeq(tokens, 1, deepest) /\ k \in stored
    BY <2>2 DEF KeyOf, StoredBefore
  <2>4. found = served(k, deepest)
    BY <1>2, <1>5, <2>2, Zenon
  <2> HIDE DEF deepest
  <2>5. SubSeq(k.tokens, 1, deepest) = SubSeq(tokens, 1, deepest)
    BY <2>1, <2>2, <2>3
  <2>6. found = Served(domain, tokens, deepest)
    <3> HIDE DEF found, served
    <3>1. deepest \in 0 .. Len(tokens)
      BY <2>1, <2>2
    <3>2. QED
      BY <1>1, <2>3, <2>4, <2>5, <3>1
  <2>7. QED
    BY <2>1, <2>2, <2>6
<1>6. CASE /\ ~(\E k \in stored : k.tokens = tokens) /\ longer = {}
           /\ shorter = {}
  BY <1>2, <1>6, Zenon
<1>7. QED
  BY <1>3, <1>4, <1>5, <1>6

-----------------------------------------------------------------------------
(* The inductive invariant.                                                *)

ValidLabels == {label \in Labels : label = None \/ ValidDomain(label)}

Domains == {Domain(label) : label \in ValidLabels}

SessionState ==
    [pc : {"running"}, domain : Domains, prompt : Prompts, payload : Payloads,
     rest : Seq(Tokens), cached : Nat, left : SUBSET Nat, saved : BOOLEAN]

\* A running request goes on from the first `cached' tokens of its prompt.
Session(q) ==
    /\ q \in SessionState
    /\ q.cached < Len(q.prompt.tokens)
    /\ q.payload = State(q.domain, SubSeq(q.prompt.tokens, 1, q.cached))
    /\ q.rest = Suffix(q.prompt.tokens, q.cached)
    /\ q.left \subseteq {i \in DOMAIN q.prompt.ends : q.prompt.ends[i] > q.cached}

StorageInv ==
    /\ Coherent(policy) /\ WithinLimits(policy) /\ SingleStable(policy)
    /\ DOMAIN rows = Resident(policy)
    /\ \A k \in Resident(policy) :
          /\ rows[k].role = policy.entries[k].role
          /\ rows[k].nbytes = policy.entries[k].nbytes
    /\ Authentic

SessionsInv ==
    /\ DOMAIN requests = Requests
    /\ \A r \in Running : Session(requests[r])

ServingInv == StorageInv /\ SessionsInv

(* The prompts as the proofs use them.                                     *)
LEMMA PromptFacts ==
    ASSUME NEW prompt \in Prompts
    PROVE  /\ prompt.tokens \in Seq(Tokens)
           /\ Len(prompt.tokens) \in Nat /\ Len(prompt.tokens) >= 2
           /\ DOMAIN prompt.ends = 1 .. Len(prompt.ends)
           /\ Len(prompt.ends) \in Nat
           /\ \A i \in DOMAIN prompt.ends : /\ i \in Nat
                                            /\ prompt.ends[i] \in 1 .. Len(prompt.tokens)
                                            /\ prompt.types[i] \in Roles \ {"stable"}
           /\ \A i, j \in DOMAIN prompt.ends : i < j => prompt.ends[i] < prompt.ends[j]
           /\ \A i \in DOMAIN prompt.ends :
                 prompt.types[i] = "active" => Len(prompt.ends) = 1
<1> DEFINE tokens == prompt.tokens
           ends   == prompt.ends
<1>1. /\ tokens \in Seq(Range(tokens)) /\ Len(tokens) >= 2
      /\ ends \in Seq(1 .. Len(tokens))
      /\ \A i, j \in DOMAIN ends : i < j => ends[i] < ends[j]
      /\ prompt.types \in [DOMAIN ends -> Roles \ {"stable"}]
      /\ \A i \in DOMAIN ends : prompt.types[i] = "active" => Len(ends) = 1
  BY PromptsAssumption
<1>2. Range(tokens) \subseteq Tokens
  BY DEF Tokens
<1> HIDE DEF tokens, ends
<1>3. tokens \in Seq(Tokens) /\ Len(tokens) \in Nat
  BY <1>1, <1>2
<1>4. /\ DOMAIN ends = 1 .. Len(ends) /\ Len(ends) \in Nat
      /\ \A i \in DOMAIN ends : i \in Nat /\ ends[i] \in 1 .. Len(tokens)
  BY <1>1
<1>5. \A i \in DOMAIN ends : prompt.types[i] \in Roles \ {"stable"}
  BY <1>1
<1>6. QED
  BY <1>1, <1>3, <1>4, <1>5 DEF tokens, ends

(* What a request saves is stored under a key that can occur.              *)
LEMMA SavedKeys ==
    ASSUME NEW domain \in Domains, NEW prompt \in Prompts
    PROVE  /\ \A n \in 1 .. Len(prompt.tokens) :
                 KeyOf(Space(domain), SubSeq(prompt.tokens, 1, n)) \in Keys
           /\ \A token \in Generated :
                 KeyOf(Space(domain), Append(prompt.tokens, token)) \in Keys
<1>1. PICK label \in ValidLabels : domain = Domain(label)
  BY DEF Domains
<1>2. label \in Labels /\ (label = None \/ ValidDomain(label))
  BY DEF ValidLabels
<1>3. QED
  BY <1>1, <1>2, InputsAssumption, Zenon DEF Space

(* A state of a prompt's tokens in a valid domain is a payload.            *)
LEMMA StateIsPayload ==
    ASSUME NEW domain \in Domains, NEW tokens \in Seq(Tokens)
    PROVE  State(domain, tokens) \in Payloads /\ State(domain, tokens) # None
<1>1. domain \in {Domain(label) : label \in Labels}
  BY DEF Domains, ValidLabels
<1>2. State(domain, tokens) \in Payloads
  BY <1>1 DEF State, Payloads
<1>3. QED
  BY <1>2, InputsAssumption

(* Extracting the cache of a request at its n-th token gives the state of  *)
(* its first n tokens.                                                     *)
LEMMA EvaluatedState ==
    ASSUME NEW q, Session(q), NEW n \in q.cached .. Len(q.prompt.tokens)
    PROVE  Evaluated(q, n) = State(q.domain, SubSeq(q.prompt.tokens, 1, n))
<1> DEFINE tokens == q.prompt.tokens
           front  == SubSeq(tokens, 1, q.cached)
<1>1. /\ q.payload = State(q.domain, front)
      /\ q.cached \in Nat /\ q.cached < Len(tokens) /\ q.prompt \in Prompts
  BY DEF Session, SessionState
<1>2. tokens \in Seq(Tokens) /\ Len(tokens) \in Nat
  BY <1>1, PromptFacts
<1> HIDE DEF tokens
<1>3. q.cached \in 0 .. Len(tokens) /\ n \in q.cached .. Len(tokens)
  BY <1>1, <1>2 DEF tokens
<1>4. front \o SubSeq(tokens, q.cached + 1, n) = SubSeq(tokens, 1, n)
  BY <1>2, <1>3, AdjacentParts
<1>5. /\ q.payload.tokens = front
      /\ \A t : [q.payload EXCEPT !.tokens = t] = State(q.domain, t)
  BY <1>1 DEF State
<1>6. QED
  BY <1>1, <1>4, <1>5, Zenon DEF Evaluated, tokens

-----------------------------------------------------------------------------
(* Saving a cache. Every insertion of the facade plans on the policy as it *)
(* is, but for the probation state, and stores what it plans.              *)

\* plan stores payload under key, and can be committed to planned.
Sound(planned, plan, key, payload) ==
    /\ Coherent(planned) /\ WithinLimits(planned) /\ SingleStable(planned)
    /\ planned.entries = policy.entries /\ planned.buckets = policy.buckets
    /\ plan.accepted =>
          /\ Executable(planned, plan)
          /\ plan.key = key
          /\ plan.nbytes = NBytes(payload)

(* A sound plan that is applied keeps storage and policy together.         *)
LEMMA AdmitKeeps ==
    ASSUME StorageInv, NEW planned, NEW plan, NEW payload \in Payloads,
           Sound(planned, plan, KeyOf(Space(payload.domain), payload.tokens), payload),
           Admit(plan, planned, payload)
    PROVE  StorageInv'
<1> DEFINE key == KeyOf(Space(payload.domain), payload.tokens)
           row == [payload |-> payload, role |-> plan.role, nbytes |-> NBytes(payload)]
<1>1. Resident(planned) = Resident(policy)
  BY DEF Sound, Resident
<1>2. CASE ~plan.accepted
  <2>1. policy' = planned /\ rows' = rows
    BY <1>2 DEF Admit
  <2>2. QED
    BY <1>1, <2>1 DEF StorageInv, Sound, Authentic, Resident
<1>3. CASE plan.accepted
  <2> DEFINE evicted == DOMAIN plan.evictions
  <2>1. /\ policy' = Commit(planned, plan)
        /\ rows' = [k \in (DOMAIN rows \ evicted) \cup {plan.key} |->
                       IF k = plan.key THEN row ELSE rows[k]]
    BY <1>3 DEF Admit, StoredAfter
  <2>2. /\ Coherent(policy') /\ WithinLimits(policy') /\ SingleStable(policy')
        /\ Resident(policy') = (Resident(policy) \ evicted) \cup {plan.key}
        /\ policy'.entries[plan.key]
              = [role |-> plan.role, nbytes |-> plan.nbytes, hits |-> 0]
        /\ \A k \in Resident(policy) \ (evicted \cup {plan.key}) :
              policy'.entries[k] = policy.entries[k]
    BY <1>1, <1>3, <2>1, CommitSafe, CommitResident, CommitEntries DEF Sound
  <2>3. plan.key = key /\ plan.nbytes = NBytes(payload)
    BY <1>3 DEF Sound
  <2>4. /\ DOMAIN rows' = Resident(policy')
        /\ rows'[plan.key] = row
        /\ \A k \in Resident(policy') \ {plan.key} :
              k \in Resident(policy) \ evicted /\ rows'[k] = rows[k]
    BY <2>1, <2>2 DEF StorageInv
  <2>5. \A k \in Resident(policy') : /\ rows'[k].role = policy'.entries[k].role
                                     /\ rows'[k].nbytes = policy'.entries[k].nbytes
    BY <2>2, <2>3, <2>4 DEF StorageInv
  <2>6. Authentic'
    BY <2>3, <2>4 DEF StorageInv, Authentic
  <2>7. QED
    BY <2>2, <2>4, <2>5, <2>6 DEF StorageInv
<1>4. QED
  BY <1>2, <1>3

(* The plan of plan_admission is sound on every policy value that differs  *)
(* from the facade's in its probation state alone.                         *)
LEMMA AdmissionSound ==
    ASSUME StorageInv, NEW planned, NEW key \in Keys, NEW role \in Roles,
           NEW predecessor, NEW payload \in Payloads,
           Coherent(planned), WithinLimits(planned), SingleStable(planned),
           planned.entries = policy.entries, planned.buckets = policy.buckets
    PROVE  LET plan == PlanAdmission(planned, key, role, NBytes(payload), predecessor)
           IN  /\ Sound(planned, plan, key, payload)
               /\ plan.role = role
               /\ plan.accepted => ActivePredecessor(policy, key, role, predecessor)
                                     \subseteq DOMAIN plan.evictions
<1>1. NBytes(payload) \in Nat
  BY DEF NBytes, Payloads
<1>2. ActivePredecessor(policy, key, role, predecessor)
         = ActivePredecessor(planned, key, role, predecessor)
  BY DEF ActivePredecessor, Resident
<1>3. QED
  BY <1>1, <1>2, AdmissionPlan, PlanFields DEF Sound

(* The plan of plan_stable_candidate is sound, whatever it decides, and so *)
(* is the policy value that planning leaves.                               *)
LEMMA CandidateSound ==
    ASSUME StorageInv, NEW key \in Keys, NEW payload \in Payloads
    PROVE  LET result == PlanStableCandidate(policy, key, NBytes(payload))
           IN  /\ Sound(result.policy, result.plan, key, payload)
               /\ result.plan.accepted => result.plan.role = "stable"
<1>1. NBytes(payload) \in Nat
  BY DEF NBytes, Payloads
<1>2. Coherent(policy) /\ WithinLimits(policy) /\ SingleStable(policy)
  BY DEF StorageInv
<1>3. QED
  BY <1>1, <1>2, StableCandidatePlan, CandidateAdmission DEF Sound

\* What a save comes to: nothing, or a sound plan with one of the roles that
\* may come in, which takes the compacted entries out.
Saved(key, payload, roles, compacted) ==
    \/ UNCHANGED <<policy, rows>>
    \/ \E planned, plan :
          /\ Sound(planned, plan, key, payload)
          /\ plan.accepted => plan.role \in roles /\ compacted \subseteq DOMAIN plan.evictions
          /\ Admit(plan, planned, payload)

(* insert_cache saves an entry of the type it is given.                    *)
LEMMA InsertSaves ==
    ASSUME StorageInv, NEW key \in Keys, NEW payload \in Payloads, NEW role \in Roles,
           InsertCache(key, payload, role)
    PROVE  Saved(key, payload, {role}, {})
<1>1. Coherent(policy) /\ WithinLimits(policy) /\ SingleStable(policy)
  BY DEF StorageInv
<1>2. QED
  BY <1>1, AdmissionSound DEF Saved, InsertCache

(* insert_active_successor saves an active entry and takes its active      *)
(* predecessor out; it plans on the policy that a refused stable candidate *)
(* left just as well.                                                      *)
LEMMA SuccessorSaves ==
    ASSUME StorageInv, NEW planned, NEW key \in Keys, NEW payload \in Payloads,
           NEW predecessor,
           Coherent(planned), WithinLimits(planned), SingleStable(planned),
           planned.entries = policy.entries, planned.buckets = policy.buckets,
           Admit(PlanAdmission(planned, key, "active", NBytes(payload), predecessor),
                 planned, payload)
    PROVE  Saved(key, payload, {"active"},
                 ActivePredecessor(policy, key, "active", predecessor))
<1>1. "active" \in Roles
  BY RolesAssumption
<1>2. QED
  BY <1>1, AdmissionSound DEF Saved

(* What the hybrid path saves: one entry of a cold prompt, or its last     *)
(* segment as the active successor of what the request was served.         *)
LEMMA HybridSaves ==
    ASSUME StorageInv, NEW key \in Keys, NEW payload \in Payloads, NEW type \in Roles,
           NEW q, NEW last, SaveHybrid(q, key, payload, type, last)
    PROVE  LET served == KeyOf(key.namespace, SubSeq(q.prompt.tokens, 1, q.cached))
           IN  \/ UNCHANGED <<policy, rows>>
               \/ q.cached = 0 /\ ~q.saved /\ Saved(key, payload, {type, "stable"}, {})
               \/ last /\ Saved(key, payload, {"active"},
                                ActivePredecessor(policy, key, "active", served))
<1> DEFINE cold   == q.cached = 0 /\ ~q.saved
           tail   == last /\ HybridCheckpoint(key.tokens, q.prompt.tokens)
           served == KeyOf(key.namespace, SubSeq(q.prompt.tokens, 1, q.cached))
           result == PlanStableCandidate(policy, key, NBytes(payload))
           after  == PlanAdmission(result.policy, key, "active", NBytes(payload), served)
<1>0. Coherent(policy) /\ WithinLimits(policy) /\ SingleStable(policy)
  BY DEF StorageInv
<1>1. CASE cold /\ type # "system"
  <2>1. InsertCache(key, payload, type)
    BY <1>1, Zenon DEF SaveHybrid
  <2>2. Saved(key, payload, {type}, {})
    BY <2>1, InsertSaves
  <2>3. Saved(key, payload, {type, "stable"}, {})
    BY <2>2 DEF Saved
  <2>4. QED
    BY <1>1, <2>3
<1>2. CASE cold /\ type = "system" /\ (result.plan.accepted \/ ~tail)
  <2>1. InsertStableCandidate(key, payload)
    BY <1>2, Zenon DEF SaveHybrid
  <2>2. Admit(result.plan, result.policy, payload)
    BY <2>1 DEF InsertStableCandidate
  <2> HIDE DEF result
  <2>3. /\ Sound(result.policy, result.plan, key, payload)
        /\ result.plan.accepted => result.plan.role = "stable"
    BY CandidateSound DEF result
  <2>4. Saved(key, payload, {type, "stable"}, {})
    BY <2>2, <2>3 DEF Saved
  <2>5. QED
    BY <1>2, <2>4
<1>3. CASE cold /\ type = "system" /\ ~(result.plan.accepted \/ ~tail)
  <2>1. Admit(after, result.policy, payload)
    BY <1>3, Zenon DEF SaveHybrid
  <2>2. Sound(result.policy, result.plan, key, payload)
    BY CandidateSound
  <2> HIDE DEF result
  <2>3. Saved(key, payload, {"active"}, ActivePredecessor(policy, key, "active", served))
    BY <2>1, <2>2, SuccessorSaves DEF Sound
  <2>4. QED
    BY <1>3, <2>3
<1>4. CASE ~cold /\ tail
  <2>1. InsertActiveSuccessor(key, payload, served)
    BY <1>4, Zenon DEF SaveHybrid
  <2>2. Saved(key, payload, {"active"}, ActivePredecessor(policy, key, "active", served))
    BY <1>0, <2>1, SuccessorSaves DEF InsertActiveSuccessor
  <2>3. QED
    BY <1>4, <2>2
<1>5. CASE ~cold /\ ~tail
  BY <1>5, Zenon DEF SaveHybrid
<1>6. QED
  BY <1>1, <1>2, <1>3, <1>4, <1>5

(* Whatever is saved, storage and policy stay together.                    *)
LEMMA SavedKeeps ==
    ASSUME StorageInv, NEW payload \in Payloads, NEW roles, NEW compacted,
           Saved(KeyOf(Space(payload.domain), payload.tokens), payload, roles, compacted)
    PROVE  StorageInv'
<1> DEFINE key == KeyOf(Space(payload.domain), payload.tokens)
<1>1. CASE UNCHANGED <<policy, rows>>
  BY <1>1 DEF StorageInv, Authentic, Resident
<1>2. CASE \E planned, plan : Sound(planned, plan, key, payload)
                              /\ Admit(plan, planned, payload)
  BY <1>2, AdmitKeeps
<1>3. QED
  BY <1>1, <1>2 DEF Saved

-----------------------------------------------------------------------------
(* The steps.                                                              *)

(* The smallest of finitely many numbers.                                  *)
LEMMA SmallestNumber ==
    ASSUME NEW S \in SUBSET Nat, IsFiniteSet(S), S # {}
    PROVE  Min(S) \in S /\ \A n \in S : Min(S) <= n
<1> DEFINE R == {pair \in S \X S : pair[1] < pair[2]}
<1>1. /\ \A u \in S : <<u, u>> \notin R
      /\ \A u, v, w \in S : <<u, v>> \in R /\ <<v, w>> \in R => <<u, w>> \in R
  OBVIOUS
<1>2. \A u, v \in S : u < v => <<u, v>> \in R
  OBVIOUS
<1> HIDE DEF R
<1>3. PICK m \in S : \A u \in S : <<u, m>> \notin R
  BY <1>1, FiniteMinimal
<1>4. \A u \in S : m =< u
  <2>1. \A u \in S : ~(u < m)
    BY <1>2, <1>3
  <2>2. QED
    BY <2>1
<1>5. PICK g \in S : g = Min(S) /\ \A u \in S : g =< u
  BY <1>4 DEF Min
<1>6. QED
  BY <1>5

\* Request q saves, at the end of segment i, the state of n tokens.
Ends(q, i, n) ==
    /\ i \in q.left /\ i \in DOMAIN q.prompt.ends
    /\ n \in 1 .. Len(q.prompt.tokens) - 1 /\ q.cached <= n
    /\ LET payload == State(q.domain, SubSeq(q.prompt.tokens, 1, n))
           key     == KeyOf(Space(q.domain), SubSeq(q.prompt.tokens, 1, n))
           type    == q.prompt.types[i]
       IN  IF trimmable THEN InsertCache(key, payload, type)
           ELSE SaveHybrid(q, key, payload, type, q.left = {i})
    /\ q.left = {i} => n = Len(q.prompt.tokens) - 1

(* A segment ends short of the last token, and never before what the       *)
(* request was served.                                                     *)
LEMMA SegmentEnds ==
    ASSUME SessionsInv, NEW r \in Requests, EndSegment(r)
    PROVE  \E i, n : /\ Ends(requests[r], i, n)
                     /\ requests' = [requests EXCEPT
                           ![r].left = @ \ {i}, ![r].saved = ~trimmable \/ @]
<1> DEFINE q == requests[r]
           i == Min(q.left)
           n == IF q.left = {i} THEN Len(q.prompt.tokens) - 1 ELSE q.prompt.ends[i]
           tokens == q.prompt.tokens
           ends   == q.prompt.ends
<1>1. r \in Running /\ q.left # {}
  BY DEF EndSegment
<1>2. Session(q) /\ q.prompt \in Prompts /\ q.domain \in Domains /\ q.cached \in Nat
  BY <1>1 DEF SessionsInv, Session, SessionState
<1>3. /\ Len(tokens) \in Nat /\ Len(tokens) >= 2 /\ q.cached < Len(tokens)
      /\ \A j \in DOMAIN ends : j \in Nat /\ ends[j] \in 1 .. Len(tokens)
      /\ \A j, k \in DOMAIN ends : j < k => ends[j] < ends[k]
      /\ q.left \in SUBSET DOMAIN ends
      /\ \A j \in q.left : ends[j] > q.cached
      /\ DOMAIN ends = 1 .. Len(ends) /\ Len(ends) \in Nat
  BY <1>2, PromptFacts DEF Session
<1>4. i \in q.left /\ \A j \in q.left : i <= j
  <2>1. q.left \in SUBSET (0 .. Len(ends))
    BY <1>3
  <2>2. QED
    BY <1>1, <1>3, <2>1, NumbersBelow, SmallestNumber
<1> HIDE DEF i
<1>5. n \in 1 .. Len(tokens) - 1 /\ q.cached <= n
  <2>1. CASE q.left = {i}
    BY <1>2, <1>3, <2>1
  <2>2. CASE q.left # {i}
    <3>1. PICK j \in q.left : j # i
      BY <1>4, <2>2
    <3>2. i < j /\ i \in DOMAIN ends /\ j \in DOMAIN ends
      BY <1>3, <1>4, <3>1
    <3>3. ends[i] < ends[j] /\ ends[j] <= Len(tokens) /\ ends[i] \in 1 .. Len(tokens)
          /\ ends[j] \in 1 .. Len(tokens) /\ ends[i] > q.cached
      BY <1>3, <1>4, <3>2
    <3> HIDE DEF q, tokens, ends
    <3>4. n = ends[i]
      BY <2>2 DEF tokens, ends
    <3>5. QED
      BY <1>2, <1>3, <3>3, <3>4
  <2>3. QED
    BY <2>1, <2>2
<1>6. q.left = {i} => n = Len(tokens) - 1
  OBVIOUS
<1>7. LET key     == KeyOf(CacheNamespace("model", q.domain), SubSeq(tokens, 1, n))
          payload == Evaluated(q, n)
      IN  IF trimmable THEN InsertCache(key, payload, q.prompt.types[i])
          ELSE SaveHybrid(q, key, payload, q.prompt.types[i], q.left = {i})
  BY Zenon DEF EndSegment, i
<1> HIDE DEF n
<1>8. Evaluated(q, n) = State(q.domain, SubSeq(tokens, 1, n))
  <2>1. n \in q.cached .. Len(tokens)
    BY <1>2, <1>3, <1>5
  <2>2. QED
    BY <1>2, <2>1, EvaluatedState
<1>9. Ends(q, i, n)
  BY <1>3, <1>4, <1>5, <1>6, <1>7, <1>8 DEF Ends, Space
<1>10. requests' = [requests EXCEPT ![r].left = @ \ {i}, ![r].saved = ~trimmable \/ @]
  BY Zenon DEF EndSegment, i
<1>11. QED
  BY <1>9, <1>10

\* The entry that request q saves at its n-th token, and what is stored.
SegmentKey(q, n) == KeyOf(Space(q.domain), SubSeq(q.prompt.tokens, 1, n))
SegmentState(q, n) == State(q.domain, SubSeq(q.prompt.tokens, 1, n))

(* They are a key and a payload of the storage.                            *)
LEMMA SegmentTypes ==
    ASSUME NEW q, Session(q), NEW n \in 1 .. Len(q.prompt.tokens)
    PROVE  /\ SegmentKey(q, n) \in Keys
           /\ SegmentState(q, n) \in Payloads
           /\ SegmentKey(q, n)
                = KeyOf(Space(SegmentState(q, n).domain), SegmentState(q, n).tokens)
<1>1. q.prompt \in Prompts /\ q.domain \in Domains
  BY DEF Session, SessionState
<1>2. q.prompt.tokens \in Seq(Tokens) /\ Len(q.prompt.tokens) \in Nat
  BY <1>1, PromptFacts
<1>3. SubSeq(q.prompt.tokens, 1, n) \in Seq(Tokens)
  <2>1. n \in 0 .. Len(q.prompt.tokens)
    BY <1>2
  <2>2. QED
    BY <1>2, <2>1, FrontAndRest
<1>4. QED
  BY <1>1, <1>3, SavedKeys, StateIsPayload DEF SegmentKey, SegmentState, State

(* The end of a segment keeps storage and policy together.                 *)
LEMMA EndSegmentStorage ==
    ASSUME ServingInv, NEW r \in Requests, EndSegment(r)
    PROVE  StorageInv'
<1> DEFINE q == requests[r]
<1>1. Session(q)
  BY DEF ServingInv, SessionsInv, EndSegment
<1>2. PICK i, n : Ends(q, i, n)
  BY SegmentEnds DEF ServingInv
<1> DEFINE key == SegmentKey(q, n)
           payload == SegmentState(q, n)
           type == q.prompt.types[i]
<1>3. n \in 1 .. Len(q.prompt.tokens)
  <2>1. q.prompt \in Prompts
    BY <1>1 DEF Session, SessionState
  <2>2. Len(q.prompt.tokens) \in Nat
    BY <2>1, PromptFacts
  <2>3. QED
    BY <1>2, <2>2 DEF Ends
<1>4. /\ key \in Keys /\ payload \in Payloads
      /\ key = KeyOf(Space(payload.domain), payload.tokens)
  BY <1>1, <1>3, SegmentTypes
<1>5. type \in Roles
  <2>1. q.prompt \in Prompts /\ i \in DOMAIN q.prompt.ends
    BY <1>1, <1>2 DEF Session, SessionState, Ends
  <2>2. QED
    BY <2>1, PromptFacts
<1>6. IF trimmable THEN InsertCache(key, payload, type)
      ELSE SaveHybrid(q, key, payload, type, q.left = {i})
  BY <1>2, Zenon DEF Ends, SegmentKey, SegmentState
<1> HIDE DEF key, payload, type, q
<1>7. CASE trimmable
  <2>1. Saved(key, payload, {type}, {})
    BY <1>4, <1>5, <1>6, <1>7, InsertSaves DEF ServingInv
  <2>2. QED
    BY <1>4, <2>1, SavedKeeps DEF ServingInv
<1>8. CASE ~trimmable
  <2>1. \/ UNCHANGED <<policy, rows>>
        \/ \E roles, compacted : Saved(key, payload, roles, compacted)
    BY <1>4, <1>5, <1>6, <1>8, HybridSaves DEF ServingInv
  <2>2. \E roles, compacted : Saved(key, payload, roles, compacted)
    BY <2>1 DEF Saved
  <2>3. QED
    BY <1>4, <2>2, SavedKeeps DEF ServingInv
<1>9. QED
  BY <1>7, <1>8

(* And the request that goes on is the one it was, with less left to save. *)
LEMMA EndSegmentSessions ==
    ASSUME SessionsInv, NEW r \in Requests, EndSegment(r)
    PROVE  SessionsInv'
<1>1. PICK i, n : requests' = [requests EXCEPT
                      ![r].left = @ \ {i}, ![r].saved = ~trimmable \/ @]
  BY SegmentEnds
<1>2. r \in Running /\ Session(requests[r])
  BY DEF SessionsInv, EndSegment
<1> DEFINE q == requests[r]
           after == requests'[r]
<1>3. /\ q \in SessionState
      /\ after = [q EXCEPT !.left = @ \ {i}, !.saved = ~trimmable \/ @]
  BY <1>1, <1>2 DEF Session, SessionsInv
<1>4. after \in SessionState
  <2>1. (~trimmable \/ q.saved) \in BOOLEAN
    OBVIOUS
  <2> HIDE DEF after, q
  <2>2. QED
    BY <1>3, <2>1 DEF SessionState
<1>5. /\ after.prompt = q.prompt /\ after.cached = q.cached /\ after.payload = q.payload
      /\ after.rest = q.rest /\ after.domain = q.domain /\ after.left \subseteq q.left
  <2> HIDE DEF after, q
  <2>1. QED
    BY <1>3 DEF SessionState
<1>6. Session(after)
  <2> HIDE DEF after, q
  <2>1. Session(q)
    BY <1>2 DEF q
  <2>2. QED
    BY <1>4, <1>5, <2>1 DEF Session
<1>7. \A s \in Requests \ {r} : requests'[s] = requests[s]
  BY <1>1 DEF SessionsInv
<1>8. DOMAIN requests' = Requests
  BY <1>1 DEF SessionsInv
<1>9. QED
  BY <1>6, <1>7, <1>8 DEF SessionsInv, Running

(* The facade's lookup may credit a key; the policy lists what it listed.  *)
LEMMA CreditKeeps ==
    ASSUME NEW p, Coherent(p), WithinLimits(p), SingleStable(p),
           NEW namespace, NEW tokens, NEW found
    PROVE  LET q == Credit(p, namespace, tokens, found)
           IN  /\ Coherent(q) /\ WithinLimits(q) /\ SingleStable(q)
               /\ Resident(q) = Resident(p) /\ q.buckets = p.buckets
               /\ \A k \in Resident(p) : /\ q.entries[k].nbytes = p.entries[k].nbytes
                                         /\ q.entries[k].role = p.entries[k].role
<1> DEFINE seen == FromBackendResult(namespace, tokens, found.cache, found.rest)
           key  == KeyOf(namespace, seen.matched)
           q    == Credit(p, namespace, tokens, found)
<1>1. q = p \/ q = AddHit(p, key)
  BY Zenon DEF Credit
<1> HIDE DEF key
<1>2. CASE q = AddHit(p, key)
  <2> HIDE DEF q
  <2>1. /\ Coherent(q) /\ WithinLimits(q) /\ SingleStable(q)
        /\ Resident(q) = Resident(p) /\ q.buckets = p.buckets
        /\ \A k \in Resident(p) : /\ q.entries[k].nbytes = p.entries[k].nbytes
                                  /\ q.entries[k].role = p.entries[k].role
    BY <1>2, HitCoherent
  <2>2. QED
    BY <2>1 DEF q
<1>3. QED
  BY <1>1, <1>2

\* What a request starts from: the cache that was made safe, as a payload.
Start(domain, safe) ==
    IF safe.cache = None THEN State(domain, <<>>)
    ELSE IF safe.trimmed THEN [safe.cache EXCEPT !.tokens = SubSeq(@, 1, Len(@) - 1)]
    ELSE safe.cache

\* It starts from the first n tokens, and has the others left.
StartsFrom(domain, tokens, safe, n) ==
    /\ n \in 0 .. Len(tokens) - 1
    /\ safe.rest = Suffix(tokens, n)
    /\ Start(domain, safe) = State(domain, SubSeq(tokens, 1, n))

(* The parts of a sequence at its ends.                                    *)
LEMMA EndParts ==
    ASSUME NEW T, NEW s \in Seq(T), Len(s) >= 2
    PROVE  /\ SubSeq(s, 1, 0) = <<>> /\ Suffix(s, 0) = s /\ Suffix(s, Len(s)) = <<>>
           /\ s # <<>>
           /\ SubSeq(s, 1, Len(s) - 1) \in Seq(T) /\ Len(SubSeq(s, 1, Len(s) - 1)) = Len(s) - 1
           /\ Suffix(s, Len(s) - 1) = <<s[Len(s)]>>
           /\ \A n \in 0 .. Len(s) - 1 :
                 /\ Suffix(s, n) # <<>>
                 /\ Suffix(SubSeq(s, 1, Len(s) - 1), n) \o <<s[Len(s)]>> = Suffix(s, n)
                 /\ SubSeq(SubSeq(s, 1, Len(s) - 1), 1, n) = SubSeq(s, 1, n)
<1>1. Len(s) \in Nat
  OBVIOUS
<1>2. SubSeq(s, 1, 0) = <<>> /\ s # <<>> /\ Suffix(s, 0) = s /\ Suffix(s, Len(s)) = <<>>
  BY DEF Suffix
<1>3. SubSeq(s, 1, Len(s) - 1) \in Seq(T) /\ Len(SubSeq(s, 1, Len(s) - 1)) = Len(s) - 1
  OBVIOUS
<1>4. Suffix(s, Len(s) - 1) = <<s[Len(s)]>>
  BY LastPart
<1>5. ASSUME NEW n \in 0 .. Len(s) - 1
      PROVE  /\ Suffix(s, n) # <<>>
             /\ Suffix(SubSeq(s, 1, Len(s) - 1), n) \o <<s[Len(s)]>> = Suffix(s, n)
             /\ SubSeq(SubSeq(s, 1, Len(s) - 1), 1, n) = SubSeq(s, 1, n)
  <2>1. n \in 0 .. Len(s) /\ Len(s) - 1 \in 0 .. Len(s) /\ n \in 0 .. (Len(s) - 1)
    BY <1>1
  <2>2. Suffix(s, n) # <<>>
    <3>1. Len(Suffix(s, n)) = Len(s) - n
      BY <2>1, FrontAndRest
    <3>2. QED
      BY <1>1, <3>1
  <2>3. SubSeq(SubSeq(s, 1, Len(s) - 1), 1, n) = SubSeq(s, 1, n)
    BY <2>1, FrontOfFront
  <2>4. Suffix(SubSeq(s, 1, Len(s) - 1), n) \o <<s[Len(s)]>> = Suffix(s, n)
    BY RestOfFront
  <2>5. QED
    BY <2>2, <2>3, <2>4
<1>6. QED
  BY <1>2, <1>3, <1>4, <1>5

(* A request starts from a prefix of its own prompt, in its own domain,    *)
(* with a token left. Without trimming that is the longest stored one,     *)
(* unless the whole prompt was stored.                                     *)
LEMMA BeginServes ==
    ASSUME Authentic, NEW domain \in Domains, NEW prompt \in Prompts
    PROVE  LET tokens  == prompt.tokens
               found   == Nearest(Space(domain), tokens)
               shorter == Nearest(Space(domain), SubSeq(tokens, 1, Len(tokens) - 1))
               safe    == EnsureGenerationSafe(found.cache, found.rest, tokens,
                                               trimmable, shorter)
           IN  \E n \in 0 .. Len(tokens) - 1 :
                  /\ StartsFrom(domain, tokens, safe, n)
                  /\ \/ trimmable
                     \/ KeyOf(Space(domain), tokens) \in DOMAIN rows
                     \/ n = 0 /\ StoredBefore(domain, tokens) = {}
                     \/ \E k \in StoredBefore(domain, tokens) :
                           /\ Len(k.tokens) = n
                           /\ \A j \in StoredBefore(domain, tokens) : Len(j.tokens) <= n
<1> DEFINE tokens  == prompt.tokens
           front   == SubSeq(tokens, 1, Len(tokens) - 1)
           last    == <<tokens[Len(tokens)]>>
           found   == Nearest(Space(domain), tokens)
           shorter == Nearest(Space(domain), front)
           safe    == EnsureGenerationSafe(found.cache, found.rest, tokens,
                                           trimmable, shorter)
<1>1. tokens \in Seq(Tokens) /\ Len(tokens) \in Nat /\ Len(tokens) >= 2
  BY PromptFacts
<1> HIDE DEF tokens
<1>2. /\ SubSeq(tokens, 1, 0) = <<>> /\ Suffix(tokens, 0) = tokens
      /\ Suffix(tokens, Len(tokens)) = <<>> /\ tokens # <<>>
      /\ front \in Seq(Tokens) /\ Len(front) = Len(tokens) - 1
      /\ Suffix(tokens, Len(tokens) - 1) = last
      /\ \A n \in 0 .. Len(tokens) - 1 :
            /\ Suffix(tokens, n) # <<>>
            /\ Suffix(front, n) \o last = Suffix(tokens, n)
            /\ SubSeq(front, 1, n) = SubSeq(tokens, 1, n)
  BY <1>1, EndParts
<1>3. \A n \in 0 .. Len(tokens) : State(domain, SubSeq(tokens, 1, n)) # None
  BY <1>1, FrontAndRest, StateIsPayload
<1>4. safe = IF found.cache = None \/ found.rest # <<>> \/ tokens = <<>>
             THEN [cache |-> found.cache, rest |-> found.rest, trimmed |-> FALSE]
             ELSE IF trimmable
             THEN [cache |-> found.cache, rest |-> last, trimmed |-> TRUE]
             ELSE IF shorter.cache = None
             THEN [cache |-> None, rest |-> tokens, trimmed |-> FALSE]
             ELSE [cache |-> shorter.cache, rest |-> shorter.rest \o last,
                   trimmed |-> FALSE]
  BY Zenon DEF EnsureGenerationSafe
<1>5. \/ /\ found = Missed(tokens)
         /\ StoredBefore(domain, tokens) = {}
      \/ /\ found = Served(domain, tokens, Len(tokens))
         /\ KeyOf(Space(domain), tokens) \in DOMAIN rows
      \/ \E n \in 0 .. Len(tokens) - 1 :
            /\ found = Served(domain, tokens, n)
            /\ ~trimmable => \E k \in StoredBefore(domain, tokens) :
                  /\ Len(k.tokens) = n
                  /\ \A j \in StoredBefore(domain, tokens) : Len(j.tokens) <= n
  BY <1>1, NearestServes
<1>6. \/ shorter = Missed(front)
      \/ \E m \in 0 .. Len(front) : shorter = Served(domain, front, m)
  <2>1. Len(front) \in 0 .. Len(front)
    BY <1>1, <1>2
  <2>2. \A m \in 0 .. Len(front) - 1 : m \in 0 .. Len(front)
    BY <1>1, <1>2
  <2>3. QED
    BY <1>2, <2>1, <2>2, NearestServes
<1> HIDE DEF found, shorter, safe, front, last
<1>7. CASE found = Missed(tokens) /\ StoredBefore(domain, tokens) = {}
  <2>1. found.cache = None /\ found.rest = tokens
    BY <1>7 DEF Missed
  <2>2. safe = [cache |-> None, rest |-> tokens, trimmed |-> FALSE]
    BY <1>4, <2>1
  <2>3. StartsFrom(domain, tokens, safe, 0)
    <3>1. Start(domain, safe) = State(domain, SubSeq(tokens, 1, 0))
      BY <1>2, <2>2 DEF Start
    <3>2. safe.rest = Suffix(tokens, 0) /\ 0 \in 0 .. Len(tokens) - 1
      BY <1>1, <1>2, <2>2
    <3>3. QED
      BY <3>1, <3>2, Zenon DEF StartsFrom
  <2>4. 0 \in 0 .. Len(tokens) - 1
    BY <1>1
  <2>5. QED
    BY <1>7, <2>3, <2>4 DEF found, shorter, safe, front, tokens
<1>8. CASE \E n \in 0 .. Len(tokens) - 1 :
              /\ found = Served(domain, tokens, n)
              /\ ~trimmable => \E k \in StoredBefore(domain, tokens) :
                    /\ Len(k.tokens) = n
                    /\ \A j \in StoredBefore(domain, tokens) : Len(j.tokens) <= n
  <2>1. PICK n \in 0 .. Len(tokens) - 1 :
              /\ found = Served(domain, tokens, n)
              /\ ~trimmable => \E k \in StoredBefore(domain, tokens) :
                    /\ Len(k.tokens) = n
                    /\ \A j \in StoredBefore(domain, tokens) : Len(j.tokens) <= n
    BY <1>8
  <2>2. n \in 0 .. Len(tokens)
    BY <1>1
  <2>3. /\ found.cache = State(domain, SubSeq(tokens, 1, n))
        /\ found.rest = Suffix(tokens, n)
    BY <2>1 DEF Served
  <2>4. safe = [cache |-> State(domain, SubSeq(tokens, 1, n)),
                rest |-> Suffix(tokens, n), trimmed |-> FALSE]
    BY <1>2, <1>4, <2>3, Zenon
  <2>5. StartsFrom(domain, tokens, safe, n)
    BY <1>3, <2>2, <2>4 DEF StartsFrom, Start
  <2>6. QED
    BY <2>1, <2>5 DEF found, shorter, safe, front, tokens
<1>9. CASE /\ found = Served(domain, tokens, Len(tokens))
           /\ KeyOf(Space(domain), tokens) \in DOMAIN rows
  <2>1. /\ found.cache = State(domain, SubSeq(tokens, 1, Len(tokens)))
        /\ found.rest = <<>>
    BY <1>2, <1>9 DEF Served
  <2>2. found.cache = State(domain, tokens) /\ found.cache # None
    <3>1. SubSeq(tokens, 1, Len(tokens)) = tokens
      BY <1>1, WholePart
    <3>2. Len(tokens) \in 0 .. Len(tokens)
      BY <1>1
    <3>3. QED
      BY <1>3, <2>1, <3>1, <3>2
  <2>3. ~(found.cache = None \/ found.rest # <<>> \/ tokens = <<>>)
    BY <1>2, <2>1, <2>2
  <2>4. \E n \in 0 .. Len(tokens) - 1 : StartsFrom(domain, tokens, safe, n)
    <3>1. CASE trimmable
      <4>1. safe = [cache |-> State(domain, tokens), rest |-> last, trimmed |-> TRUE]
        BY <1>4, <2>2, <2>3, <3>1, Zenon
      <4>2. [State(domain, tokens) EXCEPT !.tokens = SubSeq(@, 1, Len(@) - 1)]
               = State(domain, front)
        BY DEF State, front
      <4>3. Start(domain, safe) = State(domain, front)
        BY <2>2, <4>1, <4>2 DEF Start
      <4>4. StartsFrom(domain, tokens, safe, Len(tokens) - 1)
        BY <1>1, <1>2, <4>1, <4>3 DEF StartsFrom, front
      <4>5. QED
        BY <4>4 DEF StartsFrom
    <3>2. CASE ~trimmable /\ shorter = Missed(front)
      <4>1. safe = [cache |-> None, rest |-> tokens, trimmed |-> FALSE]
        BY <1>4, <2>3, <3>2 DEF Missed
      <4>2. StartsFrom(domain, tokens, safe, 0)
        <5>1. Start(domain, safe) = State(domain, SubSeq(tokens, 1, 0))
          BY <1>2, <4>1 DEF Start
        <5>2. safe.rest = Suffix(tokens, 0) /\ 0 \in 0 .. Len(tokens) - 1
          BY <1>1, <1>2, <4>1
        <5>3. QED
          BY <5>1, <5>2, Zenon DEF StartsFrom
      <4>3. QED
        BY <4>2 DEF StartsFrom
    <3>3. ASSUME ~trimmable, NEW m \in 0 .. Len(front), shorter = Served(domain, front, m)
          PROVE  StartsFrom(domain, tokens, safe, m)
      <4>1. m \in 0 .. Len(tokens) - 1 /\ m \in 0 .. Len(tokens)
        BY <1>1, <1>2
      <4>2. /\ shorter.cache = State(domain, SubSeq(tokens, 1, m))
            /\ shorter.rest \o last = Suffix(tokens, m)
        BY <1>2, <3>3, <4>1 DEF Served
      <4>3. shorter.cache # None
        BY <1>3, <4>1, <4>2
      <4>4. safe = [cache |-> State(domain, SubSeq(tokens, 1, m)),
                    rest |-> Suffix(tokens, m), trimmed |-> FALSE]
        BY <1>4, <2>3, <3>3, <4>2, <4>3, Zenon
      <4>5. QED
        BY <1>3, <4>1, <4>4 DEF StartsFrom, Start
    <3>4. QED
      BY <1>6, <3>1, <3>2, <3>3 DEF StartsFrom
  <2>5. QED
    BY <1>9, <2>4 DEF found, shorter, safe, front, tokens
<1>10. QED
  BY <1>5, <1>7, <1>8, <1>9

\* A policy value that lists what the facade's lists.
Alike(p) ==
    /\ Coherent(p) /\ WithinLimits(p) /\ SingleStable(p)
    /\ Resident(p) = Resident(policy) /\ p.buckets = policy.buckets
    /\ \A k \in Resident(policy) : /\ p.entries[k].nbytes = policy.entries[k].nbytes
                                   /\ p.entries[k].role = policy.entries[k].role

(* The lookups of a request that begins change no more than hit counts.    *)
LEMMA BeginCredits ==
    ASSUME StorageInv, NEW r, NEW label, NEW prompt, Begin(r, label, prompt)
    PROVE  Alike(policy') /\ rows' = rows /\ trimmable' = trimmable
<1> DEFINE namespace == CacheNamespace("model", Domain(label))
           tokens  == prompt.tokens
           front   == SubSeq(tokens, 1, Len(tokens) - 1)
           found   == Nearest(namespace, tokens)
           shorter == Nearest(namespace, front)
           fetched == Credit(policy, namespace, tokens, found)
           twice   == Credit(fetched, namespace, front, shorter)
<1>1. policy' = fetched \/ policy' = twice
  BY Zenon DEF Begin
<1>2. rows' = rows /\ trimmable' = trimmable
  BY DEF Begin
<1> HIDE DEF namespace, tokens, front, found, shorter
<1>3. Alike(fetched)
  BY CreditKeeps DEF StorageInv, Alike
<1> HIDE DEF fetched
<1>4. Alike(twice)
  BY <1>3, CreditKeeps DEF Alike
<1> HIDE DEF twice
<1>5. QED
  BY <1>1, <1>2, <1>3, <1>4

(* So storage and policy stay together.                                    *)
LEMMA BeginStorage ==
    ASSUME StorageInv, NEW r, NEW label, NEW prompt, Begin(r, label, prompt)
    PROVE  StorageInv'
<1>1. Alike(policy') /\ rows' = rows
  BY BeginCredits
<1>2. Authentic'
  BY <1>1 DEF StorageInv, Authentic
<1>3. QED
  BY <1>1, <1>2 DEF StorageInv, Alike

\* Request r begins as q: it goes on from what is stored of its prompt, and
\* has to save the segments that end later.
Begun(r, label, prompt, q) ==
    /\ requests' = [requests EXCEPT ![r] = q]
    /\ Session(q)
    /\ q.prompt = prompt /\ q.domain = Domain(label)
    /\ LET before == StoredBefore(q.domain, prompt.tokens)
       IN  \/ trimmable
           \/ KeyOf(Space(q.domain), prompt.tokens) \in DOMAIN rows
           \/ q.cached = 0 /\ before = {}
           \/ \E k \in before : /\ Len(k.tokens) = q.cached
                                /\ \A j \in before : Len(j.tokens) <= q.cached

(* Begin makes such a request of it.                                       *)
LEMMA BeginRequest ==
    ASSUME StorageInv, NEW r, NEW label \in Labels, NEW prompt \in Prompts,
           Begin(r, label, prompt)
    PROVE  \E q : Begun(r, label, prompt, q)
<1> DEFINE domain  == Domain(label)
           tokens  == prompt.tokens
           found   == Nearest(Space(domain), tokens)
           shorter == Nearest(Space(domain), SubSeq(tokens, 1, Len(tokens) - 1))
           safe    == EnsureGenerationSafe(found.cache, found.rest, tokens,
                                           trimmable, shorter)
           cached  == Len(tokens) - Len(safe.rest)
           left    == {i \in DOMAIN prompt.ends : prompt.ends[i] > cached}
           q == [pc |-> "running", domain |-> domain, prompt |-> prompt,
                 payload |-> Start(domain, safe), rest |-> safe.rest,
                 cached |-> cached, left |-> left, saved |-> FALSE]
<1>1. requests' = [requests EXCEPT ![r] = q]
  BY Zenon DEF Begin, Start, Space, State
<1>2. domain \in Domains
  BY DEF Begin, Domains, ValidLabels
<1>3. /\ tokens \in Seq(Tokens) /\ Len(tokens) \in Nat /\ Len(tokens) >= 2
      /\ \A i \in DOMAIN prompt.ends : i \in Nat
  BY PromptFacts
<1>4. PICK n \in 0 .. Len(tokens) - 1 :
              /\ StartsFrom(domain, tokens, safe, n)
              /\ \/ trimmable
                 \/ KeyOf(Space(domain), tokens) \in DOMAIN rows
                 \/ n = 0 /\ StoredBefore(domain, tokens) = {}
                 \/ \E k \in StoredBefore(domain, tokens) :
                       /\ Len(k.tokens) = n
                       /\ \A j \in StoredBefore(domain, tokens) : Len(j.tokens) <= n
  BY <1>2, BeginServes DEF StorageInv
<1> HIDE DEF safe, domain, tokens
<1>5. /\ SubSeq(tokens, 1, n) \in Seq(Tokens)
      /\ Suffix(tokens, n) \in Seq(Tokens)
      /\ Len(Suffix(tokens, n)) = Len(tokens) - n
  <2>1. n \in 0 .. Len(tokens)
    BY <1>3
  <2>2. QED
    BY <1>3, <2>1, FrontAndRest
<1>6. /\ safe.rest = Suffix(tokens, n)
      /\ Start(domain, safe) = State(domain, SubSeq(tokens, 1, n))
  BY <1>4 DEF StartsFrom
<1>7. cached = n /\ n \in Nat /\ n < Len(tokens)
  BY <1>3, <1>5, <1>6
<1>8. Start(domain, safe) \in Payloads
  BY <1>2, <1>5, <1>6, StateIsPayload
<1>9. left \in SUBSET Nat /\ left \subseteq {i \in DOMAIN prompt.ends : prompt.ends[i] > n}
  BY <1>3, <1>7
<1> HIDE DEF cached, left
<1>10. q \in SessionState
  BY <1>2, <1>5, <1>6, <1>7, <1>8, <1>9 DEF SessionState
<1>11. Session(q)
  BY <1>6, <1>7, <1>9, <1>10 DEF Session, tokens
<1>12. Begun(r, label, prompt, q)
  BY <1>1, <1>4, <1>7, <1>11 DEF Begun, domain, tokens
<1>13. QED
  BY <1>12

(* A request that has begun is a session, and the others are as they were. *)
LEMMA BeginSessions ==
    ASSUME SessionsInv, NEW r \in Requests, NEW label, NEW prompt, NEW q,
           Begun(r, label, prompt, q)
    PROVE  SessionsInv'
<1>1. /\ DOMAIN requests' = Requests
      /\ \A s \in Requests : requests'[s] = IF s = r THEN q ELSE requests[s]
  BY DEF Begun, SessionsInv
<1>2. \A s \in Running' : Session(requests'[s])
  BY <1>1 DEF Begun, SessionsInv, Running
<1>3. QED
  BY <1>1, <1>2 DEF SessionsInv

(* A request that ends leaves the others as they were.                     *)
LEMMA LeaveSessions ==
    ASSUME SessionsInv, NEW r \in Requests, NEW q, q.pc # "running",
           requests' = [requests EXCEPT ![r] = q]
    PROVE  SessionsInv'
BY DEF SessionsInv, Running

(* The last save of a trimmable model: the prompt and a generated token.   *)
LEMMA FinishStorage ==
    ASSUME ServingInv, NEW r \in Requests, NEW token \in Generated, Finish(r, token)
    PROVE  StorageInv'
<1> DEFINE q == requests[r]
           tokens == q.prompt.tokens
           longer == Append(tokens, token)
           key == KeyOf(Space(q.domain), longer)
           payload == [Evaluated(q, Len(tokens)) EXCEPT !.tokens = Append(@, token)]
<1>1. Session(q)
  BY DEF ServingInv, SessionsInv, Finish
<1>2. q.prompt \in Prompts /\ q.domain \in Domains /\ q.cached \in Nat /\ q.cached < Len(tokens)
  BY <1>1 DEF Session, SessionState
<1>3. tokens \in Seq(Tokens) /\ Len(tokens) \in Nat
  BY <1>2, PromptFacts
<1>4. IF trimmable THEN InsertCache(key, payload, "assistant")
      ELSE UNCHANGED <<policy, rows>>
  BY Zenon DEF Finish, Space
<1>5. Evaluated(q, Len(tokens)) = State(q.domain, tokens)
  <2>1. Len(tokens) \in q.cached .. Len(tokens)
    BY <1>2, <1>3
  <2>2. SubSeq(tokens, 1, Len(tokens)) = tokens
    BY <1>3, WholePart
  <2>3. QED
    BY <1>1, <2>1, <2>2, EvaluatedState
<1>6. payload = State(q.domain, longer)
  <2> HIDE DEF q, tokens
  <2>1. [State(q.domain, tokens) EXCEPT !.tokens = Append(@, token)]
           = State(q.domain, longer)
    BY DEF State
  <2>2. QED
    BY <1>5, <2>1
<1>7. longer \in Seq(Tokens)
  BY <1>3 DEF Tokens
<1>8. key \in Keys
  BY <1>2, SavedKeys
<1> HIDE DEF longer, tokens
<1>9. payload \in Payloads /\ key = KeyOf(Space(payload.domain), payload.tokens)
  BY <1>2, <1>6, <1>7, StateIsPayload DEF State
<1> HIDE DEF payload, key
<1>10. CASE trimmable
  <2>1. "assistant" \in Roles
    BY InputsAssumption
  <2>2. Saved(key, payload, {"assistant"}, {})
    BY <1>4, <1>8, <1>9, <1>10, <2>1, InsertSaves DEF ServingInv
  <2>3. QED
    BY <1>9, <2>2, SavedKeeps DEF ServingInv
<1>11. CASE ~trimmable
  <2>1. Saved(key, payload, {}, {})
    BY <1>4, <1>11 DEF Saved
  <2>2. QED
    BY <1>9, <2>1, SavedKeeps DEF ServingInv
<1>12. QED
  BY <1>10, <1>11

(* Nothing that is not touched disturbs the storage.                       *)
LEMMA IdleStorage ==
    ASSUME StorageInv, UNCHANGED <<policy, rows>>
    PROVE  StorageInv'
BY DEF StorageInv, Authentic, Resident

(* Every step keeps the invariant.                                         *)
LEMMA ServingNext ==
    ASSUME ServingInv, [Next]_vars
    PROVE  ServingInv'
<1>1. CASE UNCHANGED vars
  BY <1>1, IdleStorage DEF ServingInv, SessionsInv, Running, vars
<1>2. ASSUME NEW r \in Requests, NEW label \in Labels, NEW batchable \in BOOLEAN,
             Refuse(r, label, batchable)
      PROVE  ServingInv'
  <2>1. requests' = [requests EXCEPT ![r] = [pc |-> "refused"]]
        /\ UNCHANGED <<policy, rows>>
    BY <1>2 DEF Refuse
  <2>2. QED
    BY <2>1, IdleStorage, LeaveSessions DEF ServingInv
<1>3. ASSUME NEW r \in Requests, NEW label \in Labels, NEW prompt \in Prompts,
             Begin(r, label, prompt)
      PROVE  ServingInv'
  BY <1>3, BeginStorage, BeginRequest, BeginSessions DEF ServingInv
<1>4. ASSUME NEW r \in Requests, EndSegment(r)
      PROVE  ServingInv'
  BY <1>4, EndSegmentStorage, EndSegmentSessions DEF ServingInv
<1>5. ASSUME NEW r \in Requests, NEW token \in Generated, Finish(r, token)
      PROVE  ServingInv'
  <2>1. requests' = [requests EXCEPT ![r] = [pc |-> "done"]]
    BY <1>5 DEF Finish
  <2>2. QED
    BY <1>5, <2>1, FinishStorage, LeaveSessions DEF ServingInv
<1>6. ASSUME NEW r \in Requests, Stop(r)
      PROVE  ServingInv'
  <2>1. requests' = [requests EXCEPT ![r] = [pc |-> "done"]]
        /\ UNCHANGED <<policy, rows>>
    BY <1>6 DEF Stop
  <2>2. QED
    BY <2>1, IdleStorage, LeaveSessions DEF ServingInv
<1>7. QED
  BY <1>1, <1>2, <1>3, <1>4, <1>5, <1>6 DEF Next

(* It holds from the start, with nothing stored and every request waiting. *)
LEMMA ServingInit ==
    ASSUME Init
    PROVE  ServingInv
<1>1. Resident(policy) = {} /\ DOMAIN rows = {}
  BY DEF Init, EmptyPolicy, Resident
<1>2. StorageInv
  BY <1>1, EmptySafe DEF Init, StorageInv, Authentic
<1>3. SessionsInv
  BY DEF Init, SessionsInv, Running, Waiting
<1>4. QED
  BY <1>2, <1>3 DEF ServingInv

(* ServingInv is an inductive invariant of the facade.                     *)
LEMMA ServingIsInductive == Spec => []ServingInv
<1>1. Init => ServingInv
  BY ServingInit
<1>2. ServingInv /\ [Next]_vars => ServingInv'
  BY ServingNext
<1>3. QED
  BY <1>1, <1>2, PTL DEF Spec

-----------------------------------------------------------------------------
(* The theorems.                                                           *)

(* mlx.py insert_cache, insert_stable_candidate, insert_active_successor:  *)
(* however requests interleave, the storage holds the entries the policy   *)
(* lists, under the same role and bytes, and both stay within the limits.  *)
THEOREM StorageIsMirrored == Spec => []StorageMirrorsPolicy
<1>1. ServingInv => StorageMirrorsPolicy
  BY DEF ServingInv, StorageInv, StorageMirrorsPolicy, Coherent
<1>2. QED
  BY <1>1, ServingIsInductive, PTL

(* mlx.py fetch_nearest_cache and the generation-safety step: what is      *)
(* stored under a key is the state of its tokens in its domain, and a      *)
(* request goes on from a prefix of its own prompt, in its own domain,     *)
(* with at least one token left to evaluate.                               *)
THEOREM ReuseStaysExact == Spec => []ReuseIsExact
<1>1. ASSUME ServingInv
      PROVE  ReuseIsExact
  <2>1. ASSUME NEW k \in DOMAIN rows
        PROVE  /\ rows[k].payload.tokens = k.tokens
               /\ k.namespace = CacheNamespace("model", rows[k].payload.domain)
    <3>1. k = KeyOf(Space(rows[k].payload.domain), rows[k].payload.tokens)
      BY <1>1 DEF ServingInv, StorageInv, Authentic
    <3>2. QED
      BY <3>1 DEF KeyOf, Space
  <2>2. ASSUME NEW r \in Running
        PROVE  LET request == requests[r]
               IN  /\ request.payload.domain = request.domain
                   /\ request.payload.tokens \o request.rest = request.prompt.tokens
                   /\ request.rest # <<>>
    <3> DEFINE q == requests[r]
    <3>1. Session(q)
      BY <1>1 DEF ServingInv, SessionsInv
    <3> HIDE DEF q
    <3>2. /\ q.prompt \in Prompts /\ q.cached \in Nat /\ q.cached < Len(q.prompt.tokens)
          /\ q.payload.domain = q.domain
          /\ q.payload.tokens = SubSeq(q.prompt.tokens, 1, q.cached)
          /\ q.rest = Suffix(q.prompt.tokens, q.cached)
      BY <3>1 DEF Session, SessionState, State
    <3>3. /\ q.prompt.tokens \in Seq(Tokens) /\ Len(q.prompt.tokens) \in Nat
          /\ Len(q.prompt.tokens) >= 2
      BY <3>2, PromptFacts
    <3>4. q.cached \in 0 .. Len(q.prompt.tokens) /\ q.cached \in 0 .. Len(q.prompt.tokens) - 1
      BY <3>2, <3>3
    <3>5. SubSeq(q.prompt.tokens, 1, q.cached) \o Suffix(q.prompt.tokens, q.cached)
             = q.prompt.tokens
      BY <3>3, <3>4, FrontAndRest
    <3>6. Suffix(q.prompt.tokens, q.cached) # <<>>
      BY <3>3, <3>4, EndParts
    <3>7. QED
      BY <3>2, <3>5, <3>6 DEF q
  <2>3. QED
    BY <2>1, <2>2 DEF ReuseIsExact
<1>2. QED
  BY <1>1, ServingIsInductive, PTL

-----------------------------------------------------------------------------
(* One active tail per lineage. A hybrid model saves an active entry only  *)
(* at the last segment of a request, one token short of the prompt, and    *)
(* gives the entry it was served as the predecessor to take out. That is   *)
(* the one active prefix of the prompt there is while the request runs     *)
(* alone: this is what TailInv says beside the property itself.            *)

AllButLast(q) == SubSeq(q.prompt.tokens, 1, Len(q.prompt.tokens) - 1)

Tails == \A j \in policy.buckets["active"], k \in Resident(policy) : ~Extends(k, j)

NonEmpty == \A k \in Resident(policy) : Len(k.tokens) >= 1

\* Nothing stored continues the prompt of q, and the one active entry that q
\* continues is the one it was served.
Fresh(p, q) ==
    /\ \A k \in Resident(p) :
          k.namespace = Space(q.domain) => ~IsStrictPrefix(AllButLast(q), k.tokens)
    /\ q.left # {} => \A j \in p.buckets["active"] :
          j.namespace = Space(q.domain) /\ IsStrictPrefix(j.tokens, q.prompt.tokens)
              => Len(j.tokens) = q.cached

Lone ==
    /\ \A r, s \in Running : r = s
    /\ \A r \in Running : Fresh(policy, requests[r])

TailInv == ~trimmable /\ ~disturbed => Tails /\ NonEmpty /\ Lone

(* The stored keys: sequences of tokens in the namespace of a domain.      *)
LEMMA StoredKeys ==
    ASSUME StorageInv, NEW k \in Resident(policy)
    PROVE  /\ k.tokens \in Seq(Tokens)
           /\ k = KeyOf(k.namespace, k.tokens)
           /\ \A domain : k.namespace = Space(domain) => k \in StoredIn(domain)
<1>1. /\ rows[k].payload \in Payloads
      /\ k = KeyOf(Space(rows[k].payload.domain), rows[k].payload.tokens)
  BY DEF StorageInv, Authentic
<1>2. QED
  BY <1>1 DEF Payloads, KeyOf, StoredIn, StorageInv

(* The active bucket holds resident keys, the active ones.                 *)
LEMMA ActiveKeys ==
    ASSUME StorageInv
    PROVE  policy.buckets["active"]
              = {k \in Resident(policy) : policy.entries[k].role = "active"}
BY RolesAssumption DEF StorageInv, Coherent, Filed

(* A key extends another when its tokens continue the other's in the same  *)
(* namespace.                                                              *)
LEMMA ExtendsIsPrefix ==
    ASSUME NEW k, NEW j, k.tokens \in Seq(Tokens), j.tokens \in Seq(Tokens)
    PROVE  Extends(k, j) <=> /\ j.namespace = k.namespace
                             /\ IsStrictPrefix(j.tokens, k.tokens)
<1> DEFINE s == j.tokens
           t == k.tokens
<1>1. /\ s \in Seq(Tokens) /\ Len(s) \in Nat /\ DOMAIN s = 1 .. Len(s)
      /\ t \in Seq(Tokens) /\ Len(t) \in Nat /\ DOMAIN t = 1 .. Len(t)
  OBVIOUS
<1>2. Cardinality(1 .. Len(s)) = Len(s) /\ Cardinality(1 .. Len(t)) = Len(t)
  <2>1. \A n \in Nat : Cardinality(1 .. n) = n
    BY FS_Interval
  <2>2. QED
    BY <1>1, <2>1
<1>3. Length(j) = Len(s) /\ Length(k) = Len(t)
  BY <1>1, <1>2 DEF Length
<1>4. Extends(k, j) <=> /\ j.namespace = k.namespace
                        /\ Len(s) < Len(t)
                        /\ \A i \in 1 .. Len(s) : t[i] = s[i]
  BY <1>1, <1>3 DEF Extends
<1>5. IsStrictPrefix(s, t) <=> Len(s) < Len(t) /\ s = SubSeq(t, 1, Len(s))
  BY <1>1, StrictPrefixParts
<1> HIDE DEF s, t
<1>6. ASSUME Len(s) < Len(t)
      PROVE  (s = SubSeq(t, 1, Len(s))) <=> \A i \in 1 .. Len(s) : t[i] = s[i]
  <2> DEFINE u == SubSeq(t, 1, Len(s))
  <2>1. Len(s) \in 0 .. Len(t)
    BY <1>1, <1>6
  <2>2. u \in Seq(Tokens) /\ Len(u) = Len(s) /\ \A i \in 1 .. Len(s) : u[i] = t[i]
    BY <1>1, <2>1, FrontAndRest
  <2> HIDE DEF u
  <2>3. (s = u) <=> \A i \in 1 .. Len(s) : t[i] = s[i]
    BY <1>1, <2>2, SameSeq
  <2>4. QED
    BY <2>3 DEF u
<1>7. QED
  BY <1>4, <1>5, <1>6 DEF s, t

\* What a save does to the keys: at most one comes, active if roles say so.
Grown(key, roles) ==
    /\ Resident(policy)' \subseteq Resident(policy) \cup {key}
    /\ \A j \in policy'.buckets["active"] :
          j \in policy.buckets["active"] \/ (j = key /\ "active" \in roles)

(* A save keeps the tails apart when what it takes out is all the active   *)
(* entries that the new one continues, and nothing continues the new one.  *)
LEMMA SavedTails ==
    ASSUME StorageInv, Tails, NonEmpty, NEW key, NEW payload, NEW roles, NEW compacted,
           Saved(key, payload, roles, compacted), Len(key.tokens) >= 1,
           ~Extends(key, key),
           \A j \in policy.buckets["active"] \ compacted : ~Extends(key, j),
           "active" \in roles => \A k \in Resident(policy) : ~Extends(k, key)
    PROVE  Tails' /\ NonEmpty' /\ Grown(key, roles)
<1>1. CASE UNCHANGED <<policy, rows>>
  BY <1>1 DEF Tails, NonEmpty, Grown, Resident
<1>2. ASSUME NEW planned, NEW plan, Sound(planned, plan, key, payload),
             plan.accepted => plan.role \in roles /\ compacted \subseteq DOMAIN plan.evictions,
             Admit(plan, planned, payload)
      PROVE  Tails' /\ NonEmpty' /\ Grown(key, roles)
  <2>1. Resident(planned) = Resident(policy) /\ planned.buckets = policy.buckets
    BY <1>2 DEF Sound, Resident
  <2>2. CASE ~plan.accepted
    <3>1. policy' = planned
      BY <1>2, <2>2 DEF Admit
    <3>2. QED
      BY <2>1, <3>1 DEF Tails, NonEmpty, Grown
  <2>3. CASE plan.accepted
    <3>1. policy' = Commit(planned, plan) /\ plan.key = key
      BY <1>2, <2>3 DEF Admit, Sound
    <3>2. Resident(policy') \subseteq Resident(policy) \cup {key}
      BY <1>2, <2>1, <2>3, <3>1, CommitResident DEF Sound
    <3>3. \A j \in policy'.buckets["active"] :
             \/ j = key /\ "active" \in roles
             \/ j \in policy.buckets["active"] \ compacted
      <4>1. "active" \in Roles
        BY RolesAssumption
      <4>2. \A j \in policy'.buckets["active"] :
               \/ j = plan.key /\ "active" = plan.role
               \/ j \in planned.buckets["active"] \ DOMAIN plan.evictions
        BY <1>2, <2>3, <3>1, <4>1, CommitBucket DEF Sound
      <4>3. QED
        BY <1>2, <2>1, <2>3, <3>1, <4>2
    <3>4. Tails'
      BY <3>2, <3>3 DEF Tails
    <3>5. QED
      BY <3>2, <3>3, <3>4 DEF NonEmpty, Grown
  <2>4. QED
    BY <2>2, <2>3
<1>3. QED
  BY <1>1, <1>2 DEF Saved

(* What the end of a segment does to the keys: the new one is active only  *)
(* when it was the last segment.                                           *)
LEMMA SegmentTails ==
    ASSUME ServingInv, Tails, NonEmpty, ~trimmable, NEW q, Session(q), Fresh(policy, q),
           NEW i, NEW n, Ends(q, i, n)
    PROVE  /\ Tails' /\ NonEmpty'
           /\ \E roles : /\ Grown(SegmentKey(q, n), roles)
                         /\ "active" \in roles => q.left = {i}
<1> DEFINE tokens == q.prompt.tokens
           key == SegmentKey(q, n)
           payload == SegmentState(q, n)
           type == q.prompt.types[i]
           served == KeyOf(key.namespace, SubSeq(tokens, 1, q.cached))
           space == Space(q.domain)
<1>1. /\ q.prompt \in Prompts /\ q.domain \in Domains
      /\ q.left \subseteq DOMAIN q.prompt.ends
  BY DEF Session, SessionState
<1>2. /\ i \in q.left /\ i \in DOMAIN q.prompt.ends
      /\ n \in 1 .. Len(tokens) - 1
      /\ q.left = {i} => n = Len(tokens) - 1
  BY DEF Ends
<1>3. /\ tokens \in Seq(Tokens) /\ Len(tokens) \in Nat /\ Len(tokens) >= 2
      /\ type \in Roles
      /\ type = "active" => Len(q.prompt.ends) = 1
      /\ DOMAIN q.prompt.ends = 1 .. Len(q.prompt.ends)
  BY <1>1, <1>2, PromptFacts
<1>4. SaveHybrid(q, key, payload, type, q.left = {i})
  BY Zenon DEF Ends, SegmentKey, SegmentState
<1>5. key \in Keys /\ payload \in Payloads
  <2>1. n \in 1 .. Len(tokens)
    BY <1>2, <1>3
  <2>2. QED
    BY <2>1, SegmentTypes
<1>6. /\ key.tokens = SubSeq(tokens, 1, n) /\ key.namespace = space
      /\ key.tokens \in Seq(Tokens) /\ Len(key.tokens) = n
  <2>1. n \in 0 .. Len(tokens)
    BY <1>2, <1>3
  <2>2. QED
    BY <1>3, <2>1, FrontAndRest DEF SegmentKey, KeyOf
<1> HIDE DEF key, payload, type, tokens
<1>7. ~Extends(key, key)
  BY <1>6, ExtendsIsPrefix DEF IsStrictPrefix
<1>8. ASSUME n = Len(tokens) - 1
      PROVE  \A k \in Resident(policy) : ~Extends(k, key)
  <2>1. \A k \in Resident(policy) : k.namespace = space => ~IsStrictPrefix(key.tokens, k.tokens)
    BY <1>6, <1>8 DEF Fresh, AllButLast, tokens
  <2>2. QED
    BY <1>6, <2>1, StoredKeys, ExtendsIsPrefix DEF ServingInv
<1>9. ASSUME NEW j \in policy.buckets["active"], Extends(key, j)
      PROVE  /\ Len(j.tokens) = q.cached
             /\ j = served /\ j \in ActivePredecessor(policy, key, "active", served)
  <2>1. j \in Resident(policy) /\ policy.entries[j].role = "active"
    BY ActiveKeys DEF ServingInv
  <2>2. j.tokens \in Seq(Tokens) /\ j = KeyOf(j.namespace, j.tokens)
    BY <2>1, StoredKeys DEF ServingInv
  <2>3. j.namespace = key.namespace /\ IsStrictPrefix(j.tokens, key.tokens)
    BY <1>6, <1>9, <2>2, ExtendsIsPrefix
  <2>4. Len(j.tokens) < n /\ j.tokens = SubSeq(SubSeq(tokens, 1, n), 1, Len(j.tokens))
    BY <1>6, <2>2, <2>3, StrictPrefixParts
  <2>5. Len(j.tokens) < Len(tokens) /\ j.tokens = SubSeq(tokens, 1, Len(j.tokens))
    <3>1. /\ n \in 0 .. Len(tokens) /\ Len(j.tokens) \in 0 .. n
          /\ Len(j.tokens) < Len(tokens)
      BY <1>2, <1>3, <2>2, <2>4
    <3>2. QED
      BY <1>3, <2>4, <3>1, FrontOfFront
  <2>6. IsStrictPrefix(j.tokens, tokens)
    BY <1>3, <2>2, <2>5, StrictPrefixParts
  <2>7. Len(j.tokens) = q.cached
    BY <1>2, <1>6, <2>3, <2>6 DEF Fresh, tokens
  <2>8. j = served
    <3>1. j.tokens = SubSeq(tokens, 1, q.cached)
      BY <2>5, <2>7
    <3>2. QED
      BY <2>2, <2>3, <3>1
  <2>9. QED
    BY <1>9, <2>1, <2>7, <2>8 DEF ActivePredecessor
<1> HIDE DEF served, space
<1>10. CASE UNCHANGED <<policy, rows>>
  <2>1. Tails' /\ NonEmpty' /\ Grown(key, {})
    BY <1>10 DEF Tails, NonEmpty, Grown, Resident
  <2>2. QED
    BY <2>1 DEF key
<1>11. CASE q.cached = 0 /\ Saved(key, payload, {type, "stable"}, {})
  <2>1. \A j \in policy.buckets["active"] : ~Extends(key, j)
    BY <1>9, <1>11, ActiveKeys DEF NonEmpty, ServingInv
  <2>2. "active" \in {type, "stable"} => q.left = {i}
    <3>1. ASSUME type = "active" PROVE q.left = {i}
      <4>1. DOMAIN q.prompt.ends = 1 .. 1
        BY <1>3, <3>1
      <4>2. q.left \subseteq 1 .. 1 /\ i \in 1 .. 1 /\ i \in q.left
        BY <1>1, <1>2, <4>1, Zenon
      <4>3. \A j \in 1 .. 1 : j = 1
        OBVIOUS
      <4>4. QED
        BY <4>2, <4>3
    <3>2. "stable" # "active"
      OBVIOUS
    <3>3. QED
      BY <3>1, <3>2
  <2>3. "active" \in {type, "stable"} => \A k \in Resident(policy) : ~Extends(k, key)
    BY <1>2, <1>8, <2>2 DEF tokens
  <2>4. Tails' /\ NonEmpty' /\ Grown(key, {type, "stable"})
    <3>1. Len(key.tokens) >= 1
      BY <1>2, <1>6
    <3>2. QED
      BY <1>7, <1>11, <2>1, <2>3, <3>1, SavedTails DEF ServingInv
  <2>5. QED
    BY <2>2, <2>4 DEF key
<1>12. CASE /\ q.left = {i}
            /\ Saved(key, payload, {"active"}, ActivePredecessor(policy, key, "active", served))
  <2>1. \A j \in policy.buckets["active"] \ ActivePredecessor(policy, key, "active", served) :
           ~Extends(key, j)
    BY <1>9
  <2>2. \A k \in Resident(policy) : ~Extends(k, key)
    BY <1>2, <1>8, <1>12 DEF tokens
  <2>3. Tails' /\ NonEmpty' /\ Grown(key, {"active"})
    <3>1. Len(key.tokens) >= 1
      BY <1>2, <1>6
    <3>2. QED
      BY <1>7, <1>12, <2>1, <2>2, <3>1, SavedTails DEF ServingInv
  <2>4. QED
    BY <1>12, <2>3 DEF key
<1>13. QED
  <2>1. \/ UNCHANGED <<policy, rows>>
        \/ q.cached = 0 /\ ~q.saved /\ Saved(key, payload, {type, "stable"}, {})
        \/ (q.left = {i}) /\ Saved(key, payload, {"active"},
                                   ActivePredecessor(policy, key, "active", served))
    BY <1>3, <1>4, <1>5, HybridSaves DEF ServingInv, served, tokens
  <2>2. QED
    BY <1>10, <1>11, <1>12, <2>1

(* The end of a segment keeps the request fresh and alone.                 *)
LEMMA EndSegmentTail ==
    ASSUME ServingInv, TailInv, NEW r \in Requests, EndSegment(r)
    PROVE  TailInv'
<1> SUFFICES ASSUME ~trimmable', ~disturbed'
             PROVE  Tails' /\ NonEmpty' /\ Lone'
  BY DEF TailInv
<1> DEFINE q == requests[r]
           after == requests'[r]
<1>1. trimmable' = trimmable /\ disturbed' = disturbed /\ r \in Running
  BY DEF EndSegment
<1>2. Tails /\ NonEmpty /\ Lone
  BY <1>1 DEF TailInv
<1>3. Session(q) /\ Fresh(policy, q) /\ \A s \in Running : s = r
  BY <1>1, <1>2 DEF Lone, ServingInv, SessionsInv
<1>4. PICK i, n : /\ Ends(q, i, n)
                  /\ requests' = [requests EXCEPT
                        ![r].left = @ \ {i}, ![r].saved = ~trimmable \/ @]
  BY SegmentEnds DEF ServingInv
<1>5. q \in SessionState /\ DOMAIN requests = Requests
  BY <1>3 DEF Session, ServingInv, SessionsInv
<1>6. /\ \A s \in Requests \ {r} : requests'[s] = requests[s]
      /\ after = [q EXCEPT !.left = @ \ {i}, !.saved = ~trimmable \/ @]
  BY <1>4, <1>5
<1> HIDE DEF q, after
<1>7. /\ after.prompt = q.prompt /\ after.domain = q.domain /\ after.cached = q.cached
      /\ after.left = q.left \ {i}
  BY <1>5, <1>6 DEF SessionState
<1>8. \A s \in Running' : s = r
  BY <1>3, <1>6 DEF Running
<1>9. /\ Tails' /\ NonEmpty'
      /\ \E roles : Grown(SegmentKey(q, n), roles) /\ ("active" \in roles => q.left = {i})
  BY <1>1, <1>2, <1>3, <1>4, SegmentTails
<1> DEFINE key == SegmentKey(q, n)
<1>10. PICK roles : Grown(key, roles) /\ ("active" \in roles => q.left = {i})
  BY <1>9
<1>11. ~IsStrictPrefix(AllButLast(q), key.tokens)
  <2> DEFINE tokens == q.prompt.tokens
  <2>1. tokens \in Seq(Tokens) /\ Len(tokens) \in Nat /\ Len(tokens) >= 2
    BY <1>5, PromptFacts DEF SessionState
  <2>2. n \in 1 .. Len(tokens) - 1
    BY <1>4 DEF Ends
  <2>3. n \in 0 .. Len(tokens) /\ Len(tokens) - 1 \in 0 .. Len(tokens)
    BY <2>1, <2>2
  <2> HIDE DEF tokens
  <2>4. /\ SubSeq(tokens, 1, n) \in Seq(Tokens) /\ Len(SubSeq(tokens, 1, n)) = n
        /\ SubSeq(tokens, 1, Len(tokens) - 1) \in Seq(Tokens)
        /\ Len(SubSeq(tokens, 1, Len(tokens) - 1)) = Len(tokens) - 1
    BY <2>1, <2>3, FrontAndRest
  <2>5. ~IsStrictPrefix(SubSeq(tokens, 1, Len(tokens) - 1), SubSeq(tokens, 1, n))
    <3>1. ~(Len(tokens) - 1 < n)
      BY <2>1, <2>2
    <3>2. QED
      BY <2>4, <3>1, StrictPrefixParts
  <2>6. QED
    BY <2>5 DEF AllButLast, SegmentKey, KeyOf, tokens
<1> HIDE DEF key
<1>12. Fresh(policy', after)
  <2>1. \A k \in Resident(policy') :
           k.namespace = Space(q.domain) => ~IsStrictPrefix(AllButLast(q), k.tokens)
    BY <1>3, <1>10, <1>11 DEF Grown, Fresh
  <2>2. ASSUME after.left # {}, NEW j \in policy'.buckets["active"],
               j.namespace = Space(q.domain), IsStrictPrefix(j.tokens, q.prompt.tokens)
        PROVE  Len(j.tokens) = q.cached
    <3>1. q.left # {i} /\ q.left # {}
      BY <1>7, <2>2
    <3>2. j \in policy.buckets["active"]
      BY <1>10, <3>1, <2>2 DEF Grown
    <3>3. QED
      BY <1>3, <2>2, <3>1, <3>2 DEF Fresh
  <2>3. AllButLast(after) = AllButLast(q)
    BY <1>7 DEF AllButLast
  <2>4. QED
    BY <1>7, <2>1, <2>2, <2>3 DEF Fresh, after
<1>13. Lone'
  BY <1>8, <1>12 DEF Lone, after
<1>14. QED
  BY <1>9, <1>13

(* A request that begins undisturbed is alone, and was served the one      *)
(* active entry that its prompt continues.                                 *)
LEMMA BeginTail ==
    ASSUME ServingInv, TailInv, NEW r \in Requests, NEW label \in Labels,
           NEW prompt \in Prompts, Begin(r, label, prompt)
    PROVE  TailInv'
<1> SUFFICES ASSUME ~trimmable', ~disturbed'
             PROVE  Tails' /\ NonEmpty' /\ Lone'
  BY DEF TailInv
<1> DEFINE space  == Space(Domain(label))
           tokens == prompt.tokens
           front  == SubSeq(tokens, 1, Len(tokens) - 1)
<1>1. /\ ~trimmable /\ ~disturbed /\ Running = {}
      /\ \A k \in Resident(policy) : k.namespace = space => ~IsStrictPrefix(front, k.tokens)
  <2>1. /\ trimmable' = trimmable
        /\ disturbed' = (\/ disturbed
                         \/ Running # {}
                         \/ \E k \in Resident(policy) :
                               k.namespace = space /\ IsStrictPrefix(front, k.tokens))
    BY Zenon DEF Begin, Space
  <2>2. QED
    BY <2>1
<1>2. Tails /\ NonEmpty
  BY <1>1 DEF TailInv
<1>3. Resident(policy') = Resident(policy) /\ policy'.buckets = policy.buckets
  BY BeginCredits DEF ServingInv, Alike
<1>4. Tails' /\ NonEmpty'
  BY <1>2, <1>3 DEF Tails, NonEmpty
<1>5. PICK q : Begun(r, label, prompt, q)
  BY BeginRequest DEF ServingInv
<1>6. q.prompt = prompt /\ q.domain = Domain(label)
  BY <1>5 DEF Begun
<1>7. /\ \A s \in Requests : requests'[s] = IF s = r THEN q ELSE requests[s]
  BY <1>5 DEF Begun, ServingInv, SessionsInv
<1>8. \A s \in Running' : s = r
  BY <1>1, <1>7 DEF Running
<1>9. tokens \in Seq(Tokens) /\ Len(tokens) \in Nat /\ Len(tokens) >= 2
  BY PromptFacts
<1>10. IsStrictPrefix(front, tokens)
  <2>1. Len(tokens) - 1 \in 0 .. Len(tokens)
    BY <1>9
  <2>2. front \in Seq(Tokens) /\ Len(front) = Len(tokens) - 1
    BY <1>9, <2>1, FrontAndRest
  <2>3. Len(front) < Len(tokens) /\ front = SubSeq(tokens, 1, Len(front))
    BY <1>9, <2>2
  <2> HIDE DEF front, tokens
  <2>4. QED
    BY <1>9, <2>2, <2>3, StrictPrefixParts
<1>11. KeyOf(space, tokens) \notin DOMAIN rows
  BY <1>1, <1>10 DEF ServingInv, StorageInv, KeyOf
<1> DEFINE before == StoredBefore(Domain(label), tokens)
<1>12. \/ q.cached = 0 /\ before = {}
       \/ \E k \in before : /\ Len(k.tokens) = q.cached
                            /\ \A j \in before : Len(j.tokens) <= q.cached
  BY <1>1, <1>5, <1>6, <1>11 DEF Begun
<1>13. ASSUME NEW j \in policy.buckets["active"], j.namespace = space,
              IsStrictPrefix(j.tokens, tokens)
       PROVE  Len(j.tokens) = q.cached
  <2>1. j \in Resident(policy)
    BY ActiveKeys DEF ServingInv
  <2>2. j \in before
    BY <1>13, <2>1, StoredKeys DEF ServingInv, StoredBefore
  <2>3. PICK k \in before : /\ Len(k.tokens) = q.cached
                            /\ \A other \in before : Len(other.tokens) <= q.cached
    BY <1>12, <2>2
  <2>4. k \in Resident(policy) /\ k.namespace = space /\ IsStrictPrefix(k.tokens, tokens)
    BY DEF StoredBefore, StoredIn, ServingInv, StorageInv
  <2>5. k.tokens \in Seq(Tokens) /\ j.tokens \in Seq(Tokens)
    BY <2>1, <2>4, StoredKeys DEF ServingInv
  <2>6. ~IsStrictPrefix(j.tokens, k.tokens)
    BY <1>2, <1>13, <2>4, <2>5, ExtendsIsPrefix DEF Tails
  <2>7. /\ Len(j.tokens) \in Nat /\ Len(k.tokens) \in Nat
        /\ Len(k.tokens) < Len(tokens) /\ k.tokens = SubSeq(tokens, 1, Len(k.tokens))
        /\ Len(j.tokens) < Len(tokens) /\ j.tokens = SubSeq(tokens, 1, Len(j.tokens))
        /\ Len(j.tokens) <= Len(k.tokens)
    <3> HIDE DEF tokens, before
    <3>1. QED
      BY <1>9, <1>13, <2>2, <2>3, <2>4, <2>5, StrictPrefixParts
  <2>8. ~(Len(j.tokens) < Len(k.tokens))
    <3> HIDE DEF tokens, before
    <3>1. SUFFICES ASSUME Len(j.tokens) < Len(k.tokens) PROVE FALSE
      OBVIOUS
    <3>2. Len(k.tokens) \in 0 .. Len(tokens) /\ Len(j.tokens) \in 0 .. Len(k.tokens)
      BY <1>9, <2>7, <3>1
    <3>3. SubSeq(SubSeq(tokens, 1, Len(k.tokens)), 1, Len(j.tokens))
             = SubSeq(tokens, 1, Len(j.tokens))
      BY <1>9, <3>2, FrontOfFront
    <3>4. j.tokens = SubSeq(k.tokens, 1, Len(j.tokens))
      BY <2>7, <3>3, Zenon
    <3>5. IsStrictPrefix(j.tokens, k.tokens)
      BY <2>5, <3>1, <3>4, StrictPrefixParts
    <3>6. QED
      BY <2>6, <3>5
  <2>9. QED
    BY <2>3, <2>7, <2>8
<1>14. Fresh(policy', q)
  <2>1. AllButLast(q) = front
    BY <1>6 DEF AllButLast
  <2> HIDE DEF front, space, tokens
  <2>2. /\ \A k \in Resident(policy') :
              k.namespace = space => ~IsStrictPrefix(AllButLast(q), k.tokens)
        /\ \A j \in policy'.buckets["active"] :
              j.namespace = space /\ IsStrictPrefix(j.tokens, tokens)
                  => Len(j.tokens) = q.cached
    BY <1>1, <1>3, <1>13, <2>1
  <2>3. QED
    BY <1>6, <2>2 DEF Fresh, space, tokens
<1>15. Lone'
  BY <1>7, <1>8, <1>14 DEF Lone
<1>16. QED
  BY <1>4, <1>15

(* A step that stores nothing and begins nothing keeps what there is.      *)
LEMMA IdleTail ==
    ASSUME TailInv, UNCHANGED <<trimmable, policy, disturbed>>,
           Running' \subseteq Running, \A s \in Running' : requests'[s] = requests[s]
    PROVE  TailInv'
<1>1. ASSUME Tails, NonEmpty, Lone
      PROVE  Tails' /\ NonEmpty' /\ Lone'
  <2>1. Tails' /\ NonEmpty'
    BY <1>1 DEF Tails, NonEmpty, Resident
  <2>2. \A s \in Running' : Fresh(policy', requests'[s])
    BY <1>1 DEF Lone, Fresh, Resident
  <2>3. QED
    BY <1>1, <2>1, <2>2 DEF Lone
<1>2. QED
  BY <1>1 DEF TailInv

(* When a request leaves, what runs is what ran but for it.                *)
LEMMA LeaveTail ==
    ASSUME ServingInv, TailInv, NEW r \in Requests, NEW q, q.pc # "running",
           requests' = [requests EXCEPT ![r] = q],
           UNCHANGED <<trimmable, policy, disturbed>>
    PROVE  TailInv'
<1>1. \A s \in Requests : requests'[s] = IF s = r THEN q ELSE requests[s]
  BY DEF ServingInv, SessionsInv
<1>2. Running' \subseteq Running /\ \A s \in Running' : requests'[s] = requests[s]
  BY <1>1 DEF Running
<1>3. QED
  BY <1>2, IdleTail

(* Every step keeps the invariant.                                         *)
LEMMA TailNext ==
    ASSUME ServingInv, TailInv, [Next]_vars
    PROVE  TailInv'
<1>1. CASE UNCHANGED vars
  BY <1>1, IdleTail DEF vars, Running
<1>2. ASSUME NEW r \in Requests, NEW label \in Labels, NEW batchable \in BOOLEAN,
             Refuse(r, label, batchable)
      PROVE  TailInv'
  BY <1>2, LeaveTail DEF Refuse
<1>3. ASSUME NEW r \in Requests, NEW label \in Labels, NEW prompt \in Prompts,
             Begin(r, label, prompt)
      PROVE  TailInv'
  BY <1>3, BeginTail
<1>4. ASSUME NEW r \in Requests, EndSegment(r)
      PROVE  TailInv'
  BY <1>4, EndSegmentTail
<1>5. ASSUME NEW r \in Requests, NEW token \in Generated, Finish(r, token)
      PROVE  TailInv'
  <2>1. CASE trimmable
    BY <1>5, <2>1 DEF Finish, TailInv
  <2>2. CASE ~trimmable
    BY <1>5, <2>2, LeaveTail DEF Finish
  <2>3. QED
    BY <2>1, <2>2
<1>6. ASSUME NEW r \in Requests, Stop(r)
      PROVE  TailInv'
  BY <1>6, LeaveTail DEF Stop
<1>7. QED
  BY <1>1, <1>2, <1>3, <1>4, <1>5, <1>6 DEF Next

(* TailInv is an invariant of the facade.                                  *)
LEMMA TailIsInductive == Spec => []TailInv
<1>1. Init => TailInv
  BY EmptySafe DEF Init, TailInv, Tails, NonEmpty, Lone, EmptyPolicy, Resident, Running, Waiting
<1>2. ServingInv /\ TailInv /\ [Next]_vars => TailInv'
  BY TailNext
<1>3. QED
  BY <1>1, <1>2, ServingIsInductive, PTL DEF Spec

(* mlx.py, the hybrid path of insert_cache: of two active entries of a     *)
(* model that is not trimmable none continues the other, unless requests   *)
(* overlapped or a prompt asked for no more than what was already held.    *)
THEOREM TailsStayApart == Spec => []OneTailPerLineage
<1>1. ServingInv /\ TailInv => OneTailPerLineage
  BY ActiveKeys DEF ServingInv, TailInv, Tails, OneTailPerLineage
<1>2. QED
  BY <1>1, ServingIsInductive, TailIsInductive, PTL
=============================================================================
