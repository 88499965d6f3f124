------------------------- MODULE TransactionalCache -------------------------
(***************************************************************************)
(* What a coordinated cache promises its callers: a map from keys to       *)
(* payloads within the sequence limit, in which every call either takes    *)
(* effect at once or leaves no trace. How victims are chosen, and that the *)
(* map is kept in two places, is not visible here.                         *)
(***************************************************************************)
EXTENDS Integers, FiniteSets

CONSTANTS Keys, Payloads, MaxSequences

VARIABLE content

Empty == [k \in {} |-> {}]

Init == content = Empty

\* One payload is stored, and any others may make room for it.
Store(key, payload, evicted) ==
    /\ content' = [k \in (DOMAIN content \ evicted) \cup {key} |->
                      IF k = key THEN payload ELSE content[k]]
    /\ Cardinality(DOMAIN content') <= MaxSequences

Drop(evicted) == content' = [k \in DOMAIN content \ evicted |-> content[k]]

Next ==
    \E evicted \in SUBSET DOMAIN content :
        \/ Drop(evicted)
        \/ \E key \in Keys, payload \in Payloads : Store(key, payload, evicted)

Spec == Init /\ [][Next]_content
=============================================================================
