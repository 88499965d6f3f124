--------------------------- MODULE MCManagedCache ---------------------------
(* Instances of ManagedCache for TLC.                                      *)
EXTENDS ManagedCache

Key(tokens) == [namespace |-> "a", tokens |-> tokens]

\* A prefix and its extension.
TwoKeys == {Key(<<1>>), Key(<<1, 2>>)}

OneByte == [k \in Keys |-> 1]

ByTokens == [k \in Keys |-> Length(k)]

NoCheckpoint == [k \in Keys |-> 0]

SomeTargets == {<<0, MaxBytes>>}
=============================================================================
