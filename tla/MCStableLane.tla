---------------------------- MODULE MCStableLane ----------------------------
(* Instances of StableLane for TLC.                                        *)
EXTENDS StableLane

Key(namespace, tokens) == [namespace |-> namespace, tokens |-> tokens]

\* Two prefixes of one length and a longer one.
Prefixes == {Key("a", <<1>>), Key("a", <<2>>), Key("a", <<1, 2>>)}

\* A trim to one sequence and a full one.
SomeTargets == {<<1, MaxBytes>>, <<0, MaxBytes>>}
=============================================================================
