----------------------------- MODULE MCStalePlans -----------------------------
(* Instances of StalePlans for TLC.                                        *)
EXTENDS StalePlans

Key(namespace, tokens) == [namespace |-> namespace, tokens |-> tokens]

ThreeKeys == {Key("a", <<1>>), Key("a", <<1, 2>>), Key("b", <<1>>)}

OneTarget == {<<0, MaxBytes>>}
=============================================================================
