------------------------- MODULE MCCacheCoordinator -------------------------
(* Instances of CacheCoordinator for TLC.                                  *)
EXTENDS CacheCoordinator

Key(namespace, tokens) == [namespace |-> namespace, tokens |-> tokens]

ThreeKeys == {Key("a", <<1>>), Key("a", <<1, 2>>), Key("b", <<1>>)}

SomeTargets == {<<0, MaxBytes>>, <<1, MaxBytes>>}
=============================================================================
