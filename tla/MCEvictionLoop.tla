--------------------------- MODULE MCEvictionLoop ---------------------------
(***************************************************************************)
(* Instances of EvictionLoop for TLC.                                      *)
(***************************************************************************)
EXTENDS EvictionLoop

Key(namespace, tokens) == [namespace |-> namespace, tokens |-> tokens]

\* One lineage of two prefixes, and another namespace.
Lineages == {Key("a", <<1>>), Key("a", <<1, 2>>), Key("b", <<1>>)}

\* Nothing, less than the working pair, and less than the capacity.
Targets == {<<0, 0>>, <<1, MaxBytes>>, <<MaxSequences, 2>>}
=============================================================================
