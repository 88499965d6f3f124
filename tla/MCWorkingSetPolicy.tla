------------------------- MODULE MCWorkingSetPolicy -------------------------
(***************************************************************************)
(* Instances of WorkingSetPolicy for TLC.                                  *)
(***************************************************************************)
EXTENDS WorkingSetPolicy

Key(namespace, tokens) == [namespace |-> namespace, tokens |-> tokens]

\* One lineage of two prefixes, a branch of it, and another namespace.
Lineages == {Key("a", <<1>>), Key("a", <<1, 2>>), Key("a", <<3, 4>>), Key("b", <<1>>)}

\* Every target up to the capacity, in each dimension alone.
AllTargets == ({0, 1, 2} \X {MaxBytes}) \cup ({MaxSequences} \X {0, 1, 2})
=============================================================================
