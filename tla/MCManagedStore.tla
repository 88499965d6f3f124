--------------------------- MODULE MCManagedStore ---------------------------
(* Instances of ManagedStore for TLC.                                      *)
EXTENDS ManagedStore

\* A short prompt, and a long one whose state carries a checkpoint.
TwoPrompts == {"short", "long"}

Sequence == [p \in Prompts |-> IF p = "short" THEN 1 ELSE 2]

Checkpoint == [p \in Prompts |-> IF p = "short" THEN 0 ELSE 1]
=============================================================================
