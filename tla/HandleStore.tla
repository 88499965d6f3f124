----------------------------- MODULE HandleStore -----------------------------
(***************************************************************************)
(* What a managed store promises its clients: while a model stays loaded,  *)
(* a handle means one prompt for ever, the one that was in the slot when   *)
(* it was given out. States may be lost at any time, but none changes or   *)
(* comes back. Requests, who sends them and when they are executed,        *)
(* refused or lost, and which states are lost are not visible here.        *)
(***************************************************************************)
EXTENDS Naturals

CONSTANTS Prompts, Ids, None

VARIABLES
    epoch,  \* the model load
    kept,   \* a function from the live handles to their prompts
    given,  \* the handles given out since the load
    slot    \* the prompt in the slot, None when it is clear

Contents == <<epoch, kept, given, slot>>

Empty == [h \in {} |-> None]

Init == Contents = <<1, Empty, {}, None>>

Fill ==
    /\ slot' \in Prompts \cup {None}
    /\ UNCHANGED <<epoch, kept, given>>

Lose(gone) ==
    /\ kept' = [h \in DOMAIN kept \ gone |-> kept[h]]
    /\ UNCHANGED <<epoch, given, slot>>

\* The slot is kept under a fresh handle; others may make room for it.
Keep(id, gone) ==
    /\ slot # None
    /\ id \notin given
    /\ given' = given \cup {id}
    /\ kept' = [h \in (DOMAIN kept \ gone) \cup {id} |-> IF h = id THEN slot ELSE kept[h]]
    /\ UNCHANGED <<epoch, slot>>

Load == Contents' = <<epoch + 1, Empty, {}, None>>

Next ==
    \/ Fill
    \/ \E gone \in SUBSET DOMAIN kept : Lose(gone) \/ \E id \in Ids : Keep(id, gone)
    \/ Load

Spec == Init /\ [][Next]_Contents
=============================================================================
