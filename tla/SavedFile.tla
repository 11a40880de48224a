----------------------------- MODULE SavedFile -----------------------------
(***************************************************************************)
(* What manifest.save promises, "Atomically save a manifest": a reader     *)
(* finds the whole of a value that somebody has saved, the last one to     *)
(* take effect.  A save takes effect at one moment between its start and   *)
(* its end, or never if its writer dies.                                   *)
(***************************************************************************)
CONSTANTS
    Writer,  \* processes that save
    Value,   \* manifests
    First,   \* the manifest there is at the start
    Nothing  \* no manifest

VARIABLES
    value,  \* what a reader finds
    saving  \* what each writer is saving, or Nothing

Init ==
    /\ value = First
    /\ saving = [w \in Writer |-> Nothing]

Begin(w) ==
    /\ saving[w] = Nothing
    /\ \E v \in Value : saving' = [saving EXCEPT ![w] = v]
    /\ UNCHANGED value

Commit(w) ==
    /\ saving[w] # Nothing
    /\ value' = saving[w]
    /\ saving' = [saving EXCEPT ![w] = Nothing]

Abandon(w) ==
    /\ saving[w] # Nothing
    /\ saving' = [saving EXCEPT ![w] = Nothing]
    /\ UNCHANGED value

Next == \E w \in Writer : Begin(w) \/ Commit(w) \/ Abandon(w)

Spec == Init /\ [][Next]_<<value, saving>>
=============================================================================
