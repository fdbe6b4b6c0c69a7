-------------------------- MODULE SettingsRegister --------------------------
(***************************************************************************)
(* What the user of the finance settings is promised: they are one value,  *)
(* the income and the limits together, and a save replaces the whole of it *)
(* or, when it fails, nothing.  Saves may overlap.                         *)
(***************************************************************************)
CONSTANTS Clients, Values, Initial, NoValue

VARIABLES
    value,      \* the settings
    saving      \* saving[c]: the settings client c is saving

Init ==
    /\ value = Initial
    /\ saving = [c \in Clients |-> NoValue]

Begin(c) ==
    /\ saving[c] = NoValue
    /\ saving'[c] # NoValue /\ saving'[c] \in Values
    /\ saving' = [saving EXCEPT ![c] = saving'[c]]
    /\ UNCHANGED value

Finish(c) == saving' = [saving EXCEPT ![c] = NoValue]

Save(c) == saving[c] # NoValue /\ value' = saving[c] /\ Finish(c)
Abandon(c) == saving[c] # NoValue /\ Finish(c) /\ UNCHANGED value

Next == \E c \in Clients : Begin(c) \/ Save(c) \/ Abandon(c)

Spec == Init /\ [][Next]_<<value, saving>>
=============================================================================
