----------------------------- MODULE KeyDelivery -----------------------------
(***************************************************************************)
(* What the path from the keypad to the host promises, whatever happens on *)
(* the way: a report the host is shown is the state of the keys at that    *)
(* moment, never an older one and never a mixture.  The promise lapses     *)
(* while the delivery is disturbed, and only a change of the keys or a     *)
(* reset can end that.                                                     *)
(***************************************************************************)
CONSTANTS
  Keys,      \* states of the keys
  NoKeys,    \* the one after a reset
  Reports,   \* what a report can hold
  None       \* nothing shown on this link yet

VARIABLES
  keys,      \* the state of the keys
  shown,     \* the last report of this link
  disturbed

vars == <<keys, shown, disturbed>>

Init ==
  /\ keys = NoKeys
  /\ shown = None
  /\ disturbed = FALSE

Change ==
  /\ keys' \in Keys \ {keys}
  /\ disturbed' \in BOOLEAN
  /\ UNCHANGED shown

Show ==
  /\ shown' = keys
  /\ UNCHANGED <<keys, disturbed>>

Mislead ==
  /\ disturbed
  /\ shown' \in Reports
  /\ UNCHANGED <<keys, disturbed>>

Disturb ==
  /\ disturbed' = TRUE
  /\ UNCHANGED <<keys, shown>>

LoseHost ==
  /\ shown' = None
  /\ UNCHANGED <<keys, disturbed>>

Reset ==
  /\ keys' = NoKeys
  /\ shown' = None
  /\ disturbed' = FALSE

Next == Change \/ Show \/ Mislead \/ Disturb \/ LoseHost \/ Reset

Spec == Init /\ [][Next]_vars

=============================================================================
