------------------------------ MODULE Inactivity ------------------------------
(***************************************************************************)
(* When the controller may switch itself off: after SleepDelay ticks in    *)
(* which nobody touched it, or after LonelyDelay ticks in which no host    *)
(* connected.  The promise lapses when a touch came once the delay was     *)
(* over but the system not yet off (late), until it is given again.        *)
(***************************************************************************)
EXTENDS Naturals

CONSTANTS SleepDelay, LonelyDelay

VARIABLES
  on,      \* the system is not switched off
  quiet,   \* ticks since the last touch, SleepDelay standing for more
  lonely,  \* ticks without a host, LonelyDelay standing for more
  late

vars == <<on, quiet, lonely, late>>

Init == on = TRUE /\ quiet = 0 /\ lonely = 0 /\ late = FALSE

AtMost(n, bound) == IF n > bound THEN bound ELSE n

Tick ==
  /\ on
  /\ quiet' = AtMost(quiet + 1, SleepDelay)
  /\ lonely' \in {0, AtMost(lonely + 1, LonelyDelay)}
  /\ UNCHANGED <<on, late>>

Touch ==
  /\ on
  /\ quiet' = 0
  /\ late' \in {late, quiet = SleepDelay}
  /\ UNCHANGED <<on, lonely>>

(* The switching off that was under way has been called off after all.     *)
PromiseAgain ==
  /\ on
  /\ late' = FALSE
  /\ UNCHANGED <<on, quiet, lonely>>

Meet ==
  /\ on
  /\ lonely' = 0
  /\ UNCHANGED <<on, quiet, late>>

SwitchOff ==
  /\ on
  /\ quiet = SleepDelay \/ lonely = LonelyDelay \/ late
  /\ on' = FALSE
  /\ UNCHANGED <<quiet, lonely, late>>

Restart == on' = TRUE /\ quiet' = 0 /\ lonely' = 0 /\ late' = FALSE

Next == Tick \/ Touch \/ PromiseAgain \/ Meet \/ SwitchOff \/ Restart

Spec == Init /\ [][Next]_vars

=============================================================================
