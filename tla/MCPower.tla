------------------------------- MODULE MCPower -------------------------------
(* Instances of Power for TLC: a tick is 30 s, so the four delays are the  *)
(* ones of the source.                                                     *)
EXTENDS Power

OneMinute == 2
FiveMinutes == 10
FastTimeout == 1
SlowTimeout == 6

=============================================================================
