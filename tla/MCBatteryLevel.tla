--------------------------- MODULE MCBatteryLevel ---------------------------
(* An instance of BatteryLevel for TLC: samples at both ends of the        *)
(* converter's range and on each straight line of the discharge curve.     *)
EXTENDS BatteryLevel

SomeSamples == {0, 323, 373, 421, 446, 460, 1023}

=============================================================================
