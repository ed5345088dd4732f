------------------------------- MODULE MCLink -------------------------------
(* Link for TLC; its constants are numbers that the configuration gives.   *)
EXTENDS Link

=============================================================================
