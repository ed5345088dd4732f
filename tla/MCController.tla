---------------------------- MODULE MCController ----------------------------
(* An instance of Controller for TLC.                                      *)
EXTENDS Controller

CONSTANTS w1, w2

TwoWords == {w1, w2}

=============================================================================
