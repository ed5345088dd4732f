----------------------------- MODULE MCWhitelist -----------------------------
(* An instance of Whitelist for TLC: one host more than the whitelist      *)
(* takes, so that it can be full.                                          *)
EXTENDS Whitelist, TLC

CONSTANTS h1, h2, h3

ThreeHosts == {h1, h2, h3}
Symmetry == Permutations(ThreeHosts)

=============================================================================
