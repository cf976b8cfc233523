----------------------------- MODULE MCProvider -----------------------------
(* Instances of Provider for TLC. *)
EXTENDS Provider, TLC

CONSTANTS p1, p2, k1, k2, v1

OneProvider  == {p1}
TwoProviders == {p1, p2}
OneKey  == {k1}
TwoKeys == {k1, k2}
OneValue == {v1}
=============================================================================
