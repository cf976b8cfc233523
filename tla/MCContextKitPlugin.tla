------------------------- MODULE MCContextKitPlugin -------------------------
(* Instances of ContextKitPlugin for TLC. *)
EXTENDS ContextKitPlugin

CONSTANTS p1, k1, k2

OneProvider == {p1}
OneKey   == {k1}
TwoKeys  == {k1, k2}
NoValues == {}
=============================================================================
