-------------------------- MODULE MCServiceBackend --------------------------
(* Instances of ServiceBackend for TLC. *)
EXTENDS ServiceBackend, TLC

CONSTANTS k1, k2, c1, c2

OneKey     == {k1}
TwoKeys    == {k1, k2}
TwoClients == {c1, c2}

ServiceSymmetry == Permutations(TwoKeys) \cup Permutations(TwoClients)
=============================================================================
