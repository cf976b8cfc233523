----------------------------- MODULE MCRegistry -----------------------------
(* Instances of Registry for TLC. *)
EXTENDS Registry, TLC

CONSTANTS k1, k2, f1, f2, i1, i2, n1, n2, n3

OneKey   == {k1}
TwoKeys  == {k1, k2}
NoKeys   == {}
TwoFiles == {f1, f2}
OneFile  == {f1}
ThreeInodes == {n1, n2, n3}
TwoInfos == {i1, i2}
MainInfo == {i1}

RegistrySymmetry == Permutations(TwoFiles) \cup Permutations(ThreeInodes)
=============================================================================
