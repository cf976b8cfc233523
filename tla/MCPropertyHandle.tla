-------------------------- MODULE MCPropertyHandle --------------------------
(* Instances of PropertyHandle for TLC.  Values are their time stamps; 0 is null. *)
EXTENDS PropertyHandle, TLC

CONSTANTS p1, p2, k1, c1, c2

OneProvider  == {p1}
TwoProviders == {p1, p2}
OneKey == {k1}
OneProperty   == {c1}
TwoProperties == {c1, c2}
NoProperty == {}
NoValues  == {}
TwoValues == {1, 2}
OldestValue == {1}

PropertySymmetry == Permutations(TwoProperties)

\* Of fixed providers, none of them the commander.
ProviderSymmetry == Permutations(TwoProviders)

ListedFirst  == {{p1}}
ListedBoth   == {{p1, p2}}
ListedAny    == {{p1}, {p2}, {p1, p2}}
=============================================================================
