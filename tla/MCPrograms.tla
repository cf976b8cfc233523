----------------------------- MODULE MCPrograms -----------------------------
(* Four models that share nothing but the values, one of them at a time:     *)
(* several providers of one property, a program on the C interface,          *)
(* context-provide, and the check of a value against a type.                 *)
EXTENDS PropertyPrivate, ContextC, ContextProvide, ContextTypes, TLC

CONSTANTS p1, p2, v1, v2, k1, k2, k3, h1, h2

TwoProviders == {p1, p2}
TwoValues    == {v1, v2}
TwoKeys      == {k1, k2}
OneKey       == {k3}
TwoHandles   == {h1, h2}
NoHandles    == {}

NamesOfTypes == {"truth", "bool", "integer", "unknown"}
NewNames     == {"bool", "integer"}
OldTypeNames == {"truth"}

-----------------------------------------------------------------------------
(* Types and values to check                                                 *)

Bounds == {<<>>, <<Parameter("min", "0")>>, <<Parameter("min", "1"), Parameter("max", "2")>>,
           <<Parameter("max", "0")>>, <<Parameter("max", "5"), Parameter("min", "5")>>}

Ranged == {Node(s, bounds) : s \in {"number", "integer", "percentage", "temperature"}, bounds \in Bounds}

\* Elements of lists and maps, as an attribute or as an element of <type>.
Inner == {Bare("bool"), Bare("percentage"), Bare("TRUTH"), Node("list", <<Parameter("max", "0")>>)}
TypeOf(t) == Node("type", <<t>>)

Lists == {Node("list", bounds \o tail) : bounds \in Bounds, tail \in {<<>>} \cup {<<TypeOf(t)>> : t \in Inner}}
Maps  == {Node("map", <<Node("x", tail)>> \o others) :
            tail \in {<<>>} \cup {<<TypeOf(t)>> : t \in Inner},
            others \in {<<>>, <<Node("allow-other-keys", <<>>)>>, <<Node("y", <<TypeOf(Bare("string"))>>)>>}}
         \cup {Node("map", <<Node("allow-other-keys", <<>>)>>)}

Enums == {Node("stringenum", <<Node("x", <<>>), Node("y", <<>>)>>), Node("source", <<Node("x", <<>>)>>),
          Node("intenum", <<Node("x", <<Parameter("value", "1")>>), Node("y", <<Parameter("value", "5")>>)>>),
          Node("intenum", <<Node("min", <<Parameter("value", "1")>>), Node("max", <<Parameter("value", "5")>>)>>)}

Plain == {Bare(s) : s \in {"value", "bool", "string", "source", "list", "map", "percentage", "unknown",
                           "TRUTH", "STRING", "INT", "INTEGER", "DOUBLE"}}

SomeTypes == Ranged \cup Lists \cup Maps \cup Enums \cup Plain

Scalars == {[kind |-> "int", n |-> n] : n \in {-2, 0, 2, 4, 10}} \cup {[kind |-> "double", n |-> n] : n \in {-1, 1, 10}}
           \cup {[kind |-> "string", s |-> s] : s \in {"x", "z", "5"}} \cup {[kind |-> "bool", n |-> 2]}
Few     == {[kind |-> "int", n |-> 2], [kind |-> "double", n |-> 1], [kind |-> "bool", n |-> 2],
            [kind |-> "string", s |-> "x"], [kind |-> "list", items |-> <<>>]}

SomeValues ==
  Scalars
  \cup {[kind |-> "list", items |-> items] : items \in {<<>>} \cup {<<v>> : v \in Few} \cup {<<v, v>> : v \in Few}}
  \cup {[kind |-> "map", entries |-> [k \in keys |-> v]] : keys \in SUBSET {"x", "y"}, v \in Few}

-----------------------------------------------------------------------------
(* The program that runs                                                     *)

VARIABLE program

ProgramsInit ==
  /\ Init /\ ContextCInit /\ ProvideInit /\ TypesInit
  /\ program \in {"overhear", "c", "provide", "types"}
  /\ program # "provide" => ~commander /\ declared = {}
  /\ program # "types" => asked = [type |-> Bare("bool"), value |-> [kind |-> "bool", n |-> 2]]

Overhearing == program = "overhear" /\ Next /\ UNCHANGED <<contextcVars, provideVars, typesVars, program>>
UsingC      == program = "c" /\ ContextCNext /\ UNCHANGED <<propertyVars, provideVars, typesVars, program>>
Providing   == program = "provide" /\ ProvideNext /\ UNCHANGED <<propertyVars, contextcVars, typesVars, program>>
Checking    == program = "types" /\ TypesNext /\ UNCHANGED <<propertyVars, contextcVars, provideVars, program>>

ProgramsNext == Overhearing \/ UsingC \/ Providing \/ Checking

ProgramsSpec ==
  ProgramsInit /\ [][ProgramsNext]_<<propertyVars, contextcVars, provideVars, typesVars, program>>

\* The values of the variables of each program.  The parts say more than types where
\* counters and tables must stay in step: the count of a group is between none and all
\* of its keys (group.cpp:99-117), exactly the keys that were added to context-provide
\* have a type for dump to write (commandwatcher.cpp:174-273), and time stamps of a
\* property are not ahead of the clock (CurrentTimestamp).
ProgramsTypeOK == PropertyTypeOK /\ ContextCTypeOK /\ ProvideTypeOK

Symmetry == Permutations(TwoProviders) \cup Permutations(TwoValues) \cup Permutations(TwoKeys) \cup Permutations(TwoHandles)
=============================================================================
