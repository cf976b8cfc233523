---------------------------- MODULE ContextTypes ----------------------------
(***************************************************************************)
(* Types of context properties: association trees (assoctree.cpp), read    *)
(* and written as XML (nanoxml.cpp, AssocTree::dumpXML), definitions of    *)
(* types (contexttyperegistryinfo.cpp, spec/core.types), and the check of  *)
(* a value against a type (ContextTypeInfo::typeCheck), next to what       *)
(* core.types says about it.                                               *)
(*                                                                         *)
(* Numbers are counted in halves, so that a double need not be whole.      *)
(***************************************************************************)
EXTENDS Integers, Sequences, SequencesExt

CONSTANTS
  AskedTypes,    \* trees of types to check
  AskedValues,   \* values to check
  Null           \* no tree, no value; a question that has not been answered

VARIABLES
  asked,    \* [type, value]
  verdict   \* [accepted, written], or Null

typesVars == <<asked, verdict>>

-----------------------------------------------------------------------------
(* AssocTree                                                               *)

\* A tree is a name and its nodes; a bare one is a string and not a list of one.
Bare(s) == [name |-> s, bare |-> TRUE, nodes |-> <<>>]
Node(s, nodes) == [name |-> s, bare |-> FALSE, nodes |-> nodes]

NodesNamed(t, name) == SelectSeq(t.nodes, LAMBDA n : ~n.bare /\ n.name = name)

\* AssocTree::node and value: the first list of that name, and what follows its name.
NodeOf(t, name) == IF NodesNamed(t, name) = <<>> THEN Null ELSE Head(NodesNamed(t, name))
ValueOf(t) == IF t = Null THEN Null ELSE IF t.nodes = <<>> THEN Null ELSE Head(t.nodes)
ParameterValue(t, name) == ValueOf(NodeOf(t, name))

\* AssocTree::filterOut
FilterOut(t, name) == Node(t.name, SelectSeq(t.nodes, LAMBDA n : n.name # name))

-----------------------------------------------------------------------------
(* XML                                                                     *)

Opens(s) == [open |-> s]
Closes   == [close |-> TRUE]
Text(s)  == [text |-> s]

\* AssocTree::dumpXML
RECURSIVE DumpXML(_)
DumpXML(t) ==
  IF t.bare THEN <<Text(t.name)>>
  ELSE <<Opens(t.name)>> \o FlattenSeq([i \in DOMAIN t.nodes |-> DumpXML(t.nodes[i])]) \o <<Closes>>

\* Mutant: the element that ends is not attached to the one around it.
PoppedLost(stack) == IF Len(stack) = 1 THEN stack ELSE Tail(stack)

\* NanoXml::popList
Popped(stack) ==
  IF Len(stack) = 1 THEN stack
  ELSE <<[stack[2] EXCEPT !.nodes = Append(@, stack[1])]>> \o SubSeq(stack, 3, Len(stack))

\* NanoXml::startElement, endElement and characters; the stack has its top in front.
Taken(stack, token) ==
  CASE "open" \in DOMAIN token -> <<Node(token.open, <<>>)>> \o stack
    [] "text" \in DOMAIN token -> <<[stack[1] EXCEPT !.nodes = Append(@, Bare(token.text))]>> \o Tail(stack)
    [] OTHER -> Popped(stack)

NanoXmlResult(tokens) == FoldLeft(Taken, <<>>, tokens)[1]

\* What dump writes about a type, and what is read from it again: the value of <type>.
ReadBack(t) == ValueOf(NanoXmlResult(<<Opens("type")>> \o DumpXML(t) \o <<Closes>>))

-----------------------------------------------------------------------------
(* Definitions of types                                                    *)

Parameter(s, text) == Node(s, <<Bare(text)>>)

\* The bases in spec/core.types; value has none.
Bases ==
  [ bool |-> Bare("value"), number |-> Bare("value"), integer |-> Bare("number"),
    string |-> Bare("value"), list |-> Bare("value"), map |-> Bare("value"),
    stringenum |-> Bare("string"), intenum |-> Bare("integer"),
    temperature |-> Node("number", <<Parameter("min", "0")>>),
    percentage |-> Node("integer", <<Parameter("min", "0"), Parameter("max", "5")>>),
    source |-> Node("stringenum", <<Node("x", <<>>), Node("y", <<>>)>>) ]

OldNames == [TRUTH |-> "bool", STRING |-> "string", INT |-> "integer", INTEGER |-> "integer"]

\* typeDefinitionForName: the old names are understood; DOUBLE becomes "double", which
\* no definition has.
ModernType(name) == IF name \in DOMAIN OldNames THEN OldNames[name] ELSE name

\* ContextTypeInfo::base
BaseOf(t) == IF ModernType(t.name) \in DOMAIN Bases THEN Bases[ModernType(t.name)] ELSE Null

\* ContextTypeInfo::ensureNewTypes; the parameters of an old name go.
EnsureNewTypes(t) ==
  IF t.name \in DOMAIN OldNames THEN Bare(OldNames[t.name])
  ELSE IF t.name = "DOUBLE" THEN Bare("number") ELSE t

-----------------------------------------------------------------------------
(* QVariant                                                                *)

\* A value has a kind; numbers and booleans have n, strings s, lists items, maps entries.
Numerals == [s \in {"-1", "0", "1", "2", "5"} |->
               CASE s = "-1" -> -2 [] s = "0" -> 0 [] s = "1" -> 2 [] s = "2" -> 4 [] s = "5" -> 10]
NumberOf(text) == IF text \in DOMAIN Numerals THEN Numerals[text] ELSE 0

\* toDouble and toInt of a parameter; a list converts to 0.
AsNumber(t) == IF t.bare THEN NumberOf(t.name) ELSE 0

CanConvertToDouble(v) == v.kind \in {"bool", "int", "double", "string"}
ToDouble(v) == IF v.kind = "string" THEN NumberOf(v.s) ELSE v.n

InRange(n, min, max) == (min # Null => n >= AsNumber(min)) /\ (max # Null => n <= AsNumber(max))

-----------------------------------------------------------------------------
(* typeCheck                                                               *)

\* Mutant: a parameter of the base is not replaced by that of the type.
Appended(base, p) == Node(base.name, Append(base.nodes, p))

\* A parameter of the type goes to its base and replaces the one there.
Replacing(base, p) == Node(base.name, Append(FilterOut(base, p.name).nodes, p))

\* Mutant: a map with allow-other-keys and others is checked as if it had none.
NoOthers(t) == FALSE
OthersAllowed(t) == \E n \in ToSet(t.nodes) : n.name = "allow-other-keys"

RECURSIVE TypeCheck(_, _)
TypeCheck(t, v) ==
  LET base == BaseOf(t)
      eltype == ParameterValue(t, "type")
      allowedKeys == {n.name : n \in ToSet(t.nodes)} \ {"allow-other-keys"}
      ofKey(k) == ParameterValue(Last(SelectSeq(t.nodes, LAMBDA n : n.name = k)), "type")
  IN /\ base # Null => TypeCheck(FoldLeft(Replacing, base, t.nodes), v)
     /\ CASE t.name = "bool"    -> v.kind = "bool"
          [] t.name = "number"  -> /\ CanConvertToDouble(v)
                                   /\ InRange(ToDouble(v), ParameterValue(t, "min"), ParameterValue(t, "max"))
          [] t.name = "integer" -> v.kind = "int"
          [] t.name = "string"  -> v.kind = "string"
          [] t.name = "list"    -> /\ v.kind = "list"
                                   /\ InRange(2 * Len(v.items), ParameterValue(t, "min"), ParameterValue(t, "max"))
                                   /\ eltype # Null => \A i \in DOMAIN v.items : TypeCheck(eltype, v.items[i])
          [] t.name = "map"     -> /\ v.kind = "map"
                                   /\ allowedKeys # {} =>
                                        \A k \in DOMAIN v.entries :
                                          IF k \in allowedKeys
                                          THEN ofKey(k) # Null => TypeCheck(ofKey(k), v.entries[k])
                                          ELSE OthersAllowed(t)
          [] t.name = "stringenum" -> v.kind = "string" /\ v.s \in {n.name : n \in ToSet(t.nodes)}
          [] t.name = "intenum" -> /\ v.kind = "int"
                                   /\ v.n \in {AsNumber(ParameterValue(n, "value")) : n \in ToSet(t.nodes)}
          [] OTHER -> TRUE

-----------------------------------------------------------------------------
(* A declaration is read, its type written by dump, a value is checked     *)

TypesInit ==
  /\ asked \in [type : AskedTypes, value : AskedValues]
  /\ verdict = Null

Check ==
  /\ verdict = Null
  /\ LET type == EnsureNewTypes(asked.type)
     IN verdict' = [accepted |-> TypeCheck(type, asked.value), written |-> ReadBack(type)]
  /\ UNCHANGED asked

TypesNext == Check

TypesSpec == TypesInit /\ [][TypesNext]_typesVars

-----------------------------------------------------------------------------
(* Properties                                                              *)

\* The types above a type, from itself to "value" or to one that is not defined.
RECURSIVE Chain(_)
Chain(t) == IF BaseOf(t) = Null THEN <<t>> ELSE <<t>> \o Chain(BaseOf(t))

\* A constraint: the nearest type of the chain that states the parameter decides.
Nearest(chain, name) ==
  LET stating == SelectSeq(chain, LAMBDA t : NodesNamed(t, name) # <<>>)
  IN IF stating = <<>> THEN Null ELSE ParameterValue(Head(stating), name)
Names(chain) == {chain[i].name : i \in DOMAIN chain}

\* What spec/core.types says of the values of a type.
RECURSIVE Documented(_, _)
Documented(t, v) ==
  LET chain == Chain(t)
      names == Names(chain)
      min == Nearest(chain, "min")
      max == Nearest(chain, "max")
      nodes == UNION {ToSet(chain[i].nodes) : i \in DOMAIN chain}
      eltype == Nearest(chain, "type")
      keys == {n \in nodes : n.name # "allow-other-keys"}
  IN  /\ "bool" \in names => v.kind = "bool"
      /\ "number" \in names => v.kind \in {"int", "double"} /\ InRange(v.n, min, max)
      /\ "string" \in names => v.kind = "string"
      /\ "stringenum" \in names => v.s \in {n.name : n \in nodes}
      /\ "intenum" \in names => v.n \in {AsNumber(ParameterValue(n, "value")) : n \in nodes}
      /\ "list" \in names =>
           /\ v.kind = "list" /\ InRange(2 * Len(v.items), min, max)
           /\ eltype # Null => \A i \in DOMAIN v.items : Documented(eltype, v.items[i])
      /\ "map" \in names =>
           /\ v.kind = "map"
           /\ keys # {} => \A k \in DOMAIN v.entries :
                             \/ \E n \in keys : n.name = k /\ (ParameterValue(n, "type") # Null =>
                                                 Documented(ParameterValue(n, "type"), v.entries[k]))
                             \/ k \notin {n.name : n \in keys} /\ keys # nodes

\* Where the code does not follow core.types: a double is no integer, a string or a boolean
\* passes for a number, and an enumerator named min or max is taken for a bound.
RECURSIVE Departs(_, _)
Departs(t, v) ==
  LET names == Names(Chain(t))
      parts == IF v.kind = "list" THEN ToSet(v.items)
               ELSE IF v.kind = "map" THEN {v.entries[k] : k \in DOMAIN v.entries} ELSE {}
      inner == {ParameterValue(n, "type") : n \in ToSet(t.nodes)}
               \cup {ParameterValue(t, "type")}
  IN  \/ "integer" \in names /\ v.kind = "double"
      \/ "number" \in names /\ v.kind \in {"string", "bool"}
      \/ "intenum" \in names /\ \E n \in ToSet(t.nodes) : n.name \in {"min", "max"}
      \/ \E u \in inner \ {Null}, part \in parts : Departs(u, part)

\* The check is the documented one, although it hands the parameters of a type down to its
\* bases, which have parameters of their own (ContextTypeInfo::typeCheck).
ChecksAsDocumented ==
  verdict # Null =>
    LET type == EnsureNewTypes(asked.type)
    IN Departs(type, asked.value) \/ verdict.accepted = Documented(type, asked.value)

\* The file that dump writes declares the same type again (AssocTree::dumpXML, NanoXml).
DumpedTypeIsRead == verdict # Null => verdict.written = EnsureNewTypes(asked.type)
=============================================================================
