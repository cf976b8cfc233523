---------------------------- MODULE ContextValue ----------------------------
(* The values of context properties, as the programs on libcontextprovider see *)
(* them: a few that can be told apart, and QVariant(), which means unknown.    *)

CONSTANTS
  Values,     \* non-null values
  NoValue     \* QVariant(), the null value

ASSUME ValueAssumption == NoValue \notin Values

AnyValue == Values \cup {NoValue}
=============================================================================
