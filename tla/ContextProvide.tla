--------------------------- MODULE ContextProvide ---------------------------
(***************************************************************************)
(* context-provide (commandwatcher.cpp, propertyproxy.cpp): a program that *)
(* provides the properties its user adds.  Without a bus name it is the    *)
(* commander: it provides every property that the registry declares, too,  *)
(* by a proxy that forwards the real value, except while the user          *)
(* overrides the property.                                                 *)
(*                                                                         *)
(* The user's Property and that of the proxy share one PropertyPrivate;    *)
(* what it holds is what the clients get (PropertyPrivate, ServiceBackend).*)
(* A proxy subscribes to the real provider while the key has clients; its  *)
(* ContextProperty is fresh, the PropertyHandle below lives as long as the *)
(* program and keeps its value (PropertyHandle).                           *)
(*                                                                         *)
(* Commands that only print (info, list, help) or wait (sleep) are left    *)
(* out, as is how a command line is cut into words.                        *)
(***************************************************************************)
EXTENDS ContextValue, Naturals

CONSTANTS
  ProvideKeys,
  Types,         \* names of types that may be used on the command line
  NewTypes,      \* those in the registry of types
  LegacyTypes,   \* int, double and truth, which need not be there
  NoType,
  IllTyped,      \* a value that its type in the registry does not admit
  Refused,       \* a word that is no JSON value; a proxy that does not exist
  RegistryBound  \* bound: changes of the registry

ASSUME ProvideAssumption ==
  /\ NewTypes \subseteq Types /\ LegacyTypes \subseteq Types /\ NoType \notin Types
  /\ {IllTyped, Refused} \cap (Values \cup {NoValue}) = {} /\ IllTyped # Refused
  /\ RegistryBound \in Nat

VARIABLES
  commander,   \* was it started without a bus name?
  started,     \* CommandWatcher::started: has the service been started?
  alive,       \* has the process not exited?
  properties,  \* keys of CommandWatcher::properties, those the user has added
  types,       \* [ProvideKeys -> CommandWatcher::types]
  proxies,     \* [ProvideKeys -> proxy or Refused]: [enabled, value, subscribed, posted]
  held,        \* [ProvideKeys -> PropertyPrivate::value]
  offered,     \* keys that have a PropertyPrivate and so an object on D-Bus
  demanded,    \* keys that some client is subscribed to
  declared,    \* keys that the registry says are provided
  registryChanges,
  real,        \* [ProvideKeys -> value of the real provider]
  learned,     \* [ProvideKeys -> PropertyHandle::value]
  dumped,      \* what the file has that dump wrote last: [keys, types]
  replaced     \* history: keys whose proxy was replaced while it mattered

userVars     == <<properties, types>>
proxyVars    == <<proxies, declared, registryChanges, replaced>>
realVars     == <<real, learned>>
processVars  == <<commander, started, alive>>
provideVars  == <<processVars, userVars, proxyVars, realVars, held, offered, demanded, dumped>>

-----------------------------------------------------------------------------
NoProxy == Refused
Proxies == [enabled : BOOLEAN, value : AnyValue, subscribed : BOOLEAN, posted : BOOLEAN]

ASSUME ProxyAssumption == NoProxy \notin Proxies

Proxied == {k \in ProvideKeys : proxies[k] # NoProxy}

\* Mutant: a new proxy forwards, whatever the user has added.
ForwardsAll(k) == TRUE

\* "restore the user's will of overriding"
ForwardsUnlessAdded(k) == k \notin properties

\* The constructor: a ContextProperty that knows nothing, not subscribed.
NewProxy(k) ==
  [enabled |-> ForwardsUnlessAdded(k), value |-> NoValue, subscribed |-> FALSE, posted |-> FALSE]

\* Before the first restart there is nothing but the arguments of the command line.
ProvideInit ==
  /\ commander \in BOOLEAN /\ started = FALSE /\ alive = TRUE
  /\ properties = {} /\ types = [k \in ProvideKeys |-> NoType]
  /\ declared \in SUBSET ProvideKeys
  /\ proxies = [k \in ProvideKeys |-> IF commander /\ k \in declared THEN NewProxy(k) ELSE NoProxy]
  /\ held = [k \in ProvideKeys |-> NoValue]
  /\ offered = Proxied /\ demanded = {}
  /\ registryChanges = 0
  /\ real = [k \in ProvideKeys |-> NoValue] /\ learned = [k \in ProvideKeys |-> NoValue]
  /\ dumped = [keys |-> {}, types |-> [k \in ProvideKeys |-> NoType]]
  /\ replaced = {}

-----------------------------------------------------------------------------
(* Commands                                                                *)

\* Mutant: the proxies go on when the service stops.
StillSubscribed(ps) == ps

\* Nobody is subscribed any more: onLastSubscriber of each proxy.
Unsubscribed(ps) ==
  [k \in ProvideKeys |-> IF ps[k] = NoProxy THEN NoProxy ELSE [ps[k] EXCEPT !.subscribed = FALSE]]

\* restartCommand, with the proxies ps: stop, if started, and start; if the name is
\* taken the process exits.
Restart(ps) ==
  /\ proxies' = IF started THEN Unsubscribed(ps) ELSE ps
  /\ demanded' = {}
  /\ started' = TRUE
  /\ alive' \in BOOLEAN

NoRestart(ps) == proxies' = ps /\ UNCHANGED <<demanded, started, alive>>

\* setCommand: an unquoted word is a string or a boolean, otherwise it is no JSON value.
Parsed(type, word) == IF word = Refused THEN (IF type \in {"string", "bool"} THEN Values ELSE {})
                      ELSE {word}

Words == AnyValue \cup {Refused}
SetTo(k, type, word) ==
  IF Parsed(type, word) = {} THEN UNCHANGED held
  ELSE \E v \in Parsed(type, word) : held' = [held EXCEPT ![k] = v]

\* "truth", "int" and "double" have become "bool", "integer" and "number".
ModernName(t) == CASE t = "truth" -> "bool" [] t = "int" -> "integer" [] t = "double" -> "number"
                   [] OTHER -> t

\* They are in the registry of types (spec/core.types).
ASSUME ModernNameAssumption == \A t \in Types : ModernName(t) \in Types

\* addCommand, with a value or without one (NoValue).
CommandAdd(k, t, word) ==
  /\ alive /\ (t \in LegacyTypes \/ t \in NewTypes)
  /\ types' = [types EXCEPT ![k] = ModernName(t)]
  /\ properties' = properties \cup {k} /\ offered' = offered \cup {k}
  /\ SetTo(k, ModernName(t), word)
  /\ LET ps == IF k \in Proxied \ properties THEN [proxies EXCEPT ![k].enabled = FALSE] ELSE proxies
     IN  IF started /\ k \notin Proxied THEN Restart(ps) ELSE NoRestart(ps)
  /\ UNCHANGED <<commander, declared, registryChanges, replaced, realVars, dumped>>

\* Mutant: the type stays behind.
TypeKept(k) == types
TypeRemoved(k) == [types EXCEPT ![k] = NoType]

\* delCommand; without a proxy the object stays on D-Bus with its last value.
CommandDel(k) ==
  /\ alive /\ started
  /\ types' = TypeRemoved(k)
  /\ properties' = properties \ {k}
  /\ IF k \in Proxied
     THEN /\ proxies' = [proxies EXCEPT ![k].enabled = TRUE]
          /\ held' = [held EXCEPT ![k] = proxies[k].value]
     ELSE UNCHANGED <<proxies, held>>
  /\ UNCHANGED <<processVars, declared, registryChanges, replaced, realVars, offered, demanded, dumped>>

\* setTypeCommand: of a key that was added, to a type that is in the registry.
CommandSetType(k, t) ==
  /\ alive /\ started /\ k \in properties /\ t \in NewTypes
  /\ types' = [types EXCEPT ![k] = t]
  /\ UNCHANGED <<processVars, properties, proxyVars, realVars, held, offered, demanded, dumped>>

\* setCommand and unsetCommand (NoValue).
CommandSet(k, word) ==
  /\ alive /\ started /\ k \in properties
  /\ SetTo(k, types[k], word)
  /\ UNCHANGED <<processVars, userVars, proxyVars, realVars, offered, demanded, dumped>>

\* Also the call in main() after the arguments.
CommandRestart ==
  /\ alive
  /\ Restart(proxies)
  /\ UNCHANGED <<commander, userVars, declared, registryChanges, replaced, realVars, held, offered, dumped>>

CommandDump ==
  /\ alive /\ started
  /\ dumped' = [keys |-> properties, types |-> types]
  /\ UNCHANGED <<processVars, userVars, proxyVars, realVars, held, offered, demanded>>

\* The command exit, or the end of the input.
CommandExit ==
  /\ alive /\ started
  /\ alive' = FALSE /\ demanded' = {}
  /\ UNCHANGED <<commander, started, userVars, proxyVars, realVars, held, offered, dumped>>

-----------------------------------------------------------------------------
(* Clients                                                                 *)

\* setSubscribed, and onFirstSubscriber of the proxy there is.
FirstClientOf(k) ==
  /\ alive /\ started /\ k \in offered \ demanded
  /\ demanded' = demanded \cup {k}
  /\ proxies' = IF k \in Proxied THEN [proxies EXCEPT ![k].subscribed = TRUE] ELSE proxies
  /\ UNCHANGED <<processVars, userVars, declared, registryChanges, replaced, realVars, held, offered, dumped>>

LastClientOf(k) ==
  /\ alive /\ k \in demanded
  /\ demanded' = demanded \ {k}
  /\ proxies' = IF k \in Proxied THEN [proxies EXCEPT ![k].subscribed = FALSE] ELSE proxies
  /\ UNCHANGED <<processVars, userVars, declared, registryChanges, replaced, realVars, held, offered, dumped>>

-----------------------------------------------------------------------------
(* The registry and the real providers                                     *)

\* onRegistryChanged: all proxies are deleted and made anew for the keys that are
\* provided now; the property forgets its value where the proxy forwards.
OnRegistryChanged(keys) ==
  /\ alive /\ started /\ commander /\ registryChanges < RegistryBound
  /\ registryChanges' = registryChanges + 1
  /\ declared' = keys
  /\ proxies' = [k \in ProvideKeys |-> IF k \in keys THEN NewProxy(k) ELSE NoProxy]
  /\ held' = [k \in ProvideKeys |->
                IF k \in keys /\ ForwardsUnlessAdded(k) THEN NoValue ELSE held[k]]
  /\ offered' = offered \cup keys
  /\ replaced' = replaced \cup {k \in keys : k \in demanded \/ learned[k] # NoValue}
  /\ UNCHANGED <<processVars, userVars, realVars, demanded, dumped>>

RealChanges(k, v) ==
  /\ alive /\ started /\ k \in declared /\ v # real[k]
  /\ real' = [real EXCEPT ![k] = v]
  /\ UNCHANGED <<processVars, userVars, proxyVars, learned, held, offered, demanded, dumped>>

\* The handle of a subscribed proxy takes the value up, checks its type, and signals
\* if it is another one than it had.
Arrive(k) ==
  /\ alive /\ k \in Proxied /\ proxies[k].subscribed
  /\ real[k] \notin {learned[k], IllTyped}
  /\ learned' = [learned EXCEPT ![k] = real[k]]
  /\ proxies' = [proxies EXCEPT ![k].posted = TRUE]
  /\ UNCHANGED <<processVars, userVars, declared, registryChanges, replaced, real, held, offered, demanded, dumped>>

\* Mutant: a proxy that is disabled does not remember the real value.
RemembersIfEnabled(k) == IF proxies[k].enabled THEN learned[k] ELSE proxies[k].value
Remembers(k) == learned[k]

\* Mutant: what arrives is forwarded in any case.
AlwaysForwards(k) == TRUE
Forwards(k) == proxies[k].enabled

\* ContextProperty::onValueChanged and PropertyProxy::onValueChanged.
OnProxyValueChanged(k) ==
  /\ alive /\ k \in Proxied /\ proxies[k].posted
  /\ proxies' = [proxies EXCEPT ![k].posted = FALSE, ![k].value = Remembers(k)]
  /\ held' = IF Forwards(k) /\ learned[k] # proxies[k].value
             THEN [held EXCEPT ![k] = learned[k]] ELSE held
  /\ UNCHANGED <<processVars, userVars, declared, registryChanges, replaced, realVars, offered, demanded, dumped>>

-----------------------------------------------------------------------------
ProvideNext ==
  \/ \E k \in ProvideKeys :
       \/ \E t \in Types, word \in Words : CommandAdd(k, t, word)
       \/ \E t \in Types : CommandSetType(k, t)
       \/ \E word \in Words : CommandSet(k, word)
       \/ CommandDel(k)
       \/ FirstClientOf(k) \/ LastClientOf(k)
       \/ \E v \in AnyValue \cup {IllTyped} : RealChanges(k, v)
       \/ Arrive(k) \/ OnProxyValueChanged(k)
  \/ CommandRestart \/ CommandDump \/ CommandExit
  \/ \E keys \in SUBSET ProvideKeys : OnRegistryChanged(keys)

ProvideSpec == ProvideInit /\ [][ProvideNext]_provideVars

-----------------------------------------------------------------------------
(* Properties                                                              *)

\* The values of the variables; exactly the keys that were added have a type, so that
\* the file dump writes declares a type for every key.
ProvideTypeOK ==
  /\ types \in [ProvideKeys -> Types \cup {NoType}]
  /\ held \in [ProvideKeys -> AnyValue] /\ learned \in [ProvideKeys -> AnyValue]
  /\ proxies \in [ProvideKeys -> Proxies \cup {NoProxy}]
  /\ Proxied \subseteq declared /\ properties \cup Proxied \subseteq offered
  /\ demanded \subseteq offered /\ (alive \/ demanded = {})
  /\ properties = {k \in ProvideKeys : types[k] # NoType}
  /\ dumped.keys = {k \in ProvideKeys : dumped.types[k] # NoType}

\* "To control a property you have to `add' the property, which stops forwarding":
\* neither the real provider nor the registry changes a key the user controls, through
\* proxies that are replaced, values that arrive late and restarts.
OverridesHold ==
  [][\A k \in properties \cap properties' :
       held'[k] # held[k] =>
         /\ UNCHANGED <<learned, registryChanges>>
         /\ k \in Proxied => proxies'[k].value = proxies[k].value]_provideVars

\* The commander asks the real provider for a key only while it has clients itself, and
\* does ask then, unless the proxy has been replaced (onFirstSubscriber, onLastSubscriber).
DemandFollows ==
  alive => \A k \in Proxied : /\ proxies[k].subscribed => k \in demanded
                              /\ k \in demanded \ replaced => proxies[k].subscribed

\* Everything the real provider of k has said has been handled.
Arrived(k) == real[k] \in {learned[k], IllTyped} /\ ~proxies[k].posted

\* "This mode by default proxies the real values of all properties": once what the real
\* provider said has arrived, the clients of a key that is not overridden see its value,
\* also after an override has been undone by del; of proxies that were not replaced.
ForwardedIsReal(k) ==
  alive /\ k \in Proxied \ properties /\ k \in demanded /\ Arrived(k) => held[k] = learned[k]
ProxiedFollow == \A k \in ProvideKeys \ replaced : ForwardedIsReal(k)

\* The same for all proxies (context-provide.1:25-26).
AllProxiedFollow == \A k \in ProvideKeys : ForwardedIsReal(k)
=============================================================================
