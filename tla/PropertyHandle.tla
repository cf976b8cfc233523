--------------------------- MODULE PropertyHandle ---------------------------
(***************************************************************************)
(* The value and the subscription of one key: PropertyHandle               *)
(* (propertyhandle.cpp), the ContextProperty objects that share it         *)
(* (contextproperty.cpp), HandleSignalRouter, and the providers below      *)
(* (module Provider, extended here).                                       *)
(*                                                                         *)
(* A ContextProperty belongs to one thread.  subscribe() and unsubscribe() *)
(* hold subscribeCountLock; updateProvider() and the slots that providers  *)
(* call run in the main thread and do not take that lock.  A call of       *)
(* Provider::subscribe or ::unsubscribe is one step, and so is the         *)
(* statement that follows it: between two such steps every other thread    *)
(* may run.  Unsynchronised accesses to pendingSubscriptions and           *)
(* myProviders, undefined behaviour in C++, happen in some order here.     *)
(***************************************************************************)
EXTENDS Provider

CONSTANTS
  key,              \* the key of the handle
  Properties,       \* ContextProperty objects for the key
  MainProperties,   \* those that live in the main thread
  RegistrySets,     \* sets of providers the registry may list for the key
  Commander,        \* the provider of the context commander
  CommandingEnabled,
  RegistryChanges,  \* does the registry change while the program runs?
  IllTyped,         \* values that the type check refuses; none if checks are off
  Unset             \* "nobody", "no provider"

Updater == "updateProvider"

ASSUME HandleAssumption ==
  /\ key \in Keys
  /\ IsFiniteSet(Properties)
  /\ MainProperties \subseteq Properties
  /\ RegistrySets \subseteq SUBSET Providers
  /\ \A ps \in RegistrySets : IsFiniteSet(ps)
  /\ CommandingEnabled \in BOOLEAN /\ RegistryChanges \in BOOLEAN
  /\ CommandingEnabled => Commander \in Providers
  /\ TimedValues \subseteq Nat     \* a value stands for its time stamp
  /\ IllTyped \subseteq TimedValues
  /\ Unset \notin Properties \cup Providers
  /\ Properties \cap (Methods \cup {Updater}) = {}

VARIABLES
  subscribeCount, lockOwner, pendingSubscriptions, myProviders, myValue,
  registry,           \* myInfo->providers()
  commanderPresence,  \* commanderListener->isServicePresent()
  newProviders,       \* local variable of updateProvider
  pc, todo, mark,     \* per thread: where it is, the rest of its loop, the provider to mark
  propValue,          \* ContextPropertyPrivate::value
  inbox               \* properties with a posted call of ContextProperty::onValueChanged

handleVars   == <<subscribeCount, lockOwner, pendingSubscriptions, myProviders, myValue>>
worldVars    == <<registry, commanderPresence>>
threadVars   == <<pc, todo, mark>>
propertyVars == <<propValue, inbox>>
vars == <<providerVars, handleVars, worldVars, newProviders, threadVars, propertyVars>>

Threads == Properties \cup {Updater}
InCall  == {"subscribing", "unsubscribing"}
Updating == <<"updateProvider">>
InApplication(c) == <<"application", c>>

Unknown == "Unknown"
Present == "Present"
NotPresent == "NotPresent"

\* What updateProvider connects the handle to.
Chosen(reg, presence) ==
  IF CommandingEnabled /\ presence = Present THEN {Commander} ELSE reg

HandleInit ==
  /\ Init
  /\ registry \in RegistrySets
  /\ commanderPresence \in IF CommandingEnabled THEN {Unknown, Present, NotPresent} ELSE {Unknown}
  /\ myProviders = IF CommandingEnabled /\ commanderPresence = Unknown
                   THEN {} ELSE Chosen(registry, commanderPresence)
  /\ subscribeCount = 0 /\ lockOwner = Unset
  /\ pendingSubscriptions = {} /\ myValue = NoValue
  /\ newProviders = {}
  /\ pc = [t \in Threads |-> IF t = Updater THEN "off" ELSE "unsubscribed"]
  /\ todo = [t \in Threads |-> {}] /\ mark = [t \in Threads |-> Unset]
  /\ propValue = [c \in Properties |-> NoValue]
  /\ inbox = {}

-----------------------------------------------------------------------------
(* PropertyHandle::onValueChanged                                          *)

\* Mutant: the comparison of the time stamps is the wrong way round.
OldestOf(vals, ps) ==
  LET known == {vals[p][key] : p \in ps} \ {NoValue}
  IN  IF known = {} THEN NoValue ELSE CHOOSE v \in known : \A w \in known : v <= w

\* The newest of the providers' values, null if none has one.
LatestOf(vals, ps) ==
  LET known == {vals[p][key] : p \in ps} \ {NoValue}
  IN  IF known = {} THEN NoValue ELSE CHOOSE v \in known : \A w \in known : w <= v

Connected(c) == pc[c] \in {"subscribing", "subscribed"}

\* Store the value unless the type check fails; a change is posted to every
\* connected property.
ShowValue(v) ==
  IF v \in IllTyped THEN UNCHANGED <<myValue, inbox>>
  ELSE /\ myValue' = v
       /\ inbox' = IF v = myValue THEN inbox ELSE inbox \cup {c \in Properties : Connected(c)}

-----------------------------------------------------------------------------
(* subscribe() and unsubscribe(), by the thread of a property              *)

Free(c)  == c \in MainProperties => MainIdle
Enter(c) == running' = IF c \in MainProperties THEN InApplication(c) ELSE running
Leave(c) == running' = IF c \in MainProperties THEN Idle ELSE running

SubscribeBound == \A p \in Providers : owed[p][key] < MaxOwed

\* The loops over the providers, of a property's thread or of updateProvider.
CallSubscribe(t) ==
  /\ pc[t] = "subscribing" /\ mark[t] = Unset
  /\ \E p \in todo[t] :
       /\ DoSubscribe(p, key)
       /\ todo' = [todo EXCEPT ![t] = @ \ {p}]
       /\ mark' = [mark EXCEPT ![t] = IF SubscribeReturns(p, key) THEN p ELSE Unset]
  /\ UNCHANGED <<handleVars, worldVars, newProviders, pc, propertyVars>>

\* Mutant: the provider is never added to pendingSubscriptions.
MarkNothing(t) == {}
Marked(t) == {mark[t]}

MarkPending(t) ==
  /\ mark[t] # Unset
  /\ pendingSubscriptions' = pendingSubscriptions \cup Marked(t)
  /\ mark' = [mark EXCEPT ![t] = Unset]
  /\ UNCHANGED <<providerVars, subscribeCount, lockOwner, myProviders, myValue, worldVars,
                 newProviders, pc, todo, propertyVars>>

CallUnsubscribe(t) ==
  /\ pc[t] = "unsubscribing"
  /\ \E p \in todo[t] :
       /\ DoUnsubscribe(p, key)
       /\ todo' = [todo EXCEPT ![t] = @ \ {p}]
  /\ UNCHANGED <<handleVars, worldVars, newProviders, pc, mark, propertyVars>>

\* connect, lock, count; the first subscriber goes through the providers.
BeginSubscribe(c) ==
  /\ pc[c] = "unsubscribed" /\ lockOwner = Unset /\ Free(c) /\ SubscribeBound
  /\ pc' = [pc EXCEPT ![c] = "subscribing"]
  /\ lockOwner' = c
  /\ subscribeCount' = subscribeCount + 1
  /\ IF subscribeCount = 0
     THEN /\ pendingSubscriptions' = {}
          /\ todo' = [todo EXCEPT ![c] = myProviders]
     ELSE UNCHANGED <<pendingSubscriptions, todo>>
  /\ Enter(c)
  /\ UNCHANGED <<scheduleVars, queueVars, pluginVars, envVars, values, unfinished,
                 myProviders, myValue, worldVars, newProviders, mark, propertyVars>>

\* Mutant: the second subscriber to leave takes the subscription down.
LeavesWhenShared(n) == n > 0
LeavesProviders(n) == n = 1

\* Mutant: the count is not taken back.
CountKept(n) == n
CountDown(n) == n - 1

\* disconnect, lock, count; the last subscriber goes through the providers.
BeginUnsubscribe(c) ==
  /\ pc[c] = "subscribed" /\ lockOwner = Unset /\ Free(c)
  /\ pc' = [pc EXCEPT ![c] = "unsubscribing"]
  /\ lockOwner' = c
  /\ subscribeCount' = CountDown(subscribeCount)
  /\ IF LeavesProviders(subscribeCount)
     THEN /\ pendingSubscriptions' = {}
          /\ todo' = [todo EXCEPT ![c] = myProviders]
     ELSE UNCHANGED <<pendingSubscriptions, todo>>
  /\ Enter(c)
  /\ UNCHANGED <<scheduleVars, queueVars, pluginVars, envVars, values, unfinished,
                 myProviders, myValue, worldVars, newProviders, mark, propertyVars>>

\* The call returns.
EndCall(c) ==
  /\ pc[c] \in InCall /\ todo[c] = {} /\ mark[c] = Unset
  /\ pc' = [pc EXCEPT ![c] = IF @ = "subscribing" THEN "subscribed" ELSE "unsubscribed"]
  /\ lockOwner' = Unset
  /\ Leave(c)
  /\ UNCHANGED <<scheduleVars, queueVars, pluginVars, envVars, values, unfinished,
                 subscribeCount, pendingSubscriptions, myProviders, myValue, worldVars,
                 newProviders, todo, mark, propValue, inbox>>

\* A posted ContextProperty::onValueChanged, which stores what it signals.  Posted
\* calls survive a disconnect.
OnPropertyValueChanged(c) ==
  /\ c \in inbox /\ pc[c] \notin InCall /\ Free(c)
  /\ inbox' = inbox \ {c}
  /\ propValue' = [propValue EXCEPT ![c] = myValue]
  /\ UNCHANGED <<providerVars, handleVars, worldVars, newProviders, threadVars>>

-----------------------------------------------------------------------------
(* updateProvider, in the main thread and without subscribeCountLock       *)

\* The registry or the commander's presence changed: take the new providers,
\* and leave the old ones if anybody is subscribed.
BeginUpdate ==
  /\ MainIdle /\ SubscribeBound
  /\ \/ /\ RegistryChanges
        /\ registry' \in RegistrySets
        /\ UNCHANGED commanderPresence
     \/ /\ CommandingEnabled
        /\ commanderPresence' \in {Present, NotPresent} \ {commanderPresence}
        /\ UNCHANGED registry
  /\ newProviders' = Chosen(registry', commanderPresence')
  /\ values' = IF CommandingEnabled /\ commanderPresence' = Present
               THEN [values EXCEPT ![Commander] = [k \in Keys |-> NoValue]] ELSE values
  /\ running' = Updating
  /\ pc' = [pc EXCEPT ![Updater] = IF subscribeCount > 0 THEN "unsubscribing" ELSE "assigning"]
  /\ todo' = [todo EXCEPT ![Updater] = IF subscribeCount > 0 THEN myProviders ELSE {}]
  /\ UNCHANGED <<scheduleVars, queueVars, pluginVars, envVars, unfinished, handleVars, mark,
                 propertyVars>>

ForgetPending ==
  /\ pc[Updater] = "unsubscribing" /\ todo[Updater] = {}
  /\ pendingSubscriptions' = {}
  /\ pc' = [pc EXCEPT ![Updater] = "subscribing"]
  /\ todo' = [todo EXCEPT ![Updater] = newProviders]
  /\ UNCHANGED <<providerVars, subscribeCount, lockOwner, myProviders, myValue, worldVars,
                 newProviders, mark, propertyVars>>

\* myProviders = newProviders; recompute the value if nothing is pending.
EndUpdate ==
  /\ pc[Updater] \in {"subscribing", "assigning"} /\ todo[Updater] = {} /\ mark[Updater] = Unset
  /\ myProviders' = newProviders
  /\ IF subscribeCount > 0 /\ pendingSubscriptions = {}
     THEN ShowValue(LatestOf(values, newProviders))
     ELSE UNCHANGED <<myValue, inbox>>
  /\ pc' = [pc EXCEPT ![Updater] = "off"]
  /\ running' = Idle
  /\ UNCHANGED <<scheduleVars, queueVars, pluginVars, envVars, values, unfinished,
                 subscribeCount, lockOwner, pendingSubscriptions, worldVars, newProviders,
                 todo, mark, propValue>>

-----------------------------------------------------------------------------
(* What providers do, with the signals HandleSignalRouter passes on        *)

\* setSubscribeFinished.
SetSubscribeFinished(p, signalled) ==
  pendingSubscriptions' =
    IF signalled THEN pendingSubscriptions \ {p} ELSE pendingSubscriptions

\* A change of a provider's value reaches onValueChanged if the key is wanted.
RouteValue(p) ==
  IF key \in subscribedKeys[p] THEN ShowValue(LatestOf(values', myProviders))
  ELSE UNCHANGED <<myValue, inbox>>

\* Mutant: a failed provider signals nothing.
FinishedByReadyHandle(p) ==
  /\ key \in toSubscribe[p]
  /\ pluginState[p] = READY
  /\ owed'[p][key] = owed[p][key]

\* Does this handleSubscribes signal the key as finished?
FinishedByHandle(p) ==
  /\ key \in toSubscribe[p]
  /\ pluginState[p] # INITIALIZING
  /\ owed'[p][key] = owed[p][key]

ProviderHandlesSubscribes(p) ==
  /\ HandleSubscribes(p)
  /\ SetSubscribeFinished(p, FinishedByHandle(p))
  /\ UNCHANGED <<subscribeCount, lockOwner, myProviders, myValue, worldVars, newProviders,
                 threadVars, propertyVars>>

ProviderFinished(p) ==
  /\ OnPluginSubscribeFinished(p, key)
  /\ SetSubscribeFinished(p, key \in subscribedKeys[p])
  /\ UNCHANGED <<subscribeCount, lockOwner, myProviders, myValue, worldVars, newProviders,
                 threadVars, propertyVars>>

ProviderFailed(p) ==
  /\ OnPluginSubscribeFailed(p, key)
  /\ SetSubscribeFinished(p, key \in subscribedKeys[p])
  /\ UNCHANGED <<subscribeCount, lockOwner, myProviders, myValue, worldVars, newProviders,
                 threadVars, propertyVars>>

Routed(step, p) ==
  /\ step
  /\ RouteValue(p)
  /\ UNCHANGED <<subscribeCount, lockOwner, pendingSubscriptions, myProviders, worldVars,
                 newProviders, threadVars, propValue>>

ProviderStores(p) == Routed(StoreValue(p, key), p)
ProviderValue(p)  == Routed(OnPluginValueChanged(p, key), p)

Above(step) == step /\ UNCHANGED <<handleVars, worldVars, newProviders, threadVars, propertyVars>>

ProviderQueuedCall(p) == Above(OnQueuedCall(p))
ProviderConstructs(p) == Above(ConstructPlugin(p))
ProviderReady(p)      == Above(PluginReady(p))
ProviderFails(p)      == Above(OnPluginFailed(p))

\* PropertyHandle::blockUntilSubscribed goes through the pending providers.
ProviderBlocks(p) == p \in pendingSubscriptions /\ Above(BlockUntilSubscribed(p))

-----------------------------------------------------------------------------
PropertyStep(c) ==
  BeginSubscribe(c) \/ BeginUnsubscribe(c) \/ EndCall(c) \/ OnPropertyValueChanged(c)
LoopStep(t) == CallSubscribe(t) \/ MarkPending(t) \/ CallUnsubscribe(t)

HandleNext ==
  \/ \E c \in Properties : PropertyStep(c)
  \/ \E t \in Threads : LoopStep(t)
  \/ BeginUpdate \/ ForgetPending \/ EndUpdate
  \/ \E p \in Providers :
       \/ ProviderQueuedCall(p) \/ ProviderConstructs(p) \/ ProviderBlocks(p)
       \/ ProviderReady(p) \/ ProviderFails(p)
       \/ ProviderHandlesSubscribes(p)
       \/ ProviderFinished(p)
       \/ ProviderFailed(p)
       \/ ProviderStores(p)
       \/ ProviderValue(p)

HandleSpec == HandleInit /\ [][HandleNext]_vars

\* Fairness: that of Provider for the main thread and the plugins; a thread in
\* a call of the library goes on; the answer about the commander arrives.
HandleFairness ==
  /\ \A t \in Threads : WF_vars(LoopStep(t))
  /\ \A c \in Properties : WF_vars(EndCall(c))
  /\ WF_vars(ForgetPending) /\ WF_vars(EndUpdate)
  /\ SF_vars(commanderPresence = Unknown /\ BeginUpdate /\ commanderPresence' # Unknown)
  /\ \A p \in Providers :
       /\ SF_vars(ProviderQueuedCall(p))
       /\ WF_vars(ProviderHandlesSubscribes(p))
       /\ WF_vars(ProviderConstructs(p))
       /\ WF_vars(ProviderStores(p))
       /\ SF_vars(pluginState[p] = INITIALIZING /\ (ProviderReady(p) \/ ProviderFails(p)))
       /\ SF_vars(ProviderFinished(p) \/ ProviderFailed(p))

HandleFairSpec == HandleSpec /\ HandleFairness

-----------------------------------------------------------------------------
(* Properties                                                              *)

\* The values of the handle's and the properties' variables.
HandleTypeOK ==
  /\ subscribeCount \in 0..Cardinality(Properties)
  /\ lockOwner \in Properties \cup {Unset}
  /\ pendingSubscriptions \subseteq Providers
  /\ myProviders \subseteq Providers /\ newProviders \subseteq Providers
  /\ myValue \in (TimedValues \ IllTyped) \cup {NoValue}
  /\ registry \in RegistrySets
  /\ commanderPresence \in {Unknown, Present, NotPresent}
  /\ pc \in [Threads -> {"off", "assigning", "unsubscribed", "subscribed"} \cup InCall]
  /\ todo \in [Threads -> SUBSET Providers]
  /\ mark \in [Threads -> Providers \cup {Unset}]
  /\ propValue \in [Properties -> (TimedValues \ IllTyped) \cup {NoValue}]
  /\ inbox \subseteq Properties

\* No thread is inside subscribe(), unsubscribe() or updateProvider.
Quiet == \A t \in Threads : pc[t] \notin InCall \cup {"assigning"}

\* isSubscribePending.
IsSubscribePending ==
  \/ CommandingEnabled /\ commanderPresence = Unknown
  \/ myValue = NoValue /\ pendingSubscriptions # {}

\* The handle wants the key from exactly its current providers, and only while
\* somebody is subscribed: no provider is forgotten when the set of providers
\* changes, when the commander comes or goes, or when properties share the
\* handle (subscribe, unsubscribe, updateProvider).
HandleIntent ==
  Quiet => \A p \in Providers :
             key \in subscribedKeys[p] <=> subscribeCount > 0 /\ p \in myProviders

\* pendingSubscriptions is what the handle really waits for, across renewals
\* and changes of provider (subscribe, updateProvider, setSubscribeFinished).
PendingIsUnfinished ==
  Quiet => pendingSubscriptions = {p \in Providers : key \in unfinished[p]}

\* The handle's value is the newest of those its providers have, null if none has one;
\* a newest one of the wrong type leaves the handle with what it had.
KnownValues == {values[p][key] : p \in myProviders} \ {NoValue}
ValueIsNewest ==
  \/ KnownValues = {} /\ myValue = NoValue
  \/ \E v \in KnownValues : /\ v = myValue \/ v \in IllTyped
                            /\ \A w \in KnownValues : w <= v

\* With the providers fixed, the handle shows the newest value of its providers
\* whenever the main thread is in its event loop (onValueChanged).
ShowsLatest == MainIdle => ValueIsNewest

\* The main thread as Provider knows it: code of the handle is application code to it.
mainThread ==
  IF running = Updating \/ \E c \in Properties : running = InApplication(c) THEN Idle ELSE running

Below == INSTANCE Provider WITH running <- mainThread

\* The handle uses its providers as module Provider takes for granted: the calls
\* on its key alternate between subscribe and unsubscribe at each provider, in
\* whatever order properties share the handle and updateProvider exchanges the
\* providers, and every step of the handle is one of Provider or none.
KeepsProviderContract == Below!Spec

\* waitForSubscription() returns: "until subscription is complete"
\* (contextproperty.cpp:287-294), whatever fails or changes meanwhile.
WaitEnds ==
  \A c \in Properties :
    (pc[c] = "subscribed" /\ IsSubscribePending)
      ~> ~(pc[c] = "subscribed" /\ IsSubscribePending)
=============================================================================
