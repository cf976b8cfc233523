------------------------------ MODULE Provider ------------------------------
(***************************************************************************)
(* ContextSubscriber::Provider together with its base class QueuedInvoker  *)
(* (libcontextsubscriber/src/provider.cpp, queuedinvoker.cpp).             *)
(*                                                                         *)
(* A provider object lives in the main thread and owns one plugin.  Any    *)
(* thread may call subscribe() and unsubscribe(): they only record the     *)
(* intention and the work to do, under subscribeLock, and post one call of *)
(* handleSubscribes to the main thread.  Everything else (the posted       *)
(* calls, the plugin's signals) runs in the main thread.                   *)
(*                                                                         *)
(* Atomicity.  subscribe(), unsubscribe(), handleSubscribes() and the      *)
(* plugin's value and answer slots hold subscribeLock throughout and are   *)
(* one step each, except for onPluginSubscribeFinished, which signals and  *)
(* then stores the value.  QueuedInvoker::onQueuedCall gives up its lock   *)
(* before it invokes the method, and onPluginReady, onPluginFailed and a   *)
(* failing constructPlugin call handleSubscribes after unlocking: in these *)
(* places `running` holds what the main thread does next and other threads *)
(* may step in between.                                                    *)
(*                                                                         *)
(* The plugin is the environment: it is modelled from the contract in      *)
(* provider.cpp:55-90, with two switches for the points on which real      *)
(* plugins differ from it.                                                 *)
(***************************************************************************)
EXTENDS Naturals, Sequences, FiniteSets

CONSTANTS
  Providers,              \* Provider instances, one per (plugin, construction string)
  Keys,                   \* property keys
  TimedValues,            \* non-null values with their time stamp
  NoValue,                \* TimedValue(QVariant()), the null value
  MaxOwed,                \* bound: subscribe calls on one key a plugin leaves unanswered
  ReadyWhenReady,         \* may a plugin signal ready again without a failed before it?
  FailureAnswersPending   \* does a plugin that failed still answer earlier subscribe calls?

ASSUME ProviderAssumption ==
  /\ MaxOwed \in Nat \ {0}
  /\ NoValue \notin TimedValues
  /\ ReadyWhenReady \in BOOLEAN
  /\ FailureAnswersPending \in BOOLEAN

VARIABLES
  pluginConstructed,  \* bool Provider::pluginConstructed
  plugin,             \* Provider::plugin is not 0
  pluginState,        \* Provider::pluginState
  toSubscribe,        \* keys pending for subscription
  toUnsubscribe,      \* keys pending for unsubscription
  subscribedKeys,     \* the intention: keys that should be subscribed to
  values,             \* cache of the values received from the plugin
  callQueue,          \* QueuedInvoker::callQueue
  eventQueue,         \* queuedCall events of the object in the main thread's event queue
  running,            \* what the main thread goes on with, or Idle
  pluginKeys,         \* environment: keys the plugin was asked to keep since its last ready
  owed,               \* environment: answers the plugin still owes, per key
  unfinished          \* history: subscribe() returned true, subscribeFinished not signalled yet

scheduleVars == <<toSubscribe, toUnsubscribe, subscribedKeys>>
queueVars    == <<callQueue, eventQueue>>
pluginVars   == <<pluginConstructed, plugin, pluginState>>
envVars      == <<pluginKeys, owed>>
providerVars == <<scheduleVars, queueVars, pluginVars, envVars, values, running, unfinished>>

-----------------------------------------------------------------------------
INITIALIZING == "INITIALIZING"
READY        == "READY"
FAILED       == "FAILED"
PluginStates == {INITIALIZING, READY, FAILED}

ConstructPluginCall  == "constructPlugin"
HandleSubscribesCall == "handleSubscribes"
Methods == {ConstructPluginCall, HandleSubscribesCall}

\* The main thread is in its event loop (or in application code).
Idle == <<"idle">>
MainIdle == running = Idle

\* onPluginSubscribeFinished between its two calls.
Storing(p, k) == <<p, "onPluginValueChanged", k>>

\* Provider::Provider queues the construction of the plugin.
Init ==
  /\ pluginConstructed = [p \in Providers |-> FALSE]
  /\ plugin            = [p \in Providers |-> FALSE]
  /\ pluginState       = [p \in Providers |-> INITIALIZING]
  /\ toSubscribe       = [p \in Providers |-> {}]
  /\ toUnsubscribe     = [p \in Providers |-> {}]
  /\ subscribedKeys    = [p \in Providers |-> {}]
  /\ values            = [p \in Providers |-> [k \in Keys |-> NoValue]]
  /\ callQueue         = [p \in Providers |-> {ConstructPluginCall}]
  /\ eventQueue        = [p \in Providers |-> <<ConstructPluginCall>>]
  /\ running           = Idle
  /\ pluginKeys        = [p \in Providers |-> {}]
  /\ owed              = [p \in Providers |-> [k \in Keys |-> 0]]
  /\ unfinished        = [p \in Providers |-> {}]

-----------------------------------------------------------------------------
(* QueuedInvoker                                                           *)

\* Mutant: the check for a posted call is missing.
QueueAlways(p, m) ==
  /\ callQueue'  = [callQueue EXCEPT ![p] = @ \cup {m}]
  /\ eventQueue' = [eventQueue EXCEPT ![p] = Append(@, m)]

\* queueOnce: post the call unless one is posted already.
QueueOnce(p, m) ==
  IF m \in callQueue[p]
  THEN UNCHANGED queueVars
  ELSE /\ callQueue'  = [callQueue EXCEPT ![p] = @ \cup {m}]
       /\ eventQueue' = [eventQueue EXCEPT ![p] = Append(@, m)]

\* onQueuedCall, up to the unlock: the call leaves the queue before it runs.
OnQueuedCall(p) ==
  /\ MainIdle
  /\ eventQueue[p] # <<>>
  /\ eventQueue' = [eventQueue EXCEPT ![p] = Tail(@)]
  /\ callQueue'  = [callQueue EXCEPT ![p] = @ \ {Head(eventQueue[p])}]
  /\ running'    = <<p, Head(eventQueue[p])>>
  /\ UNCHANGED <<scheduleVars, pluginVars, envVars, values, unfinished>>

-----------------------------------------------------------------------------
(* Intentions, recorded by any thread                                      *)

\* Mutant: only a ready plugin is thought to need the call.
WakeWhenReady(p) ==
  IF pluginState[p] = READY THEN QueueOnce(p, HandleSubscribesCall) ELSE UNCHANGED queueVars

\* subscribe() and unsubscribe() have the schedule processed in the main thread.
Wake(p) == QueueOnce(p, HandleSubscribesCall)

\* Mutant: subscribe() overlooks that the key is scheduled to be unsubscribed.
ReturnsTrue(p, k) == TRUE

\* What subscribe() returns: must the main loop run to finalize the subscription?
SubscribeReturns(p, k) == k \notin toUnsubscribe[p]

\* subscribe(): the intention is saved in all cases; a scheduled unsubscription
\* is cancelled, otherwise the key is scheduled.
DoSubscribe(p, k) ==
  /\ subscribedKeys' = [subscribedKeys EXCEPT ![p] = @ \cup {k}]
  /\ IF SubscribeReturns(p, k)
     THEN /\ toSubscribe' = [toSubscribe EXCEPT ![p] = @ \cup {k}]
          /\ unfinished'  = [unfinished EXCEPT ![p] = @ \cup {k}]
          /\ Wake(p)
          /\ UNCHANGED toUnsubscribe
     ELSE /\ toUnsubscribe' = [toUnsubscribe EXCEPT ![p] = @ \ {k}]
          /\ UNCHANGED <<toSubscribe, queueVars, unfinished>>
  /\ UNCHANGED <<pluginVars, envVars, values, running>>

\* unsubscribe(): the mirror image; the caller forgets that it was waiting.
DoUnsubscribe(p, k) ==
  /\ subscribedKeys' = [subscribedKeys EXCEPT ![p] = @ \ {k}]
  /\ IF k \in toSubscribe[p]
     THEN /\ toSubscribe' = [toSubscribe EXCEPT ![p] = @ \ {k}]
          /\ UNCHANGED <<toUnsubscribe, queueVars>>
     ELSE /\ toUnsubscribe' = [toUnsubscribe EXCEPT ![p] = @ \cup {k}]
          /\ Wake(p)
          /\ UNCHANGED toSubscribe
  /\ unfinished' = [unfinished EXCEPT ![p] = @ \ {k}]
  /\ UNCHANGED <<pluginVars, envVars, values, running>>

\* PropertyHandle's subscribeCount makes the calls on one key alternate.
Subscribe(p, k) ==
  /\ k \notin subscribedKeys[p]
  /\ SubscribeReturns(p, k) => owed[p][k] < MaxOwed
  /\ DoSubscribe(p, k)

Unsubscribe(p, k) ==
  /\ k \in subscribedKeys[p]
  /\ DoUnsubscribe(p, k)

-----------------------------------------------------------------------------
(* handleSubscribes, constructPlugin                                       *)

\* signalSubscribeFinished: only keys somebody still wants are signalled.
Signalled(p, ks) == ks \cap subscribedKeys[p]

\* handleSubscribes in the three plugin states.  The plugin may answer a part
\* (`atOnce`) of the keys from inside its subscribe().
HandleSubscribesReady(p) ==
  /\ pluginState[p] = READY
  /\ \E atOnce \in SUBSET toSubscribe[p] :
       /\ unfinished' = [unfinished EXCEPT ![p] = @ \ Signalled(p, atOnce)]
       /\ owed' = [owed EXCEPT ![p] =
                     [k \in Keys |-> IF k \in toSubscribe[p] \ atOnce
                                     THEN owed[p][k] + 1 ELSE owed[p][k]]]
  /\ pluginKeys' = [pluginKeys EXCEPT ![p] = (@ \cup toSubscribe[p]) \ toUnsubscribe[p]]
  /\ toSubscribe'   = [toSubscribe EXCEPT ![p] = {}]
  /\ toUnsubscribe' = [toUnsubscribe EXCEPT ![p] = {}]

\* Mutant: the schedule of a failed plugin is dropped without a signal.
SignalledNever(p) == {}

\* After a failure every scheduled key is signalled, without asking the plugin.
SignalledOnFailure(p) == toSubscribe[p]

HandleSubscribesFailed(p) ==
  /\ pluginState[p] = FAILED
  /\ unfinished'    = [unfinished EXCEPT ![p] = @ \ SignalledOnFailure(p)]
  /\ toSubscribe'   = [toSubscribe EXCEPT ![p] = {}]
  /\ toUnsubscribe' = [toUnsubscribe EXCEPT ![p] = {}]
  /\ UNCHANGED envVars

HandleSubscribesInitializing(p) ==
  /\ pluginState[p] = INITIALIZING
  /\ UNCHANGED <<unfinished, toSubscribe, toUnsubscribe, envVars>>

HandleSubscribes(p) ==
  /\ running = <<p, HandleSubscribesCall>>
  /\ running' = Idle
  /\ \/ HandleSubscribesReady(p)
     \/ HandleSubscribesFailed(p)
     \/ HandleSubscribesInitializing(p)
  /\ UNCHANGED <<subscribedKeys, pluginVars, queueVars, values>>

\* The body of constructPlugin; loading the library or its factory may fail.
ConstructPluginBody(p) ==
  /\ pluginConstructed' = [pluginConstructed EXCEPT ![p] = TRUE]
  /\ IF pluginConstructed[p]
     THEN /\ running' = Idle
          /\ UNCHANGED <<plugin, pluginState>>
     ELSE \/ /\ plugin' = [plugin EXCEPT ![p] = TRUE]
             /\ running' = Idle
             /\ UNCHANGED pluginState
          \/ /\ pluginState' = [pluginState EXCEPT ![p] = FAILED]
             /\ running' = <<p, HandleSubscribesCall>>
             /\ UNCHANGED plugin
  /\ UNCHANGED <<scheduleVars, queueVars, envVars, values, unfinished>>

ConstructPlugin(p) ==
  /\ running = <<p, ConstructPluginCall>>
  /\ ConstructPluginBody(p)

\* blockUntilSubscribed, called by the application in the main thread, may have
\* to construct the plugin before the posted call does.  What it then does is
\* to make the plugin signal: OnPluginReady or OnPluginFailed, then an answer.
BlockUntilSubscribed(p) ==
  /\ MainIdle
  /\ unfinished[p] # {}
  /\ ~pluginConstructed[p]
  /\ ConstructPluginBody(p)

-----------------------------------------------------------------------------
(* Signals of the plugin, delivered in the main thread                     *)

\* Mutant: only the keys still scheduled are renewed.
RenewScheduled(p) == toSubscribe[p]

\* "Renew the subscriptions": everything that should be subscribed to.
Renewed(p) == subscribedKeys[p]

\* onPluginReady for the first ready and after a failure: renew everything.
OnPluginReady(p) ==
  /\ MainIdle
  /\ plugin[p]
  /\ pluginState[p] # READY
  /\ \A k \in subscribedKeys[p] : owed[p][k] < MaxOwed
  /\ toUnsubscribe' = [toUnsubscribe EXCEPT ![p] = {}]
  /\ toSubscribe'   = [toSubscribe EXCEPT ![p] = Renewed(p)]
  /\ pluginState'   = [pluginState EXCEPT ![p] = READY]
  /\ pluginKeys'    = [pluginKeys EXCEPT ![p] = {}]
  /\ running'       = <<p, HandleSubscribesCall>>
  /\ UNCHANGED <<subscribedKeys, queueVars, pluginConstructed, plugin, owed, values, unfinished>>

\* onPluginReady when the plugin is ready already: the signal is ignored.  The
\* plugin signals ready when it has nothing subscribed (any more).
OnPluginReadyIgnored(p) ==
  /\ ReadyWhenReady
  /\ MainIdle
  /\ plugin[p]
  /\ pluginState[p] = READY
  /\ pluginKeys' = [pluginKeys EXCEPT ![p] = {}]
  /\ UNCHANGED <<scheduleVars, queueVars, pluginVars, owed, values, running, unfinished>>

\* The slot, connected to the plugin's signal.
PluginReady(p) ==
  IF pluginState[p] = READY THEN OnPluginReadyIgnored(p) ELSE OnPluginReady(p)

OnPluginFailed(p) ==
  /\ MainIdle
  /\ plugin[p]
  /\ pluginState' = [pluginState EXCEPT ![p] = FAILED]
  /\ pluginKeys'  = [pluginKeys EXCEPT ![p] = {}]
  /\ owed' = IF FailureAnswersPending THEN owed
             ELSE [owed EXCEPT ![p] = [k \in Keys |-> 0]]
  /\ running' = <<p, HandleSubscribesCall>>
  /\ UNCHANGED <<scheduleVars, queueVars, pluginConstructed, plugin, values, unfinished>>

\* values.insert, for a key somebody wants.
ReceiveValue(p, k, v) ==
  values' = IF k \in subscribedKeys[p] THEN [values EXCEPT ![p][k] = v] ELSE values

\* An answer of the plugin is signalled at once.
DoAnswer(p, k) ==
  /\ MainIdle
  /\ owed[p][k] > 0
  /\ owed'       = [owed EXCEPT ![p][k] = @ - 1]
  /\ unfinished' = [unfinished EXCEPT ![p] = @ \ Signalled(p, {k})]
  /\ UNCHANGED <<scheduleVars, queueVars, pluginVars, pluginKeys, values>>

\* subscribeFinished with a value, which may be null: the value is stored after
\* the signal, and the lock is free in between.
OnPluginSubscribeFinished(p, k) ==
  /\ DoAnswer(p, k)
  /\ running' = Storing(p, k)

StoreValue(p, k) ==
  /\ running = Storing(p, k)
  /\ running' = Idle
  /\ \E v \in TimedValues \cup {NoValue} : ReceiveValue(p, k, v)
  /\ UNCHANGED <<scheduleVars, queueVars, pluginVars, envVars, unfinished>>

\* subscribeFailed, or the deprecated form of subscribeFinished.
OnPluginSubscribeFailed(p, k) ==
  /\ DoAnswer(p, k)
  /\ UNCHANGED running

\* Plugins may also send values of keys nobody subscribed to.
OnPluginValueChanged(p, k) ==
  /\ MainIdle
  /\ plugin[p]
  /\ \E v \in TimedValues \cup {NoValue} : ReceiveValue(p, k, v)
  /\ UNCHANGED <<scheduleVars, queueVars, pluginVars, envVars, running, unfinished>>

\* clearValues, called when a handle is (re)connected to the commander.
ClearValues(p) ==
  /\ MainIdle
  /\ values' = [values EXCEPT ![p] = [k \in Keys |-> NoValue]]
  /\ UNCHANGED <<scheduleVars, queueVars, pluginVars, envVars, running, unfinished>>

-----------------------------------------------------------------------------
PluginAnswers(p, k) == OnPluginSubscribeFinished(p, k) \/ OnPluginSubscribeFailed(p, k)

Next ==
  \E p \in Providers :
    \/ OnQueuedCall(p)
    \/ HandleSubscribes(p)
    \/ ConstructPlugin(p)
    \/ BlockUntilSubscribed(p)
    \/ PluginReady(p)
    \/ OnPluginFailed(p)
    \/ ClearValues(p)
    \/ \E k \in Keys : \/ Subscribe(p, k)
                       \/ Unsubscribe(p, k)
                       \/ OnPluginSubscribeFinished(p, k)
                       \/ OnPluginSubscribeFailed(p, k)
                       \/ StoreValue(p, k)
                       \/ OnPluginValueChanged(p, k)

Spec == Init /\ [][Next]_providerVars

\* Fairness.  The event loop of the main thread is FIFO, so that a posted call
\* and a delivered answer are handled however busy the thread is (strong
\* fairness: other events run in between); a call that has begun goes on (weak
\* fairness).  A plugin has to signal ready or failed after its construction
\* and to answer every subscribe call (provider.cpp:61-77).  Nothing is assumed
\* of the application.
Fairness ==
  \A p \in Providers :
    /\ SF_providerVars(OnQueuedCall(p))
    /\ WF_providerVars(HandleSubscribes(p))
    /\ WF_providerVars(ConstructPlugin(p))
    /\ SF_providerVars(pluginState[p] = INITIALIZING /\ (OnPluginReady(p) \/ OnPluginFailed(p)))
    /\ \A k \in Keys : /\ SF_providerVars(PluginAnswers(p, k))
                       /\ WF_providerVars(StoreValue(p, k))

FairSpec == Spec /\ Fairness

-----------------------------------------------------------------------------
(* Properties                                                              *)

\* The construction, which the constructor posts, is first; no call is posted twice.
Queues == {<<>>, <<ConstructPluginCall>>, <<HandleSubscribesCall>>,
           <<ConstructPluginCall, HandleSubscribesCall>>}

\* What the main thread may go on with.
Runs ==
  {Idle} \cup (Providers \X Methods) \cup {Storing(p, k) : p \in Providers, k \in Keys}

\* The values of the variables; queueOnce never has a call posted twice.
TypeOK ==
  /\ pluginConstructed \in [Providers -> BOOLEAN]
  /\ plugin \in [Providers -> BOOLEAN]
  /\ pluginState \in [Providers -> PluginStates]
  /\ toSubscribe \in [Providers -> SUBSET Keys]
  /\ toUnsubscribe \in [Providers -> SUBSET Keys]
  /\ subscribedKeys \in [Providers -> SUBSET Keys]
  /\ values \in [Providers -> [Keys -> TimedValues \cup {NoValue}]]
  /\ callQueue \in [Providers -> SUBSET Methods]
  /\ eventQueue \in [Providers -> Queues]
  /\ running \in Runs
  /\ pluginKeys \in [Providers -> SUBSET Keys]
  /\ owed \in [Providers -> [Keys -> Nat]]
  /\ unfinished \in [Providers -> SUBSET Keys]

Scheduled(p) == toSubscribe[p] \cup toUnsubscribe[p]
Posted(p) == {eventQueue[p][i] : i \in DOMAIN eventQueue[p]}
HandlePending(p) ==
  HandleSubscribesCall \in Posted(p) \/ running = <<p, HandleSubscribesCall>>

\* With nothing left to do, a ready plugin keeps exactly the keys that the
\* application wants, whatever the threads did in which order and however often
\* the plugin failed and recovered (provider.cpp subscribe, unsubscribe,
\* onPluginReady, handleSubscribes).
IntentReachesPlugin ==
  \A p \in Providers :
    pluginState[p] = READY /\ Scheduled(p) = {} => pluginKeys[p] = subscribedKeys[p]

\* No lost wakeup: scheduled work that a ready or failed plugin could take is
\* always followed by a run of handleSubscribes, although queueOnce drops calls
\* that are posted already and onQueuedCall runs them after it unlocked.
NoLostWakeup ==
  \A p \in Providers :
    pluginState[p] # INITIALIZING /\ Scheduled(p) # {} => HandlePending(p)

\* Whoever waits for subscribeFinished waits for something: the key is still
\* scheduled, or the plugin owes an answer for it.
UnfinishedIsOwed ==
  \A p \in Providers : \A k \in unfinished[p] :
    k \in toSubscribe[p] \/ owed[p][k] > 0

\* Every subscription that the caller was told to wait for is finished sooner
\* or later (waitForSubscription() relies on it), or the caller gives up.
SubscriptionFinishes ==
  \A p \in Providers : \A k \in Keys : (k \in unfinished[p]) ~> (k \notin unfinished[p])

\* Provider implements its abstract specification: every run of
\* handleSubscribes makes the plugin's keys equal to the intention at that
\* moment, by differences alone; and a plugin that stays up is reconciled.
Reconciling == INSTANCE Reconciler WITH
  wanted <- subscribedKeys, kept <- pluginKeys,
  up <- [p \in Providers |-> pluginState[p] = READY]

ImplementsReconciler == Reconciling!Spec
EventuallyReconciled ==
  \A p \in Providers :
    []<>(pluginState[p] # READY \/ pluginKeys[p] = subscribedKeys[p])
=============================================================================
