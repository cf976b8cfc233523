-------------------------- MODULE ContextKitPlugin --------------------------
(***************************************************************************)
(* ContextSubscriber::ContextKitPlugin (contextkitplugin.cpp) with its     *)
(* DBusNameListener (dbusnamelistener.cpp), below the Provider that owns   *)
(* it (module Provider, extended here) and connected by D-Bus to a service *)
(* that stops and starts.                                                  *)
(*                                                                         *)
(* The plugin runs in the main thread.  What is posted to it, calls of the *)
(* Provider and newSubscribe calls of the plugin, is handled in the order  *)
(* of posting; messages from the bus are handled in the order of arrival;  *)
(* nothing orders the two queues.                                          *)
(*                                                                         *)
(* The new protocol only: a call Subscribe or Unsubscribe per key.  The    *)
(* ValueChanged signals and their connections are left out.                *)
(***************************************************************************)
EXTENDS Provider, SequencesExt

CONSTANTS
  provider,       \* the one Provider
  NoKey,          \* main thread not in blockUntilSubscribed
  MaxStarts,      \* bound: starts of the service
  MaxRequests,    \* bound: calls of Provider::subscribe
  ServiceFirst,   \* is the service there when the plugin is constructed?
  MainThreadOnly  \* are all subscriptions of properties of the main thread?

ASSUME PluginAssumption ==
  /\ Providers = {provider}
  /\ IsFiniteSet(Keys) /\ NoKey \notin Keys
  /\ MaxStarts \in Nat /\ MaxRequests \in Nat
  /\ ServiceFirst \in BOOLEAN /\ MainThreadOnly \in BOOLEAN
  /\ ReadyWhenReady /\ FailureAnswersPending
  /\ MaxOwed > MaxRequests + MaxStarts + 2   \* MaxOwed stops nothing

VARIABLES
  posted,           \* posted calls of the main thread, the Provider's among them
  servicePresent,   \* DBusNameListener::servicePresent
  pendingKeys,      \* keys with a posted newSubscribe
  pendingWatchers,  \* keys whose latest Subscribe call is known by a watcher
  blocking,         \* where the main thread is in Provider::blockUntilSubscribed
  calls,            \* method calls on their way to the service
  arrived,          \* replies and name notices on their way to the plugin
  owned,            \* service: it runs and owns its name
  clientKeys,       \* service: keys this process is subscribed to
  starts,           \* bound: how often the service has started
  requests          \* bound: how often Provider::subscribe was called

listenerVars == <<servicePresent, pendingKeys, pendingWatchers>>
wireVars     == <<calls, arrived>>
serviceVars  == <<owned, clientKeys, starts>>
wholeVars    == <<providerVars, posted, listenerVars, blocking, wireVars, serviceVars, requests>>

-----------------------------------------------------------------------------
Unknown    == "Unknown"
Present    == "Present"
NotPresent == "NotPresent"

\* Posted calls; one of newSubscribe stands for the calls for a set of keys.
ProviderCall(m)      == <<m, {}>>
Appeared             == <<"onProviderAppeared", {}>>
NewSubscribeCall(ks) == <<"newSubscribe", ks>>

\* Calls on the wire, and what comes back.
SubscribeCall   == "Subscribe"
UnsubscribeCall == "Unsubscribe"
Call(m, k)      == [call |-> m, key |-> k]
Reply(k, ok)    == [reply |-> k, ok |-> ok]
NameAppeared    == [name |-> TRUE]
NameGone        == [name |-> FALSE]

NotBlocking == <<"no", NoKey>>
AtReady(k)  == <<"ready", k>>
AtCalls(k)  == <<"calls", k>>
AtReply(k)  == <<"reply", k>>

WholeInit ==
  /\ Init
  /\ posted = <<ProviderCall(ConstructPluginCall)>>
  /\ servicePresent = Unknown
  /\ pendingKeys = {} /\ pendingWatchers = {}
  /\ blocking = NotBlocking
  /\ calls = <<>> /\ arrived = <<>>
  /\ owned = ServiceFirst
  /\ clientKeys = {}
  /\ starts = 0
  /\ requests = 0

\* The main thread is in its event loop.
InLoop == MainIdle /\ blocking = NotBlocking

\* Properties of other threads may be subscribed and unsubscribed at any time.
MayCall == MainThreadOnly => InLoop

-----------------------------------------------------------------------------
(* The Provider's calls                                                    *)

\* What the Provider posts goes to the end of the main thread's queue.
PostsFollow ==
  posted' = IF eventQueue' = eventQueue THEN posted
            ELSE Append(posted, ProviderCall(Last(eventQueue'[provider])))

AnySubscribes(k) ==
  /\ MayCall
  /\ requests < MaxRequests
  /\ requests' = requests + 1
  /\ Subscribe(provider, k)
  /\ PostsFollow
  /\ UNCHANGED <<listenerVars, blocking, wireVars, serviceVars>>

AnyUnsubscribes(k) ==
  /\ MayCall
  /\ Unsubscribe(provider, k)
  /\ PostsFollow
  /\ UNCHANGED <<listenerVars, blocking, wireVars, serviceVars, requests>>

DispatchProviderCall ==
  /\ InLoop
  /\ posted # <<>> /\ Head(posted)[1] \in Methods
  /\ OnQueuedCall(provider)
  /\ posted' = Tail(posted)
  /\ UNCHANGED <<listenerVars, blocking, wireVars, serviceVars, requests>>

\* constructPlugin, where the factory succeeds; the constructor of the plugin
\* posts onProviderAppeared and starts to listen, without an initial check.
ConstructContextKitPlugin ==
  /\ ConstructPlugin(provider)
  /\ plugin'[provider]
  /\ posted' = IF pluginConstructed[provider] THEN posted ELSE Append(posted, Appeared)
  /\ UNCHANGED <<listenerVars, blocking, wireVars, serviceVars, requests>>

\* subscribe() only posts: a call of newSubscribe per key, posted before or not.
PluginSubscribes(ks) ==
  /\ pendingKeys' = pendingKeys \cup ks
  /\ posted' = IF ks = {} THEN posted ELSE Append(posted, NewSubscribeCall(ks))

\* unsubscribe() calls the service at once, and leaves pendingKeys as it is.
PluginUnsubscribes(ks) ==
  \E order \in SetToSeqs(ks) :
    calls' = calls \o [i \in DOMAIN order |-> Call(UnsubscribeCall, order[i])]

\* handleSubscribes with this plugin, which answers nothing from inside subscribe().
PluginHandlesSubscribes ==
  /\ HandleSubscribes(provider)
  /\ IF pluginState[provider] = READY
     THEN /\ \A k \in toSubscribe[provider] : owed'[provider][k] = owed[provider][k] + 1
          /\ PluginSubscribes(toSubscribe[provider])
          /\ PluginUnsubscribes(toUnsubscribe[provider])
     ELSE UNCHANGED <<pendingKeys, posted, calls>>
  /\ UNCHANGED <<servicePresent, pendingWatchers, blocking, arrived, serviceVars, requests>>

\* The end of a subscription with a value; values themselves do not matter here.
ProviderStoresValue(k) ==
  /\ StoreValue(provider, k)
  /\ UNCHANGED <<posted, listenerVars, blocking, wireVars, serviceVars, requests>>

-----------------------------------------------------------------------------
(* The plugin: posted calls                                                *)

\* Mutant: the key stays in pendingKeys.
StillPending(ks) == pendingKeys

\* pendingKeys.remove, of each key that is called for.
NoLongerPending(ks) == pendingKeys \ ks

\* newSubscribe for the keys of ks, which are pending, in some order: the call
\* goes out and the watcher of the key is replaced by the watcher of this call.
NewSubscribe(ks) ==
  /\ pendingKeys' = NoLongerPending(ks)
  /\ pendingWatchers' = pendingWatchers \cup ks
  /\ \E order \in SetToSeqs(ks) :
       calls' = calls \o [i \in DOMAIN order |-> Call(SubscribeCall, order[i])]

\* Posted calls of newSubscribe for one set of keys come one after the other, in
\* the order of a QSet; a key that is not pending was handled already.
DispatchNewSubscribe ==
  /\ InLoop
  /\ posted # <<>> /\ Head(posted)[1] = "newSubscribe"
  /\ \E ks \in {Head(posted)[2]} : \E k \in ks :
       /\ NewSubscribe({k} \cap pendingKeys)
       /\ posted' = IF ks = {k} THEN Tail(posted)
                    ELSE <<NewSubscribeCall(ks \ {k})>> \o Tail(posted)
  /\ UNCHANGED <<providerVars, servicePresent, blocking, arrived, serviceVars, requests>>

\* useNewProtocol: the plugin says ready, in whatever state the Provider is,
\* unless it knows that the service is gone.
ReadyUnlessGone(present) ==
  IF present = NotPresent THEN UNCHANGED providerVars ELSE PluginReady(provider)

\* onProviderAppeared; reset() disconnects only signals, which are left out.
OnProviderAppeared(present) == ReadyUnlessGone(present)

DispatchAppeared ==
  /\ InLoop
  /\ posted # <<>> /\ Head(posted) = Appeared
  /\ posted' = Tail(posted)
  /\ OnProviderAppeared(servicePresent)
  /\ UNCHANGED <<listenerVars, blocking, wireVars, serviceVars, requests>>

-----------------------------------------------------------------------------
(* The plugin: messages from the bus                                       *)

\* setServicePresent, with onProviderAppeared.
SetServicePresent ==
  /\ InLoop
  /\ arrived # <<>> /\ Head(arrived) = NameAppeared
  /\ arrived' = Tail(arrived)
  /\ servicePresent' = Present
  /\ IF servicePresent = Present THEN UNCHANGED providerVars ELSE OnProviderAppeared(Present)
  /\ UNCHANGED <<posted, pendingKeys, pendingWatchers, blocking, calls, serviceVars, requests>>

\* Mutant: going away is news only if the service was seen.
SeenGone == servicePresent = Present

\* Going away is news unless it is known.
GoneIsNews == servicePresent # NotPresent

\* onProviderDisappeared; what is pending stays pending.
OnProviderDisappeared == OnPluginFailed(provider)

\* setServiceGone.
SetServiceGone ==
  /\ InLoop
  /\ arrived # <<>> /\ Head(arrived) = NameGone
  /\ arrived' = Tail(arrived)
  /\ IF GoneIsNews
     THEN servicePresent' = NotPresent /\ OnProviderDisappeared
     ELSE UNCHANGED <<servicePresent, providerVars>>
  /\ UNCHANGED <<posted, pendingKeys, pendingWatchers, blocking, calls, serviceVars, requests>>

\* Mutant: an error ends nothing.
FailsSilently(k) == UNCHANGED providerVars

\* PendingSubscribeWatcher::onFinished, for an error.
Fails(k) == OnPluginSubscribeFailed(provider, k)

\* Mutant: the watcher of a finished call is kept.
WatcherKept(k) == pendingWatchers

\* removePendingWatcher: by key, whichever call of the key was answered.
WatcherRemoved(k) == pendingWatchers \ {k}

\* PendingSubscribeWatcher::onFinished: subscribeFinished, with the value or null.
Finishes(k) == OnPluginSubscribeFinished(provider, k)

OnFinished(r) ==
  /\ IF r.ok THEN Finishes(r.reply) ELSE Fails(r.reply)
  /\ pendingWatchers' = WatcherRemoved(r.reply)

DispatchReply ==
  /\ InLoop
  /\ arrived # <<>> /\ "reply" \in DOMAIN Head(arrived)
  /\ OnFinished(Head(arrived))
  /\ arrived' = Tail(arrived)
  /\ UNCHANGED <<posted, servicePresent, pendingKeys, blocking, calls, serviceVars, requests>>

-----------------------------------------------------------------------------
(* Provider::blockUntilSubscribed, called by the main thread               *)

\* The plugin is constructed now if its construction is still posted.
AnyBlocks(k) ==
  /\ InLoop
  /\ k \in unfinished[provider]
  /\ blocking' = AtReady(k)
  /\ IF pluginConstructed[provider]
     THEN UNCHANGED <<providerVars, posted>>
     ELSE /\ BlockUntilSubscribed(provider) /\ plugin'[provider]
          /\ posted' = Append(posted, Appeared)
  /\ UNCHANGED <<listenerVars, wireVars, serviceVars, requests>>

\* blockUntilReady; a ready that the Provider accepts runs handleSubscribes next.
BlockUntilReady(k) ==
  /\ MainIdle /\ blocking = AtReady(k)
  /\ blocking' = AtCalls(k)
  /\ OnProviderAppeared(servicePresent)
  /\ UNCHANGED <<posted, listenerVars, wireVars, serviceVars, requests>>

\* The plugin's blockUntilSubscribed: every pending key is called for at once.
BlockForCalls(k) ==
  /\ MainIdle /\ blocking = AtCalls(k)
  /\ IF pluginState[provider] = READY
     THEN NewSubscribe(pendingKeys)
     ELSE UNCHANGED <<pendingKeys, pendingWatchers, calls>>
  /\ blocking' = IF pluginState[provider] = READY /\ k \in pendingWatchers'
                 THEN AtReply(k) ELSE NotBlocking
  /\ UNCHANGED <<providerVars, posted, servicePresent, arrived, serviceVars, requests>>

\* waitForFinished of the watcher: the reply to the last call of the key is
\* taken out of what has arrived.
BlockForReply(k) ==
  /\ MainIdle /\ blocking = AtReply(k)
  /\ ~Contains(calls, Call(SubscribeCall, k))
  /\ \E i \in DOMAIN arrived :
       /\ arrived[i] \in {Reply(k, TRUE), Reply(k, FALSE)}
       /\ \A j \in DOMAIN arrived : j > i => arrived[j] \notin {Reply(k, TRUE), Reply(k, FALSE)}
       /\ OnFinished(arrived[i])
       /\ arrived' = RemoveAt(arrived, i)
  /\ blocking' = NotBlocking
  /\ UNCHANGED <<posted, servicePresent, pendingKeys, calls, serviceVars, requests>>

-----------------------------------------------------------------------------
(* The service and the bus                                                 *)

\* PropertyAdaptor::Subscribe and Unsubscribe; neither minds a second call.
ServiceAnswers ==
  /\ owned
  /\ calls # <<>>
  /\ calls' = Tail(calls)
  /\ IF Head(calls).call = SubscribeCall
     THEN /\ clientKeys' = clientKeys \cup {Head(calls).key}
          /\ arrived' = Append(arrived, Reply(Head(calls).key, TRUE))
     ELSE /\ clientKeys' = clientKeys \ {Head(calls).key}
          /\ UNCHANGED arrived
  /\ UNCHANGED <<providerVars, posted, listenerVars, blocking, owned, starts, requests>>

\* Without an owner of the name, the bus answers with an error; nobody waits
\* for the answer to Unsubscribe.
BusAnswers ==
  /\ ~owned
  /\ calls # <<>>
  /\ calls' = Tail(calls)
  /\ arrived' = IF Head(calls).call = SubscribeCall
                THEN Append(arrived, Reply(Head(calls).key, FALSE)) ELSE arrived
  /\ UNCHANGED <<providerVars, posted, listenerVars, blocking, serviceVars, requests>>

\* The bus announces owners of the name to a plugin that listens.
Announces(notice) ==
  arrived' = IF plugin[provider] THEN Append(arrived, notice) ELSE arrived

ServiceStarts ==
  /\ ~owned /\ starts < MaxStarts
  /\ owned' = TRUE
  /\ starts' = starts + 1
  /\ Announces(NameAppeared)
  /\ UNCHANGED <<providerVars, posted, listenerVars, blocking, calls, clientKeys, requests>>

\* Stopping, with or without a crash, forgets the clients.
ServiceStops ==
  /\ owned
  /\ ServiceFirst => plugin[provider]
  /\ owned' = FALSE
  /\ clientKeys' = {}
  /\ Announces(NameGone)
  /\ UNCHANGED <<providerVars, posted, listenerVars, blocking, calls, starts, requests>>

-----------------------------------------------------------------------------
DispatchPosted  == DispatchProviderCall \/ DispatchNewSubscribe \/ DispatchAppeared
DispatchArrived == SetServicePresent \/ SetServiceGone \/ DispatchReply
BlockGoesOn == \E k \in Keys : BlockUntilReady(k) \/ BlockForCalls(k) \/ BlockForReply(k)

WholeNext ==
  \/ \E k \in Keys : AnySubscribes(k) \/ AnyUnsubscribes(k) \/ AnyBlocks(k)
  \/ DispatchProviderCall \/ DispatchNewSubscribe \/ DispatchAppeared
  \/ ConstructContextKitPlugin
  \/ PluginHandlesSubscribes
  \/ \E k \in Keys : ProviderStoresValue(k)
  \/ SetServicePresent \/ SetServiceGone \/ DispatchReply
  \/ \E k \in Keys : BlockUntilReady(k) \/ BlockForCalls(k) \/ BlockForReply(k)
  \/ ServiceAnswers \/ BusAnswers
  \/ ServiceStarts \/ ServiceStops

WholeSpec == WholeInit /\ [][WholeNext]_wholeVars

\* Fairness.  The event loop dispatches what is posted and what has arrived,
\* although the application may block in between (strong fairness); what has
\* begun goes on, and the service or the bus answers (weak fairness).  Nothing
\* is assumed of the application and of the life of the service.
WholeFairness ==
  /\ SF_wholeVars(DispatchPosted) /\ SF_wholeVars(DispatchArrived)
  /\ WF_wholeVars(\/ ConstructContextKitPlugin \/ PluginHandlesSubscribes \/ BlockGoesOn
                  \/ \E k \in Keys : ProviderStoresValue(k))
  /\ WF_wholeVars(ServiceAnswers \/ BusAnswers)

WholeFairSpec == WholeSpec /\ WholeFairness

-----------------------------------------------------------------------------
(* Properties.  Those of Provider are about this plugin, too:              *)
(* SubscriptionFinishes says that everybody who waits for a key is told,   *)
(* with a service that comes and goes.                                     *)

PostedKeys == UNION {posted[i][2] : i \in DOMAIN posted}

\* Where the Provider's calls are in the queue of the main thread.
OfProvider == {i \in DOMAIN posted : posted[i][1] \in Methods}

\* The values of the variables.  The Provider's calls are the ones it believes to
\* be posted, each once and the construction first, and every key of pendingKeys has
\* a posted newSubscribe.
PluginTypeOK ==
  /\ {posted[i][1] : i \in OfProvider} = Posted(provider)
  /\ \A i, j \in OfProvider :
       i < j => posted[i][1] = ConstructPluginCall /\ posted[j][1] = HandleSubscribesCall
  /\ pendingKeys \subseteq PostedKeys
  /\ servicePresent \in {Unknown, Present, NotPresent}
  /\ pendingWatchers \subseteq Keys /\ clientKeys \subseteq Keys
  /\ blocking \in {NotBlocking} \cup ({"ready", "calls", "reply"} \X Keys)
  /\ owned \in BOOLEAN /\ starts \in 0 .. MaxStarts /\ requests \in 0 .. MaxRequests

\* The main thread may block for any key that has a watcher: its latest call or
\* the answer to it is on the wire, whatever answers to earlier calls of the key
\* came between (newSubscribe, removePendingWatcher, blockUntilSubscribed).
WatchersAwaitReplies ==
  \A k \in pendingWatchers :
    \/ Contains(calls, Call(SubscribeCall, k))
    \/ Contains(arrived, Reply(k, TRUE)) \/ Contains(arrived, Reply(k, FALSE))

\* Nothing is posted, on the wire or under way.
Quiet == InLoop /\ posted = <<>> /\ calls = <<>> /\ arrived = <<>>

\* "When the provider really starts, contextkit recovers from the situation
\* gracefully" (provider.cpp:283-284): when everything is quiet and the service is
\* there, it has every key the application wants, however often it stopped and
\* started, whatever of the calls and notices crossed, and although pending calls
\* survive a failure (onProviderAppeared, onProviderDisappeared, newSubscribe).
WantedAreSubscribed ==
  Quiet /\ owned => subscribedKeys[provider] \subseteq clientKeys
=============================================================================
