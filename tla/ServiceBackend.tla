--------------------------- MODULE ServiceBackend ---------------------------
(***************************************************************************)
(* The provider side: one ServiceBackend with a private connection, the    *)
(* Service objects that share it, a PropertyAdaptor with its               *)
(* PropertyPrivate per key, and one Group (libcontextprovider/src).        *)
(*                                                                         *)
(* Everything runs in the provider's main thread, so that each handler is  *)
(* one step; what interleaves is the D-Bus traffic: the messages of a      *)
(* client, in order, which end with the notice that the client has exited  *)
(* if the bus knew that the provider watches it.  QDBusServiceWatcher      *)
(* installs its match rule on the bus asynchronously.                      *)
(*                                                                         *)
(* The clients are the environment: each subscribes to the keys it wants   *)
(* and, when the service's name appears, subscribes to all of them anew,   *)
(* as the subscriber library does.                                         *)
(***************************************************************************)
EXTENDS Naturals, Integers, Sequences, FiniteSets

CONSTANTS
  Keys,                 \* property keys
  Clients,              \* D-Bus clients, by their unique names
  MaxServices,          \* bound: Service objects that share the backend
  MaxWire,              \* bound: undelivered messages of one client
  RegistrationMayFail   \* may registerObject fail for some of the properties?

ASSUME ServiceAssumption ==
  /\ IsFiniteSet(Keys)
  /\ MaxServices \in Nat
  /\ MaxWire \in Nat
  /\ RegistrationMayFail \in BOOLEAN

VARIABLES
  refCount,                \* ServiceBackend::refCount
  nameOwned,               \* the connection owns busName
  properties,              \* keys of ServiceBackend::properties (and createdAdaptors)
  registered,              \* keys whose object is registered on the connection
  clientServiceNames,      \* PropertyAdaptor::clientServiceNames, per key
  watched,                 \* services watched by the adaptor's serviceWatcher, per key
  subscribed,              \* PropertyPrivate::subscribed, per key
  groupKeys,               \* GroupPrivate::properties
  propertiesSubscribedTo,  \* GroupPrivate::propertiesSubscribedTo
  groupActive,             \* history: the group's last signal was firstSubscriberAppeared
  mainLoop,                \* the program has entered its main loop
  alive,                   \* environment: clients connected to the bus
  wants,                   \* environment: keys each client wants to be subscribed to
  resubscribe,             \* environment: <<client, key>> to act on when the name has appeared
  wire,                    \* environment: messages of a client, not dispatched yet
  matched                  \* environment: clients whose exit the bus would announce to us

objectVars  == <<nameOwned, registered>>
clientVars  == <<clientServiceNames, watched, subscribed>>
groupVars   == <<propertiesSubscribedTo, groupActive>>
programVars == <<refCount, properties, groupKeys, mainLoop>>
busVars     == <<alive, wants, wire, matched>>
serviceVars == <<objectVars, clientVars, groupVars, programVars, busVars, resubscribe>>

-----------------------------------------------------------------------------
SubscribeMsg(k)   == <<"Subscribe", k>>
UnsubscribeMsg(k) == <<"Unsubscribe", k>>
ExitMsg           == <<"exit">>

Init ==
  /\ refCount = 0
  /\ nameOwned = FALSE
  /\ properties = {}
  /\ registered = {}
  /\ clientServiceNames = [k \in Keys |-> {}]
  /\ watched = [k \in Keys |-> {}]
  /\ subscribed = [k \in Keys |-> FALSE]
  /\ groupKeys = {}
  /\ propertiesSubscribedTo = 0
  /\ groupActive = FALSE
  /\ mainLoop = FALSE
  /\ alive = Clients
  /\ wants = [c \in Clients |-> {}]
  /\ resubscribe = {}
  /\ wire = [c \in Clients |-> <<>>]
  /\ matched = {}

-----------------------------------------------------------------------------
(* PropertyPrivate and Group: the keys `ks` change their subscription      *)
(* state, one after the other                                              *)

\* Group::onFirstSubscriberAppeared for n properties: the signal is emitted
\* when the count reaches one.
FirstAppeared(n) ==
  /\ propertiesSubscribedTo' = propertiesSubscribedTo + n
  /\ groupActive' = (groupActive \/ 1 \in (propertiesSubscribedTo + 1) .. (propertiesSubscribedTo + n))

\* Mutant: the count is compared with zero before it is decremented.
ComparesTooEarly(n) ==
  /\ propertiesSubscribedTo' = propertiesSubscribedTo - n
  /\ groupActive' = (groupActive /\ 0 \notin (propertiesSubscribedTo - n + 1) .. propertiesSubscribedTo)

\* Group::onLastSubscriberDisappeared: the signal is emitted at zero.
LastDisappeared(n) ==
  /\ propertiesSubscribedTo' = propertiesSubscribedTo - n
  /\ groupActive' = (groupActive /\ 0 \notin (propertiesSubscribedTo - n) .. (propertiesSubscribedTo - 1))

\* setSubscribed: only a property that was not subscribed emits the signal.
SetSubscribed(ks) ==
  /\ subscribed' = [k \in Keys |-> subscribed[k] \/ k \in ks]
  /\ FirstAppeared(Cardinality({k \in ks \cap groupKeys : ~subscribed[k]}))

\* Mutant: the signal is emitted for properties that were not subscribed, too.
SetUnsubscribedAlways(ks) ==
  /\ subscribed' = [k \in Keys |-> subscribed[k] /\ k \notin ks]
  /\ LastDisappeared(Cardinality(ks \cap groupKeys))

\* setUnsubscribed: only a property that was subscribed emits the signal.
SetUnsubscribed(ks) ==
  /\ subscribed' = [k \in Keys |-> subscribed[k] /\ k \notin ks]
  /\ LastDisappeared(Cardinality({k \in ks \cap groupKeys : subscribed[k]}))

-----------------------------------------------------------------------------
(* PropertyAdaptor                                                         *)

\* Mutant: a client that one adaptor watches is not watched by the others.
WatchesOnce(c, k) ==
  IF \E j \in Keys : c \in watched[j] THEN watched ELSE [watched EXCEPT ![k] = @ \cup {c}]

\* addWatchedService: every adaptor has a watcher of its own.
Watches(c, k) == [watched EXCEPT ![k] = @ \cup {c}]

\* Subscribe: the first client makes the property subscribed; a second call of
\* the same client is no error.
Subscribe(c, k) ==
  IF c \in clientServiceNames[k]
  THEN UNCHANGED <<clientVars, groupVars>>
  ELSE /\ clientServiceNames' = [clientServiceNames EXCEPT ![k] = @ \cup {c}]
       /\ watched' = Watches(c, k)
       /\ SetSubscribed({j \in {k} : clientServiceNames[j] = {}})

\* The client c leaves the adaptors of `ks`; the last one to leave makes the
\* property unsubscribed.
Leave(ks, c) ==
  /\ clientServiceNames' =
       [k \in Keys |-> IF k \in ks THEN clientServiceNames[k] \ {c} ELSE clientServiceNames[k]]
  /\ watched' = [k \in Keys |-> IF k \in ks THEN watched[k] \ {c} ELSE watched[k]]
  /\ SetUnsubscribed({k \in ks : clientServiceNames[k] = {c}})

\* Unsubscribe: nothing is done for a client that is not subscribed.
Unsubscribe(c, k) == Leave({j \in {k} : c \in clientServiceNames[j]}, c)

\* The adaptors whose service watcher emits serviceUnregistered.
NoticedBy(c) == {k \in Keys : c \in watched[k]}

OnClientExited(c) == Leave(NoticedBy(c), c)

\* Mutant: the clients are forgotten, but the property stays subscribed.
ForgetsNamesOnly ==
  /\ clientServiceNames' = [k \in Keys |-> {}]
  /\ watched' = [k \in Keys |-> {}]
  /\ UNCHANGED <<subscribed, groupVars>>

\* forgetClients of every adaptor.
ForgetClients ==
  /\ clientServiceNames' = [k \in Keys |-> {}]
  /\ watched' = [k \in Keys |-> {}]
  /\ SetUnsubscribed(properties)

-----------------------------------------------------------------------------
(* ServiceBackend and Service                                              *)

\* What the bus sees of the service.  When the name appears, every client is
\* to subscribe again; when it vanishes, there is nothing left to act on.
Visible(keys, owned) ==
  /\ registered' = keys
  /\ nameOwned'  = owned

NameAppears  == resubscribe' = alive \X Keys
NameVanishes == resubscribe' = {}

\* stop(): the name and the objects are unregistered, the clients forgotten.
StopService ==
  /\ Visible({}, FALSE)
  /\ NameVanishes
  /\ ForgetClients

\* Mutant: start() only takes the name again.
RegistersNone == registered

\* start() registers every object that is not registered.
Registers == properties

\* start(): the objects that are not registered yet, then the name.  If the
\* name belongs to another process the service is stopped; if an object cannot
\* be registered the rest is left out.
StartService ==
  \/ /\ Visible(Registers, TRUE)
     /\ IF nameOwned THEN UNCHANGED resubscribe ELSE NameAppears
     /\ UNCHANGED <<clientVars, groupVars>>
  \/ /\ ~nameOwned
     /\ StopService
  \/ /\ RegistrationMayFail
     /\ \E ks \in SUBSET properties :
          ks # properties /\ Visible(registered \cup ks, nameOwned)
     /\ UNCHANGED <<clientVars, groupVars, resubscribe>>

Start ==
  /\ refCount > 0
  /\ StartService
  /\ UNCHANGED <<programVars, busVars>>

Stop ==
  /\ refCount > 0
  /\ StopService
  /\ UNCHANGED <<programVars, busVars>>

\* restart(): stop() and start() at once.
Restart ==
  /\ refCount > 0
  /\ ForgetClients
  /\ \/ Visible(Registers, TRUE) /\ NameAppears
     \/ Visible({}, FALSE) /\ NameVanishes
     \/ /\ RegistrationMayFail
        /\ \E ks \in SUBSET properties : ks # properties /\ Visible(ks, FALSE)
        /\ NameVanishes
  /\ UNCHANGED <<programVars, busVars>>

\* The constructor of Service: instance(), which starts the service if it is
\* told to, and ref().
CreateService ==
  /\ refCount < MaxServices
  /\ refCount' = refCount + 1
  /\ \/ StartService
     \/ UNCHANGED <<objectVars, clientVars, groupVars, resubscribe>>
  /\ UNCHANGED <<properties, groupKeys, mainLoop, busVars>>

\* The destructor: unref(), where the last reference stops the service.
DestroyService ==
  /\ refCount > 0
  /\ refCount' = refCount - 1
  /\ IF refCount = 1 THEN StopService
     ELSE UNCHANGED <<objectVars, clientVars, groupVars, resubscribe>>
  /\ UNCHANGED <<properties, groupKeys, mainLoop, busVars>>

\* addProperty, which registers the object at once.  Properties and groups are
\* complete when the main loop is entered (service.cpp:158-166).
AddProperty(k) ==
  /\ ~mainLoop
  /\ refCount > 0
  /\ k \notin properties
  /\ properties' = properties \cup {k}
  /\ registered' = registered \cup {k}
  /\ UNCHANGED <<refCount, groupKeys, mainLoop, nameOwned, clientVars, groupVars, busVars,
                 resubscribe>>

\* Group::add.
AddToGroup(k) ==
  /\ ~mainLoop
  /\ k \in properties \ groupKeys
  /\ groupKeys' = groupKeys \cup {k}
  /\ UNCHANGED <<refCount, properties, mainLoop, objectVars, clientVars, groupVars, busVars,
                 resubscribe>>

EnterMainLoop ==
  /\ ~mainLoop
  /\ mainLoop' = TRUE
  /\ UNCHANGED <<refCount, properties, groupKeys, objectVars, clientVars, groupVars, busVars,
                 resubscribe>>

-----------------------------------------------------------------------------
(* D-Bus and the clients                                                   *)

Send(c, msg) == wire' = [wire EXCEPT ![c] = Append(@, msg)]

\* A call to a name without an owner fails at the client.
SendIfOwned(c, msg) == IF nameOwned THEN Send(c, msg) ELSE UNCHANGED wire

ClientSubscribes(c, k) ==
  /\ c \in alive
  /\ k \notin wants[c]
  /\ Len(wire[c]) < MaxWire
  /\ wants' = [wants EXCEPT ![c] = @ \cup {k}]
  /\ SendIfOwned(c, SubscribeMsg(k))
  /\ UNCHANGED <<objectVars, clientVars, groupVars, programVars, alive, matched, resubscribe>>

ClientUnsubscribes(c, k) ==
  /\ c \in alive
  /\ k \in wants[c]
  /\ Len(wire[c]) < MaxWire
  /\ wants' = [wants EXCEPT ![c] = @ \ {k}]
  /\ SendIfOwned(c, UnsubscribeMsg(k))
  /\ UNCHANGED <<objectVars, clientVars, groupVars, programVars, alive, matched, resubscribe>>

\* The client notices that the name has appeared.
ClientResubscribes(c, k) ==
  /\ <<c, k>> \in resubscribe
  /\ Len(wire[c]) < MaxWire
  /\ resubscribe' = resubscribe \ {<<c, k>>}
  /\ IF k \in wants[c] THEN Send(c, SubscribeMsg(k)) ELSE UNCHANGED wire
  /\ UNCHANGED <<objectVars, clientVars, groupVars, programVars, alive, wants, matched>>

ClientExits(c) ==
  /\ c \in alive
  /\ alive' = alive \ {c}
  /\ wants' = [wants EXCEPT ![c] = {}]
  /\ resubscribe' = resubscribe \ ({c} \X Keys)
  /\ IF c \in matched THEN Send(c, ExitMsg) ELSE UNCHANGED wire
  /\ UNCHANGED <<objectVars, clientVars, groupVars, programVars, matched>>

\* The match rules of the service watchers reach the bus.
BusUpdatesMatch(c) ==
  /\ c \in matched <=> NoticedBy(c) = {}
  /\ matched' = IF c \in matched THEN matched \ {c} ELSE matched \cup {c}
  /\ UNCHANGED <<objectVars, clientVars, groupVars, programVars, alive, wants, wire, resubscribe>>

\* The main loop dispatches a message; a call to an unregistered object fails.
Deliver(c) ==
  /\ mainLoop
  /\ wire[c] # <<>>
  /\ wire' = [wire EXCEPT ![c] = Tail(@)]
  /\ LET msg == Head(wire[c]) IN
       \/ msg = ExitMsg /\ OnClientExited(c)
       \/ \E k \in registered : \/ msg = SubscribeMsg(k) /\ Subscribe(c, k)
                                \/ msg = UnsubscribeMsg(k) /\ Unsubscribe(c, k)
       \/ /\ \E k \in Keys \ registered : msg \in {SubscribeMsg(k), UnsubscribeMsg(k)}
          /\ UNCHANGED <<clientVars, groupVars>>
  /\ UNCHANGED <<objectVars, programVars, alive, wants, matched, resubscribe>>

-----------------------------------------------------------------------------
Next ==
  \/ CreateService \/ DestroyService
  \/ Start \/ Stop \/ Restart
  \/ EnterMainLoop
  \/ \E k \in Keys : AddProperty(k) \/ AddToGroup(k)
  \/ \E c \in Clients :
       \/ ClientExits(c) \/ BusUpdatesMatch(c) \/ Deliver(c)
       \/ \E k \in Keys : \/ ClientSubscribes(c, k)
                          \/ ClientUnsubscribes(c, k)
                          \/ ClientResubscribes(c, k)

Spec == Init /\ [][Next]_serviceVars

-----------------------------------------------------------------------------
(* Properties                                                              *)

Messages == {SubscribeMsg(k) : k \in Keys} \cup {UnsubscribeMsg(k) : k \in Keys} \cup {ExitMsg}

\* The values of the variables; the group's count is never negative.
ServiceTypeOK ==
  /\ refCount \in 0 .. MaxServices
  /\ nameOwned \in BOOLEAN
  /\ properties \in SUBSET Keys
  /\ registered \in SUBSET properties
  /\ clientServiceNames \in [Keys -> SUBSET Clients]
  /\ watched \in [Keys -> SUBSET Clients]
  /\ subscribed \in [Keys -> BOOLEAN]
  /\ groupKeys \in SUBSET properties
  /\ propertiesSubscribedTo \in Nat
  /\ groupActive \in BOOLEAN
  /\ mainLoop \in BOOLEAN
  /\ alive \in SUBSET Clients
  /\ wants \in [Clients -> SUBSET Keys]
  /\ resubscribe \in SUBSET (Clients \X Keys)
  /\ wire \in [Clients -> Seq(Messages)]
  /\ matched \in SUBSET Clients

\* A property is subscribed exactly while some client is, and the exit of each
\* of its clients is watched for, through subscriptions, exits, restarts and
\* stops in any order (PropertyAdaptor, PropertyPrivate, ServiceBackend::stop).
SubscribedWhileClients ==
  \A k \in Keys :
    /\ subscribed[k] <=> clientServiceNames[k] # {}
    /\ watched[k] = clientServiceNames[k]

SubscribedInGroup == {k \in groupKeys : subscribed[k]}

\* The group's count is the number of its subscribed properties and its last
\* signal says whether there are any, although the count only follows the
\* signals of the properties (Group).
GroupCounts ==
  /\ propertiesSubscribedTo = Cardinality(SubscribedInGroup)
  /\ groupActive <=> SubscribedInGroup # {}

\* Once its messages are dispatched, a client is known to every property it
\* wants of a running service, whatever restarts and failed starts came in
\* between (ServiceBackend start, stop; PropertyAdaptor Subscribe).
SubscribersAreKnown ==
  nameOwned =>
    \A c \in alive : \A k \in properties :
      wire[c] = <<>> /\ <<c, k>> \notin resubscribe /\ k \in wants[c]
        => c \in clientServiceNames[k]

ExitAnnounced(c) == ExitMsg \in {wire[c][i] : i \in DOMAIN wire[c]}

\* "To know when our client has exited" (propertyadaptor.cpp:47-48): when the
\* notice of its exit, the last message of a client, is dispatched, every
\* property has forgotten the client, although each adaptor has to notice it by
\* itself, after calls of the client and stops and starts in any order.
DeadAreForgotten ==
  [][\A c \in Clients : ExitAnnounced(c) /\ wire'[c] = <<>>
       => \A k \in Keys : c \notin clientServiceNames'[k]]_serviceVars
=============================================================================
