---------------------------- MODULE HandleProofs ----------------------------
(***************************************************************************)
(* Proofs about PropertyHandle, for any providers, keys and properties.    *)
(*                                                                         *)
(* The lock, the count, the values, the wakeups and what a caller waits    *)
(* for need nothing else.  The results about the intention need `Serial`:  *)
(* subscriptions and changes of provider exclude each other, either        *)
(* because all properties live in the main thread or because the providers *)
(* are fixed.  Otherwise updateProvider runs in the middle of another      *)
(* thread's loop over the providers, and these results are false.          *)
(*                                                                         *)
(* A plugin may signal ready while it is ready, which the Provider ignores.*)
(* What such a plugin keeps too little of is outside the results that need *)
(* ~ReadyWhenReady, and said there.                                        *)
(***************************************************************************)
EXTENDS PropertyHandle, FiniteSetTheorems, TLAPS

AllInMain == MainProperties = Properties
Serial    == AllInMain \/ ~(RegistryChanges \/ CommandingEnabled)

-----------------------------------------------------------------------------
(* The inductive invariant                                                 *)

ConnectedOnes == {c \in Properties : Connected(c)}

ThreadTypes ==
  /\ pc \in [Threads -> {"off", "assigning", "unsubscribed", "subscribed"} \cup InCall]
  /\ pc[Updater] \in {"off", "assigning"} \cup InCall
  /\ \A c \in Properties : pc[c] \in {"unsubscribed", "subscribed"} \cup InCall
  /\ todo \in [Threads -> SUBSET Providers]
  /\ mark \in [Threads -> Providers \cup {Unset}]
  /\ myProviders \subseteq Providers /\ newProviders \subseteq Providers
  /\ pendingSubscriptions \subseteq Providers
  /\ registry \in RegistrySets

\* What is used of the types of Provider.
KeyTypes ==
  /\ subscribedKeys \in [Providers -> SUBSET Keys]
  /\ toSubscribe \in [Providers -> SUBSET Keys]
  /\ unfinished \in [Providers -> SUBSET Keys]
  /\ owed \in [Providers -> [Keys -> Nat]]

\* The count is the number of the properties that are subscribed.
CountInv == subscribeCount = Cardinality(ConnectedOnes)

\* Only one thread is inside the handle, and a thread outside has nothing to do.
ExclusiveInv ==
  /\ \A c \in Properties : pc[c] \in InCall <=> lockOwner = c
  /\ \A c \in MainProperties : pc[c] \in InCall => running = InApplication(c)
  /\ pc[Updater] # "off" => running = Updating /\ AllInMain
  /\ \A t \in Threads : /\ pc[t] \notin InCall => todo[t] = {}
                        /\ pc[t] # "subscribing" => mark[t] = Unset

\* What the thread inside has left to do agrees with the count.
LoopInv ==
  /\ \A c \in Properties :
       /\ todo[c] \subseteq myProviders
       /\ pc[c] = "unsubscribing" /\ subscribeCount > 0 => todo[c] = {}
  /\ pc[Updater] \in InCall => subscribeCount > 0
  /\ pc[Updater] = "assigning" => subscribeCount = 0
  /\ pc[Updater] = "subscribing" => todo[Updater] \subseteq newProviders

\* The providers that the handle wants the key from, loops taken into account.
WantedFrom(p) ==
  \/ pc[Updater] = "unsubscribing" /\ p \in todo[Updater]
  \/ pc[Updater] = "subscribing" /\ p \in newProviders \ todo[Updater]
  \/ /\ pc[Updater] \in {"off", "assigning"} /\ p \in myProviders
     /\ IF subscribeCount > 0
        THEN \A c \in Properties : pc[c] = "subscribing" => p \notin todo[c]
        ELSE \E c \in Properties : pc[c] = "unsubscribing" /\ p \in todo[c]

WantInv == \A p \in Providers : key \in subscribedKeys[p] <=> WantedFrom(p)

ThreadInv == ThreadTypes /\ KeyTypes /\ CountInv /\ ExclusiveInv /\ LoopInv
HandleInv == ThreadInv /\ WantInv

\* What Provider keeps for the key.
KeyInv ==
  \A p \in Providers :
    /\ key \in toSubscribe[p] => key \in subscribedKeys[p]
    /\ key \in unfinished[p] => key \in subscribedKeys[p]

\* What is pending or about to be marked is what is unfinished.
BeingMarked == {mark[t] : t \in Threads} \ {Unset}
PendingInv ==
  pc[Updater] # "unsubscribing" =>
    IF subscribeCount > 0
    THEN {p \in Providers : key \in unfinished[p]} = pendingSubscriptions \cup BeingMarked
    ELSE pendingSubscriptions = {}


-----------------------------------------------------------------------------
(* What the main thread goes on with, and the count                        *)

LEMMA RunningDiffers ==
  /\ Updating # Idle
  /\ \A c \in Properties : InApplication(c) # Idle /\ InApplication(c) # Updating
  /\ \A c, d \in Properties : InApplication(c) = InApplication(d) => c = d
  /\ \A p \in Providers, m \in Methods : Updating # <<p, m>> /\ Idle # <<p, m>>
  /\ \A p \in Providers, m \in Methods, c \in Properties : InApplication(c) # <<p, m>>
  /\ \A p \in Providers : Storing(p, key) # Idle /\ Storing(p, key) # Updating
  /\ \A p \in Providers, c \in Properties : Storing(p, key) # InApplication(c)
  /\ \A p, q \in Providers, m \in Methods : Storing(p, key) # <<q, m>>
<1>1. \A c \in Properties : c \notin Methods
  BY HandleAssumption
<1> QED
  BY <1>1 DEF Updating, Idle, InApplication, Storing

LEMMA ThreadsDiffer == Updater \notin Properties /\ Updater \in Threads /\ Properties \subseteq Threads
BY HandleAssumption DEF Threads

LEMMA ConnectedFinite ==
  IsFiniteSet(ConnectedOnes) /\ Cardinality(ConnectedOnes) \in Nat
<1>1. ConnectedOnes \subseteq Properties
  BY DEF ConnectedOnes
<1> QED
  BY <1>1, HandleAssumption, FS_Subset, FS_CardinalityType

LEMMA CountIsNat == CountInv => subscribeCount \in Nat
BY ConnectedFinite DEF CountInv

LEMMA CountPositive ==
  ASSUME CountInv, NEW c \in Properties, Connected(c)
  PROVE  subscribeCount > 0
<1>1. ConnectedOnes # {}
  BY DEF ConnectedOnes
<1>2. Cardinality(ConnectedOnes) # 0
  BY <1>1, ConnectedFinite, FS_EmptySet
<1> QED
  BY <1>2, ConnectedFinite DEF CountInv

LEMMA OneMore ==
  ASSUME CountInv, NEW c \in Properties, ~Connected(c),
         subscribeCount' = subscribeCount + 1, ConnectedOnes' = ConnectedOnes \cup {c}
  PROVE  CountInv'
<1>1. c \notin ConnectedOnes
  BY DEF ConnectedOnes
<1>2. Cardinality(ConnectedOnes \cup {c}) = Cardinality(ConnectedOnes) + 1
  BY <1>1, ConnectedFinite, FS_AddElement
<1> QED
  BY <1>2 DEF CountInv

LEMMA OneLess ==
  ASSUME CountInv, NEW c \in Properties, Connected(c),
         subscribeCount' = subscribeCount - 1, ConnectedOnes' = ConnectedOnes \ {c}
  PROVE  CountInv'
<1>1. c \in ConnectedOnes
  BY DEF ConnectedOnes
<1>2. Cardinality(ConnectedOnes \ {c}) = Cardinality(ConnectedOnes) - 1
  BY <1>1, ConnectedFinite, FS_RemoveElement
<1> QED
  BY <1>2 DEF CountInv

-----------------------------------------------------------------------------
(* Steps of Provider                                                       *)

\* A step of a provider keeps the types, and changes the intention in subscribe
\* and unsubscribe only.
LEMMA SubscribeTypes ==
  ASSUME KeyTypes, NEW p \in Providers, DoSubscribe(p, key) \/ DoUnsubscribe(p, key)
  PROVE  KeyTypes'
<1>1. key \in Keys /\ UNCHANGED owed
  BY HandleAssumption DEF DoSubscribe, DoUnsubscribe, envVars
<1>2. CASE DoSubscribe(p, key)
  BY <1>1, <1>2 DEF DoSubscribe, KeyTypes
<1>3. CASE DoUnsubscribe(p, key)
  BY <1>1, <1>3 DEF DoUnsubscribe, KeyTypes
<1> QED
  BY <1>2, <1>3

LEMMA HandleSubscribesTypes ==
  ASSUME KeyTypes, NEW p \in Providers, HandleSubscribes(p)
  PROVE  KeyTypes' /\ UNCHANGED subscribedKeys
<1>1. UNCHANGED subscribedKeys
  BY DEF HandleSubscribes
<1>2. CASE HandleSubscribesReady(p)
  <2>1. PICK atOnce \in SUBSET toSubscribe[p] :
          /\ unfinished' = [unfinished EXCEPT ![p] = @ \ Signalled(p, atOnce)]
          /\ owed' = [owed EXCEPT ![p] =
                        [k \in Keys |-> IF k \in toSubscribe[p] \ atOnce
                                        THEN owed[p][k] + 1 ELSE owed[p][k]]]
    BY <1>2 DEF HandleSubscribesReady
  <2>2. [k \in Keys |-> IF k \in toSubscribe[p] \ atOnce
                        THEN owed[p][k] + 1 ELSE owed[p][k]] \in [Keys -> Nat]
    BY DEF KeyTypes
  <2>3. owed' \in [Providers -> [Keys -> Nat]]
    BY <2>1, <2>2 DEF KeyTypes
  <2>4. unfinished' \in [Providers -> SUBSET Keys]
    BY <2>1 DEF KeyTypes
  <2>5. toSubscribe' \in [Providers -> SUBSET Keys]
    BY <1>2 DEF HandleSubscribesReady, KeyTypes
  <2> QED
    BY <1>1, <2>3, <2>4, <2>5 DEF KeyTypes
<1>3. CASE HandleSubscribesFailed(p)
  BY <1>1, <1>3 DEF HandleSubscribesFailed, KeyTypes, envVars
<1>4. CASE HandleSubscribesInitializing(p)
  BY <1>1, <1>4 DEF HandleSubscribesInitializing, KeyTypes, envVars
<1> QED
  BY <1>1, <1>2, <1>3, <1>4 DEF HandleSubscribes

LEMMA AnswerTypes ==
  ASSUME KeyTypes, NEW p \in Providers, DoAnswer(p, key)
  PROVE  KeyTypes' /\ running = Idle /\ UNCHANGED subscribedKeys
<1>1. key \in Keys
  BY HandleAssumption
<1>2. running = Idle /\ UNCHANGED <<subscribedKeys, toSubscribe>>
  BY DEF DoAnswer, MainIdle, scheduleVars
<1>3. owed[p][key] - 1 \in Nat
  BY <1>1 DEF DoAnswer, KeyTypes
<1>4. owed' \in [Providers -> [Keys -> Nat]]
  BY <1>1, <1>3 DEF DoAnswer, KeyTypes
<1> QED
  BY <1>2, <1>4 DEF DoAnswer, KeyTypes

LEMMA PluginTypes ==
  ASSUME KeyTypes, NEW p \in Providers,
         \/ OnQueuedCall(p) \/ ConstructPlugin(p) \/ BlockUntilSubscribed(p)
         \/ PluginReady(p) \/ OnPluginFailed(p) \/ StoreValue(p, key) \/ OnPluginValueChanged(p, key)
  PROVE  KeyTypes' /\ UNCHANGED <<subscribedKeys, unfinished>>
<1>1. CASE \/ OnQueuedCall(p) \/ ConstructPlugin(p) \/ BlockUntilSubscribed(p)
           \/ StoreValue(p, key) \/ OnPluginValueChanged(p, key)
  BY <1>1 DEF OnQueuedCall, ConstructPlugin, BlockUntilSubscribed, ConstructPluginBody,
     StoreValue, OnPluginValueChanged, scheduleVars, envVars, KeyTypes
<1>2. CASE PluginReady(p)
  BY <1>2 DEF PluginReady, OnPluginReady, OnPluginReadyIgnored, Renewed, scheduleVars, KeyTypes
<1>3. CASE OnPluginFailed(p)
  <2>1. [k \in Keys |-> 0] \in [Keys -> Nat]
    OBVIOUS
  <2>2. owed' \in [Providers -> [Keys -> Nat]]
    BY <1>3, <2>1 DEF OnPluginFailed, KeyTypes
  <2> QED
    BY <1>3, <2>2 DEF OnPluginFailed, scheduleVars, KeyTypes
<1> QED
  BY <1>1, <1>2, <1>3

-----------------------------------------------------------------------------
(* The steps of the handle: who is inside, and what is left to do          *)

threadState == <<subscribeCount, lockOwner, myProviders, newProviders, registry, pc, todo, mark>>

\* A step that no thread inside the handle takes.
LEMMA Untouched ==
  ASSUME HandleInv, KeyTypes', UNCHANGED <<threadState, subscribedKeys>>,
         pendingSubscriptions' \subseteq Providers,
         \/ running' = running
         \/ running # Updating /\ \A c \in Properties : running # InApplication(c)
  PROVE  HandleInv'
<1>1. ThreadTypes'
  BY DEF threadState, HandleInv, ThreadInv, ThreadTypes
<1>2. CountInv'
  BY DEF threadState, HandleInv, ThreadInv, CountInv, ConnectedOnes, Connected
<1>3. ExclusiveInv'
  <2>1. ExclusiveInv /\ MainProperties \subseteq Properties
    BY HandleAssumption DEF HandleInv, ThreadInv
  <2> QED
    BY <2>1 DEF threadState, ExclusiveInv, InApplication, Updating
<1>4. LoopInv'
  BY DEF threadState, HandleInv, ThreadInv, LoopInv
<1>5. WantInv'
  BY DEF threadState, HandleInv, WantInv, WantedFrom
<1> QED
  BY <1>1, <1>2, <1>3, <1>4, <1>5 DEF HandleInv, ThreadInv

\* While a property is inside, no other one is, nor updateProvider.
LEMMA OneInside ==
  ASSUME HandleInv, NEW c \in Properties, pc[c] \in InCall
  PROVE  /\ \A d \in Properties : pc[d] \in InCall => d = c
         /\ pc[Updater] = "off"
<1>1. \A d \in Properties : pc[d] \in InCall => d = c
  BY DEF HandleInv, ThreadInv, ExclusiveInv
<1>2. ASSUME pc[Updater] # "off" PROVE FALSE
  <2>1. running = Updating /\ c \in MainProperties
    BY <1>2 DEF HandleInv, ThreadInv, ExclusiveInv, AllInMain
  <2>2. running = InApplication(c)
    BY <2>1 DEF HandleInv, ThreadInv, ExclusiveInv
  <2> QED
    BY <2>1, <2>2, RunningDiffers
<1> QED
  BY <1>1, <1>2

\* While updateProvider works, no property is inside.
LEMMA UpdaterInside ==
  ASSUME HandleInv, pc[Updater] # "off"
  PROVE  \A c \in Properties : pc[c] \notin InCall
BY OneInside

\* An idle handle: nobody inside, the lock free.
LEMMA BeginSubscribeInv ==
  ASSUME HandleInv, KeyTypes', Serial, NEW c \in Properties, BeginSubscribe(c)
  PROVE  HandleInv'
<1>1. /\ pc[c] = "unsubscribed" /\ lockOwner = Unset /\ pc' = [pc EXCEPT ![c] = "subscribing"]
      /\ lockOwner' = c /\ subscribeCount' = subscribeCount + 1
      /\ UNCHANGED <<myProviders, newProviders, registry, mark, subscribedKeys>>
      /\ c \in MainProperties => MainIdle /\ running' = InApplication(c)
      /\ c \notin MainProperties => running' = running
      /\ IF subscribeCount = 0
         THEN pendingSubscriptions' = {} /\ todo' = [todo EXCEPT ![c] = myProviders]
         ELSE UNCHANGED <<pendingSubscriptions, todo>>
  BY DEF BeginSubscribe, Free, Enter, worldVars, scheduleVars
<1>2. \A d \in Properties : pc[d] \notin InCall
  <2>1. Unset \notin Properties
    BY HandleAssumption
  <2> QED
    BY <1>1, <2>1 DEF HandleInv, ThreadInv, ExclusiveInv
<1>3. pc[Updater] = "off"
  <2>1. ASSUME pc[Updater] # "off" PROVE FALSE
    <3>1. running = Updating /\ c \in MainProperties
      BY <2>1 DEF HandleInv, ThreadInv, ExclusiveInv, AllInMain
    <3> QED
      BY <1>1, <3>1, RunningDiffers DEF MainIdle
  <2> QED
    BY <2>1
<1>4. pc \in [Threads -> {"off", "assigning", "unsubscribed", "subscribed"} \cup InCall]
      /\ todo \in [Threads -> SUBSET Providers] /\ myProviders \subseteq Providers
  BY DEF HandleInv, ThreadInv, ThreadTypes
<1>5. pc'[c] = "subscribing" /\ \A t \in Threads \ {c} : pc'[t] = pc[t]
  BY <1>1, <1>4, ThreadsDiffer
<1>6. \A t \in Threads \ {c} : todo'[t] = todo[t]
  BY <1>1, <1>4
<1>7. todo[c] = {} /\ mark[c] = Unset
  BY <1>1, ThreadsDiffer DEF HandleInv, ThreadInv, ExclusiveInv, InCall
<1>8. todo'[c] = IF subscribeCount = 0 THEN myProviders ELSE {}
  BY <1>1, <1>4, <1>7, ThreadsDiffer
<1>9. ThreadTypes'
  <2>1. pc' \in [Threads -> {"off", "assigning", "unsubscribed", "subscribed"} \cup InCall]
        /\ todo' \in [Threads -> SUBSET Providers]
    BY <1>1, <1>4 DEF InCall
  <2>2. pc'[Updater] = pc[Updater]
    BY <1>5, ThreadsDiffer
  <2>3. \A d \in Properties : pc'[d] \in {"unsubscribed", "subscribed"} \cup InCall
    BY <1>5, ThreadsDiffer DEF HandleInv, ThreadInv, ThreadTypes, InCall
  <2> QED
    BY <1>1, <2>1, <2>2, <2>3 DEF HandleInv, ThreadInv, ThreadTypes
<1>10. CountInv'
  <2>1. ~Connected(c)
    BY <1>1 DEF Connected
  <2>2. ConnectedOnes' = ConnectedOnes \cup {c}
    BY <1>5, ThreadsDiffer DEF ConnectedOnes, Connected
  <2> QED
    BY <1>1, <2>1, <2>2, OneMore DEF HandleInv, ThreadInv
<1>11. ExclusiveInv'
  <2>1. \A d \in Properties : pc'[d] \in InCall <=> lockOwner' = d
    BY <1>1, <1>2, <1>5, ThreadsDiffer DEF InCall
  <2>2. \A d \in MainProperties : pc'[d] \in InCall => running' = InApplication(d)
    BY <1>1, <2>1, HandleAssumption
  <2>3. pc'[Updater] = "off"
    BY <1>3, <1>5, ThreadsDiffer
  <2>4. \A t \in Threads : /\ pc'[t] \notin InCall => todo'[t] = {}
                           /\ pc'[t] # "subscribing" => mark'[t] = Unset
    BY <1>1, <1>5, <1>6 DEF HandleInv, ThreadInv, ExclusiveInv, InCall
  <2> QED
    BY <2>1, <2>2, <2>3, <2>4 DEF ExclusiveInv, InCall, InApplication
<1>12. LoopInv'
  <2>1. pc'[Updater] = "off" /\ \A d \in Properties : pc'[d] # "unsubscribing"
    BY <1>2, <1>3, <1>5, ThreadsDiffer DEF InCall
  <2>2. \A d \in Properties : todo'[d] \subseteq myProviders
    BY <1>6, <1>8, ThreadsDiffer DEF HandleInv, ThreadInv, LoopInv
  <2> QED
    BY <1>1, <2>1, <2>2 DEF LoopInv, InCall
<1>13. WantInv'
  <2> SUFFICES ASSUME NEW p \in Providers PROVE key \in subscribedKeys[p] <=> WantedFrom(p)'
    BY <1>1 DEF WantInv
  <2>1. subscribeCount \in Nat /\ subscribeCount' > 0
    BY <1>1, CountIsNat DEF HandleInv, ThreadInv
  <2>2. pc'[Updater] = "off"
    BY <1>3, <1>5, ThreadsDiffer
  <2>3. WantedFrom(p) <=> p \in myProviders /\ subscribeCount > 0
    BY <1>2, <1>3 DEF WantedFrom, InCall
  <2>4. (\A d \in Properties : pc'[d] = "subscribing" => p \notin todo'[d]) <=> p \notin todo'[c]
    BY <1>2, <1>5, ThreadsDiffer DEF InCall
  <2>5. WantedFrom(p)' <=> p \in myProviders /\ p \notin todo'[c]
    BY <1>1, <2>1, <2>2, <2>4 DEF WantedFrom
  <2> QED
    BY <1>8, <2>1, <2>3, <2>5 DEF HandleInv, WantInv
<1> QED
  BY <1>9, <1>10, <1>11, <1>12, <1>13 DEF HandleInv, ThreadInv

LEMMA BeginUnsubscribeInv ==
  ASSUME HandleInv, KeyTypes', Serial, NEW c \in Properties, BeginUnsubscribe(c)
  PROVE  HandleInv'
<1>1. /\ pc[c] = "subscribed" /\ lockOwner = Unset /\ pc' = [pc EXCEPT ![c] = "unsubscribing"]
      /\ lockOwner' = c /\ subscribeCount' = subscribeCount - 1
      /\ UNCHANGED <<myProviders, newProviders, registry, mark, subscribedKeys>>
      /\ c \in MainProperties => MainIdle /\ running' = InApplication(c)
      /\ c \notin MainProperties => running' = running
      /\ IF subscribeCount = 1
         THEN pendingSubscriptions' = {} /\ todo' = [todo EXCEPT ![c] = myProviders]
         ELSE UNCHANGED <<pendingSubscriptions, todo>>
  BY DEF BeginUnsubscribe, CountDown, LeavesProviders, Free, Enter, worldVars, scheduleVars
<1>2. \A d \in Properties : pc[d] \notin InCall
  <2>1. Unset \notin Properties
    BY HandleAssumption
  <2> QED
    BY <1>1, <2>1 DEF HandleInv, ThreadInv, ExclusiveInv
<1>3. pc[Updater] = "off"
  <2>1. ASSUME pc[Updater] # "off" PROVE FALSE
    <3>1. running = Updating /\ c \in MainProperties
      BY <2>1 DEF HandleInv, ThreadInv, ExclusiveInv, AllInMain
    <3> QED
      BY <1>1, <3>1, RunningDiffers DEF MainIdle
  <2> QED
    BY <2>1
<1>4. pc \in [Threads -> {"off", "assigning", "unsubscribed", "subscribed"} \cup InCall]
      /\ todo \in [Threads -> SUBSET Providers] /\ myProviders \subseteq Providers
  BY DEF HandleInv, ThreadInv, ThreadTypes
<1>5. pc'[c] = "unsubscribing" /\ \A t \in Threads \ {c} : pc'[t] = pc[t]
  BY <1>1, <1>4, ThreadsDiffer
<1>6. \A t \in Threads \ {c} : todo'[t] = todo[t]
  BY <1>1, <1>4
<1>7. todo[c] = {} /\ mark[c] = Unset
  BY <1>1, ThreadsDiffer DEF HandleInv, ThreadInv, ExclusiveInv, InCall
<1>8. todo'[c] = IF subscribeCount = 1 THEN myProviders ELSE {}
  BY <1>1, <1>4, <1>7, ThreadsDiffer
<1>0. subscribeCount \in Nat /\ subscribeCount > 0
  BY <1>1, CountIsNat, CountPositive DEF HandleInv, ThreadInv, Connected
<1>9. ThreadTypes'
  <2>1. pc' \in [Threads -> {"off", "assigning", "unsubscribed", "subscribed"} \cup InCall]
        /\ todo' \in [Threads -> SUBSET Providers]
    BY <1>1, <1>4 DEF InCall
  <2>2. pc'[Updater] = pc[Updater]
    BY <1>5, ThreadsDiffer
  <2>3. \A d \in Properties : pc'[d] \in {"unsubscribed", "subscribed"} \cup InCall
    BY <1>5, ThreadsDiffer DEF HandleInv, ThreadInv, ThreadTypes, InCall
  <2> QED
    BY <1>1, <2>1, <2>2, <2>3 DEF HandleInv, ThreadInv, ThreadTypes
<1>10. CountInv'
  <2>1. Connected(c)
    BY <1>1 DEF Connected
  <2>2. ConnectedOnes' = ConnectedOnes \ {c}
    BY <1>5, ThreadsDiffer DEF ConnectedOnes, Connected
  <2> QED
    BY <1>1, <2>1, <2>2, OneLess DEF HandleInv, ThreadInv
<1>11. ExclusiveInv'
  <2>1. \A d \in Properties : pc'[d] \in InCall <=> lockOwner' = d
    BY <1>1, <1>2, <1>5, ThreadsDiffer DEF InCall
  <2>2. \A d \in MainProperties : pc'[d] \in InCall => running' = InApplication(d)
    BY <1>1, <2>1, HandleAssumption
  <2>3. pc'[Updater] = "off"
    BY <1>3, <1>5, ThreadsDiffer
  <2>4. \A t \in Threads : /\ pc'[t] \notin InCall => todo'[t] = {}
                           /\ pc'[t] # "subscribing" => mark'[t] = Unset
    BY <1>1, <1>5, <1>6, <1>7 DEF HandleInv, ThreadInv, ExclusiveInv, InCall
  <2> QED
    BY <2>1, <2>2, <2>3, <2>4 DEF ExclusiveInv, InCall, InApplication
<1>12. LoopInv'
  <2>1. pc'[Updater] = "off" /\ \A d \in Properties \ {c} : pc'[d] # "unsubscribing"
    BY <1>2, <1>3, <1>5, ThreadsDiffer DEF InCall
  <2>2. \A d \in Properties : todo'[d] \subseteq myProviders
    BY <1>6, <1>8, ThreadsDiffer DEF HandleInv, ThreadInv, LoopInv
  <2>3. subscribeCount' > 0 => todo'[c] = {}
    BY <1>0, <1>1, <1>8
  <2> QED
    BY <1>1, <2>1, <2>2, <2>3 DEF LoopInv, InCall
<1>13. WantInv'
  <2> SUFFICES ASSUME NEW p \in Providers PROVE key \in subscribedKeys[p] <=> WantedFrom(p)'
    BY <1>1 DEF WantInv
  <2>2. pc'[Updater] = "off"
    BY <1>3, <1>5, ThreadsDiffer
  <2>3. WantedFrom(p) <=> p \in myProviders
    BY <1>0, <1>2, <1>3 DEF WantedFrom, InCall
  <2>4. \A d \in Properties : pc'[d] # "subscribing"
    BY <1>2, <1>5, ThreadsDiffer DEF InCall
  <2>5. (\E d \in Properties : pc'[d] = "unsubscribing" /\ p \in todo'[d]) <=> p \in todo'[c]
    BY <1>2, <1>5, ThreadsDiffer DEF InCall
  <2>6. WantedFrom(p)' <=> p \in myProviders /\ (subscribeCount' > 0 \/ p \in todo'[c])
    BY <1>1, <2>2, <2>4, <2>5 DEF WantedFrom
  <2>7. subscribeCount' > 0 \/ todo'[c] = myProviders
    BY <1>0, <1>1, <1>8
  <2> QED
    BY <2>3, <2>6, <2>7 DEF HandleInv, WantInv
<1> QED
  BY <1>9, <1>10, <1>11, <1>12, <1>13 DEF HandleInv, ThreadInv

\* The call returns: with an empty loop, both forms of the intention agree.
LEMMA EndCallInv ==
  ASSUME HandleInv, KeyTypes', NEW c \in Properties, EndCall(c)
  PROVE  HandleInv'
<1>1. /\ pc[c] \in InCall /\ todo[c] = {} /\ mark[c] = Unset
      /\ pc' = [pc EXCEPT ![c] = IF pc[c] = "subscribing" THEN "subscribed" ELSE "unsubscribed"]
      /\ lockOwner' = Unset
      /\ UNCHANGED <<subscribeCount, pendingSubscriptions, myProviders, newProviders, registry,
                     todo, mark, subscribedKeys>>
  BY DEF EndCall, worldVars, scheduleVars
<1>2. pc[Updater] = "off" /\ \A d \in Properties : pc[d] \in InCall => d = c
  BY <1>1, OneInside
<1>3. pc \in [Threads -> {"off", "assigning", "unsubscribed", "subscribed"} \cup InCall]
  BY DEF HandleInv, ThreadInv, ThreadTypes
<1>4. /\ pc'[c] = IF pc[c] = "subscribing" THEN "subscribed" ELSE "unsubscribed"
      /\ \A t \in Threads \ {c} : pc'[t] = pc[t]
  BY <1>1, <1>3, ThreadsDiffer
<1>5. pc'[Updater] = "off" /\ \A d \in Properties : pc'[d] \notin InCall
  BY <1>2, <1>4, ThreadsDiffer DEF InCall
<1>6. ThreadTypes'
  <2>1. pc' \in [Threads -> {"off", "assigning", "unsubscribed", "subscribed"} \cup InCall]
    BY <1>1, <1>3 DEF InCall
  <2>2. \A d \in Properties : pc'[d] \in {"unsubscribed", "subscribed"} \cup InCall
    BY <1>4, ThreadsDiffer DEF HandleInv, ThreadInv, ThreadTypes, InCall
  <2> QED
    BY <1>1, <1>5, <2>1, <2>2 DEF HandleInv, ThreadInv, ThreadTypes
<1>7. CountInv'
  <2>1. \A d \in Properties : (pc'[d] \in {"subscribing", "subscribed"})
                                <=> pc[d] \in {"subscribing", "subscribed"}
    BY <1>1, <1>4, ThreadsDiffer DEF InCall
  <2>2. ConnectedOnes' = ConnectedOnes
    BY <2>1 DEF ConnectedOnes, Connected
  <2> QED
    BY <1>1, <2>2 DEF HandleInv, ThreadInv, CountInv
<1>8. ExclusiveInv'
  <2>1. \A d \in Properties : pc'[d] \in InCall <=> lockOwner' = d
    BY <1>1, <1>5, HandleAssumption
  <2>2. \A t \in Threads : /\ pc'[t] \notin InCall => todo'[t] = {}
                           /\ pc'[t] # "subscribing" => mark'[t] = Unset
    BY <1>1, <1>4 DEF HandleInv, ThreadInv, ExclusiveInv, InCall
  <2> QED
    BY <1>5, <2>1, <2>2, HandleAssumption DEF ExclusiveInv, InCall, InApplication
<1>9. LoopInv'
  BY <1>1, <1>5 DEF HandleInv, ThreadInv, LoopInv, InCall
<1>10. WantInv'
  <2> SUFFICES ASSUME NEW p \in Providers PROVE key \in subscribedKeys[p] <=> WantedFrom(p)'
    BY <1>1 DEF WantInv
  <2>1. WantedFrom(p) <=> p \in myProviders /\ subscribeCount > 0
    BY <1>1, <1>2 DEF WantedFrom, InCall
  <2>2. WantedFrom(p)' <=> p \in myProviders /\ subscribeCount > 0
    BY <1>1, <1>5 DEF WantedFrom, InCall
  <2> QED
    BY <2>1, <2>2 DEF HandleInv, WantInv
<1> QED
  BY <1>6, <1>7, <1>8, <1>9, <1>10 DEF HandleInv, ThreadInv

\* A thread goes one step further in its loop over the providers.
LEMMA LoopGoesOn ==
  ASSUME HandleInv, KeyTypes', NEW t \in Threads, pc[t] \in InCall, NEW p \in todo[t],
         todo' = [todo EXCEPT ![t] = @ \ {p}], NEW q \in Providers \cup {Unset},
         mark' = [mark EXCEPT ![t] = q], q # Unset => pc[t] = "subscribing",
         subscribedKeys' = [subscribedKeys EXCEPT ![p] =
                              IF pc[t] = "subscribing" THEN @ \cup {key} ELSE @ \ {key}],
         UNCHANGED <<subscribeCount, lockOwner, myProviders, newProviders, registry, pc, running,
                     pendingSubscriptions>>
  PROVE  HandleInv'
<1>1. /\ todo \in [Threads -> SUBSET Providers] /\ mark \in [Threads -> Providers \cup {Unset}]
      /\ subscribedKeys \in [Providers -> SUBSET Keys] /\ key \in Keys
  BY HandleAssumption DEF HandleInv, ThreadInv, ThreadTypes, KeyTypes
<1>2. /\ p \in Providers /\ todo'[t] = todo[t] \ {p}
      /\ \A u \in Threads \ {t} : todo'[u] = todo[u] /\ mark'[u] = mark[u]
      /\ mark'[t] = q
  BY <1>1
<1>3. ThreadTypes'
  BY <1>1 DEF HandleInv, ThreadInv, ThreadTypes
<1>4. CountInv'
  BY DEF HandleInv, ThreadInv, CountInv, ConnectedOnes, Connected
<1>5. ExclusiveInv'
  <2>1. \A u \in Threads : /\ pc[u] \notin InCall => todo'[u] = {}
                           /\ pc[u] # "subscribing" => mark'[u] = Unset
    BY <1>2 DEF HandleInv, ThreadInv, ExclusiveInv
  <2> QED
    BY <2>1 DEF HandleInv, ThreadInv, ExclusiveInv, InCall, InApplication
<1>6. \A u \in Threads : todo'[u] \subseteq todo[u]
  BY <1>2
<1>7. LoopInv'
  BY <1>6, ThreadsDiffer DEF HandleInv, ThreadInv, LoopInv, InCall
<1>8. WantInv'
  <2> SUFFICES ASSUME NEW r \in Providers PROVE key \in subscribedKeys'[r] <=> WantedFrom(r)'
    BY DEF WantInv
  <2>1. /\ r # p => subscribedKeys'[r] = subscribedKeys[r]
        /\ key \in subscribedKeys'[p] <=> pc[t] = "subscribing"
    BY <1>1, <1>2
  <2>2. key \in subscribedKeys[r] <=> WantedFrom(r)
    BY DEF HandleInv, WantInv
  <2>3. CASE t = Updater
    <3>1. pc[Updater] # "unsubscribing" => todo[Updater] \subseteq newProviders
      BY <2>3 DEF HandleInv, ThreadInv, LoopInv, InCall
    <3>2. WantedFrom(r)' <=> IF pc[t] = "subscribing" THEN r \in newProviders \ todo'[t]
                             ELSE r \in todo'[t]
      BY <2>3 DEF WantedFrom, InCall
    <3>3. WantedFrom(r) <=> IF pc[t] = "subscribing" THEN r \in newProviders \ todo[t]
                            ELSE r \in todo[t]
      BY <2>3 DEF WantedFrom, InCall
    <3> QED
      BY <1>2, <2>1, <2>2, <2>3, <3>1, <3>2, <3>3 DEF InCall
  <2>4. CASE t \in Properties
    <3>1. pc[Updater] = "off" /\ \A d \in Properties : pc[d] \in InCall => d = t
      BY <2>4, OneInside
    <3>2. p \in myProviders
      BY <2>4 DEF HandleInv, ThreadInv, LoopInv
    <3>3. CASE pc[t] = "subscribing"
      <4>1. subscribeCount > 0
        BY <2>4, <3>3, CountPositive DEF HandleInv, ThreadInv, Connected
      <4>2. WantedFrom(r) <=> r \in myProviders \ todo[t]
        BY <2>4, <3>1, <3>3, <4>1 DEF WantedFrom, InCall
      <4>3. WantedFrom(r)' <=> r \in myProviders \ todo'[t]
        BY <2>4, <3>1, <3>3, <4>1 DEF WantedFrom, InCall
      <4> QED
        BY <1>2, <2>1, <2>2, <3>2, <3>3, <4>2, <4>3
    <3>4. CASE pc[t] = "unsubscribing"
      <4>1. ~(subscribeCount > 0)
        BY <2>4, <3>4 DEF HandleInv, ThreadInv, LoopInv
      <4>2. WantedFrom(r) <=> r \in myProviders /\ r \in todo[t]
        BY <2>4, <3>1, <3>4, <4>1 DEF WantedFrom, InCall
      <4>3. WantedFrom(r)' <=> r \in myProviders /\ r \in todo'[t]
        BY <2>4, <3>1, <3>4, <4>1 DEF WantedFrom, InCall
      <4> QED
        BY <1>2, <2>1, <2>2, <3>4, <4>2, <4>3
    <3> QED
      BY <3>3, <3>4 DEF InCall
  <2> QED
    BY <2>3, <2>4 DEF Threads
<1> QED
  BY <1>3, <1>4, <1>5, <1>7, <1>8 DEF HandleInv, ThreadInv

LEMMA LoopStepInv ==
  ASSUME HandleInv, NEW t \in Threads, LoopStep(t)
  PROVE  HandleInv'
<1>1. todo[t] \subseteq Providers
  BY DEF HandleInv, ThreadInv, ThreadTypes
<1>2. CASE CallSubscribe(t)
  <2>1. PICK p \in todo[t] :
          /\ DoSubscribe(p, key)
          /\ todo' = [todo EXCEPT ![t] = @ \ {p}]
          /\ mark' = [mark EXCEPT ![t] = IF SubscribeReturns(p, key) THEN p ELSE Unset]
    BY <1>2 DEF CallSubscribe
  <2>2. PICK q \in Providers \cup {Unset} : mark' = [mark EXCEPT ![t] = q]
    BY <1>1, <2>1
  <2>3. pc[t] = "subscribing"
        /\ UNCHANGED <<subscribeCount, lockOwner, myProviders, newProviders, registry, pc,
                       running, pendingSubscriptions>>
    BY <1>2, <2>1 DEF CallSubscribe, DoSubscribe, handleVars, worldVars
  <2>4. subscribedKeys' = [subscribedKeys EXCEPT ![p] = @ \cup {key}]
    BY <2>1 DEF DoSubscribe
  <2>5. KeyTypes'
    BY <1>1, <2>1, SubscribeTypes DEF HandleInv, ThreadInv
  <2>6. subscribedKeys' = [subscribedKeys EXCEPT ![p] =
                              IF pc[t] = "subscribing" THEN @ \cup {key} ELSE @ \ {key}]
    BY <2>3, <2>4
  <2> QED
    BY <2>1, <2>2, <2>3, <2>5, <2>6, LoopGoesOn DEF InCall
<1>3. CASE CallUnsubscribe(t)
  <2>1. PICK p \in todo[t] : DoUnsubscribe(p, key) /\ todo' = [todo EXCEPT ![t] = @ \ {p}]
    BY <1>3 DEF CallUnsubscribe
  <2>2. pc[t] = "unsubscribing"
        /\ UNCHANGED <<subscribeCount, lockOwner, myProviders, newProviders, registry, pc,
                       running, pendingSubscriptions, mark>>
    BY <1>3, <2>1 DEF CallUnsubscribe, DoUnsubscribe, handleVars, worldVars
  <2>3. mark' = [mark EXCEPT ![t] = Unset]
    <3>1. mark[t] = Unset /\ mark \in [Threads -> Providers \cup {Unset}]
      BY <2>2 DEF HandleInv, ThreadInv, ThreadTypes, ExclusiveInv
    <3> QED
      BY <2>2, <3>1
  <2>4. KeyTypes'
    BY <1>1, <2>1, SubscribeTypes DEF HandleInv, ThreadInv
  <2>5. subscribedKeys' = [subscribedKeys EXCEPT ![p] =
                              IF pc[t] = "subscribing" THEN @ \cup {key} ELSE @ \ {key}]
    BY <2>1, <2>2 DEF DoUnsubscribe
  <2> QED
    BY <2>1, <2>2, <2>3, <2>4, <2>5, LoopGoesOn DEF InCall
<1>4. CASE MarkPending(t)
  <2>1. /\ mark[t] \in Providers /\ mark' = [mark EXCEPT ![t] = Unset]
        /\ pendingSubscriptions' = pendingSubscriptions \cup {mark[t]}
        /\ UNCHANGED <<subscribeCount, lockOwner, myProviders, newProviders, registry, pc, todo,
                       running, subscribedKeys, toSubscribe, unfinished, owed>>
    BY <1>4 DEF MarkPending, Marked, providerVars, scheduleVars, envVars, worldVars, HandleInv,
       ThreadInv, ThreadTypes
  <2>2. /\ KeyTypes' /\ mark \in [Threads -> Providers \cup {Unset}]
        /\ pendingSubscriptions \subseteq Providers
    BY <2>1 DEF HandleInv, ThreadInv, KeyTypes, ThreadTypes
  <2>3. ThreadTypes'
    BY <2>1, <2>2 DEF HandleInv, ThreadInv, ThreadTypes
  <2>4. \A u \in Threads : mark'[u] \in {mark[u], Unset}
    BY <2>1, <2>2
  <2>5. ExclusiveInv'
    BY <2>1, <2>4 DEF HandleInv, ThreadInv, ExclusiveInv, InCall, InApplication
  <2>6. CountInv' /\ LoopInv' /\ WantInv'
    BY <2>1 DEF HandleInv, ThreadInv, CountInv, ConnectedOnes, Connected, LoopInv, WantInv,
       WantedFrom, InCall
  <2> QED
    BY <2>2, <2>3, <2>5, <2>6 DEF HandleInv, ThreadInv
<1> QED
  BY <1>2, <1>3, <1>4 DEF LoopStep

-----------------------------------------------------------------------------
(* updateProvider                                                          *)

LEMMA BeginUpdateInv ==
  ASSUME HandleInv, Serial, BeginUpdate
  PROVE  HandleInv' /\ AllInMain
<1>1. /\ MainIdle /\ running' = Updating
      /\ newProviders' = Chosen(registry', commanderPresence')
      /\ pc' = [pc EXCEPT ![Updater] = IF subscribeCount > 0 THEN "unsubscribing" ELSE "assigning"]
      /\ todo' = [todo EXCEPT ![Updater] = IF subscribeCount > 0 THEN myProviders ELSE {}]
      /\ UNCHANGED <<subscribeCount, lockOwner, myProviders, pendingSubscriptions, mark,
                     subscribedKeys, toSubscribe, unfinished, owed>>
  BY DEF BeginUpdate, scheduleVars, envVars, handleVars
<1>2. (RegistryChanges /\ registry' \in RegistrySets) \/ (CommandingEnabled /\ UNCHANGED registry)
  BY DEF BeginUpdate
<1>3. AllInMain /\ registry' \in RegistrySets
  BY <1>2 DEF Serial, HandleInv, ThreadInv, ThreadTypes
<1>4. newProviders' \subseteq Providers
  BY <1>1, <1>3, HandleAssumption DEF Chosen
<1>5. pc[Updater] = "off" /\ \A c \in Properties : pc[c] \notin InCall
  BY <1>1, <1>3, RunningDiffers DEF MainIdle, AllInMain, HandleInv, ThreadInv, ExclusiveInv
<1>6. /\ pc \in [Threads -> {"off", "assigning", "unsubscribed", "subscribed"} \cup InCall]
      /\ todo \in [Threads -> SUBSET Providers] /\ myProviders \subseteq Providers
      /\ subscribeCount \in Nat
  BY CountIsNat DEF HandleInv, ThreadInv, ThreadTypes
<1>7. /\ pc'[Updater] = IF subscribeCount > 0 THEN "unsubscribing" ELSE "assigning"
      /\ todo'[Updater] = IF subscribeCount > 0 THEN myProviders ELSE {}
      /\ \A c \in Properties : pc'[c] = pc[c] /\ todo'[c] = todo[c]
  BY <1>1, <1>6, ThreadsDiffer
<1>8. KeyTypes'
  BY <1>1 DEF HandleInv, ThreadInv, KeyTypes
<1>9. ThreadTypes'
  <2>1. pc' \in [Threads -> {"off", "assigning", "unsubscribed", "subscribed"} \cup InCall]
        /\ todo' \in [Threads -> SUBSET Providers]
    BY <1>1, <1>6 DEF InCall
  <2> QED
    BY <1>1, <1>3, <1>4, <1>7, <2>1 DEF HandleInv, ThreadInv, ThreadTypes, InCall
<1>10. CountInv'
  BY <1>1, <1>7 DEF HandleInv, ThreadInv, CountInv, ConnectedOnes, Connected
<1>11. ExclusiveInv'
  <2>1. \A t \in Threads : /\ pc'[t] \notin InCall => todo'[t] = {}
                           /\ pc'[t] # "subscribing" => mark'[t] = Unset
    BY <1>1, <1>5, <1>7 DEF HandleInv, ThreadInv, ExclusiveInv, InCall, Threads
  <2>2. \A c \in Properties : pc'[c] \notin InCall /\ (pc'[c] \in InCall <=> lockOwner' = c)
    BY <1>1, <1>5, <1>7 DEF HandleInv, ThreadInv, ExclusiveInv
  <2> QED
    BY <1>1, <1>3, <2>1, <2>2, HandleAssumption DEF ExclusiveInv, AllInMain, InApplication,
                                                    Updating, InCall
<1>12. LoopInv'
  BY <1>1, <1>5, <1>6, <1>7 DEF HandleInv, ThreadInv, LoopInv, InCall
<1>13. WantInv'
  <2> SUFFICES ASSUME NEW p \in Providers PROVE key \in subscribedKeys[p] <=> WantedFrom(p)'
    BY <1>1 DEF WantInv
  <2>1. WantedFrom(p) <=> p \in myProviders /\ subscribeCount > 0
    BY <1>5 DEF WantedFrom, InCall
  <2>2. WantedFrom(p)' <=> subscribeCount > 0 /\ p \in myProviders
    BY <1>1, <1>5, <1>7 DEF WantedFrom, InCall
  <2> QED
    BY <2>1, <2>2 DEF HandleInv, WantInv
<1> QED
  BY <1>3, <1>8, <1>9, <1>10, <1>11, <1>12, <1>13 DEF HandleInv, ThreadInv

\* Every former provider has been left, none of the new ones been asked.
LEMMA ForgetPendingInv ==
  ASSUME HandleInv, ForgetPending
  PROVE  HandleInv'
<1>1. /\ pc[Updater] = "unsubscribing" /\ todo[Updater] = {} /\ pendingSubscriptions' = {}
      /\ pc' = [pc EXCEPT ![Updater] = "subscribing"]
      /\ todo' = [todo EXCEPT ![Updater] = newProviders]
      /\ UNCHANGED <<subscribeCount, lockOwner, myProviders, newProviders, registry, mark, running,
                     subscribedKeys, toSubscribe, unfinished, owed>>
  BY DEF ForgetPending, providerVars, scheduleVars, envVars, worldVars
<1>2. /\ pc \in [Threads -> {"off", "assigning", "unsubscribed", "subscribed"} \cup InCall]
      /\ todo \in [Threads -> SUBSET Providers] /\ newProviders \subseteq Providers
  BY DEF HandleInv, ThreadInv, ThreadTypes
<1>3. /\ pc'[Updater] = "subscribing" /\ todo'[Updater] = newProviders
      /\ \A c \in Properties : pc'[c] = pc[c] /\ todo'[c] = todo[c]
  BY <1>1, <1>2, ThreadsDiffer
<1>4. KeyTypes'
  BY <1>1 DEF HandleInv, ThreadInv, KeyTypes
<1>5. ThreadTypes'
  <2>1. pc' \in [Threads -> {"off", "assigning", "unsubscribed", "subscribed"} \cup InCall]
        /\ todo' \in [Threads -> SUBSET Providers]
    BY <1>1, <1>2 DEF InCall
  <2> QED
    BY <1>1, <1>3, <2>1 DEF HandleInv, ThreadInv, ThreadTypes, InCall
<1>6. CountInv'
  BY <1>1, <1>3 DEF HandleInv, ThreadInv, CountInv, ConnectedOnes, Connected
<1>7. ExclusiveInv'
  <2>1. \A t \in Threads : /\ pc'[t] \notin InCall => todo'[t] = {}
                           /\ pc'[t] # "subscribing" => mark'[t] = Unset
    BY <1>1, <1>3 DEF HandleInv, ThreadInv, ExclusiveInv, InCall, Threads
  <2>2. \A c \in Properties : pc'[c] \in InCall <=> pc[c] \in InCall
    BY <1>3
  <2> QED
    BY <1>1, <1>3, <2>1, <2>2, HandleAssumption
       DEF HandleInv, ThreadInv, ExclusiveInv, InApplication, Updating, InCall
<1>8. LoopInv'
  BY <1>1, <1>3 DEF HandleInv, ThreadInv, LoopInv, InCall
<1>9. WantInv'
  BY <1>1, <1>3 DEF HandleInv, WantInv, WantedFrom, InCall
<1> QED
  BY <1>4, <1>5, <1>6, <1>7, <1>8, <1>9 DEF HandleInv, ThreadInv

LEMMA EndUpdateInv ==
  ASSUME HandleInv, EndUpdate
  PROVE  HandleInv'
<1>1. /\ pc[Updater] \in {"subscribing", "assigning"} /\ todo[Updater] = {}
      /\ mark[Updater] = Unset /\ myProviders' = newProviders
      /\ pc' = [pc EXCEPT ![Updater] = "off"]
      /\ UNCHANGED <<subscribeCount, lockOwner, pendingSubscriptions, newProviders, registry,
                     todo, mark, subscribedKeys, toSubscribe, unfinished, owed>>
  BY DEF EndUpdate, scheduleVars, envVars, worldVars
<1>2. /\ pc \in [Threads -> {"off", "assigning", "unsubscribed", "subscribed"} \cup InCall]
      /\ subscribeCount \in Nat
  BY CountIsNat DEF HandleInv, ThreadInv, ThreadTypes
<1>3. pc'[Updater] = "off" /\ \A c \in Properties : pc'[c] = pc[c]
  BY <1>1, <1>2, ThreadsDiffer
<1>4. \A c \in Properties : pc[c] \notin InCall /\ todo[c] = {}
  BY <1>1, UpdaterInside, ThreadsDiffer DEF HandleInv, ThreadInv, ExclusiveInv
<1>5. KeyTypes'
  BY <1>1 DEF HandleInv, ThreadInv, KeyTypes
<1>6. ThreadTypes'
  <2>1. pc' \in [Threads -> {"off", "assigning", "unsubscribed", "subscribed"} \cup InCall]
    BY <1>1, <1>2 DEF InCall
  <2> QED
    BY <1>1, <1>3, <2>1 DEF HandleInv, ThreadInv, ThreadTypes, InCall
<1>7. CountInv'
  BY <1>1, <1>3 DEF HandleInv, ThreadInv, CountInv, ConnectedOnes, Connected
<1>8. ExclusiveInv'
  <2>1. \A t \in Threads : /\ pc'[t] \notin InCall => todo'[t] = {}
                           /\ pc'[t] # "subscribing" => mark'[t] = Unset
    BY <1>1, <1>3, <1>4 DEF HandleInv, ThreadInv, ExclusiveInv, InCall, Threads
  <2>2. \A c \in Properties : pc'[c] \notin InCall /\ (pc'[c] \in InCall <=> lockOwner' = c)
    BY <1>1, <1>3, <1>4 DEF HandleInv, ThreadInv, ExclusiveInv
  <2> QED
    BY <1>3, <2>1, <2>2, HandleAssumption DEF ExclusiveInv, InApplication, Updating, InCall
<1>9. LoopInv'
  BY <1>1, <1>3, <1>4 DEF LoopInv, InCall
<1>10. WantInv'
  <2> SUFFICES ASSUME NEW p \in Providers PROVE key \in subscribedKeys[p] <=> WantedFrom(p)'
    BY <1>1 DEF WantInv
  <2>1. WantedFrom(p)' <=> p \in newProviders /\ subscribeCount > 0
    BY <1>1, <1>3, <1>4 DEF WantedFrom, InCall
  <2>2. CASE pc[Updater] = "subscribing"
    <3>1. subscribeCount > 0
      BY <2>2 DEF HandleInv, ThreadInv, LoopInv, InCall
    <3>2. WantedFrom(p) <=> p \in newProviders
      BY <1>1, <2>2 DEF WantedFrom
    <3> QED
      BY <2>1, <3>1, <3>2 DEF HandleInv, WantInv
  <2>3. CASE pc[Updater] = "assigning"
    <3>1. subscribeCount = 0
      BY <2>3 DEF HandleInv, ThreadInv, LoopInv
    <3>2. ~WantedFrom(p)
      BY <1>4, <2>3, <3>1 DEF WantedFrom, InCall
    <3> QED
      BY <2>1, <3>1, <3>2 DEF HandleInv, WantInv
  <2> QED
    BY <1>1, <2>2, <2>3
<1> QED
  BY <1>5, <1>6, <1>7, <1>8, <1>9, <1>10 DEF HandleInv, ThreadInv

-----------------------------------------------------------------------------
(* What providers do                                                       *)

\* Only pending subscriptions and what the main thread goes on with change.
LEMMA ProviderStepInv ==
  ASSUME HandleInv, NEW p \in Providers,
         \/ ProviderQueuedCall(p) \/ ProviderConstructs(p) \/ ProviderBlocks(p)
         \/ ProviderReady(p) \/ ProviderFails(p) \/ ProviderHandlesSubscribes(p)
         \/ ProviderFinished(p) \/ ProviderFailed(p) \/ ProviderStores(p) \/ ProviderValue(p)
  PROVE  HandleInv'
<1>0. KeyTypes /\ pendingSubscriptions \subseteq Providers
  BY DEF HandleInv, ThreadInv, ThreadTypes
<1>1. ASSUME running = Idle \/ running = Storing(p, key) \/ \E m \in Methods : running = <<p, m>>
      PROVE  running # Updating /\ \A c \in Properties : running # InApplication(c)
  BY <1>1, RunningDiffers
<1>2. CASE \/ ProviderQueuedCall(p) \/ ProviderConstructs(p) \/ ProviderBlocks(p)
           \/ ProviderReady(p) \/ ProviderFails(p)
  <2>1. /\ \/ OnQueuedCall(p) \/ ConstructPlugin(p) \/ BlockUntilSubscribed(p)
           \/ PluginReady(p) \/ OnPluginFailed(p)
        /\ UNCHANGED <<threadState, pendingSubscriptions>>
    <3>1. \/ OnQueuedCall(p) \/ ConstructPlugin(p) \/ BlockUntilSubscribed(p)
          \/ PluginReady(p) \/ OnPluginFailed(p)
      BY <1>2 DEF ProviderQueuedCall, ProviderConstructs, ProviderBlocks, ProviderReady,
         ProviderFails, Above
    <3>2. UNCHANGED <<handleVars, worldVars, newProviders, threadVars>>
      BY <1>2 DEF ProviderQueuedCall, ProviderConstructs, ProviderBlocks, ProviderReady,
         ProviderFails, Above
    <3> QED
      BY <3>1, <3>2 DEF threadState, handleVars, worldVars, threadVars
  <2>2. running = Idle \/ running = <<p, ConstructPluginCall>>
    BY <2>1 DEF OnQueuedCall, ConstructPlugin, BlockUntilSubscribed, PluginReady, OnPluginReady,
                OnPluginReadyIgnored,
       OnPluginFailed, MainIdle
  <2>3. KeyTypes' /\ UNCHANGED subscribedKeys
    BY <1>0, <2>1, PluginTypes
  <2> QED
    BY <1>0, <1>1, <2>1, <2>2, <2>3, Untouched DEF Methods
<1>3. CASE ProviderHandlesSubscribes(p)
  <2>1. HandleSubscribes(p) /\ UNCHANGED threadState
        /\ pendingSubscriptions' \subseteq pendingSubscriptions
    BY <1>3 DEF ProviderHandlesSubscribes, SetSubscribeFinished, threadState, worldVars, threadVars
  <2>2. running = <<p, HandleSubscribesCall>>
    BY <2>1 DEF HandleSubscribes
  <2> QED
    BY <1>0, <1>1, <2>1, <2>2, HandleSubscribesTypes, Untouched DEF Methods
<1>4. CASE ProviderFinished(p) \/ ProviderFailed(p)
  <2>1. DoAnswer(p, key) /\ UNCHANGED threadState
        /\ pendingSubscriptions' \subseteq pendingSubscriptions
    BY <1>4 DEF ProviderFinished, ProviderFailed, OnPluginSubscribeFinished,
       OnPluginSubscribeFailed, SetSubscribeFinished, threadState, worldVars, threadVars
  <2> QED
    BY <1>0, <1>1, <2>1, AnswerTypes, Untouched
<1>5. CASE ProviderStores(p) \/ ProviderValue(p)
  <2>1. /\ StoreValue(p, key) \/ OnPluginValueChanged(p, key)
        /\ UNCHANGED <<threadState, pendingSubscriptions>>
    BY <1>5 DEF ProviderStores, ProviderValue, Routed, threadState, worldVars, threadVars
  <2>2. running = Idle \/ running = Storing(p, key)
    BY <2>1 DEF StoreValue, OnPluginValueChanged, MainIdle
  <2> QED
    BY <1>0, <1>1, <2>1, <2>2, PluginTypes, Untouched
<1> QED
  BY <1>2, <1>3, <1>4, <1>5

LEMMA HandleInitInv == HandleInit => HandleInv
<1> SUFFICES ASSUME HandleInit PROVE HandleInv
  OBVIOUS
<1>1. myProviders \subseteq Providers
  BY HandleAssumption DEF HandleInit, Chosen
<1>2. KeyTypes
  BY DEF HandleInit, Init, KeyTypes
<1>3. /\ \A t \in Threads : pc[t] = IF t = Updater THEN "off" ELSE "unsubscribed"
      /\ \A t \in Threads : todo[t] = {} /\ mark[t] = Unset
      /\ subscribeCount = 0 /\ lockOwner = Unset
  BY DEF HandleInit
<1>4. ThreadTypes
  <2>1. pc \in [Threads -> {"off", "assigning", "unsubscribed", "subscribed"} \cup InCall]
    BY DEF HandleInit
  <2>2. todo \in [Threads -> SUBSET Providers] /\ mark \in [Threads -> Providers \cup {Unset}]
    BY DEF HandleInit
  <2>3. registry \in RegistrySets /\ newProviders = {} /\ pendingSubscriptions = {}
    BY DEF HandleInit
  <2> QED
    BY <1>1, <1>3, <2>1, <2>2, <2>3, ThreadsDiffer DEF ThreadTypes
<1>5. CountInv
  <2>1. ConnectedOnes = {}
    BY <1>3, ThreadsDiffer DEF ConnectedOnes, Connected
  <2> QED
    BY <1>3, <2>1, FS_EmptySet DEF CountInv
<1>6. ExclusiveInv /\ LoopInv
  BY <1>3, ThreadsDiffer, HandleAssumption DEF ExclusiveInv, LoopInv, InCall
<1>7. WantInv
  <2> SUFFICES ASSUME NEW p \in Providers PROVE key \notin subscribedKeys[p] /\ ~WantedFrom(p)
    BY DEF WantInv
  <2>1. subscribedKeys = [q \in Providers |-> {}]
    BY DEF HandleInit, Init
  <2>2. pc[Updater] = "off" /\ \A c \in Properties : pc[c] = "unsubscribed"
    BY <1>3, ThreadsDiffer
  <2> QED
    BY <1>3, <2>1, <2>2 DEF WantedFrom
<1> QED
  BY <1>2, <1>4, <1>5, <1>6, <1>7 DEF HandleInv, ThreadInv

LEMMA HandleNextInv == Serial /\ HandleInv /\ [HandleNext]_vars => HandleInv'
<1> SUFFICES ASSUME Serial, HandleInv, [HandleNext]_vars PROVE HandleInv'
  OBVIOUS
<1>1. ASSUME NEW c \in Properties, BeginSubscribe(c) \/ BeginUnsubscribe(c) \/ EndCall(c)
      PROVE  HandleInv'
  <2>1. UNCHANGED <<subscribedKeys, toSubscribe, unfinished, owed>>
    BY <1>1 DEF BeginSubscribe, BeginUnsubscribe, EndCall, scheduleVars, envVars
  <2>2. KeyTypes'
    BY <2>1 DEF HandleInv, ThreadInv, KeyTypes
  <2> QED
    BY <1>1, <2>2, BeginSubscribeInv, BeginUnsubscribeInv, EndCallInv
<1>2. CASE UNCHANGED vars \/ \E c \in Properties : OnPropertyValueChanged(c)
  <2>1. UNCHANGED <<providerVars, handleVars, worldVars, newProviders, threadVars>>
    BY <1>2 DEF vars, OnPropertyValueChanged
  <2>2. UNCHANGED <<threadState, subscribedKeys, toSubscribe, unfinished, owed, running,
                    pendingSubscriptions>>
    BY <2>1 DEF threadState, providerVars, scheduleVars, envVars, handleVars, worldVars, threadVars
  <2>3. KeyTypes' /\ pendingSubscriptions' \subseteq Providers
    BY <2>2 DEF HandleInv, ThreadInv, KeyTypes, ThreadTypes
  <2> QED
    BY <2>2, <2>3, Untouched
<1>3. ASSUME NEW t \in Threads, LoopStep(t) PROVE HandleInv'
  BY <1>3, LoopStepInv
<1>4. CASE BeginUpdate \/ ForgetPending \/ EndUpdate
  BY <1>4, BeginUpdateInv, ForgetPendingInv, EndUpdateInv
<1>5. ASSUME NEW p \in Providers,
             \/ ProviderQueuedCall(p) \/ ProviderConstructs(p) \/ ProviderBlocks(p)
             \/ ProviderReady(p) \/ ProviderFails(p) \/ ProviderHandlesSubscribes(p)
             \/ ProviderFinished(p) \/ ProviderFailed(p) \/ ProviderStores(p) \/ ProviderValue(p)
      PROVE  HandleInv'
  BY <1>5, ProviderStepInv
<1> QED
  BY <1>1, <1>2, <1>3, <1>4, <1>5 DEF HandleNext, PropertyStep

-----------------------------------------------------------------------------
(* What holds even if threads race with updateProvider                     *)

\* A thread inside holds the lock, and one of the main thread keeps it busy.
LockInv ==
  /\ \A c \in Properties : pc[c] \in InCall <=> lockOwner = c
  /\ \A c \in MainProperties : pc[c] \in InCall => running = InApplication(c)
  /\ pc[Updater] # "off" => running = Updating

BaseInv == ThreadTypes /\ KeyTypes /\ CountInv /\ LockInv

LEMMA HandleInvBase == HandleInv => BaseInv
BY DEF HandleInv, ThreadInv, BaseInv, ExclusiveInv, LockInv

\* A step outside the handle.
LEMMA BaseUntouched ==
  ASSUME BaseInv, KeyTypes', UNCHANGED threadState, pendingSubscriptions' \subseteq Providers,
         \/ running' = running
         \/ running # Updating /\ \A c \in Properties : running # InApplication(c)
  PROVE  BaseInv'
<1>1. ThreadTypes' /\ CountInv'
  BY DEF threadState, BaseInv, ThreadTypes, CountInv, ConnectedOnes, Connected
<1>2. LockInv'
  <2>1. LockInv /\ MainProperties \subseteq Properties
    BY HandleAssumption DEF BaseInv
  <2> QED
    BY <2>1 DEF threadState, LockInv, InApplication, Updating
<1> QED
  BY <1>1, <1>2 DEF BaseInv

LEMMA BaseCalls ==
  ASSUME BaseInv, NEW c \in Properties, BeginSubscribe(c) \/ BeginUnsubscribe(c) \/ EndCall(c)
  PROVE  BaseInv'
<1>1. /\ pc \in [Threads -> {"off", "assigning", "unsubscribed", "subscribed"} \cup InCall]
      /\ todo \in [Threads -> SUBSET Providers] /\ myProviders \subseteq Providers
      /\ Unset \notin Properties /\ MainProperties \subseteq Properties
  BY HandleAssumption DEF BaseInv, ThreadTypes
<1>2. /\ UNCHANGED <<myProviders, newProviders, registry, mark, subscribedKeys, toSubscribe,
                     unfinished, owed>>
      /\ pendingSubscriptions' \subseteq Providers
      /\ todo' = todo \/ todo' = [todo EXCEPT ![c] = myProviders]
  BY DEF BeginSubscribe, BeginUnsubscribe, EndCall, worldVars, scheduleVars, envVars, BaseInv,
     ThreadTypes
<1>3. /\ pc' = [pc EXCEPT ![c] = pc'[c]]
      /\ pc'[c] \in {"unsubscribed", "subscribed"} \cup InCall
  BY <1>1, ThreadsDiffer DEF BeginSubscribe, BeginUnsubscribe, EndCall, InCall
<1>4. \A t \in Threads \ {c} : pc'[t] = pc[t]
  BY <1>1, <1>3
<1>5. KeyTypes'
  BY <1>2 DEF BaseInv, KeyTypes
<1>6. ThreadTypes'
  <2>1. pc' \in [Threads -> {"off", "assigning", "unsubscribed", "subscribed"} \cup InCall]
    BY <1>1, <1>3
  <2>2. todo' \in [Threads -> SUBSET Providers]
    BY <1>1, <1>2
  <2>3. pc'[Updater] = pc[Updater]
    BY <1>4, ThreadsDiffer
  <2>4. \A d \in Properties : pc'[d] \in {"unsubscribed", "subscribed"} \cup InCall
    BY <1>3, <1>4, ThreadsDiffer DEF BaseInv, ThreadTypes
  <2> QED
    BY <1>2, <2>1, <2>2, <2>3, <2>4 DEF BaseInv, ThreadTypes
<1>7. CountInv'
  <2>1. \A d \in Properties \ {c} : (pc'[d] \in {"subscribing", "subscribed"})
                                      <=> pc[d] \in {"subscribing", "subscribed"}
    BY <1>4, ThreadsDiffer
  <2>2. CASE BeginSubscribe(c)
    <3>1. /\ pc[c] = "unsubscribed" /\ pc'[c] = "subscribing"
          /\ subscribeCount' = subscribeCount + 1
      BY <1>1, <2>2, ThreadsDiffer DEF BeginSubscribe
    <3>2. ~Connected(c) /\ ConnectedOnes' = ConnectedOnes \cup {c}
      BY <2>1, <3>1 DEF ConnectedOnes, Connected
    <3> QED
      BY <3>1, <3>2, OneMore DEF BaseInv
  <2>3. CASE BeginUnsubscribe(c)
    <3>1. /\ pc[c] = "subscribed" /\ pc'[c] = "unsubscribing"
          /\ subscribeCount' = subscribeCount - 1
      BY <1>1, <2>3, ThreadsDiffer DEF BeginUnsubscribe, CountDown
    <3>2. Connected(c) /\ ConnectedOnes' = ConnectedOnes \ {c}
      BY <2>1, <3>1 DEF ConnectedOnes, Connected
    <3> QED
      BY <3>1, <3>2, OneLess DEF BaseInv
  <2>4. CASE EndCall(c)
    <3>1. /\ pc[c] \in InCall /\ subscribeCount' = subscribeCount
          /\ pc'[c] = IF pc[c] = "subscribing" THEN "subscribed" ELSE "unsubscribed"
      BY <1>1, <2>4, ThreadsDiffer DEF EndCall
    <3>2. ConnectedOnes' = ConnectedOnes
      BY <2>1, <3>1 DEF ConnectedOnes, Connected, InCall
    <3> QED
      BY <3>1, <3>2 DEF BaseInv, CountInv
  <2> QED
    BY <2>2, <2>3, <2>4
<1>8. LockInv'
  <2>1. \A d \in Properties : pc[d] \in InCall => d = c
    BY <1>1 DEF BeginSubscribe, BeginUnsubscribe, EndCall, BaseInv, LockInv
  <2>2. \A d \in Properties \ {c} : pc'[d] \notin InCall
    BY <1>4, <2>1, ThreadsDiffer
  <2>3. lockOwner' = IF pc'[c] \in InCall THEN c ELSE Unset
    BY <1>1, ThreadsDiffer DEF BeginSubscribe, BeginUnsubscribe, EndCall, InCall
  <2>4. \A d \in Properties : pc'[d] \in InCall <=> lockOwner' = d
    BY <1>1, <2>2, <2>3
  <2>5. c \in MainProperties /\ pc'[c] \in InCall => running' = InApplication(c)
    BY <1>1, ThreadsDiffer DEF BeginSubscribe, BeginUnsubscribe, EndCall, Enter, InCall
  <2>6. c \notin MainProperties => running' = running
    BY DEF BeginSubscribe, BeginUnsubscribe, EndCall, Enter, Leave
  <2>7. c \in MainProperties => running # Updating
    <3>1. c \in MainProperties => running = Idle \/ running = InApplication(c)
      BY DEF BeginSubscribe, BeginUnsubscribe, EndCall, Free, MainIdle, BaseInv, LockInv
    <3> QED
      BY <3>1, RunningDiffers
  <2>8. pc'[Updater] # "off" => running' = Updating
    BY <1>4, <2>6, <2>7, ThreadsDiffer DEF BaseInv, LockInv
  <2>9. \A d \in MainProperties : pc'[d] \in InCall => running' = InApplication(d)
    BY <1>1, <2>2, <2>5
  <2> QED
    BY <2>4, <2>8, <2>9 DEF LockInv, InApplication, Updating, InCall
<1> QED
  BY <1>5, <1>6, <1>7, <1>8 DEF BaseInv

LEMMA BaseLoops ==
  ASSUME BaseInv, NEW t \in Threads, LoopStep(t)
  PROVE  BaseInv'
<1>1. /\ todo \in [Threads -> SUBSET Providers] /\ mark \in [Threads -> Providers \cup {Unset}]
      /\ pendingSubscriptions \subseteq Providers /\ KeyTypes
  BY DEF BaseInv, ThreadTypes
<1>2. UNCHANGED <<subscribeCount, lockOwner, myProviders, newProviders, registry, pc, running>>
  BY DEF LoopStep, CallSubscribe, CallUnsubscribe, MarkPending, DoSubscribe, DoUnsubscribe,
     handleVars, worldVars, providerVars
<1>3. /\ todo' \in [Threads -> SUBSET Providers] /\ mark' \in [Threads -> Providers \cup {Unset}]
      /\ pendingSubscriptions' \subseteq Providers
  BY <1>1 DEF LoopStep, CallSubscribe, CallUnsubscribe, MarkPending, Marked, handleVars
<1>4. KeyTypes'
  <2>1. CASE CallSubscribe(t) \/ CallUnsubscribe(t)
    <3>1. PICK p \in Providers : DoSubscribe(p, key) \/ DoUnsubscribe(p, key)
      BY <1>1, <2>1 DEF CallSubscribe, CallUnsubscribe
    <3> QED
      BY <1>1, <3>1, SubscribeTypes
  <2>2. CASE MarkPending(t)
    BY <1>1, <2>2 DEF MarkPending, providerVars, scheduleVars, envVars, KeyTypes
  <2> QED
    BY <2>1, <2>2 DEF LoopStep
<1>5. ThreadTypes' /\ CountInv' /\ LockInv'
  BY <1>2, <1>3 DEF BaseInv, ThreadTypes, CountInv, ConnectedOnes, Connected, LockInv, InCall,
     InApplication, Updating
<1> QED
  BY <1>4, <1>5 DEF BaseInv

LEMMA BaseUpdates ==
  ASSUME BaseInv, BeginUpdate \/ ForgetPending \/ EndUpdate
  PROVE  BaseInv'
<1>1. /\ pc \in [Threads -> {"off", "assigning", "unsubscribed", "subscribed"} \cup InCall]
      /\ todo \in [Threads -> SUBSET Providers] /\ pendingSubscriptions \subseteq Providers
      /\ myProviders \subseteq Providers /\ newProviders \subseteq Providers
  BY DEF BaseInv, ThreadTypes
<1>2. /\ UNCHANGED <<subscribeCount, lockOwner, mark, subscribedKeys, toSubscribe, unfinished, owed>>
      /\ pc' = [pc EXCEPT ![Updater] = pc'[Updater]]
      /\ pc'[Updater] \in {"off", "assigning"} \cup InCall
      /\ pc'[Updater] # "off" => running' = Updating
      /\ running \in {Idle, Updating}
  BY <1>1, ThreadsDiffer DEF BeginUpdate, ForgetPending, EndUpdate, InCall, MainIdle, BaseInv,
     LockInv, providerVars, scheduleVars, envVars, handleVars, Updating
<1>3. registry' \in RegistrySets /\ newProviders' \subseteq Providers
  <2>1. CASE BeginUpdate
    <3>1. registry' \in RegistrySets
      BY <2>1 DEF BeginUpdate, BaseInv, ThreadTypes
    <3> QED
      BY <2>1, <3>1, HandleAssumption DEF BeginUpdate, Chosen
  <2>2. CASE ForgetPending \/ EndUpdate
    BY <2>2 DEF ForgetPending, EndUpdate, worldVars, BaseInv, ThreadTypes
  <2> QED
    BY <2>1, <2>2
<1>4. /\ todo' \in [Threads -> SUBSET Providers] /\ pendingSubscriptions' \subseteq Providers
      /\ myProviders' \subseteq Providers
  BY <1>1 DEF BeginUpdate, ForgetPending, EndUpdate, handleVars
<1>5. \A c \in Properties : pc'[c] = pc[c]
  BY <1>1, <1>2, ThreadsDiffer
<1>6. ThreadTypes'
  <2>1. pc' \in [Threads -> {"off", "assigning", "unsubscribed", "subscribed"} \cup InCall]
    BY <1>1, <1>2
  <2> QED
    BY <1>2, <1>3, <1>4, <1>5, <2>1 DEF BaseInv, ThreadTypes
<1>7. CountInv' /\ KeyTypes'
  BY <1>2, <1>5 DEF BaseInv, CountInv, ConnectedOnes, Connected, KeyTypes
<1>8. LockInv'
  <2>1. \A c \in MainProperties : pc'[c] \notin InCall
    BY <1>2, <1>5, RunningDiffers, HandleAssumption DEF BaseInv, LockInv
  <2>2. \A c \in Properties : pc'[c] \in InCall <=> lockOwner' = c
    BY <1>2, <1>5 DEF BaseInv, LockInv
  <2> QED
    BY <1>2, <2>1, <2>2 DEF LockInv, InApplication, Updating, InCall
<1> QED
  BY <1>6, <1>7, <1>8 DEF BaseInv

LEMMA BaseProviders ==
  ASSUME BaseInv, NEW p \in Providers,
         \/ ProviderQueuedCall(p) \/ ProviderConstructs(p) \/ ProviderBlocks(p)
         \/ ProviderReady(p) \/ ProviderFails(p) \/ ProviderHandlesSubscribes(p)
         \/ ProviderFinished(p) \/ ProviderFailed(p) \/ ProviderStores(p) \/ ProviderValue(p)
  PROVE  BaseInv'
<1>1. KeyTypes /\ pendingSubscriptions \subseteq Providers
  BY DEF BaseInv, ThreadTypes
<1>2. UNCHANGED threadState /\ pendingSubscriptions' \subseteq Providers
  BY <1>1 DEF ProviderQueuedCall, ProviderConstructs, ProviderBlocks, ProviderReady,
     ProviderFails, Above, ProviderHandlesSubscribes, ProviderFinished, ProviderFailed,
     ProviderStores, ProviderValue, Routed, SetSubscribeFinished, threadState, handleVars,
     worldVars, threadVars
<1>3. \/ OnQueuedCall(p) \/ ConstructPlugin(p) \/ BlockUntilSubscribed(p)
      \/ PluginReady(p) \/ OnPluginFailed(p) \/ StoreValue(p, key) \/ OnPluginValueChanged(p, key)
      \/ DoAnswer(p, key) \/ HandleSubscribes(p)
  BY DEF ProviderQueuedCall, ProviderConstructs, ProviderBlocks, ProviderReady,
     ProviderFails, Above, ProviderHandlesSubscribes, ProviderFinished, ProviderFailed,
     ProviderStores, ProviderValue, Routed, OnPluginSubscribeFinished, OnPluginSubscribeFailed
<1>4. running = Idle \/ running = Storing(p, key) \/ \E m \in Methods : running = <<p, m>>
  BY <1>3 DEF OnQueuedCall, ConstructPlugin, BlockUntilSubscribed, PluginReady, OnPluginReady,
              OnPluginReadyIgnored,
     OnPluginFailed, StoreValue, OnPluginValueChanged, DoAnswer, HandleSubscribes, MainIdle, Methods
<1>5. running # Updating /\ \A c \in Properties : running # InApplication(c)
  BY <1>4, RunningDiffers
<1>6. KeyTypes'
  BY <1>1, <1>3, PluginTypes, AnswerTypes, HandleSubscribesTypes
<1> QED
  BY <1>2, <1>5, <1>6, BaseUntouched

LEMMA BaseInit == HandleInit => BaseInv
BY HandleInitInv, HandleInvBase

LEMMA BaseNext == BaseInv /\ [HandleNext]_vars => BaseInv'
<1> SUFFICES ASSUME BaseInv, [HandleNext]_vars PROVE BaseInv'
  OBVIOUS
<1>1. CASE UNCHANGED vars \/ \E c \in Properties : OnPropertyValueChanged(c)
  <2>1. UNCHANGED <<threadState, subscribedKeys, toSubscribe, unfinished, owed, running,
                    pendingSubscriptions>>
    BY <1>1 DEF vars, OnPropertyValueChanged, threadState, providerVars, scheduleVars, envVars,
       handleVars, worldVars, threadVars
  <2>2. KeyTypes' /\ pendingSubscriptions' \subseteq Providers
    BY <2>1 DEF BaseInv, KeyTypes, ThreadTypes
  <2> QED
    BY <2>1, <2>2, BaseUntouched
<1> QED
  BY <1>1, BaseCalls, BaseLoops, BaseUpdates, BaseProviders DEF HandleNext, PropertyStep

-----------------------------------------------------------------------------
(* What the handle waits for, with all properties in the main thread       *)

Unfinished == {p \in Providers : key \in unfinished[p]}

\* Nobody is inside the handle when the main thread does something else.
LEMMA NobodyInside ==
  ASSUME HandleInv, AllInMain, running # Updating,
         \A c \in Properties : running # InApplication(c)
  PROVE  pc[Updater] = "off" /\ \A t \in Threads : pc[t] \notin InCall /\ mark[t] = Unset
<1>1. pc[Updater] = "off" /\ \A c \in Properties : pc[c] \notin InCall
  BY DEF HandleInv, ThreadInv, ExclusiveInv, AllInMain
<1>2. \A t \in Threads : pc[t] \notin InCall
  BY <1>1 DEF Threads, InCall
<1> QED
  BY <1>1, <1>2 DEF HandleInv, ThreadInv, ExclusiveInv, InCall

\* Nothing is unfinished of a key that nobody is subscribed to.
LEMMA NothingUnfinished ==
  ASSUME KeyInv, WantInv, \A p \in Providers : ~WantedFrom(p)
  PROVE  Unfinished = {}
BY DEF KeyInv, WantInv, Unfinished

LEMMA SubscribeKeys ==
  ASSUME KeyTypes, KeyInv, NEW p \in Providers, DoSubscribe(p, key) \/ DoUnsubscribe(p, key)
  PROVE  /\ KeyInv'
         /\ DoSubscribe(p, key) =>
              Unfinished' = Unfinished \cup (IF SubscribeReturns(p, key) THEN {p} ELSE {})
<1>1. key \in Keys
  BY HandleAssumption
<1>2. CASE DoSubscribe(p, key)
  <2>1. /\ subscribedKeys' = [subscribedKeys EXCEPT ![p] = @ \cup {key}]
        /\ IF SubscribeReturns(p, key)
           THEN /\ toSubscribe' = [toSubscribe EXCEPT ![p] = @ \cup {key}]
                /\ unfinished'  = [unfinished EXCEPT ![p] = @ \cup {key}]
           ELSE UNCHANGED <<toSubscribe, unfinished>>
    BY <1>2 DEF DoSubscribe
  <2>2. /\ key \in subscribedKeys'[p]
        /\ \A q \in Providers \ {p} : /\ subscribedKeys'[q] = subscribedKeys[q]
                                      /\ toSubscribe'[q] = toSubscribe[q]
                                      /\ unfinished'[q] = unfinished[q]
    BY <2>1 DEF KeyTypes
  <2>3. key \in unfinished'[p] <=> SubscribeReturns(p, key) \/ key \in unfinished[p]
    BY <2>1 DEF KeyTypes
  <2>4. Unfinished' = Unfinished \cup (IF SubscribeReturns(p, key) THEN {p} ELSE {})
    BY <2>2, <2>3 DEF Unfinished
  <2> QED
    BY <2>2, <2>4 DEF KeyInv
<1>3. CASE DoUnsubscribe(p, key)
  <2>1. /\ subscribedKeys' = [subscribedKeys EXCEPT ![p] = @ \ {key}]
        /\ IF key \in toSubscribe[p]
           THEN toSubscribe' = [toSubscribe EXCEPT ![p] = @ \ {key}]
           ELSE UNCHANGED toSubscribe
        /\ unfinished' = [unfinished EXCEPT ![p] = @ \ {key}]
    BY <1>3 DEF DoUnsubscribe
  <2>2. /\ key \notin toSubscribe'[p] /\ key \notin unfinished'[p]
        /\ \A q \in Providers \ {p} : /\ subscribedKeys'[q] = subscribedKeys[q]
                                      /\ toSubscribe'[q] = toSubscribe[q]
                                      /\ unfinished'[q] = unfinished[q]
    BY <2>1 DEF KeyTypes
  <2>3. KeyInv'
    BY <2>2 DEF KeyInv
  <2>4. ASSUME DoSubscribe(p, key) PROVE FALSE
    BY <2>1, <2>4, <1>1 DEF DoSubscribe, KeyTypes
  <2> QED
    BY <2>3, <2>4
<1> QED
  BY <1>2, <1>3

LEMMA BeginPending ==
  ASSUME HandleInv, KeyInv, PendingInv, NEW c \in Properties,
         BeginSubscribe(c) \/ BeginUnsubscribe(c), pc[Updater] = "off",
         \A d \in Properties : pc[d] \notin InCall
  PROVE  KeyInv' /\ PendingInv'
<1>1. UNCHANGED <<subscribedKeys, toSubscribe, unfinished, mark>>
  BY DEF BeginSubscribe, BeginUnsubscribe, scheduleVars
<1>2. KeyInv' /\ Unfinished' = Unfinished /\ BeingMarked' = BeingMarked
  BY <1>1 DEF KeyInv, Unfinished, BeingMarked
<1>3. subscribeCount \in Nat
  BY CountIsNat DEF HandleInv, ThreadInv
<1>4. BeingMarked = {}
  <2>1. \A t \in Threads : pc[t] # "subscribing"
    BY DEF Threads, InCall
  <2> QED
    BY <2>1 DEF BeingMarked, HandleInv, ThreadInv, ExclusiveInv
<1>5. CASE BeginSubscribe(c)
  <2>1. /\ subscribeCount' = subscribeCount + 1
        /\ subscribeCount = 0 => pendingSubscriptions' = {}
        /\ subscribeCount # 0 => UNCHANGED pendingSubscriptions
    BY <1>5 DEF BeginSubscribe
  <2>2. subscribeCount = 0 => Unfinished = {}
    <3>1. subscribeCount = 0 => \A p \in Providers : ~WantedFrom(p)
      BY DEF WantedFrom, InCall
    <3> QED
      BY <3>1, NothingUnfinished DEF HandleInv
  <2>3. Unfinished' = pendingSubscriptions' \cup BeingMarked'
    BY <1>2, <1>3, <1>4, <2>1, <2>2 DEF PendingInv, Unfinished
  <2> QED
    BY <1>2, <1>3, <2>1, <2>3 DEF PendingInv, Unfinished
<1>6. CASE BeginUnsubscribe(c)
  <2>1. /\ subscribeCount' = subscribeCount - 1
        /\ subscribeCount = 1 => pendingSubscriptions' = {}
        /\ subscribeCount # 1 => UNCHANGED pendingSubscriptions
    BY <1>6 DEF BeginUnsubscribe, CountDown, LeavesProviders
  <2>2. subscribeCount > 0
    BY <1>6, CountPositive DEF BeginUnsubscribe, Connected, HandleInv, ThreadInv
  <2>3. subscribeCount' > 0 => Unfinished' = pendingSubscriptions' \cup BeingMarked'
    BY <1>2, <1>3, <2>1, <2>2 DEF PendingInv, Unfinished
  <2>4. ~(subscribeCount' > 0) => pendingSubscriptions' = {}
    BY <1>3, <2>1, <2>2
  <2> QED
    BY <1>2, <2>3, <2>4 DEF PendingInv, Unfinished
<1> QED
  BY <1>5, <1>6

LEMMA LoopPending ==
  ASSUME HandleInv, KeyInv, PendingInv, NEW t \in Threads, LoopStep(t)
  PROVE  KeyInv' /\ PendingInv'
<1>1. /\ todo[t] \subseteq Providers /\ mark \in [Threads -> Providers \cup {Unset}]
      /\ KeyTypes /\ Unset \notin Providers
  BY HandleAssumption DEF HandleInv, ThreadInv, ThreadTypes
<1>2. CASE CallSubscribe(t)
  <2>1. PICK p \in todo[t] :
          /\ DoSubscribe(p, key)
          /\ mark' = [mark EXCEPT ![t] = IF SubscribeReturns(p, key) THEN p ELSE Unset]
    BY <1>2 DEF CallSubscribe
  <2>2. /\ pc[t] = "subscribing" /\ mark[t] = Unset
        /\ UNCHANGED <<subscribeCount, pendingSubscriptions, pc>>
    BY <1>2 DEF CallSubscribe, handleVars
  <2>3. KeyInv' /\ Unfinished' = Unfinished \cup (IF SubscribeReturns(p, key) THEN {p} ELSE {})
    BY <1>1, <2>1, SubscribeKeys
  <2>4. BeingMarked' = BeingMarked \cup (IF SubscribeReturns(p, key) THEN {p} ELSE {})
    <3>1. mark'[t] = IF SubscribeReturns(p, key) THEN p ELSE Unset
      BY <1>1, <2>1
    <3>2. \A u \in Threads \ {t} : mark'[u] = mark[u]
      BY <1>1, <2>1
    <3>3. p # Unset
      BY <1>1
    <3> QED
      BY <2>2, <3>1, <3>2, <3>3 DEF BeingMarked
  <2> QED
    BY <2>2, <2>3, <2>4, CountPositive DEF PendingInv, Unfinished, HandleInv, ThreadInv, LoopInv,
       Connected, Threads, InCall
<1>3. CASE CallUnsubscribe(t)
  <2>1. PICK p \in todo[t] : DoUnsubscribe(p, key)
    BY <1>3 DEF CallUnsubscribe
  <2>2. pc[t] = "unsubscribing" /\ UNCHANGED <<subscribeCount, pendingSubscriptions, pc>>
    BY <1>3 DEF CallUnsubscribe, handleVars
  <2>3. KeyInv'
    BY <1>1, <2>1, SubscribeKeys
  <2>4. t \in Properties => ~(subscribeCount > 0)
    BY <2>1, <2>2 DEF HandleInv, ThreadInv, LoopInv
  <2> QED
    BY <2>2, <2>3, <2>4 DEF PendingInv, Threads
<1>4. CASE MarkPending(t)
  <2>1. /\ mark[t] # Unset /\ mark' = [mark EXCEPT ![t] = Unset]
        /\ pendingSubscriptions' = pendingSubscriptions \cup {mark[t]}
        /\ UNCHANGED <<subscribeCount, pc, subscribedKeys, toSubscribe, unfinished>>
    BY <1>4 DEF MarkPending, Marked, providerVars, scheduleVars
  <2>2. KeyInv' /\ Unfinished' = Unfinished
    BY <2>1 DEF KeyInv, Unfinished
  <2>3. pendingSubscriptions' \cup BeingMarked' = pendingSubscriptions \cup BeingMarked
    <3>1. mark'[t] = Unset /\ \A u \in Threads \ {t} : mark'[u] = mark[u]
      BY <1>1, <2>1
    <3> QED
      BY <2>1, <3>1 DEF BeingMarked
  <2>4. pc[t] = "subscribing"
    BY <2>1 DEF HandleInv, ThreadInv, ExclusiveInv
  <2>5. subscribeCount > 0
    BY <2>4, CountPositive DEF HandleInv, ThreadInv, LoopInv, Connected, Threads, InCall
  <2> QED
    BY <2>1, <2>2, <2>3, <2>5 DEF PendingInv, Unfinished
<1> QED
  BY <1>2, <1>3, <1>4 DEF LoopStep

LEMMA UpdatePending ==
  ASSUME HandleInv, KeyInv, PendingInv, BeginUpdate \/ ForgetPending \/ EndUpdate
  PROVE  KeyInv' /\ PendingInv'
<1>1. UNCHANGED <<subscribeCount, subscribedKeys, toSubscribe, unfinished, mark>>
  BY DEF BeginUpdate, ForgetPending, EndUpdate, providerVars, scheduleVars, handleVars
<1>2. KeyInv' /\ Unfinished' = Unfinished /\ BeingMarked' = BeingMarked
  BY <1>1 DEF KeyInv, Unfinished, BeingMarked
<1>3. pc \in [Threads -> {"off", "assigning", "unsubscribed", "subscribed"} \cup InCall]
  BY DEF HandleInv, ThreadInv, ThreadTypes
<1>4. CASE BeginUpdate
  <2>1. /\ pc'[Updater] = IF subscribeCount > 0 THEN "unsubscribing" ELSE "assigning"
        /\ UNCHANGED pendingSubscriptions /\ running = Idle
    BY <1>3, <1>4, ThreadsDiffer DEF BeginUpdate, handleVars, MainIdle
  <2>2. pc[Updater] # "unsubscribing"
    BY <2>1, RunningDiffers DEF HandleInv, ThreadInv, ExclusiveInv
  <2> QED
    BY <1>1, <1>2, <2>1, <2>2 DEF PendingInv, Unfinished
<1>5. CASE ForgetPending
  <2>1. /\ pc[Updater] = "unsubscribing" /\ todo[Updater] = {} /\ pendingSubscriptions' = {}
    BY <1>5 DEF ForgetPending
  <2>2. \A p \in Providers : ~WantedFrom(p)
    BY <2>1 DEF WantedFrom
  <2>3. Unfinished = {}
    BY <2>2, NothingUnfinished DEF HandleInv
  <2>4. BeingMarked = {}
    <3>1. \A t \in Threads : pc[t] # "subscribing"
      BY <2>1, UpdaterInside DEF Threads, InCall
    <3> QED
      BY <3>1 DEF BeingMarked, HandleInv, ThreadInv, ExclusiveInv
  <2> QED
    BY <1>2, <2>1, <2>3, <2>4 DEF PendingInv, Unfinished
<1>6. CASE EndUpdate
  <2>1. pc[Updater] # "unsubscribing" /\ UNCHANGED pendingSubscriptions
    BY <1>6 DEF EndUpdate
  <2> QED
    BY <1>1, <1>2, <2>1 DEF PendingInv, Unfinished
<1> QED
  BY <1>4, <1>5, <1>6

\* A provider's subscription is finished for the handle when it is for itself.
LEMMA FinishedPending ==
  ASSUME HandleInv, KeyInv, PendingInv, AllInMain, NEW p \in Providers, NEW signalled \in BOOLEAN,
         running # Updating, \A c \in Properties : running # InApplication(c),
         UNCHANGED threadState, SetSubscribeFinished(p, signalled),
         \A q \in Providers : key \in unfinished'[q]
                                <=> key \in unfinished[q] /\ ~(q = p /\ signalled)
  PROVE  PendingInv'
<1>1. pc[Updater] = "off" /\ \A t \in Threads : mark[t] = Unset
  BY NobodyInside
<1>2. BeingMarked = {} /\ BeingMarked' = {}
  BY <1>1 DEF BeingMarked, threadState
<1>3. Unfinished' = IF signalled THEN Unfinished \ {p} ELSE Unfinished
  BY DEF Unfinished
<1>4. IF subscribeCount > 0 THEN Unfinished = pendingSubscriptions ELSE pendingSubscriptions = {}
  BY <1>1, <1>2 DEF PendingInv, Unfinished
<1> QED
  BY <1>2, <1>3, <1>4 DEF PendingInv, Unfinished, SetSubscribeFinished, threadState

\* A run of handleSubscribes ends exactly the waits that it signals.
LEMMA HandleSubscribesEnds ==
  ASSUME KeyTypes, KeyInv, NEW p \in Providers, HandleSubscribes(p)
  PROVE  /\ \A q \in Providers : key \in unfinished'[q] <=>
                                  key \in unfinished[q] /\ ~(q = p /\ FinishedByHandle(p))
         /\ \A q \in Providers : key \in toSubscribe'[q] => key \in toSubscribe[q]
<1>1. HandleSubscribesReady(p) \/ HandleSubscribesFailed(p) \/ HandleSubscribesInitializing(p)
  BY DEF HandleSubscribes
<1>2. key \in Keys
  BY HandleAssumption
<1>3. CASE HandleSubscribesReady(p)
  <2>1. PICK atOnce \in SUBSET toSubscribe[p] :
          /\ unfinished' = [unfinished EXCEPT ![p] = @ \ Signalled(p, atOnce)]
          /\ owed' = [owed EXCEPT ![p] =
                        [k \in Keys |-> IF k \in toSubscribe[p] \ atOnce
                                        THEN owed[p][k] + 1 ELSE owed[p][k]]]
    BY <1>3 DEF HandleSubscribesReady
  <2>2. owed'[p][key] = IF key \in toSubscribe[p] \ atOnce
                        THEN owed[p][key] + 1 ELSE owed[p][key]
    BY <1>2, <2>1 DEF KeyTypes
  <2>3. owed[p][key] \in Nat
    BY <1>2 DEF KeyTypes
  <2>4. FinishedByHandle(p) <=> key \in atOnce
    BY <1>3, <2>2, <2>3 DEF FinishedByHandle, HandleSubscribesReady, READY, INITIALIZING
  <2>5. key \in atOnce => key \in Signalled(p, atOnce)
    BY <2>1 DEF KeyInv, Signalled
  <2>6. key \in Signalled(p, atOnce) => key \in atOnce
    BY DEF Signalled
  <2>7. \A q \in Providers : key \in unfinished'[q] <=>
                               key \in unfinished[q] /\ ~(q = p /\ FinishedByHandle(p))
    BY <1>2, <2>1, <2>4, <2>5, <2>6 DEF KeyTypes
  <2>8. \A q \in Providers : key \in toSubscribe'[q] => key \in toSubscribe[q]
    BY <1>2, <1>3 DEF HandleSubscribesReady, KeyTypes
  <2> QED
    BY <2>7, <2>8
<1>4. CASE HandleSubscribesFailed(p)
  <2>1. FinishedByHandle(p) <=> key \in toSubscribe[p]
    BY <1>4 DEF FinishedByHandle, HandleSubscribesFailed, FAILED, INITIALIZING, envVars
  <2> QED
    BY <1>2, <1>4, <2>1 DEF HandleSubscribesFailed, SignalledOnFailure, KeyTypes
<1>5. CASE HandleSubscribesInitializing(p)
  BY <1>5 DEF HandleSubscribesInitializing, FinishedByHandle
<1> QED
  BY <1>1, <1>3, <1>4, <1>5 DEF HandleSubscribes

LEMMA HandleSubscribesPending ==
  ASSUME HandleInv, KeyInv, PendingInv, AllInMain, NEW p \in Providers,
         ProviderHandlesSubscribes(p)
  PROVE  KeyInv' /\ PendingInv'
<1>1. /\ HandleSubscribes(p) /\ SetSubscribeFinished(p, FinishedByHandle(p))
      /\ UNCHANGED <<threadState, subscribedKeys>>
  BY DEF ProviderHandlesSubscribes, HandleSubscribes, threadState, worldVars, threadVars
<1>2. running # Updating /\ \A c \in Properties : running # InApplication(c)
  BY <1>1, RunningDiffers DEF HandleSubscribes, Methods
<1>3. key \in Keys /\ KeyTypes
  BY HandleAssumption DEF HandleInv, ThreadInv
<1>4. /\ \A q \in Providers : key \in unfinished'[q] <=>
                                key \in unfinished[q] /\ ~(q = p /\ FinishedByHandle(p))
      /\ \A q \in Providers : key \in toSubscribe'[q] => key \in toSubscribe[q]
  BY <1>1, <1>3, HandleSubscribesEnds DEF HandleInv, ThreadInv
<1>5. KeyInv'
  BY <1>1, <1>4 DEF KeyInv
<1>6. PICK signalled \in BOOLEAN : signalled <=> FinishedByHandle(p)
  BY Zenon
<1>7. SetSubscribeFinished(p, signalled)
  BY <1>1, <1>6 DEF SetSubscribeFinished
<1>8. PendingInv'
  BY <1>1, <1>2, <1>4, <1>6, <1>7, FinishedPending
<1> QED
  BY <1>5, <1>8

LEMMA AnswerPending ==
  ASSUME HandleInv, KeyInv, PendingInv, AllInMain, NEW p \in Providers,
         ProviderFinished(p) \/ ProviderFailed(p)
  PROVE  KeyInv' /\ PendingInv'
<1>1. /\ DoAnswer(p, key) /\ SetSubscribeFinished(p, key \in subscribedKeys[p])
      /\ UNCHANGED <<threadState, subscribedKeys, toSubscribe>>
  BY DEF ProviderFinished, ProviderFailed, OnPluginSubscribeFinished, OnPluginSubscribeFailed,
     DoAnswer, scheduleVars, threadState, worldVars, threadVars
<1>2. running # Updating /\ \A c \in Properties : running # InApplication(c)
  BY <1>1, RunningDiffers DEF DoAnswer, MainIdle
<1>3. unfinished' = [unfinished EXCEPT ![p] = @ \ Signalled(p, {key})] /\ KeyTypes
  BY <1>1 DEF DoAnswer, HandleInv, ThreadInv
<1>4. PICK signalled \in BOOLEAN : signalled <=> key \in subscribedKeys[p]
  BY Zenon
<1>5. \A q \in Providers : key \in unfinished'[q] <=>
                             key \in unfinished[q] /\ ~(q = p /\ signalled)
  BY <1>3, <1>4 DEF Signalled, KeyTypes
<1>6. SetSubscribeFinished(p, signalled)
  BY <1>1, <1>4 DEF SetSubscribeFinished
<1>7. PendingInv'
  BY <1>1, <1>2, <1>5, <1>6, FinishedPending
<1> QED
  BY <1>1, <1>5, <1>7 DEF KeyInv

LEMMA PluginPending ==
  ASSUME HandleInv, KeyInv, PendingInv, NEW p \in Providers,
         \/ ProviderQueuedCall(p) \/ ProviderConstructs(p) \/ ProviderBlocks(p)
         \/ ProviderReady(p) \/ ProviderFails(p) \/ ProviderStores(p) \/ ProviderValue(p)
  PROVE  KeyInv' /\ PendingInv'
<1>1. /\ UNCHANGED <<subscribeCount, pc, mark, pendingSubscriptions>>
      /\ \/ OnQueuedCall(p) \/ ConstructPlugin(p) \/ BlockUntilSubscribed(p)
         \/ PluginReady(p) \/ OnPluginFailed(p) \/ StoreValue(p, key) \/ OnPluginValueChanged(p, key)
  BY DEF ProviderQueuedCall, ProviderConstructs, ProviderBlocks, ProviderReady, ProviderFails,
     ProviderStores, ProviderValue, Routed, Above, handleVars, threadVars
<1>2. UNCHANGED <<subscribedKeys, unfinished>>
  BY <1>1, PluginTypes DEF HandleInv, ThreadInv
<1>3. toSubscribe' = toSubscribe \/ toSubscribe' = [toSubscribe EXCEPT ![p] = subscribedKeys[p]]
  BY <1>1 DEF OnQueuedCall, ConstructPlugin, ConstructPluginBody, BlockUntilSubscribed,
     PluginReady, OnPluginReady, OnPluginReadyIgnored, Renewed, OnPluginFailed, StoreValue,
     OnPluginValueChanged, scheduleVars
<1>4. KeyInv'
  BY <1>2, <1>3 DEF KeyInv, HandleInv, ThreadInv, KeyTypes
<1> QED
  BY <1>1, <1>2, <1>4 DEF PendingInv, BeingMarked

LEMMA PendingNext ==
  ASSUME AllInMain, HandleInv, KeyInv, PendingInv, [HandleNext]_vars
  PROVE  KeyInv' /\ PendingInv'
<1>1. ASSUME NEW c \in Properties, BeginSubscribe(c) \/ BeginUnsubscribe(c)
      PROVE  KeyInv' /\ PendingInv'
  <2>1. running = Idle
    BY <1>1 DEF BeginSubscribe, BeginUnsubscribe, Free, AllInMain, MainIdle
  <2>2. pc[Updater] = "off" /\ \A t \in Threads : pc[t] \notin InCall
    BY <2>1, NobodyInside, RunningDiffers
  <2> QED
    BY <1>1, <2>2, BeginPending, ThreadsDiffer
<1>2. ASSUME NEW c \in Properties, EndCall(c)
      PROVE  KeyInv' /\ PendingInv'
  <2>1. /\ pc' = [pc EXCEPT ![c] = IF pc[c] = "subscribing" THEN "subscribed" ELSE "unsubscribed"]
        /\ UNCHANGED <<subscribeCount, pendingSubscriptions, mark, subscribedKeys, toSubscribe,
                       unfinished>>
    BY <1>2 DEF EndCall, scheduleVars
  <2>2. pc'[Updater] = pc[Updater]
    BY <2>1, ThreadsDiffer DEF HandleInv, ThreadInv, ThreadTypes
  <2> QED
    BY <2>1, <2>2 DEF KeyInv, PendingInv, BeingMarked
<1>3. CASE UNCHANGED vars \/ \E c \in Properties : OnPropertyValueChanged(c)
  <2>1. UNCHANGED <<subscribeCount, pendingSubscriptions, mark, pc, subscribedKeys, toSubscribe,
                    unfinished>>
    BY <1>3 DEF vars, OnPropertyValueChanged, providerVars, scheduleVars, handleVars, threadVars
  <2> QED
    BY <2>1 DEF KeyInv, PendingInv, BeingMarked
<1>4. ASSUME NEW t \in Threads, LoopStep(t) PROVE KeyInv' /\ PendingInv'
  BY <1>4, LoopPending
<1>5. CASE BeginUpdate \/ ForgetPending \/ EndUpdate
  BY <1>5, UpdatePending
<1>6. ASSUME NEW p \in Providers,
             \/ ProviderQueuedCall(p) \/ ProviderConstructs(p) \/ ProviderBlocks(p)
             \/ ProviderReady(p) \/ ProviderFails(p) \/ ProviderHandlesSubscribes(p)
             \/ ProviderFinished(p) \/ ProviderFailed(p) \/ ProviderStores(p) \/ ProviderValue(p)
      PROVE  KeyInv' /\ PendingInv'
  BY <1>6, PluginPending, HandleSubscribesPending, AnswerPending
<1> QED
  BY <1>1, <1>2, <1>3, <1>4, <1>5, <1>6 DEF HandleNext, PropertyStep

\* With nobody inside, the handle waits for what is unfinished.
LEMMA PendingWhenQuiet ==
  ASSUME HandleInv, KeyInv, PendingInv
  PROVE  PendingIsUnfinished
<1> SUFFICES ASSUME Quiet PROVE pendingSubscriptions = Unfinished
  BY DEF PendingIsUnfinished, Unfinished
<1>1. \A t \in Threads : pc[t] \notin InCall
  BY DEF Quiet
<1>2. BeingMarked = {} /\ pc[Updater] # "unsubscribing"
  BY <1>1, ThreadsDiffer DEF BeingMarked, HandleInv, ThreadInv, ExclusiveInv, InCall
<1>3. CASE subscribeCount > 0
  BY <1>2, <1>3 DEF PendingInv, Unfinished
<1>4. CASE ~(subscribeCount > 0)
  <2>1. \A p \in Providers : ~WantedFrom(p)
    BY <1>1, <1>4, ThreadsDiffer DEF WantedFrom, InCall
  <2> QED
    BY <1>2, <1>4, <2>1, NothingUnfinished DEF HandleInv, PendingInv
<1> QED
  BY <1>3, <1>4

-----------------------------------------------------------------------------
(* A wait does not end too early, whichever threads the properties live in *)

\* While anybody is subscribed, what is unfinished is pending or about to be marked.
WaitingInv ==
  pc[Updater] # "unsubscribing" /\ subscribeCount > 0
    => Unfinished \subseteq pendingSubscriptions \cup BeingMarked

\* Whoever starts a call finds no unfinished provider, or other subscribers.
LEMMA BeginWaiting ==
  ASSUME HandleInv, KeyInv, WaitingInv, NEW c \in Properties,
         BeginSubscribe(c) \/ BeginUnsubscribe(c)
  PROVE  WaitingInv'
<1>1. UNCHANGED <<subscribedKeys, toSubscribe, unfinished, mark>>
  BY DEF BeginSubscribe, BeginUnsubscribe, scheduleVars
<1>2. Unfinished' = Unfinished /\ BeingMarked' = BeingMarked /\ subscribeCount \in Nat
  BY <1>1, CountIsNat DEF Unfinished, BeingMarked, HandleInv, ThreadInv
<1>3. pc[Updater] = "off"
  <2>1. ASSUME pc[Updater] # "off" PROVE FALSE
    <3>1. running = Updating /\ c \in MainProperties
      BY <2>1 DEF HandleInv, ThreadInv, ExclusiveInv, AllInMain
    <3> QED
      BY <3>1, RunningDiffers DEF BeginSubscribe, BeginUnsubscribe, Free, MainIdle
  <2> QED
    BY <2>1
<1>4. CASE BeginSubscribe(c) /\ subscribeCount = 0
  <2>1. lockOwner = Unset
    BY <1>4 DEF BeginSubscribe
  <2>2. \A d \in Properties : pc[d] \notin InCall
    BY <2>1, HandleAssumption DEF HandleInv, ThreadInv, ExclusiveInv
  <2>3. \A p \in Providers : ~WantedFrom(p)
    BY <1>3, <1>4, <2>2 DEF WantedFrom, InCall
  <2>4. Unfinished = {}
    BY <2>3, NothingUnfinished DEF HandleInv
  <2> QED
    BY <1>2, <2>4 DEF WaitingInv
<1>5. CASE BeginSubscribe(c) /\ subscribeCount # 0
  <2>1. UNCHANGED pendingSubscriptions
    BY <1>5 DEF BeginSubscribe
  <2> QED
    BY <1>2, <1>3, <1>5, <2>1 DEF WaitingInv
<1>6. CASE BeginUnsubscribe(c)
  <2>1. subscribeCount' = subscribeCount - 1
        /\ (subscribeCount = 1 \/ UNCHANGED pendingSubscriptions)
    BY <1>6 DEF BeginUnsubscribe, CountDown, LeavesProviders
  <2>2. subscribeCount' > 0 => subscribeCount > 0 /\ UNCHANGED pendingSubscriptions
    BY <1>2, <2>1
  <2> QED
    BY <1>2, <1>3, <2>2 DEF WaitingInv
<1> QED
  BY <1>4, <1>5, <1>6

LEMMA LoopWaiting ==
  ASSUME HandleInv, KeyInv, WaitingInv, NEW t \in Threads, LoopStep(t)
  PROVE  WaitingInv'
<1>1. /\ todo[t] \subseteq Providers /\ mark \in [Threads -> Providers \cup {Unset}]
      /\ KeyTypes /\ Unset \notin Providers
  BY HandleAssumption DEF HandleInv, ThreadInv, ThreadTypes
<1>2. CASE CallSubscribe(t)
  <2>1. PICK p \in todo[t] :
          /\ DoSubscribe(p, key)
          /\ mark' = [mark EXCEPT ![t] = IF SubscribeReturns(p, key) THEN p ELSE Unset]
    BY <1>2 DEF CallSubscribe
  <2>2. mark[t] = Unset /\ UNCHANGED <<subscribeCount, pendingSubscriptions, pc>>
    BY <1>2 DEF CallSubscribe, handleVars
  <2>3. Unfinished' = Unfinished \cup (IF SubscribeReturns(p, key) THEN {p} ELSE {})
    BY <1>1, <2>1, SubscribeKeys
  <2>4. BeingMarked \cup (IF SubscribeReturns(p, key) THEN {p} ELSE {}) \subseteq BeingMarked'
    <3>1. mark'[t] = IF SubscribeReturns(p, key) THEN p ELSE Unset
      BY <1>1, <2>1
    <3>2. \A u \in Threads \ {t} : mark'[u] = mark[u]
      BY <1>1, <2>1
    <3>3. p # Unset
      BY <1>1
    <3> QED
      BY <2>2, <3>1, <3>2, <3>3 DEF BeingMarked
  <2> QED
    BY <2>2, <2>3, <2>4 DEF WaitingInv
<1>3. CASE CallUnsubscribe(t)
  <2>1. PICK p \in todo[t] : pc[t] = "unsubscribing" /\ UNCHANGED <<subscribeCount, pc>>
    BY <1>3 DEF CallUnsubscribe, handleVars
  <2>2. t \in Properties => ~(subscribeCount > 0)
    BY <2>1 DEF HandleInv, ThreadInv, LoopInv
  <2> QED
    BY <2>1, <2>2 DEF WaitingInv, Threads
<1>4. CASE MarkPending(t)
  <2>1. /\ mark' = [mark EXCEPT ![t] = Unset]
        /\ pendingSubscriptions' = pendingSubscriptions \cup {mark[t]}
        /\ UNCHANGED <<subscribeCount, pc, unfinished>>
    BY <1>4 DEF MarkPending, Marked, providerVars
  <2>2. \A u \in Threads \ {t} : mark'[u] = mark[u]
    BY <1>1, <2>1
  <2>3. pendingSubscriptions \cup BeingMarked \subseteq pendingSubscriptions' \cup BeingMarked'
    BY <2>1, <2>2 DEF BeingMarked
  <2> QED
    BY <2>1, <2>3 DEF WaitingInv, Unfinished
<1> QED
  BY <1>2, <1>3, <1>4 DEF LoopStep

LEMMA UpdateWaiting ==
  ASSUME HandleInv, KeyInv, WaitingInv, BeginUpdate \/ ForgetPending \/ EndUpdate
  PROVE  WaitingInv'
<1>1. UNCHANGED <<subscribeCount, unfinished, mark>>
  BY DEF BeginUpdate, ForgetPending, EndUpdate, providerVars, handleVars
<1>2. CASE BeginUpdate
  <2>1. pc \in [Threads -> {"off", "assigning", "unsubscribed", "subscribed"} \cup InCall]
    BY DEF HandleInv, ThreadInv, ThreadTypes
  <2>2. pc'[Updater] = IF subscribeCount > 0 THEN "unsubscribing" ELSE "assigning"
    BY <1>2, <2>1, ThreadsDiffer DEF BeginUpdate
  <2> QED
    BY <1>1, <2>2 DEF WaitingInv
<1>3. CASE ForgetPending
  <2>1. pc[Updater] = "unsubscribing" /\ todo[Updater] = {}
    BY <1>3 DEF ForgetPending
  <2>2. \A p \in Providers : ~WantedFrom(p)
    BY <2>1 DEF WantedFrom
  <2>3. Unfinished = {}
    BY <2>2, NothingUnfinished DEF HandleInv
  <2> QED
    BY <1>1, <2>3 DEF WaitingInv, Unfinished
<1>4. CASE EndUpdate
  <2>1. pc[Updater] # "unsubscribing" /\ UNCHANGED pendingSubscriptions
    BY <1>4 DEF EndUpdate
  <2> QED
    BY <1>1, <2>1 DEF WaitingInv, Unfinished, BeingMarked
<1> QED
  BY <1>2, <1>3, <1>4

\* What a provider takes out of pendingSubscriptions it has finished.
LEMMA ProviderWaiting ==
  ASSUME HandleInv, KeyInv, WaitingInv, NEW p \in Providers,
         \/ ProviderQueuedCall(p) \/ ProviderConstructs(p) \/ ProviderBlocks(p)
         \/ ProviderReady(p) \/ ProviderFails(p) \/ ProviderHandlesSubscribes(p)
         \/ ProviderFinished(p) \/ ProviderFailed(p) \/ ProviderStores(p) \/ ProviderValue(p)
  PROVE  WaitingInv'
<1>0. KeyTypes /\ key \in Keys
  BY HandleAssumption DEF HandleInv, ThreadInv
<1>1. UNCHANGED <<subscribeCount, pc, mark>>
  BY DEF ProviderQueuedCall, ProviderConstructs, ProviderBlocks, ProviderReady,
     ProviderFails, Above, ProviderHandlesSubscribes, ProviderFinished, ProviderFailed,
     ProviderStores, ProviderValue, Routed, handleVars, threadVars
<1>2. ASSUME Unfinished' \ pendingSubscriptions' \subseteq Unfinished \ pendingSubscriptions
      PROVE  WaitingInv'
  BY <1>1, <1>2 DEF WaitingInv, BeingMarked
<1>3. CASE \/ ProviderQueuedCall(p) \/ ProviderConstructs(p) \/ ProviderBlocks(p)
           \/ ProviderReady(p) \/ ProviderFails(p) \/ ProviderStores(p) \/ ProviderValue(p)
  <2>1. UNCHANGED pendingSubscriptions
    BY <1>3 DEF ProviderQueuedCall, ProviderConstructs, ProviderBlocks, ProviderReady,
       ProviderFails, Above, ProviderStores, ProviderValue, Routed, handleVars
  <2>2. UNCHANGED unfinished
    BY <1>0, <1>3, PluginTypes DEF ProviderQueuedCall, ProviderConstructs, ProviderBlocks,
       ProviderReady, ProviderFails, Above, ProviderStores, ProviderValue, Routed
  <2> QED
    BY <1>2, <2>1, <2>2 DEF Unfinished
<1>4. CASE ProviderHandlesSubscribes(p)
  <2>1. HandleSubscribes(p) /\ SetSubscribeFinished(p, FinishedByHandle(p))
    BY <1>4 DEF ProviderHandlesSubscribes
  <2>2. \A q \in Providers : key \in unfinished'[q] <=>
                               key \in unfinished[q] /\ ~(q = p /\ FinishedByHandle(p))
    BY <1>0, <2>1, HandleSubscribesEnds
  <2> QED
    BY <1>2, <2>1, <2>2 DEF SetSubscribeFinished, Unfinished
<1>5. CASE ProviderFinished(p) \/ ProviderFailed(p)
  <2>1. DoAnswer(p, key) /\ SetSubscribeFinished(p, key \in subscribedKeys[p])
    BY <1>5 DEF ProviderFinished, ProviderFailed, OnPluginSubscribeFinished,
       OnPluginSubscribeFailed
  <2>2. unfinished' = [unfinished EXCEPT ![p] = @ \ Signalled(p, {key})]
    BY <2>1 DEF DoAnswer
  <2>3. \A q \in Providers : key \in unfinished'[q] <=>
                               key \in unfinished[q] /\ ~(q = p /\ key \in subscribedKeys[p])
    BY <1>0, <2>2 DEF Signalled, KeyTypes
  <2> QED
    BY <1>2, <2>1, <2>3 DEF SetSubscribeFinished, Unfinished
<1> QED
  BY <1>3, <1>4, <1>5

LEMMA WaitingNext ==
  ASSUME HandleInv, KeyInv, WaitingInv, [HandleNext]_vars
  PROVE  WaitingInv'
<1>1. ASSUME NEW c \in Properties, EndCall(c) PROVE WaitingInv'
  <2>1. /\ pc' = [pc EXCEPT ![c] = IF pc[c] = "subscribing" THEN "subscribed" ELSE "unsubscribed"]
        /\ UNCHANGED <<subscribeCount, pendingSubscriptions, mark, unfinished>>
    BY <1>1 DEF EndCall
  <2>2. pc'[Updater] = pc[Updater]
    BY <2>1, ThreadsDiffer DEF HandleInv, ThreadInv, ThreadTypes
  <2> QED
    BY <2>1, <2>2 DEF WaitingInv, Unfinished, BeingMarked
<1>2. CASE UNCHANGED vars \/ \E c \in Properties : OnPropertyValueChanged(c)
  <2>1. UNCHANGED <<subscribeCount, pendingSubscriptions, mark, pc, unfinished>>
    BY <1>2 DEF vars, OnPropertyValueChanged, providerVars, handleVars, threadVars
  <2> QED
    BY <2>1 DEF WaitingInv, Unfinished, BeingMarked
<1> QED
  BY <1>1, <1>2, BeginWaiting, LoopWaiting, UpdateWaiting, ProviderWaiting
     DEF HandleNext, PropertyStep

\* With nobody inside, nothing unfinished is missing from what is pending.
LEMMA WaitingWhenQuiet ==
  ASSUME HandleInv, KeyInv, WaitingInv, Quiet
  PROVE  Unfinished \subseteq pendingSubscriptions
<1>1. \A t \in Threads : pc[t] \notin InCall
  BY DEF Quiet
<1>2. BeingMarked = {} /\ pc[Updater] # "unsubscribing"
  BY <1>1, ThreadsDiffer DEF BeingMarked, HandleInv, ThreadInv, ExclusiveInv, InCall
<1>3. CASE subscribeCount > 0
  BY <1>2, <1>3 DEF WaitingInv
<1>4. CASE ~(subscribeCount > 0)
  <2>1. \A p \in Providers : ~WantedFrom(p)
    BY <1>1, <1>4, ThreadsDiffer DEF WantedFrom, InCall
  <2> QED
    BY <2>1, NothingUnfinished DEF HandleInv
<1> QED
  BY <1>3, <1>4

-----------------------------------------------------------------------------
(* The newest of some values                                               *)

\* A finite set of time stamps that is not empty has a newest: of its subsets
\* without one, a smallest would be left without one when an element is taken out.
LEMMA NewestExists ==
  ASSUME NEW S \in SUBSET Nat, IsFiniteSet(S), S # {}
  PROVE  \E v \in S : \A w \in S : w <= v
<1> DEFINE HasNewest(T) == \E v \in T : \A w \in T : w <= v
           R   == StrictSubsetOrdering(S)
           Bad == {T \in FiniteSubsetsOf(S) : T # {} /\ ~HasNewest(T)}
<1>1. SUFFICES ASSUME Bad # {} PROVE FALSE
  BY DEF FiniteSubsetsOf
<1>2. IsWellFoundedOn(R, FiniteSubsetsOf(S)) /\ Bad \subseteq FiniteSubsetsOf(S)
  BY FS_StrictSubsetOrderingWellFounded
<1> HIDE DEF R, Bad
<1>3. PICK T \in Bad : \A U \in Bad : ~(<<U, T>> \in R)
  BY <1>1, <1>2, WFMin
<1>4. T \in SUBSET S /\ IsFiniteSet(T) /\ T # {} /\ ~HasNewest(T)
  BY <1>3 DEF Bad, FiniteSubsetsOf
<1>5. PICK x : x \in T
  BY <1>4
<1> DEFINE U == T \ {x}
<1>6. U \in SUBSET S /\ IsFiniteSet(U) /\ U \subseteq T /\ U # T
  BY <1>4, <1>5, FS_Subset
<1>7. <<U, T>> \in R
  BY <1>4, <1>6 DEF R, StrictSubsetOrdering
<1>8. U = {} \/ HasNewest(U)
  BY <1>3, <1>6, <1>7 DEF Bad, FiniteSubsetsOf
<1>9. x \in Nat /\ T \subseteq Nat /\ \A w \in T : w = x \/ w \in U
  BY <1>4, <1>5
<1>10. CASE U = {}
  <2>1. \A w \in T : w <= x
    BY <1>9, <1>10
  <2> QED
    BY <1>4, <1>5, <2>1
<1>11. CASE HasNewest(U)
  <2>1. PICK v \in U : \A w \in U : w <= v
    BY <1>11
  <2>2. v \in T /\ v \in Nat
    BY <1>6, <1>9, <2>1
  <2>3. CASE x <= v
    BY <1>4, <1>9, <2>1, <2>2, <2>3
  <2>4. CASE v <= x
    <3>1. \A w \in T : w <= x
      BY <1>9, <2>1, <2>2, <2>4
    <3> QED
      BY <1>4, <1>5, <3>1
  <2> QED
    BY <1>9, <2>2, <2>3, <2>4
<1> QED
  BY <1>8, <1>10, <1>11

\* What LatestOf computes.
LEMMA LatestIsNewest ==
  ASSUME NEW ps \in SUBSET Providers, IsFiniteSet(ps),
         NEW vals \in [Providers -> [Keys -> TimedValues \cup {NoValue}]]
  PROVE  LET known  == {vals[p][key] : p \in ps} \ {NoValue}
             latest == LatestOf(vals, ps)
         IN  /\ latest \in TimedValues \cup {NoValue}
             /\ \/ known = {} /\ latest = NoValue
                \/ latest \in known /\ \A v \in known : v <= latest
<1> DEFINE known  == {vals[p][key] : p \in ps} \ {NoValue}
           latest == LatestOf(vals, ps)
<1>1. key \in Keys /\ TimedValues \subseteq Nat
  BY HandleAssumption
<1>2. known \subseteq TimedValues
  BY <1>1
<1>3. IsFiniteSet(known)
  <2>1. IsFiniteSet({vals[p][key] : p \in ps})
    <3> DEFINE f == [p \in ps |-> vals[p][key]]
    <3>1. f \in Surjection(ps, {vals[p][key] : p \in ps})
      BY DEF Surjection
    <3> QED
      BY <3>1, FS_Surjection
  <2> QED
    BY <2>1, FS_Subset
<1>4. CASE known = {}
  BY <1>4 DEF LatestOf
<1>5. CASE known # {}
  <2>1. latest = CHOOSE v \in known : \A w \in known : w <= v
    BY <1>5 DEF LatestOf
  <2>2. \E v \in known : \A w \in known : w <= v
    BY <1>1, <1>2, <1>3, <1>5, NewestExists
  <2> HIDE DEF known, latest
  <2>3. latest \in known /\ \A w \in known : w <= latest
    BY <2>1, <2>2
  <2> QED
    BY <1>2, <2>3 DEF known, latest
<1> QED
  BY <1>4, <1>5

-----------------------------------------------------------------------------
(* The values                                                              *)

ValueTypes ==
  /\ values \in [Providers -> [Keys -> TimedValues \cup {NoValue}]]
  /\ IsFiniteSet(myProviders) /\ IsFiniteSet(newProviders)
  /\ myValue \in (TimedValues \ IllTyped) \cup {NoValue}
  /\ commanderPresence \in {Unknown, Present, NotPresent}
  /\ lockOwner \in Properties \cup {Unset}
  /\ propValue \in [Properties -> (TimedValues \ IllTyped) \cup {NoValue}]
  /\ inbox \subseteq Properties

valueState == <<values, myProviders, newProviders, myValue, commanderPresence, lockOwner,
                propValue, inbox>>

\* The steps that touch no value.
LEMMA ValuesUntouched ==
  ASSUME [HandleNext]_vars
  PROVE  \/ UNCHANGED valueState
         \/ \E c \in Properties : \/ BeginSubscribe(c) \/ BeginUnsubscribe(c) \/ EndCall(c)
                                  \/ OnPropertyValueChanged(c)
         \/ BeginUpdate \/ EndUpdate
         \/ \E p \in Providers : ProviderStores(p) \/ ProviderValue(p)
<1>1. ASSUME NEW t \in Threads, LoopStep(t) PROVE UNCHANGED valueState
  BY <1>1 DEF LoopStep, CallSubscribe, MarkPending, CallUnsubscribe, DoSubscribe, DoUnsubscribe,
              valueState, providerVars, handleVars, worldVars, propertyVars
<1>2. ASSUME ForgetPending \/ UNCHANGED vars PROVE UNCHANGED valueState
  BY <1>2 DEF ForgetPending, vars, valueState, providerVars, handleVars, worldVars, propertyVars
<1>3. ASSUME NEW p \in Providers,
             \/ ProviderQueuedCall(p) \/ ProviderConstructs(p) \/ ProviderBlocks(p)
             \/ ProviderReady(p) \/ ProviderFails(p)
      PROVE  UNCHANGED valueState
  BY <1>3 DEF ProviderQueuedCall, ProviderConstructs, ProviderBlocks, ProviderReady, ProviderFails,
              Above, OnQueuedCall, ConstructPlugin, BlockUntilSubscribed, ConstructPluginBody,
              PluginReady, OnPluginReady, OnPluginReadyIgnored, OnPluginFailed, valueState,
              handleVars, worldVars, propertyVars
<1>4. ASSUME NEW p \in Providers,
             ProviderHandlesSubscribes(p) \/ ProviderFinished(p) \/ ProviderFailed(p)
      PROVE  UNCHANGED valueState
  BY <1>4 DEF ProviderHandlesSubscribes, HandleSubscribes, ProviderFinished, ProviderFailed,
              OnPluginSubscribeFinished, OnPluginSubscribeFailed, DoAnswer,
              valueState, worldVars, propertyVars
<1> QED
  BY <1>1, <1>2, <1>3, <1>4 DEF HandleNext, PropertyStep

\* A provider's value arrives: the handle shows the newest, or nothing changes.
LEMMA ValueArrives ==
  ASSUME BaseInv, ValueTypes, NEW p \in Providers, ProviderStores(p) \/ ProviderValue(p)
  PROVE  /\ values' \in [Providers -> [Keys -> TimedValues \cup {NoValue}]]
         /\ UNCHANGED <<myProviders, newProviders, commanderPresence, lockOwner, propValue>>
         /\ \/ UNCHANGED <<values, myValue, inbox>>
            \/ ShowValue(LatestOf(values', myProviders))
<1>1. PICK v \in TimedValues \cup {NoValue} : ReceiveValue(p, key, v)
  BY DEF ProviderStores, ProviderValue, Routed, StoreValue, OnPluginValueChanged
<1>2. RouteValue(p) /\ UNCHANGED <<myProviders, newProviders, commanderPresence, lockOwner, propValue>>
  BY DEF ProviderStores, ProviderValue, Routed, worldVars
<1>3. values' \in [Providers -> [Keys -> TimedValues \cup {NoValue}]]
  BY <1>1, HandleAssumption DEF ReceiveValue, ValueTypes
<1>4. \/ UNCHANGED <<values, myValue, inbox>>
      \/ ShowValue(LatestOf(values', myProviders))
  BY <1>1, <1>2 DEF ReceiveValue, RouteValue
<1> QED
  BY <1>2, <1>3, <1>4

LEMMA ShownTypes ==
  ASSUME ValueTypes, NEW v \in TimedValues \cup {NoValue}, ShowValue(v)
  PROVE  myValue' \in (TimedValues \ IllTyped) \cup {NoValue} /\ inbox' \subseteq Properties
BY DEF ValueTypes, ShowValue

LEMMA ChosenFinite ==
  ASSUME NEW ps \in RegistrySets, NEW presence
  PROVE  IsFiniteSet(Chosen(ps, presence))
BY HandleAssumption, FS_Singleton DEF Chosen

LEMMA ValueTypesNext ==
  ASSUME BaseInv, ValueTypes, [HandleNext]_vars
  PROVE  ValueTypes'
<1>0. /\ myProviders \in SUBSET Providers /\ newProviders \in SUBSET Providers
      /\ registry \in RegistrySets
  BY DEF BaseInv, ThreadTypes
<1>1. CASE UNCHANGED valueState
  BY <1>1 DEF ValueTypes, valueState
<1>2. ASSUME NEW c \in Properties, BeginSubscribe(c) \/ BeginUnsubscribe(c) \/ EndCall(c)
      PROVE  ValueTypes'
  BY <1>2 DEF BeginSubscribe, BeginUnsubscribe, EndCall, worldVars, propertyVars, ValueTypes
<1>3. ASSUME NEW c \in Properties, OnPropertyValueChanged(c) PROVE ValueTypes'
  BY <1>3 DEF OnPropertyValueChanged, providerVars, handleVars, worldVars, ValueTypes
<1>4. CASE BeginUpdate
  <2>1. values' \in [Providers -> [Keys -> TimedValues \cup {NoValue}]]
    <3>1. [k \in Keys |-> NoValue] \in [Keys -> TimedValues \cup {NoValue}]
      OBVIOUS
    <3> QED
      BY <1>4, <3>1 DEF BeginUpdate, ValueTypes
  <2>2. registry' \in RegistrySets /\ newProviders' = Chosen(registry', commanderPresence')
    BY <1>0, <1>4 DEF BeginUpdate
  <2>3. IsFiniteSet(newProviders')
    BY <2>2, ChosenFinite
  <2>4. commanderPresence' \in {Unknown, Present, NotPresent}
    BY <1>4 DEF BeginUpdate, ValueTypes
  <2> QED
    BY <1>4, <2>1, <2>3, <2>4 DEF BeginUpdate, handleVars, propertyVars, ValueTypes
<1>5. CASE EndUpdate
  <2>1. LatestOf(values, newProviders) \in TimedValues \cup {NoValue}
    BY <1>0, LatestIsNewest DEF ValueTypes
  <2>2. myValue' \in (TimedValues \ IllTyped) \cup {NoValue} /\ inbox' \subseteq Properties
    <3>1. CASE ShowValue(LatestOf(values, newProviders))
      BY <2>1, <3>1, ShownTypes
    <3>2. CASE UNCHANGED <<myValue, inbox>>
      BY <3>2 DEF ValueTypes
    <3> QED
      BY <1>5, <3>1, <3>2 DEF EndUpdate
  <2> QED
    BY <1>5, <2>2 DEF EndUpdate, worldVars, ValueTypes
<1>6. ASSUME NEW p \in Providers, ProviderStores(p) \/ ProviderValue(p) PROVE ValueTypes'
  <2>1. /\ values' \in [Providers -> [Keys -> TimedValues \cup {NoValue}]]
        /\ UNCHANGED <<myProviders, newProviders, commanderPresence, lockOwner, propValue>>
        /\ \/ UNCHANGED <<values, myValue, inbox>>
           \/ ShowValue(LatestOf(values', myProviders))
    BY <1>6, ValueArrives
  <2>2. LatestOf(values', myProviders) \in TimedValues \cup {NoValue}
    BY <1>0, <2>1, LatestIsNewest DEF ValueTypes
  <2>3. myValue' \in (TimedValues \ IllTyped) \cup {NoValue} /\ inbox' \subseteq Properties
    <3>1. CASE ShowValue(LatestOf(values', myProviders))
      BY <2>2, <3>1, ShownTypes
    <3>2. CASE UNCHANGED <<values, myValue, inbox>>
      BY <3>2 DEF ValueTypes
    <3> QED
      BY <2>1, <3>1, <3>2
  <2> QED
    BY <2>1, <2>3 DEF ValueTypes
<1> QED
  BY <1>1, <1>2, <1>3, <1>4, <1>5, <1>6, ValuesUntouched

LEMMA ValueTypesInit == HandleInit => ValueTypes
<1> SUFFICES ASSUME HandleInit PROVE ValueTypes
  OBVIOUS
<1>1. IsFiniteSet(myProviders) /\ IsFiniteSet(newProviders)
  BY ChosenFinite, FS_EmptySet DEF HandleInit
<1>2. values \in [Providers -> [Keys -> TimedValues \cup {NoValue}]]
  BY DEF HandleInit, Init
<1> QED
  BY <1>1, <1>2 DEF HandleInit, ValueTypes

LEMMA BaseInvTypes == BaseInv /\ ValueTypes => HandleTypeOK
<1> SUFFICES ASSUME BaseInv, ValueTypes PROVE HandleTypeOK
  OBVIOUS
<1>1. subscribeCount \in 0..Cardinality(Properties)
  <2>1. ConnectedOnes \subseteq Properties /\ IsFiniteSet(Properties)
    BY HandleAssumption DEF ConnectedOnes
  <2>2. Cardinality(ConnectedOnes) <= Cardinality(Properties) /\ Cardinality(Properties) \in Nat
    BY <2>1, FS_Subset, FS_CardinalityType
  <2> QED
    BY <2>2, ConnectedFinite DEF BaseInv, CountInv
<1> QED
  BY <1>1 DEF HandleTypeOK, BaseInv, ThreadTypes, ValueTypes

\* With fixed providers nothing but a provider's value changes what is newest.
FixedInv == pc[Updater] = "off" /\ ValueIsNewest

LEMMA FixedNext ==
  ASSUME ~RegistryChanges, ~CommandingEnabled, HandleInv, ValueTypes, FixedInv, [HandleNext]_vars
  PROVE  FixedInv'
<1>0. ~BeginUpdate /\ ~EndUpdate /\ ~ForgetPending
  BY DEF BeginUpdate, EndUpdate, ForgetPending, FixedInv
<1>1. pc'[Updater] = "off"
  <2>1. pc \in [Threads -> {"off", "assigning", "unsubscribed", "subscribed"} \cup InCall]
    BY DEF HandleInv, ThreadInv, ThreadTypes
  <2>2. ASSUME NEW c \in Properties, BeginSubscribe(c) \/ BeginUnsubscribe(c) \/ EndCall(c)
        PROVE  pc'[Updater] = pc[Updater]
    BY <2>1, <2>2, ThreadsDiffer DEF BeginSubscribe, BeginUnsubscribe, EndCall
  <2>3. ASSUME NEW c \in Properties, OnPropertyValueChanged(c) PROVE UNCHANGED pc
    BY <2>3 DEF OnPropertyValueChanged, threadVars
  <2>4. ASSUME NEW t \in Threads, LoopStep(t) PROVE UNCHANGED pc
    BY <2>4 DEF LoopStep, CallSubscribe, MarkPending, CallUnsubscribe
  <2>5. ASSUME NEW p \in Providers,
               \/ ProviderQueuedCall(p) \/ ProviderConstructs(p) \/ ProviderBlocks(p)
               \/ ProviderReady(p) \/ ProviderFails(p) \/ ProviderHandlesSubscribes(p)
               \/ ProviderFinished(p) \/ ProviderFailed(p) \/ ProviderStores(p) \/ ProviderValue(p)
        PROVE  UNCHANGED pc
    BY <2>5 DEF ProviderQueuedCall, ProviderConstructs, ProviderBlocks, ProviderReady,
       ProviderFails, Above, ProviderHandlesSubscribes, ProviderFinished, ProviderFailed,
       ProviderStores, ProviderValue, Routed, threadVars
  <2> QED
    BY <1>0, <2>2, <2>3, <2>4, <2>5 DEF HandleNext, PropertyStep, FixedInv, vars, threadVars
<1>2. ValueIsNewest'
  <2>1. CASE UNCHANGED <<values, myProviders, myValue>>
    BY <2>1 DEF FixedInv, ValueIsNewest, KnownValues
  <2>2. ASSUME NEW c \in Properties, \/ BeginSubscribe(c) \/ BeginUnsubscribe(c) \/ EndCall(c)
                                     \/ OnPropertyValueChanged(c)
        PROVE  UNCHANGED <<values, myProviders, myValue>>
    BY <2>2 DEF BeginSubscribe, BeginUnsubscribe, EndCall, OnPropertyValueChanged, providerVars,
                handleVars
  <2>3. ASSUME NEW p \in Providers, ProviderStores(p) \/ ProviderValue(p) PROVE ValueIsNewest'
    <3>1. /\ values' \in [Providers -> [Keys -> TimedValues \cup {NoValue}]]
          /\ myProviders' = myProviders /\ myProviders \in SUBSET Providers
          /\ IsFiniteSet(myProviders)
          /\ \/ UNCHANGED <<values, myValue, inbox>>
             \/ ShowValue(LatestOf(values', myProviders))
      BY <2>3, ValueArrives, HandleInvBase DEF ValueTypes, HandleInv, ThreadInv, ThreadTypes
    <3>2. CASE ShowValue(LatestOf(values', myProviders))
      <4> DEFINE latest == LatestOf(values', myProviders)
      <4>1. KnownValues' = {values'[q][key] : q \in myProviders} \ {NoValue}
        BY <3>1 DEF KnownValues
      <4>2. \/ KnownValues' = {} /\ latest = NoValue
            \/ latest \in KnownValues' /\ \A v \in KnownValues' : v <= latest
        BY <3>1, <4>1, LatestIsNewest
      <4>3. latest = NoValue => latest \notin IllTyped
        BY HandleAssumption, ProviderAssumption
      <4>4. myValue' = latest \/ latest \in IllTyped
        BY <3>2 DEF ShowValue
      <4> HIDE DEF latest
      <4> QED
        BY <4>2, <4>3, <4>4 DEF ValueIsNewest
    <3> QED
      BY <2>1, <3>1, <3>2
  <2> QED
    BY <1>0, <2>1, <2>2, <2>3, ValuesUntouched DEF valueState
<1> QED
  BY <1>1, <1>2 DEF FixedInv

LEMMA FixedInit == HandleInit => FixedInv
<1> SUFFICES ASSUME HandleInit PROVE FixedInv
  OBVIOUS
<1>1. pc[Updater] = "off"
  BY ThreadsDiffer DEF HandleInit
<1>2. KnownValues = {} /\ myValue = NoValue
  <2>1. key \in Keys /\ myProviders \subseteq Providers /\ values = [p \in Providers |-> [k \in Keys |-> NoValue]]
    BY HandleAssumption DEF HandleInit, Init, Chosen
  <2> QED
    BY <2>1 DEF HandleInit, KnownValues
<1> QED
  BY <1>1, <1>2 DEF FixedInv, ValueIsNewest

-----------------------------------------------------------------------------
(* The handle keeps the contract of Provider                               *)

\* A plugin may be asked for the key once more by whoever still goes through its loop.
OwedInv ==
  /\ \A c \in Properties : pc[c] = "subscribing" => \A p \in todo[c] : owed[p][key] < MaxOwed
  /\ pc[Updater] \in InCall => \A p \in Providers : owed[p][key] < MaxOwed

\* What Provider's main thread does is what the main thread does outside the handle.
LEMMA MainThread ==
  /\ MainIdle \/ running = Updating \/ (\E c \in Properties : running = InApplication(c))
       => mainThread = Idle
  /\ \A p \in Providers, m \in Methods : running = <<p, m>> => mainThread = <<p, m>>
  /\ \A p \in Providers : running = Storing(p, key) => mainThread = Storing(p, key)
BY RunningDiffers DEF mainThread, MainIdle

LEMMA MainThreadNext ==
  /\ UNCHANGED running => UNCHANGED mainThread
  /\ running' = Idle \/ running' = Updating \/ (\E c \in Properties : running' = InApplication(c))
       => mainThread' = Idle
  /\ \A p \in Providers, m \in Methods : running' = <<p, m>> => mainThread' = <<p, m>>
  /\ \A p \in Providers : running' = Storing(p, key) => mainThread' = Storing(p, key)
<1>1. UNCHANGED running => UNCHANGED mainThread
  BY DEF mainThread, Updating, InApplication
<1>2. running' = Idle \/ running' = Updating \/ (\E c \in Properties : running' = InApplication(c))
       => mainThread' = Idle
  BY RunningDiffers DEF mainThread, Updating, InApplication
<1>3. \A p \in Providers, m \in Methods : running' = <<p, m>> => mainThread' = <<p, m>>
  BY RunningDiffers DEF mainThread, Updating, InApplication
<1>4. \A p \in Providers : running' = Storing(p, key) => mainThread' = Storing(p, key)
  BY RunningDiffers DEF mainThread, Updating, InApplication, Storing
<1> QED
  BY <1>1, <1>2, <1>3, <1>4

\* Who is about to subscribe has not subscribed, and who is about to leave has.
LEMMA CallsAlternate ==
  ASSUME HandleInv, NEW t \in Threads, pc[t] \in InCall, NEW p \in todo[t]
  PROVE  key \in subscribedKeys[p] <=> pc[t] = "unsubscribing"
<1>1. p \in Providers
  BY DEF HandleInv, ThreadInv, ThreadTypes
<1>2. CASE t = Updater
  <2>1. WantedFrom(p) <=> pc[t] = "unsubscribing"
    BY <1>2 DEF WantedFrom, InCall
  <2> QED
    BY <1>1, <2>1 DEF HandleInv, WantInv
<1>3. CASE t \in Properties
  <2>1. pc[Updater] = "off" /\ p \in myProviders
    BY <1>3, OneInside DEF HandleInv, ThreadInv, LoopInv
  <2>2. CASE pc[t] = "subscribing"
    <3>1. subscribeCount > 0
      BY <1>3, <2>2, CountPositive DEF HandleInv, ThreadInv, Connected
    <3>2. ~WantedFrom(p)
      BY <1>3, <2>1, <2>2, <3>1 DEF WantedFrom
    <3> QED
      BY <1>1, <2>2, <3>2 DEF HandleInv, WantInv
  <2>3. CASE pc[t] = "unsubscribing"
    <3>1. ~(subscribeCount > 0)
      BY <1>3, <2>3 DEF HandleInv, ThreadInv, LoopInv
    <3>2. WantedFrom(p)
      BY <1>3, <2>1, <2>3, <3>1 DEF WantedFrom
    <3> QED
      BY <1>1, <2>3, <3>2 DEF HandleInv, WantInv
  <2> QED
    BY <2>2, <2>3 DEF InCall
<1> QED
  BY <1>2, <1>3 DEF Threads

LEMMA KeyNext ==
  ASSUME BaseInv, KeyInv, [HandleNext]_vars
  PROVE  KeyInv'
<1>0. KeyTypes
  BY DEF BaseInv
<1>1. CASE UNCHANGED <<subscribedKeys, toSubscribe, unfinished>>
  BY <1>1 DEF KeyInv
<1>2. CASE UNCHANGED vars \/ (\E c \in Properties : PropertyStep(c))
           \/ BeginUpdate \/ ForgetPending \/ EndUpdate
  BY <1>1, <1>2 DEF vars, PropertyStep, BeginSubscribe, BeginUnsubscribe, EndCall,
     OnPropertyValueChanged, BeginUpdate, ForgetPending, EndUpdate, providerVars, scheduleVars
<1>3. ASSUME NEW t \in Threads, LoopStep(t) PROVE KeyInv'
  <2>1. todo[t] \subseteq Providers
    BY DEF BaseInv, ThreadTypes
  <2>2. CASE MarkPending(t)
    BY <1>1, <2>2 DEF MarkPending, providerVars, scheduleVars
  <2>3. CASE CallSubscribe(t) \/ CallUnsubscribe(t)
    <3>1. PICK p \in todo[t] : DoSubscribe(p, key) \/ DoUnsubscribe(p, key)
      BY <2>3 DEF CallSubscribe, CallUnsubscribe
    <3> QED
      BY <1>0, <2>1, <3>1, SubscribeKeys
  <2> QED
    BY <1>3, <2>2, <2>3 DEF LoopStep
<1>4. ASSUME NEW p \in Providers, HandleSubscribes(p) PROVE KeyInv'
  <2>1. UNCHANGED subscribedKeys /\ toSubscribe' \in {toSubscribe, [toSubscribe EXCEPT ![p] = {}]}
    BY <1>4 DEF HandleSubscribes, HandleSubscribesReady, HandleSubscribesFailed,
       HandleSubscribesInitializing
  <2>2. \E ks : unfinished' = [unfinished EXCEPT ![p] = @ \ ks]
    <3>1. CASE UNCHANGED unfinished
      <4>1. unfinished' = [unfinished EXCEPT ![p] = @ \ {}]
        BY <1>0, <3>1 DEF KeyTypes
      <4> QED
        BY <4>1
    <3> QED
      BY <1>4, <3>1 DEF HandleSubscribes, HandleSubscribesReady, HandleSubscribesFailed,
         HandleSubscribesInitializing
  <2> QED
    BY <1>0, <2>1, <2>2 DEF KeyInv, KeyTypes
<1>5. ASSUME NEW p \in Providers, DoAnswer(p, key) PROVE KeyInv'
  BY <1>0, <1>5 DEF DoAnswer, scheduleVars, KeyInv, KeyTypes
<1>6. ASSUME NEW p \in Providers,
             \/ OnQueuedCall(p) \/ ConstructPlugin(p) \/ BlockUntilSubscribed(p)
             \/ PluginReady(p) \/ OnPluginFailed(p) \/ StoreValue(p, key) \/ OnPluginValueChanged(p, key)
      PROVE  KeyInv'
  <2>1. UNCHANGED <<subscribedKeys, unfinished>>
    BY <1>0, <1>6, PluginTypes
  <2>2. toSubscribe' = toSubscribe \/ toSubscribe' = [toSubscribe EXCEPT ![p] = subscribedKeys[p]]
    BY <1>6 DEF OnQueuedCall, ConstructPlugin, ConstructPluginBody, BlockUntilSubscribed,
       PluginReady, OnPluginReady, OnPluginReadyIgnored, Renewed, OnPluginFailed, StoreValue,
       OnPluginValueChanged, scheduleVars
  <2> QED
    BY <1>0, <2>1, <2>2 DEF KeyInv, KeyTypes
<1> QED
  BY <1>2, <1>3, <1>4, <1>5, <1>6 DEF HandleNext, ProviderQueuedCall, ProviderConstructs,
     ProviderBlocks, ProviderReady, ProviderFails, Above, ProviderHandlesSubscribes,
     ProviderFinished, ProviderFailed, ProviderStores, ProviderValue, Routed,
     OnPluginSubscribeFinished,
     OnPluginSubscribeFailed

\* Only handleSubscribes makes a plugin owe more, and only for a scheduled key.
LEMMA OwedGrows ==
  ASSUME KeyTypes, NEW p \in Providers, NEW q \in Providers,
         \/ OnQueuedCall(p) \/ ConstructPlugin(p) \/ BlockUntilSubscribed(p)
         \/ PluginReady(p) \/ OnPluginFailed(p) \/ StoreValue(p, key) \/ OnPluginValueChanged(p, key)
         \/ DoAnswer(p, key) \/ HandleSubscribes(p)
  PROVE  \/ owed'[q][key] \in {owed[q][key], 0}
         \/ owed'[q][key] < owed[q][key]
         \/ HandleSubscribes(p) /\ q = p /\ key \in toSubscribe[p]
<1>0. key \in Keys /\ owed \in [Providers -> [Keys -> Nat]]
  BY HandleAssumption DEF KeyTypes
<1>1. CASE UNCHANGED owed
  BY <1>1
<1>2. CASE \/ OnQueuedCall(p) \/ ConstructPlugin(p) \/ BlockUntilSubscribed(p)
           \/ PluginReady(p) \/ StoreValue(p, key) \/ OnPluginValueChanged(p, key)
  BY <1>1, <1>2 DEF OnQueuedCall, ConstructPlugin, BlockUntilSubscribed, ConstructPluginBody,
     PluginReady, OnPluginReady, OnPluginReadyIgnored, StoreValue, OnPluginValueChanged, envVars
<1>3. CASE OnPluginFailed(p)
  <2>1. owed' = owed \/ owed' = [owed EXCEPT ![p] = [k \in Keys |-> 0]]
    BY <1>3 DEF OnPluginFailed
  <2> QED
    BY <1>0, <2>1
<1>4. CASE DoAnswer(p, key)
  <2>1. owed' = [owed EXCEPT ![p][key] = @ - 1]
    BY <1>4 DEF DoAnswer
  <2> QED
    BY <1>0, <2>1
<1>5. CASE HandleSubscribes(p)
  <2>1. owed' = owed \/ \E atOnce \in SUBSET toSubscribe[p] :
          owed' = [owed EXCEPT ![p] = [k \in Keys |-> IF k \in toSubscribe[p] \ atOnce
                                                      THEN owed[p][k] + 1 ELSE owed[p][k]]]
    BY <1>5 DEF HandleSubscribes, HandleSubscribesReady, HandleSubscribesFailed,
       HandleSubscribesInitializing, envVars
  <2> QED
    BY <1>0, <1>5, <2>1
<1> QED
  BY <1>2, <1>3, <1>4, <1>5

LEMMA OwedNext ==
  ASSUME HandleInv, KeyInv, OwedInv, [HandleNext]_vars
  PROVE  OwedInv'
<1>0. /\ KeyTypes /\ todo \in [Threads -> SUBSET Providers] /\ myProviders \subseteq Providers
      /\ newProviders \subseteq Providers
      /\ pc \in [Threads -> {"off", "assigning", "unsubscribed", "subscribed"} \cup InCall]
  BY DEF HandleInv, ThreadInv, ThreadTypes
<1>1. ASSUME NEW c \in Properties, BeginSubscribe(c) PROVE OwedInv'
  <2>1. /\ pc' = [pc EXCEPT ![c] = "subscribing"] /\ UNCHANGED owed
        /\ todo' = [todo EXCEPT ![c] = myProviders] \/ UNCHANGED todo
        /\ \A p \in Providers : owed[p][key] < MaxOwed
    BY <1>1 DEF BeginSubscribe, envVars, SubscribeBound
  <2>2. \A d \in Properties : todo'[d] \subseteq Providers
    BY <1>0, <2>1, ThreadsDiffer
  <2> QED
    BY <2>1, <2>2 DEF OwedInv
<1>2. ASSUME NEW c \in Properties, BeginUnsubscribe(c) \/ EndCall(c) PROVE OwedInv'
  <2>1. /\ UNCHANGED owed
        /\ pc' = [pc EXCEPT ![c] = pc'[c]] /\ pc'[c] # "subscribing"
        /\ todo' = [todo EXCEPT ![c] = myProviders] \/ UNCHANGED todo
    BY <1>0, <1>2, ThreadsDiffer DEF BeginUnsubscribe, EndCall, envVars
  <2>2. \A t \in Threads \ {c} : pc'[t] = pc[t] /\ todo'[t] = todo[t]
    BY <1>0, <2>1
  <2> QED
    BY <2>1, <2>2, ThreadsDiffer DEF OwedInv
<1>3. CASE UNCHANGED vars \/ \E c \in Properties : OnPropertyValueChanged(c)
  BY <1>3 DEF vars, OnPropertyValueChanged, providerVars, envVars, threadVars, OwedInv
<1>4. ASSUME NEW t \in Threads, LoopStep(t) PROVE OwedInv'
  <2>1. UNCHANGED <<owed, pc>>
    BY <1>4 DEF LoopStep, CallSubscribe, DoSubscribe, MarkPending, CallUnsubscribe,
       DoUnsubscribe, providerVars, envVars
  <2>2. todo' = todo \/ \E p : todo' = [todo EXCEPT ![t] = @ \ {p}]
    BY <1>4 DEF LoopStep, CallSubscribe, MarkPending, CallUnsubscribe
  <2>3. \A u \in Threads : todo'[u] \subseteq todo[u]
    BY <1>0, <2>2
  <2> QED
    BY <2>1, <2>3, ThreadsDiffer DEF OwedInv
<1>5. CASE BeginUpdate \/ ForgetPending \/ EndUpdate
  <2>1. /\ UNCHANGED owed
        /\ \A c \in Properties : pc'[c] = pc[c] /\ todo'[c] = todo[c]
    BY <1>0, <1>5, ThreadsDiffer DEF BeginUpdate, ForgetPending, EndUpdate, providerVars, envVars
  <2>2. pc'[Updater] \in InCall => \A p \in Providers : owed[p][key] < MaxOwed
    <3>1. CASE BeginUpdate
      BY <3>1 DEF BeginUpdate, SubscribeBound
    <3>2. CASE ForgetPending
      BY <3>2 DEF ForgetPending, OwedInv, InCall
    <3>3. CASE EndUpdate
      BY <1>0, <3>3, ThreadsDiffer DEF EndUpdate, InCall
    <3> QED
      BY <1>5, <3>1, <3>2, <3>3
  <2> QED
    BY <2>1, <2>2 DEF OwedInv
<1>6. ASSUME NEW p \in Providers,
             \/ ProviderQueuedCall(p) \/ ProviderConstructs(p) \/ ProviderBlocks(p)
             \/ ProviderReady(p) \/ ProviderFails(p) \/ ProviderHandlesSubscribes(p)
             \/ ProviderFinished(p) \/ ProviderFailed(p) \/ ProviderStores(p) \/ ProviderValue(p)
      PROVE  OwedInv'
  <2>1. UNCHANGED <<pc, todo>>
    BY <1>6 DEF ProviderQueuedCall, ProviderConstructs, ProviderBlocks, ProviderReady,
       ProviderFails, Above, ProviderHandlesSubscribes, ProviderFinished, ProviderFailed,
       ProviderStores, ProviderValue, Routed, threadVars
  <2>2. \/ OnQueuedCall(p) \/ ConstructPlugin(p) \/ BlockUntilSubscribed(p)
        \/ PluginReady(p) \/ OnPluginFailed(p) \/ StoreValue(p, key) \/ OnPluginValueChanged(p, key)
        \/ DoAnswer(p, key) \/ HandleSubscribes(p)
    BY <1>6 DEF ProviderQueuedCall, ProviderConstructs, ProviderBlocks, ProviderReady,
       ProviderFails, Above, ProviderHandlesSubscribes, ProviderFinished, ProviderFailed,
       ProviderStores, ProviderValue, Routed, OnPluginSubscribeFinished, OnPluginSubscribeFailed
  <2>3. \A q \in Providers : owed[q][key] \in Nat
    BY <1>0, HandleAssumption DEF KeyTypes
  <2>4. ASSUME NEW q \in Providers, owed[q][key] < MaxOwed,
               ~(HandleSubscribes(p) /\ q = p /\ key \in toSubscribe[p])
        PROVE  owed'[q][key] < MaxOwed
    <3>1. \/ owed'[q][key] = owed[q][key] \/ owed'[q][key] = 0
          \/ owed'[q][key] < owed[q][key]
      BY <1>0, <2>2, <2>4, OwedGrows
    <3>2. owed'[q][key] \in Nat
      <4>1. KeyTypes'
        BY <1>0, <2>2, PluginTypes, AnswerTypes, HandleSubscribesTypes
      <4> QED
        BY <4>1, HandleAssumption DEF KeyTypes
    <3> QED
      BY <2>3, <2>4, <3>1, <3>2, ProviderAssumption
  <2>5. HandleSubscribes(p) => pc[Updater] = "off"
    BY RunningDiffers DEF HandleSubscribes, Methods, HandleInv, ThreadInv, ExclusiveInv
  <2>6. ASSUME NEW c \in Properties, pc[c] = "subscribing", NEW q \in todo[c]
        PROVE  owed'[q][key] < MaxOwed
    <3>1. q \in Providers /\ c \in Threads
      BY <1>0, <2>6, ThreadsDiffer
    <3>2. key \notin subscribedKeys[q]
      BY <2>6, <3>1, CallsAlternate DEF InCall
    <3>3. key \notin toSubscribe[q]
      BY <3>1, <3>2 DEF KeyInv
    <3> QED
      BY <2>4, <2>6, <3>1, <3>3 DEF OwedInv
  <2> QED
    BY <2>1, <2>4, <2>5, <2>6 DEF OwedInv, InCall
<1> QED
  BY <1>1, <1>2, <1>3, <1>4, <1>5, <1>6 DEF HandleNext, PropertyStep

\* What is posted to the main thread are calls of methods.
PostedInv == eventQueue \in [Providers -> Seq(Methods)]

LEMMA PostedNext ==
  ASSUME BaseInv, PostedInv, [HandleNext]_vars
  PROVE  PostedInv'
<1>0. HandleSubscribesCall \in Methods
  BY DEF Methods
<1>1. CASE UNCHANGED eventQueue
  BY <1>1 DEF PostedInv
<1>2. CASE UNCHANGED vars \/ (\E c \in Properties : PropertyStep(c))
           \/ BeginUpdate \/ ForgetPending \/ EndUpdate
  BY <1>1, <1>2 DEF vars, PropertyStep, BeginSubscribe, BeginUnsubscribe, EndCall,
     OnPropertyValueChanged, BeginUpdate, ForgetPending, EndUpdate, providerVars, queueVars
<1>3. ASSUME NEW t \in Threads, LoopStep(t) PROVE PostedInv'
  <2>1. UNCHANGED eventQueue \/ \E p \in Providers : QueueOnce(p, HandleSubscribesCall)
    <3>1. todo[t] \subseteq Providers
      BY DEF BaseInv, ThreadTypes
    <3> QED
      BY <1>3, <3>1 DEF LoopStep, CallSubscribe, CallUnsubscribe, MarkPending, DoSubscribe,
         DoUnsubscribe, Wake, providerVars, queueVars
  <2>2. ASSUME NEW p \in Providers, eventQueue' = [eventQueue EXCEPT ![p] = Append(@, HandleSubscribesCall)]
        PROVE  PostedInv'
    BY <1>0, <2>2 DEF PostedInv
  <2> QED
    BY <1>1, <2>1, <2>2 DEF QueueOnce, queueVars
<1>4. ASSUME NEW p \in Providers, OnQueuedCall(p) PROVE PostedInv'
  <2>1. eventQueue[p] \in Seq(Methods) /\ eventQueue[p] # <<>>
        /\ eventQueue' = [eventQueue EXCEPT ![p] = Tail(@)]
    BY <1>4 DEF OnQueuedCall, PostedInv
  <2>2. Tail(eventQueue[p]) \in Seq(Methods)
    BY <2>1
  <2> QED
    BY <2>1, <2>2 DEF PostedInv
<1>5. ASSUME NEW p \in Providers,
             \/ ConstructPlugin(p) \/ BlockUntilSubscribed(p) \/ PluginReady(p)
             \/ OnPluginFailed(p) \/ StoreValue(p, key) \/ OnPluginValueChanged(p, key) \/ DoAnswer(p, key)
             \/ HandleSubscribes(p)
      PROVE  UNCHANGED eventQueue
  BY <1>5 DEF ConstructPlugin, BlockUntilSubscribed, ConstructPluginBody, PluginReady,
              OnPluginReady, OnPluginReadyIgnored,
     OnPluginFailed, StoreValue, OnPluginValueChanged, DoAnswer, HandleSubscribes, queueVars
<1> QED
  BY <1>1, <1>2, <1>3, <1>4, <1>5 DEF HandleNext, ProviderQueuedCall, ProviderConstructs,
     ProviderBlocks, ProviderReady, ProviderFails, Above, ProviderHandlesSubscribes,
     ProviderFinished, ProviderFailed, ProviderStores, ProviderValue, Routed,
     OnPluginSubscribeFinished,
     OnPluginSubscribeFailed

\* The steps of a provider are those of module Provider.
LEMMA BelowProvider ==
  ASSUME PostedInv, NEW p \in Providers,
         \/ ProviderQueuedCall(p) \/ ProviderConstructs(p) \/ ProviderBlocks(p)
         \/ ProviderReady(p) \/ ProviderFails(p) \/ ProviderHandlesSubscribes(p)
         \/ ProviderFinished(p) \/ ProviderFailed(p) \/ ProviderStores(p) \/ ProviderValue(p)
  PROVE  Below!Next
<1> USE DEF Below!INITIALIZING, Below!READY, Below!FAILED, Below!ConstructPluginCall,
            Below!HandleSubscribesCall, Below!Idle, Below!MainIdle, INITIALIZING, READY, FAILED,
            ConstructPluginCall, HandleSubscribesCall, Idle, MainIdle,
            scheduleVars, queueVars, pluginVars, envVars, Below!scheduleVars, Below!queueVars,
            Below!pluginVars, Below!envVars
<1>0. /\ key \in Keys
      /\ MainIdle => mainThread = Idle
      /\ \A m \in Methods : running = <<p, m>> => mainThread = <<p, m>>
      /\ running' = Idle => mainThread' = Idle
      /\ \A m \in Methods : running' = <<p, m>> => mainThread' = <<p, m>>
      /\ running = Storing(p, key) => mainThread = Storing(p, key)
      /\ running' = Storing(p, key) => mainThread' = Storing(p, key)
      /\ Below!Storing(p, key) = Storing(p, key)
      /\ UNCHANGED running => UNCHANGED mainThread
      /\ HandleSubscribesCall \in Methods /\ ConstructPluginCall \in Methods
  BY HandleAssumption, MainThread, MainThreadNext DEF Methods, Storing, Below!Storing
<1>1. ASSUME OnQueuedCall(p) PROVE Below!OnQueuedCall(p)
  <2>1. eventQueue[p] \in Seq(Methods) /\ eventQueue[p] # <<>>
    BY <1>1 DEF OnQueuedCall, PostedInv
  <2>2. Head(eventQueue[p]) \in Methods
    BY <2>1
  <2>3. mainThread' = <<p, Head(eventQueue[p])>> /\ mainThread = Idle
    BY <1>0, <1>1, <2>2 DEF OnQueuedCall
  <2> QED
    BY <1>1, <2>3 DEF OnQueuedCall, Below!OnQueuedCall
<1>2. ASSUME ConstructPluginBody(p) PROVE Below!ConstructPluginBody(p)
  <2>1. (running' = Idle /\ mainThread' = Idle)
        \/ (running' = <<p, HandleSubscribesCall>> /\ mainThread' = <<p, HandleSubscribesCall>>)
    BY <1>0, <1>2 DEF ConstructPluginBody
  <2> QED
    BY <1>0, <1>2, <2>1 DEF ConstructPluginBody, Below!ConstructPluginBody
<1>3. ASSUME ConstructPlugin(p) PROVE Below!ConstructPlugin(p)
  BY <1>0, <1>2, <1>3 DEF ConstructPlugin, Below!ConstructPlugin
<1>4. ASSUME BlockUntilSubscribed(p) PROVE Below!BlockUntilSubscribed(p)
  BY <1>0, <1>2, <1>4 DEF BlockUntilSubscribed, Below!BlockUntilSubscribed
<1>5. ASSUME PluginReady(p) PROVE Below!PluginReady(p)
  <2>1. ASSUME OnPluginReady(p) PROVE Below!OnPluginReady(p)
    BY <1>0, <2>1 DEF OnPluginReady, Renewed, Below!OnPluginReady, Below!Renewed
  <2>2. ASSUME OnPluginReadyIgnored(p) PROVE Below!OnPluginReadyIgnored(p)
    BY <1>0, <2>2 DEF OnPluginReadyIgnored, Below!OnPluginReadyIgnored
  <2> QED
    BY <1>5, <2>1, <2>2 DEF PluginReady, Below!PluginReady
<1>6. ASSUME OnPluginFailed(p) PROVE Below!OnPluginFailed(p)
  BY <1>0, <1>6 DEF OnPluginFailed, Below!OnPluginFailed
<1>7. ASSUME HandleSubscribes(p) PROVE Below!HandleSubscribes(p)
  <2>1. mainThread = <<p, HandleSubscribesCall>> /\ mainThread' = Idle
    BY <1>0, <1>7 DEF HandleSubscribes
  <2>2. ASSUME HandleSubscribesReady(p) PROVE Below!HandleSubscribesReady(p)
    BY <2>2 DEF HandleSubscribesReady, Signalled, Below!HandleSubscribesReady, Below!Signalled
  <2>3. ASSUME HandleSubscribesFailed(p) PROVE Below!HandleSubscribesFailed(p)
    BY <2>3 DEF HandleSubscribesFailed, SignalledOnFailure, Below!HandleSubscribesFailed,
       Below!SignalledOnFailure
  <2>4. ASSUME HandleSubscribesInitializing(p) PROVE Below!HandleSubscribesInitializing(p)
    BY <2>4 DEF HandleSubscribesInitializing, Below!HandleSubscribesInitializing
  <2> QED
    BY <1>7, <2>1, <2>2, <2>3, <2>4 DEF HandleSubscribes, Below!HandleSubscribes
<1>8. ASSUME DoAnswer(p, key) PROVE Below!DoAnswer(p, key)
  BY <1>0, <1>8 DEF DoAnswer, Signalled, Below!DoAnswer, Below!Signalled
<1>9. ASSUME OnPluginSubscribeFinished(p, key) PROVE Below!OnPluginSubscribeFinished(p, key)
  BY <1>0, <1>8, <1>9 DEF OnPluginSubscribeFinished, Below!OnPluginSubscribeFinished
<1>10. ASSUME OnPluginSubscribeFailed(p, key) PROVE Below!OnPluginSubscribeFailed(p, key)
  BY <1>0, <1>8, <1>10 DEF OnPluginSubscribeFailed, Below!OnPluginSubscribeFailed
<1>11. ASSUME StoreValue(p, key) \/ OnPluginValueChanged(p, key)
       PROVE  Below!StoreValue(p, key) \/ Below!OnPluginValueChanged(p, key)
  BY <1>0, <1>11 DEF StoreValue, OnPluginValueChanged, ReceiveValue, Below!StoreValue,
     Below!OnPluginValueChanged, Below!ReceiveValue
<1>12. \/ OnQueuedCall(p) \/ ConstructPlugin(p) \/ BlockUntilSubscribed(p)
       \/ PluginReady(p) \/ OnPluginFailed(p) \/ HandleSubscribes(p)
       \/ OnPluginSubscribeFinished(p, key) \/ OnPluginSubscribeFailed(p, key)
       \/ StoreValue(p, key) \/ OnPluginValueChanged(p, key)
  BY DEF ProviderQueuedCall, ProviderConstructs, ProviderBlocks, ProviderReady,
     ProviderFails, Above, ProviderHandlesSubscribes, ProviderFinished, ProviderFailed,
     ProviderStores, ProviderValue, Routed
<1> QED
  BY <1>0, <1>1, <1>3, <1>4, <1>5, <1>6, <1>7, <1>9, <1>10, <1>11, <1>12 DEF Below!Next

\* A step of the handle is a step of Provider, or leaves it alone.
LEMMA BelowStep ==
  ASSUME HandleInv, OwedInv, PostedInv, [HandleNext]_vars
  PROVE  [Below!Next]_(Below!providerVars)
<1>0. /\ todo \in [Threads -> SUBSET Providers] /\ key \in Keys
      /\ CommandingEnabled => Commander \in Providers
  BY HandleAssumption DEF HandleInv, ThreadInv, ThreadTypes
<1>1. CASE UNCHANGED <<scheduleVars, queueVars, pluginVars, envVars, values, mainThread,
unfinished>>
  BY <1>1 DEF Below!providerVars, Below!scheduleVars, Below!queueVars, Below!pluginVars,
     Below!envVars, scheduleVars, queueVars, pluginVars, envVars
<1>2. CASE UNCHANGED providerVars
  BY <1>1, <1>2, MainThreadNext DEF providerVars
<1>3. ASSUME NEW c \in Properties, BeginSubscribe(c) \/ BeginUnsubscribe(c) \/ EndCall(c)
      PROVE  UNCHANGED <<scheduleVars, queueVars, pluginVars, envVars, values, mainThread,
      unfinished>>
  <2>1. UNCHANGED <<scheduleVars, queueVars, pluginVars, envVars, values, unfinished>>
    BY <1>3 DEF BeginSubscribe, BeginUnsubscribe, EndCall
  <2>2. CASE c \notin MainProperties
    <3>1. UNCHANGED running
      BY <1>3, <2>2 DEF BeginSubscribe, BeginUnsubscribe, EndCall, Enter, Leave
    <3> QED
      BY <2>1, <3>1, MainThreadNext
  <2>3. CASE c \in MainProperties /\ (BeginSubscribe(c) \/ BeginUnsubscribe(c))
    <3>1. MainIdle /\ running' = InApplication(c)
      BY <2>3 DEF BeginSubscribe, BeginUnsubscribe, Free, Enter
    <3> QED
      BY <2>1, <3>1, MainThread, MainThreadNext
  <2>4. CASE c \in MainProperties /\ EndCall(c)
    <3>1. running = InApplication(c) /\ running' = Idle
      BY <2>4 DEF EndCall, Leave, HandleInv, ThreadInv, ExclusiveInv
    <3> QED
      BY <2>1, <3>1, MainThread, MainThreadNext
  <2> QED
    BY <1>3, <2>2, <2>3, <2>4
<1>4. ASSUME NEW c \in Properties, OnPropertyValueChanged(c) PROVE UNCHANGED providerVars
  BY <1>4 DEF OnPropertyValueChanged
<1>5. ASSUME NEW t \in Threads, CallSubscribe(t) PROVE Below!Next
  <2>1. PICK p \in todo[t] : DoSubscribe(p, key)
    BY <1>5 DEF CallSubscribe
  <2>2. p \in Providers /\ pc[t] = "subscribing"
    BY <1>0, <1>5 DEF CallSubscribe
  <2>3. key \notin subscribedKeys[p]
    BY <2>2, CallsAlternate DEF InCall
  <2>4. owed[p][key] < MaxOwed
    BY <2>2 DEF OwedInv, Threads, InCall
  <2>5. Below!DoSubscribe(p, key)
    <3>1. UNCHANGED mainThread
      BY <2>1, MainThreadNext DEF DoSubscribe
    <3> QED
      BY <2>1, <3>1 DEF DoSubscribe, SubscribeReturns, Wake, QueueOnce, HandleSubscribesCall,
         Below!DoSubscribe, Below!SubscribeReturns, Below!Wake, Below!QueueOnce,
         Below!HandleSubscribesCall, queueVars, pluginVars, envVars, Below!queueVars,
         Below!pluginVars, Below!envVars
  <2>6. Below!Subscribe(p, key)
    BY <2>3, <2>4, <2>5 DEF Below!Subscribe
  <2> QED
    BY <1>0, <2>2, <2>6 DEF Below!Next
<1>6. ASSUME NEW t \in Threads, CallUnsubscribe(t) PROVE Below!Next
  <2>1. PICK p \in todo[t] : DoUnsubscribe(p, key)
    BY <1>6 DEF CallUnsubscribe
  <2>2. p \in Providers /\ pc[t] = "unsubscribing"
    BY <1>0, <1>6 DEF CallUnsubscribe
  <2>3. key \in subscribedKeys[p]
    BY <2>2, CallsAlternate DEF InCall
  <2>4. Below!DoUnsubscribe(p, key)
    <3>1. UNCHANGED mainThread
      BY <2>1, MainThreadNext DEF DoUnsubscribe
    <3> QED
      BY <2>1, <3>1 DEF DoUnsubscribe, Wake, QueueOnce, HandleSubscribesCall,
         Below!DoUnsubscribe, Below!Wake, Below!QueueOnce, Below!HandleSubscribesCall,
         queueVars, pluginVars, envVars, Below!queueVars, Below!pluginVars, Below!envVars
  <2> QED
    BY <1>0, <2>2, <2>3, <2>4 DEF Below!Next, Below!Unsubscribe
<1>7. ASSUME NEW t \in Threads, MarkPending(t) PROVE UNCHANGED providerVars
  BY <1>7 DEF MarkPending
<1>8. CASE BeginUpdate
  <2>1. /\ MainIdle /\ running' = Updating
        /\ UNCHANGED <<scheduleVars, queueVars, pluginVars, envVars, unfinished>>
        /\ values' = IF CommandingEnabled /\ commanderPresence' = Present
                     THEN [values EXCEPT ![Commander] = [k \in Keys |-> NoValue]] ELSE values
    BY <1>8 DEF BeginUpdate
  <2>2. mainThread = Idle /\ mainThread' = Idle
    BY <2>1, MainThread, MainThreadNext
  <2>3. CASE CommandingEnabled /\ commanderPresence' = Present
    <3>1. Below!ClearValues(Commander)
      BY <2>1, <2>2, <2>3 DEF Below!ClearValues, Below!MainIdle, Below!Idle, Idle,
         scheduleVars, queueVars, pluginVars, envVars, Below!scheduleVars, Below!queueVars,
         Below!pluginVars, Below!envVars
    <3> QED
      BY <1>0, <2>3, <3>1 DEF Below!Next
  <2>4. CASE ~(CommandingEnabled /\ commanderPresence' = Present)
    BY <1>1, <2>1, <2>2, <2>4
  <2> QED
    BY <2>3, <2>4
<1>9. CASE ForgetPending
  BY <1>2, <1>9 DEF ForgetPending
<1>10. CASE EndUpdate
  <2>1. pc[Updater] # "off" /\ running' = Idle
        /\ UNCHANGED <<scheduleVars, queueVars, pluginVars, envVars, values, unfinished>>
    BY <1>10 DEF EndUpdate
  <2>2. running = Updating
    BY <2>1 DEF HandleInv, ThreadInv, ExclusiveInv
  <2> QED
    BY <1>1, <2>1, <2>2, MainThread, MainThreadNext
<1>11. ASSUME NEW p \in Providers,
              \/ ProviderQueuedCall(p) \/ ProviderConstructs(p) \/ ProviderBlocks(p)
              \/ ProviderReady(p) \/ ProviderFails(p) \/ ProviderHandlesSubscribes(p)
              \/ ProviderFinished(p) \/ ProviderFailed(p) \/ ProviderStores(p) \/ ProviderValue(p)
       PROVE  Below!Next
  BY <1>11, BelowProvider
<1> QED
  BY <1>2, <1>1, <1>3, <1>4, <1>5, <1>6, <1>7, <1>8, <1>9, <1>10, <1>11
     DEF HandleNext, PropertyStep, LoopStep, vars

-----------------------------------------------------------------------------
(* What Provider schedules                                                 *)

\* The types of what a plugin is told to keep.
ScheduleTypes ==
  /\ toUnsubscribe \in [Providers -> SUBSET Keys]
  /\ pluginKeys \in [Providers -> SUBSET Keys]
  /\ pluginState \in [Providers -> PluginStates]
  /\ pluginConstructed \in [Providers -> BOOLEAN]
  /\ plugin \in [Providers -> BOOLEAN]

LEMMA ScheduleTypesNext ==
  ASSUME BaseInv, ScheduleTypes, [HandleNext]_vars
  PROVE  ScheduleTypes'
<1>0. KeyTypes /\ key \in Keys /\ todo \in [Threads -> SUBSET Providers]
  BY HandleAssumption DEF BaseInv, ThreadTypes
<1>1. ASSUME UNCHANGED <<toUnsubscribe, pluginKeys, pluginVars>>
      PROVE  ScheduleTypes'
  BY <1>1 DEF pluginVars, ScheduleTypes
<1>2. CASE UNCHANGED vars \/ (\E c \in Properties : PropertyStep(c))
           \/ BeginUpdate \/ ForgetPending \/ EndUpdate \/ \E t \in Threads : MarkPending(t)
  BY <1>1, <1>2 DEF vars, PropertyStep, BeginSubscribe, BeginUnsubscribe, EndCall,
     OnPropertyValueChanged, BeginUpdate, ForgetPending, EndUpdate, MarkPending, providerVars,
     scheduleVars, envVars
<1>3. ASSUME NEW t \in Threads, CallSubscribe(t) \/ CallUnsubscribe(t) PROVE ScheduleTypes'
  <2>1. PICK p \in Providers : DoSubscribe(p, key) \/ DoUnsubscribe(p, key)
    BY <1>0, <1>3 DEF CallSubscribe, CallUnsubscribe
  <2>2. /\ toUnsubscribe' \in {toUnsubscribe, [toUnsubscribe EXCEPT ![p] = @ \ {key}],
                               [toUnsubscribe EXCEPT ![p] = @ \cup {key}]}
        /\ UNCHANGED <<pluginKeys, pluginVars>>
    BY <2>1 DEF DoSubscribe, DoUnsubscribe, envVars
  <2> QED
    BY <1>0, <2>2 DEF ScheduleTypes, pluginVars
<1>4. ASSUME NEW p \in Providers, HandleSubscribes(p) PROVE ScheduleTypes'
  <2>1. /\ UNCHANGED pluginVars
        /\ toUnsubscribe' \in {toUnsubscribe, [toUnsubscribe EXCEPT ![p] = {}]}
        /\ pluginKeys' \in {pluginKeys,
                            [pluginKeys EXCEPT ![p] = (@ \cup toSubscribe[p]) \ toUnsubscribe[p]]}
    BY <1>4 DEF HandleSubscribes, HandleSubscribesReady, HandleSubscribesFailed,
       HandleSubscribesInitializing, envVars
  <2>2. toUnsubscribe' \in [Providers -> SUBSET Keys]
    BY <2>1 DEF ScheduleTypes
  <2>3. (pluginKeys[p] \cup toSubscribe[p]) \ toUnsubscribe[p] \in SUBSET Keys
    BY <1>0 DEF ScheduleTypes, KeyTypes
  <2>4. pluginKeys' \in [Providers -> SUBSET Keys]
    BY <2>1, <2>3 DEF ScheduleTypes
  <2> QED
    BY <2>1, <2>2, <2>4 DEF ScheduleTypes, pluginVars
<1>5. ASSUME NEW p \in Providers,
             ConstructPlugin(p) \/ BlockUntilSubscribed(p) \/ PluginReady(p) \/ OnPluginFailed(p)
      PROVE  ScheduleTypes'
  BY <1>5 DEF ConstructPlugin, BlockUntilSubscribed, ConstructPluginBody, PluginReady,
     OnPluginReady, OnPluginReadyIgnored, OnPluginFailed, scheduleVars, pluginVars, envVars,
     ScheduleTypes, PluginStates
<1>6. ASSUME NEW p \in Providers,
             OnQueuedCall(p) \/ DoAnswer(p, key) \/ StoreValue(p, key) \/ OnPluginValueChanged(p, key)
      PROVE  ScheduleTypes'
  BY <1>1, <1>6 DEF OnQueuedCall, DoAnswer, StoreValue, OnPluginValueChanged, scheduleVars, envVars
<1> QED
  BY <1>2, <1>3, <1>4, <1>5, <1>6 DEF HandleNext, LoopStep, ProviderQueuedCall,
     ProviderConstructs, ProviderBlocks, ProviderReady, ProviderFails, Above,
     ProviderHandlesSubscribes, ProviderFinished, ProviderFailed, ProviderStores, ProviderValue,
     Routed,
     OnPluginSubscribeFinished, OnPluginSubscribeFailed

-----------------------------------------------------------------------------
(* Nobody waits for nothing                                                *)

\* Only the handle's key is ever waited for, and then it is scheduled or owed, or
\* the plugin failed and forgot it, so that it is renewed when the plugin is back.
Forgotten(p) == ~FailureAnswersPending /\ pluginState[p] = FAILED
WaitsInv ==
  \A p \in Providers :
    /\ unfinished[p] \subseteq {key}
    /\ key \in unfinished[p] => key \in toSubscribe[p] \/ owed[p][key] > 0 \/ Forgotten(p)

LEMMA WaitsNext ==
  ASSUME BaseInv, ScheduleTypes, KeyInv, WaitsInv, [HandleNext]_vars
  PROVE  WaitsInv'
<1>0. KeyTypes /\ key \in Keys
  BY HandleAssumption DEF BaseInv
<1>1. ASSUME UNCHANGED <<toSubscribe, owed, unfinished, pluginState>> PROVE WaitsInv'
  BY <1>1 DEF WaitsInv, Forgotten
<1>2. CASE UNCHANGED vars \/ (\E c \in Properties : PropertyStep(c))
           \/ BeginUpdate \/ ForgetPending \/ EndUpdate
  BY <1>1, <1>2 DEF vars, PropertyStep, BeginSubscribe, BeginUnsubscribe, EndCall,
     OnPropertyValueChanged, BeginUpdate, ForgetPending, EndUpdate, providerVars, scheduleVars,
     envVars, pluginVars
<1>3. ASSUME NEW t \in Threads, LoopStep(t) PROVE WaitsInv'
  <2>1. todo[t] \subseteq Providers
    BY DEF BaseInv, ThreadTypes
  <2>2. CASE MarkPending(t)
    BY <1>1, <2>2 DEF MarkPending, providerVars, scheduleVars, envVars, pluginVars
  <2>3. ASSUME NEW p \in Providers, DoSubscribe(p, key) PROVE WaitsInv'
    <3>1. \/ UNCHANGED <<toSubscribe, unfinished>>
          \/ /\ toSubscribe' = [toSubscribe EXCEPT ![p] = @ \cup {key}]
             /\ unfinished' = [unfinished EXCEPT ![p] = @ \cup {key}]
      BY <2>3 DEF DoSubscribe
    <3>2. UNCHANGED <<owed, pluginState>>
      BY <2>3 DEF DoSubscribe, envVars, pluginVars
    <3> QED
      BY <1>0, <3>1, <3>2 DEF WaitsInv, Forgotten, KeyTypes
  <2>4. ASSUME NEW p \in Providers, DoUnsubscribe(p, key) PROVE WaitsInv'
    <3>1. /\ toSubscribe' = toSubscribe \/ toSubscribe' = [toSubscribe EXCEPT ![p] = @ \ {key}]
          /\ unfinished' = [unfinished EXCEPT ![p] = @ \ {key}]
          /\ UNCHANGED <<owed, pluginState>>
      BY <2>4 DEF DoUnsubscribe, envVars, pluginVars
    <3> QED
      BY <1>0, <3>1 DEF WaitsInv, Forgotten, KeyTypes
  <2> QED
    BY <1>3, <2>1, <2>2, <2>3, <2>4 DEF LoopStep, CallSubscribe, CallUnsubscribe
<1>4. ASSUME NEW p \in Providers, HandleSubscribes(p) PROVE WaitsInv'
  <2>0. UNCHANGED pluginState
    BY <1>4 DEF HandleSubscribes, pluginVars
  <2>1. CASE HandleSubscribesReady(p)
    <3>1. PICK atOnce \in SUBSET toSubscribe[p] :
            /\ unfinished' = [unfinished EXCEPT ![p] = @ \ Signalled(p, atOnce)]
            /\ owed' = [owed EXCEPT ![p] =
                          [k \in Keys |-> IF k \in toSubscribe[p] \ atOnce
                                          THEN owed[p][k] + 1 ELSE owed[p][k]]]
      BY <2>1 DEF HandleSubscribesReady
    <3>2. toSubscribe' = [toSubscribe EXCEPT ![p] = {}]
      BY <2>1 DEF HandleSubscribesReady
    <3>3. \A q \in Providers \ {p} : /\ unfinished'[q] = unfinished[q] /\ owed'[q] = owed[q]
                                     /\ toSubscribe'[q] = toSubscribe[q]
      BY <1>0, <3>1, <3>2 DEF KeyTypes
    <3>4. unfinished'[p] \subseteq unfinished[p]
      BY <1>0, <3>1 DEF KeyTypes
    <3>5. ASSUME key \in unfinished'[p] PROVE owed'[p][key] > 0
      <4>1. key \in unfinished[p] /\ key \notin Signalled(p, atOnce)
        BY <1>0, <3>1, <3>5 DEF KeyTypes
      <4>2. key \notin atOnce
        BY <4>1 DEF KeyInv, Signalled
      <4>3. owed'[p][key] = IF key \in toSubscribe[p] \ atOnce THEN owed[p][key] + 1 ELSE owed[p][key]
        BY <1>0, <3>1 DEF KeyTypes
      <4>4. owed[p][key] \in Nat
        BY <1>0 DEF KeyTypes
      <4> QED
        BY <2>1, <4>1, <4>2, <4>3, <4>4
           DEF WaitsInv, Forgotten, HandleSubscribesReady, READY, FAILED
    <3> QED
      BY <2>0, <3>3, <3>4, <3>5 DEF WaitsInv, Forgotten
  <2>2. CASE HandleSubscribesFailed(p)
    <3>1. /\ unfinished' = [unfinished EXCEPT ![p] = @ \ toSubscribe[p]]
          /\ toSubscribe' = [toSubscribe EXCEPT ![p] = {}]
          /\ owed' = owed
      BY <2>2 DEF HandleSubscribesFailed, SignalledOnFailure, envVars
    <3> QED
      BY <1>0, <2>0, <3>1 DEF KeyTypes, WaitsInv, Forgotten
  <2>3. CASE HandleSubscribesInitializing(p)
    BY <1>1, <2>0, <2>3 DEF HandleSubscribesInitializing, envVars
  <2> QED
    BY <1>4, <2>1, <2>2, <2>3 DEF HandleSubscribes
<1>5. ASSUME NEW p \in Providers, DoAnswer(p, key) PROVE WaitsInv'
  <2>1. /\ owed' = [owed EXCEPT ![p][key] = @ - 1]
        /\ unfinished' = [unfinished EXCEPT ![p] = @ \ Signalled(p, {key})]
        /\ UNCHANGED <<toSubscribe, pluginState>>
    BY <1>5 DEF DoAnswer, scheduleVars, pluginVars
  <2>2. key \notin unfinished'[p]
    BY <1>0, <2>1 DEF KeyTypes, KeyInv, Signalled
  <2> QED
    BY <1>0, <2>1, <2>2 DEF KeyTypes, WaitsInv, Forgotten
<1>6. ASSUME NEW p \in Providers, OnPluginReady(p) PROVE WaitsInv'
  <2>1. /\ toSubscribe' = [toSubscribe EXCEPT ![p] = subscribedKeys[p]]
        /\ pluginState' = [pluginState EXCEPT ![p] = READY]
        /\ UNCHANGED <<owed, unfinished>>
    BY <1>6 DEF OnPluginReady, Renewed
  <2>2. key \in unfinished[p] => key \in toSubscribe'[p]
    BY <1>0, <2>1 DEF KeyTypes, KeyInv
  <2> QED
    BY <1>0, <2>1, <2>2 DEF KeyTypes, ScheduleTypes, WaitsInv, Forgotten
<1>7. ASSUME NEW p \in Providers, OnPluginFailed(p) PROVE WaitsInv'
  <2>1. /\ pluginState' = [pluginState EXCEPT ![p] = FAILED]
        /\ UNCHANGED <<toSubscribe, unfinished>>
        /\ owed' = IF FailureAnswersPending THEN owed
                   ELSE [owed EXCEPT ![p] = [k \in Keys |-> 0]]
    BY <1>7 DEF OnPluginFailed, scheduleVars
  <2>2. FailureAnswersPending => UNCHANGED owed
    BY <2>1
  <2>3. ~FailureAnswersPending => Forgotten(p)'
    BY <2>1 DEF Forgotten, ScheduleTypes
  <2>4. \A q \in Providers \ {p} : owed'[q] = owed[q] /\ pluginState'[q] = pluginState[q]
    BY <1>0, <2>1 DEF KeyTypes, ScheduleTypes
  <2> QED
    BY <2>1, <2>2, <2>3, <2>4 DEF WaitsInv, Forgotten
<1>8. ASSUME NEW p \in Providers, ConstructPlugin(p) \/ BlockUntilSubscribed(p) PROVE WaitsInv'
  <2>1. /\ UNCHANGED <<toSubscribe, owed, unfinished>>
        /\ pluginState' = pluginState \/ pluginState' = [pluginState EXCEPT ![p] = FAILED]
    BY <1>8 DEF ConstructPlugin, BlockUntilSubscribed, ConstructPluginBody, scheduleVars, envVars
  <2> QED
    BY <2>1 DEF WaitsInv, Forgotten, ScheduleTypes
<1>9. ASSUME NEW p \in Providers,
             \/ OnQueuedCall(p) \/ OnPluginReadyIgnored(p)
             \/ StoreValue(p, key) \/ OnPluginValueChanged(p, key)
      PROVE  WaitsInv'
  BY <1>1, <1>9 DEF OnQueuedCall, OnPluginReadyIgnored, StoreValue, OnPluginValueChanged,
     scheduleVars, envVars, pluginVars
<1> QED
  BY <1>2, <1>3, <1>4, <1>5, <1>6, <1>7, <1>8, <1>9 DEF HandleNext, PluginReady,
     ProviderQueuedCall, ProviderConstructs, ProviderBlocks, ProviderReady, ProviderFails, Above,
     ProviderHandlesSubscribes,
     ProviderFinished, ProviderFailed, ProviderStores, ProviderValue, Routed,
     OnPluginSubscribeFinished,
     OnPluginSubscribeFailed

LEMMA WaitsOwed == FailureAnswersPending /\ WaitsInv => UnfinishedIsOwed
BY DEF WaitsInv, Forgotten, UnfinishedIsOwed

-----------------------------------------------------------------------------
(* The intention reaches the plugins                                       *)

\* What the plugin keeps if the schedule is the difference to the intention.
KeptByNow(p) ==
  IF pluginState[p] = READY
  THEN (subscribedKeys[p] \ toSubscribe[p]) \cup toUnsubscribe[p]
  ELSE {}

\* The schedule agrees with the intention and is exactly the difference between
\* the intention and what the plugin keeps; with a plugin that may forget
\* everything while it is ready, at least nothing is kept beyond it.  Only a
\* constructed plugin is ready.
DifferenceInv ==
  \A p \in Providers :
    /\ toSubscribe[p] \subseteq subscribedKeys[p]
    /\ toUnsubscribe[p] \cap subscribedKeys[p] = {}
    /\ pluginKeys[p] \subseteq KeptByNow(p)
    /\ ~ReadyWhenReady => pluginKeys[p] = KeptByNow(p)
    /\ ~pluginConstructed[p] => pluginState[p] = INITIALIZING /\ ~plugin[p]

LEMMA DifferenceInit == HandleInit => ScheduleTypes /\ DifferenceInv
BY DEF HandleInit, Init, ScheduleTypes, DifferenceInv, KeptByNow, PluginStates, INITIALIZING, READY

\* Calls of Provider::subscribe and unsubscribe by a thread of the handle.
LEMMA DifferenceCalls ==
  ASSUME KeyTypes, ScheduleTypes, DifferenceInv, NEW p \in Providers,
         \/ DoSubscribe(p, key) /\ key \notin subscribedKeys[p]
         \/ DoUnsubscribe(p, key) /\ key \in subscribedKeys[p]
  PROVE  (ScheduleTypes /\ DifferenceInv)'
<1> USE DEF KeptByNow
<1>0. key \in Keys
  BY HandleAssumption
<1>1. UNCHANGED <<pluginKeys, pluginState, pluginConstructed, plugin>>
  BY DEF DoSubscribe, DoUnsubscribe, pluginVars, envVars
<1>2. CASE DoSubscribe(p, key) /\ key \notin subscribedKeys[p]
  <2>1. subscribedKeys' = [subscribedKeys EXCEPT ![p] = @ \cup {key}]
    BY <1>2 DEF DoSubscribe
  <2>2. CASE key \notin toUnsubscribe[p]
    <3>1. toSubscribe' = [toSubscribe EXCEPT ![p] = @ \cup {key}] /\ UNCHANGED toUnsubscribe
      BY <1>2, <2>2 DEF DoSubscribe, SubscribeReturns
    <3>2. ScheduleTypes'
      BY <1>1, <3>1 DEF ScheduleTypes
    <3>3. /\ subscribedKeys'[p] = subscribedKeys[p] \cup {key}
          /\ toSubscribe'[p] = toSubscribe[p] \cup {key}
          /\ \A q \in Providers \ {p} : /\ subscribedKeys'[q] = subscribedKeys[q]
                                        /\ toSubscribe'[q] = toSubscribe[q]
      BY <2>1, <3>1 DEF KeyTypes
    <3>4. subscribedKeys'[p] \ toSubscribe'[p] = subscribedKeys[p] \ toSubscribe[p]
      BY <1>2, <3>3
    <3>5. toSubscribe'[p] \subseteq subscribedKeys'[p] /\ toUnsubscribe'[p] \cap subscribedKeys'[p] = {}
      BY <2>2, <3>1, <3>3 DEF DifferenceInv
    <3> QED
      BY <1>1, <3>1, <3>2, <3>3, <3>4, <3>5 DEF DifferenceInv
  <2>3. CASE key \in toUnsubscribe[p]
    <3>1. toUnsubscribe' = [toUnsubscribe EXCEPT ![p] = @ \ {key}] /\ UNCHANGED toSubscribe
      BY <1>2, <2>3 DEF DoSubscribe, SubscribeReturns
    <3>2. key \notin toSubscribe[p]
      BY <1>2 DEF DifferenceInv
    <3> QED
      BY <1>0, <1>1, <2>1, <2>3, <3>1, <3>2 DEF KeyTypes, ScheduleTypes, DifferenceInv
  <2> QED
    BY <2>2, <2>3
<1>3. CASE DoUnsubscribe(p, key) /\ key \in subscribedKeys[p]
  <2>1. subscribedKeys' = [subscribedKeys EXCEPT ![p] = @ \ {key}]
    BY <1>3 DEF DoUnsubscribe
  <2>2. CASE key \in toSubscribe[p]
    <3>1. toSubscribe' = [toSubscribe EXCEPT ![p] = @ \ {key}] /\ UNCHANGED toUnsubscribe
      BY <1>3, <2>2 DEF DoUnsubscribe
    <3> QED
      BY <1>0, <1>1, <2>1, <2>2, <3>1 DEF KeyTypes, ScheduleTypes, DifferenceInv
  <2>3. CASE key \notin toSubscribe[p]
    <3>1. toUnsubscribe' = [toUnsubscribe EXCEPT ![p] = @ \cup {key}] /\ UNCHANGED toSubscribe
      BY <1>3, <2>3 DEF DoUnsubscribe
    <3> QED
      BY <1>0, <1>1, <1>3, <2>1, <2>3, <3>1 DEF KeyTypes, ScheduleTypes, DifferenceInv
  <2> QED
    BY <2>2, <2>3
<1> QED
  BY <1>2, <1>3

LEMMA DifferenceNext ==
  ASSUME HandleInv, ScheduleTypes, DifferenceInv, [HandleNext]_vars
  PROVE  (ScheduleTypes /\ DifferenceInv)'
<1> USE DEF KeptByNow
<1> DEFINE Kept == (ScheduleTypes /\ DifferenceInv)'
<1>0. KeyTypes
  BY DEF HandleInv, ThreadInv
<1>1. ASSUME UNCHANGED <<scheduleVars, pluginKeys, pluginVars>>
      PROVE  Kept
  BY <1>1 DEF scheduleVars, pluginVars, ScheduleTypes, DifferenceInv
<1>2. CASE UNCHANGED vars \/ (\E c \in Properties : PropertyStep(c))
           \/ BeginUpdate \/ ForgetPending \/ EndUpdate
  BY <1>1, <1>2 DEF vars, PropertyStep, BeginSubscribe, BeginUnsubscribe, EndCall,
     OnPropertyValueChanged, BeginUpdate, ForgetPending, EndUpdate, providerVars, envVars
<1>3. ASSUME NEW t \in Threads, LoopStep(t) PROVE Kept
  <2>1. todo[t] \subseteq Providers
    BY DEF HandleInv, ThreadInv, ThreadTypes
  <2>2. CASE MarkPending(t)
    BY <1>1, <2>2 DEF MarkPending, providerVars, envVars
  <2>3. CASE CallSubscribe(t)
    <3>1. PICK p \in todo[t] : DoSubscribe(p, key) /\ pc[t] = "subscribing"
      BY <2>3 DEF CallSubscribe
    <3>2. key \notin subscribedKeys[p]
      BY <3>1, CallsAlternate DEF InCall
    <3> QED
      BY <1>0, <2>1, <3>1, <3>2, DifferenceCalls
  <2>4. CASE CallUnsubscribe(t)
    <3>1. PICK p \in todo[t] : DoUnsubscribe(p, key) /\ pc[t] = "unsubscribing"
      BY <2>4 DEF CallUnsubscribe
    <3>2. key \in subscribedKeys[p]
      BY <3>1, CallsAlternate DEF InCall
    <3> QED
      BY <1>0, <2>1, <3>1, <3>2, DifferenceCalls
  <2> QED
    BY <1>3, <2>2, <2>3, <2>4 DEF LoopStep
<1>4. ASSUME NEW p \in Providers, HandleSubscribes(p) PROVE Kept
  <2>1. UNCHANGED <<pluginState, pluginConstructed, plugin, subscribedKeys>>
    BY <1>4 DEF HandleSubscribes, pluginVars
  <2>2. CASE HandleSubscribesReady(p)
    <3>1. /\ pluginKeys' = [pluginKeys EXCEPT ![p] = (@ \cup toSubscribe[p]) \ toUnsubscribe[p]]
          /\ toSubscribe' = [toSubscribe EXCEPT ![p] = {}]
          /\ toUnsubscribe' = [toUnsubscribe EXCEPT ![p] = {}]
          /\ pluginState[p] = READY
      BY <2>2 DEF HandleSubscribesReady
    <3>2. /\ (pluginKeys[p] \cup toSubscribe[p]) \ toUnsubscribe[p] \subseteq subscribedKeys[p]
          /\ ~ReadyWhenReady =>
               (pluginKeys[p] \cup toSubscribe[p]) \ toUnsubscribe[p] = subscribedKeys[p]
      BY <3>1 DEF DifferenceInv
    <3> QED
      BY <1>0, <2>1, <3>1, <3>2 DEF KeyTypes, ScheduleTypes, DifferenceInv
  <2>3. CASE HandleSubscribesFailed(p)
    <3>1. /\ toSubscribe' = [toSubscribe EXCEPT ![p] = {}]
          /\ toUnsubscribe' = [toUnsubscribe EXCEPT ![p] = {}]
          /\ pluginKeys' = pluginKeys
          /\ pluginState[p] # READY
      BY <2>3 DEF HandleSubscribesFailed, envVars, FAILED, READY
    <3> QED
      BY <1>0, <2>1, <3>1 DEF KeyTypes, ScheduleTypes, DifferenceInv
  <2>4. CASE HandleSubscribesInitializing(p)
    BY <1>1, <2>1, <2>4 DEF HandleSubscribesInitializing, envVars, scheduleVars, pluginVars
  <2> QED
    BY <1>4, <2>2, <2>3, <2>4 DEF HandleSubscribes
<1>5. ASSUME NEW p \in Providers, ConstructPlugin(p) \/ BlockUntilSubscribed(p) PROVE Kept
  <2>1. UNCHANGED <<toSubscribe, toUnsubscribe, subscribedKeys, pluginKeys>>
    BY <1>5 DEF ConstructPlugin, BlockUntilSubscribed, ConstructPluginBody, scheduleVars, envVars
  <2>2. /\ pluginConstructed' = [pluginConstructed EXCEPT ![p] = TRUE]
        /\ \/ UNCHANGED <<plugin, pluginState>>
           \/ UNCHANGED pluginState /\ plugin' = [plugin EXCEPT ![p] = TRUE]
           \/ /\ ~pluginConstructed[p] /\ UNCHANGED plugin
              /\ pluginState' = [pluginState EXCEPT ![p] = FAILED]
    BY <1>5 DEF ConstructPlugin, BlockUntilSubscribed, ConstructPluginBody
  <2>4. ScheduleTypes'
    BY <2>1, <2>2 DEF ScheduleTypes, PluginStates
  <2>5. /\ pluginConstructed'[p]
        /\ \/ pluginState'[p] = pluginState[p]
           \/ ~pluginConstructed[p] /\ pluginState'[p] = FAILED
        /\ \A q \in Providers \ {p} : /\ pluginConstructed'[q] = pluginConstructed[q]
                                      /\ pluginState'[q] = pluginState[q]
                                      /\ plugin'[q] = plugin[q]
    BY <2>2 DEF ScheduleTypes
  <2>3. ~pluginConstructed[p] => pluginKeys[p] = {}
    BY DEF DifferenceInv, INITIALIZING, READY
  <2> QED
    BY <2>1, <2>3, <2>4, <2>5 DEF DifferenceInv, INITIALIZING, FAILED, READY
<1>6. ASSUME NEW p \in Providers, OnPluginReady(p) PROVE Kept
  <2>1. /\ toUnsubscribe' = [toUnsubscribe EXCEPT ![p] = {}]
        /\ toSubscribe' = [toSubscribe EXCEPT ![p] = subscribedKeys[p]]
        /\ pluginState' = [pluginState EXCEPT ![p] = READY]
        /\ pluginKeys' = [pluginKeys EXCEPT ![p] = {}]
        /\ UNCHANGED <<subscribedKeys, pluginConstructed, plugin>> /\ plugin[p]
    BY <1>6 DEF OnPluginReady, Renewed
  <2> QED
    BY <1>0, <2>1 DEF KeyTypes, ScheduleTypes, DifferenceInv, PluginStates
<1>7. ASSUME NEW p \in Providers, OnPluginFailed(p) PROVE Kept
  <2>1. /\ pluginState' = [pluginState EXCEPT ![p] = FAILED]
        /\ pluginKeys' = [pluginKeys EXCEPT ![p] = {}]
        /\ UNCHANGED <<toSubscribe, toUnsubscribe, subscribedKeys, pluginConstructed, plugin>>
        /\ plugin[p]
    BY <1>7 DEF OnPluginFailed, scheduleVars
  <2> QED
    BY <1>0, <2>1 DEF KeyTypes, ScheduleTypes, DifferenceInv, PluginStates, FAILED, READY
<1>8. ASSUME NEW p \in Providers,
             OnQueuedCall(p) \/ DoAnswer(p, key) \/ StoreValue(p, key) \/ OnPluginValueChanged(p, key)
      PROVE  Kept
  BY <1>1, <1>8 DEF OnQueuedCall, DoAnswer, StoreValue, OnPluginValueChanged, envVars
<1>9. ASSUME NEW p \in Providers, OnPluginReadyIgnored(p) PROVE Kept
  <2>1. /\ ReadyWhenReady
        /\ pluginKeys' = [pluginKeys EXCEPT ![p] = {}]
        /\ UNCHANGED <<toSubscribe, toUnsubscribe, subscribedKeys, pluginVars>>
    BY <1>9 DEF OnPluginReadyIgnored, scheduleVars
  <2> QED
    BY <1>0, <2>1 DEF pluginVars, KeyTypes, ScheduleTypes, DifferenceInv
<1> QED
  BY <1>2, <1>3, <1>4, <1>5, <1>6, <1>7, <1>8, <1>9 DEF HandleNext, PluginReady, ProviderQueuedCall,
     ProviderConstructs, ProviderBlocks, ProviderReady, ProviderFails, Above,
     ProviderHandlesSubscribes, ProviderFinished, ProviderFailed, ProviderStores, ProviderValue,
     Routed,
     OnPluginSubscribeFinished, OnPluginSubscribeFailed

-----------------------------------------------------------------------------
(* No lost wakeup                                                          *)

\* What queueOnce takes for posted is posted.
CallsPosted == \A p \in Providers : callQueue[p] \subseteq Posted(p)

CallTypes == callQueue \in [Providers -> SUBSET Methods]

\* NoLostWakeup, over the call queue.
WakeupInv ==
  \A p \in Providers :
    pluginState[p] # INITIALIZING /\ Scheduled(p) # {}
      => HandleSubscribesCall \in callQueue[p] \/ running = <<p, HandleSubscribesCall>>

\* A call appended to the queue is posted, and what was posted remains so.
LEMMA AppendPosted ==
  ASSUME NEW s \in Seq(Methods), NEW m \in Methods
  PROVE  /\ \A i \in DOMAIN s : i \in DOMAIN Append(s, m) /\ Append(s, m)[i] = s[i]
         /\ Len(s) + 1 \in DOMAIN Append(s, m) /\ Append(s, m)[Len(s) + 1] = m
OBVIOUS

\* What is posted behind the first call is posted when that has been taken.
LEMMA TailPosted ==
  ASSUME NEW s \in Seq(Methods), s # <<>>, NEW i \in DOMAIN s, s[i] # Head(s)
  PROVE  i - 1 \in DOMAIN Tail(s) /\ Tail(s)[i - 1] = s[i]
OBVIOUS

\* queueOnce leaves the call posted, and every other one.
LEMMA QueueOnceKeeps ==
  ASSUME PostedInv, CallTypes, CallsPosted, NEW p \in Providers, NEW m \in Methods,
         QueueOnce(p, m)
  PROVE  /\ (CallTypes /\ CallsPosted)'
         /\ m \in callQueue'[p]
         /\ \A q \in Providers : callQueue[q] \subseteq callQueue'[q]
<1>1. CASE m \in callQueue[p]
  BY <1>1 DEF QueueOnce, queueVars, CallTypes, CallsPosted, Posted
<1>2. CASE m \notin callQueue[p]
  <2>1. /\ callQueue'  = [callQueue EXCEPT ![p] = @ \cup {m}]
        /\ eventQueue' = [eventQueue EXCEPT ![p] = Append(@, m)]
    BY <1>2 DEF QueueOnce
  <2>2. /\ callQueue'[p] = callQueue[p] \cup {m}
        /\ \A q \in Providers \ {p} : callQueue'[q] = callQueue[q]
    BY <2>1 DEF CallTypes
  <2>3. /\ eventQueue'[p] = Append(eventQueue[p], m) /\ eventQueue[p] \in Seq(Methods)
        /\ \A q \in Providers \ {p} : eventQueue'[q] = eventQueue[q]
    BY <2>1 DEF PostedInv
  <2>4. Posted(p)' = Posted(p) \cup {m}
    <3>1. Posted(p) \cup {m} \subseteq Posted(p)'
      BY <2>3, AppendPosted DEF Posted
    <3>2. ASSUME NEW i \in DOMAIN Append(eventQueue[p], m)
          PROVE  Append(eventQueue[p], m)[i] \in Posted(p) \cup {m}
      <4>1. i \in 1..(Len(eventQueue[p]) + 1)
        BY <2>3
      <4>2. CASE i = Len(eventQueue[p]) + 1
        BY <2>3, <4>2
      <4>3. CASE i # Len(eventQueue[p]) + 1
        <5>1. i \in DOMAIN eventQueue[p]
          BY <2>3, <4>1, <4>3
        <5> QED
          BY <2>3, <5>1, AppendPosted DEF Posted
      <4> QED
        BY <4>2, <4>3
    <3> QED
      BY <2>3, <3>1, <3>2 DEF Posted
  <2>5. CallsPosted'
    BY <2>2, <2>3, <2>4 DEF CallsPosted, Posted
  <2>6. CallTypes'
    BY <2>1 DEF CallTypes
  <2> QED
    BY <2>2, <2>5, <2>6
<1> QED
  BY <1>1, <1>2

\* onQueuedCall takes the oldest call out of both views.
LEMMA OnQueuedCallKeeps ==
  ASSUME PostedInv, CallTypes, CallsPosted, NEW p \in Providers, OnQueuedCall(p)
  PROVE  /\ (CallTypes /\ CallsPosted)'
         /\ callQueue'[p] = callQueue[p] \ {Head(eventQueue[p])}
         /\ \A q \in Providers \ {p} : callQueue'[q] = callQueue[q]
<1>1. /\ eventQueue' = [eventQueue EXCEPT ![p] = Tail(@)]
      /\ callQueue'  = [callQueue EXCEPT ![p] = @ \ {Head(eventQueue[p])}]
      /\ eventQueue[p] # <<>>
  BY DEF OnQueuedCall
<1>2. /\ callQueue'[p] = callQueue[p] \ {Head(eventQueue[p])}
      /\ \A q \in Providers \ {p} : callQueue'[q] = callQueue[q]
  BY <1>1 DEF CallTypes
<1>3. /\ eventQueue'[p] = Tail(eventQueue[p]) /\ eventQueue[p] \in Seq(Methods)
      /\ \A q \in Providers \ {p} : eventQueue'[q] = eventQueue[q]
  BY <1>1 DEF PostedInv
<1>4. ASSUME NEW m \in callQueue'[p] PROVE m \in Posted(p)'
  <2>1. m \in Posted(p) /\ m # Head(eventQueue[p])
    BY <1>2, <1>4 DEF CallsPosted
  <2>2. PICK i \in DOMAIN eventQueue[p] : eventQueue[p][i] = m
    BY <2>1 DEF Posted
  <2>3. i - 1 \in DOMAIN Tail(eventQueue[p]) /\ Tail(eventQueue[p])[i - 1] = m
    BY <1>1, <1>3, <2>1, <2>2, TailPosted
  <2> QED
    BY <1>3, <2>3 DEF Posted
<1>5. CallsPosted'
  <2>1. ASSUME NEW q \in Providers \ {p} PROVE callQueue'[q] \subseteq Posted(q)'
    BY <1>2, <1>3 DEF CallsPosted, Posted
  <2>2. \A q \in Providers : callQueue'[q] \subseteq Posted(q)'
    BY <1>4, <2>1
  <2> QED
    BY <2>2 DEF CallsPosted
<1>6. CallTypes'
  BY <1>1 DEF CallTypes
<1> QED
  BY <1>2, <1>5, <1>6

\* Whoever schedules the key has the main thread woken, and a call that leaves
\* the queue runs.
LEMMA WakeupNext ==
  ASSUME BaseInv, PostedInv, CallTypes, CallsPosted, ScheduleTypes, WakeupInv,
         [HandleNext]_vars
  PROVE  (CallTypes /\ CallsPosted /\ WakeupInv)'
<1> DEFINE Kept == (CallTypes /\ CallsPosted /\ WakeupInv)'
<1> USE DEF Scheduled
<1>0. /\ KeyTypes /\ HandleSubscribesCall \in Methods /\ ConstructPluginCall \in Methods
      /\ HandleSubscribesCall # ConstructPluginCall
  BY DEF BaseInv, Methods, HandleSubscribesCall, ConstructPluginCall
<1>1. ASSUME UNCHANGED <<scheduleVars, queueVars, pluginVars>>,
             \A p \in Providers : running # <<p, HandleSubscribesCall>> \/ UNCHANGED running
      PROVE  Kept
  BY <1>1 DEF scheduleVars, queueVars, pluginVars, CallTypes, CallsPosted, Posted, WakeupInv
<1>2. CASE UNCHANGED vars \/ (\E c \in Properties : OnPropertyValueChanged(c)) \/ ForgetPending
           \/ \E t \in Threads : MarkPending(t)
  BY <1>1, <1>2 DEF vars, OnPropertyValueChanged, ForgetPending, MarkPending, providerVars
<1>3. ASSUME NEW c \in Properties, BeginSubscribe(c) \/ BeginUnsubscribe(c) \/ EndCall(c)
      PROVE  Kept
  <2>1. UNCHANGED <<scheduleVars, queueVars, pluginVars>>
    BY <1>3 DEF BeginSubscribe, BeginUnsubscribe, EndCall
  <2>2. UNCHANGED running \/ MainIdle \/ running = InApplication(c)
    BY <1>3 DEF BeginSubscribe, BeginUnsubscribe, EndCall, Enter, Leave, Free, BaseInv,
       LockInv
  <2> QED
    BY <1>0, <1>1, <2>1, <2>2, RunningDiffers DEF MainIdle
<1>4. CASE BeginUpdate \/ EndUpdate
  <2>1. UNCHANGED <<scheduleVars, queueVars, pluginVars>>
    BY <1>4 DEF BeginUpdate, EndUpdate
  <2>2. MainIdle \/ running = Updating
    BY <1>4 DEF BeginUpdate, EndUpdate, BaseInv, LockInv
  <2> QED
    BY <1>0, <1>1, <2>1, <2>2, RunningDiffers DEF MainIdle
<1>5. ASSUME NEW t \in Threads, CallSubscribe(t) \/ CallUnsubscribe(t) PROVE Kept
  <2>1. PICK p \in Providers : DoSubscribe(p, key) \/ DoUnsubscribe(p, key)
    BY <1>5 DEF CallSubscribe, CallUnsubscribe, BaseInv, ThreadTypes
  <2>2. UNCHANGED <<pluginState, running>>
    BY <2>1 DEF DoSubscribe, DoUnsubscribe, pluginVars
  <2>3. \A q \in Providers \ {p} : /\ toSubscribe'[q] = toSubscribe[q]
                                   /\ toUnsubscribe'[q] = toUnsubscribe[q]
    BY <1>0, <2>1 DEF DoSubscribe, DoUnsubscribe, KeyTypes, ScheduleTypes
  <2>4. CASE QueueOnce(p, HandleSubscribesCall)
    <3>1. /\ (CallTypes /\ CallsPosted)' /\ HandleSubscribesCall \in callQueue'[p]
          /\ \A q \in Providers : callQueue[q] \subseteq callQueue'[q]
      BY <1>0, <2>4, QueueOnceKeeps
    <3> QED
      BY <2>2, <2>3, <3>1 DEF WakeupInv
  <2>5. CASE ~QueueOnce(p, HandleSubscribesCall)
    <3>1. /\ UNCHANGED queueVars
          /\ toSubscribe'[p] \cup toUnsubscribe'[p] \subseteq toSubscribe[p] \cup toUnsubscribe[p]
      BY <1>0, <2>1, <2>5 DEF DoSubscribe, DoUnsubscribe, Wake, KeyTypes, ScheduleTypes
    <3> QED
      BY <2>2, <2>3, <3>1 DEF queueVars, CallTypes, CallsPosted, Posted, WakeupInv
  <2> QED
    BY <2>4, <2>5
<1>6. ASSUME NEW p \in Providers, OnQueuedCall(p) PROVE Kept
  <2>1. /\ (CallTypes /\ CallsPosted)'
        /\ callQueue'[p] = callQueue[p] \ {Head(eventQueue[p])}
        /\ \A q \in Providers \ {p} : callQueue'[q] = callQueue[q]
    BY <1>6, OnQueuedCallKeeps
  <2>2. /\ running = Idle /\ running' = <<p, Head(eventQueue[p])>>
        /\ UNCHANGED <<toSubscribe, toUnsubscribe, pluginState>>
    BY <1>6 DEF OnQueuedCall, MainIdle, scheduleVars, pluginVars
  <2> QED
    BY <1>0, <2>1, <2>2, RunningDiffers DEF WakeupInv
<1>7. ASSUME NEW p \in Providers, HandleSubscribes(p) PROVE Kept
  <2>1. running = <<p, HandleSubscribesCall>> /\ UNCHANGED <<queueVars, pluginVars>>
    BY <1>7 DEF HandleSubscribes
  <2>2. /\ pluginState[p] # INITIALIZING => toSubscribe'[p] = {} /\ toUnsubscribe'[p] = {}
        /\ \A q \in Providers \ {p} : /\ toSubscribe'[q] = toSubscribe[q]
                                      /\ toUnsubscribe'[q] = toUnsubscribe[q]
    BY <1>0, <1>7 DEF HandleSubscribes, HandleSubscribesReady, HandleSubscribesFailed,
       HandleSubscribesInitializing, KeyTypes, ScheduleTypes
  <2>3. (CallTypes /\ CallsPosted)'
    BY <2>1 DEF queueVars, CallTypes, CallsPosted, Posted
  <2> QED
    BY <2>1, <2>2, <2>3 DEF WakeupInv, queueVars, pluginVars
<1>8. ASSUME NEW p \in Providers,
             \/ ConstructPlugin(p) \/ BlockUntilSubscribed(p) \/ PluginReady(p)
             \/ OnPluginFailed(p)
      PROVE  Kept
  <2>1. UNCHANGED queueVars
    BY <1>8 DEF ConstructPlugin, BlockUntilSubscribed, ConstructPluginBody, PluginReady,
                OnPluginReady, OnPluginReadyIgnored,
       OnPluginFailed
  <2>2. \A q \in Providers : running # <<q, HandleSubscribesCall>>
    BY <1>0, <1>8, RunningDiffers DEF ConstructPlugin, BlockUntilSubscribed, PluginReady,
                                      OnPluginReady, OnPluginReadyIgnored,
       OnPluginFailed, MainIdle
  <2>3. \/ UNCHANGED <<toSubscribe, toUnsubscribe, pluginState>>
        \/ running' = <<p, HandleSubscribesCall>>
    BY <1>8 DEF ConstructPlugin, BlockUntilSubscribed, ConstructPluginBody, PluginReady,
       OnPluginReady, OnPluginReadyIgnored, OnPluginFailed, scheduleVars, pluginVars
  <2>4. \A q \in Providers \ {p} : /\ toSubscribe'[q] = toSubscribe[q]
                                   /\ toUnsubscribe'[q] = toUnsubscribe[q]
                                   /\ pluginState'[q] = pluginState[q]
    BY <1>0, <1>8 DEF ConstructPlugin, BlockUntilSubscribed, ConstructPluginBody, PluginReady,
                      OnPluginReady, OnPluginReadyIgnored,
       OnPluginFailed, scheduleVars, pluginVars, KeyTypes, ScheduleTypes
  <2>5. (CallTypes /\ CallsPosted)'
    BY <2>1 DEF queueVars, CallTypes, CallsPosted, Posted
  <2> QED
    BY <2>1, <2>2, <2>3, <2>4, <2>5 DEF WakeupInv, queueVars
<1>9. ASSUME NEW p \in Providers,
             DoAnswer(p, key) \/ StoreValue(p, key) \/ OnPluginValueChanged(p, key)
      PROVE  Kept
  <2>1. UNCHANGED <<scheduleVars, queueVars, pluginVars>>
    BY <1>9 DEF DoAnswer, StoreValue, OnPluginValueChanged
  <2>2. running = Idle \/ running = Storing(p, key)
    BY <1>9 DEF DoAnswer, StoreValue, OnPluginValueChanged, MainIdle
  <2> QED
    BY <1>0, <1>1, <2>1, <2>2, RunningDiffers
<1> QED
  BY <1>2, <1>3, <1>4, <1>5, <1>6, <1>7, <1>8, <1>9 DEF HandleNext, PropertyStep, LoopStep,
     ProviderQueuedCall, ProviderConstructs, ProviderBlocks, ProviderReady, ProviderFails, Above,
     ProviderHandlesSubscribes, ProviderFinished, ProviderFailed, ProviderStores, ProviderValue,
     Routed,
     OnPluginSubscribeFinished, OnPluginSubscribeFailed

LEMMA WakeupIsNoLostWakeup == CallsPosted /\ WakeupInv => NoLostWakeup
BY DEF CallsPosted, WakeupInv, NoLostWakeup, HandlePending

-----------------------------------------------------------------------------
(* The theorems                                                            *)

\* The inductive invariant of the handle with its properties and providers:
\* types, the count, the exclusion of its threads, and what each has left to do.
THEOREM HandleInvariant ==
  ASSUME Serial
  PROVE  HandleSpec => []HandleInv
<1>1. HandleInv /\ [HandleNext]_vars => HandleInv'
  BY HandleNextInv
<1> QED
  BY <1>1, HandleInitInv, PTL DEF HandleSpec

\* The handle wants its key from exactly its current providers while anybody is
\* subscribed (PropertyHandle::subscribe, unsubscribe, updateProvider), for any
\* providers and properties, if all of them live in the main thread or the
\* providers do not change.
THEOREM IntentAgrees ==
  ASSUME Serial
  PROVE  HandleSpec => []HandleIntent
<1>1. HandleInv => HandleIntent
  <2> SUFFICES ASSUME HandleInv, Quiet, NEW p \in Providers
               PROVE  key \in subscribedKeys[p] <=> subscribeCount > 0 /\ p \in myProviders
    BY DEF HandleIntent
  <2>1. \A t \in Threads : pc[t] \notin InCall \cup {"assigning"}
    BY DEF Quiet
  <2>2. WantedFrom(p) <=> subscribeCount > 0 /\ p \in myProviders
    BY <2>1, ThreadsDiffer DEF HandleInv, ThreadInv, ThreadTypes, WantedFrom, InCall
  <2> QED
    BY <2>2 DEF HandleInv, WantInv
<1> QED
  BY <1>1, HandleInvariant, PTL

\* pendingSubscriptions is what the handle's providers still have to answer
\* (PropertyHandle::subscribe, updateProvider, setSubscribeFinished), if all
\* properties live in the main thread; the finding about another thread shows
\* that this is needed.
THEOREM PendingAgrees ==
  ASSUME AllInMain
  PROVE  HandleSpec => []PendingIsUnfinished
<1>1. Serial
  BY DEF Serial
<1>2. HandleSpec => []HandleInv
  BY <1>1, HandleInvariant
<1>3. HandleInit => KeyInv /\ PendingInv
  <2> SUFFICES ASSUME HandleInit PROVE KeyInv /\ PendingInv
    OBVIOUS
  <2>1. toSubscribe = [p \in Providers |-> {}] /\ unfinished = [p \in Providers |-> {}]
    BY DEF HandleInit, Init
  <2> QED
    BY <2>1 DEF HandleInit, KeyInv, PendingInv
<1>4. HandleInv /\ KeyInv /\ PendingInv /\ [HandleNext]_vars => (KeyInv /\ PendingInv)'
  BY PendingNext
<1>5. HandleInv /\ KeyInv /\ PendingInv => PendingIsUnfinished
  BY PendingWhenQuiet
<1> QED
  BY <1>2, <1>3, <1>4, <1>5, PTL DEF HandleSpec

\* The values of the handle's variables: the lock has one owner, the count is a
\* number of properties, and no value comes from anywhere but the providers; also
\* of threads that subscribe while updateProvider runs.
THEOREM HandleTypes == HandleSpec => []HandleTypeOK
<1>1. BaseInv /\ ValueTypes /\ [HandleNext]_vars => (BaseInv /\ ValueTypes)'
  BY BaseNext, ValueTypesNext
<1> QED
  BY <1>1, BaseInit, ValueTypesInit, BaseInvTypes, PTL DEF HandleSpec

\* subscribeCountLock does its work: at most one property is inside subscribe()
\* or unsubscribe(), the one that holds it, and subscribeCount is the number of
\* the connected properties; also while updateProvider, which does not take the
\* lock, runs in the main thread.
CountsProperties ==
  /\ subscribeCount = Cardinality({c \in Properties : Connected(c)})
  /\ \A c \in Properties : pc[c] \in InCall => lockOwner = c

THEOREM LockedCount == HandleSpec => []CountsProperties
<1>1. BaseInv /\ [HandleNext]_vars => BaseInv'
  BY BaseNext
<1>2. BaseInv => CountsProperties
  BY DEF BaseInv, CountInv, ConnectedOnes, LockInv, CountsProperties
<1> QED
  BY <1>1, <1>2, BaseInit, PTL DEF HandleSpec

\* With fixed providers the handle shows the newest of their values whatever
\* threads subscribe meanwhile (PropertyHandle::onValueChanged), for any
\* providers, properties and time stamps.
THEOREM LatestShown ==
  ASSUME ~RegistryChanges, ~CommandingEnabled
  PROVE  HandleSpec => []ShowsLatest
<1>1. Serial
  BY DEF Serial
<1>2. HandleSpec => []HandleInv
  BY <1>1, HandleInvariant
<1>3. HandleInv /\ ValueTypes /\ [HandleNext]_vars => ValueTypes'
  BY ValueTypesNext, HandleInvBase
<1>4. HandleInv /\ ValueTypes /\ FixedInv /\ [HandleNext]_vars => FixedInv'
  BY FixedNext
<1>5. FixedInv => ShowsLatest
  BY DEF FixedInv, ShowsLatest
<1> QED
  BY <1>2, <1>3, <1>4, <1>5, ValueTypesInit, FixedInit, PTL DEF HandleSpec

\* The handle uses its providers as module Provider takes for granted
\* (PropertyHandle::subscribe, unsubscribe, updateProvider; Provider::subscribe
\* keeps one intention per key): the calls on a key alternate and every step is
\* one of Provider, so that what is proved of Provider holds below any handle.
THEOREM HandleKeepsContract ==
  ASSUME Serial
  PROVE  HandleSpec => KeepsProviderContract
<1>1. HandleSpec => []HandleInv
  BY HandleInvariant
<1>2. HandleInit => KeyInv /\ OwedInv /\ PostedInv
  <2> SUFFICES ASSUME HandleInit PROVE KeyInv /\ OwedInv /\ PostedInv
    OBVIOUS
  <2>1. /\ toSubscribe = [p \in Providers |-> {}] /\ unfinished = [p \in Providers |-> {}]
        /\ eventQueue = [p \in Providers |-> <<ConstructPluginCall>>]
    BY DEF HandleInit, Init
  <2>2. KeyInv
    BY <2>1 DEF KeyInv
  <2>3. OwedInv
    BY ThreadsDiffer DEF HandleInit, OwedInv, InCall
  <2>4. PostedInv
    BY <2>1 DEF PostedInv, Methods
  <2> QED
    BY <2>2, <2>3, <2>4
<1>3. HandleInv /\ KeyInv /\ OwedInv /\ PostedInv /\ [HandleNext]_vars
        => (KeyInv /\ OwedInv /\ PostedInv)'
  BY HandleInvBase, KeyNext, OwedNext, PostedNext
<1>4. HandleInit => Below!Init
  <2>1. HandleInit => running = Idle
    BY DEF HandleInit, Init
  <2>2. HandleInit => mainThread = Below!Idle
    BY <2>1, MainThread DEF MainIdle, Idle, Below!Idle
  <2> QED
    BY <2>2 DEF HandleInit, Init, Below!Init, INITIALIZING, Below!INITIALIZING,
       ConstructPluginCall, Below!ConstructPluginCall
<1>5. HandleInv /\ OwedInv /\ PostedInv /\ [HandleNext]_vars
        => [Below!Next]_(Below!providerVars)
  BY BelowStep
<1> QED
  BY <1>1, <1>2, <1>3, <1>4, <1>5, PTL DEF HandleSpec, KeepsProviderContract, Below!Spec

\* The inductive invariant of the waits below a handle, for any threads.
LEMMA WaitsAlways == HandleSpec => [](BaseInv /\ ScheduleTypes /\ KeyInv /\ WaitsInv)
<1>1. HandleInit => KeyInv /\ WaitsInv
  BY DEF HandleInit, Init, KeyInv, WaitsInv
<1>2. BaseInv /\ ScheduleTypes /\ KeyInv /\ WaitsInv /\ [HandleNext]_vars
        => (BaseInv /\ ScheduleTypes /\ KeyInv /\ WaitsInv)'
  BY BaseNext, ScheduleTypesNext, KeyNext, WaitsNext
<1> QED
  BY <1>1, <1>2, BaseInit, DifferenceInit, PTL DEF HandleSpec

\* Whoever was told to wait by a provider of the handle waits for something
\* (Provider::subscribe, signalSubscribeFinished), whatever threads share the
\* handle and however often its providers change meanwhile, provided that a
\* plugin that failed still answers the earlier calls.
THEOREM HandleWaitsOwed ==
  ASSUME FailureAnswersPending
  PROVE  HandleSpec => []UnfinishedIsOwed
BY WaitsAlways, WaitsOwed, PTL

\* Of any plugin: who waits for a key that is not scheduled and for which no
\* answer is owed waits for a plugin that failed and forgot the call, which
\* onPluginReady makes good when the plugin is back (Provider::onPluginFailed,
\* handleSubscribes).
OwedOrFailed ==
  \A p \in Providers : \A k \in unfinished[p] :
    k \in toSubscribe[p] \/ owed[p][k] > 0 \/ pluginState[p] = FAILED

THEOREM HandleWaitsExplained == HandleSpec => []OwedOrFailed
<1>1. WaitsInv => OwedOrFailed
  BY DEF WaitsInv, Forgotten, OwedOrFailed
<1> QED
  BY <1>1, WaitsAlways, PTL

\* At rest, each provider in pendingSubscriptions has the key scheduled or owes
\* an answer for it: waitForSubscription() never waits for nothing
\* (PropertyHandle::isSubscribePending, subscribe, updateProvider).
PendingIsOwed ==
  Quiet => \A p \in pendingSubscriptions : key \in toSubscribe[p] \/ owed[p][key] > 0

THEOREM PendingOwed ==
  ASSUME AllInMain, FailureAnswersPending
  PROVE  HandleSpec => []PendingIsOwed
<1>1. HandleSpec => []PendingIsUnfinished
  BY PendingAgrees
<1>2. HandleSpec => []UnfinishedIsOwed
  BY HandleWaitsOwed
<1>3. PendingIsUnfinished /\ UnfinishedIsOwed => PendingIsOwed
  BY DEF PendingIsUnfinished, UnfinishedIsOwed, PendingIsOwed
<1> QED
  BY <1>1, <1>2, <1>3, PTL

\* A wait never ends too early: at rest, every provider that has not finished the
\* subscription it was asked for is in pendingSubscriptions, so that
\* waitForSubscription() does not return before it is answered or a value is
\* there.  The converse needs all properties in the main thread (PendingAgrees);
\* this direction survives the race with other threads (PropertyHandle::subscribe,
\* updateProvider, setSubscribeFinished).
UnfinishedIsPending ==
  Quiet => {p \in Providers : key \in unfinished[p]} \subseteq pendingSubscriptions

THEOREM WaitsLongEnough ==
  ASSUME Serial
  PROVE  HandleSpec => []UnfinishedIsPending
<1>1. HandleSpec => []HandleInv
  BY HandleInvariant
<1>2. HandleInit => KeyInv /\ WaitingInv
  BY DEF HandleInit, Init, KeyInv, WaitingInv
<1>3. HandleInv /\ KeyInv /\ WaitingInv /\ [HandleNext]_vars => (KeyInv /\ WaitingInv)'
  BY HandleInvBase, KeyNext, WaitingNext
<1>4. HandleInv /\ KeyInv /\ WaitingInv => UnfinishedIsPending
  BY WaitingWhenQuiet DEF UnfinishedIsPending, Unfinished
<1> QED
  BY <1>1, <1>2, <1>3, <1>4, PTL DEF HandleSpec

\* The schedule remains the difference between intention and plugin below a handle.
LEMMA DifferenceAlways ==
  ASSUME Serial
  PROVE  HandleSpec => [](HandleInv /\ DifferenceInv)
<1>1. HandleSpec => []HandleInv
  BY HandleInvariant
<1>2. HandleInv /\ ScheduleTypes /\ DifferenceInv /\ [HandleNext]_vars
        => (ScheduleTypes /\ DifferenceInv)'
  BY DifferenceNext
<1> QED
  BY <1>1, <1>2, DifferenceInit, PTL DEF HandleSpec

\* A ready plugin with nothing scheduled keeps exactly what its provider was
\* asked for, whatever threads, the registry and the commander do above it,
\* provided that it never signals ready while it is ready: Provider ignores that
\* signal (onPluginReady), and such a plugin has forgotten its keys.
THEOREM HandleIntentReachesPlugin ==
  ASSUME Serial, ~ReadyWhenReady
  PROVE  HandleSpec => []IntentReachesPlugin
<1>1. DifferenceInv => IntentReachesPlugin
  BY DEF DifferenceInv, KeptByNow, IntentReachesPlugin, Scheduled
<1> QED
  BY <1>1, DifferenceAlways, PTL

\* Of any plugin, one that signals ready while it is ready included: with nothing
\* scheduled it keeps nothing its provider was not asked for, and a plugin that
\* is not ready keeps nothing (Provider::unsubscribe, handleSubscribes,
\* onPluginFailed).
NothingUnwantedKept ==
  \A p \in Providers :
    /\ pluginState[p] = READY /\ Scheduled(p) = {} => pluginKeys[p] \subseteq subscribedKeys[p]
    /\ pluginState[p] # READY => pluginKeys[p] = {}

THEOREM HandleUnwantedDropped ==
  ASSUME Serial
  PROVE  HandleSpec => []NothingUnwantedKept
<1>1. DifferenceInv => NothingUnwantedKept
  BY DEF DifferenceInv, KeptByNow, NothingUnwantedKept, Scheduled
<1> QED
  BY <1>1, DifferenceAlways, PTL

\* At rest, somebody is subscribed exactly if a property is.
LEMMA SomebodySubscribed ==
  ASSUME HandleInv, Quiet
  PROVE  subscribeCount > 0 <=> \E c \in Properties : pc[c] = "subscribed"
<1>1. \A c \in Properties : pc[c] \notin InCall
  BY ThreadsDiffer DEF Quiet
<1>2. ConnectedOnes = {c \in Properties : pc[c] = "subscribed"}
  BY <1>1 DEF ConnectedOnes, Connected, InCall
<1>3. subscribeCount = Cardinality(ConnectedOnes)
  BY DEF HandleInv, ThreadInv, CountInv
<1> QED
  BY <1>2, <1>3, ConnectedFinite, FS_EmptySet

\* From the properties down to the plugins: when the handle is at rest, a ready
\* plugin with nothing scheduled keeps the key exactly if somebody is subscribed
\* and its provider is one of the current providers (PropertyHandle::subscribe,
\* unsubscribe, updateProvider; Provider::handleSubscribes, onPluginReady), for
\* plugins that never signal ready while they are ready.
Settled(p) == pluginState[p] = READY /\ Scheduled(p) = {}
AskedFor(p) == p \in myProviders /\ \E c \in Properties : pc[c] = "subscribed"
PluginsFollowProperties ==
  Quiet => \A p \in Providers : Settled(p) => (key \in pluginKeys[p] <=> AskedFor(p))

THEOREM PropertiesReachPlugins ==
  ASSUME Serial, ~ReadyWhenReady
  PROVE  HandleSpec => []PluginsFollowProperties
<1>1. HandleSpec => []HandleInv
  BY HandleInvariant
<1>2. HandleSpec => []HandleIntent
  BY IntentAgrees
<1>3. HandleSpec => []IntentReachesPlugin
  BY HandleIntentReachesPlugin
<1>4. HandleInv /\ HandleIntent /\ IntentReachesPlugin => PluginsFollowProperties
  BY SomebodySubscribed DEF HandleIntent, IntentReachesPlugin, PluginsFollowProperties, Settled,
     AskedFor
<1> QED
  BY <1>1, <1>2, <1>3, <1>4, PTL

\* Of any plugin: once everybody has unsubscribed, or the provider has been left,
\* no plugin goes on serving the key, also one that signalled ready while it was
\* ready (PropertyHandle::unsubscribe, updateProvider; Provider::handleSubscribes).
NoPluginServesInVain ==
  Quiet => \A p \in Providers : Scheduled(p) = {} /\ key \in pluginKeys[p] => AskedFor(p)

THEOREM PluginsServeProperties ==
  ASSUME Serial
  PROVE  HandleSpec => []NoPluginServesInVain
<1>1. HandleSpec => []HandleInv
  BY HandleInvariant
<1>2. HandleSpec => []HandleIntent
  BY IntentAgrees
<1>3. HandleSpec => []NothingUnwantedKept
  BY HandleUnwantedDropped
<1>4. HandleInv /\ HandleIntent /\ NothingUnwantedKept => NoPluginServesInVain
  BY SomebodySubscribed DEF HandleIntent, NothingUnwantedKept, NoPluginServesInVain, AskedFor
<1> QED
  BY <1>1, <1>2, <1>3, <1>4, PTL

\* No wakeup is lost below a handle (Provider::subscribe, unsubscribe,
\* handleSubscribes; QueuedInvoker::queueOnce): whatever its threads and updates
\* schedule, in whatever order they run, is followed by a run of handleSubscribes.
THEOREM HandleLosesNoWakeup == HandleSpec => []NoLostWakeup
<1>1. HandleInit => PostedInv /\ CallTypes /\ CallsPosted /\ WakeupInv
  <2> SUFFICES ASSUME HandleInit PROVE PostedInv /\ CallTypes /\ CallsPosted /\ WakeupInv
    OBVIOUS
  <2>1. /\ toSubscribe = [p \in Providers |-> {}] /\ toUnsubscribe = [p \in Providers |-> {}]
        /\ callQueue = [p \in Providers |-> {ConstructPluginCall}]
        /\ eventQueue = [p \in Providers |-> <<ConstructPluginCall>>]
    BY DEF HandleInit, Init
  <2>2. ConstructPluginCall \in Methods
    BY DEF Methods
  <2>3. \A p \in Providers : 1 \in DOMAIN eventQueue[p] /\ eventQueue[p][1] = ConstructPluginCall
    BY <2>1
  <2>4. CallsPosted
    BY <2>1, <2>3 DEF CallsPosted, Posted
  <2> QED
    BY <2>1, <2>2, <2>4 DEF PostedInv, CallTypes, WakeupInv, Scheduled
<1>2. BaseInv /\ PostedInv /\ CallTypes /\ CallsPosted /\ ScheduleTypes /\ WakeupInv
        /\ [HandleNext]_vars
        => (BaseInv /\ PostedInv /\ CallTypes /\ CallsPosted /\ ScheduleTypes /\ WakeupInv)'
  BY BaseNext, PostedNext, ScheduleTypesNext, WakeupNext
<1> QED
  BY <1>1, <1>2, BaseInit, DifferenceInit, WakeupIsNoLostWakeup, PTL DEF HandleSpec
=============================================================================
