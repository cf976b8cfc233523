--------------------------- MODULE ProviderProofs ---------------------------
(***************************************************************************)
(* Proofs about Provider, for any set of providers and keys.               *)
(***************************************************************************)
EXTENDS Provider, SequenceTheorems, TLAPS

-----------------------------------------------------------------------------
(* The inductive invariant                                                 *)

\* callQueue and the event queue agree, so that queueOnce never drops a call
\* that is not posted and never posts one twice.
QueueInv ==
  \A p \in Providers :
    \/ eventQueue[p] = <<>> /\ callQueue[p] = {}
    \/ eventQueue[p] = <<ConstructPluginCall>> /\ callQueue[p] = {ConstructPluginCall}
    \/ eventQueue[p] = <<HandleSubscribesCall>> /\ callQueue[p] = {HandleSubscribesCall}
    \/ /\ eventQueue[p] = <<ConstructPluginCall, HandleSubscribesCall>>
       /\ callQueue[p] = {ConstructPluginCall, HandleSubscribesCall}

\* Scheduled keys are wanted, keys scheduled to go are not; before the first
\* ready or failed nothing but the schedule exists.
ScheduleInv ==
  \A p \in Providers :
    /\ toSubscribe[p] \subseteq subscribedKeys[p]
    /\ toUnsubscribe[p] \cap subscribedKeys[p] = {}
    /\ pluginState[p] = INITIALIZING
         => toSubscribe[p] = subscribedKeys[p] /\ toUnsubscribe[p] = {}

\* What the plugin keeps if the schedule is the difference to the intention.
KeptByNow(p) ==
  IF pluginState[p] = READY
  THEN (subscribedKeys[p] \ toSubscribe[p]) \cup toUnsubscribe[p]
  ELSE {}

\* The schedule is exactly that difference; with a plugin that may forget
\* everything while it is ready, at least nothing is kept beyond it.
DifferenceInv ==
  \A p \in Providers :
    /\ pluginKeys[p] \subseteq KeptByNow(p)
    /\ ~ReadyWhenReady => pluginKeys[p] = KeptByNow(p)

\* Only wanted keys are waited for.
WaitInv == \A p \in Providers : unfinished[p] \subseteq subscribedKeys[p]

\* Only a constructed provider has a plugin or a plugin state.
ConstructInv ==
  \A p \in Providers : ~pluginConstructed[p] => pluginState[p] = INITIALIZING /\ ~plugin[p]

Inv == TypeOK /\ QueueInv /\ ScheduleInv /\ ConstructInv /\ WaitInv

-----------------------------------------------------------------------------
(* The parts of the type invariant                                         *)

\* The variables that hold one set of keys per provider.
KeySets(f) == f \in [Providers -> SUBSET Keys]

RestTypes ==
  /\ pluginConstructed \in [Providers -> BOOLEAN]
  /\ plugin \in [Providers -> BOOLEAN]
  /\ pluginState \in [Providers -> PluginStates]
  /\ values \in [Providers -> [Keys -> TimedValues \cup {NoValue}]]
  /\ callQueue \in [Providers -> SUBSET Methods]
  /\ eventQueue \in [Providers -> Queues]
  /\ running \in Runs
  /\ owed \in [Providers -> [Keys -> Nat]]

\* TypeOK, as the conjunction the steps below establish piece by piece.
LEMMA TypeParts ==
  TypeOK <=> /\ RestTypes
             /\ KeySets(toSubscribe) /\ KeySets(toUnsubscribe) /\ KeySets(subscribedKeys)
             /\ KeySets(pluginKeys) /\ KeySets(unfinished)
  BY DEF TypeOK, RestTypes, KeySets

\* The same of the next state.
LEMMA TypePartsNext ==
  TypeOK' <=> /\ RestTypes'
              /\ KeySets(toSubscribe') /\ KeySets(toUnsubscribe') /\ KeySets(subscribedKeys')
              /\ KeySets(pluginKeys') /\ KeySets(unfinished')
  BY DEF TypeOK, RestTypes, KeySets

\* What the main thread may go on with.
LEMMA RunTypes ==
  /\ Idle \in Runs
  /\ \A p \in Providers : \A m \in Methods : <<p, m>> \in Runs
  /\ \A p \in Providers : /\ <<p, ConstructPluginCall>> \in Runs
                          /\ <<p, HandleSubscribesCall>> \in Runs
                          /\ \A k \in Keys : Storing(p, k) \in Runs
  BY DEF Runs, Methods

\* Changing the keys of one provider.
LEMMA KeySetUpdates ==
  ASSUME NEW f, KeySets(f), NEW p \in Providers, NEW ks \in SUBSET Keys
  PROVE  /\ KeySets([f EXCEPT ![p] = @ \cup ks])
         /\ KeySets([f EXCEPT ![p] = @ \ ks])
         /\ KeySets([f EXCEPT ![p] = ks])
  BY DEF KeySets

-----------------------------------------------------------------------------
(* The call queue                                                          *)

\* What a call queue of this shape has posted is what callQueue records.
LEMMA PostedIsQueued ==
  ASSUME QueueInv, NEW p \in Providers
  PROVE  Posted(p) = callQueue[p]
<1>1. CASE eventQueue[p] = <<>> /\ callQueue[p] = {}
  BY <1>1 DEF Posted
<1>2. CASE eventQueue[p] = <<ConstructPluginCall>> /\ callQueue[p] = {ConstructPluginCall}
  BY <1>2 DEF Posted
<1>3. CASE eventQueue[p] = <<HandleSubscribesCall>> /\ callQueue[p] = {HandleSubscribesCall}
  BY <1>3 DEF Posted
<1>4. CASE /\ eventQueue[p] = <<ConstructPluginCall, HandleSubscribesCall>>
           /\ callQueue[p] = {ConstructPluginCall, HandleSubscribesCall}
  <2>1. DOMAIN eventQueue[p] = {1, 2}
    BY <1>4
  <2>2. eventQueue[p][1] = ConstructPluginCall /\ eventQueue[p][2] = HandleSubscribesCall
    BY <1>4
  <2>3. QED
    BY <1>4, <2>1, <2>2 DEF Posted
<1>5. QED
  BY <1>1, <1>2, <1>3, <1>4 DEF QueueInv

\* The two calls in the order in which they are posted.
LEMMA AppendSecondCall ==
  Append(<<ConstructPluginCall>>, HandleSubscribesCall)
    = <<ConstructPluginCall, HandleSubscribesCall>>
<1> DEFINE s == Append(<<ConstructPluginCall>>, HandleSubscribesCall)
           t == <<ConstructPluginCall, HandleSubscribesCall>>
<1>1. <<ConstructPluginCall>> \in Seq(Methods) /\ t \in Seq(Methods) /\ HandleSubscribesCall \in Methods
  BY DEF Methods
<1>2. s \in Seq(Methods) /\ Len(s) = 2 /\ Len(t) = 2
  BY <1>1
<1>3. \A i \in 1..2 : s[i] = t[i]
  BY <1>1
<1>4. QED
  BY <1>1, <1>2, <1>3, SeqEqual

\* queueOnce keeps the two views of the queue together and leaves the call posted.
LEMMA QueueOnceKeepsQueue ==
  ASSUME TypeOK, QueueInv, NEW p \in Providers, QueueOnce(p, HandleSubscribesCall)
  PROVE  /\ QueueInv'
         /\ callQueue' \in [Providers -> SUBSET Methods]
         /\ eventQueue' \in [Providers -> Queues]
         /\ HandleSubscribesCall \in callQueue'[p]
         /\ \A q \in Providers : callQueue[q] \subseteq callQueue'[q]
<1>1. CASE HandleSubscribesCall \in callQueue[p]
  BY <1>1 DEF QueueOnce, QueueInv, TypeOK, queueVars
<1>2. CASE HandleSubscribesCall \notin callQueue[p]
  <2>1. /\ callQueue'  = [callQueue EXCEPT ![p] = @ \cup {HandleSubscribesCall}]
        /\ eventQueue' = [eventQueue EXCEPT ![p] = Append(@, HandleSubscribesCall)]
    BY <1>2 DEF QueueOnce
  <2>2. callQueue \in [Providers -> SUBSET Methods] /\ DOMAIN eventQueue = Providers
    BY DEF TypeOK
  <2>3. ASSUME NEW q \in Providers, q # p
        PROVE  callQueue'[q] = callQueue[q] /\ eventQueue'[q] = eventQueue[q]
    BY <2>1, <2>2, <2>3
  <2>4. /\ callQueue'[p]  = callQueue[p] \cup {HandleSubscribesCall}
        /\ eventQueue'[p] = Append(eventQueue[p], HandleSubscribesCall)
    BY <2>1, <2>2
  <2>5. \/ eventQueue[p] = <<>> /\ callQueue[p] = {}
        \/ eventQueue[p] = <<ConstructPluginCall>> /\ callQueue[p] = {ConstructPluginCall}
    BY <1>2 DEF QueueInv
  <2>6. \/ eventQueue'[p] = <<HandleSubscribesCall>> /\ callQueue'[p] = {HandleSubscribesCall}
        \/ /\ eventQueue'[p] = <<ConstructPluginCall, HandleSubscribesCall>>
           /\ callQueue'[p] = {ConstructPluginCall, HandleSubscribesCall}
    <3>1. CASE eventQueue[p] = <<>> /\ callQueue[p] = {}
      BY <2>4, <3>1
    <3>2. CASE eventQueue[p] = <<ConstructPluginCall>> /\ callQueue[p] = {ConstructPluginCall}
      <4>1. Append(<<ConstructPluginCall>>, HandleSubscribesCall)
              = <<ConstructPluginCall, HandleSubscribesCall>>
        BY AppendSecondCall
      <4>2. callQueue'[p] = {ConstructPluginCall, HandleSubscribesCall}
        BY <2>4, <3>2
      <4>3. QED
        BY <2>4, <3>2, <4>1, <4>2
    <3>3. QED
      BY <2>5, <3>1, <3>2
  <2>7. QueueInv'
    BY <2>3, <2>6 DEF QueueInv
  <2>8. callQueue' \in [Providers -> SUBSET Methods]
    BY <2>1, <2>2 DEF Methods
  <2>9. eventQueue' \in [Providers -> Queues]
    BY <2>1, <2>3, <2>6 DEF TypeOK, Queues
  <2>10. QED
    BY <2>3, <2>4, <2>7, <2>8, <2>9
<1>3. QED
  BY <1>1, <1>2

\* onQueuedCall takes the oldest call out of both views.
LEMMA OnQueuedCallKeepsQueue ==
  ASSUME TypeOK, QueueInv, NEW p \in Providers, OnQueuedCall(p)
  PROVE  /\ QueueInv'
         /\ callQueue' \in [Providers -> SUBSET Methods]
         /\ eventQueue' \in [Providers -> Queues]
         /\ Head(eventQueue[p]) \in Methods
         /\ callQueue'[p] = callQueue[p] \ {Head(eventQueue[p])}
         /\ \A q \in Providers \ {p} : callQueue'[q] = callQueue[q]
<1>1. /\ eventQueue' = [eventQueue EXCEPT ![p] = Tail(@)]
      /\ callQueue'  = [callQueue EXCEPT ![p] = @ \ {Head(eventQueue[p])}]
      /\ eventQueue[p] # <<>>
  BY DEF OnQueuedCall
<1>2. callQueue \in [Providers -> SUBSET Methods] /\ DOMAIN eventQueue = Providers
  BY DEF TypeOK
<1>3. ASSUME NEW q \in Providers, q # p
      PROVE  callQueue'[q] = callQueue[q] /\ eventQueue'[q] = eventQueue[q]
  BY <1>1, <1>2, <1>3
<1>4. /\ callQueue'[p]  = callQueue[p] \ {Head(eventQueue[p])}
      /\ eventQueue'[p] = Tail(eventQueue[p])
  BY <1>1, <1>2
<1>5. /\ Head(eventQueue[p]) \in Methods
      /\ \/ eventQueue'[p] = <<>> /\ callQueue'[p] = {}
         \/ eventQueue'[p] = <<HandleSubscribesCall>> /\ callQueue'[p] = {HandleSubscribesCall}
  <2>1. CASE eventQueue[p] = <<ConstructPluginCall>> /\ callQueue[p] = {ConstructPluginCall}
    BY <1>4, <2>1 DEF Methods
  <2>2. CASE eventQueue[p] = <<HandleSubscribesCall>> /\ callQueue[p] = {HandleSubscribesCall}
    BY <1>4, <2>2 DEF Methods
  <2>3. CASE /\ eventQueue[p] = <<ConstructPluginCall, HandleSubscribesCall>>
             /\ callQueue[p] = {ConstructPluginCall, HandleSubscribesCall}
    <3>1. Head(eventQueue[p]) = ConstructPluginCall
      BY <2>3
    <3>2. Tail(eventQueue[p]) = <<HandleSubscribesCall>>
      BY <2>3
    <3>3. ConstructPluginCall # HandleSubscribesCall
      BY DEF ConstructPluginCall, HandleSubscribesCall
    <3>4. QED
      BY <1>4, <2>3, <3>1, <3>2, <3>3 DEF Methods
  <2>4. QED
    BY <1>1, <2>1, <2>2, <2>3 DEF QueueInv
<1>6. QueueInv'
  BY <1>3, <1>5 DEF QueueInv
<1>7. callQueue' \in [Providers -> SUBSET Methods]
  BY <1>1, <1>2
<1>8. eventQueue' \in [Providers -> Queues]
  BY <1>1, <1>3, <1>5 DEF TypeOK, Queues
<1>9. QED
  BY <1>3, <1>4, <1>5, <1>6, <1>7, <1>8

-----------------------------------------------------------------------------
(* Type correctness and the invariant of the schedule                      *)

\* A provider as its constructor leaves it: one construction posted.
LEMMA InitInv == Init => Inv
  BY RunTypes DEF Init, Inv, TypeOK, QueueInv, ScheduleInv, ConstructInv, WaitInv, PluginStates,
         Methods, Queues, INITIALIZING, READY

\* Steps that leave the queue alone leave its invariant alone.
LEMMA QueueUntouched ==
  ASSUME QueueInv, UNCHANGED queueVars
  PROVE  QueueInv'
  BY DEF QueueInv, queueVars

\* subscribe(), by any thread at any time.
LEMMA SubscribeInv ==
  ASSUME Inv, NEW p \in Providers, NEW k \in Keys, DoSubscribe(p, k)
  PROVE  Inv'
<1>1. /\ subscribedKeys' = [subscribedKeys EXCEPT ![p] = @ \cup {k}]
      /\ pluginKeys' = pluginKeys
      /\ UNCHANGED pluginVars
  BY DEF DoSubscribe, envVars
<1>2. {k} \in SUBSET Keys /\ TypeOK /\ QueueInv
  BY DEF Inv
<1>3. CASE SubscribeReturns(p, k)
  <2>1. /\ toSubscribe' = [toSubscribe EXCEPT ![p] = @ \cup {k}]
        /\ unfinished'  = [unfinished EXCEPT ![p] = @ \cup {k}]
        /\ toUnsubscribe' = toUnsubscribe
        /\ QueueOnce(p, HandleSubscribesCall)
    BY <1>3 DEF DoSubscribe, Wake
  <2>2. /\ QueueInv'
        /\ callQueue' \in [Providers -> SUBSET Methods] /\ eventQueue' \in [Providers -> Queues]
    BY <1>2, <2>1, QueueOnceKeepsQueue
  <2>3. RestTypes'
    BY <1>2, <2>2, TypeParts DEF RestTypes, DoSubscribe, pluginVars, envVars
  <2>4. KeySets(toSubscribe') /\ KeySets(subscribedKeys') /\ KeySets(unfinished')
    BY <1>1, <1>2, <2>1, TypeParts, KeySetUpdates
  <2>5. TypeOK'
    BY <1>1, <1>2, <2>1, <2>3, <2>4, TypeParts, TypePartsNext
  <2>6. ScheduleInv' /\ ConstructInv' /\ WaitInv'
    <3>1. k \notin toUnsubscribe[p]
      BY <1>3 DEF SubscribeReturns
    <3>2. ScheduleInv'
      BY <1>1, <1>2, <2>1, <3>1, TypeParts DEF Inv, KeySets, ScheduleInv, pluginVars
    <3>3. ConstructInv' /\ WaitInv'
      BY <1>1, <1>2, <2>1, TypeParts DEF Inv, KeySets, ConstructInv, WaitInv, pluginVars
    <3>4. QED
      BY <3>2, <3>3
  <2>7. QED
    BY <2>2, <2>5, <2>6 DEF Inv
<1>4. CASE ~SubscribeReturns(p, k)
  <2>1. /\ toUnsubscribe' = [toUnsubscribe EXCEPT ![p] = @ \ {k}]
        /\ UNCHANGED <<toSubscribe, queueVars, unfinished>>
    BY <1>4 DEF DoSubscribe
  <2>2. RestTypes'
    BY <1>2, <2>1, TypeParts DEF RestTypes, DoSubscribe, pluginVars, envVars, queueVars
  <2>3. KeySets(toUnsubscribe') /\ KeySets(subscribedKeys')
    BY <1>1, <1>2, <2>1, TypeParts, KeySetUpdates
  <2>4. TypeOK'
    BY <1>1, <1>2, <2>1, <2>2, <2>3, TypeParts, TypePartsNext
  <2>5. ScheduleInv' /\ ConstructInv' /\ WaitInv'
    <3>1. k \notin toSubscribe[p] /\ pluginState[p] # INITIALIZING
      BY <1>4 DEF Inv, ScheduleInv, SubscribeReturns
    <3>2. ScheduleInv'
      BY <1>1, <2>1, <3>1 DEF Inv, TypeOK, ScheduleInv, pluginVars
    <3>3. ConstructInv' /\ WaitInv'
      BY <1>1, <2>1 DEF Inv, TypeOK, ConstructInv, WaitInv, pluginVars
    <3>4. QED
      BY <3>2, <3>3
  <2>6. QED
    BY <1>2, <2>1, <2>4, <2>5, QueueUntouched DEF Inv
<1>5. QED
  BY <1>3, <1>4

\* unsubscribe(), by any thread, of a key that is subscribed.
LEMMA UnsubscribeInv ==
  ASSUME Inv, NEW p \in Providers, NEW k \in Keys, Unsubscribe(p, k)
  PROVE  Inv'
<1>1. /\ subscribedKeys' = [subscribedKeys EXCEPT ![p] = @ \ {k}]
      /\ unfinished' = [unfinished EXCEPT ![p] = @ \ {k}]
      /\ pluginKeys' = pluginKeys
      /\ UNCHANGED pluginVars
  BY DEF Unsubscribe, DoUnsubscribe, envVars
<1>2. {k} \in SUBSET Keys /\ TypeOK /\ QueueInv /\ k \in subscribedKeys[p]
  BY DEF Inv, Unsubscribe
<1>3. KeySets(subscribedKeys') /\ KeySets(unfinished')
  BY <1>1, <1>2, TypeParts, KeySetUpdates
<1>4. CASE k \notin toSubscribe[p]
  <2>1. /\ toUnsubscribe' = [toUnsubscribe EXCEPT ![p] = @ \cup {k}]
        /\ toSubscribe' = toSubscribe
        /\ QueueOnce(p, HandleSubscribesCall)
    BY <1>4 DEF Unsubscribe, DoUnsubscribe, Wake
  <2>2. /\ QueueInv'
        /\ callQueue' \in [Providers -> SUBSET Methods] /\ eventQueue' \in [Providers -> Queues]
    BY <1>2, <2>1, QueueOnceKeepsQueue
  <2>3. RestTypes'
    BY <1>2, <2>2, TypeParts DEF RestTypes, Unsubscribe, DoUnsubscribe, pluginVars, envVars
  <2>4. KeySets(toUnsubscribe')
    BY <1>2, <2>1, TypeParts, KeySetUpdates
  <2>5. TypeOK'
    BY <1>1, <1>2, <1>3, <2>1, <2>3, <2>4, TypeParts, TypePartsNext
  <2>6. ScheduleInv' /\ ConstructInv' /\ WaitInv'
    BY <1>1, <1>2, <1>4, <2>1 DEF Inv, TypeOK, ScheduleInv, ConstructInv, WaitInv, pluginVars
  <2>7. QED
    BY <2>2, <2>5, <2>6 DEF Inv
<1>5. CASE k \in toSubscribe[p]
  <2>1. /\ toSubscribe' = [toSubscribe EXCEPT ![p] = @ \ {k}]
        /\ UNCHANGED <<toUnsubscribe, queueVars>>
    BY <1>5 DEF Unsubscribe, DoUnsubscribe
  <2>2. RestTypes'
    BY <1>2, <2>1, TypeParts DEF RestTypes, Unsubscribe, DoUnsubscribe, pluginVars, envVars,
                                 queueVars
  <2>3. KeySets(toSubscribe')
    BY <1>2, <2>1, TypeParts, KeySetUpdates
  <2>4. TypeOK'
    BY <1>1, <1>2, <1>3, <2>1, <2>2, <2>3, TypeParts, TypePartsNext
  <2>5. ScheduleInv' /\ ConstructInv' /\ WaitInv'
    BY <1>1, <1>2, <1>5, <2>1 DEF Inv, TypeOK, ScheduleInv, ConstructInv, WaitInv, pluginVars
  <2>6. QED
    BY <1>2, <2>1, <2>4, <2>5, QueueUntouched DEF Inv
<1>6. QED
  BY <1>4, <1>5

\* onQueuedCall.
LEMMA OnQueuedCallInv ==
  ASSUME Inv, NEW p \in Providers, OnQueuedCall(p)
  PROVE  Inv'
<1>1. /\ UNCHANGED scheduleVars /\ UNCHANGED pluginVars /\ UNCHANGED envVars
      /\ UNCHANGED <<values, unfinished>>
      /\ running' = <<p, Head(eventQueue[p])>>
  BY DEF OnQueuedCall
<1>2. TypeOK /\ QueueInv
  BY DEF Inv
<1>3. /\ QueueInv'
      /\ callQueue' \in [Providers -> SUBSET Methods] /\ eventQueue' \in [Providers -> Queues]
      /\ Head(eventQueue[p]) \in Methods
  BY <1>2, OnQueuedCallKeepsQueue
<1>4. TypeOK'
  BY <1>1, <1>2, <1>3, RunTypes DEF TypeOK, scheduleVars, pluginVars, envVars
<1>5. ScheduleInv' /\ ConstructInv' /\ WaitInv'
  BY <1>1 DEF Inv, ScheduleInv, ConstructInv, WaitInv, scheduleVars, pluginVars
<1>6. QED
  BY <1>3, <1>4, <1>5 DEF Inv

\* handleSubscribes, whatever the plugin state.
LEMMA HandleSubscribesInv ==
  ASSUME Inv, NEW p \in Providers, HandleSubscribes(p)
  PROVE  Inv'
<1>1. /\ running' = Idle
      /\ subscribedKeys' = subscribedKeys
      /\ UNCHANGED pluginVars /\ UNCHANGED queueVars /\ UNCHANGED values
  BY DEF HandleSubscribes
<1>2. TypeOK /\ QueueInv /\ QueueInv' /\ running' \in Runs
  BY <1>1, QueueUntouched, RunTypes DEF Inv
<1>3. toSubscribe[p] \in SUBSET Keys /\ toUnsubscribe[p] \in SUBSET Keys /\ {} \in SUBSET Keys
  BY <1>2 DEF TypeOK
<1>4. CASE HandleSubscribesReady(p)
  <2>1. /\ pluginState[p] = READY
        /\ pluginKeys' = [pluginKeys EXCEPT ![p] = (@ \cup toSubscribe[p]) \ toUnsubscribe[p]]
        /\ toSubscribe' = [toSubscribe EXCEPT ![p] = {}]
        /\ toUnsubscribe' = [toUnsubscribe EXCEPT ![p] = {}]
    BY <1>4 DEF HandleSubscribesReady
  <2>2. PICK atOnce \in SUBSET toSubscribe[p] :
          /\ unfinished' = [unfinished EXCEPT ![p] = @ \ Signalled(p, atOnce)]
          /\ owed' = [owed EXCEPT ![p] =
                        [k \in Keys |-> IF k \in toSubscribe[p] \ atOnce
                                        THEN owed[p][k] + 1 ELSE owed[p][k]]]
    BY <1>4 DEF HandleSubscribesReady
  <2>3. owed' \in [Providers -> [Keys -> Nat]]
    <3>1. owed \in [Providers -> [Keys -> Nat]]
      BY <1>2 DEF TypeOK
    <3>2. [k \in Keys |-> IF k \in toSubscribe[p] \ atOnce
                          THEN owed[p][k] + 1 ELSE owed[p][k]] \in [Keys -> Nat]
      BY <3>1
    <3>3. QED
      BY <2>2, <3>1, <3>2
  <2>4. RestTypes'
    BY <1>1, <1>2, <2>3, TypeParts DEF RestTypes, pluginVars, queueVars
  <2>5. KeySets(toSubscribe') /\ KeySets(toUnsubscribe')
    BY <1>2, <1>3, <2>1, TypeParts, KeySetUpdates
  <2>6. KeySets(unfinished')
    <3>1. Signalled(p, atOnce) \in SUBSET Keys
      BY <1>3 DEF Signalled
    <3>2. QED
      BY <1>2, <2>2, <3>1, TypeParts, KeySetUpdates
  <2>7. KeySets(pluginKeys')
    <3>1. (pluginKeys[p] \cup toSubscribe[p]) \ toUnsubscribe[p] \in SUBSET Keys
      BY <1>2, <1>3 DEF TypeOK
    <3>2. QED
      BY <1>2, <2>1, <3>1, TypeParts, KeySetUpdates
  <2>8. TypeOK'
    BY <1>1, <1>2, <2>4, <2>5, <2>6, <2>7, TypeParts, TypePartsNext
  <2>9. ScheduleInv' /\ ConstructInv'
    BY <1>1, <1>2, <2>1, TypeParts DEF Inv, KeySets, ScheduleInv, ConstructInv, pluginVars,
       READY, INITIALIZING
  <2>10. WaitInv'
    BY <1>1, <1>2, <2>2, TypeParts DEF Inv, KeySets, WaitInv
  <2>11. QED
    BY <1>2, <2>8, <2>9, <2>10 DEF Inv
<1>5. CASE HandleSubscribesFailed(p)
  <2>1. /\ pluginState[p] = FAILED
        /\ unfinished' = [unfinished EXCEPT ![p] = @ \ toSubscribe[p]]
        /\ toSubscribe' = [toSubscribe EXCEPT ![p] = {}]
        /\ toUnsubscribe' = [toUnsubscribe EXCEPT ![p] = {}]
        /\ pluginKeys' = pluginKeys /\ owed' = owed
    BY <1>5 DEF HandleSubscribesFailed, SignalledOnFailure, envVars
  <2>2. RestTypes'
    BY <1>1, <1>2, <2>1, TypeParts DEF RestTypes, pluginVars, queueVars
  <2>3. KeySets(toSubscribe') /\ KeySets(toUnsubscribe') /\ KeySets(unfinished')
    BY <1>2, <1>3, <2>1, TypeParts, KeySetUpdates
  <2>4. TypeOK'
    BY <1>1, <1>2, <2>1, <2>2, <2>3, TypeParts, TypePartsNext
  <2>5. ScheduleInv' /\ ConstructInv'
    BY <1>1, <1>2, <2>1, TypeParts DEF Inv, KeySets, ScheduleInv, ConstructInv, pluginVars,
       FAILED, INITIALIZING
  <2>6. WaitInv'
    BY <1>1, <1>2, <2>1, TypeParts DEF Inv, KeySets, WaitInv
  <2>7. QED
    BY <1>2, <2>4, <2>5, <2>6 DEF Inv
<1>6. CASE HandleSubscribesInitializing(p)
  <2>1. UNCHANGED <<unfinished, toSubscribe, toUnsubscribe, envVars>>
    BY <1>6 DEF HandleSubscribesInitializing
  <2>2. TypeOK'
    BY <1>1, <1>2, <2>1 DEF TypeOK, pluginVars, envVars, queueVars
  <2>3. ScheduleInv' /\ ConstructInv' /\ WaitInv'
    BY <1>1, <2>1 DEF Inv, ScheduleInv, ConstructInv, WaitInv, pluginVars
  <2>4. QED
    BY <1>2, <2>2, <2>3 DEF Inv
<1>7. QED
  BY <1>4, <1>5, <1>6 DEF HandleSubscribes

\* constructPlugin, posted or forced by blockUntilSubscribed.
LEMMA ConstructPluginInv ==
  ASSUME Inv, NEW p \in Providers, ConstructPluginBody(p)
  PROVE  Inv'
<1>1. /\ UNCHANGED scheduleVars /\ UNCHANGED queueVars /\ UNCHANGED envVars
      /\ UNCHANGED <<values, unfinished>>
      /\ pluginConstructed' = [pluginConstructed EXCEPT ![p] = TRUE]
  BY DEF ConstructPluginBody
<1>2. TypeOK /\ QueueInv /\ QueueInv' /\ ScheduleInv /\ ConstructInv
  BY <1>1, QueueUntouched DEF Inv
<1>3. /\ running' \in Runs
      /\ plugin' \in [Providers -> BOOLEAN]
      /\ pluginState' \in [Providers -> PluginStates]
      /\ pluginConstructed' \in [Providers -> BOOLEAN]
      /\ pluginState'[p] = pluginState[p] \/ pluginState'[p] = FAILED
      /\ \A q \in Providers \ {p} : pluginState'[q] = pluginState[q] /\ plugin'[q] = plugin[q]
  <2>1. /\ plugin \in [Providers -> BOOLEAN] /\ pluginState \in [Providers -> PluginStates]
        /\ pluginConstructed \in [Providers -> BOOLEAN]
        /\ FAILED \in PluginStates /\ Idle \in Runs /\ <<p, HandleSubscribesCall>> \in Runs
    BY <1>2, RunTypes DEF TypeOK, PluginStates
  <2>2. CASE running' = Idle /\ UNCHANGED <<plugin, pluginState>>
    BY <1>1, <2>1, <2>2
  <2>3. CASE plugin' = [plugin EXCEPT ![p] = TRUE] /\ running' = Idle /\ UNCHANGED pluginState
    BY <1>1, <2>1, <2>3
  <2>4. CASE /\ pluginState' = [pluginState EXCEPT ![p] = FAILED]
             /\ running' = <<p, HandleSubscribesCall>> /\ UNCHANGED plugin
    BY <1>1, <2>1, <2>4
  <2>5. QED
    BY <2>2, <2>3, <2>4 DEF ConstructPluginBody
<1>4. TypeOK'
  BY <1>1, <1>2, <1>3 DEF TypeOK, scheduleVars, queueVars, envVars
<1>5. ScheduleInv' /\ WaitInv'
  <2>1. \A q \in Providers : pluginState'[q] = INITIALIZING => pluginState[q] = INITIALIZING
    BY <1>3 DEF FAILED, INITIALIZING
  <2>2. QED
    BY <1>1, <1>2, <2>1 DEF Inv, ScheduleInv, WaitInv, scheduleVars
<1>6. ConstructInv'
  <2>1. /\ pluginConstructed'[p]
        /\ \A q \in Providers \ {p} : pluginConstructed'[q] = pluginConstructed[q]
    BY <1>1, <1>2 DEF TypeOK
  <2>2. QED
    BY <1>2, <1>3, <2>1 DEF ConstructInv
<1>7. QED
  BY <1>2, <1>4, <1>5, <1>6 DEF Inv

\* onPluginReady.
LEMMA OnPluginReadyInv ==
  ASSUME Inv, NEW p \in Providers, OnPluginReady(p)
  PROVE  Inv'
<1>1. /\ toUnsubscribe' = [toUnsubscribe EXCEPT ![p] = {}]
      /\ toSubscribe' = [toSubscribe EXCEPT ![p] = subscribedKeys[p]]
      /\ pluginState' = [pluginState EXCEPT ![p] = READY]
      /\ pluginKeys' = [pluginKeys EXCEPT ![p] = {}]
      /\ running' = <<p, HandleSubscribesCall>>
      /\ UNCHANGED <<subscribedKeys, queueVars, pluginConstructed, plugin, owed, values, unfinished>>
      /\ plugin[p]
  BY DEF OnPluginReady, Renewed
<1>2. TypeOK /\ QueueInv /\ QueueInv' /\ ScheduleInv /\ ConstructInv /\ WaitInv
  BY <1>1, QueueUntouched DEF Inv
<1>3. subscribedKeys[p] \in SUBSET Keys /\ {} \in SUBSET Keys
  BY <1>2 DEF TypeOK
<1>4. KeySets(toSubscribe') /\ KeySets(toUnsubscribe') /\ KeySets(pluginKeys')
  BY <1>1, <1>2, <1>3, TypeParts, KeySetUpdates
<1>5. RestTypes'
  BY <1>1, <1>2, TypeParts, RunTypes DEF RestTypes, PluginStates, queueVars
<1>6. TypeOK'
  BY <1>1, <1>2, <1>4, <1>5, TypeParts, TypePartsNext
<1>7. ScheduleInv' /\ WaitInv'
  BY <1>1, <1>2, TypeParts DEF KeySets, RestTypes, ScheduleInv, WaitInv, READY, INITIALIZING
<1>8. ConstructInv'
  BY <1>1, <1>2 DEF TypeOK, ConstructInv
<1>9. QED
  BY <1>2, <1>6, <1>7, <1>8 DEF Inv

\* onPluginReady of a plugin that is ready: only the plugin has changed.
LEMMA OnPluginReadyIgnoredInv ==
  ASSUME Inv, NEW p \in Providers, OnPluginReadyIgnored(p)
  PROVE  Inv'
<1>1. /\ pluginKeys' = [pluginKeys EXCEPT ![p] = {}]
      /\ UNCHANGED <<toSubscribe, toUnsubscribe, subscribedKeys, callQueue, eventQueue,
                     pluginConstructed, plugin, pluginState, owed, values, running, unfinished>>
  BY DEF OnPluginReadyIgnored, scheduleVars, queueVars, pluginVars
<1>2. TypeOK /\ {} \in SUBSET Keys
  BY DEF Inv
<1>3. TypeOK'
  <2>1. KeySets(pluginKeys')
    BY <1>1, <1>2, TypeParts, KeySetUpdates
  <2>2. RestTypes'
    BY <1>1, <1>2, TypeParts DEF RestTypes
  <2>3. QED
    BY <1>1, <1>2, <2>1, <2>2, TypeParts, TypePartsNext
<1>4. QED
  BY <1>1, <1>3 DEF Inv, QueueInv, ScheduleInv, ConstructInv, WaitInv

\* onPluginFailed, whatever becomes of the answers still owed.
LEMMA OnPluginFailedInv ==
  ASSUME Inv, NEW p \in Providers, OnPluginFailed(p)
  PROVE  Inv'
<1>1. /\ pluginState' = [pluginState EXCEPT ![p] = FAILED]
      /\ pluginKeys' = [pluginKeys EXCEPT ![p] = {}]
      /\ owed' = owed \/ owed' = [owed EXCEPT ![p] = [k \in Keys |-> 0]]
      /\ running' = <<p, HandleSubscribesCall>>
      /\ UNCHANGED <<toSubscribe, toUnsubscribe, subscribedKeys, callQueue, eventQueue,
                     pluginConstructed, plugin, values, unfinished>>
      /\ plugin[p]
  BY DEF OnPluginFailed, scheduleVars, queueVars
<1>2. TypeOK /\ ConstructInv /\ {} \in SUBSET Keys
  BY DEF Inv
<1>3. TypeOK'
  <2>1. KeySets(pluginKeys')
    BY <1>1, <1>2, TypeParts, KeySetUpdates
  <2>2. owed' \in [Providers -> [Keys -> Nat]]
    <3>1. owed \in [Providers -> [Keys -> Nat]] /\ [k \in Keys |-> 0] \in [Keys -> Nat]
      BY <1>2 DEF TypeOK
    <3>2. QED
      BY <1>1, <3>1
  <2>3. RestTypes'
    BY <1>1, <1>2, <2>2, TypeParts, RunTypes DEF RestTypes, PluginStates
  <2>4. QED
    BY <1>1, <1>2, <2>1, <2>3, TypeParts, TypePartsNext
<1>4. ScheduleInv' /\ ConstructInv'
  <2>1. \A q \in Providers : pluginState'[q] = IF q = p THEN FAILED ELSE pluginState[q]
    BY <1>1, <1>2 DEF TypeOK
  <2>2. QED
    BY <1>1, <1>2, <2>1 DEF Inv, ScheduleInv, ConstructInv, FAILED, INITIALIZING
<1>5. QED
  BY <1>1, <1>3, <1>4 DEF Inv, QueueInv, WaitInv

\* Storing a value keeps the type of the cache.
LEMMA ReceiveValueTyped ==
  ASSUME TypeOK, NEW p \in Providers, NEW k \in Keys, NEW v \in TimedValues \cup {NoValue},
         ReceiveValue(p, k, v)
  PROVE  values' \in [Providers -> [Keys -> TimedValues \cup {NoValue}]]
  BY DEF TypeOK, ReceiveValue

\* The answers of the plugin.
LEMMA AnswerInv ==
  ASSUME Inv, NEW p \in Providers, NEW k \in Keys, DoAnswer(p, k), running' \in Runs
  PROVE  Inv'
<1>1. /\ owed' = [owed EXCEPT ![p][k] = @ - 1] /\ owed[p][k] > 0
      /\ unfinished' = [unfinished EXCEPT ![p] = @ \ Signalled(p, {k})]
      /\ UNCHANGED <<toSubscribe, toUnsubscribe, subscribedKeys, callQueue, eventQueue,
                     pluginConstructed, plugin, pluginState, pluginKeys, values>>
  BY DEF DoAnswer, scheduleVars, queueVars, pluginVars
<1>2. TypeOK /\ Signalled(p, {k}) \in SUBSET Keys
  BY DEF Inv, Signalled
<1>3. TypeOK'
  <2>1. KeySets(unfinished')
    BY <1>1, <1>2, TypeParts, KeySetUpdates
  <2>2. owed' \in [Providers -> [Keys -> Nat]]
    <3>1. owed \in [Providers -> [Keys -> Nat]]
      BY <1>2 DEF TypeOK
    <3>2. owed[p][k] - 1 \in Nat
      BY <1>1, <3>1
    <3>3. QED
      BY <1>1, <3>1, <3>2
  <2>3. RestTypes'
    BY <1>1, <1>2, <2>2, TypeParts DEF RestTypes
  <2>4. QED
    BY <1>1, <1>2, <2>1, <2>3, TypeParts, TypePartsNext
<1>4. WaitInv'
  BY <1>1, <1>2, TypeParts DEF Inv, KeySets, WaitInv
<1>5. QED
  BY <1>1, <1>3, <1>4 DEF Inv, QueueInv, ScheduleInv, ConstructInv

\* The steps that only change cached values.
LEMMA ValueInv ==
  ASSUME Inv,
         UNCHANGED <<scheduleVars, queueVars, pluginVars, envVars, unfinished>>,
         running' \in Runs,
         values' \in [Providers -> [Keys -> TimedValues \cup {NoValue}]]
  PROVE  Inv'
<1>1. UNCHANGED <<toSubscribe, toUnsubscribe, subscribedKeys, callQueue, eventQueue,
                  pluginConstructed, plugin, pluginState, pluginKeys, owed, unfinished>>
  BY DEF scheduleVars, queueVars, pluginVars, envVars
<1>2. TypeOK'
  BY <1>1 DEF Inv, TypeOK
<1>3. QED
  BY <1>1, <1>2 DEF Inv, QueueInv, ScheduleInv, ConstructInv, WaitInv

\* Every step of every thread and of the plugin.
LEMMA NextInv == Inv /\ [Next]_providerVars => Inv'
<1> SUFFICES ASSUME Inv, [Next]_providerVars PROVE Inv'
  OBVIOUS
<1>1. CASE UNCHANGED providerVars
  <2>1. values' = values /\ running' = running /\ TypeOK
    BY <1>1 DEF providerVars, Inv
  <2>2. values' \in [Providers -> [Keys -> TimedValues \cup {NoValue}]] /\ running' \in Runs
    BY <2>1 DEF TypeOK
  <2>3. QED
    BY <1>1, <2>2, ValueInv DEF providerVars
<1>2. ASSUME NEW p \in Providers, OnQueuedCall(p) PROVE Inv'
  BY <1>2, OnQueuedCallInv
<1>3. ASSUME NEW p \in Providers, HandleSubscribes(p) PROVE Inv'
  BY <1>3, HandleSubscribesInv
<1>4. ASSUME NEW p \in Providers, ConstructPlugin(p) \/ BlockUntilSubscribed(p) PROVE Inv'
  BY <1>4, ConstructPluginInv DEF ConstructPlugin, BlockUntilSubscribed
<1>5. ASSUME NEW p \in Providers, OnPluginReady(p) PROVE Inv'
  BY <1>5, OnPluginReadyInv
<1>6. ASSUME NEW p \in Providers, OnPluginReadyIgnored(p) PROVE Inv'
  BY <1>6, OnPluginReadyIgnoredInv
<1>7. ASSUME NEW p \in Providers, OnPluginFailed(p) PROVE Inv'
  BY <1>7, OnPluginFailedInv
<1>8. ASSUME NEW p \in Providers, ClearValues(p) PROVE Inv'
  <2>1. values' = [values EXCEPT ![p] = [k \in Keys |-> NoValue]] /\ running' = running
    BY <1>8 DEF ClearValues
  <2>2. values' \in [Providers -> [Keys -> TimedValues \cup {NoValue}]] /\ running' \in Runs
    BY <2>1 DEF Inv, TypeOK
  <2>3. QED
    BY <1>8, <2>2, ValueInv DEF ClearValues
<1>9. ASSUME NEW p \in Providers, NEW k \in Keys, Subscribe(p, k) PROVE Inv'
  BY <1>9, SubscribeInv DEF Subscribe
<1>10. ASSUME NEW p \in Providers, NEW k \in Keys, Unsubscribe(p, k) PROVE Inv'
  BY <1>10, UnsubscribeInv
<1>11. ASSUME NEW p \in Providers, NEW k \in Keys, OnPluginSubscribeFinished(p, k) PROVE Inv'
  BY <1>11, RunTypes, AnswerInv DEF OnPluginSubscribeFinished
<1>12. ASSUME NEW p \in Providers, NEW k \in Keys, OnPluginSubscribeFailed(p, k) PROVE Inv'
  BY <1>12, AnswerInv DEF OnPluginSubscribeFailed, Inv, TypeOK
<1>13. ASSUME NEW p \in Providers, NEW k \in Keys,
              StoreValue(p, k) \/ OnPluginValueChanged(p, k)
       PROVE  Inv'
  <2>1. values' \in [Providers -> [Keys -> TimedValues \cup {NoValue}]]
    BY <1>13, ReceiveValueTyped DEF StoreValue, OnPluginValueChanged, Inv
  <2>2. running' \in Runs
    BY <1>13, RunTypes DEF StoreValue, OnPluginValueChanged, Inv, TypeOK
  <2>3. QED
    BY <1>13, <2>1, <2>2, ValueInv DEF StoreValue, OnPluginValueChanged
<1>14. QED
  BY <1>1, <1>2, <1>3, <1>4, <1>5, <1>6, <1>7, <1>8, <1>9, <1>10, <1>11, <1>12, <1>13 DEF Next,
                                                                                          PluginReady

\* Type correctness, with what its induction rests on: the queue posts no call
\* twice (queueOnce), and the schedule stays consistent with the intention.
THEOREM InvHolds == Spec => []Inv
  BY InitInv, NextInv, PTL DEF Spec

\* Provider's variables keep their types; queueOnce never posts a call twice.
THEOREM TypeCorrect == Spec => []TypeOK
<1>1. Inv => TypeOK
  BY DEF Inv
<1>2. QED
  BY <1>1, InvHolds, PTL

-----------------------------------------------------------------------------
(* No lost wakeup                                                          *)

\* NoLostWakeup, over the call queue.
WakeupInv ==
  \A p \in Providers :
    pluginState[p] # INITIALIZING /\ Scheduled(p) # {}
      => HandleSubscribesCall \in callQueue[p] \/ running = <<p, HandleSubscribesCall>>

\* callQueue records what is posted, so that it may stand for the event queue.
LEMMA WakeupIsNoLostWakeup == Inv => (WakeupInv <=> NoLostWakeup)
  BY PostedIsQueued DEF Inv, WakeupInv, NoLostWakeup, HandlePending

\* The calls are told apart, and the event loop from a call.
LEMMA DistinctCalls ==
  /\ ConstructPluginCall # HandleSubscribesCall
  /\ \A p, m : Idle # <<p, m>>
  /\ \A p, k, q, m : Storing(p, k) # <<q, m>>
  BY DEF ConstructPluginCall, HandleSubscribesCall, Idle, Storing

\* Whoever schedules keys calls queueOnce, and a call that leaves the queue runs.
LEMMA WakeupNext == Inv /\ WakeupInv /\ [Next]_providerVars => WakeupInv'
<1> SUFFICES ASSUME Inv, WakeupInv, [Next]_providerVars PROVE WakeupInv'
  OBVIOUS
<1> USE DEF WakeupInv, Scheduled
<1>0. TypeOK /\ QueueInv
  BY DEF Inv
<1>1. ASSUME UNCHANGED <<toSubscribe, toUnsubscribe, callQueue, pluginState, running>>
      PROVE  WakeupInv'
  BY <1>1
<1>2. ASSUME NEW p \in Providers, OnQueuedCall(p) PROVE WakeupInv'
  <2>1. /\ running = Idle /\ running' = <<p, Head(eventQueue[p])>>
        /\ UNCHANGED <<toSubscribe, toUnsubscribe, pluginState>>
    BY <1>2 DEF OnQueuedCall, MainIdle, scheduleVars, pluginVars
  <2>2. /\ callQueue'[p] = callQueue[p] \ {Head(eventQueue[p])}
        /\ \A q \in Providers \ {p} : callQueue'[q] = callQueue[q]
    BY <1>0, <1>2, OnQueuedCallKeepsQueue
  <2>3. QED
    BY <2>1, <2>2, DistinctCalls
<1>3. ASSUME NEW p \in Providers, HandleSubscribes(p) PROVE WakeupInv'
  <2>1. running = <<p, HandleSubscribesCall>> /\ UNCHANGED <<callQueue, pluginState>>
    BY <1>3 DEF HandleSubscribes, queueVars, pluginVars
  <2>2. /\ pluginState[p] # INITIALIZING => toSubscribe'[p] = {} /\ toUnsubscribe'[p] = {}
        /\ \A q \in Providers \ {p} : /\ toSubscribe'[q] = toSubscribe[q]
                                      /\ toUnsubscribe'[q] = toUnsubscribe[q]
    BY <1>0, <1>3 DEF HandleSubscribes, HandleSubscribesReady, HandleSubscribesFailed,
                      HandleSubscribesInitializing, TypeOK
  <2>3. QED
    BY <2>1, <2>2
<1>4. ASSUME NEW p \in Providers, ConstructPlugin(p) \/ BlockUntilSubscribed(p)
      PROVE  WakeupInv'
  <2>1. /\ \A q \in Providers : running # <<q, HandleSubscribesCall>>
        /\ UNCHANGED <<toSubscribe, toUnsubscribe, callQueue>>
    BY <1>4, DistinctCalls DEF ConstructPlugin, BlockUntilSubscribed, ConstructPluginBody,
                               MainIdle, scheduleVars, queueVars
  <2>2. \/ pluginState' = pluginState
        \/ pluginState' = [pluginState EXCEPT ![p] = FAILED] /\ running' = <<p, HandleSubscribesCall>>
    BY <1>4 DEF ConstructPlugin, BlockUntilSubscribed, ConstructPluginBody
  <2>3. QED
    BY <1>0, <2>1, <2>2 DEF TypeOK
<1>5. ASSUME NEW p \in Providers, OnPluginReady(p) \/ OnPluginFailed(p) PROVE WakeupInv'
  <2>1. /\ running = Idle /\ running' = <<p, HandleSubscribesCall>> /\ callQueue' = callQueue
        /\ \A q \in Providers \ {p} : /\ toSubscribe'[q] = toSubscribe[q]
                                      /\ toUnsubscribe'[q] = toUnsubscribe[q]
                                      /\ pluginState'[q] = pluginState[q]
    BY <1>0, <1>5 DEF OnPluginReady, OnPluginFailed, MainIdle, scheduleVars, queueVars, TypeOK
  <2>2. QED
    BY <2>1, DistinctCalls
<1>6. ASSUME NEW p \in Providers, NEW k \in Keys, Subscribe(p, k) \/ Unsubscribe(p, k)
      PROVE  WakeupInv'
  <2>1. UNCHANGED <<pluginState, running>>
    BY <1>6 DEF Subscribe, Unsubscribe, DoSubscribe, DoUnsubscribe, pluginVars
  <2>2. /\ \A q \in Providers : callQueue[q] \subseteq callQueue'[q]
        /\ \/ HandleSubscribesCall \in callQueue'[p]
           \/ toSubscribe'[p] \cup toUnsubscribe'[p] \subseteq toSubscribe[p] \cup toUnsubscribe[p]
        /\ \A q \in Providers \ {p} : /\ toSubscribe'[q] = toSubscribe[q]
                                      /\ toUnsubscribe'[q] = toUnsubscribe[q]
    <3>1. CASE QueueOnce(p, HandleSubscribesCall)
      <4>1. /\ HandleSubscribesCall \in callQueue'[p]
            /\ \A q \in Providers : callQueue[q] \subseteq callQueue'[q]
        BY <1>0, <3>1, QueueOnceKeepsQueue
      <4>2. QED
        BY <1>0, <1>6, <4>1 DEF Subscribe, Unsubscribe, DoSubscribe, DoUnsubscribe, TypeOK
    <3>2. CASE ~QueueOnce(p, HandleSubscribesCall)
      <4>1. callQueue' = callQueue
        BY <1>6, <3>2 DEF Subscribe, Unsubscribe, DoSubscribe, DoUnsubscribe, Wake, queueVars
      <4>2. QED
        BY <1>0, <1>6, <3>2, <4>1 DEF Subscribe, Unsubscribe, DoSubscribe, DoUnsubscribe, Wake,
                                      TypeOK
    <3>3. QED
      BY <3>1, <3>2
  <2>3. QED
    BY <2>1, <2>2
<1>7. ASSUME NEW p \in Providers, OnPluginReadyIgnored(p) \/ ClearValues(p) PROVE WakeupInv'
  BY <1>1, <1>7 DEF OnPluginReadyIgnored, ClearValues, scheduleVars, queueVars, pluginVars
<1>8. ASSUME NEW p \in Providers, NEW k \in Keys,
             PluginAnswers(p, k) \/ StoreValue(p, k) \/ OnPluginValueChanged(p, k)
      PROVE  WakeupInv'
  <2>1. UNCHANGED <<toSubscribe, toUnsubscribe, callQueue, pluginState>>
    BY <1>8 DEF PluginAnswers, OnPluginSubscribeFinished, OnPluginSubscribeFailed, DoAnswer,
                StoreValue, OnPluginValueChanged, scheduleVars, queueVars, pluginVars
  <2>2. \/ running' = running
        \/ \A q \in Providers : running # <<q, HandleSubscribesCall>>
    BY <1>8, DistinctCalls DEF PluginAnswers, OnPluginSubscribeFinished, OnPluginSubscribeFailed,
                               DoAnswer, StoreValue, OnPluginValueChanged, MainIdle
  <2>3. QED
    BY <2>1, <2>2
<1>9. CASE UNCHANGED providerVars
  BY <1>1, <1>9 DEF providerVars, scheduleVars, queueVars, pluginVars
<1>10. QED
  BY <1>2, <1>3, <1>4, <1>5, <1>6, <1>7, <1>8, <1>9 DEF Next, PluginAnswers, PluginReady

\* No lost wakeup (subscribe, unsubscribe, queueOnce, onQueuedCall,
\* onPluginReady, onPluginFailed): scheduled work is always followed by a run
\* of handleSubscribes, for any number of threads.
THEOREM WakeupHolds == Spec => []NoLostWakeup
<1>1. Init => WakeupInv
  BY DEF Init, WakeupInv, Scheduled
<1>2. Spec => [](Inv /\ WakeupInv)
  BY <1>1, InitInv, NextInv, WakeupNext, PTL DEF Spec
<1>3. Inv /\ WakeupInv => NoLostWakeup
  BY WakeupIsNoLostWakeup
<1>4. QED
  BY <1>2, <1>3, PTL

-----------------------------------------------------------------------------
(* The intention reaches the plugin                                        *)

\* What the steps do to the intention, the schedule and the plugin's keys.
LEMMA DifferenceNext ==
  ASSUME Inv, DifferenceInv, [Next]_providerVars
  PROVE  DifferenceInv'
<1> USE DEF DifferenceInv, KeptByNow
<1>0. /\ TypeOK /\ ScheduleInv
      /\ KeySets(toSubscribe) /\ KeySets(toUnsubscribe) /\ KeySets(subscribedKeys)
      /\ KeySets(pluginKeys) /\ pluginState \in [Providers -> PluginStates]
  BY TypeParts DEF Inv, RestTypes
<1>1. ASSUME UNCHANGED <<toSubscribe, toUnsubscribe, subscribedKeys, pluginKeys, pluginState>>
      PROVE  DifferenceInv'
  BY <1>1
<1>2. ASSUME NEW p \in Providers, HandleSubscribes(p) PROVE DifferenceInv'
  <2>1. pluginState' = pluginState /\ subscribedKeys' = subscribedKeys
    BY <1>2 DEF HandleSubscribes, pluginVars
  <2>2. CASE HandleSubscribesReady(p)
    <3>1. /\ pluginKeys' = [pluginKeys EXCEPT ![p] = (@ \cup toSubscribe[p]) \ toUnsubscribe[p]]
          /\ toSubscribe' = [toSubscribe EXCEPT ![p] = {}]
          /\ toUnsubscribe' = [toUnsubscribe EXCEPT ![p] = {}]
          /\ pluginState[p] = READY
      BY <2>2 DEF HandleSubscribesReady
    <3>2. /\ (pluginKeys[p] \cup toSubscribe[p]) \ toUnsubscribe[p] \subseteq subscribedKeys[p]
          /\ ~ReadyWhenReady =>
               (pluginKeys[p] \cup toSubscribe[p]) \ toUnsubscribe[p] = subscribedKeys[p]
      BY <1>0, <3>1 DEF ScheduleInv
    <3>3. QED
      BY <1>0, <2>1, <3>1, <3>2 DEF KeySets
  <2>3. CASE HandleSubscribesFailed(p)
    <3>1. /\ toSubscribe' = [toSubscribe EXCEPT ![p] = {}]
          /\ toUnsubscribe' = [toUnsubscribe EXCEPT ![p] = {}]
          /\ pluginKeys' = pluginKeys
          /\ pluginState[p] = FAILED
      BY <2>3 DEF HandleSubscribesFailed, envVars
    <3>2. QED
      BY <1>0, <2>1, <3>1 DEF KeySets, FAILED, READY
  <2>4. CASE HandleSubscribesInitializing(p)
    BY <1>1, <2>1, <2>4 DEF HandleSubscribesInitializing, envVars
  <2>5. QED
    BY <1>2, <2>2, <2>3, <2>4 DEF HandleSubscribes
<1>3. ASSUME NEW p \in Providers, ConstructPlugin(p) \/ BlockUntilSubscribed(p)
      PROVE  DifferenceInv'
  <2>1. UNCHANGED <<toSubscribe, toUnsubscribe, subscribedKeys, pluginKeys>>
    BY <1>3 DEF ConstructPlugin, BlockUntilSubscribed, ConstructPluginBody, scheduleVars, envVars
  <2>2. \/ pluginState' = pluginState
        \/ pluginState' = [pluginState EXCEPT ![p] = FAILED] /\ ~pluginConstructed[p]
    BY <1>3 DEF ConstructPlugin, BlockUntilSubscribed, ConstructPluginBody
  <2>3. ~pluginConstructed[p] => pluginState[p] # READY
    BY DEF Inv, ConstructInv, INITIALIZING, READY
  <2>4. QED
    BY <1>0, <2>1, <2>2, <2>3 DEF FAILED, READY
<1>4. ASSUME NEW p \in Providers, OnPluginReady(p) PROVE DifferenceInv'
  <2>1. /\ toUnsubscribe' = [toUnsubscribe EXCEPT ![p] = {}]
        /\ toSubscribe' = [toSubscribe EXCEPT ![p] = subscribedKeys[p]]
        /\ pluginState' = [pluginState EXCEPT ![p] = READY]
        /\ pluginKeys' = [pluginKeys EXCEPT ![p] = {}]
        /\ subscribedKeys' = subscribedKeys
    BY <1>4 DEF OnPluginReady, Renewed
  <2>2. QED
    BY <1>0, <2>1 DEF KeySets
<1>5. ASSUME NEW p \in Providers, OnPluginFailed(p) PROVE DifferenceInv'
  <2>1. /\ pluginState' = [pluginState EXCEPT ![p] = FAILED]
        /\ pluginKeys' = [pluginKeys EXCEPT ![p] = {}]
        /\ UNCHANGED <<toSubscribe, toUnsubscribe, subscribedKeys>>
    BY <1>5 DEF OnPluginFailed, scheduleVars
  <2>2. QED
    BY <1>0, <2>1 DEF KeySets, FAILED, READY
<1>6. ASSUME NEW p \in Providers, NEW k \in Keys, Subscribe(p, k) PROVE DifferenceInv'
  <2>1. /\ subscribedKeys' = [subscribedKeys EXCEPT ![p] = @ \cup {k}]
        /\ UNCHANGED <<pluginKeys, pluginState>>
        /\ k \notin subscribedKeys[p]
    BY <1>6 DEF Subscribe, DoSubscribe, pluginVars, envVars
  <2>2. CASE k \notin toUnsubscribe[p]
    <3>1. toSubscribe' = [toSubscribe EXCEPT ![p] = @ \cup {k}] /\ toUnsubscribe' = toUnsubscribe
      BY <1>6, <2>2 DEF Subscribe, DoSubscribe, SubscribeReturns
    <3>2. QED
      BY <1>0, <2>1, <3>1 DEF KeySets, ScheduleInv
  <2>3. CASE k \in toUnsubscribe[p]
    <3>1. toUnsubscribe' = [toUnsubscribe EXCEPT ![p] = @ \ {k}] /\ toSubscribe' = toSubscribe
      BY <1>6, <2>3 DEF Subscribe, DoSubscribe, SubscribeReturns
    <3>2. k \notin toSubscribe[p]
      BY <1>0, <2>1 DEF ScheduleInv
    <3>3. QED
      BY <1>0, <2>1, <2>3, <3>1, <3>2 DEF KeySets, ScheduleInv
  <2>4. QED
    BY <2>2, <2>3
<1>7. ASSUME NEW p \in Providers, NEW k \in Keys, Unsubscribe(p, k) PROVE DifferenceInv'
  <2>1. /\ subscribedKeys' = [subscribedKeys EXCEPT ![p] = @ \ {k}]
        /\ UNCHANGED <<pluginKeys, pluginState>>
        /\ k \in subscribedKeys[p]
    BY <1>7 DEF Unsubscribe, DoUnsubscribe, pluginVars, envVars
  <2>2. CASE k \in toSubscribe[p]
    <3>1. toSubscribe' = [toSubscribe EXCEPT ![p] = @ \ {k}] /\ toUnsubscribe' = toUnsubscribe
      BY <1>7, <2>2 DEF Unsubscribe, DoUnsubscribe
    <3>2. QED
      BY <1>0, <2>1, <2>2, <3>1 DEF KeySets, ScheduleInv
  <2>3. CASE k \notin toSubscribe[p]
    <3>1. toUnsubscribe' = [toUnsubscribe EXCEPT ![p] = @ \cup {k}] /\ toSubscribe' = toSubscribe
      BY <1>7, <2>3 DEF Unsubscribe, DoUnsubscribe
    <3>2. QED
      BY <1>0, <2>1, <2>3, <3>1 DEF KeySets, ScheduleInv
  <2>4. QED
    BY <2>2, <2>3
<1>8. ASSUME NEW p \in Providers, OnQueuedCall(p) \/ ClearValues(p) PROVE DifferenceInv'
  BY <1>1, <1>8 DEF OnQueuedCall, ClearValues, scheduleVars, pluginVars, envVars
<1>9. ASSUME NEW p \in Providers, OnPluginReadyIgnored(p) PROVE DifferenceInv'
  <2>1. /\ ReadyWhenReady
        /\ pluginKeys' = [pluginKeys EXCEPT ![p] = {}]
        /\ UNCHANGED <<toSubscribe, toUnsubscribe, subscribedKeys, pluginState>>
    BY <1>9 DEF OnPluginReadyIgnored, scheduleVars, pluginVars
  <2>2. QED
    BY <1>0, <2>1 DEF KeySets
<1>10. ASSUME NEW p \in Providers, NEW k \in Keys,
              PluginAnswers(p, k) \/ StoreValue(p, k) \/ OnPluginValueChanged(p, k)
       PROVE  DifferenceInv'
  BY <1>1, <1>10 DEF PluginAnswers, OnPluginSubscribeFinished, OnPluginSubscribeFailed, DoAnswer,
                     StoreValue, OnPluginValueChanged, scheduleVars, pluginVars, envVars
<1>11. CASE UNCHANGED providerVars
  BY <1>1, <1>11 DEF providerVars, scheduleVars, pluginVars, envVars
<1>12. QED
  BY <1>2, <1>3, <1>4, <1>5, <1>6, <1>7, <1>8, <1>9, <1>10, <1>11 DEF Next, PluginAnswers,
                                                                      PluginReady

\* The schedule remains the difference between intention and plugin
\* (handleSubscribes, onPluginReady).
LEMMA DifferenceHolds == Spec => [](Inv /\ DifferenceInv)
<1>1. Init => DifferenceInv
  BY DEF Init, DifferenceInv, KeptByNow, READY, INITIALIZING
<1>2. Inv /\ DifferenceInv /\ [Next]_providerVars => DifferenceInv'
  BY DifferenceNext
<1>3. QED
  BY <1>1, <1>2, InitInv, NextInv, PTL DEF Spec

\* subscribe, unsubscribe, onPluginReady, handleSubscribes: with nothing left
\* to do, a ready plugin keeps exactly what is wanted, provided that it never
\* signals ready while it is ready.
THEOREM IntentHolds ==
  ASSUME ~ReadyWhenReady
  PROVE  Spec => []IntentReachesPlugin
<1>1. Inv /\ DifferenceInv => IntentReachesPlugin
  BY DEF Inv, DifferenceInv, KeptByNow, ScheduleInv, IntentReachesPlugin, Scheduled
<1>2. QED
  BY <1>1, DifferenceHolds, PTL

\* Of any plugin, one that says ready while it is ready included: with nothing
\* left to do it keeps nothing that is not wanted any more, and a plugin that is
\* not ready keeps nothing (unsubscribe, onPluginFailed, handleSubscribes).
NothingUnwantedKept ==
  \A p \in Providers :
    /\ pluginState[p] = READY /\ Scheduled(p) = {} => pluginKeys[p] \subseteq subscribedKeys[p]
    /\ pluginState[p] # READY => pluginKeys[p] = {}

THEOREM UnwantedDropped == Spec => []NothingUnwantedKept
<1>1. Inv /\ DifferenceInv => NothingUnwantedKept
  BY DEF DifferenceInv, KeptByNow, NothingUnwantedKept, Scheduled
<1>2. QED
  BY <1>1, DifferenceHolds, PTL

-----------------------------------------------------------------------------
(* Refinement of Reconciler                                                *)

\* Nothing wanted, nothing kept, nothing up.
LEMMA RefineInit == Init => Reconciling!Init
  BY DEF Init, Reconciling!Init, INITIALIZING, READY

\* Each step of Provider is one of the abstract specification or a stutter.
LEMMA RefineNext ==
  ASSUME ~ReadyWhenReady, Inv, DifferenceInv, [Next]_providerVars
  PROVE  [Reconciling!Next]_(Reconciling!absVars)
<1> DEFINE AbsStep == [Reconciling!Next]_(Reconciling!absVars)
<1>0. /\ TypeOK /\ ScheduleInv /\ pluginState \in [Providers -> PluginStates]
      /\ KeySets(toSubscribe) /\ KeySets(toUnsubscribe) /\ KeySets(subscribedKeys)
      /\ KeySets(pluginKeys)
  BY TypeParts DEF Inv, RestTypes
<1>1. ASSUME UNCHANGED <<subscribedKeys, pluginKeys, pluginState>>
      PROVE  AbsStep
  BY <1>1 DEF Reconciling!absVars
<1>2. ASSUME NEW p \in Providers, HandleSubscribes(p) PROVE AbsStep
  <2>1. pluginState' = pluginState /\ subscribedKeys' = subscribedKeys
    BY <1>2 DEF HandleSubscribes, pluginVars
  <2>2. CASE HandleSubscribesReady(p)
    <3>1. /\ pluginKeys' = [pluginKeys EXCEPT ![p] = (@ \cup toSubscribe[p]) \ toUnsubscribe[p]]
          /\ pluginState[p] = READY
      BY <2>2 DEF HandleSubscribesReady
    <3>2. (pluginKeys[p] \cup toSubscribe[p]) \ toUnsubscribe[p] = subscribedKeys[p]
      BY <1>0, <3>1 DEF ScheduleInv, DifferenceInv, KeptByNow
    <3>3. Reconciling!Reconcile(p)
      BY <2>1, <3>1, <3>2 DEF Reconciling!Reconcile
    <3>4. QED
      BY <3>3 DEF Reconciling!Next
  <2>3. CASE ~HandleSubscribesReady(p)
    BY <1>1, <1>2, <2>1, <2>3 DEF HandleSubscribes, HandleSubscribesFailed,
       HandleSubscribesInitializing, envVars
  <2>4. QED
    BY <2>2, <2>3
<1>3. ASSUME NEW p \in Providers, ConstructPlugin(p) \/ BlockUntilSubscribed(p)
      PROVE  AbsStep
  <2>1. UNCHANGED <<subscribedKeys, pluginKeys>>
    BY <1>3 DEF ConstructPlugin, BlockUntilSubscribed, ConstructPluginBody, scheduleVars, envVars
  <2>2. \/ pluginState' = pluginState
        \/ pluginState' = [pluginState EXCEPT ![p] = FAILED] /\ ~pluginConstructed[p]
    BY <1>3 DEF ConstructPlugin, BlockUntilSubscribed, ConstructPluginBody
  <2>3. ~pluginConstructed[p] => pluginState[p] # READY
    BY DEF Inv, ConstructInv, INITIALIZING, READY
  <2>4. \A q \in Providers : (pluginState'[q] = READY) <=> (pluginState[q] = READY)
    BY <1>0, <2>2, <2>3 DEF FAILED, READY
  <2>5. [q \in Providers |-> pluginState'[q] = READY] = [q \in Providers |-> pluginState[q] = READY]
    BY <2>4
  <2>6. QED
    BY <2>1, <2>5 DEF Reconciling!absVars
<1>4. ASSUME NEW p \in Providers, OnPluginReady(p) PROVE AbsStep
  <2>1. /\ pluginState' = [pluginState EXCEPT ![p] = READY]
        /\ pluginKeys' = [pluginKeys EXCEPT ![p] = {}]
        /\ subscribedKeys' = subscribedKeys
        /\ pluginState[p] # READY
    BY <1>4 DEF OnPluginReady
  <2>2. [q \in Providers |-> pluginState'[q] = READY]
          = [[q \in Providers |-> pluginState[q] = READY] EXCEPT ![p] = TRUE]
    BY <1>0, <2>1
  <2>3. Reconciling!ComeUp(p)
    BY <2>1, <2>2 DEF Reconciling!ComeUp
  <2>4. QED
    BY <2>3 DEF Reconciling!Next
<1>5. ASSUME NEW p \in Providers, OnPluginFailed(p) PROVE AbsStep
  <2>1. /\ pluginState' = [pluginState EXCEPT ![p] = FAILED]
        /\ pluginKeys' = [pluginKeys EXCEPT ![p] = {}]
        /\ subscribedKeys' = subscribedKeys
    BY <1>5 DEF OnPluginFailed, scheduleVars
  <2>2. [q \in Providers |-> pluginState'[q] = READY]
          = [[q \in Providers |-> pluginState[q] = READY] EXCEPT ![p] = FALSE]
    BY <1>0, <2>1 DEF FAILED, READY
  <2>3. Reconciling!GoDown(p)
    BY <2>1, <2>2 DEF Reconciling!GoDown
  <2>4. QED
    BY <2>3 DEF Reconciling!Next
<1>6. ASSUME NEW p \in Providers, NEW k \in Keys, Subscribe(p, k) PROVE AbsStep
  <2>1. /\ subscribedKeys' = [subscribedKeys EXCEPT ![p] = @ \cup {k}]
        /\ UNCHANGED <<pluginKeys, pluginState>>
    BY <1>6 DEF Subscribe, DoSubscribe, pluginVars, envVars
  <2>2. Reconciling!Want(p, k)
    BY <2>1 DEF Reconciling!Want
  <2>3. QED
    BY <2>2 DEF Reconciling!Next
<1>7. ASSUME NEW p \in Providers, NEW k \in Keys, Unsubscribe(p, k) PROVE AbsStep
  <2>1. /\ subscribedKeys' = [subscribedKeys EXCEPT ![p] = @ \ {k}]
        /\ UNCHANGED <<pluginKeys, pluginState>>
    BY <1>7 DEF Unsubscribe, DoUnsubscribe, pluginVars, envVars
  <2>2. Reconciling!Unwant(p, k)
    BY <2>1 DEF Reconciling!Unwant
  <2>3. QED
    BY <2>2 DEF Reconciling!Next
<1>8. ASSUME NEW p \in Providers, OnQueuedCall(p) \/ ClearValues(p) PROVE AbsStep
  BY <1>1, <1>8 DEF OnQueuedCall, ClearValues, scheduleVars, pluginVars, envVars
<1>9. ASSUME NEW p \in Providers, OnPluginReadyIgnored(p) PROVE AbsStep
  BY <1>9 DEF OnPluginReadyIgnored
<1>10. ASSUME NEW p \in Providers, NEW k \in Keys,
              PluginAnswers(p, k) \/ StoreValue(p, k) \/ OnPluginValueChanged(p, k)
       PROVE  AbsStep
  BY <1>1, <1>10 DEF PluginAnswers, OnPluginSubscribeFinished, OnPluginSubscribeFailed, DoAnswer,
                     StoreValue, OnPluginValueChanged, scheduleVars, pluginVars, envVars
<1>11. CASE UNCHANGED providerVars
  BY <1>1, <1>11 DEF providerVars, scheduleVars, pluginVars, envVars
<1>12. QED
  BY <1>2, <1>3, <1>4, <1>5, <1>6, <1>7, <1>8, <1>9, <1>10, <1>11 DEF Next, PluginAnswers,
                                                                      PluginReady

\* handleSubscribes reconciles the plugin with the whole intention at once,
\* although it only ever sends differences; every other step is invisible to
\* the plugin or a change of the intention or of the plugin's presence.
THEOREM RefinesReconciler ==
  ASSUME ~ReadyWhenReady
  PROVE  Spec => ImplementsReconciler
<1>1. Inv /\ DifferenceInv /\ [Next]_providerVars => [Reconciling!Next]_(Reconciling!absVars)
  BY RefineNext
<1>2. Spec => [](Inv /\ DifferenceInv)
  BY DifferenceHolds
<1>3. QED
  BY <1>1, <1>2, RefineInit, PTL DEF Spec, ImplementsReconciler, Reconciling!Spec

-----------------------------------------------------------------------------
(* Nobody waits for nothing                                                *)

\* A plugin that failed may have forgotten the calls it has not answered; they
\* are renewed when it is ready again.
Forgotten(p) == ~FailureAnswersPending /\ pluginState[p] = FAILED
OwedInv ==
  \A p \in Providers : \A k \in unfinished[p] :
    k \in toSubscribe[p] \/ owed[p][k] > 0 \/ Forgotten(p)

\* subscribe() schedules the key, handleSubscribes passes it on or signals it.
LEMMA OwedNext ==
  ASSUME Inv, OwedInv, [Next]_providerVars
  PROVE  OwedInv'
<1> USE DEF OwedInv, Forgotten
<1>0. /\ TypeOK /\ ScheduleInv /\ WaitInv
      /\ KeySets(toSubscribe) /\ KeySets(subscribedKeys) /\ KeySets(unfinished)
      /\ owed \in [Providers -> [Keys -> Nat]] /\ pluginState \in [Providers -> PluginStates]
  BY TypeParts DEF Inv, RestTypes
<1>1. ASSUME UNCHANGED <<toSubscribe, owed, unfinished, pluginState>> PROVE OwedInv'
  BY <1>1
<1>2. ASSUME NEW p \in Providers, HandleSubscribes(p) PROVE OwedInv'
  <2>0. pluginState' = pluginState
    BY <1>2 DEF HandleSubscribes, pluginVars
  <2>1. CASE HandleSubscribesReady(p)
    <3>1. PICK atOnce \in SUBSET toSubscribe[p] :
            /\ unfinished' = [unfinished EXCEPT ![p] = @ \ Signalled(p, atOnce)]
            /\ owed' = [owed EXCEPT ![p] =
                          [k \in Keys |-> IF k \in toSubscribe[p] \ atOnce
                                          THEN owed[p][k] + 1 ELSE owed[p][k]]]
      BY <2>1 DEF HandleSubscribesReady
    <3>2. toSubscribe' = [toSubscribe EXCEPT ![p] = {}]
      BY <2>1 DEF HandleSubscribesReady
    <3>3. \A q \in Providers \ {p} : /\ unfinished'[q] = unfinished[q] /\ owed'[q] = owed[q]
                                     /\ toSubscribe'[q] = toSubscribe[q]
      BY <1>0, <3>1, <3>2 DEF KeySets
    <3>4. Signalled(p, atOnce) = atOnce
      BY <1>0 DEF Signalled, ScheduleInv
    <3>5. ASSUME NEW k \in unfinished'[p] PROVE owed'[p][k] > 0
      <4>1. k \in unfinished[p] /\ k \notin atOnce /\ k \in Keys
        BY <1>0, <3>1, <3>4, <3>5 DEF KeySets
      <4>2. owed'[p][k] = IF k \in toSubscribe[p] \ atOnce THEN owed[p][k] + 1 ELSE owed[p][k]
        BY <1>0, <3>1, <4>1
      <4>3. owed[p][k] \in Nat
        BY <1>0, <4>1
      <4>4. ~Forgotten(p)
        BY <2>1 DEF HandleSubscribesReady, READY, FAILED
      <4>5. QED
        BY <4>1, <4>2, <4>3, <4>4
    <3>6. QED
      BY <2>0, <3>3, <3>5
  <2>2. CASE HandleSubscribesFailed(p)
    <3>1. /\ unfinished' = [unfinished EXCEPT ![p] = @ \ toSubscribe[p]]
          /\ toSubscribe' = [toSubscribe EXCEPT ![p] = {}]
          /\ owed' = owed
      BY <2>2 DEF HandleSubscribesFailed, SignalledOnFailure, envVars
    <3>2. QED
      BY <1>0, <2>0, <3>1 DEF KeySets
  <2>3. CASE HandleSubscribesInitializing(p)
    BY <1>1, <2>0, <2>3 DEF HandleSubscribesInitializing, envVars
  <2>4. QED
    BY <1>2, <2>1, <2>2, <2>3 DEF HandleSubscribes
<1>3. ASSUME NEW p \in Providers, OnPluginReady(p) PROVE OwedInv'
  <2>1. /\ toSubscribe' = [toSubscribe EXCEPT ![p] = subscribedKeys[p]]
        /\ pluginState' = [pluginState EXCEPT ![p] = READY]
        /\ UNCHANGED <<owed, unfinished>>
    BY <1>3 DEF OnPluginReady, Renewed
  <2>2. QED
    BY <1>0, <2>1 DEF KeySets, WaitInv
<1>4. ASSUME NEW p \in Providers, NEW k \in Keys, Subscribe(p, k) PROVE OwedInv'
  <2>1. \/ UNCHANGED <<toSubscribe, unfinished>>
        \/ /\ toSubscribe' = [toSubscribe EXCEPT ![p] = @ \cup {k}]
           /\ unfinished' = [unfinished EXCEPT ![p] = @ \cup {k}]
    BY <1>4 DEF Subscribe, DoSubscribe
  <2>2. UNCHANGED <<owed, pluginState>>
    BY <1>4 DEF Subscribe, DoSubscribe, envVars, pluginVars
  <2>3. QED
    BY <1>0, <2>1, <2>2 DEF KeySets
<1>5. ASSUME NEW p \in Providers, NEW k \in Keys, Unsubscribe(p, k) PROVE OwedInv'
  <2>1. /\ toSubscribe' = toSubscribe \/ toSubscribe' = [toSubscribe EXCEPT ![p] = @ \ {k}]
        /\ unfinished' = [unfinished EXCEPT ![p] = @ \ {k}]
        /\ UNCHANGED <<owed, pluginState>>
    BY <1>5 DEF Unsubscribe, DoUnsubscribe, envVars, pluginVars
  <2>2. QED
    BY <1>0, <2>1 DEF KeySets
<1>6. ASSUME NEW p \in Providers, NEW k \in Keys, PluginAnswers(p, k) PROVE OwedInv'
  <2>1. /\ owed' = [owed EXCEPT ![p][k] = @ - 1] /\ owed[p][k] > 0
        /\ unfinished' = [unfinished EXCEPT ![p] = @ \ Signalled(p, {k})]
        /\ UNCHANGED <<toSubscribe, pluginState>>
    BY <1>6 DEF PluginAnswers, OnPluginSubscribeFinished, OnPluginSubscribeFailed, DoAnswer,
                scheduleVars, pluginVars
  <2>2. k \notin unfinished'[p]
    BY <1>0, <2>1 DEF KeySets, Signalled, WaitInv
  <2>3. QED
    BY <1>0, <2>1, <2>2 DEF KeySets
<1>7. ASSUME NEW p \in Providers, OnPluginFailed(p) PROVE OwedInv'
  <2>1. /\ pluginState' = [pluginState EXCEPT ![p] = FAILED]
        /\ owed' = IF FailureAnswersPending THEN owed
                   ELSE [owed EXCEPT ![p] = [k \in Keys |-> 0]]
        /\ UNCHANGED <<toSubscribe, unfinished>>
    BY <1>7 DEF OnPluginFailed, scheduleVars
  <2>2. CASE FailureAnswersPending
    BY <2>1, <2>2
  <2>3. CASE ~FailureAnswersPending
    BY <1>0, <2>1, <2>3
  <2>4. QED
    BY <2>2, <2>3
<1>8. ASSUME NEW p \in Providers, ConstructPlugin(p) \/ BlockUntilSubscribed(p) PROVE OwedInv'
  <2>1. /\ UNCHANGED <<toSubscribe, owed, unfinished>>
        /\ pluginState' = pluginState \/ pluginState' = [pluginState EXCEPT ![p] = FAILED]
    BY <1>8 DEF ConstructPlugin, BlockUntilSubscribed, ConstructPluginBody, scheduleVars, envVars
  <2>2. QED
    BY <1>0, <2>1
<1>9. ASSUME NEW p \in Providers, OnQueuedCall(p) \/ OnPluginReadyIgnored(p) \/ ClearValues(p)
       PROVE  OwedInv'
  BY <1>1, <1>9 DEF OnQueuedCall, OnPluginReadyIgnored, ClearValues, scheduleVars, envVars,
     pluginVars
<1>10. ASSUME NEW p \in Providers, NEW k \in Keys, StoreValue(p, k) \/ OnPluginValueChanged(p, k)
      PROVE  OwedInv'
  BY <1>1, <1>10 DEF StoreValue, OnPluginValueChanged, scheduleVars, envVars, pluginVars
<1>11. CASE UNCHANGED providerVars
  BY <1>1, <1>11 DEF providerVars, scheduleVars, envVars, pluginVars
<1>12. QED
  BY <1>2, <1>3, <1>4, <1>5, <1>6, <1>7, <1>10, <1>11, <1>8, <1>9
     DEF Next, PluginAnswers, PluginReady

LEMMA OwedAlways == Spec => []OwedInv
<1>1. Init => OwedInv
  BY DEF Init, OwedInv
<1>2. Inv /\ OwedInv /\ [Next]_providerVars => OwedInv'
  BY OwedNext
<1>3. QED
  BY <1>1, <1>2, InitInv, NextInv, PTL DEF Spec

\* signalSubscribeFinished, handleSubscribes, onPluginFailed: a caller that was
\* told to wait waits for a scheduled key or for an answer of the plugin,
\* provided that a plugin that failed still answers the earlier calls.
THEOREM OwedHolds ==
  ASSUME FailureAnswersPending
  PROVE  Spec => []UnfinishedIsOwed
<1>1. OwedInv => UnfinishedIsOwed
  BY DEF OwedInv, Forgotten, UnfinishedIsOwed
<1>2. QED
  BY <1>1, OwedAlways, PTL

\* Of any plugin: who waits for a key that is not scheduled and for which no
\* answer is owed waits for a failed plugin to be ready again (onPluginFailed,
\* onPluginReady).
OwedOrFailed ==
  \A p \in Providers : \A k \in unfinished[p] :
    k \in toSubscribe[p] \/ owed[p][k] > 0 \/ pluginState[p] = FAILED

THEOREM WaitsExplained == Spec => []OwedOrFailed
<1>1. OwedInv => OwedOrFailed
  BY DEF OwedInv, Forgotten, OwedOrFailed
<1>2. QED
  BY <1>1, OwedAlways, PTL
=============================================================================
