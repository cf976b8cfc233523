------------------------ MODULE ContextProvideProofs ------------------------
(***************************************************************************)
(* Proofs about ContextProvide, for any keys, types and values and any     *)
(* number of changes of the registry.                                      *)
(***************************************************************************)
EXTENDS ContextProvide, TLAPS

-----------------------------------------------------------------------------
(* The inductive invariant                                                 *)

ProvideTypes ==
  /\ ProvideTypeOK
  /\ real \in [ProvideKeys -> AnyValue \cup {IllTyped}]
  /\ started \in BOOLEAN /\ alive \in BOOLEAN
  /\ declared \subseteq ProvideKeys
  /\ dumped.types \in [ProvideKeys -> Types \cup {NoType}]

\* A proxy forwards exactly if the user has not added its key: add disables a
\* proxy, del enables it, and a new one takes over the user's will.
EnabledUnlessAdded == \A k \in Proxied : proxies[k].enabled <=> k \notin properties

\* Nobody is subscribed before the service has been started.
NoDemandBeforeStart == ~started => demanded = {}

\* What a proxy has been told is what its handle knows, and what it has been
\* told while it forwards is what the property holds.
ProxyIsTold ==
  \A k \in Proxied \ replaced :
    /\ proxies[k].posted \/ proxies[k].value = learned[k]
    /\ proxies[k].enabled => held[k] = proxies[k].value

ProvideInv ==
  ProvideTypes /\ EnabledUnlessAdded /\ NoDemandBeforeStart /\ DemandFollows /\ ProxyIsTold

-----------------------------------------------------------------------------
(* Helpers                                                                 *)

LEMMA NewProxyIsProxy ==
  ASSUME NEW k PROVE NewProxy(k) \in Proxies /\ NewProxy(k) # NoProxy
<1>1. ForwardsUnlessAdded(k) \in BOOLEAN
  BY DEF ForwardsUnlessAdded
<1>2. NoValue \in AnyValue
  BY DEF AnyValue
<1>3. NewProxy(k) \in Proxies
  BY <1>1, <1>2 DEF NewProxy, Proxies
<1> QED
  BY <1>3, ProxyAssumption

LEMMA NewProxyFields ==
  ASSUME NEW k PROVE /\ NewProxy(k).enabled <=> k \notin properties
                     /\ NewProxy(k).subscribed = FALSE
                     /\ NewProxy(k).value = NoValue
BY Zenon DEF NewProxy, ForwardsUnlessAdded

LEMMA SetToHolds ==
  ASSUME NEW k \in ProvideKeys, NEW t, NEW word \in Words, held \in [ProvideKeys -> AnyValue],
         SetTo(k, t, word)
  PROVE  /\ held' \in [ProvideKeys -> AnyValue]
         /\ \A j \in ProvideKeys \ {k} : held'[j] = held[j]
<1>1. CASE Parsed(t, word) = {}
  BY <1>1 DEF SetTo
<1>2. CASE Parsed(t, word) # {}
  <2>1. PICK v \in Parsed(t, word) : held' = [held EXCEPT ![k] = v]
    BY <1>2 DEF SetTo
  <2>2. v \in AnyValue
    BY <2>1 DEF Parsed, Words, AnyValue
  <2> QED
    BY <2>1, <2>2
<1> QED
  BY <1>1, <1>2

\* A restart keeps every proxy, but for its subscription.
LEMMA RestartKeeps ==
  ASSUME NEW ps \in [ProvideKeys -> Proxies \cup {NoProxy}], Restart(ps)
  PROVE  /\ proxies' \in [ProvideKeys -> Proxies \cup {NoProxy}]
         /\ \A k \in ProvideKeys :
              /\ proxies'[k] = NoProxy <=> ps[k] = NoProxy
              /\ ps[k] # NoProxy =>
                   /\ proxies'[k].enabled = ps[k].enabled
                   /\ proxies'[k].value = ps[k].value
                   /\ proxies'[k].posted = ps[k].posted
                   /\ started => ~proxies'[k].subscribed
                   /\ ~started => proxies'[k].subscribed = ps[k].subscribed
<1>1. CASE ~started
  BY <1>1 DEF Restart, Proxies
<1>2. CASE started
  <2>1. proxies' = [k \in ProvideKeys |-> IF ps[k] = NoProxy THEN NoProxy
                                          ELSE [ps[k] EXCEPT !.subscribed = FALSE]]
    BY <1>2 DEF Restart, Unsubscribed
  <2>2. \A k \in ProvideKeys : ps[k] # NoProxy => ps[k] \in Proxies
    OBVIOUS
  <2>3. \A p \in Proxies : /\ [p EXCEPT !.subscribed = FALSE] \in Proxies
                           /\ [p EXCEPT !.subscribed = FALSE] # NoProxy
    BY ProxyAssumption DEF Proxies
  <2>4. \A k \in ProvideKeys : ps[k] # NoProxy => proxies'[k] = [ps[k] EXCEPT !.subscribed = FALSE]
    BY <2>1
  <2>5. \A p \in Proxies : /\ [p EXCEPT !.subscribed = FALSE].enabled = p.enabled
                           /\ [p EXCEPT !.subscribed = FALSE].value = p.value
                           /\ [p EXCEPT !.subscribed = FALSE].posted = p.posted
                           /\ ~[p EXCEPT !.subscribed = FALSE].subscribed
    BY DEF Proxies
  <2> QED
    BY <1>2, <2>1, <2>2, <2>3, <2>4, <2>5
<1> QED
  BY <1>1, <1>2

\* The proxies add() leaves, before the service may be restarted.
AddDisables(k) ==
  IF k \in Proxied \ properties THEN [proxies EXCEPT ![k].enabled = FALSE] ELSE proxies

LEMMA AddDisablesProxy ==
  ASSUME NEW k \in ProvideKeys, ProvideTypeOK
  PROVE  /\ AddDisables(k) \in [ProvideKeys -> Proxies \cup {NoProxy}]
         /\ \A j \in ProvideKeys :
              /\ AddDisables(k)[j] = NoProxy <=> proxies[j] = NoProxy
              /\ proxies[j] # NoProxy =>
                   /\ AddDisables(k)[j].value = proxies[j].value
                   /\ AddDisables(k)[j].posted = proxies[j].posted
                   /\ AddDisables(k)[j].subscribed = proxies[j].subscribed
                   /\ AddDisables(k)[j].enabled =
                        (IF j = k /\ k \notin properties THEN FALSE ELSE proxies[j].enabled)
<1>1. proxies \in [ProvideKeys -> Proxies \cup {NoProxy}]
  BY DEF ProvideTypeOK
<1>2. CASE k \in Proxied \ properties
  <2>1. proxies[k] \in Proxies
    BY <1>1, <1>2 DEF Proxied
  <2>2. [proxies[k] EXCEPT !.enabled = FALSE] \in Proxies
    BY <2>1 DEF Proxies
  <2>3. /\ [proxies[k] EXCEPT !.enabled = FALSE].value = proxies[k].value
        /\ [proxies[k] EXCEPT !.enabled = FALSE].posted = proxies[k].posted
        /\ [proxies[k] EXCEPT !.enabled = FALSE].subscribed = proxies[k].subscribed
        /\ [proxies[k] EXCEPT !.enabled = FALSE].enabled = FALSE
    BY <2>1 DEF Proxies
  <2>4. AddDisables(k) = [proxies EXCEPT ![k] = [proxies[k] EXCEPT !.enabled = FALSE]]
    BY <1>2 DEF AddDisables
  <2> QED
    BY <1>1, <1>2, <2>2, <2>3, <2>4, ProxyAssumption DEF Proxied
<1>3. CASE k \notin Proxied \ properties
  BY <1>1, <1>3 DEF AddDisables, Proxied
<1> QED
  BY <1>2, <1>3

-----------------------------------------------------------------------------
(* One lemma per action that touches several variables: what it leaves     *)
(* behind of the proxies and of the property, in the words of the invariant *)

\* The keys that are added and their types.
LEMMA AddTypes ==
  ASSUME NEW k \in ProvideKeys, NEW t \in Types, ProvideTypes,
         types' = [types EXCEPT ![k] = ModernName(t)],
         properties' = properties \cup {k}
  PROVE  /\ types' \in [ProvideKeys -> Types \cup {NoType}]
         /\ properties' = {j \in ProvideKeys : types'[j] # NoType}
<1>1. ModernName(t) \in Types /\ ModernName(t) # NoType
  BY ModernNameAssumption, ProvideAssumption
<1> QED
  BY <1>1 DEF ProvideTypes, ProvideTypeOK

LEMMA AddStep ==
  ASSUME NEW k \in ProvideKeys, NEW t \in Types, NEW word \in Words,
         ProvideInv, CommandAdd(k, t, word)
  PROVE  ProvideInv'
<1>1. ProvideTypes /\ ProvideTypeOK
  BY DEF ProvideInv, ProvideTypes
<1>2. /\ held' \in [ProvideKeys -> AnyValue]
      /\ \A j \in ProvideKeys \ {k} : held'[j] = held[j]
  BY <1>1, SetToHolds DEF CommandAdd, ProvideTypeOK
<1>3. /\ types' \in [ProvideKeys -> Types \cup {NoType}]
      /\ properties' = {j \in ProvideKeys : types'[j] # NoType}
  BY <1>1, AddTypes DEF CommandAdd
<1>4. AddDisables(k) \in [ProvideKeys -> Proxies \cup {NoProxy}]
  BY <1>1, AddDisablesProxy
<1>5. CASE started /\ k \notin Proxied
  <2>1. Restart(AddDisables(k))
    BY <1>5 DEF CommandAdd, AddDisables
  <2>2. proxies' \in [ProvideKeys -> Proxies \cup {NoProxy}] /\ Proxied' = Proxied
    BY <1>1, <1>4, <2>1, RestartKeeps, AddDisablesProxy DEF Proxied
  <2>3. started' = TRUE /\ alive' \in BOOLEAN /\ demanded' = {}
    BY <2>1 DEF Restart
  <2>4. ProvideTypes'
    BY <1>1, <1>2, <1>3, <2>2, <2>3 DEF CommandAdd, ProvideTypes, ProvideTypeOK, realVars
  <2>5. \A j \in Proxied : /\ j # k
                          /\ proxies'[j].enabled = proxies[j].enabled
                          /\ proxies'[j].value = proxies[j].value
                          /\ proxies'[j].posted = proxies[j].posted
                          /\ ~proxies'[j].subscribed
    <3>1. AddDisables(k) = proxies
      BY <1>5 DEF AddDisables
    <3>2. proxies \in [ProvideKeys -> Proxies \cup {NoProxy}] /\ Restart(proxies)
      BY <1>4, <2>1, <3>1
    <3> QED
      BY <1>5, <3>2, RestartKeeps DEF Proxied
  <2>6. EnabledUnlessAdded'
    BY <2>2, <2>5 DEF ProvideInv, EnabledUnlessAdded, CommandAdd
  <2>7. DemandFollows' /\ NoDemandBeforeStart'
    BY <2>2, <2>3, <2>5 DEF DemandFollows, NoDemandBeforeStart
  <2>8. ProxyIsTold'
    <3>1. \A j \in Proxied : held'[j] = held[j]
      BY <1>2, <2>5 DEF Proxied
    <3> QED
      BY <2>2, <2>5, <3>1 DEF ProvideInv, ProxyIsTold, CommandAdd, realVars
  <2> QED
    BY <2>4, <2>6, <2>7, <2>8 DEF ProvideInv
<1>6. CASE ~(started /\ k \notin Proxied)
  <2>1. proxies' = AddDisables(k) /\ UNCHANGED <<demanded, started, alive>>
    BY <1>6 DEF CommandAdd, AddDisables, NoRestart
  <2>2. Proxied' = Proxied
    BY <1>1, <2>1, AddDisablesProxy DEF Proxied
  <2>3. ProvideTypes'
    BY <1>1, <1>2, <1>3, <1>4, <2>1, <2>2 DEF CommandAdd, ProvideTypes, ProvideTypeOK, realVars
  <2>4. \A j \in Proxied : /\ proxies'[j].value = proxies[j].value
                          /\ proxies'[j].posted = proxies[j].posted
                          /\ proxies'[j].subscribed = proxies[j].subscribed
                          /\ proxies'[j].enabled =
                               (IF j = k /\ k \notin properties THEN FALSE ELSE proxies[j].enabled)
    BY <1>1, <2>1, AddDisablesProxy DEF Proxied
  <2>5. EnabledUnlessAdded'
    BY <2>2, <2>4 DEF ProvideInv, EnabledUnlessAdded, CommandAdd
  <2>6. DemandFollows' /\ NoDemandBeforeStart'
    BY <2>1, <2>2, <2>4 DEF ProvideInv, DemandFollows, NoDemandBeforeStart, CommandAdd
  <2>7. ProxyIsTold'
    <3>1. \A j \in Proxied : j \in Proxied /\ proxies'[j].enabled => j # k
      BY <1>1, <2>4 DEF ProvideInv, EnabledUnlessAdded
    <3>2. \A j \in Proxied : j # k => held'[j] = held[j] /\ proxies'[j].enabled = proxies[j].enabled
      BY <1>2, <2>4 DEF Proxied
    <3> QED
      BY <2>2, <2>4, <3>1, <3>2 DEF ProvideInv, ProxyIsTold, CommandAdd, realVars
  <2> QED
    BY <2>3, <2>5, <2>6, <2>7 DEF ProvideInv
<1> QED
  BY <1>5, <1>6

LEMMA RestartStep ==
  ASSUME ProvideInv, CommandRestart PROVE ProvideInv'
<1>1. ProvideTypes /\ proxies \in [ProvideKeys -> Proxies \cup {NoProxy}] /\ Restart(proxies)
  BY DEF ProvideInv, ProvideTypes, ProvideTypeOK, CommandRestart
<1>2. proxies' \in [ProvideKeys -> Proxies \cup {NoProxy}] /\ Proxied' = Proxied
  BY <1>1, RestartKeeps DEF Proxied
<1>3. started' = TRUE /\ alive' \in BOOLEAN /\ demanded' = {}
  BY <1>1 DEF Restart
<1>4. \A k \in Proxied : /\ proxies'[k].enabled = proxies[k].enabled
                        /\ proxies'[k].value = proxies[k].value
                        /\ proxies'[k].posted = proxies[k].posted
  BY <1>1, RestartKeeps DEF Proxied
<1>5. \A k \in Proxied : alive => ~proxies'[k].subscribed
  BY <1>1, RestartKeeps DEF Proxied, ProvideInv, DemandFollows, NoDemandBeforeStart
<1>6. ProvideTypes'
  BY <1>1, <1>2, <1>3 DEF CommandRestart, ProvideTypes, ProvideTypeOK, userVars, realVars
<1>7. EnabledUnlessAdded'
  BY <1>2, <1>4 DEF ProvideInv, EnabledUnlessAdded, CommandRestart, userVars
<1>8. DemandFollows' /\ NoDemandBeforeStart'
  BY <1>2, <1>3, <1>5 DEF DemandFollows, NoDemandBeforeStart, CommandRestart
<1>9. ProxyIsTold'
  BY <1>2, <1>4 DEF ProvideInv, ProxyIsTold, CommandRestart, realVars
<1> QED
  BY <1>6, <1>7, <1>8, <1>9 DEF ProvideInv

LEMMA DelStep ==
  ASSUME NEW k \in ProvideKeys, ProvideInv, CommandDel(k) PROVE ProvideInv'
<1>1. ProvideTypes /\ ProvideTypeOK /\ UNCHANGED <<started, alive, demanded>>
  BY DEF ProvideInv, ProvideTypes, CommandDel, processVars
<1>2. /\ types' \in [ProvideKeys -> Types \cup {NoType}]
      /\ properties' = {j \in ProvideKeys : types'[j] # NoType}
  BY <1>1 DEF CommandDel, TypeRemoved, ProvideTypeOK
<1>3. CASE k \in Proxied
  <2>1. proxies[k] \in Proxies /\ [proxies[k] EXCEPT !.enabled = TRUE] \in Proxies
    BY <1>1, <1>3 DEF ProvideTypeOK, Proxied, Proxies
  <2>2. /\ [proxies[k] EXCEPT !.enabled = TRUE].value = proxies[k].value
        /\ [proxies[k] EXCEPT !.enabled = TRUE].posted = proxies[k].posted
        /\ [proxies[k] EXCEPT !.enabled = TRUE].subscribed = proxies[k].subscribed
        /\ [proxies[k] EXCEPT !.enabled = TRUE].enabled = TRUE
    BY <2>1 DEF Proxies
  <2>3. /\ proxies' = [proxies EXCEPT ![k] = [proxies[k] EXCEPT !.enabled = TRUE]]
        /\ held' = [held EXCEPT ![k] = proxies[k].value]
    BY <1>3 DEF CommandDel
  <2>4. /\ proxies' \in [ProvideKeys -> Proxies \cup {NoProxy}] /\ Proxied' = Proxied
        /\ held' \in [ProvideKeys -> AnyValue]
    BY <1>1, <1>3, <2>1, <2>3, ProxyAssumption DEF ProvideTypeOK, Proxied, Proxies
  <2>5. \A j \in Proxied :
           /\ proxies'[j].value = proxies[j].value
           /\ proxies'[j].posted = proxies[j].posted
           /\ proxies'[j].subscribed = proxies[j].subscribed
           /\ proxies'[j].enabled = (IF j = k THEN TRUE ELSE proxies[j].enabled)
           /\ held'[j] = (IF j = k THEN proxies'[k].value ELSE held[j])
    BY <1>1, <1>3, <2>2, <2>3 DEF ProvideTypeOK, Proxied
  <2>6. ProvideTypes'
    BY <1>1, <1>2, <2>4 DEF CommandDel, ProvideTypes, ProvideTypeOK, processVars, realVars
  <2>7. EnabledUnlessAdded'
    BY <2>4, <2>5 DEF ProvideInv, EnabledUnlessAdded, CommandDel
  <2>8. DemandFollows' /\ NoDemandBeforeStart'
    BY <1>1, <2>4, <2>5 DEF ProvideInv, DemandFollows, NoDemandBeforeStart, CommandDel
  <2>9. ProxyIsTold'
    BY <2>4, <2>5 DEF ProvideInv, ProxyIsTold, CommandDel, realVars
  <2> QED
    BY <2>6, <2>7, <2>8, <2>9 DEF ProvideInv
<1>4. CASE k \notin Proxied
  <2>1. UNCHANGED <<proxies, held>> /\ Proxied' = Proxied
    BY <1>4 DEF CommandDel, Proxied
  <2>2. ProvideTypes'
    BY <1>1, <1>2, <2>1 DEF CommandDel, ProvideTypes, ProvideTypeOK, processVars, realVars
  <2>3. EnabledUnlessAdded'
    BY <1>4, <2>1 DEF ProvideInv, EnabledUnlessAdded, CommandDel
  <2>4. DemandFollows' /\ NoDemandBeforeStart'
    BY <1>1, <2>1 DEF ProvideInv, DemandFollows, NoDemandBeforeStart, CommandDel
  <2>5. ProxyIsTold'
    BY <2>1 DEF ProvideInv, ProxyIsTold, CommandDel, realVars
  <2> QED
    BY <2>2, <2>3, <2>4, <2>5 DEF ProvideInv
<1> QED
  BY <1>3, <1>4

LEMMA SetTypeStep ==
  ASSUME NEW k \in ProvideKeys, NEW t \in Types, ProvideInv, CommandSetType(k, t)
  PROVE  ProvideInv'
<1>1. ProvideTypes /\ ProvideTypeOK /\ t # NoType
  BY ProvideAssumption DEF ProvideInv, ProvideTypes
<1>2. /\ types' \in [ProvideKeys -> Types \cup {NoType}]
      /\ properties' = {j \in ProvideKeys : types'[j] # NoType}
  BY <1>1 DEF CommandSetType, ProvideTypeOK
<1>3. ProvideTypes'
  BY <1>1, <1>2 DEF CommandSetType, ProvideTypes, ProvideTypeOK, Proxied, processVars, proxyVars, realVars
<1> QED
  BY <1>3 DEF CommandSetType, ProvideInv, EnabledUnlessAdded, NoDemandBeforeStart, DemandFollows,
              ProxyIsTold, Proxied, processVars, proxyVars, realVars

LEMMA SetStep ==
  ASSUME NEW k \in ProvideKeys, NEW word \in Words, ProvideInv, CommandSet(k, word)
  PROVE  ProvideInv'
<1>1. ProvideTypes /\ ProvideTypeOK
  BY DEF ProvideInv, ProvideTypes
<1>2. /\ held' \in [ProvideKeys -> AnyValue]
      /\ \A j \in ProvideKeys \ {k} : held'[j] = held[j]
  BY <1>1, SetToHolds DEF CommandSet, ProvideTypeOK
<1>3. ProvideTypes'
  BY <1>1, <1>2 DEF CommandSet, ProvideTypes, ProvideTypeOK, Proxied, processVars, userVars, proxyVars, realVars
<1>4. k \in Proxied => ~proxies[k].enabled
  BY DEF CommandSet, ProvideInv, EnabledUnlessAdded
<1>5. ProxyIsTold'
  BY <1>2, <1>4 DEF CommandSet, ProvideInv, ProxyIsTold, Proxied, userVars, proxyVars, realVars
<1> QED
  BY <1>3, <1>5 DEF CommandSet, ProvideInv, EnabledUnlessAdded, NoDemandBeforeStart, DemandFollows,
                    Proxied, processVars, userVars, proxyVars, realVars

LEMMA StartStep ==
  ASSUME ProvideInit PROVE ProvideInv
<1>1. \A k \in ProvideKeys : NewProxy(k) \in Proxies /\ NewProxy(k) # NoProxy
  BY NewProxyIsProxy
<1>2. \A k \in Proxied : k \in declared /\ proxies[k] = NewProxy(k)
  BY <1>1 DEF ProvideInit, Proxied
<1>3. proxies \in [ProvideKeys -> Proxies \cup {NoProxy}]
  BY <1>1 DEF ProvideInit
<1>4. ProvideTypes
  BY <1>2, <1>3 DEF ProvideInit, ProvideTypes, ProvideTypeOK, AnyValue, Proxied
<1>5. \A k : ForwardsUnlessAdded(k) = TRUE
  BY DEF ForwardsUnlessAdded, ProvideInit
<1>6. \A k \in Proxied :
         proxies[k] = [enabled |-> TRUE, value |-> NoValue, subscribed |-> FALSE, posted |-> FALSE]
  BY <1>2, <1>5 DEF NewProxy
<1> QED
  BY <1>4, <1>5, <1>6 DEF ProvideInit, ProvideInv, EnabledUnlessAdded, NoDemandBeforeStart, DemandFollows,
                    ProxyIsTold, Proxied

\* The actions that touch neither the user's keys nor what the proxies know.
LEMMA IdleStep ==
  ASSUME ProvideInv, CommandDump \/ CommandExit \/ UNCHANGED provideVars
  PROVE  ProvideInv'
<1>1. ProvideTypes /\ ProvideTypeOK
  BY DEF ProvideInv, ProvideTypes
<1>2. UNCHANGED <<started, properties, types, proxies, declared, replaced, real, learned, held, offered>>
  BY DEF CommandDump, CommandExit, provideVars, processVars, userVars, proxyVars, realVars
<1>3. /\ alive' \in BOOLEAN
      /\ alive' \/ demanded' = {}
      /\ demanded' = demanded \/ demanded' = {}
      /\ alive' => demanded' = demanded /\ alive
  <2>1. CASE CommandDump
    BY <1>1, <2>1 DEF CommandDump, ProvideTypes, ProvideTypeOK, processVars
  <2>2. CASE CommandExit
    BY <2>2 DEF CommandExit
  <2>3. CASE UNCHANGED provideVars
    BY <1>1, <2>3 DEF provideVars, ProvideTypes, ProvideTypeOK, processVars
  <2> QED
    BY <2>1, <2>2, <2>3
<1>4. dumped' = dumped \/ dumped' = [keys |-> properties, types |-> types]
  BY DEF CommandDump, CommandExit, provideVars
<1>5. /\ dumped'.types \in [ProvideKeys -> Types \cup {NoType}]
      /\ dumped'.keys = {k \in ProvideKeys : dumped'.types[k] # NoType}
  BY <1>1, <1>4 DEF ProvideTypes, ProvideTypeOK
<1>6. ProvideTypes'
  BY <1>1, <1>2, <1>3, <1>5 DEF ProvideTypes, ProvideTypeOK, Proxied
<1> QED
  BY <1>2, <1>3, <1>6 DEF ProvideInv, EnabledUnlessAdded, NoDemandBeforeStart, DemandFollows,
                          ProxyIsTold, Proxied

\* onFirstSubscriber and onLastSubscriber: the proxy's subscription goes with the demand.
LEMMA DemandStep ==
  ASSUME NEW k \in ProvideKeys, ProvideInv, FirstClientOf(k) \/ LastClientOf(k)
  PROVE  ProvideInv'
<1> DEFINE asks == FirstClientOf(k)
<1>1. ProvideTypes /\ ProvideTypeOK
  BY DEF ProvideInv, ProvideTypes
<1>2. /\ UNCHANGED <<started, alive, properties, types, declared, replaced, real, learned, held,
                     offered, dumped>>
      /\ alive
  BY DEF FirstClientOf, LastClientOf, processVars, userVars, realVars
<1>3. /\ demanded' \subseteq offered /\ (~started => demanded' = {})
      /\ \A j \in ProvideKeys \ {k} : j \in demanded' <=> j \in demanded
  BY <1>1 DEF FirstClientOf, LastClientOf, ProvideTypeOK, ProvideInv, NoDemandBeforeStart
<1>4. \E b \in BOOLEAN : /\ b <=> k \in demanded'
                         /\ proxies' = IF k \in Proxied THEN [proxies EXCEPT ![k].subscribed = b]
                                                        ELSE proxies
  <2>1. CASE FirstClientOf(k)
    BY <2>1 DEF FirstClientOf
  <2>2. CASE LastClientOf(k)
    BY <2>2 DEF LastClientOf
  <2> QED
    BY <2>1, <2>2
<1>5. PICK b \in BOOLEAN : /\ b <=> k \in demanded'
                           /\ proxies' = IF k \in Proxied THEN [proxies EXCEPT ![k].subscribed = b]
                                                          ELSE proxies
  BY <1>4
<1>6. /\ proxies' \in [ProvideKeys -> Proxies \cup {NoProxy}] /\ Proxied' = Proxied
      /\ \A j \in Proxied : /\ proxies'[j].enabled = proxies[j].enabled
                            /\ proxies'[j].value = proxies[j].value
                            /\ proxies'[j].posted = proxies[j].posted
                            /\ proxies'[j].subscribed = (IF j = k THEN b ELSE proxies[j].subscribed)
  <2>1. CASE k \in Proxied
    <3>1. proxies[k] \in Proxies
      BY <1>1, <2>1 DEF ProvideTypeOK, Proxied
    <3>2. [proxies[k] EXCEPT !.subscribed = b] \in Proxies
      BY <3>1 DEF Proxies
    <3>3. /\ [proxies[k] EXCEPT !.subscribed = b].enabled = proxies[k].enabled
          /\ [proxies[k] EXCEPT !.subscribed = b].value = proxies[k].value
          /\ [proxies[k] EXCEPT !.subscribed = b].posted = proxies[k].posted
          /\ [proxies[k] EXCEPT !.subscribed = b].subscribed = b
      BY <3>1 DEF Proxies
    <3>4. proxies' = [proxies EXCEPT ![k] = [proxies[k] EXCEPT !.subscribed = b]]
      BY <1>5, <2>1
    <3> QED
      BY <1>1, <2>1, <3>2, <3>3, <3>4, ProxyAssumption DEF ProvideTypeOK, Proxied
  <2>2. CASE k \notin Proxied
    BY <1>1, <1>5, <2>2 DEF ProvideTypeOK, Proxied
  <2> QED
    BY <2>1, <2>2
<1>7. ProvideTypes'
  BY <1>1, <1>2, <1>3, <1>6 DEF ProvideTypes, ProvideTypeOK
<1>8. EnabledUnlessAdded' /\ NoDemandBeforeStart'
  BY <1>2, <1>3, <1>6 DEF ProvideInv, EnabledUnlessAdded, NoDemandBeforeStart
<1>9. DemandFollows'
  <2> SUFFICES ASSUME NEW j \in Proxied
               PROVE  /\ proxies'[j].subscribed => j \in demanded'
                      /\ j \in demanded' \ replaced' => proxies'[j].subscribed
    BY <1>6 DEF DemandFollows
  <2>1. CASE j = k
    BY <1>5, <1>6, <2>1
  <2>2. CASE j # k
    BY <1>2, <1>3, <1>6, <2>2 DEF ProvideInv, DemandFollows, Proxied
  <2> QED
    BY <2>1, <2>2
<1>10. ProxyIsTold'
  BY <1>2, <1>6 DEF ProvideInv, ProxyIsTold
<1> QED
  BY <1>7, <1>8, <1>9, <1>10 DEF ProvideInv

\* All proxies are made anew; those that mattered are written down as replaced.
LEMMA RegistryStep ==
  ASSUME NEW keys \in SUBSET ProvideKeys, ProvideInv, OnRegistryChanged(keys)
  PROVE  ProvideInv'
<1>1. ProvideTypes /\ ProvideTypeOK /\ NoValue \in AnyValue
  BY DEF ProvideInv, ProvideTypes, AnyValue
<1>2. \A k : NewProxy(k) \in Proxies /\ NewProxy(k) # NoProxy
  BY NewProxyIsProxy
<1>3. proxies' = [k \in ProvideKeys |-> IF k \in keys THEN NewProxy(k) ELSE NoProxy]
  BY DEF OnRegistryChanged
<1>4. proxies' \in [ProvideKeys -> Proxies \cup {NoProxy}] /\ Proxied' = keys
  BY <1>2, <1>3 DEF Proxied
<1>5. \A k \in Proxied' : proxies'[k] = NewProxy(k)
  BY <1>3, <1>4
<1>6. \A k \in Proxied' : /\ proxies'[k].enabled <=> k \notin properties
                         /\ proxies'[k].subscribed = FALSE
                         /\ proxies'[k].value = NoValue
  BY <1>5, NewProxyFields
<1>7. held' = [k \in ProvideKeys |-> IF k \in keys /\ ForwardsUnlessAdded(k) THEN NoValue ELSE held[k]]
  BY DEF OnRegistryChanged
<1>8. held' \in [ProvideKeys -> AnyValue]
  BY <1>1, <1>7 DEF ProvideTypeOK
<1>9. ProvideTypes'
  BY <1>1, <1>4, <1>8 DEF OnRegistryChanged, ProvideTypes, ProvideTypeOK, processVars, userVars, realVars
<1>10. EnabledUnlessAdded'
  BY <1>6 DEF EnabledUnlessAdded, OnRegistryChanged, userVars
<1>11. DemandFollows' /\ NoDemandBeforeStart'
  BY <1>4, <1>6 DEF DemandFollows, NoDemandBeforeStart, OnRegistryChanged, ProvideInv, processVars
<1>12. ProxyIsTold'
  <2> SUFFICES ASSUME NEW k \in Proxied' \ replaced'
               PROVE  /\ proxies'[k].value = learned'[k]
                      /\ proxies'[k].enabled => held'[k] = proxies'[k].value
    BY DEF ProxyIsTold
  <2>1. learned[k] = NoValue /\ learned' = learned
    BY <1>4 DEF OnRegistryChanged, realVars
  <2>2. proxies'[k].enabled => held'[k] = NoValue
    BY <1>4, <1>6, <1>7 DEF ForwardsUnlessAdded
  <2> QED
    BY <1>6, <2>1, <2>2
<1> QED
  BY <1>9, <1>10, <1>11, <1>12 DEF ProvideInv

LEMMA RealStep ==
  ASSUME NEW k \in ProvideKeys, NEW v \in AnyValue \cup {IllTyped}, ProvideInv, RealChanges(k, v)
  PROVE  ProvideInv'
<1>1. ProvideTypes /\ real' = [real EXCEPT ![k] = v]
  BY DEF ProvideInv, RealChanges
<1>2. ProvideTypes'
  BY <1>1 DEF RealChanges, ProvideTypes, ProvideTypeOK, Proxied, processVars, userVars, proxyVars
<1> QED
  BY <1>2 DEF RealChanges, ProvideInv, EnabledUnlessAdded, NoDemandBeforeStart, DemandFollows,
              ProxyIsTold, Proxied, processVars, userVars, proxyVars

LEMMA ArriveStep ==
  ASSUME NEW k \in ProvideKeys, ProvideInv, Arrive(k) PROVE ProvideInv'
<1>1. ProvideTypes /\ ProvideTypeOK /\ k \in Proxied /\ proxies[k] \in Proxies
  BY DEF ProvideInv, ProvideTypes, ProvideTypeOK, Arrive, Proxied
<1>2. [proxies[k] EXCEPT !.posted = TRUE] \in Proxies
  BY <1>1 DEF Proxies
<1>3. /\ [proxies[k] EXCEPT !.posted = TRUE].enabled = proxies[k].enabled
      /\ [proxies[k] EXCEPT !.posted = TRUE].value = proxies[k].value
      /\ [proxies[k] EXCEPT !.posted = TRUE].subscribed = proxies[k].subscribed
      /\ [proxies[k] EXCEPT !.posted = TRUE].posted = TRUE
  BY <1>1 DEF Proxies
<1>4. proxies' = [proxies EXCEPT ![k] = [proxies[k] EXCEPT !.posted = TRUE]]
  BY DEF Arrive
<1>5. proxies' \in [ProvideKeys -> Proxies \cup {NoProxy}] /\ Proxied' = Proxied
  BY <1>1, <1>2, <1>4, ProxyAssumption DEF ProvideTypeOK, Proxied
<1>6. \A j \in Proxied : /\ proxies'[j].enabled = proxies[j].enabled
                        /\ proxies'[j].value = proxies[j].value
                        /\ proxies'[j].subscribed = proxies[j].subscribed
                        /\ proxies'[j].posted = (IF j = k THEN TRUE ELSE proxies[j].posted)
  BY <1>1, <1>3, <1>4 DEF ProvideTypeOK, Proxied
<1>7. learned' = [learned EXCEPT ![k] = real[k]] /\ real[k] \in AnyValue
  BY <1>1 DEF Arrive, ProvideTypes
<1>8. ProvideTypes'
  BY <1>1, <1>5, <1>7 DEF Arrive, ProvideTypes, ProvideTypeOK, processVars, userVars
<1>9. EnabledUnlessAdded'
  BY <1>5, <1>6 DEF ProvideInv, EnabledUnlessAdded, Arrive, userVars
<1>10. DemandFollows' /\ NoDemandBeforeStart'
  BY <1>5, <1>6 DEF ProvideInv, DemandFollows, NoDemandBeforeStart, Arrive, processVars
<1>11. \A j \in ProvideKeys \ {k} : learned'[j] = learned[j]
  BY <1>1, <1>7 DEF ProvideTypeOK
<1>12. ProxyIsTold'
  BY <1>5, <1>6, <1>11 DEF ProvideInv, ProxyIsTold, Arrive, Proxied
<1> QED
  BY <1>8, <1>9, <1>10, <1>12 DEF ProvideInv

LEMMA ForwardStep ==
  ASSUME NEW k \in ProvideKeys, ProvideInv, OnProxyValueChanged(k) PROVE ProvideInv'
<1> DEFINE p == [proxies[k] EXCEPT !.posted = FALSE, !.value = learned[k]]
<1>1. ProvideTypes /\ ProvideTypeOK /\ k \in Proxied /\ proxies[k] \in Proxies /\ learned[k] \in AnyValue
  BY DEF ProvideInv, ProvideTypes, ProvideTypeOK, OnProxyValueChanged, Proxied
<1>2. p \in Proxies
  BY <1>1 DEF Proxies
<1>3. /\ p.enabled = proxies[k].enabled
      /\ p.value = learned[k]
      /\ p.subscribed = proxies[k].subscribed
  BY <1>1 DEF Proxies
<1>4. proxies' = [proxies EXCEPT ![k] = p]
  BY <1>1 DEF OnProxyValueChanged, Remembers, ProvideTypeOK, Proxies
<1> HIDE DEF p
<1>5. proxies' \in [ProvideKeys -> Proxies \cup {NoProxy}] /\ Proxied' = Proxied
  BY <1>1, <1>2, <1>4, ProxyAssumption DEF ProvideTypeOK, Proxied
<1>6. /\ \A j \in Proxied : /\ proxies'[j].enabled = proxies[j].enabled
                            /\ proxies'[j].subscribed = proxies[j].subscribed
      /\ proxies'[k].value = learned[k]
      /\ \A j \in Proxied \ {k} : proxies'[j] = proxies[j]
  BY <1>1, <1>3, <1>4 DEF ProvideTypeOK, Proxied
<1>7. /\ held' \in [ProvideKeys -> AnyValue]
      /\ \A j \in ProvideKeys \ {k} : held'[j] = held[j]
      /\ held'[k] = IF proxies[k].enabled /\ learned[k] # proxies[k].value THEN learned[k] ELSE held[k]
  BY <1>1 DEF OnProxyValueChanged, Forwards, ProvideTypeOK
<1>8. ProvideTypes'
  BY <1>1, <1>5, <1>7 DEF OnProxyValueChanged, ProvideTypes, ProvideTypeOK, processVars, userVars, realVars
<1>9. EnabledUnlessAdded'
  BY <1>5, <1>6 DEF ProvideInv, EnabledUnlessAdded, OnProxyValueChanged, userVars
<1>10. DemandFollows' /\ NoDemandBeforeStart'
  BY <1>5, <1>6 DEF ProvideInv, DemandFollows, NoDemandBeforeStart, OnProxyValueChanged, processVars
<1>11. ProxyIsTold'
  <2> SUFFICES ASSUME NEW j \in Proxied \ replaced
               PROVE  /\ proxies'[j].posted \/ proxies'[j].value = learned[j]
                      /\ proxies'[j].enabled => held'[j] = proxies'[j].value
    BY <1>5 DEF ProxyIsTold, OnProxyValueChanged, realVars
  <2>1. CASE j = k
    BY <1>6, <1>7, <2>1 DEF ProvideInv, ProxyIsTold
  <2>2. CASE j # k
    BY <1>6, <1>7, <2>2 DEF ProvideInv, ProxyIsTold, Proxied
  <2> QED
    BY <2>1, <2>2
<1> QED
  BY <1>8, <1>9, <1>10, <1>11 DEF ProvideInv

-----------------------------------------------------------------------------
(* Theorems                                                                *)

LEMMA NextStep ==
  ASSUME ProvideInv, [ProvideNext]_provideVars PROVE ProvideInv'
<1>1. CASE \E k \in ProvideKeys, t \in Types, word \in Words : CommandAdd(k, t, word)
  BY <1>1, AddStep
<1>2. CASE \E k \in ProvideKeys, t \in Types : CommandSetType(k, t)
  BY <1>2, SetTypeStep
<1>3. CASE \E k \in ProvideKeys, word \in Words : CommandSet(k, word)
  BY <1>3, SetStep
<1>4. CASE \E k \in ProvideKeys : CommandDel(k)
  BY <1>4, DelStep
<1>5. CASE \E k \in ProvideKeys : FirstClientOf(k) \/ LastClientOf(k)
  BY <1>5, DemandStep
<1>6. CASE \E k \in ProvideKeys, v \in AnyValue \cup {IllTyped} : RealChanges(k, v)
  BY <1>6, RealStep
<1>7. CASE \E k \in ProvideKeys : Arrive(k)
  BY <1>7, ArriveStep
<1>8. CASE \E k \in ProvideKeys : OnProxyValueChanged(k)
  BY <1>8, ForwardStep
<1>9. CASE CommandRestart
  BY <1>9, RestartStep
<1>10. CASE CommandDump \/ CommandExit \/ UNCHANGED provideVars
  BY <1>10, IdleStep
<1>11. CASE \E keys \in SUBSET ProvideKeys : OnRegistryChanged(keys)
  BY <1>11, RegistryStep
<1> QED
  BY <1>1, <1>2, <1>3, <1>4, <1>5, <1>6, <1>7, <1>8, <1>9, <1>10, <1>11 DEF ProvideNext

\* Of the whole program: commands, clients, the registry and the real providers.
THEOREM ProvideInvariant == ProvideSpec => []ProvideInv
<1>1. ProvideInit => ProvideInv
  BY StartStep
<1>2. ProvideInv /\ [ProvideNext]_provideVars => ProvideInv'
  BY NextStep
<1> QED
  BY <1>1, <1>2, PTL DEF ProvideSpec

\* Exactly the keys that were added have a type, in the program (addCommand, delCommand,
\* setTypeCommand) and in the file that dumpCommand writes.
THEOREM ProvideTypesCorrect == ProvideSpec => []ProvideTypeOK
<1>1. ProvideInv => ProvideTypeOK
  BY DEF ProvideInv, ProvideTypes
<1> QED
  BY <1>1, ProvideInvariant, PTL

\* The commander asks for a key exactly while it has clients (onFirstSubscriber,
\* onLastSubscriber, and the proxies that restartCommand and onRegistryChanged leave).
THEOREM ProvideDemandFollows == ProvideSpec => []DemandFollows
<1>1. ProvideInv => DemandFollows
  BY DEF ProvideInv
<1> QED
  BY <1>1, ProvideInvariant, PTL

\* What PropertyProxy::onValueChanged forwards and enable() restores is what the real
\* provider said, for every proxy that onRegistryChanged has not replaced in use.
THEOREM ProvideFollows == ProvideSpec => []ProxiedFollow
<1>1. ProvideInv => ProxiedFollow
  BY DEF ProvideInv, EnabledUnlessAdded, ProxyIsTold, ProxiedFollow, ForwardedIsReal, Arrived, Proxied
<1> QED
  BY <1>1, ProvideInvariant, PTL

\* Neither onRegistryChanged nor what a proxy's onValueChanged is told changes the value
\* of a key the user controls: commands alone do.
THEOREM ProvideOverridesHold == ProvideSpec => OverridesHold
<1> DEFINE Holds == \A k \in properties \cap properties' :
                      held'[k] # held[k] =>
                        /\ UNCHANGED <<learned, registryChanges>>
                        /\ k \in Proxied => proxies'[k].value = proxies[k].value
<1>1. ASSUME ProvideInv, [ProvideNext]_provideVars PROVE Holds
  <2>1. CASE \E k \in ProvideKeys, t \in Types, word \in Words : CommandAdd(k, t, word)
    <3>1. PICK k \in ProvideKeys, t \in Types, word \in Words : CommandAdd(k, t, word)
      BY <2>1
    <3>2. ProvideTypeOK /\ AddDisables(k) \in [ProvideKeys -> Proxies \cup {NoProxy}]
      BY <1>1, AddDisablesProxy DEF ProvideInv, ProvideTypes
    <3>3. UNCHANGED <<learned, registryChanges>>
      BY <3>1 DEF CommandAdd, realVars
    <3>4. Restart(AddDisables(k)) \/ proxies' = AddDisables(k)
      BY <3>1 DEF CommandAdd, AddDisables, NoRestart
    <3>5. \A j \in Proxied : proxies'[j].value = AddDisables(k)[j].value
      BY <3>2, <3>4, RestartKeeps, AddDisablesProxy DEF Proxied
    <3>6. \A j \in Proxied : proxies'[j].value = proxies[j].value
      BY <3>2, <3>5, AddDisablesProxy DEF Proxied
    <3> QED
      BY <3>3, <3>6
  <2>2. CASE \E k \in ProvideKeys, t \in Types : CommandSetType(k, t)
    BY <2>2 DEF CommandSetType
  <2>3. CASE \E k \in ProvideKeys, word \in Words : CommandSet(k, word)
    BY <2>3 DEF CommandSet, proxyVars, realVars
  <2>4. CASE \E k \in ProvideKeys : CommandDel(k)
    <3>1. PICK k \in ProvideKeys : CommandDel(k)
      BY <2>4
    <3>2. k \notin properties' /\ ProvideTypeOK
      BY <1>1, <3>1 DEF CommandDel, ProvideInv, ProvideTypes
    <3>3. \A j \in ProvideKeys \ {k} : held'[j] = held[j]
      BY <3>1, <3>2 DEF CommandDel, ProvideTypeOK
    <3>4. properties \subseteq ProvideKeys
      BY <3>2 DEF ProvideTypeOK
    <3> QED
      BY <3>2, <3>3, <3>4
  <2>5. CASE \E k \in ProvideKeys : FirstClientOf(k) \/ LastClientOf(k)
    BY <2>5 DEF FirstClientOf, LastClientOf
  <2>6. CASE \E k \in ProvideKeys, v \in AnyValue \cup {IllTyped} : RealChanges(k, v)
    BY <2>6 DEF RealChanges
  <2>7. CASE \E k \in ProvideKeys : Arrive(k)
    BY <2>7 DEF Arrive
  <2>8. CASE \E k \in ProvideKeys : OnProxyValueChanged(k)
    <3>1. PICK k \in ProvideKeys : OnProxyValueChanged(k)
      BY <2>8
    <3>2. ProvideTypeOK /\ k \in Proxied /\ (k \in properties => ~proxies[k].enabled)
      BY <1>1, <3>1 DEF OnProxyValueChanged, ProvideInv, ProvideTypes, EnabledUnlessAdded
    <3>3. \A j \in properties : held'[j] = held[j]
      BY <3>1, <3>2 DEF OnProxyValueChanged, Forwards, ProvideTypeOK
    <3> QED
      BY <3>3
  <2>9. CASE CommandRestart \/ CommandDump \/ CommandExit \/ UNCHANGED provideVars
    BY <2>9 DEF CommandRestart, CommandDump, CommandExit, provideVars
  <2>10. CASE \E keys \in SUBSET ProvideKeys : OnRegistryChanged(keys)
    <3>1. ProvideTypeOK
      BY <1>1 DEF ProvideInv, ProvideTypes
    <3>2. \A j \in properties : held'[j] = held[j]
      BY <2>10, <3>1 DEF OnRegistryChanged, ForwardsUnlessAdded, ProvideTypeOK
    <3> QED
      BY <3>2
  <2> QED
    BY <1>1, <2>1, <2>2, <2>3, <2>4, <2>5, <2>6, <2>7, <2>8, <2>9, <2>10 DEF ProvideNext
<1>2. ProvideInv /\ [ProvideNext]_provideVars => [Holds]_provideVars
  BY <1>1
<1> QED
  BY <1>2, ProvideInvariant, PTL DEF ProvideSpec, OverridesHold
=============================================================================
