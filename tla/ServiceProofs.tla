--------------------------- MODULE ServiceProofs ----------------------------
(***************************************************************************)
(* Proofs about ServiceBackend, for any clients, any finite set of keys    *)
(* and any bounds.                                                         *)
(***************************************************************************)
EXTENDS ServiceBackend, FiniteSetTheorems, TLAPS

-----------------------------------------------------------------------------
(* The inductive invariant                                                 *)

\* What the adaptors, the properties and the group need to be in step.
AdaptorTypes ==
  /\ clientServiceNames \in [Keys -> SUBSET Clients]
  /\ watched \in [Keys -> SUBSET Clients]
  /\ subscribed \in [Keys -> BOOLEAN]
  /\ groupKeys \in SUBSET Keys
  /\ propertiesSubscribedTo \in Nat
  /\ groupActive \in BOOLEAN

\* stop() makes the adaptors of `properties` forget their clients; no other
\* key has clients.
OnlyProperties == \A k \in Keys : clientServiceNames[k] # {} => k \in properties

AdaptorInv == AdaptorTypes /\ SubscribedWhileClients /\ GroupCounts /\ OnlyProperties

\* The rest of the service, and the bus.
BusTypes ==
  /\ refCount \in 0 .. MaxServices
  /\ nameOwned \in BOOLEAN
  /\ properties \in SUBSET Keys
  /\ registered \in SUBSET properties
  /\ groupKeys \in SUBSET properties
  /\ mainLoop \in BOOLEAN
  /\ alive \in SUBSET Clients
  /\ wants \in [Clients -> SUBSET Keys]
  /\ resubscribe \in SUBSET (Clients \X Keys)
  /\ wire \in [Clients -> Seq(Messages)]
  /\ matched \in SUBSET Clients

\* Before the main loop is entered no call has been dispatched, so that a
\* property that joins the group is not subscribed.
QuietBeforeLoop == ~mainLoop => \A k \in Keys : clientServiceNames[k] = {}

ServiceInv == BusTypes /\ AdaptorInv /\ QuietBeforeLoop

\* The two halves of the type invariant.
LEMMA TypesTogether == ServiceInv => ServiceTypeOK
  BY DEF ServiceInv, BusTypes, AdaptorInv, AdaptorTypes, ServiceTypeOK

-----------------------------------------------------------------------------
(* The group's count                                                       *)

\* Some of the group's properties, disjoint from those subscribed already,
\* become subscribed one after the other (onFirstSubscriberAppeared).
LEMMA FirstAppearedCounts ==
  ASSUME NEW S, IsFiniteSet(S), NEW T, IsFiniteSet(T), S \cap T = {},
         groupActive \in BOOLEAN,
         propertiesSubscribedTo = Cardinality(S), groupActive <=> S # {},
         FirstAppeared(Cardinality(T))
  PROVE  /\ propertiesSubscribedTo' = Cardinality(S \cup T)
         /\ propertiesSubscribedTo' \in Nat
         /\ groupActive' \in BOOLEAN
         /\ groupActive' <=> S \cup T # {}
<1>1. /\ Cardinality(S) \in Nat
      /\ Cardinality(T) \in Nat
  BY FS_CardinalityType
<1>2. Cardinality(S \cup T) = Cardinality(S) + Cardinality(T)
  BY <1>1, FS_Union, FS_EmptySet
<1>3. /\ Cardinality(S) = 0 <=> S = {}
      /\ Cardinality(T) = 0 <=> T = {}
  BY FS_EmptySet
<1>4. 1 \in (Cardinality(S) + 1) .. (Cardinality(S) + Cardinality(T))
        <=> Cardinality(S) = 0 /\ Cardinality(T) > 0
  BY <1>1
<1>5. groupActive' <=> (groupActive \/ (S = {} /\ T # {}))
  <2>1. Cardinality(T) > 0 <=> T # {}
    BY <1>1, <1>3
  <2> QED
    BY <1>3, <1>4, <2>1 DEF FirstAppeared
<1>6. groupActive' \in BOOLEAN
  BY DEF FirstAppeared
<1>7. propertiesSubscribedTo' = Cardinality(S) + Cardinality(T)
  BY DEF FirstAppeared
<1> QED
  BY <1>1, <1>2, <1>5, <1>6, <1>7

\* Some of the subscribed properties of the group become unsubscribed
\* (onLastSubscriberDisappeared).
LEMMA LastDisappearedCounts ==
  ASSUME NEW S, IsFiniteSet(S), NEW T \in SUBSET S,
         groupActive \in BOOLEAN,
         propertiesSubscribedTo = Cardinality(S), groupActive <=> S # {},
         LastDisappeared(Cardinality(T))
  PROVE  /\ propertiesSubscribedTo' = Cardinality(S \ T)
         /\ propertiesSubscribedTo' \in Nat
         /\ groupActive' \in BOOLEAN
         /\ groupActive' <=> S \ T # {}
<1>1. IsFiniteSet(T) /\ Cardinality(T) <= Cardinality(S)
  BY FS_Subset
<1>2. /\ Cardinality(S) \in Nat
      /\ Cardinality(T) \in Nat
  BY <1>1, FS_CardinalityType
<1>3. S \cap T = T
  OBVIOUS
<1>4. IsFiniteSet(S \ T) /\ Cardinality(S \ T) = Cardinality(S) - Cardinality(T)
  BY <1>3, FS_Difference
<1>5. /\ Cardinality(S) = 0 <=> S = {}
      /\ Cardinality(S \ T) = 0 <=> S \ T = {}
  BY <1>4, FS_EmptySet
<1>6. 0 \in (Cardinality(S) - Cardinality(T)) .. (Cardinality(S) - 1)
        <=> Cardinality(S) > 0 /\ Cardinality(S) - Cardinality(T) = 0
  BY <1>1, <1>2
<1>7. groupActive' <=> (groupActive /\ ~(S # {} /\ S \ T = {}))
  <2>1. Cardinality(S) > 0 <=> S # {}
    BY <1>2, <1>5
  <2>2. Cardinality(S) - Cardinality(T) = 0 <=> S \ T = {}
    BY <1>4, <1>5
  <2>3. groupActive' = (groupActive /\ 0 \notin (Cardinality(S) - Cardinality(T)) .. (Cardinality(S) - 1))
    BY DEF LastDisappeared
  <2> QED
    BY <1>6, <2>1, <2>2, <2>3
<1>8. groupActive' \in BOOLEAN
  BY DEF LastDisappeared
<1>9. propertiesSubscribedTo' = Cardinality(S) - Cardinality(T)
  BY DEF LastDisappeared
<1>10. groupActive' <=> S \ T # {}
  BY <1>7
<1> QED
  BY <1>1, <1>2, <1>4, <1>8, <1>9, <1>10

\* Any part of the group is finite.
LEMMA GroupFinite ==
  ASSUME AdaptorTypes, NEW T \in SUBSET groupKeys
  PROVE  IsFiniteSet(T)
  BY ServiceAssumption, FS_Subset DEF AdaptorTypes

\* setSubscribed of the properties `ks` keeps the group's count.
LEMMA SetSubscribedCounts ==
  ASSUME AdaptorTypes, GroupCounts, groupKeys' = groupKeys,
         NEW ks \in SUBSET Keys, SetSubscribed(ks)
  PROVE  /\ GroupCounts'
         /\ subscribed' = [k \in Keys |-> subscribed[k] \/ k \in ks]
         /\ propertiesSubscribedTo' \in Nat
         /\ groupActive' \in BOOLEAN
<1> DEFINE S == SubscribedInGroup
           T == {k \in ks \cap groupKeys : ~subscribed[k]}
<1>1. subscribed' = [k \in Keys |-> subscribed[k] \/ k \in ks]
  BY DEF SetSubscribed
<1>2. IsFiniteSet(S) /\ IsFiniteSet(T) /\ S \cap T = {}
  BY GroupFinite DEF SubscribedInGroup
<1>3. SubscribedInGroup' = S \cup T
  BY <1>1 DEF SubscribedInGroup, AdaptorTypes
<1>4. /\ FirstAppeared(Cardinality(T))
      /\ groupActive \in BOOLEAN
      /\ propertiesSubscribedTo = Cardinality(S)
      /\ groupActive <=> S # {}
  BY DEF SetSubscribed, AdaptorTypes, GroupCounts
<1>5. /\ propertiesSubscribedTo' = Cardinality(S \cup T)
      /\ propertiesSubscribedTo' \in Nat
      /\ groupActive' \in BOOLEAN
      /\ groupActive' <=> S \cup T # {}
  <2> HIDE DEF S, T
  <2> QED
    BY <1>2, <1>4, FirstAppearedCounts
<1> QED
  BY <1>1, <1>3, <1>5 DEF GroupCounts

\* setUnsubscribed of the properties `ks` keeps the group's count.
LEMMA SetUnsubscribedCounts ==
  ASSUME AdaptorTypes, GroupCounts, groupKeys' = groupKeys,
         NEW ks \in SUBSET Keys, SetUnsubscribed(ks)
  PROVE  /\ GroupCounts'
         /\ subscribed' = [k \in Keys |-> subscribed[k] /\ k \notin ks]
         /\ propertiesSubscribedTo' \in Nat
         /\ groupActive' \in BOOLEAN
<1> DEFINE S == SubscribedInGroup
           T == {k \in ks \cap groupKeys : subscribed[k]}
<1>1. subscribed' = [k \in Keys |-> subscribed[k] /\ k \notin ks]
  BY DEF SetUnsubscribed
<1>2. IsFiniteSet(S) /\ T \in SUBSET S
  BY GroupFinite DEF SubscribedInGroup
<1>3. SubscribedInGroup' = S \ T
  BY <1>1 DEF SubscribedInGroup, AdaptorTypes
<1>4. /\ LastDisappeared(Cardinality(T))
      /\ groupActive \in BOOLEAN
      /\ propertiesSubscribedTo = Cardinality(S)
      /\ groupActive <=> S # {}
  BY DEF SetUnsubscribed, AdaptorTypes, GroupCounts
<1>5. /\ propertiesSubscribedTo' = Cardinality(S \ T)
      /\ propertiesSubscribedTo' \in Nat
      /\ groupActive' \in BOOLEAN
      /\ groupActive' <=> S \ T # {}
  <2> HIDE DEF S, T
  <2> QED
    BY <1>2, <1>4, LastDisappearedCounts
<1> QED
  BY <1>1, <1>3, <1>5 DEF GroupCounts

-----------------------------------------------------------------------------
(* The adaptors                                                            *)

\* Properties and group grow only while nobody is subscribed.
LEMMA AdaptorUntouched ==
  ASSUME AdaptorInv, UNCHANGED <<clientVars, groupVars, groupKeys>>,
         properties \subseteq properties'
  PROVE  AdaptorInv'
<1>1. UNCHANGED <<clientServiceNames, watched, subscribed>>
  BY DEF clientVars
<1>2. UNCHANGED <<propertiesSubscribedTo, groupActive, groupKeys>>
  BY DEF groupVars
<1>3. AdaptorTypes' /\ SubscribedWhileClients'
  BY <1>1, <1>2 DEF AdaptorInv, AdaptorTypes, SubscribedWhileClients
<1>4. GroupCounts'
  BY <1>1, <1>2 DEF AdaptorInv, GroupCounts, SubscribedInGroup
<1>5. OnlyProperties'
  BY <1>1 DEF AdaptorInv, OnlyProperties
<1> QED
  BY <1>3, <1>4, <1>5 DEF AdaptorInv

\* Subscribe, the first or a further one of a client.
LEMMA SubscribeAdaptor ==
  ASSUME AdaptorInv, UNCHANGED <<groupKeys, properties>>,
         NEW c \in Clients, NEW k \in Keys, k \in properties, Subscribe(c, k)
  PROVE  AdaptorInv'
<1>1. CASE c \in clientServiceNames[k]
  BY <1>1, AdaptorUntouched DEF Subscribe
<1>2. CASE c \notin clientServiceNames[k]
  <2> DEFINE ks == {j \in {k} : clientServiceNames[j] = {}}
  <2>1. /\ clientServiceNames' = [clientServiceNames EXCEPT ![k] = @ \cup {c}]
        /\ watched' = [watched EXCEPT ![k] = @ \cup {c}]
        /\ SetSubscribed(ks)
    BY <1>2 DEF Subscribe, Watches
  <2>2. ks \in SUBSET Keys
    OBVIOUS
  <2>3. AdaptorTypes /\ GroupCounts /\ SubscribedWhileClients /\ OnlyProperties
    BY DEF AdaptorInv
  <2>4. /\ GroupCounts'
        /\ subscribed' = [j \in Keys |-> subscribed[j] \/ j \in ks]
        /\ propertiesSubscribedTo' \in Nat
        /\ groupActive' \in BOOLEAN
    <3> HIDE DEF ks
    <3> QED
      BY <2>1, <2>2, <2>3, SetSubscribedCounts
  <2>5. AdaptorTypes'
    BY <2>1, <2>3, <2>4 DEF AdaptorTypes
  <2>6. \A j \in Keys : subscribed'[j] <=> clientServiceNames'[j] # {}
    BY <2>1, <2>3, <2>4 DEF AdaptorTypes, SubscribedWhileClients
  <2>7. \A j \in Keys : watched'[j] = clientServiceNames'[j]
    BY <2>1, <2>3 DEF AdaptorTypes, SubscribedWhileClients
  <2>8. OnlyProperties'
    BY <2>1, <2>3 DEF AdaptorTypes, OnlyProperties
  <2> QED
    BY <2>4, <2>5, <2>6, <2>7, <2>8 DEF AdaptorInv, SubscribedWhileClients
<1> QED
  BY <1>1, <1>2

\* A client leaves the adaptors `ks`, each of which knows it (Unsubscribe,
\* onClientExited).
LEMMA LeaveAdaptor ==
  ASSUME AdaptorInv, UNCHANGED <<groupKeys, properties>>,
         NEW c \in Clients, NEW ks \in SUBSET Keys,
         \A k \in ks : c \in clientServiceNames[k], Leave(ks, c)
  PROVE  AdaptorInv'
<1> DEFINE gone == {k \in ks : clientServiceNames[k] = {c}}
<1>1. /\ clientServiceNames' =
           [k \in Keys |-> IF k \in ks THEN clientServiceNames[k] \ {c} ELSE clientServiceNames[k]]
      /\ watched' = [k \in Keys |-> IF k \in ks THEN watched[k] \ {c} ELSE watched[k]]
      /\ SetUnsubscribed(gone)
  BY DEF Leave
<1>2. gone \in SUBSET Keys
  OBVIOUS
<1>3. AdaptorTypes /\ GroupCounts /\ SubscribedWhileClients /\ OnlyProperties
  BY DEF AdaptorInv
<1>4. /\ GroupCounts'
      /\ subscribed' = [k \in Keys |-> subscribed[k] /\ k \notin gone]
      /\ propertiesSubscribedTo' \in Nat
      /\ groupActive' \in BOOLEAN
  <2> HIDE DEF gone
  <2> QED
    BY <1>1, <1>2, <1>3, SetUnsubscribedCounts
<1>5. AdaptorTypes'
  BY <1>1, <1>3, <1>4 DEF AdaptorTypes
<1>6. \A k \in Keys : subscribed'[k] <=> clientServiceNames'[k] # {}
  BY <1>1, <1>3, <1>4 DEF AdaptorTypes, SubscribedWhileClients
<1>7. \A k \in Keys : watched'[k] = clientServiceNames'[k]
  BY <1>1, <1>3 DEF AdaptorTypes, SubscribedWhileClients
<1>8. OnlyProperties'
  BY <1>1, <1>3 DEF AdaptorTypes, OnlyProperties
<1> QED
  BY <1>4, <1>5, <1>6, <1>7, <1>8 DEF AdaptorInv, SubscribedWhileClients

\* forgetClients of every adaptor, from stop().
LEMMA ForgetAdaptor ==
  ASSUME AdaptorInv, properties \in SUBSET Keys, UNCHANGED <<groupKeys, properties>>,
         ForgetClients
  PROVE  AdaptorInv' /\ \A k \in Keys : clientServiceNames'[k] = {}
<1>1. /\ clientServiceNames' = [k \in Keys |-> {}]
      /\ watched' = [k \in Keys |-> {}]
      /\ SetUnsubscribed(properties)
  BY DEF ForgetClients
<1>2. AdaptorTypes /\ GroupCounts /\ SubscribedWhileClients /\ OnlyProperties
  BY DEF AdaptorInv
<1>3. /\ GroupCounts'
      /\ subscribed' = [k \in Keys |-> subscribed[k] /\ k \notin properties]
      /\ propertiesSubscribedTo' \in Nat
      /\ groupActive' \in BOOLEAN
  BY <1>1, <1>2, SetUnsubscribedCounts
<1>4. AdaptorTypes'
  BY <1>1, <1>2, <1>3 DEF AdaptorTypes
<1>5. \A k \in Keys : subscribed'[k] <=> clientServiceNames'[k] # {}
  BY <1>1, <1>2, <1>3 DEF AdaptorTypes, SubscribedWhileClients, OnlyProperties
<1>6. \A k \in Keys : watched'[k] = clientServiceNames'[k] /\ clientServiceNames'[k] = {}
  BY <1>1
<1>7. OnlyProperties'
  BY <1>6 DEF OnlyProperties
<1> QED
  BY <1>3, <1>4, <1>5, <1>6, <1>7 DEF AdaptorInv, SubscribedWhileClients

-----------------------------------------------------------------------------
(* The operations of the program                                           *)

\* Nothing the adaptors see has changed.
LEMMA QuietUntouched ==
  ASSUME QuietBeforeLoop, UNCHANGED clientVars, mainLoop => mainLoop'
  PROVE  QuietBeforeLoop'
  BY DEF QuietBeforeLoop, clientVars

\* With no clients left the invariant of the time before the main loop holds.
LEMMA QuietForgotten ==
  ASSUME \A k \in Keys : clientServiceNames'[k] = {}
  PROVE  QuietBeforeLoop'
  BY DEF QuietBeforeLoop

\* stop(), also when start() cannot have the name and when the last Service
\* object goes.
LEMMA StopServiceInv ==
  ASSUME ServiceInv, StopService, UNCHANGED <<groupKeys, properties>>
  PROVE  /\ AdaptorInv' /\ QuietBeforeLoop'
         /\ registered' = {} /\ nameOwned' = FALSE /\ resubscribe' = {}
<1>1. ForgetClients /\ registered' = {} /\ nameOwned' = FALSE /\ resubscribe' = {}
  BY DEF StopService, Visible, NameVanishes
<1>2. AdaptorInv /\ properties \in SUBSET Keys
  BY DEF ServiceInv, BusTypes
<1>3. AdaptorInv' /\ \A k \in Keys : clientServiceNames'[k] = {}
  BY <1>1, <1>2, ForgetAdaptor
<1> QED
  BY <1>1, <1>3, QuietForgotten

\* start(), with its three outcomes.
LEMMA StartServiceInv ==
  ASSUME ServiceInv, StartService, UNCHANGED <<groupKeys, properties, mainLoop>>
  PROVE  /\ AdaptorInv' /\ QuietBeforeLoop'
         /\ registered' \in SUBSET properties /\ nameOwned' \in BOOLEAN
         /\ resubscribe' \in SUBSET (Clients \X Keys)
<1>1. /\ AdaptorInv /\ QuietBeforeLoop
      /\ registered \in SUBSET properties /\ nameOwned \in BOOLEAN
      /\ resubscribe \in SUBSET (Clients \X Keys) /\ alive \in SUBSET Clients
  BY DEF ServiceInv, BusTypes
<1>2. ASSUME UNCHANGED <<clientVars, groupVars>>
      PROVE  AdaptorInv' /\ QuietBeforeLoop'
  BY <1>1, <1>2, AdaptorUntouched, QuietUntouched
<1>3. CASE /\ Visible(Registers, TRUE)
           /\ IF nameOwned THEN UNCHANGED resubscribe ELSE NameAppears
           /\ UNCHANGED <<clientVars, groupVars>>
  <2>1. registered' = properties /\ nameOwned' = TRUE
    BY <1>3 DEF Visible, Registers
  <2>2. resubscribe' \in SUBSET (Clients \X Keys)
    BY <1>1, <1>3 DEF NameAppears
  <2> QED
    BY <1>2, <1>3, <2>1, <2>2
<1>4. CASE StopService
  BY <1>4, StopServiceInv
<1>5. CASE /\ \E ks \in SUBSET properties :
                ks # properties /\ Visible(registered \cup ks, nameOwned)
           /\ UNCHANGED <<clientVars, groupVars, resubscribe>>
  BY <1>1, <1>2, <1>5 DEF Visible
<1> QED
  BY <1>3, <1>4, <1>5 DEF StartService

\* restart(): the clients are forgotten whatever becomes of the start.
LEMMA RestartInv ==
  ASSUME ServiceInv, Restart
  PROVE  ServiceInv'
<1>1. /\ ForgetClients
      /\ UNCHANGED <<programVars, busVars>>
      /\ \/ Visible(Registers, TRUE) /\ NameAppears
         \/ Visible({}, FALSE) /\ NameVanishes
         \/ /\ \E ks \in SUBSET properties : ks # properties /\ Visible(ks, FALSE)
            /\ NameVanishes
  BY DEF Restart
<1>2. /\ UNCHANGED <<refCount, properties, groupKeys, mainLoop>>
      /\ UNCHANGED <<alive, wants, wire, matched>>
  BY <1>1 DEF programVars, busVars
<1>3. AdaptorInv /\ BusTypes /\ properties \in SUBSET Keys /\ alive \in SUBSET Clients
  BY DEF ServiceInv, BusTypes
<1>4. AdaptorInv' /\ \A k \in Keys : clientServiceNames'[k] = {}
  BY <1>1, <1>2, <1>3, ForgetAdaptor
<1>5. QuietBeforeLoop'
  BY <1>4, QuietForgotten
<1>6. /\ registered' \in SUBSET properties
      /\ nameOwned' \in BOOLEAN
      /\ resubscribe' \in SUBSET (Clients \X Keys)
  BY <1>1, <1>3 DEF Visible, Registers, NameAppears, NameVanishes
<1>7. BusTypes'
  BY <1>2, <1>3, <1>6 DEF BusTypes, Messages
<1> QED
  BY <1>4, <1>5, <1>7 DEF ServiceInv

\* Start, Stop and the life of the Service objects, which end in start(), stop()
\* or neither.
LEMMA ServiceObjectInv ==
  ASSUME ServiceInv, Start \/ Stop \/ CreateService \/ DestroyService
  PROVE  ServiceInv'
<1>1. BusTypes /\ AdaptorInv /\ QuietBeforeLoop
  BY DEF ServiceInv
<1>2. UNCHANGED <<properties, groupKeys, mainLoop, alive, wants, wire, matched>>
  BY DEF Start, Stop, CreateService, DestroyService, programVars, busVars
<1>3. refCount' \in 0 .. MaxServices
  <2>1. MaxServices \in Nat /\ refCount \in 0 .. MaxServices
    BY <1>1, ServiceAssumption DEF BusTypes
  <2>2. \/ refCount' = refCount
        \/ refCount < MaxServices /\ refCount' = refCount + 1
        \/ refCount > 0 /\ refCount' = refCount - 1
    BY DEF Start, Stop, CreateService, DestroyService, programVars
  <2> QED
    BY <2>1, <2>2
<1>4. \/ StartService
      \/ StopService
      \/ UNCHANGED <<objectVars, clientVars, groupVars, resubscribe>>
  BY DEF Start, Stop, CreateService, DestroyService
<1>5. /\ AdaptorInv' /\ QuietBeforeLoop'
      /\ registered' \in SUBSET properties /\ nameOwned' \in BOOLEAN
      /\ resubscribe' \in SUBSET (Clients \X Keys)
  <2>1. CASE StartService
    BY <1>2, <2>1, StartServiceInv
  <2>2. CASE StopService
    BY <1>2, <2>2, StopServiceInv
  <2>3. CASE UNCHANGED <<objectVars, clientVars, groupVars, resubscribe>>
    <3>1. AdaptorInv' /\ QuietBeforeLoop'
      BY <1>1, <1>2, <2>3, AdaptorUntouched, QuietUntouched
    <3> QED
      BY <1>1, <2>3, <3>1 DEF BusTypes, objectVars
  <2> QED
    BY <1>4, <2>1, <2>2, <2>3
<1>6. BusTypes'
  BY <1>1, <1>2, <1>3, <1>5 DEF BusTypes, Messages
<1> QED
  BY <1>5, <1>6 DEF ServiceInv

\* addProperty, Group::add and the entry of the main loop.
LEMMA SetupInv ==
  ASSUME ServiceInv, EnterMainLoop \/ \E k \in Keys : AddProperty(k) \/ AddToGroup(k)
  PROVE  ServiceInv'
<1>1. BusTypes /\ AdaptorInv /\ QuietBeforeLoop
  BY DEF ServiceInv
<1>2. CASE EnterMainLoop
  <2>1. mainLoop' = TRUE /\ UNCHANGED <<refCount, properties, groupKeys, resubscribe>>
    BY <1>2 DEF EnterMainLoop
  <2>2. UNCHANGED <<nameOwned, registered, alive, wants, wire, matched, clientVars, groupVars>>
    BY <1>2 DEF EnterMainLoop, objectVars, busVars
  <2>3. AdaptorInv'
    BY <1>1, <2>1, <2>2, AdaptorUntouched
  <2>4. QuietBeforeLoop'
    BY <2>1 DEF QuietBeforeLoop
  <2>5. BusTypes'
    BY <1>1, <2>1, <2>2 DEF BusTypes, Messages
  <2> QED
    BY <2>3, <2>4, <2>5 DEF ServiceInv
<1>3. ASSUME NEW k \in Keys, AddProperty(k) PROVE ServiceInv'
  <2>1. /\ properties' = properties \cup {k} /\ registered' = registered \cup {k}
        /\ UNCHANGED <<refCount, groupKeys, mainLoop, nameOwned, resubscribe>>
    BY <1>3 DEF AddProperty
  <2>2. UNCHANGED <<alive, wants, wire, matched, clientVars, groupVars>>
    BY <1>3 DEF AddProperty, busVars
  <2>3. AdaptorInv' /\ QuietBeforeLoop'
    BY <1>1, <2>1, <2>2, AdaptorUntouched, QuietUntouched
  <2>4. BusTypes'
    BY <1>1, <2>1, <2>2 DEF BusTypes, Messages
  <2> QED
    BY <2>3, <2>4 DEF ServiceInv
<1>4. ASSUME NEW k \in Keys, AddToGroup(k) PROVE ServiceInv'
  <2>1. /\ ~mainLoop /\ k \in properties /\ groupKeys' = groupKeys \cup {k}
        /\ UNCHANGED <<refCount, properties, mainLoop, resubscribe>>
    BY <1>4 DEF AddToGroup
  <2>2. UNCHANGED <<nameOwned, registered, alive, wants, wire, matched, clientVars>>
    BY <1>4 DEF AddToGroup, objectVars, busVars
  <2>3. /\ UNCHANGED <<clientServiceNames, watched, subscribed>>
        /\ UNCHANGED <<propertiesSubscribedTo, groupActive>>
    BY <1>4 DEF AddToGroup, clientVars, groupVars
  <2>4. AdaptorTypes /\ SubscribedWhileClients /\ GroupCounts /\ OnlyProperties
    BY <1>1 DEF AdaptorInv
  <2>5. ~subscribed[k]
    BY <1>1, <2>1, <2>4 DEF QuietBeforeLoop, SubscribedWhileClients
  <2>6. SubscribedInGroup' = SubscribedInGroup
    BY <2>1, <2>3, <2>5 DEF SubscribedInGroup
  <2>7. GroupCounts'
    BY <2>3, <2>4, <2>6 DEF GroupCounts
  <2>8. AdaptorTypes' /\ SubscribedWhileClients' /\ OnlyProperties'
    BY <2>1, <2>3, <2>4 DEF AdaptorTypes, SubscribedWhileClients, OnlyProperties
  <2>9. QuietBeforeLoop'
    BY <1>1, <2>1, <2>2, QuietUntouched
  <2>10. BusTypes'
    BY <1>1, <2>1, <2>2 DEF BusTypes, Messages
  <2> QED
    BY <2>7, <2>8, <2>9, <2>10 DEF ServiceInv, AdaptorInv
<1> QED
  BY <1>2, <1>3, <1>4

-----------------------------------------------------------------------------
(* The bus and the clients                                                 *)

\* Messages under way are calls or notices.
LEMMA SendTyped ==
  ASSUME wire \in [Clients -> Seq(Messages)], NEW c \in Clients, NEW m \in Messages,
         wire' = wire \/ Send(c, m)
  PROVE  wire' \in [Clients -> Seq(Messages)]
<1>1. Append(wire[c], m) \in Seq(Messages)
  OBVIOUS
<1>2. wire' = wire \/ wire' = [wire EXCEPT ![c] = Append(wire[c], m)]
  BY DEF Send
<1> QED
  BY <1>1, <1>2

\* A client acts, or the bus: the service has not noticed anything yet.
LEMMA ClientInv ==
  ASSUME ServiceInv, NEW c \in Clients,
         \/ ClientExits(c) \/ BusUpdatesMatch(c)
         \/ \E k \in Keys : \/ ClientSubscribes(c, k)
                            \/ ClientUnsubscribes(c, k)
                            \/ ClientResubscribes(c, k)
  PROVE  ServiceInv'
<1>1. BusTypes /\ AdaptorInv /\ QuietBeforeLoop
  BY DEF ServiceInv
<1>2. UNCHANGED <<objectVars, clientVars, groupVars, programVars>>
  BY DEF ClientExits, BusUpdatesMatch, ClientSubscribes, ClientUnsubscribes, ClientResubscribes
<1>3. UNCHANGED <<nameOwned, registered, refCount, properties, groupKeys, mainLoop>>
  BY <1>2 DEF objectVars, programVars
<1>4. AdaptorInv' /\ QuietBeforeLoop'
  BY <1>1, <1>2, <1>3, AdaptorUntouched, QuietUntouched
<1>5. /\ alive' \in SUBSET Clients
      /\ wants' \in [Clients -> SUBSET Keys]
      /\ resubscribe' \in SUBSET (Clients \X Keys)
      /\ matched' \in SUBSET Clients
  BY <1>1 DEF BusTypes, ClientExits, BusUpdatesMatch, ClientSubscribes, ClientUnsubscribes,
     ClientResubscribes
<1>6. ExitMsg \in Messages
      /\ \A k \in Keys : SubscribeMsg(k) \in Messages /\ UnsubscribeMsg(k) \in Messages
  BY DEF Messages
<1>7. \E m \in Messages : wire' = wire \/ Send(c, m)
  BY <1>6 DEF ClientExits, BusUpdatesMatch, ClientSubscribes, ClientUnsubscribes,
     ClientResubscribes, SendIfOwned
<1>8. wire' \in [Clients -> Seq(Messages)]
  BY <1>1, <1>7, SendTyped DEF BusTypes
<1>9. BusTypes'
  <2> HIDE DEF Messages
  <2>1. Messages' = Messages
    BY DEF Messages, SubscribeMsg, UnsubscribeMsg, ExitMsg
  <2> QED
    BY <1>1, <1>3, <1>5, <1>8, <2>1 DEF BusTypes
<1> QED
  BY <1>4, <1>9 DEF ServiceInv

\* The dispatch of one message.
LEMMA DeliverInv ==
  ASSUME ServiceInv, NEW c \in Clients, Deliver(c)
  PROVE  ServiceInv'
<1>1. BusTypes /\ AdaptorInv /\ QuietBeforeLoop /\ SubscribedWhileClients
  BY DEF ServiceInv, AdaptorInv
<1>2. /\ mainLoop /\ wire[c] # <<>>
      /\ wire' = [wire EXCEPT ![c] = Tail(wire[c])]
      /\ UNCHANGED <<objectVars, programVars, alive, wants, matched, resubscribe>>
  BY DEF Deliver
<1>3. UNCHANGED <<nameOwned, registered, refCount, properties, groupKeys, mainLoop>>
  BY <1>2 DEF objectVars, programVars
<1>4. \/ OnClientExited(c)
      \/ \E k \in registered : Subscribe(c, k) \/ Unsubscribe(c, k)
      \/ UNCHANGED <<clientVars, groupVars>>
  BY DEF Deliver
<1>5. AdaptorInv'
  <2>1. CASE OnClientExited(c)
    <3>1. NoticedBy(c) \in SUBSET Keys /\ \A k \in NoticedBy(c) : c \in clientServiceNames[k]
      BY <1>1 DEF NoticedBy, SubscribedWhileClients
    <3>2. Leave(NoticedBy(c), c)
      BY <2>1 DEF OnClientExited
    <3> QED
      BY <1>1, <1>3, <3>1, <3>2, LeaveAdaptor
  <2>2. ASSUME NEW k \in registered, Subscribe(c, k) PROVE AdaptorInv'
    <3>1. k \in Keys /\ k \in properties
      BY <1>1, <2>2 DEF BusTypes
    <3> QED
      BY <1>1, <1>3, <2>2, <3>1, SubscribeAdaptor
  <2>3. ASSUME NEW k \in registered, Unsubscribe(c, k) PROVE AdaptorInv'
    <3> DEFINE ks == {j \in {k} : c \in clientServiceNames[j]}
    <3>1. ks \in SUBSET Keys /\ \A j \in ks : c \in clientServiceNames[j]
      BY <1>1, <2>3 DEF BusTypes
    <3>2. Leave(ks, c)
      BY <2>3 DEF Unsubscribe
    <3> QED
      BY <1>1, <1>3, <3>1, <3>2, LeaveAdaptor
  <2>4. CASE UNCHANGED <<clientVars, groupVars>>
    BY <1>1, <1>3, <2>4, AdaptorUntouched
  <2> QED
    BY <1>4, <2>1, <2>2, <2>3, <2>4
<1>6. QuietBeforeLoop'
  BY <1>2, <1>3 DEF QuietBeforeLoop
<1>7. wire' \in [Clients -> Seq(Messages)]
  <2>1. wire \in [Clients -> Seq(Messages)]
    BY <1>1 DEF BusTypes
  <2>2. Tail(wire[c]) \in Seq(Messages)
    BY <1>2, <2>1
  <2> QED
    BY <1>2, <2>1, <2>2
<1>8. BusTypes'
  <2>1. Messages' = Messages
    BY DEF Messages, SubscribeMsg, UnsubscribeMsg, ExitMsg
  <2> QED
    BY <1>1, <1>2, <1>3, <1>7, <2>1 DEF BusTypes
<1> QED
  BY <1>5, <1>6, <1>8 DEF ServiceInv

\* Only the dispatch shortens what a client has sent, so that only the dispatch
\* of the notice itself leaves nothing behind an announced exit.
LEMMA NoticeDispatched ==
  ASSUME ServiceInv, [Next]_serviceVars, NEW c \in Clients,
         ExitAnnounced(c), wire'[c] = <<>>
  PROVE  Deliver(c) /\ Head(wire[c]) = ExitMsg
<1>1. wire \in [Clients -> Seq(Messages)]
  BY DEF ServiceInv, BusTypes
<1>2. wire[c] # <<>>
  BY DEF ExitAnnounced
<1>3. ~ UNCHANGED wire
  BY <1>2
<1>4. \A d \in Clients, msg \in Messages : ~ Send(d, msg)
  <2> SUFFICES ASSUME NEW d \in Clients, NEW msg \in Messages, Send(d, msg) PROVE FALSE
    OBVIOUS
  <2>1. wire' = [wire EXCEPT ![d] = Append(wire[d], msg)]
    BY DEF Send
  <2>2. wire'[c] = wire[c] \/ wire'[c] = Append(wire[c], msg)
    BY <1>1, <2>1
  <2>3. wire[c] \in Seq(Messages)
    BY <1>1
  <2> HIDE DEF Messages
  <2>4. Len(Append(wire[c], msg)) = Len(wire[c]) + 1 /\ Len(wire[c]) \in Nat
    BY <2>3
  <2>5. Append(wire[c], msg) # <<>>
    BY <2>4
  <2> QED
    BY <1>2, <2>2, <2>5
<1>5. \A d \in Clients :
        /\ ~ ClientExits(d)
        /\ \A k \in Keys : /\ ~ ClientSubscribes(d, k) /\ ~ ClientUnsubscribes(d, k)
                          /\ ~ ClientResubscribes(d, k)
  BY <1>3, <1>4 DEF ClientSubscribes, ClientUnsubscribes, ClientResubscribes, ClientExits,
     SendIfOwned, Messages
<1>6. \A d \in Clients : ~ BusUpdatesMatch(d)
  BY <1>3 DEF BusUpdatesMatch
<1>7. ~ UNCHANGED serviceVars /\ ~ UNCHANGED busVars
  BY <1>3 DEF serviceVars, busVars
<1>8. /\ ~ (Start \/ Stop \/ Restart \/ CreateService \/ DestroyService \/ EnterMainLoop)
      /\ \A k \in Keys : ~ AddProperty(k) /\ ~ AddToGroup(k)
  BY <1>7 DEF Start, Stop, Restart, CreateService, DestroyService, EnterMainLoop,
     AddProperty, AddToGroup
<1>9. PICK d \in Clients : Deliver(d)
  <2>1. Next
    BY <1>7
  <2> QED
    BY <1>5, <1>6, <1>8, <2>1 DEF Next
<1>10. d = c /\ Tail(wire[c]) = <<>>
  BY <1>1, <1>2, <1>9 DEF Deliver
<1>11. wire[c] \in Seq(Messages)
  BY <1>1
<1> HIDE DEF Messages
<1>12. Len(wire[c]) = 1
  <2>1. Len(Tail(wire[c])) = Len(wire[c]) - 1 /\ Len(wire[c]) \in Nat
    BY <1>2, <1>11
  <2>2. Len(<<>>) = 0
    OBVIOUS
  <2>3. Len(Tail(wire[c])) = Len(<<>>)
    BY <1>10, Zenon
  <2> QED
    BY <2>1, <2>2, <2>3
<1>13. Head(wire[c]) = ExitMsg
  BY <1>11, <1>12 DEF ExitAnnounced
<1> QED
  BY <1>9, <1>10, <1>13

\* Every adaptor that has the client watches it, and so notices the exit.
LEMMA NoticeForgets ==
  ASSUME ServiceInv, [Next]_serviceVars, NEW c \in Clients,
         ExitAnnounced(c), wire'[c] = <<>>, NEW k \in Keys
  PROVE  c \notin clientServiceNames'[k]
<1>1. Deliver(c) /\ Head(wire[c]) = ExitMsg
  BY NoticeDispatched
<1>2. OnClientExited(c)
  BY <1>1 DEF Deliver, ExitMsg, SubscribeMsg, UnsubscribeMsg
<1>3. clientServiceNames[k] = watched[k] /\ clientServiceNames \in [Keys -> SUBSET Clients]
  BY DEF ServiceInv, AdaptorInv, AdaptorTypes, SubscribedWhileClients
<1> QED
  BY <1>2, <1>3 DEF OnClientExited, Leave, NoticedBy

-----------------------------------------------------------------------------
(* What the clients wait for                                               *)

\* Once the messages `w` of a client are dispatched, the property of k will know
\* the client, as it does now or because of the last message about k.
EndsKnown(w, known, k) ==
  \/ known /\ \A i \in 1 .. Len(w) : w[i] # UnsubscribeMsg(k)
  \/ \E i \in 1 .. Len(w) : /\ w[i] = SubscribeMsg(k)
                            /\ \A j \in i + 1 .. Len(w) : w[j] # UnsubscribeMsg(k)

\* A client that does not wait for the notice of the name has said what it
\* wants, about keys that may become properties as well.
ClientsSaidIt ==
  nameOwned =>
    \A c \in alive : \A k \in Keys :
      (k \in properties \/ ~mainLoop) /\ <<c, k>> \notin resubscribe /\ k \in wants[c]
        => EndsKnown(wire[c], c \in clientServiceNames[k], k)

OwnedIsComplete == nameOwned => registered = properties
NoExitYet == \A c \in alive : \A i \in 1 .. Len(wire[c]) : wire[c][i] # ExitMsg

KnownInv == OwnedIsComplete /\ NoExitYet /\ ClientsSaidIt

LEMMA MessagesDiffer ==
  /\ \A j, k \in Keys : /\ SubscribeMsg(j) # UnsubscribeMsg(k)
                        /\ j # k => SubscribeMsg(j) # SubscribeMsg(k)
                        /\ j # k => UnsubscribeMsg(j) # UnsubscribeMsg(k)
  /\ \A k \in Keys : SubscribeMsg(k) # ExitMsg /\ UnsubscribeMsg(k) # ExitMsg
  /\ \A k \in Keys : SubscribeMsg(k) \in Messages /\ UnsubscribeMsg(k) \in Messages
  /\ ExitMsg \in Messages
BY DEF SubscribeMsg, UnsubscribeMsg, ExitMsg, Messages

\* Another message, unless it is Unsubscribe, leaves it so; Subscribe makes it so.
LEMMA EndsKnownAppend ==
  ASSUME NEW w \in Seq(Messages), NEW m \in Messages, NEW known \in BOOLEAN, NEW k \in Keys,
         m = SubscribeMsg(k) \/ (EndsKnown(w, known, k) /\ m # UnsubscribeMsg(k))
  PROVE  EndsKnown(Append(w, m), known, k)
<1> DEFINE v == Append(w, m)
<1>1. /\ Len(v) = Len(w) + 1 /\ Len(w) \in Nat
      /\ v[Len(w) + 1] = m /\ \A i \in 1 .. Len(w) : v[i] = w[i]
  <2> HIDE DEF Messages
  <2> QED
    OBVIOUS
<1> HIDE DEF v
<1>2. CASE m = SubscribeMsg(k)
  <2>1. Len(v) \in 1 .. Len(v) /\ \A j \in Len(v) + 1 .. Len(v) : v[j] # UnsubscribeMsg(k)
    BY <1>1
  <2>2. v[Len(v)] = SubscribeMsg(k)
    BY <1>1, <1>2
  <2>3. EndsKnown(v, known, k)
    BY <2>1, <2>2 DEF EndsKnown
  <2> QED
    BY <2>3 DEF v
<1>3. CASE EndsKnown(w, known, k) /\ m # UnsubscribeMsg(k)
  <2>1. CASE known /\ \A i \in 1 .. Len(w) : w[i] # UnsubscribeMsg(k)
    <3>1. \A i \in 1 .. Len(v) : v[i] # UnsubscribeMsg(k)
      BY <1>1, <1>3, <2>1
    <3>2. EndsKnown(v, known, k)
      BY <2>1, <3>1 DEF EndsKnown
    <3> QED
      BY <3>2 DEF v
  <2>2. ASSUME NEW i \in 1 .. Len(w), w[i] = SubscribeMsg(k),
               \A j \in i + 1 .. Len(w) : w[j] # UnsubscribeMsg(k)
        PROVE  EndsKnown(Append(w, m), known, k)
    <3>1. i \in 1 .. Len(v) /\ v[i] = SubscribeMsg(k)
      BY <1>1, <2>2
    <3>2. \A j \in i + 1 .. Len(v) : v[j] # UnsubscribeMsg(k)
      BY <1>1, <1>3, <2>2
    <3>3. EndsKnown(v, known, k)
      BY <3>1, <3>2 DEF EndsKnown
    <3> QED
      BY <3>3 DEF v
  <2> QED
    BY <1>3, <2>1, <2>2 DEF EndsKnown
<1> QED
  BY <1>2, <1>3

\* The first message is dispatched.
LEMMA EndsKnownTail ==
  ASSUME NEW w \in Seq(Messages), w # <<>>, NEW known \in BOOLEAN, NEW then \in BOOLEAN,
         NEW k \in Keys, EndsKnown(w, known, k),
         Head(w) = SubscribeMsg(k) => then,
         known /\ Head(w) # UnsubscribeMsg(k) => then
  PROVE  EndsKnown(Tail(w), then, k)
<1> DEFINE v == Tail(w)
<1>1. /\ Len(v) = Len(w) - 1 /\ Len(w) \in Nat \ {0} /\ Head(w) = w[1]
      /\ \A i \in 1 .. Len(v) : v[i] = w[i + 1]
  <2> HIDE DEF Messages
  <2>1. Len(w) \in Nat /\ Len(w) # 0
    OBVIOUS
  <2> QED
    BY <2>1
<1> HIDE DEF v
<1>2. CASE known /\ \A i \in 1 .. Len(w) : w[i] # UnsubscribeMsg(k)
  <2>1. \A i \in 1 .. Len(v) : v[i] # UnsubscribeMsg(k)
    BY <1>1, <1>2
  <2>2. then
    BY <1>1, <1>2
  <2>3. EndsKnown(v, then, k)
    BY <2>1, <2>2 DEF EndsKnown
  <2> QED
    BY <2>3 DEF v
<1>3. ASSUME NEW i \in 1 .. Len(w), w[i] = SubscribeMsg(k),
             \A j \in i + 1 .. Len(w) : w[j] # UnsubscribeMsg(k)
      PROVE  EndsKnown(Tail(w), then, k)
  <2>1. CASE i = 1
    <3>1. then
      BY <1>1, <1>3, <2>1
    <3>2. \A j \in 1 .. Len(v) : v[j] # UnsubscribeMsg(k)
      BY <1>1, <1>3, <2>1
    <3>3. EndsKnown(v, then, k)
      BY <3>1, <3>2 DEF EndsKnown
    <3> QED
      BY <3>3 DEF v
  <2>2. CASE i > 1
    <3>1. i - 1 \in 1 .. Len(v) /\ v[i - 1] = SubscribeMsg(k)
      BY <1>1, <1>3, <2>2
    <3>2. \A j \in (i - 1) + 1 .. Len(v) : v[j] # UnsubscribeMsg(k)
      BY <1>1, <1>3, <2>2
    <3>3. EndsKnown(v, then, k)
      BY <3>1, <3>2 DEF EndsKnown
    <3> QED
      BY <3>3 DEF v
  <2> QED
    BY <1>1, <1>3, <2>1, <2>2
<1> QED
  BY <1>2, <1>3 DEF EndsKnown

\* A dispatched call changes what the properties know of its sender only, and
\* of no other key.
LEMMA OthersKept ==
  ASSUME ServiceInv, NEW c \in Clients, Deliver(c), NEW d \in Clients \ {c}, NEW k \in Keys
  PROVE  d \in clientServiceNames'[k] <=> d \in clientServiceNames[k]
<1>1. clientServiceNames \in [Keys -> SUBSET Clients] /\ registered \subseteq Keys
  BY DEF ServiceInv, AdaptorInv, AdaptorTypes, BusTypes
<1>2. CASE OnClientExited(c)
  BY <1>1, <1>2 DEF OnClientExited, Leave
<1>3. ASSUME NEW j \in registered, Subscribe(c, j)
      PROVE  d \in clientServiceNames'[k] <=> d \in clientServiceNames[k]
  <2>1. \/ UNCHANGED clientServiceNames
        \/ clientServiceNames' = [clientServiceNames EXCEPT ![j] = @ \cup {c}]
    BY <1>3 DEF Subscribe, clientVars
  <2> QED
    BY <1>1, <1>3, <2>1
<1>4. ASSUME NEW j \in registered, Unsubscribe(c, j)
      PROVE  d \in clientServiceNames'[k] <=> d \in clientServiceNames[k]
  BY <1>1, <1>4 DEF Unsubscribe, Leave
<1>5. CASE UNCHANGED <<clientVars, groupVars>>
  BY <1>5 DEF clientVars
<1> QED
  BY <1>2, <1>3, <1>4, <1>5 DEF Deliver

\* What the sender of the dispatched message becomes, for a key it asked for.
LEMMA SenderKnown ==
  ASSUME ServiceInv, NEW c \in Clients, Deliver(c), NEW k \in registered,
         Head(wire[c]) # ExitMsg
  PROVE  /\ Head(wire[c]) = SubscribeMsg(k) => c \in clientServiceNames'[k]
         /\ c \in clientServiceNames[k] /\ Head(wire[c]) # UnsubscribeMsg(k)
              => c \in clientServiceNames'[k]
<1>1. clientServiceNames \in [Keys -> SUBSET Clients] /\ registered \subseteq Keys
  BY DEF ServiceInv, AdaptorInv, AdaptorTypes, BusTypes
<1>2. ASSUME NEW j \in registered, Head(wire[c]) = SubscribeMsg(j), Subscribe(c, j)
      PROVE  /\ Head(wire[c]) = SubscribeMsg(k) => c \in clientServiceNames'[k]
             /\ c \in clientServiceNames[k] => c \in clientServiceNames'[k]
  <2>1. \/ UNCHANGED clientServiceNames /\ c \in clientServiceNames[j]
        \/ clientServiceNames' = [clientServiceNames EXCEPT ![j] = @ \cup {c}]
    BY <1>2 DEF Subscribe, clientVars
  <2>2. Head(wire[c]) = SubscribeMsg(k) => j = k
    BY <1>1, <1>2, MessagesDiffer
  <2> QED
    BY <1>1, <1>2, <2>1, <2>2
<1>3. ASSUME NEW j \in registered, Head(wire[c]) = UnsubscribeMsg(j), Unsubscribe(c, j)
      PROVE  /\ Head(wire[c]) # SubscribeMsg(k)
             /\ c \in clientServiceNames[k] /\ Head(wire[c]) # UnsubscribeMsg(k)
                  => c \in clientServiceNames'[k]
  BY <1>1, <1>3, MessagesDiffer DEF Unsubscribe, Leave
<1>4. ASSUME NEW j \in Keys \ registered,
             Head(wire[c]) \in {SubscribeMsg(j), UnsubscribeMsg(j)}, UNCHANGED clientVars
      PROVE  /\ Head(wire[c]) # SubscribeMsg(k)
             /\ UNCHANGED clientServiceNames
  <2>1. j # k /\ k \in Keys
    BY <1>1, <1>4
  <2> QED
    BY <1>4, <2>1, MessagesDiffer DEF clientVars
<1> QED
  BY <1>2, <1>3, <1>4 DEF Deliver

\* Steps of the program that do not touch clients and wire.
LEMMA KnownUntouched ==
  ASSUME ServiceInv, KnownInv, UNCHANGED <<clientServiceNames, alive, wants, wire, resubscribe>>,
         nameOwned' => nameOwned /\ registered' = properties',
         \A k \in Keys : (k \in properties' \/ ~mainLoop') => (k \in properties \/ ~mainLoop)
  PROVE  KnownInv'
<1>1. OwnedIsComplete'
  BY DEF OwnedIsComplete
<1>2. NoExitYet'
  BY DEF KnownInv, NoExitYet, ExitMsg
<1>3. ASSUME nameOwned', NEW c \in alive', NEW k \in Keys,
             k \in properties' \/ ~mainLoop', <<c, k>> \notin resubscribe', k \in wants'[c]
      PROVE  EndsKnown(wire'[c], c \in clientServiceNames'[k], k)
  BY <1>3 DEF KnownInv, ClientsSaidIt
<1>4. ClientsSaidIt'
  BY <1>3 DEF ClientsSaidIt, EndsKnown, SubscribeMsg, UnsubscribeMsg
<1> QED
  BY <1>1, <1>2, <1>4 DEF KnownInv

\* The name goes, or has come: everybody is to say it again.
LEMMA KnownAgain ==
  ASSUME ServiceInv, KnownInv, UNCHANGED <<alive, wire>>, OwnedIsComplete',
         ~nameOwned' \/ resubscribe' = alive \X Keys
  PROVE  KnownInv'
<1>1. NoExitYet'
  BY DEF KnownInv, NoExitYet, ExitMsg
<1>2. ClientsSaidIt'
  BY DEF ClientsSaidIt
<1> QED
  BY <1>1, <1>2 DEF KnownInv

LEMMA StopServiceKnown ==
  ASSUME ServiceInv, KnownInv, StopService, UNCHANGED <<alive, wire>>
  PROVE  KnownInv'
<1>1. ~nameOwned'
  BY DEF StopService, Visible
<1> QED
  BY <1>1, KnownAgain DEF OwnedIsComplete

LEMMA StartServiceKnown ==
  ASSUME ServiceInv, KnownInv, StartService,
         UNCHANGED <<alive, wants, wire, properties, mainLoop>>
  PROVE  KnownInv'
<1>1. CASE /\ Visible(Registers, TRUE)
           /\ IF nameOwned THEN UNCHANGED resubscribe ELSE NameAppears
           /\ UNCHANGED <<clientVars, groupVars>>
  <2>1. nameOwned' /\ registered' = properties'
    BY <1>1 DEF Visible, Registers
  <2>2. CASE nameOwned
    BY <1>1, <2>1, <2>2, KnownUntouched DEF clientVars
  <2>3. CASE ~nameOwned
    BY <1>1, <2>1, <2>3, KnownAgain DEF NameAppears, OwnedIsComplete
  <2> QED
    BY <2>2, <2>3
<1>2. CASE ~nameOwned /\ StopService
  BY <1>2, StopServiceKnown
<1>3. CASE /\ \E ks \in SUBSET properties :
                ks # properties /\ Visible(registered \cup ks, nameOwned)
           /\ UNCHANGED <<clientVars, groupVars, resubscribe>>
  <2>1. nameOwned' = nameOwned
    BY <1>3 DEF Visible
  <2>2. nameOwned => registered' = properties'
    BY <1>3 DEF Visible, KnownInv, OwnedIsComplete
  <2> QED
    BY <1>3, <2>1, <2>2, KnownUntouched DEF clientVars
<1> QED
  BY <1>1, <1>2, <1>3 DEF StartService

LEMMA ProgramKnown ==
  ASSUME ServiceInv, KnownInv,
         \/ CreateService \/ DestroyService \/ Start \/ Stop \/ Restart \/ EnterMainLoop
         \/ \E k \in Keys : AddProperty(k) \/ AddToGroup(k)
  PROVE  KnownInv'
<1>1. UNCHANGED <<alive, wants, wire>>
  BY DEF CreateService, DestroyService, Start, Stop, Restart, EnterMainLoop, AddProperty,
     AddToGroup, busVars
<1>2. CASE Start \/ Stop
  BY <1>1, <1>2, StartServiceKnown, StopServiceKnown DEF Start, Stop, programVars
<1>3. CASE CreateService
  <2>1. UNCHANGED <<properties, mainLoop>>
    BY <1>3 DEF CreateService
  <2>2. CASE StartService
    BY <1>1, <2>1, <2>2, StartServiceKnown
  <2>3. CASE UNCHANGED <<objectVars, clientVars, groupVars, resubscribe>>
    BY <1>1, <2>1, <2>3, KnownUntouched DEF objectVars, clientVars, KnownInv, OwnedIsComplete
  <2> QED
    BY <1>3, <2>2, <2>3 DEF CreateService
<1>4. CASE DestroyService
  <2>1. UNCHANGED <<properties, mainLoop>>
    BY <1>4 DEF DestroyService
  <2>2. CASE StopService
    BY <1>1, <2>2, StopServiceKnown
  <2>3. CASE UNCHANGED <<objectVars, clientVars, groupVars, resubscribe>>
    BY <1>1, <2>1, <2>3, KnownUntouched DEF objectVars, clientVars, KnownInv, OwnedIsComplete
  <2> QED
    BY <1>4, <2>2, <2>3 DEF DestroyService
<1>5. CASE Restart
  <2>1. UNCHANGED properties
    BY <1>5 DEF Restart, programVars
  <2>2. \/ Visible(Registers, TRUE) /\ NameAppears
        \/ ~nameOwned'
    BY <1>5 DEF Restart, Visible
  <2>3. OwnedIsComplete'
    BY <2>1, <2>2 DEF OwnedIsComplete, Visible, Registers
  <2> QED
    BY <1>1, <2>2, <2>3, KnownAgain DEF NameAppears
<1>6. CASE EnterMainLoop
  BY <1>1, <1>6, KnownUntouched
     DEF EnterMainLoop, objectVars, clientVars, KnownInv, OwnedIsComplete
<1>7. ASSUME NEW k \in Keys, AddProperty(k) PROVE KnownInv'
  <2>1. /\ ~mainLoop /\ properties' = properties \cup {k} /\ registered' = registered \cup {k}
        /\ nameOwned' = nameOwned /\ UNCHANGED <<clientServiceNames, resubscribe>>
    BY <1>7 DEF AddProperty, clientVars
  <2>2. nameOwned => registered' = properties'
    BY <2>1 DEF KnownInv, OwnedIsComplete
  <2> QED
    BY <1>1, <2>1, <2>2, KnownUntouched
<1>8. ASSUME NEW k \in Keys, AddToGroup(k) PROVE KnownInv'
  BY <1>1, <1>8, KnownUntouched
     DEF AddToGroup, objectVars, clientVars, KnownInv, OwnedIsComplete
<1> QED
  BY <1>2, <1>3, <1>4, <1>5, <1>6, <1>7, <1>8

\* A client of a running service sends `m`, or says nothing.
LEMMA SaysKnown ==
  ASSUME ServiceInv, KnownInv, NEW c \in Clients, NEW m \in Messages \ {ExitMsg},
         UNCHANGED <<nameOwned, registered, properties, mainLoop, clientServiceNames, alive>>,
         \/ wire' = [wire EXCEPT ![c] = Append(wire[c], m)]
         \/ wire' = wire,
         \A d \in alive \ {c} :
           /\ wants'[d] = wants[d]
           /\ \A k \in Keys : <<d, k>> \in resubscribe => <<d, k>> \in resubscribe',
         nameOwned => \A k \in Keys :
           \/ k \notin wants'[c] \/ <<c, k>> \in resubscribe'
           \/ m = SubscribeMsg(k) /\ wire' # wire
           \/ /\ k \in wants[c] /\ <<c, k>> \notin resubscribe
              /\ m # UnsubscribeMsg(k) \/ wire' = wire
  PROVE  KnownInv'
<1>1. /\ wire \in [Clients -> Seq(Messages)] /\ alive \subseteq Clients
      /\ wire[c] \in Seq(Messages)
  BY DEF ServiceInv, BusTypes
<1>2. OwnedIsComplete'
  BY DEF KnownInv, OwnedIsComplete
<1>3. \A d \in Clients \ {c} : wire'[d] = wire[d]
  BY <1>1
<1>4. wire'[c] = wire[c] \/ wire'[c] = Append(wire[c], m)
  BY <1>1
<1>5. wire' # wire => wire'[c] = Append(wire[c], m)
  BY <1>1
<1>6. NoExitYet'
  <2> SUFFICES ASSUME NEW d \in alive, NEW i \in 1 .. Len(wire'[d])
               PROVE  wire'[d][i] # ExitMsg
    BY DEF NoExitYet, ExitMsg
  <2>1. CASE d # c
    BY <1>1, <1>3, <2>1 DEF KnownInv, NoExitYet
  <2>2. CASE d = c
    <3>1. \A j \in 1 .. Len(wire[c]) : wire[c][j] # ExitMsg
      BY <2>2 DEF KnownInv, NoExitYet
    <3>2. \A j \in 1 .. Len(Append(wire[c], m)) :
            Append(wire[c], m)[j] = m \/ (j \in 1 .. Len(wire[c]) /\ Append(wire[c], m)[j] = wire[c][j])
      <4> HIDE DEF Messages
      <4> QED
        BY <1>1
    <3> QED
      BY <1>4, <2>2, <3>1, <3>2
  <2> QED
    BY <2>1, <2>2
<1>7. ASSUME nameOwned, NEW d \in alive, NEW k \in Keys,
             k \in properties \/ ~mainLoop, <<d, k>> \notin resubscribe', k \in wants'[d]
      PROVE  EndsKnown(wire'[d], d \in clientServiceNames[k], k)
  <2>1. CASE d # c
    <3>1. /\ wants'[d] = wants[d] /\ <<d, k>> \notin resubscribe /\ wire'[d] = wire[d]
      BY <1>1, <1>3, <1>7, <2>1
    <3> QED
      BY <1>7, <3>1 DEF KnownInv, ClientsSaidIt
  <2>2. CASE d = c
    <3> DEFINE known == c \in clientServiceNames[k]
    <3>1. known \in BOOLEAN
      OBVIOUS
    <3>2. CASE m = SubscribeMsg(k) /\ wire' # wire
      <4>1. \A b \in BOOLEAN : EndsKnown(Append(wire[c], m), b, k)
        BY <1>1, <3>2, EndsKnownAppend
      <4> QED
        BY <1>5, <2>2, <3>1, <3>2, <4>1
    <3>3. CASE k \in wants[c] /\ <<c, k>> \notin resubscribe /\ (m # UnsubscribeMsg(k) \/ wire' = wire)
      <4>1. EndsKnown(wire[c], known, k)
        BY <1>7, <2>2, <3>3 DEF KnownInv, ClientsSaidIt
      <4>2. CASE wire' = wire
        BY <2>2, <4>1, <4>2
      <4>3. CASE wire' # wire
        <5>1. \A b \in BOOLEAN : EndsKnown(wire[c], b, k) => EndsKnown(Append(wire[c], m), b, k)
          BY <1>1, <3>3, <4>3, EndsKnownAppend
        <5> QED
          BY <1>5, <2>2, <3>1, <4>1, <4>3, <5>1
      <4> QED
        BY <4>2, <4>3
    <3> QED
      BY <1>7, <2>2, <3>2, <3>3
  <2> QED
    BY <2>1, <2>2
<1>8. ASSUME nameOwned', NEW d \in alive', NEW k \in Keys,
             k \in properties' \/ ~mainLoop', <<d, k>> \notin resubscribe', k \in wants'[d]
      PROVE  EndsKnown(wire'[d], d \in clientServiceNames'[k], k)
  BY <1>7, <1>8
<1>9. ClientsSaidIt'
  BY <1>8 DEF ClientsSaidIt, EndsKnown, SubscribeMsg, UnsubscribeMsg
<1> QED
  BY <1>2, <1>6, <1>9 DEF KnownInv

\* A call that is sent makes the wire longer.
LEMMA SendsSomething ==
  ASSUME ServiceInv, NEW c \in Clients, NEW m, wire' = [wire EXCEPT ![c] = Append(@, m)]
  PROVE  wire' # wire
<1>1. wire[c] \in Seq(Messages) /\ wire'[c] = Append(wire[c], m)
  BY DEF ServiceInv, BusTypes
<1>2. \A w \in Seq(Messages) : Append(w, m) # w
  <2> HIDE DEF Messages
  <2> SUFFICES ASSUME NEW w \in Seq(Messages), Append(w, m) = w PROVE FALSE
    OBVIOUS
  <2>1. Len(Append(w, m)) = Len(w) + 1 /\ Len(w) \in Nat
    OBVIOUS
  <2> QED
    BY <2>1
<1> QED
  BY <1>1, <1>2

LEMMA ClientsKnown ==
  ASSUME ServiceInv, KnownInv, NEW c \in Clients, NEW j \in Keys,
         ClientSubscribes(c, j) \/ ClientUnsubscribes(c, j) \/ ClientResubscribes(c, j)
  PROVE  KnownInv'
<1>1. /\ UNCHANGED <<nameOwned, registered, properties, mainLoop, clientServiceNames, alive>>
      /\ wants \in [Clients -> SUBSET Keys] /\ alive \subseteq Clients
  BY DEF ClientSubscribes, ClientUnsubscribes, ClientResubscribes, objectVars, clientVars,
     programVars, ServiceInv, BusTypes
<1>2. /\ SubscribeMsg(j) \in Messages \ {ExitMsg} /\ UnsubscribeMsg(j) \in Messages \ {ExitMsg}
      /\ \A k \in Keys : /\ SubscribeMsg(j) # UnsubscribeMsg(k)
                         /\ j # k => UnsubscribeMsg(j) # UnsubscribeMsg(k)
  BY MessagesDiffer
<1>3. CASE ClientSubscribes(c, j)
  <2>1. wants' = [wants EXCEPT ![c] = @ \cup {j}] /\ UNCHANGED resubscribe
    BY <1>3 DEF ClientSubscribes
  <2>2. /\ wire' = [wire EXCEPT ![c] = Append(wire[c], SubscribeMsg(j))] \/ wire' = wire
        /\ nameOwned => wire' # wire
    BY <1>3, SendsSomething DEF ClientSubscribes, SendIfOwned, Send
  <2>3. \A d \in alive \ {c} :
          /\ wants'[d] = wants[d]
          /\ \A k \in Keys : <<d, k>> \in resubscribe => <<d, k>> \in resubscribe'
    BY <1>1, <2>1
  <2>4. nameOwned => \A k \in Keys :
           \/ k \notin wants'[c] \/ <<c, k>> \in resubscribe'
           \/ SubscribeMsg(j) = SubscribeMsg(k) /\ wire' # wire
           \/ /\ k \in wants[c] /\ <<c, k>> \notin resubscribe
              /\ SubscribeMsg(j) # UnsubscribeMsg(k) \/ wire' = wire
    BY <1>1, <1>2, <2>1, <2>2
  <2> QED
    BY <1>1, <1>2, <2>2, <2>3, <2>4, SaysKnown
<1>4. CASE ClientUnsubscribes(c, j)
  <2>1. wants' = [wants EXCEPT ![c] = @ \ {j}] /\ UNCHANGED resubscribe
    BY <1>4 DEF ClientUnsubscribes
  <2>2. wire' = [wire EXCEPT ![c] = Append(wire[c], UnsubscribeMsg(j))] \/ wire' = wire
    BY <1>4 DEF ClientUnsubscribes, SendIfOwned, Send
  <2>3. \A d \in alive \ {c} :
          /\ wants'[d] = wants[d]
          /\ \A k \in Keys : <<d, k>> \in resubscribe => <<d, k>> \in resubscribe'
    BY <1>1, <2>1
  <2>4. nameOwned => \A k \in Keys :
           \/ k \notin wants'[c] \/ <<c, k>> \in resubscribe'
           \/ UnsubscribeMsg(j) = SubscribeMsg(k) /\ wire' # wire
           \/ /\ k \in wants[c] /\ <<c, k>> \notin resubscribe
              /\ UnsubscribeMsg(j) # UnsubscribeMsg(k) \/ wire' = wire
    BY <1>1, <1>2, <2>1
  <2> QED
    BY <1>1, <1>2, <2>2, <2>3, <2>4, SaysKnown
<1>5. CASE ClientResubscribes(c, j)
  <2>1. resubscribe' = resubscribe \ {<<c, j>>} /\ UNCHANGED wants
    BY <1>5 DEF ClientResubscribes
  <2>2. /\ wire' = [wire EXCEPT ![c] = Append(wire[c], SubscribeMsg(j))] \/ wire' = wire
        /\ j \in wants[c] => wire' # wire
    BY <1>5, SendsSomething DEF ClientResubscribes, Send
  <2>3. \A d \in alive \ {c} :
          /\ wants'[d] = wants[d]
          /\ \A k \in Keys : <<d, k>> \in resubscribe => <<d, k>> \in resubscribe'
    BY <2>1
  <2>4. nameOwned => \A k \in Keys :
           \/ k \notin wants'[c] \/ <<c, k>> \in resubscribe'
           \/ SubscribeMsg(j) = SubscribeMsg(k) /\ wire' # wire
           \/ /\ k \in wants[c] /\ <<c, k>> \notin resubscribe
              /\ SubscribeMsg(j) # UnsubscribeMsg(k) \/ wire' = wire
    BY <1>2, <2>1, <2>2
  <2> QED
    BY <1>1, <1>2, <2>2, <2>3, <2>4, SaysKnown
<1> QED
  BY <1>3, <1>4, <1>5

LEMMA ExitKnown ==
  ASSUME ServiceInv, KnownInv, NEW c \in Clients, ClientExits(c)
  PROVE  KnownInv'
<1>1. /\ UNCHANGED <<nameOwned, registered, properties, mainLoop, clientServiceNames>>
      /\ alive' = alive \ {c} /\ resubscribe' = resubscribe \ ({c} \X Keys)
      /\ alive \subseteq Clients
  BY DEF ClientExits, objectVars, clientVars, programVars, ServiceInv, BusTypes
<1>2. \A d \in Clients \ {c} : wire'[d] = wire[d] /\ wants'[d] = wants[d]
  BY DEF ClientExits, Send, ServiceInv, BusTypes
<1>3. OwnedIsComplete'
  BY <1>1 DEF KnownInv, OwnedIsComplete
<1>4. NoExitYet'
  BY <1>1, <1>2 DEF KnownInv, NoExitYet, ExitMsg
<1>5. ASSUME nameOwned', NEW d \in alive', NEW k \in Keys,
             k \in properties' \/ ~mainLoop', <<d, k>> \notin resubscribe', k \in wants'[d]
      PROVE  EndsKnown(wire'[d], d \in clientServiceNames'[k], k)
  <2>1. d \in alive /\ d # c /\ <<d, k>> \notin resubscribe
    BY <1>1, <1>5
  <2> QED
    BY <1>1, <1>2, <1>5, <2>1 DEF KnownInv, ClientsSaidIt
<1>6. ClientsSaidIt'
  BY <1>5 DEF ClientsSaidIt, EndsKnown, SubscribeMsg, UnsubscribeMsg
<1> QED
  BY <1>3, <1>4, <1>6 DEF KnownInv

\* A dispatched call: its sender gets what the last message about the key says.
LEMMA DeliverKnown ==
  ASSUME ServiceInv, KnownInv, NEW c \in Clients, Deliver(c)
  PROVE  KnownInv'
<1>1. /\ UNCHANGED <<nameOwned, registered, properties, mainLoop, alive, wants, resubscribe>>
      /\ mainLoop /\ wire[c] # <<>> /\ wire' = [wire EXCEPT ![c] = Tail(@)]
  BY DEF Deliver, objectVars, programVars
<1>2. /\ wire[c] \in Seq(Messages) /\ alive \subseteq Clients /\ properties \subseteq Keys
      /\ wire'[c] = Tail(wire[c]) /\ \A d \in Clients \ {c} : wire'[d] = wire[d]
  BY <1>1 DEF ServiceInv, BusTypes
<1>3. /\ Len(wire[c]) \in Nat \ {0} /\ Head(wire[c]) = wire[c][1]
      /\ \A i \in 1 .. Len(Tail(wire[c])) :
            i + 1 \in 1 .. Len(wire[c]) /\ Tail(wire[c])[i] = wire[c][i + 1]
  <2> HIDE DEF Messages
  <2>1. \A w \in Seq(Messages) : w # <<>> =>
          /\ Len(w) \in Nat \ {0} /\ Head(w) = w[1] /\ Len(Tail(w)) = Len(w) - 1
          /\ \A i \in 1 .. Len(Tail(w)) : Tail(w)[i] = w[i + 1]
    OBVIOUS
  <2> QED
    BY <1>1, <1>2, <2>1
<1>4. OwnedIsComplete'
  BY <1>1 DEF KnownInv, OwnedIsComplete
<1>5. NoExitYet'
  <2> SUFFICES ASSUME NEW d \in alive, NEW i \in 1 .. Len(wire'[d])
               PROVE  wire'[d][i] # ExitMsg
    BY <1>1 DEF NoExitYet, ExitMsg
  <2>1. \A j \in 1 .. Len(wire[d]) : wire[d][j] # ExitMsg
    BY DEF KnownInv, NoExitYet
  <2>2. CASE d # c
    BY <1>2, <2>1, <2>2
  <2>3. CASE d = c
    <3>1. i + 1 \in 1 .. Len(wire[c]) /\ wire'[c][i] = wire[c][i + 1]
      BY <1>2, <1>3, <2>3
    <3> QED
      BY <2>1, <2>3, <3>1
  <2> QED
    BY <2>2, <2>3
<1>6. ASSUME nameOwned, NEW d \in alive, NEW k \in Keys,
             k \in properties, <<d, k>> \notin resubscribe, k \in wants[d]
      PROVE  EndsKnown(wire'[d], d \in clientServiceNames'[k], k)
  <2>1. EndsKnown(wire[d], d \in clientServiceNames[k], k)
    BY <1>6 DEF KnownInv, ClientsSaidIt
  <2>2. CASE d # c
    <3>1. d \in Clients \ {c}
      BY <1>2, <2>2
    <3>2. (d \in clientServiceNames'[k]) = (d \in clientServiceNames[k])
      BY <3>1, OthersKept
    <3> QED
      BY <1>2, <2>1, <3>1, <3>2
  <2>3. CASE d = c
    <3>1. Head(wire[c]) # ExitMsg
      BY <1>3, <2>3 DEF KnownInv, NoExitYet
    <3>2. k \in registered
      BY <1>6 DEF KnownInv, OwnedIsComplete
    <3>3. /\ Head(wire[c]) = SubscribeMsg(k) => c \in clientServiceNames'[k]
          /\ c \in clientServiceNames[k] /\ Head(wire[c]) # UnsubscribeMsg(k)
               => c \in clientServiceNames'[k]
      BY <3>1, <3>2, SenderKnown
    <3> DEFINE known == c \in clientServiceNames[k]
               then == c \in clientServiceNames'[k]
    <3>4. known \in BOOLEAN /\ then \in BOOLEAN
      OBVIOUS
    <3>5. EndsKnown(wire[c], known, k) /\ (Head(wire[c]) = SubscribeMsg(k) => then)
          /\ (known /\ Head(wire[c]) # UnsubscribeMsg(k) => then)
      BY <2>1, <2>3, <3>3
    <3> HIDE DEF known, then
    <3>6. EndsKnown(Tail(wire[c]), then, k)
      BY <1>1, <1>2, <3>4, <3>5, EndsKnownTail
    <3> QED
      BY <1>2, <2>3, <3>6 DEF then
  <2> QED
    BY <2>2, <2>3
<1>7. ASSUME nameOwned', NEW d \in alive', NEW k \in Keys,
             k \in properties' \/ ~mainLoop', <<d, k>> \notin resubscribe', k \in wants'[d]
      PROVE  EndsKnown(wire'[d], d \in clientServiceNames'[k], k)
  BY <1>1, <1>6, <1>7
<1>8. ClientsSaidIt'
  BY <1>7 DEF ClientsSaidIt, EndsKnown, SubscribeMsg, UnsubscribeMsg
<1> QED
  BY <1>4, <1>5, <1>8 DEF KnownInv

LEMMA KnownNext == ServiceInv /\ KnownInv /\ [Next]_serviceVars => KnownInv'
<1> SUFFICES ASSUME ServiceInv, KnownInv, [Next]_serviceVars PROVE KnownInv'
  OBVIOUS
<1>1. CASE \/ CreateService \/ DestroyService \/ Start \/ Stop \/ Restart \/ EnterMainLoop
           \/ \E k \in Keys : AddProperty(k) \/ AddToGroup(k)
  BY <1>1, ProgramKnown
<1>2. ASSUME NEW c \in Clients, ClientExits(c) PROVE KnownInv'
  BY <1>2, ExitKnown
<1>3. ASSUME NEW c \in Clients, BusUpdatesMatch(c) PROVE KnownInv'
  BY <1>3, KnownUntouched
     DEF BusUpdatesMatch, objectVars, clientVars, programVars, KnownInv, OwnedIsComplete
<1>4. ASSUME NEW c \in Clients, Deliver(c) PROVE KnownInv'
  BY <1>4, DeliverKnown
<1>5. ASSUME NEW c \in Clients, NEW k \in Keys,
             ClientSubscribes(c, k) \/ ClientUnsubscribes(c, k) \/ ClientResubscribes(c, k)
      PROVE  KnownInv'
  BY <1>5, ClientsKnown
<1>6. CASE UNCHANGED serviceVars
  BY <1>6, KnownUntouched
     DEF serviceVars, objectVars, clientVars, programVars, busVars, KnownInv, OwnedIsComplete
<1> QED
  BY <1>1, <1>2, <1>3, <1>4, <1>5, <1>6 DEF Next

-----------------------------------------------------------------------------
(* The theorems                                                            *)

\* A service that nobody has created or subscribed to.
LEMMA ServiceInit == Init => ServiceInv
<1> SUFFICES ASSUME Init PROVE ServiceInv
  OBVIOUS
<1>1. BusTypes
  <2>1. wire \in [Clients -> Seq(Messages)]
    <3>1. <<>> \in Seq(Messages)
      OBVIOUS
    <3> QED
      BY <3>1 DEF Init
  <2>2. refCount \in 0 .. MaxServices
    BY ServiceAssumption DEF Init
  <2> QED
    BY <2>1, <2>2 DEF Init, BusTypes
<1>2. AdaptorTypes /\ SubscribedWhileClients /\ OnlyProperties /\ QuietBeforeLoop
  BY DEF Init, AdaptorTypes, SubscribedWhileClients, OnlyProperties, QuietBeforeLoop
<1>3. SubscribedInGroup = {}
  BY DEF Init, SubscribedInGroup
<1>4. GroupCounts
  BY <1>3, FS_EmptySet DEF Init, GroupCounts
<1> QED
  BY <1>1, <1>2, <1>4 DEF ServiceInv, AdaptorInv

\* Every operation of the program, every dispatch and every step of the bus.
LEMMA ServiceNext == ServiceInv /\ [Next]_serviceVars => ServiceInv'
<1> SUFFICES ASSUME ServiceInv, [Next]_serviceVars PROVE ServiceInv'
  OBVIOUS
<1>1. CASE Start \/ Stop \/ CreateService \/ DestroyService
  BY <1>1, ServiceObjectInv
<1>2. CASE Restart
  BY <1>2, RestartInv
<1>3. CASE EnterMainLoop \/ \E k \in Keys : AddProperty(k) \/ AddToGroup(k)
  BY <1>3, SetupInv
<1>4. ASSUME NEW c \in Clients, Deliver(c) PROVE ServiceInv'
  BY <1>4, DeliverInv
<1>5. ASSUME NEW c \in Clients,
             \/ ClientExits(c) \/ BusUpdatesMatch(c)
             \/ \E k \in Keys : \/ ClientSubscribes(c, k)
                                \/ ClientUnsubscribes(c, k)
                                \/ ClientResubscribes(c, k)
      PROVE  ServiceInv'
  BY <1>5, ClientInv
<1>6. CASE UNCHANGED serviceVars
  <2>1. /\ UNCHANGED <<refCount, nameOwned, properties, registered, groupKeys, mainLoop>>
        /\ UNCHANGED <<alive, wants, resubscribe, wire, matched>>
        /\ UNCHANGED <<clientVars, groupVars>>
    BY <1>6 DEF serviceVars, objectVars, programVars, busVars
  <2>2. AdaptorInv' /\ QuietBeforeLoop'
    BY <2>1, AdaptorUntouched, QuietUntouched DEF ServiceInv
  <2>3. BusTypes'
    BY <2>1 DEF ServiceInv, BusTypes, Messages
  <2> QED
    BY <2>2, <2>3 DEF ServiceInv
<1> QED
  BY <1>1, <1>2, <1>3, <1>4, <1>5, <1>6 DEF Next

\* The inductive invariant: ServiceBackend, adaptors, properties and group stay
\* in step whatever the program, the clients and the bus do.
THEOREM ServiceInvHolds == Spec => []ServiceInv
  BY ServiceInit, ServiceNext, PTL DEF Spec

\* Types; in particular the group never counts below zero.
THEOREM ServiceTypeCorrect == Spec => []ServiceTypeOK
  BY ServiceInvHolds, TypesTogether, PTL

\* A property is subscribed exactly while it has clients, each of them watched
\* (PropertyAdaptor::Subscribe, Unsubscribe, onClientExited, forgetClients).
THEOREM SubscribedHolds == Spec => []SubscribedWhileClients
<1>1. ServiceInv => SubscribedWhileClients
  BY DEF ServiceInv, AdaptorInv
<1> QED
  BY <1>1, ServiceInvHolds, PTL

\* The group counts its subscribed properties and has signalled accordingly
\* (Group::onFirstSubscriberAppeared, onLastSubscriberDisappeared).
THEOREM GroupCountsHolds == Spec => []GroupCounts
<1>1. ServiceInv => GroupCounts
  BY DEF ServiceInv, AdaptorInv
<1> QED
  BY <1>1, ServiceInvHolds, PTL

\* A client whose exit is noticed has been forgotten by every property when the
\* notice has been dispatched (PropertyAdaptor::onClientExited), however many
\* properties it subscribed to and whatever else happened before.
THEOREM DeadForgotten == Spec => DeadAreForgotten
<1>1. ServiceInv /\ [Next]_serviceVars
        => [\A c \in Clients : ExitAnnounced(c) /\ wire'[c] = <<>>
              => \A k \in Keys : c \notin clientServiceNames'[k]]_serviceVars
  BY NoticeForgets
<1> QED
  BY <1>1, ServiceInvHolds, PTL DEF Spec, DeadAreForgotten

\* When its calls have been dispatched, a client of a running service is known
\* to every property it wants (PropertyAdaptor::Subscribe), whatever stops,
\* restarts and failed starts lie behind.
THEOREM SubscribersKnown == Spec => []SubscribersAreKnown
<1>1. Init => KnownInv
  BY DEF Init, KnownInv, OwnedIsComplete, NoExitYet, ClientsSaidIt
<1>2. ServiceInv /\ KnownInv => SubscribersAreKnown
  <2> SUFFICES ASSUME ServiceInv, KnownInv, nameOwned, NEW c \in alive, NEW k \in properties,
                      wire[c] = <<>>, <<c, k>> \notin resubscribe, k \in wants[c]
               PROVE  c \in clientServiceNames[k]
    BY DEF SubscribersAreKnown
  <2>1. k \in Keys
    BY DEF ServiceInv, BusTypes
  <2> QED
    BY <2>1 DEF KnownInv, ClientsSaidIt, EndsKnown
<1> QED
  BY <1>1, <1>2, ServiceInvHolds, KnownNext, PTL DEF Spec
=============================================================================
