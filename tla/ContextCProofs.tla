--------------------------- MODULE ContextCProofs ---------------------------
(***************************************************************************)
(* Proofs about ContextC, for any finite set of keys, any values, handles  *)
(* and number of listeners.                                                *)
(***************************************************************************)
EXTENDS ContextC, FiniteSetTheorems, SequenceTheorems, TLAPS

-----------------------------------------------------------------------------
(* The inductive invariant                                                 *)

Emissions == [at : Nat, on : BOOLEAN, key : SUBSET ApiKeys, fired : SUBSET Nat,
              said : {Silence} \cup (ApiKeys \X Values)]

ServiceTypes ==
  /\ cService \in BOOLEAN /\ looping \in BOOLEAN
  /\ listeners \in Seq(Listeners) /\ Len(listeners) <= MaxListeners
  /\ made \subseteq ApiKeys /\ attached \subseteq made
  /\ provided \in [ApiKeys -> AnyValue \cup SUBSET Values]
  /\ emission \in Emissions /\ emission.at <= Len(listeners) + 1

\* Clients are there, and signals under way, only while the program is in its main
\* loop; a signal is about one key, which it leaves with or without clients.
LifeInv ==
  /\ ~cService => listeners = <<>> /\ ~looping
  /\ ~looping => attached = {} /\ ~Emitting
  /\ Emitting => \E k \in made : emission.key = {k} /\ (emission.on <=> k \in attached)

\* The keys with clients as listener i knows them: the signal under way has reached
\* the listeners before emission.at.
SeenBy(i) ==
  IF ~Emitting \/ i < emission.at THEN attached
  ELSE IF emission.on THEN attached \ emission.key ELSE attached \cup emission.key

Counts(l, ks) ==
  /\ ~l.group => \E k : l.keys = {k}
  /\ l.count = Cardinality(l.keys \cap ks)
  /\ l.told <=> l.keys \cap ks # {}

CountInv == \A i \in 1 .. Len(listeners) : Counts(listeners[i], SeenBy(i))

\* What the callbacks have done to the values during the signal under way.
SaidInv ==
  Emitting =>
    /\ emission.fired \subseteq 1 .. emission.at - 1
    /\ emission.said # Silence => provided[emission.said[1]] = emission.said[2]
    /\ emission.on /\ emission.said = Silence =>
         \A i \in emission.fired :
           listeners[i].clears /\ (\A j \in emission.fired : j <= i)
             => \A k \in listeners[i].keys : provided[k] = NoValue

HeapInv ==
  /\ trees \in [Handles -> {Silence} \cup SUBSET Values] /\ owned \subseteq Handles
  /\ HeapIsOwned

SignalInv == ServiceTypes /\ LifeInv /\ CountInv /\ SaidInv

ContextCInv == SignalInv /\ HeapInv

signalVars == <<cService, listeners, looping, made, provided, attached, emission>>
heapVars   == <<trees, owned>>

-----------------------------------------------------------------------------
(* The heap                                                                *)

\* A plain value is no map; nothing but an empty address is Silence.
LEMMA TreesAreTrees == \A vs \in SUBSET Values : vs # Silence
BY ContextCAssumption

LEMMA HeapStep ==
  ASSUME HeapInv, [ContextCNext]_contextcVars
  PROVE  HeapInv'
<1>1. CASE \E h \in Handles : TreeNew(h)
  BY <1>1, TreesAreTrees DEF TreeNew, HeapInv, HeapIsOwned
<1>2. CASE \E h \in Handles : TreeFree(h)
  BY <1>2 DEF TreeFree, HeapInv, HeapIsOwned
<1>3. CASE \E h \in Handles, v \in Values : TreeAdd(h, v)
  <2>1. PICK h \in Handles, v \in Values : TreeAdd(h, v)
    BY <1>3
  <2>2. trees[h] \in SUBSET Values
    BY <2>1 DEF TreeAdd, HeapInv, HeapIsOwned
  <2> QED
    BY <2>1, <2>2, TreesAreTrees DEF TreeAdd, HeapInv, HeapIsOwned
<1>4. CASE \E h \in Handles, part \in Handles : TreeAddTree(h, part)
  <2>1. PICK h \in Handles, part \in Handles : TreeAddTree(h, part)
    BY <1>4
  <2>2. trees[h] \in SUBSET Values /\ trees[part] \in SUBSET Values /\ part # h
    BY <2>1 DEF TreeAddTree, HeapInv, HeapIsOwned
  <2> QED
    BY <2>1, <2>2, TreesAreTrees DEF TreeAddTree, HeapInv, HeapIsOwned
<1>5. CASE \E h \in Handles, k \in ApiKeys, free \in BOOLEAN : SetTree(k, h, free)
  BY <1>5 DEF SetTree, Frees, HeapInv, HeapIsOwned
<1>6. CASE UNCHANGED heapVars
  BY <1>6 DEF heapVars, HeapInv, HeapIsOwned
<1> QED
  BY <1>1, <1>2, <1>3, <1>4, <1>5, <1>6 DEF ContextCNext, HeapUnchanged, heapVars,
     ContextProviderInit, ContextProviderStop, EnterMainLoop, Install, ContextProviderSet,
     FirstClient, LastClient, Emit, EndEmission, contextcVars

-----------------------------------------------------------------------------
(* Counting                                                                *)

\* One key more or less of those a listener has.
LEMMA OneMore ==
  ASSUME NEW S, IsFiniteSet(S), NEW k \in S, NEW A, k \in A
  PROVE  Cardinality(S \cap A) = Cardinality(S \cap (A \ {k})) + 1
<1>1. IsFiniteSet(S \cap (A \ {k})) /\ k \notin S \cap (A \ {k})
  BY FS_Intersection
<1>2. S \cap A = (S \cap (A \ {k})) \cup {k}
  OBVIOUS
<1> QED
  BY <1>1, <1>2, FS_AddElement

\* The signal reaches a listener of the key: it knows the keys with clients again.
LEMMA HearingCounts ==
  ASSUME NEW l \in Listeners, NEW m \in Listeners, NEW k \in l.keys, NEW A, NEW on \in BOOLEAN,
         on <=> k \in A,
         Counts(l, IF on THEN A \ {k} ELSE A \cup {k}),
         m.keys = l.keys, m.group = l.group,
         m.count = IF on THEN l.count + 1 ELSE l.count - 1,
         m.told = IF l.group => m.count = (IF on THEN 1 ELSE 0) THEN on ELSE l.told
  PROVE  Counts(m, A)
<1> DEFINE S == l.keys
<1>1. IsFiniteSet(S)
  BY ContextCAssumption, FS_Subset DEF Listeners
<1>2. \A B : IsFiniteSet(S \cap B) /\ Cardinality(S \cap B) \in Nat
  BY <1>1, FS_Intersection, FS_CardinalityType
<1>3. \A B : Cardinality(S \cap B) = 0 <=> S \cap B = {}
  BY <1>2, FS_EmptySet
<1>4. l.group \in BOOLEAN /\ l.told \in BOOLEAN
  BY DEF Listeners
<1>5. CASE on
  <2>1. k \in A /\ l.count = Cardinality(S \cap (A \ {k})) /\ (l.told <=> S \cap (A \ {k}) # {})
    BY <1>5 DEF Counts
  <2>2. m.count = Cardinality(S \cap A) /\ m.count = l.count + 1
    BY <1>1, <1>5, <2>1, OneMore
  <2>3. S \cap A # {} /\ m.told
    <3>1. CASE l.group => m.count = 1
      BY <1>5, <2>1, <3>1
    <3>2. CASE ~(l.group => m.count = 1)
      <4>1. l.count # 0
        BY <2>2, <3>2
      <4>2. m.told = l.told
        BY <1>5, <3>2
      <4> QED
        BY <1>3, <2>1, <4>1, <4>2
    <3> QED
      BY <3>1, <3>2
  <2> QED
    BY <2>2, <2>3 DEF Counts
<1>6. CASE ~on
  <2>1. k \notin A /\ l.count = Cardinality(S \cap (A \cup {k})) /\ (l.told <=> S \cap (A \cup {k}) # {})
    BY <1>6 DEF Counts
  <2>2. (A \cup {k}) \ {k} = A
    BY <2>1
  <2>3. l.count = Cardinality(S \cap A) + 1
    BY <1>1, <2>1, <2>2, OneMore
  <2>4. m.count = Cardinality(S \cap A)
    BY <1>2, <1>6, <2>3
  <2>5. m.told <=> S \cap A # {}
    <3>1. CASE ~l.group
      <4>1. S = {k}
        BY <3>1 DEF Counts
      <4> QED
        BY <1>6, <2>1, <3>1, <4>1
    <3>2. CASE l.group /\ m.count = 0
      BY <1>3, <1>6, <2>4, <3>2
    <3>3. CASE l.group /\ m.count # 0
      <4>1. m.told = l.told
        BY <1>6, <3>3
      <4> QED
        BY <1>3, <2>1, <2>4, <3>3, <4>1
    <3> QED
      BY <1>4, <3>1, <3>2, <3>3
  <2> QED
    BY <2>4, <2>5 DEF Counts
<1> QED
  BY <1>5, <1>6

-----------------------------------------------------------------------------
(* The service, one lemma per action                                       *)

\* What CountInv and SaidInv depend on.
LEMMA SeenUnchanged ==
  ASSUME UNCHANGED <<attached, emission>> PROVE \A i : SeenBy(i)' = SeenBy(i)
BY DEF SeenBy, Emitting

LEMMA InitStep ==
  ASSUME SignalInv, ContextProviderInit PROVE SignalInv'
<1>1. listeners = <<>> /\ ~looping /\ attached = {} /\ ~Emitting
  BY DEF SignalInv, LifeInv, ContextProviderInit
<1>2. listeners' = listeners
  BY <1>1 DEF ContextProviderInit
<1>3. ServiceTypes'
  BY <1>2 DEF SignalInv, ServiceTypes, ContextProviderInit
<1>4. LifeInv'
  BY <1>1, <1>2 DEF LifeInv, ContextProviderInit, Emitting
<1>5. CountInv' /\ SaidInv'
  BY <1>1, <1>2 DEF CountInv, SaidInv, ContextProviderInit, Emitting
<1> QED
  BY <1>3, <1>4, <1>5 DEF SignalInv

LEMMA StopStep ==
  ASSUME SignalInv, ContextProviderStop PROVE SignalInv'
<1>1. ~Emitting /\ emission' = emission /\ ~Emitting'
  BY DEF ContextProviderStop, Emitting
<1>2. listeners' = <<>> /\ attached' = {} /\ cService' = FALSE /\ looping' = FALSE
  BY DEF ContextProviderStop, NoLongerSubscribed
<1>3. <<>> \in Seq(Listeners) /\ Len(<<>>) = 0
  BY EmptySeq
<1>4. ServiceTypes'
  <2>1. emission.at = 0 /\ MaxListeners \in Nat
    BY <1>1, ContextCAssumption DEF Emitting
  <2>2. listeners' \in Seq(Listeners) /\ Len(listeners') = 0
    BY <1>2, <1>3
  <2>3. emission'.at <= Len(listeners') + 1 /\ Len(listeners') <= MaxListeners
    BY <1>1, <2>1, <2>2
  <2> QED
    BY <1>1, <1>2, <2>2, <2>3 DEF SignalInv, ServiceTypes, ContextProviderStop
<1>5. LifeInv'
  BY <1>1, <1>2 DEF LifeInv
<1>6. CountInv' /\ SaidInv'
  BY <1>1, <1>2, <1>3 DEF CountInv, SaidInv
<1> QED
  BY <1>4, <1>5, <1>6 DEF SignalInv

LEMMA InstallStep ==
  ASSUME NEW keys \in SUBSET ApiKeys, NEW group \in BOOLEAN, NEW clears \in BOOLEAN,
         ~group => \E k : keys = {k},
         SignalInv, Install(keys, group, clears)
  PROVE  SignalInv'
<1> DEFINE l == [keys |-> keys, group |-> group, clears |-> clears, count |-> 0, told |-> FALSE]
<1>1. ServiceTypes /\ ~looping /\ cService /\ attached = {} /\ ~Emitting
  BY DEF Install, SignalInv, LifeInv
<1>2. l \in Listeners /\ Counts(l, {})
  BY FS_EmptySet DEF Listeners, Counts
<1>3. listeners' = Append(listeners, l)
  BY DEF Install
<1>4. UNCHANGED <<cService, looping, provided, attached, emission>> /\ made' = made \cup keys
  BY DEF Install
<1> HIDE DEF l
<1>5. /\ listeners' \in Seq(Listeners) /\ Len(listeners') = Len(listeners) + 1
      /\ \A i \in 1 .. Len(listeners) : listeners'[i] = listeners[i]
      /\ listeners'[Len(listeners) + 1] = l
      /\ Len(listeners) \in Nat
  BY <1>1, <1>2, <1>3, AppendProperties, LenProperties DEF ServiceTypes
<1>6. Len(listeners') <= MaxListeners
  BY <1>5, ContextCAssumption DEF Install
<1>7. ServiceTypes'
  <2>1. emission.at = 0
    BY <1>1 DEF Emitting
  <2> QED
    BY <1>1, <1>4, <1>5, <1>6, <2>1 DEF ServiceTypes
<1>8. ~Emitting' /\ \A i : SeenBy(i)' = {}
  BY <1>1, <1>4 DEF Emitting, SeenBy
<1>9. \A i : SeenBy(i) = {}
  BY <1>1 DEF SeenBy
<1>10. LifeInv' /\ SaidInv'
  BY <1>1, <1>4, <1>8 DEF LifeInv, SaidInv
<1>11. CountInv'
  <2> SUFFICES ASSUME NEW i \in 1 .. Len(listeners') PROVE Counts(listeners'[i], {})
    BY <1>8 DEF CountInv, Counts
  <2>1. CASE i \in 1 .. Len(listeners)
    BY <1>5, <1>9, <2>1 DEF SignalInv, CountInv
  <2>2. CASE i = Len(listeners) + 1
    BY <1>2, <1>5, <2>2
  <2> QED
    BY <1>5, <2>1, <2>2
<1> QED
  BY <1>7, <1>10, <1>11 DEF SignalInv

LEMMA LoopStep ==
  ASSUME SignalInv, EnterMainLoop PROVE SignalInv'
<1>1. UNCHANGED <<cService, listeners, made, provided, attached, emission>> /\ looping' = TRUE
  BY DEF EnterMainLoop
<1>2. cService /\ ~Emitting /\ ~Emitting'
  BY <1>1 DEF EnterMainLoop, SignalInv, LifeInv, Emitting
<1>3. ServiceTypes' /\ LifeInv' /\ SaidInv'
  BY <1>1, <1>2 DEF SignalInv, ServiceTypes, LifeInv, SaidInv
<1>4. CountInv'
  BY <1>1, SeenUnchanged DEF SignalInv, CountInv, Counts
<1> QED
  BY <1>3, <1>4 DEF SignalInv

\* The program, or a map, sets a value.
LEMMA SetStep ==
  ASSUME SignalInv, ~Emitting, provided' \in [ApiKeys -> AnyValue \cup SUBSET Values],
         UNCHANGED <<cService, listeners, looping, made, attached, emission>>
  PROVE  SignalInv'
<1>1. ServiceTypes' /\ LifeInv' /\ SaidInv'
  BY DEF SignalInv, ServiceTypes, LifeInv, SaidInv, Emitting
<1>2. CountInv'
  BY SeenUnchanged DEF SignalInv, CountInv, Counts
<1> QED
  BY <1>1, <1>2 DEF SignalInv

\* setSubscribed: every listener is still to hear of the key.
LEMMA ClientStep ==
  ASSUME NEW k \in ApiKeys, SignalInv, FirstClient(k) \/ LastClient(k)
  PROVE  SignalInv'
<1>1. /\ k \in made /\ looping /\ ~Emitting
      /\ UNCHANGED <<cService, listeners, looping, made, provided>>
  BY DEF FirstClient, LastClient, SignalInv, ServiceTypes
<1>2. \E on \in BOOLEAN : /\ attached' = IF on THEN attached \cup {k} ELSE attached \ {k}
                          /\ on <=> k \notin attached
                          /\ emission' = EmissionOf(k, on)
  <2>1. CASE FirstClient(k)
    BY <2>1 DEF FirstClient
  <2>2. CASE LastClient(k)
    BY <2>2 DEF LastClient
  <2> QED
    BY <2>1, <2>2
<1>3. PICK on \in BOOLEAN : /\ attached' = IF on THEN attached \cup {k} ELSE attached \ {k}
                            /\ on <=> k \notin attached
                            /\ emission' = EmissionOf(k, on)
  BY <1>2
<1>4. /\ emission' \in Emissions /\ Emitting' /\ emission'.at = 1 /\ emission'.on = on
      /\ emission'.key = {k} /\ emission'.fired = {} /\ emission'.said = Silence
  BY <1>3 DEF EmissionOf, Emissions, Emitting
<1>5. ServiceTypes'
  <2>1. Len(listeners) \in Nat
    BY LenProperties DEF SignalInv, ServiceTypes
  <2> QED
    BY <1>1, <1>3, <1>4, <2>1 DEF SignalInv, ServiceTypes
<1>6. LifeInv' /\ SaidInv'
  BY <1>1, <1>3, <1>4 DEF SignalInv, LifeInv, SaidInv
<1>7. CountInv'
  <2>1. \A i \in 1 .. Len(listeners) : SeenBy(i)' = attached
    BY <1>3, <1>4 DEF SeenBy
  <2>2. \A i : SeenBy(i) = attached
    BY <1>1 DEF SeenBy
  <2> QED
    BY <1>1, <2>1, <2>2 DEF SignalInv, CountInv, Counts
<1> QED
  BY <1>5, <1>6, <1>7 DEF SignalInv

\* What any step of a signal has in common.
LEMMA EmitFrame ==
  ASSUME NEW k \in ApiKeys, NEW v \in Values \cup {Silence}, SignalInv, Emit(k, v)
  PROVE  /\ emission.at \in 1 .. Len(listeners) /\ Len(listeners) \in Nat
         /\ emission \in Emissions
         /\ UNCHANGED <<cService, looping, made, attached>>
         /\ emission' \in Emissions
         /\ emission'.at = emission.at + 1
         /\ emission'.on = emission.on /\ emission'.key = emission.key
         /\ \E j \in made : emission.key = {j} /\ (emission.on <=> j \in attached)
         /\ looping /\ cService
         /\ \A i \in 1 .. Len(listeners) : i # emission.at => SeenBy(i)' = SeenBy(i)
         /\ \A i \in 1 .. Len(listeners) : i = emission.at =>
              /\ SeenBy(i)' = attached
              /\ SeenBy(i) =
                   IF emission.on THEN attached \ emission.key ELSE attached \cup emission.key
<1>1. /\ emission.at \in 1 .. Len(listeners) /\ Len(listeners) \in Nat /\ Emitting
      /\ emission \in Emissions
      /\ UNCHANGED <<cService, looping, made, attached>>
  BY LenProperties DEF Emit, SignalInv, ServiceTypes, Emitting, Emissions
<1>2. \E f \in SUBSET Nat, w \in {Silence} \cup (ApiKeys \X Values) :
         emission' = [emission EXCEPT !.at = emission.at + 1, !.fired = f, !.said = w]
  <2> DEFINE l == listeners[emission.at]
             w == IF v = Silence THEN v ELSE <<k, v>>
  <2>1. emission.fired \in SUBSET Nat /\ emission.said \in {Silence} \cup (ApiKeys \X Values)
        /\ emission = [emission EXCEPT !.fired = emission.fired, !.said = emission.said]
    BY <1>1 DEF Emissions
  <2>2. emission.fired \cup {emission.at} \in SUBSET Nat /\ w \in {Silence} \cup (ApiKeys \X Values)
    BY <1>1, <2>1
  <2>3. CASE l.keys \cap emission.key # {} /\ Fires(l)
    <3>1. emission' = [emission EXCEPT !.at = emission.at + 1, !.fired = emission.fired \cup {emission.at},
                                       !.said = w]
      BY <2>3 DEF Emit
    <3> QED
      BY <2>2, <3>1
  <2>4. CASE ~(l.keys \cap emission.key # {} /\ Fires(l))
    <3>1. emission' = [emission EXCEPT !.at = emission.at + 1]
      BY <2>4 DEF Emit
    <3>2. emission' = [emission EXCEPT !.at = emission.at + 1, !.fired = emission.fired,
                                       !.said = emission.said]
      BY <1>1, <3>1 DEF Emissions
    <3> QED
      BY <2>1, <3>2
  <2> QED
    BY <2>3, <2>4
<1>3. /\ emission' \in Emissions /\ emission'.at = emission.at + 1
      /\ emission'.on = emission.on /\ emission'.key = emission.key
  <2>1. PICK f \in SUBSET Nat, w \in {Silence} \cup (ApiKeys \X Values) :
           emission' = [emission EXCEPT !.at = emission.at + 1, !.fired = f, !.said = w]
    BY <1>2
  <2>2. emission.at + 1 \in Nat
    BY <1>1
  <2>3. emission' = [at |-> emission.at + 1, on |-> emission.on, key |-> emission.key,
                     fired |-> f, said |-> w]
    BY <1>1, <2>1 DEF Emissions
  <2> QED
    BY <1>1, <2>2, <2>3 DEF Emissions
<1>4. /\ \E j \in made : emission.key = {j} /\ (emission.on <=> j \in attached)
      /\ looping /\ cService
  BY <1>1 DEF SignalInv, LifeInv, Emitting
<1>5. Emitting'
  BY <1>1, <1>3 DEF Emitting
<1>6. \A i \in 1 .. Len(listeners) : i # emission.at => SeenBy(i)' = SeenBy(i)
  BY <1>1, <1>3, <1>5 DEF SeenBy
<1>7. \A i \in 1 .. Len(listeners) : i = emission.at =>
         /\ SeenBy(i)' = attached
         /\ SeenBy(i) = IF emission.on THEN attached \ emission.key ELSE attached \cup emission.key
  BY <1>1, <1>3, <1>5 DEF SeenBy
<1> QED
  BY <1>1, <1>3, <1>4, <1>6, <1>7

\* The signal passes a listener by that has not got the key.
LEMMA PassStep ==
  ASSUME NEW k \in ApiKeys, NEW v \in Values \cup {Silence}, SignalInv, Emit(k, v),
         listeners[emission.at].keys \cap emission.key = {}
  PROVE  SignalInv'
<1>1. UNCHANGED <<listeners, provided>> /\ emission' = [emission EXCEPT !.at = emission.at + 1]
  BY DEF Emit
<1>2. ServiceTypes'
  BY <1>1, EmitFrame DEF SignalInv, ServiceTypes
<1>3. LifeInv'
  BY <1>1, EmitFrame DEF LifeInv, Emitting
<1>4. CountInv'
  <2> SUFFICES ASSUME NEW i \in 1 .. Len(listeners) PROVE Counts(listeners[i], SeenBy(i)')
    BY <1>1 DEF CountInv, Counts
  <2>1. Counts(listeners[i], SeenBy(i))
    BY DEF SignalInv, CountInv
  <2>2. CASE i # emission.at
    BY <2>1, <2>2, EmitFrame
  <2>3. CASE i = emission.at
    <3>1. SeenBy(i)' = attached /\ SeenBy(i) =
             IF emission.on THEN attached \ emission.key ELSE attached \cup emission.key
      BY <2>3, EmitFrame
    <3>2. listeners[i].keys \cap SeenBy(i) = listeners[i].keys \cap attached
      BY <2>3, <3>1
    <3> QED
      BY <2>1, <3>1, <3>2 DEF Counts
  <2> QED
    BY <2>2, <2>3
<1>5. SaidInv'
  <2>1. emission'.fired = emission.fired /\ emission'.said = emission.said
    BY <1>1, EmitFrame DEF Emissions
  <2>2. Emitting
    BY DEF Emit
  <2>3. emission'.fired \subseteq 1 .. emission'.at - 1
    BY <2>1, <2>2, EmitFrame DEF SignalInv, SaidInv
  <2> QED
    BY <1>1, <2>1, <2>2, <2>3, EmitFrame DEF SignalInv, SaidInv
<1> QED
  BY <1>2, <1>3, <1>4, <1>5 DEF SignalInv

\* The signal reaches a listener of the key.
LEMMA HearStep ==
  ASSUME NEW k \in ApiKeys, NEW v \in Values \cup {Silence}, SignalInv, Emit(k, v),
         listeners[emission.at].keys \cap emission.key # {}
  PROVE  SignalInv'
<1> DEFINE i == emission.at
           l == listeners[i]
           m == [l EXCEPT !.count = Counted(l), !.told = IF Fires(l) THEN emission.on ELSE l.told]
<1>1. /\ i \in 1 .. Len(listeners) /\ Len(listeners) \in Nat
      /\ listeners \in Seq(Listeners) /\ l \in Listeners
      /\ emission.on \in BOOLEAN
  BY EmitFrame, ElementOfSeq DEF SignalInv, ServiceTypes, Emissions
<1>2. PICK key \in made : emission.key = {key} /\ (emission.on <=> key \in attached)
  BY EmitFrame
<1>3. key \in l.keys
  BY <1>2
<1>4. Counts(l, IF emission.on THEN attached \ {key} ELSE attached \cup {key})
  BY <1>1, <1>2, EmitFrame DEF SignalInv, CountInv
<1>5. Counted(l) \in Nat /\ Counted(l) = IF emission.on THEN l.count + 1 ELSE l.count - 1
  <2>1. IsFiniteSet(l.keys)
    BY <1>1, ContextCAssumption, FS_Subset DEF Listeners
  <2>2. IsFiniteSet(l.keys \cap attached) /\ Cardinality(l.keys \cap attached) \in Nat /\ l.count \in Nat
    BY <1>1, <2>1, FS_Intersection, FS_CardinalityType DEF Listeners
  <2>3. ~emission.on => l.count = Cardinality(l.keys \cap attached) + 1
    <3>1. SUFFICES ASSUME ~emission.on PROVE l.count = Cardinality(l.keys \cap attached) + 1
      OBVIOUS
    <3>2. l.count = Cardinality(l.keys \cap (attached \cup {key}))
      BY <1>4, <3>1 DEF Counts
    <3>3. (attached \cup {key}) \ {key} = attached
      BY <1>2, <3>1
    <3> QED
      BY <1>3, <2>1, <3>2, <3>3, OneMore
  <2> QED
    BY <2>2, <2>3 DEF Counted
<1>6. /\ m \in Listeners /\ m.keys = l.keys /\ m.group = l.group /\ m.clears = l.clears
      /\ m.count = Counted(l) /\ m.told = IF Fires(l) THEN emission.on ELSE l.told
  BY <1>1, <1>5 DEF Listeners
<1>7. Fires(l) <=> (l.group => m.count = IF emission.on THEN 1 ELSE 0)
  BY <1>6 DEF Fires
<1>8. Counts(m, attached)
  <2>1. m.told = IF l.group => m.count = (IF emission.on THEN 1 ELSE 0) THEN emission.on ELSE l.told
    BY <1>6, <1>7
  <2>2. m.count = IF emission.on THEN l.count + 1 ELSE l.count - 1
    BY <1>5, <1>6
  <2> HIDE DEF m
  <2> QED
    BY <1>1, <1>2, <1>3, <1>4, <1>6, <2>1, <2>2, HearingCounts
<1>9. listeners' = [listeners EXCEPT ![i] = m]
  BY <1>1 DEF Emit, Listeners
<1> HIDE DEF m
<1>10. /\ listeners' \in Seq(Listeners) /\ Len(listeners') = Len(listeners)
       /\ listeners'[i] = m
       /\ \A j \in 1 .. Len(listeners) : j # i => listeners'[j] = listeners[j]
  BY <1>1, <1>6, <1>9, ExceptSeq
<1>11. provided' = IF Fires(l) THEN ClearThenCall(l, k, v) ELSE provided
  BY <1>2, <1>3 DEF Emit
<1>12. ServiceTypes'
  <2>1. provided \in [ApiKeys -> AnyValue \cup SUBSET Values]
    BY DEF SignalInv, ServiceTypes
  <2>2. \A j \in ApiKeys : ClearThenCall(l, k, v)[j] \in AnyValue \cup SUBSET Values
    BY <2>1 DEF ClearThenCall, AnyValue
  <2>3. provided' \in [ApiKeys -> AnyValue \cup SUBSET Values]
    BY <1>11, <2>1, <2>2 DEF ClearThenCall
  <2> QED
    BY <1>10, <2>3, EmitFrame DEF SignalInv, ServiceTypes
<1>13. LifeInv'
  BY EmitFrame DEF LifeInv, Emitting
<1>14. CountInv'
  <2> SUFFICES ASSUME NEW j \in 1 .. Len(listeners) PROVE Counts(listeners'[j], SeenBy(j)')
    BY <1>10 DEF CountInv, Counts
  <2>1. CASE j = i
    BY <1>8, <1>10, <2>1, EmitFrame
  <2>2. CASE j # i
    BY <1>10, <2>2, EmitFrame DEF SignalInv, CountInv
  <2> QED
    BY <2>1, <2>2
<1>15. Emitting /\ emission \in Emissions
  BY EmitFrame DEF Emit
<1>16. SaidInv'
  <2>1. CASE ~Fires(l)
    <3>1. emission' = [emission EXCEPT !.at = i + 1] /\ provided' = provided
      BY <1>2, <1>3, <2>1 DEF Emit
    <3>2. emission'.fired = emission.fired /\ emission'.said = emission.said
      BY <1>15, <3>1 DEF Emissions
    <3>3. \A j \in emission.fired : j \in 1 .. Len(listeners) /\ j # i
      BY <1>1, <1>15 DEF SignalInv, SaidInv
    <3>4. \A j \in emission.fired : listeners'[j] = listeners[j]
      BY <1>10, <3>3
    <3>5. emission'.fired \subseteq 1 .. emission'.at - 1
      BY <1>1, <1>15, <3>2, EmitFrame DEF SignalInv, SaidInv
    <3> QED
      BY <1>15, <3>1, <3>2, <3>4, <3>5, EmitFrame DEF SignalInv, SaidInv
  <2>2. CASE Fires(l)
    <3> DEFINE w == IF v = Silence THEN v ELSE <<k, v>>
    <3>1. emission' = [emission EXCEPT !.at = i + 1, !.fired = emission.fired \cup {i}, !.said = w]
      BY <1>2, <1>3, <2>2 DEF Emit
    <3>2. emission'.fired = emission.fired \cup {i} /\ emission'.said = w
      BY <1>15, <3>1 DEF Emissions
    <3>3. emission'.fired \subseteq 1 .. emission'.at - 1
      BY <1>1, <1>15, <3>2, EmitFrame DEF SignalInv, SaidInv
    <3>4. \A j \in emission'.fired : (\A j2 \in emission'.fired : j2 <= j) => j = i
      BY <1>1, <1>15, <3>2 DEF SignalInv, SaidInv
    <3>5. CASE v = Silence
      <4>1. l.clears /\ emission.on => \A j \in l.keys : provided'[j] = NoValue
        BY <1>1, <1>11, <2>2, <3>5 DEF ClearThenCall, ClearedAll, Listeners
      <4>2. emission'.said = Silence /\ listeners'[i].clears = l.clears /\ listeners'[i].keys = l.keys
        BY <1>6, <1>10, <3>2, <3>5
      <4> QED
        BY <3>3, <3>4, <4>1, <4>2, EmitFrame DEF SaidInv
    <3>6. CASE v # Silence
      <4>1. emission'.said = <<k, v>> /\ <<k, v>> # Silence
        BY <3>2, <3>6, ContextCAssumption
      <4>2. provided'[k] = v
        BY <1>11, <2>2, <3>6 DEF ClearThenCall
      <4> QED
        BY <3>3, <4>1, <4>2 DEF SaidInv
    <3> QED
      BY <3>5, <3>6
  <2> QED
    BY <2>1, <2>2
<1> QED
  BY <1>12, <1>13, <1>14, <1>16 DEF SignalInv

LEMMA EndStep ==
  ASSUME SignalInv, EndEmission PROVE SignalInv'
<1>1. /\ Emitting /\ emission.at > Len(listeners) /\ emission' = NoEmission
      /\ UNCHANGED <<cService, listeners, looping, made, provided, attached>>
  BY DEF EndEmission, EmissionOver
<1>2. ~Emitting' /\ NoEmission \in Emissions /\ NoEmission.at = 0
  BY <1>1 DEF NoEmission, Emitting, Emissions
<1>3. Len(listeners) \in Nat /\ emission.at \in Nat
  BY LenProperties DEF SignalInv, ServiceTypes, Emissions
<1>4. ServiceTypes' /\ LifeInv' /\ SaidInv'
  BY <1>1, <1>2, <1>3 DEF SignalInv, ServiceTypes, LifeInv, SaidInv
<1>5. \A i \in 1 .. Len(listeners) : SeenBy(i)' = SeenBy(i)
  BY <1>1, <1>2, <1>3 DEF SeenBy
<1>6. CountInv'
  BY <1>1, <1>5 DEF SignalInv, CountInv, Counts
<1> QED
  BY <1>4, <1>6 DEF SignalInv

-----------------------------------------------------------------------------
(* Theorems                                                                *)

LEMMA StartStep ==
  ASSUME ContextCInit PROVE ContextCInv
<1>1. ~Emitting /\ NoEmission \in Emissions /\ NoEmission.at = 0
  BY DEF ContextCInit, NoEmission, Emitting, Emissions
<1>2. <<>> \in Seq(Listeners) /\ Len(<<>>) = 0
  BY EmptySeq
<1>3. MaxListeners \in Nat
  BY ContextCAssumption
<1>4. listeners \in Seq(Listeners) /\ Len(listeners) = 0
  BY <1>2 DEF ContextCInit
<1>5. ServiceTypes
  <2>1. provided \in [ApiKeys -> AnyValue \cup SUBSET Values]
    BY DEF ContextCInit, AnyValue
  <2>2. emission \in Emissions /\ emission.at <= Len(listeners) + 1 /\ Len(listeners) <= MaxListeners
    BY <1>1, <1>3, <1>4 DEF ContextCInit
  <2> QED
    BY <1>4, <2>1, <2>2 DEF ContextCInit, ServiceTypes
<1>6. LifeInv /\ SaidInv /\ CountInv
  BY <1>1, <1>4 DEF ContextCInit, LifeInv, SaidInv, CountInv
<1>7. HeapInv
  BY DEF ContextCInit, HeapInv, HeapIsOwned
<1> QED
  BY <1>5, <1>6, <1>7 DEF ContextCInv, SignalInv

LEMMA NextStep ==
  ASSUME ContextCInv, [ContextCNext]_contextcVars PROVE ContextCInv'
<1> USE DEF ContextCInv
<1>1. HeapInv'
  BY HeapStep
<1>2. CASE ContextProviderInit \/ ContextProviderStop \/ EnterMainLoop \/ EndEmission
  BY <1>1, <1>2, InitStep, StopStep, LoopStep, EndStep
<1>3. CASE \E clears \in BOOLEAN, k \in ApiKeys : Install({k}, FALSE, clears)
  BY <1>1, <1>3, InstallStep
<1>4. CASE \E clears \in BOOLEAN, keys \in SUBSET ApiKeys : Install(keys, TRUE, clears)
  BY <1>1, <1>4, InstallStep
<1>5. CASE \E k \in ApiKeys, v \in AnyValue : ContextProviderSet(k, v)
  <2>1. provided \in [ApiKeys -> AnyValue \cup SUBSET Values]
    BY DEF SignalInv, ServiceTypes
  <2>2. provided' \in [ApiKeys -> AnyValue \cup SUBSET Values] /\ ~Emitting
    BY <1>5, <2>1 DEF ContextProviderSet
  <2> QED
    BY <1>1, <1>5, <2>2, SetStep DEF ContextProviderSet
<1>6. CASE \E k \in ApiKeys : FirstClient(k) \/ LastClient(k)
  BY <1>1, <1>6, ClientStep
<1>7. CASE \E k \in ApiKeys, v \in Values \cup {Silence} : Emit(k, v)
  BY <1>1, <1>7, PassStep, HearStep
<1>8. CASE \E h \in Handles : TreeNew(h) \/ TreeFree(h) \/ (\E v \in Values : TreeAdd(h, v))
                               \/ (\E part \in Handles : TreeAddTree(h, part))
  <2>1. ~Emitting /\ UNCHANGED provided /\ ServiceUnchanged
    BY <1>8 DEF TreeNew, TreeFree, TreeAdd, TreeAddTree
  <2>2. provided' \in [ApiKeys -> AnyValue \cup SUBSET Values]
    BY <2>1 DEF SignalInv, ServiceTypes
  <2> QED
    BY <1>1, <2>1, <2>2, SetStep DEF ServiceUnchanged
<1>9. CASE \E h \in Handles, k \in ApiKeys, free \in BOOLEAN : SetTree(k, h, free)
  <2>1. PICK h \in Handles, k \in ApiKeys, free \in BOOLEAN : SetTree(k, h, free)
    BY <1>9
  <2>2. trees[h] \in SUBSET Values
    BY <2>1 DEF SetTree, HeapInv, HeapIsOwned
  <2>3. provided' \in [ApiKeys -> AnyValue \cup SUBSET Values]
    BY <2>1, <2>2 DEF SetTree, SignalInv, ServiceTypes
  <2> QED
    BY <1>1, <2>1, <2>3, SetStep DEF SetTree, ServiceUnchanged
<1>10. CASE UNCHANGED contextcVars
  <2>1. SignalInv'
    BY <1>10, SeenUnchanged DEF contextcVars, SignalInv, ServiceTypes, LifeInv, CountInv, Counts, SaidInv, Emitting
  <2> QED
    BY <1>1, <2>1
<1> QED
  BY <1>2, <1>3, <1>4, <1>5, <1>6, <1>7, <1>8, <1>9, <1>10 DEF ContextCNext

\* Of the program, the service behind the C functions, and its clients.
THEOREM ContextCInvariant == ContextCSpec => []ContextCInv
<1>1. ContextCInit => ContextCInv
  BY StartStep
<1>2. ContextCInv /\ [ContextCNext]_contextcVars => ContextCInv'
  BY NextStep
<1> QED
  BY <1>1, <1>2, PTL DEF ContextCSpec

\* The values of the variables; no group counts below none or above all of its keys
\* (Group::onFirstSubscriberAppeared, onLastSubscriberDisappeared).
THEOREM ContextCTypes == ContextCSpec => []ContextCTypeOK
<1>1. ContextCInv => ContextCTypeOK
  <2> SUFFICES ASSUME ContextCInv PROVE ContextCTypeOK
    OBVIOUS
  <2>1. listeners \in Seq(Listeners) /\ Len(listeners) \in Nat /\ DOMAIN listeners = 1 .. Len(listeners)
    BY LenProperties DEF ContextCInv, SignalInv, ServiceTypes
  <2>2. \A i \in DOMAIN listeners : listeners[i].count <= Cardinality(listeners[i].keys)
    <3> SUFFICES ASSUME NEW i \in DOMAIN listeners
                 PROVE  listeners[i].count <= Cardinality(listeners[i].keys)
      OBVIOUS
    <3>1. listeners[i].count = Cardinality(listeners[i].keys \cap SeenBy(i))
      BY <2>1 DEF ContextCInv, SignalInv, CountInv, Counts
    <3>2. IsFiniteSet(listeners[i].keys)
      <4>1. listeners[i] \in Listeners
        BY <2>1, ElementOfSeq
      <4> QED
        BY <4>1, ContextCAssumption, FS_Subset DEF Listeners
    <3> QED
      BY <3>1, <3>2, FS_Intersection
  <2>3. emission.at \in 0 .. Len(listeners) + 1
    BY <2>1 DEF ContextCInv, SignalInv, ServiceTypes, Emissions
  <2> QED
    BY <2>1, <2>2, <2>3 DEF ContextCInv, SignalInv, ServiceTypes, HeapInv, ContextCTypeOK
<1> QED
  BY <1>1, ContextCInvariant, PTL

\* A callback's last word is true, after any history of installing, stopping and
\* starting again (Listener, Group, context_provider_stop).
THEOREM CallbacksTold == ContextCSpec => []CallbacksToldTruth
<1>1. ContextCInv => CallbacksToldTruth
  <2> SUFFICES ASSUME ContextCInv, ~Emitting, NEW i \in DOMAIN listeners
               PROVE  listeners[i].told = (listeners[i].keys \cap attached # {})
    BY DEF CallbacksToldTruth
  <2>1. i \in 1 .. Len(listeners) /\ listeners[i] \in Listeners
    BY ElementOfSeq, LenProperties DEF ContextCInv, SignalInv, ServiceTypes
  <2>2. Counts(listeners[i], attached)
    BY <2>1 DEF ContextCInv, SignalInv, CountInv, SeenBy
  <2> QED
    BY <2>1, <2>2 DEF Counts, Listeners
<1> QED
  BY <1>1, ContextCInvariant, PTL

\* The answer of a Subscribe call that wakes clearing listeners is fresh, whatever keys
\* and groups share (Listener::onFirstSubscriberAppeared).
THEOREM AnswersAreFresh == ContextCSpec => []FirstAnswerIsFresh
<1>1. ContextCInv => FirstAnswerIsFresh
  BY DEF ContextCInv, SignalInv, SaidInv, FirstAnswerIsFresh, EmissionOver
<1> QED
  BY <1>1, ContextCInvariant, PTL

\* Nothing leaks and nothing is freed twice by the functions on maps and lists.
THEOREM HeapOwned == ContextCSpec => []HeapIsOwned
<1>1. ContextCInv => HeapIsOwned
  BY DEF ContextCInv, HeapInv
<1> QED
  BY <1>1, ContextCInvariant, PTL
=============================================================================
