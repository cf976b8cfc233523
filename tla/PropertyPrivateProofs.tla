------------------------ MODULE PropertyPrivateProofs -----------------------
(***************************************************************************)
(* Proofs about PropertyPrivate, for any providers and values and any      *)
(* number of calls of setValue.                                            *)
(***************************************************************************)
EXTENDS PropertyPrivate, SequenceTheorems, TLAPS

-----------------------------------------------------------------------------
(* The inductive invariant                                                 *)

Wire == [value : AnyValue, time : Nat]

Stamped(c) == [value : AnyValue, time : 0 .. c]

\* What the client will have when it has received all that is under way.
Latest(wire, got) == IF wire = <<>> THEN got.value ELSE wire[Len(wire)].value

\* The time stamps on the way are in order, none older than what the client has
\* and none newer than the provider's latest.
InOrder(wire, got, newest) ==
  /\ got.time <= newest
  /\ \A i \in 1 .. Len(wire) :
       /\ got.time <= wire[i].time
       /\ wire[i].time <= newest
       /\ \A j \in 1 .. i : wire[j].time <= wire[i].time

WireInv(p) ==
  /\ InOrder(toClient[p], shown[p], timestamp[p])
  /\ subscribed[p] => Latest(toClient[p], shown[p]) = value[p]
  /\ ~subscribed[p] => toClient[p] = <<>>

PropertyInv ==
  /\ PropertyTypeOK
  /\ BookkeepingFollows
  /\ \A p \in Providers : WireInv(p)

-----------------------------------------------------------------------------
(* Sequences of messages                                                   *)

LEMMA InOrderAppend ==
  ASSUME NEW wire \in Seq(Wire), NEW got \in Wire, NEW msg \in Wire, NEW newest \in Nat,
         InOrder(wire, got, newest), newest <= msg.time
  PROVE  /\ InOrder(Append(wire, msg), got, msg.time)
         /\ Latest(Append(wire, msg), got) = msg.value
<1>1. /\ Len(Append(wire, msg)) = Len(wire) + 1
      /\ Append(wire, msg)[Len(wire) + 1] = msg
      /\ \A i \in 1 .. Len(wire) : Append(wire, msg)[i] = wire[i]
      /\ Len(wire) \in Nat
      /\ Append(wire, msg) # <<>>
  OBVIOUS
<1>2. \A i \in 1 .. Len(wire) : wire[i] \in Wire
  OBVIOUS
<1>3. \A w \in Wire : w.time \in Nat
  BY DEF Wire
<1>4. Latest(Append(wire, msg), got) = msg.value
  BY <1>1 DEF Latest
<1>5. \A i \in 1 .. Len(wire) : wire[i].time <= msg.time
  BY <1>2, <1>3 DEF InOrder
<1>6. InOrder(Append(wire, msg), got, msg.time)
  <2>1. got.time <= msg.time
    BY <1>3 DEF InOrder
  <2>2. ASSUME NEW i \in 1 .. Len(Append(wire, msg))
        PROVE  LET w == Append(wire, msg)
               IN /\ got.time <= w[i].time
                  /\ w[i].time <= msg.time
                  /\ \A j \in 1 .. i : w[j].time <= w[i].time
    <3>1. CASE i \in 1 .. Len(wire)
      BY <1>1, <1>2, <1>3, <1>5, <3>1 DEF InOrder
    <3>2. CASE i = Len(wire) + 1
      BY <1>1, <1>2, <1>3, <1>5, <2>1, <3>2
    <3> QED
      BY <1>1, <3>1, <3>2
  <2> QED
    BY <2>1, <2>2 DEF InOrder
<1> QED
  BY <1>4, <1>6

LEMMA InOrderTail ==
  ASSUME NEW wire \in Seq(Wire), NEW got \in Wire, NEW newest \in Nat,
         InOrder(wire, got, newest), wire # <<>>
  PROVE  /\ InOrder(Tail(wire), Head(wire), newest)
         /\ Latest(Tail(wire), Head(wire)) = Latest(wire, got)
         /\ got.time <= Head(wire).time
<1>1. /\ Len(Tail(wire)) = Len(wire) - 1
      /\ Head(wire) = wire[1]
      /\ \A i \in 1 .. Len(Tail(wire)) : Tail(wire)[i] = wire[i + 1]
      /\ Len(wire) \in Nat \ {0}
      /\ Tail(wire) \in Seq(Wire)
  BY HeadTailProperties, EmptySeq
<1>0. \A s \in Seq(Wire) : s = <<>> <=> Len(s) = 0
  BY EmptySeq
<1>2. Latest(Tail(wire), Head(wire)) = Latest(wire, got)
  <2>1. CASE Len(wire) = 1
    <3>1. Tail(wire) = <<>>
      <4>1. Len(Tail(wire)) = 0
        BY <1>1, <2>1
      <4> QED
        BY <1>0, <1>1, <4>1
    <3> QED
      BY <1>1, <2>1, <3>1 DEF Latest
  <2>2. CASE Len(wire) > 1
    <3>1. Tail(wire) # <<>> /\ Len(Tail(wire)) \in 1 .. Len(Tail(wire))
      <4>1. Len(Tail(wire)) \in Nat /\ Len(Tail(wire)) > 0
        BY <1>1, <2>2
      <4> QED
        BY <1>0, <1>1, <4>1
    <3>2. Tail(wire)[Len(Tail(wire))] = wire[Len(wire)]
      BY <1>1, <3>1
    <3> QED
      BY <3>1, <3>2 DEF Latest
  <2> QED
    BY <1>1, <2>1, <2>2
<1>3. \A i \in 1 .. Len(wire) : wire[i] \in Wire
  OBVIOUS
<1>4. \A w \in Wire : w.time \in Nat
  BY DEF Wire
<1>5. InOrder(Tail(wire), Head(wire), newest)
  <2>1. Head(wire).time <= newest
    BY <1>1 DEF InOrder
  <2>2. ASSUME NEW i \in 1 .. Len(Tail(wire))
        PROVE  /\ Head(wire).time <= Tail(wire)[i].time
               /\ Tail(wire)[i].time <= newest
               /\ \A j \in 1 .. i : Tail(wire)[j].time <= Tail(wire)[i].time
    <3>1. i + 1 \in 1 .. Len(wire) /\ Tail(wire)[i] = wire[i + 1]
      BY <1>1
    <3>2. \A j \in 1 .. i : j + 1 \in 1 .. i + 1 /\ Tail(wire)[j] = wire[j + 1]
      BY <1>1
    <3>3. 1 \in 1 .. i + 1
      BY <3>1
    <3> QED
      BY <1>1, <3>1, <3>2, <3>3 DEF InOrder
  <2> QED
    BY <2>1, <2>2 DEF InOrder
<1>6. got.time <= Head(wire).time
  BY <1>1 DEF InOrder
<1> QED
  BY <1>2, <1>5, <1>6

LEMMA InOrderLater ==
  ASSUME NEW wire \in Seq(Wire), NEW got \in Wire, NEW newest \in Nat, NEW later \in Nat,
         InOrder(wire, got, newest), newest <= later
  PROVE  InOrder(wire, got, later)
<1>1. \A i \in 1 .. Len(wire) : wire[i] \in Wire
  OBVIOUS
<1>2. \A w \in Wire : w.time \in Nat
  BY DEF Wire
<1> QED
  BY <1>1, <1>2 DEF InOrder

\* What was well-typed stays so while the clock advances.
LEMMA ClockAdvances ==
  ASSUME NEW c \in Nat, NEW d \in Nat, c <= d
  PROVE  /\ Stamped(c) \subseteq Stamped(d)
         /\ Stamped(c) \subseteq Wire
         /\ Seq(Stamped(c)) \subseteq Seq(Stamped(d))
         /\ Seq(Stamped(c)) \subseteq Seq(Wire)
<1>1. 0 .. c \subseteq 0 .. d /\ 0 .. c \subseteq Nat
  OBVIOUS
<1>2. /\ Stamped(c) \subseteq Stamped(d)
      /\ Stamped(c) \subseteq Wire
  BY <1>1 DEF Wire, Stamped
<1>3. \A S, T : S \subseteq T => Seq(S) \subseteq Seq(T)
  <2> SUFFICES ASSUME NEW S, NEW T, S \subseteq T, NEW s \in Seq(S) PROVE s \in Seq(T)
    OBVIOUS
  <2>1. Len(s) \in Nat /\ s \in [1 .. Len(s) -> S]
    BY LenProperties
  <2>2. s \in [1 .. Len(s) -> T]
    BY <2>1
  <2> QED
    BY <2>1, <2>2, SeqDef
<1> QED
  BY <1>2, <1>3

-----------------------------------------------------------------------------
(* The actions                                                             *)

\* An emission books the intention, and the client gets it if it is subscribed.
LEMMA Emission ==
  ASSUME NEW p \in Providers, NEW v \in AnyValue, NEW c \in Nat, NEW t \in 0 .. c,
         NEW wires \in [Providers \X Providers -> Seq(Stamped(c))],
         toClient \in [Providers -> Seq(Stamped(c))],
         emittedValue \in [Providers -> AnyValue],
         emittedTimestamp \in [Providers -> 0 .. c],
         EmitValue(p, v, t, wires)
  PROVE  /\ toProvider' \in [Providers \X Providers -> Seq(Stamped(c))]
         /\ emittedValue' = [emittedValue EXCEPT ![p] = v]
         /\ emittedTimestamp' = [emittedTimestamp EXCEPT ![p] = t]
         /\ toClient' = IF ~NothingNew(p, v, t) /\ subscribed[p]
                        THEN [toClient EXCEPT ![p] = Append(toClient[p], Timed(v, t))]
                        ELSE toClient
<1>1. CASE NothingNew(p, v, t)
  <2>1. emittedValue[p] = v /\ emittedTimestamp[p] = t
    BY <1>1 DEF NothingNew
  <2>2. toProvider' = wires /\ UNCHANGED <<emittedValue, emittedTimestamp, toClient>>
    BY <1>1 DEF EmitValue
  <2> QED
    BY <1>1, <2>1, <2>2
<1>2. CASE ~NothingNew(p, v, t)
  <2>1. /\ emittedValue' = [emittedValue EXCEPT ![p] = v]
        /\ emittedTimestamp' = [emittedTimestamp EXCEPT ![p] = t]
    BY <1>2 DEF EmitValue, Books
  <2>2. CASE subscribed[p]
    <3>1. /\ toClient' = [toClient EXCEPT ![p] = Append(toClient[p], Timed(v, t))]
          /\ toProvider' = Sent(wires, p, Timed(v, t))
      BY <1>2, <2>2 DEF EmitValue, Stamp
    <3>2. Timed(v, t) \in Stamped(c)
      BY DEF Timed, Stamped
    <3>3. \A pq \in Providers \X Providers :
            wires[pq] \in Seq(Stamped(c)) /\ Append(wires[pq], Timed(v, t)) \in Seq(Stamped(c))
      BY <3>2
    <3>4. Sent(wires, p, Timed(v, t)) \in [Providers \X Providers -> Seq(Stamped(c))]
      BY <3>3 DEF Sent
    <3> QED
      BY <1>2, <2>1, <2>2, <3>1, <3>4
  <2>3. CASE ~subscribed[p]
    BY <1>2, <2>1, <2>3 DEF EmitValue
  <2> QED
    BY <2>2, <2>3
<1> QED
  BY <1>1, <1>2

\* A provider's part of the invariant depends on its own state only.
LEMMA UntouchedWire ==
  ASSUME NEW r \in Providers, WireInv(r),
         toClient'[r] = toClient[r], shown'[r] = shown[r], timestamp'[r] = timestamp[r],
         subscribed'[r] = subscribed[r], value'[r] = value[r]
  PROVE  WireInv(r)'
BY DEF WireInv, InOrder, Latest

\* What the types say of one provider.
LEMMA Typed ==
  ASSUME PropertyTypeOK, NEW p \in Providers
  PROVE  /\ clock \in Nat
         /\ value[p] \in AnyValue /\ timestamp[p] \in 0 .. clock
         /\ emittedValue[p] \in AnyValue /\ emittedTimestamp[p] \in 0 .. clock
         /\ toClient[p] \in Seq(Stamped(clock)) /\ toClient[p] \in Seq(Wire)
         /\ shown[p] \in Stamped(clock) /\ shown[p] \in Wire
         /\ Timed(value[p], timestamp[p]) \in Stamped(clock)
         /\ Timed(value[p], timestamp[p]) \in Wire
<1>1. /\ clock \in Nat
      /\ value[p] \in AnyValue /\ timestamp[p] \in 0 .. clock
      /\ emittedValue[p] \in AnyValue /\ emittedTimestamp[p] \in 0 .. clock
      /\ toClient[p] \in Seq(Stamped(clock))
      /\ shown[p] \in Stamped(clock)
  <2>1. TimedValues = Stamped(clock)
    BY DEF TimedValues, Stamped
  <2> QED
    BY <2>1, PropertyAssumption DEF PropertyTypeOK
<1>2. Timed(value[p], timestamp[p]) \in Stamped(clock)
  BY <1>1 DEF Timed, Stamped
<1>3. Stamped(clock) \subseteq Wire /\ Seq(Stamped(clock)) \subseteq Seq(Wire)
  BY <1>1, ClockAdvances
<1> QED
  BY <1>1, <1>2, <1>3

LEMMA InitPropertyInv == Init => PropertyInv
<1> SUFFICES ASSUME Init PROVE PropertyInv
  OBVIOUS
<1>1. NoValue \in AnyValue
  BY DEF AnyValue
<1>2. Nothing \in TimedValues /\ Nothing.value = NoValue /\ Nothing.time = 0
  BY <1>1 DEF Init, Nothing, Timed, TimedValues
<1>3. PropertyTypeOK
  BY <1>1, <1>2, PropertyAssumption DEF Init, PropertyTypeOK
<1>4. BookkeepingFollows
  BY DEF Init, BookkeepingFollows
<1>5. ASSUME NEW p \in Providers PROVE WireInv(p)
  BY <1>2 DEF Init, WireInv, InOrder, Latest
<1> QED
  BY <1>3, <1>4, <1>5 DEF PropertyInv

LEMMA SetValueKeeps ==
  ASSUME PropertyInv, NEW p \in Providers, NEW v \in AnyValue, SetValue(p, v)
  PROVE  PropertyInv' /\ shown' = shown
<1> DEFINE t == clock + 1
<1>1. /\ PropertyTypeOK /\ clock \in Nat /\ clock < MaxTime /\ MaxTime \in Nat
      /\ clock' = t /\ t \in Nat /\ t \in 0 .. MaxTime
      /\ value' = [value EXCEPT ![p] = v]
      /\ timestamp' = [timestamp EXCEPT ![p] = t]
      /\ subscribed' = subscribed /\ shown' = shown
  BY PropertyAssumption DEF PropertyInv, PropertyTypeOK, SetValue, CurrentTimestamp
<1>2. /\ toClient \in [Providers -> Seq(Stamped(t))]
      /\ toProvider \in [Providers \X Providers -> Seq(Stamped(t))]
      /\ shown \in [Providers -> Stamped(t)]
      /\ emittedValue \in [Providers -> AnyValue]
      /\ emittedTimestamp \in [Providers -> 0 .. t]
      /\ timestamp \in [Providers -> 0 .. t]
      /\ value \in [Providers -> AnyValue]
      /\ overheard \in [Providers -> BOOLEAN]
      /\ subscribed \in [Providers -> BOOLEAN]
  <2>1. Stamped(clock) \subseteq Stamped(t) /\ Seq(Stamped(clock)) \subseteq Seq(Stamped(t))
    BY <1>1, ClockAdvances
  <2>2. 0 .. clock \subseteq 0 .. t
    BY <1>1
  <2>3. TimedValues = Stamped(clock)
    BY DEF TimedValues, Stamped
  <2> QED
    BY <1>1, <2>1, <2>2, <2>3 DEF PropertyTypeOK
<1>3. Timed(v, t) \in Stamped(t) /\ Timed(v, t) \in Wire
      /\ Timed(v, t).value = v /\ Timed(v, t).time = t
  BY <1>1 DEF Timed, Stamped, Wire
<1>4. /\ toClient[p] \in Seq(Wire) /\ shown[p] \in Wire
      /\ timestamp[p] \in Nat /\ timestamp[p] <= clock
      /\ emittedTimestamp[p] \in Nat /\ emittedTimestamp[p] <= clock
      /\ WireInv(p)
  BY <1>1, Typed DEF PropertyInv
<1>5. Differs(p, v) \/ overheard[p] =>
        /\ toProvider' \in [Providers \X Providers -> Seq(Stamped(t))]
        /\ emittedValue' = [emittedValue EXCEPT ![p] = v]
        /\ emittedTimestamp' = [emittedTimestamp EXCEPT ![p] = t]
        /\ overheard' = [overheard EXCEPT ![p] = FALSE]
        /\ toClient' = IF subscribed[p]
                       THEN [toClient EXCEPT ![p] = Append(toClient[p], Timed(v, t))]
                       ELSE toClient
  <2> SUFFICES ASSUME Differs(p, v) \/ overheard[p]
               PROVE  /\ toProvider' \in [Providers \X Providers -> Seq(Stamped(t))]
                      /\ emittedValue' = [emittedValue EXCEPT ![p] = v]
                      /\ emittedTimestamp' = [emittedTimestamp EXCEPT ![p] = t]
                      /\ overheard' = [overheard EXCEPT ![p] = FALSE]
                      /\ toClient' = IF subscribed[p]
                                     THEN [toClient EXCEPT ![p] = Append(toClient[p], Timed(v, t))]
                                     ELSE toClient
    OBVIOUS
  <2>1. PICK u \in Nat : u = t
    BY <1>1
  <2>2. EmitValue(p, v, u, toProvider) /\ overheard' = [overheard EXCEPT ![p] = FALSE]
    BY <2>1 DEF SetValue, CurrentTimestamp
  <2>3. PICK wires : wires = toProvider
    OBVIOUS
  <2>4. EmitValue(p, v, u, wires)
    BY <2>2, <2>3
  <2>5. ~NothingNew(p, v, u)
    BY <1>1, <1>4, <2>1 DEF NothingNew
  <2>6. /\ u \in 0 .. u
        /\ wires \in [Providers \X Providers -> Seq(Stamped(u))]
        /\ toClient \in [Providers -> Seq(Stamped(u))]
        /\ emittedTimestamp \in [Providers -> 0 .. u]
    BY <1>2, <2>1, <2>3
  <2> HIDE DEF t
  <2>7. /\ toProvider' \in [Providers \X Providers -> Seq(Stamped(u))]
        /\ emittedValue' = [emittedValue EXCEPT ![p] = v]
        /\ emittedTimestamp' = [emittedTimestamp EXCEPT ![p] = u]
        /\ toClient' = IF ~NothingNew(p, v, u) /\ subscribed[p]
                       THEN [toClient EXCEPT ![p] = Append(toClient[p], Timed(v, u))]
                       ELSE toClient
    BY <1>2, <2>4, <2>6, Emission
  <2> QED
    BY <2>1, <2>2, <2>5, <2>7
<1>6. ~(Differs(p, v) \/ overheard[p]) =>
        /\ UNCHANGED <<emittedValue, emittedTimestamp, overheard, toClient, toProvider>>
        /\ emittedValue[p] = v /\ ~overheard[p]
  BY DEF SetValue, Differs, emissionVars
<1>7. PropertyTypeOK'
  <2>1. \A w \in Seq(Stamped(t)) : Append(w, Timed(v, t)) \in Seq(Stamped(t))
    BY <1>3
  <2>2. toClient' \in [Providers -> Seq(Stamped(t))]
    <3>1. Append(toClient[p], Timed(v, t)) \in Seq(Stamped(t))
      BY <1>2, <2>1
    <3>2. [toClient EXCEPT ![p] = Append(toClient[p], Timed(v, t))] \in [Providers -> Seq(Stamped(t))]
      BY <1>2, <3>1
    <3>3. \/ toClient' = toClient
          \/ toClient' = [toClient EXCEPT ![p] = Append(toClient[p], Timed(v, t))]
      BY <1>5, <1>6
    <3> QED
      BY <1>2, <3>2, <3>3
  <2>3. toProvider' \in [Providers \X Providers -> Seq(Stamped(t))]
    BY <1>2, <1>5, <1>6
  <2>4. /\ emittedValue' \in [Providers -> AnyValue]
        /\ emittedTimestamp' \in [Providers -> 0 .. t]
        /\ overheard' \in [Providers -> BOOLEAN]
    <3>1. CASE Differs(p, v) \/ overheard[p]
      <4>1. [emittedTimestamp EXCEPT ![p] = t] \in [Providers -> 0 .. t]
        BY <1>1, <1>2
      <4>2. [emittedValue EXCEPT ![p] = v] \in [Providers -> AnyValue]
        BY <1>2
      <4>3. [overheard EXCEPT ![p] = FALSE] \in [Providers -> BOOLEAN]
        BY <1>2
      <4> QED
        BY <1>5, <3>1, <4>1, <4>2, <4>3
    <3>2. CASE ~(Differs(p, v) \/ overheard[p])
      BY <1>2, <1>6, <3>2
    <3> QED
      BY <3>1, <3>2
  <2>5. /\ value' \in [Providers -> AnyValue]
        /\ timestamp' \in [Providers -> 0 .. t]
        /\ subscribed' \in [Providers -> BOOLEAN]
        /\ shown' \in [Providers -> Stamped(t)]
    BY <1>1, <1>2
  <2>6. TimedValues' = Stamped(t)
    BY <1>1 DEF TimedValues, Stamped
  <2> QED
    BY <1>1, <2>2, <2>3, <2>4, <2>5, <2>6 DEF PropertyTypeOK
<1>8. BookkeepingFollows'
  <2> SUFFICES ASSUME NEW r \in Providers
               PROVE  /\ emittedValue'[r] = value'[r]
                      /\ emittedTimestamp'[r] <= timestamp'[r]
                      /\ overheard'[r] => emittedTimestamp'[r] = timestamp'[r]
    BY DEF BookkeepingFollows
  <2>1. CASE r = p
    BY <1>1, <1>2, <1>4, <1>5, <1>6, <2>1
  <2>2. CASE r # p
    BY <1>1, <1>2, <1>5, <1>6, <2>2 DEF PropertyInv, BookkeepingFollows
  <2> QED
    BY <2>1, <2>2
<1>9. ASSUME NEW r \in Providers PROVE WireInv(r)'
  <2>1. CASE r # p
    <3>1. /\ toClient'[r] = toClient[r] /\ shown'[r] = shown[r] /\ timestamp'[r] = timestamp[r]
          /\ subscribed'[r] = subscribed[r] /\ value'[r] = value[r]
      BY <1>1, <1>2, <1>5, <1>6, <2>1
    <3> QED
      BY <3>1, UntouchedWire DEF PropertyInv
  <2>2. CASE r = p
    <3>1. /\ value'[p] = v /\ timestamp'[p] = t
          /\ shown'[p] = shown[p] /\ subscribed'[p] = subscribed[p]
      BY <1>1, <1>2
    <3>2. InOrder(toClient[p], shown[p], timestamp[p])
      BY <1>4 DEF WireInv
    <3>3. CASE (Differs(p, v) \/ overheard[p]) /\ subscribed[p]
      <4>1. toClient'[p] = Append(toClient[p], Timed(v, t))
        BY <1>2, <1>5, <3>3
      <4>2. /\ InOrder(Append(toClient[p], Timed(v, t)), shown[p], t)
            /\ Latest(Append(toClient[p], Timed(v, t)), shown[p]) = v
        BY <1>1, <1>3, <1>4, <3>2, InOrderAppend
      <4> QED
        BY <2>2, <3>1, <3>3, <4>1, <4>2 DEF WireInv, InOrder, Latest
    <3>4. CASE ~((Differs(p, v) \/ overheard[p]) /\ subscribed[p])
      <4>1. toClient'[p] = toClient[p]
        BY <1>5, <1>6, <3>4
      <4>2. InOrder(toClient[p], shown[p], t)
        BY <1>1, <1>4, <3>2, InOrderLater
      <4>3. subscribed[p] => value[p] = v
        BY <1>6, <3>4 DEF PropertyInv, BookkeepingFollows
      <4> QED
        BY <1>4, <2>2, <3>1, <4>1, <4>2, <4>3 DEF WireInv, InOrder, Latest
    <3> QED
      BY <3>3, <3>4
  <2> QED
    BY <2>1, <2>2
<1> QED
  BY <1>1, <1>7, <1>8, <1>9 DEF PropertyInv

LEMMA OverheardKeeps ==
  ASSUME PropertyInv, NEW p \in Providers, NEW q \in Providers, UpdateOverheardValue(p, q)
  PROVE  PropertyInv' /\ shown' = shown
<1>1. /\ PropertyTypeOK /\ clock \in Nat
      /\ UNCHANGED <<clock, value, timestamp, subscribed, shown>>
  BY PropertyAssumption DEF PropertyInv, PropertyTypeOK, UpdateOverheardValue, intentionVars
<1>2. TimedValues = Stamped(clock) /\ TimedValues' = Stamped(clock)
  BY <1>1 DEF TimedValues, Stamped
<1>3. /\ toClient \in [Providers -> Seq(Stamped(clock))]
      /\ toProvider \in [Providers \X Providers -> Seq(Stamped(clock))]
      /\ shown \in [Providers -> Stamped(clock)]
      /\ emittedValue \in [Providers -> AnyValue]
      /\ emittedTimestamp \in [Providers -> 0 .. clock]
      /\ overheard \in [Providers -> BOOLEAN]
  BY <1>1, <1>2 DEF PropertyTypeOK
<1>4. /\ value[q] \in AnyValue /\ timestamp[q] \in 0 .. clock
      /\ toClient[q] \in Seq(Wire) /\ shown[q] \in Wire
      /\ emittedTimestamp[q] <= timestamp[q]
      /\ emittedValue[q] = value[q]
      /\ WireInv(q)
  BY <1>1, Typed DEF PropertyInv, BookkeepingFollows
<1> DEFINE msg == Timed(value[q], timestamp[q])
           wires == [toProvider EXCEPT ![<<p, q>>] = Tail(toProvider[<<p, q>>])]
<1>5. msg \in Stamped(clock) /\ msg \in Wire /\ msg.value = value[q] /\ msg.time = timestamp[q]
  BY <1>1, Typed DEF Timed
<1>6. wires \in [Providers \X Providers -> Seq(Stamped(clock))]
  <2>1. toProvider[<<p, q>>] \in Seq(Stamped(clock)) /\ toProvider[<<p, q>>] # <<>>
    BY <1>3 DEF UpdateOverheardValue
  <2>2. Tail(toProvider[<<p, q>>]) \in Seq(Stamped(clock))
    BY <2>1
  <2> QED
    BY <1>3, <2>2
<1>7. PICK heard : heard = Head(toProvider[<<p, q>>])
  OBVIOUS
<1>8. CASE Contradicts(heard, q)
  <2>1. /\ EmitValue(q, value[q], timestamp[q], wires)
        /\ overheard' = [overheard EXCEPT ![q] = NothingNew(q, value[q], timestamp[q])]
    BY <1>7, <1>8 DEF UpdateOverheardValue
  <2>2. /\ toProvider' \in [Providers \X Providers -> Seq(Stamped(clock))]
        /\ emittedValue' = [emittedValue EXCEPT ![q] = value[q]]
        /\ emittedTimestamp' = [emittedTimestamp EXCEPT ![q] = timestamp[q]]
        /\ toClient' = IF ~NothingNew(q, value[q], timestamp[q]) /\ subscribed[q]
                       THEN [toClient EXCEPT ![q] = Append(toClient[q], msg)]
                       ELSE toClient
    <3>1. PICK v \in AnyValue : v = value[q]
      BY <1>4
    <3>2. PICK t \in 0 .. clock : t = timestamp[q]
      BY <1>4
    <3>3. PICK c \in Nat : c = clock
      BY <1>1
    <3>4. PICK w : w = wires
      OBVIOUS
    <3>5. /\ EmitValue(q, v, t, w)
          /\ t \in 0 .. c
          /\ w \in [Providers \X Providers -> Seq(Stamped(c))]
          /\ toClient \in [Providers -> Seq(Stamped(c))]
          /\ emittedTimestamp \in [Providers -> 0 .. c]
      BY <1>3, <1>6, <2>1, <3>1, <3>2, <3>3, <3>4
    <3>6. /\ toProvider' \in [Providers \X Providers -> Seq(Stamped(c))]
          /\ emittedValue' = [emittedValue EXCEPT ![q] = v]
          /\ emittedTimestamp' = [emittedTimestamp EXCEPT ![q] = t]
          /\ toClient' = IF ~NothingNew(q, v, t) /\ subscribed[q]
                         THEN [toClient EXCEPT ![q] = Append(toClient[q], Timed(v, t))]
                         ELSE toClient
      BY <1>3, <3>5, Emission
    <3> QED
      BY <3>1, <3>2, <3>3, <3>6
  <2>3. NothingNew(q, value[q], timestamp[q]) \in BOOLEAN
    BY DEF NothingNew
  <2>4. PropertyTypeOK'
    <3>1. Append(toClient[q], msg) \in Seq(Stamped(clock))
      BY <1>3, <1>5
    <3>2. [toClient EXCEPT ![q] = Append(toClient[q], msg)] \in [Providers -> Seq(Stamped(clock))]
      BY <1>3, <3>1
    <3>3. toClient' \in [Providers -> Seq(Stamped(clock))]
      BY <1>3, <2>2, <3>2
    <3>4. [emittedTimestamp EXCEPT ![q] = timestamp[q]] \in [Providers -> 0 .. clock]
      BY <1>3, <1>4
    <3>5. [emittedValue EXCEPT ![q] = value[q]] \in [Providers -> AnyValue]
      BY <1>3, <1>4
    <3>6. overheard' \in [Providers -> BOOLEAN]
      BY <1>3, <2>1, <2>3
    <3> QED
      BY <1>1, <1>2, <1>3, <2>2, <3>3, <3>4, <3>5, <3>6 DEF PropertyTypeOK
  <2>5. BookkeepingFollows'
    <3> SUFFICES ASSUME NEW r \in Providers
                 PROVE  /\ emittedValue'[r] = value'[r]
                        /\ emittedTimestamp'[r] <= timestamp'[r]
                        /\ overheard'[r] => emittedTimestamp'[r] = timestamp'[r]
      BY DEF BookkeepingFollows
    <3>1. CASE r = q
      <4>1. emittedValue'[q] = value[q] /\ emittedTimestamp'[q] = timestamp[q]
        BY <1>3, <2>2
      <4> QED
        BY <1>1, <1>4, <3>1, <4>1
    <3>2. CASE r # q
      <4>1. /\ emittedValue'[r] = emittedValue[r]
            /\ emittedTimestamp'[r] = emittedTimestamp[r]
        BY <1>3, <2>2, <3>2
      <4>2. overheard'[r] = overheard[r]
        BY <1>3, <2>1, <3>2
      <4> QED
        BY <1>1, <4>1, <4>2 DEF PropertyInv, BookkeepingFollows
    <3> QED
      BY <3>1, <3>2
  <2>6. ASSUME NEW r \in Providers PROVE WireInv(r)'
    <3>1. CASE r = q /\ subscribed[q] /\ ~NothingNew(q, value[q], timestamp[q])
      <4>1. toClient'[q] = Append(toClient[q], msg)
        BY <1>3, <2>2, <3>1
      <4>2. /\ InOrder(Append(toClient[q], msg), shown[q], timestamp[q])
            /\ Latest(Append(toClient[q], msg), shown[q]) = value[q]
        <5>1. InOrder(toClient[q], shown[q], timestamp[q]) /\ timestamp[q] \in Nat
          BY <1>1, <1>4 DEF WireInv
        <5>2. timestamp[q] <= msg.time
          BY <1>5, <5>1
        <5> HIDE DEF msg
        <5> QED
          BY <1>4, <1>5, <5>1, <5>2, InOrderAppend
      <4> QED
        BY <1>1, <3>1, <4>1, <4>2 DEF WireInv, InOrder, Latest
    <3>2. CASE ~(r = q /\ subscribed[q] /\ ~NothingNew(q, value[q], timestamp[q]))
      <4>1. toClient'[r] = toClient[r]
        BY <1>3, <2>2, <3>2
      <4> QED
        BY <1>1, <4>1, UntouchedWire DEF PropertyInv
    <3> QED
      BY <3>1, <3>2
  <2> QED
    BY <1>1, <2>4, <2>5, <2>6 DEF PropertyInv
<1>9. CASE ~Contradicts(heard, q)
  <2>1. /\ toProvider' = wires
        /\ UNCHANGED <<emittedValue, emittedTimestamp, overheard, toClient>>
    BY <1>7, <1>9 DEF UpdateOverheardValue, emissionVars
  <2>2. PropertyTypeOK'
    BY <1>1, <1>2, <1>6, <2>1 DEF PropertyTypeOK
  <2>3. BookkeepingFollows'
    BY <1>1, <2>1 DEF PropertyInv, BookkeepingFollows
  <2>4. ASSUME NEW r \in Providers PROVE WireInv(r)'
    BY <1>1, <2>1, UntouchedWire DEF PropertyInv
  <2> QED
    BY <1>1, <2>2, <2>3, <2>4 DEF PropertyInv
<1> QED
  BY <1>8, <1>9

\* The steps of the client change its own end only.
LEMMA ClientKeeps ==
  ASSUME PropertyInv, NEW p \in Providers,
         UNCHANGED <<clock, intentionVars, emissionVars, toProvider>>,
         NEW wire \in Seq(Stamped(clock)), NEW got \in Stamped(clock), NEW sub \in BOOLEAN,
         toClient' = [toClient EXCEPT ![p] = wire],
         shown' = [shown EXCEPT ![p] = got],
         subscribed' = [subscribed EXCEPT ![p] = sub],
         InOrder(wire, got, timestamp[p]),
         sub => Latest(wire, got) = value[p],
         ~sub => wire = <<>>
  PROVE  PropertyInv'
<1>1. /\ PropertyTypeOK
      /\ UNCHANGED <<clock, value, timestamp, emittedValue, emittedTimestamp, overheard, toProvider>>
  BY DEF PropertyInv, intentionVars, emissionVars
<1>2. TimedValues = Stamped(clock) /\ TimedValues' = Stamped(clock)
  BY <1>1 DEF TimedValues, Stamped
<1>3. /\ toClient \in [Providers -> Seq(Stamped(clock))]
      /\ shown \in [Providers -> Stamped(clock)]
      /\ subscribed \in [Providers -> BOOLEAN]
  BY <1>1, <1>2 DEF PropertyTypeOK
<1>4. PropertyTypeOK'
  <2>1. toClient' \in [Providers -> Seq(Stamped(clock))]
    BY <1>3
  <2>2. shown' \in [Providers -> Stamped(clock)]
    BY <1>3
  <2>3. subscribed' \in [Providers -> BOOLEAN]
    BY <1>3
  <2> QED
    BY <1>1, <1>2, <2>1, <2>2, <2>3 DEF PropertyTypeOK
<1>5. BookkeepingFollows'
  BY <1>1 DEF PropertyInv, BookkeepingFollows
<1>6. ASSUME NEW r \in Providers PROVE WireInv(r)'
  <2>1. CASE r # p
    <3>1. /\ toClient'[r] = toClient[r] /\ shown'[r] = shown[r] /\ subscribed'[r] = subscribed[r]
      BY <1>3, <2>1
    <3> QED
      BY <1>1, <3>1, UntouchedWire DEF PropertyInv
  <2>2. CASE r = p
    <3>1. toClient'[p] = wire /\ shown'[p] = got /\ subscribed'[p] = sub
      BY <1>3
    <3> QED
      BY <1>1, <2>2, <3>1 DEF WireInv, InOrder, Latest
  <2> QED
    BY <2>1, <2>2
<1> QED
  BY <1>4, <1>5, <1>6 DEF PropertyInv

LEMMA SubscribeKeeps ==
  ASSUME PropertyInv, NEW p \in Providers, ClientSubscribes(p)
  PROVE  PropertyInv' /\ shown' = shown
<1>1. PropertyTypeOK /\ WireInv(p)
  BY DEF PropertyInv
<1>2. PICK msg \in Stamped(clock) : msg = Timed(value[p], timestamp[p])
  BY <1>1, Typed
<1>3. msg \in Wire /\ msg.value = value[p] /\ msg.time = timestamp[p] /\ timestamp[p] \in Nat
  BY <1>1, <1>2, Typed DEF Timed
<1>4. PICK wire \in Seq(Stamped(clock)) : wire = Append(toClient[p], msg)
  <2>1. toClient[p] \in Seq(Stamped(clock))
    BY <1>1, Typed
  <2>2. Append(toClient[p], msg) \in Seq(Stamped(clock))
    BY <2>1, AppendProperties
  <2> QED
    BY <2>2
<1>5. /\ toClient' = [toClient EXCEPT ![p] = wire]
      /\ subscribed' = [subscribed EXCEPT ![p] = TRUE]
      /\ UNCHANGED <<clock, intentionVars, emissionVars, toProvider>>
      /\ shown' = shown
  BY <1>2, <1>4 DEF ClientSubscribes
<1>6. shown' = [shown EXCEPT ![p] = shown[p]] /\ shown[p] \in Stamped(clock)
  BY <1>1, <1>5, Typed DEF PropertyTypeOK
<1>7. InOrder(wire, shown[p], timestamp[p]) /\ Latest(wire, shown[p]) = value[p]
  <2>1. /\ InOrder(toClient[p], shown[p], timestamp[p])
        /\ toClient[p] \in Seq(Wire) /\ shown[p] \in Wire /\ timestamp[p] <= msg.time
    BY <1>1, <1>3, Typed DEF WireInv
  <2> QED
    BY <1>3, <1>4, <2>1, InOrderAppend
<1>8. PropertyInv'
  <2>1. PICK got \in Stamped(clock) : got = shown[p]
    BY <1>6
  <2>2. PICK sub \in BOOLEAN : sub = TRUE
    OBVIOUS
  <2>3. /\ shown' = [shown EXCEPT ![p] = got]
        /\ subscribed' = [subscribed EXCEPT ![p] = sub]
        /\ InOrder(wire, got, timestamp[p]) /\ Latest(wire, got) = value[p]
    BY <1>5, <1>6, <1>7, <2>1, <2>2
  <2> QED
    BY <1>5, <2>2, <2>3, ClientKeeps
<1> QED
  BY <1>5, <1>8

LEMMA UnsubscribeKeeps ==
  ASSUME PropertyInv, NEW p \in Providers, ClientUnsubscribes(p)
  PROVE  PropertyInv' /\ shown' = shown
<1>1. PropertyTypeOK /\ WireInv(p)
  BY DEF PropertyInv
<1>2. PICK wire \in Seq(Stamped(clock)) : wire = <<>>
  <2>1. <<>> \in Seq(Stamped(clock))
    BY EmptySeq
  <2> QED
    BY <2>1
<1>3. PICK sub \in BOOLEAN : sub = FALSE
  OBVIOUS
<1>4. PICK got \in Stamped(clock) : got = shown[p]
  BY <1>1, Typed
<1>5. /\ toClient' = [toClient EXCEPT ![p] = wire]
      /\ subscribed' = [subscribed EXCEPT ![p] = sub]
      /\ UNCHANGED <<clock, intentionVars, emissionVars, toProvider>>
      /\ shown' = shown
  BY <1>2, <1>3 DEF ClientUnsubscribes
<1>6. shown' = [shown EXCEPT ![p] = got]
  BY <1>1, <1>4, <1>5 DEF PropertyTypeOK
<1>7. InOrder(wire, got, timestamp[p])
  <2>1. got.time <= timestamp[p]
    BY <1>1, <1>4 DEF WireInv, InOrder
  <2>2. Len(wire) = 0
    BY <1>2
  <2> QED
    BY <2>1, <2>2 DEF InOrder
<1>8. PropertyInv'
  BY <1>2, <1>3, <1>5, <1>6, <1>7, ClientKeeps
<1> QED
  BY <1>5, <1>8

LEMMA ReceiveKeeps ==
  ASSUME PropertyInv, NEW p \in Providers, ClientReceives(p)
  PROVE  PropertyInv' /\ \A r \in Providers : shown'[r].time >= shown[r].time
<1>1. /\ PropertyTypeOK /\ WireInv(p)
      /\ toClient[p] \in Seq(Stamped(clock)) /\ toClient[p] \in Seq(Wire) /\ toClient[p] # <<>>
      /\ shown[p] \in Wire /\ timestamp[p] \in Nat
      /\ shown \in [Providers -> TimedValues]
      /\ subscribed[p] \in BOOLEAN
  BY Typed DEF PropertyInv, PropertyTypeOK, ClientReceives
<1>2. PICK wire \in Seq(Stamped(clock)) : wire = Tail(toClient[p])
  <2>1. Tail(toClient[p]) \in Seq(Stamped(clock))
    BY <1>1, HeadTailProperties
  <2> QED
    BY <2>1
<1>3. PICK got \in Stamped(clock) : got = Head(toClient[p])
  BY <1>1
<1>4. PICK sub \in BOOLEAN : sub = subscribed[p]
  BY <1>1
<1>5. /\ toClient' = [toClient EXCEPT ![p] = wire]
      /\ shown' = [shown EXCEPT ![p] = got]
      /\ UNCHANGED <<clock, intentionVars, emissionVars, toProvider>>
      /\ subscribed' = subscribed
  BY <1>2, <1>3 DEF ClientReceives
<1>6. subscribed' = [subscribed EXCEPT ![p] = sub]
  BY <1>1, <1>4, <1>5 DEF PropertyTypeOK
<1>7. /\ InOrder(wire, got, timestamp[p])
      /\ Latest(wire, got) = Latest(toClient[p], shown[p])
      /\ shown[p].time <= got.time
  <2>1. InOrder(toClient[p], shown[p], timestamp[p])
    BY <1>1 DEF WireInv
  <2> QED
    BY <1>1, <1>2, <1>3, <2>1, InOrderTail
<1>8. subscribed[p] /\ Latest(toClient[p], shown[p]) = value[p]
  BY <1>1 DEF WireInv
<1>9. PropertyInv'
  BY <1>4, <1>5, <1>6, <1>7, <1>8, ClientKeeps
<1>10. ASSUME NEW r \in Providers PROVE shown'[r].time >= shown[r].time
  <2>1. CASE r = p
    BY <1>1, <1>5, <1>7, <2>1
  <2>2. CASE r # p
    <3>1. shown'[r] = shown[r]
      BY <1>1, <1>5, <2>2
    <3>2. shown[r].time \in Nat
      BY <1>1, Typed DEF Wire
    <3> QED
      BY <3>1, <3>2
  <2> QED
    BY <2>1, <2>2
<1> QED
  BY <1>9, <1>10

\* Every step keeps the invariant, and takes no older time stamp to the client.
LEMMA PropertyStep ==
  ASSUME PropertyInv, [Next]_propertyVars
  PROVE  PropertyInv' /\ \A r \in Providers : shown'[r].time >= shown[r].time
<1>1. \A r \in Providers : shown[r].time \in Nat
  BY Typed DEF PropertyInv, Wire
<1>2. shown' = shown => \A r \in Providers : shown'[r].time >= shown[r].time
  BY <1>1
<1>3. CASE UNCHANGED propertyVars
  <2>1. UNCHANGED <<clock, value, timestamp, emittedValue, emittedTimestamp, overheard,
                    subscribed, toClient, toProvider, shown>>
    BY <1>3 DEF propertyVars, intentionVars, emissionVars
  <2>2. PropertyTypeOK'
    BY <2>1 DEF PropertyInv, PropertyTypeOK, TimedValues
  <2>3. BookkeepingFollows'
    BY <2>1 DEF PropertyInv, BookkeepingFollows
  <2>4. \A r \in Providers : WireInv(r)'
    BY <2>1, UntouchedWire DEF PropertyInv
  <2> QED
    BY <1>2, <2>1, <2>2, <2>3, <2>4 DEF PropertyInv
<1>4. CASE Next
  <2>1. ASSUME NEW p \in Providers, NEW v \in AnyValue, SetValue(p, v)
        PROVE  PropertyInv' /\ shown' = shown
    BY <2>1, SetValueKeeps
  <2>2. ASSUME NEW p \in Providers, NEW q \in Providers, UpdateOverheardValue(p, q)
        PROVE  PropertyInv' /\ shown' = shown
    BY <2>2, OverheardKeeps
  <2>3. ASSUME NEW p \in Providers, ClientSubscribes(p)
        PROVE  PropertyInv' /\ shown' = shown
    BY <2>3, SubscribeKeeps
  <2>4. ASSUME NEW p \in Providers, ClientUnsubscribes(p)
        PROVE  PropertyInv' /\ shown' = shown
    BY <2>4, UnsubscribeKeeps
  <2>5. ASSUME NEW p \in Providers, ClientReceives(p)
        PROVE  PropertyInv' /\ \A r \in Providers : shown'[r].time >= shown[r].time
    BY <2>5, ReceiveKeeps
  <2> QED
    BY <1>2, <1>4, <2>1, <2>2, <2>3, <2>4, <2>5 DEF Next
<1> QED
  BY <1>3, <1>4

-----------------------------------------------------------------------------
(* The theorems                                                            *)

\* The inductive invariant: the bookkeeping of emissions follows the intention,
\* and the last message on the way to a subscribed client is the present value
\* (propertyprivate.cpp, setValue, emitValue, updateOverheardValue).
THEOREM PropertyInvariant == Spec => []PropertyInv
<1>1. Init => PropertyInv
  BY InitPropertyInv
<1>2. PropertyInv /\ [Next]_propertyVars => PropertyInv'
  BY PropertyStep
<1> QED
  BY <1>1, <1>2, PTL DEF Spec

\* Types; no time stamp lies in the future.
THEOREM PropertyTypes == Spec => []PropertyTypeOK
<1>1. PropertyInv => PropertyTypeOK
  BY DEF PropertyInv
<1> QED
  BY <1>1, PropertyInvariant, PTL

\* The value emitted last is the value set last, although most calls of
\* setValue emit nothing and nobody may be subscribed.
THEOREM BookkeepingHolds == Spec => []BookkeepingFollows
<1>1. PropertyInv => BookkeepingFollows
  BY DEF PropertyInv
<1> QED
  BY <1>1, PropertyInvariant, PTL

\* A subscribed client that has received what was sent shows the present value,
\* whatever the other providers signal.
THEOREM ClientInformed == Spec => []ClientIsInformed
<1>1. PropertyInv => ClientIsInformed
  BY DEF PropertyInv, WireInv, Latest, ClientIsInformed
<1> QED
  BY <1>1, PropertyInvariant, PTL

\* A client never receives an older time stamp from a provider than it had,
\* although a provider repeats an old value when it is contradicted.
THEOREM StampsAdvance == Spec => TimesAdvance
<1>1. PropertyInv /\ [Next]_propertyVars
        => [\A p \in Providers : shown'[p].time >= shown[p].time]_propertyVars
  BY PropertyStep
<1> QED
  BY <1>1, PropertyInvariant, PTL DEF Spec, TimesAdvance
=============================================================================
